--------------------------- MODULE AuthoringProofs ---------------------------
(***************************************************************************)
(* Proofs about what a developer's commands keep on disk, for every number *)
(* of them and every content of the files.                                 *)
(*                                                                         *)
(* WorkerStore: TypeOK is inductive: what the store holds has its own      *)
(* hash, what a client has verified is an artifact with the hash it was    *)
(* told, and the temporary file is whole when it is renamed.  Under it     *)
(* every step is a step of WorkerRegistry or changes nothing of it: a      *)
(* verified download is Take, the rename is Put, and a command that ends   *)
(* with an artifact in hand gives it up.                                   *)
(*                                                                         *)
(* FlowTranscripts: FlowInv has for every task the nodes that were         *)
(* accepted, each with the plan of its component, the transcript that      *)
(* follows from them, and, as long as no other run has the same file, the  *)
(* file that follows from the transcript.  That there is one mark on the   *)
(* way to a value is a property of Merge: the least position at which it   *)
(* stops to descend.                                                       *)
(*                                                                         *)
(* ConfigFiles: ConfigInv has for every file that was not disturbed at     *)
(* most one writer, whose document is what was reported and its own        *)
(* setting; the file says what was reported, but is empty while it is      *)
(* filled.  ConfigKnown says that the files the history knows are there,   *)
(* so a file that is read and was known before was read before.            *)
(***************************************************************************)
EXTENDS Authoring, SequenceTheorems, WellFoundedInduction, TLAPS

-----------------------------------------------------------------------------
(* WorkerStore: its types, and the registry that it implements.            *)

LEMMA InitType == Init => TypeOK
  BY DEF Init, TypeOK, Stages, Verified, Published

\* The end of a command leaves nothing to be verified.
LEMMA EndType ==
    ASSUME TypeOK, NEW c \in Clients, End(c), store' = store, working' = working,
           files' \in [Dirs -> [Versions -> Bytes \cup {None, Partial}]]
    PROVE  TypeOK'
  BY DEF TypeOK, End, Goto, Stages, Verified, args, working

LEMMA NextType == TypeOK /\ [Next]_vars => TypeOK'
  <1> SUFFICES ASSUME TypeOK, [Next]_vars PROVE TypeOK'
    OBVIOUS
  <1>1. CASE UNCHANGED vars
    BY <1>1 DEF TypeOK, vars
  <1>2. CASE Edit
    BY <1>2 DEF TypeOK, Edit, args
  <1>3. ASSUME NEW c \in Clients, BeginPublish(c) PROVE TypeOK'
    BY <1>3 DEF TypeOK, BeginPublish, Begin, Goto, Stages, Verified, args,
       working
  <1>4. ASSUME NEW c \in Clients, ReadDescribe(c) PROVE TypeOK'
    BY <1>4 DEF TypeOK, ReadDescribe, Goto, Stages, Verified, working
  <1>5. ASSUME NEW c \in Clients, ReadArtifact(c) PROVE TypeOK'
    BY <1>5, DigestAssumption
    DEF TypeOK, ReadArtifact, Goto, Stages, Verified, working, args, Bytes
  <1>6. ASSUME NEW c \in Clients, Post(c) PROVE TypeOK'
    <2> DEFINE posted == [artifact |-> bytes[c], sha256 |-> expected[c]]
    <2>1. posted \in Published /\ posted.sha256 = Sha[posted.artifact]
      BY <1>6, DigestAssumption DEF TypeOK, Post, Published, Bytes, Verified
    <2>2. store' = [store EXCEPT ![version[c]] = posted]
      BY <1>6 DEF Post
    <2>3. store' \in [Versions -> Published \cup {None}]
      BY <2>1, <2>2 DEF TypeOK
    <2>4. \A v \in Versions :
            store'[v] # None => store'[v].sha256 = Sha[store'[v].artifact]
      BY <2>1, <2>2 DEF TypeOK
    <2> HIDE DEF posted
    <2>5. QED
      BY <1>6, <2>3, <2>4
      DEF TypeOK, Post, End, Goto, Stages, Verified, args, working
  <1>7. ASSUME NEW c \in Clients, NEW v \in Versions, NEW d \in Dirs,
               BeginInstall(c, v, d)
        PROVE  TypeOK'
    BY <1>7 DEF TypeOK, BeginInstall, Begin, Goto, Stages, Verified, working
  <1>8. ASSUME NEW c \in Clients, GetMetadata(c) PROVE TypeOK'
    <2>1. /\ store[version[c]].sha256 \in Digests
          /\ store[version[c]].artifact \in Artifacts
          /\ store[version[c]].sha256 = Sha[store[version[c]].artifact]
      BY <1>8 DEF TypeOK, GetMetadata, Published
    <2>2. QED
      BY <1>8, <2>1
      DEF TypeOK, GetMetadata, Goto, Stages, Verified, working, args
  <1>9. ASSUME NEW c \in Clients, Download(c) PROVE TypeOK'
    <2>1. CASE End(c) /\ UNCHANGED <<store, files, working>>
      BY <2>1, EndType DEF TypeOK
    <2>2. CASE ~End(c)
      <3>1. PICK served \in {store[version[c]].artifact, Damaged} :
              /\ Sha[served] = expected[c]
              /\ bytes' = [bytes EXCEPT ![c] = served]
              /\ Goto(c, "create")
              /\ UNCHANGED <<round, args, expected, temp>>
        BY <1>9, <2>2 DEF Download
      <3>2. served \in Artifacts
        BY <1>9, <3>1, DigestAssumption
        DEF TypeOK, Download, Published, Bytes, Verified
      <3>3. QED
        BY <1>9, <3>1, <3>2
        DEF TypeOK, Download, Goto, Stages, Verified, working, args, Bytes
    <2>3. QED BY <1>9, <2>1, <2>2 DEF Download
  <1>10. ASSUME NEW c \in Clients, CreateTemp(c) PROVE TypeOK'
    BY <1>10 DEF TypeOK, CreateTemp, Goto, Stages, Verified, working, args
  <1>11. ASSUME NEW c \in Clients, WriteTemp(c) PROVE TypeOK'
    BY <1>11 DEF TypeOK, WriteTemp, Goto, Stages, Verified, working, args
  <1>12. ASSUME NEW c \in Clients, Persist(c) PROVE TypeOK'
    <2>1. files' \in [Dirs -> [Versions -> Bytes \cup {None, Partial}]]
      BY <1>12 DEF TypeOK, Persist
    <2>2. QED BY <1>12, <2>1, EndType DEF Persist
  <1>13. ASSUME NEW c \in Clients, Stop(c) PROVE TypeOK'
    BY <1>13, EndType DEF Stop, TypeOK
  <1>14. QED
    BY <1>1, <1>2, <1>3, <1>4, <1>5, <1>6, <1>7, <1>8, <1>9, <1>10, <1>11,
       <1>12, <1>13
    DEF Next

\* Every variable keeps its type; what the store serves has its own hash, what
\* a client has verified is an artifact of the hash it was told, and a file is
\* renamed when it is whole.
THEOREM TypeCorrect == Spec => []TypeOK
  BY InitType, NextType, PTL DEF Spec

-----------------------------------------------------------------------------
(* The refinement.                                                         *)

LEMMA InitRefines == Init => Registry!Init
  BY DEF Init, Registry!Init, Held, Verified

\* A command that ends gives up what it holds, if it holds something.
LEMMA EndRefines ==
    ASSUME TypeOK, NEW c \in Clients, End(c), UNCHANGED <<store, files>>
    PROVE  Registry!GiveUp(c) \/ UNCHANGED Registry!vars
  <1> DEFINE held == [q \in Clients |-> Held(q)]
  <1>1. held' = [held EXCEPT ![c] = None]
    BY DEF End, Goto, args, Held, Verified, TypeOK
  <1>2. CASE held[c] = None
    BY <1>1, <1>2 DEF Registry!vars
  <1>3. CASE held[c] # None
    BY <1>1, <1>3 DEF Registry!GiveUp
  <1>4. QED BY <1>2, <1>3

LEMMA NextRefines == TypeOK /\ [Next]_vars => [Registry!Next]_(Registry!vars)
  <1> SUFFICES ASSUME TypeOK, [Next]_vars
               PROVE  Registry!Next \/ UNCHANGED Registry!vars
    OBVIOUS
  <1> DEFINE held == [q \in Clients |-> Held(q)]
             held_store == [v \in Versions |->
                              IF store[v] = None THEN None
                              ELSE store[v].artifact]
  <1>1. CASE UNCHANGED vars
    BY <1>1 DEF vars, Registry!vars, Held
  <1>2. CASE Edit
    BY <1>2 DEF Edit, args, Registry!vars, Held
  <1>3. ASSUME NEW c \in Clients,
               BeginPublish(c) \/ ReadDescribe(c) \/ ReadArtifact(c)
        PROVE  UNCHANGED Registry!vars
    <2>1. held' = held
      BY <1>3
      DEF BeginPublish, Begin, ReadDescribe, ReadArtifact, Goto, args, Held,
          Verified, TypeOK
    <2>2. UNCHANGED <<store, files>>
      BY <1>3 DEF BeginPublish, Begin, ReadDescribe, ReadArtifact
    <2>3. QED BY <2>1, <2>2 DEF Registry!vars
  <1>4. ASSUME NEW c \in Clients, Post(c)
        PROVE  \E v \in Versions, a \in Artifacts : Registry!Publish(v, a)
    <2>1. version[c] \in Versions /\ bytes[c] \in Artifacts
      BY <1>4 DEF Post, TypeOK
    <2> DEFINE posted == [artifact |-> bytes[c], sha256 |-> expected[c]]
    <2>2. posted \in Published
      BY <1>4, DigestAssumption DEF Post, TypeOK, Published, Bytes, Verified
    <2>3. posted # None /\ posted.artifact = bytes[c]
      BY <2>2, DigestAssumption
    <2>4. store' = [store EXCEPT ![version[c]] = posted]
      BY <1>4 DEF Post
    <2> HIDE DEF posted
    <2>5. PICK v \in Versions, a \in Artifacts : v = version[c] /\ a = bytes[c]
      BY <2>1
    <2>6. held_store' = [held_store EXCEPT ![v] = a]
      BY <2>3, <2>4, <2>5 DEF TypeOK
    <2>7. held' = held
      BY <1>4 DEF Post, End, Goto, args, Held, Verified, TypeOK
    <2>8. Registry!Publish(v, a)
      BY <1>4, <2>6, <2>7 DEF Post, Registry!Publish
    <2>9. QED BY <2>8
  <1>5. ASSUME NEW c \in Clients,
               \/ \E v \in Versions, d \in Dirs : BeginInstall(c, v, d)
               \/ GetMetadata(c)
        PROVE  UNCHANGED Registry!vars
    <2>1. held' = held
      BY <1>5 DEF BeginInstall, Begin, GetMetadata, Goto, args, Held, Verified,
         TypeOK
    <2>2. UNCHANGED <<store, files>>
      BY <1>5 DEF BeginInstall, Begin, GetMetadata
    <2>3. QED BY <2>1, <2>2 DEF Registry!vars
  <1>6. ASSUME NEW c \in Clients, Download(c)
        PROVE  \/ \E v \in Versions, d \in Dirs : Registry!Take(c, v, d)
               \/ Registry!GiveUp(c)
               \/ UNCHANGED Registry!vars
    <2>1. CASE End(c)
      BY <1>6, <2>1, EndRefines DEF Download
    <2>2. CASE ~End(c)
      <3>1. PICK served \in {store[version[c]].artifact, Damaged} :
              /\ Sha[served] = expected[c]
              /\ bytes' = [bytes EXCEPT ![c] = served]
              /\ Goto(c, "create")
              /\ UNCHANGED <<round, args, expected, temp>>
        BY <1>6, <2>2 DEF Download
      <3>2. /\ stage[c] = "download" /\ store[version[c]] # None
            /\ version[c] \in Versions /\ dir[c] \in Dirs
        BY <1>6 DEF Download, TypeOK
      <3>3. served = store[version[c]].artifact
        BY <3>1, <3>2, DigestAssumption DEF TypeOK, Published, Bytes
      <3>4. held[c] = None
        BY <3>2 DEF Held, Verified
      <3>5. held' = [held EXCEPT ![c] = [version |-> version[c],
                                         dir |-> dir[c],
                                         artifact |-> served]]
        BY <3>1 DEF Goto, args, Held, Verified, TypeOK
      <3>6. held_store[version[c]] = served /\ served # None
        BY <3>2, <3>3, DigestAssumption DEF TypeOK, Published, Bytes
      <3>7. Registry!Take(c, version[c], dir[c])
        BY <1>6, <3>4, <3>5, <3>6 DEF Registry!Take, Download
      <3>8. QED BY <3>2, <3>7
    <2>3. QED BY <2>1, <2>2
  <1>7. ASSUME NEW c \in Clients, CreateTemp(c) \/ WriteTemp(c)
        PROVE  UNCHANGED Registry!vars
    <2>1. held' = held
      BY <1>7 DEF CreateTemp, WriteTemp, Goto, args, Held, Verified, TypeOK
    <2>2. UNCHANGED <<store, files>>
      BY <1>7 DEF CreateTemp, WriteTemp
    <2>3. QED BY <2>1, <2>2 DEF Registry!vars
  <1>8. ASSUME NEW c \in Clients, Persist(c) PROVE Registry!Put(c)
    <2>1. /\ version[c] \in Versions /\ dir[c] \in Dirs
          /\ bytes[c] \in Artifacts /\ temp[c] = bytes[c]
      BY <1>8 DEF Persist, TypeOK, Verified
    <2> DEFINE h == [version |-> version[c], dir |-> dir[c],
                     artifact |-> bytes[c]]
    <2>2. held[c] = h
      BY <1>8 DEF Persist, Held, Verified
    <2>3. h \in Registry!Holdings /\ h # None
      BY <2>1, DigestAssumption DEF Registry!Holdings
    <2>4. h.version = version[c] /\ h.dir = dir[c] /\ h.artifact = temp[c]
      BY <2>1
    <2>5. held' = [held EXCEPT ![c] = None]
      BY <1>8 DEF Persist, End, Goto, args, Held, Verified, TypeOK
    <2>6. files' = [files EXCEPT ![held[c].dir][held[c].version] =
                        held[c].artifact]
      BY <1>8, <2>2, <2>4 DEF Persist
    <2>7. QED BY <1>8, <2>2, <2>3, <2>5, <2>6 DEF Registry!Put, Persist
  <1>9. ASSUME NEW c \in Clients, Stop(c)
        PROVE  Registry!GiveUp(c) \/ UNCHANGED Registry!vars
    BY <1>9, EndRefines DEF Stop
  <1>10. QED
    BY <1>1, <1>2, <1>3, <1>4, <1>5, <1>6, <1>7, <1>8, <1>9
    DEF Next, Registry!Next

\* Installing a worker implements the registry: a file only ever changes to an
\* artifact that the store held for its version when the client took it,
\* whatever is published, damaged, interrupted or installed meanwhile.
THEOREM Refinement == Spec => ImplementsRegistry
  BY InitRefines, NextRefines, TypeCorrect, PTL
  DEF Spec, ImplementsRegistry, Registry!Spec

-----------------------------------------------------------------------------
(* FlowTranscripts: positions, and where merging stops.                    *)

Less == {mn \in Nat \X Nat : mn[1] < mn[2]}

\* Every set of naturals that is not empty has a least member.
LEMMA LeastOfNaturals ==
    ASSUME NEW S \in SUBSET Nat, S # {}
    PROVE  \E m \in S : \A n \in S : m <= n
  <1>1. IsWellFoundedOn(Less, Nat)
    BY NatLessThanWellFounded DEF OpToRel, Less
  <1>2. PICK m \in S : \A n \in S : ~(<<n, m>> \in Less)
    BY <1>1, WFMin, Zenon
  <1>3. \A n \in S : n < m => <<n, m>> \in Less
    BY DEF Less
  <1>4. \A n \in S : n \in Nat /\ ~(n < m)
    BY <1>2, <1>3
  <1>5. m \in S /\ m \in Nat
    BY <1>2
  <1>6. \A n \in S : m <= n
    BY <1>4, <1>5
  <1>7. QED BY <1>5, <1>6

\* FlattenSeq is a recursive function on the positions; this says that f is it.
Flattens(parts, f) ==
    f = [i \in 1..Len(parts) |->
            IF i = 1 THEN parts[i] ELSE f[i - 1] \o parts[i]]

\* A sequence cut into its elements and put together again is itself: by the
\* least prefix for which it is not.
LEMMA FlattenOfSingletons ==
    ASSUME NEW S, NEW keys \in Seq(S)
    PROVE  Flow!FlattenSeq([i \in DOMAIN keys |-> <<keys[i]>>]) = keys
  <1> DEFINE parts == [i \in DOMAIN keys |-> <<keys[i]>>]
             N == Len(keys)
             f == CHOOSE g : Flattens(parts, g)
             prefix == [i \in 1..N |-> SubSeq(keys, 1, i)]
  <1>1. N \in Nat /\ DOMAIN keys = 1..N /\ Len(parts) = N
        /\ \A i \in 1..N : parts[i] = <<keys[i]>>
    OBVIOUS
  <1>2. CASE N = 0
    BY <1>1, <1>2 DEF Flow!FlattenSeq
  <1>3. CASE N # 0
    <2>1. Flattens(parts, prefix)
      <3>1. ASSUME NEW i \in 1..N
            PROVE  prefix[i] = IF i = 1 THEN parts[i] ELSE prefix[i - 1] \o parts[i]
        <4>1. 1 \in 1..N /\ i \in 1..N /\ i - 1 \in 0..N
          BY <1>1, <1>3
        <4>2. SubSeq(keys, 1, i) = SubSeq(keys, 1, i - 1) \o <<keys[i]>>
          BY <4>1, SubSeqRecursiveSecond
        <4>3. CASE i = 1
          <5>1. SubSeq(keys, 1, 0) = <<>>
            BY SubSeqEmpty
          <5>2. <<>> \o <<keys[i]>> = <<keys[i]>>
            OBVIOUS
          <5>3. i - 1 = 0
            BY <4>3
          <5>4. SubSeq(keys, 1, i) = <<keys[i]>>
            BY <4>2, <5>1, <5>2, <5>3, Zenon
          <5>5. QED BY <1>1, <4>3, <5>4
        <4>4. CASE i # 1
          BY <1>1, <4>1, <4>2, <4>4
        <4>5. QED BY <4>3, <4>4
      <3>2. QED BY <1>1, <3>1 DEF Flattens
    <2>2. Flattens(parts, f)
      BY <2>1
    <2>3. Flow!FlattenSeq(parts) = f[N]
      BY <1>1, <1>3 DEF Flow!FlattenSeq, Flattens
    <2> HIDE DEF f, parts
    <2> DEFINE Bad == {i \in 1..N : f[i] # SubSeq(keys, 1, i)}
    <2>4. SUFFICES ASSUME Bad # {} PROVE FALSE
      <3>1. N \in 1..N /\ SubSeq(keys, 1, N) = keys
        BY <1>1, <1>3
      <3>2. QED BY <2>3, <3>1 DEF parts
    <2>5. PICK n \in Bad : \A m \in Bad : n <= m
      <3>1. Bad \in SUBSET Nat
        OBVIOUS
      <3> HIDE DEF Bad
      <3>2. QED BY <2>4, <3>1, LeastOfNaturals
    <2>6. n \in 1..N /\ f[n] = IF n = 1 THEN <<keys[n]>> ELSE f[n - 1] \o <<keys[n]>>
      BY <1>1, <2>2, <2>5 DEF Flattens
    <2>7. CASE n = 1
      <3>1. SubSeq(keys, 1, 1) = SubSeq(keys, 1, 0) \o <<keys[1]>>
        BY <1>1, <2>6, <2>7, SubSeqRecursiveSecond
      <3>2. SubSeq(keys, 1, 0) = <<>>
        BY SubSeqEmpty
      <3>3. <<>> \o <<keys[1]>> = <<keys[1]>>
        OBVIOUS
      <3>4. QED BY <2>5, <2>6, <2>7, <3>1, <3>2, <3>3
    <2>8. CASE n # 1
      <3>1. n - 1 \in 1..N /\ n - 1 \notin Bad
        <4>1. n - 1 \in 1..N /\ ~(n <= n - 1)
          BY <1>1, <2>6, <2>8
        <4> HIDE DEF Bad
        <4>2. QED BY <2>5, <4>1
      <3>2. f[n - 1] = SubSeq(keys, 1, n - 1)
        BY <3>1
      <3>3. SubSeq(keys, 1, n) = SubSeq(keys, 1, n - 1) \o <<keys[n]>>
        BY <1>1, <2>6, SubSeqRecursiveSecond
      <3>4. QED BY <2>5, <2>6, <2>8, <3>2, <3>3
    <2>9. QED BY <2>7, <2>8
  <1>4. QED BY <1>2, <1>3

\* A prefix of a sequence, by its length.
LEMMA PrefixOf ==
    ASSUME NEW S, NEW p \in Seq(S), NEW n \in 0..Len(p)
    PROVE  /\ SubSeq(p, 1, n) \in Seq(S) /\ Len(SubSeq(p, 1, n)) = n
           /\ \A i \in 1..n : SubSeq(p, 1, n)[i] = p[i]
           /\ \A m \in 0..n : SubSeq(SubSeq(p, 1, n), 1, m) = SubSeq(p, 1, m)
           /\ SubSeq(p, 1, Len(p)) = p /\ SubSeq(p, 1, 0) = <<>>
           /\ n # 0 => Flow!Front(SubSeq(p, 1, n)) = SubSeq(p, 1, n - 1)
  <1>1. /\ SubSeq(p, 1, n) \in Seq(S) /\ Len(SubSeq(p, 1, n)) = n
        /\ \A i \in 1..n : SubSeq(p, 1, n)[i] = p[i]
    OBVIOUS
  <1>2. ASSUME NEW m \in 0..n
        PROVE  SubSeq(SubSeq(p, 1, n), 1, m) = SubSeq(p, 1, m)
    <2> DEFINE q == SubSeq(p, 1, n)
    <2>1. /\ q \in Seq(S) /\ Len(q) = n /\ \A i \in 1..n : q[i] = p[i]
          /\ m \in Nat /\ n \in Nat /\ m <= n
      BY <1>1
    <2> HIDE DEF q
    <2>2. /\ SubSeq(q, 1, m) \in Seq(S) /\ Len(SubSeq(q, 1, m)) = m
          /\ SubSeq(p, 1, m) \in Seq(S) /\ Len(SubSeq(p, 1, m)) = m
          /\ \A i \in 1..m : SubSeq(q, 1, m)[i] = SubSeq(p, 1, m)[i]
      BY <2>1
    <2>3. SubSeq(q, 1, m) = SubSeq(p, 1, m)
      BY <2>2, SeqEqual
    <2>4. QED BY <2>3 DEF q
  <1>3. SubSeq(p, 1, Len(p)) = p
    BY SubSeqFull
  <1>4. SubSeq(p, 1, 0) = <<>>
    BY SubSeqEmpty
  <1>5. n # 0 => Flow!Front(SubSeq(p, 1, n)) = SubSeq(p, 1, n - 1)
    <2>1. Flow!Front(SubSeq(p, 1, n)) = SubSeq(SubSeq(p, 1, n), 1, n - 1)
      BY <1>1 DEF Flow!Front
    <2>2. n # 0 => n - 1 \in 0..n
      OBVIOUS
    <2>3. QED BY <1>2, <2>1, <2>2
  <1>6. QED BY <1>1, <1>2, <1>3, <1>4, <1>5

\* What is above a position of a value is one too, and a mapping.
LEMMA Above ==
    ASSUME NEW v, Flow!IsValue(v), NEW p \in DOMAIN v, NEW n \in 0..Len(p)
    PROVE  /\ p \in Seq(FlowKeys) /\ SubSeq(p, 1, n) \in DOMAIN v
           /\ n < Len(p) => v[SubSeq(p, 1, n)] = Mapping
  <1>1. p \in Seq(FlowKeys) /\ Len(p) \in Nat
    BY DEF Flow!IsValue
  <1>2. CASE n = Len(p)
    <2>1. SubSeq(p, 1, n) = p
      BY <1>1, <1>2, SubSeqFull
    <2>2. ~(n < Len(p))
      BY <1>1, <1>2
    <2>3. QED BY <1>1, <2>1, <2>2, Zenon
  <1>3. CASE n < Len(p)
    <2>1. n \in 0 .. Len(p) - 1
      BY <1>1, <1>3
    <2>2. QED BY <1>1, <2>1 DEF Flow!IsValue
  <1>4. QED BY <1>1, <1>2, <1>3

\* Where merge_node descends, it has descended all the way.
LEMMA DescendsAbove ==
    ASSUME NEW d, NEW v, Flow!IsValue(d), Flow!IsValue(v), NEW p,
           Flow!Descends(d, v, p), NEW n \in 0..Len(p)
    PROVE  Flow!Descends(d, v, SubSeq(p, 1, n))
  <1>1. /\ p \in DOMAIN d /\ p \in DOMAIN v
        /\ d[p] = Mapping /\ v[p] = Mapping
    BY DEF Flow!Descends, Flow!IsMapping
  <1>2. p \in Seq(FlowKeys) /\ Len(p) \in Nat
    BY <1>1 DEF Flow!IsValue
  <1>3. CASE n = Len(p)
    BY <1>2, <1>3, PrefixOf
  <1>4. CASE n < Len(p)
    BY <1>1, <1>4, Above DEF Flow!Descends, Flow!IsMapping
  <1>5. QED BY <1>2, <1>3, <1>4

\* On the way to a leaf of the merged value merge_node stops exactly once.
LEMMA OneStop ==
    ASSUME NEW d, NEW v, Flow!IsValue(d), Flow!IsValue(v),
           Flow!IsMapping(d, <<>>), Flow!IsMapping(v, <<>>),
           NEW leaf \in Flow!Leaves(Flow!MergedValue(d, v))
    PROVE  \E n \in 1..Len(leaf) :
             /\ SubSeq(leaf, 1, n) \in Flow!Met(d, v)
             /\ \A m \in 1..Len(leaf) :
                  SubSeq(leaf, 1, m) \in Flow!Met(d, v) => m = n
  <1> DEFINE value == Flow!MergedValue(d, v)
             Stops == {n \in 1..Len(leaf) : ~Flow!Descends(d, v, SubSeq(leaf, 1, n))}
  <1>1. /\ leaf \in DOMAIN d \/ leaf \in DOMAIN v
        /\ leaf \in DOMAIN v => v[leaf] # Mapping
    BY DEF Flow!Leaves, Flow!MergedValue
  <1>2. leaf \in Seq(FlowKeys) /\ Len(leaf) \in Nat
    BY <1>1 DEF Flow!IsValue
  <1>3. ~Flow!Descends(d, v, leaf)
    BY <1>1 DEF Flow!Descends, Flow!IsMapping
  <1>4. Flow!Descends(d, v, <<>>)
    BY DEF Flow!Descends
  <1>5. SubSeq(leaf, 1, Len(leaf)) = leaf /\ SubSeq(leaf, 1, 0) = <<>>
    BY <1>2, PrefixOf
  <1>6. Len(leaf) \in Stops
    <2>1. ASSUME Len(leaf) = 0 PROVE FALSE
      <3>1. leaf = <<>>
        BY <1>2, <2>1, EmptySeq
      <3>2. QED BY <1>3, <1>4, <3>1
    <2>2. Len(leaf) \in 1..Len(leaf)
      BY <1>2, <2>1
    <2>3. ~Flow!Descends(d, v, SubSeq(leaf, 1, Len(leaf)))
      BY <1>3, <1>5, Zenon
    <2>4. QED BY <2>2, <2>3
  <1>7. PICK n \in Stops : \A m \in Stops : n <= m
    <2>1. Stops \in SUBSET Nat
      OBVIOUS
    <2> HIDE DEF Stops
    <2>2. QED BY <1>6, <2>1, LeastOfNaturals
  <1>8. n \in 1..Len(leaf) /\ ~Flow!Descends(d, v, SubSeq(leaf, 1, n))
    BY <1>7
  <1>9. Flow!Descends(d, v, SubSeq(leaf, 1, n - 1))
    <2>1. CASE n = 1
      <3>1. n - 1 = 0
        BY <2>1
      <3>2. QED BY <1>4, <1>5, <3>1, Zenon
    <2>2. CASE n # 1
      <3>1. n - 1 \in 1..Len(leaf) /\ ~(n <= n - 1)
        BY <1>2, <1>8, <2>2
      <3>2. n - 1 \notin Stops
        <4> HIDE DEF Stops
        <4>1. QED BY <1>7, <3>1
      <3>3. QED BY <3>1, <3>2
    <2>3. QED BY <2>1, <2>2
  <1>10. ASSUME NEW m \in 1..Len(leaf)
         PROVE  /\ SubSeq(leaf, 1, m) \in DOMAIN d \cup DOMAIN v
                /\ SubSeq(leaf, 1, m) # <<>>
                /\ Flow!Front(SubSeq(leaf, 1, m)) = SubSeq(leaf, 1, m - 1)
    <2>1. m \in 0..Len(leaf) /\ m # 0
      BY <1>2
    <2>2. SubSeq(leaf, 1, m) \in DOMAIN d \cup DOMAIN v
      BY <1>1, <2>1, Above
    <2>3. /\ Len(SubSeq(leaf, 1, m)) = m
          /\ Flow!Front(SubSeq(leaf, 1, m)) = SubSeq(leaf, 1, m - 1)
      BY <1>2, <2>1, PrefixOf
    <2>4. QED BY <2>1, <2>2, <2>3
  <1>11. SubSeq(leaf, 1, n) \in Flow!Met(d, v)
    BY <1>8, <1>9, <1>10 DEF Flow!Met
  <1>12. ASSUME NEW m \in 1..Len(leaf), SubSeq(leaf, 1, m) \in Flow!Met(d, v)
         PROVE  m = n
    <2>1. /\ ~Flow!Descends(d, v, SubSeq(leaf, 1, m))
          /\ Flow!Descends(d, v, SubSeq(leaf, 1, m - 1))
      BY <1>10, <1>12 DEF Flow!Met
    <2>2. n <= m
      <3>1. m \in Stops
        BY <2>1
      <3> HIDE DEF Stops
      <3>2. QED BY <1>7, <3>1
    <2>3. CASE n < m
      <3>1. m - 1 \in 0..Len(leaf) /\ n \in 0..(m - 1)
        BY <1>2, <1>8, <2>3
      <3>2. /\ Len(SubSeq(leaf, 1, m - 1)) = m - 1
            /\ SubSeq(SubSeq(leaf, 1, m - 1), 1, n) = SubSeq(leaf, 1, n)
        BY <1>2, <3>1, PrefixOf
      <3>3. Flow!Descends(d, v, SubSeq(leaf, 1, n))
        BY <2>1, <3>1, <3>2, DescendsAbove
      <3>4. QED BY <1>8, <3>3
    <2>4. QED BY <1>2, <1>8, <2>2, <2>3
  <1>13. QED BY <1>8, <1>11, <1>12

\* Before merge_node stops, both values are mappings.
LEMMA AboveMet ==
    ASSUME NEW d, NEW v, Flow!IsValue(d), Flow!IsValue(v),
           NEW at \in Flow!Met(d, v), NEW n \in 0 .. Len(at) - 1
    PROVE  /\ at \in Seq(FlowKeys)
           /\ Flow!Descends(d, v, SubSeq(at, 1, n))
  <1>1. /\ at \in DOMAIN d \cup DOMAIN v /\ at # <<>>
        /\ Flow!Descends(d, v, Flow!Front(at))
    BY DEF Flow!Met
  <1>2. at \in Seq(FlowKeys) /\ Len(at) \in Nat
    BY <1>1 DEF Flow!IsValue
  <1>3. Len(at) \in 0..Len(at) /\ Len(at) - 1 \in 0..Len(at) /\ Len(at) # 0
        /\ n \in 0..(Len(at) - 1)
    BY <1>2
  <1>4. Flow!Front(at) = SubSeq(at, 1, Len(at) - 1)
    BY DEF Flow!Front
  <1>5. /\ Len(SubSeq(at, 1, Len(at) - 1)) = Len(at) - 1
        /\ SubSeq(SubSeq(at, 1, Len(at) - 1), 1, n) = SubSeq(at, 1, n)
    BY <1>2, <1>3, PrefixOf
  <1>6. Flow!Descends(d, v, SubSeq(SubSeq(at, 1, Len(at) - 1), 1, n))
    BY <1>1, <1>3, <1>4, <1>5, DescendsAbove
  <1>7. QED BY <1>2, <1>5, <1>6

\* A prefix is a first part, and it is below the value where the longer one is.
LEMMA PrefixIn ==
    ASSUME NEW v, Flow!IsValue(v), NEW p \in DOMAIN v, NEW at \in Seq(FlowKeys),
           Flow!IsPrefix(at, p)
    PROVE  /\ at \in DOMAIN v /\ p \in Seq(FlowKeys)
           /\ Len(at) \in 0..Len(p) /\ SubSeq(p, 1, Len(at)) = at
           /\ at # p => v[at] = Mapping
  <1>1. p \in Seq(FlowKeys) /\ Len(p) \in Nat /\ Len(at) \in Nat
    BY DEF Flow!IsValue
  <1>2. Len(at) \in 0..Len(p) /\ SubSeq(p, 1, Len(at)) = SubSeq(at, 1, Len(at))
    BY <1>1 DEF Flow!IsPrefix
  <1>3. SubSeq(at, 1, Len(at)) = at /\ SubSeq(p, 1, Len(p)) = p
    BY <1>1, SubSeqFull
  <1>4. SubSeq(p, 1, Len(at)) = at
    BY <1>2, <1>3
  <1>5. at \in DOMAIN v /\ (Len(at) < Len(p) => v[at] = Mapping)
    BY <1>2, <1>4, Above
  <1>6. at # p => Len(at) # Len(p)
    BY <1>3, <1>4
  <1>7. QED BY <1>1, <1>2, <1>4, <1>5, <1>6

\* Where merge_node stops without a value of the node, the default is taken
\* with all that is below it.
LEMMA DefaultTaken ==
    ASSUME NEW d, NEW v, Flow!IsValue(d), Flow!IsValue(v),
           NEW at \in Flow!Met(d, v), at \notin DOMAIN v
    PROVE  Flow!Same(Flow!MergedValue(d, v), d, at)
  <1> DEFINE value == Flow!MergedValue(d, v)
  <1>1. at \in Seq(FlowKeys) /\ Len(at) \in Nat
    BY DEF Flow!Met, Flow!IsValue
  <1>2. ASSUME NEW p \in DOMAIN v, Flow!IsPrefix(at, p) PROVE FALSE
    BY <1>1, <1>2, PrefixIn
  <1>3. ASSUME NEW p \in DOMAIN d, Flow!IsPrefix(at, p)
        PROVE  p \in DOMAIN value /\ value[p] = d[p]
    <2>1. p \notin DOMAIN v
      BY <1>2, <1>3
    <2>2. p \in Seq(FlowKeys) /\ Len(p) \in Nat /\ Len(at) \in 0..Len(p)
          /\ SubSeq(p, 1, Len(at)) = at
      BY <1>1, <1>3, PrefixIn
    <2>3. ASSUME NEW n \in 0..Len(p), SubSeq(p, 1, n) \in DOMAIN v
          PROVE  Flow!IsMapping(v, SubSeq(p, 1, n))
      <3>1. CASE n < Len(at)
        <4>1. n \in 0 .. Len(at) - 1 /\ n \in 0..Len(at)
          BY <1>1, <3>1
        <4>2. Flow!Descends(d, v, SubSeq(at, 1, n))
          BY <4>1, AboveMet
        <4>3. SubSeq(at, 1, n) = SubSeq(p, 1, n)
          BY <2>2, <4>1, PrefixOf
        <4>4. QED BY <4>2, <4>3 DEF Flow!Descends
      <3>2. CASE Len(at) <= n
        <4>1. Len(at) \in 0..n
          BY <1>1, <3>2
        <4>2. SubSeq(SubSeq(p, 1, n), 1, Len(at)) = SubSeq(p, 1, Len(at))
              /\ Len(SubSeq(p, 1, n)) = n
          BY <2>2, <4>1, PrefixOf
        <4>3. at \in DOMAIN v
          BY <2>2, <2>3, <4>1, <4>2, Above
        <4>4. QED BY <4>3
      <3>3. QED BY <1>1, <3>1, <3>2
    <2>4. QED BY <1>3, <2>1, <2>3 DEF Flow!MergedValue
  <1>4. ASSUME NEW p \in DOMAIN value, Flow!IsPrefix(at, p) PROVE p \in DOMAIN d
    BY <1>2, <1>4 DEF Flow!MergedValue
  <1>5. QED BY <1>3, <1>4 DEF Flow!Same

\* Where it stops at a value of the node, that one is.
LEMMA OverrideTaken ==
    ASSUME NEW d, NEW v, Flow!IsValue(d), Flow!IsValue(v),
           NEW at \in Flow!Met(d, v), at \in DOMAIN v
    PROVE  Flow!Same(Flow!MergedValue(d, v), v, at)
  <1> DEFINE value == Flow!MergedValue(d, v)
  <1>1. at \in Seq(FlowKeys) /\ Len(at) \in Nat
    BY DEF Flow!IsValue
  <1>2. ASSUME NEW p \in DOMAIN value, Flow!IsPrefix(at, p) PROVE p \in DOMAIN v
    <2>1. SUFFICES ASSUME p \notin DOMAIN v PROVE FALSE
      OBVIOUS
    <2>2. /\ p \in DOMAIN d
          /\ \A n \in 0 .. Len(p) : SubSeq(p, 1, n) \in DOMAIN v =>
               Flow!IsMapping(v, SubSeq(p, 1, n))
      BY <1>2, <2>1 DEF Flow!MergedValue
    <2>3. at \in DOMAIN d /\ Len(at) \in 0..Len(p) /\ SubSeq(p, 1, Len(at)) = at
          /\ d[at] = Mapping
      BY <1>1, <1>2, <2>1, <2>2, PrefixIn
    <2>4. Flow!Descends(d, v, at)
      <3>1. SubSeq(p, 1, Len(at)) \in DOMAIN v =>
              Flow!IsMapping(v, SubSeq(p, 1, Len(at)))
        BY <2>2, <2>3
      <3>2. Flow!IsMapping(v, at)
        BY <2>3, <3>1
      <3>3. QED BY <2>3, <3>2 DEF Flow!Descends, Flow!IsMapping
    <2>5. QED BY <2>4 DEF Flow!Met
  <1>3. \A p \in DOMAIN v : p \in DOMAIN value /\ value[p] = v[p]
    BY DEF Flow!MergedValue
  <1>4. QED BY <1>2, <1>3 DEF Flow!Same

\* The mark that is logged says whether the merged value has the default there.
LEMMA MarkTells ==
    ASSUME NEW d, NEW v, Flow!IsValue(d), Flow!IsValue(v),
           NEW at \in Flow!Met(d, v)
    PROVE  Flow!Mark(d, v, at) = Flow!MarkOf(Flow!MergedValue(d, v), d, at)
  <1> DEFINE value == Flow!MergedValue(d, v)
  <1>1. CASE at \notin DOMAIN v
    BY <1>1, DefaultTaken DEF Flow!Mark, Flow!MarkOf
  <1>2. CASE at \in DOMAIN v
    <2>1. Flow!Same(value, v, at)
      BY <1>2, OverrideTaken
    <2>2. \A p : Flow!IsPrefix(at, p) =>
            /\ p \in DOMAIN value <=> p \in DOMAIN v
            /\ p \in DOMAIN v => value[p] = v[p]
      BY <2>1 DEF Flow!Same
    <2> HIDE DEF value
    <2>3. Flow!Same(value, d, at) <=> Flow!Same(d, v, at)
      BY <2>2 DEF Flow!Same
    <2>4. QED BY <1>2, <2>3 DEF Flow!Mark, Flow!MarkOf, value
  <1>3. QED BY <1>1, <1>2

\* What merge_node stops at is a position of the merged value.
LEMMA MetInValue ==
    ASSUME NEW d, NEW v, Flow!IsValue(d), Flow!IsValue(v),
           NEW at \in Flow!Met(d, v)
    PROVE  at \in DOMAIN Flow!MergedValue(d, v) /\ at \in Seq(FlowKeys)
  <1>1. at \in Seq(FlowKeys) /\ Len(at) \in Nat /\ at \in DOMAIN d \cup DOMAIN v
    BY DEF Flow!Met, Flow!IsValue
  <1>2. CASE at \in DOMAIN v
    BY <1>1, <1>2 DEF Flow!MergedValue
  <1>3. CASE at \notin DOMAIN v
    <2>1. ASSUME NEW n \in 0..Len(at), SubSeq(at, 1, n) \in DOMAIN v
          PROVE  Flow!IsMapping(v, SubSeq(at, 1, n))
      <3>1. n # Len(at)
        BY <1>1, <1>3, <2>1, SubSeqFull
      <3>2. n \in 0 .. Len(at) - 1
        BY <1>1, <3>1
      <3>3. QED BY <3>2, AboveMet DEF Flow!Descends
    <2>2. QED BY <1>1, <1>3, <2>1 DEF Flow!MergedValue
  <1>4. QED BY <1>2, <1>3

\* A position of plain keys is spelt by its keys.
LEMMA PlainPath ==
    ASSUME NEW value, Flow!PlainKeys(value),
           NEW at \in DOMAIN value, at \in Seq(FlowKeys)
    PROVE  Flow!PathString(at) = at
  <1>1. [i \in DOMAIN at |-> Segment[at[i]]] = [i \in DOMAIN at |-> <<at[i]>>]
    BY DEF Flow!PlainKeys
  <1>2. Flow!FlattenSeq([i \in DOMAIN at |-> <<at[i]>>]) = at
    BY FlattenOfSingletons
  <1>3. QED BY <1>1, <1>2 DEF Flow!PathString

\* The marks of a position are the one that merge_node logged when it stopped
\* there, if it did.
LEMMA MarksOfLog ==
    ASSUME NEW d, NEW v, Flow!IsValue(d), Flow!IsValue(v),
           Flow!PlainKeys(Flow!MergedValue(d, v)),
           NEW node, node.run_log = Flow!MergeLog(d, v),
           NEW keys \in DOMAIN Flow!MergedValue(d, v),
           keys \in Seq(FlowKeys), keys # <<>>
    PROVE  Flow!MarksAt(node, keys) =
             IF keys \in Flow!Met(d, v) THEN {Flow!Mark(d, v, keys)} ELSE {}
  <1>1. Flow!PathString(keys) = keys
    BY PlainPath
  <1>2. \A at \in Flow!Met(d, v) : Flow!PathString(at) = at
    BY MetInValue, PlainPath
  <1>3. \A at \in Flow!Met(d, v) : Flow!Mark(d, v, at) \in Flow!Marks
    BY DEF Flow!Mark, Flow!Marks
  <1>4. node.run_log = {<<Flow!Mark(d, v, at), at>> : at \in Flow!Met(d, v)}
    BY <1>2 DEF Flow!MergeLog, Flow!Entry
  <1>5. Flow!MarksAt(node, keys) = {m \in Flow!Marks : <<m, keys>> \in node.run_log}
    BY <1>1 DEF Flow!MarksAt
  <1>6. QED BY <1>3, <1>4, <1>5

\* What is above a position of the merged value is one of its positions.
LEMMA MergedAbove ==
    ASSUME NEW d, NEW v, Flow!IsValue(d), Flow!IsValue(v),
           NEW p \in DOMAIN Flow!MergedValue(d, v), NEW n \in 0..Len(p)
    PROVE  /\ p \in Seq(FlowKeys)
           /\ SubSeq(p, 1, n) \in DOMAIN Flow!MergedValue(d, v)
  <1>1. CASE p \in DOMAIN v
    <2>1. p \in Seq(FlowKeys) /\ SubSeq(p, 1, n) \in DOMAIN v
      BY <1>1, Above
    <2>2. QED BY <2>1 DEF Flow!MergedValue
  <1>2. CASE p \notin DOMAIN v
    <2>1. /\ p \in DOMAIN d
          /\ \A m \in 0 .. Len(p) : SubSeq(p, 1, m) \in DOMAIN v =>
               Flow!IsMapping(v, SubSeq(p, 1, m))
      BY <1>2 DEF Flow!MergedValue
    <2>2. p \in Seq(FlowKeys) /\ SubSeq(p, 1, n) \in DOMAIN d
      BY <2>1, Above
    <2> DEFINE q == SubSeq(p, 1, n)
    <2>3. Len(q) = n /\ n \in Nat /\ Len(p) \in Nat /\ n <= Len(p)
      BY <2>2, PrefixOf
    <2>4. ASSUME NEW m \in 0..Len(q), SubSeq(q, 1, m) \in DOMAIN v
          PROVE  Flow!IsMapping(v, SubSeq(q, 1, m))
      <3>1. m \in 0..n /\ m \in 0..Len(p)
        BY <2>3
      <3>2. SubSeq(q, 1, m) = SubSeq(p, 1, m)
        BY <2>2, <3>1, PrefixOf
      <3>3. QED BY <2>1, <2>4, <3>1, <3>2
    <2> HIDE DEF q
    <2>5. q \in DOMAIN d
      BY <2>2 DEF q
    <2>6. q \in DOMAIN Flow!MergedValue(d, v)
      BY <2>4, <2>5 DEF Flow!MergedValue
    <2>7. QED BY <2>2, <2>6 DEF q
  <1>3. QED BY <1>1, <1>2

\* The log of a merge: one mark on the way to every leaf, and a true one.
LEMMA LogTells ==
    ASSUME NEW d, NEW v, Flow!IsValue(d), Flow!IsValue(v),
           Flow!IsMapping(d, <<>>), Flow!IsMapping(v, <<>>),
           Flow!PlainKeys(Flow!MergedValue(d, v)),
           NEW node, node.run_log = Flow!MergeLog(d, v),
           NEW leaf \in Flow!Leaves(Flow!MergedValue(d, v))
    PROVE  Flow!OneMark(node, Flow!MergedValue(d, v), d, leaf)
  <1> DEFINE value == Flow!MergedValue(d, v)
             at(n) == SubSeq(leaf, 1, n)
  <1>1. leaf \in DOMAIN value /\ leaf \in Seq(FlowKeys) /\ Len(leaf) \in Nat
    BY MergedAbove DEF Flow!Leaves, Flow!MergedValue, Flow!IsValue
  <1>2. ASSUME NEW n \in 1..Len(leaf)
        PROVE  /\ at(n) \in DOMAIN value /\ at(n) \in Seq(FlowKeys)
               /\ at(n) # <<>>
    <2>1. n \in 0..Len(leaf) /\ n # 0
      BY <1>1
    <2>2. at(n) \in DOMAIN value
      BY <1>1, <2>1, MergedAbove
    <2>3. at(n) \in Seq(FlowKeys) /\ Len(at(n)) = n
      BY <1>1, <2>1, PrefixOf
    <2>4. QED BY <2>1, <2>2, <2>3
  <1>3. ASSUME NEW n \in 1..Len(leaf)
        PROVE  Flow!MarksAt(node, at(n)) =
                 IF at(n) \in Flow!Met(d, v) THEN {Flow!Mark(d, v, at(n))} ELSE {}
    <2> HIDE DEF at
    <2>1. QED BY <1>2, MarksOfLog
  <1>4. PICK n \in 1..Len(leaf) :
          /\ at(n) \in Flow!Met(d, v)
          /\ \A m \in 1..Len(leaf) : at(m) \in Flow!Met(d, v) => m = n
    BY OneStop
  <1>5. Flow!MarkedOnTheWay(node, leaf) = {n}
    <2> HIDE DEF at
    <2>1. \A m \in 1..Len(leaf) : Flow!MarksAt(node, at(m)) # {} <=> m = n
      BY <1>3, <1>4
    <2>2. {m \in 1..Len(leaf) : Flow!MarksAt(node, at(m)) # {}} = {n}
      BY <2>1
    <2>3. QED BY <2>2 DEF Flow!MarkedOnTheWay, at
  <1>6. Flow!Mark(d, v, at(n)) =
          Flow!MarkOf(value, d, at(n))
    BY <1>4, MarkTells
  <1>7. Flow!MarksAt(node, at(n)) = {Flow!Mark(d, v, at(n))}
    BY <1>3, <1>4
  <1>8. QED BY <1>5, <1>6, <1>7 DEF Flow!OneMark

-----------------------------------------------------------------------------
(* FlowTranscripts: what holds of every task.                              *)

FlowNodes == UNION {{d[i] : i \in DOMAIN d} : d \in Documents}
FlowDefaults == {None} \cup {Stub[c].defaults : c \in DOMAIN Stub}
FlowPlans == [schema : (Schemas \ BrokenSchemas) \cup {None},
              defaults : FlowDefaults]
ValidNodes == [component : Components, node_config : FlowNodes,
              schema : (Schemas \ BrokenSchemas) \cup {None},
              defaults : FlowDefaults]
\* A validated node is the document's, with the plan of its component, whose
\* schema accepts it.
NodeValid(n, node, flow_plans) ==
    /\ n.node_config = node /\ Flow!IsMapping(node, <<>>)
    /\ flow_plans[n.component] # Flow!NoPlan
    /\ n.schema = flow_plans[n.component].schema
    /\ n.defaults = flow_plans[n.component].defaults
    /\ n.schema # None => Accepts(n.schema, node)
\* The transcript of validated nodes as it is assembled in a second.
NodeOf(n) ==
    LET merged == Flow!Merge(n.defaults, n.node_config)
    IN  [resolved_config |-> merged.value, run_log |-> merged.log,
         schema |-> n.schema]
Assembled(file, second, validated) ==
    [flow_path |-> file, generated_at |-> second,
     nodes |-> [i \in DOMAIN validated |-> NodeOf(validated[i])]]
TaskTypes ==
    /\ now \in 0..MaxSecond /\ rebuilds \in 0..MaxRebuilds
    /\ describer \in [Components -> Answers]
    /\ DOMAIN transcripts = Flow!Names
    /\ flow_stage \in [Clients -> Flow!Stages]
    /\ flow_path \in [Clients -> FlowPaths]
    /\ document \in [Clients -> Seq(FlowNodes)]
    /\ plans \in [Clients -> [Components -> FlowPlans \cup {Flow!NoPlan}]]
    /\ nodes \in [Clients -> Seq(ValidNodes)]
    /\ DOMAIN transcript = Clients
    /\ outcome \in [Clients -> {None, "error", "written"}]
\* A task by its stage, file, document, plans, nodes, transcript and outcome.
TaskValid(at, file, doc_nodes, flow_plans, validated, written, result) ==
    /\ Len(validated) <= Len(doc_nodes)
    /\ \A i \in 1..Len(validated) : NodeValid(validated[i], doc_nodes[i], flow_plans)
    /\ at = "idle" => validated = <<>>
    /\ at \in {"assemble", "open", "fill"} => Len(validated) = Len(doc_nodes)
    /\ \/ /\ written = Flow!NoTranscript
          /\ at \notin {"open", "fill"} /\ result # "written"
       \/ /\ at \in {"open", "fill", "done"}
          /\ Len(validated) = Len(doc_nodes)
          /\ \E second \in 0..MaxSecond :
               written = Assembled(file, second, validated)
    /\ result = "written" => at = "done"
TaskOf(t) ==
    TaskValid(flow_stage[t], flow_path[t], document[t], plans[t], nodes[t],
              transcript[t], outcome[t])
\* No other task has assembled a transcript for the same file.
OwnFile(t) ==
    \A u \in Clients \ {t} : transcript[u] # Flow!NoTranscript =>
        Flow!OutputPath(u) # Flow!OutputPath(t)
FileOf(t) ==
    OwnFile(t) =>
        /\ flow_stage[t] = "fill" => transcripts[Flow!OutputPath(t)] = EmptyFile
        /\ outcome[t] = "written" => transcripts[Flow!OutputPath(t)] = transcript[t]
FlowInv ==
    /\ TaskTypes
    /\ \A t \in Clients : TaskOf(t) /\ FileOf(t)

LEMMA FlowFacts ==
    ASSUME Flow!FlowAssumption
    PROVE  /\ \A n \in FlowNodes : Flow!IsValue(n)
           /\ \A d \in Documents : d \in Seq(FlowNodes)
           /\ \A d \in FlowDefaults \ {None} :
                Flow!IsValue(d) /\ Flow!IsMapping(d, <<>>)
           /\ Flow!NoPlan \notin FlowPlans
           /\ None \notin FlowPaths /\ None \notin Components
  <1>1. ASSUME NEW n \in FlowNodes PROVE Flow!IsValue(n)
    <2>1. PICK d \in Documents : \E i \in DOMAIN d : n = d[i]
      BY DEF FlowNodes
    <2>2. \A i \in DOMAIN d : Flow!IsValue(d[i])
      BY DEF Flow!FlowAssumption
    <2>3. QED BY <2>1, <2>2
  <1>2. ASSUME NEW d \in Documents PROVE d \in Seq(FlowNodes)
    <2>1. d \in Seq({d[i] : i \in DOMAIN d}) /\ {d[i] : i \in DOMAIN d} \subseteq FlowNodes
      BY DEF FlowNodes, Flow!FlowAssumption
    <2>2. QED BY <2>1, SeqMonotonic
  <1>3. \A d \in FlowDefaults \ {None} : Flow!IsValue(d) /\ Flow!IsMapping(d, <<>>)
    BY DEF FlowDefaults, Flow!FlowAssumption
  <1>4. Flow!NoPlan \notin FlowPlans
    BY DEF FlowPlans, Flow!NoPlan, Flow!FlowAssumption
  <1>5. None \notin FlowPaths /\ None \notin Components
    BY DEF Flow!FlowAssumption
  <1>6. QED BY <1>1, <1>2, <1>3, <1>4, <1>5

LEMMA InitFlow ==
    ASSUME Flow!FlowAssumption, Flow!Init
    PROVE  FlowInv
  <1>1. TaskTypes
    <2>1. 0 \in 0..MaxSecond /\ 0 \in 0..MaxRebuilds
      BY DEF Flow!FlowAssumption
    <2>2. <<>> \in Seq(FlowNodes) /\ <<>> \in Seq(ValidNodes)
      BY EmptySeq
    <2>3. QED BY <2>1, <2>2 DEF Flow!Init, TaskTypes, Flow!Stages
  <1>2. ASSUME NEW t \in Clients PROVE TaskOf(t) /\ FileOf(t)
    <2>1. /\ flow_stage[t] = "idle" /\ document[t] = <<>> /\ nodes[t] = <<>>
          /\ transcript[t] = Flow!NoTranscript /\ outcome[t] = None
      BY DEF Flow!Init
    <2>2. Len(<<>>) = 0
      OBVIOUS
    <2>3. None # "written"
      BY DEF Flow!FlowAssumption
    <2>4. QED BY <2>1, <2>2, <2>3 DEF TaskOf, TaskValid, FileOf
  <1>3. QED BY <1>1, <1>2 DEF FlowInv

\* One task moves; what it says of the files is its own.
FlowStays(t) ==
    /\ flow_stage'[t] = flow_stage[t] /\ document'[t] = document[t]
    /\ plans'[t] = plans[t] /\ nodes'[t] = nodes[t]
    /\ transcript'[t] = transcript[t] /\ outcome'[t] = outcome[t]

LEMMA AssembledIsOne ==
    ASSUME Flow!FlowAssumption, NEW file \in FlowPaths, NEW second, NEW validated
    PROVE  Assembled(file, second, validated) # Flow!NoTranscript
  BY FlowFacts DEF Assembled, Flow!NoTranscript

\* Who writes or has written has a transcript, for a file of its own name.
LEMMA WriterHasOne ==
    ASSUME Flow!FlowAssumption, FlowInv, NEW t \in Clients
    PROVE  /\ flow_stage[t] \in {"open", "fill"} \/ outcome[t] = "written" =>
                transcript[t] # Flow!NoTranscript
           /\ transcript[t] # Flow!NoTranscript =>
                Flow!OutputPath(t) \in DOMAIN transcripts
           /\ transcript[t] # Flow!NoTranscript =>
                /\ flow_stage[t] \in {"open", "fill", "done"}
                /\ transcript[t].flow_path = flow_path[t]
                /\ Len(nodes[t]) = Len(document[t])
                /\ \E second \in 0..MaxSecond :
                     transcript[t] = Assembled(flow_path[t], second, nodes[t])
  <1>1. TaskOf(t) /\ flow_path[t] \in FlowPaths /\ DOMAIN transcripts = Flow!Names
    BY DEF FlowInv, TaskTypes
  <1>2. flow_stage[t] \in {"open", "fill"} \/ outcome[t] = "written" =>
          transcript[t] # Flow!NoTranscript
    BY <1>1, AssembledIsOne DEF TaskOf, TaskValid
  <1>3. ASSUME transcript[t] # Flow!NoTranscript
        PROVE  /\ flow_stage[t] \in {"open", "fill", "done"}
               /\ Len(nodes[t]) = Len(document[t])
               /\ \E second \in 0..MaxSecond :
                    transcript[t] = Assembled(flow_path[t], second, nodes[t])
    BY <1>1, <1>3 DEF TaskOf, TaskValid
  <1>4. ASSUME transcript[t] # Flow!NoTranscript
        PROVE  /\ transcript[t].flow_path = flow_path[t]
               /\ Flow!OutputPath(t) \in Flow!Names
    <2>1. PICK second \in 0..MaxSecond :
            transcript[t] = Assembled(flow_path[t], second, nodes[t])
      BY <1>3, <1>4
    <2>2. transcript[t].generated_at = second /\ transcript[t].flow_path = flow_path[t]
      BY <2>1 DEF Assembled
    <2>3. QED BY <1>1, <2>2 DEF Flow!OutputPath, Flow!Names
  <1>5. QED BY <1>1, <1>2, <1>3, <1>4

\* A transcript that is assembled stays.
LEMMA OwnFileWas ==
    ASSUME NEW t \in Clients, flow_path' = flow_path,
           \A u \in Clients : transcript[u] # Flow!NoTranscript =>
               transcript'[u] = transcript[u],
           transcript[t] # Flow!NoTranscript, OwnFile(t)'
    PROVE  OwnFile(t) /\ Flow!OutputPath(t)' = Flow!OutputPath(t)
  <1>1. \A u \in Clients : transcript[u] # Flow!NoTranscript =>
          Flow!OutputPath(u)' = Flow!OutputPath(u)
    BY DEF Flow!OutputPath
  <1>2. QED BY <1>1 DEF OwnFile

\* Only a task with a transcript writes, and where it says.
WritesAt(u) ==
    /\ flow_path' = flow_path
    /\ transcript[u] # Flow!NoTranscript => transcript'[u] = transcript[u]
    /\ \/ transcripts' = transcripts
       \/ /\ transcript[u] # Flow!NoTranscript
          /\ \E x : transcripts' = [transcripts EXCEPT ![Flow!OutputPath(u)] = x]

LEMMA OthersStay ==
    ASSUME Flow!FlowAssumption, FlowInv, NEW u \in Clients, WritesAt(u),
           NEW t \in Clients, t # u, \A w \in Clients \ {u} : FlowStays(w)
    PROVE  TaskOf(t)' /\ FileOf(t)'
  <1>1. TaskOf(t)'
    <2>1. TaskOf(t)
      BY DEF FlowInv
    <2>2. FlowStays(t) /\ flow_path' = flow_path
      BY DEF WritesAt
    <2>3. QED BY <2>1, <2>2, Zenon DEF TaskOf, FlowStays
  <1>2. SUFFICES ASSUME OwnFile(t)', flow_stage[t] = "fill" \/ outcome[t] = "written"
                 PROVE  transcripts'[Flow!OutputPath(t)'] = transcripts[Flow!OutputPath(t)]
                        /\ OwnFile(t)
    BY <1>1 DEF FileOf, FlowStays, FlowInv
  <1>3. transcript[t] # Flow!NoTranscript
    BY <1>2, WriterHasOne
  <1>4. \A w \in Clients : transcript[w] # Flow!NoTranscript =>
          transcript'[w] = transcript[w]
    BY DEF WritesAt, FlowStays
  <1>5. OwnFile(t) /\ Flow!OutputPath(t)' = Flow!OutputPath(t)
    BY <1>2, <1>3, <1>4, OwnFileWas DEF WritesAt
  <1>6. transcript[u] # Flow!NoTranscript => Flow!OutputPath(u) # Flow!OutputPath(t)
    BY <1>5 DEF OwnFile
  <1>7. Flow!OutputPath(t) \in DOMAIN transcripts
    BY <1>3, WriterHasOne
  <1>8. transcripts'[Flow!OutputPath(t)] = transcripts[Flow!OutputPath(t)]
    BY <1>6, <1>7 DEF WritesAt
  <1>9. QED BY <1>5, <1>8

LEMMA FlowIdle ==
    ASSUME FlowInv, TaskTypes', UNCHANGED <<transcripts, flow_stage, flow_path,
             document, plans, nodes, transcript, outcome>>
    PROVE  FlowInv'
  <1>1. ASSUME NEW t \in Clients PROVE TaskOf(t)' /\ FileOf(t)'
    <2>1. TaskOf(t) /\ FileOf(t)
      BY DEF FlowInv
    <2>2. TaskOf(t)'
      BY <2>1 DEF TaskOf
    <2>3. FileOf(t)'
      BY <2>1 DEF FileOf, OwnFile, Flow!OutputPath
    <2>4. QED BY <2>2, <2>3
  <1>2. QED BY <1>1 DEF FlowInv

\* A step of one task keeps the invariant, if it keeps the task's own part.
LEMMA FlowMoves ==
    ASSUME Flow!FlowAssumption, FlowInv, NEW u \in Clients, WritesAt(u),
           \A w \in Clients \ {u} : FlowStays(w), TaskTypes', TaskOf(u)', FileOf(u)'
    PROVE  FlowInv'
  <1>1. ASSUME NEW t \in Clients PROVE TaskOf(t)' /\ FileOf(t)'
    BY OthersStay
  <1>2. QED BY <1>1 DEF FlowInv

\* Who neither writes nor has written says nothing of a file.
LEMMA NotWritten ==
    ASSUME NEW u \in Clients, flow_stage'[u] # "fill", outcome'[u] # "written"
    PROVE  FileOf(u)'
  BY DEF FileOf

LEMMA ReadFlowStep ==
    ASSUME Flow!FlowAssumption, FlowInv, NEW t \in Clients, Flow!ReadFlow(t)
    PROVE  FlowInv'
  <1>1. /\ TaskTypes /\ TaskOf(t) /\ flow_stage[t] = "idle" /\ nodes[t] = <<>>
        /\ transcript[t] = Flow!NoTranscript /\ outcome[t] # "written"
    BY DEF FlowInv, Flow!ReadFlow, TaskOf, TaskValid
  <1>2. UNCHANGED <<Flow!world, transcripts, flow_path, plans, nodes, transcript>>
    BY DEF Flow!ReadFlow
  <1>3. CASE Flow!End(t, "error") /\ UNCHANGED document
    <2>1. TaskTypes'
      BY <1>1, <1>2, <1>3
      DEF TaskTypes, Flow!End, Flow!Goto, Flow!Stages, Flow!world
    <2>2. flow_stage'[t] = "done" /\ outcome'[t] = "error"
          /\ UNCHANGED <<document[t], plans[t], nodes[t], transcript[t], flow_path>>
      BY <1>1, <1>2, <1>3 DEF TaskTypes, Flow!End, Flow!Goto
    <2>3. TaskOf(t)'
      BY <1>1, <2>2 DEF TaskOf, TaskValid
    <2>4. FileOf(t)'
      BY <2>2, NotWritten
    <2>5. \A w \in Clients \ {t} : FlowStays(w)
      BY <1>1, <1>2, <1>3 DEF TaskTypes, FlowStays, Flow!End, Flow!Goto
    <2>6. WritesAt(t)
      BY <1>2 DEF WritesAt
    <2>7. QED BY <2>1, <2>3, <2>4, <2>5, <2>6, FlowMoves
  <1>4. CASE \E d \in Documents : /\ document' = [document EXCEPT ![t] = d]
                                  /\ Flow!Goto(t, "check") /\ UNCHANGED outcome
    <2>0. PICK d \in Documents : /\ document' = [document EXCEPT ![t] = d]
                                 /\ Flow!Goto(t, "check") /\ UNCHANGED outcome
      BY <1>4
    <2>1. TaskTypes'
      BY <1>1, <1>2, <2>0, FlowFacts
      DEF TaskTypes, Flow!Goto, Flow!Stages, Flow!world
    <2>2. flow_stage'[t] = "check" /\ document'[t] \in Seq(FlowNodes)
          /\ UNCHANGED <<plans[t], nodes[t], transcript[t], flow_path, outcome[t]>>
      BY <1>1, <1>2, <2>0, FlowFacts DEF TaskTypes, Flow!Goto
    <2>3. TaskOf(t)'
      <3>1. Len(nodes'[t]) = 0 /\ Len(document'[t]) \in Nat
        BY <1>1, <2>2
      <3>2. QED BY <1>1, <2>2, <3>1 DEF TaskOf, TaskValid
    <2>4. FileOf(t)'
      BY <1>1, <2>2, NotWritten
    <2>5. \A w \in Clients \ {t} : FlowStays(w)
      BY <1>1, <1>2, <2>0 DEF TaskTypes, FlowStays, Flow!Goto
    <2>6. WritesAt(t)
      BY <1>2 DEF WritesAt
    <2>7. QED BY <2>1, <2>3, <2>4, <2>5, <2>6, FlowMoves
  <1>5. QED BY <1>3, <1>4 DEF Flow!ReadFlow

\* A task that ends with an error.
LEMMA FlowErrors ==
    ASSUME Flow!FlowAssumption, FlowInv, NEW t \in Clients,
           flow_stage[t] \in {"check", "open", "fill"}, Flow!End(t, "error"),
           UNCHANGED <<Flow!world, transcripts, flow_path, document, plans, nodes,
                       transcript>>
    PROVE  FlowInv'
  <1>1. TaskTypes /\ TaskOf(t)
    BY DEF FlowInv
  <1>2. TaskTypes'
    BY <1>1 DEF TaskTypes, Flow!End, Flow!Goto, Flow!Stages, Flow!world
  <1>3. flow_stage'[t] = "done" /\ outcome'[t] = "error"
        /\ UNCHANGED <<document[t], plans[t], nodes[t], transcript[t], flow_path>>
    BY <1>1 DEF TaskTypes, Flow!End, Flow!Goto
  <1>4. TaskOf(t)'
    BY <1>1, <1>3 DEF TaskOf, TaskValid
  <1>5. FileOf(t)'
    BY <1>3, NotWritten
  <1>6. \A w \in Clients \ {t} : FlowStays(w)
    BY <1>1 DEF TaskTypes, FlowStays, Flow!End, Flow!Goto
  <1>7. WritesAt(t)
    BY DEF WritesAt
  <1>8. QED BY <1>2, <1>4, <1>5, <1>6, <1>7, FlowMoves

\* The plan of a node's component, new or kept.
LEMMA PlansTyped ==
    ASSUME Flow!FlowAssumption, TaskTypes, NEW t \in Clients, NEW c \in Components,
           ~Flow!CannotPlan(t, c)
    PROVE  /\ Flow!PlanFor(t, c) \in FlowPlans
           /\ plans[t][c] # Flow!NoPlan => Flow!PlanFor(t, c) = plans[t][c]
  <1>1. plans[t][c] \in FlowPlans \cup {Flow!NoPlan} /\ describer[c] \in Answers
    BY DEF TaskTypes
  <1>2. CASE plans[t][c] # Flow!NoPlan
    BY <1>1, <1>2 DEF Flow!PlanFor
  <1>3. CASE plans[t][c] = Flow!NoPlan
    <2>1. describer[c] # Failing /\ Flow!SchemaOf(c) \notin BrokenSchemas
      BY <1>3 DEF Flow!CannotPlan
    <2>2. Flow!SchemaOf(c) \in Schemas \cup {None}
      BY <1>1, <2>1 DEF Flow!SchemaOf, Flow!FlowAssumption
    <2>3. Flow!NewPlan(c) \in FlowPlans
      BY <2>1, <2>2 DEF Flow!NewPlan, FlowPlans, FlowDefaults
    <2>4. QED BY <1>3, <2>3 DEF Flow!PlanFor
  <1>4. QED BY <1>2, <1>3

LEMMA CheckNodeStep ==
    ASSUME Flow!FlowAssumption, FlowInv, NEW t \in Clients, Flow!CheckNode(t)
    PROVE  FlowInv'
  <1> DEFINE node == Flow!Node(t)
             c == Flow!ComponentOf(node)
             plan == Flow!PlanFor(t, c)
             n == [component |-> c, node_config |-> node,
                   schema |-> plan.schema, defaults |-> plan.defaults]
  <1>1. /\ TaskTypes /\ TaskOf(t) /\ flow_stage[t] = "check"
        /\ Len(nodes[t]) < Len(document[t])
        /\ transcript[t] = Flow!NoTranscript /\ outcome[t] # "written"
    BY DEF FlowInv, Flow!CheckNode, Flow!Unchecked, TaskOf, TaskValid
  <1>2. /\ c # None /\ ~Flow!CannotPlan(t, c) /\ Flow!Valid(plan, node)
        /\ plans' = [plans EXCEPT ![t][c] = plan]
        /\ nodes' = [nodes EXCEPT ![t] = Append(@, n)]
        /\ UNCHANGED <<Flow!world, transcripts, flow_stage, flow_path, document,
                       transcript, outcome>>
    BY DEF Flow!CheckNode
  <1>3. /\ nodes[t] \in Seq(ValidNodes) /\ document[t] \in Seq(FlowNodes)
        /\ Len(nodes[t]) \in Nat /\ Len(document[t]) \in Nat
        /\ Len(nodes[t]) + 1 \in 1..Len(document[t])
    BY <1>1 DEF TaskTypes
  <1>4. node = document[t][Len(nodes[t]) + 1] /\ node \in FlowNodes
    BY <1>3 DEF Flow!Node
  <1>5. c \in Components /\ Flow!IsMapping(node, <<>>)
    BY <1>2 DEF Flow!ComponentOf
  <1>6. plan \in FlowPlans /\ plan # Flow!NoPlan
        /\ (plans[t][c] # Flow!NoPlan => plan = plans[t][c])
    <2>1. Flow!NoPlan \notin FlowPlans
      BY FlowFacts
    <2> HIDE DEF c
    <2>2. QED BY <1>1, <1>2, <1>5, <2>1, PlansTyped
  <1>7. plan.schema # None => Accepts(plan.schema, node)
    BY <1>2 DEF Flow!Valid
  <1> HIDE DEF c, plan, node
  <1>8. n \in ValidNodes
    BY <1>4, <1>5, <1>6 DEF FlowPlans, ValidNodes
  <1>9. NodeValid(n, node, [plans[t] EXCEPT ![c] = plan])
    <2>1. plans[t] \in [Components -> FlowPlans \cup {Flow!NoPlan}]
      BY <1>1 DEF TaskTypes
    <2>2. QED BY <1>5, <1>6, <1>7, <2>1 DEF NodeValid
  <1> HIDE DEF n
  <1>10. TaskTypes'
    BY <1>1, <1>2, <1>5, <1>6, <1>8 DEF TaskTypes, Flow!world
  <1>11. /\ nodes'[t] = Append(nodes[t], n) /\ plans'[t] = [plans[t] EXCEPT ![c] = plan]
         /\ UNCHANGED <<flow_stage[t], document[t], transcript[t], outcome[t], flow_path>>
    BY <1>1, <1>2 DEF TaskTypes
  <1>12. TaskOf(t)'
    <2>1. ASSUME NEW i \in 1..Len(nodes[t])
          PROVE  NodeValid(nodes[t][i], document[t][i], plans'[t])
      <3>1. NodeValid(nodes[t][i], document[t][i], plans[t])
            /\ nodes[t][i].component \in Components
        <4>1. nodes[t][i] \in ValidNodes
          BY <1>3
        <4>2. QED BY <1>1, <4>1 DEF TaskOf, TaskValid, ValidNodes
      <3>2. plans[t] \in [Components -> FlowPlans \cup {Flow!NoPlan}]
        BY <1>1 DEF TaskTypes
      <3>3. plans'[t][nodes[t][i].component] = plans[t][nodes[t][i].component]
        BY <1>6, <1>11, <3>1, <3>2 DEF NodeValid
      <3>4. QED BY <3>1, <3>3 DEF NodeValid
    <2>2. Len(nodes'[t]) = Len(nodes[t]) + 1
          /\ nodes'[t][Len(nodes[t]) + 1] = n
          /\ \A i \in 1..Len(nodes[t]) : nodes'[t][i] = nodes[t][i]
      BY <1>3, <1>8, <1>11
    <2>3. ASSUME NEW i \in 1..Len(nodes'[t])
          PROVE  NodeValid(nodes'[t][i], document'[t][i], plans'[t])
      <3>1. CASE i = Len(nodes[t]) + 1
        BY <1>4, <1>9, <1>11, <2>2, <3>1
      <3>2. CASE i # Len(nodes[t]) + 1
        <4>1. i \in 1..Len(nodes[t])
          BY <1>3, <2>2, <3>2
        <4>2. nodes'[t][i] = nodes[t][i] /\ document'[t][i] = document[t][i]
          BY <1>11, <2>2, <4>1
        <4>3. QED BY <2>1, <4>1, <4>2
      <3>3. QED BY <3>1, <3>2
    <2>4. Len(nodes'[t]) <= Len(document'[t])
      BY <1>3, <1>11, <2>2
    <2>5. QED BY <1>1, <1>11, <2>3, <2>4 DEF TaskOf, TaskValid
  <1>13. FileOf(t)'
    BY <1>1, <1>11, NotWritten
  <1>14. \A w \in Clients \ {t} : FlowStays(w)
    BY <1>1, <1>2 DEF TaskTypes, FlowStays
  <1>15. WritesAt(t)
    BY <1>2 DEF WritesAt
  <1>16. QED BY <1>10, <1>12, <1>13, <1>14, <1>15, FlowMoves

LEMMA ValidatedStep ==
    ASSUME Flow!FlowAssumption, FlowInv, NEW t \in Clients, Flow!Validated(t)
    PROVE  FlowInv'
  <1>1. /\ TaskTypes /\ TaskOf(t) /\ flow_stage[t] = "check"
        /\ Len(nodes[t]) = Len(document[t])
        /\ transcript[t] = Flow!NoTranscript /\ outcome[t] # "written"
    BY DEF FlowInv, Flow!Validated, TaskOf, TaskValid
  <1>2. Flow!Goto(t, "assemble")
        /\ UNCHANGED <<Flow!world, transcripts, flow_path, document, plans, nodes,
                       transcript, outcome>>
    BY DEF Flow!Validated
  <1>3. TaskTypes'
    BY <1>1, <1>2 DEF TaskTypes, Flow!Goto, Flow!Stages, Flow!world
  <1>4. flow_stage'[t] = "assemble"
    BY <1>1, <1>2 DEF TaskTypes, Flow!Goto
  <1>5. TaskOf(t)'
    BY <1>1, <1>2, <1>4 DEF TaskOf, TaskValid
  <1>6. FileOf(t)'
    BY <1>1, <1>2, <1>4, NotWritten
  <1>7. \A w \in Clients \ {t} : FlowStays(w)
    BY <1>1, <1>2 DEF TaskTypes, FlowStays, Flow!Goto
  <1>8. WritesAt(t)
    BY <1>2 DEF WritesAt
  <1>9. QED BY <1>3, <1>5, <1>6, <1>7, <1>8, FlowMoves

LEMMA AssembleStep ==
    ASSUME Flow!FlowAssumption, FlowInv, NEW t \in Clients, Flow!Assemble(t)
    PROVE  FlowInv'
  <1>1. /\ TaskTypes /\ TaskOf(t) /\ flow_stage[t] = "assemble"
        /\ Len(nodes[t]) = Len(document[t])
        /\ transcript[t] = Flow!NoTranscript /\ outcome[t] # "written"
    BY DEF FlowInv, Flow!Assemble, TaskOf, TaskValid
  <1>2. Flow!Goto(t, "open")
        /\ UNCHANGED <<Flow!world, transcripts, flow_path, document, plans, nodes,
                       outcome>>
    BY DEF Flow!Assemble
  <1>3. transcript' = [transcript EXCEPT ![t] = Assembled(flow_path[t], now, nodes[t])]
    BY DEF Flow!Assemble, Assembled, NodeOf
  <1>4. TaskTypes'
    BY <1>1, <1>2, <1>3 DEF TaskTypes, Flow!Goto, Flow!Stages, Flow!world
  <1>5. flow_stage'[t] = "open"
        /\ transcript'[t] = Assembled(flow_path[t], now, nodes[t])
        /\ now \in 0..MaxSecond
    BY <1>1, <1>2, <1>3 DEF TaskTypes, Flow!Goto
  <1>6. TaskOf(t)'
    BY <1>1, <1>2, <1>5 DEF TaskOf, TaskValid
  <1>7. FileOf(t)'
    BY <1>1, <1>2, <1>5, NotWritten
  <1>8. \A w \in Clients \ {t} : FlowStays(w)
    BY <1>1, <1>2, <1>3 DEF TaskTypes, FlowStays, Flow!Goto
  <1>9. WritesAt(t)
    BY <1>1, <1>2 DEF WritesAt
  <1>10. QED BY <1>4, <1>6, <1>7, <1>8, <1>9, FlowMoves

LEMMA OpenTranscriptStep ==
    ASSUME Flow!FlowAssumption, FlowInv, NEW t \in Clients, Flow!OpenTranscript(t)
    PROVE  FlowInv'
  <1>1. /\ TaskTypes /\ TaskOf(t) /\ flow_stage[t] = "open"
        /\ transcript[t] # Flow!NoTranscript
        /\ Flow!OutputPath(t) \in DOMAIN transcripts
    BY WriterHasOne DEF FlowInv, Flow!OpenTranscript
  <1>2. /\ transcripts' = [transcripts EXCEPT ![Flow!OutputPath(t)] = EmptyFile]
        /\ Flow!Goto(t, "fill")
        /\ UNCHANGED <<Flow!world, flow_path, document, plans, nodes, transcript,
                       outcome>>
    BY DEF Flow!OpenTranscript
  <1>3. TaskTypes'
    BY <1>1, <1>2 DEF TaskTypes, Flow!Goto, Flow!Stages, Flow!world
  <1>4. flow_stage'[t] = "fill" /\ outcome'[t] # "written"
    BY <1>1, <1>2 DEF TaskTypes, Flow!Goto, TaskOf, TaskValid
  <1>5. TaskOf(t)'
    BY <1>1, <1>2, <1>4 DEF TaskOf, TaskValid
  <1>6. FileOf(t)'
    <2>1. Flow!OutputPath(t)' = Flow!OutputPath(t)
      BY <1>2 DEF Flow!OutputPath
    <2>2. transcripts'[Flow!OutputPath(t)'] = EmptyFile
      BY <1>1, <1>2, <2>1
    <2>3. QED BY <1>4, <2>2 DEF FileOf
  <1>7. \A w \in Clients \ {t} : FlowStays(w)
    BY <1>1, <1>2 DEF TaskTypes, FlowStays, Flow!Goto
  <1>8. WritesAt(t)
    BY <1>1, <1>2 DEF WritesAt
  <1>9. QED BY <1>3, <1>5, <1>6, <1>7, <1>8, FlowMoves

LEMMA FillTranscriptStep ==
    ASSUME Flow!FlowAssumption, FlowInv, NEW t \in Clients, Flow!FillTranscript(t)
    PROVE  FlowInv'
  <1>1. /\ TaskTypes /\ TaskOf(t) /\ FileOf(t) /\ flow_stage[t] = "fill"
        /\ transcript[t] # Flow!NoTranscript
        /\ Flow!OutputPath(t) \in DOMAIN transcripts
    BY WriterHasOne DEF FlowInv, Flow!FillTranscript
  <1>2. /\ Flow!End(t, "written")
        /\ UNCHANGED <<Flow!world, flow_path, document, plans, nodes, transcript>>
    BY DEF Flow!FillTranscript
  <1>3. PICK content : /\ content = transcript[t] \/ transcripts[Flow!OutputPath(t)] # EmptyFile
                       /\ transcripts' = [transcripts EXCEPT ![Flow!OutputPath(t)] = content]
    BY DEF Flow!FillTranscript
  <1>4. TaskTypes'
    BY <1>1, <1>2, <1>3
    DEF TaskTypes, Flow!End, Flow!Goto, Flow!Stages, Flow!world
  <1>5. flow_stage'[t] = "done" /\ outcome'[t] = "written"
    BY <1>1, <1>2 DEF TaskTypes, Flow!End, Flow!Goto
  <1>6. TaskOf(t)'
    BY <1>1, <1>2, <1>5 DEF TaskOf, TaskValid
  <1>7. \A w \in Clients \ {t} : FlowStays(w)
    BY <1>1, <1>2 DEF TaskTypes, FlowStays, Flow!End, Flow!Goto
  <1>8. WritesAt(t)
    BY <1>1, <1>2, <1>3 DEF WritesAt
  <1>9. FileOf(t)'
    <2>1. SUFFICES ASSUME OwnFile(t)'
                   PROVE  transcripts'[Flow!OutputPath(t)'] = transcript'[t]
      BY <1>5 DEF FileOf
    <2>2. OwnFile(t) /\ Flow!OutputPath(t)' = Flow!OutputPath(t)
      BY <1>1, <1>2, <2>1, OwnFileWas
    <2>3. content = transcript[t]
      BY <1>1, <1>3, <2>2 DEF FileOf
    <2>4. QED BY <1>1, <1>2, <1>3, <2>2, <2>3
  <1>10. QED BY <1>4, <1>6, <1>7, <1>8, <1>9, FlowMoves

LEMMA WorldStep ==
    ASSUME Flow!FlowAssumption, FlowInv,
           Flow!Tick \/ \E c \in Components : Flow!Redescribe(c)
    PROVE  FlowInv'
  <1>1. TaskTypes /\ MaxSecond \in Nat /\ MaxRebuilds \in Nat
    BY DEF FlowInv, Flow!FlowAssumption
  <1>2. CASE Flow!Tick
    <2>1. TaskTypes'
      BY <1>1, <1>2 DEF TaskTypes, Flow!Tick
    <2>2. QED BY <1>2, <2>1, FlowIdle DEF Flow!Tick
  <1>3. CASE \E c \in Components : Flow!Redescribe(c)
    <2>1. PICK c \in Components : Flow!Redescribe(c)
      BY <1>3
    <2>2. TaskTypes'
      BY <1>1, <2>1 DEF TaskTypes, Flow!Redescribe
    <2>3. QED BY <2>1, <2>2, FlowIdle DEF Flow!Redescribe
  <1>4. QED BY <1>2, <1>3

LEMMA NextFlow ==
    ASSUME Flow!FlowAssumption, FlowInv, [Flow!Next]_(Flow!vars)
    PROVE  FlowInv'
  <1>1. CASE UNCHANGED Flow!vars
    <2>1. TaskTypes'
      BY <1>1 DEF FlowInv, TaskTypes, Flow!vars, Flow!world
    <2>2. QED BY <1>1, <2>1, FlowIdle DEF Flow!vars
  <1>2. ASSUME NEW t \in Clients, Flow!RejectNode(t) PROVE FlowInv'
    BY <1>2, FlowErrors DEF Flow!RejectNode, Flow!Unchecked
  <1>3. ASSUME NEW t \in Clients, Flow!WriteFails(t) PROVE FlowInv'
    BY <1>3, FlowErrors DEF Flow!WriteFails
  <1>4. QED
    BY <1>1, <1>2, <1>3, WorldStep, ReadFlowStep, CheckNodeStep, ValidatedStep,
       AssembleStep, OpenTranscriptStep, FillTranscriptStep
    DEF Flow!Next

-----------------------------------------------------------------------------
(* FlowTranscripts: what it means for the properties.                      *)

LEMMA FlowTypes ==
    ASSUME Flow!FlowAssumption, FlowInv
    PROVE  Flow!TypeOK
  <1>1. TaskTypes
    BY DEF FlowInv
  <1>2. ASSUME NEW t \in Clients, transcript[t] # Flow!NoTranscript
        PROVE  /\ Flow!OutputPath(t) \in Flow!Names
               /\ transcript[t].flow_path = flow_path[t]
    BY <1>1, <1>2, WriterHasOne DEF TaskTypes
  <1>3. ASSUME NEW t \in Clients, NEW i \in DOMAIN nodes[t]
        PROVE  /\ nodes[t][i].component \in Components
               /\ nodes[t][i].schema \in (Schemas \ BrokenSchemas) \cup {None}
    <2>1. nodes[t] \in Seq(ValidNodes)
      BY <1>1 DEF TaskTypes
    <2>2. nodes[t][i] \in ValidNodes
      BY <2>1
    <2>3. QED BY <2>2 DEF ValidNodes
  <1>4. QED BY <1>1, <1>2, <1>3 DEF TaskTypes, Flow!TypeOK

LEMMA OneSchema ==
    ASSUME FlowInv
    PROVE  OneSchemaPerComponent
  <1>1. ASSUME NEW t \in Clients, NEW i \in DOMAIN nodes[t]
        PROVE  /\ nodes[t][i].schema = plans[t][nodes[t][i].component].schema
               /\ nodes[t][i].schema # None
                     => Accepts(nodes[t][i].schema, document[t][i])
    <2>1. i \in 1..Len(nodes[t])
      BY DEF FlowInv, TaskTypes
    <2>2. QED BY <2>1 DEF FlowInv, TaskOf, TaskValid, NodeValid
  <1>2. QED BY <1>1 DEF OneSchemaPerComponent, Flow!OneSchemaPerComponent

LEMMA WrittenIsKept ==
    ASSUME Flow!FlowAssumption, FlowInv
    PROVE  TranscriptKept
  <1> SUFFICES
        ASSUME NEW t \in Clients, outcome[t] = "written",
               \A u \in Clients \ {t} : transcript[u] # Flow!NoTranscript =>
                  \/ Stem[flow_path[u]] # Stem[flow_path[t]]
                  \/ transcript[u].generated_at # transcript[t].generated_at
        PROVE  \E n \in Flow!Names : /\ n[1] = Stem[flow_path[t]]
                                     /\ transcripts[n] = transcript[t]
    BY DEF TranscriptKept, Flow!TranscriptKept
  <1>1. OwnFile(t)
    BY DEF OwnFile, Flow!OutputPath
  <1>2. transcripts[Flow!OutputPath(t)] = transcript[t]
    BY <1>1 DEF FlowInv, FileOf
  <1>3. Flow!OutputPath(t) \in Flow!Names
    BY WriterHasOne DEF FlowInv, TaskTypes
  <1>4. Flow!OutputPath(t)[1] = Stem[flow_path[t]]
    BY DEF Flow!OutputPath
  <1>5. QED BY <1>2, <1>3, <1>4

LEMMA Tells ==
    ASSUME Flow!FlowAssumption, FlowInv
    PROVE  TranscriptTells
  <1> SUFFICES ASSUME NEW t \in Clients, transcript[t] # Flow!NoTranscript
               PROVE  /\ Len(transcript[t].nodes) = Len(document[t])
                      /\ \A i \in DOMAIN transcript[t].nodes :
                           Flow!NodeTells(transcript[t].nodes[i], nodes[t][i].defaults,
                                     document[t][i])
    BY DEF TranscriptTells, Flow!TranscriptTells
  <1>1. PICK second \in 0..MaxSecond :
          transcript[t] = Assembled(flow_path[t], second, nodes[t])
    BY WriterHasOne
  <1>2. /\ nodes[t] \in Seq(ValidNodes) /\ DOMAIN nodes[t] = 1..Len(nodes[t])
        /\ Len(nodes[t]) \in Nat /\ Len(nodes[t]) = Len(document[t])
        /\ document[t] \in Seq(FlowNodes)
    BY WriterHasOne DEF FlowInv, TaskTypes
  <1>3. transcript[t].nodes = [i \in 1..Len(nodes[t]) |-> NodeOf(nodes[t][i])]
    BY <1>1, <1>2 DEF Assembled
  <1>4. Len(transcript[t].nodes) = Len(document[t])
    BY <1>2, <1>3
  <1>5. ASSUME NEW i \in DOMAIN transcript[t].nodes
        PROVE  Flow!NodeTells(transcript[t].nodes[i], nodes[t][i].defaults, document[t][i])
    <2> DEFINE node == transcript[t].nodes[i]
               d == nodes[t][i].defaults
               v == document[t][i]
    <2> SUFFICES ASSUME d # None, Flow!PlainKeys(node.resolved_config)
                 PROVE  Flow!NodeTells(node, d, v)
      BY DEF Flow!NodeTells
    <2>1. i \in 1..Len(nodes[t]) /\ node = NodeOf(nodes[t][i])
      BY <1>3, <1>5
    <2>2. nodes[t][i] \in ValidNodes /\ v \in FlowNodes
          /\ NodeValid(nodes[t][i], v, plans[t])
      BY <1>2, <2>1 DEF FlowInv, TaskOf, TaskValid
    <2>3. /\ Flow!IsValue(d) /\ Flow!IsMapping(d, <<>>)
          /\ Flow!IsValue(v) /\ Flow!IsMapping(v, <<>>)
          /\ nodes[t][i].node_config = v
      BY <2>2, FlowFacts DEF NodeValid, ValidNodes
    <2>4. /\ node.resolved_config = Flow!MergedValue(d, v)
          /\ node.run_log = Flow!MergeLog(d, v)
      BY <2>1, <2>3 DEF NodeOf, Flow!Merge
    <2>5. Flow!PlainKeys(Flow!MergedValue(d, v))
      BY <2>4
    <2>6. \A leaf \in Flow!Leaves(v) :
            leaf \in DOMAIN Flow!MergedValue(d, v)
            /\ Flow!MergedValue(d, v)[leaf] = v[leaf]
      BY DEF Flow!Leaves, Flow!MergedValue
    <2> HIDE DEF node, d, v
    <2>7. \A leaf \in Flow!Leaves(Flow!MergedValue(d, v)) :
            Flow!OneMark(node, Flow!MergedValue(d, v), d, leaf)
      BY <2>3, <2>4, <2>5, LogTells
    <2>8. QED BY <2>4, <2>6, <2>7 DEF Flow!NodeTells
  <1>6. QED BY <1>4, <1>5

-----------------------------------------------------------------------------
(* ConfigFiles: keys, documents and what a setting does to one.            *)

LEMMA PrefixesAgree ==
    ASSUME NEW s \in Seq(STRING), NEW t \in Seq(STRING), NEW u \in Seq(STRING),
           Config!IsPrefix(s, u), Config!IsPrefix(t, u)
    PROVE  Config!IsPrefix(s, t) \/ Config!IsPrefix(t, s)
  <1>1. ASSUME NEW v \in Seq(STRING), NEW w \in Seq(STRING), Len(v) <= Len(w),
               SubSeq(v, 1, Len(v)) = SubSeq(u, 1, Len(v)),
               SubSeq(w, 1, Len(w)) = SubSeq(u, 1, Len(w)), Len(w) <= Len(u)
        PROVE  Config!IsPrefix(v, w)
    <2>1. Len(v) \in 0..Len(w) /\ Len(w) \in 0..Len(u)
      BY <1>1
    <2>2. SubSeq(SubSeq(u, 1, Len(w)), 1, Len(v)) = SubSeq(u, 1, Len(v))
      BY <2>1, PrefixOf
    <2>3. SubSeq(w, 1, Len(w)) = w
      BY SubSeqFull
    <2>4. SubSeq(w, 1, Len(v)) = SubSeq(u, 1, Len(v))
      BY <1>1, <2>2, <2>3
    <2>5. QED BY <1>1, <2>4 DEF Config!IsPrefix
  <1>2. Len(s) \in Nat /\ Len(t) \in Nat /\ (Len(s) <= Len(t) \/ Len(t) <= Len(s))
    OBVIOUS
  <1>3. QED BY <1>1, <1>2 DEF Config!IsPrefix

LEMMA PrefixItself ==
    ASSUME NEW s \in Seq(STRING) PROVE Config!IsPrefix(s, s)
  BY DEF Config!IsPrefix

\* What follows a prefix, after the prefix, is the whole.
LEMMA PrefixAndRest ==
    ASSUME NEW s \in Seq(STRING), NEW t \in Seq(STRING), Config!IsPrefix(s, t)
    PROVE  s \o SubSeq(t, Len(s) + 1, Len(t)) = t
  <1> DEFINE rest == SubSeq(t, Len(s) + 1, Len(t))
  <1>1. /\ Len(s) \in Nat /\ Len(t) \in Nat /\ Len(s) <= Len(t)
        /\ SubSeq(s, 1, Len(s)) = SubSeq(t, 1, Len(s))
    BY DEF Config!IsPrefix
  <1>2. \A i \in 1..Len(s) : s[i] = t[i]
    <2>1. \A i \in 1..Len(s) : SubSeq(s, 1, Len(s))[i] = s[i]
                             /\ SubSeq(t, 1, Len(s))[i] = t[i]
      BY <1>1
    <2>2. QED BY <1>1, <2>1
  <1>3. /\ rest \in Seq(STRING) /\ Len(rest) = Len(t) - Len(s)
        /\ \A i \in 1 .. Len(t) - Len(s) : rest[i] = t[Len(s) + i]
    BY <1>1
  <1> HIDE DEF rest
  <1>4. /\ s \o rest \in Seq(STRING) /\ Len(s \o rest) = Len(t)
        /\ \A i \in 1..Len(t) : (s \o rest)[i] =
             IF i <= Len(s) THEN s[i] ELSE rest[i - Len(s)]
    BY <1>1, <1>3
  <1>5. ASSUME NEW i \in 1..Len(t) PROVE (s \o rest)[i] = t[i]
    <2>1. CASE i <= Len(s)
      BY <1>1, <1>2, <1>4, <2>1
    <2>2. CASE ~(i <= Len(s))
      <3>1. i - Len(s) \in 1 .. Len(t) - Len(s) /\ Len(s) + (i - Len(s)) = i
        BY <1>1, <2>2
      <3>2. QED BY <1>3, <1>4, <2>2, <3>1
    <2>3. QED BY <2>1, <2>2
  <1>6. QED BY <1>4, <1>5, SeqEqual DEF rest

LEMMA FilesFacts ==
    ASSUME Config!FilesAssumption
    PROVE  /\ ConfigKeys \subseteq Seq(STRING)
           /\ \A d : Config!IsDocument(d) => d # Missing /\ d # Broken
           /\ \A kv \in Settings : kv[1] \in ConfigKeys /\ kv[2] \in Config!Values
  <1>1. ConfigKeys \subseteq Seq(STRING)
    BY DEF Config!FilesAssumption
  <1>2. ASSUME NEW d, Config!IsDocument(d) PROVE d # Missing /\ d # Broken
    <2>1. d \in [DOMAIN d -> Config!Values] /\ DOMAIN d \in SUBSET ConfigKeys
      BY <1>2 DEF Config!IsDocument
    <2>2. d \in UNION {[K -> Config!Values] : K \in SUBSET ConfigKeys}
      BY <2>1
    <2>3. QED BY <2>2 DEF Config!FilesAssumption
  <1>3. \A kv \in Settings : kv[1] \in ConfigKeys /\ kv[2] \in Config!Values
    BY DEF Config!FilesAssumption, Config!Values
  <1>4. QED BY <1>1, <1>2, <1>3

LEMMA EmptyIsDocument == Config!IsDocument(Config!Empty)
  <1>1. DOMAIN <<>> = {} /\ <<>> \in [DOMAIN <<>> -> Config!Values]
    OBVIOUS
  <1>2. QED BY <1>1 DEF Config!IsDocument, Config!Empty

\* What a setting makes of a document is one, if there is no value above.
LEMMA ApplyIsDocument ==
    ASSUME Config!FilesAssumption, NEW d, Config!IsDocument(d),
           NEW kv \in Settings, Config!Applies(d, kv[1])
    PROVE  Config!IsDocument(Config!Apply(d, kv))
  <1> DEFINE new == Config!Apply(d, kv)
  <1>1. kv[1] \in ConfigKeys /\ kv[1] \in Seq(STRING) /\ kv[2] \in Config!Values
    BY FilesFacts
  <1>2. /\ DOMAIN new = {j \in DOMAIN d : ~Config!IsPrefix(kv[1], j)} \cup {kv[1]}
        /\ \A k \in DOMAIN new : new[k] = IF k = kv[1] THEN kv[2] ELSE d[k]
        /\ new = [k \in DOMAIN new |-> new[k]]
    BY DEF Config!Apply
  <1> HIDE DEF new
  <1>3. DOMAIN new \subseteq ConfigKeys /\ new \in [DOMAIN new -> Config!Values]
    <2>1. DOMAIN d \subseteq ConfigKeys /\ \A k \in DOMAIN d : d[k] \in Config!Values
      BY DEF Config!IsDocument
    <2>2. QED BY <1>1, <1>2, <2>1
  <1>4. ASSUME NEW j \in DOMAIN new, NEW k \in DOMAIN new, Config!IsStrictPrefix(j, k)
        PROVE  FALSE
    <2>1. CASE j = kv[1]
      BY <1>2, <1>4, <2>1 DEF Config!IsStrictPrefix
    <2>2. CASE j # kv[1] /\ k = kv[1]
      BY <1>2, <1>4, <2>2 DEF Config!Applies
    <2>3. CASE j # kv[1] /\ k # kv[1]
      BY <1>2, <1>4, <2>3 DEF Config!IsDocument
    <2>4. QED BY <2>1, <2>2, <2>3
  <1>5. QED BY <1>3, <1>4 DEF Config!IsDocument, new

LEMMA WithIsDocument ==
    ASSUME NEW d, NEW K, Config!IsDocument(d)
    PROVE  Config!IsDocument(Config!With(d, K))
  BY DEF Config!IsDocument, Config!With

\* What is below a position that is neither above nor below a setting stays.
LEMMA ApartStays ==
    ASSUME Config!FilesAssumption, NEW d, DOMAIN d \subseteq ConfigKeys,
           NEW kv \in Settings, NEW p \in Seq(STRING),
           ~Config!IsPrefix(p, kv[1]), ~Config!IsPrefix(kv[1], p)
    PROVE  /\ Config!There(Config!Apply(d, kv), p) <=> Config!There(d, p)
           /\ Config!Table(Config!Apply(d, kv), p) = Config!Table(d, p)
  <1> DEFINE new == Config!Apply(d, kv)
             Under(x) == {k \in DOMAIN x : Config!IsStrictPrefix(p, k)}
  <1>1. kv[1] \in Seq(STRING) /\ DOMAIN d \subseteq Seq(STRING)
    BY FilesFacts
  <1>2. /\ DOMAIN new = {j \in DOMAIN d : ~Config!IsPrefix(kv[1], j)} \cup {kv[1]}
        /\ \A k \in DOMAIN new : k # kv[1] => new[k] = d[k]
    BY DEF Config!Apply
  <1>3. ASSUME NEW k \in DOMAIN d, Config!IsStrictPrefix(p, k)
        PROVE  ~Config!IsPrefix(kv[1], k)
    <2>1. Config!IsPrefix(p, k) /\ k \in Seq(STRING)
      BY <1>1, <1>3 DEF Config!IsStrictPrefix
    <2>2. QED BY <1>1, <2>1, PrefixesAgree
  <1> HIDE DEF new
  <1>4. Under(new) = Under(d) /\ \A k \in Under(d) : new[k] = d[k]
    <2>1. \A k \in Under(new) : k \in Under(d)
      BY <1>2 DEF Config!IsStrictPrefix
    <2>2. \A k \in Under(d) : k \in Under(new) /\ k # kv[1]
      BY <1>2, <1>3 DEF Config!IsStrictPrefix
    <2>3. QED BY <1>2, <2>1, <2>2
  <1>5. Config!There(new, p) <=> Config!There(d, p)
    BY <1>4 DEF Config!There
  <1> DEFINE fields == {SubSeq(k, Len(p) + 1, Len(k)) : k \in Under(d)}
  <1>6. \A field \in fields : new[p \o field] = d[p \o field]
    <2>1. ASSUME NEW k \in Under(d) PROVE p \o SubSeq(k, Len(p) + 1, Len(k)) = k
      BY <1>1, PrefixAndRest DEF Config!IsStrictPrefix
    <2>2. QED BY <1>4, <2>1
  <1>7. /\ Config!Table(d, p) = [field \in fields |-> d[p \o field]]
        /\ Config!Table(new, p) = [field \in fields |-> new[p \o field]]
    BY <1>4 DEF Config!Table
  <1> HIDE DEF fields
  <1>8. Config!Table(new, p) = Config!Table(d, p)
    BY <1>6, <1>7
  <1>9. QED BY <1>5, <1>8 DEF new

\* A setting that is apart from the tables of a profile leaves what is resolved
\* for its name, as long as what is read for it stays the same kind of table.
LEMMA ResolvedAsBefore ==
    ASSUME Config!FilesAssumption, NEW d, DOMAIN d \subseteq ConfigKeys,
           NEW kv \in Settings, kv[1] \in SchemaKeys, NEW n \in Profiles,
           \A t \in {Config!Nested(n), Config!Legacy(n), Config!Root(n)} :
               ~Config!IsPrefix(t, kv[1]) /\ ~Config!IsPrefix(kv[1], t),
           \/ Config!There(d, Config!Nested(n)) \/ Config!There(d, Config!Legacy(n))
           \/ \A m \in Profiles :
                /\ ~Config!There(Config!Apply(d, kv), Config!Nested(m))
                /\ ~Config!There(Config!Apply(d, kv), Config!Legacy(m))
    PROVE  Config!ResolveProfile(n, Config!Apply(d, kv)) =
             Config!ResolveProfile(n, d)
  <1> DEFINE new == Config!Apply(d, kv)
             nested(x) == {m \in Profiles : Config!There(x, Config!Nested(m))}
             legacy(x) == {m \in Profiles : Config!There(x, Config!Legacy(m))}
             root(x) == {m \in Profiles : Config!There(x, Config!Root(m))}
  <1> SUFFICES Config!ResolveProfile(n, new) = Config!ResolveProfile(n, d)
    OBVIOUS
  <1>1. ASSUME NEW m \in Profiles
        PROVE  /\ Config!Nested(m) \in Seq(STRING) /\ Config!Legacy(m) \in Seq(STRING)
               /\ Config!Root(m) \in Seq(STRING)
    BY DEF Config!FilesAssumption
  <1>2. ASSUME NEW t \in {Config!Nested(n), Config!Legacy(n), Config!Root(n)}
        PROVE  /\ Config!There(new, t) <=> Config!There(d, t)
               /\ Config!Table(new, t) = Config!Table(d, t)
    <2>1. t \in Seq(STRING)
      BY <1>1
    <2>2. QED BY <2>1, ApartStays
  <1>3. ASSUME NEW m \in Profiles, NEW t \in {Config!Nested(m), Config!Legacy(m)},
               Config!There(d, t)
        PROVE  Config!There(new, t)
    <2>1. t \in Seq(STRING) /\ kv[1] \in Seq(STRING) /\ DOMAIN d \subseteq Seq(STRING)
      BY <1>1, FilesFacts
    <2>2. ~Config!IsPrefix(kv[1], t)
      BY DEF Config!FilesAssumption
    <2>3. CASE Config!IsPrefix(t, kv[1])
      <3>1. kv[1] # t
        BY <2>1, <2>2, PrefixItself
      <3>2. kv[1] \in DOMAIN new
        BY DEF Config!Apply
      <3>3. QED BY <2>3, <3>1, <3>2 DEF Config!There, Config!IsStrictPrefix
    <2>4. CASE ~Config!IsPrefix(t, kv[1])
      BY <1>3, <2>1, <2>2, <2>4, ApartStays
    <2>5. QED BY <2>3, <2>4
  <1> HIDE DEF new
  <1>4. n # None
    BY DEF Config!FilesAssumption
  <1>5. ASSUME NEW x
        PROVE  Config!ResolveProfile(n, x) =
                 IF n \in nested(x) THEN Config!Table(x, Config!Nested(n))
                 ELSE IF n \in legacy(x) THEN Config!Table(x, Config!Legacy(n))
                 ELSE IF nested(x) \cup legacy(x) = {} /\ n \in root(x)
                 THEN Config!Table(x, Config!Root(n))
                 ELSE None
    <2>1. Config!SelectProfile(n, x) = n
      BY <1>4 DEF Config!SelectProfile
    <2>2. Config!ResolveProfile(n, x) =
            IF n \in DOMAIN Config!DistributorProfiles(x)
            THEN Config!DistributorProfiles(x)[n] ELSE None
      BY <1>4, <2>1 DEF Config!ResolveProfile
    <2>3. CASE nested(x) \cup legacy(x) = {}
      <3>1. Config!DistributorProfiles(x) =
              [m \in root(x) |-> Config!Table(x, Config!Root(m))]
        BY <2>3 DEF Config!DistributorProfiles
      <3>2. QED BY <2>2, <2>3, <3>1
    <2>4. CASE nested(x) \cup legacy(x) # {}
      <3>1. Config!DistributorProfiles(x) =
              [m \in nested(x) \cup legacy(x) |->
                 Config!Table(x, IF m \in nested(x) THEN Config!Nested(m)
                                 ELSE Config!Legacy(m))]
        BY <2>4 DEF Config!DistributorProfiles
      <3>2. QED BY <2>2, <2>4, <3>1
    <2>5. QED BY <2>3, <2>4
  <1>6. /\ n \in nested(new) <=> n \in nested(d)
        /\ n \in legacy(new) <=> n \in legacy(d)
        /\ n \in root(new) <=> n \in root(d)
    BY <1>2
  <1>7. CASE n \in nested(d)
    <2>1. /\ Config!ResolveProfile(n, new) = Config!Table(new, Config!Nested(n))
          /\ Config!ResolveProfile(n, d) = Config!Table(d, Config!Nested(n))
      BY <1>5, <1>6, <1>7
    <2>2. QED BY <1>2, <2>1
  <1>8. CASE n \notin nested(d) /\ n \in legacy(d)
    <2>1. /\ Config!ResolveProfile(n, new) = Config!Table(new, Config!Legacy(n))
          /\ Config!ResolveProfile(n, d) = Config!Table(d, Config!Legacy(n))
      BY <1>5, <1>6, <1>8
    <2>2. QED BY <1>2, <2>1
  <1>9. CASE n \notin nested(d) /\ n \notin legacy(d)
    <2>1. nested(new) \cup legacy(new) = {}
      BY <1>9 DEF new
    <2>2. nested(d) \cup legacy(d) = {}
      BY <1>3, <2>1
    <2>3. CASE n \in root(d)
      <3>1. /\ Config!ResolveProfile(n, new) = Config!Table(new, Config!Root(n))
            /\ Config!ResolveProfile(n, d) = Config!Table(d, Config!Root(n))
        BY <1>5, <1>6, <1>9, <2>1, <2>2, <2>3
      <3>2. QED BY <1>2, <3>1
    <2>4. CASE n \notin root(d)
      BY <1>5, <1>6, <1>9, <2>4
    <2>5. QED BY <2>3, <2>4
  <1>10. QED BY <1>7, <1>8, <1>9

-----------------------------------------------------------------------------
(* ConfigFiles: one writer at a time, and what the history says.           *)

ConfigWriting(s) == config_stage[s] \in {"truncate", "fill"}
ConfigTypes ==
    /\ \A f \in ConfigFileNames :
         disk[f] \in {Missing, Broken} \/ Config!IsDocument(disk[f])
    /\ DOMAIN disk = ConfigFileNames
    /\ config_stage \in [Clients -> Config!Stages]
    /\ config_commands \in 0..MaxSettings
    /\ env \in [Clients -> Environments]
    /\ config_path \in [Clients -> ConfigFileNames \cup {None}]
    /\ setting \in [Clients -> Settings \cup {Config!NoSetting}]
    /\ asked \in [Clients -> Profiles \cup {None}]
    /\ DOMAIN doc = Clients /\ DOMAIN seen = Clients
    /\ \A s \in Clients :
         /\ Config!IsDocument(doc[s])
         /\ \/ seen[s] \in {None, Failed}
            \/ seen[s].program \in Config!Values \cup {None}
         /\ config_stage[s] \in {"read", "truncate", "fill"} =>
              setting[s] \in Settings /\ config_path[s] \in ConfigFileNames
    /\ DOMAIN settings = ConfigFileNames
    /\ \A f \in ConfigFileNames : DOMAIN settings[f] \subseteq ConfigKeys
    /\ config_disturbed \subseteq ConfigFileNames
\* What was reported of a file that was never disturbed is what it says, but
\* while one shell fills it: then it is empty, and that shell has it all.
FileTold(f) ==
    f \notin config_disturbed =>
        /\ \A s, t \in Clients :
             ConfigWriting(s) /\ ConfigWriting(t)
             /\ config_path[s] = f /\ config_path[t] = f => s = t
        /\ \A s \in Clients : ConfigWriting(s) /\ config_path[s] = f =>
             doc[s] = Config!Apply(settings[f], setting[s])
        /\ \A s \in Clients : config_stage[s] = "fill" /\ config_path[s] = f =>
             disk[f] = Config!Empty
        /\ (\A s \in Clients : ~(config_stage[s] = "fill" /\ config_path[s] = f)) =>
             Config!Document(f) = settings[f]
ConfigInv == ConfigTypes /\ \A f \in ConfigFileNames : FileTold(f)
\* A configured file stays there, and nothing was reported of another one.
ConfigKnown ==
    /\ configured \subseteq ConfigFileNames
    /\ \A f \in configured : disk[f] # Missing
    /\ \A f \in ConfigFileNames \ configured : settings[f] = Config!Empty

LEMMA ConfigTyped ==
    ASSUME ConfigInv, ConfigKnown
    PROVE  Config!TypeOK
  BY DEF ConfigInv, ConfigTypes, ConfigKnown, Config!TypeOK

LEMMA InitConfig ==
    ASSUME Config!FilesAssumption, Config!Init
    PROVE  ConfigInv /\ ConfigKnown
  <1>1. \A f \in ConfigFileNames : disk[f] = Missing \/ Config!IsDocument(disk[f])
    BY DEF Config!Init, Config!FilesAssumption
  <1>2. DOMAIN disk = ConfigFileNames /\ MaxSettings \in Nat
    BY DEF Config!Init, Config!FilesAssumption
  <1>3. \A f \in ConfigFileNames : settings[f] = Config!Document(f)
    BY DEF Config!Init, Config!Document
  <1>4. ASSUME NEW f \in ConfigFileNames
        PROVE  DOMAIN settings[f] \subseteq ConfigKeys
    <2>1. Config!IsDocument(settings[f])
      BY <1>1, <1>3, EmptyIsDocument DEF Config!Document
    <2>2. QED BY <2>1 DEF Config!IsDocument
  <1>5. ConfigTypes
    BY <1>1, <1>2, <1>4, EmptyIsDocument
    DEF Config!Init, ConfigTypes, Config!Stages
  <1>6. ASSUME NEW f \in ConfigFileNames PROVE FileTold(f)
    <2>1. \A s \in Clients : config_stage[s] = "idle"
      BY DEF Config!Init
    <2>2. \A s \in Clients : ~ConfigWriting(s) /\ config_stage[s] # "fill"
      BY <2>1 DEF ConfigWriting
    <2>3. QED BY <1>3, <2>2 DEF FileTold
  <1>7. ConfigKnown
    BY DEF Config!Init, ConfigKnown
  <1>8. QED BY <1>5, <1>6, <1>7 DEF ConfigInv

\* A step of a shell that neither writes nor touches the files.
LEMMA FilesUntouched ==
    ASSUME \A f \in ConfigFileNames : FileTold(f), ConfigTypes, NEW s \in Clients,
           ~ConfigWriting(s)', config_stage[s] # "fill",
           \A t \in Clients \ {s} : /\ config_stage'[t] = config_stage[t]
                                    /\ config_path'[t] = config_path[t]
                                    /\ setting'[t] = setting[t] /\ doc'[t] = doc[t],
           UNCHANGED <<disk, settings, config_disturbed>>
    PROVE  \A f \in ConfigFileNames : FileTold(f)'
  <1> SUFFICES ASSUME NEW f \in ConfigFileNames, f \notin config_disturbed
               PROVE  FileTold(f)'
    BY DEF FileTold
  <1>1. /\ \A t, u \in Clients :
             ConfigWriting(t) /\ ConfigWriting(u)
             /\ config_path[t] = f /\ config_path[u] = f => t = u
        /\ \A t \in Clients : ConfigWriting(t) /\ config_path[t] = f =>
             doc[t] = Config!Apply(settings[f], setting[t])
        /\ \A t \in Clients : config_stage[t] = "fill" /\ config_path[t] = f =>
             disk[f] = Config!Empty
        /\ (\A t \in Clients : ~(config_stage[t] = "fill" /\ config_path[t] = f)) =>
             Config!Document(f) = settings[f]
    BY DEF FileTold
  <1>2. \A t \in Clients : ConfigWriting(t)' => ConfigWriting(t) /\ t # s
    BY DEF ConfigWriting
  <1>3. Config!Document(f)' = Config!Document(f)
    BY DEF Config!Document
  <1>4. config_stage'[s] # "fill"
    BY DEF ConfigWriting
  <1>5. \A t \in Clients : (config_stage'[t] = "fill" /\ config_path'[t] = f)
                         <=> (config_stage[t] = "fill" /\ config_path[t] = f)
    BY <1>4
  <1>6. \A t, u \in Clients :
          ConfigWriting(t)' /\ ConfigWriting(u)'
          /\ config_path'[t] = f /\ config_path'[u] = f => t = u
    BY <1>1, <1>2
  <1>7. ASSUME NEW t \in Clients, ConfigWriting(t)', config_path'[t] = f
        PROVE  doc'[t] = Config!Apply(settings'[f], setting'[t])
    <2>1. t # s /\ ConfigWriting(t)
      BY <1>2, <1>7
    <2>2. /\ config_path[t] = f /\ doc'[t] = doc[t] /\ setting'[t] = setting[t]
          /\ settings' = settings
      BY <1>7, <2>1
    <2>3. doc[t] = Config!Apply(settings[f], setting[t])
      BY <1>1, <2>1, <2>2
    <2>4. QED BY <2>2, <2>3
  <1>8. \A t \in Clients : config_stage'[t] = "fill" /\ config_path'[t] = f =>
          disk'[f] = Config!Empty
    BY <1>1, <1>5
  <1>9. (\A t \in Clients : ~(config_stage'[t] = "fill" /\ config_path'[t] = f)) =>
          Config!Document(f)' = settings'[f]
    BY <1>1, <1>3, <1>5
  <1>10. QED BY <1>6, <1>7, <1>8, <1>9 DEF FileTold

\* The end of a command, whatever it leaves in the files.
LEMMA ConfigEnds ==
    ASSUME ConfigTypes, NEW s \in Clients, Config!End(s),
           DOMAIN disk' = ConfigFileNames,
           \A f \in ConfigFileNames :
               disk'[f] \in {Missing, Broken} \/ Config!IsDocument(disk'[f]),
           DOMAIN settings' = ConfigFileNames,
           \A f \in ConfigFileNames : DOMAIN settings'[f] \subseteq ConfigKeys,
           config_disturbed' \subseteq ConfigFileNames,
           DOMAIN seen' = Clients,
           \A t \in Clients : \/ seen'[t] \in {None, Failed}
                              \/ seen'[t].program \in Config!Values \cup {None}
    PROVE  ConfigTypes'
  <1>1. /\ \A t \in Clients : Config!IsDocument(doc'[t])
        /\ DOMAIN doc' = Clients
    BY EmptyIsDocument DEF ConfigTypes, Config!End
  <1>2. \A t \in Clients : config_stage'[t] \in {"read", "truncate", "fill"} =>
          setting'[t] \in Settings /\ config_path'[t] \in ConfigFileNames
    BY DEF ConfigTypes, Config!End, Config!Goto
  <1>3. /\ config_stage' \in [Clients -> Config!Stages]
        /\ config_commands' \in 0..MaxSettings
        /\ env' \in [Clients -> Environments]
        /\ config_path' \in [Clients -> ConfigFileNames \cup {None}]
        /\ setting' \in [Clients -> Settings \cup {Config!NoSetting}]
        /\ asked' \in [Clients -> Profiles \cup {None}]
    BY DEF ConfigTypes, Config!End, Config!Goto, Config!Stages
  <1>4. QED BY <1>1, <1>2, <1>3 DEF ConfigTypes

\* The end of one that was not filling a file.
LEMMA StopStep ==
    ASSUME ConfigInv, NEW s \in Clients, config_stage[s] # "fill", Config!End(s),
           UNCHANGED <<disk, settings, config_disturbed>>,
           DOMAIN seen' = Clients,
           \A t \in Clients : \/ seen'[t] \in {None, Failed}
                              \/ seen'[t].program \in Config!Values \cup {None}
    PROVE  ConfigInv'
  <1>1. ConfigTypes /\ \A f \in ConfigFileNames : FileTold(f)
    BY DEF ConfigInv
  <1>2. ConfigTypes'
    <2>1. /\ \A f \in ConfigFileNames :
               disk[f] \in {Missing, Broken} \/ Config!IsDocument(disk[f])
          /\ DOMAIN disk = ConfigFileNames /\ DOMAIN settings = ConfigFileNames
          /\ \A f \in ConfigFileNames : DOMAIN settings[f] \subseteq ConfigKeys
          /\ config_disturbed \subseteq ConfigFileNames
      BY <1>1 DEF ConfigTypes
    <2>2. QED BY <1>1, <2>1, ConfigEnds
  <1>3. ~ConfigWriting(s)'
    BY <1>1 DEF ConfigTypes, Config!End, Config!Goto, ConfigWriting
  <1>4. \A t \in Clients \ {s} :
          /\ config_stage'[t] = config_stage[t] /\ config_path'[t] = config_path[t]
          /\ setting'[t] = setting[t] /\ doc'[t] = doc[t]
    BY <1>1 DEF ConfigTypes, Config!End, Config!Goto
  <1>5. \A f \in ConfigFileNames : FileTold(f)'
    BY <1>1, <1>3, <1>4, FilesUntouched
  <1>6. QED BY <1>2, <1>5 DEF ConfigInv

\* The files an environment names.
LEMMA PathsOfEnv ==
    ASSUME Config!FilesAssumption, NEW e \in Environments, NEW d
    PROVE  /\ Config!ConfigPath(e) \in ConfigFileNames \cup {None}
           /\ Config!Selected(e, d) \in ConfigFileNames \cup {None}
  <1>1. /\ e.variables \in Seq(ConfigFileNames) /\ e.candidates \in Seq(ConfigFileNames)
        /\ Len(e.candidates) \in Nat /\ DOMAIN e.candidates = 1..Len(e.candidates)
    BY DEF Config!FilesAssumption
  <1>2. Config!ConfigPath(e) \in ConfigFileNames \cup {None}
    BY <1>1, HeadTailProperties DEF Config!ConfigPath
  <1>3. Config!FirstExisting(e.candidates, d) \in ConfigFileNames \cup {None}
    <2> DEFINE there == {i \in DOMAIN e.candidates : d[e.candidates[i]] # Missing}
    <2>1. CASE there = {}
      BY <2>1 DEF Config!FirstExisting
    <2>2. CASE there # {}
      <3>1. there \in SUBSET Nat
        BY <1>1
      <3> HIDE DEF there
      <3>2. \E i \in there : \A j \in there : i <= j
        BY <2>2, <3>1, LeastOfNaturals
      <3>3. (CHOOSE i \in there : \A j \in there : i <= j) \in there
        BY <3>2
      <3>4. \A i \in there : e.candidates[i] \in ConfigFileNames
        BY <1>1 DEF there
      <3>5. QED BY <2>2, <3>3, <3>4 DEF Config!FirstExisting, there
    <2>3. QED BY <2>1, <2>2
  <1>4. Config!Selected(e, d) \in ConfigFileNames \cup {None}
    BY <1>1, <1>3, HeadTailProperties DEF Config!Selected
  <1>5. QED BY <1>2, <1>4

LEMMA BeginSetStep ==
    ASSUME Config!FilesAssumption, ConfigInv, NEW s \in Clients, NEW kv \in Settings,
           NEW file \in FileArgs, Config!BeginSet(s, kv, file)
    PROVE  ConfigInv'
  <1>1. ConfigTypes /\ \A f \in ConfigFileNames : FileTold(f)
    BY DEF ConfigInv
  <1>2. /\ config_stage[s] = "idle" /\ config_commands < MaxSettings
        /\ config_commands' = config_commands + 1
        /\ setting' = [setting EXCEPT ![s] = kv]
        /\ Config!Goto(s, "read")
        /\ UNCHANGED <<disk, env, doc, settings, config_disturbed, asked, seen>>
    BY DEF Config!BeginSet, Config!Begin, Config!history
  <1>3. PICK p \in ConfigFileNames : config_path' = [config_path EXCEPT ![s] = p]
    <2>1. env[s] \in Environments
      BY <1>1 DEF ConfigTypes
    <2>2. Config!ConfigPath(env[s]) \in ConfigFileNames \cup {None}
      BY <2>1, PathsOfEnv
    <2>3. file \in ConfigFileNames \cup {None}
      BY DEF Config!FilesAssumption
    <2>4. QED BY <2>2, <2>3 DEF Config!BeginSet
  <1>4. MaxSettings \in Nat
    BY DEF Config!FilesAssumption
  <1>5. ConfigTypes'
    BY <1>1, <1>2, <1>3, <1>4 DEF ConfigTypes, Config!Goto, Config!Stages
  <1>6. ~ConfigWriting(s)'
    BY <1>1, <1>2 DEF ConfigTypes, Config!Goto, ConfigWriting
  <1>7. \A t \in Clients \ {s} :
          /\ config_stage'[t] = config_stage[t] /\ config_path'[t] = config_path[t]
          /\ setting'[t] = setting[t] /\ doc'[t] = doc[t]
    BY <1>1, <1>2, <1>3 DEF ConfigTypes, Config!Goto
  <1>8. \A f \in ConfigFileNames : FileTold(f)'
    BY <1>1, <1>2, <1>6, <1>7, FilesUntouched
  <1>9. QED BY <1>5, <1>8 DEF ConfigInv

LEMMA SelectConfigStep ==
    ASSUME Config!FilesAssumption, ConfigInv, NEW s \in Clients,
           NEW name \in Profiles \cup {None}, Config!SelectConfig(s, name)
    PROVE  ConfigInv'
  <1>1. ConfigTypes /\ \A f \in ConfigFileNames : FileTold(f)
    BY DEF ConfigInv
  <1>2. /\ config_stage[s] = "idle" /\ config_commands < MaxSettings
        /\ config_commands' = config_commands + 1
        /\ config_path' = [config_path EXCEPT ![s] = Config!Selected(env[s], disk)]
        /\ asked' = [asked EXCEPT ![s] = name]
        /\ seen' = [seen EXCEPT ![s] = None]
        /\ Config!Goto(s, "load")
        /\ UNCHANGED <<disk, env, doc, settings, config_disturbed, setting>>
    BY DEF Config!SelectConfig, Config!Begin, Config!history
  <1>3. Config!Selected(env[s], disk) \in ConfigFileNames \cup {None}
    <2>1. env[s] \in Environments
      BY <1>1 DEF ConfigTypes
    <2>2. QED BY <2>1, PathsOfEnv
  <1>4. MaxSettings \in Nat
    BY DEF Config!FilesAssumption
  <1>5. ConfigTypes'
    BY <1>1, <1>2, <1>3, <1>4 DEF ConfigTypes, Config!Goto, Config!Stages
  <1>6. ~ConfigWriting(s)'
    BY <1>1, <1>2 DEF ConfigTypes, Config!Goto, ConfigWriting
  <1>7. \A t \in Clients \ {s} :
          /\ config_stage'[t] = config_stage[t] /\ config_path'[t] = config_path[t]
          /\ setting'[t] = setting[t] /\ doc'[t] = doc[t]
    BY <1>1, <1>2 DEF ConfigTypes, Config!Goto
  <1>8. \A f \in ConfigFileNames : FileTold(f)'
    BY <1>1, <1>2, <1>6, <1>7, FilesUntouched
  <1>9. QED BY <1>5, <1>8 DEF ConfigInv

LEMMA ReadConfigStep ==
    ASSUME Config!FilesAssumption, ConfigInv, NEW s \in Clients, Config!ReadConfig(s)
    PROVE  ConfigInv'
  <1>1. ConfigTypes
    BY DEF ConfigInv
  <1>2. ASSUME NEW d, Config!IsDocument(d)
        PROVE  Config!Seen(asked[s], d).program \in Config!Values \cup {None}
    BY <1>2 DEF Config!Seen, Config!Program, Config!IsDocument
  <1>3. PICK x : /\ seen' = [seen EXCEPT ![s] = x]
                 /\ x = Failed \/ x.program \in Config!Values \cup {None}
    <2>1. CASE config_path[s] = None
      BY <1>2, <2>1, EmptyIsDocument DEF Config!ReadConfig
    <2>2. CASE config_path[s] # None /\ Config!Parses(disk[config_path[s]])
      <3>1. Config!IsDocument(disk[config_path[s]])
        BY <1>1, <2>2 DEF ConfigTypes, Config!Parses
      <3>2. QED BY <1>2, <2>2, <3>1 DEF Config!ReadConfig
    <2>3. CASE config_path[s] # None /\ ~Config!Parses(disk[config_path[s]])
      BY <2>3 DEF Config!ReadConfig
    <2>4. QED BY <2>1, <2>2, <2>3
  <1>4. /\ DOMAIN seen' = Clients
        /\ \A t \in Clients : \/ seen'[t] \in {None, Failed}
                              \/ seen'[t].program \in Config!Values \cup {None}
    BY <1>1, <1>3 DEF ConfigTypes
  <1>5. QED BY <1>4, StopStep DEF Config!ReadConfig, Config!history

LEMMA DocumentOf ==
    ASSUME ConfigTypes, NEW f \in ConfigFileNames, disk[f] # Broken
    PROVE  Config!IsDocument(Config!Document(f))
  BY EmptyIsDocument DEF ConfigTypes, Config!Document

LEMMA ReadDocumentStep ==
    ASSUME Config!FilesAssumption, ConfigInv, NEW s \in Clients,
           Config!ReadDocument(s)
    PROVE  ConfigInv'
  <1> DEFINE p == config_path[s]
             new == Config!Apply(Config!Document(p), setting[s])
  <1>1. ConfigTypes /\ \A f \in ConfigFileNames : FileTold(f)
    BY DEF ConfigInv
  <1>2. /\ config_stage[s] = "read" /\ disk[p] # Broken
        /\ Config!Applies(Config!Document(p), setting[s][1])
        /\ doc' = [doc EXCEPT ![s] = new]
        /\ Config!Goto(s, "truncate")
        /\ UNCHANGED <<disk, config_commands, env, config_path, setting, asked,
                       seen, settings>>
        /\ config_disturbed' = config_disturbed \cup
             {config_path[t] : t \in {u \in Clients : Config!Writing(u) /\ config_path[u] = p}}
    BY DEF Config!ReadDocument
  <1>3. p \in ConfigFileNames /\ setting[s] \in Settings
    BY <1>1, <1>2 DEF ConfigTypes
  <1>4. Config!IsDocument(new)
    BY <1>1, <1>2, <1>3, DocumentOf, ApplyIsDocument
  <1>5. /\ config_disturbed \subseteq config_disturbed'
        /\ \A u \in Clients : ConfigWriting(u) /\ config_path[u] = p =>
             p \in config_disturbed'
        /\ config_disturbed' \subseteq ConfigFileNames
    <2>1. \A u \in Clients : Config!Writing(u) <=> ConfigWriting(u)
      BY DEF Config!Writing, ConfigWriting
    <2>2. config_disturbed \subseteq ConfigFileNames
      BY <1>1 DEF ConfigTypes
    <2>3. QED BY <1>2, <1>3, <2>1, <2>2
  <1> HIDE DEF new
  <1>6. ConfigTypes'
    BY <1>1, <1>2, <1>3, <1>4, <1>5 DEF ConfigTypes, Config!Goto, Config!Stages
  <1>7. /\ ConfigWriting(s)' /\ config_stage'[s] = "truncate"
        /\ doc'[s] = new
        /\ \A t \in Clients \ {s} : /\ ConfigWriting(t)' <=> ConfigWriting(t)
                                    /\ config_stage'[t] = config_stage[t]
                                    /\ doc'[t] = doc[t]
    BY <1>1, <1>2 DEF ConfigTypes, ConfigWriting, Config!Goto
  <1>8. ASSUME NEW f \in ConfigFileNames, f \notin config_disturbed'
        PROVE  FileTold(f)'
    <2>1. /\ \A t, u \in Clients :
               ConfigWriting(t) /\ ConfigWriting(u)
               /\ config_path[t] = f /\ config_path[u] = f => t = u
          /\ \A t \in Clients : ConfigWriting(t) /\ config_path[t] = f =>
               doc[t] = Config!Apply(settings[f], setting[t])
          /\ \A t \in Clients : config_stage[t] = "fill" /\ config_path[t] = f =>
               disk[f] = Config!Empty
          /\ (\A t \in Clients : ~(config_stage[t] = "fill" /\ config_path[t] = f)) =>
               Config!Document(f) = settings[f]
      BY <1>1, <1>5, <1>8 DEF FileTold
    <2>2. \A t \in Clients : (config_stage'[t] = "fill" /\ config_path'[t] = f)
                           <=> (config_stage[t] = "fill" /\ config_path[t] = f)
      BY <1>2, <1>7
    <2>3. \A t, u \in Clients :
            ConfigWriting(t)' /\ ConfigWriting(u)'
            /\ config_path'[t] = f /\ config_path'[u] = f => t = u
      BY <1>2, <1>5, <1>7, <1>8, <2>1
    <2>4. ASSUME NEW t \in Clients, ConfigWriting(t)', config_path'[t] = f
          PROVE  doc'[t] = Config!Apply(settings'[f], setting'[t])
      <3>1. CASE t = s
        <4>1. f = p
          BY <1>2, <2>4, <3>1
        <4>2. \A u \in Clients : ~(config_stage[u] = "fill" /\ config_path[u] = f)
          BY <1>5, <1>8, <4>1 DEF ConfigWriting
        <4>3. Config!Document(f) = settings[f]
          BY <2>1, <4>2
        <4>4. QED BY <1>2, <1>7, <3>1, <4>1, <4>3 DEF new
      <3>2. CASE t # s
        BY <1>2, <1>7, <2>1, <2>4, <3>2
      <3>3. QED BY <3>1, <3>2
    <2>5. \A t \in Clients : config_stage'[t] = "fill" /\ config_path'[t] = f =>
            disk'[f] = Config!Empty
      BY <1>2, <2>1, <2>2
    <2>6. (\A t \in Clients : ~(config_stage'[t] = "fill" /\ config_path'[t] = f)) =>
            Config!Document(f)' = settings'[f]
      BY <1>2, <2>1, <2>2 DEF Config!Document
    <2>7. QED BY <2>3, <2>4, <2>5, <2>6 DEF FileTold
  <1>9. \A f \in ConfigFileNames : FileTold(f)'
    BY <1>8 DEF FileTold
  <1>10. QED BY <1>6, <1>9 DEF ConfigInv

LEMMA TruncateStep ==
    ASSUME Config!FilesAssumption, ConfigInv, NEW s \in Clients, Config!Truncate(s)
    PROVE  ConfigInv'
  <1> DEFINE p == config_path[s]
  <1>1. ConfigTypes /\ \A f \in ConfigFileNames : FileTold(f)
    BY DEF ConfigInv
  <1>2. /\ config_stage[s] = "truncate"
        /\ disk' = [disk EXCEPT ![p] = Config!Empty]
        /\ Config!Goto(s, "fill")
        /\ UNCHANGED <<config_commands, env, config_path, setting, asked, doc,
                       seen, settings, config_disturbed>>
    BY DEF Config!Truncate, Config!history
  <1>3. p \in ConfigFileNames
    BY <1>1, <1>2 DEF ConfigTypes
  <1>4. /\ DOMAIN disk' = ConfigFileNames /\ disk'[p] = Config!Empty
        /\ \A f \in ConfigFileNames \ {p} : disk'[f] = disk[f]
    BY <1>1, <1>2, <1>3 DEF ConfigTypes
  <1>5. ConfigTypes'
    <2>1. \A f \in ConfigFileNames :
            disk'[f] \in {Missing, Broken} \/ Config!IsDocument(disk'[f])
      BY <1>1, <1>4, EmptyIsDocument DEF ConfigTypes
    <2>2. QED
      BY <1>1, <1>2, <1>3, <1>4, <2>1 DEF ConfigTypes, Config!Goto, Config!Stages
  <1>6. /\ \A t \in Clients : ConfigWriting(t)' <=> ConfigWriting(t)
        /\ ConfigWriting(s)
        /\ config_stage'[s] = "fill"
        /\ \A t \in Clients \ {s} : config_stage'[t] = config_stage[t]
    BY <1>1, <1>2 DEF ConfigTypes, ConfigWriting, Config!Goto
  <1>7. ASSUME NEW f \in ConfigFileNames, f \notin config_disturbed
        PROVE  FileTold(f)'
    <2>1. /\ \A t, u \in Clients :
               ConfigWriting(t) /\ ConfigWriting(u)
               /\ config_path[t] = f /\ config_path[u] = f => t = u
          /\ \A t \in Clients : ConfigWriting(t) /\ config_path[t] = f =>
               doc[t] = Config!Apply(settings[f], setting[t])
          /\ \A t \in Clients : config_stage[t] = "fill" /\ config_path[t] = f =>
               disk[f] = Config!Empty
          /\ (\A t \in Clients : ~(config_stage[t] = "fill" /\ config_path[t] = f)) =>
               Config!Document(f) = settings[f]
      BY <1>1, <1>7 DEF FileTold
    <2>2. \A t, u \in Clients :
            ConfigWriting(t)' /\ ConfigWriting(u)'
            /\ config_path'[t] = f /\ config_path'[u] = f => t = u
      BY <1>2, <1>6, <2>1
    <2>3. \A t \in Clients : ConfigWriting(t)' /\ config_path'[t] = f =>
            doc'[t] = Config!Apply(settings'[f], setting'[t])
      BY <1>2, <1>6, <2>1
    <2>4. ASSUME NEW t \in Clients, config_stage'[t] = "fill", config_path'[t] = f
          PROVE  disk'[f] = Config!Empty
      <3>1. CASE f = p
        BY <1>4, <3>1
      <3>2. CASE f # p
        BY <1>2, <1>4, <1>6, <2>1, <2>4, <3>2
      <3>3. QED BY <3>1, <3>2
    <2>5. ASSUME \A t \in Clients : ~(config_stage'[t] = "fill" /\ config_path'[t] = f)
          PROVE  Config!Document(f)' = settings'[f]
      <3>1. f # p
        BY <1>2, <1>6, <2>5
      <3>2. \A t \in Clients : ~(config_stage[t] = "fill" /\ config_path[t] = f)
        BY <1>2, <1>6, <2>5
      <3>3. QED BY <1>2, <1>4, <2>1, <3>1, <3>2 DEF Config!Document
    <2>6. QED BY <2>2, <2>3, <2>4, <2>5 DEF FileTold
  <1>8. \A f \in ConfigFileNames : FileTold(f)'
    BY <1>2, <1>7 DEF FileTold
  <1>9. QED BY <1>5, <1>8 DEF ConfigInv

\* A file that is filled, undisturbed, is what was read with the setting.
LEMMA FilledIsTold ==
    ASSUME Config!FilesAssumption, ConfigInv, NEW s \in Clients, Config!Fill(s),
           config_path[s] \notin config_disturbed
    PROVE  /\ config_path[s] \in ConfigFileNames /\ setting[s] \in Settings
           /\ doc[s] = Config!Apply(settings[config_path[s]], setting[s])
           /\ disk' = [disk EXCEPT ![config_path[s]] = doc[s]]
           /\ Config!IsDocument(doc[s])
  <1>1. ConfigTypes /\ config_stage[s] = "fill"
    BY DEF ConfigInv, Config!Fill
  <1>2. config_path[s] \in ConfigFileNames /\ setting[s] \in Settings
        /\ Config!IsDocument(doc[s])
    BY <1>1 DEF ConfigTypes
  <1>3. FileTold(config_path[s])
    BY <1>2 DEF ConfigInv
  <1>4. /\ doc[s] = Config!Apply(settings[config_path[s]], setting[s])
        /\ disk[config_path[s]] = Config!Empty
    BY <1>1, <1>3 DEF FileTold, ConfigWriting
  <1>5. Config!Filled(disk[config_path[s]], doc[s]) = {doc[s]}
    BY <1>4 DEF Config!Filled
  <1>6. disk' = [disk EXCEPT ![config_path[s]] = doc[s]]
    BY <1>5 DEF Config!Fill
  <1>7. QED BY <1>2, <1>4, <1>6

LEMMA FillStep ==
    ASSUME Config!FilesAssumption, ConfigInv, NEW s \in Clients, Config!Fill(s)
    PROVE  ConfigInv'
  <1> DEFINE p == config_path[s]
  <1>1. ConfigTypes /\ \A f \in ConfigFileNames : FileTold(f)
    BY DEF ConfigInv
  <1>2. /\ config_stage[s] = "fill" /\ Config!End(s)
        /\ settings' = [settings EXCEPT ![p] = Config!Apply(settings[p], setting[s])]
        /\ UNCHANGED <<seen, config_disturbed>>
    BY DEF Config!Fill
  <1>3. p \in ConfigFileNames /\ setting[s] \in Settings
    BY <1>1, <1>2 DEF ConfigTypes
  <1>4. PICK d \in Config!Filled(disk[p], doc[s]) : disk' = [disk EXCEPT ![p] = d]
    BY DEF Config!Fill
  <1>5. d = Broken \/ Config!IsDocument(d)
    <2>1. Config!IsDocument(doc[s])
      BY <1>1 DEF ConfigTypes
    <2>2. QED BY <1>4, <2>1 DEF Config!Filled
  <1>6. /\ DOMAIN disk' = ConfigFileNames /\ DOMAIN settings' = ConfigFileNames
        /\ \A f \in ConfigFileNames \ {p} :
             disk'[f] = disk[f] /\ settings'[f] = settings[f]
        /\ disk'[p] = d
        /\ settings'[p] = Config!Apply(settings[p], setting[s])
    BY <1>1, <1>2, <1>3, <1>4 DEF ConfigTypes
  <1>7. ConfigTypes'
    <2>1. \A f \in ConfigFileNames :
            disk'[f] \in {Missing, Broken} \/ Config!IsDocument(disk'[f])
      BY <1>1, <1>5, <1>6 DEF ConfigTypes
    <2>2. DOMAIN Config!Apply(settings[p], setting[s]) \subseteq ConfigKeys
      <3>1. DOMAIN settings[p] \subseteq ConfigKeys /\ setting[s][1] \in ConfigKeys
        BY <1>1, <1>3, FilesFacts DEF ConfigTypes
      <3>2. QED BY <3>1 DEF Config!Apply
    <2>3. \A f \in ConfigFileNames : DOMAIN settings'[f] \subseteq ConfigKeys
      BY <1>1, <1>6, <2>2 DEF ConfigTypes
    <2>4. /\ DOMAIN seen' = Clients /\ config_disturbed' \subseteq ConfigFileNames
          /\ \A t \in Clients : \/ seen'[t] \in {None, Failed}
                                \/ seen'[t].program \in Config!Values \cup {None}
      BY <1>1, <1>2 DEF ConfigTypes
    <2>5. QED BY <1>1, <1>2, <1>6, <2>1, <2>3, <2>4, ConfigEnds
  <1>8. /\ ~ConfigWriting(s)' /\ config_stage'[s] # "fill"
        /\ \A t \in Clients \ {s} :
             /\ config_stage'[t] = config_stage[t] /\ config_path'[t] = config_path[t]
             /\ setting'[t] = setting[t] /\ doc'[t] = doc[t]
             /\ ConfigWriting(t)' <=> ConfigWriting(t)
    BY <1>1, <1>2 DEF ConfigTypes, Config!End, Config!Goto, ConfigWriting
  <1>9. ASSUME NEW f \in ConfigFileNames, f \notin config_disturbed
        PROVE  FileTold(f)'
    <2>1. /\ \A t, u \in Clients :
               ConfigWriting(t) /\ ConfigWriting(u)
               /\ config_path[t] = f /\ config_path[u] = f => t = u
          /\ \A t \in Clients : ConfigWriting(t) /\ config_path[t] = f =>
               doc[t] = Config!Apply(settings[f], setting[t])
          /\ \A t \in Clients : config_stage[t] = "fill" /\ config_path[t] = f =>
               disk[f] = Config!Empty
          /\ (\A t \in Clients : ~(config_stage[t] = "fill" /\ config_path[t] = f)) =>
               Config!Document(f) = settings[f]
      BY <1>1, <1>9 DEF FileTold
    <2>2. \A t, u \in Clients :
            ConfigWriting(t)' /\ ConfigWriting(u)'
            /\ config_path'[t] = f /\ config_path'[u] = f => t = u
      BY <1>8, <2>1
    <2>3. CASE f = p
      <3>1. ConfigWriting(s)
        BY <1>2 DEF ConfigWriting
      <3>2. \A t \in Clients : ~(ConfigWriting(t)' /\ config_path'[t] = f)
        BY <1>8, <2>1, <2>3, <3>1
      <3>3. \A t \in Clients : ~(config_stage'[t] = "fill" /\ config_path'[t] = f)
        BY <3>2 DEF ConfigWriting
      <3>4. disk'[f] = doc[s] /\ settings'[f] = doc[s] /\ Config!IsDocument(doc[s])
        BY <1>1, <1>3, <1>6, <1>9, <2>3, FilledIsTold DEF ConfigTypes
      <3>5. Config!Document(f)' = settings'[f]
        BY <3>4, FilesFacts DEF Config!Document
      <3>6. QED BY <2>2, <3>2, <3>3, <3>5 DEF FileTold
    <2>4. CASE f # p
      <3>1. \A t \in Clients : (config_stage'[t] = "fill" /\ config_path'[t] = f)
                             <=> (config_stage[t] = "fill" /\ config_path[t] = f)
        BY <1>8, <2>4
      <3>2. \A t \in Clients : ConfigWriting(t)' /\ config_path'[t] = f =>
              doc'[t] = Config!Apply(settings'[f], setting'[t])
        BY <1>6, <1>8, <2>1, <2>4
      <3>3. \A t \in Clients : config_stage'[t] = "fill" /\ config_path'[t] = f =>
              disk'[f] = Config!Empty
        BY <1>6, <2>1, <2>4, <3>1
      <3>4. (\A t \in Clients : ~(config_stage'[t] = "fill" /\ config_path'[t] = f)) =>
              Config!Document(f)' = settings'[f]
        BY <1>6, <2>1, <2>4, <3>1 DEF Config!Document
      <3>5. QED BY <2>2, <3>2, <3>3, <3>4 DEF FileTold
    <2>5. QED BY <2>3, <2>4
  <1>10. \A f \in ConfigFileNames : FileTold(f)'
    BY <1>2, <1>9 DEF FileTold
  <1>11. QED BY <1>7, <1>10 DEF ConfigInv

LEMMA InterruptStep ==
    ASSUME Config!FilesAssumption, ConfigInv, NEW s \in Clients, Config!Interrupt(s)
    PROVE  ConfigInv'
  <1> DEFINE p == config_path[s]
  <1>1. ConfigTypes /\ \A f \in ConfigFileNames : FileTold(f)
    BY DEF ConfigInv
  <1>2. /\ config_stage[s] = "fill" /\ Config!End(s)
        /\ config_disturbed' = config_disturbed \cup {p}
        /\ UNCHANGED <<seen, settings>>
    BY DEF Config!Interrupt
  <1>3. p \in ConfigFileNames
    BY <1>1, <1>2 DEF ConfigTypes
  <1>4. PICK d \in {disk[p], Broken} \cup
                   {Config!With(doc[s], K) : K \in SUBSET DOMAIN doc[s]} :
          disk' = [disk EXCEPT ![p] = d]
    BY DEF Config!Interrupt
  <1>5. d \in {Missing, Broken} \/ Config!IsDocument(d)
    <2>1. Config!IsDocument(doc[s])
          /\ (disk[p] \in {Missing, Broken} \/ Config!IsDocument(disk[p]))
      BY <1>1, <1>3 DEF ConfigTypes
    <2>2. \A K : Config!IsDocument(Config!With(doc[s], K))
      BY <2>1, WithIsDocument
    <2>3. QED BY <1>4, <2>1, <2>2
  <1>6. /\ DOMAIN disk' = ConfigFileNames /\ disk'[p] = d
        /\ \A f \in ConfigFileNames \ {p} : disk'[f] = disk[f]
    BY <1>1, <1>3, <1>4 DEF ConfigTypes
  <1>7. ConfigTypes'
    <2>1. \A f \in ConfigFileNames :
            disk'[f] \in {Missing, Broken} \/ Config!IsDocument(disk'[f])
      BY <1>1, <1>5, <1>6 DEF ConfigTypes
    <2>2. /\ DOMAIN seen' = Clients /\ config_disturbed' \subseteq ConfigFileNames
          /\ DOMAIN settings' = ConfigFileNames
          /\ \A f \in ConfigFileNames : DOMAIN settings'[f] \subseteq ConfigKeys
          /\ \A t \in Clients : \/ seen'[t] \in {None, Failed}
                                \/ seen'[t].program \in Config!Values \cup {None}
      BY <1>1, <1>2, <1>3 DEF ConfigTypes
    <2>3. QED BY <1>1, <1>2, <1>6, <2>1, <2>2, ConfigEnds
  <1>8. /\ ~ConfigWriting(s)' /\ config_stage'[s] # "fill"
        /\ \A t \in Clients \ {s} :
             /\ config_stage'[t] = config_stage[t] /\ config_path'[t] = config_path[t]
             /\ setting'[t] = setting[t] /\ doc'[t] = doc[t]
             /\ ConfigWriting(t)' <=> ConfigWriting(t)
    BY <1>1, <1>2 DEF ConfigTypes, Config!End, Config!Goto, ConfigWriting
  <1>9. ASSUME NEW f \in ConfigFileNames, f \notin config_disturbed'
        PROVE  FileTold(f)'
    <2>1. f # p /\ f \notin config_disturbed
      BY <1>2, <1>9
    <2>2. /\ \A t, u \in Clients :
               ConfigWriting(t) /\ ConfigWriting(u)
               /\ config_path[t] = f /\ config_path[u] = f => t = u
          /\ \A t \in Clients : ConfigWriting(t) /\ config_path[t] = f =>
               doc[t] = Config!Apply(settings[f], setting[t])
          /\ \A t \in Clients : config_stage[t] = "fill" /\ config_path[t] = f =>
               disk[f] = Config!Empty
          /\ (\A t \in Clients : ~(config_stage[t] = "fill" /\ config_path[t] = f)) =>
               Config!Document(f) = settings[f]
      BY <1>1, <2>1 DEF FileTold
    <2>3. \A t \in Clients : (config_stage'[t] = "fill" /\ config_path'[t] = f)
                           <=> (config_stage[t] = "fill" /\ config_path[t] = f)
      BY <1>8, <2>1
    <2>4. \A t, u \in Clients :
            ConfigWriting(t)' /\ ConfigWriting(u)'
            /\ config_path'[t] = f /\ config_path'[u] = f => t = u
      BY <1>8, <2>2
    <2>5. \A t \in Clients : ConfigWriting(t)' /\ config_path'[t] = f =>
            doc'[t] = Config!Apply(settings'[f], setting'[t])
      BY <1>2, <1>8, <2>2
    <2>6. \A t \in Clients : config_stage'[t] = "fill" /\ config_path'[t] = f =>
            disk'[f] = Config!Empty
      BY <1>6, <2>1, <2>2, <2>3
    <2>7. (\A t \in Clients : ~(config_stage'[t] = "fill" /\ config_path'[t] = f)) =>
            Config!Document(f)' = settings'[f]
      BY <1>2, <1>6, <2>1, <2>2, <2>3 DEF Config!Document
    <2>8. QED BY <2>4, <2>5, <2>6, <2>7 DEF FileTold
  <1>10. \A f \in ConfigFileNames : FileTold(f)'
    BY <1>9 DEF FileTold
  <1>11. QED BY <1>7, <1>10 DEF ConfigInv

LEMMA NextConfig ==
    ASSUME Config!FilesAssumption, ConfigInv, [Config!Next]_(Config!vars)
    PROVE  ConfigInv'
  <1>1. CASE UNCHANGED Config!vars
    <2>1. ConfigTypes'
      BY <1>1 DEF ConfigInv, ConfigTypes, Config!vars, Config!history
    <2>2. ASSUME NEW f \in ConfigFileNames PROVE FileTold(f)'
      <3>1. FileTold(f)
        BY <2>2 DEF ConfigInv
      <3>2. QED
        BY <1>1, <3>1 DEF FileTold, ConfigWriting, Config!Document,
           Config!vars, Config!history
    <2>3. QED BY <2>1, <2>2 DEF ConfigInv
  <1>2. ASSUME NEW s \in Clients, Config!Stop(s) PROVE ConfigInv'
    <2>1. /\ config_stage[s] # "fill" /\ Config!End(s)
          /\ UNCHANGED <<disk, seen, settings, config_disturbed>>
      BY <1>2 DEF Config!Stop, Config!history
    <2>2. /\ DOMAIN seen' = Clients
          /\ \A t \in Clients : \/ seen'[t] \in {None, Failed}
                                \/ seen'[t].program \in Config!Values \cup {None}
      BY <2>1 DEF ConfigInv, ConfigTypes
    <2>3. QED BY <2>1, <2>2, StopStep
  <1>3. QED
    BY <1>1, <1>2, BeginSetStep, ReadDocumentStep, TruncateStep, FillStep,
       InterruptStep, SelectConfigStep, ReadConfigStep
    DEF Config!Next

LEMMA KnownStep ==
    ASSUME Config!FilesAssumption, ConfigInv, ConfigKnown,
           [Config!Next]_(Config!vars)
    PROVE  ConfigKnown'
  <1>1. ConfigTypes
    BY DEF ConfigInv
  <1>2. ASSUME NEW s \in Clients, Config!Truncate(s) PROVE ConfigKnown'
    <2>1. Config!Empty # Missing
      BY EmptyIsDocument, FilesFacts
    <2>2. /\ disk' = [disk EXCEPT ![config_path[s]] = Config!Empty]
          /\ UNCHANGED <<settings, configured>>
      BY <1>2 DEF Config!Truncate, Config!history
    <2>3. QED BY <1>1, <2>1, <2>2 DEF ConfigKnown, ConfigTypes
  <1>3. ASSUME NEW s \in Clients, Config!Fill(s) PROVE ConfigKnown'
    <2> DEFINE p == config_path[s]
    <2>1. /\ config_stage[s] = "fill"
          /\ settings' = [settings EXCEPT ![p] = Config!Apply(settings[p], setting[s])]
          /\ configured' = configured \cup {p}
      BY <1>3 DEF Config!Fill
    <2>2. PICK d \in Config!Filled(disk[p], doc[s]) : disk' = [disk EXCEPT ![p] = d]
      BY <1>3 DEF Config!Fill
    <2>3. p \in ConfigFileNames /\ Config!IsDocument(doc[s])
      BY <1>1, <2>1 DEF ConfigTypes
    <2>4. d # Missing
      <3>1. d = Broken \/ Config!IsDocument(d)
        BY <2>2, <2>3 DEF Config!Filled
      <3>2. QED BY <3>1, FilesFacts DEF Config!FilesAssumption
    <2>5. QED BY <1>1, <2>1, <2>2, <2>3, <2>4 DEF ConfigKnown, ConfigTypes
  <1>4. ASSUME NEW s \in Clients, Config!Interrupt(s) PROVE ConfigKnown'
    <2> DEFINE p == config_path[s]
    <2>1. config_stage[s] = "fill" /\ UNCHANGED <<settings, configured>>
      BY <1>4 DEF Config!Interrupt
    <2>2. PICK d \in {disk[p], Broken} \cup
                     {Config!With(doc[s], K) : K \in SUBSET DOMAIN doc[s]} :
            disk' = [disk EXCEPT ![p] = d]
      BY <1>4 DEF Config!Interrupt
    <2>3. p \in ConfigFileNames /\ Config!IsDocument(doc[s])
      BY <1>1, <2>1 DEF ConfigTypes
    <2>4. d = Missing => disk[p] = Missing
      <3>1. \A K : Config!With(doc[s], K) # Missing
        BY <2>3, WithIsDocument, FilesFacts
      <3>2. QED BY <2>2, <3>1 DEF Config!FilesAssumption
    <2>5. QED BY <1>1, <2>1, <2>2, <2>3, <2>4 DEF ConfigKnown, ConfigTypes
  <1>5. CASE UNCHANGED <<disk, settings, configured>>
    BY <1>5 DEF ConfigKnown
  <1>6. QED
    BY <1>2, <1>3, <1>4, <1>5
    DEF Config!Next, Config!BeginSet, Config!Begin, Config!ReadDocument,
        Config!Stop, Config!SelectConfig, Config!ReadConfig, Config!vars,
        Config!history

-----------------------------------------------------------------------------
(* ConfigFiles: what it means for the properties.                          *)

\* A setting that is reported is the whole file.
LEMMA ReportIsTold ==
    ASSUME Config!FilesAssumption, ConfigInv, [Config!Next]_(Config!vars),
           NEW s \in Clients, Config!Reports(s)
    PROVE  /\ config_path[s] \in ConfigFileNames /\ setting[s] \in Settings
           /\ env' = env
           /\ disk'[config_path[s]] =
                Config!Apply(settings[config_path[s]], setting[s])
           /\ Config!IsDocument(disk'[config_path[s]])
           /\ \A f \in ConfigFileNames : f # config_path[s] => disk'[f] = disk[f]
  <1>1. /\ config_stage[s] = "fill" /\ config_stage'[s] = "idle"
        /\ config_path[s] \notin config_disturbed'
    BY DEF Config!Reports
  <1>2. ConfigTypes
    BY DEF ConfigInv
  <1>3. Config!Fill(s) \/ Config!Interrupt(s)
    <2>1. ~UNCHANGED Config!vars
      BY <1>1 DEF Config!vars
    <2>2. PICK t \in Clients :
            \/ \E kv \in Settings, f \in FileArgs : Config!BeginSet(t, kv, f)
            \/ Config!ReadDocument(t) \/ Config!Truncate(t) \/ Config!Fill(t)
            \/ Config!Interrupt(t) \/ Config!Stop(t)
            \/ \E name \in Profiles \cup {None} : Config!SelectConfig(t, name)
            \/ Config!ReadConfig(t)
      BY <2>1 DEF Config!Next
    <2>3. \E where \in Config!Stages : Config!Goto(t, where)
      BY <2>2 DEF Config!BeginSet, Config!ReadDocument, Config!Truncate,
         Config!Fill, Config!Interrupt, Config!Stop, Config!SelectConfig,
         Config!ReadConfig, Config!End, Config!Stages
    <2>4. t = s
      BY <1>1, <1>2, <2>3 DEF Config!Goto, ConfigTypes
    <2>5. config_stage[t] = "fill"
      BY <1>1, <2>4
    <2>6. QED
      BY <1>1, <2>2, <2>4, <2>5 DEF Config!BeginSet, Config!Begin,
         Config!ReadDocument, Config!Truncate, Config!Stop,
         Config!SelectConfig, Config!ReadConfig
  <1>4. ~Config!Interrupt(s)
    BY <1>1 DEF Config!Interrupt
  <1>5. Config!Fill(s) /\ config_path[s] \notin config_disturbed
    BY <1>1, <1>3, <1>4 DEF Config!Fill
  <1>6. env' = env
    BY <1>5 DEF Config!Fill, Config!End
  <1>7. disk'[config_path[s]] = doc[s]
    BY <1>2, <1>5, FilledIsTold DEF ConfigTypes
  <1>8. \A f \in ConfigFileNames : f # config_path[s] => disk'[f] = disk[f]
    BY <1>2, <1>5, FilledIsTold DEF ConfigTypes
  <1>9. QED BY <1>5, <1>6, <1>7, <1>8, FilledIsTold

\* The file that an environment writes to is the one that it reads, once it is
\* there.
LEMMA WrittenIsSelected ==
    ASSUME Config!FilesAssumption, NEW e \in Environments, NEW d,
           Config!ConfigPath(e) # None, d[Config!ConfigPath(e)] # Missing
    PROVE  Config!Selected(e, d) = Config!ConfigPath(e)
  <1>1. e.variables \in Seq(ConfigFileNames) /\ e.candidates \in Seq(ConfigFileNames)
    BY DEF Config!FilesAssumption
  <1>2. CASE e.variables # <<>>
    BY <1>2 DEF Config!Selected, Config!ConfigPath
  <1>3. CASE e.variables = <<>>
    <2> DEFINE looked == e.candidates
               there == {i \in DOMAIN looked : d[looked[i]] # Missing}
               first == CHOOSE i \in there : \A j \in there : i <= j
    <2>1. looked # <<>> /\ Config!ConfigPath(e) = looked[1]
      BY <1>1, <1>3 DEF Config!ConfigPath
    <2>2. 1 \in there /\ there \subseteq Nat /\ \A j \in there : 1 <= j
      BY <1>1, <2>1
    <2>3. first = 1
      BY <2>2
    <2>4. Config!FirstExisting(looked, d) = looked[first]
      BY <2>2 DEF Config!FirstExisting
    <2>5. QED BY <1>3, <2>1, <2>3, <2>4 DEF Config!Selected
  <1>4. QED BY <1>2, <1>3

LEMMA SettingRead ==
    ASSUME Config!FilesAssumption, ConfigInv, [Config!Next]_(Config!vars),
           NEW s \in Clients, Config!Reports(s),
           config_path[s] = Config!ConfigPath(env[s])
    PROVE  /\ Config!Selected(env[s], disk') = config_path[s]
           /\ disk'[config_path[s]] =
                Config!Apply(settings[config_path[s]], setting[s])
  <1>1. config_path[s] \in ConfigFileNames /\ disk'[config_path[s]] # Missing
    BY ReportIsTold, FilesFacts
  <1>2. None \notin ConfigFileNames
    BY DEF Config!FilesAssumption
  <1>3. env[s] \in Environments
    BY DEF ConfigInv, ConfigTypes
  <1>4. Config!Selected(env[s], disk') = config_path[s]
    BY <1>1, <1>2, <1>3, WrittenIsSelected
  <1>5. QED BY <1>4, ReportIsTold

\* A file that is read, and that was there before, was read before, if the
\* files that were there still are.
LEMMA SelectedBefore ==
    ASSUME Config!FilesAssumption, NEW e \in Environments, NEW d, NEW known,
           NEW p \in ConfigFileNames, Config!Selected(e, d) = p, known[p] # Missing,
           \A f \in ConfigFileNames : d[f] = Missing => known[f] = Missing
    PROVE  Config!Selected(e, known) = p
  <1>1. CASE e.variables # <<>>
    BY <1>1 DEF Config!Selected
  <1>2. CASE e.variables = <<>>
    <2> DEFINE looked == e.candidates
               now_there == {i \in DOMAIN looked : d[looked[i]] # Missing}
               there == {i \in DOMAIN looked : known[looked[i]] # Missing}
               first == CHOOSE i \in now_there : \A j \in now_there : i <= j
    <2>1. looked \in Seq(ConfigFileNames) /\ None \notin ConfigFileNames
      BY DEF Config!FilesAssumption
    <2>2. there \subseteq now_there /\ now_there \subseteq Nat
      BY <2>1
    <2>3. Config!FirstExisting(looked, d) = p
      BY <1>2 DEF Config!Selected
    <2>4. now_there # {}
      BY <2>1, <2>3 DEF Config!FirstExisting
    <2>5. p = looked[first]
      BY <2>3, <2>4 DEF Config!FirstExisting
    <2>6. first \in now_there /\ \A j \in now_there : first <= j
      <3> HIDE DEF now_there
      <3>1. \E i \in now_there : \A j \in now_there : i <= j
        BY <2>2, <2>4, LeastOfNaturals
      <3>2. QED BY <3>1
    <2>7. first \in there
      BY <2>5, <2>6
    <2> HIDE DEF first
    <2>8. \A i \in there : (\A j \in there : i <= j) => i = first
      BY <2>2, <2>6, <2>7
    <2>9. (CHOOSE i \in there : \A j \in there : i <= j) = first
      <3> HIDE DEF there, now_there
      <3>1. \A j \in there : first <= j
        BY <2>2, <2>6
      <3>2. QED BY <2>7, <2>8, <3>1
    <2>10. Config!FirstExisting(looked, known) = p
      BY <2>5, <2>7, <2>9 DEF Config!FirstExisting
    <2>11. QED BY <1>2, <2>10 DEF Config!Selected
  <1>3. QED BY <1>1, <1>2

\* What an environment read before is what was reported of the file that was
\* written, unless that file now hides another one.
LEMMA SameDocument ==
    ASSUME Config!FilesAssumption, ConfigInv, ConfigKnown,
           [Config!Next]_(Config!vars), NEW s \in Clients, Config!Reports(s),
           NEW e \in Environments, Config!Selected(e, disk') = config_path[s],
           ~Config!Shadows(config_path[s], e)
    PROVE  Config!DocumentBefore(e) = settings[config_path[s]]
  <1> DEFINE p == config_path[s]
  <1>1. /\ p \in ConfigFileNames /\ disk'[p] # Missing
        /\ \A f \in ConfigFileNames : f # p => disk'[f] = disk[f]
    BY ReportIsTold, FilesFacts
  <1>2. None \notin ConfigFileNames
    BY DEF Config!FilesAssumption
  <1>3. CASE p \in configured
    <2>1. Config!Known[p] # Missing
      BY <1>1, <1>3, EmptyIsDocument, FilesFacts DEF Config!Known
    <2>2. ASSUME NEW f \in ConfigFileNames, disk'[f] = Missing
          PROVE  Config!Known[f] = Missing
      <3>1. f \notin configured
        BY <1>1, <2>2 DEF ConfigKnown
      <3>2. QED BY <3>1 DEF Config!Known
    <2>3. Config!ReadBefore(e) = p
      BY <1>1, <2>1, <2>2, SelectedBefore DEF Config!ReadBefore
    <2>4. QED BY <1>1, <1>2, <2>3 DEF Config!DocumentBefore
  <1>4. CASE p \notin configured
    <2>1. settings[p] = Config!Empty
      BY <1>1, <1>4 DEF ConfigKnown
    <2>2. Config!ReadBefore(e) \in {None, p}
      BY <1>4 DEF Config!Shadows
    <2>3. QED BY <2>1, <2>2 DEF Config!DocumentBefore
  <1>5. QED BY <1>3, <1>4

LEMMA SettingApart ==
    ASSUME Config!FilesAssumption, ConfigInv, ConfigKnown,
           [Config!Next]_(Config!vars),
           NEW s \in Clients, Config!Reports(s), setting[s][1] \in SchemaKeys,
           NEW e \in Environments, NEW n \in Profiles,
           Config!Selected(e, disk') = config_path[s],
           ~Config!Shadows(config_path[s], e),
           ~Config!AboutProfile(setting[s][1], n),
           Config!RootOnly(Config!DocumentBefore(e), n) =>
               \A m \in Profiles : Config!RootOnly(disk'[config_path[s]], m)
    PROVE  Config!ResolveProfile(n, disk'[config_path[s]]) =
             Config!ResolveProfile(n, Config!DocumentBefore(e))
  <1> DEFINE d == settings[config_path[s]]
  <1>1. /\ config_path[s] \in ConfigFileNames /\ setting[s] \in Settings
        /\ disk'[config_path[s]] = Config!Apply(d, setting[s])
    BY ReportIsTold
  <1>2. DOMAIN d \subseteq ConfigKeys
    BY <1>1 DEF ConfigInv, ConfigTypes
  <1>3. Config!DocumentBefore(e) = d
    BY SameDocument
  <1>4. \A t \in {Config!Nested(n), Config!Legacy(n), Config!Root(n)} :
          ~Config!IsPrefix(t, setting[s][1]) /\ ~Config!IsPrefix(setting[s][1], t)
    BY DEF Config!AboutProfile
  <1>5. \/ Config!There(d, Config!Nested(n)) \/ Config!There(d, Config!Legacy(n))
        \/ \A m \in Profiles :
             /\ ~Config!There(Config!Apply(d, setting[s]), Config!Nested(m))
             /\ ~Config!There(Config!Apply(d, setting[s]), Config!Legacy(m))
    BY <1>1, <1>3 DEF Config!RootOnly
  <1> HIDE DEF d
  <1>6. Config!ResolveProfile(n, Config!Apply(d, setting[s])) =
          Config!ResolveProfile(n, d)
    BY <1>1, <1>2, <1>4, <1>5, ResolvedAsBefore
  <1>7. QED BY <1>1, <1>3, <1>6

-----------------------------------------------------------------------------
(* The theorems.                                                           *)

LEMMA FlowInvariant ==
    ASSUME Flow!FlowAssumption
    PROVE  Flow!Spec => []FlowInv
  BY InitFlow, NextFlow, PTL DEF Flow!Spec

LEMMA ConfigInvariant ==
    ASSUME Config!FilesAssumption
    PROVE  Config!Spec => [](ConfigInv /\ ConfigKnown)
  BY InitConfig, NextConfig, KnownStep, PTL DEF Config!Spec

\* The nodes of one flow are checked against one description of each component,
\* and each was accepted by the schema that is kept with it, although the
\* describer may change between two calls (FlowValidator::validate_doc).
THEOREM FlowSeesOneSchema ==
    ASSUME Flow!FlowAssumption
    PROVE  Flow!Spec => []OneSchemaPerComponent
  BY FlowInvariant, OneSchema, PTL

\* A transcript has a node for every node of the flow, in order; what the flow
\* says stands in the resolved configuration, and on the way to every value of
\* it there is one mark, that says where the value is from (merge_with_defaults,
\* ExecutionTranscript).
THEOREM TranscriptsTell ==
    ASSUME Flow!FlowAssumption
    PROVE  Flow!Spec => []TranscriptTells
  BY FlowInvariant, Tells, PTL

\* A transcript that was written stays, as long as no other run has a
\* transcript of a flow with that stem in that second (write_transcript).
THEOREM TranscriptsStay ==
    ASSUME Flow!FlowAssumption
    PROVE  Flow!Spec => []TranscriptKept
  BY FlowInvariant, WrittenIsKept, PTL

\* What `config set` reports is in the file that the next command of that
\* environment reads, next to everything that was reported before, unless a
\* write of that file was interrupted or overtaken (cmd/config.rs, config.rs).
THEOREM SettingsTakeEffect ==
    ASSUME Config!FilesAssumption
    PROVE  Config!Spec => SetTakesEffect
  <1>1. ConfigInv /\ [Config!Next]_(Config!vars) =>
          [\A s \in Clients :
             Config!Reports(s) /\ config_path[s] = Config!ConfigPath(env[s]) =>
               /\ Config!Selected(env[s], disk') = config_path[s]
               /\ disk'[config_path[s]] =
                    Config!Apply(settings[config_path[s]], setting[s])]_(Config!vars)
    BY SettingRead
  <1>2. QED
    BY <1>1, ConfigInvariant, PTL DEF Config!Spec, SetTakesEffect, Config!SetTakesEffect

\* A setting about something else leaves what the commands of every environment
\* resolve for a profile, from the table of that name or, without any, at the
\* root, be the file they then read an old one or a new one, unless it is
\* created in front of the file they have read (distributor_profiles,
\* config_path, resolve_config_path).
THEOREM OtherProfilesStay ==
    ASSUME Config!FilesAssumption
    PROVE  Config!Spec => ProfilesKept
  <1> DEFINE Kept == \A s \in Clients :
        Config!Reports(s) /\ setting[s][1] \in SchemaKeys =>
          \A e \in Environments, n \in Profiles :
            LET before == Config!DocumentBefore(e)
                after == disk'[config_path[s]]
            IN /\ Config!Selected(e, disk') = config_path[s]
               /\ ~Config!Shadows(config_path[s], e)
               /\ ~Config!AboutProfile(setting[s][1], n)
               /\ Config!RootOnly(before, n) =>
                    \A m \in Profiles : Config!RootOnly(after, m)
               => Config!ResolveProfile(n, after) = Config!ResolveProfile(n, before)
  <1>1. ConfigInv /\ ConfigKnown /\ [Config!Next]_(Config!vars) => Kept
    BY SettingApart
  <1>2. QED
    BY <1>1, ConfigInvariant, PTL
    DEF Config!Spec, Kept, ProfilesKept, Config!ProfilesKept

\* The types of the three modules, side by side.
THEOREM AuthoringTyped ==
    ASSUME Config!FilesAssumption, Flow!FlowAssumption
    PROVE  Spec /\ Config!Spec /\ Flow!Spec => []TypesOK
  <1>1. TypeOK /\ Config!TypeOK /\ Flow!TypeOK => TypesOK
    BY DEF TypesOK
  <1>2. QED
    BY <1>1, TypeCorrect, ConfigInvariant, ConfigTyped, FlowInvariant, FlowTypes, PTL

=============================================================================
