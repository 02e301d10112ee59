--------------------------- MODULE WorkspaceProofs ---------------------------
(***************************************************************************)
(* Proofs about Workspace, for every number of shells and commands, every  *)
(* distributor, every slugging of names and every stop.                    *)
(*                                                                         *)
(* The inductive invariant says of each shell what it holds (Control), that*)
(* whatever it will write into the manifest is cached (Cached), that a     *)
(* cached file named by a digest has its bytes (Digested), what an update  *)
(* alone has read (Sole), and what it has extracted so far (Unpacking).    *)
(***************************************************************************)
EXTENDS Workspace, TLAPS

Held == {"open", "write", "load", "truncate", "fill", "check", "mkdir", "unpack"}

\* A shell past its request holds an offer; one with a digest has the bytes the
\* digest names.
ControlOf(p) ==
    /\ pc[p] \in Held => offer[p] \in OfferRecords
    /\ offer[p] # NoOffer /\ offer[p].digest # NoDigest =>
         \E o \in Offers : /\ o.digest = offer[p].digest
                           /\ o.bytes = offer[p].bytes
    /\ pc[p] # "idle" => number[p] \in 1 .. commands
    /\ pc[p] = "idle" => number[p] = 0
    /\ pc[p] \notin Ended \cup {"unpack"} => next[p] = 1
Control == \A p \in Procs : ControlOf(p)
TypeInv == TypeOK /\ Control

-----------------------------------------------------------------------------
(* The operators.                                                          *)

\* Appending to a sequence adds its last element and nothing else.
LEMMA Appended ==
    ASSUME NEW S, NEW s \in Seq(S), NEW x \in S
    PROVE  /\ Append(s, x) \in Seq(S)
           /\ DOMAIN s = 1 .. Len(s) /\ Len(s) \in Nat
           /\ DOMAIN Append(s, x) = 1 .. (Len(s) + 1)
           /\ \A i \in 1 .. (Len(s) + 1) :
                Append(s, x)[i] = IF i = Len(s) + 1 THEN x ELSE s[i]
  OBVIOUS

\* What can be named can be cached.
LEMMA PathTyped ==
    ASSUME NEW o \in OfferRecords, NEW c \in CommandRecords
    PROVE  <<Place(c.op), CacheSlug(o)>> \in Paths
  <1>1. Place(c.op) \in Places
    BY DEF Place, Places, CommandRecords
  <1>2. CacheSlug(o) \in Slugs \cup Digests
    BY OfferAssumption DEF CacheSlug, OfferRecords
  <1>3. QED BY <1>1, <1>2 DEF Paths

Unique(entries) ==
    \A i, j \in DOMAIN entries : entries[i].name = entries[j].name => i = j

\* Upsert keeps the other names, adds or replaces the entry's and keeps every
\* name single.
LEMMA Upserted ==
    ASSUME NEW s \in Seq(Entries), NEW e \in Entries, Unique(s)
    PROVE  /\ Upsert(s, e) \in Seq(Entries)
           /\ \A i \in DOMAIN Upsert(s, e) :
                \/ Upsert(s, e)[i] = e
                \/ i \in DOMAIN s /\ Upsert(s, e)[i] = s[i]
           /\ NamesIn(s) \cup {e.name} \subseteq NamesIn(Upsert(s, e))
           /\ Unique(Upsert(s, e))
  <1> DEFINE same == {i \in DOMAIN s : s[i].name = e.name}
             at == CHOOSE i \in same : \A j \in same : i <= j
             u == Upsert(s, e)
  <1>1. CASE same = {}
    <2>1. u = Append(s, e)
      BY <1>1 DEF Upsert
    <2>2. /\ u \in Seq(Entries) /\ DOMAIN s = 1 .. Len(s) /\ Len(s) \in Nat
          /\ DOMAIN u = 1 .. (Len(s) + 1)
          /\ \A i \in 1 .. (Len(s) + 1) :
               u[i] = IF i = Len(s) + 1 THEN e ELSE s[i]
      BY <2>1, Appended
    <2>3. \A i \in DOMAIN s : i \in DOMAIN u /\ u[i] = s[i]
      BY <2>2
    <2>4. Len(s) + 1 \in DOMAIN u /\ u[Len(s) + 1] = e
      BY <2>2
    <2>5. \A i \in DOMAIN u : i = Len(s) + 1 \/ i \in DOMAIN s
      BY <2>2
    <2>6. NamesIn(s) \cup {e.name} \subseteq NamesIn(u)
      BY <2>3, <2>4 DEF NamesIn
    <2>7. Unique(u)
      BY <1>1, <2>3, <2>4, <2>5 DEF Unique
    <2>8. QED BY <2>2, <2>3, <2>4, <2>5, <2>6, <2>7
  <1>2. CASE same # {}
    <2>1. u = [s EXCEPT ![at] = e]
      BY <1>2 DEF Upsert
    <2>2. DOMAIN s \subseteq Nat /\ \A i \in DOMAIN s : s[i] \in Entries
      OBVIOUS
    <2>3. \E i \in same : \A j \in same : i <= j
      <3>1. PICK i \in same : TRUE
        BY <1>2
      <3>2. \A j \in same : j = i
        BY <3>1 DEF Unique
      <3>3. i <= i
        BY <2>2, <3>1
      <3>4. QED BY <3>1, <3>2, <3>3
    <2>4. at \in DOMAIN s /\ s[at].name = e.name
      BY <2>3
    <2>5. u \in Seq(Entries) /\ DOMAIN u = DOMAIN s
      BY <2>1, <2>4
    <2>6. \A i \in DOMAIN u : u[i] = IF i = at THEN e ELSE s[i]
      BY <2>1, <2>4, <2>5
    <2>7. \A i \in DOMAIN u : u[i].name = s[i].name
      BY <2>4, <2>6
    <2>8. NamesIn(s) \cup {e.name} \subseteq NamesIn(u)
      BY <2>4, <2>5, <2>7 DEF NamesIn
    <2>9. Unique(u)
      BY <2>5, <2>7 DEF Unique
    <2>10. QED BY <2>5, <2>6, <2>8, <2>9
  <1>3. QED BY <1>1, <1>2

\* What a shell writes into the manifest is an entry.
LEMMA EntryTyped ==
    ASSUME TypeInv, NEW p \in Procs, pc[p] \in Held
    PROVE  /\ CachePath(p) \in Paths /\ EntryOf(p) \in Entries
           /\ offer[p].bytes \in Bytes /\ offer[p].name \in Names
           /\ EntryOf(p).name = offer[p].name
           /\ EntryOf(p).file = CachePath(p) /\ EntryOf(p).hash = offer[p].digest
  <1>1. offer[p] \in OfferRecords /\ cmd[p] \in CommandRecords
    BY OfferAssumption DEF TypeInv, TypeOK, Control, ControlOf
  <1>2. CachePath(p) \in Paths
    BY <1>1, PathTyped DEF CachePath
  <1>3. QED
    BY <1>1, <1>2, OfferAssumption DEF EntryOf, Entries, OfferRecords

\* A file is filled with its content, or left torn.
LEMMA FilledWith ==
    ASSUME NEW old, NEW content, NEW x \in Filled(old, content)
    PROVE  x = content \/ x = Torn
  BY DEF Filled

-----------------------------------------------------------------------------
(* Types and control.                                                      *)

\* A step of one shell leaves what the others hold alone.
LEMMA OthersUnchanged ==
    ASSUME TypeInv, NEW p \in Procs, Begin(p) \/ Step(p) \/ Stop(p),
           NEW q \in Procs, q # p
    PROVE  /\ pc'[q] = pc[q] /\ cmd'[q] = cmd[q] /\ number'[q] = number[q]
           /\ offer'[q] = offer[q] /\ loaded'[q] = loaded[q]
           /\ next'[q] = next[q] /\ commands <= commands'
  <1> USE DEF TypeInv, TypeOK, Goto, disk, history, command
  <1>1. CASE Begin(p) \/ Stop(p)
    BY <1>1 DEF Begin, Stop
  <1>2. CASE Obtain(p) \/ OpenArtifact(p) \/ WriteArtifact(p)
    BY <1>2 DEF Obtain, OpenArtifact, WriteArtifact
  <1>3. CASE LoadManifest(p) \/ TruncateManifest(p) \/ FillManifest(p)
    BY <1>3 DEF LoadManifest, TruncateManifest, FillManifest
  <1>4. CASE CheckDirectory(p) \/ MakeDirectory(p) \/ ExtractEntry(p)
             \/ Initialised(p)
    BY <1>4 DEF CheckDirectory, MakeDirectory, ExtractEntry, Initialised
  <1>5. QED BY <1>1, <1>2, <1>3, <1>4 DEF Step

\* Every action keeps a shell's control facts.
LEMMA ControlStep == TypeInv /\ [Next]_vars => Control'
  <1> SUFFICES ASSUME TypeInv, [Next]_vars PROVE Control'
    OBVIOUS
  <1> USE DEF Goto, disk, history, command
  <1>1. ASSUME NEW p \in Procs, Begin(p) \/ Step(p) \/ Stop(p), ControlOf(p)'
        PROVE  Control'
    <2> SUFFICES ASSUME NEW q \in Procs, q # p PROVE ControlOf(q)'
      BY <1>1 DEF Control
    <2>1. ControlOf(q) BY DEF TypeInv, Control
    <2>2. commands \in Nat /\ commands' \in Nat
      BY <1>1, OfferAssumption
      DEF TypeInv, TypeOK, Begin, Step, Stop, Obtain, OpenArtifact,
          WriteArtifact, LoadManifest, TruncateManifest, FillManifest,
          CheckDirectory, MakeDirectory, ExtractEntry, Initialised
    <2>3. QED BY <1>1, <2>1, <2>2, OthersUnchanged DEF ControlOf
  <1>2. ASSUME NEW p \in Procs, Begin(p) PROVE ControlOf(p)'
    BY <1>2, OfferAssumption, NothingAssumption
    DEF Begin, ControlOf, Held, Ended, TypeInv, TypeOK
  <1>3. ASSUME NEW p \in Procs, Obtain(p) PROVE ControlOf(p)'
    <2>1. PICK o \in Offers : offer' = [offer EXCEPT ![p] = Kept(cmd[p], o)]
      BY <1>3 DEF Obtain
    <2>2. /\ offer'[p] = Kept(cmd[p], o) /\ o \in OfferRecords
          /\ cmd[p] \in CommandRecords /\ ControlOf(p) /\ pc[p] = "obtain"
          /\ UNCHANGED <<number, commands, next>> /\ pc'[p] = "open"
      BY <1>3, <2>1, OfferAssumption
      DEF Obtain, TypeInv, TypeOK, Control
    <2>3. offer'[p] \in OfferRecords
      BY <2>2 DEF Kept, OfferRecords, CommandRecords
    <2>4. offer'[p].digest # NoDigest => offer'[p].digest = o.digest
                                         /\ offer'[p].bytes = o.bytes
      BY <2>2 DEF Kept, OfferRecords
    <2>5. QED BY <2>2, <2>3, <2>4 DEF ControlOf, Held, Ended
  <1>4. ASSUME NEW p \in Procs, Step(p) \/ Stop(p), ~Obtain(p)
        PROVE  ControlOf(p)'
    <2>1. ControlOf(p) BY DEF TypeInv, Control
    <2>2. /\ UNCHANGED <<number, commands, offer>>
          /\ pc[p] # "idle" /\ pc'[p] # "idle"
          /\ pc'[p] \in Held => pc[p] \in Held
          /\ pc'[p] \notin Ended \cup {"unpack"} =>
               pc[p] \notin Ended \cup {"unpack"} /\ next'[p] = next[p]
      BY <1>4
      DEF Step, Stop, OpenArtifact, WriteArtifact, LoadManifest,
          TruncateManifest, FillManifest, CheckDirectory, MakeDirectory,
          ExtractEntry, Initialised, Held, Ended, TypeInv, TypeOK
    <2>3. QED BY <2>1, <2>2 DEF ControlOf
  <1>5. ASSUME UNCHANGED vars PROVE Control'
    BY <1>5 DEF vars, TypeInv, Control, ControlOf
  <1>6. QED
    BY <1>1, <1>2, <1>3, <1>4, <1>5 DEF Next, Step

OneEach == Unique(Recorded) /\ \A p \in Procs : Unique(loaded[p])

\* The manifest as it is read is a sequence of entries.
LEMMA RecordedTyped ==
    ASSUME TypeInv
    PROVE  /\ Recorded \in Seq(Entries)
           /\ manifest \in Seq(Entries) => Recorded = manifest
           /\ manifest \notin {NoFile, Torn} => manifest \in Seq(Entries)
  BY NothingAssumption DEF Recorded, TypeInv, TypeOK

\* What FillManifest leaves behind.
LEMMA FilledManifest ==
    ASSUME TypeInv, OneEach, NEW p \in Procs, FillManifest(p)
    PROVE  \/ manifest' = Torn
           \/ /\ manifest' = Upsert(loaded[p], EntryOf(p))
              /\ manifest' \in Seq(Entries) /\ Unique(manifest')
              /\ Recorded' = manifest'
              /\ \A i \in DOMAIN manifest' :
                   \/ manifest'[i] = EntryOf(p)
                   \/ i \in DOMAIN loaded[p] /\ manifest'[i] = loaded[p][i]
              /\ NamesIn(loaded[p]) \cup {offer[p].name} \subseteq NamesIn(manifest')
  <1> DEFINE u == Upsert(loaded[p], EntryOf(p))
  <1>1. pc[p] \in Held /\ manifest' \in Filled(manifest, u)
    BY DEF FillManifest, Held
  <1>2. EntryOf(p) \in Entries /\ EntryOf(p).name = offer[p].name
    BY <1>1, EntryTyped
  <1>3. loaded[p] \in Seq(Entries) /\ Unique(loaded[p])
    BY DEF TypeInv, TypeOK, OneEach
  <1>4. /\ u \in Seq(Entries)
        /\ \A i \in DOMAIN u : \/ u[i] = EntryOf(p)
                               \/ i \in DOMAIN loaded[p] /\ u[i] = loaded[p][i]
        /\ NamesIn(loaded[p]) \cup {offer[p].name} \subseteq NamesIn(u)
        /\ Unique(u)
    BY <1>2, <1>3, Upserted
  <1>5. manifest' = u \/ manifest' = Torn
    BY <1>1, FilledWith
  <1>6. manifest' = u => Recorded' = manifest'
    BY <1>4, NothingAssumption DEF Recorded
  <1>7. QED BY <1>4, <1>5, <1>6

\* A shell unpacks into a directory that is there.
Made == \A p \in Procs : pc[p] = "unpack" => dirs[DirOf[offer[p].name]] # NoFile

\* What a shell that unpacks works with.
LEMMA Unpacker ==
    ASSUME TypeInv, NEW p \in Procs, pc[p] = "unpack"
    PROVE  /\ number[p] \in 1 .. MaxCommands
           /\ DirOf[offer[p].name] \in Dirs
           /\ offer[p].bytes \in Bytes
           /\ UnpackList(offer[p].bytes) \in Seq(EntryNames)
  <1>1. offer[p].bytes \in Bytes /\ offer[p].name \in Names
    BY EntryTyped DEF Held
  <1>2. number[p] \in 1 .. commands /\ commands \in 0 .. MaxCommands
    BY DEF TypeInv, TypeOK, Control, ControlOf
  <1>3. PackFiles[offer[p].bytes] \in Seq(EntryNames)
    BY <1>1, OfferAssumption
  <1>4. UnpackList(offer[p].bytes) \in Seq(EntryNames)
    BY <1>3, OfferAssumption DEF UnpackList
  <1>5. QED BY <1>1, <1>2, <1>4, OfferAssumption

\* An entry extracted is a file of the directory.
LEMMA Extracted ==
    ASSUME TypeInv, Made, NEW p \in Procs, ExtractEntry(p)
    PROVE  /\ dirs' \in [Dirs -> {NoFile} \cup SUBSET (EntryNames \X (1 .. MaxCommands))]
           /\ next' \in [Procs -> Nat \ {0}]
           /\ \A d \in Dirs : dirs[d] # NoFile => dirs'[d] # NoFile
  <1> DEFINE list == UnpackList(offer[p].bytes)
             d == DirOf[offer[p].name]
             files == {f \in dirs[d] : f[1] # list[next[p]]}
                        \cup {<<list[next[p]], number[p]>>}
  <1>1. /\ pc[p] = "unpack" /\ next[p] <= Len(list) /\ next[p] \in Nat \ {0}
        /\ dirs' = [dirs EXCEPT ![d] = files]
        /\ next' = [next EXCEPT ![p] = @ + 1]
    BY DEF ExtractEntry, TypeInv, TypeOK
  <1>2. number[p] \in 1 .. MaxCommands /\ d \in Dirs /\ list \in Seq(EntryNames)
    BY <1>1, Unpacker
  <1>3. list[next[p]] \in EntryNames
    BY <1>1, <1>2
  <1>4. dirs \in [Dirs -> {NoFile} \cup SUBSET (EntryNames \X (1 .. MaxCommands))]
    BY DEF TypeInv, TypeOK
  <1>5. dirs[d] \in SUBSET (EntryNames \X (1 .. MaxCommands))
    BY <1>1, <1>2, <1>4 DEF Made
  <1>6. <<list[next[p]], number[p]>> \in EntryNames \X (1 .. MaxCommands)
    BY <1>2, <1>3
  <1> HIDE DEF list, d
  <1>7. files \in SUBSET (EntryNames \X (1 .. MaxCommands))
    BY <1>5, <1>6
  <1>8. files # NoFile
    BY <1>7, NothingAssumption
  <1> HIDE DEF files
  <1>9. dirs' \in [Dirs -> {NoFile} \cup SUBSET (EntryNames \X (1 .. MaxCommands))]
    BY <1>1, <1>4, <1>7
  <1>10. next' \in [Procs -> Nat \ {0}]
    BY <1>1 DEF TypeInv, TypeOK
  <1>11. QED BY <1>1, <1>4, <1>8, <1>9, <1>10

\* Every step keeps the types.
LEMMA TypesStep == TypeInv /\ OneEach /\ Made /\ [Next]_vars => TypeOK'
  <1> SUFFICES ASSUME TypeInv, OneEach, Made, [Next]_vars PROVE TypeOK'
    OBVIOUS
  <1>o. TypeOK BY DEF TypeInv
  <1> USE DEF Goto, disk, history, command
  <1>1. ASSUME NEW p \in Procs, Begin(p) PROVE TypeOK'
    BY <1>o, <1>1, OfferAssumption DEF Begin, TypeOK, Stages
  <1>2. ASSUME NEW p \in Procs, Obtain(p) PROVE TypeOK'
    <2>1. PICK o \in Offers : offer' = [offer EXCEPT ![p] = Kept(cmd[p], o)]
      BY <1>2 DEF Obtain
    <2>2. Kept(cmd[p], o) \in OfferRecords
      <3>1. cmd[p] \in CommandRecords /\ o \in OfferRecords
        BY <1>o, OfferAssumption DEF TypeOK
      <3>2. QED BY <3>1 DEF Kept, OfferRecords, CommandRecords
    <2>3. offer' \in [Procs -> OfferRecords \cup {NoOffer}]
      BY <1>o, <2>1, <2>2 DEF TypeOK
    <2>4. QED BY <1>o, <1>2, <2>3 DEF Obtain, TypeOK, Stages
  <1>3. ASSUME NEW p \in Procs, OpenArtifact(p) PROVE TypeOK'
    BY <1>o, <1>3 DEF OpenArtifact, TypeOK, Stages
  <1>4. ASSUME NEW p \in Procs, WriteArtifact(p) PROVE TypeOK'
    <2>1. pc[p] \in Held BY <1>4 DEF WriteArtifact, Held
    <2>2. offer[p].bytes \in Bytes BY <2>1, EntryTyped
    <2>3. PICK x \in Filled(cache[CachePath(p)], offer[p].bytes) :
            cache' = [cache EXCEPT ![CachePath(p)] = x]
      BY <1>4 DEF WriteArtifact
    <2>4. x \in Bytes \cup {Torn} BY <2>2, <2>3, FilledWith
    <2>5. cache' \in [Paths -> Bytes \cup {NoFile, Torn}]
      BY <1>o, <2>3, <2>4 DEF TypeOK
    <2>6. QED BY <1>o, <1>4, <2>5 DEF WriteArtifact, TypeOK, Stages
  <1>5. ASSUME NEW p \in Procs, LoadManifest(p) PROVE TypeOK'
    <2>1. loaded' = [loaded EXCEPT ![p] =
                       IF manifest = NoFile THEN <<>> ELSE manifest]
          /\ manifest # Torn
      BY <1>5 DEF LoadManifest
    <2>2. <<>> \in Seq(Entries) OBVIOUS
    <2>3. loaded' \in [Procs -> Seq(Entries)]
      BY <1>o, <2>1, <2>2 DEF TypeOK
    <2>4. overlapped' \in BOOLEAN
      BY <1>5, <1>o DEF LoadManifest, TypeOK
    <2>5. QED BY <1>o, <1>5, <2>3, <2>4 DEF LoadManifest, TypeOK, Stages
  <1>6. ASSUME NEW p \in Procs, TruncateManifest(p) PROVE TypeOK'
    BY <1>o, <1>6 DEF TruncateManifest, TypeOK, Stages
  <1>7. ASSUME NEW p \in Procs, FillManifest(p) PROVE TypeOK'
    <2>1. manifest' = Torn \/ manifest' \in Seq(Entries)
      BY <1>7, FilledManifest
    <2>2. offer[p].name \in Names
      BY <1>7, EntryTyped DEF FillManifest, Held
    <2>3. recorded' \subseteq Names
      BY <1>o, <1>7, <2>2 DEF FillManifest, TypeOK
    <2>4. QED BY <1>o, <1>7, <2>1, <2>3 DEF FillManifest, TypeOK, Stages
  <1>8. ASSUME NEW p \in Procs, CheckDirectory(p) PROVE TypeOK'
    BY <1>o, <1>8 DEF CheckDirectory, TypeOK, Stages
  <1>9. ASSUME NEW p \in Procs, MakeDirectory(p) PROVE TypeOK'
    BY <1>o, <1>9 DEF MakeDirectory, TypeOK, Stages
  <1>10. ASSUME NEW p \in Procs, ExtractEntry(p) PROVE TypeOK'
    <2>1. /\ dirs' \in [Dirs -> {NoFile} \cup SUBSET (EntryNames \X (1 .. MaxCommands))]
          /\ next' \in [Procs -> Nat \ {0}]
      BY <1>10, Extracted
    <2>2. QED BY <1>o, <1>10, <2>1 DEF ExtractEntry, TypeOK
  <1>11. ASSUME NEW p \in Procs, Initialised(p) PROVE TypeOK'
    <2>1. /\ number[p] \in 1 .. MaxCommands
          /\ DirOf[offer[p].name] \in Dirs /\ offer[p].bytes \in Bytes
      BY <1>11, Unpacker DEF Initialised
    <2>2. QED BY <1>o, <1>11, <2>1 DEF Initialised, TypeOK, Stages
  <1>12. ASSUME NEW p \in Procs, Stop(p) PROVE TypeOK'
    BY <1>o, <1>12 DEF Stop, TypeOK, Stages
  <1>13. CASE UNCHANGED vars
    BY <1>o, <1>13 DEF vars, TypeOK
  <1>14. QED
    BY <1>1, <1>2, <1>3, <1>4, <1>5, <1>6, <1>7, <1>8, <1>9, <1>10, <1>11,
       <1>12, <1>13
    DEF Next, Step

\* A directory that is there stays, and so do those being unpacked into.
LEMMA MadeStep == TypeInv /\ Made /\ [Next]_vars => Made'
  <1> SUFFICES ASSUME TypeInv, Made, [Next]_vars PROVE Made'
    OBVIOUS
  <1> USE DEF Goto, disk, history, command
  <1>1. ASSUME NEW p \in Procs, MakeDirectory(p)
        PROVE  \A d \in Dirs : dirs[d] # NoFile => dirs'[d] # NoFile
    BY <1>1 DEF MakeDirectory, TypeInv, TypeOK
  <1>2. \A d \in Dirs : dirs[d] # NoFile => dirs'[d] # NoFile
    BY <1>1, Extracted
    DEF Next, Step, Begin, Stop, Obtain, OpenArtifact, WriteArtifact,
        LoadManifest, TruncateManifest, FillManifest, CheckDirectory,
        Initialised, vars
  <1>3. ASSUME NEW q \in Procs, pc[q] = "unpack", offer'[q] = offer[q]
        PROVE  dirs'[DirOf[offer'[q].name]] # NoFile
    BY <1>2, <1>3, Unpacker DEF Made
  <1>4. ASSUME NEW p \in Procs, Begin(p) \/ Step(p) \/ Stop(p), NEW q \in Procs,
               pc'[q] = "unpack"
        PROVE  dirs'[DirOf[offer'[q].name]] # NoFile
    <2>1. CASE q # p
      BY <1>3, <1>4, <2>1, OthersUnchanged
    <2>2. CASE q = p /\ MakeDirectory(p)
      <3>1. DirOf[offer[p].name] \in Dirs
        BY <2>2, EntryTyped, OfferAssumption DEF MakeDirectory, Held
      <3>2. dirs'[DirOf[offer[p].name]] = {} /\ offer' = offer
        BY <2>2, <3>1 DEF MakeDirectory, TypeInv, TypeOK
      <3>3. {} # NoFile
        BY NothingAssumption
      <3>4. QED BY <2>2, <3>2, <3>3
    <2>3. CASE q = p /\ ~MakeDirectory(p)
      <3>1. pc[p] = "unpack" /\ offer' = offer
        BY <1>4, <2>3
        DEF Step, Begin, Stop, Obtain, OpenArtifact, WriteArtifact,
            LoadManifest, TruncateManifest, FillManifest, CheckDirectory,
            ExtractEntry, Initialised, TypeInv, TypeOK
      <3>2. QED BY <1>3, <2>3, <3>1
    <2>4. QED BY <2>1, <2>2, <2>3
  <1>5. CASE UNCHANGED vars
    BY <1>5 DEF vars, Made
  <1>6. QED BY <1>4, <1>5 DEF Next, Made

\* The manifest and what is read of it have each name once.
LEMMA OneEachStep == TypeInv /\ OneEach /\ [Next]_vars => OneEach'
  <1> SUFFICES ASSUME TypeInv, OneEach, [Next]_vars PROVE OneEach'
    OBVIOUS
  <1> USE DEF Goto, disk, history, command
  <1>1. Unique(<<>>)
    BY DEF Unique
  <1>2. ASSUME manifest' = manifest PROVE Unique(Recorded')
    BY <1>2 DEF OneEach, Recorded, Unique
  <1>3. ASSUME loaded' = loaded PROVE \A p \in Procs : Unique(loaded'[p])
    BY <1>3 DEF OneEach
  <1>4. ASSUME NEW p \in Procs, Begin(p) PROVE OneEach'
    <2>1. manifest' = manifest /\ loaded' = [loaded EXCEPT ![p] = <<>>]
      BY <1>4 DEF Begin
    <2>2. \A q \in Procs : loaded'[q] = <<>> \/ loaded'[q] = loaded[q]
      BY <2>1 DEF TypeInv, TypeOK
    <2>3. QED BY <1>1, <1>2, <2>1, <2>2 DEF OneEach, Unique, Recorded
  <1>5. ASSUME NEW p \in Procs, LoadManifest(p) PROVE OneEach'
    <2>1. /\ manifest' = manifest /\ manifest # Torn
          /\ loaded' = [loaded EXCEPT ![p] =
                          IF manifest = NoFile THEN <<>> ELSE manifest]
      BY <1>5 DEF LoadManifest
    <2>2. loaded' = [loaded EXCEPT ![p] = Recorded]
      BY <2>1 DEF Recorded
    <2>3. \A q \in Procs : loaded'[q] = Recorded \/ loaded'[q] = loaded[q]
      BY <2>2 DEF TypeInv, TypeOK
    <2>4. QED BY <1>2, <2>1, <2>3 DEF OneEach, Unique, Recorded
  <1>6. ASSUME NEW p \in Procs, TruncateManifest(p) PROVE OneEach'
    <2>1. Recorded' = <<>> /\ loaded' = loaded
      BY <1>6 DEF TruncateManifest, Recorded
    <2>2. QED BY <1>1, <2>1 DEF OneEach, Unique
  <1>7. ASSUME NEW p \in Procs, FillManifest(p) PROVE OneEach'
    <2>1. Recorded' = <<>> \/ Unique(Recorded')
      BY <1>7, FilledManifest DEF Recorded
    <2>2. loaded' = loaded
      BY <1>7 DEF FillManifest
    <2>3. QED BY <1>1, <2>1, <2>2 DEF OneEach, Unique
  <1>8. ASSUME manifest' = manifest, loaded' = loaded PROVE OneEach'
    BY <1>8 DEF OneEach, Unique, Recorded
  <1>9. QED
    BY <1>4, <1>5, <1>6, <1>7, <1>8
    DEF Next, Step, Stop, Obtain, OpenArtifact, WriteArtifact, CheckDirectory,
        MakeDirectory, ExtractEntry, Initialised, vars

-----------------------------------------------------------------------------
(* The cache.                                                              *)

\* What a shell has opened and every file an entry names are in the cache.
Cached ==
    /\ \A p \in Procs : pc[p] \in {"write", "load", "truncate", "fill"} =>
         cache[CachePath(p)] # NoFile
    /\ \A p \in Procs : \A i \in DOMAIN loaded[p] :
         cache[loaded[p][i].file] # NoFile
    /\ EntryCached

\* What a step does to the manifest and to what is read of it: every entry was
\* there before, or is what a shell that had opened its file fills in.
LEMMA EntriesFrom ==
    ASSUME TypeInv, OneEach, [Next]_vars
    PROVE  /\ \A i \in DOMAIN Recorded' :
                \/ \E j \in DOMAIN Recorded : Recorded'[i] = Recorded[j]
                \/ \E p \in Procs : \E j \in DOMAIN loaded[p] :
                     Recorded'[i] = loaded[p][j]
                \/ \E p \in Procs : pc[p] = "fill" /\ Recorded'[i] = EntryOf(p)
           /\ \A q \in Procs : \A i \in DOMAIN loaded'[q] :
                \/ \E j \in DOMAIN Recorded : loaded'[q][i] = Recorded[j]
                \/ \E j \in DOMAIN loaded[q] : loaded'[q][i] = loaded[q][j]
  <1> DEFINE R == \A i \in DOMAIN Recorded' :
                \/ \E j \in DOMAIN Recorded : Recorded'[i] = Recorded[j]
                \/ \E p \in Procs : \E j \in DOMAIN loaded[p] :
                     Recorded'[i] = loaded[p][j]
                \/ \E p \in Procs : pc[p] = "fill" /\ Recorded'[i] = EntryOf(p)
             L == \A q \in Procs : \A i \in DOMAIN loaded'[q] :
                \/ \E j \in DOMAIN Recorded : loaded'[q][i] = Recorded[j]
                \/ \E j \in DOMAIN loaded[q] : loaded'[q][i] = loaded[q][j]
  <1> USE DEF Goto, disk, history, command
  <1>1. DOMAIN <<>> = {}
    OBVIOUS
  <1>2. ASSUME manifest' = manifest PROVE R
    BY <1>2 DEF Recorded
  <1>3. ASSUME loaded' = loaded PROVE L
    BY <1>3
  <1>4. ASSUME NEW p \in Procs, Begin(p) PROVE R /\ L
    <2>1. manifest' = manifest /\ loaded' = [loaded EXCEPT ![p] = <<>>]
      BY <1>4 DEF Begin
    <2>2. \A q \in Procs : loaded'[q] = <<>> \/ loaded'[q] = loaded[q]
      BY <2>1 DEF TypeInv, TypeOK
    <2>3. QED BY <1>1, <1>2, <2>1, <2>2
  <1>5. ASSUME NEW p \in Procs, LoadManifest(p) PROVE R /\ L
    <2>1. /\ manifest' = manifest
          /\ loaded' = [loaded EXCEPT ![p] = Recorded]
      BY <1>5 DEF LoadManifest, Recorded
    <2>2. \A q \in Procs : loaded'[q] = Recorded \/ loaded'[q] = loaded[q]
      BY <2>1 DEF TypeInv, TypeOK
    <2>3. QED BY <1>2, <2>1, <2>2
  <1>6. ASSUME NEW p \in Procs, TruncateManifest(p) PROVE R /\ L
    BY <1>1, <1>3, <1>6 DEF TruncateManifest, Recorded
  <1>7. ASSUME NEW p \in Procs, FillManifest(p) PROVE R /\ L
    <2>1. loaded' = loaded /\ pc[p] = "fill"
      BY <1>7 DEF FillManifest
    <2>2. \/ manifest' = Torn
          \/ /\ Recorded' = manifest'
             /\ \A i \in DOMAIN manifest' :
                  \/ manifest'[i] = EntryOf(p)
                  \/ i \in DOMAIN loaded[p] /\ manifest'[i] = loaded[p][i]
      BY <1>7, FilledManifest
    <2>3. manifest' = Torn => Recorded' = <<>>
      BY DEF Recorded
    <2>4. R BY <1>1, <2>1, <2>2, <2>3
    <2>5. QED BY <1>3, <2>1, <2>4
  <1>8. QED
    BY <1>2, <1>3, <1>4, <1>5, <1>6, <1>7
    DEF Next, Step, Stop, Obtain, OpenArtifact, WriteArtifact, CheckDirectory,
        MakeDirectory, ExtractEntry, Initialised, vars

\* A cached file is never removed.
LEMMA FilesStay ==
    ASSUME TypeInv, [Next]_vars, NEW x, x \in Paths, cache[x] # NoFile
    PROVE  cache'[x] # NoFile
  <1> USE DEF Goto, disk, history, command
  <1>1. ASSUME NEW p \in Procs, OpenArtifact(p) PROVE cache'[x] # NoFile
    BY <1>1, NothingAssumption DEF OpenArtifact, TypeInv, TypeOK
  <1>2. ASSUME NEW p \in Procs, WriteArtifact(p) PROVE cache'[x] # NoFile
    <2>1. offer[p].bytes \in Bytes
      BY <1>2, EntryTyped DEF WriteArtifact, Held
    <2>2. PICK y \in Filled(cache[CachePath(p)], offer[p].bytes) :
            cache' = [cache EXCEPT ![CachePath(p)] = y]
      BY <1>2 DEF WriteArtifact
    <2>3. y # NoFile
      BY <2>1, <2>2, FilledWith, NothingAssumption
    <2>4. QED BY <2>2, <2>3 DEF TypeInv, TypeOK
  <1>3. QED
    BY <1>1, <1>2
    DEF Next, Step, Begin, Stop, Obtain, LoadManifest, TruncateManifest,
        FillManifest, CheckDirectory, MakeDirectory, ExtractEntry, Initialised,
        vars

\* Entries name paths.
LEMMA FilesTyped ==
    ASSUME TypeInv
    PROVE  /\ \A i \in DOMAIN Recorded : Recorded[i] \in Entries
           /\ \A q \in Procs : \A i \in DOMAIN loaded[q] : loaded[q][i] \in Entries
           /\ \A e \in Entries : e.file \in Paths
  <1>1. Recorded \in Seq(Entries)
    BY RecordedTyped
  <1>2. \A q \in Procs : loaded[q] \in Seq(Entries)
    BY DEF TypeInv, TypeOK
  <1>3. \A s \in Seq(Entries) : \A i \in DOMAIN s : s[i] \in Entries
    OBVIOUS
  <1>4. \A e \in Entries : e.file \in Paths
    BY DEF Entries
  <1>5. QED BY <1>1, <1>2, <1>3, <1>4

\* A file is opened before the manifest is read, and what a shell opened it
\* does not forget.
LEMMA CachedStep == TypeInv /\ OneEach /\ Cached /\ [Next]_vars => Cached'
  <1> SUFFICES ASSUME TypeInv, OneEach, Cached, [Next]_vars PROVE Cached'
    OBVIOUS
  <1> DEFINE Opened == {"write", "load", "truncate", "fill"}
  <1>1. ASSUME NEW q \in Procs, pc'[q] \in Opened
        PROVE  cache'[CachePath(q)'] # NoFile
    <2>1. ASSUME pc[q] \in Opened, cmd'[q] = cmd[q], offer'[q] = offer[q]
          PROVE  cache'[CachePath(q)'] # NoFile
      <3>1. CachePath(q)' = CachePath(q)
        BY <2>1 DEF CachePath
      <3>2. CachePath(q) \in Paths
        BY <2>1, EntryTyped DEF Held
      <3>3. QED BY <2>1, <3>1, <3>2, FilesStay DEF Cached
    <2>2. ASSUME NEW p \in Procs, Begin(p) \/ Step(p) \/ Stop(p)
          PROVE  cache'[CachePath(q)'] # NoFile
      <3>1. CASE q # p
        BY <1>1, <2>1, <2>2, <3>1, OthersUnchanged
      <3>2. CASE q = p /\ OpenArtifact(p)
        <4>1. CachePath(q) \in Paths
          BY <3>2, EntryTyped DEF OpenArtifact, Held
        <4>2. cache'[CachePath(q)] = Torn /\ UNCHANGED <<cmd, offer>>
          BY <3>2, <4>1 DEF OpenArtifact, command, TypeInv, TypeOK
        <4>3. CachePath(q)' = CachePath(q)
          BY <4>2 DEF CachePath
        <4>4. QED BY <4>2, <4>3, NothingAssumption
      <3>3. CASE q = p /\ ~OpenArtifact(p)
        <4>1. pc[q] \in Opened /\ UNCHANGED <<cmd, offer>>
          BY <1>1, <2>2, <3>3
          DEF Step, Begin, Stop, Obtain, WriteArtifact, LoadManifest,
              TruncateManifest, FillManifest, CheckDirectory, MakeDirectory,
              ExtractEntry, Initialised, TypeInv, TypeOK, Goto, command
        <4>2. QED BY <2>1, <4>1
      <3>4. QED BY <3>1, <3>2, <3>3
    <2>3. CASE UNCHANGED vars
      BY <1>1, <2>1, <2>3 DEF vars, command
    <2>4. QED BY <2>2, <2>3 DEF Next
  <1>2. ASSUME NEW e \in Entries, cache[e.file] # NoFile
        PROVE  cache'[e.file] # NoFile
    BY <1>2, FilesStay, FilesTyped
  <1>3. ASSUME NEW p \in Procs, pc[p] = "fill"
        PROVE  EntryOf(p) \in Entries /\ cache[EntryOf(p).file] # NoFile
    BY <1>3, EntryTyped DEF Held, Cached
  <1>4. \A q \in Procs : \A i \in DOMAIN loaded'[q] :
          cache'[loaded'[q][i].file] # NoFile
    BY <1>2, EntriesFrom, FilesTyped DEF Cached, EntryCached
  <1>5. \A i \in DOMAIN Recorded' : cache'[Recorded'[i].file] # NoFile
    BY <1>2, <1>3, EntriesFrom, FilesTyped DEF Cached, EntryCached
  <1>6. QED BY <1>1, <1>4, <1>5 DEF Cached, EntryCached

\* A file named by a digest is missing, torn or has the bytes of the digest;
\* an entry with a digest names such a file.
Traced(e) == e.hash # NoDigest => \E pl \in Places : e.file = <<pl, e.hash>>
Digested ==
    /\ \A pl \in Places : \A o \in Offers : o.digest # NoDigest =>
         cache[<<pl, o.digest>>] \in {NoFile, Torn, o.bytes}
    /\ \A p \in Procs : \A i \in DOMAIN loaded[p] : Traced(loaded[p][i])
    /\ \A i \in DOMAIN Recorded : Traced(Recorded[i])

\* Only the bytes of a digest are written to the file it names.
LEMMA DigestedStep == TypeInv /\ OneEach /\ Digested /\ [Next]_vars => Digested'
  <1> SUFFICES ASSUME TypeInv, OneEach, Digested, [Next]_vars PROVE Digested'
    OBVIOUS
  <1> DEFINE Files == \A pl \in Places : \A o \in Offers : o.digest # NoDigest =>
                        cache[<<pl, o.digest>>] \in {NoFile, Torn, o.bytes}
  <1>1. Files'
    <2> SUFFICES ASSUME NEW pl \in Places, NEW o \in Offers, o.digest # NoDigest
                 PROVE  cache'[<<pl, o.digest>>] \in {NoFile, Torn, o.bytes}
      OBVIOUS
    <2> DEFINE x == <<pl, o.digest>>
    <2>1. o.digest \in Digests
      BY OfferAssumption DEF OfferRecords
    <2>2. x \in Paths /\ cache[x] \in {NoFile, Torn, o.bytes}
      BY <2>1 DEF Paths, Digested
    <2>3. ASSUME NEW p \in Procs, OpenArtifact(p)
          PROVE  cache'[x] \in {NoFile, Torn, o.bytes}
      BY <2>2, <2>3 DEF OpenArtifact, TypeInv, TypeOK
    <2>4. ASSUME NEW p \in Procs, WriteArtifact(p)
          PROVE  cache'[x] \in {NoFile, Torn, o.bytes}
      <3>1. pc[p] \in Held /\ offer[p] \in OfferRecords
        BY <2>4 DEF WriteArtifact, Held, TypeInv, Control, ControlOf
      <3>2. PICK y \in Filled(cache[CachePath(p)], offer[p].bytes) :
              cache' = [cache EXCEPT ![CachePath(p)] = y]
        BY <2>4 DEF WriteArtifact
      <3>3. CASE CachePath(p) # x
        BY <2>2, <3>2, <3>3 DEF TypeInv, TypeOK
      <3>4. CASE CachePath(p) = x
        <4>1. CacheSlug(offer[p]) = o.digest
          BY <3>4 DEF CachePath
        <4>2. offer[p].digest # NoDigest
          BY <2>1, <3>1, <4>1, OfferAssumption, DigestAssumption
          DEF CacheSlug, OfferRecords
        <4>3. offer[p].digest = o.digest
          BY <4>1, <4>2 DEF CacheSlug
        <4>4. offer[p] # NoOffer
          BY <3>1, NothingAssumption
        <4>5. offer[p].bytes = o.bytes
          BY <4>2, <4>3, <4>4, DigestAssumption DEF TypeInv, Control, ControlOf
        <4>6. y \in {Torn, o.bytes}
          BY <3>2, <4>5, FilledWith
        <4>7. QED BY <2>2, <3>2, <3>4, <4>6 DEF TypeInv, TypeOK
      <3>5. QED BY <3>3, <3>4
    <2>5. QED
      BY <2>2, <2>3, <2>4
      DEF Next, Step, Begin, Stop, Obtain, LoadManifest, TruncateManifest,
          FillManifest, CheckDirectory, MakeDirectory, ExtractEntry, Initialised,
          vars, disk
  <1>2. ASSUME NEW p \in Procs, pc[p] = "fill" PROVE Traced(EntryOf(p))
    <2>1. /\ offer[p] \in OfferRecords /\ cmd[p] \in CommandRecords
          /\ EntryOf(p).file = CachePath(p) /\ EntryOf(p).hash = offer[p].digest
      BY <1>2, EntryTyped, OfferAssumption
      DEF Held, TypeInv, TypeOK, Control, ControlOf
    <2>2. Place(cmd[p].op) \in Places
      BY <2>1 DEF Place, Places, CommandRecords
    <2>3. QED BY <2>1, <2>2 DEF Traced, CachePath, CacheSlug
  <1>3. \A p \in Procs : \A i \in DOMAIN loaded'[p] : Traced(loaded'[p][i])
    BY EntriesFrom DEF Digested
  <1>4. \A i \in DOMAIN Recorded' : Traced(Recorded'[i])
    BY <1>2, EntriesFrom DEF Digested
  <1>5. QED BY <1>1, <1>3, <1>4 DEF Digested, Traced

-----------------------------------------------------------------------------
(* Updates that do not overlap.                                            *)

\* Without an overlap at most one shell is updating the manifest, and it has
\* read every addition reported so far.
Sole ==
    ~overlapped =>
      /\ \A p, q \in Procs : pc[p] \in Updating /\ pc[q] \in Updating => p = q
      /\ \A p \in Procs : pc[p] \in Updating => recorded \subseteq NamesIn(loaded[p])
      /\ manifest # Torn => recorded \subseteq NamesIn(Recorded)

\* Every step keeps what an update alone has read.
LEMMA SoleStep == TypeInv /\ OneEach /\ Sole /\ [Next]_vars => Sole'
  <1> SUFFICES ASSUME TypeInv, OneEach, Sole, [Next]_vars PROVE Sole'
    OBVIOUS
  <1> USE DEF Goto, disk, history, command
  <1>1. ASSUME NEW p \in Procs, Begin(p) \/ Step(p) \/ Stop(p),
               manifest' = manifest, recorded' = recorded,
               overlapped' = overlapped, loaded'[p] = loaded[p] \/ pc'[p] \notin Updating,
               pc'[p] \in Updating => pc[p] \in Updating
        PROVE  Sole'
    <2>1. \A q \in Procs : /\ pc'[q] \in Updating => pc[q] \in Updating
                           /\ pc'[q] \in Updating => loaded'[q] = loaded[q]
      BY <1>1, OthersUnchanged
    <2>2. Recorded' = Recorded
      BY <1>1 DEF Recorded
    <2>3. QED BY <1>1, <2>1, <2>2 DEF Sole
  <1>2. ASSUME NEW p \in Procs, LoadManifest(p) PROVE Sole'
    <2> SUFFICES ASSUME ~overlapped' PROVE Sole'
      BY DEF Sole
    <2>1. /\ ~overlapped /\ \A q \in Procs : pc[q] \notin Updating
          /\ manifest # Torn /\ manifest' = manifest /\ recorded' = recorded
          /\ loaded' = [loaded EXCEPT ![p] = Recorded]
      BY <1>2 DEF LoadManifest, Recorded
    <2>2. Recorded' = Recorded
      BY <2>1 DEF Recorded
    <2>3. \A q \in Procs : pc'[q] \in Updating => q = p
      BY <1>2, <2>1, OthersUnchanged DEF Step
    <2>4. loaded'[p] = Recorded
      BY <2>1 DEF TypeInv, TypeOK
    <2>5. recorded \subseteq NamesIn(Recorded)
      BY <2>1 DEF Sole
    <2>6. QED BY <2>1, <2>2, <2>3, <2>4, <2>5 DEF Sole
  <1>3. ASSUME NEW p \in Procs, TruncateManifest(p) PROVE Sole'
    <2>1. /\ manifest' = Torn /\ pc[p] \in Updating
          /\ UNCHANGED <<recorded, overlapped, loaded>>
      BY <1>3 DEF TruncateManifest, Updating
    <2>2. \A q \in Procs : pc'[q] \in Updating => pc[q] \in Updating
      BY <1>3, <2>1, OthersUnchanged DEF Step
    <2>3. QED BY <2>1, <2>2 DEF Sole
  <1>4. ASSUME NEW p \in Procs, FillManifest(p) PROVE Sole'
    <2> SUFFICES ASSUME ~overlapped' PROVE Sole'
      BY DEF Sole
    <2>1. /\ ~overlapped /\ pc[p] \in Updating /\ pc'[p] = "done"
          /\ recorded' = recorded \cup {offer[p].name}
          /\ UNCHANGED loaded
      BY <1>4 DEF FillManifest, Updating, TypeInv, TypeOK
    <2>2. \A q \in Procs : pc'[q] \notin Updating
      BY <1>4, <2>1, OthersUnchanged DEF Step, Sole, Updating
    <2>3. recorded \subseteq NamesIn(loaded[p])
      BY <2>1 DEF Sole
    <2>4. manifest' # Torn => recorded' \subseteq NamesIn(Recorded')
      BY <1>4, <2>1, <2>3, FilledManifest
    <2>5. QED BY <2>2, <2>4 DEF Sole
  <1>5. ASSUME UNCHANGED vars PROVE Sole'
    BY <1>5 DEF vars, Sole, Recorded
  <1>6. ASSUME NEW p \in Procs, Begin(p) \/ Step(p) \/ Stop(p), ~LoadManifest(p),
               ~TruncateManifest(p), ~FillManifest(p)
        PROVE  Sole'
    BY <1>1, <1>6
    DEF Step, Begin, Stop, Obtain, OpenArtifact, WriteArtifact, CheckDirectory,
        MakeDirectory, ExtractEntry, Initialised, Updating, TypeInv, TypeOK
  <1>7. QED BY <1>2, <1>3, <1>4, <1>5, <1>6 DEF Next

-----------------------------------------------------------------------------
(* The directories of packs.                                               *)

\* The first n files command c extracts of a pack.
Extracts(bytes, c, n) == {<<UnpackList(bytes)[k], c>> : k \in 1 .. n}

\* Whoever unpacks has the directory to itself, with what it extracted so far;
\* an initialised directory has all of its pack.
UnpackingOf(p) ==
    pc[p] = "unpack" =>
      /\ next[p] \in 1 .. Len(UnpackList(offer[p].bytes)) + 1
      /\ dirs[DirOf[offer[p].name]] = Extracts(offer[p].bytes, number[p], next[p] - 1)
      /\ \A i \in initialised : i.dir # DirOf[offer[p].name]
      /\ \A q \in Procs : pc[q] = "unpack" /\ q # p =>
           DirOf[offer[q].name] # DirOf[offer[p].name]
Complete ==
    \A i \in initialised :
        /\ i.dir \in Dirs /\ dirs[i.dir] # NoFile
        /\ dirs[i.dir] = Extracts(i.bytes, i.number, Len(UnpackList(i.bytes)))
Unpacking == (\A p \in Procs : UnpackingOf(p)) /\ Complete

\* A step that leaves the directories alone and starts no unpacking.
LEMMA UnpackingKept ==
    ASSUME TypeInv, Unpacking, NEW p \in Procs, Begin(p) \/ Step(p) \/ Stop(p),
           dirs' = dirs, initialised' = initialised, pc'[p] # "unpack"
    PROVE  Unpacking'
  <1>1. \A q \in Procs : pc'[q] = "unpack" =>
          /\ q # p /\ pc[q] = "unpack" /\ offer'[q] = offer[q]
          /\ number'[q] = number[q] /\ next'[q] = next[q]
    BY OthersUnchanged
  <1>2. \A q \in Procs : UnpackingOf(q)'
    BY <1>1 DEF Unpacking, UnpackingOf
  <1>3. Complete'
    BY DEF Unpacking, Complete
  <1>4. QED BY <1>2, <1>3 DEF Unpacking

\* A directory made is nobody else's.
LEMMA UnpackingMade ==
    ASSUME TypeInv, Made, Unpacking, NEW p \in Procs, MakeDirectory(p)
    PROVE  Unpacking'
  <1> DEFINE d == DirOf[offer[p].name]
  <1>1. /\ pc[p] = "mkdir" /\ dirs[d] = NoFile /\ dirs' = [dirs EXCEPT ![d] = {}]
        /\ UNCHANGED <<offer, number, next, initialised>> /\ next[p] = 1
        /\ pc' = [pc EXCEPT ![p] = "unpack"]
    BY DEF MakeDirectory, history, command, Goto, TypeInv, Control, ControlOf,
           Ended
  <1>2. d \in Dirs /\ offer[p].bytes \in Bytes
    BY <1>1, EntryTyped, OfferAssumption DEF Held
  <1>3. \A q \in Procs : pc[q] = "unpack" => DirOf[offer[q].name] # d
    BY <1>1 DEF Made
  <1>4. \A e \in Dirs : e # d => dirs'[e] = dirs[e]
    BY <1>1 DEF TypeInv, TypeOK
  <1>5. \A q \in Procs : pc'[q] = "unpack" => q = p \/ pc[q] = "unpack"
    BY <1>1 DEF TypeInv, TypeOK
  <1>6. \A i \in initialised : i.dir # d
    BY <1>1 DEF Unpacking, Complete
  <1>7. ASSUME NEW q \in Procs, q # p PROVE UnpackingOf(q)'
    <2> SUFFICES ASSUME pc'[q] = "unpack" PROVE UnpackingOf(q)'
      BY DEF UnpackingOf
    <2>1. pc[q] = "unpack" /\ DirOf[offer[q].name] \in Dirs /\ UnpackingOf(q)
      BY <1>5, <1>7, Unpacker DEF Unpacking
    <2>2. dirs'[DirOf[offer[q].name]] = dirs[DirOf[offer[q].name]]
      BY <1>3, <1>4, <2>1
    <2>3. QED BY <1>1, <1>3, <1>5, <2>1, <2>2 DEF UnpackingOf
  <1>8. UnpackingOf(p)'
    <2>1. Len(UnpackList(offer[p].bytes)) \in Nat
      <3>1. PackFiles[offer[p].bytes] \in Seq(EntryNames)
        BY <1>2, OfferAssumption
      <3>2. UnpackList(offer[p].bytes) \in Seq(EntryNames)
        BY <3>1, OfferAssumption DEF UnpackList
      <3>3. QED BY <3>2
    <2>2. dirs'[d] = {}
      BY <1>1, <1>2 DEF TypeInv, TypeOK
    <2>3. Extracts(offer[p].bytes, number[p], 0) = {}
      BY DEF Extracts
    <2>4. next[p] - 1 = 0 /\ 1 \in 1 .. Len(UnpackList(offer[p].bytes)) + 1
      BY <1>1, <2>1
    <2>5. \A q \in Procs : pc'[q] = "unpack" /\ q # p =>
            DirOf[offer[q].name] # d
      BY <1>3, <1>5
    <2>6. QED BY <1>1, <1>6, <2>2, <2>3, <2>4, <2>5 DEF UnpackingOf
  <1>9. Complete'
    BY <1>1, <1>4, <1>6 DEF Unpacking, Complete
  <1>10. QED BY <1>7, <1>8, <1>9 DEF Unpacking

\* An entry extracted is the next of this pack's, in this shell's directory.
LEMMA UnpackingExtracted ==
    ASSUME TypeInv, Made, Unpacking, NEW p \in Procs, ExtractEntry(p)
    PROVE  Unpacking'
  <1> DEFINE d == DirOf[offer[p].name]
             list == UnpackList(offer[p].bytes)
             n == next[p]
  <1>1. /\ pc[p] = "unpack" /\ n <= Len(list)
        /\ dirs' = [dirs EXCEPT ![d] =
             {f \in @ : f[1] # list[n]} \cup {<<list[n], number[p]>>}]
        /\ next' = [next EXCEPT ![p] = @ + 1]
        /\ UNCHANGED <<pc, offer, number, initialised>>
    BY DEF ExtractEntry, history, command
  <1>2. d \in Dirs /\ list \in Seq(EntryNames) /\ number[p] \in 1 .. MaxCommands
    BY <1>1, Unpacker
  <1>3. /\ n \in 1 .. Len(list) /\ Len(list) \in Nat
        /\ dirs[d] = Extracts(offer[p].bytes, number[p], n - 1)
        /\ \A i \in initialised : i.dir # d
        /\ \A q \in Procs : pc[q] = "unpack" /\ q # p => DirOf[offer[q].name] # d
    BY <1>1, <1>2 DEF Unpacking, UnpackingOf
  <1>4. \A e \in Dirs : e # d => dirs'[e] = dirs[e]
    BY <1>1 DEF TypeInv, TypeOK
  <1>5. next'[p] = n + 1 /\ \A q \in Procs : q # p => next'[q] = next[q]
    BY <1>1 DEF TypeInv, TypeOK
  <1>6. dirs'[d] = Extracts(offer[p].bytes, number[p], n)
    <2>1. dirs'[d] = {f \in dirs[d] : f[1] # list[n]} \cup {<<list[n], number[p]>>}
      BY <1>1, <1>2 DEF TypeInv, TypeOK
    <2>2. \A k \in 1 .. n : k \in 1 .. (n - 1) \/ k = n
      BY <1>3
    <2>3. \A k \in 1 .. (n - 1) : k \in 1 .. n
      BY <1>3
    <2>4. n \in 1 .. n
      BY <1>3
    <2>5. ASSUME NEW f \in dirs'[d] PROVE f \in Extracts(offer[p].bytes, number[p], n)
      BY <1>3, <2>1, <2>3, <2>4, <2>5 DEF Extracts
    <2>6. ASSUME NEW k \in 1 .. n PROVE <<list[k], number[p]>> \in dirs'[d]
      <3>1. CASE list[k] = list[n]
        BY <2>1, <3>1
      <3>2. CASE list[k] # list[n]
        <4>1. k \in 1 .. (n - 1)
          BY <2>2, <3>2
        <4>2. <<list[k], number[p]>> \in dirs[d]
          BY <1>3, <4>1 DEF Extracts
        <4>3. QED BY <2>1, <3>2, <4>2
      <3>3. QED BY <3>1, <3>2
    <2>7. QED BY <2>5, <2>6 DEF Extracts
  <1>7. ASSUME NEW q \in Procs, q # p PROVE UnpackingOf(q)'
    <2> SUFFICES ASSUME pc[q] = "unpack" PROVE UnpackingOf(q)'
      BY <1>1 DEF UnpackingOf
    <2>1. DirOf[offer[q].name] \in Dirs /\ DirOf[offer[q].name] # d
      BY <1>3, <1>7, Unpacker
    <2>2. dirs'[DirOf[offer[q].name]] = dirs[DirOf[offer[q].name]]
      BY <1>4, <2>1
    <2>3. QED BY <1>1, <1>5, <1>7, <2>2 DEF Unpacking, UnpackingOf
  <1>8. UnpackingOf(p)'
    BY <1>1, <1>3, <1>5, <1>6 DEF UnpackingOf
  <1>9. Complete'
    BY <1>1, <1>3, <1>4 DEF Unpacking, Complete
  <1>10. QED BY <1>7, <1>8, <1>9 DEF Unpacking

\* The last entry extracted, the directory has all of its pack.
LEMMA UnpackingEnded ==
    ASSUME TypeInv, Made, Unpacking, NEW p \in Procs, Initialised(p)
    PROVE  Unpacking'
  <1> DEFINE d == DirOf[offer[p].name]
             list == UnpackList(offer[p].bytes)
             this == [dir |-> d, bytes |-> offer[p].bytes, number |-> number[p]]
  <1>1. /\ pc[p] = "unpack" /\ next[p] > Len(list)
        /\ initialised' = initialised \cup {this}
        /\ pc' = [pc EXCEPT ![p] = "done"]
        /\ UNCHANGED <<dirs, offer, number, next>>
    BY DEF Initialised, disk, command, Goto
  <1>2. d \in Dirs /\ Len(list) \in Nat
    BY <1>1, Unpacker
  <1>3. next[p] - 1 = Len(list)
    BY <1>1, <1>2 DEF Unpacking, UnpackingOf
  <1>4. dirs[d] = Extracts(this.bytes, this.number, Len(UnpackList(this.bytes)))
        /\ dirs[d] # NoFile
    BY <1>1, <1>3 DEF Unpacking, UnpackingOf, Made
  <1>5. \A q \in Procs : pc'[q] = "unpack" => q # p /\ pc[q] = "unpack"
    BY <1>1 DEF TypeInv, TypeOK
  <1>6. \A q \in Procs : UnpackingOf(q)'
    BY <1>1, <1>5 DEF Unpacking, UnpackingOf
  <1>7. Complete'
    BY <1>1, <1>2, <1>4 DEF Unpacking, Complete
  <1>8. QED BY <1>6, <1>7 DEF Unpacking

\* Every step keeps what is in the directories.
LEMMA UnpackingStep == TypeInv /\ Made /\ Unpacking /\ [Next]_vars => Unpacking'
  <1> SUFFICES ASSUME TypeInv, Made, Unpacking, [Next]_vars PROVE Unpacking'
    OBVIOUS
  <1>1. ASSUME NEW p \in Procs, Begin(p) \/ Step(p) \/ Stop(p),
               ~MakeDirectory(p), ~ExtractEntry(p), ~Initialised(p)
        PROVE  Unpacking'
    <2>1. /\ UNCHANGED <<dirs, initialised>>
          /\ pc'[p] # "unpack"
      BY <1>1
      DEF Step, Begin, Stop, Obtain, OpenArtifact, WriteArtifact, LoadManifest,
          TruncateManifest, FillManifest, CheckDirectory, TypeInv, TypeOK, Goto,
          disk, history
    <2>2. QED BY <1>1, <2>1, UnpackingKept
  <1>2. CASE UNCHANGED vars
    BY <1>2
    DEF vars, disk, history, command, Unpacking, UnpackingOf, Complete
  <1>3. QED
    BY <1>1, <1>2, UnpackingMade, UnpackingExtracted, UnpackingEnded
    DEF Next

-----------------------------------------------------------------------------
(* The theorems.                                                           *)

IInv ==
    /\ TypeInv
    /\ OneEach
    /\ Made
    /\ Cached
    /\ Digested
    /\ Sole
    /\ Unpacking

LEMMA InitIInv == Init => IInv
  <1> SUFFICES ASSUME Init PROVE IInv
    OBVIOUS
  <1>1. CommandRecords # {} /\ (CHOOSE c \in Commands : TRUE) \in Commands
    BY OfferAssumption
  <1>2. TypeOK
    <2>1. <<>> \in Seq(Entries)
      OBVIOUS
    <2>2. 0 \in 0 .. MaxCommands /\ 1 \in Nat \ {0}
      BY OfferAssumption
    <2>3. loaded \in [Procs -> Seq(Entries)] /\ next \in [Procs -> Nat \ {0}]
      BY <2>1, <2>2 DEF Init
    <2>4. /\ manifest = NoFile /\ recorded = {} /\ initialised = {}
          /\ overlapped = FALSE /\ commands \in 0 .. MaxCommands
          /\ number \in [Procs -> 0 .. MaxCommands]
      BY <2>2 DEF Init
    <2>5. /\ pc \in [Procs -> Stages]
          /\ offer \in [Procs -> OfferRecords \cup {NoOffer}]
          /\ cmd \in [Procs -> Commands]
      BY <1>1 DEF Init, Stages
    <2>6. cache \in [Paths -> Bytes \cup {NoFile, Torn}]
      BY DEF Init
    <2>7. dirs \in [Dirs -> {NoFile} \cup SUBSET (EntryNames \X (1 .. MaxCommands))]
      BY DEF Init
    <2>8. QED BY <2>3, <2>4, <2>5, <2>6, <2>7 DEF TypeOK
  <1>3. Control
    BY DEF Init, Control, ControlOf, Held, Ended
  <1>4. Recorded = <<>> /\ DOMAIN <<>> = {}
    BY DEF Init, Recorded
  <1>5. OneEach
    BY <1>4 DEF Init, OneEach, Unique
  <1>6. Made /\ Unpacking
    BY DEF Init, Made, Unpacking, UnpackingOf, Complete
  <1>7. Cached
    BY <1>4 DEF Init, Cached, EntryCached
  <1>8. Digested
    <2>1. \A pl \in Places : \A o \in Offers : o.digest # NoDigest =>
            cache[<<pl, o.digest>>] = NoFile
      BY OfferAssumption DEF Init, Paths, OfferRecords
    <2>2. QED BY <1>4, <2>1 DEF Init, Digested
  <1>9. Sole
    BY DEF Init, Sole, Updating
  <1>10. QED BY <1>2, <1>3, <1>5, <1>6, <1>7, <1>8, <1>9 DEF IInv, TypeInv

LEMMA NextIInv == IInv /\ [Next]_vars => IInv'
  <1> SUFFICES ASSUME IInv, [Next]_vars PROVE IInv'
    OBVIOUS
  <1>1. TypeOK' BY TypesStep DEF IInv
  <1>2. Control' BY ControlStep DEF IInv
  <1>3. TypeInv' BY <1>1, <1>2 DEF TypeInv
  <1>4. OneEach' /\ Made' BY OneEachStep, MadeStep DEF IInv
  <1>5. Cached' BY CachedStep DEF IInv
  <1>6. Digested' BY DigestedStep DEF IInv
  <1>7. Sole' BY SoleStep DEF IInv
  <1>8. Unpacking' BY UnpackingStep DEF IInv
  <1>9. QED BY <1>3, <1>4, <1>5, <1>6, <1>7, <1>8 DEF IInv

\* What the invariant says of the disk.
LEMMA IInvImplies ==
    IInv => /\ TypeOK /\ EntryCached /\ EntryHoldsDigest /\ OneEntryPerName
            /\ NoAdditionLost /\ DirectoryOfOnePack
  <1> SUFFICES ASSUME IInv
               PROVE  /\ TypeOK /\ EntryCached /\ EntryHoldsDigest
                      /\ OneEntryPerName /\ NoAdditionLost /\ DirectoryOfOnePack
    OBVIOUS
  <1>1. TypeOK /\ EntryCached
    BY DEF IInv, TypeInv, Cached
  <1>2. EntryHoldsDigest
    BY <1>1 DEF IInv, Digested, Traced, EntryCached, EntryHoldsDigest
  <1>3. OneEntryPerName
    BY DEF IInv, OneEach, Unique, OneEntryPerName
  <1>4. NoAdditionLost
    BY DEF IInv, Sole, NoAdditionLost
  <1>5. DirectoryOfOnePack
    <2> SUFFICES ASSUME NEW i \in initialised
                 PROVE  dirs[i.dir] = {<<UnpackList(i.bytes)[k], i.number>> :
                                         k \in DOMAIN UnpackList(i.bytes)}
      BY DEF DirectoryOfOnePack
    <2>1. PackFiles[i.bytes] \in Seq(EntryNames)
      BY <1>1, OfferAssumption DEF TypeOK
    <2>2. UnpackList(i.bytes) \in Seq(EntryNames)
      BY <2>1, OfferAssumption DEF UnpackList
    <2>3. DOMAIN UnpackList(i.bytes) = 1 .. Len(UnpackList(i.bytes))
      BY <2>2
    <2>4. QED BY <2>3 DEF IInv, Unpacking, Complete, Extracts
  <1>6. QED BY <1>1, <1>2, <1>3, <1>4, <1>5

LEMMA Invariance == Spec => []IInv
  BY InitIInv, NextIInv, PTL DEF Spec

\* Every variable has its type, whatever the distributor answers.
THEOREM TypeCorrect == Spec => []TypeOK
  BY Invariance, IInvImplies, PTL

\* Whatever the manifest names is in the cache (run_component_add of
\* pack_init.rs and component_add.rs write the artifact before the manifest).
THEOREM AlwaysCached == Spec => []EntryCached
  BY Invariance, IInvImplies, PTL

\* A recorded digest never names the bytes of another artifact (cache_slug).
THEOREM AlwaysItsDigest == Spec => []EntryHoldsDigest
  BY Invariance, IInvImplies, PTL

\* A name has one entry (update_manifest, update_workspace_manifest).
THEOREM AlwaysOneEntry == Spec => []OneEntryPerName
  BY Invariance, IInvImplies, PTL

\* Without an overlap no reported addition is missing from a manifest that can
\* be read.
THEOREM NothingLost == Spec => []NoAdditionLost
  BY Invariance, IInvImplies, PTL

\* An initialised directory is one pack's, all of it (slug_to_dir, create_dir,
\* unpack_gtpack).
THEOREM AlwaysOnePack == Spec => []DirectoryOfOnePack
  BY Invariance, IInvImplies, PTL
=============================================================================
