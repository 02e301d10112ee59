------------------------ MODULE ReleaseRegistryProofs ------------------------
(***************************************************************************)
(* Proofs about ReleaseRegistry, for every set of processes, command lines *)
(* and manifests, every number of launches and every order of uploads.     *)
(*                                                                         *)
(* None of the three safety properties is inductive.  IndInv adds what a   *)
(* process remembers at each stage (Control), what the gate has found out  *)
(* so far (GateProgress) and what is already in the registry when a        *)
(* process moves a tag or dispatches (PushProgress).                       *)
(***************************************************************************)
EXTENDS ReleaseRegistry, TLAPS

Pushing == {"name_gtc", "check", "push"}

Control ==
    \A p \in Procs :
      /\ pc[p] \in {"gate", "tag"} \cup Pushing => manifest[p] \in Manifests
      /\ pc[p] = "authorize" /\ Op(p) # "promote" => manifest[p] \in Manifests
      /\ pc[p] = "notify" /\ Op(p) # "promote" => manifest[p] \in Manifests
      /\ pc[p] \in Pushing => Op(p) # "promote"
      /\ pc[p] = "pull" => Op(p) = "promote"
      /\ pc[p] \in {"tag", "notify"} => Op(p) # "latest"
      /\ pc[p] = "load" => source[p] = NoManifest /\ clean[p]
      /\ pc[p] \in {"bootstrap", "resolve"} => clean[p]
      /\ pc[p] = "gate" => Op(p) # "latest" /\ GateSubject(p) = manifest[p]
      /\ pc[p] = "bootstrap" /\ source[p] # NoManifest =>
           source[p].version = cmd[p].from

GateSoFar(p) ==
    pc[p] = "gate" /\ clean[p] =>
      \A pin \in PinsToVerify(manifest[p], cmd[p].tag) \ todo[p] :
        Downloadable(assets, pin)
GateProgress == \A p \in Procs : GateSoFar(p)

Backed(p) ==
    /\ pc[p] = "tag" => registry[manifest[p].version] # NoManifest
    /\ pc[p] \in {"tag", "notify"} => registry[NotifiedRelease(p)] # NoManifest
PushProgress == \A p \in Procs : Backed(p)

TypeInv == TypeOK /\ Control
IndInv == TypeInv /\ GateProgress /\ PastGateVerified
          /\ PushProgress /\ TagsBackedByRelease /\ DispatchedPullable

-----------------------------------------------------------------------------
(* Manifests and the gate.                                                 *)

\* A crate name assembled for a known package is a crate of the catalogue.
LEMMA CrateForType ==
    ASSUME NEW from, NEW p \in Packages
    PROVE  CrateFor(from, p) \in Crates
  BY DEF CrateFor, Crates

\* generate_manifest pins versions of catalogue crates and nothing else, and
\* labels the manifest with the release and source tag it was given.
LEMMA GeneratedType ==
    ASSUME NEW release \in Tags, NEW from \in Tags, NEW src, NEW idx,
           NEW m \in GeneratedManifests(release, from, src, idx)
    PROVE  m \in Manifests /\ m.version = release /\ m.channel = from
  <1>1. PICK f \in [Packages -> Versions \cup {Absent}] :
          m = [version |-> release, channel |-> from, gtc |-> {},
               pins |-> {<<CrateFor(from, p), f[p]>> :
                           p \in {q \in Packages : f[q] # Absent}}]
    BY DEF GeneratedManifests
  <1>2. {<<CrateFor(from, p), f[p]>> : p \in {q \in Packages : f[q] # Absent}}
          \in SUBSET Pins
    <2>1. \A p \in Packages : f[p] # Absent => f[p] \in Versions \cup {Latest}
      OBVIOUS
    <2>2. QED BY <2>1, CrateForType DEF Pins
  <1>3. QED BY <1>1, <1>2 DEF Manifests

\* A snapshot from GitHub releases pins versions of catalogue crates.
LEMMA GithubType ==
    ASSUME NEW release \in Tags, NEW complete,
           NEW m \in GithubManifests(release, complete)
    PROVE  m \in Manifests
  <1>1. PICK f \in [Packages -> Versions] :
          m = [version |-> release, channel |-> "dev", gtc |-> {},
               pins |-> {<<CrateFor("dev", p), f[p]>> : p \in Packages}]
    BY DEF GithubManifests
  <1>2. {<<CrateFor("dev", p), f[p]>> : p \in Packages} \in SUBSET Pins
    BY CrateForType DEF Pins
  <1>3. "dev" \in Tags
    BY TagAssumption DEF ChannelTags
  <1>4. QED BY <1>1, <1>2, <1>3 DEF Manifests

\* `release latest` assembles a manifest of catalogue crates.
LEMMA LatestType == LatestManifest \in Manifests
  <1>1. {<<CrateFor("dev", p), Latest>> : p \in Packages} \in SUBSET Pins
    BY CrateForType DEF Pins
  <1>2. "latest" \in Tags
    BY TagAssumption DEF ChannelTags
  <1>3. QED BY <1>1, <1>2 DEF LatestManifest, Manifests

\* check_release_assets accepts a release only if some target's archive is
\* there with its checksum.
LEMMA CheckedIsDownloadable ==
    ASSUME NEW as, NEW pin, CheckReleaseAssets(as, pin)
    PROVE  Downloadable(as, pin)
  BY DEF CheckReleaseAssets, Downloadable, Kinds

\* Uploads only add files: what could be downloaded still can.
LEMMA DownloadableMonotone ==
    ASSUME NEW as, NEW bs, as \subseteq bs, NEW pin, Downloadable(as, pin)
    PROVE  Downloadable(bs, pin)
  BY DEF Downloadable

\* No step takes a file off a GitHub release: assets only grow.
LEMMA StepAssets ==
    ASSUME [Next]_vars
    PROVE  assets \subseteq assets'
  BY DEF Next, Step, Begin, Stop, LoadSource, LoadPromoted, LoadFile, Bootstrap,
         PushBootstrap, ResolveForPush, ResolveForFile, GateCheck, GateVerdict,
         NameGtc, Authorize, CheckExists, PushRelease, PullRelease, PushTag,
         Notify, PublishCrate, UploadAsset, UploadGtc, world, vars

-----------------------------------------------------------------------------
(* Types and control.                                                      *)

\* Command lines carry the tags their operation needs.
LEMMA CommandFields ==
    ASSUME NEW c \in Commands
    PROVE  /\ c \in CommandLines
           /\ c.from \in Tags
           /\ c.release # NoTag => c.release \in Tags
           /\ c.tag # NoTag => c.tag \in Tags
           /\ c.op # "publish_file" => c.release \in Tags
           /\ c.op = "promote" => c.tag \in Tags
  BY CommandAssumption DEF CommandLines

\* Giving a manifest another version leaves a manifest.
LEMMA WithVersion ==
    ASSUME NEW m \in Manifests, NEW v \in Tags
    PROVE  [m EXCEPT !.version = v] \in Manifests
  BY DEF Manifests

\* Naming gtc files changes nothing else of a manifest.
LEMMA WithGtc ==
    ASSUME NEW m \in Manifests, NEW g \in SUBSET GtcRefs
    PROVE  LET n == [m EXCEPT !.gtc = IF @ = {} THEN g ELSE @]
           IN /\ n \in Manifests
              /\ n.version = m.version /\ n.channel = m.channel
              /\ n.pins = m.pins
  BY DEF Manifests

\* The gate's work list consists of pins of the manifest it was given.
LEMMA PinsToVerifyType ==
    ASSUME NEW m \in Manifests, NEW t
    PROVE  PinsToVerify(m, t) \in SUBSET Pins
  BY DEF PinsToVerify, Manifests

\* Every action of the release command keeps the types and the control facts.
LEMMA TypeStep == TypeInv /\ [Next]_vars => TypeInv'
  <1> SUFFICES ASSUME TypeInv, [Next]_vars
               PROVE  TypeInv'
    OBVIOUS
  <1>1. ASSUME NEW p \in Procs, Begin(p) PROVE TypeInv'
    <2>1. PICK c \in Commands :
            /\ cmd' = [cmd EXCEPT ![p] = c]
            /\ pc' = [pc EXCEPT ![p] = FirstStage(c)]
            /\ manifest' = [manifest EXCEPT ![p] =
                              IF c.op = "latest" THEN LatestManifest
                              ELSE NoManifest]
      BY <1>1 DEF Begin, Goto
    <2>2. /\ FirstStage(c) \in {"done", "authorize", "resolve", "load"}
          /\ FirstStage(c) = "authorize" => c.op = "latest"
      BY DEF FirstStage
    <2>3. TypeOK'
      BY <1>1, <2>1, <2>2, LatestType, WorldAssumption
      DEF Begin, TypeInv, TypeOK, Stages, world
    <2>4. Control'
      <3> SUFFICES ASSUME NEW q \in Procs
                   PROVE  Control!(q)'
        BY DEF Control
      <3>1. CASE q = p
        BY <1>1, <2>1, <2>2, <3>1, LatestType
        DEF Begin, TypeInv, TypeOK, Op, Pushing
      <3>2. CASE q # p
        BY <1>1, <2>1, <3>2 DEF Begin, TypeInv, TypeOK, Control, Op, GateSubject
      <3>3. QED BY <3>1, <3>2
    <2>5. QED BY <2>3, <2>4 DEF TypeInv
  <1>2. ASSUME NEW p \in Procs, LoadSource(p) PROVE TypeInv'
    <2>1. PICK m \in LoadOutcomes(p) :
            /\ source' = [source EXCEPT ![p] = m]
            /\ pc' = [pc EXCEPT ![p] =
                        IF Op(p) = "generate" /\ m = NoManifest
                        THEN "bootstrap" ELSE "resolve"]
      BY <1>2 DEF LoadSource, Goto
    <2>2. m \in Manifests \cup {NoManifest}
      BY <1>2, CommandFields DEF LoadSource, LoadOutcomes, TypeInv, TypeOK, Op
    <2>3. TypeOK'
      BY <1>2, <2>1, <2>2 DEF LoadSource, TypeInv, TypeOK, Stages, world
    <2>4. Control'
      BY <1>2, <2>1
      DEF LoadSource, TypeInv, TypeOK, Control, Op, GateSubject, Pushing
    <2>5. QED BY <2>3, <2>4 DEF TypeInv
  <1>3. ASSUME NEW p \in Procs, LoadPromoted(p) PROVE TypeInv'
    <2>1. PICK m \in LoadOutcomes(p) :
            IF m = NoManifest
            THEN /\ Goto(p, IF cmd[p].tag = "stable" THEN "failed"
                            ELSE "authorize")
                 /\ UNCHANGED <<source, manifest, todo>>
            ELSE /\ source' = [source EXCEPT ![p] = m]
                 /\ manifest' = [manifest EXCEPT ![p] = m]
                 /\ todo' = [todo EXCEPT ![p] = PinsToVerify(m, cmd[p].tag)]
                 /\ Goto(p, "gate")
      BY <1>3 DEF LoadPromoted
    <2>2. m \in Manifests \cup {NoManifest}
      BY <1>3, CommandFields DEF LoadPromoted, LoadOutcomes, TypeInv, TypeOK, Op
    <2>3. TypeOK'
      BY <1>3, <2>1, <2>2, PinsToVerifyType
      DEF LoadPromoted, TypeInv, TypeOK, Stages, world, Goto
    <2>4. Control'
      BY <1>3, <2>1, <2>2
      DEF LoadPromoted, TypeInv, TypeOK, Control, Op, GateSubject, Pushing, Goto
    <2>5. QED BY <2>3, <2>4 DEF TypeInv
  <1>4. ASSUME NEW p \in Procs, LoadFile(p) PROVE TypeInv'
    <2>1. PICK f \in dist \cup LocalManifests :
            LET m == IF cmd[p].release = NoTag THEN f
                     ELSE [f EXCEPT !.version = cmd[p].release]
            IN /\ manifest' = [manifest EXCEPT ![p] = m]
               /\ todo' = [todo EXCEPT ![p] = PinsToVerify(m, cmd[p].tag)]
      BY <1>4 DEF LoadFile
    <2> DEFINE m == IF cmd[p].release = NoTag THEN f
                    ELSE [f EXCEPT !.version = cmd[p].release]
    <2>2. f \in Manifests /\ cmd[p] \in Commands
      BY WorldAssumption DEF TypeInv, TypeOK
    <2>3. m \in Manifests
      BY <2>2, CommandFields, WithVersion
    <2> HIDE DEF m
    <2>4. /\ manifest' = [manifest EXCEPT ![p] = m]
          /\ todo' = [todo EXCEPT ![p] = PinsToVerify(m, cmd[p].tag)]
      BY <2>1 DEF m
    <2>5. TypeOK'
      BY <1>4, <2>3, <2>4, PinsToVerifyType
      DEF LoadFile, TypeInv, TypeOK, Stages, world, Goto
    <2>6. Control'
      BY <1>4, <2>3, <2>4
      DEF LoadFile, TypeInv, TypeOK, Control, Op, GateSubject, Pushing, Goto
    <2>7. QED BY <2>5, <2>6 DEF TypeInv
  <1>5. ASSUME NEW p \in Procs, Bootstrap(p) PROVE TypeInv'
    <2>1. PICK m \in GeneratedManifests(cmd[p].from, cmd[p].from, NoManifest,
                                        index) :
            source' = [source EXCEPT ![p] = m]
      BY <1>5 DEF Bootstrap
    <2>2. m \in Manifests /\ m.version = cmd[p].from
      BY GeneratedType, CommandFields DEF TypeInv, TypeOK
    <2>3. /\ pc' \in [Procs -> Stages]
          /\ pc'[p] \in {"bootstrap", "resolve"}
          /\ \A q \in Procs : q # p => pc'[q] = pc[q]
      BY <1>5 DEF Bootstrap, Goto, TypeInv, TypeOK, Stages
    <2>4. TypeOK'
      BY <1>5, <2>1, <2>2, <2>3 DEF Bootstrap, TypeInv, TypeOK, world
    <2>5. Control'
      <3> SUFFICES ASSUME NEW q \in Procs
                   PROVE  Control!(q)'
        BY DEF Control
      <3>1. CASE q = p
        BY <1>5, <2>1, <2>2, <2>3, <3>1
        DEF Bootstrap, TypeInv, TypeOK, Control, Op, Pushing, Goto
      <3>2. CASE q # p
        BY <1>5, <2>1, <2>3, <3>2
        DEF Bootstrap, TypeInv, TypeOK, Control, Op, GateSubject
      <3>3. QED BY <3>1, <3>2
    <2>6. QED BY <2>4, <2>5 DEF TypeInv
  <1>6. ASSUME NEW p \in Procs, PushBootstrap(p) PROVE TypeInv'
    <2>1. TypeOK'
      BY <1>6 DEF PushBootstrap, TypeInv, TypeOK, Stages, world, memory, Goto
    <2>2. Control'
      BY <1>6 DEF PushBootstrap, TypeInv, TypeOK, Control, Op, GateSubject,
                  Pushing, memory, Goto
    <2>3. QED BY <2>1, <2>2 DEF TypeInv
  <1>7. ASSUME NEW p \in Procs, ResolveForPush(p) PROVE TypeInv'
    <2>1. PICK m \in AssembledManifests(p) :
            /\ manifest' = [manifest EXCEPT ![p] = m]
            /\ todo' = [todo EXCEPT ![p] = PinsToVerify(m, cmd[p].tag)]
            /\ WriteFile(m) \/ UNCHANGED dist
      BY <1>7 DEF ResolveForPush
    <2>2. m \in Manifests
      BY <1>7, GeneratedType, GithubType, CommandFields
      DEF ResolveForPush, AssembledManifests, TypeInv, TypeOK, Op, Snapshots
    <2>3. TypeOK'
      BY <1>7, <2>1, <2>2, PinsToVerifyType
      DEF ResolveForPush, WriteFile, TypeInv, TypeOK, Stages, world, Goto
    <2>4. Control'
      BY <1>7, <2>1, <2>2
      DEF ResolveForPush, TypeInv, TypeOK, Control, Op, GateSubject, Pushing, Goto,
          Snapshots
    <2>5. QED BY <2>3, <2>4 DEF TypeInv
  <1>8. ASSUME NEW p \in Procs, ResolveForFile(p) PROVE TypeInv'
    <2>1. PICK m \in AssembledManifests(p) :
            /\ manifest' = [manifest EXCEPT ![p] = m]
            /\ WriteFile(m) \/ UNCHANGED dist
      BY <1>8 DEF ResolveForFile
    <2>2. m \in Manifests
      BY <1>8, GeneratedType, GithubType, CommandFields
      DEF ResolveForFile, AssembledManifests, TypeInv, TypeOK, Op, Snapshots
    <2>3. TypeOK'
      BY <1>8, <2>1, <2>2, PinsToVerifyType
      DEF ResolveForFile, WriteFile, TypeInv, TypeOK, Stages, world, Goto
    <2>4. Control'
      BY <1>8, <2>1, <2>2
      DEF ResolveForFile, TypeInv, TypeOK, Control, Op, GateSubject, Pushing, Goto,
          Snapshots
    <2>5. QED BY <2>3, <2>4 DEF TypeInv
  <1>9. ASSUME NEW p \in Procs, GateCheck(p) PROVE TypeInv'
    <2>1. TypeOK'
      BY <1>9
      DEF GateCheck, TypeInv, TypeOK, Stages, world, memory, Goto
    <2>2. Control'
      BY <1>9
      DEF GateCheck, TypeInv, TypeOK, Control, Op, GateSubject, Pushing,
          memory, Goto
    <2>3. QED BY <2>1, <2>2 DEF TypeInv
  <1>10. ASSUME NEW p \in Procs, GateVerdict(p) PROVE TypeInv'
    <2>1. TypeOK'
      BY <1>10
      DEF GateVerdict, TypeInv, TypeOK, Stages, world, memory, Goto
    <2>2. Control'
      BY <1>10
      DEF GateVerdict, TypeInv, TypeOK, Control, Op, GateSubject, Pushing,
          memory, Goto
    <2>3. QED BY <2>1, <2>2 DEF TypeInv
  <1>11. ASSUME NEW p \in Procs, NameGtc(p) PROVE TypeInv'
    <2> DEFINE g == GtcArtifactsFor(manifest[p].version, gtcAssets)
               m == [manifest[p] EXCEPT !.gtc = IF @ = {} THEN g ELSE @]
    <2>1. m \in Manifests
      <3>1. g \in SUBSET GtcRefs /\ manifest[p] \in Manifests
        BY <1>11 DEF NameGtc, GtcArtifactsFor, TypeInv, TypeOK, Control, Pushing
      <3>2. QED BY <3>1, WithGtc
    <2>2. /\ manifest' = [manifest EXCEPT ![p] = m]
          /\ WriteFile(m) \/ UNCHANGED dist
      BY <1>11 DEF NameGtc
    <2> HIDE DEF m
    <2>3. TypeOK'
      BY <1>11, <2>1, <2>2
      DEF NameGtc, WriteFile, TypeInv, TypeOK, Stages, world, Goto
    <2>4. Control'
      BY <1>11, <2>1, <2>2
      DEF NameGtc, TypeInv, TypeOK, Control, Op, GateSubject, Pushing, Goto
    <2>5. QED BY <2>3, <2>4 DEF TypeInv
  <1>12. ASSUME NEW p \in Procs, Authorize(p) PROVE TypeInv'
    <2>1. TypeOK'
      BY <1>12
      DEF Authorize, TypeInv, TypeOK, Stages, world, memory, Goto
    <2>2. Control'
      BY <1>12
      DEF Authorize, TypeInv, TypeOK, Control, Op, GateSubject, Pushing,
          memory, Goto
    <2>3. QED BY <2>1, <2>2 DEF TypeInv
  <1>13. ASSUME NEW p \in Procs, CheckExists(p) PROVE TypeInv'
    <2>1. TypeOK'
      BY <1>13
      DEF CheckExists, TypeInv, TypeOK, Stages, world, memory, Goto
    <2>2. Control'
      BY <1>13
      DEF CheckExists, TypeInv, TypeOK, Control, Op, GateSubject, Pushing,
          memory, Goto
    <2>3. QED BY <2>1, <2>2 DEF TypeInv
  <1>14. ASSUME NEW p \in Procs, PushRelease(p) PROVE TypeInv'
    <2>1. TypeOK'
      BY <1>14
      DEF PushRelease, TypeInv, TypeOK, Stages, world, memory, Goto
    <2>2. Control'
      BY <1>14
      DEF PushRelease, TypeInv, TypeOK, Control, Op, GateSubject, Pushing,
          memory, Goto
    <2>3. QED BY <2>1, <2>2 DEF TypeInv
  <1>15. ASSUME NEW p \in Procs, PullRelease(p) PROVE TypeInv'
    <2>1. TypeOK'
      BY <1>15, CommandFields
      DEF PullRelease, TypeInv, TypeOK, Stages, world, memory, Goto, Control, Op
    <2>2. Control'
      BY <1>15, CommandFields
      DEF PullRelease, TypeInv, TypeOK, Control, Op, GateSubject, Pushing,
          memory, Goto
    <2>3. QED BY <2>1, <2>2 DEF TypeInv
  <1>16. ASSUME NEW p \in Procs, PushTag(p) PROVE TypeInv'
    <2>1. TypeOK'
      BY <1>16
      DEF PushTag, TypeInv, TypeOK, Stages, world, memory, Goto
    <2>2. Control'
      BY <1>16
      DEF PushTag, TypeInv, TypeOK, Control, Op, GateSubject, Pushing,
          memory, Goto
    <2>3. QED BY <2>1, <2>2 DEF TypeInv
  <1>17. ASSUME NEW p \in Procs, Notify(p) PROVE TypeInv'
    <2>1. NotifiedRelease(p) \in Tags
      BY <1>17, CommandFields
      DEF Notify, NotifiedRelease, Op, TypeInv, TypeOK, Control, Manifests
    <2>2. TypeOK'
      BY <1>17, <2>1
      DEF Notify, TypeInv, TypeOK, Stages, world, memory, Goto
    <2>3. Control'
      BY <1>17
      DEF Notify, TypeInv, TypeOK, Control, Op, GateSubject, Pushing,
          memory, Goto
    <2>4. QED BY <2>2, <2>3 DEF TypeInv
  <1>18. ASSUME NEW p \in Procs, Stop(p) PROVE TypeInv'
    <2>1. TypeOK'
      BY <1>18
      DEF Stop, TypeInv, TypeOK, Stages, world, memory, Goto
    <2>2. Control'
      BY <1>18
      DEF Stop, TypeInv, TypeOK, Control, Op, GateSubject, Pushing,
          memory, Goto
    <2>3. QED BY <2>1, <2>2 DEF TypeInv
  <1>19. ASSUME PublishCrate \/ UploadAsset \/ UploadGtc PROVE TypeInv'
    <2>1. TypeOK'
      BY <1>19, WorldAssumption
      DEF PublishCrate, UploadAsset, UploadGtc, TypeInv, TypeOK, memory
    <2>2. Control'
      BY <1>19
      DEF PublishCrate, UploadAsset, UploadGtc, TypeInv, Control, Op,
          GateSubject, memory
    <2>3. QED BY <2>1, <2>2 DEF TypeInv
  <1>20. CASE UNCHANGED vars
    BY <1>20
    DEF vars, world, memory, TypeInv, TypeOK, Control, Op, GateSubject
  <1> QED
    BY <1>1, <1>2, <1>3, <1>4, <1>5, <1>6, <1>7, <1>8, <1>9, <1>10, <1>11,
       <1>12, <1>13, <1>14, <1>15, <1>16, <1>17, <1>18, <1>19, <1>20
    DEF Next, Step

\* A fresh workspace and registry have the types of TypeOK.
LEMMA InitType == Init => TypeInv
  <1> SUFFICES ASSUME Init PROVE TypeInv
    OBVIOUS
  <1>1. TypeOK
    BY CommandAssumption, WorldAssumption DEF Init, TypeOK, Stages, Crates, Ended
  <1>2. Control
    BY DEF Init, Control, Pushing
  <1>3. QED BY <1>1, <1>2 DEF TypeInv

\* Every reachable state has the types of TypeOK.
THEOREM TypeCorrect == Spec => []TypeOK
  BY InitType, TypeStep, PTL DEF Spec, TypeInv

-----------------------------------------------------------------------------
(* The gate.                                                               *)

\* The other processes' stages and memories are their own.
LEMMA OtherProcesses ==
    ASSUME TypeOK, NEW p \in Procs, Begin(p) \/ Step(p) \/ Stop(p),
           NEW q \in Procs, q # p
    PROVE  /\ pc'[q] = pc[q] /\ cmd'[q] = cmd[q]
           /\ source'[q] = source[q] /\ manifest'[q] = manifest[q]
           /\ todo'[q] = todo[q] /\ clean'[q] = clean[q]
  BY DEF TypeOK, Step, Begin, Stop, LoadSource, LoadPromoted, LoadFile,
         Bootstrap, PushBootstrap, ResolveForPush, ResolveForFile, GateCheck,
         GateVerdict, NameGtc, Authorize, CheckExists, PushRelease,
         PullRelease, PushTag, Notify, memory, Goto

\* Uploads cannot undo what the gate found for a process that stands still.
LEMMA GateFrame ==
    ASSUME NEW q \in Procs, GateSoFar(q), Verified(q),
           assets \subseteq assets',
           pc'[q] = pc[q], cmd'[q] = cmd[q], source'[q] = source[q],
           manifest'[q] = manifest[q], todo'[q] = todo[q], clean'[q] = clean[q]
    PROVE  GateSoFar(q)' /\ Verified(q)'
  <1>1. GateSoFar(q)'
    BY DownloadableMonotone DEF GateSoFar
  <1>2. \A m : AllDownloadable(assets, m) => AllDownloadable(assets', m)
    BY DownloadableMonotone DEF AllDownloadable
  <1>3. Verified(q)'
    BY <1>2 DEF Verified, GateSubject, Op
  <1>4. QED BY <1>1, <1>3

\* Entering the gate with every pin still to check.
LEMMA EnterGate ==
    ASSUME NEW q \in Procs, pc'[q] = "gate",
           todo'[q] = PinsToVerify(manifest'[q], cmd'[q].tag)
    PROVE  GateSoFar(q)' /\ Verified(q)'
  BY DEF GateSoFar, Verified, PastGate

\* A stage before the gate, or the end, promises nothing.
LEMMA OutsideGate ==
    ASSUME NEW q \in Procs, pc'[q] \notin PastGate \cup {"gate"}
    PROVE  GateSoFar(q)' /\ Verified(q)'
  BY DEF GateSoFar, Verified, PastGate

\* Past the gate a process goes on to later stages with what it verified.
LEMMA StayVerified ==
    ASSUME NEW q \in Procs, Verified(q), pc[q] \in PastGate,
           pc'[q] # "gate", assets' = assets, cmd'[q] = cmd[q],
           IF GateSubject(q) = NoManifest THEN GateSubject(q)' = NoManifest
           ELSE /\ GateSubject(q)' # NoManifest
                /\ GateSubject(q)'.pins = GateSubject(q).pins
                /\ GateSubject(q)'.channel = GateSubject(q).channel
    PROVE  GateSoFar(q)' /\ Verified(q)'
  BY DEF GateSoFar, Verified, AffectsStable, AllDownloadable, Op

\* Every action keeps what the gate has established so far, for each process.
LEMMA GateStep ==
    ASSUME TypeInv, GateProgress, PastGateVerified, [Next]_vars
    PROVE  GateProgress' /\ PastGateVerified'
  <1> DEFINE Good(q) == GateSoFar(q) /\ Verified(q)
  <1> SUFFICES ASSUME NEW q \in Procs
               PROVE  Good(q)'
    BY DEF GateProgress, PastGateVerified
  <1>a. Good(q)
    BY DEF GateProgress, PastGateVerified
  <1>b. assets \subseteq assets'
    BY StepAssets
  <1>1. CASE UNCHANGED vars
    BY <1>1, <1>a, <1>b, GateFrame DEF vars, memory
  <1>2. CASE PublishCrate \/ UploadAsset \/ UploadGtc
    BY <1>2, <1>a, <1>b, GateFrame DEF PublishCrate, UploadAsset, UploadGtc, memory
  <1>3. ASSUME NEW p \in Procs, Begin(p) \/ Step(p) \/ Stop(p), p # q
        PROVE  Good(q)'
    BY <1>3, <1>a, <1>b, OtherProcesses, GateFrame DEF TypeInv
  <1>4. ASSUME Begin(q) \/ Step(q) \/ Stop(q)
        PROVE  Good(q)'
    <2> USE DEF Goto
    <2>1. CASE Begin(q)
      <3>1. PICK c \in Commands : cmd'[q] = c /\ pc'[q] = FirstStage(c)
        BY <2>1 DEF Begin, TypeInv, TypeOK
      <3>2. /\ FirstStage(c) \in {"done", "authorize", "resolve", "load"}
            /\ FirstStage(c) = "authorize" => c.op = "latest"
        BY DEF FirstStage
      <3>3. Op(q)' = c.op
        BY <3>1 DEF Op
      <3>4. QED BY <3>1, <3>2, <3>3 DEF GateSoFar, Verified, PastGate
    <2>2. CASE LoadSource(q) \/ Bootstrap(q) \/ PushBootstrap(q)
               \/ ResolveForFile(q) \/ Stop(q)
      <3>1. pc'[q] \notin PastGate \cup {"gate"}
        BY <2>2 DEF LoadSource, Bootstrap, PushBootstrap, ResolveForFile, Stop,
                    PastGate, TypeInv, TypeOK
      <3>2. QED BY <3>1, OutsideGate
    <2>3. CASE LoadPromoted(q)
      <3>1. PICK m \in LoadOutcomes(q) :
              IF m = NoManifest
              THEN /\ Goto(q, IF cmd[q].tag = "stable" THEN "failed"
                              ELSE "authorize")
                   /\ UNCHANGED <<source, manifest, todo>>
              ELSE /\ source' = [source EXCEPT ![q] = m]
                   /\ manifest' = [manifest EXCEPT ![q] = m]
                   /\ todo' = [todo EXCEPT ![q] = PinsToVerify(m, cmd[q].tag)]
                   /\ Goto(q, "gate")
        BY <2>3 DEF LoadPromoted
      <3>2. CASE m = NoManifest
        <4>1. source'[q] = NoManifest /\ cmd' = cmd /\ Op(q)' = "promote"
          BY <2>3, <3>1, <3>2 DEF LoadPromoted, TypeInv, Control, Op
        <4>2. pc'[q] = IF cmd[q].tag = "stable" THEN "failed" ELSE "authorize"
          BY <3>1, <3>2 DEF TypeInv, TypeOK
        <4>3. QED BY <4>1, <4>2 DEF GateSoFar, Verified, GateSubject, PastGate
      <3>3. CASE m # NoManifest
        <4>1. /\ pc'[q] = "gate" /\ cmd' = cmd /\ manifest'[q] = m
              /\ todo'[q] = PinsToVerify(m, cmd[q].tag)
          BY <2>3, <3>1, <3>3 DEF LoadPromoted, TypeInv, TypeOK
        <4>2. QED BY <4>1, EnterGate
      <3>4. QED BY <3>2, <3>3
    <2>4. CASE LoadFile(q)
      <3>1. /\ pc'[q] = "gate" /\ cmd' = cmd
            /\ todo'[q] = PinsToVerify(manifest'[q], cmd[q].tag)
        BY <2>4 DEF LoadFile, TypeInv, TypeOK
      <3>2. QED BY <3>1, EnterGate
    <2>5. CASE ResolveForPush(q)
      <3>1. /\ pc'[q] = "gate" /\ cmd' = cmd
            /\ todo'[q] = PinsToVerify(manifest'[q], cmd[q].tag)
        BY <2>5 DEF ResolveForPush, TypeInv, TypeOK
      <3>2. QED BY <3>1, EnterGate
    <2>6. CASE GateCheck(q)
      <3>1. PICK pin \in todo[q] :
              /\ todo'[q] = todo[q] \ {pin}
              /\ clean'[q] = (clean[q] /\ CheckReleaseAssets(assets, pin))
        BY <2>6 DEF GateCheck, TypeInv, TypeOK
      <3>2. /\ pc[q] = "gate" /\ pc' = pc /\ manifest' = manifest
            /\ cmd' = cmd /\ assets' = assets
        BY <2>6 DEF GateCheck, world
      <3>3. GateSoFar(q)'
        BY <1>a, <3>1, <3>2, CheckedIsDownloadable DEF GateSoFar
      <3>4. QED BY <3>2, <3>3 DEF Verified, PastGate
    <2>7. CASE GateVerdict(q)
      <3>1. /\ pc[q] = "gate" /\ todo[q] = {} /\ UNCHANGED <<memory, assets>>
            /\ pc'[q] # "gate" /\ (pc'[q] # "failed" => clean[q])
        BY <2>7 DEF GateVerdict, TypeInv, TypeOK, world
      <3>2. GateSubject(q) = manifest[q] /\ manifest[q] \in Manifests
        BY <3>1 DEF TypeInv, Control
      <3>3. GateSubject(q)' = manifest[q] /\ manifest[q] # NoManifest
        BY <3>1, <3>2, NoManifestAssumption DEF GateSubject, Op, memory
      <3>4. CASE pc'[q] = "failed"
        BY <3>4, OutsideGate DEF PastGate
      <3>5. CASE pc'[q] # "failed"
        <4>1. \A pin \in PinsToVerify(manifest[q], cmd[q].tag) :
                Downloadable(assets, pin)
          BY <1>a, <3>1, <3>5 DEF GateSoFar
        <4>2. AffectsStable(manifest[q], cmd[q].tag) =>
                AllDownloadable(assets, manifest[q])
          BY <4>1 DEF PinsToVerify, AllDownloadable
        <4>3. QED BY <3>1, <3>3, <4>2 DEF GateSoFar, Verified, memory
      <3>6. QED BY <3>4, <3>5
    <2>8. CASE NameGtc(q)
      <3> DEFINE g == GtcArtifactsFor(manifest[q].version, gtcAssets)
                 m == [manifest[q] EXCEPT !.gtc = IF @ = {} THEN g ELSE @]
      <3>1. /\ pc[q] = "name_gtc" /\ pc'[q] # "gate"
            /\ UNCHANGED <<cmd, source, assets>> /\ manifest'[q] = m
        BY <2>8 DEF NameGtc, TypeInv, TypeOK, world
      <3>2. manifest[q] \in Manifests /\ Op(q) # "promote" /\ g \in SUBSET GtcRefs
        BY <3>1 DEF TypeInv, TypeOK, Control, Pushing, GtcArtifactsFor
      <3>3. /\ m \in Manifests
            /\ m.channel = manifest[q].channel /\ m.pins = manifest[q].pins
        BY <3>2, WithGtc
      <3> HIDE DEF m
      <3>4. /\ GateSubject(q) = manifest[q] /\ GateSubject(q)' = m
            /\ GateSubject(q) # NoManifest /\ GateSubject(q)' # NoManifest
        BY <3>1, <3>2, <3>3, NoManifestAssumption DEF GateSubject, Op
      <3>5. QED BY <1>a, <3>1, <3>3, <3>4, StayVerified DEF PastGate
    <2>9. CASE Authorize(q) \/ CheckExists(q) \/ PushRelease(q) \/ PushTag(q)
               \/ Notify(q)
      <3>1. /\ pc[q] \in PastGate /\ pc'[q] # "gate"
            /\ UNCHANGED <<memory, assets>>
        BY <2>9 DEF Authorize, CheckExists, PushRelease, PushTag, Notify,
                    PastGate, TypeInv, TypeOK, world
      <3>2. GateSubject(q)' = GateSubject(q)
        BY <3>1 DEF GateSubject, Op, memory
      <3>3. QED BY <1>a, <3>1, <3>2, StayVerified DEF memory
    <2>10. CASE PullRelease(q)
      <3>1. /\ pc[q] \in PastGate /\ pc'[q] # "gate"
            /\ UNCHANGED <<cmd, source, assets>> /\ Op(q) = "promote"
        BY <2>10 DEF PullRelease, PastGate, TypeInv, TypeOK, Control, world
      <3>2. GateSubject(q)' = GateSubject(q)
        BY <3>1 DEF GateSubject, Op
      <3>3. QED BY <1>a, <3>1, <3>2, StayVerified
    <2>11. QED
      BY <1>4, <2>1, <2>2, <2>3, <2>4, <2>5, <2>6, <2>7, <2>8, <2>9, <2>10
      DEF Step
  <1>5. QED
    BY <1>1, <1>2, <1>3, <1>4 DEF Next

\* Whatever passed the gate is, and stays, downloadable, for every order of
\* uploads, publishes and commands.
THEOREM GateSound == Spec => []PastGateVerified
  <1> DEFINE Inv == TypeInv /\ GateProgress /\ PastGateVerified
  <1>1. Init => Inv
    BY InitType DEF Init, GateProgress, PastGateVerified, GateSoFar, Verified,
                    PastGate
  <1>2. Inv /\ [Next]_vars => Inv'
    BY TypeStep, GateStep
  <1>3. QED BY <1>1, <1>2, PTL DEF Spec

-----------------------------------------------------------------------------
(* The registry.                                                           *)

RegInv == PushProgress /\ TagsBackedByRelease /\ DispatchedPullable

\* A push stores one manifest; nothing is ever deleted.
Stores(t, m) == registry' = [registry EXCEPT ![t] = m]

\* Pushing a manifest under a tag never empties another tag.
LEMMA StoreKeeps ==
    ASSUME TypeOK, NEW t, NEW m \in Manifests, Stores(t, m), NEW u,
           registry[u] # NoManifest
    PROVE  registry'[u] # NoManifest
  BY NoManifestAssumption DEF Stores, TypeOK

\* Only three actions write to the registry, each a manifest.
LEMMA RegistryWrites ==
    ASSUME TypeInv, [Next]_vars
    PROVE  \/ UNCHANGED registry
           \/ \E p \in Procs :
                \/ PushBootstrap(p) /\ Stores(cmd[p].from, source[p])
                                    /\ source[p] \in Manifests
                \/ PushRelease(p) /\ Stores(manifest[p].version, manifest[p])
                                  /\ manifest[p] \in Manifests
                \/ PushTag(p) /\ Stores(cmd[p].tag, manifest[p])
                              /\ manifest[p] \in Manifests
  <1>1. CASE UNCHANGED vars
    BY <1>1 DEF vars
  <1>2. CASE PublishCrate \/ UploadAsset \/ UploadGtc
    BY <1>2 DEF PublishCrate, UploadAsset, UploadGtc
  <1>3. ASSUME NEW p \in Procs, PushBootstrap(p)
        PROVE  Stores(cmd[p].from, source[p]) /\ source[p] \in Manifests
    BY <1>3 DEF PushBootstrap, Stores, TypeInv, TypeOK
  <1>4. ASSUME NEW p \in Procs, PushRelease(p)
        PROVE  Stores(manifest[p].version, manifest[p]) /\ manifest[p] \in Manifests
    BY <1>4 DEF PushRelease, Stores, TypeInv, Control, Pushing
  <1>5. ASSUME NEW p \in Procs, PushTag(p)
        PROVE  Stores(cmd[p].tag, manifest[p]) /\ manifest[p] \in Manifests
    BY <1>5 DEF PushTag, Stores, TypeInv, Control, Pushing
  <1>6. ASSUME NEW p \in Procs,
               \/ Begin(p) \/ Stop(p) \/ LoadSource(p) \/ LoadPromoted(p)
               \/ LoadFile(p) \/ Bootstrap(p) \/ ResolveForPush(p)
               \/ ResolveForFile(p) \/ GateCheck(p) \/ GateVerdict(p)
               \/ NameGtc(p) \/ Authorize(p) \/ CheckExists(p)
               \/ PullRelease(p) \/ Notify(p)
        PROVE  UNCHANGED registry
    BY <1>6 DEF Begin, Stop, LoadSource, LoadPromoted, LoadFile, Bootstrap,
         ResolveForPush, ResolveForFile, GateCheck, GateVerdict, NameGtc,
         Authorize, CheckExists, PullRelease, Notify
  <1>7. QED BY <1>1, <1>2, <1>3, <1>4, <1>5, <1>6 DEF Next, Step

\* No step of the command deletes a tag.
LEMMA RegistryKeeps ==
    ASSUME TypeInv, [Next]_vars, NEW u, registry[u] # NoManifest
    PROVE  registry'[u] # NoManifest
  BY RegistryWrites, StoreKeeps DEF TypeInv

\* A process that is about to move a tag has its release in the registry.
LEMMA BackedStep ==
    ASSUME TypeInv, RegInv, [Next]_vars
    PROVE  PushProgress'
  <1> SUFFICES ASSUME NEW q \in Procs
               PROVE  Backed(q)'
    BY DEF PushProgress
  <1>a. Backed(q)
    BY DEF RegInv, PushProgress
  <1>1. ASSUME pc'[q] = pc[q], cmd'[q] = cmd[q], manifest'[q] = manifest[q]
        PROVE  Backed(q)'
    BY <1>a, <1>1, RegistryKeeps DEF Backed, NotifiedRelease, Op
  <1>2. ASSUME pc'[q] \notin {"tag", "notify"}
        PROVE  Backed(q)'
    BY <1>2 DEF Backed
  <1>3. CASE UNCHANGED vars
    BY <1>1, <1>3 DEF vars, memory
  <1>4. CASE PublishCrate \/ UploadAsset \/ UploadGtc
    BY <1>1, <1>4 DEF PublishCrate, UploadAsset, UploadGtc, memory
  <1>5. ASSUME NEW p \in Procs, Begin(p) \/ Step(p) \/ Stop(p), p # q
        PROVE  Backed(q)'
    BY <1>1, <1>5, OtherProcesses DEF TypeInv
  <1>6. ASSUME Begin(q) \/ Step(q) \/ Stop(q)
        PROVE  Backed(q)'
    <2> USE DEF Goto
    <2>1. CASE Begin(q)
      <3>1. PICK c \in Commands : pc'[q] = FirstStage(c)
        BY <2>1 DEF Begin, TypeInv, TypeOK
      <3>2. FirstStage(c) \in {"done", "authorize", "resolve", "load"}
        BY DEF FirstStage
      <3>3. QED BY <1>2, <3>1, <3>2
    <2>2. CASE \/ LoadSource(q) \/ LoadPromoted(q) \/ LoadFile(q)
               \/ Bootstrap(q) \/ PushBootstrap(q) \/ ResolveForPush(q)
               \/ ResolveForFile(q) \/ GateCheck(q) \/ GateVerdict(q)
               \/ NameGtc(q) \/ Authorize(q) \/ CheckExists(q) \/ Notify(q)
               \/ Stop(q)
      <3>1. pc'[q] \notin {"tag", "notify"}
        BY <2>2
        DEF LoadSource, LoadPromoted, LoadFile, Bootstrap, PushBootstrap,
            ResolveForPush, ResolveForFile, GateCheck, GateVerdict, NameGtc,
            Authorize, CheckExists, Notify, Stop, TypeInv, TypeOK
      <3>2. QED BY <1>2, <3>1
    <2>3. CASE PushRelease(q)
      <3>1. /\ manifest[q] \in Manifests /\ UNCHANGED <<cmd, manifest>>
            /\ pc'[q] \in {"done", "tag", "notify"} /\ Op(q) # "promote"
        BY <2>3 DEF PushRelease, TypeInv, TypeOK, Control, Pushing, memory
      <3>2. manifest[q].version \in Tags
        BY <3>1 DEF Manifests
      <3>3. registry'[manifest[q].version] = manifest[q]
        BY <2>3, <3>2 DEF PushRelease, TypeInv, TypeOK
      <3>4. QED
        BY <3>1, <3>3, NoManifestAssumption DEF Backed, NotifiedRelease, Op
    <2>4. CASE PullRelease(q)
      <3>1. Op(q) = "promote" /\ cmd[q].release \in Tags
        BY <2>4, CommandFields
        DEF PullRelease, TypeInv, TypeOK, Control, Op
      <3>2. CASE registry[cmd[q].release] = NoManifest
        BY <1>2, <2>4, <3>2 DEF PullRelease, TypeInv, TypeOK
      <3>3. CASE registry[cmd[q].release] # NoManifest
        <4>1. /\ manifest'[q] = registry[cmd[q].release]
              /\ UNCHANGED <<registry, cmd>>
          BY <2>4, <3>3 DEF PullRelease, TypeInv, TypeOK
        <4>2. registry[registry[cmd[q].release].version] # NoManifest
          BY <3>1, <3>3 DEF RegInv, TagsBackedByRelease
        <4>3. QED BY <3>1, <3>3, <4>1, <4>2 DEF Backed, NotifiedRelease, Op
      <3>4. QED BY <3>2, <3>3
    <2>5. CASE PushTag(q)
      <3>1. /\ pc[q] = "tag" /\ pc'[q] = "notify" /\ UNCHANGED <<cmd, manifest>>
        BY <2>5 DEF PushTag, TypeInv, TypeOK, memory
      <3>2. NotifiedRelease(q)' = NotifiedRelease(q)
        BY <3>1 DEF NotifiedRelease, Op
      <3>3. registry'[NotifiedRelease(q)] # NoManifest
        BY <1>a, <3>1, RegistryKeeps DEF Backed
      <3>4. QED BY <3>1, <3>2, <3>3 DEF Backed
    <2>6. QED BY <1>6, <2>1, <2>2, <2>3, <2>4, <2>5 DEF Step
  <1>7. QED BY <1>3, <1>4, <1>5, <1>6 DEF Next

\* Every push leaves each tag's release in the registry.
LEMMA TagsBackedStep ==
    ASSUME TypeInv, RegInv, [Next]_vars
    PROVE  TagsBackedByRelease'
  <1> SUFFICES ASSUME NEW t \in Tags, registry'[t] # NoManifest
               PROVE  registry'[registry'[t].version] # NoManifest
    BY DEF TagsBackedByRelease
  <1>1. ASSUME registry'[t] = registry[t]
        PROVE  registry'[registry'[t].version] # NoManifest
    BY <1>1, RegistryKeeps DEF RegInv, TagsBackedByRelease
  <1>2. ASSUME NEW u, NEW m \in Manifests, Stores(u, m), u = m.version
        PROVE  registry'[m.version] # NoManifest
    BY <1>2, NoManifestAssumption DEF Stores, TypeInv, TypeOK, Manifests
  <1>3. ASSUME NEW p \in Procs, PushBootstrap(p), Stores(cmd[p].from, source[p]),
               source[p] \in Manifests
        PROVE  registry'[registry'[t].version] # NoManifest
    <2>1. source[p].version = cmd[p].from
      BY <1>3 DEF PushBootstrap, TypeInv, Control
    <2>2. CASE t = cmd[p].from
      BY <1>2, <1>3, <2>1, <2>2 DEF Stores, TypeInv, TypeOK
    <2>3. CASE t # cmd[p].from
      BY <1>1, <1>3, <2>3 DEF Stores, TypeInv, TypeOK
    <2>4. QED BY <2>2, <2>3
  <1>4. ASSUME NEW p \in Procs, Stores(manifest[p].version, manifest[p]),
               manifest[p] \in Manifests
        PROVE  registry'[registry'[t].version] # NoManifest
    <2>1. CASE t = manifest[p].version
      BY <1>2, <1>4, <2>1 DEF Stores, TypeInv, TypeOK
    <2>2. CASE t # manifest[p].version
      BY <1>1, <1>4, <2>2 DEF Stores, TypeInv, TypeOK
    <2>3. QED BY <2>1, <2>2
  <1>5. ASSUME NEW p \in Procs, PushTag(p), Stores(cmd[p].tag, manifest[p]),
               manifest[p] \in Manifests
        PROVE  registry'[registry'[t].version] # NoManifest
    <2>1. registry'[manifest[p].version] # NoManifest
      BY <1>5, RegistryKeeps DEF PushTag, RegInv, PushProgress, Backed
    <2>2. CASE t = cmd[p].tag
      BY <1>5, <2>1, <2>2 DEF Stores, TypeInv, TypeOK
    <2>3. CASE t # cmd[p].tag
      BY <1>1, <1>5, <2>3 DEF Stores, TypeInv, TypeOK
    <2>4. QED BY <2>2, <2>3
  <1>6. QED BY <1>1, <1>3, <1>4, <1>5, RegistryWrites

\* Only a release that is in the registry is dispatched.
LEMMA DispatchedStep ==
    ASSUME TypeInv, RegInv, [Next]_vars
    PROVE  DispatchedPullable'
  <1> SUFFICES ASSUME NEW r \in dispatched'
               PROVE  registry'[r] # NoManifest
    BY DEF DispatchedPullable
  <1>1. CASE r \in dispatched
    BY <1>1, RegistryKeeps DEF RegInv, DispatchedPullable
  <1>2. CASE r \notin dispatched
    <2>1. PICK p \in Procs : Notify(p) /\ r = NotifiedRelease(p)
      BY <1>2 DEF Next, Step, Begin, Stop, LoadSource, LoadPromoted, LoadFile,
         Bootstrap, PushBootstrap, ResolveForPush, ResolveForFile, GateCheck,
         GateVerdict, NameGtc, Authorize, CheckExists, PushRelease,
         PullRelease, PushTag, Notify, PublishCrate, UploadAsset, UploadGtc,
         vars
    <2>2. registry[r] # NoManifest
      BY <2>1 DEF Notify, RegInv, PushProgress, Backed
    <2>3. QED BY <2>2, RegistryKeeps
  <1>3. QED BY <1>1, <1>2

\* The inductive invariant holds before the first command.
LEMMA IndInvInit == Init => IndInv
  <1> SUFFICES ASSUME Init PROVE IndInv
    OBVIOUS
  <1>1. GateProgress /\ PastGateVerified
    BY DEF Init, GateProgress, PastGateVerified, GateSoFar, Verified, PastGate
  <1>2. PushProgress
    BY DEF Init, PushProgress, Backed
  <1>3. TagsBackedByRelease /\ DispatchedPullable
    BY DEF Init, TagsBackedByRelease, DispatchedPullable
  <1>4. QED BY InitType, <1>1, <1>2, <1>3 DEF IndInv

\* Every step of every process preserves the inductive invariant.
LEMMA IndInvStep == IndInv /\ [Next]_vars => IndInv'
  BY TypeStep, GateStep, BackedStep, TagsBackedStep, DispatchedStep
  DEF IndInv, RegInv

\* A channel tag never runs ahead of the release it names, wherever a command
\* stops.
THEOREM TagsBacked == Spec => []TagsBackedByRelease
  BY IndInvInit, IndInvStep, PTL DEF Spec, IndInv

\* The update-plan workflow can pull whatever it was told about.
THEOREM DispatchedFound == Spec => []DispatchedPullable
  BY IndInvInit, IndInvStep, PTL DEF Spec, IndInv

\* Apart from the three ungated ways, `:stable` moves only onto manifests
\* whose every pin can be downloaded.
THEOREM StableMoves == Spec => StableMovesVerified
  <1>1. IndInv /\ [Next]_vars =>
          [registry'["stable"] # registry["stable"] =>
             \/ AllDownloadable(assets, registry'["stable"])
             \/ \E p \in Procs : UngatedMove(p)]_vars
    <2> SUFFICES ASSUME IndInv, [Next]_vars,
                        registry'["stable"] # registry["stable"]
                 PROVE  \/ AllDownloadable(assets, registry'["stable"])
                        \/ \E p \in Procs : UngatedMove(p)
      OBVIOUS
    <2>1. TypeInv /\ PastGateVerified
      BY DEF IndInv
    <2>2. ASSUME NEW p \in Procs, PushBootstrap(p), Stores(cmd[p].from, source[p])
          PROVE  UngatedMove(p)
      BY <2>1, <2>2 DEF PushBootstrap, Stores, UngatedMove, Goto, TypeInv, TypeOK
    <2>3. ASSUME NEW p \in Procs, PushRelease(p),
                 Stores(manifest[p].version, manifest[p])
          PROVE  UngatedMove(p)
      BY <2>1, <2>3 DEF PushRelease, Stores, UngatedMove, Goto, TypeInv, TypeOK
    <2>4. ASSUME NEW p \in Procs, PushTag(p), Stores(cmd[p].tag, manifest[p]),
                 manifest[p] \in Manifests, ~UngatedMove(p)
          PROVE  AllDownloadable(assets, registry'["stable"])
      <3>1. cmd[p].tag = "stable" /\ registry'["stable"] = manifest[p]
        BY <2>1, <2>4, TagAssumption
        DEF Stores, TypeInv, TypeOK, ChannelTags
      <3>2. GateSubject(p) = manifest[p] /\ manifest[p] # NoManifest
        BY <2>1, <2>4, <3>1, NoManifestAssumption
        DEF PushTag, UngatedMove, GateSubject, Goto, TypeInv, TypeOK
      <3>3. pc[p] \in PastGate /\ Op(p) # "latest"
        BY <2>1, <2>4 DEF PushTag, PastGate, TypeInv, Control
      <3>4. QED
        BY <2>1, <3>1, <3>2, <3>3
        DEF PastGateVerified, Verified, AffectsStable
    <2>5. QED BY <2>1, <2>2, <2>3, <2>4, RegistryWrites
  <1>2. QED BY IndInvInit, IndInvStep, <1>1, PTL DEF Spec, StableMovesVerified

\* Only releases a process has verified, with the stable channel in their
\* manifest, are dispatched.
THEOREM DispatchesVerified == Spec => DispatchVerified
  <1> DEFINE Told(r) == \E p \in Procs :
               /\ pc[p] = "notify" /\ NotifiedRelease(p) = r
               /\ NotifiedManifest(p).channel = "stable"
               /\ AllDownloadable(assets, NotifiedManifest(p))
  <1>1. IndInv /\ [Next]_vars =>
          [\A r \in dispatched' \ dispatched : Told(r)]_vars
    <2> SUFFICES ASSUME IndInv, [Next]_vars, NEW r \in dispatched' \ dispatched
                 PROVE  Told(r)
      OBVIOUS
    <2>1. PICK p \in Procs : Notify(p) /\ MayNotify(p) /\ r = NotifiedRelease(p)
      BY DEF Next, Step, Begin, Stop, LoadSource, LoadPromoted, LoadFile,
         Bootstrap, PushBootstrap, ResolveForPush, ResolveForFile, GateCheck,
         GateVerdict, NameGtc, Authorize, CheckExists, PushRelease,
         PullRelease, PushTag, Notify, PublishCrate, UploadAsset, UploadGtc,
         vars
    <2>2. /\ pc[p] = "notify" /\ Op(p) # "latest" /\ Verified(p)
      BY <2>1 DEF Notify, IndInv, TypeInv, Control, PastGateVerified
    <2>3. /\ NotifiedManifest(p) = GateSubject(p)
          /\ NotifiedManifest(p) # NoManifest
          /\ NotifiedManifest(p).channel = "stable"
      BY <2>1 DEF MayNotify, ShouldNotify, NotifiedManifest, GateSubject
    <2>4. AllDownloadable(assets, NotifiedManifest(p))
      BY <2>2, <2>3 DEF Verified, PastGate, AffectsStable
    <2>5. QED BY <2>1, <2>2, <2>3, <2>4
  <1>2. QED BY IndInvInit, IndInvStep, <1>1, PTL DEF Spec, DispatchVerified
-----------------------------------------------------------------------------
(* The command implements ToolchainLanes.                                  *)

\* Storing a manifest is a push of that tag and of no other.
LEMMA StoreIsPush ==
    ASSUME TypeOK, TypeOK', NEW t \in Tags, NEW m \in Manifests, Stores(t, m),
           UNCHANGED dispatched
    PROVE  Lanes!Push(t) /\ registry'[t] = m
  BY NoManifestAssumption DEF Stores, TypeOK, Lanes!Push

\* Only the notification tells the workflow, and what it tells is stored.
LEMMA ToldIsStored ==
    ASSUME TypeInv, RegInv, [Next]_vars, dispatched' # dispatched
    PROVE  \E r \in PlainReleases : Lanes!Tell(r)
  <1>1. PICK p \in Procs : Notify(p) /\ MayNotify(p)
                          /\ dispatched' = dispatched \cup {NotifiedRelease(p)}
    BY DEF Next, Step, Begin, Stop, LoadSource, LoadPromoted, LoadFile,
         Bootstrap, PushBootstrap, ResolveForPush, ResolveForFile, GateCheck,
         GateVerdict, NameGtc, Authorize, CheckExists, PushRelease,
         PullRelease, PushTag, Notify, PublishCrate, UploadAsset, UploadGtc,
         vars
  <1>2. NotifiedRelease(p) \in PlainReleases
    BY <1>1 DEF MayNotify, ShouldNotify
  <1>3. registry[NotifiedRelease(p)] # NoManifest /\ UNCHANGED registry
    BY <1>1 DEF Notify, RegInv, PushProgress, Backed
  <1>4. QED BY <1>1, <1>2, <1>3 DEF Lanes!Tell

\* Every step of the command is a step of the promise, or changes nothing it
\* talks about.
LEMMA LanesStep ==
    ASSUME IndInv, [Next]_vars
    PROVE  [Lanes!Next]_<<registry, dispatched>>
  <1>1. TypeInv /\ RegInv /\ TypeOK /\ TypeOK'
    BY TypeStep DEF IndInv, RegInv, TypeInv
  <1>2. CASE dispatched' # dispatched
    BY <1>1, <1>2, ToldIsStored DEF Lanes!Next
  <1>3. CASE UNCHANGED <<registry, dispatched>>
    BY <1>3
  <1>4. CASE dispatched' = dispatched /\ registry' # registry
    <2>1. ASSUME NEW p \in Procs, PushBootstrap(p),
                 Stores(cmd[p].from, source[p]), source[p] \in Manifests
          PROVE  \E t \in Tags : Lanes!Release(t)
      <3>1. source[p].version = cmd[p].from
        BY <1>1, <2>1 DEF PushBootstrap, TypeInv, Control
      <3>2. cmd[p].from \in Tags
        BY <1>1, CommandFields DEF TypeOK
      <3>3. QED BY <1>1, <1>4, <2>1, <3>1, <3>2, StoreIsPush DEF Lanes!Release
    <2>2. ASSUME NEW p \in Procs, Stores(manifest[p].version, manifest[p]),
                 manifest[p] \in Manifests
          PROVE  \E t \in Tags : Lanes!Release(t)
      <3>1. manifest[p].version \in Tags
        BY <2>2 DEF Manifests
      <3>2. QED BY <1>1, <1>4, <2>2, <3>1, StoreIsPush DEF Lanes!Release
    <2>3. ASSUME NEW p \in Procs, PushTag(p), Stores(cmd[p].tag, manifest[p]),
                 manifest[p] \in Manifests
          PROVE  \E t \in Tags : Lanes!Move(t)
      <3>1. registry[manifest[p].version] # NoManifest
        BY <1>1, <2>3 DEF PushTag, RegInv, PushProgress, Backed
      <3>2. CASE cmd[p].tag \in Tags
        BY <1>1, <1>4, <2>3, <3>1, <3>2, StoreIsPush DEF Lanes!Move
      <3>3. CASE cmd[p].tag \notin Tags
        \* no process gets here: registry would not change
        BY <1>1, <1>4, <2>3, <3>3 DEF Stores, TypeOK
      <3>4. QED BY <3>2, <3>3
    <2>4. QED BY <1>1, <1>4, <2>1, <2>2, <2>3, RegistryWrites DEF Lanes!Next
  <1>5. QED BY <1>2, <1>3, <1>4

\* `greentic-dev release`, with any number of processes that may stop at any
\* step, implements the promise about its registry.
THEOREM RefinesLanes == Spec => ImplementsLanes
  <1>1. Init => Lanes!Init
    BY DEF Init, Lanes!Init
  <1>2. QED
    BY <1>1, IndInvInit, IndInvStep, LanesStep, PTL
    DEF Spec, ImplementsLanes, Lanes!Spec

-----------------------------------------------------------------------------
(* The names of gtc's files.                                               *)

\* What the files named by a manifest are: attached, and of one release.
Published(m) == m.gtc \subseteq gtcAssets /\ \A r, s \in m.gtc : r[1] = s[1]
Named(m) == m # NoManifest => Published(m)
GtcInv ==
    /\ \A t \in Tags : Named(registry[t])
    /\ \A m \in dist : Published(m)
    /\ \A p \in Procs : Named(source[p]) /\ Named(manifest[p])

\* No step takes a file off gtc's release.
LEMMA StepGtc ==
    ASSUME [Next]_vars
    PROVE  gtcAssets \subseteq gtcAssets'
  BY DEF Next, Step, Begin, Stop, LoadSource, LoadPromoted, LoadFile, Bootstrap,
         PushBootstrap, ResolveForPush, ResolveForFile, GateCheck, GateVerdict,
         NameGtc, Authorize, CheckExists, PushRelease, PullRelease, PushTag,
         Notify, PublishCrate, UploadAsset, UploadGtc, world, vars

\* A manifest that was just assembled names no gtc file yet, and is labelled
\* with the release it is assembled for.
LEMMA AssembledFresh ==
    ASSUME NEW p \in Procs, NEW m \in AssembledManifests(p)
    PROVE  m.gtc = {} /\ m.version = cmd[p].release
  BY DEF AssembledManifests, GeneratedManifests, GithubManifests

\* Every step keeps the names true: of what is stored, in files, or held.
LEMMA GtcStep ==
    ASSUME \A m \in LocalManifests : m.gtc = {}, TypeInv, GtcInv, [Next]_vars
    PROVE  GtcInv'
  <1>a. \A m : (Published(m) => Published(m)') /\ (Named(m) => Named(m)')
    BY StepGtc DEF Published, Named
  <1>b. \A m : m.gtc = {} => Published(m)' /\ Named(m)'
    BY DEF Published, Named
  <1>c. Named(NoManifest)'
    BY DEF Named
  <1>1. ASSUME UNCHANGED <<registry, dist, source, manifest>>
        PROVE  GtcInv'
    BY <1>a, <1>1 DEF GtcInv
  <1>2. ASSUME NEW p \in Procs, Begin(p) PROVE GtcInv'
    <2>1. PICK m \in {LatestManifest, NoManifest} :
            manifest' = [manifest EXCEPT ![p] = m]
      BY <1>2 DEF Begin
    <2>2. Named(m)'
      BY <1>b, <1>c DEF LatestManifest
    <2>3. QED
      BY <1>a, <1>c, <1>2, <2>1, <2>2 DEF Begin, GtcInv, TypeInv, TypeOK
  <1>3. ASSUME NEW p \in Procs, LoadSource(p) \/ LoadPromoted(p) PROVE GtcInv'
    <2>1. \A m \in LoadOutcomes(p) : Named(m)
      BY <1>3, CommandFields
      DEF LoadSource, LoadPromoted, LoadOutcomes, GtcInv, TypeInv, TypeOK, Op, Named
    <2>2. PICK m \in LoadOutcomes(p) :
            /\ source' = [source EXCEPT ![p] = m] \/ UNCHANGED source
            /\ manifest' = [manifest EXCEPT ![p] = m] \/ UNCHANGED manifest
      BY <1>3 DEF LoadSource, LoadPromoted
    <2>3. \A q \in Procs : /\ source'[q] \in {source[q], m}
                           /\ manifest'[q] \in {manifest[q], m}
      BY <2>2 DEF TypeInv, TypeOK
    <2>4. UNCHANGED <<registry, dist>>
      BY <1>3 DEF LoadSource, LoadPromoted
    <2>5. QED
      BY <1>a, <2>1, <2>3, <2>4 DEF GtcInv
  <1>4. ASSUME NEW p \in Procs, LoadFile(p) PROVE GtcInv'
    <2>1. PICK f \in dist \cup LocalManifests :
            manifest' = [manifest EXCEPT ![p] =
                           IF cmd[p].release = NoTag THEN f
                           ELSE [f EXCEPT !.version = cmd[p].release]]
      BY <1>4 DEF LoadFile
    <2> DEFINE m == IF cmd[p].release = NoTag THEN f
                    ELSE [f EXCEPT !.version = cmd[p].release]
    <2>2. f \in Manifests /\ Published(f)
      BY WorldAssumption DEF TypeInv, TypeOK, GtcInv, Published
    <2>3. m.gtc = f.gtc
      BY <2>2 DEF Manifests
    <2>4. Named(m)
      BY <2>2, <2>3 DEF Named, Published
    <2> HIDE DEF m
    <2>5. QED
      BY <1>a, <1>4, <2>1, <2>4 DEF LoadFile, GtcInv, TypeInv, TypeOK, m
  <1>5. ASSUME NEW p \in Procs, Bootstrap(p) PROVE GtcInv'
    <2>1. PICK m \in GeneratedManifests(cmd[p].from, cmd[p].from, NoManifest,
                                        index) :
            source' = [source EXCEPT ![p] = m]
      BY <1>5 DEF Bootstrap
    <2>2. m.gtc = {}
      BY DEF GeneratedManifests
    <2>3. QED
      BY <1>a, <1>b, <1>5, <2>1, <2>2 DEF Bootstrap, GtcInv, TypeInv, TypeOK
  <1>6. ASSUME NEW p \in Procs, ResolveForPush(p) \/ ResolveForFile(p) PROVE GtcInv'
    <2>1. PICK m \in AssembledManifests(p) :
            /\ manifest' = [manifest EXCEPT ![p] = m]
            /\ WriteFile(m) \/ UNCHANGED dist
      BY <1>6 DEF ResolveForPush, ResolveForFile
    <2>2. Published(m)' /\ Named(m)'
      BY <1>b, AssembledFresh
    <2>3. /\ \A q \in Procs : manifest'[q] \in {manifest[q], m}
          /\ \A n \in dist' : n \in dist \/ n = m
      BY <2>1 DEF WriteFile, TypeInv, TypeOK
    <2>4. UNCHANGED <<registry, source>>
      BY <1>6 DEF ResolveForPush, ResolveForFile
    <2>5. QED
      BY <1>a, <2>2, <2>3, <2>4 DEF GtcInv
  <1>7. ASSUME NEW p \in Procs, NameGtc(p) PROVE GtcInv'
    <2> DEFINE g == GtcArtifactsFor(manifest[p].version, gtcAssets)
               m == [manifest[p] EXCEPT !.gtc = IF @ = {} THEN g ELSE @]
    <2>1. manifest[p] \in Manifests /\ Published(manifest[p])
      BY <1>7, NoManifestAssumption
      DEF NameGtc, TypeInv, Control, Pushing, GtcInv, Named
    <2>2. m.gtc = IF manifest[p].gtc = {} THEN g ELSE manifest[p].gtc
      BY <2>1 DEF Manifests
    <2>3. Published(m) /\ Named(m)
      BY <2>1, <2>2 DEF Published, Named, GtcArtifactsFor
    <2>4. /\ manifest' = [manifest EXCEPT ![p] = m]
          /\ WriteFile(m) \/ UNCHANGED dist
      BY <1>7 DEF NameGtc
    <2> HIDE DEF m
    <2>5. QED
      BY <1>a, <1>7, <2>3, <2>4 DEF NameGtc, WriteFile, GtcInv, TypeInv, TypeOK
  <1>8. ASSUME NEW p \in Procs,
               PushBootstrap(p) \/ PushRelease(p) \/ PushTag(p)
        PROVE  GtcInv'
    <2>1. PICK m \in {source[p], manifest[p]} : \E t : Stores(t, m)
      BY <1>8 DEF PushBootstrap, PushRelease, PushTag, Stores
    <2>2. Named(m)
      BY <2>1 DEF GtcInv
    <2>3. UNCHANGED <<dist, source, manifest>>
      BY <1>8 DEF PushBootstrap, PushRelease, PushTag, memory
    <2>4. \A u \in Tags : registry'[u] \in {registry[u], m}
      BY <2>1 DEF Stores, TypeInv, TypeOK
    <2>5. QED
      BY <1>a, <2>2, <2>3, <2>4 DEF GtcInv
  <1>9. ASSUME NEW p \in Procs, PullRelease(p) PROVE GtcInv'
    <2>1. cmd[p].release \in Tags
      BY <1>9, CommandFields DEF PullRelease, TypeInv, TypeOK, Control, Op
    <2>2. Named(registry[cmd[p].release])
      BY <2>1 DEF GtcInv
    <2>3. QED
      BY <1>a, <1>9, <2>2 DEF PullRelease, GtcInv, TypeInv, TypeOK
  <1>10. ASSUME NEW p \in Procs,
                \/ GateCheck(p) \/ GateVerdict(p) \/ Authorize(p)
                \/ CheckExists(p) \/ Notify(p) \/ Stop(p)
         PROVE  GtcInv'
    BY <1>1, <1>10 DEF GateCheck, GateVerdict, Authorize, CheckExists, Notify,
                       Stop, memory
  <1>11. CASE PublishCrate \/ UploadAsset \/ UploadGtc \/ UNCHANGED vars
    BY <1>1, <1>11 DEF PublishCrate, UploadAsset, UploadGtc, vars, memory
  <1>12. QED
    BY <1>2, <1>3, <1>4, <1>5, <1>6, <1>7, <1>8, <1>9, <1>10, <1>11
    DEF Next, Step

\* Every manifest in the registry names gtc files that are attached to one
\* release, unless somebody writes such names into a manifest file by hand:
\* the command takes them over as they are (publish --manifest).
THEOREM GtcFilesNamed ==
    ASSUME \A m \in LocalManifests : m.gtc = {}
    PROVE  Spec => []GtcFilesPublished
  <1>1. Init => GtcInv
    BY DEF Init, GtcInv, Named
  <1>2. GtcInv => GtcFilesPublished
    BY DEF GtcInv, Named, Published, GtcFilesPublished
  <1>3. TypeInv /\ GtcInv /\ [Next]_vars => GtcInv'
    BY GtcStep
  <1>4. QED BY InitType, TypeStep, <1>1, <1>2, <1>3, PTL DEF Spec

-----------------------------------------------------------------------------
(* One engineer, one command after another.                                *)

\* One process, without --force, that generates from another source tag than
\* `stable` or a release, since a source it may not read counts as missing and
\* is bootstrapped; that names no release `stable` and moves channel tags only.
OneEngineer ==
    /\ \A p, q \in Procs : p = q
    /\ \A c \in Commands :
         /\ ~c.force /\ c.release # "stable"
         /\ c.op = "generate" => c.from \notin {"stable"} \cup PlainReleases
         /\ c.tag \in ChannelTags \cup {NoTag}
    /\ \A m \in LocalManifests : m.version # "stable"

\* Nothing that is pushed as a release is named `stable`.
NotStable ==
    /\ \A m \in dist : m.version # "stable"
    /\ \A p \in Procs :
         Op(p) # "promote" /\ manifest[p] \in Manifests =>
           manifest[p].version # "stable"

\* What the command has seen of the registry is still there: nobody else is
\* at work.
Undisturbed ==
    \A p \in Procs :
      /\ pc[p] = "bootstrap" => Op(p) = "generate"
      /\ pc[p] = "push" => registry[manifest[p].version] = NoManifest
      /\ pc[p] \in {"tag", "notify"} /\ Op(p) # "promote" =>
           registry[manifest[p].version] = manifest[p]
      /\ pc[p] \in {"gate", "authorize", "pull", "tag", "notify"}
           /\ Op(p) = "promote" /\ source[p] # NoManifest =>
           registry[cmd[p].release] = source[p]
      /\ pc[p] = "tag" /\ Op(p) = "promote" =>
           manifest[p] = registry[cmd[p].release]

\* What the workflow was told of are numbered releases with binaries.
ToldDownloadable ==
    \A r \in dispatched : r \in PlainReleases
                          /\ AllDownloadable(assets, registry[r])

SoleInv == NotStable /\ Undisturbed /\ ToldDownloadable /\ StableDownloadable

\* Files and manifests are named after the release of a command line.
LEMMA NotStableStep ==
    ASSUME OneEngineer, TypeInv, NotStable, [Next]_vars
    PROVE  NotStable'
  <1>a. \A p \in Procs : cmd[p] \in Commands /\ cmd[p].release # "stable"
    BY DEF OneEngineer, TypeInv, TypeOK
  <1>1. ASSUME UNCHANGED <<dist, manifest, cmd>> PROVE NotStable'
    BY <1>1 DEF NotStable, Op
  <1>2. ASSUME NEW p \in Procs, Begin(p) PROVE NotStable'
    BY <1>2, NoManifestAssumption
    DEF Begin, NotStable, Op, TypeInv, TypeOK, LatestManifest
  <1>3. ASSUME NEW p \in Procs, LoadPromoted(p) \/ PullRelease(p) PROVE NotStable'
    <2>1. UNCHANGED <<dist, cmd>> /\ Op(p) = "promote"
      BY <1>3 DEF LoadPromoted, PullRelease, TypeInv, Control
    <2>2. \A q \in Procs : q # p => manifest'[q] = manifest[q]
      BY <1>3 DEF LoadPromoted, PullRelease, TypeInv, TypeOK
    <2>3. QED BY <2>1, <2>2 DEF NotStable, Op
  <1>4. ASSUME NEW p \in Procs, LoadFile(p) PROVE NotStable'
    <2>1. PICK f \in dist \cup LocalManifests :
            manifest' = [manifest EXCEPT ![p] =
                           IF cmd[p].release = NoTag THEN f
                           ELSE [f EXCEPT !.version = cmd[p].release]]
      BY <1>4 DEF LoadFile
    <2> DEFINE m == IF cmd[p].release = NoTag THEN f
                    ELSE [f EXCEPT !.version = cmd[p].release]
    <2>2. f \in Manifests /\ f.version # "stable"
      BY WorldAssumption DEF TypeInv, TypeOK, NotStable, OneEngineer
    <2>3. m.version # "stable"
      BY <1>a, <2>2 DEF Manifests
    <2> HIDE DEF m
    <2>4. manifest' = [manifest EXCEPT ![p] = m] /\ UNCHANGED <<dist, cmd>>
      BY <1>4, <2>1 DEF LoadFile, m
    <2>5. QED BY <2>3, <2>4 DEF NotStable, Op, TypeInv, TypeOK
  <1>5. ASSUME NEW p \in Procs, ResolveForPush(p) \/ ResolveForFile(p)
        PROVE  NotStable'
    <2>1. PICK m \in AssembledManifests(p) :
            /\ manifest' = [manifest EXCEPT ![p] = m]
            /\ WriteFile(m) \/ UNCHANGED dist
      BY <1>5 DEF ResolveForPush, ResolveForFile
    <2>2. m.version # "stable"
      BY <1>a, AssembledFresh
    <2>3. /\ \A q \in Procs : manifest'[q] \in {manifest[q], m}
          /\ \A n \in dist' : n \in dist \/ n = m
      BY <2>1 DEF WriteFile, TypeInv, TypeOK
    <2>4. UNCHANGED cmd
      BY <1>5 DEF ResolveForPush, ResolveForFile
    <2>5. QED BY <2>2, <2>3, <2>4 DEF NotStable, Op
  <1>6. ASSUME NEW p \in Procs, NameGtc(p) PROVE NotStable'
    <2> DEFINE g == GtcArtifactsFor(manifest[p].version, gtcAssets)
               m == [manifest[p] EXCEPT !.gtc = IF @ = {} THEN g ELSE @]
    <2>1. manifest[p] \in Manifests /\ Op(p) # "promote"
      BY <1>6 DEF NameGtc, TypeInv, Control, Pushing
    <2>2. m.version # "stable"
      BY <2>1 DEF NotStable, Manifests
    <2>3. /\ manifest' = [manifest EXCEPT ![p] = m]
          /\ WriteFile(m) \/ UNCHANGED dist
      BY <1>6 DEF NameGtc
    <2> HIDE DEF m
    <2>4. /\ \A q \in Procs : manifest'[q] \in {manifest[q], m}
          /\ \A n \in dist' : n \in dist \/ n = m
      BY <2>3 DEF WriteFile, TypeInv, TypeOK
    <2>5. UNCHANGED cmd
      BY <1>6 DEF NameGtc
    <2>6. QED BY <2>2, <2>4, <2>5 DEF NotStable, Op
  <1>7. ASSUME NEW p \in Procs,
               \/ LoadSource(p) \/ Bootstrap(p) \/ PushBootstrap(p)
               \/ GateCheck(p) \/ GateVerdict(p) \/ Authorize(p) \/ CheckExists(p)
               \/ PushRelease(p) \/ PushTag(p) \/ Notify(p) \/ Stop(p)
        PROVE  NotStable'
    BY <1>1, <1>7
    DEF LoadSource, Bootstrap, PushBootstrap, GateCheck, GateVerdict, Authorize,
        CheckExists, PushRelease, PushTag, Notify, Stop, memory
  <1>8. CASE PublishCrate \/ UploadAsset \/ UploadGtc \/ UNCHANGED vars
    BY <1>1, <1>8 DEF PublishCrate, UploadAsset, UploadGtc, vars, memory
  <1>9. QED
    BY <1>2, <1>3, <1>4, <1>5, <1>6, <1>7, <1>8 DEF Next, Step

\* A single command finds the registry as it left it.
LEMMA UndisturbedStep ==
    ASSUME OneEngineer, TypeInv, Undisturbed, [Next]_vars
    PROVE  Undisturbed'
  <1>1. ASSUME UNCHANGED <<registry, pc, memory>> PROVE Undisturbed'
    BY <1>1 DEF Undisturbed, Op, memory
  <1>2. CASE PublishCrate \/ UploadAsset \/ UploadGtc \/ UNCHANGED vars
    BY <1>1, <1>2 DEF PublishCrate, UploadAsset, UploadGtc, vars
  <1>3. ASSUME NEW p \in Procs, Begin(p) \/ Step(p) \/ Stop(p)
        PROVE  Undisturbed'
    <2> SUFFICES Undisturbed!(p)'
      BY DEF OneEngineer, Undisturbed
    <2>a. Undisturbed!(p)
      BY DEF Undisturbed
    <2> USE DEF Goto, Op
    <2>1. CASE Begin(p)
      <3>1. PICK c \in Commands : pc'[p] = FirstStage(c) /\ cmd'[p] = c
        BY <2>1 DEF Begin, TypeInv, TypeOK
      <3>2. /\ FirstStage(c) \in {"done", "authorize", "resolve", "load"}
            /\ FirstStage(c) = "authorize" => c.op = "latest"
        BY DEF FirstStage
      <3>3. QED BY <3>1, <3>2
    <2>2. CASE LoadSource(p)
      <3>1. PICK m \in LoadOutcomes(p) :
              /\ source'[p] = m
              /\ pc'[p] = IF Op(p) = "generate" /\ m = NoManifest
                          THEN "bootstrap" ELSE "resolve"
        BY <2>2 DEF LoadSource, TypeInv, TypeOK
      <3>2. /\ UNCHANGED <<registry, cmd, manifest>>
            /\ Op(p) \in {"publish", "generate"}
        BY <2>2 DEF LoadSource
      <3>3. QED BY <3>1, <3>2
    <2>3. CASE LoadPromoted(p)
      <3>1. PICK m \in LoadOutcomes(p) :
              IF m = NoManifest
              THEN pc'[p] \in {"failed", "authorize"} /\ source'[p] = source[p]
              ELSE pc'[p] = "gate" /\ source'[p] = m
        BY <2>3 DEF LoadPromoted, TypeInv, TypeOK
      <3>2. UNCHANGED <<registry, cmd>> /\ Op(p) = "promote" /\ source[p] = NoManifest
        BY <2>3 DEF LoadPromoted, TypeInv, Control
      <3>3. m # NoManifest => m = registry[cmd[p].release]
        BY <3>1, <3>2 DEF LoadOutcomes
      <3>4. QED BY <3>1, <3>2, <3>3
    <2>4. CASE LoadFile(p)
      BY <2>4 DEF LoadFile, TypeInv, TypeOK
    <2>5. CASE Bootstrap(p)
      <3>1. /\ pc[p] = "bootstrap" /\ UNCHANGED <<registry, cmd>>
            /\ pc'[p] \in {"bootstrap", "resolve"}
        BY <2>5 DEF Bootstrap, TypeInv, TypeOK
      <3>2. QED BY <2>a, <3>1
    <2>6. CASE PushBootstrap(p) \/ ResolveForPush(p) \/ ResolveForFile(p)
      <3>1. pc'[p] \in {"resolve", "gate", "done"} /\ UNCHANGED cmd
            /\ (pc'[p] = "gate" => Op(p) # "promote")
        BY <2>6 DEF PushBootstrap, ResolveForPush, ResolveForFile, Snapshots,
                    TypeInv, TypeOK, memory
      <3>2. QED BY <3>1
    <2>7. CASE GateCheck(p) \/ GateVerdict(p) \/ Authorize(p)
      <3>1. /\ pc[p] \in {"gate", "authorize"}
            /\ pc'[p] \in {"gate", "failed", "authorize", "name_gtc", "pull",
                           "check"}
            /\ UNCHANGED <<registry, cmd, source, manifest>>
        BY <2>7 DEF GateCheck, GateVerdict, Authorize, OneEngineer,
                    TypeInv, TypeOK, memory
      <3>2. QED BY <2>a, <3>1
    <2>8. CASE NameGtc(p)
      <3>1. pc'[p] \in {"done", "authorize"} /\ UNCHANGED cmd /\ Op(p) # "promote"
        BY <2>8 DEF NameGtc, TypeInv, TypeOK, Control, Pushing
      <3>2. QED BY <3>1
    <2>9. CASE CheckExists(p)
      BY <2>9 DEF CheckExists, TypeInv, TypeOK, memory
    <2>10. CASE PushRelease(p)
      <3>1. /\ pc'[p] \in {"done", "tag", "notify"} /\ Op(p) # "promote"
            /\ UNCHANGED <<cmd, manifest>> /\ manifest[p].version \in Tags
        BY <2>10 DEF PushRelease, TypeInv, TypeOK, Control, Pushing, memory,
                     Manifests
      <3>2. registry'[manifest[p].version] = manifest[p]
        BY <2>10, <3>1 DEF PushRelease, TypeInv, TypeOK
      <3>3. QED BY <3>1, <3>2
    <2>11. CASE PullRelease(p)
      <3>1. /\ pc[p] = "pull" /\ pc'[p] \in {"failed", "tag"} /\ Op(p) = "promote"
            /\ UNCHANGED <<registry, cmd, source>>
            /\ pc'[p] = "tag" => manifest'[p] = registry[cmd[p].release]
        BY <2>11 DEF PullRelease, TypeInv, TypeOK, Control
      <3>2. QED BY <2>a, <3>1
    <2>12. CASE PushTag(p)
      <3>1. /\ pc[p] = "tag" /\ pc'[p] = "notify"
            /\ UNCHANGED <<cmd, source, manifest>>
        BY <2>12 DEF PushTag, TypeInv, TypeOK, memory
      <3>2. /\ Op(p) # "promote" => registry[manifest[p].version] = manifest[p]
            /\ Op(p) = "promote" => registry[cmd[p].release] = manifest[p]
        BY <2>a, <3>1
      <3>3. \A t : registry[t] = manifest[p] => registry'[t] = registry[t]
        BY <2>12 DEF PushTag, TypeInv, TypeOK
      <3>4. QED BY <2>a, <3>1, <3>2, <3>3
    <2>13. CASE Notify(p) \/ Stop(p)
      <3>1. pc'[p] \in {"done", "failed"}
        BY <2>13 DEF Notify, Stop, TypeInv, TypeOK
      <3>2. QED BY <3>1
    <2>14. QED
      BY <1>3, <2>1, <2>2, <2>3, <2>4, <2>5, <2>6, <2>7, <2>8, <2>9, <2>10,
         <2>11, <2>12, <2>13 DEF Step
  <1>4. QED BY <1>2, <1>3 DEF Next

\* Uploads keep what is stored downloadable.
LEMMA StoredStaysDownloadable ==
    ASSUME [Next]_vars, NEW m, AllDownloadable(assets, m)
    PROVE  AllDownloadable(assets', m)
  BY StepAssets, DownloadableMonotone DEF AllDownloadable

\* A single engineer moves `:stable` with --tag only, and onto what the gate
\* has seen: the manifest it pushed, or the one the promote loaded and found
\* again.
LEMMA StableStep ==
    ASSUME OneEngineer, IndInv, SoleInv, [Next]_vars
    PROVE  StableDownloadable'
  <1>a. TypeInv /\ Undisturbed /\ NotStable /\ StableDownloadable
    BY DEF IndInv, SoleInv
  <1>1. CASE registry'["stable"] = registry["stable"]
    BY <1>a, <1>1, StoredStaysDownloadable DEF StableDownloadable
  <1>2. CASE registry'["stable"] # registry["stable"]
    <2>1. ASSUME NEW p \in Procs, PushBootstrap(p), Stores(cmd[p].from, source[p])
          PROVE  FALSE
      <3>1. cmd[p].from = "stable"
        BY <1>a, <1>2, <2>1 DEF Stores, TypeInv, TypeOK
      <3>2. Op(p) = "generate" /\ cmd[p] \in Commands
        BY <1>a, <2>1 DEF PushBootstrap, Undisturbed, TypeInv, TypeOK
      <3>3. QED BY <3>1, <3>2 DEF OneEngineer, Op
    <2>2. ASSUME NEW p \in Procs, PushRelease(p), manifest[p] \in Manifests,
                 Stores(manifest[p].version, manifest[p])
          PROVE  FALSE
      <3>1. manifest[p].version = "stable"
        BY <1>a, <1>2, <2>2 DEF Stores, TypeInv, TypeOK
      <3>2. Op(p) # "promote"
        BY <1>a, <2>2 DEF PushRelease, TypeInv, Control, Pushing
      <3>3. QED BY <1>a, <2>2, <3>1, <3>2 DEF NotStable
    <2>3. ASSUME NEW p \in Procs, PushTag(p), Stores(cmd[p].tag, manifest[p]),
                 manifest[p] \in Manifests
          PROVE  AllDownloadable(assets, registry'["stable"])
      <3>1. cmd[p].tag = "stable" /\ registry'["stable"] = manifest[p]
        BY <1>a, <1>2, <2>3, TagAssumption
        DEF Stores, TypeInv, TypeOK, ChannelTags
      <3>2. pc[p] = "tag" /\ Op(p) # "latest" /\ Verified(p)
        BY <1>a, <2>3 DEF PushTag, TypeInv, Control, IndInv, PastGateVerified
      <3>3. GateSubject(p) # NoManifest
        BY <3>1, <3>2 DEF Verified, PastGate
      <3>4. AllDownloadable(assets, GateSubject(p))
        BY <3>1, <3>2, <3>3 DEF Verified, PastGate, AffectsStable
      <3>5. GateSubject(p) = manifest[p]
        BY <1>a, <3>2, <3>3 DEF GateSubject, Undisturbed
      <3>6. QED BY <3>1, <3>4, <3>5
    <2>4. AllDownloadable(assets, registry'["stable"])
      BY <1>a, <1>2, <2>1, <2>2, <2>3, RegistryWrites
    <2>5. QED BY <2>4, StoredStaysDownloadable DEF StableDownloadable
  <1>3. QED BY <1>1, <1>2

\* A release that was dispatched is not pushed again, and what is dispatched
\* is what the gate has seen.
LEMMA ToldStep ==
    ASSUME OneEngineer, IndInv, SoleInv, [Next]_vars
    PROVE  ToldDownloadable'
  <1>a. /\ TypeInv /\ Undisturbed /\ ToldDownloadable
        /\ DispatchedPullable /\ PastGateVerified
    BY DEF IndInv, SoleInv
  <1> SUFFICES ASSUME NEW r \in dispatched'
               PROVE  r \in PlainReleases /\ AllDownloadable(assets', registry'[r])
    BY DEF ToldDownloadable
  <1>1. CASE r \notin dispatched
    <2>1. PICK p \in Procs : Notify(p) /\ MayNotify(p) /\ r = NotifiedRelease(p)
      BY <1>1 DEF Next, Step, Begin, Stop, LoadSource, LoadPromoted, LoadFile,
         Bootstrap, PushBootstrap, ResolveForPush, ResolveForFile, GateCheck,
         GateVerdict, NameGtc, Authorize, CheckExists, PushRelease,
         PullRelease, PushTag, Notify, PublishCrate, UploadAsset, UploadGtc,
         vars
    <2>2. /\ pc[p] = "notify" /\ Op(p) # "latest" /\ Verified(p)
          /\ UNCHANGED registry
      BY <1>a, <2>1 DEF Notify, TypeInv, Control, PastGateVerified
    <2>3. /\ r \in PlainReleases
          /\ NotifiedManifest(p) = GateSubject(p)
          /\ NotifiedManifest(p) # NoManifest
          /\ NotifiedManifest(p).channel = "stable"
      BY <2>1 DEF MayNotify, ShouldNotify, NotifiedManifest, GateSubject
    <2>4. AllDownloadable(assets, NotifiedManifest(p))
      BY <2>2, <2>3 DEF Verified, PastGate, AffectsStable
    <2>5. registry[r] = NotifiedManifest(p)
      BY <1>a, <2>1, <2>2, <2>3
      DEF Undisturbed, NotifiedRelease, NotifiedManifest
    <2>6. QED BY <2>2, <2>3, <2>4, <2>5, StoredStaysDownloadable
  <1>2. CASE r \in dispatched
    <2>1. /\ r \in PlainReleases /\ r \notin ChannelTags \cup {NoTag}
          /\ registry[r] # NoManifest /\ AllDownloadable(assets, registry[r])
      BY <1>a, <1>2, TagAssumption DEF ToldDownloadable, DispatchedPullable
    <2>2. ASSUME NEW t, NEW m, Stores(t, m), t # r
          PROVE  registry'[r] = registry[r]
      BY <1>a, <2>2 DEF Stores, TypeInv, TypeOK
    <2>3. ASSUME NEW p \in Procs, PushBootstrap(p)
          PROVE  cmd[p].from # r
      <3>1. Op(p) = "generate" /\ cmd[p] \in Commands
        BY <1>a, <2>3 DEF PushBootstrap, Undisturbed, TypeInv, TypeOK
      <3>2. QED BY <2>1, <3>1 DEF OneEngineer, Op
    <2>4. ASSUME NEW p \in Procs, PushRelease(p)
          PROVE  manifest[p].version # r
      BY <1>a, <2>1, <2>4 DEF PushRelease, Undisturbed
    <2>5. ASSUME NEW p \in Procs
          PROVE  cmd[p].tag # r
      BY <1>a, <2>1 DEF OneEngineer, TypeInv, TypeOK
    <2>6. registry'[r] = registry[r]
      BY <1>a, <2>2, <2>3, <2>4, <2>5, RegistryWrites
    <2>7. QED BY <2>1, <2>6, StoredStaysDownloadable
  <1>3. QED BY <1>1, <1>2

\* What a single engineer may rely on, before the first command and after
\* every step.
LEMMA SoleInductive ==
    ASSUME OneEngineer
    PROVE  Spec => [](IndInv /\ SoleInv)
  <1>1. Init => SoleInv
    BY CommandAssumption, NoManifestAssumption, TagAssumption
    DEF Init, SoleInv, NotStable, Undisturbed, ToldDownloadable,
        StableDownloadable, ChannelTags
  <1>2. IndInv /\ SoleInv /\ [Next]_vars => SoleInv'
    <2>1. IndInv => TypeInv
      BY DEF IndInv
    <2>2. IndInv /\ SoleInv /\ [Next]_vars =>
            NotStable' /\ Undisturbed' /\ ToldDownloadable' /\ StableDownloadable'
      BY <2>1, NotStableStep, UndisturbedStep, ToldStep, StableStep DEF SoleInv
    <2>3. QED BY <2>2 DEF SoleInv
  <1>3. QED BY <1>1, <1>2, IndInvInit, IndInvStep, PTL DEF Spec

\* `:stable` never points at binaries nobody can download, as long as one
\* engineer works at a time and by the rules of OneEngineer.
THEOREM StableAlwaysDownloadable ==
    ASSUME OneEngineer
    PROVE  Spec => []StableDownloadable
  <1>1. SoleInv => StableDownloadable
    BY DEF SoleInv
  <1>2. QED BY <1>1, SoleInductive, PTL

\* Under the same rules, what the workflow was told of stays downloadable.
THEOREM DispatchedAlwaysDownloadable ==
    ASSUME OneEngineer
    PROVE  Spec => []DispatchedDownloadable
  <1>1. SoleInv => DispatchedDownloadable
    BY DEF SoleInv, ToldDownloadable, DispatchedDownloadable
  <1>2. QED BY <1>1, SoleInductive, PTL
=============================================================================
