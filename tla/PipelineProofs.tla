---------------------------- MODULE PipelineProofs ----------------------------
(***************************************************************************)
(* Proofs about the modules that Pipeline puts side by side, for all values*)
(* of the constants that satisfy each module's assumption: ComponentPack   *)
(* first, then CoverageRun and DevReleaseSource.                           *)
(*                                                                         *)
(* ComponentPack.  SumsHold is not inductive: that the last file makes a   *)
(* directory whole needs what is in it before that.  The invariant adds    *)
(*   Control    what a shell has read by the stage it is in;               *)
(*   Still      an artifact that nobody has built since it was read or     *)
(*              built is still there;                                      *)
(*   Sole       in an undisturbed directory one shell lays files, and      *)
(*              whoever else is there has not touched it yet;              *)
(*   Laid       and its files up to `next` are the ones of its command.    *)
(***************************************************************************)
EXTENDS Pipeline, WellFoundedInduction, TLAPS

Control ==
    \A s \in Shells :
        /\ stage[s] \in {"artifact", "validated"} \/ InDest(s)
              => declared[s] \in Providers
        /\ stage[s] \notin {"open", "fill"} => next[s] = 1
        /\ stage[s] = "idle" => built[s] = None
        /\ InDest(s) => artifact[report[s].target] # NoFile
        /\ next[s] > 1 => copied[s] # None

Still ==
    \A s \in Shells \ rebuilt :
        /\ built[s] # None => artifact[BuildTarget] = built[s]
        /\ InDest(s) => artifact[report[s].target] = report[s].artifact

Laying(s) == stage[s] \in {"mkdir", "open", "fill"}
Sole ==
    \A s, t \in Shells :
        /\ Laying(s) /\ InDest(t) /\ s # t
        /\ Dest(s) = Dest(t) /\ Dest(s) \notin disturbed
        => stage[t] = "clear"

\* The i-th file of a command: not there yet, being filled, or written.
Written(s, i, content) ==
    IF next[s] > i THEN content
    ELSE IF next[s] = i /\ stage[s] = "fill" THEN Torn ELSE NoFile
MetadataOf(s) == [provider |-> declared[s], artifact |-> report[s].artifact]
LaidBy(s) ==
    /\ stage[s] = "mkdir" => packs[Dest(s)] = NoDir
    /\ stage[s] \in {"open", "fill"} =>
         /\ packs[Dest(s)] # NoDir
         /\ packs[Dest(s)].wasm = Written(s, 1, report[s].artifact)
         /\ packs[Dest(s)].meta = Written(s, 2, MetadataOf(s))
         /\ packs[Dest(s)].sums = Written(s, 3, report[s].artifact)
         /\ next[s] > 1 \/ stage[s] = "fill" => copied[s] = report[s].artifact
Laid == \A s \in Shells : Laying(s) /\ Dest(s) \notin disturbed => LaidBy(s)

TypeInv == TypeOK /\ Control
IInv == TypeInv /\ Still /\ Sole /\ Laid /\ SumsHold

USE DEF Goto, history, author, progress, Targets, FileNames

-----------------------------------------------------------------------------
(* Types and control.                                                      *)

LEMMA InitInv == ProviderAssumption /\ Init => IInv
  BY DEF ProviderAssumption, Init, IInv, TypeInv, TypeOK, Control, Still, Sole, Laid,
     SumsHold, Laying, InDest, Directories, Stages, Files, Dest

\* The end of a command.
LEMMA EndedType ==
    ASSUME TypeInv, NEW s \in Shells, Ended(s),
           packs' \in [Dests -> Directories \cup {NoDir}],
           UNCHANGED <<source, provider, edits, artifact, commands>>,
           disturbed' \subseteq Dests
    PROVE  TypeInv'
  BY DEF TypeInv, TypeOK, Control, Ended, InDest, Stages, Files

\* The target the artifact is taken from is there.
LEMMA FirstIsThere ==
    ASSUME NEW t \in Targets, \E u \in Targets : artifact[u] # NoFile
    PROVE  /\ FirstThere(Candidates(t)) \in Targets
           /\ artifact[FirstThere(Candidates(t))] # NoFile
           /\ artifact[t] # NoFile => FirstThere(Candidates(t)) = t
  <1> DEFINE c == Candidates(t)
             First(i) == /\ artifact[c[i]] # NoFile
                         /\ \A j \in 1 .. i - 1 : artifact[c[j]] = NoFile
  <1>1. /\ DOMAIN c = 1 .. 3 /\ c[1] = t
        /\ \A i \in 1 .. 3 : c[i] \in Targets
        /\ \A u \in Targets : \E i \in 1 .. 3 : c[i] = u
    BY DEF Candidates
  <1> HIDE DEF c
  <1>2. \E i \in 1 .. 3 : First(i)
    BY <1>1
  <1>3. PICK i \in 1 .. 3 : First(i) /\ FirstThere(c) = c[i]
    BY <1>1, <1>2 DEF FirstThere
  <1>4. artifact[t] # NoFile => i = 1
    BY <1>1, <1>3
  <1>5. QED BY <1>1, <1>3, <1>4 DEF c

LEMMA ReadArtifactType ==
    ASSUME ProviderAssumption, TypeInv, NEW s \in Shells, ReadArtifact(s)
    PROVE  /\ report'[s] \in Reports
           /\ report'[s].artifact = artifact[report'[s].target]
           /\ <<report'[s].artifact, declared[s]>> \in Satisfies
           /\ artifact[declared[s].target] # NoFile
                => report'[s].target = declared[s].target
           /\ TypeInv'
  <1> DEFINE target == FirstThere(Candidates(declared[s].target))
  <1>1. declared[s].target \in Targets
    BY DEF ReadArtifact, TypeInv, Control, ProviderAssumption
  <1>2. /\ target \in Targets /\ artifact[target] # NoFile
        /\ artifact[declared[s].target] # NoFile => target = declared[s].target
    BY <1>1, FirstIsThere DEF ReadArtifact
  <1>3. /\ <<artifact[target], declared[s]>> \in Satisfies
        /\ report' = [report EXCEPT ![s] =
             [target |-> target, artifact |-> artifact[target]]]
    BY DEF ReadArtifact
  <1> HIDE DEF target
  <1>4. [target |-> target, artifact |-> artifact[target]] \in Reports
    BY <1>2 DEF TypeInv, TypeOK, Reports
  <1>5. /\ report' \in [Shells -> Reports \cup {None}]
        /\ report'[s] = [target |-> target, artifact |-> artifact[target]]
    BY <1>3, <1>4 DEF TypeInv, TypeOK
  <1>6. TypeInv'
    BY <1>3, <1>4, <1>5
    DEF TypeInv, TypeOK, Control, ReadArtifact, InDest, Stages, ProviderAssumption
  <1>7. QED BY <1>2, <1>3, <1>4, <1>5, <1>6

\* A shell in its directory knows which one it is.
LEMMA DestType ==
    ASSUME ProviderAssumption, TypeInv, NEW s \in Shells, InDest(s)
    PROVE  /\ Dest(s) \in Dests
           /\ report[s] \in Reports /\ declared[s] \in Providers
           /\ MetadataOf(s) \in Metadata
           /\ packs[Dest(s)] \in Directories \cup {NoDir}
  BY DEF TypeInv, TypeOK, Control, ProviderAssumption, Dest, Reports, Metadata,
     MetadataOf

\* What is written to a file of a directory is of that file.
LEMMA FillType ==
    ASSUME ProviderAssumption, TypeInv, NEW s \in Shells, FillFile(s)
    PROVE  packs' \in [Dests -> Directories \cup {NoDir}]
  <1> DEFINE d == Dest(s)
  <1>1. InDest(s) /\ next[s] \in {1, 2, 3}
    BY DEF FillFile, InDest, TypeInv, TypeOK, Files
  <1>2. CASE packs[d] = NoDir
    BY <1>2 DEF FillFile, TypeInv, TypeOK
  <1>3. CASE packs[d] # NoDir
    <2>1. PICK content \in Filled(packs[d][FileAt(s)], Content(s)) :
            packs' = [packs EXCEPT ![d][FileAt(s)] = content]
      BY <1>3 DEF FillFile
    <2>2. FileAt(s) \in FileNames
      BY <1>1 DEF FileAt, Files
    <2>3. \/ content \in {NoFile, Torn}
          \/ FileAt(s) \in {"wasm", "sums"} /\ content \in Artifacts
          \/ FileAt(s) = "meta" /\ content \in Metadata
      <3>1. copied[s] \in Artifacts
        BY <1>1 DEF FillFile, TypeInv, TypeOK
      <3>2. CASE next[s] = 1
        BY <2>1, <3>1, <3>2 DEF Filled, Content, FileAt, Files
      <3>3. CASE next[s] = 2
        BY <1>1, <2>1, <3>3, DestType
        DEF Filled, Content, FileAt, Files, MetadataOf
      <3>4. CASE next[s] = 3
        BY <1>1, <2>1, <3>4, DestType
        DEF Filled, Content, FileAt, Files, Reports
      <3>5. QED BY <1>1, <3>2, <3>3, <3>4
    <2>4. packs[d] \in Directories /\ d \in Dests
      BY <1>1, <1>3, DestType
    <2>5. [packs[d] EXCEPT ![FileAt(s)] = content] \in Directories
      BY <2>2, <2>3, <2>4 DEF Directories
    <2>6. QED BY <2>1, <2>4, <2>5 DEF TypeInv, TypeOK
  <1>4. QED BY <1>2, <1>3

LEMMA NextType ==
    ASSUME ProviderAssumption, TypeInv, [Next]_vars
    PROVE  TypeInv'
  <1>1. CASE UNCHANGED vars
    BY <1>1 DEF TypeInv, TypeOK, Control, InDest, vars
  <1>2. CASE Edit
    BY <1>2 DEF Edit, TypeInv, TypeOK, Control, InDest, ProviderAssumption
  <1>3. ASSUME NEW s \in Shells, Begin(s) PROVE TypeInv'
    BY <1>3 DEF Begin, TypeInv, TypeOK, Control, InDest, Stages, ProviderAssumption
  <1>4. ASSUME NEW s \in Shells, Build(s) PROVE TypeInv'
    BY <1>4 DEF Build, TypeInv, TypeOK, Control, InDest, Stages, ProviderAssumption
  <1>5. ASSUME NEW s \in Shells, ReadProvider(s) PROVE TypeInv'
    BY <1>5 DEF ReadProvider, TypeInv, TypeOK, Control, InDest, Stages
  <1>6. ASSUME NEW s \in Shells, ReadArtifact(s) PROVE TypeInv'
    BY <1>6, ReadArtifactType
  <1>7. ASSUME NEW s \in Shells, Validated(s) PROVE TypeInv'
    BY <1>7, EndedType DEF Validated, TypeInv, TypeOK
  <1>8. ASSUME NEW s \in Shells, NEW f \in FileNames, RemoveFile(s, f)
        PROVE  TypeInv'
    <2>1. InDest(s) /\ packs[Dest(s)] \in Directories /\ Dest(s) \in Dests
      BY <1>8, DestType DEF RemoveFile, InDest
    <2>2. [packs[Dest(s)] EXCEPT ![f] = NoFile] \in Directories
      BY <2>1 DEF Directories
    <2>3. packs' \in [Dests -> Directories \cup {NoDir}]
      BY <1>8, <2>1, <2>2 DEF RemoveFile, TypeInv, TypeOK
    <2>4. QED
      BY <1>8, <2>1, <2>3
      DEF RemoveFile, TypeInv, TypeOK, Control, InDest, Overlap
  <1>9. ASSUME NEW s \in Shells, RemoveDirectory(s) PROVE TypeInv'
    <2>1. InDest(s) /\ Dest(s) \in Dests
      BY <1>9, DestType DEF RemoveDirectory, InDest
    <2>2. QED
      BY <1>9, <2>1
      DEF RemoveDirectory, TypeInv, TypeOK, Control, InDest, Overlap, Stages
  <1>10. ASSUME NEW s \in Shells, MakeDirectory(s) PROVE TypeInv'
    <2>1. InDest(s) /\ Dest(s) \in Dests
      BY <1>10, DestType DEF MakeDirectory, InDest
    <2>2. [f \in FileNames |-> NoFile] \in Directories
      BY DEF Directories
    <2>3. packs' \in [Dests -> Directories \cup {NoDir}]
      BY <1>10, <2>1, <2>2 DEF MakeDirectory, TypeInv, TypeOK
    <2>4. QED
      BY <1>10, <2>1, <2>3
      DEF MakeDirectory, TypeInv, TypeOK, Control, InDest, Overlap, Stages
  <1>11. ASSUME NEW s \in Shells, OpenFile(s) PROVE TypeInv'
    <2>1. /\ InDest(s) /\ packs[Dest(s)] \in Directories /\ Dest(s) \in Dests
          /\ FileAt(s) \in FileNames
      BY <1>11, DestType DEF OpenFile, InDest, FileAt, Files, TypeInv, TypeOK
    <2>2. [packs[Dest(s)] EXCEPT ![FileAt(s)] = Torn] \in Directories
      BY <2>1 DEF Directories
    <2>3. packs' \in [Dests -> Directories \cup {NoDir}]
      BY <1>11, <2>1, <2>2 DEF OpenFile, TypeInv, TypeOK
    <2>4. artifact[report[s].target] \in Artifacts
      BY <2>1, DestType DEF TypeInv, TypeOK, Control, Reports
    <2>5. /\ copied' \in [Shells -> Artifacts \cup {None}]
          /\ copied'[s] # None /\ \A t \in Shells \ {s} : copied'[t] = copied[t]
      BY <1>11, <2>4
      DEF OpenFile, TypeInv, TypeOK, Control, FileAt, Files, ProviderAssumption
    <2>6. QED
      BY <1>11, <2>1, <2>3, <2>5
      DEF OpenFile, TypeInv, TypeOK, Control, InDest, Stages
  <1>12. ASSUME NEW s \in Shells, FillFile(s) PROVE TypeInv'
    <2>1. packs' \in [Dests -> Directories \cup {NoDir}]
      BY <1>12, FillType
    <2>2. CASE Ended(s)
      BY <1>12, <2>1, <2>2, EndedType DEF FillFile, TypeInv, TypeOK
    <2>3. CASE ~Ended(s)
      <3>1. /\ next[s] \in {1, 2} /\ next' = [next EXCEPT ![s] = @ + 1]
            /\ stage' = [stage EXCEPT ![s] = "open"]
            /\ stage[s] = "fill"
            /\ UNCHANGED <<author, artifact, commands, packing, built, declared,
                           report, copied, rebuilt, disturbed>>
        BY <1>12, <2>3 DEF FillFile, TypeInv, TypeOK, Files
      <3>2. TypeOK'
        BY <2>1, <3>1 DEF TypeInv, TypeOK, InDest, Stages, Files
      <3>3. Control'
        BY <3>1 DEF TypeInv, TypeOK, Control, InDest
      <3>4. QED BY <3>2, <3>3 DEF TypeInv
    <2>4. QED BY <2>2, <2>3
  <1>13. ASSUME NEW s \in Shells, Stop(s) PROVE TypeInv'
    <2>1. disturbed' \subseteq Dests
      BY <1>13, DestType DEF Stop, InDest, TypeInv, TypeOK
    <2>2. QED BY <1>13, <2>1, EndedType DEF Stop, TypeInv, TypeOK
  <1>14. QED
    BY <1>1, <1>2, <1>3, <1>4, <1>5, <1>6, <1>7, <1>8, <1>9, <1>10, <1>11,
       <1>12, <1>13
    DEF Next

\* Every variable has its type, and a shell past the validation holds an
\* artifact that satisfies the provider.toml it has read.
THEOREM TypeCorrect ==
    ASSUME ProviderAssumption
    PROVE  Spec => []TypeOK
  <1>1. Init => TypeInv
    BY InitInv DEF IInv
  <1>2. TypeInv /\ [Next]_vars => TypeInv'
    BY NextType
  <1>3. TypeInv => TypeOK
    BY DEF TypeInv
  <1>4. QED BY <1>1, <1>2, <1>3, PTL DEF Spec

-----------------------------------------------------------------------------
(* The artifact that nobody builds meanwhile.                              *)

LEMMA NextStill ==
    ASSUME ProviderAssumption, TypeInv, TypeInv', Still, [Next]_vars
    PROVE  Still'
  <1>1. CASE UNCHANGED vars
    BY <1>1 DEF Still, InDest, vars
  <1>2. CASE Edit
    BY <1>2 DEF Edit, Still, InDest
  <1>3. ASSUME NEW s \in Shells, Begin(s) PROVE Still'
    BY <1>3 DEF Begin, Still, InDest, TypeInv, TypeOK, Stages
  <1>4. ASSUME NEW s \in Shells, Build(s) PROVE Still'
    BY <1>4
    DEF Build, Still, InDest, TypeInv, TypeOK, Control, Stages, ProviderAssumption
  <1>5. ASSUME NEW s \in Shells, ReadProvider(s) PROVE Still'
    BY <1>5 DEF ReadProvider, Still, InDest, TypeInv, TypeOK, Stages
  <1>6. ASSUME NEW s \in Shells, ReadArtifact(s) PROVE Still'
    <2>1. report'[s].artifact = artifact[report'[s].target]
      BY <1>6, ReadArtifactType
    <2>2. /\ stage' \in [Shells -> Stages]
          /\ \A t \in Shells \ {s} : stage'[t] = stage[t] /\ report'[t] = report[t]
          /\ UNCHANGED <<artifact, built, rebuilt>>
      BY <1>6 DEF ReadArtifact, TypeInv, TypeOK
    <2>3. QED BY <2>1, <2>2 DEF Still, InDest
  <1>7. ASSUME NEW s \in Shells, Ended(s), UNCHANGED artifact PROVE Still'
    BY <1>7 DEF Ended, Still, InDest, TypeInv, TypeOK
  <1>8. ASSUME NEW s \in Shells, NEW f \in FileNames, RemoveFile(s, f)
        PROVE  Still'
    BY <1>8 DEF RemoveFile, Still, InDest
  <1>9. ASSUME NEW s \in Shells, RemoveDirectory(s) PROVE Still'
    BY <1>9 DEF RemoveDirectory, Still, InDest, TypeInv, TypeOK
  <1>10. ASSUME NEW s \in Shells, MakeDirectory(s) PROVE Still'
    BY <1>10 DEF MakeDirectory, Still, InDest, TypeInv, TypeOK
  <1>11. ASSUME NEW s \in Shells, OpenFile(s) PROVE Still'
    BY <1>11 DEF OpenFile, Still, InDest, TypeInv, TypeOK
  <1>12. ASSUME NEW s \in Shells, FillFile(s) PROVE Still'
    <2>1. CASE Ended(s)
      BY <1>7, <1>12, <2>1 DEF FillFile
    <2>2. CASE ~Ended(s)
      BY <1>12, <2>2 DEF FillFile, Still, InDest, TypeInv, TypeOK
    <2>3. QED BY <2>1, <2>2
  <1>13. QED
    BY <1>1, <1>2, <1>3, <1>4, <1>5, <1>6, <1>7, <1>8, <1>9, <1>10, <1>11,
       <1>12
    DEF Next, Validated, Stop

\* Validation takes what the command has built, where provider.toml says so.
LEMMA StepValidates ==
    ASSUME ProviderAssumption, TypeInv, Still, [Next]_vars,
           NEW s \in Shells, ReadsArtifact(s), built[s] # None,
           s \notin rebuilt, declared[s].target = BuildTarget
    PROVE  report'[s].artifact = built[s]
  <1>1. ReadArtifact(s)
    <2>1. /\ stage[s] = "artifact" /\ stage'[s] \in {"clear", "validated"}
          /\ stage \in [Shells -> Stages]
      BY DEF ReadsArtifact, TypeInv, TypeOK
    <2>2. ~UNCHANGED vars /\ ~Edit
      BY <2>1 DEF vars, Edit
    <2>3. ASSUME NEW t \in Shells
          PROVE  ~Begin(t) /\ ~Build(t) /\ ~ReadProvider(t) /\ ~MakeDirectory(t)
      BY <2>1 DEF Begin, Build, ReadProvider, MakeDirectory
    <2>4. ASSUME NEW t \in Shells
          PROVE  /\ ~RemoveDirectory(t) /\ ~OpenFile(t)
                 /\ \A f \in FileNames : ~RemoveFile(t, f)
      BY <2>1 DEF RemoveDirectory, OpenFile, RemoveFile
    <2>5. ASSUME NEW t \in Shells
          PROVE  ~Validated(t) /\ ~FillFile(t) /\ ~Stop(t)
      BY <2>1 DEF Validated, FillFile, Stop, Ended
    <2>6. PICK t \in Shells : ReadArtifact(t)
      BY <2>2, <2>3, <2>4, <2>5 DEF Next
    <2>7. QED BY <2>1, <2>6 DEF ReadArtifact
  <1>2. artifact[BuildTarget] = built[s] /\ built[s] \in Artifacts
    BY DEF Still, TypeInv, TypeOK
  <1>3. artifact[BuildTarget] # NoFile
    BY <1>2 DEF ProviderAssumption
  <1>4. QED BY <1>1, <1>2, <1>3, ReadArtifactType

-----------------------------------------------------------------------------
(* One shell at a time in an undisturbed directory.                        *)

\* What the steps of one shell leave alone of the others.
OnlyMoves(s) ==
    /\ \A t \in Shells \ {s} :
         /\ stage'[t] = stage[t] /\ declared'[t] = declared[t]
         /\ report'[t] = report[t] /\ copied'[t] = copied[t]
         /\ next'[t] = next[t]
    /\ disturbed \subseteq disturbed'

\* A shell that lays no file, and has cleared none, changes nothing of it.
LEMMA SoleFrame ==
    ASSUME TypeInv', Sole, NEW s \in Shells, OnlyMoves(s),
           stage'[s] \notin {"mkdir", "open", "fill"}
    PROVE  Sole'
  BY DEF Sole, Laying, InDest, Dest, OnlyMoves

\* Nor does one that goes on laying files.
LEMMA SoleLaying ==
    ASSUME TypeInv', Sole, NEW s \in Shells, OnlyMoves(s), Laying(s),
           declared'[s] = declared[s]
    PROVE  Sole'
  BY DEF Sole, Laying, InDest, Dest, OnlyMoves

LEMMA EndedMoves ==
    ASSUME TypeInv, NEW s \in Shells, Ended(s), disturbed \subseteq disturbed'
    PROVE  OnlyMoves(s) /\ stage'[s] = "idle" /\ next'[s] = 1
  BY DEF TypeInv, TypeOK, Ended, OnlyMoves

\* The steps of a shell, by what they do to a directory: nothing, ...
Apart(s) ==
    Begin(s) \/ Build(s) \/ ReadProvider(s) \/ ReadArtifact(s) \/ Validated(s)
LEMMA ApartMoves ==
    ASSUME TypeInv, NEW s \in Shells, Apart(s)
    PROVE  /\ OnlyMoves(s) /\ UNCHANGED <<packs, disturbed>>
           /\ stage[s] # "clear"
           /\ stage'[s] \notin {"mkdir", "open", "fill"}
  <1>1. CASE Begin(s) \/ Build(s) \/ ReadProvider(s)
    BY <1>1 DEF Begin, Build, ReadProvider, OnlyMoves, TypeInv, TypeOK
  <1>2. CASE ReadArtifact(s)
    BY <1>2 DEF ReadArtifact, OnlyMoves, TypeInv, TypeOK
  <1>3. CASE Validated(s)
    BY <1>3, EndedMoves DEF Validated
  <1>4. QED BY <1>1, <1>2, <1>3 DEF Apart

\* ... or something to their own.
LEMMA ClearMoves ==
    ASSUME TypeInv, NEW s \in Shells,
           RemoveDirectory(s) \/ \E f \in FileNames : RemoveFile(s, f)
    PROVE  /\ OnlyMoves(s) /\ declared'[s] = declared[s]
           /\ stage[s] = "clear"
           /\ disturbed' = disturbed \cup Overlap(s)
           /\ \A d \in Dests \ {Dest(s)} : packs'[d] = packs[d]
  BY DEF RemoveDirectory, RemoveFile, OnlyMoves, TypeInv, TypeOK

LEMMA LayMoves ==
    ASSUME TypeInv, NEW s \in Shells,
           MakeDirectory(s) \/ OpenFile(s) \/ FillFile(s)
    PROVE  /\ OnlyMoves(s) /\ Laying(s)
           /\ declared'[s] = declared[s] \/ stage'[s] = "idle"
           /\ \A d \in Dests \ {Dest(s)} : packs'[d] = packs[d]
  <1>1. CASE MakeDirectory(s)
    BY <1>1 DEF MakeDirectory, OnlyMoves, Laying, TypeInv, TypeOK
  <1>2. CASE OpenFile(s)
    BY <1>2 DEF OpenFile, OnlyMoves, Laying, TypeInv, TypeOK
  <1>3. CASE FillFile(s)
    <2>1. \A d \in Dests \ {Dest(s)} : packs'[d] = packs[d]
      BY <1>3 DEF FillFile, TypeInv, TypeOK
    <2>2. CASE Ended(s)
      BY <1>3, <2>1, <2>2, EndedMoves DEF FillFile, Laying
    <2>3. CASE ~Ended(s)
      BY <1>3, <2>1, <2>3 DEF FillFile, OnlyMoves, Laying, TypeInv, TypeOK
    <2>4. QED BY <2>2, <2>3
  <1>4. QED BY <1>1, <1>2, <1>3

LEMMA StopMoves ==
    ASSUME TypeInv, NEW s \in Shells, Stop(s)
    PROVE  /\ OnlyMoves(s) /\ stage'[s] = "idle" /\ UNCHANGED packs
           /\ stage[s] = "clear" => Dest(s) \in disturbed'
  <1>1. disturbed \subseteq disturbed'
    BY DEF Stop
  <1>2. QED BY <1>1, EndedMoves DEF Stop

LEMMA NextSole ==
    ASSUME TypeInv, TypeInv', Sole, [Next]_vars
    PROVE  Sole'
  <1>1. CASE UNCHANGED vars \/ Edit
    BY <1>1 DEF Edit, vars, Sole, Laying, InDest, Dest
  <1>2. ASSUME NEW s \in Shells, Apart(s) PROVE Sole'
    BY <1>2, ApartMoves, SoleFrame
  <1>3. ASSUME NEW s \in Shells, NEW f \in FileNames, RemoveFile(s, f)
        PROVE  Sole'
    <2>1. OnlyMoves(s) /\ stage'[s] = "clear"
      BY <1>3, ClearMoves DEF RemoveFile
    <2>2. QED BY <2>1, SoleFrame
  <1>4. ASSUME NEW s \in Shells, RemoveDirectory(s) PROVE Sole'
    <2>1. /\ OnlyMoves(s) /\ declared'[s] = declared[s] /\ stage[s] = "clear"
          /\ disturbed' = disturbed \cup Overlap(s)
      BY <1>4, ClearMoves
    <2>2. Dest(s) \notin disturbed' =>
            \A t \in Shells \ {s} : ~(InDest(t) /\ Dest(t) = Dest(s))
      BY <2>1 DEF Overlap
    <2>3. QED
      BY <2>1, <2>2 DEF Sole, Laying, InDest, Dest, OnlyMoves
  <1>5. ASSUME NEW s \in Shells, MakeDirectory(s) \/ OpenFile(s) \/ FillFile(s)
        PROVE  Sole'
    BY <1>5, LayMoves, SoleFrame, SoleLaying
  <1>6. ASSUME NEW s \in Shells, Stop(s) PROVE Sole'
    BY <1>6, StopMoves, SoleFrame
  <1>7. QED BY <1>1, <1>2, <1>3, <1>4, <1>5, <1>6 DEF Next, Apart

-----------------------------------------------------------------------------
(* The files of the shell that lays them.                                  *)

\* Whatever one shell does in its directory, the files of the others are what
\* they were.
LEMMA OthersLaid ==
    ASSUME ProviderAssumption, TypeInv, Sole, Laid,
           NEW s \in Shells, OnlyMoves(s),
           \/ UNCHANGED packs
           \/ /\ InDest(s)
              /\ \A d \in Dests \ {Dest(s)} : packs'[d] = packs[d]
              /\ stage[s] = "clear" => Overlap(s) \subseteq disturbed',
           NEW u \in Shells \ {s}, Laying(u)', Dest(u)' \notin disturbed'
    PROVE  LaidBy(u)'
  <1>1. /\ Laying(u) /\ InDest(u) /\ Dest(u)' = Dest(u)
        /\ Dest(u) \notin disturbed /\ LaidBy(u)
    BY DEF OnlyMoves, Laying, InDest, Dest, Laid
  <1>2. Dest(u) \in Dests
    BY <1>1, DestType
  <1>3. packs'[Dest(u)] = packs[Dest(u)]
    <2>1. ASSUME InDest(s), Dest(u) = Dest(s),
                 stage[s] = "clear" => Overlap(s) \subseteq disturbed'
          PROVE  FALSE
      <3>1. stage[s] = "clear"
        BY <1>1, <2>1 DEF Sole
      <3>2. Dest(s) \in Overlap(s)
        BY <1>1, <2>1 DEF Overlap
      <3>3. QED BY <1>1, <2>1, <3>1, <3>2
    <2>2. QED BY <1>2, <2>1
  <1>4. QED
    BY <1>1, <1>3 DEF OnlyMoves, LaidBy, Written, MetadataOf, Dest

LEMMA OpenLaid ==
    ASSUME ProviderAssumption, TypeInv, Still, Laid, NEW s \in Shells,
           OpenFile(s), Dest(s) \notin disturbed'
    PROVE  LaidBy(s)'
  <1> DEFINE d == Dest(s)
  <1>1. /\ InDest(s) /\ Laying(s) /\ d \notin disturbed
        /\ d \in Dests /\ packs[d] \in Directories
        /\ report[s] \in Reports /\ next[s] \in {1, 2, 3}
    BY DestType
    DEF OpenFile, InDest, Laying, TypeInv, TypeOK, Files
  <1>2. /\ packs[d].wasm = Written(s, 1, report[s].artifact)
        /\ packs[d].meta = Written(s, 2, MetadataOf(s))
        /\ packs[d].sums = Written(s, 3, report[s].artifact)
        /\ next[s] > 1 => copied[s] = report[s].artifact
    BY <1>1 DEF Laid, LaidBy, OpenFile
  <1>3. packs'[d] = [packs[d] EXCEPT ![FileAt(s)] = Torn]
    BY <1>1 DEF OpenFile, TypeInv, TypeOK
  <1>4. /\ stage'[s] = "fill" /\ Dest(s)' = d /\ packs'[d] # NoDir
        /\ UNCHANGED <<next, report, declared>>
    BY <1>1, <1>3
    DEF OpenFile, TypeInv, TypeOK, Dest, Directories, FileAt, Files, ProviderAssumption
  <1>5. copied'[s] = report[s].artifact
    <2>1. CASE next[s] = 1
      <3>1. s \notin rebuilt
        BY <1>1, <2>1 DEF OpenFile, FileAt, Files
      <3>2. QED
        BY <1>1, <2>1, <3>1 DEF OpenFile, FileAt, Files, Still, TypeInv, TypeOK
    <2>2. CASE next[s] # 1
      BY <1>1, <1>2, <2>2 DEF OpenFile, FileAt, Files, TypeInv, TypeOK
    <2>3. QED BY <2>1, <2>2
  <1>6. /\ packs'[d].wasm = Written(s, 1, report[s].artifact)'
        /\ packs'[d].meta = Written(s, 2, MetadataOf(s))'
        /\ packs'[d].sums = Written(s, 3, report[s].artifact)'
    <2>1. stage[s] = "open" /\ stage'[s] = "fill"
      BY <1>4 DEF OpenFile
    <2>2. CASE next[s] = 1
      BY <1>1, <1>2, <1>3, <1>4, <2>1, <2>2
      DEF Written, FileAt, Files, Directories, MetadataOf
    <2>3. CASE next[s] = 2
      BY <1>1, <1>2, <1>3, <1>4, <2>1, <2>3
      DEF Written, FileAt, Files, Directories, MetadataOf
    <2>4. CASE next[s] = 3
      BY <1>1, <1>2, <1>3, <1>4, <2>1, <2>4
      DEF Written, FileAt, Files, Directories, MetadataOf
    <2>5. QED BY <1>1, <2>2, <2>3, <2>4
  <1>7. QED BY <1>4, <1>5, <1>6 DEF LaidBy

\* The file that is filled becomes what the command has for it.
LEMMA FillLaid ==
    ASSUME ProviderAssumption, TypeInv, Laid, NEW s \in Shells,
           FillFile(s), Dest(s) \notin disturbed'
    PROVE  /\ packs'[Dest(s)] \in Directories
           /\ packs'[Dest(s)].wasm = report[s].artifact
           /\ packs'[Dest(s)].meta =
                IF next[s] > 1 THEN MetadataOf(s) ELSE NoFile
           /\ packs'[Dest(s)].sums =
                IF next[s] > 2 THEN report[s].artifact ELSE NoFile
           /\ copied[s] = report[s].artifact
  <1> DEFINE d == Dest(s)
  <1>1. /\ InDest(s) /\ Laying(s) /\ d \notin disturbed
        /\ d \in Dests /\ packs[d] \in Directories /\ packs[d] # NoDir
        /\ next[s] \in {1, 2, 3} /\ stage[s] = "fill"
        /\ report[s].artifact \in Artifacts /\ MetadataOf(s) \in Metadata
    <2>1. InDest(s) /\ Laying(s) /\ d \notin disturbed /\ stage[s] = "fill"
      BY DEF FillFile, InDest, Laying
    <2>2. packs[d] # NoDir
      BY <2>1 DEF Laid, LaidBy
    <2>3. QED BY <2>1, <2>2, DestType DEF TypeInv, TypeOK, Files, Reports
  <1>2. /\ packs[d].wasm = Written(s, 1, report[s].artifact)
        /\ packs[d].meta = Written(s, 2, MetadataOf(s))
        /\ packs[d].sums = Written(s, 3, report[s].artifact)
        /\ copied[s] = report[s].artifact
    BY <1>1 DEF Laid, LaidBy
  <1>3. packs[d][FileAt(s)] = Torn
    <2>1. CASE next[s] = 1
      BY <1>1, <1>2, <2>1 DEF Written, FileAt, Files
    <2>2. CASE next[s] = 2
      BY <1>1, <1>2, <2>2 DEF Written, FileAt, Files
    <2>3. CASE next[s] = 3
      BY <1>1, <1>2, <2>3 DEF Written, FileAt, Files
    <2>4. QED BY <1>1, <2>1, <2>2, <2>3
  <1>4. packs' = [packs EXCEPT ![d][FileAt(s)] = Content(s)]
    BY <1>1, <1>3 DEF FillFile, Filled, ProviderAssumption
  <1>5. packs'[d] = [packs[d] EXCEPT ![FileAt(s)] = Content(s)]
    BY <1>1, <1>4 DEF TypeInv, TypeOK
  <1>6. packs'[d] \in Directories
    BY <1>1, <1>5, FillType
    DEF FileAt, Files, Content, Directories, MetadataOf, ProviderAssumption, TypeInv,
        TypeOK, FillFile
  <1>7. CASE next[s] = 1
    BY <1>1, <1>2, <1>5, <1>6, <1>7
    DEF Written, FileAt, Files, Content, Directories
  <1>8. CASE next[s] = 2
    BY <1>1, <1>2, <1>5, <1>6, <1>8
    DEF Written, FileAt, Files, Content, Directories, MetadataOf
  <1>9. CASE next[s] = 3
    BY <1>1, <1>2, <1>5, <1>6, <1>9
    DEF Written, FileAt, Files, Content, Directories
  <1>10. QED BY <1>1, <1>7, <1>8, <1>9

LEMMA NextLaid ==
    ASSUME ProviderAssumption, TypeInv, TypeInv', Still, Sole, Laid, [Next]_vars
    PROVE  Laid'
  <1>1. CASE UNCHANGED vars \/ Edit
    BY <1>1 DEF Edit, vars, Laid, LaidBy, Laying, Dest, Written, MetadataOf
  <1>2. ASSUME NEW s \in Shells, Apart(s) PROVE Laid'
    <2>1. OnlyMoves(s) /\ UNCHANGED packs /\ ~Laying(s)'
      BY <1>2, ApartMoves DEF Laying
    <2>2. QED BY <2>1, OthersLaid DEF Laid
  <1>3. ASSUME NEW s \in Shells, NEW f \in FileNames, RemoveFile(s, f)
        PROVE  Laid'
    <2>1. /\ OnlyMoves(s) /\ InDest(s) /\ Overlap(s) \subseteq disturbed'
          /\ \A d \in Dests \ {Dest(s)} : packs'[d] = packs[d]
          /\ ~Laying(s)'
      BY <1>3, ClearMoves DEF InDest, Laying, RemoveFile
    <2>2. QED BY <2>1, OthersLaid DEF Laid
  <1>4. ASSUME NEW s \in Shells, RemoveDirectory(s) PROVE Laid'
    <2>1. /\ OnlyMoves(s) /\ InDest(s) /\ Overlap(s) \subseteq disturbed'
          /\ \A d \in Dests \ {Dest(s)} : packs'[d] = packs[d]
      BY <1>4, ClearMoves DEF InDest
    <2>2. LaidBy(s)'
      BY <1>4, <2>1, DestType
      DEF RemoveDirectory, LaidBy, Dest, TypeInv, TypeOK
    <2>3. QED BY <2>1, <2>2, OthersLaid DEF Laid
  <1>5. ASSUME NEW s \in Shells, MakeDirectory(s) PROVE Laid'
    <2>1. /\ OnlyMoves(s) /\ InDest(s) /\ stage[s] # "clear"
          /\ \A d \in Dests \ {Dest(s)} : packs'[d] = packs[d]
      BY <1>5, LayMoves DEF InDest, MakeDirectory
    <2>2. ASSUME Dest(s)' \notin disturbed' PROVE LaidBy(s)'
      <3>1. /\ Dest(s)' = Dest(s) /\ Dest(s) \notin disturbed /\ Laying(s)
            /\ Dest(s) \in Dests /\ next[s] = 1
        BY <1>5, <2>1, <2>2, DestType
        DEF MakeDirectory, Dest, Laying, TypeInv, Control
      <3>2. packs[Dest(s)] = NoDir
        BY <1>5, <3>1 DEF MakeDirectory, Laid, LaidBy
      <3>3. packs'[Dest(s)] = [f \in FileNames |-> NoFile]
        BY <1>5, <3>1, <3>2 DEF MakeDirectory, TypeInv, TypeOK
      <3>4. [f \in FileNames |-> NoFile] \in Directories
        BY DEF Directories
      <3>5. packs'[Dest(s)] # NoDir
        BY <3>3, <3>4 DEF ProviderAssumption
      <3>6. /\ stage'[s] = "open"
            /\ UNCHANGED <<next, report, declared, copied>>
        BY <1>5 DEF MakeDirectory, TypeInv, TypeOK
      <3>7. QED
        BY <3>1, <3>3, <3>5, <3>6 DEF LaidBy, Written
    <2>3. QED BY <2>1, <2>2, OthersLaid DEF Laid
  <1>6. ASSUME NEW s \in Shells, OpenFile(s) PROVE Laid'
    <2>1. /\ OnlyMoves(s) /\ InDest(s) /\ stage[s] # "clear"
          /\ \A d \in Dests \ {Dest(s)} : packs'[d] = packs[d]
          /\ Dest(s)' = Dest(s)
      BY <1>6, LayMoves DEF InDest, OpenFile, Dest
    <2>2. QED BY <1>6, <2>1, OpenLaid, OthersLaid DEF Laid
  <1>7. ASSUME NEW s \in Shells, FillFile(s) PROVE Laid'
    <2>1. /\ OnlyMoves(s) /\ InDest(s) /\ stage[s] # "clear"
          /\ \A d \in Dests \ {Dest(s)} : packs'[d] = packs[d]
      BY <1>7, LayMoves DEF InDest, FillFile
    <2>2. ASSUME Laying(s)', Dest(s)' \notin disturbed' PROVE LaidBy(s)'
      <3>1. ~Ended(s)
        BY <2>2 DEF Laying, Ended, TypeInv, TypeOK
      <3>2. /\ next[s] \in {1, 2} /\ next'[s] = next[s] + 1
            /\ stage'[s] = "open"
            /\ UNCHANGED <<report, declared, copied>>
        BY <1>7, <3>1 DEF FillFile, TypeInv, TypeOK, Files
      <3>3. Dest(s)' = Dest(s)
        BY <3>2 DEF Dest
      <3>4. /\ packs'[Dest(s)] \in Directories
            /\ packs'[Dest(s)].wasm = report[s].artifact
            /\ packs'[Dest(s)].meta =
                 IF next[s] > 1 THEN MetadataOf(s) ELSE NoFile
            /\ packs'[Dest(s)].sums =
                 IF next[s] > 2 THEN report[s].artifact ELSE NoFile
            /\ copied[s] = report[s].artifact
        BY <1>7, <2>2, <3>3, FillLaid
      <3>5. packs'[Dest(s)] # NoDir
        BY <3>4 DEF ProviderAssumption
      <3>6. /\ Written(s, 1, report[s].artifact)' = report[s].artifact
            /\ Written(s, 2, MetadataOf(s))' =
                 IF next[s] > 1 THEN MetadataOf(s) ELSE NoFile
            /\ Written(s, 3, report[s].artifact)' = NoFile
        BY <3>2 DEF Written, MetadataOf
      <3>7. QED BY <3>2, <3>3, <3>4, <3>5, <3>6 DEF LaidBy
    <2>3. QED BY <2>1, <2>2, OthersLaid DEF Laid
  <1>8. ASSUME NEW s \in Shells, Stop(s) PROVE Laid'
    <2>1. OnlyMoves(s) /\ UNCHANGED packs /\ ~Laying(s)'
      BY <1>8, StopMoves DEF Laying
    <2>2. QED BY <2>1, OthersLaid DEF Laid
  <1>9. QED
    BY <1>1, <1>2, <1>3, <1>4, <1>5, <1>6, <1>7, <1>8 DEF Next, Apart

-----------------------------------------------------------------------------
(* The directory with its hash.                                            *)

Holds(d) ==
    (/\ d \notin disturbed /\ packs[d] # NoDir
     /\ ~\E s \in Shells : stage[s] = "clear" /\ Dest(s) = d)
    /\ packs[d].sums \notin {NoFile, Torn}
    => /\ packs[d].wasm = packs[d].sums
       /\ packs[d].meta \notin {NoFile, Torn}
       /\ packs[d].meta.artifact = packs[d].sums
       /\ packs[d].meta.provider.dest = d
       /\ <<packs[d].wasm, packs[d].meta.provider>> \in Satisfies
LEMMA SumsAreHeld == SumsHold <=> \A d \in Dests : Holds(d)
  BY DEF SumsHold, Holds

\* A directory that a step leaves alone stays what it is: no shell but the one
\* that moves can stop clearing it.
LEMMA HoldsFrame ==
    ASSUME NEW d \in Dests, Holds(d), NEW s \in Shells, OnlyMoves(s),
           packs'[d] = packs[d],
           stage[s] = "clear" /\ Dest(s) = d
             => \/ d \in disturbed'
                \/ stage'[s] = "clear" /\ declared'[s] = declared[s]
    PROVE  Holds(d)'
  BY DEF Holds, OnlyMoves, Dest

LEMMA NextHolds ==
    ASSUME ProviderAssumption, TypeInv, TypeInv', Still, Sole, Laid, SumsHold,
           [Next]_vars
    PROVE  SumsHold'
  <1> SUFFICES ASSUME NEW d \in Dests PROVE Holds(d)'
    BY DEF SumsHold, Holds
  <1>1. Holds(d)
    BY SumsAreHeld
  <1>2. CASE UNCHANGED vars \/ Edit
    BY <1>1, <1>2 DEF Edit, vars, Holds, Dest
  <1>3. ASSUME NEW s \in Shells, Apart(s) PROVE Holds(d)'
    BY <1>1, <1>3, ApartMoves, HoldsFrame
  <1>4. ASSUME NEW s \in Shells, NEW f \in FileNames, RemoveFile(s, f)
        PROVE  Holds(d)'
    <2>1. /\ OnlyMoves(s) /\ declared'[s] = declared[s] /\ stage'[s] = "clear"
          /\ Dest(s)' = Dest(s)
          /\ d # Dest(s) => packs'[d] = packs[d]
      BY <1>4, ClearMoves DEF RemoveFile, Dest
    <2>2. CASE d = Dest(s)
      BY <2>1, <2>2 DEF Holds
    <2>3. CASE d # Dest(s)
      BY <1>1, <2>1, <2>3, HoldsFrame
    <2>4. QED BY <2>2, <2>3
  <1>5. ASSUME NEW s \in Shells, RemoveDirectory(s) PROVE Holds(d)'
    <2>1. OnlyMoves(s) /\ (d # Dest(s) => packs'[d] = packs[d])
      BY <1>5, ClearMoves
    <2>2. CASE d = Dest(s)
      BY <1>5, <2>2 DEF RemoveDirectory, Holds, TypeInv, TypeOK
    <2>3. CASE d # Dest(s)
      BY <1>1, <2>1, <2>3, HoldsFrame
    <2>4. QED BY <2>2, <2>3
  <1>6. ASSUME NEW s \in Shells, MakeDirectory(s) \/ OpenFile(s) \/ FillFile(s),
               d # Dest(s)
        PROVE  Holds(d)'
    BY <1>1, <1>6, LayMoves, HoldsFrame DEF Laying
  <1>7. ASSUME NEW s \in Shells, MakeDirectory(s), d = Dest(s) PROVE Holds(d)'
    <2>1. CASE packs[d] = NoDir
      BY <1>7, <2>1 DEF MakeDirectory, Holds, TypeInv, TypeOK
    <2>2. CASE packs[d] # NoDir
      <3>1. packs'[d] = packs[d]
        BY <1>7, <2>2 DEF MakeDirectory, TypeInv, TypeOK
      <3>2. QED BY <1>1, <1>7, <3>1, LayMoves, HoldsFrame DEF Laying
    <2>3. QED BY <2>1, <2>2
  <1>8. ASSUME NEW s \in Shells, OpenFile(s), d = Dest(s) PROVE Holds(d)'
    <2>1. ASSUME d \notin disturbed' PROVE packs'[d].sums \in {NoFile, Torn}
      <3>1. LaidBy(s)'
        BY <1>8, <2>1, OpenLaid
      <3>2. stage'[s] = "fill" /\ next'[s] \in {1, 2, 3} /\ Dest(s)' = d
        BY <1>8 DEF OpenFile, TypeInv, TypeOK, Dest, Files
      <3>3. QED BY <3>1, <3>2 DEF LaidBy, Written
    <2>2. QED BY <2>1 DEF Holds
  <1>9. ASSUME NEW s \in Shells, FillFile(s), d = Dest(s) PROVE Holds(d)'
    <2> SUFFICES ASSUME d \notin disturbed', packs'[d].sums \notin {NoFile, Torn}
                 PROVE  /\ packs'[d].wasm = packs'[d].sums
                        /\ packs'[d].meta \notin {NoFile, Torn}
                        /\ packs'[d].meta.artifact = packs'[d].sums
                        /\ packs'[d].meta.provider.dest = d
                        /\ <<packs'[d].wasm, packs'[d].meta.provider>> \in Satisfies
      BY DEF Holds
    <2>1. InDest(s) /\ next[s] \in {1, 2, 3}
      BY <1>9 DEF FillFile, InDest, TypeInv, TypeOK, Files
    <2>2. /\ packs'[d].wasm = report[s].artifact
          /\ packs'[d].meta = IF next[s] > 1 THEN MetadataOf(s) ELSE NoFile
          /\ packs'[d].sums = IF next[s] > 2 THEN report[s].artifact ELSE NoFile
      BY <1>9, FillLaid
    <2>3. /\ packs'[d].sums = report[s].artifact
          /\ packs'[d].meta = MetadataOf(s)
      BY <2>1, <2>2
    <2>4. /\ MetadataOf(s) \in Metadata /\ declared[s].dest = d
          /\ <<report[s].artifact, declared[s]>> \in Satisfies
      BY <1>9, <2>1, DestType DEF Dest, TypeInv, TypeOK
    <2>5. QED
      BY <2>2, <2>3, <2>4 DEF MetadataOf, ProviderAssumption
  <1>10. ASSUME NEW s \in Shells, Stop(s) PROVE Holds(d)'
    BY <1>1, <1>10, StopMoves, HoldsFrame
  <1>11. QED
    BY <1>2, <1>3, <1>4, <1>5, <1>6, <1>7, <1>8, <1>9, <1>10 DEF Next, Apart

-----------------------------------------------------------------------------
LEMMA NextInv ==
    ASSUME ProviderAssumption, IInv, [Next]_vars
    PROVE  IInv'
  <1>1. TypeInv'
    BY NextType DEF IInv
  <1>2. Still' /\ Sole' /\ Laid' /\ SumsHold'
    BY <1>1, NextStill, NextSole, NextLaid, NextHolds DEF IInv
  <1>3. QED BY <1>1, <1>2 DEF IInv

\* A directory with a complete SHA256SUMS is a whole pack of the artifact with
\* that hash (pack_command), whatever is edited meanwhile and wherever a
\* command ends while it writes.
THEOREM SumsAlwaysHold ==
    ASSUME ProviderAssumption
    PROVE  Spec => []SumsHold
  <1>1. Init => IInv
    BY InitInv
  <1>2. IInv /\ [Next]_vars => IInv'
    BY NextInv
  <1>3. IInv => SumsHold
    BY DEF IInv
  <1>4. QED BY <1>1, <1>2, <1>3, PTL DEF Spec

\* What a command builds is what it validates and packs, if provider.toml names
\* the path it is built to and nobody else builds meanwhile
\* (candidate_artifact_paths tries that path first).
THEOREM ValidatesItsBuild ==
    ASSUME ProviderAssumption
    PROVE  Spec => BuildIsValidated
  <1> DEFINE Step ==
        \A s \in Shells :
            ReadsArtifact(s) /\ built[s] # None /\ s \notin rebuilt
                /\ declared[s].target = BuildTarget
            => report'[s].artifact = built[s]
  <1>1. Init => IInv
    BY InitInv
  <1>2. IInv /\ [Next]_vars => IInv'
    BY NextInv
  <1>3. IInv /\ [Next]_vars => [Step]_vars
    <2>1. SUFFICES ASSUME IInv, [Next]_vars PROVE Step
      OBVIOUS
    <2>2. QED BY <2>1, StepValidates DEF IInv
  <1>4. QED BY <1>1, <1>2, <1>3, PTL DEF Spec, BuildIsValidated

-----------------------------------------------------------------------------
(* CoverageRun.  A command that ran the tests only ever finds a report     *)
(* completed since its run ended, or one that is being written (Fresh).    *)

CoverageTypes ==
    /\ machine \in [bin : SUBSET Coverage!Programs,
                    listed : SUBSET Coverage!Programs]
    /\ code \in Measurements
    /\ policy_file \in Policies \cup {None, Invalid}
    /\ report_file \in Measurements \cup {None, Partial}
    /\ coverage_stage \in [Shells -> Coverage!Stages]
    /\ cmd \in [Shells -> [skip_run : BOOLEAN, offline : BOOLEAN]]
    /\ \A p \in Shells : cmd[p] \in CoverageCommandLines \cup {Coverage!NoCommand}
    /\ coverage_todo \in [Shells -> Seq(Coverage!Programs)]
    /\ policy \in [Shells -> Policies \cup {None}]
    /\ evaluated \in [Shells -> Measurements \cup {None}]
    /\ coverage_exit \in [Shells -> Coverage!ExitCodes \cup {None}]
    /\ measured \in [Shells -> Measurements \cup {None}]
    /\ since \in [Shells -> SUBSET Measurements]
    /\ failures \in [Shells -> SUBSET Coverage!Programs]

Ensuring == {"ensure", "binstall", "install"}
Judging == {"report", "load_policy", "load_report"}
Fresh(p) ==
    coverage_stage[p] \in Judging /\ ~cmd[p].skip_run =>
        report_file \in since[p] \cup {Partial}
PassesFor(p) ==
    coverage_exit[p] = 0 =>
        /\ ~cmd[p].skip_run => evaluated[p] \in since[p]
        /\ \A f \in MeasuredFiles \ policy[p].excluded :
               ~Coverage!Below(evaluated[p][f].covered, evaluated[p][f].count,
                               Coverage!Expected(policy[p], f))
FailsFor(p) ==
    coverage_exit[p] = 3 => cmd[p].offline \/ failures[p] # {}
CoverageOf(p) ==
    /\ coverage_stage[p] \in Ensuring => coverage_todo[p] # <<>>
    /\ coverage_stage[p] \in {"measure", "write"} => measured[p] \in Measurements
    /\ coverage_stage[p] # "done" => coverage_exit[p] = None
    /\ coverage_exit[p] \in {0, 5} <=> evaluated[p] # None
    /\ Fresh(p) /\ PassesFor(p) /\ FailsFor(p)

CoverageInv == CoverageTypes /\ \A p \in Shells : CoverageOf(p)

\* A sequence of tools without its first one.
LEMMA RestOfTools ==
    ASSUME NEW S, NEW t \in Seq(S), t # <<>>
    PROVE  Head(t) \in S /\ Tail(t) \in Seq(S)
  OBVIOUS

\* The options, the tools to ensure and the status codes.
LEMMA CoverageConstants ==
    ASSUME Coverage!CoverageAssumption
    PROVE  /\ Coverage!NoCommand \in [skip_run : BOOLEAN, offline : BOOLEAN]
           /\ \A c \in CoverageCommandLines :
                c \in [skip_run : BOOLEAN, offline : BOOLEAN]
           /\ Coverage!Tools \in Seq(Coverage!Programs) /\ Coverage!Tools # <<>>
           /\ None \notin Coverage!ExitCodes
           /\ 0 \in Coverage!ExitCodes /\ 1 \in Coverage!ExitCodes
           /\ 2 \in Coverage!ExitCodes /\ 3 \in Coverage!ExitCodes
           /\ 4 \in Coverage!ExitCodes /\ 5 \in Coverage!ExitCodes
  BY DEF Coverage!Tools, Coverage!Programs, Coverage!CoverageAssumption,
         Coverage!ExitCodes, Coverage!NoCommand

\* No command has begun.
LEMMA InitCoverage ==
    ASSUME Coverage!CoverageAssumption, Coverage!Init
    PROVE  CoverageInv
  <1> USE DEF Coverage!CoverageAssumption, Coverage!Init
  <1>1. CoverageTypes
    BY CoverageConstants
    DEF CoverageTypes, Coverage!Stages, Coverage!Programs
  <1>2. \A p \in Shells : CoverageOf(p)
    BY CoverageConstants
    DEF CoverageOf, Ensuring, Fresh, Judging, PassesFor, FailsFor,
        Coverage!ExitCodes
  <1>3. QED BY <1>1, <1>2 DEF CoverageInv

\* An edit of the code or the policy.
LEMMA CoverageEdit ==
    ASSUME CoverageInv, Coverage!Edit
    PROVE  CoverageInv'
  BY DEF Coverage!Edit, Coverage!command, Coverage!history, CoverageInv,
         CoverageTypes, CoverageOf, Fresh, PassesFor, FailsFor

\* The command starts, or finds no policy.
LEMMA CoverageBegin ==
    ASSUME Coverage!CoverageAssumption, CoverageInv, NEW p \in Shells,
           NEW c \in CoverageCommandLines, Coverage!Begin(p, c)
    PROVE  CoverageInv'
  <1> USE DEF Coverage!Begin, Coverage!Exit, Coverage!Goto,
              Coverage!environment, Coverage!history, CoverageInv
  <1>1. /\ c \in [skip_run : BOOLEAN, offline : BOOLEAN]
        /\ cmd'[p] = c /\ coverage_exit[p] = None /\ evaluated[p] = None
        /\ \/ coverage_stage'[p] = "done" /\ coverage_exit'[p] = 2
           \/ /\ coverage_stage'[p] = IF c.skip_run THEN "report" ELSE "ensure"
              /\ coverage_todo'[p] = Coverage!Tools /\ coverage_exit'[p] = None
    BY CoverageConstants DEF CoverageTypes, CoverageOf
  <1>2. CoverageTypes'
    <2>1. coverage_stage' \in [Shells -> Coverage!Stages]
      <3>1. \E s \in {"done", "report", "ensure"} :
              coverage_stage' = [coverage_stage EXCEPT ![p] = s]
        BY <1>1
      <3>2. QED BY <3>1 DEF CoverageTypes, Coverage!Stages
    <2>2. coverage_exit' \in [Shells -> Coverage!ExitCodes \cup {None}]
      BY CoverageConstants DEF CoverageTypes
    <2>3. coverage_todo' \in [Shells -> Seq(Coverage!Programs)]
      BY CoverageConstants DEF CoverageTypes
    <2>4. /\ cmd' \in [Shells -> [skip_run : BOOLEAN, offline : BOOLEAN]]
          /\ \A q \in Shells :
               cmd'[q] \in CoverageCommandLines \cup {Coverage!NoCommand}
      BY <1>1 DEF CoverageTypes
    <2>5. QED BY <2>1, <2>2, <2>3, <2>4 DEF CoverageTypes
  <1>3. CoverageOf(p)'
    BY <1>1, CoverageConstants
    DEF CoverageOf, Ensuring, Fresh, Judging, PassesFor, FailsFor,
        Coverage!ExitCodes
  <1>4. \A q \in Shells : q # p => CoverageOf(q)'
    BY DEF CoverageTypes, CoverageOf, Fresh, PassesFor, FailsFor
  <1>5. QED BY <1>2, <1>3, <1>4

\* Ensuring a tool: it is there, cannot be had, or is installed.
LEMMA CoverageEnsure ==
    ASSUME Coverage!CoverageAssumption, CoverageInv, NEW p \in Shells,
           Coverage!Ensure(p) \/ Coverage!EnsureBinstall(p) \/ Coverage!Install(p)
    PROVE  CoverageInv'
  <1> DEFINE tool == Head(coverage_todo[p])
             rest == Tail(coverage_todo[p])
  <1>1. /\ coverage_stage[p] \in Ensuring /\ coverage_exit[p] = None
        /\ tool \in Coverage!Programs /\ rest \in Seq(Coverage!Programs)
        /\ evaluated[p] = None
    <2>1. coverage_stage[p] \in Ensuring
      BY DEF Coverage!Ensure, Coverage!EnsureBinstall, Coverage!Install, Ensuring
    <2>2. /\ coverage_exit[p] = None /\ coverage_todo[p] # <<>>
          /\ ~(coverage_exit[p] \in {0, 5})
      BY <2>1, CoverageConstants DEF CoverageInv, CoverageOf, Ensuring
    <2>3. coverage_todo[p] \in Seq(Coverage!Programs)
      BY DEF CoverageInv, CoverageTypes
    <2>4. evaluated[p] = None
      BY <2>2 DEF CoverageInv, CoverageOf
    <2>5. QED BY <2>1, <2>2, <2>3, <2>4, RestOfTools
  <1>2. UNCHANGED <<code, policy_file, coverage_edits, report_file, cmd, policy,
                    evaluated, measured, since>>
    BY DEF Coverage!Ensure, Coverage!EnsureBinstall, Coverage!Install,
           Coverage!environment
  <1>3. machine' \in [bin : SUBSET Coverage!Programs,
                      listed : SUBSET Coverage!Programs]
    BY <1>1
    DEF Coverage!Ensure, Coverage!EnsureBinstall, Coverage!Install,
        Coverage!Programs, CoverageInv, CoverageTypes
  <1>4. \/ /\ \E s \in Ensuring : Coverage!Goto(p, s)
           /\ UNCHANGED <<coverage_todo, coverage_exit, failures>>
        \/ /\ Coverage!Goto(p, IF rest = <<>> THEN "run" ELSE "ensure")
           /\ coverage_todo' = [coverage_todo EXCEPT ![p] = rest]
           /\ UNCHANGED <<coverage_exit, failures>>
        \/ /\ Coverage!Exit(p, 3) /\ UNCHANGED coverage_todo
           /\ \/ cmd[p].offline /\ UNCHANGED failures
              \/ \E what \in Coverage!Programs :
                   failures' = [failures EXCEPT ![p] = @ \cup {what}]
    <2>1. CASE Coverage!Ensure(p)
      BY <2>1
      DEF Coverage!Ensure, Coverage!SetupFails, Coverage!Ensured,
          Coverage!Failure, Coverage!Programs, Ensuring
    <2>2. CASE Coverage!EnsureBinstall(p)
      BY <2>2
      DEF Coverage!EnsureBinstall, Coverage!SetupFails, Coverage!Failure,
          Coverage!Programs, Ensuring
    <2>3. CASE Coverage!Install(p)
      BY <1>1, <2>3
      DEF Coverage!Install, Coverage!SetupFails, Coverage!Ensured,
          Coverage!Failure
    <2>4. QED BY <2>1, <2>2, <2>3
  <1>5. CoverageTypes'
    <2>1. coverage_stage' \in [Shells -> Coverage!Stages]
      BY <1>4 DEF Coverage!Goto, Coverage!Exit, CoverageInv, CoverageTypes,
                  Coverage!Stages, Ensuring
    <2>2. coverage_todo' \in [Shells -> Seq(Coverage!Programs)]
      BY <1>1, <1>4 DEF CoverageInv, CoverageTypes
    <2>3. coverage_exit' \in [Shells -> Coverage!ExitCodes \cup {None}]
      BY <1>4, CoverageConstants
      DEF Coverage!Exit, CoverageInv, CoverageTypes
    <2>4. failures' \in [Shells -> SUBSET Coverage!Programs]
      BY <1>4 DEF CoverageInv, CoverageTypes
    <2>5. QED
      BY <1>2, <1>3, <2>1, <2>2, <2>3, <2>4 DEF CoverageInv, CoverageTypes
  <1>6. CoverageOf(p)'
    <2>1. \/ /\ coverage_stage'[p] \in Ensuring
             /\ UNCHANGED <<coverage_todo, coverage_exit>>
          \/ /\ coverage_stage'[p] = IF rest = <<>> THEN "run" ELSE "ensure"
             /\ coverage_todo'[p] = rest /\ UNCHANGED coverage_exit
          \/ /\ coverage_stage'[p] = "done" /\ coverage_exit'[p] = 3
             /\ cmd[p].offline \/ failures'[p] # {}
      <3>1. \A s : Coverage!Goto(p, s) => coverage_stage'[p] = s
        BY DEF Coverage!Goto, CoverageInv, CoverageTypes
      <3>2. \A s : Coverage!Exit(p, s) =>
              coverage_stage'[p] = "done" /\ coverage_exit'[p] = s
        BY DEF Coverage!Exit, Coverage!Goto, CoverageInv, CoverageTypes
      <3>3. failures[p] \in SUBSET Coverage!Programs
            /\ failures \in [Shells -> SUBSET Coverage!Programs]
            /\ coverage_todo \in [Shells -> Seq(Coverage!Programs)]
        BY DEF CoverageInv, CoverageTypes
      <3>4. QED BY <1>4, <3>1, <3>2, <3>3
    <2>2. /\ coverage_exit'[p] \in {3, None} /\ evaluated'[p] = None
          /\ coverage_exit'[p] \notin {0, 5}
          /\ coverage_stage'[p] # "done" => coverage_exit'[p] = None
      BY <1>1, <1>2, <2>1, CoverageConstants DEF Ensuring
    <2>3. /\ coverage_stage'[p] \in Ensuring => coverage_todo'[p] # <<>>
          /\ coverage_stage'[p] \notin {"measure", "write"} \cup Judging
      BY <1>1, <2>1 DEF CoverageInv, CoverageOf, Ensuring, Judging
    <2>4. FailsFor(p)'
      BY <1>1, <1>2, <2>1, CoverageConstants DEF FailsFor
    <2>5. QED BY <2>2, <2>3, <2>4 DEF CoverageOf, Fresh, PassesFor
  <1>7. \A q \in Shells : q # p => CoverageOf(q)'
    <2>1. \A q \in Shells : q # p =>
            /\ coverage_stage'[q] = coverage_stage[q]
            /\ coverage_todo'[q] = coverage_todo[q]
            /\ coverage_exit'[q] = coverage_exit[q]
            /\ failures'[q] = failures[q]
      BY <1>4 DEF Coverage!Goto, Coverage!Exit, CoverageInv, CoverageTypes
    <2>2. QED
      BY <1>2, <2>1 DEF CoverageInv, CoverageOf, Fresh, PassesFor, FailsFor
  <1>8. QED BY <1>5, <1>6, <1>7 DEF CoverageInv

\* Going to a stage, and ending with a status, changes it for one command.
LEMMA CoverageGoto ==
    ASSUME CoverageTypes, NEW p \in Shells, NEW s
    PROVE  /\ Coverage!Goto(p, s) =>
                /\ s \in Coverage!Stages =>
                     coverage_stage' \in [Shells -> Coverage!Stages]
                /\ coverage_stage'[p] = s
                /\ \A q \in Shells : q # p =>
                     coverage_stage'[q] = coverage_stage[q]
           /\ Coverage!Exit(p, s) =>
                /\ Coverage!Goto(p, "done")
                /\ s \in Coverage!ExitCodes =>
                     coverage_exit' \in [Shells -> Coverage!ExitCodes \cup {None}]
                /\ coverage_exit'[p] = s
                /\ \A q \in Shells : q # p =>
                     coverage_exit'[q] = coverage_exit[q]
  <1>1. ASSUME Coverage!Goto(p, s)
        PROVE  /\ s \in Coverage!Stages =>
                    coverage_stage' \in [Shells -> Coverage!Stages]
               /\ coverage_stage'[p] = s
               /\ \A q \in Shells : q # p =>
                    coverage_stage'[q] = coverage_stage[q]
    BY <1>1 DEF Coverage!Goto, CoverageTypes
  <1>2. ASSUME Coverage!Exit(p, s)
        PROVE  /\ Coverage!Goto(p, "done")
               /\ s \in Coverage!ExitCodes =>
                    coverage_exit' \in [Shells -> Coverage!ExitCodes \cup {None}]
               /\ coverage_exit'[p] = s
               /\ \A q \in Shells : q # p =>
                    coverage_exit'[q] = coverage_exit[q]
    BY <1>2 DEF Coverage!Exit, CoverageTypes
  <1>3. QED BY <1>1, <1>2

\* The run: it is started, opens and completes its report, or fails.
LEMMA CoverageMeasure ==
    ASSUME Coverage!CoverageAssumption, CoverageInv, NEW p \in Shells,
           \/ Coverage!StartRun(p) \/ Coverage!WriteReport(p)
           \/ Coverage!EndRun(p) \/ Coverage!RunFails(p)
    PROVE  CoverageInv'
  <1>1. /\ coverage_stage[p] \in {"run", "measure", "write"}
        /\ UNCHANGED <<machine, code, policy_file, cmd, coverage_todo, policy,
                       evaluated, failures>>
    BY DEF Coverage!StartRun, Coverage!WriteReport, Coverage!EndRun,
           Coverage!RunFails, Coverage!environment, Coverage!history
  <1>2. coverage_exit[p] = None /\ evaluated[p] = None
    <2>1. coverage_exit[p] = None /\ coverage_exit[p] \notin {0, 5}
      BY <1>1, CoverageConstants DEF CoverageInv, CoverageOf
    <2>2. QED BY <2>1 DEF CoverageInv, CoverageOf
  <1>3. CASE Coverage!StartRun(p)
    <2>1. /\ measured' = [measured EXCEPT ![p] = code] /\ code \in Measurements
          /\ UNCHANGED <<report_file, since, coverage_exit>>
          /\ Coverage!Goto(p, "measure") /\ "measure" \in Coverage!Stages
      BY <1>3 DEF Coverage!StartRun, Coverage!history, Coverage!Stages,
                  CoverageInv, CoverageTypes
    <2>2. measured' \in [Shells -> Measurements \cup {None}]
          /\ measured'[p] \in Measurements
          /\ \A q \in Shells : q # p => measured'[q] = measured[q]
      BY <2>1 DEF CoverageInv, CoverageTypes
    <2>3. CoverageTypes'
      BY <1>1, <2>1, <2>2, CoverageGoto DEF CoverageInv, CoverageTypes
    <2>4. CoverageOf(p)'
      BY <1>1, <1>2, <2>1, <2>2, CoverageGoto, CoverageConstants
      DEF CoverageInv, CoverageOf, Ensuring, Fresh, Judging, PassesFor, FailsFor
    <2>5. \A q \in Shells : q # p => CoverageOf(q)'
      BY <1>1, <2>1, <2>2, CoverageGoto
      DEF CoverageInv, CoverageOf, Fresh, PassesFor, FailsFor
    <2>6. QED BY <2>3, <2>4, <2>5 DEF CoverageInv
  <1>4. CASE Coverage!WriteReport(p)
    <2>1. /\ report_file' = Partial /\ coverage_stage[p] = "measure"
          /\ UNCHANGED <<measured, since, coverage_exit>>
          /\ Coverage!Goto(p, "write") /\ "write" \in Coverage!Stages
      BY <1>4 DEF Coverage!WriteReport, Coverage!history, Coverage!Stages
    <2>2. CoverageTypes'
      BY <1>1, <2>1, CoverageGoto DEF CoverageInv, CoverageTypes
    <2>3. CoverageOf(p)'
      BY <1>1, <1>2, <2>1, CoverageGoto, CoverageConstants
      DEF CoverageInv, CoverageOf, Ensuring, Fresh, Judging, PassesFor, FailsFor
    <2>4. \A q \in Shells : q # p => CoverageOf(q)'
      BY <1>1, <2>1, CoverageGoto
      DEF CoverageInv, CoverageOf, Fresh, PassesFor, FailsFor
    <2>5. QED BY <2>2, <2>3, <2>4 DEF CoverageInv
  <1>5. CASE Coverage!EndRun(p)
    <2>1. /\ report_file' = measured[p] /\ coverage_stage[p] = "write"
          /\ UNCHANGED <<measured, coverage_exit>>
          /\ since' = [q \in Shells |->
                IF q = p \/ coverage_stage[q] \in Judging
                THEN since[q] \cup {measured[p]} ELSE since[q]]
          /\ Coverage!Goto(p, "report") /\ "report" \in Coverage!Stages
      BY <1>5 DEF Coverage!EndRun, Coverage!Stages, Judging
    <2>2. measured[p] \in Measurements
      BY <2>1 DEF CoverageInv, CoverageOf
    <2>3. since' \in [Shells -> SUBSET Measurements]
      BY <2>1, <2>2 DEF CoverageInv, CoverageTypes
    <2>4. /\ measured[p] \in since'[p]
          /\ \A q \in Shells : /\ since[q] \subseteq since'[q]
                               /\ coverage_stage[q] \in Judging =>
                                    measured[p] \in since'[q]
      BY <2>1
    <2>5. CoverageTypes'
      BY <1>1, <2>1, <2>2, <2>3, CoverageGoto DEF CoverageInv, CoverageTypes
    <2>6. CoverageOf(p)'
      BY <1>1, <1>2, <2>1, <2>4, CoverageGoto, CoverageConstants
      DEF CoverageInv, CoverageOf, Ensuring, Fresh, PassesFor, FailsFor
    <2>7. \A q \in Shells : q # p => CoverageOf(q)'
      <3> SUFFICES ASSUME NEW q \in Shells, q # p PROVE CoverageOf(q)'
        OBVIOUS
      <3>1. coverage_stage'[q] = coverage_stage[q] /\ since[q] \subseteq since'[q]
        BY <2>1, <2>4, CoverageGoto DEF CoverageInv
      <3>2. Fresh(q)'
        BY <1>1, <2>1, <2>4, <3>1 DEF Fresh
      <3>3. PassesFor(q)'
        BY <1>1, <2>1, <3>1 DEF CoverageInv, CoverageOf, PassesFor
      <3>4. QED
        BY <1>1, <2>1, <3>1, <3>2, <3>3 DEF CoverageInv, CoverageOf, FailsFor
    <2>8. QED BY <2>5, <2>6, <2>7 DEF CoverageInv
  <1>6. CASE Coverage!RunFails(p)
    <2>1. /\ UNCHANGED <<report_file, measured, since>>
          /\ Coverage!Exit(p, 4) /\ "done" \in Coverage!Stages
      BY <1>6 DEF Coverage!RunFails, Coverage!history, Coverage!Stages
    <2>2. CoverageTypes'
      BY <1>1, <2>1, CoverageGoto, CoverageConstants
      DEF CoverageInv, CoverageTypes
    <2>3. CoverageOf(p)'
      BY <1>1, <1>2, <2>1, CoverageGoto, CoverageConstants
      DEF CoverageInv, CoverageOf, Ensuring, Fresh, Judging, PassesFor, FailsFor
    <2>4. \A q \in Shells : q # p => CoverageOf(q)'
      BY <1>1, <2>1, CoverageGoto
      DEF CoverageInv, CoverageOf, Fresh, PassesFor, FailsFor
    <2>5. QED BY <2>2, <2>3, <2>4 DEF CoverageInv
  <1>7. QED BY <1>3, <1>4, <1>5, <1>6

\* The verdict: the report is found, the policy loaded, the report judged; or
\* the command is interrupted.
LEMMA CoverageJudge ==
    ASSUME Coverage!CoverageAssumption, CoverageInv, NEW p \in Shells,
           \/ Coverage!FindReport(p) \/ Coverage!LoadPolicy(p)
           \/ Coverage!Evaluate(p) \/ Coverage!Stop(p)
    PROVE  CoverageInv'
  <1>1. /\ coverage_stage[p] # "done"
        /\ UNCHANGED <<machine, code, policy_file, report_file, cmd,
                       coverage_todo, measured, since, failures>>
    BY DEF Coverage!FindReport, Coverage!LoadPolicy, Coverage!Evaluate,
           Coverage!Stop, Coverage!environment, Coverage!history,
           Coverage!Ended
  <1>2. coverage_exit[p] = None /\ evaluated[p] = None
    <2>1. coverage_exit[p] = None /\ coverage_exit[p] \notin {0, 5}
      BY <1>1, CoverageConstants DEF CoverageInv, CoverageOf
    <2>2. QED BY <2>1 DEF CoverageInv, CoverageOf
  <1>3. "done" \in Coverage!Stages /\ "load_policy" \in Coverage!Stages
        /\ "load_report" \in Coverage!Stages
    BY DEF Coverage!Stages
  <1>4. CASE Coverage!Stop(p)
    <2>1. UNCHANGED <<policy, evaluated, coverage_exit>> /\ Coverage!Goto(p, "done")
      BY <1>4 DEF Coverage!Stop
    <2>2. CoverageTypes'
      BY <1>1, <1>3, <2>1, CoverageGoto DEF CoverageInv, CoverageTypes
    <2>3. CoverageOf(p)'
      BY <1>1, <1>2, <2>1, CoverageGoto, CoverageConstants
      DEF CoverageInv, CoverageOf, Ensuring, Fresh, Judging, PassesFor, FailsFor
    <2>4. \A q \in Shells : q # p => CoverageOf(q)'
      BY <1>1, <2>1, CoverageGoto
      DEF CoverageInv, CoverageOf, Fresh, PassesFor, FailsFor
    <2>5. QED BY <2>2, <2>3, <2>4 DEF CoverageInv
  <1>5. CASE Coverage!FindReport(p)
    <2>1. /\ UNCHANGED <<policy, evaluated>> /\ coverage_stage[p] = "report"
          /\ \/ Coverage!Exit(p, 4)
             \/ Coverage!Goto(p, "load_policy") /\ UNCHANGED coverage_exit
      BY <1>5 DEF Coverage!FindReport
    <2>2. CoverageTypes'
      BY <1>1, <1>3, <2>1, CoverageGoto, CoverageConstants
      DEF CoverageInv, CoverageTypes
    <2>3. CoverageOf(p)'
      BY <1>1, <1>2, <2>1, CoverageGoto, CoverageConstants
      DEF CoverageInv, CoverageOf, Ensuring, Fresh, Judging, PassesFor, FailsFor
    <2>4. \A q \in Shells : q # p => CoverageOf(q)'
      BY <1>1, <2>1, CoverageGoto
      DEF CoverageInv, CoverageOf, Fresh, PassesFor, FailsFor
    <2>5. QED BY <2>2, <2>3, <2>4 DEF CoverageInv
  <1>6. CASE Coverage!LoadPolicy(p)
    <2>1. /\ UNCHANGED evaluated /\ coverage_stage[p] = "load_policy"
          /\ \/ /\ policy_file \in Policies
                /\ policy' = [policy EXCEPT ![p] = policy_file]
                /\ Coverage!Goto(p, "load_report") /\ UNCHANGED coverage_exit
             \/ Coverage!Exit(p, 1) /\ UNCHANGED policy
      BY <1>6 DEF Coverage!LoadPolicy
    <2>2. policy' \in [Shells -> Policies \cup {None}]
          /\ \A q \in Shells : q # p => policy'[q] = policy[q]
      <3>1. policy \in [Shells -> Policies \cup {None}]
        BY DEF CoverageInv, CoverageTypes
      <3>2. \/ UNCHANGED policy
            \/ policy_file \in Policies /\ policy' = [policy EXCEPT ![p] = policy_file]
        BY <2>1
      <3>3. QED BY <3>1, <3>2
    <2>3. CoverageTypes'
      BY <1>1, <1>3, <2>1, <2>2, CoverageGoto, CoverageConstants
      DEF CoverageInv, CoverageTypes
    <2>4. CoverageOf(p)'
      BY <1>1, <1>2, <2>1, CoverageGoto, CoverageConstants
      DEF CoverageInv, CoverageOf, Ensuring, Fresh, Judging, PassesFor, FailsFor
    <2>5. \A q \in Shells : q # p => CoverageOf(q)'
      BY <1>1, <2>1, <2>2, CoverageGoto
      DEF CoverageInv, CoverageOf, Fresh, PassesFor, FailsFor
    <2>6. QED BY <2>3, <2>4, <2>5 DEF CoverageInv
  <1>7. CASE Coverage!Evaluate(p)
    <2>1. /\ UNCHANGED policy /\ coverage_stage[p] = "load_report"
          /\ report_file \in Measurements \cup {None, Partial}
      BY <1>7 DEF Coverage!Evaluate, CoverageInv, CoverageTypes
    <2>2. CASE report_file \in {None, Partial}
      <3>1. UNCHANGED evaluated /\ Coverage!Exit(p, 1)
        BY <1>7, <2>2 DEF Coverage!Evaluate
      <3>2. CoverageTypes'
        BY <1>1, <1>3, <2>1, <3>1, CoverageGoto, CoverageConstants
        DEF CoverageInv, CoverageTypes
      <3>3. CoverageOf(p)'
        BY <1>1, <1>2, <3>1, CoverageGoto, CoverageConstants
        DEF CoverageInv, CoverageOf, Ensuring, Fresh, Judging, PassesFor,
            FailsFor
      <3>4. \A q \in Shells : q # p => CoverageOf(q)'
        BY <1>1, <2>1, <3>1, CoverageGoto
        DEF CoverageInv, CoverageOf, Fresh, PassesFor, FailsFor
      <3>5. QED BY <3>2, <3>3, <3>4 DEF CoverageInv
    <2>3. CASE report_file \notin {None, Partial}
      <3>1. /\ evaluated' = [evaluated EXCEPT ![p] = report_file]
            /\ \/ /\ Coverage!Violations(policy[p], report_file) = {}
                  /\ Coverage!Exit(p, 0)
               \/ Coverage!Exit(p, 5)
        BY <1>7, <2>3 DEF Coverage!Evaluate
      <3>2. /\ evaluated' \in [Shells -> Measurements \cup {None}]
            /\ evaluated'[p] = report_file
            /\ \A q \in Shells : q # p => evaluated'[q] = evaluated[q]
        BY <2>1, <2>3, <3>1 DEF CoverageInv, CoverageTypes
      <3>3. CoverageTypes'
        BY <1>1, <1>3, <2>1, <3>1, <3>2, CoverageGoto, CoverageConstants
        DEF CoverageInv, CoverageTypes
      <3>4. coverage_stage'[p] = "done" /\ coverage_exit'[p] \in {0, 5}
            /\ evaluated'[p] # None
        BY <2>3, <3>1, <3>2, CoverageGoto DEF CoverageInv
      <3>5. ~cmd[p].skip_run => report_file \in since[p]
        BY <2>1, <2>3 DEF CoverageInv, CoverageOf, Fresh, Judging
      <3>6. coverage_exit'[p] = 0 =>
              \A f \in MeasuredFiles \ policy[p].excluded :
                ~Coverage!Below(report_file[f].covered, report_file[f].count,
                                Coverage!Expected(policy[p], f))
        <4>1. coverage_exit'[p] = 0 =>
                Coverage!Violations(policy[p], report_file) = {}
          BY <3>1, CoverageGoto DEF CoverageInv
        <4>2. QED BY <4>1 DEF Coverage!Violations
      <3>7. PassesFor(p)'
        BY <1>1, <2>1, <3>2, <3>5, <3>6 DEF PassesFor
      <3>8. CoverageOf(p)'
        BY <3>4, <3>7 DEF CoverageOf, Ensuring, Fresh, Judging, FailsFor
      <3>9. \A q \in Shells : q # p => CoverageOf(q)'
        BY <1>1, <2>1, <3>1, <3>2, CoverageGoto
        DEF CoverageInv, CoverageOf, Fresh, PassesFor, FailsFor
      <3>10. QED BY <3>3, <3>8, <3>9 DEF CoverageInv
    <2>4. QED BY <2>2, <2>3
  <1>8. QED BY <1>4, <1>5, <1>6, <1>7

\* The invariant holds in every state of CoverageRun.
LEMMA CoverageInvariant ==
    ASSUME Coverage!CoverageAssumption
    PROVE  Coverage!Spec => []CoverageInv
  <1>1. Coverage!Init => CoverageInv
    BY InitCoverage
  <1>2. CoverageInv /\ [Coverage!Next]_(Coverage!vars) => CoverageInv'
    <2>1. CoverageInv /\ Coverage!Next => CoverageInv'
      BY CoverageEdit, CoverageBegin, CoverageEnsure, CoverageMeasure,
         CoverageJudge
      DEF Coverage!Next
    <2>2. CoverageInv /\ UNCHANGED Coverage!vars => CoverageInv'
      BY DEF Coverage!vars, Coverage!environment, Coverage!command,
             Coverage!history, CoverageInv, CoverageTypes, CoverageOf, Fresh,
             PassesFor, FailsFor
    <2>3. QED BY <2>1, <2>2
  <1>3. QED BY <1>1, <1>2, PTL DEF Coverage!Spec

\* A run passes only on a report completed since it ended, with every counted
\* file at its minimum (run_inner, evaluate_policy), whoever else runs in the
\* checkout and whatever is edited.
THEOREM PassesAreMeasured ==
    ASSUME Coverage!CoverageAssumption
    PROVE  Coverage!Spec => []PassMeansMeasured
  <1>1. CoverageInv => PassMeansMeasured
    BY DEF CoverageInv, CoverageOf, PassesFor, PassMeansMeasured,
           Coverage!PassMeansMeasured
  <1>2. QED BY <1>1, CoverageInvariant, PTL

\* A setup that fails was offline or had an installation fail (ensure_tool,
\* ensure_llvm_tools), whatever cargo-binstall has on record.
THEOREM SetupFailuresHaveCauses ==
    ASSUME Coverage!CoverageAssumption
    PROVE  Coverage!Spec => []SetupFailureHasCause
  <1>1. CoverageInv => SetupFailureHasCause
    BY DEF CoverageInv, CoverageOf, FailsFor, SetupFailureHasCause,
           Coverage!SetupFailureHasCause
  <1>2. QED BY <1>1, CoverageInvariant, PTL

-----------------------------------------------------------------------------
(* DevReleaseSource.  What was usable when the resolution began lies after *)
(* the pages already read, and dev builds get older down the list, so the  *)
(* first page with a candidate has the newest of them, or newer ones.      *)

Below == {mn \in Nat \X Nat : mn[1] < mn[2]}

\* Every set of naturals that is not empty has a least member.
LEMMA LeastOfNaturals ==
    ASSUME NEW S \in SUBSET Nat, S # {}
    PROVE  \E m \in S : \A n \in S : m <= n
  <1>1. IsWellFoundedOn(Below, Nat)
    BY NatLessThanWellFounded DEF OpToRel, Below
  <1>2. PICK m \in S : \A n \in S : ~(<<n, m>> \in Below)
    BY <1>1, WFMin, Zenon
  <1>3. \A n \in S : n < m => <<n, m>> \in Below
    BY DEF Below
  <1>4. \A n \in S : n \in Nat /\ ~(n < m)
    BY <1>2, <1>3
  <1>5. m \in S /\ m \in Nat
    BY <1>2
  <1>6. \A n \in S : m <= n
    BY <1>4, <1>5
  <1>7. QED BY <1>5, <1>6

Positions == 1..Len(listing)
\* Of two dev builds the one listed first is the newer one.
Descending ==
    \A i, j \in Positions :
        i < j /\ listing[i] \in DevLane /\ listing[j] \in DevLane
            => listing[j] < listing[i]
\* No page read so far has a release that was usable at the start.
Ahead ==
    lookup = "list" =>
        \A i \in Positions :
            listing[i] \in usable => (page - 1) * ReleasesPerPage < i
NewestReady ==
    lookup = "choose" /\ ready # {} =>
        \E m \in ready : \A r \in ready \cup usable : r <= m
NewestPick ==
    lookup \in {"commit", "done"} =>
        /\ pick \in DevLane \cap complete \cap Named
        /\ \A r \in usable : r <= pick
        /\ lookup = "done" => pick \in Clean
ReleaseInv ==
    /\ Releases!TypeOK
    /\ Descending /\ Ahead /\ NewestReady /\ NewestPick
    /\ usable \subseteq DevLane \cap complete
    /\ lookup = "choose" => ready \subseteq DevLane \cap complete

\* What is listed, position by position.
LEMMA ListedPositions ==
    ASSUME listing \in Seq(DevReleases)
    PROVE  /\ \A r : r \in Releases!Listed <=> \E i \in Positions : listing[i] = r
           /\ \A i \in Positions : listing[i] \in DevReleases
  BY DEF Releases!Listed, Releases!Range, Positions

\* A page is PageSize consecutive positions, or what is left of them.
LEMMA PagePositions ==
    ASSUME listing \in Seq(DevReleases), ReleasesPerPage \in Nat \ {0},
           NEW n \in Nat \ {0}, NEW r
    PROVE  r \in Releases!ReleasesPage(n) <=>
             \E i \in Positions : /\ (n - 1) * ReleasesPerPage < i
                                  /\ i <= n * ReleasesPerPage
                                  /\ listing[i] = r
  <1> DEFINE from == (n - 1) * ReleasesPerPage
             to == IF n * ReleasesPerPage > Len(listing)
                   THEN Len(listing) ELSE n * ReleasesPerPage
             files == SubSeq(listing, from + 1, to)
  <1>1. /\ from \in Nat /\ n * ReleasesPerPage \in Nat
        /\ n * ReleasesPerPage = from + ReleasesPerPage
    OBVIOUS
  <1>2. to \in Nat /\ to <= Len(listing)
    BY <1>1
  <1> HIDE DEF from, to
  <1>3. r \in Releases!Range(files) <=>
          \E i \in Positions : from < i /\ i <= to /\ listing[i] = r
    <2>1. Len(files) = IF from + 1 <= to THEN to - from ELSE 0
      BY <1>1, <1>2
    <2>2. \A k \in 1..Len(files) : files[k] = listing[from + k]
      BY <1>1, <1>2
    <2>3. DOMAIN files = 1..Len(files)
      BY <1>1, <1>2
    <2> HIDE DEF files
    <2>4. ASSUME NEW k \in 1..Len(files)
          PROVE  /\ from + k \in Positions
                 /\ from < from + k /\ from + k <= to
      BY <1>1, <1>2, <2>1 DEF Positions
    <2>5. ASSUME NEW i \in Positions, from < i, i <= to
          PROVE  /\ i - from \in 1..Len(files)
                 /\ files[i - from] = listing[i]
      BY <1>1, <1>2, <2>1, <2>2, <2>5 DEF Positions
    <2>6. QED BY <2>2, <2>3, <2>4, <2>5 DEF Releases!Range
  <1>4. \A i \in Positions : i <= to <=> i <= n * ReleasesPerPage
    BY <1>1, <1>2 DEF Positions, to
  <1>5. QED BY <1>3, <1>4 DEF Releases!ReleasesPage, from, to

\* What never changes under the command's own steps: the list.
LEMMA SameListing ==
    ASSUME UNCHANGED listing
    PROVE  /\ Positions' = Positions /\ Releases!Listed' = Releases!Listed
           /\ Descending' <=> Descending
  BY DEF Positions, Releases!Listed, Descending, Releases!Range

LEMMA InitReleases ==
    ASSUME Releases!ReleaseAssumption, Releases!Init
    PROVE  ReleaseInv
  <1>1. Positions = {} /\ listing \in Seq(DevReleases)
    BY DEF Releases!Init, Positions
  <1>2. 1 \in 1..MaxPages
    BY DEF Releases!ReleaseAssumption
  <1>3. QED
    BY <1>1, <1>2
    DEF Releases!Init, ReleaseInv, Releases!TypeOK, Releases!Stages,
        Releases!NoPick, Descending, Ahead, NewestReady, NewestPick

LEMMA ReleaseStart ==
    ASSUME Releases!ReleaseAssumption, ReleaseInv, Releases!Start
    PROVE  ReleaseInv'
  <1>1. Releases!TypeOK'
    <2>1. UNCHANGED <<listing, complete>> /\ Releases!Listed' = Releases!Listed
      BY SameListing DEF Releases!Start, Releases!repository
    <2>2. 1 \in 1..MaxPages /\ DevLane \subseteq DevReleases
      BY DEF Releases!ReleaseAssumption
    <2>3. QED
      BY <2>1, <2>2
      DEF ReleaseInv, Releases!TypeOK, Releases!Start, Releases!Stages,
          Releases!NoPick
  <1>2. Ahead'
    BY DEF ReleaseInv, Releases!TypeOK, Ahead, Releases!Start,
           Releases!ReleaseAssumption, Positions, Releases!repository
  <1>3. QED
    BY <1>1, <1>2, SameListing
    DEF ReleaseInv, Releases!Start, Releases!repository, NewestReady, NewestPick

\* A page without a candidate is passed over, and nothing usable was on it;
\* of a page with candidates the complete ones are kept, and their newest is
\* newer than whatever follows the page.
LEMMA ReleaseReadPage ==
    ASSUME Releases!ReleaseAssumption, ReleaseInv, Releases!ReadPage
    PROVE  ReleaseInv'
  <1> DEFINE found == Releases!ReleasesPage(page) \cap DevLane
             after == page * ReleasesPerPage
  <1> USE DEF ReleaseInv, Releases!TypeOK
  <1>1. /\ ReleasesPerPage \in Nat \ {0} /\ page \in Nat \ {0}
        /\ page \in 1..MaxPages /\ MaxPages \in Nat
        /\ after \in Nat /\ after = (page - 1) * ReleasesPerPage + ReleasesPerPage
        /\ DevReleases \subseteq Nat /\ DevLane \subseteq DevReleases
    BY DEF Releases!ReleaseAssumption
  <1>2. /\ lookup = "list" /\ ready' = found \cap complete
        /\ UNCHANGED <<listing, complete, pick, usable>>
        /\ \/ lookup' = "choose" /\ page' = page
           \/ /\ lookup' = lookup /\ page' = page + 1
              /\ found = {} /\ page # MaxPages
    BY DEF Releases!ReadPage, Releases!repository
  <1>3. \A r : r \in Releases!ReleasesPage(page) <=>
               \E i \in Positions : /\ (page - 1) * ReleasesPerPage < i
                                    /\ i <= after /\ listing[i] = r
    BY <1>1, PagePositions
  <1> HIDE DEF after
  <1>4. \A i \in Positions : i \in Nat /\ listing[i] \in Nat
    <2>1. listing \in Seq(DevReleases)
      OBVIOUS
    <2>2. \A i \in Positions : listing[i] \in DevReleases
      BY <2>1, ListedPositions
    <2>3. Positions \subseteq Nat
      BY <2>1 DEF Positions
    <2>4. QED BY <1>1, <2>2, <2>3
  <1>5. \A i \in Positions :
          listing[i] \in usable /\ ~(after < i) => listing[i] \in found \cap complete
    <2>1. SUFFICES ASSUME NEW i \in Positions, listing[i] \in usable, ~(after < i)
                   PROVE  listing[i] \in found \cap complete
      OBVIOUS
    <2>2. (page - 1) * ReleasesPerPage < i
      BY <1>2, <2>1 DEF Ahead
    <2>3. i <= after
      BY <1>1, <1>4, <2>1
    <2>4. QED BY <1>3, <2>1, <2>2, <2>3
  <1>6. found \cap complete \subseteq DevReleases
    BY <1>1
  <1>7. Releases!TypeOK'
    <2>1. page' \in 1..MaxPages
      BY <1>1, <1>2
    <2>2. lookup' \in Releases!Stages
      BY <1>2 DEF Releases!Stages
    <2>3. QED BY <1>2, <1>6, <2>1, <2>2, SameListing
  <1>8. Ahead'
    <2>1. SUFFICES ASSUME lookup' = "list", NEW i \in Positions,
                          listing[i] \in usable
                   PROVE  (page' - 1) * ReleasesPerPage < i
      BY <1>2, SameListing DEF Ahead
    <2>2. page' = page + 1 /\ found = {}
      BY <1>2, <2>1
    <2>3. after < i
      BY <1>5, <2>1, <2>2
    <2>4. (page' - 1) * ReleasesPerPage = after
      BY <1>1, <2>2 DEF after
    <2>5. QED BY <2>3, <2>4
  <1>9. NewestReady'
    <2> HIDE DEF found
    <2>1. SUFFICES ASSUME found \cap complete # {}
                   PROVE  \E m \in found \cap complete :
                            \A r \in (found \cap complete) \cup usable : r <= m
      BY <1>2 DEF NewestReady
    <2> DEFINE P == {i \in Positions : i <= after /\ listing[i] \in found \cap complete}
    <2>2. P # {} /\ P \in SUBSET Nat
      BY <1>3, <1>4, <2>1 DEF found
    <2> HIDE DEF P
    <2>3. PICK i \in P : \A j \in P : i <= j
      BY <2>2, LeastOfNaturals
    <2>4. i \in Positions /\ i <= after /\ listing[i] \in found \cap complete
      BY <2>3 DEF P
    <2>5. \A j \in Positions :
            i < j /\ listing[j] \in DevLane => listing[j] < listing[i]
      BY <2>4 DEF Descending, found
    <2>6. ASSUME NEW r \in found \cap complete
          PROVE  r <= listing[i]
      <3>1. PICK j \in Positions : j <= after /\ listing[j] = r
        BY <1>3, <2>6 DEF found
      <3>2. j \in P
        BY <2>6, <3>1 DEF P
      <3>3. i <= j /\ i \in Nat /\ j \in Nat
        BY <1>4, <2>3, <2>4, <3>1, <3>2
      <3>4. r \in Nat /\ listing[i] \in Nat /\ listing[j] \in DevLane
        BY <1>4, <2>4, <2>6, <3>1 DEF found
      <3>5. i = j \/ listing[j] < listing[i]
        BY <2>5, <3>3, <3>4
      <3>6. QED BY <3>1, <3>4, <3>5
    <2>7. ASSUME NEW r \in usable, r \notin found \cap complete
          PROVE  r <= listing[i]
      <3>1. PICK j \in Positions : listing[j] = r
        BY <2>7, ListedPositions
      <3>2. after < j
        BY <1>5, <2>7, <3>1
      <3>3. i < j
        BY <1>1, <1>4, <2>4, <3>1, <3>2
      <3>4. r \in Nat /\ listing[i] \in Nat /\ listing[j] \in DevLane
        BY <1>4, <2>4, <2>7, <3>1
      <3>5. listing[j] < listing[i]
        BY <2>5, <3>3, <3>4
      <3>6. QED BY <3>1, <3>4, <3>5
    <2>8. QED BY <2>4, <2>6, <2>7
  <1>10. lookup' = "choose" => ready' \subseteq DevLane \cap complete
    BY <1>2
  <1>11. QED
    BY <1>2, <1>7, <1>8, <1>9, <1>10, SameListing DEF NewestPick

LEMMA ReleaseChoose ==
    ASSUME Releases!ReleaseAssumption, ReleaseInv, Releases!Choose
    PROVE  ReleaseInv'
  <1> USE DEF ReleaseInv, Releases!TypeOK
  <1>1. UNCHANGED <<listing, complete, page, ready, usable>> /\ lookup = "choose"
    BY DEF Releases!Choose, Releases!repository
  <1>2. DevReleases \subseteq Nat
    BY DEF Releases!ReleaseAssumption
  <1>3. CASE ready = {}
    BY <1>1, <1>3, SameListing
    DEF Releases!Choose, Releases!Stages, Ahead, NewestReady, NewestPick
  <1>4. CASE ready # {}
    <2>1. PICK m \in ready : \A r \in ready \cup usable : r <= m
      BY <1>1, <1>4 DEF NewestReady
    <2>2. Releases!Newest(ready) \in ready
          /\ \A r \in ready : r <= Releases!Newest(ready)
      BY <2>1 DEF Releases!Newest
    <2> DEFINE new == Releases!Newest(ready)
    <2>3. new = m
      <3>1. new \in Nat /\ m \in Nat /\ new <= m /\ m <= new
        BY <1>2, <2>1, <2>2
      <3> HIDE DEF new
      <3>2. QED BY <3>1
    <2>4. /\ pick' = m
          /\ lookup' = IF m \in Named THEN "commit" ELSE "refused"
      BY <1>4, <2>3 DEF Releases!Choose
    <2>5. QED
      BY <1>1, <2>1, <2>4, SameListing
      DEF Releases!Stages, Ahead, NewestReady, NewestPick
  <1>5. QED BY <1>3, <1>4

\* CI's steps: a release that comes moves the others one position down.
LEMMA ReleaseCreated ==
    ASSUME Releases!ReleaseAssumption, ReleaseInv, Releases!CreateRelease
    PROVE  ReleaseInv'
  <1> USE DEF ReleaseInv, Releases!TypeOK
  <1>1. PICK r \in DevReleases \ Releases!Listed :
          /\ r \in DevLane => \A s \in Releases!Listed \cap DevLane : s < r
          /\ listing' = <<r>> \o listing
    BY DEF Releases!CreateRelease
  <1>2. UNCHANGED <<complete, lookup, page, ready, pick, usable>>
    BY DEF Releases!CreateRelease
  <1>3. /\ listing' \in Seq(DevReleases) /\ Len(listing) \in Nat
        /\ Positions' = 1..(Len(listing) + 1)
        /\ listing'[1] = r
        /\ \A i \in Positions : i + 1 \in Positions' /\ listing'[i + 1] = listing[i]
        /\ \A i \in Positions' : i = 1 \/ (/\ i - 1 \in Positions
                                           /\ listing'[i] = listing[i - 1])
    BY <1>1 DEF Positions
  <1>4. /\ \A s : s \in Releases!Listed <=> \E i \in Positions : listing[i] = s
        /\ \A i \in Positions : listing[i] \in DevReleases
    BY ListedPositions
  <1>5. \A s : s \in Releases!Listed' <=> \E i \in Positions' : listing'[i] = s
    BY <1>3 DEF Releases!Listed, Releases!Range, Positions
  <1>6. Releases!Listed \subseteq Releases!Listed'
    BY <1>3, <1>4, <1>5
  <1>7. Releases!TypeOK'
    BY <1>2, <1>3, <1>6
  <1>8. Descending'
    <2>1. SUFFICES ASSUME NEW i \in Positions', NEW j \in Positions', i < j,
                          listing'[i] \in DevLane, listing'[j] \in DevLane
                   PROVE  listing'[j] < listing'[i]
      BY DEF Descending
    <2>2. /\ j - 1 \in Positions /\ listing'[j] = listing[j - 1]
      BY <1>3, <2>1
    <2>3. CASE i = 1
      BY <1>1, <1>3, <1>4, <2>1, <2>2, <2>3
    <2>4. CASE i # 1
      <3>1. /\ i - 1 \in Positions /\ listing'[i] = listing[i - 1]
            /\ i - 1 < j - 1
        BY <1>3, <2>1, <2>4
      <3>2. QED BY <2>1, <2>2, <3>1 DEF Descending
    <2>5. QED BY <2>3, <2>4
  <1>9. Ahead'
    <2>1. SUFFICES ASSUME lookup = "list", NEW i \in Positions', listing'[i] \in usable
                   PROVE  (page - 1) * ReleasesPerPage < i
      BY <1>2 DEF Ahead
    <2>2. i # 1
      BY <1>1, <1>3, <2>1
    <2>3. i - 1 \in Positions /\ listing[i - 1] \in usable
      BY <1>3, <2>1, <2>2
    <2>4. (page - 1) * ReleasesPerPage < i - 1
      BY <2>1, <2>3 DEF Ahead
    <2>5. (page - 1) * ReleasesPerPage \in Nat /\ i \in Nat
      BY <1>3 DEF Releases!ReleaseAssumption
    <2> DEFINE before == (page - 1) * ReleasesPerPage
    <2> HIDE DEF before
    <2>6. before < i - 1 /\ before \in Nat => before < i
      BY <2>5
    <2>7. QED BY <2>4, <2>5, <2>6 DEF before
  <1>10. QED BY <1>2, <1>7, <1>8, <1>9 DEF NewestReady, NewestPick

LEMMA ReleaseUploaded ==
    ASSUME ReleaseInv, Releases!FinishUpload
    PROVE  ReleaseInv'
  <1>1. /\ \E r \in Releases!Listed : complete' = complete \cup {r}
        /\ UNCHANGED <<listing, lookup, page, ready, pick, usable>>
    BY DEF Releases!FinishUpload
  <1>2. QED
    BY <1>1, SameListing
    DEF ReleaseInv, Releases!TypeOK, Ahead, NewestReady, NewestPick

LEMMA ReleaseEnds ==
    ASSUME ReleaseInv, Releases!RefuseUncleanCommit \/ Releases!Fail
    PROVE  ReleaseInv'
  <1>1. /\ UNCHANGED <<listing, complete, page, ready, pick, usable>>
        /\ \/ lookup' \in {"refused", "failed"}
           \/ lookup' = "done" /\ lookup = "commit" /\ pick \in Clean
    BY DEF Releases!RefuseUncleanCommit, Releases!Fail, Releases!repository
  <1>2. QED
    BY <1>1, SameListing
    DEF ReleaseInv, Releases!TypeOK, Releases!Stages, Ahead, NewestReady, NewestPick

LEMMA ReleaseNext ==
    ASSUME Releases!ReleaseAssumption, ReleaseInv, [Releases!Next]_(Releases!vars)
    PROVE  ReleaseInv'
  <1>1. CASE UNCHANGED Releases!vars
    BY <1>1, SameListing
    DEF Releases!vars, Releases!repository, ReleaseInv, Releases!TypeOK, Ahead,
        NewestReady, NewestPick
  <1>2. QED
    BY <1>1, ReleaseStart, ReleaseReadPage, ReleaseChoose, ReleaseEnds,
       ReleaseCreated, ReleaseUploaded
    DEF Releases!Next

\* DevReleaseSource keeps its types, and never asks for a page past the last
\* (MAX_RELEASE_PAGES).
THEOREM LookupsTyped ==
    ASSUME Releases!ReleaseAssumption
    PROVE  Releases!Spec => []Releases!TypeOK
  <1>1. ReleaseInv => Releases!TypeOK
    BY DEF ReleaseInv
  <1>2. QED BY <1>1, InitReleases, ReleaseNext, PTL DEF Releases!Spec

\* The release `snapshot --source github-releases` pins is complete, clean and
\* of the lane, and no older than any dev build that was complete when the
\* resolution began, however many releases are created and finished between
\* two pages (DevReleaseSource::resolve).
THEOREM NothingOlderIsPinned ==
    ASSUME Releases!ReleaseAssumption
    PROVE  Releases!Spec => []NewestAtStart
  <1>1. ReleaseInv => NewestAtStart
    BY DEF ReleaseInv, NewestPick, NewestAtStart, Releases!NewestAtStart
  <1>2. QED BY <1>1, InitReleases, ReleaseNext, PTL DEF Releases!Spec

-----------------------------------------------------------------------------
(* SecurityReport.  PassMeansClean rests on Seen: whatever stayed as it was*)
(* since the command began is in `part` or in `alerts`, or its state is    *)
(* still to be asked for; which of these depends on the stage.             *)

\* StatesFor is a recursive function on 0..n; this says that g is it.
Filter(states, allowed, g, n) ==
    g = [i \in 0..n |->
            IF i = 0 THEN <<>>
            ELSE IF states[i] \in allowed THEN Append(g[i - 1], states[i])
                 ELSE g[i - 1]]

\* By the least n for which there is none.
LEMMA FilterExists ==
    ASSUME NEW states \in Seq(Security!States), NEW allowed
    PROVE  \E g : Filter(states, allowed, g, Len(states))
  <1> DEFINE N == Len(states)
             Missing == {n \in 0..N : ~\E g : Filter(states, allowed, g, n)}
  <1>1. SUFFICES ASSUME Missing # {} PROVE FALSE
    <2>1. N \in Nat /\ N \in 0..N
      OBVIOUS
    <2>2. QED BY <2>1
  <1>2. PICK n \in Missing : \A m \in Missing : n <= m
    <2>1. Missing \in SUBSET Nat
      OBVIOUS
    <2> HIDE DEF Missing
    <2>2. QED BY <1>1, <2>1, LeastOfNaturals
  <1>3. n # 0
    <2>1. Filter(states, allowed, [i \in 0..0 |-> <<>>], 0)
      BY DEF Filter
    <2>2. QED BY <1>2, <2>1
  <1>4. n \in 1..N /\ n - 1 \in 0..N /\ N \in Nat
    BY <1>2, <1>3
  <1>5. PICK g : Filter(states, allowed, g, n - 1)
    BY <1>2, <1>4
  <1> DEFINE last == IF states[n] \in allowed THEN Append(g[n - 1], states[n])
                     ELSE g[n - 1]
             h == [i \in 0..n |-> IF i = n THEN last ELSE g[i]]
  <1>6. \A i \in 0..n : i # 0 => i - 1 \in 0..n /\ h[i - 1] = g[i - 1]
    BY <1>4
  <1>7. ASSUME NEW i \in 0..n
        PROVE  h[i] = IF i = 0 THEN <<>>
                      ELSE IF states[i] \in allowed
                           THEN Append(h[i - 1], states[i]) ELSE h[i - 1]
    <2>1. CASE i = n
      BY <1>4, <1>6, <2>1
    <2>2. CASE i # n
      <3>1. i \in 0..(n - 1) /\ h[i] = g[i]
        BY <1>4, <2>2
      <3> HIDE DEF h
      <3>2. QED BY <1>5, <1>6, <3>1 DEF Filter
    <2>3. QED BY <2>1, <2>2
  <1>8. Filter(states, allowed, h, n)
    BY <1>7 DEF Filter
  <1>9. QED BY <1>2, <1>8

\* By the least prefix of the options for which the filter has another type.
LEMMA StatesForType ==
    ASSUME NEW opts, opts.states \in Seq(Security!States), NEW from
    PROVE  Security!StatesFor(opts, from)
               \in Seq(Security!States \cap Security!AllowedStates(from))
  <1> DEFINE states == opts.states
             N == Len(states)
             allowed == Security!AllowedStates(from)
             Known == Seq(Security!States \cap allowed)
             f == CHOOSE g : Filter(states, allowed, g, N)
  <1>1. Security!StatesFor(opts, from) = f[N]
    BY DEF Security!StatesFor, Filter
  <1>2. Filter(states, allowed, f, N)
    BY FilterExists
  <1>3. N \in Nat /\ \A i \in 1..N : states[i] \in Security!States
    OBVIOUS
  <1> HIDE DEF f, allowed, N, states
  <1> DEFINE Bad == {i \in 0..N : f[i] \notin Known}
  <1>4. SUFFICES ASSUME Bad # {} PROVE FALSE
    <2>1. N \in 0..N
      BY <1>3
    <2>2. Bad = {} => f[N] \in Known
      BY <2>1
    <2>3. QED BY <1>1, <2>2 DEF allowed
  <1>5. PICK n \in Bad : \A m \in Bad : n <= m
    <2>1. Bad \in SUBSET Nat
      OBVIOUS
    <2> HIDE DEF Bad
    <2>2. QED BY <1>4, <2>1, LeastOfNaturals
  <1>6. CASE n = 0
    <2>1. f[0] = <<>>
      BY <1>2, <1>3 DEF Filter
    <2>2. f[0] \in Known
      BY <2>1
    <2>3. QED BY <1>5, <1>6, <2>2
  <1>7. CASE n # 0
    <2>1. n \in 1..N /\ n - 1 \in 0..N /\ n \in 0..N /\ n - 1 < n
      BY <1>3, <1>5, <1>7
    <2>2. f[n - 1] \in Known
      <3> HIDE DEF Known
      <3>1. n - 1 \notin Bad
        <4> HIDE DEF Bad
        <4>1. QED BY <1>5, <2>1
      <3>2. QED BY <2>1, <3>1
    <2>3. f[n] = IF states[n] \in allowed THEN Append(f[n - 1], states[n])
                 ELSE f[n - 1]
      BY <1>2, <1>7, <2>1 DEF Filter
    <2>4. f[n] \in Known
      BY <1>3, <2>1, <2>2, <2>3
    <2>5. QED BY <1>5, <2>4
  <1>8. QED BY <1>6, <1>7

ReportAlerts ==
    {Security!NormalizeGithub(a, s) : a \in Alerts, s \in Security!States}
        \cup {Security!NormalizeFoxguard(f) : f \in Findings}
SecurityTypes ==
    /\ github \in [Alerts -> Security!States \cup {None}]
    /\ tree \subseteq Findings
    /\ changes \in 0..MaxChanges
    /\ foxguard \in {"missing", "cargo_bin", "path"}
    /\ config.text \in Security!Texts /\ foxguard_report.text \in Security!Texts
    /\ security_stage \in [Shells -> Security!Stages]
    /\ options \in [Shells -> SecurityCommandLines \cup {Security!NoOptions}]
    /\ todo \in [Shells -> Seq(Security!States)]
    /\ part \in [Shells -> SUBSET ReportAlerts]
    /\ alerts \in [Shells -> SUBSET ReportAlerts]
    /\ skipped \in [Shells -> SUBSET (Security!AlertSource \cup {"config"})]
    /\ cut \in [Shells -> SUBSET {"page", "unavailable"}]
    /\ DOMAIN document = Shells
    /\ named \in [Shells -> BOOLEAN]
    /\ exit \in [Shells -> Security!ExitCodes \cup {None}]
    /\ steady \in [Shells -> SUBSET Security!Present(github, tree)]

GithubStages == {"code_scanning", "dependabot", "secret_scanning"}
ScanStages == {"scan", "install_scan", "retry_scan"}
SecretsStages == {"secrets", "install_secrets", "retry_secrets"}
Reporting == {"report", "fill_report", "verdict"}
\* The stages in which a source has not been read to its end.
Unread(from) ==
    CASE from = "code_scanning" -> {"idle", "code_scanning"}
      [] from = "dependabot" -> {"idle", "code_scanning", "dependabot"}
      [] from = "secret_scanning" -> {"idle"} \cup GithubStages
      [] from = "foxguard" -> Security!Stages \ (Reporting \cup {"done"})

\* What a command has, by source: `part` of the one it reads, all that the
\* earlier ones have, nothing of the later ones.
Reading(p) ==
    /\ security_stage[p] \in GithubStages =>
           /\ todo[p] # <<>>
           /\ Security!Range(todo[p]) \subseteq Security!AllowedStates(security_stage[p])
           /\ \A a \in part[p] : a.source = security_stage[p]
    /\ security_stage[p] \in SecretsStages => \A a \in part[p] : a.source = "foxguard"
    /\ part[p] # {} => security_stage[p] \in GithubStages \cup SecretsStages \cup {"done"}
    /\ \A a \in alerts[p] : security_stage[p] \notin Unread(a.source)
    /\ \A a \in alerts[p], b \in part[p] : a.source # b.source
    /\ exit[p] = None <=> security_stage[p] # "done"
    /\ named[p] => security_stage[p] \in {"verdict", "done"}
    /\ named[p] => exit[p] # "operational_error"

\* It has no warning, and every request was answered in full.
Complete(p) == skipped[p] = {} /\ cut[p] = {}
Judged(p) == exit[p] \in {"success", "policy_violation"}
\* What stays as it was is in `part` or in `alerts`, or still to be asked for.
Seen(p) ==
    /\ security_stage[p] # "idle"
    /\ security_stage[p] = "done" => Judged(p)
    /\ Complete(p)
    => \A a \in steady[p] : Security!Selected(options[p], a) =>
         IF security_stage[p] \notin Unread(a.source) THEN a \in alerts[p]
         ELSE /\ security_stage[p] = a.source =>
                    a \in part[p] \/ a.state \in Security!Range(todo[p])
              /\ /\ a.source = "foxguard" /\ a.of.mode = "scan"
                 /\ security_stage[p] \in SecretsStages
                 => a \in part[p]
Verdicts(p) ==
    exit[p] = "success" /\ ~options[p].no_errors =>
        \A a \in Security!Matched(p) : ~Security!Blocking(a)

\* An ignore is the owner's, or one of a default path.
Owned(ignores) ==
    \A path : path \notin DefaultPaths =>
        Security!IgnoresOf(ignores, path) \subseteq Security!IgnoresOf(own, path)
IgnoresOwned ==
    Owned(Security!ReadIgnores) /\ \A p \in Shells : Owned(document[p])

\* The owner's ignores are there.
Keeps(ignores) ==
    \A path \in DOMAIN own : own[path] \subseteq Security!IgnoresOf(ignores, path)
IgnoresKept ==
    overlapped = {} =>
        /\ \A p, q \in Shells :
             /\ security_stage[p] \in Security!Updating
             /\ security_stage[q] \in Security!Updating
             => p = q
        /\ (\A p \in Shells : security_stage[p] # "fill") => Keeps(Security!ReadIgnores)
        /\ \A p \in Shells :
             /\ security_stage[p] \in Security!Updating => Keeps(document[p])
             /\ security_stage[p] = "fill" => config.text = "empty"

\* The report a command has named lists its findings until another one is
\* written.
Listed(p) ==
    named[p] /\ foxguard_report.by = p /\ foxguard_report.text # "mixed" =>
        foxguard_report.groups = Security!FoxguardReport(Security!FoxguardAlerts(p))

\* Alerts keep the source, the state and the finding they were made from.
LEMMA AlertFields ==
    ASSUME Security!PolicyAssumption
    PROVE  /\ \A a \in Alerts, s \in Security!States :
                LET n == Security!NormalizeGithub(a, s)
                IN  n.source = a.source /\ n.state = s /\ a.source \in GithubStages
           /\ \A f \in Findings :
                LET n == Security!NormalizeFoxguard(f)
                IN  n.source = "foxguard" /\ n.of = f
           /\ \A a \in ReportAlerts : a.source \in GithubStages \cup {"foxguard"}
  <1>1. ASSUME NEW a \in Alerts, NEW s \in Security!States
        PROVE  LET n == Security!NormalizeGithub(a, s)
               IN  n.source = a.source /\ n.state = s /\ a.source \in GithubStages
    <2>1. CASE a \in Security!CodeScanningAlert
      BY <2>1 DEF Security!CodeScanningAlert, Security!NormalizeGithub,
         Security!NormalizeCodeScanning, Security!Alert, GithubStages
    <2>2. CASE a \in Security!DependabotAlert
      BY <2>2 DEF Security!DependabotAlert, Security!NormalizeGithub,
         Security!NormalizeDependabot, Security!Alert, GithubStages
    <2>3. CASE a \in Security!SecretScanningAlert
      BY <2>3 DEF Security!SecretScanningAlert, Security!NormalizeGithub,
         Security!NormalizeSecretScanning, Security!Alert, GithubStages
    <2>4. QED BY <2>1, <2>2, <2>3 DEF Security!PolicyAssumption
  <1>2. \A f \in Findings :
          LET n == Security!NormalizeFoxguard(f)
          IN  n.source = "foxguard" /\ n.of = f
    BY DEF Security!NormalizeFoxguard, Security!Alert
  <1>3. QED BY <1>1, <1>2 DEF ReportAlerts

LEMMA SecurityConstants ==
    ASSUME Security!PolicyAssumption
    PROVE  /\ None \notin Security!ExitCodes
           /\ Security!Range(Security!GithubSources) = GithubStages
           /\ Security!AlertSource = GithubStages \cup {"foxguard"}
           /\ \A o \in SecurityCommandLines \cup {Security!NoOptions} :
                o.states \in Seq(Security!States)
           /\ Security!Stages = {"idle", "config", "scan", "install_scan",
                "retry_scan", "secrets", "install_secrets", "retry_secrets",
                "report", "fill_report", "verdict", "done", "truncate", "fill",
                "code_scanning", "dependabot", "secret_scanning"}
  <1>1. Security!Range(Security!GithubSources) = GithubStages
    BY DEF Security!Range, Security!GithubSources, GithubStages
  <1>2. \A o \in SecurityCommandLines \cup {Security!NoOptions} :
          o.states \in Seq(Security!States)
    <2>1. \A o \in SecurityCommandLines : o.states \in Seq(Security!States)
      BY DEF Security!PolicyAssumption
    <2>2. Security!NoOptions.states = <<>>
      BY DEF Security!NoOptions
    <2>3. Security!NoOptions.states \in Seq(Security!States)
      BY <2>2
    <2>4. QED BY <2>1, <2>3
  <1>3. QED
    BY <1>1, <1>2
    DEF Security!PolicyAssumption, Security!AlertSource, Security!Stages,
        Security!Updating, GithubStages

\* After the source `cur` (or at the start) comes the next one that is asked
\* for a state at all, or the configuration.
After(cur, s, opts) ==
    /\ s \in GithubStages \cup {"config"}
    /\ \A from \in GithubStages :
         cur \notin Unread(from) \/ from = cur => s \notin Unread(from)
    /\ \A from \in GithubStages :
         s \notin Unread(from) =>
             \/ cur \notin Unread(from) \/ from = cur
             \/ Security!StatesFor(opts, from) = <<>>
    /\ s \in GithubStages => Security!StatesFor(opts, s) # <<>>
LEMMA NextSource ==
    ASSUME NEW opts, NEW i \in 1..4, NEW cur,
           cur = IF i = 1 THEN "idle" ELSE Security!GithubSources[i - 1]
    PROVE  After(cur, Security!SourceFrom(i, opts), opts)
  <1> DEFINE sources == Security!GithubSources
             asked == {j \in i..3 : Security!StatesFor(opts, sources[j]) # <<>>}
             s == Security!SourceFrom(i, opts)
  <1>1. /\ sources[1] = "code_scanning" /\ sources[2] = "dependabot"
        /\ sources[3] = "secret_scanning" /\ Len(sources) = 3
    BY DEF Security!GithubSources
  <1> HIDE DEF sources
  <1>2. s = IF asked = {} THEN "config" ELSE sources[Security!Min(asked)]
    BY <1>1 DEF Security!SourceFrom, sources
  <1>3. asked # {} => /\ Security!Min(asked) \in asked
                      /\ \A j \in asked : Security!Min(asked) <= j
    <2>1. asked \in SUBSET Nat
      OBVIOUS
    <2> HIDE DEF asked
    <2>2. asked # {} => \E m \in asked : \A j \in asked : m <= j
      BY <2>1, LeastOfNaturals
    <2>3. QED BY <2>2 DEF Security!Min
  <1>4. \A j \in 1..3 : j = 1 \/ j = 2 \/ j = 3
    OBVIOUS
  <1> HIDE DEF s
  <1>5. CASE asked = {}
    <2>1. \A j \in i..3 : Security!StatesFor(opts, sources[j]) = <<>>
      BY <1>5
    <2>2. s = "config"
      BY <1>2, <1>5
    <2>3. i = 1 \/ i = 2 \/ i = 3 \/ i = 4
      OBVIOUS
    <2> HIDE DEF asked
    <2>4. \A j \in 1..3 : j < i \/ Security!StatesFor(opts, sources[j]) = <<>>
      BY <2>1
    <2>5. QED BY <1>1, <2>2, <2>3, <2>4 DEF After, Unread, GithubStages, s, sources
  <1>6. CASE asked # {}
    <2>1. PICK j \in 1..3 : /\ s = sources[j] /\ i <= j
                            /\ Security!StatesFor(opts, sources[j]) # <<>>
                            /\ \A k \in i..3 : k < j =>
                                 Security!StatesFor(opts, sources[k]) = <<>>
      <3>1. /\ Security!Min(asked) \in asked
            /\ \A j \in asked : Security!Min(asked) <= j
        BY <1>3, <1>6
      <3> DEFINE m == Security!Min(asked)
      <3> HIDE DEF m
      <3>2. /\ m \in 1..3 /\ i <= m /\ Security!StatesFor(opts, sources[m]) # <<>>
            /\ \A k \in i..3 : k < m => Security!StatesFor(opts, sources[k]) = <<>>
        <4>1. m \in i..3 /\ Security!StatesFor(opts, sources[m]) # <<>>
          BY <3>1 DEF m
        <4>2. \A k \in asked : m <= k
          BY <3>1 DEF m
        <4>3. \A k \in i..3 :
                Security!StatesFor(opts, sources[k]) = <<>> \/ m <= k
          BY <4>2
        <4>4. QED BY <4>1, <4>3
      <3>3. s = sources[m]
        BY <1>2, <1>6 DEF m
      <3>4. QED BY <3>2, <3>3
    <2>2. i = 1 \/ i = 2 \/ i = 3
      BY <2>1
    <2> HIDE DEF asked
    <2>3. \A k \in 1..3 : k < i \/ j <= k \/ Security!StatesFor(opts, sources[k]) = <<>>
      BY <2>1
    <2>4. QED BY <1>1, <1>4, <2>1, <2>2, <2>3
          DEF After, Unread, GithubStages, s, sources
  <1>7. QED BY <1>5, <1>6

\* What a step of one command leaves of another's.
Same(q) ==
    /\ security_stage'[q] = security_stage[q] /\ options'[q] = options[q]
    /\ todo'[q] = todo[q] /\ part'[q] = part[q] /\ alerts'[q] = alerts[q]
    /\ skipped'[q] = skipped[q] /\ cut'[q] = cut[q]
    /\ document'[q] = document[q]
    /\ named'[q] = named[q] /\ exit'[q] = exit[q]
    /\ steady'[q] \subseteq steady[q]
LEMMA SameKeeps ==
    ASSUME NEW q, Same(q), own' = own
    PROVE  /\ Reading(q) => Reading(q)'
           /\ Seen(q) => Seen(q)'
           /\ Verdicts(q) => Verdicts(q)'
  <1>1. Reading(q) => Reading(q)'
    BY DEF Same, Reading
  <1>2. Complete(q)' = Complete(q) /\ Judged(q)' = Judged(q)
    BY DEF Same, Complete, Judged
  <1>3. \A a : Security!Selected(options[q], a)' = Security!Selected(options[q], a)
    BY DEF Same, Security!Selected
  <1>4. Seen(q) => Seen(q)'
    BY <1>2, <1>3 DEF Same, Seen
  <1>5. Security!Matched(q)' = Security!Matched(q)
    BY DEF Same, Security!Matched
  <1>6. Verdicts(q) => Verdicts(q)'
    BY <1>5 DEF Same, Verdicts
  <1>7. QED BY <1>1, <1>4, <1>6

Command(p) ==
    \/ \E opts \in SecurityCommandLines : Security!Begin(p, opts)
    \/ Security!GitFails(p)
    \/ Security!Query(p)
    \/ Security!ReadConfig(p) \/ Security!TruncateConfig(p)
    \/ Security!FillConfig(p)
    \/ Security!RunFoxguard(p) \/ Security!InstallFoxguard(p)
    \/ Security!RetryFoxguard(p)
    \/ Security!WriteReport(p) \/ Security!FillReport(p)
    \/ Security!Verdict(p) \/ Security!Stop(p)

\* Every step of a command changes the entries of that command only.
LEMMA OthersStay ==
    ASSUME SecurityTypes, NEW p \in Shells, Command(p), NEW q \in Shells \ {p}
    PROVE  Same(q)
  <1> USE DEF SecurityTypes, Same, Security!Goto, Security!Exit, Security!Skip,
              Security!environment, Security!files, Security!history,
              Security!command
  <1>1. CASE \E opts \in SecurityCommandLines : Security!Begin(p, opts)
    BY <1>1 DEF Security!Begin, Security!Enter
  <1>2. CASE Security!GitFails(p)
    BY <1>2 DEF Security!GitFails
  <1>3. CASE Security!Query(p)
    BY <1>3 DEF Security!Query, Security!Answered, Security!Unavailable,
                Security!Refused, Security!Keep, Security!Enter
  <1>4. CASE Security!ReadConfig(p)
    BY <1>4 DEF Security!ReadConfig
  <1>5. CASE Security!TruncateConfig(p) \/ Security!FillConfig(p)
    BY <1>5 DEF Security!TruncateConfig, Security!FillConfig
  <1>6. CASE Security!RunFoxguard(p)
    BY <1>6 DEF Security!RunFoxguard, Security!FoxguardAnswers,
                Security!FoxguardFails
  <1>7. CASE Security!InstallFoxguard(p)
    BY <1>7 DEF Security!InstallFoxguard, Security!FoxguardFails
  <1>8. CASE Security!RetryFoxguard(p)
    BY <1>8 DEF Security!RetryFoxguard, Security!FoxguardAnswers,
                Security!FoxguardFails
  <1>9. CASE Security!WriteReport(p)
    BY <1>9 DEF Security!WriteReport
  <1>10. CASE Security!FillReport(p)
    BY <1>10 DEF Security!FillReport
  <1>11. CASE Security!Verdict(p)
    BY <1>11 DEF Security!Verdict
  <1>12. CASE Security!Stop(p)
    BY <1>12 DEF Security!Stop
  <1>13. QED
    BY <1>1, <1>2, <1>3, <1>4, <1>5, <1>6, <1>7, <1>8, <1>9, <1>10, <1>11, <1>12
    DEF Command

SecurityOf(p) == Reading(p) /\ Seen(p) /\ Verdicts(p)
SecurityInv ==
    SecurityTypes /\ IgnoresOwned /\ \A p \in Shells : SecurityOf(p)

LEMMA Entered ==
    ASSUME Security!PolicyAssumption, SecurityTypes, NEW p \in Shells,
           NEW opts \in SecurityCommandLines \cup {Security!NoOptions},
           NEW i \in 1..4, NEW cur,
           cur = IF i = 1 THEN "idle" ELSE Security!GithubSources[i - 1],
           Security!Enter(p, opts, i)
    PROVE  \E s \in GithubStages \cup {"config"}, t \in Seq(Security!States) :
             /\ After(cur, s, opts)
             /\ security_stage' = [security_stage EXCEPT ![p] = s]
             /\ todo' = [todo EXCEPT ![p] = t]
             /\ s \in GithubStages =>
                  /\ t = Security!StatesFor(opts, s) /\ t # <<>>
                  /\ Security!Range(t) \subseteq Security!AllowedStates(s)
  <1> DEFINE s == Security!SourceFrom(i, opts)
             t == IF s = "config" THEN <<>> ELSE Security!StatesFor(opts, s)
  <1>1. After(cur, s, opts)
    BY NextSource
  <1>2. /\ security_stage' = [security_stage EXCEPT ![p] = s]
        /\ todo' = [todo EXCEPT ![p] = t]
    BY DEF Security!Enter, Security!Goto
  <1>3. Security!StatesFor(opts, s)
            \in Seq(Security!States \cap Security!AllowedStates(s))
    BY SecurityConstants, StatesForType
  <1>4. t \in Seq(Security!States)
    <2>1. Security!StatesFor(opts, s) \in Seq(Security!States)
      BY <1>3
    <2>2. QED BY <2>1
  <1>5. Security!Range(Security!StatesFor(opts, s)) \subseteq Security!AllowedStates(s)
    BY <1>3 DEF Security!Range
  <1> HIDE DEF s
  <1>6. QED BY <1>1, <1>2, <1>4, <1>5 DEF After, GithubStages

\* What is still there is in the types.
LEMMA SteadyTypes ==
    ASSUME Security!PolicyAssumption, SecurityTypes
    PROVE  /\ Security!Present(github, tree) \subseteq ReportAlerts
           /\ \A p \in Shells : steady[p] \subseteq ReportAlerts
  <1>1. Security!Present(github, tree) \subseteq ReportAlerts
    BY DEF Security!Present, SecurityTypes, ReportAlerts
  <1>2. QED BY <1>1 DEF SecurityTypes

\* The command starts with the first source it asks.
LEMMA SecurityBegins ==
    ASSUME Security!PolicyAssumption, SecurityInv, NEW p \in Shells,
           NEW opts \in SecurityCommandLines, Security!Begin(p, opts)
    PROVE  SecurityTypes' /\ IgnoresOwned' /\ SecurityOf(p)'
  <1>1. /\ security_stage[p] = "idle"
        /\ options' = [options EXCEPT ![p] = opts]
        /\ Security!Enter(p, opts, 1)
        /\ steady' = [steady EXCEPT ![p] = Security!Present(github, tree)]
        /\ UNCHANGED <<github, tree, changes, foxguard, config, foxguard_report,
                       part, alerts, skipped, cut, document, named, exit, own>>
    BY DEF Security!Begin, Security!environment, Security!files
  <1>2. PICK s \in GithubStages \cup {"config"}, t \in Seq(Security!States) :
             /\ After("idle", s, opts)
             /\ security_stage' = [security_stage EXCEPT ![p] = s]
             /\ todo' = [todo EXCEPT ![p] = t]
             /\ s \in GithubStages =>
                  /\ t = Security!StatesFor(opts, s) /\ t # <<>>
                  /\ Security!Range(t) \subseteq Security!AllowedStates(s)
    <2>1. SecurityTypes /\ opts \in SecurityCommandLines \cup {Security!NoOptions}
      BY DEF SecurityInv
    <2>2. QED BY <1>1, <2>1, Entered
  <1> USE DEF SecurityInv
  <1>3. SecurityTypes'
    <2>1. security_stage' \in [Shells -> Security!Stages]
      BY <1>2, SecurityConstants DEF SecurityTypes, GithubStages
    <2>2. options' \in [Shells -> SecurityCommandLines \cup {Security!NoOptions}]
      BY <1>1 DEF SecurityTypes
    <2>3. todo' \in [Shells -> Seq(Security!States)]
      BY <1>2 DEF SecurityTypes
    <2>4. steady' \in [Shells -> SUBSET Security!Present(github, tree)]
      BY <1>1 DEF SecurityTypes
    <2>5. QED BY <1>1, <2>1, <2>2, <2>3, <2>4 DEF SecurityTypes
  <1>4. IgnoresOwned'
    BY <1>1 DEF IgnoresOwned, Owned, Security!ReadIgnores
  <1>5. /\ security_stage'[p] = s /\ todo'[p] = t /\ options'[p] = opts
        /\ steady'[p] \subseteq ReportAlerts
    BY <1>1, <1>2, SteadyTypes DEF SecurityTypes
  <1>6. Reading(p)
    BY DEF SecurityOf
  <1>7. part[p] = {} /\ alerts[p] = {} /\ exit[p] = None /\ named[p] = FALSE
    <2>1. \A from \in GithubStages \cup {"foxguard"} : "idle" \in Unread(from)
      BY DEF Unread, GithubStages, Security!Stages, Reporting
    <2>2. \A a \in alerts[p] : a.source \in GithubStages \cup {"foxguard"}
      BY AlertFields DEF SecurityTypes
    <2>3. alerts[p] = {}
      BY <1>1, <1>6, <2>1, <2>2 DEF Reading
    <2>4. part[p] = {} /\ exit[p] = None /\ ~named[p]
      BY <1>1, <1>6 DEF Reading, GithubStages, SecretsStages
    <2>5. named[p] \in BOOLEAN
      BY DEF SecurityTypes
    <2>6. QED BY <2>3, <2>4, <2>5
  <1>8. Reading(p)'
    BY <1>1, <1>2, <1>5, <1>7 DEF Reading, GithubStages, SecretsStages
  <1>9. Seen(p)'
    <2>1. SUFFICES ASSUME NEW a \in steady'[p], Security!Selected(opts, a)'
                   PROVE  /\ s \in Unread(a.source)
                          /\ s = a.source => a.state \in Security!Range(t)
      BY <1>2, <1>5 DEF Seen, GithubStages, SecretsStages
    <2>2. a.source \in GithubStages \cup {"foxguard"}
      BY <1>5, AlertFields
    <2>3. CASE a.source = "foxguard"
      BY <2>3 DEF Unread, GithubStages, Reporting, Security!Stages,
                  Security!Range, Security!GithubSources
    <2>4. CASE a.source \in GithubStages
      <3>1. a.state \in Security!Range(Security!StatesFor(opts, a.source))
        BY <2>1, <2>4 DEF Security!Selected, GithubStages
      <3>2. Security!StatesFor(opts, a.source) # <<>>
        BY <3>1 DEF Security!Range
      <3>3. "idle" \in Unread(a.source) /\ a.source # "idle"
        BY <2>4 DEF Unread, GithubStages
      <3>4. s \in Unread(a.source)
        BY <1>2, <2>4, <3>2, <3>3 DEF After
      <3>5. QED BY <1>2, <2>4, <3>1, <3>4
    <2>5. QED BY <2>2, <2>3, <2>4
  <1>10. Verdicts(p)'
    BY <1>1, <1>7, SecurityConstants DEF Verdicts, Security!ExitCodes
  <1>11. QED BY <1>3, <1>4, <1>8, <1>9, <1>10 DEF SecurityOf

LEMMA SourceIndexOf ==
    ASSUME NEW p, security_stage[p] \in GithubStages
    PROVE  /\ Security!SourceIndex(p) \in 1..3
           /\ Security!GithubSources[Security!SourceIndex(p)] = security_stage[p]
  <1>1. \E i \in 1..Len(Security!GithubSources) :
          Security!GithubSources[i] = security_stage[p]
    BY DEF GithubStages, Security!GithubSources
  <1>2. Len(Security!GithubSources) = 3
    BY DEF Security!GithubSources
  <1>3. QED BY <1>1, <1>2 DEF Security!SourceIndex

\* A source is read: what its answers add to the command's alerts is all of
\* it, or the command has a warning or an answer that was not complete.
LEMMA SourceEnds ==
    ASSUME Security!PolicyAssumption, SecurityInv, NEW p \in Shells,
           security_stage[p] \in GithubStages,
           NEW found \in SUBSET ReportAlerts,
           \A a \in found : a.source = security_stage[p],
           Security!Keep(p, found),
           skipped' \in [Shells -> SUBSET (Security!AlertSource \cup {"config"})],
           cut' \in [Shells -> SUBSET {"page", "unavailable"}],
           skipped[p] \subseteq skipped'[p], cut[p] \subseteq cut'[p],
           UNCHANGED <<github, tree, changes, foxguard, config, foxguard_report,
                       options, document, named, exit, own, steady>>,
           Complete(p)' =>
               \A a \in steady[p] :
                   /\ a.source = security_stage[p]
                   /\ Security!Selected(options[p], a)
                   => a \in found
    PROVE  SecurityTypes' /\ SecurityOf(p)'
  <1> DEFINE cur == security_stage[p]
             i == Security!SourceIndex(p)
  <1>1. i \in 1..3 /\ Security!GithubSources[i] = cur
    BY SourceIndexOf
  <1>2. /\ alerts' = [alerts EXCEPT ![p] = @ \cup found]
        /\ part' = [part EXCEPT ![p] = {}]
        /\ Security!Enter(p, options[p], i + 1)
    BY DEF Security!Keep
  <1> USE DEF SecurityInv
  <1> HIDE DEF i
  <1>3. PICK s \in GithubStages \cup {"config"}, t \in Seq(Security!States) :
             /\ After(cur, s, options[p])
             /\ security_stage' = [security_stage EXCEPT ![p] = s]
             /\ todo' = [todo EXCEPT ![p] = t]
             /\ s \in GithubStages =>
                  /\ t = Security!StatesFor(options[p], s) /\ t # <<>>
                  /\ Security!Range(t) \subseteq Security!AllowedStates(s)
    <2>1. options[p] \in SecurityCommandLines \cup {Security!NoOptions}
      BY DEF SecurityTypes
    <2>2. /\ i + 1 \in 1..4 /\ i + 1 # 1
          /\ Security!GithubSources[(i + 1) - 1] = cur
      BY <1>1
    <2> HIDE DEF cur
    <2>3. cur = IF i + 1 = 1 THEN "idle" ELSE Security!GithubSources[(i + 1) - 1]
      BY <2>2
    <2>4. QED BY <1>2, <2>1, <2>2, <2>3, Entered
  <1>4. /\ security_stage'[p] = s /\ todo'[p] = t /\ part'[p] = {}
        /\ alerts'[p] = alerts[p] \cup found
    BY <1>2, <1>3 DEF SecurityTypes
  <1>5. SecurityTypes'
    <2>1. security_stage' \in [Shells -> Security!Stages]
      BY <1>3, SecurityConstants DEF SecurityTypes, GithubStages
    <2>2. todo' \in [Shells -> Seq(Security!States)]
      BY <1>3 DEF SecurityTypes
    <2>3. part' \in [Shells -> SUBSET ReportAlerts]
      BY <1>2 DEF SecurityTypes
    <2>4. alerts' \in [Shells -> SUBSET ReportAlerts]
      BY <1>2 DEF SecurityTypes
    <2>5. QED BY <2>1, <2>2, <2>3, <2>4 DEF SecurityTypes
  <1>6. /\ cur \in GithubStages /\ cur \in Unread("foxguard")
        /\ s \in Unread("foxguard") /\ s # "idle" /\ s # "done"
    BY <1>3, SecurityConstants DEF Unread, GithubStages, Reporting
  <1>7. \A a \in alerts[p] : a.source \in GithubStages /\ cur \notin Unread(a.source)
    <2>1. \A a \in alerts[p] : a.source \in GithubStages \cup {"foxguard"}
      BY AlertFields DEF SecurityTypes
    <2>2. \A a \in alerts[p] : cur \notin Unread(a.source)
      BY DEF SecurityOf, Reading
    <2>3. QED BY <1>6, <2>1, <2>2
  <1>8. \A a \in alerts'[p] : s \notin Unread(a.source)
    <2> HIDE DEF cur
    <2>1. \A a \in found : a.source = cur
      BY DEF cur
    <2>2. QED BY <1>3, <1>4, <1>6, <1>7, <2>1 DEF After
  <1>9. Reading(p)'
    BY <1>3, <1>4, <1>6, <1>8 DEF Reading, SecurityOf, GithubStages, SecretsStages
  <1>10. Seen(p)'
    <2>1. SUFFICES ASSUME Complete(p)', NEW a \in steady[p],
                          Security!Selected(options[p], a)
                   PROVE  IF s \notin Unread(a.source) THEN a \in alerts'[p]
                          ELSE s = a.source => a.state \in Security!Range(t)
      <3>1. \A a : Security!Selected(options[p], a)' = Security!Selected(options[p], a)
        BY DEF Security!Selected
      <3>2. s \notin SecretsStages
        BY <1>3 DEF GithubStages, SecretsStages
      <3>3. QED BY <1>4, <1>6, <3>1, <3>2 DEF Seen
    <2>2. a.source \in GithubStages \cup {"foxguard"}
      BY SteadyTypes, AlertFields
    <2>3. CASE a.source = "foxguard"
      BY <1>3, <1>6, <2>3 DEF GithubStages
    <2>4. CASE a.source \in GithubStages
      <3>1. a.state \in Security!Range(Security!StatesFor(options[p], a.source))
        BY <2>1, <2>4 DEF Security!Selected, GithubStages
      <3>2. Security!StatesFor(options[p], a.source) # <<>>
        BY <3>1 DEF Security!Range
      <3>3. CASE s \in Unread(a.source)
        BY <1>3, <2>4, <3>1, <3>3
      <3>4. CASE s \notin Unread(a.source)
        <4>1. cur \notin Unread(a.source) \/ a.source = cur
          BY <1>3, <2>4, <3>2, <3>4 DEF After
        <4>2. CASE a.source = cur
          <5>1. a \in found
            BY <2>1, <4>2
          <5>2. QED BY <1>4, <3>4, <5>1
        <4>3. CASE cur \notin Unread(a.source)
          <5>1. Complete(p)
            BY <2>1 DEF Complete
          <5>2. cur # "idle" /\ cur # "done"
            BY DEF GithubStages
          <5>3. a \in alerts[p]
            BY <2>1, <4>3, <5>1, <5>2 DEF SecurityOf, Seen
          <5>4. QED BY <1>4, <3>4, <5>3
        <4>4. QED BY <4>1, <4>2, <4>3
      <3>5. QED BY <3>3, <3>4
    <2>5. QED BY <2>2, <2>3, <2>4
  <1>11. Verdicts(p)'
    <2>1. exit[p] = None
      BY DEF SecurityOf, Reading, GithubStages
    <2>2. QED BY <2>1, SecurityConstants DEF Verdicts, Security!ExitCodes
  <1>12. QED BY <1>5, <1>9, <1>10, <1>11 DEF SecurityOf

\* A page that is not cut short has every alert in its state.
LEMMA WholePage ==
    ASSUME Security!PolicyAssumption, SecurityTypes,
           NEW from \in GithubStages, NEW s, Security!Cut(from, s) = {},
           NEW a \in Security!Present(github, tree),
           a.source = from, a.state = s
    PROVE  a \in {Security!NormalizeGithub(b, s) : b \in Security!Page(from, s)}
  <1>1. CASE \E f \in tree : a = Security!NormalizeFoxguard(f)
    <2>1. a.source = "foxguard"
      BY <1>1, AlertFields DEF SecurityTypes
    <2>2. QED BY <2>1 DEF GithubStages
  <1>2. CASE \E b \in Alerts : github[b] # None
                               /\ a = Security!NormalizeGithub(b, github[b])
    <2>1. PICK b \in Alerts : /\ github[b] # None
                              /\ a = Security!NormalizeGithub(b, github[b])
      BY <1>2
    <2>2. github[b] \in Security!States
      BY <2>1 DEF SecurityTypes
    <2>3. b.source = from /\ github[b] = s
      BY <2>1, <2>2, AlertFields
    <2>4. Security!Page(from, s) = {c \in Alerts : c.source = from /\ github[c] = s}
      BY DEF Security!Cut
    <2>5. b \in Security!Page(from, s)
      BY <2>3, <2>4
    <2>6. QED BY <2>1, <2>3, <2>5
  <1>3. QED BY <1>1, <1>2 DEF Security!Present

\* A request is answered, not available or refused.
LEMMA SecurityQueries ==
    ASSUME Security!PolicyAssumption, SecurityInv, NEW p \in Shells,
           Security!Query(p)
    PROVE  SecurityTypes' /\ IgnoresOwned' /\ SecurityOf(p)'
  <1> DEFINE cur == security_stage[p]
             s == Head(todo[p])
             answer == {Security!NormalizeGithub(a, s) : a \in Security!Page(cur, s)}
             found == part[p] \cup answer
  <1> USE DEF SecurityInv
  <1>1. /\ cur \in GithubStages
        /\ UNCHANGED <<github, tree, changes, foxguard, config, foxguard_report,
                       options, document, named, exit, own, steady>>
        /\ Security!Answered(p) \/ Security!Unavailable(p) \/ Security!Refused(p)
    BY SecurityConstants
    DEF Security!Query, Security!environment, Security!files, Security!history
  <1>2. IgnoresOwned'
    BY <1>1 DEF IgnoresOwned, Owned, Security!ReadIgnores
  <1>3. /\ todo[p] # <<>> /\ todo[p] \in Seq(Security!States)
        /\ Security!Range(todo[p]) \subseteq Security!AllowedStates(cur)
        /\ \A a \in part[p] : a.source = cur
        /\ part[p] \subseteq ReportAlerts
        /\ skipped[p] \subseteq Security!AlertSource \cup {"config"}
        /\ cut[p] \subseteq {"page", "unavailable"}
    BY <1>1 DEF SecurityOf, Reading, SecurityTypes
  <1>4. /\ s \in Security!States /\ Tail(todo[p]) \in Seq(Security!States)
        /\ \A x : x \in Security!Range(todo[p]) =>
                  x = s \/ x \in Security!Range(Tail(todo[p]))
        /\ Security!Range(Tail(todo[p])) \subseteq Security!Range(todo[p])
    <2>1. /\ s = todo[p][1] /\ 1 \in 1..Len(todo[p])
          /\ Tail(todo[p]) \in Seq(Security!States)
          /\ Len(Tail(todo[p])) = Len(todo[p]) - 1
      BY <1>3
    <2>2. \A i \in 1..Len(Tail(todo[p])) :
            i + 1 \in 1..Len(todo[p]) /\ Tail(todo[p])[i] = todo[p][i + 1]
      BY <1>3, <2>1
    <2>3. \A i \in 1..Len(todo[p]) :
            \/ i = 1
            \/ i - 1 \in 1..Len(Tail(todo[p])) /\ Tail(todo[p])[i - 1] = todo[p][i]
      BY <1>3, <2>1, <2>2
    <2>4. /\ DOMAIN todo[p] = 1..Len(todo[p])
          /\ DOMAIN Tail(todo[p]) = 1..Len(Tail(todo[p]))
      BY <1>3, <2>1
    <2>5. \A i \in 1..Len(todo[p]) : todo[p][i] \in Security!States
      BY <1>3
    <2>6. Security!Range(Tail(todo[p])) \subseteq Security!Range(todo[p])
      BY <2>2, <2>4 DEF Security!Range
    <2>7. \A x : x \in Security!Range(todo[p]) =>
                 x = s \/ x \in Security!Range(Tail(todo[p]))
      <3>1. SUFFICES ASSUME NEW x \in Security!Range(todo[p])
                     PROVE  x = s \/ x \in Security!Range(Tail(todo[p]))
        OBVIOUS
      <3>2. PICK i \in 1..Len(todo[p]) : x = todo[p][i]
        BY <2>4 DEF Security!Range
      <3>3. CASE i = 1
        BY <2>1, <3>2, <3>3
      <3>4. CASE i # 1
        <4>1. i - 1 \in DOMAIN Tail(todo[p]) /\ Tail(todo[p])[i - 1] = x
          BY <2>3, <2>4, <3>2, <3>4
        <4>2. QED BY <4>1 DEF Security!Range
      <3>5. QED BY <3>3, <3>4
    <2>8. QED BY <2>1, <2>5, <2>6, <2>7
  <1>5. answer \subseteq ReportAlerts /\ \A a \in answer : a.source = cur
    <2>1. Security!Page(cur, s) \subseteq {a \in Alerts : a.source = cur}
      BY DEF Security!Page
    <2>2. QED BY <1>4, <2>1, AlertFields DEF ReportAlerts
  <1>6. Complete(p) =>
          \A a \in steady[p] :
            a.source = cur /\ Security!Selected(options[p], a) =>
              a \in part[p] \/ a.state \in Security!Range(todo[p])
    <2>1. cur # "idle" /\ cur # "done" /\ cur \in Unread(cur)
      BY <1>1 DEF GithubStages, Unread
    <2>2. QED BY <2>1 DEF SecurityOf, Seen
  <1>7. CASE Security!Answered(p)
    <2>1. /\ cut' = [cut EXCEPT ![p] = @ \cup Security!Cut(cur, s)]
          /\ skipped' = skipped
          /\ \/ Tail(todo[p]) = <<>> /\ Security!Keep(p, found)
             \/ /\ Tail(todo[p]) # <<>>
                /\ part' = [part EXCEPT ![p] = found]
                /\ todo' = [todo EXCEPT ![p] = Tail(@)]
                /\ UNCHANGED <<alerts, security_stage>>
      BY <1>7 DEF Security!Answered
    <2>2. cut' \in [Shells -> SUBSET {"page", "unavailable"}]
      BY <2>1 DEF SecurityTypes, Security!Cut
    <2>3. cut'[p] = cut[p] \cup Security!Cut(cur, s)
      BY <2>1 DEF SecurityTypes
    <2>4. Complete(p)' => Complete(p) /\ Security!Cut(cur, s) = {}
      BY <2>1, <2>3 DEF Complete
    <2>5. Complete(p)' =>
            \A a \in steady[p] :
              a.source = cur /\ Security!Selected(options[p], a) =>
                a \in found \/ a.state \in Security!Range(Tail(todo[p]))
      <3>1. SUFFICES ASSUME Complete(p)', NEW a \in steady[p], a.source = cur,
                            Security!Selected(options[p], a), a \notin part[p]
                     PROVE  \/ a \in answer
                            \/ a.state \in Security!Range(Tail(todo[p]))
        OBVIOUS
      <3>2. a.state = s \/ a.state \in Security!Range(Tail(todo[p]))
        BY <1>4, <1>6, <2>4, <3>1
      <3>3. CASE a.state = s
        <4>1. a \in Security!Present(github, tree)
          BY DEF SecurityTypes
        <4>2. QED BY <1>1, <2>4, <3>1, <3>3, <4>1, WholePage
      <3>4. QED BY <3>2, <3>3
    <2>6. found \in SUBSET ReportAlerts /\ \A a \in found : a.source = cur
      BY <1>3, <1>5
    <2>7. CASE Tail(todo[p]) = <<>>
      <3>1. Security!Range(Tail(todo[p])) = {}
        BY <2>7 DEF Security!Range
      <3>2. Security!Keep(p, found)
        BY <2>1, <2>7
      <3>3. skipped' \in [Shells -> SUBSET (Security!AlertSource \cup {"config"})]
        BY <2>1 DEF SecurityTypes
      <3> HIDE DEF found
      <3>4. SecurityTypes' /\ SecurityOf(p)'
        BY <1>1, <2>1, <2>2, <2>3, <2>5, <2>6, <3>1, <3>2, <3>3, SourceEnds
      <3>5. QED BY <1>2, <3>4
    <2>8. CASE Tail(todo[p]) # <<>>
      <3>1. /\ part' = [part EXCEPT ![p] = found]
            /\ todo' = [todo EXCEPT ![p] = Tail(todo[p])]
            /\ UNCHANGED <<alerts, security_stage>>
        BY <2>1, <2>8
      <3> HIDE DEF found
      <3>2. part' \in [Shells -> SUBSET ReportAlerts] /\ part'[p] = found
        BY <2>6, <3>1 DEF SecurityTypes
      <3>3. todo' \in [Shells -> Seq(Security!States)] /\ todo'[p] = Tail(todo[p])
        BY <1>4, <3>1 DEF SecurityTypes
      <3>4. SecurityTypes'
        BY <1>1, <2>1, <2>2, <3>1, <3>2, <3>3 DEF SecurityTypes
      <3>5. \A a \in alerts[p] : a.source # cur
        <4>1. cur \in Unread(cur)
          BY <1>1 DEF GithubStages, Unread
        <4>2. QED BY <4>1 DEF SecurityOf, Reading
      <3>6. Reading(p)'
        BY <1>1, <1>3, <1>4, <2>6, <2>8, <3>1, <3>2, <3>3, <3>5
        DEF SecurityOf, Reading, GithubStages, SecretsStages
      <3>7. Seen(p)'
        <4>1. \A a : Security!Selected(options[p], a)' = Security!Selected(options[p], a)
          BY <1>1 DEF Security!Selected
        <4>2. cur # "idle" /\ cur # "done" /\ cur \notin SecretsStages
          BY <1>1 DEF GithubStages, SecretsStages
        <4>3. QED
          BY <1>1, <2>4, <2>5, <3>1, <3>2, <3>3, <4>1, <4>2 DEF SecurityOf, Seen
      <3>8. Verdicts(p)'
        <4>1. exit[p] = None
          BY <1>1 DEF SecurityOf, Reading, GithubStages
        <4>2. QED BY <1>1, <4>1, SecurityConstants DEF Verdicts, Security!ExitCodes
      <3>9. QED BY <1>2, <3>4, <3>6, <3>7, <3>8 DEF SecurityOf
    <2>9. QED BY <2>7, <2>8
  <1>8. CASE Security!Unavailable(p)
    <2>1. /\ cut' = [cut EXCEPT ![p] = @ \cup {"unavailable"}]
          /\ Security!Keep(p, part[p]) /\ skipped' = skipped
      BY <1>8 DEF Security!Unavailable
    <2>2. /\ cut' \in [Shells -> SUBSET {"page", "unavailable"}]
          /\ cut'[p] = cut[p] \cup {"unavailable"}
      BY <2>1 DEF SecurityTypes
    <2>3. ~Complete(p)'
      BY <2>2 DEF Complete
    <2>4. skipped' \in [Shells -> SUBSET (Security!AlertSource \cup {"config"})]
      BY <2>1 DEF SecurityTypes
    <2>5. SecurityTypes' /\ SecurityOf(p)'
      BY <1>1, <1>3, <2>1, <2>2, <2>3, <2>4, SourceEnds
    <2>6. QED BY <1>2, <2>5
  <1>9. CASE Security!Refused(p)
    <2>1. /\ skipped' = [skipped EXCEPT ![p] = @ \cup {cur}]
          /\ Security!Keep(p, {}) /\ cut' = cut
      BY <1>9 DEF Security!Refused, Security!Skip
    <2>2. /\ skipped' \in [Shells -> SUBSET (Security!AlertSource \cup {"config"})]
          /\ skipped'[p] = skipped[p] \cup {cur}
      BY <1>1, <2>1, SecurityConstants DEF SecurityTypes
    <2>3. ~Complete(p)'
      BY <2>2 DEF Complete
    <2>4. cut' \in [Shells -> SUBSET {"page", "unavailable"}]
      BY <2>1 DEF SecurityTypes
    <2>5. SecurityTypes' /\ SecurityOf(p)'
      BY <1>1, <2>1, <2>2, <2>3, <2>4, SourceEnds
    <2>6. QED BY <1>2, <2>5
  <1>10. QED BY <1>1, <1>7, <1>8, <1>9

\* Stages that differ in nothing that has been read.
BeforeScan == {"config", "truncate", "fill", "scan", "install_scan", "retry_scan"}
LEMMA ScanStagesUnread ==
    /\ \A s \in BeforeScan \cup SecretsStages :
         /\ s \in Unread("foxguard")
         /\ \A from \in GithubStages : s \notin Unread(from)
    /\ \A s \in Reporting \cup {"done"} :
         \A from \in GithubStages \cup {"foxguard"} : s \notin Unread(from)
    /\ \A s \in BeforeScan \cup SecretsStages \cup Reporting :
         s # "idle" /\ s # "done" /\ s \notin GithubStages
    /\ \A s \in BeforeScan : s \notin SecretsStages
    /\ \A s \in Reporting : s \notin SecretsStages
  BY DEF BeforeScan, SecretsStages, GithubStages, Reporting, Unread,
         Security!Stages, Security!Updating, Security!Range,
         Security!GithubSources

\* A step between two such stages, with whatever warning.
LEMMA SecurityMoves ==
    ASSUME Security!PolicyAssumption, SecurityInv, NEW p \in Shells,
           NEW K \in {BeforeScan, SecretsStages, Reporting},
           security_stage[p] \in K, NEW t \in K,
           security_stage' = [security_stage EXCEPT ![p] = t],
           UNCHANGED <<github, tree, changes, options, todo, part, alerts, cut,
                       exit, own, steady>>,
           foxguard' \in {"missing", "cargo_bin", "path"},
           config'.text \in Security!Texts,
           foxguard_report'.text \in Security!Texts,
           DOMAIN document' = Shells,
           skipped' \in [Shells -> SUBSET (Security!AlertSource \cup {"config"})],
           skipped[p] \subseteq skipped'[p],
           named' \in [Shells -> BOOLEAN],
           named'[p] => t = "verdict"
    PROVE  SecurityTypes' /\ SecurityOf(p)'
  <1> USE DEF SecurityInv
  <1>1. security_stage'[p] = t /\ security_stage' \in [Shells -> Security!Stages]
    BY SecurityConstants
    DEF SecurityTypes, BeforeScan, SecretsStages, Reporting
  <1>2. SecurityTypes'
    BY <1>1 DEF SecurityTypes
  <1>3. /\ t # "idle" /\ t # "done" /\ t \notin GithubStages
        /\ security_stage[p] # "idle" /\ security_stage[p] # "done"
        /\ security_stage[p] \notin GithubStages
        /\ security_stage[p] \in SecretsStages <=> t \in SecretsStages
    BY ScanStagesUnread
  <1>4. \A from \in GithubStages \cup {"foxguard"} :
          security_stage[p] \in Unread(from) <=> t \in Unread(from)
    BY ScanStagesUnread
  <1>5. \A a \in ReportAlerts : a.source \in GithubStages \cup {"foxguard"}
    BY AlertFields
  <1>6. alerts[p] \subseteq ReportAlerts /\ steady[p] \subseteq ReportAlerts
    BY SteadyTypes DEF SecurityTypes
  <1>7. exit[p] = None
    BY <1>3 DEF SecurityOf, Reading
  <1>8. Reading(p)'
    <2>1. exit[p] # "operational_error"
      BY <1>7, SecurityConstants DEF Security!ExitCodes
    <2>2. \A a \in alerts[p] : t \notin Unread(a.source)
      BY <1>4, <1>5, <1>6 DEF SecurityOf, Reading
    <2>3. QED
      BY <1>1, <1>3, <1>7, <2>1, <2>2 DEF SecurityOf, Reading
  <1>9. Seen(p)'
    <2>1. SUFFICES ASSUME Complete(p)', NEW a \in steady[p],
                          Security!Selected(options[p], a)
                   PROVE  /\ t \notin Unread(a.source) => a \in alerts[p]
                          /\ /\ a.source = "foxguard" /\ a.of.mode = "scan"
                             /\ t \in SecretsStages /\ t \in Unread(a.source)
                             => a \in part[p]
      <3>1. \A a : Security!Selected(options[p], a)' = Security!Selected(options[p], a)
        BY DEF Security!Selected
      <3>2. \A a \in steady[p] : t # a.source \/ a.source = "foxguard"
        BY <1>3, <1>5, <1>6
      <3>3. t # "foxguard"
        BY DEF BeforeScan, SecretsStages, Reporting
      <3>4. QED BY <1>1, <1>3, <3>1, <3>2, <3>3 DEF Seen
    <2>2. Complete(p)
      BY <2>1 DEF Complete
    <2>3. a.source \in GithubStages \cup {"foxguard"}
      BY <1>5, <1>6
    <2>4. QED BY <1>3, <1>4, <2>1, <2>2, <2>3 DEF SecurityOf, Seen
  <1>10. Verdicts(p)'
    BY <1>7, SecurityConstants DEF Verdicts, Security!ExitCodes
  <1>11. QED BY <1>2, <1>8, <1>9, <1>10 DEF SecurityOf

\* The command ends without a verdict.
LEMMA SecurityEnds ==
    ASSUME Security!PolicyAssumption, SecurityInv, NEW p \in Shells,
           security_stage[p] # "done",
           NEW e \in {"operational_error", "stopped"},
           e = "operational_error" => ~named[p],
           security_stage' = [security_stage EXCEPT ![p] = "done"],
           exit' = [exit EXCEPT ![p] = e],
           foxguard_report'.text \in Security!Texts,
           UNCHANGED <<github, tree, changes, foxguard, config, options, todo,
                       part, alerts, skipped, cut, document, named, own, steady>>
    PROVE  SecurityTypes' /\ IgnoresOwned' /\ SecurityOf(p)'
  <1> USE DEF SecurityInv
  <1>1. security_stage'[p] = "done" /\ exit'[p] = e
    BY DEF SecurityTypes
  <1>2. SecurityTypes'
    <2>1. security_stage' \in [Shells -> Security!Stages]
      BY SecurityConstants DEF SecurityTypes
    <2>2. exit' \in [Shells -> Security!ExitCodes \cup {None}]
      BY DEF SecurityTypes, Security!ExitCodes
    <2>3. QED BY <2>1, <2>2 DEF SecurityTypes
  <1>3. IgnoresOwned'
    BY DEF IgnoresOwned, Owned, Security!ReadIgnores
  <1>4. Reading(p)'
    <2>1. \A a \in alerts[p] : "done" \notin Unread(a.source)
      BY ScanStagesUnread, AlertFields DEF SecurityTypes
    <2>2. e # None
      BY SecurityConstants DEF Security!ExitCodes
    <2>3. "done" \notin GithubStages /\ "done" \notin SecretsStages
      BY DEF GithubStages, SecretsStages
    <2>4. QED BY <1>1, <2>1, <2>2, <2>3 DEF SecurityOf, Reading
  <1>5. Seen(p)' /\ Verdicts(p)'
    BY <1>1 DEF Seen, Judged, Verdicts
  <1>6. QED BY <1>2, <1>3, <1>4, <1>5 DEF SecurityOf

\* What foxguard does not answer is not selected: the configuration ignores
\* only what its owner ignores, or a default path.
LEMMA FoxguardSees ==
    ASSUME Security!PolicyAssumption, SecurityInv, NEW opts, NEW mode,
           NEW a \in Security!Present(github, tree), Security!Selected(opts, a),
           a.source = "foxguard", a.of.mode = mode
    PROVE  a \in {Security!NormalizeFoxguard(f) : f \in Security!FoxguardAnswer(mode)}
  <1>1. CASE \E b \in Alerts : github[b] # None
                               /\ a = Security!NormalizeGithub(b, github[b])
    <2>1. PICK b \in Alerts : /\ github[b] # None
                              /\ a = Security!NormalizeGithub(b, github[b])
      BY <1>1
    <2>2. github[b] \in Security!States
      BY <2>1 DEF SecurityInv, SecurityTypes
    <2>3. a.source \in GithubStages
      BY <2>1, <2>2, AlertFields
    <2>4. QED BY <2>3 DEF GithubStages
  <1>2. CASE \E f \in tree : a = Security!NormalizeFoxguard(f)
    <2>1. PICK f \in tree : a = Security!NormalizeFoxguard(f)
      BY <1>2
    <2>2. a.of = f
      BY <2>1, AlertFields DEF SecurityInv, SecurityTypes
    <2>3. /\ f.mode = mode /\ f.path \notin DefaultPaths
          /\ f.rule_id \notin Security!IgnoresOf(own, f.path)
      BY <2>2 DEF Security!Selected
    <2>4. f.rule_id \notin Security!IgnoresOf(Security!ReadIgnores, f.path)
      BY <2>3 DEF SecurityInv, IgnoresOwned, Owned
    <2>5. f \in Security!FoxguardAnswer(mode)
      BY <2>3, <2>4 DEF Security!FoxguardAnswer
    <2>6. QED BY <2>1, <2>5
  <1>3. QED BY <1>1, <1>2 DEF Security!Present

LEMMA FoundModes ==
    ASSUME Security!PolicyAssumption, SecurityTypes,
           NEW a \in Security!Present(github, tree), a.source = "foxguard"
    PROVE  a.of.mode \in {"scan", "secrets"}
  <1>1. CASE \E b \in Alerts : github[b] # None
                               /\ a = Security!NormalizeGithub(b, github[b])
    <2>1. a.source \in GithubStages
      BY <1>1, AlertFields DEF SecurityTypes
    <2>2. QED BY <2>1 DEF GithubStages
  <1>2. CASE \E f \in tree : a = Security!NormalizeFoxguard(f)
    <2>1. PICK f \in tree : a = Security!NormalizeFoxguard(f)
      BY <1>2
    <2>2. f \in Security!FoxguardFinding /\ a.of = f
      BY <2>1, AlertFields DEF SecurityTypes, Security!PolicyAssumption
    <2>3. QED BY <2>2 DEF Security!FoxguardFinding
  <1>3. QED BY <1>1, <1>2 DEF Security!Present

\* foxguard answers the scan, then the search for secrets.
LEMMA SecurityScans ==
    ASSUME Security!PolicyAssumption, SecurityInv, NEW p \in Shells,
           security_stage[p] \in BeforeScan \cup SecretsStages,
           Security!FoxguardMode(p) =
               IF security_stage[p] \in BeforeScan THEN "scan" ELSE "secrets",
           Security!FoxguardAnswers(p),
           UNCHANGED <<github, tree, changes, foxguard, config, foxguard_report,
                       options, todo, cut, document, named, exit, own, steady>>
    PROVE  SecurityTypes' /\ SecurityOf(p)'
  <1> DEFINE mode == Security!FoxguardMode(p)
             answer == {Security!NormalizeFoxguard(f) :
                           f \in Security!FoxguardAnswer(mode)}
             found == part[p] \cup answer
  <1> USE DEF SecurityInv
  <1>1. /\ skipped' = skipped
        /\ IF mode = "scan"
           THEN /\ part' = [part EXCEPT ![p] = found]
                /\ security_stage' = [security_stage EXCEPT ![p] = "secrets"]
                /\ UNCHANGED alerts
           ELSE /\ alerts' = [alerts EXCEPT ![p] = @ \cup found]
                /\ part' = [part EXCEPT ![p] = {}]
                /\ security_stage' = [security_stage EXCEPT ![p] = "report"]
    BY DEF Security!FoxguardAnswers, Security!Goto
  <1>2. answer \subseteq ReportAlerts /\ \A a \in answer : a.source = "foxguard"
    <2>1. Security!FoxguardAnswer(mode) \subseteq Findings
      BY DEF Security!FoxguardAnswer, SecurityTypes
    <2>2. QED BY <2>1, AlertFields DEF ReportAlerts
  <1>3. /\ security_stage[p] # "idle" /\ security_stage[p] # "done"
        /\ security_stage[p] \notin GithubStages
        /\ security_stage[p] \in Unread("foxguard")
        /\ \A from \in GithubStages : security_stage[p] \notin Unread(from)
    BY ScanStagesUnread
  <1>4. exit[p] = None /\ ~named[p]
    BY <1>3, ScanStagesUnread
    DEF SecurityOf, Reading, BeforeScan, SecretsStages
  <1>5. \A a \in part[p] : a.source = "foxguard"
    BY <1>3 DEF SecurityOf, Reading
  <1>6. part[p] \subseteq ReportAlerts /\ alerts[p] \subseteq ReportAlerts
        /\ steady[p] \subseteq ReportAlerts
    BY SteadyTypes DEF SecurityTypes
  <1>7. \A a \in alerts[p] : a.source \in GithubStages
    <2>1. \A a \in alerts[p] : a.source \in GithubStages \cup {"foxguard"}
      BY <1>6, AlertFields
    <2>2. \A a \in alerts[p] : security_stage[p] \notin Unread(a.source)
      BY DEF SecurityOf, Reading
    <2>3. QED BY <1>3, <2>1, <2>2
  <1>8. \A a : Security!Selected(options[p], a)' = Security!Selected(options[p], a)
    BY DEF Security!Selected
  <1>9. ASSUME Complete(p)', NEW a \in steady[p], Security!Selected(options[p], a)
        PROVE  /\ a.source \in GithubStages => a \in alerts[p]
               /\ a.source = "foxguard" /\ a.of.mode = mode => a \in found
               /\ /\ a.source = "foxguard" /\ a.of.mode = "scan"
                  /\ security_stage[p] \in SecretsStages
                  => a \in found
    <2>1. Complete(p)
      BY <1>1, <1>9 DEF Complete
    <2>2. a.source \in GithubStages => a \in alerts[p]
      BY <1>3, <1>9, <2>1 DEF SecurityOf, Seen
    <2>3. a \in Security!Present(github, tree)
      BY DEF SecurityTypes
    <2>4. a.source = "foxguard" /\ a.of.mode = mode => a \in answer
      BY <1>9, <2>3, FoxguardSees
    <2>5. /\ a.source = "foxguard" /\ a.of.mode = "scan"
          /\ security_stage[p] \in SecretsStages
          => a \in part[p]
      BY <1>3, <1>9, <2>1 DEF SecurityOf, Seen
    <2>6. QED BY <2>2, <2>4, <2>5
  <1>10. Verdicts(p)'
    BY <1>4, SecurityConstants DEF Verdicts, Security!ExitCodes
  <1>11. exit[p] # "operational_error"
    BY <1>4, SecurityConstants DEF Security!ExitCodes
  <1>12. found \in SUBSET ReportAlerts /\ \A a \in found : a.source = "foxguard"
    BY <1>2, <1>5, <1>6
  <1> HIDE DEF found, mode
  <1>13. CASE mode = "scan"
    <2>1. /\ part' = [part EXCEPT ![p] = found]
          /\ security_stage' = [security_stage EXCEPT ![p] = "secrets"]
          /\ UNCHANGED alerts
      BY <1>1, <1>13
    <2>2. /\ security_stage'[p] = "secrets" /\ part'[p] = found
          /\ security_stage' \in [Shells -> Security!Stages]
          /\ part' \in [Shells -> SUBSET ReportAlerts]
      BY <1>12, <2>1, SecurityConstants DEF SecurityTypes
    <2>3. SecurityTypes'
      BY <1>1, <2>1, <2>2 DEF SecurityTypes
    <2>4. /\ "secrets" \in SecretsStages /\ "secrets" \in Unread("foxguard")
          /\ \A from \in GithubStages : "secrets" \notin Unread(from)
          /\ "secrets" \notin GithubStages
          /\ "foxguard" \notin GithubStages
      BY ScanStagesUnread DEF SecretsStages, GithubStages
    <2>5. Reading(p)'
      BY <1>4, <1>7, <1>11, <1>12, <2>1, <2>2, <2>4 DEF Reading
    <2>6. Seen(p)'
      <3>1. SUFFICES ASSUME Complete(p)', NEW a \in steady[p],
                            Security!Selected(options[p], a)
                     PROVE  /\ "secrets" \notin Unread(a.source) => a \in alerts[p]
                            /\ "secrets" # a.source
                            /\ a.source = "foxguard" /\ a.of.mode = "scan"
                                 => a \in found
        BY <1>8, <2>1, <2>2 DEF Seen
      <3>2. a.source \in GithubStages \cup {"foxguard"}
        BY <1>6, AlertFields
      <3>3. QED BY <1>9, <1>13, <2>4, <3>1, <3>2
    <2>7. QED BY <1>10, <2>3, <2>5, <2>6 DEF SecurityOf
  <1>14. CASE mode # "scan"
    <2>1. /\ alerts' = [alerts EXCEPT ![p] = @ \cup found]
          /\ part' = [part EXCEPT ![p] = {}]
          /\ security_stage' = [security_stage EXCEPT ![p] = "report"]
      BY <1>1, <1>14
    <2>2. /\ security_stage'[p] = "report" /\ part'[p] = {}
          /\ alerts'[p] = alerts[p] \cup found
          /\ security_stage' \in [Shells -> Security!Stages]
          /\ part' \in [Shells -> SUBSET ReportAlerts]
          /\ alerts' \in [Shells -> SUBSET ReportAlerts]
      BY <1>12, <2>1, SecurityConstants DEF SecurityTypes
    <2>3. SecurityTypes'
      BY <1>1, <2>1, <2>2 DEF SecurityTypes
    <2>4. /\ \A from \in GithubStages \cup {"foxguard"} : "report" \notin Unread(from)
          /\ "report" \notin GithubStages /\ "report" \notin SecretsStages
      BY ScanStagesUnread DEF Reporting, SecretsStages, GithubStages
    <2>5. Reading(p)'
      BY <1>4, <1>7, <1>11, <1>12, <2>1, <2>2, <2>4 DEF Reading
    <2>6. Seen(p)'
      <3>1. SUFFICES ASSUME Complete(p)', NEW a \in steady[p],
                            Security!Selected(options[p], a)
                     PROVE  /\ "report" \notin Unread(a.source)
                            /\ a \in alerts[p] \cup found
        BY <1>8, <2>1, <2>2 DEF Seen
      <3>2. a.source \in GithubStages \cup {"foxguard"}
        BY <1>6, AlertFields
      <3>3. mode = "secrets" /\ security_stage[p] \in SecretsStages
        BY <1>14 DEF mode
      <3>4. a.source = "foxguard" => a.of.mode \in {"scan", "secrets"}
        BY FoundModes DEF SecurityTypes
      <3>5. QED BY <1>9, <2>4, <3>1, <3>2, <3>3, <3>4
    <2>7. QED BY <1>10, <2>3, <2>5, <2>6 DEF SecurityOf
  <1>15. QED BY <1>13, <1>14

\* foxguard fails, and leaves a warning.
LEMMA SecurityScanFails ==
    ASSUME Security!PolicyAssumption, SecurityInv, NEW p \in Shells,
           security_stage[p] \in BeforeScan \cup SecretsStages,
           Security!FoxguardFails(p),
           UNCHANGED <<github, tree, changes, foxguard, config, foxguard_report,
                       options, todo, cut, document, named, exit, own, steady>>
    PROVE  SecurityTypes' /\ SecurityOf(p)'
  <1> USE DEF SecurityInv
  <1>1. /\ skipped' = [skipped EXCEPT ![p] = @ \cup {"foxguard"}]
        /\ part' = [part EXCEPT ![p] = {}]
        /\ security_stage' = [security_stage EXCEPT ![p] = "report"]
        /\ UNCHANGED alerts
    BY DEF Security!FoxguardFails, Security!Goto, Security!Skip
  <1>2. /\ security_stage'[p] = "report" /\ part'[p] = {}
        /\ skipped'[p] = skipped[p] \cup {"foxguard"}
    BY <1>1 DEF SecurityTypes
  <1>3. SecurityTypes'
    <2>1. security_stage' \in [Shells -> Security!Stages]
      BY <1>1, SecurityConstants DEF SecurityTypes
    <2>2. skipped' \in [Shells -> SUBSET (Security!AlertSource \cup {"config"})]
      BY <1>1, SecurityConstants DEF SecurityTypes
    <2>3. part' \in [Shells -> SUBSET ReportAlerts]
      BY <1>1 DEF SecurityTypes
    <2>4. QED BY <1>1, <2>1, <2>2, <2>3 DEF SecurityTypes
  <1>4. exit[p] = None /\ ~named[p]
    BY ScanStagesUnread DEF SecurityOf, Reading, BeforeScan, SecretsStages
  <1>5. Reading(p)'
    <2>1. \A a \in alerts[p] : "report" \notin Unread(a.source)
      BY ScanStagesUnread, AlertFields DEF SecurityTypes, Reporting
    <2>2. QED
      BY <1>1, <1>2, <1>4, <2>1, SecurityConstants
      DEF Reading, GithubStages, SecretsStages, Security!ExitCodes
  <1>6. Seen(p)'
    BY <1>2 DEF Seen, Complete
  <1>7. Verdicts(p)'
    BY <1>4, SecurityConstants DEF Verdicts, Security!ExitCodes
  <1>8. QED BY <1>3, <1>5, <1>6, <1>7 DEF SecurityOf

\* The steps of .foxguard.yml.
LEMMA SecurityConfigures ==
    ASSUME Security!PolicyAssumption, SecurityInv, NEW p \in Shells,
           \/ Security!ReadConfig(p) \/ Security!TruncateConfig(p)
           \/ Security!FillConfig(p)
    PROVE  SecurityTypes' /\ IgnoresOwned' /\ SecurityOf(p)'
  <1> USE DEF SecurityInv
  <1>1. UNCHANGED <<github, tree, changes, foxguard, foxguard_report, options,
                    todo, part, alerts, cut, named, exit, own, steady>>
    BY DEF Security!ReadConfig, Security!TruncateConfig, Security!FillConfig,
           Security!environment, Security!files, Security!history
  <1>2. PICK t \in BeforeScan :
          security_stage' = [security_stage EXCEPT ![p] = t]
    BY DEF Security!ReadConfig, Security!TruncateConfig, Security!FillConfig,
           Security!Goto, BeforeScan
  <1>3. security_stage[p] \in BeforeScan
    BY DEF Security!ReadConfig, Security!TruncateConfig, Security!FillConfig,
           BeforeScan
  <1>4. \/ skipped' = skipped \/ skipped' = [skipped EXCEPT ![p] = @ \cup {"config"}]
    BY DEF Security!ReadConfig, Security!TruncateConfig, Security!FillConfig,
           Security!Skip
  <1>5. /\ skipped' \in [Shells -> SUBSET (Security!AlertSource \cup {"config"})]
        /\ skipped[p] \subseteq skipped'[p]
    BY <1>4 DEF SecurityTypes
  <1>6. \/ document' = document
        \/ document' = [document EXCEPT ![p] =
                           Security!MergeDefaultIgnores(Security!ReadIgnores)]
    BY DEF Security!ReadConfig, Security!TruncateConfig, Security!FillConfig
  <1>7. DOMAIN document' = Shells
    BY <1>6 DEF SecurityTypes
  <1>8. \/ config' = config \/ config' = Security!File("empty", Security!NoIgnores)
        \/ config' = Security!File("mixed", Security!NoIgnores)
        \/ config' = Security!File("whole", document[p])
    BY DEF Security!ReadConfig, Security!TruncateConfig, Security!FillConfig,
           Security!files
  <1>9. config'.text \in Security!Texts
    BY <1>8 DEF SecurityTypes, Security!File, Security!Texts
  <1>10. /\ foxguard' \in {"missing", "cargo_bin", "path"}
         /\ foxguard_report'.text \in Security!Texts
         /\ named' \in [Shells -> BOOLEAN]
    BY <1>1 DEF SecurityTypes
  <1>11. ~named'[p]
    BY <1>1, <1>3, ScanStagesUnread DEF SecurityOf, Reading, BeforeScan
  <1>12. SecurityTypes' /\ SecurityOf(p)'
    BY <1>1, <1>2, <1>3, <1>5, <1>7, <1>9, <1>10, <1>11, SecurityMoves
  <1>13. IgnoresOwned'
    <2>1. Owned(Security!ReadIgnores)'
      <3>1. Owned(Security!ReadIgnores) /\ Owned(document[p]) /\ Owned(Security!NoIgnores)
        BY DEF IgnoresOwned, Owned, Security!NoIgnores, Security!IgnoresOf
      <3>2. Security!ReadIgnores' \in {Security!ReadIgnores, document[p], Security!NoIgnores}
        BY <1>8 DEF Security!ReadIgnores, Security!File
      <3>3. QED BY <1>1, <3>1, <3>2 DEF Owned
    <2>2. ASSUME NEW q \in Shells PROVE Owned(document[q])'
      <3>1. Owned(Security!MergeDefaultIgnores(Security!ReadIgnores))
        BY DEF IgnoresOwned, Owned, Security!MergeDefaultIgnores,
               Security!IgnoresOf, Security!DefaultIgnores
      <3>2. document'[q] \in {document[q], Security!MergeDefaultIgnores(Security!ReadIgnores)}
        BY <1>6 DEF SecurityTypes
      <3>3. Owned(document[q])
        BY DEF IgnoresOwned
      <3>4. QED BY <1>1, <3>1, <3>2, <3>3 DEF Owned
    <2>3. QED BY <2>1, <2>2 DEF IgnoresOwned
  <1>14. QED BY <1>12, <1>13

\* The steps of foxguard.
LEMMA SecurityRunsFoxguard ==
    ASSUME Security!PolicyAssumption, SecurityInv, NEW p \in Shells,
           \/ Security!RunFoxguard(p) \/ Security!InstallFoxguard(p)
           \/ Security!RetryFoxguard(p)
    PROVE  SecurityTypes' /\ IgnoresOwned' /\ SecurityOf(p)'
  <1> USE DEF SecurityInv
  <1>1. /\ UNCHANGED <<github, tree, changes, config, foxguard_report, options,
                       todo, cut, document, named, exit, own, steady>>
        /\ security_stage[p] \in ScanStages \cup SecretsStages
    BY DEF Security!RunFoxguard, Security!InstallFoxguard,
           Security!RetryFoxguard, Security!environment, Security!files,
           Security!history, ScanStages, SecretsStages
  <1>2. IgnoresOwned'
    BY <1>1 DEF IgnoresOwned, Owned, Security!ReadIgnores
  <1>3. security_stage[p] \in BeforeScan \cup SecretsStages
    BY <1>1 DEF ScanStages, BeforeScan
  <1>4. Security!FoxguardMode(p) =
            IF security_stage[p] \in BeforeScan THEN "scan" ELSE "secrets"
    BY <1>1, ScanStagesUnread
    DEF Security!FoxguardMode, ScanStages, BeforeScan, SecretsStages
  <1>5. CASE Security!FoxguardAnswers(p) /\ UNCHANGED foxguard
    BY <1>1, <1>2, <1>3, <1>4, <1>5, SecurityScans
  <1>6. CASE Security!FoxguardFails(p) /\ UNCHANGED foxguard
    BY <1>1, <1>2, <1>3, <1>6, SecurityScanFails
  <1>7. CASE /\ UNCHANGED <<part, alerts, skipped>>
             /\ foxguard' \in {foxguard, "cargo_bin", "path"}
             /\ \E K \in {BeforeScan, SecretsStages} :
                  /\ security_stage[p] \in K
                  /\ \E t \in K : security_stage' = [security_stage EXCEPT ![p] = t]
    <2>1. PICK K \in {BeforeScan, SecretsStages} :
                  /\ security_stage[p] \in K
                  /\ \E t \in K : security_stage' = [security_stage EXCEPT ![p] = t]
      BY <1>7
    <2>2. PICK t \in K : security_stage' = [security_stage EXCEPT ![p] = t]
      BY <2>1
    <2>3. /\ foxguard' \in {"missing", "cargo_bin", "path"}
          /\ config'.text \in Security!Texts
          /\ foxguard_report'.text \in Security!Texts
          /\ DOMAIN document' = Shells /\ named' \in [Shells -> BOOLEAN]
          /\ skipped' \in [Shells -> SUBSET (Security!AlertSource \cup {"config"})]
          /\ skipped[p] \subseteq skipped'[p]
      BY <1>1, <1>7 DEF SecurityTypes
    <2>4. ~named'[p]
      BY <1>1, <1>3, ScanStagesUnread
      DEF SecurityOf, Reading, BeforeScan, SecretsStages
    <2>5. SecurityTypes' /\ SecurityOf(p)'
      BY <1>1, <1>7, <2>1, <2>2, <2>3, <2>4, SecurityMoves
    <2>6. QED BY <1>2, <2>5
  <1>8. CASE Security!RunFoxguard(p)
    <2>1. \/ Security!FoxguardAnswers(p) \/ Security!FoxguardFails(p)
          \/ /\ UNCHANGED <<part, alerts, skipped>>
             /\ \/ /\ security_stage[p] = "scan"
                   /\ security_stage' = [security_stage EXCEPT ![p] = "install_scan"]
                \/ /\ security_stage[p] = "secrets"
                   /\ security_stage' = [security_stage EXCEPT ![p] = "install_secrets"]
      BY <1>8 DEF Security!RunFoxguard, Security!Goto
    <2>2. UNCHANGED foxguard
      BY <1>8 DEF Security!RunFoxguard, Security!files
    <2>3. QED BY <1>5, <1>6, <1>7, <2>1, <2>2 DEF BeforeScan, SecretsStages
  <1>9. CASE Security!InstallFoxguard(p)
    <2>1. \/ Security!FoxguardFails(p) /\ UNCHANGED foxguard
          \/ /\ UNCHANGED <<part, alerts, skipped>>
             /\ foxguard' \in {foxguard, "cargo_bin", "path"}
             /\ \/ /\ security_stage[p] = "install_scan"
                   /\ security_stage' = [security_stage EXCEPT ![p] = "retry_scan"]
                \/ /\ security_stage[p] = "install_secrets"
                   /\ security_stage' = [security_stage EXCEPT ![p] = "retry_secrets"]
      BY <1>9 DEF Security!InstallFoxguard, Security!Goto
    <2>2. QED BY <1>6, <1>7, <2>1 DEF BeforeScan, SecretsStages
  <1>10. CASE Security!RetryFoxguard(p)
    BY <1>5, <1>6, <1>10 DEF Security!RetryFoxguard, Security!files
  <1>11. QED BY <1>8, <1>9, <1>10

\* The separate report is written; a failure ends the command.
LEMMA SecurityReports ==
    ASSUME Security!PolicyAssumption, SecurityInv, NEW p \in Shells,
           Security!WriteReport(p) \/ Security!FillReport(p)
    PROVE  SecurityTypes' /\ IgnoresOwned' /\ SecurityOf(p)'
  <1> USE DEF SecurityInv
  <1>1. /\ UNCHANGED <<github, tree, changes, foxguard, config, options, todo,
                       part, alerts, skipped, cut, document, own, steady>>
        /\ security_stage[p] \in {"report", "fill_report"}
    BY DEF Security!WriteReport, Security!FillReport, Security!environment,
           Security!history
  <1>2. IgnoresOwned'
    BY <1>1 DEF IgnoresOwned, Owned, Security!ReadIgnores
  <1>3. ~named[p]
    BY <1>1 DEF SecurityOf, Reading
  <1>4. CASE /\ security_stage' = [security_stage EXCEPT ![p] = "done"]
             /\ exit' = [exit EXCEPT ![p] = "operational_error"]
             /\ foxguard_report'.text \in Security!Texts /\ UNCHANGED named
    BY <1>1, <1>3, <1>4, SecurityEnds
  <1>5. CASE /\ \E t \in Reporting :
                  /\ security_stage' = [security_stage EXCEPT ![p] = t]
                  /\ named' = named \/ t = "verdict"
             /\ UNCHANGED exit
             /\ foxguard_report'.text \in Security!Texts
             /\ named' \in [Shells -> BOOLEAN]
    <2>1. PICK t \in Reporting :
                  /\ security_stage' = [security_stage EXCEPT ![p] = t]
                  /\ named' = named \/ t = "verdict"
      BY <1>5
    <2>2. /\ foxguard' \in {"missing", "cargo_bin", "path"}
          /\ config'.text \in Security!Texts
          /\ DOMAIN document' = Shells
          /\ skipped' \in [Shells -> SUBSET (Security!AlertSource \cup {"config"})]
          /\ skipped[p] \subseteq skipped'[p]
      BY <1>1 DEF SecurityTypes
    <2>3. security_stage[p] \in Reporting /\ (named'[p] => t = "verdict")
      BY <1>1, <1>3, <2>1 DEF Reporting
    <2>4. SecurityTypes' /\ SecurityOf(p)'
      BY <1>1, <1>5, <2>1, <2>2, <2>3, SecurityMoves
    <2>5. QED BY <1>2, <2>4
  <1>6. CASE Security!WriteReport(p)
    <2>1. /\ UNCHANGED named
          /\ \/ /\ security_stage' = [security_stage EXCEPT ![p] = "verdict"]
                /\ UNCHANGED <<foxguard_report, exit>>
             \/ /\ foxguard_report' = [Security!NoReport EXCEPT !.text = "empty", !.by = p]
                /\ security_stage' = [security_stage EXCEPT ![p] = "fill_report"]
                /\ UNCHANGED exit
             \/ /\ security_stage' = [security_stage EXCEPT ![p] = "done"]
                /\ exit' = [exit EXCEPT ![p] = "operational_error"]
                /\ UNCHANGED foxguard_report
      BY <1>6 DEF Security!WriteReport, Security!Exit, Security!Goto
    <2>2. foxguard_report'.text \in Security!Texts
      BY <2>1 DEF SecurityTypes, Security!NoReport, Security!Texts
    <2>3. named' \in [Shells -> BOOLEAN]
      BY <2>1 DEF SecurityTypes
    <2>4. QED BY <1>4, <1>5, <2>1, <2>2, <2>3 DEF Reporting
  <1>7. CASE Security!FillReport(p)
    <2>1. \/ /\ security_stage' = [security_stage EXCEPT ![p] = "verdict"]
             /\ named' = [named EXCEPT ![p] = TRUE] /\ UNCHANGED exit
             /\ foxguard_report'.text \in {"whole", "mixed"}
          \/ /\ security_stage' = [security_stage EXCEPT ![p] = "done"]
             /\ exit' = [exit EXCEPT ![p] = "operational_error"]
             /\ foxguard_report' = foxguard_report
                \/ foxguard_report'.text = "mixed"
             /\ UNCHANGED named
      <3> DEFINE torn == [Security!NoReport EXCEPT !.text = "mixed", !.by = p]
      <3>1. \/ /\ \E text \in {"whole", "mixed"} :
                    foxguard_report' =
                      [text |-> text, by |-> p,
                       groups |-> Security!FoxguardReport(Security!FoxguardAlerts(p))]
               /\ named' = [named EXCEPT ![p] = TRUE]
               /\ Security!Goto(p, "verdict") /\ UNCHANGED exit
            \/ /\ UNCHANGED foxguard_report \/ foxguard_report' = torn
               /\ Security!Exit(p, "operational_error") /\ UNCHANGED named
        BY <1>7 DEF Security!FillReport
      <3>2. torn.text = "mixed"
        BY DEF Security!NoReport
      <3> HIDE DEF torn
      <3>3. QED BY <3>1, <3>2 DEF Security!Goto, Security!Exit
    <2>2. named' \in [Shells -> BOOLEAN]
      BY <2>1 DEF SecurityTypes
    <2>3. foxguard_report'.text \in Security!Texts
      BY <2>1 DEF SecurityTypes, Security!Texts
    <2>4. QED BY <1>4, <1>5, <2>1, <2>2, <2>3 DEF Reporting
  <1>8. QED BY <1>6, <1>7

\* The verdict: a pass has nothing that blocks among its alerts.
LEMMA SecurityJudges ==
    ASSUME Security!PolicyAssumption, SecurityInv, NEW p \in Shells,
           Security!Verdict(p)
    PROVE  SecurityTypes' /\ IgnoresOwned' /\ SecurityOf(p)'
  <1> USE DEF SecurityInv
  <1> DEFINE e == IF options[p].no_errors
                     \/ \A a \in Security!Matched(p) : ~Security!Blocking(a)
                  THEN "success" ELSE "policy_violation"
  <1>1. /\ UNCHANGED <<github, tree, changes, foxguard, config, foxguard_report,
                       options, todo, part, alerts, skipped, cut, document,
                       named, own, steady>>
        /\ security_stage[p] = "verdict"
        /\ exit' = [exit EXCEPT ![p] = e]
        /\ security_stage' = [security_stage EXCEPT ![p] = "done"]
    BY DEF Security!Verdict, Security!Exit, Security!Goto,
           Security!environment, Security!files, Security!history
  <1>2. IgnoresOwned'
    BY <1>1 DEF IgnoresOwned, Owned, Security!ReadIgnores
  <1>3. security_stage'[p] = "done" /\ exit'[p] = e
    BY <1>1 DEF SecurityTypes
  <1>4. Security!Matched(p)' = Security!Matched(p)
    BY <1>1 DEF Security!Matched
  <1>5. Verdicts(p)'
    BY <1>1, <1>3, <1>4 DEF Verdicts
  <1>6. e \in {"success", "policy_violation"}
    OBVIOUS
  <1> HIDE DEF e
  <1>7. SecurityTypes'
    <2>1. security_stage' \in [Shells -> Security!Stages]
      BY <1>1, SecurityConstants DEF SecurityTypes
    <2>2. exit' \in [Shells -> Security!ExitCodes \cup {None}]
      BY <1>1, <1>6 DEF SecurityTypes, Security!ExitCodes
    <2>3. QED BY <1>1, <2>1, <2>2 DEF SecurityTypes
  <1>8. \A a \in alerts[p] \cup steady[p] :
          "done" \notin Unread(a.source) /\ "verdict" \notin Unread(a.source)
    BY ScanStagesUnread, AlertFields, SteadyTypes DEF SecurityTypes, Reporting
  <1>9. Reading(p)'
    <2>1. exit'[p] # None /\ exit'[p] # "operational_error"
      BY <1>3, <1>6, SecurityConstants DEF Security!ExitCodes
    <2>2. QED
      BY <1>1, <1>3, <1>8, <2>1
      DEF SecurityOf, Reading, GithubStages, SecretsStages
  <1>10. Seen(p)'
    <2>1. SUFFICES ASSUME Complete(p), NEW a \in steady[p],
                          Security!Selected(options[p], a)
                   PROVE  a \in alerts[p]
      <3>1. Complete(p)' = Complete(p)
        BY <1>1 DEF Complete
      <3>2. \A a : Security!Selected(options[p], a)' = Security!Selected(options[p], a)
        BY <1>1 DEF Security!Selected
      <3>3. QED BY <1>1, <1>3, <1>8, <3>1, <3>2 DEF Seen
    <2>2. QED BY <1>1, <1>8, <2>1 DEF SecurityOf, Seen
  <1>11. QED BY <1>2, <1>5, <1>7, <1>9, <1>10 DEF SecurityOf

\* git fails, or the command is stopped.
LEMMA SecurityAborts ==
    ASSUME Security!PolicyAssumption, SecurityInv, NEW p \in Shells,
           Security!GitFails(p) \/ Security!Stop(p)
    PROVE  SecurityTypes' /\ IgnoresOwned' /\ SecurityOf(p)'
  <1>1. /\ UNCHANGED <<github, tree, changes, foxguard, config, foxguard_report,
                       options, todo, part, alerts, skipped, cut, document,
                       named, own, steady>>
        /\ security_stage[p] # "done"
        /\ security_stage' = [security_stage EXCEPT ![p] = "done"]
        /\ \/ /\ security_stage[p] = "idle"
              /\ exit' = [exit EXCEPT ![p] = "operational_error"]
           \/ exit' = [exit EXCEPT ![p] = "stopped"]
    BY DEF Security!GitFails, Security!Stop, Security!Exit, Security!Goto,
           Security!environment, Security!files, Security!history,
           Security!Ended
  <1>2. security_stage[p] = "idle" => ~named[p]
    BY DEF SecurityInv, SecurityOf, Reading
  <1>3. foxguard_report'.text \in Security!Texts
    BY <1>1 DEF SecurityInv, SecurityTypes
  <1>4. QED BY <1>1, <1>2, <1>3, SecurityEnds

\* The world changes: what did not stay as it was is not claimed any more.
LEMMA SecurityWorld ==
    ASSUME Security!PolicyAssumption, SecurityInv,
           Security!Triage \/ Security!Edit
    PROVE  SecurityInv'
  <1> USE DEF SecurityInv
  <1>1. /\ changes < MaxChanges /\ changes' = changes + 1
        /\ steady' = [p \in Shells |-> steady[p] \cap Security!Present(github', tree')]
        /\ UNCHANGED <<foxguard, config, foxguard_report, security_stage,
                       options, todo, part, alerts, skipped, cut, document,
                       named, exit, own, overlapped>>
    BY DEF Security!Triage, Security!Edit, Security!Change, Security!files,
           Security!command
  <1>2. github' \in [Alerts -> Security!States \cup {None}]
    BY DEF Security!Triage, Security!Edit, SecurityTypes
  <1>3. tree' \subseteq Findings
    BY DEF Security!Triage, Security!Edit, SecurityTypes
  <1>4. changes' \in 0..MaxChanges
    BY <1>1 DEF SecurityTypes, Security!PolicyAssumption
  <1>5. SecurityTypes'
    <2>1. steady' \in [Shells -> SUBSET Security!Present(github', tree')]
      BY <1>1
    <2>2. QED BY <1>1, <1>2, <1>3, <1>4, <2>1 DEF SecurityTypes
  <1>6. IgnoresOwned'
    BY <1>1 DEF IgnoresOwned, Owned, Security!ReadIgnores
  <1>7. \A p \in Shells : Same(p)
    BY <1>1 DEF Same
  <1>8. QED BY <1>1, <1>5, <1>6, <1>7, SameKeeps DEF SecurityOf

LEMMA InitSecurity ==
    ASSUME Security!PolicyAssumption, Security!Init
    PROVE  SecurityInv
  <1> USE DEF Security!Init
  <1>1. SecurityTypes
    <2>1. /\ github \in [Alerts -> Security!States \cup {None}]
          /\ foxguard \in {"missing", "cargo_bin", "path"}
          /\ 0 \in 0..MaxChanges
      BY DEF Security!PolicyAssumption
    <2>2. config.text \in Security!Texts /\ foxguard_report.text \in Security!Texts
      BY DEF Security!NoConfigFile, Security!File, Security!NoReport, Security!Texts
    <2>3. "idle" \in Security!Stages
      BY SecurityConstants
    <2>4. <<>> \in Seq(Security!States)
      OBVIOUS
    <2>5. QED BY <2>1, <2>2, <2>3, <2>4 DEF SecurityTypes
  <1>2. IgnoresOwned
    BY DEF IgnoresOwned, Owned, Security!ReadIgnores, Security!NoConfigFile,
           Security!File, Security!NoIgnores, Security!IgnoresOf
  <1>3. ASSUME NEW p \in Shells PROVE SecurityOf(p)
    BY <1>3, SecurityConstants
    DEF SecurityOf, Reading, Seen, Verdicts, GithubStages, SecretsStages,
        Security!ExitCodes
  <1>4. QED BY <1>1, <1>2, <1>3 DEF SecurityInv

LEMMA SecurityStep ==
    ASSUME Security!PolicyAssumption, SecurityInv, NEW p \in Shells, Command(p)
    PROVE  SecurityInv'
  <1>1. SecurityTypes' /\ IgnoresOwned' /\ SecurityOf(p)'
    BY SecurityBegins, SecurityQueries, SecurityConfigures,
       SecurityRunsFoxguard, SecurityReports, SecurityJudges, SecurityAborts
    DEF Command
  <1>2. own' = own
    BY DEF Command, Security!Begin, Security!GitFails, Security!Query,
       Security!ReadConfig, Security!TruncateConfig, Security!FillConfig,
       Security!RunFoxguard, Security!InstallFoxguard, Security!RetryFoxguard,
       Security!WriteReport, Security!FillReport, Security!Verdict,
       Security!Stop, Security!history
  <1>3. \A q \in Shells \ {p} : Same(q)
    BY OthersStay DEF SecurityInv
  <1>4. \A q \in Shells \ {p} : SecurityOf(q)'
    BY <1>2, <1>3, SameKeeps DEF SecurityInv, SecurityOf
  <1>5. QED BY <1>1, <1>4 DEF SecurityInv

LEMMA SecurityNext ==
    ASSUME Security!PolicyAssumption, SecurityInv, [Security!Next]_(Security!vars)
    PROVE  SecurityInv'
  <1>1. CASE Security!Triage \/ Security!Edit
    BY <1>1, SecurityWorld
  <1>2. CASE \E p \in Shells : Command(p)
    BY <1>2, SecurityStep
  <1>3. CASE UNCHANGED Security!vars
    <2>1. UNCHANGED <<github, tree, changes, foxguard, config, foxguard_report,
                      security_stage, options, todo, part, alerts, skipped, cut,
                      document, named, exit, own, overlapped, steady>>
      BY <1>3 DEF Security!vars, Security!environment, Security!files,
                  Security!command, Security!history
    <2>2. SecurityTypes'
      BY <2>1 DEF SecurityInv, SecurityTypes
    <2>3. IgnoresOwned'
      BY <2>1 DEF SecurityInv, IgnoresOwned, Owned, Security!ReadIgnores
    <2>4. \A p \in Shells : Same(p)
      BY <2>1 DEF Same
    <2>5. QED BY <2>1, <2>2, <2>3, <2>4, SameKeeps DEF SecurityInv, SecurityOf
  <1>4. QED BY <1>1, <1>2, <1>3 DEF Security!Next, Command

\* A pass without a warning, with every request answered in full, saw
\* everything that could block it and stayed as it was while the command ran
\* (run_inner, apply_policy).
THEOREM NothingBlockingIsMissed ==
    ASSUME Security!PolicyAssumption
    PROVE  Security!Spec => []PassMeansClean
  <1>1. SecurityInv => PassMeansClean
    <2>1. SUFFICES ASSUME SecurityInv, NEW p \in Shells,
                          exit[p] = "success", ~options[p].no_errors,
                          Complete(p), NEW a \in steady[p],
                          Security!Selected(options[p], a)
                   PROVE  ~Security!Blocking(a)
      BY DEF PassMeansClean, Security!PassMeansClean, Complete
    <2>2. security_stage[p] = "done"
      <3>1. exit[p] # None
        BY <2>1, SecurityConstants DEF Security!ExitCodes
      <3>2. QED BY <2>1, <3>1 DEF SecurityInv, SecurityOf, Reading
    <2>3. security_stage[p] \notin Unread(a.source)
      BY <2>1, <2>2, ScanStagesUnread, AlertFields, SteadyTypes DEF SecurityInv
    <2>4. a \in alerts[p]
      BY <2>1, <2>2, <2>3 DEF SecurityInv, SecurityOf, Seen, Judged
    <2>5. a \in Security!Matched(p)
      BY <2>1, <2>4 DEF Security!Selected, Security!Matched
    <2>6. QED BY <2>1, <2>5 DEF SecurityInv, SecurityOf, Verdicts
  <1>2. QED BY <1>1, InitSecurity, SecurityNext, PTL DEF Security!Spec

\* SecurityReport keeps its types; a command has no alert twice, and names a
\* report only when it ended with its verdict.
THEOREM ReportsTyped ==
    ASSUME Security!PolicyAssumption
    PROVE  Security!Spec => []Security!TypeOK
  <1>1. SecurityInv => Security!TypeOK
    <2>1. SUFFICES ASSUME SecurityInv PROVE Security!TypeOK
      OBVIOUS
    <2>2. SecurityTypes /\ \A p \in Shells : Reading(p)
      BY <2>1 DEF SecurityInv, SecurityOf
    <2>3. Security!Range(Security!GithubSources) = GithubStages
      BY SecurityConstants
    <2>4. \A p \in Shells : alerts[p] \cap part[p] = {}
      BY <2>2 DEF Reading
    <2>5. \A p \in Shells : skipped[p] \subseteq Security!AlertSource \cup {"config"}
      BY <2>2 DEF SecurityTypes
    <2>6. QED BY <2>2, <2>3, <2>4, <2>5 DEF SecurityTypes, Reading, Security!TypeOK
  <1>2. QED BY <1>1, InitSecurity, SecurityNext, PTL DEF Security!Spec

\* Apart from the steps of .foxguard.yml and Stop, no step of a command comes
\* from or leads to an update of that file.
LEMMA ElsewhereStays ==
    ASSUME Security!PolicyAssumption, SecurityTypes, NEW p \in Shells, Command(p),
           ~(\/ Security!ReadConfig(p) \/ Security!TruncateConfig(p)
             \/ Security!FillConfig(p) \/ Security!Stop(p))
    PROVE  /\ UNCHANGED <<config, document, own, overlapped>>
           /\ security_stage[p] \notin Security!Updating
           /\ security_stage'[p] \notin Security!Updating
  <1> USE DEF SecurityTypes, Security!Updating, Security!files, Security!history,
              Security!Goto, Security!Exit
  <1>1. CASE \E opts \in SecurityCommandLines : Security!Begin(p, opts)
    <2>1. PICK opts \in SecurityCommandLines : Security!Begin(p, opts)
      BY <1>1
    <2>2. After("idle", Security!SourceFrom(1, opts), opts)
      BY NextSource
    <2>3. QED BY <2>1, <2>2 DEF Security!Begin, Security!Enter, After, GithubStages
  <1>2. CASE Security!Query(p)
    <2>1. security_stage[p] \in GithubStages
      BY <1>2, SecurityConstants DEF Security!Query
    <2>2. \/ UNCHANGED security_stage
          \/ security_stage' = [security_stage EXCEPT ![p] =
                 Security!SourceFrom(Security!SourceIndex(p) + 1, options[p])]
      BY <1>2 DEF Security!Query, Security!Answered, Security!Unavailable,
         Security!Refused, Security!Keep, Security!Enter
    <2>3. After(security_stage[p],
                Security!SourceFrom(Security!SourceIndex(p) + 1, options[p]),
                options[p])
      <3> DEFINE k == Security!SourceIndex(p)
                 i == k + 1
      <3>1. i \in 1..4 /\ i # 1 /\ Security!GithubSources[i - 1] = security_stage[p]
        <4>1. k \in 1..3 /\ Security!GithubSources[k] = security_stage[p]
          BY <2>1, SourceIndexOf
        <4> HIDE DEF k
        <4>2. i - 1 = k
          BY <4>1
        <4>3. QED BY <4>1, <4>2
      <3> HIDE DEF i
      <3>2. After(security_stage[p], Security!SourceFrom(i, options[p]), options[p])
        BY <3>1, NextSource
      <3>3. QED BY <3>2 DEF i
    <2>4. QED BY <1>2, <2>1, <2>2, <2>3 DEF Security!Query, After, GithubStages
  <1>3. CASE Security!GitFails(p) \/ Security!Verdict(p)
    BY <1>3 DEF Security!GitFails, Security!Verdict
  <1>4. CASE \/ Security!RunFoxguard(p) \/ Security!InstallFoxguard(p)
             \/ Security!RetryFoxguard(p)
    BY <1>4 DEF Security!RunFoxguard, Security!InstallFoxguard,
       Security!RetryFoxguard, Security!FoxguardAnswers, Security!FoxguardFails
  <1>5. CASE Security!WriteReport(p) \/ Security!FillReport(p)
    BY <1>5 DEF Security!WriteReport, Security!FillReport
  <1>6. QED BY <1>1, <1>2, <1>3, <1>4, <1>5 DEF Command

\* The owner's ignores survive an update: the one command that is updating
\* has them in its document, and everybody else finds them in the file.
LEMMA IgnoresKeptStep ==
    ASSUME Security!PolicyAssumption, SecurityTypes, IgnoresKept, NEW p \in Shells, Command(p)
    PROVE  IgnoresKept'
  <1> USE DEF SecurityTypes
  <1>1. CASE Security!ReadConfig(p)
    <2>1. SUFFICES ASSUME overlapped' = {} PROVE IgnoresKept'
      BY DEF IgnoresKept
    <2>2. /\ overlapped = {}
          /\ \A q \in Shells : security_stage[q] \notin Security!Updating
          /\ UNCHANGED <<config, own>>
      BY <1>1, <2>1 DEF Security!ReadConfig, Security!files
    <2>3. Keeps(Security!ReadIgnores)
      BY <2>2 DEF IgnoresKept, Security!Updating
    <2>4. Keeps(Security!MergeDefaultIgnores(Security!ReadIgnores))
      BY <2>3 DEF Keeps, Security!MergeDefaultIgnores, Security!IgnoresOf
    <2>5. \/ /\ security_stage' = [security_stage EXCEPT ![p] = "scan"]
          \/ /\ security_stage' = [security_stage EXCEPT ![p] = "truncate"]
             /\ document' = [document EXCEPT ![p] =
                                Security!MergeDefaultIgnores(Security!ReadIgnores)]
      BY <1>1 DEF Security!ReadConfig, Security!Goto
    <2>6. \A q \in Shells : security_stage'[q] \in Security!Updating =>
            /\ q = p /\ security_stage'[q] = "truncate"
            /\ document'[q] = Security!MergeDefaultIgnores(Security!ReadIgnores)
      BY <2>2, <2>5 DEF Security!Updating
    <2>7. Keeps(Security!ReadIgnores)'
      BY <2>2, <2>3 DEF Keeps, Security!ReadIgnores
    <2>8. \A q \in Shells : security_stage'[q] \in Security!Updating => Keeps(document[q])'
      BY <2>2, <2>4, <2>6 DEF Keeps
    <2>9. QED BY <2>6, <2>7, <2>8 DEF IgnoresKept, Security!Updating
  <1>2. CASE Security!TruncateConfig(p)
    <2>1. SUFFICES ASSUME overlapped' = {} PROVE IgnoresKept'
      BY DEF IgnoresKept
    <2>2. /\ security_stage[p] = "truncate"
          /\ UNCHANGED <<document, own, overlapped>>
          /\ \/ /\ config' = Security!File("empty", Security!NoIgnores)
                /\ security_stage' = [security_stage EXCEPT ![p] = "fill"]
             \/ /\ config' = config
                /\ security_stage' = [security_stage EXCEPT ![p] = "scan"]
      BY <1>2 DEF Security!TruncateConfig, Security!Goto, Security!history
    <2>3. /\ overlapped = {} /\ Keeps(document[p])
          /\ \A q \in Shells : security_stage[q] \in Security!Updating => q = p
      BY <2>1, <2>2 DEF IgnoresKept, Security!Updating
    <2>4. Keeps(Security!ReadIgnores)
      BY <2>2, <2>3 DEF IgnoresKept, Security!Updating
    <2>5. \A q \in Shells : security_stage'[q] \in Security!Updating =>
            /\ q = p /\ security_stage'[p] = "fill"
            /\ config' = Security!File("empty", Security!NoIgnores)
      BY <2>2, <2>3 DEF Security!Updating
    <2>6. (\A q \in Shells : security_stage'[q] # "fill") => Keeps(Security!ReadIgnores)'
      BY <2>2, <2>4 DEF Keeps, Security!ReadIgnores
    <2>7. Keeps(document[p])'
      BY <2>2, <2>3 DEF Keeps
    <2>8. QED
      BY <2>5, <2>6, <2>7 DEF IgnoresKept, Security!File, Security!Updating
  <1>3. CASE Security!FillConfig(p)
    <2>1. SUFFICES ASSUME overlapped' = {} PROVE IgnoresKept'
      BY DEF IgnoresKept
    <2>2. /\ security_stage[p] = "fill" /\ "stopped" \notin overlapped'
          /\ UNCHANGED <<document, own, overlapped>>
          /\ security_stage' = [security_stage EXCEPT ![p] = "scan"]
      BY <1>3, <2>1 DEF Security!FillConfig, Security!Goto
    <2>3. /\ overlapped = {} /\ Keeps(document[p]) /\ config.text = "empty"
          /\ \A q \in Shells : security_stage[q] \in Security!Updating => q = p
      BY <2>1, <2>2 DEF IgnoresKept, Security!Updating
    <2>4. config' = Security!File("whole", document[p])
      BY <1>3, <2>2, <2>3 DEF Security!FillConfig
    <2>5. \A q \in Shells : security_stage'[q] \notin Security!Updating
      BY <2>2, <2>3 DEF Security!Updating
    <2>6. Keeps(Security!ReadIgnores)'
      BY <2>2, <2>3, <2>4 DEF Keeps, Security!ReadIgnores, Security!File
    <2>7. QED BY <2>5, <2>6 DEF IgnoresKept, Security!Updating
  <1>4. CASE Security!Stop(p)
    <2>1. SUFFICES ASSUME overlapped' = {} PROVE IgnoresKept'
      BY DEF IgnoresKept
    <2>2. /\ overlapped = {} /\ security_stage[p] \notin Security!Updating
          /\ UNCHANGED <<config, document, own>>
          /\ security_stage' = [security_stage EXCEPT ![p] = "done"]
      BY <1>4, <2>1 DEF Security!Stop, Security!Exit, Security!Goto, Security!files
    <2>3. \A q \in Shells :
            /\ security_stage'[q] \in Security!Updating <=>
                   security_stage[q] \in Security!Updating
            /\ security_stage'[q] = "fill" <=> security_stage[q] = "fill"
      BY <2>2 DEF Security!Updating
    <2>4. QED BY <2>2, <2>3 DEF IgnoresKept, Keeps, Security!ReadIgnores
  <1>5. CASE ~(\/ Security!ReadConfig(p) \/ Security!TruncateConfig(p)
               \/ Security!FillConfig(p) \/ Security!Stop(p))
    <2>1. /\ UNCHANGED <<config, document, own, overlapped>>
          /\ security_stage[p] \notin Security!Updating
          /\ security_stage'[p] \notin Security!Updating
      BY <1>5, ElsewhereStays
    <2>2. \A q \in Shells :
            /\ security_stage'[q] \in Security!Updating <=>
                   security_stage[q] \in Security!Updating
            /\ security_stage'[q] = "fill" <=> security_stage[q] = "fill"
      BY <2>1, OthersStay DEF Same, Security!Updating
    <2>3. QED BY <2>1, <2>2 DEF IgnoresKept, Keeps, Security!ReadIgnores
  <1>6. QED BY <1>1, <1>2, <1>3, <1>4, <1>5

\* While no command updates .foxguard.yml, every ignore of its owner is there,
\* unless two updates overlapped or one was stopped or failed half-way
\* (ensure_foxguard_default_ignores).
THEOREM OwnersIgnoresStay ==
    ASSUME Security!PolicyAssumption
    PROVE  Security!Spec => []OwnIgnoresKept
  <1>1. Security!Init => IgnoresKept
    <2>1. SUFFICES ASSUME Security!Init PROVE IgnoresKept
      OBVIOUS
    <2>2. Keeps(Security!ReadIgnores)
      BY <2>1 DEF Keeps, Security!Init, Security!ReadIgnores, Security!NoConfigFile,
         Security!File, Security!NoIgnores, Security!IgnoresOf
    <2>3. \A p \in Shells : security_stage[p] = "idle"
      BY <2>1 DEF Security!Init
    <2>4. QED BY <2>2, <2>3 DEF IgnoresKept, Security!Updating
  <1>2. SecurityInv /\ IgnoresKept /\ [Security!Next]_(Security!vars) => IgnoresKept'
    <2>1. SUFFICES ASSUME SecurityTypes, IgnoresKept, [Security!Next]_(Security!vars)
                   PROVE  IgnoresKept'
      BY DEF SecurityInv
    <2>2. CASE \E p \in Shells : Command(p)
      BY <2>1, <2>2, IgnoresKeptStep
    <2>3. CASE Security!Triage \/ Security!Edit \/ UNCHANGED Security!vars
      <3>1. UNCHANGED <<config, document, own, overlapped, security_stage>>
        BY <2>3 DEF Security!Triage, Security!Edit, Security!Change,
           Security!vars, Security!files, Security!command, Security!history
      <3>2. QED BY <2>1, <3>1 DEF IgnoresKept, Keeps, Security!ReadIgnores
    <2>4. QED BY <2>1, <2>2, <2>3 DEF Security!Next, Command
  <1>3. IgnoresKept => OwnIgnoresKept
    BY DEF IgnoresKept, Keeps, OwnIgnoresKept, Security!OwnIgnoresKept,
           Security!Updating
  <1>4. QED
    BY <1>1, <1>2, <1>3, InitSecurity, SecurityNext, PTL DEF Security!Spec

\* A command's own report lists its findings until another one is written.
LEMMA ListedStep ==
    ASSUME SecurityInv, \A p \in Shells : Listed(p),
           NEW q \in Shells, Command(q), NEW p \in Shells
    PROVE  Listed(p)'
  <1> USE DEF SecurityInv, SecurityTypes
  <1>1. CASE Security!FillReport(q)
    <2>1. /\ UNCHANGED <<alerts, options>>
          /\ \/ /\ foxguard_report'.by = q
                /\ foxguard_report'.groups =
                       Security!FoxguardReport(Security!FoxguardAlerts(q))
             \/ /\ UNCHANGED named
                /\ foxguard_report' = foxguard_report
                   \/ foxguard_report'.text = "mixed"
      <3> DEFINE groups == Security!FoxguardReport(Security!FoxguardAlerts(q))
                 torn == [Security!NoReport EXCEPT !.text = "mixed", !.by = q]
      <3>1. /\ UNCHANGED <<alerts, options>>
            /\ \/ \E text \in {"whole", "mixed"} :
                    foxguard_report' = [text |-> text, by |-> q, groups |-> groups]
               \/ /\ UNCHANGED foxguard_report \/ foxguard_report' = torn
                  /\ UNCHANGED named
        BY <1>1 DEF Security!FillReport
      <3>2. torn.text = "mixed"
        BY DEF Security!NoReport
      <3> HIDE DEF torn, groups
      <3>3. \/ /\ foxguard_report'.by = q /\ foxguard_report'.groups = groups
            \/ /\ UNCHANGED named
               /\ foxguard_report' = foxguard_report
                  \/ foxguard_report'.text = "mixed"
        BY <3>1, <3>2
      <3>4. QED BY <3>1, <3>3 DEF groups
    <2>2. Security!FoxguardAlerts(p)' = Security!FoxguardAlerts(p)
      BY <2>1 DEF Security!FoxguardAlerts, Security!Matched
    <2>3. QED BY <2>1, <2>2 DEF Listed
  <1>2. CASE Security!WriteReport(q)
    <2>1. \/ foxguard_report'.by = q
          \/ UNCHANGED foxguard_report
      BY <1>2 DEF Security!WriteReport, Security!NoReport
    <2>2. UNCHANGED <<named, alerts, options>>
      BY <1>2 DEF Security!WriteReport
    <2>3. ~named[q]
      BY <1>2 DEF Security!WriteReport, SecurityOf, Reading
    <2>4. Security!FoxguardAlerts(p)' = Security!FoxguardAlerts(p)
      BY <2>2 DEF Security!FoxguardAlerts, Security!Matched
    <2>5. QED BY <2>1, <2>2, <2>3, <2>4 DEF Listed
  <1>3. CASE ~Security!FillReport(q) /\ ~Security!WriteReport(q)
    <2>1. UNCHANGED <<foxguard_report, named>>
      BY <1>3
      DEF Command, Security!Begin, Security!GitFails, Security!Query,
          Security!ReadConfig, Security!TruncateConfig, Security!FillConfig,
          Security!RunFoxguard, Security!InstallFoxguard,
          Security!RetryFoxguard, Security!Verdict, Security!Stop,
          Security!files
    <2>2. named[p] => alerts'[p] = alerts[p] /\ options'[p] = options[p]
      <3>1. CASE p # q
        BY <3>1, OthersStay DEF Same
      <3>2. CASE p = q /\ named[p]
        <4>1. security_stage[q] \in {"verdict", "done"}
          BY <3>2 DEF SecurityOf, Reading
        <4>2. Security!Verdict(q) \/ Security!Stop(q)
          BY <1>3, <4>1, SecurityConstants
          DEF Command, Security!Begin, Security!GitFails, Security!Query,
              Security!ReadConfig, Security!TruncateConfig, Security!FillConfig,
              Security!RunFoxguard, Security!InstallFoxguard,
              Security!RetryFoxguard, Security!Range, Security!GithubSources
        <4>3. QED BY <3>2, <4>2 DEF Security!Verdict, Security!Stop
      <3>3. QED BY <3>1, <3>2
    <2>3. named[p] => Security!FoxguardAlerts(p)' = Security!FoxguardAlerts(p)
      BY <2>2 DEF Security!FoxguardAlerts, Security!Matched
    <2>4. QED BY <2>1, <2>3 DEF Listed
  <1>4. QED BY <1>1, <1>2, <1>3

\* No alert that the verdict rests on is hidden: the output lists it, or the
\* report it names does, as long as that report is the command's own
\* (render_markdown_with_instructions, write_foxguard_report).
THEOREM EveryAlertIsListed ==
    ASSUME Security!PolicyAssumption
    PROVE  Security!Spec => []NothingHidden
  <1> DEFINE AllListed == \A p \in Shells : Listed(p)
  <1>1. Security!Init => AllListed
    BY DEF Security!Init, Listed
  <1>2. SecurityInv /\ AllListed /\ [Security!Next]_(Security!vars) => AllListed'
    <2>1. SUFFICES ASSUME SecurityInv, AllListed, [Security!Next]_(Security!vars),
                          NEW p \in Shells
                   PROVE  Listed(p)'
      OBVIOUS
    <2>2. CASE \E q \in Shells : Command(q)
      BY <2>1, <2>2, ListedStep
    <2>3. CASE Security!Triage \/ Security!Edit \/ UNCHANGED Security!vars
      <3>1. UNCHANGED <<foxguard_report, named, alerts, options>>
        BY <2>3 DEF Security!Triage, Security!Edit, Security!Change,
           Security!vars, Security!files, Security!command, Security!history
      <3>2. Security!FoxguardAlerts(p)' = Security!FoxguardAlerts(p)
        BY <3>1 DEF Security!FoxguardAlerts, Security!Matched
      <3>3. QED BY <2>1, <3>1, <3>2 DEF Listed
    <2>4. QED BY <2>1, <2>2, <2>3 DEF Security!Next, Command
  <1>3. AllListed => NothingHidden
    <2>1. SUFFICES ASSUME AllListed, NEW p \in Shells,
                          NEW a \in Security!Matched(p),
                          a \notin Security!Inline(Security!Matched(p), named[p]),
                          foxguard_report.by = p, foxguard_report.text # "mixed"
                   PROVE  \E c \in Security!Categories : a \in foxguard_report.groups[c]
      BY DEF NothingHidden, Security!NothingHidden
    <2>2. named[p] /\ a \in Security!FoxguardAlerts(p)
      BY <2>1 DEF Security!Inline, Security!FoxguardAlerts
    <2>3. foxguard_report.groups =
              Security!FoxguardReport(Security!FoxguardAlerts(p))
      BY <2>1, <2>2 DEF Listed
    <2>4. Security!Categorize(a) \in Security!Categories
      BY DEF Security!Categorize, Security!Categories
    <2>5. a \in foxguard_report.groups[Security!Categorize(a)]
      BY <2>2, <2>3, <2>4 DEF Security!FoxguardReport
    <2>6. QED BY <2>4, <2>5
  <1> HIDE DEF AllListed
  <1>4. QED
    BY <1>1, <1>2, <1>3, InitSecurity, SecurityNext, PTL DEF Security!Spec

-----------------------------------------------------------------------------
\* The types of the three modules, side by side.
THEOREM PipelineTyped ==
    ASSUME Security!PolicyAssumption, Coverage!CoverageAssumption,
           Releases!ReleaseAssumption
    PROVE  Security!Spec /\ Coverage!Spec /\ Releases!Spec => []TypesOK
  <1>1. CoverageInv => Coverage!TypeOK
    BY DEF CoverageInv, CoverageTypes, CoverageOf, Ensuring, Coverage!TypeOK
  <1>2. Coverage!Spec => []Coverage!TypeOK
    BY <1>1, CoverageInvariant, PTL
  <1>3. Security!TypeOK /\ Coverage!TypeOK /\ Releases!TypeOK => TypesOK
    BY DEF TypesOK
  <1>4. QED BY <1>2, <1>3, ReportsTyped, LookupsTyped, PTL

=============================================================================
