-------------------------- MODULE ToolInstallProofs --------------------------
(***************************************************************************)
(* Proofs about ToolInstall, for every catalogue, set of shells and        *)
(* channels, and every order in which crates are published.                *)
(*                                                                         *)
(* The inductive invariant relates what a command remembers to the index:  *)
(* what it knew when it started is still there (Begun), the version it     *)
(* asks for is new enough (Pinned), the tools before its position are      *)
(* accounted for (Passed), a pin another shell resolved since it began is  *)
(* new enough for it (PinsKnow), the tools it succeeded for have not been  *)
(* replaced by something older (Fresh), and a binary nobody touched by     *)
(* hand is the one on record (OnRecord).                                   *)
(***************************************************************************)
EXTENDS ToolInstall, TLAPS

Working == {"resolve", "install"}
Finished == {"done", "incomplete"}

Begun == \A p \in Procs, t \in ToolNames : begun[p][t] \subseteq index[t]

PinOf(p) ==
    pc[p] = "install" =>
      /\ Left(p)
      /\ IF channel[p] = "rnd"
         THEN pin[p] \in Versions /\ NewEnough(p, Tool(p), pin[p])
         ELSE pin[p] = NoPin
Pinned == \A p \in Procs : PinOf(p)

\* The tool is accounted for.
Settled(p, tool) == \/ tool \in failed[p] \/ tool \in moved[p]
                    \/ channel[p] = "rnd" /\ begun[p][tool] = {}
PassedBy(p) ==
    /\ pc[p] \in Working \cup Finished => \A i \in 1..Len(Catalogue) :
         i < next[p] => Settled(p, DelegatedBinaryName(Catalogue[i], channel[p]))
    /\ pc[p] \in {"ensure", "cargo_install"} => next[p] = 1
    /\ pc[p] \in Finished => ~Left(p)
    /\ pc[p] = "done" => failed[p] = {}
Passed == \A p \in Procs : PassedBy(p)

\* What q is about to install is no older than what p knew, unless q resolved
\* it before p began.
PinKnows(p, q) ==
    /\ p # q /\ pc[p] \notin Ended /\ pc[q] = "install"
    /\ channel[p] = "rnd" /\ channel[q] = "rnd" /\ Tool(q) \notin stale[p]
    => NewEnough(p, Tool(q), pin[q])
PinsKnow == \A p, q \in Procs : PinKnows(p, q)

FreshOf(p) ==
    /\ moved[p] \subseteq Packages \X {channel[p]}
    /\ pc[p] \in {"ensure", "cargo_install"} => moved[p] = {}
    /\ pc[p] \notin Ended => \A tool \in moved[p] :
         /\ tool \notin stale[p] => NewEnough(p, tool, recorded[tool])
         /\ latest[p] => tool \notin byhand
Fresh == \A p \in Procs : FreshOf(p)

OnRecord == \A t \in ToolNames \ byhand : bins[t] = recorded[t]

IndInv == /\ TypeOK /\ BinstallThere /\ Begun /\ Pinned /\ Passed
          /\ PinsKnow /\ Fresh /\ OnRecord

-----------------------------------------------------------------------------
(* The catalogue and the versions.                                         *)

\* The table of packages is a list of names.
LEMMA CatalogueType ==
    /\ Len(Catalogue) \in Nat
    /\ \A i \in 1..Len(Catalogue) : Catalogue[i] \in Packages
  BY InstallAssumption DEF Packages

\* The binary of a package on a channel is one of the tools.
LEMMA ToolType ==
    ASSUME TypeOK, NEW p \in Procs, Left(p)
    PROVE  /\ Tool(p) \in ToolNames
           /\ Tool(p) \in Packages \X {channel[p]}
  <1>1. next[p] \in 1..Len(Catalogue)
    BY CatalogueType DEF TypeOK, Left
  <1>2. channel[p] \in {"stable", "dev", "rnd"}
    BY InstallAssumption DEF TypeOK
  <1>3. QED
    BY <1>1, <1>2, CatalogueType DEF Tool, DelegatedBinaryName, ToolNames

\* The highest version of a set is in it and bounds it.
LEMMA HighestBounds ==
    ASSUME NEW vs \in SUBSET Versions, NEW v \in Highest(vs)
    PROVE  v \in vs /\ \A w \in vs : w <= v
  BY DEF Highest

\* The research resolver answers Absent for a crate without versions, and
\* otherwise with a version that is new enough on the research channel.
LEMMA ResearchChoice ==
    ASSUME NEW vs \in SUBSET Versions, NEW v \in ResolveResearch(vs)
    PROVE  \/ v = Absent /\ vs = {}
           \/ /\ v \in Versions
              /\ vs \cap ResearchOnes # {} =>
                   v \in ResearchOnes /\ \A w \in vs \cap ResearchOnes : w <= v
  <1>1. CASE vs = {}
    BY <1>1 DEF ResolveResearch
  <1>2. CASE vs # {} /\ vs \cap ResearchOnes = {}
    BY <1>2, HighestBounds DEF ResolveResearch
  <1>3. CASE vs \cap ResearchOnes # {}
    <2>1. v \in Highest(vs \cap ResearchOnes)
      BY <1>3 DEF ResolveResearch
    <2>2. QED BY <1>3, <2>1, HighestBounds
  <1>4. QED BY <1>1, <1>2, <1>3

\* A version is not the absence of one.
LEMMA VersionsArePositive == \A v \in Versions : v \in Nat /\ v # 0 /\ v # Absent
  BY VersionAssumption DEF Absent

\* Whatever cargo-binstall puts in place for a process is new enough for every
\* process of the same channel that knew no more, unless it was pinned.
LEMMA ChoiceIsNewEnough ==
    ASSUME TypeOK, Begun, Pinned, NEW p \in Procs, pc[p] = "install",
           NEW v \in BinstallChoices(Tool(p), pin[p])
    PROVE  /\ v \in Versions
           /\ NewEnough(p, Tool(p), v)
           /\ channel[p] # "rnd" => \A q \in Procs :
                channel[q] = channel[p] => NewEnough(q, Tool(p), v)
  <1>1. Left(p) /\ Tool(p) \in ToolNames
    BY ToolType DEF Pinned, PinOf
  <1>2. CASE channel[p] = "rnd"
    <2>1. pin[p] \in Versions /\ pin[p] # NoPin /\ NewEnough(p, Tool(p), pin[p])
      BY <1>2, VersionsArePositive DEF Pinned, PinOf, NoPin
    <2>2. v = pin[p]
      BY <2>1 DEF BinstallChoices
    <2>3. QED BY <1>2, <2>1, <2>2
  <1>3. CASE channel[p] # "rnd"
    <2>1. v \in Highest(index[Tool(p)] \cap PlainVersions)
      BY <1>3 DEF Pinned, PinOf, BinstallChoices
    <2>2. index[Tool(p)] \in SUBSET Versions
      BY <1>1 DEF TypeOK
    <2>3. /\ v \in index[Tool(p)] \cap PlainVersions
          /\ \A w \in index[Tool(p)] \cap PlainVersions : w <= v
      BY <2>1, <2>2, HighestBounds
    <2>4. ASSUME NEW q \in Procs, channel[q] = channel[p]
          PROVE  NewEnough(q, Tool(p), v)
      <3>1. begun[q][Tool(p)] \subseteq index[Tool(p)]
        BY <1>1 DEF Begun
      <3>2. ChannelVersions(channel[q]) = PlainVersions
        BY <1>3, <2>4 DEF ChannelVersions
      <3>3. QED BY <2>3, <3>1, <3>2 DEF NewEnough
    <2>5. QED BY <2>2, <2>3, <2>4
  <1>4. QED BY <1>2, <1>3

\* A call of cargo-binstall either fails and changes nothing, or leaves its
\* choice on record; the binary is that version unless the record was already
\* right and --latest not given.
LEMMA InstallOutcome ==
    ASSUME TypeOK, Begun, Pinned, NEW p \in Procs, InstallWithBinstall(p)
    PROVE  \/ UNCHANGED <<tools, moved>>
           \/ /\ moved' = [moved EXCEPT ![p] = @ \cup {Tool(p)}]
              /\ \E v \in BinstallChoices(Tool(p), pin[p]) :
                   /\ recorded' = [recorded EXCEPT ![Tool(p)] = v]
                   /\ \/ /\ ~latest[p] /\ recorded[Tool(p)] = v
                         /\ UNCHANGED <<bins, byhand>>
                      \/ /\ bins' = [bins EXCEPT ![Tool(p)] = v]
                         /\ byhand' = byhand \ {Tool(p)}
  <1>1. CASE UNCHANGED <<tools, moved>>
    BY <1>1
  <1>2. ASSUME NEW v \in BinstallChoices(Tool(p), pin[p]),
               Binstall(Tool(p), v, latest[p]),
               moved' = [moved EXCEPT ![p] = @ \cup {Tool(p)}]
        PROVE  /\ recorded' = [recorded EXCEPT ![Tool(p)] = v]
               /\ \/ /\ ~latest[p] /\ recorded[Tool(p)] = v
                     /\ UNCHANGED <<bins, byhand>>
                  \/ /\ bins' = [bins EXCEPT ![Tool(p)] = v]
                     /\ byhand' = byhand \ {Tool(p)}
    <2>1. CASE UpToDate(Tool(p), v, latest[p])
      <3>1. /\ ~latest[p] /\ recorded[Tool(p)] = v
            /\ UNCHANGED <<bins, recorded, byhand>>
        BY <1>2, <2>1 DEF Binstall, UpToDate, tools
      <3>2. recorded' = [recorded EXCEPT ![Tool(p)] = v]
        BY <3>1 DEF TypeOK
      <3>3. QED BY <3>1, <3>2
    <2>2. CASE ~UpToDate(Tool(p), v, latest[p])
      BY <1>2, <2>2 DEF Binstall
    <2>3. QED BY <2>1, <2>2
  <1>3. QED BY <1>1, <1>2 DEF InstallWithBinstall

-----------------------------------------------------------------------------
(* Types.                                                                  *)

\* Every variable has its type before the first command.
LEMMA InitType == Init => TypeOK
  <1> SUFFICES ASSUME Init PROVE TypeOK
    OBVIOUS
  <1>1. (CHOOSE c \in Channels : TRUE) \in Channels
    BY InstallAssumption
  <1>2. 1 \in 1..Len(Catalogue) + 1
    BY CatalogueType
  <1>3. QED
    BY <1>1, <1>2, InstallAssumption DEF Init, TypeOK, Stages, NoTool, NoPin

\* Every step preserves the types.
LEMMA TypeStep ==
    ASSUME TypeOK, Begun, Pinned, [Next]_vars
    PROVE  TypeOK'
  <1> USE DEF Goto, Stages
  <1>1. CASE UNCHANGED vars
    BY <1>1 DEF vars, progress, options, tools, TypeOK
  <1>2. ASSUME NEW p \in Procs, Begin(p)
        PROVE  TypeOK'
    <2>1. 1 \in 1..Len(Catalogue) + 1 /\ installs + 1 \in 0..MaxInstalls
      BY <1>2, CatalogueType, InstallAssumption DEF Begin, TypeOK
    <2>2. \A c \in Channels : KnownOn(c) \in [ToolNames -> SUBSET Versions]
      BY DEF KnownOn, TypeOK
    <2>3. /\ channel' \in [Procs -> Channels] /\ latest' \in [Procs -> BOOLEAN]
          /\ begun' \in [Procs -> [ToolNames -> SUBSET Versions]]
      BY <1>2, <2>2 DEF Begin, TypeOK
    <2>4. stale' \in [Procs -> SUBSET ToolNames]
      <3>1. \A q \in Procs : pc[q] = "install" => Tool(q) \in ToolNames
        BY ToolType DEF Pinned, PinOf
      <3>2. \A c \in Channels : PinnedElsewhere(p, c) \in SUBSET ToolNames
        BY <3>1 DEF PinnedElsewhere
      <3>3. QED BY <1>2, <3>2 DEF Begin, TypeOK
    <2>5. QED BY <1>2, <2>1, <2>3, <2>4 DEF Begin, TypeOK, NoPin, tools
  <1>3. ASSUME NEW p \in Procs,
               EnsureCargoBinstall(p) \/ InstallCargoBinstall(p) \/ Finish(p)
               \/ Kill(p)
        PROVE  TypeOK'
    <2>1. CASE EnsureCargoBinstall(p)
      <3>1. pc' \in [Procs -> Stages]
        BY <2>1 DEF EnsureCargoBinstall, TypeOK
      <3>2. QED BY <2>1, <3>1 DEF EnsureCargoBinstall, TypeOK, progress, options, tools
    <2>2. CASE InstallCargoBinstall(p)
      <3>1. binstall' \in 0..MaxBinstall
        BY <2>2, InstallAssumption DEF InstallCargoBinstall, TypeOK
      <3>2. QED BY <2>2, <3>1 DEF InstallCargoBinstall, TypeOK, progress, options, tools
    <2>3. CASE Finish(p)
      BY <2>3 DEF Finish, TypeOK, progress, options, tools
    <2>4. CASE Kill(p)
      BY <2>4 DEF Kill, TypeOK, progress, options, tools
    <2>5. QED BY <1>3, <2>1, <2>2, <2>3, <2>4
  <1>4. ASSUME NEW p \in Procs, Resolve(p)
        PROVE  TypeOK'
    <2>1. index[Tool(p)] \in SUBSET Versions
      BY <1>4, ToolType DEF Resolve, TypeOK
    <2>2. \A v \in ResolveResearch(index[Tool(p)]) : v # Absent => v \in Versions
      BY <2>1, ResearchChoice
    <2>3. next[p] + 1 \in 1..Len(Catalogue) + 1
      BY <1>4, CatalogueType DEF Resolve, Left, TypeOK
    <2>4. /\ next' \in [Procs -> 1..Len(Catalogue) + 1]
          /\ pin' \in [Procs -> Versions \cup {NoPin}]
          /\ pc' \in [Procs -> Stages]
      BY <1>4, <2>2, <2>3 DEF Resolve, TypeOK
    <2>5. QED BY <1>4, <2>4 DEF Resolve, TypeOK, options, tools
  <1>5. ASSUME NEW p \in Procs, InstallWithBinstall(p)
        PROVE  TypeOK'
    <2>1. Left(p) /\ Tool(p) \in ToolNames
      BY <1>5, ToolType DEF InstallWithBinstall, Pinned, PinOf
    <2>2. \A v \in BinstallChoices(Tool(p), pin[p]) : v \in Versions
      BY <1>5, ChoiceIsNewEnough DEF InstallWithBinstall
    <2>3. next[p] + 1 \in 1..Len(Catalogue) + 1
      BY <2>1, CatalogueType DEF Left, TypeOK
    <2>4. /\ bins' \in [ToolNames -> Versions \cup {NoTool}]
          /\ recorded' \in [ToolNames -> Versions \cup {NoTool}]
          /\ byhand' \subseteq ToolNames
          /\ moved' \in [Procs -> SUBSET ToolNames]
      <3>1. CASE UNCHANGED <<tools, moved>>
        BY <3>1 DEF TypeOK, tools
      <3>2. CASE ~UNCHANGED <<tools, moved>>
        <4>1. moved' = [moved EXCEPT ![p] = @ \cup {Tool(p)}]
          BY <1>5, <3>2, InstallOutcome
        <4>2. PICK v \in BinstallChoices(Tool(p), pin[p]) :
                /\ recorded' = [recorded EXCEPT ![Tool(p)] = v]
                /\ \/ UNCHANGED <<bins, byhand>>
                   \/ /\ bins' = [bins EXCEPT ![Tool(p)] = v]
                      /\ byhand' = byhand \ {Tool(p)}
          BY <1>5, <3>2, InstallOutcome
        <4>3. QED BY <2>1, <2>2, <4>1, <4>2 DEF TypeOK
      <3>3. QED BY <3>1, <3>2
    <2>5. failed' \in [Procs -> SUBSET ToolNames]
      <3>1. \/ failed' = failed
            \/ failed' = [failed EXCEPT ![p] = @ \cup {Tool(p)}]
        BY <1>5 DEF InstallWithBinstall
      <3>2. failed[p] \cup {Tool(p)} \in SUBSET ToolNames
        BY <2>1 DEF TypeOK
      <3>3. failed \in [Procs -> SUBSET ToolNames]
        BY DEF TypeOK
      <3>4. QED BY <3>1, <3>2, <3>3
    <2>6. /\ next' = [next EXCEPT ![p] = @ + 1] /\ pc' = [pc EXCEPT ![p] = "resolve"]
          /\ UNCHANGED <<index, released, binstall, installs, options, pin>>
      BY <1>5 DEF InstallWithBinstall
    <2>7. /\ next' \in [Procs -> 1..Len(Catalogue) + 1]
          /\ pc' \in [Procs -> Stages]
      BY <2>3, <2>6 DEF TypeOK
    <2>8. QED BY <2>4, <2>5, <2>6, <2>7 DEF TypeOK, options
  <1>6. CASE PublishCrate
    BY <1>6, InstallAssumption DEF PublishCrate, TypeOK, progress, options, tools
  <1>7. CASE ReleaseBinstall
    BY <1>7, InstallAssumption DEF ReleaseBinstall, TypeOK, progress, options, tools
  <1>8. CASE SideLoad
    BY <1>8, InstallAssumption DEF SideLoad, TypeOK, progress, options, tools
  <1>9. QED
    BY <1>1, <1>2, <1>3, <1>4, <1>5, <1>6, <1>7, <1>8 DEF Next

-----------------------------------------------------------------------------
(* What a step leaves alone.                                               *)

\* A process changes nothing of what another one remembers.
LEMMA OtherProcesses ==
    ASSUME TypeOK, NEW p \in Procs, NEW q \in Procs, p # q,
           \/ Begin(p) \/ EnsureCargoBinstall(p) \/ InstallCargoBinstall(p)
           \/ Resolve(p) \/ InstallWithBinstall(p) \/ Finish(p) \/ Kill(p)
    PROVE  /\ pc'[q] = pc[q] /\ channel'[q] = channel[q] /\ next'[q] = next[q]
           /\ pin'[q] = pin[q] /\ failed'[q] = failed[q]
           /\ moved'[q] = moved[q] /\ begun'[q] = begun[q]
           /\ latest'[q] = latest[q] /\ stale'[q] = stale[q]
  BY DEF Begin, EnsureCargoBinstall, InstallCargoBinstall, Resolve,
         InstallWithBinstall, Finish, Kill, Goto, progress, options, TypeOK

\* Only installations and operators change binaries, and an operator only
\* while no command runs.
LEMMA ToolsChange ==
    ASSUME [Next]_vars
    PROVE  \/ UNCHANGED tools
           \/ \E p \in Procs : InstallWithBinstall(p)
           \/ SideLoad
  BY DEF Next, Begin, EnsureCargoBinstall, InstallCargoBinstall, Resolve,
         Finish, Kill, PublishCrate, ReleaseBinstall, vars

\* The index only grows.
LEMMA IndexGrows ==
    ASSUME TypeOK, [Next]_vars, NEW t \in ToolNames
    PROVE  index[t] \subseteq index'[t]
  <1>1. CASE PublishCrate
    BY <1>1 DEF PublishCrate, TypeOK
  <1>2. CASE UNCHANGED index
    BY <1>2
  <1>3. QED
    BY <1>1, <1>2
    DEF Next, Begin, EnsureCargoBinstall, InstallCargoBinstall, Resolve,
        InstallWithBinstall, Finish, Kill, ReleaseBinstall, SideLoad, vars

\* What a command knew when it started stays in the index.
LEMMA BegunStep ==
    ASSUME TypeOK, Begun, [Next]_vars
    PROVE  Begun'
  <1> SUFFICES ASSUME NEW q \in Procs, NEW t \in ToolNames
               PROVE  begun'[q][t] \subseteq index'[t]
    BY DEF Begun
  <1>1. begun[q][t] \subseteq index'[t] /\ index[t] \subseteq index'[t]
    BY IndexGrows DEF Begun
  <1>2. ASSUME Begin(q)
        PROVE  begun'[q][t] \subseteq index'[t]
    <2>1. PICK c \in Channels : begun'[q] = KnownOn(c)
      BY <1>2 DEF Begin, TypeOK
    <2>2. KnownOn(c)[t] \subseteq index[t]
      BY DEF KnownOn
    <2>3. QED BY <1>1, <2>1, <2>2
  <1>3. CASE begun'[q] = begun[q]
    BY <1>1, <1>3
  <1>4. QED
    BY <1>2, <1>3
    DEF Next, Begin, EnsureCargoBinstall, InstallCargoBinstall, Resolve,
        InstallWithBinstall, Finish, Kill, PublishCrate, ReleaseBinstall,
        SideLoad, vars, progress, options, TypeOK

\* cargo-binstall is never removed.
LEMMA BinstallStep ==
    ASSUME TypeOK, BinstallThere, [Next]_vars
    PROVE  BinstallThere'
  <1> SUFFICES ASSUME NEW q \in Procs, pc'[q] \in Working
               PROVE  binstall' # NoTool
    BY DEF BinstallThere, Working
  <1>1. binstall # NoTool => binstall' # NoTool
    BY DEF Next, Begin, EnsureCargoBinstall, InstallCargoBinstall, Resolve,
         InstallWithBinstall, Finish, Kill, PublishCrate, ReleaseBinstall,
         SideLoad, vars, TypeOK, NoTool
  <1>2. CASE pc[q] \in Working
    BY <1>1, <1>2 DEF BinstallThere, Working
  <1>3. CASE pc[q] \notin Working
    <2>1. EnsureCargoBinstall(q) \/ InstallCargoBinstall(q)
      BY <1>3, OtherProcesses
      DEF Next, Begin, Resolve, InstallWithBinstall, Finish, Kill, PublishCrate,
          ReleaseBinstall, SideLoad, vars, Goto, TypeOK, Working, progress
    <2>2. CASE EnsureCargoBinstall(q)
      BY <1>1, <2>2
      DEF EnsureCargoBinstall, ProbedVersions, Goto, TypeOK, Working, NoTool
    <2>3. CASE InstallCargoBinstall(q)
      BY <2>3 DEF InstallCargoBinstall, Goto, TypeOK, Working, NoTool
    <2>4. QED BY <2>1, <2>2, <2>3
  <1>4. QED BY <1>2, <1>3

\* A step of somebody else, or of nobody, leaves alone what a process
\* remembers; a step of its own is one of the command's.
LEMMA OwnStep ==
    ASSUME TypeOK, [Next]_vars, NEW q \in Procs
    PROVE  \/ /\ pc'[q] = pc[q] /\ channel'[q] = channel[q]
              /\ next'[q] = next[q] /\ pin'[q] = pin[q]
              /\ failed'[q] = failed[q] /\ moved'[q] = moved[q]
              /\ begun'[q] = begun[q] /\ latest'[q] = latest[q]
              /\ stale'[q] = stale[q]
           \/ Begin(q) \/ EnsureCargoBinstall(q) \/ InstallCargoBinstall(q)
           \/ Resolve(q) \/ InstallWithBinstall(q) \/ Finish(q) \/ Kill(q)
  BY OtherProcesses
  DEF Next, PublishCrate, ReleaseBinstall, SideLoad, vars, progress, options

-----------------------------------------------------------------------------
(* The version a command asks for.                                         *)

\* A pin is resolved from an index that has all the command knew.
LEMMA PinnedStep ==
    ASSUME TypeOK, Begun, Pinned, [Next]_vars
    PROVE  Pinned'
  <1> SUFFICES ASSUME NEW q \in Procs
               PROVE  PinOf(q)'
    BY DEF Pinned
  <1> USE DEF Goto
  <1>1. ASSUME pc'[q] = pc[q], channel'[q] = channel[q], next'[q] = next[q],
               pin'[q] = pin[q], begun'[q] = begun[q]
        PROVE  PinOf(q)'
    BY <1>1 DEF Pinned, PinOf, Left, Tool, NewEnough
  <1>2. CASE Resolve(q) /\ pc'[q] = "install"
    <2>1. /\ Left(q) /\ UNCHANGED <<channel, begun, Catalogue>>
          /\ next'[q] = next[q]
      BY <1>2 DEF Resolve, TypeOK, options
    <2>2. Left(q)' /\ Tool(q)' = Tool(q)
      BY <2>1 DEF Left, Tool
    <2>3. CASE channel[q] # "rnd"
      BY <1>2, <2>1, <2>2, <2>3 DEF Resolve, PinOf, TypeOK
    <2>4. CASE channel[q] = "rnd"
      <3>1. Tool(q) \in ToolNames /\ index[Tool(q)] \in SUBSET Versions
        BY <2>1, ToolType DEF TypeOK
      <3>2. PICK v \in ResolveResearch(index[Tool(q)]) :
              v # Absent /\ pin'[q] = v
        BY <1>2, <2>4 DEF Resolve, TypeOK
      <3>3. begun[q][Tool(q)] \subseteq index[Tool(q)]
        BY <3>1 DEF Begun
      <3>4. v \in Versions /\ NewEnough(q, Tool(q), v)
        BY <2>4, <3>1, <3>2, <3>3, ResearchChoice
        DEF NewEnough, ChannelVersions
      <3>5. NewEnough(q, Tool(q), v)'
        BY <2>1, <2>2, <3>2, <3>4 DEF NewEnough
      <3>6. QED BY <2>1, <2>2, <2>4, <3>2, <3>4, <3>5 DEF PinOf, NewEnough
    <2>5. QED BY <2>3, <2>4
  <1>3. ASSUME pc'[q] # "install"
        PROVE  PinOf(q)'
    BY <1>3 DEF PinOf
  <1>4. ASSUME \/ Begin(q) \/ EnsureCargoBinstall(q) \/ InstallCargoBinstall(q)
               \/ InstallWithBinstall(q) \/ Finish(q) \/ Kill(q)
        PROVE  pc'[q] # "install"
    BY <1>4 DEF Begin, EnsureCargoBinstall, InstallCargoBinstall,
         InstallWithBinstall, Finish, Kill, TypeOK
  <1>5. QED BY <1>1, <1>2, <1>3, <1>4, OwnStep

-----------------------------------------------------------------------------
(* The tools behind a command's position.                                  *)

\* Every tool a command leaves behind was replaced, failed, or has no research
\* build.
LEMMA PassedStep ==
    ASSUME TypeOK, Begun, Pinned, Passed, [Next]_vars
    PROVE  Passed'
  <1> SUFFICES ASSUME NEW q \in Procs
               PROVE  PassedBy(q)'
    BY DEF Passed
  <1> USE DEF Goto
  <1>a. PassedBy(q)
    BY DEF Passed
  <1>1. ASSUME pc'[q] = pc[q], channel'[q] = channel[q], next'[q] = next[q],
               failed'[q] = failed[q], moved'[q] = moved[q], begun'[q] = begun[q]
        PROVE  PassedBy(q)'
    BY <1>a, <1>1 DEF PassedBy, Settled, Left, Tool, DelegatedBinaryName
  <1>2. CASE Begin(q) \/ Kill(q)
    <2>1. (pc'[q] = "ensure" /\ next'[q] = 1) \/ pc'[q] = "stopped"
      BY <1>2 DEF Begin, Kill, TypeOK
    <2>2. QED BY <2>1 DEF PassedBy, Working, Finished
  <1>3. CASE EnsureCargoBinstall(q) \/ InstallCargoBinstall(q)
    <2>1. /\ pc'[q] \in {"cargo_install", "stopped", "resolve"}
          /\ UNCHANGED progress /\ pc[q] \in {"ensure", "cargo_install"}
      BY <1>3 DEF EnsureCargoBinstall, InstallCargoBinstall, TypeOK
    <2>2. next[q] = 1
      BY <1>a, <2>1 DEF PassedBy
    <2>3. QED
      BY <2>1, <2>2, CatalogueType DEF PassedBy, Working, Finished, progress, options
  <1>4. CASE Resolve(q)
    <2>1. /\ pc[q] = "resolve" /\ Left(q) /\ pc'[q] \in {"resolve", "install", "stopped"}
          /\ UNCHANGED <<channel, failed, moved, begun>>
          /\ \/ next'[q] = next[q]
             \/ /\ next'[q] = next[q] + 1 /\ channel[q] = "rnd"
                /\ Absent \in ResolveResearch(index[Tool(q)])
      BY <1>4 DEF Resolve, TypeOK, options
    <2>2. Tool(q) \in ToolNames /\ index[Tool(q)] \in SUBSET Versions
      BY <2>1, ToolType DEF TypeOK
    <2>3. Absent \in ResolveResearch(index[Tool(q)]) => begun[q][Tool(q)] = {}
      BY <2>2, ResearchChoice, VersionsArePositive DEF Begun
    <2>4. next'[q] = next[q] + 1 => Settled(q, Tool(q))
      BY <2>1, <2>3, CatalogueType DEF Settled, TypeOK
    <2>5. ASSUME NEW i \in 1..Len(Catalogue), i < next'[q]
          PROVE  Settled(q, DelegatedBinaryName(Catalogue[i], channel[q]))
      <3>1. CASE i < next[q]
        BY <1>a, <2>1, <3>1 DEF PassedBy, Working
      <3>2. CASE ~(i < next[q])
        <4>1. i = next[q] /\ next'[q] = next[q] + 1
          BY <2>1, <2>5, <3>2, CatalogueType DEF TypeOK
        <4>2. QED BY <2>4, <4>1 DEF Tool
      <3>3. QED BY <3>1, <3>2
    <2>6. QED BY <2>1, <2>5 DEF PassedBy, Settled, Finished
  <1>5. CASE InstallWithBinstall(q)
    <2>1. /\ pc[q] = "install" /\ pc'[q] = "resolve"
          /\ UNCHANGED <<channel, begun>>
          /\ next'[q] = next[q] + 1
          /\ Tool(q) \in failed'[q] \cup moved'[q]
          /\ failed[q] \subseteq failed'[q] /\ moved[q] \subseteq moved'[q]
      BY <1>5 DEF InstallWithBinstall, TypeOK, options
    <2>2. ASSUME NEW i \in 1..Len(Catalogue), i < next'[q]
          PROVE  Settled(q, DelegatedBinaryName(Catalogue[i], channel[q]))'
      <3>1. CASE i < next[q]
        BY <1>a, <2>1, <3>1 DEF PassedBy, Working, Settled
      <3>2. CASE ~(i < next[q])
        <4>1. i = next[q]
          BY <2>1, <2>2, <3>2, CatalogueType DEF TypeOK
        <4>2. QED BY <2>1, <4>1 DEF Tool, Settled
      <3>3. QED BY <3>1, <3>2
    <2>3. QED BY <2>1, <2>2 DEF PassedBy, Finished, DelegatedBinaryName
  <1>6. CASE Finish(q)
    <2>1. /\ pc[q] = "resolve" /\ ~Left(q) /\ UNCHANGED progress
          /\ pc'[q] \in {"done", "incomplete"}
          /\ pc'[q] = "done" => failed[q] = {}
      BY <1>6 DEF Finish, TypeOK
    <2>2. QED
      BY <1>a, <2>1 DEF PassedBy, Settled, Working, Finished, Left, progress,
                        options, DelegatedBinaryName
  <1>7. QED BY <1>1, <1>2, <1>3, <1>4, <1>5, <1>6, OwnStep

-----------------------------------------------------------------------------
(* What other shells pinned, and what a command succeeded for.             *)

\* A shell that is at work was so before, unless the command starts with this
\* step.
LEMMA AtWorkBefore ==
    ASSUME TypeOK, [Next]_vars, NEW p \in Procs, pc'[p] \notin Ended
    PROVE  \/ Begin(p)
           \/ /\ pc[p] \notin Ended /\ channel'[p] = channel[p]
              /\ begun'[p] = begun[p] /\ stale'[p] = stale[p]
              /\ latest'[p] = latest[p]
  BY OwnStep
  DEF EnsureCargoBinstall, InstallCargoBinstall, Resolve, InstallWithBinstall,
      Finish, Kill, Ended, progress, options

\* A pin resolved while a command runs knows what the command knew when it
\* began; those resolved earlier are in `stale`.
LEMMA PinsKnowStep ==
    ASSUME TypeOK, Begun, Pinned, PinsKnow, [Next]_vars
    PROVE  PinsKnow'
  <1> SUFFICES ASSUME NEW p \in Procs, NEW q \in Procs, p # q,
                      pc'[p] \notin Ended, pc'[q] = "install",
                      channel'[p] = "rnd", channel'[q] = "rnd",
                      Tool(q)' \notin stale'[p]
               PROVE  NewEnough(p, Tool(q), pin[q])'
    BY DEF PinsKnow, PinKnows
  <1> USE DEF Goto
  <1>1. CASE Begin(p)
    <2>1. /\ pc[q] = "install" /\ channel[q] = "rnd" /\ pin'[q] = pin[q]
          /\ next'[q] = next[q] /\ channel'[q] = channel[q]
      BY <1>1, OtherProcesses
    <2>2. pin[q] # NoPin
      BY <2>1, VersionsArePositive DEF Pinned, PinOf, NoPin
    <2>3. stale'[p] = PinnedElsewhere(p, "rnd")
      BY <1>1 DEF Begin, TypeOK
    <2>4. Tool(q)' = Tool(q)
      BY <2>1 DEF Tool
    <2>5. Tool(q) \in stale'[p]
      BY <2>1, <2>2, <2>3 DEF PinnedElsewhere
    <2>6. QED BY <2>4, <2>5
  <1>2. CASE ~Begin(p)
    <2>1. /\ pc[p] \notin Ended /\ channel[p] = "rnd"
          /\ begun'[p] = begun[p] /\ stale'[p] = stale[p]
          /\ channel'[p] = channel[p]
      BY <1>2, AtWorkBefore
    <2>2. CASE pc[q] = "install" /\ channel'[q] = channel[q]
               /\ next'[q] = next[q] /\ pin'[q] = pin[q]
      <3>1. Tool(q)' = Tool(q)
        BY <2>2 DEF Tool
      <3>2. NewEnough(p, Tool(q), pin[q])
        BY <2>1, <2>2, <3>1 DEF PinsKnow, PinKnows
      <3>3. QED BY <2>1, <2>2, <3>1, <3>2 DEF NewEnough
    <2>3. CASE Resolve(q)
      <3>1. /\ Left(q) /\ UNCHANGED <<channel, Catalogue>>
            /\ next'[q] = next[q]
        BY <2>3 DEF Resolve, TypeOK, options
      <3>2. Tool(q)' = Tool(q) /\ Tool(q) \in ToolNames
        BY <3>1, ToolType DEF Tool
      <3>3. index[Tool(q)] \in SUBSET Versions
        BY <3>2 DEF TypeOK
      <3>4. PICK v \in ResolveResearch(index[Tool(q)]) :
              v # Absent /\ pin'[q] = v
        BY <2>3, <3>1 DEF Resolve, TypeOK
      <3>5. begun[p][Tool(q)] \subseteq index[Tool(q)]
        BY <3>2 DEF Begun
      <3>6. NewEnough(p, Tool(q), v)
        BY <2>1, <3>3, <3>4, <3>5, ResearchChoice DEF NewEnough, ChannelVersions
      <3>7. QED BY <2>1, <3>2, <3>4, <3>6 DEF NewEnough
    <2>4. QED
      BY <2>2, <2>3, OwnStep
      DEF Begin, EnsureCargoBinstall, InstallCargoBinstall, InstallWithBinstall,
          Finish, Kill, TypeOK
  <1>3. QED BY <1>1, <1>2

\* What any shell installs is new enough for every command at work on the same
\* channel, unless it was pinned before that command began.
LEMMA ChoiceForOthers ==
    ASSUME TypeOK, Begun, Pinned, PinsKnow, NEW p \in Procs, pc[p] = "install",
           NEW v \in BinstallChoices(Tool(p), pin[p]), NEW q \in Procs,
           pc[q] \notin Ended, channel[q] = channel[p], Tool(p) \notin stale[q]
    PROVE  NewEnough(q, Tool(p), v)
  <1>1. CASE channel[p] # "rnd" \/ p = q
    BY <1>1, ChoiceIsNewEnough
  <1>2. CASE channel[p] = "rnd" /\ p # q
    <2>1. pin[p] # NoPin
      BY <1>2, VersionsArePositive DEF Pinned, PinOf, NoPin
    <2>2. v = pin[p]
      BY <2>1 DEF BinstallChoices
    <2>3. QED BY <1>2, <2>2 DEF PinsKnow, PinKnows
  <1>3. QED BY <1>1, <1>2

\* What a command succeeded for stays new enough while the command runs.
LEMMA FreshStep ==
    ASSUME TypeOK, Begun, Pinned, PinsKnow, Fresh, [Next]_vars
    PROVE  Fresh'
  <1> SUFFICES ASSUME NEW q \in Procs
               PROVE  FreshOf(q)'
    BY DEF Fresh
  <1> USE DEF Goto
  <1>a. FreshOf(q)
    BY DEF Fresh
  <1>1. CASE Begin(q)
    <2>1. moved'[q] = {}
      BY <1>1 DEF Begin, TypeOK
    <2>2. QED BY <2>1 DEF FreshOf
  <1>2. CASE \/ EnsureCargoBinstall(q) \/ InstallCargoBinstall(q)
             \/ Resolve(q) \/ Finish(q) \/ Kill(q)
    <2>1. /\ UNCHANGED <<tools, options, moved>> /\ pc[q] \notin Ended
          /\ pc'[q] \in {"ensure", "cargo_install"} =>
               pc[q] \in {"ensure", "cargo_install"}
      BY <1>2 DEF EnsureCargoBinstall, InstallCargoBinstall, Resolve, Finish,
                  Kill, TypeOK, progress, options, Ended
    <2>2. QED BY <1>a, <2>1 DEF FreshOf, NewEnough, tools, options
  <1>3. CASE InstallWithBinstall(q)
    <2>1. /\ pc[q] = "install" /\ pc'[q] = "resolve" /\ pc[q] \notin Ended
          /\ UNCHANGED options
      BY <1>3 DEF InstallWithBinstall, TypeOK, Ended
    <2>2. Tool(q) \in ToolNames /\ Tool(q) \in Packages \X {channel[q]}
      BY <2>1, ToolType DEF Pinned, PinOf
    <2>3. CASE UNCHANGED <<tools, moved>>
      BY <1>a, <2>1, <2>3 DEF FreshOf, NewEnough, tools, options
    <2>4. CASE ~UNCHANGED <<tools, moved>>
      <3>1. PICK v \in BinstallChoices(Tool(q), pin[q]) :
              /\ recorded' = [recorded EXCEPT ![Tool(q)] = v]
              /\ byhand' \subseteq byhand
              /\ latest[q] => Tool(q) \notin byhand'
        BY <1>3, <2>4, InstallOutcome
      <3>2. NewEnough(q, Tool(q), v)
        BY <2>1, ChoiceIsNewEnough
      <3>3. /\ recorded'[Tool(q)] = v /\ moved'[q] = moved[q] \cup {Tool(q)}
            /\ \A t : t \in ToolNames /\ t # Tool(q) => recorded'[t] = recorded[t]
        BY <1>3, <2>2, <2>4, <3>1, InstallOutcome DEF TypeOK
      <3>4. ASSUME NEW tool \in moved'[q]
            PROVE  /\ tool \notin stale[q] => NewEnough(q, tool, recorded'[tool])
                   /\ latest[q] => tool \notin byhand'
        <4>1. CASE tool = Tool(q)
          BY <3>1, <3>2, <3>3, <4>1
        <4>2. CASE tool # Tool(q)
          <5>1. tool \in moved[q] /\ tool \in ToolNames
            BY <3>3, <3>4, <4>2 DEF TypeOK
          <5>2. QED BY <1>a, <2>1, <3>1, <3>3, <4>2, <5>1 DEF FreshOf
        <4>3. QED BY <4>1, <4>2
      <3>5. QED BY <1>a, <2>1, <2>2, <3>3, <3>4 DEF FreshOf, NewEnough, options
    <2>5. QED BY <2>3, <2>4
  <1>4. ASSUME pc'[q] = pc[q], channel'[q] = channel[q], moved'[q] = moved[q],
               begun'[q] = begun[q], stale'[q] = stale[q], latest'[q] = latest[q]
        PROVE  FreshOf(q)'
    <2>1. SUFFICES ASSUME pc[q] \notin Ended, NEW tool \in moved[q]
                   PROVE  /\ tool \notin stale[q] =>
                               NewEnough(q, tool, recorded'[tool])
                          /\ latest[q] => tool \notin byhand'
      BY <1>a, <1>4 DEF FreshOf, NewEnough
    <2>2. /\ tool \notin stale[q] => NewEnough(q, tool, recorded[tool])
          /\ latest[q] => tool \notin byhand
          /\ tool \in ToolNames /\ tool \in Packages \X {channel[q]}
      BY <1>a, <2>1 DEF FreshOf, TypeOK
    <2>3. CASE UNCHANGED tools
      BY <2>2, <2>3 DEF tools
    <2>4. ASSUME NEW p \in Procs, InstallWithBinstall(p), ~UNCHANGED <<tools, moved>>
          PROVE  /\ tool \notin stale[q] => NewEnough(q, tool, recorded'[tool])
                 /\ latest[q] => tool \notin byhand'
      <3>1. pc[p] = "install"
        BY <2>4 DEF InstallWithBinstall
      <3>2. Tool(p) \in ToolNames /\ Tool(p) \in Packages \X {channel[p]}
        BY <3>1, ToolType DEF Pinned, PinOf
      <3>3. PICK v \in BinstallChoices(Tool(p), pin[p]) :
              /\ recorded' = [recorded EXCEPT ![Tool(p)] = v]
              /\ byhand' \subseteq byhand
        BY <2>4, InstallOutcome
      <3>4. CASE tool = Tool(p)
        <4>1. channel[p] = channel[q]
          BY <2>2, <3>2, <3>4
        <4>2. tool \notin stale[q] => NewEnough(q, Tool(p), v)
          BY <2>1, <3>1, <3>4, <4>1, ChoiceForOthers
        <4>3. recorded'[Tool(p)] = v
          BY <3>2, <3>3 DEF TypeOK
        <4>4. QED BY <2>2, <3>3, <3>4, <4>2, <4>3
      <3>5. CASE tool # Tool(p)
        <4>1. recorded'[tool] = recorded[tool]
          BY <2>2, <3>3, <3>5 DEF TypeOK
        <4>2. QED BY <2>2, <3>3, <4>1
      <3>6. QED BY <3>4, <3>5
    <2>5. ~SideLoad
      BY <2>1 DEF SideLoad
    <2>6. QED BY <2>3, <2>4, <2>5, ToolsChange
  <1>5. QED BY <1>1, <1>2, <1>3, <1>4, OwnStep

\* A binary nobody changed by hand is the version on record.
LEMMA OnRecordStep ==
    ASSUME TypeOK, Begun, Pinned, OnRecord, [Next]_vars
    PROVE  OnRecord'
  <1>1. CASE UNCHANGED tools
    BY <1>1 DEF tools, OnRecord
  <1>2. ASSUME NEW p \in Procs, InstallWithBinstall(p), ~UNCHANGED <<tools, moved>>
        PROVE  OnRecord'
    <2>1. Tool(p) \in ToolNames
      BY <1>2, ToolType DEF InstallWithBinstall, Pinned, PinOf
    <2>2. PICK v \in BinstallChoices(Tool(p), pin[p]) :
            /\ recorded' = [recorded EXCEPT ![Tool(p)] = v]
            /\ \/ recorded[Tool(p)] = v /\ UNCHANGED <<bins, byhand>>
               \/ /\ bins' = [bins EXCEPT ![Tool(p)] = v]
                  /\ byhand' = byhand \ {Tool(p)}
      BY <1>2, InstallOutcome
    <2>3. QED BY <2>1, <2>2 DEF OnRecord, TypeOK
  <1>3. CASE SideLoad
    BY <1>3 DEF SideLoad, OnRecord, TypeOK
  <1>4. QED BY <1>1, <1>2, <1>3, ToolsChange

-----------------------------------------------------------------------------
(* The theorems.                                                           *)

\* The invariant holds before the first command.
LEMMA IndInvInit == Init => IndInv
  <1> SUFFICES ASSUME Init PROVE IndInv
    OBVIOUS
  <1>1. /\ BinstallThere /\ Begun /\ Pinned /\ Passed /\ PinsKnow /\ Fresh
        /\ OnRecord
    BY DEF Init, BinstallThere, Begun, Pinned, PinOf, Passed, PassedBy,
           PinsKnow, PinKnows, Fresh, FreshOf, OnRecord, Working, Finished, Ended
  <1>2. QED BY <1>1, InitType DEF IndInv

\* Every step of every shell, and of the world outside, preserves it.
LEMMA IndInvStep == IndInv /\ [Next]_vars => IndInv'
  BY TypeStep, BinstallStep, BegunStep, PinnedStep, PassedStep, PinsKnowStep,
     FreshStep, OnRecordStep
  DEF IndInv

\* Every variable keeps its type: nothing but a version is ever pinned or
\* installed.
THEOREM TypeCorrect == Spec => []TypeOK
  BY IndInvInit, IndInvStep, PTL DEF Spec, IndInv

\* No tool is installed before cargo-binstall is.
THEOREM BinstallFirst == Spec => []BinstallThere
  BY IndInvInit, IndInvStep, PTL DEF Spec, IndInv

\* A command that reached the end of its list accounts for every tool.
THEOREM ForgetsNothing == Spec => []NothingForgotten
  <1>1. IndInv => NothingForgotten
    <2> SUFFICES ASSUME IndInv, NEW p \in Procs, pc[p] \in Finished,
                        NEW tool \in Packages \X {channel[p]}
                 PROVE  \/ tool \in failed[p] /\ pc[p] = "incomplete"
                        \/ tool \in moved[p]
                        \/ channel[p] = "rnd" /\ begun[p][tool] = {}
      BY DEF NothingForgotten, Finished
    <2>1. PassedBy(p)
      BY DEF IndInv, Passed
    <2>2. PICK i \in 1..Len(Catalogue) : tool = <<Catalogue[i], channel[p]>>
      BY DEF Packages
    <2>3. i < next[p]
      BY <2>1, CatalogueType DEF PassedBy, Left, IndInv, TypeOK
    <2>4. Settled(p, tool)
      BY <2>1, <2>2, <2>3 DEF PassedBy, DelegatedBinaryName
    <2>5. QED BY <2>1, <2>4 DEF Settled, PassedBy, Finished
  <1>2. QED BY <1>1, IndInvInit, IndInvStep, PTL DEF Spec

\* A success leaves a version on record that is of the command's channel and no
\* older than what crates.io had when the command started, and makes it the
\* binary, except where one changed by hand stays for want of --latest.
THEOREM InstallsNewest == Spec => NewestInstalled
  <1>1. IndInv /\ [Next]_vars =>
          [\A p \in Procs : pc[p] = "install" /\ moved'[p] # moved[p] =>
             LET tool == Tool(p)
             IN /\ NewEnough(p, tool, recorded'[tool])
                /\ latest[p] \/ bins'[tool] # bins[tool] \/ tool \notin byhand =>
                     bins'[tool] = recorded'[tool]]_vars
    <2> SUFFICES ASSUME IndInv, [Next]_vars, NEW p \in Procs,
                        pc[p] = "install", moved'[p] # moved[p]
                 PROVE  /\ NewEnough(p, Tool(p), recorded'[Tool(p)])
                        /\ \/ latest[p]
                           \/ bins'[Tool(p)] # bins[Tool(p)]
                           \/ Tool(p) \notin byhand
                           => bins'[Tool(p)] = recorded'[Tool(p)]
      OBVIOUS
    <2> USE DEF IndInv
    <2>1. InstallWithBinstall(p)
      BY OwnStep
      DEF Begin, EnsureCargoBinstall, InstallCargoBinstall, Resolve, Finish,
          Kill, Ended, progress
    <2>2. PICK v \in BinstallChoices(Tool(p), pin[p]) :
            /\ recorded' = [recorded EXCEPT ![Tool(p)] = v]
            /\ \/ /\ ~latest[p] /\ recorded[Tool(p)] = v
                  /\ UNCHANGED <<bins, byhand>>
               \/ bins' = [bins EXCEPT ![Tool(p)] = v]
      BY <2>1, InstallOutcome
    <2>3. Tool(p) \in ToolNames
      BY ToolType DEF Pinned, PinOf
    <2>4. NewEnough(p, Tool(p), v)
      BY <2>2, ChoiceIsNewEnough
    <2>5. recorded'[Tool(p)] = v
      BY <2>2, <2>3 DEF TypeOK
    <2>6. Tool(p) \notin byhand => bins[Tool(p)] = recorded[Tool(p)]
      BY <2>3 DEF OnRecord
    <2>7. QED BY <2>2, <2>3, <2>4, <2>5, <2>6 DEF TypeOK
  <1>2. QED BY <1>1, IndInvInit, IndInvStep, PTL DEF Spec, NewestInstalled

\* At the end of a command's list, what it succeeded for is still new enough:
\* the record, and the binary unless it was changed by hand and --latest not
\* given; nothing but a research pin resolved before the command began undoes it.
THEOREM StaysNewEnough == Spec => []StillNewEnough
  <1>1. IndInv => StillNewEnough
    <2> SUFFICES ASSUME IndInv, NEW p \in Procs, pc[p] = "resolve",
                        NEW tool \in moved[p] \ stale[p]
                 PROVE  /\ NewEnough(p, tool, recorded[tool])
                        /\ latest[p] \/ tool \notin byhand =>
                             NewEnough(p, tool, bins[tool])
      BY DEF StillNewEnough
    <2>1. /\ NewEnough(p, tool, recorded[tool])
          /\ latest[p] => tool \notin byhand
      BY DEF IndInv, Fresh, FreshOf, Ended
    <2>2. tool \notin byhand => bins[tool] = recorded[tool]
      BY DEF IndInv, OnRecord, TypeOK
    <2>3. QED BY <2>1, <2>2
  <1>2. QED BY <1>1, IndInvInit, IndInvStep, PTL DEF Spec
=============================================================================
