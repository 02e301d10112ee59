---------------------------- MODULE ComponentPack ----------------------------
(***************************************************************************)
(* `component validate` and `component pack` of component_cli.rs: build    *)
(* the component, read provider.toml, look for the artifact, check it      *)
(* against what provider.toml says, and put it with its metadata and its   *)
(* hash in <out>/<name>/<version>.  The artifact is read once to be        *)
(* checked and hashed and once more to be copied.  The author edits the    *)
(* sources and provider.toml meanwhile; `new` is not modelled.             *)
(***************************************************************************)
EXTENDS Naturals, Sequences

CONSTANTS
    Shells,
    Artifacts,    \* what a build may make; an artifact stands for its hash too
    Providers,    \* [dest : Dests, target : Targets]: what provider.toml may say
    Dests,        \* the directories of a name and version
    Satisfies,    \* <<artifact, provider>>: its world and packages are there
    BuildTarget,  \* the target directory that a build writes to
    InitialTrees, \* artifacts that are there from earlier builds
    NoFile, Torn, NoDir, None,
    MaxCommands,  \* bound: commands started in a behaviour
    MaxEdits      \* bound: edits of the author

VARIABLES
    source,       \* what a build of the sources makes
    provider,     \* provider.toml
    edits,        \* edits so far
    artifact,     \* target directory -> the artifact there
    packs,        \* directory -> its files
    commands,     \* commands started so far
    stage,        \* where each shell is
    packing,      \* whether its command packs
    built,        \* the artifact it has built
    declared,     \* the provider.toml it has read
    report,       \* what it has validated: target and artifact
    copied,       \* the bytes it is copying
    next,         \* the file it writes next
    rebuilt,      \* history: shells whose artifact was built by another one
                  \* since they built or read it
    disturbed     \* history: directories in which two commands overlapped, one
                  \* ended while it cleared them, or copied an artifact that
                  \* another one had built since it was read

history == <<rebuilt, disturbed>>
author == <<source, provider, edits>>
progress == <<packing, built, declared, report, copied, next>>
vars == <<author, artifact, packs, commands, stage, progress, history>>

Targets == {"wasip2", "wasip1", "wasi"}
Files == <<"wasm", "meta", "sums">>
FileNames == {"wasm", "meta", "sums"}
Reports == [target : Targets, artifact : Artifacts]
Metadata == [provider : Providers, artifact : Artifacts]
Directories == [wasm : Artifacts \cup {NoFile, Torn},
                meta : Metadata \cup {NoFile, Torn},
                sums : Artifacts \cup {NoFile, Torn}]

\* What the constants satisfy.
ProviderAssumption ==
    /\ Providers \subseteq [dest : Dests, target : Targets]
    /\ Satisfies \subseteq Artifacts \X Providers
    /\ BuildTarget \in Targets
    /\ InitialTrees \subseteq [Targets -> Artifacts \cup {NoFile}]
    /\ {NoFile, Torn} \cap (Artifacts \cup Metadata) = {} /\ NoFile # Torn
    /\ None \notin Artifacts \cup Providers \cup Reports
    /\ NoDir \notin Directories
    /\ MaxCommands \in Nat /\ MaxEdits \in Nat

\* mutant: the other targets first.
CandidatesOthersFirst(t) ==
    CASE t = "wasip2" -> <<"wasip1", "wasi", "wasip2">>
      [] t = "wasip1" -> <<"wasip2", "wasi", "wasip1">>
      [] t = "wasi"   -> <<"wasip2", "wasip1", "wasi">>
\* provider.toml's own path, then the same under the other targets.
Candidates(t) ==
    CASE t = "wasip2" -> <<"wasip2", "wasip1", "wasi">>
      [] t = "wasip1" -> <<"wasip1", "wasip2", "wasi">>
      [] t = "wasi"   -> <<"wasi", "wasip2", "wasip1">>

Init ==
    /\ source \in Artifacts /\ provider \in Providers /\ edits = 0
    /\ artifact \in InitialTrees
    /\ packs = [d \in Dests |-> NoDir]
    /\ commands = 0
    /\ stage = [s \in Shells |-> "idle"]
    /\ packing = [s \in Shells |-> FALSE]
    /\ built = [s \in Shells |-> None]
    /\ declared = [s \in Shells |-> None]
    /\ report = [s \in Shells |-> None]
    /\ copied = [s \in Shells |-> None]
    /\ next = [s \in Shells |-> 1]
    /\ rebuilt = {} /\ disturbed = {}

Goto(s, where) == stage' = [stage EXCEPT ![s] = where]
\* Shells between the check that clears a directory and their last file.
InDest(s) == stage[s] \in {"clear", "mkdir", "open", "fill"}
Dest(s) == declared[s].dest
Ended(s) ==
    /\ Goto(s, "idle")
    /\ packing' = [packing EXCEPT ![s] = FALSE]
    /\ built' = [built EXCEPT ![s] = None]
    /\ declared' = [declared EXCEPT ![s] = None]
    /\ report' = [report EXCEPT ![s] = None]
    /\ copied' = [copied EXCEPT ![s] = None]
    /\ next' = [next EXCEPT ![s] = 1]
    /\ rebuilt' = rebuilt \ {s}

\* The author at work.
Edit ==
    /\ edits < MaxEdits /\ edits' = edits + 1
    /\ \/ source' \in Artifacts \ {source} /\ UNCHANGED provider
       \/ provider' \in Providers \ {provider} /\ UNCHANGED source
    /\ UNCHANGED <<artifact, packs, commands, stage, progress, history>>

-----------------------------------------------------------------------------
(* Validation.                                                             *)

Begin(s) ==
    /\ stage[s] = "idle" /\ commands < MaxCommands
    /\ commands' = commands + 1
    /\ \E pack, build \in BOOLEAN :
        /\ packing' = [packing EXCEPT ![s] = pack]
        /\ Goto(s, IF build THEN "build" ELSE "provider")
    /\ UNCHANGED <<author, artifact, packs, built, declared, report, copied, next,
                   history>>
Build(s) ==
    /\ stage[s] = "build"
    /\ artifact' = [artifact EXCEPT ![BuildTarget] = source]
    /\ built' = [built EXCEPT ![s] = source]
    /\ rebuilt' = rebuilt \cup {t \in Shells \ {s} : stage[t] # "idle"}
    /\ Goto(s, "provider")
    /\ UNCHANGED <<author, packs, commands, packing, declared, report, copied, next,
                   disturbed>>
ReadProvider(s) ==
    /\ stage[s] = "provider"
    /\ declared' = [declared EXCEPT ![s] = provider]
    /\ Goto(s, "artifact")
    /\ UNCHANGED <<author, artifact, packs, commands, packing, built, report, copied,
                   next, history>>
FirstThere(candidates) ==
    candidates[CHOOSE i \in DOMAIN candidates :
        /\ artifact[candidates[i]] # NoFile
        /\ \A j \in 1 .. i - 1 : artifact[candidates[j]] = NoFile]
\* The first candidate that is there, read, hashed and checked.
ReadArtifact(s) ==
    /\ stage[s] = "artifact"
    /\ \E t \in Targets : artifact[t] # NoFile
    /\ LET target == FirstThere(Candidates(declared[s].target))
       IN /\ <<artifact[target], declared[s]>> \in Satisfies
          /\ report' = [report EXCEPT ![s] =
               [target |-> target, artifact |-> artifact[target]]]
    /\ Goto(s, IF packing[s] THEN "clear" ELSE "validated")
    /\ UNCHANGED <<author, artifact, packs, commands, packing, built, declared,
                   copied, next, history>>
Validated(s) ==
    /\ stage[s] = "validated"
    /\ Ended(s)
    /\ UNCHANGED <<author, artifact, packs, commands, disturbed>>

-----------------------------------------------------------------------------
(* Packing.                                                                *)

Overlap(s) == {Dest(s) : t \in {t \in Shells \ {s} : InDest(t) /\ Dest(t) = Dest(s)}}
\* remove_dir_all: one file after another, in the order the directory has.
RemoveFile(s, f) ==
    /\ stage[s] = "clear"
    /\ packs[Dest(s)] # NoDir /\ packs[Dest(s)][f] # NoFile
    /\ packs' = [packs EXCEPT ![Dest(s)][f] = NoFile]
    /\ disturbed' = disturbed \cup Overlap(s)
    /\ UNCHANGED <<author, artifact, commands, stage, progress, rebuilt>>
\* mutant: the directory of an earlier pack is kept.
KeepDirectory(s) ==
    /\ stage[s] = "clear"
    /\ disturbed' = disturbed \cup Overlap(s)
    /\ Goto(s, "mkdir")
    /\ UNCHANGED <<author, artifact, packs, commands, progress, rebuilt>>
RemoveDirectory(s) ==
    /\ stage[s] = "clear"
    /\ packs[Dest(s)] # NoDir => \A f \in FileNames : packs[Dest(s)][f] = NoFile
    /\ packs' = [packs EXCEPT ![Dest(s)] = NoDir]
    /\ disturbed' = disturbed \cup Overlap(s)
    /\ Goto(s, "mkdir")
    /\ UNCHANGED <<author, artifact, commands, progress, rebuilt>>
MakeDirectory(s) ==
    /\ stage[s] = "mkdir"
    /\ packs' = [packs EXCEPT ![Dest(s)] =
                     IF @ = NoDir THEN [f \in FileNames |-> NoFile] ELSE @]
    /\ disturbed' = disturbed \cup Overlap(s)
    /\ Goto(s, "open")
    /\ UNCHANGED <<author, artifact, commands, progress, rebuilt>>

FileAt(s) == Files[next[s]]
\* The copy is of the artifact as it is by now.
OpenFile(s) ==
    /\ stage[s] = "open"
    /\ packs[Dest(s)] # NoDir
    /\ packs' = [packs EXCEPT ![Dest(s)][FileAt(s)] = Torn]
    /\ copied' = [copied EXCEPT ![s] =
                      IF FileAt(s) = "wasm" THEN artifact[report[s].target]
                      ELSE @]
    /\ disturbed' = IF FileAt(s) = "wasm" /\ s \in rebuilt
                    THEN disturbed \cup {Dest(s)} ELSE disturbed
    /\ Goto(s, "fill")
    /\ UNCHANGED <<author, artifact, commands, packing, built, declared, report,
                   next, rebuilt>>
Content(s) ==
    CASE FileAt(s) = "wasm" -> copied[s]
      [] FileAt(s) = "meta" -> [provider |-> declared[s],
                               artifact |-> report[s].artifact]
      [] FileAt(s) = "sums" -> report[s].artifact
\* A file that another shell removed in the meantime stays removed, and one
\* that it wrote may be a mixture.
Filled(old, new) ==
    IF old = NoFile THEN {NoFile}
    ELSE IF old = Torn THEN {new} ELSE {new, Torn}
FillFile(s) ==
    /\ stage[s] = "fill"
    /\ IF packs[Dest(s)] = NoDir THEN UNCHANGED packs
       ELSE \E content \in Filled(packs[Dest(s)][FileAt(s)], Content(s)) :
              packs' = [packs EXCEPT ![Dest(s)][FileAt(s)] = content]
    /\ IF next[s] < Len(Files)
       THEN /\ next' = [next EXCEPT ![s] = @ + 1]
            /\ Goto(s, "open")
            /\ UNCHANGED <<packing, built, declared, report, copied, rebuilt>>
       ELSE Ended(s)
    /\ UNCHANGED <<author, artifact, commands, disturbed>>

\* An error or a kill, between any two steps.
Stop(s) ==
    /\ stage[s] # "idle"
    /\ disturbed' = IF stage[s] = "clear" THEN disturbed \cup {Dest(s)}
                    ELSE disturbed
    /\ Ended(s)
    /\ UNCHANGED <<author, artifact, packs, commands>>

Next ==
    \/ Edit
    \/ \E s \in Shells :
        \/ Begin(s) \/ Build(s) \/ ReadProvider(s) \/ ReadArtifact(s)
        \/ Validated(s)
        \/ \E f \in FileNames : RemoveFile(s, f)
        \/ RemoveDirectory(s) \/ MakeDirectory(s) \/ OpenFile(s) \/ FillFile(s)
        \/ Stop(s)
Spec == Init /\ [][Next]_vars

-----------------------------------------------------------------------------
(* Properties.                                                             *)

Stages == {"idle", "build", "provider", "artifact", "validated", "clear",
           "mkdir", "open", "fill"}
\* Every variable has its type, and a shell past the validation has an
\* artifact that satisfies what provider.toml said when it was read.
TypeOK ==
    /\ source \in Artifacts /\ provider \in Providers /\ edits \in 0 .. MaxEdits
    /\ artifact \in [Targets -> Artifacts \cup {NoFile}]
    /\ packs \in [Dests -> Directories \cup {NoDir}]
    /\ commands \in 0 .. MaxCommands
    /\ stage \in [Shells -> Stages]
    /\ packing \in [Shells -> BOOLEAN]
    /\ built \in [Shells -> Artifacts \cup {None}]
    /\ declared \in [Shells -> Providers \cup {None}]
    /\ report \in [Shells -> Reports \cup {None}]
    /\ copied \in [Shells -> Artifacts \cup {None}]
    /\ next \in [Shells -> DOMAIN Files]
    /\ rebuilt \subseteq Shells /\ disturbed \subseteq Dests
    /\ \A s \in Shells : InDest(s) =>
         /\ report[s] # None /\ declared[s] # None
         /\ <<report[s].artifact, declared[s]>> \in Satisfies
         /\ stage[s] = "fill" => copied[s] # None

\* A directory with a complete SHA256SUMS is a whole pack: the artifact has that
\* hash, the metadata names it, and it satisfies the provider.toml of the
\* metadata.  Whatever is edited meanwhile and wherever a command ends while
\* it writes; not while the directory is cleared, and not if two commands
\* overlapped in it or the artifact was built again between the two times it
\* was read.
SumsHold == \A d \in Dests :
    LET p == packs[d]
    IN (/\ d \notin disturbed /\ p # NoDir
        /\ ~\E s \in Shells : stage[s] = "clear" /\ Dest(s) = d)
       /\ p.sums \notin {NoFile, Torn}
       => /\ p.wasm = p.sums
          /\ p.meta \notin {NoFile, Torn} /\ p.meta.artifact = p.sums
          /\ p.meta.provider.dest = d
          /\ <<p.wasm, p.meta.provider>> \in Satisfies

ReadsArtifact(s) == stage[s] = "artifact" /\ stage'[s] \in {"clear", "validated"}
\* What a command builds is what it validates and packs, if provider.toml
\* names the path that it is built to and no other shell builds meanwhile: a
\* file that an older build left under another target is not what is taken.
BuildIsValidated == [][\A s \in Shells :
    ReadsArtifact(s) /\ built[s] # None /\ s \notin rebuilt
        /\ declared[s].target = BuildTarget
    => report'[s].artifact = built[s]]_vars

=============================================================================
