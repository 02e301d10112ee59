----------------------------- MODULE ToolInstall -----------------------------
(***************************************************************************)
(* `greentic-dev install tools` (passthrough.rs): make sure cargo-binstall *)
(* is there, then let it replace the binaries of the toolchain one by one. *)
(* A process is one shell; which executable it calls, greentic-dev,        *)
(* greentic-dev-dev or greentic-dev-rnd, decides the channel.  Every crate *)
(* has one binary of the same name, and the table of external tools is     *)
(* empty, so the second loop of the command does nothing.                  *)
(*                                                                         *)
(* cargo-binstall is external.  It keeps a record of what it installed     *)
(* (~/.cargo/.crates.toml) and, unless `--latest` makes the command pass   *)
(* `--force`, leaves a tool alone whose record already names the version   *)
(* it selects, whatever binary is there (see coverage_cmd.rs, 202-204).    *)
(* One call of it is one step.                                             *)
(***************************************************************************)
EXTENDS CrateVersions, Sequences

CONSTANTS
    Procs,        \* the shells
    Catalogue,    \* GREENTIC_TOOLCHAIN_PACKAGES, in its order
    Channels,     \* the channels whose executables are called
    Publishable,  \* the <<tool, version>> pairs that may be published
    SideLoads,    \* the <<tool, version>> pairs an operator may put in place;
                  \* NoTool is a binary that is removed, or not restored with
                  \* its record
    MaxBinstall,  \* bound: releases of cargo-binstall
    MaxInstalls   \* bound: commands started in a behaviour

VARIABLES
    index,     \* tool -> versions crates.io has of it
    released,  \* the newest cargo-binstall there is
    binstall,  \* the one that is installed, or NoTool
    bins,      \* tool -> version of its binary, or NoTool
    recorded,  \* tool -> version cargo-binstall has on record, or NoTool
    byhand,    \* history: the tools whose binary was changed by hand since
               \* cargo-binstall last put one in place
    installs,  \* commands started so far
    pc,        \* where each process is
    channel,   \* the channel of its executable
    latest,    \* whether it was given --latest
    next,      \* the package it is at
    pin,       \* the version it asks for, or NoPin
    failed,    \* required binaries that could not be installed
    moved,     \* those cargo-binstall reported success for
    begun,     \* history: what the index had when its command started
    stale      \* history: the tools for which another shell then held a pin

tools == <<bins, recorded, byhand>>
options == <<channel, latest, begun, stale>>
progress == <<options, next, pin, failed, moved>>
vars == <<index, released, binstall, tools, installs, pc, progress>>

NoTool == 0
NoPin == 0
Packages == {Catalogue[i] : i \in 1..Len(Catalogue)}

\* The crate and the binary of a package on a channel: `stable` is the plain
\* name, the others carry their suffix.
DelegatedBinaryName(package, ch) == <<package, ch>>
ToolNames == Packages \X {"stable", "dev", "rnd"}

ASSUME InstallAssumption ==
    /\ Channels # {} /\ Channels \subseteq {"stable", "dev", "rnd"}
    /\ Catalogue \in Seq(STRING)
    /\ Publishable \subseteq ToolNames \X Versions
    /\ SideLoads \subseteq ToolNames \X (Versions \cup {NoTool})
    /\ MaxBinstall \in Nat \ {0} /\ MaxInstalls \in Nat

Stages == {"idle", "ensure", "cargo_install", "resolve", "install",
           "done", "incomplete", "stopped"}
Ended == {"idle", "done", "incomplete", "stopped"}

Goto(p, stage) == pc' = [pc EXCEPT ![p] = stage]
Tool(p) == DelegatedBinaryName(Catalogue[next[p]], channel[p])
Left(p) == next[p] <= Len(Catalogue)

Init ==
    /\ index = [t \in ToolNames |-> {}]
    /\ released = 1
    /\ binstall = NoTool
    /\ bins = [t \in ToolNames |-> NoTool]
    /\ recorded = [t \in ToolNames |-> NoTool]
    /\ byhand = {}
    /\ installs = 0
    /\ pc = [p \in Procs |-> "idle"]
    /\ channel = [p \in Procs |-> CHOOSE c \in Channels : TRUE]
    /\ latest = [p \in Procs |-> FALSE]
    /\ next = [p \in Procs |-> 1]
    /\ pin = [p \in Procs |-> NoPin]
    /\ failed = [p \in Procs |-> {}]
    /\ moved = [p \in Procs |-> {}]
    /\ begun = [p \in Procs |-> index]
    /\ stale = [p \in Procs |-> {}]

\* What crates.io has of a channel's tools.
KnownOn(ch) == [t \in ToolNames |-> IF t[2] = ch THEN index[t] ELSE {}]
\* The tools of a channel a shell other than p is about to install a pin of.
PinnedElsewhere(p, ch) ==
    {Tool(q) : q \in {r \in Procs \ {p} :
                        pc[r] = "install" /\ pin[r] # NoPin /\ channel[r] = ch}}

Begin(p) ==
    /\ pc[p] \in Ended
    /\ installs < MaxInstalls
    /\ installs' = installs + 1
    /\ \E c \in Channels :
         /\ channel' = [channel EXCEPT ![p] = c]
         /\ begun' = [begun EXCEPT ![p] = KnownOn(c)]
         /\ stale' = [stale EXCEPT ![p] = PinnedElsewhere(p, c)]
    /\ \E force_latest \in BOOLEAN : latest' = [latest EXCEPT ![p] = force_latest]
    /\ next' = [next EXCEPT ![p] = 1]
    /\ pin' = [pin EXCEPT ![p] = NoPin]
    /\ failed' = [failed EXCEPT ![p] = {}]
    /\ moved' = [moved EXCEPT ![p] = {}]
    /\ Goto(p, "ensure")
    /\ UNCHANGED <<index, released, binstall, tools>>

\* What `cargo binstall -V` says: nothing when it fails or prints no version.
ProbedVersions == {NoTool, binstall}

\* A failed search for the newest version is only a warning; unreadable output
\* of the probe ends the command.
EnsureCargoBinstall(p) ==
    /\ pc[p] = "ensure"
    /\ \/ \E seen \in ProbedVersions :
            \/ Goto(p, IF seen < released THEN "cargo_install" ELSE "resolve")
            \/ seen # NoTool /\ Goto(p, "resolve")
       \/ Goto(p, "stopped")
    /\ UNCHANGED <<index, released, binstall, tools, installs, progress>>

InstallCargoBinstall(p) ==
    /\ pc[p] = "cargo_install"
    /\ \/ binstall' = released /\ Goto(p, "resolve")
       \/ Goto(p, "stopped") /\ UNCHANGED binstall
    /\ UNCHANGED <<index, released, tools, installs, progress>>

\* The research channel pins a version and skips a crate that has none; a
\* resolution that fails ends the command.
Resolve(p) ==
    /\ pc[p] = "resolve" /\ Left(p)
    /\ \/ /\ channel[p] # "rnd"
          /\ pin' = [pin EXCEPT ![p] = NoPin]
          /\ Goto(p, "install") /\ UNCHANGED next
       \/ /\ channel[p] = "rnd"
          /\ \E v \in ResolveResearch(index[Tool(p)]) :
               IF v = Absent
               THEN next' = [next EXCEPT ![p] = @ + 1] /\ UNCHANGED <<pc, pin>>
               ELSE /\ pin' = [pin EXCEPT ![p] = v]
                    /\ Goto(p, "install") /\ UNCHANGED next
       \/ /\ channel[p] = "rnd"
          /\ Goto(p, "stopped") /\ UNCHANGED <<next, pin>>
    /\ UNCHANGED <<index, released, binstall, tools, installs, options, failed,
                   moved>>

\* cargo-binstall selects no pre-release unless it is asked for it.
BinstallChoices(tool, version) ==
    IF version = NoPin THEN Highest(index[tool] \cap PlainVersions)
    ELSE {version}

\* mutant: --latest is not passed on as --force
UpToDateUnforced(tool, version, force_latest) == recorded[tool] = version

\* Without --force, cargo-binstall has nothing to do for what is on record.
UpToDate(tool, version, force_latest) ==
    ~force_latest /\ recorded[tool] = version

\* What a successful call does to a tool.
Binstall(tool, version, force_latest) ==
    IF UpToDate(tool, version, force_latest) THEN UNCHANGED tools
    ELSE /\ bins' = [bins EXCEPT ![tool] = version]
         /\ recorded' = [recorded EXCEPT ![tool] = version]
         /\ byhand' = byhand \ {tool}

\* mutant: a failure is only printed
InstallUncounted(p) ==
    /\ pc[p] = "install"
    /\ \/ /\ \E v \in BinstallChoices(Tool(p), pin[p]) :
               Binstall(Tool(p), v, latest[p])
          /\ moved' = [moved EXCEPT ![p] = @ \cup {Tool(p)}]
       \/ UNCHANGED <<tools, moved>>
    /\ next' = [next EXCEPT ![p] = @ + 1]
    /\ Goto(p, "resolve")
    /\ UNCHANGED <<index, released, binstall, installs, options, pin, failed>>

\* cargo-binstall succeeds, or its failure is collected and the list goes on.
InstallWithBinstall(p) ==
    /\ pc[p] = "install"
    /\ \/ /\ \E v \in BinstallChoices(Tool(p), pin[p]) :
               Binstall(Tool(p), v, latest[p])
          /\ moved' = [moved EXCEPT ![p] = @ \cup {Tool(p)}]
          /\ UNCHANGED failed
       \/ /\ failed' = [failed EXCEPT ![p] = @ \cup {Tool(p)}]
          /\ UNCHANGED <<tools, moved>>
    /\ next' = [next EXCEPT ![p] = @ + 1]
    /\ Goto(p, "resolve")
    /\ UNCHANGED <<index, released, binstall, installs, options, pin>>

Finish(p) ==
    /\ pc[p] = "resolve" /\ ~Left(p)
    /\ Goto(p, IF failed[p] = {} THEN "done" ELSE "incomplete")
    /\ UNCHANGED <<index, released, binstall, tools, installs, progress>>

Kill(p) ==
    /\ pc[p] \notin Ended
    /\ Goto(p, "stopped")
    /\ UNCHANGED <<index, released, binstall, tools, installs, progress>>

(* The world outside: crates and cargo-binstall are released, and between  *)
(* commands an operator puts a binary from a release archive in place, or  *)
(* removes one; a CI cache that restores the record without the binary     *)
(* leaves the same behind.                                                 *)

PublishCrate ==
    /\ \E tv \in Publishable :
         /\ tv[2] \notin index[tv[1]]
         /\ index' = [index EXCEPT ![tv[1]] = @ \cup {tv[2]}]
    /\ UNCHANGED <<released, binstall, tools, installs, pc, progress>>

ReleaseBinstall ==
    /\ released < MaxBinstall
    /\ released' = released + 1
    /\ UNCHANGED <<index, binstall, tools, installs, pc, progress>>

SideLoad ==
    /\ \A p \in Procs : pc[p] \in Ended
    /\ \E tv \in SideLoads :
         /\ bins' = [bins EXCEPT ![tv[1]] = tv[2]]
         /\ byhand' = byhand \cup {tv[1]}
    /\ UNCHANGED <<index, released, binstall, recorded, installs, pc, progress>>

Next ==
    \/ \E p \in Procs :
         \/ Begin(p) \/ EnsureCargoBinstall(p) \/ InstallCargoBinstall(p)
         \/ Resolve(p) \/ InstallWithBinstall(p) \/ Finish(p) \/ Kill(p)
    \/ PublishCrate \/ ReleaseBinstall \/ SideLoad

Spec == Init /\ [][Next]_vars

-----------------------------------------------------------------------------
\* Every variable has its type: what is pinned or installed is a version.
TypeOK ==
    /\ index \in [ToolNames -> SUBSET Versions]
    /\ released \in 1..MaxBinstall /\ binstall \in 0..MaxBinstall
    /\ bins \in [ToolNames -> Versions \cup {NoTool}]
    /\ recorded \in [ToolNames -> Versions \cup {NoTool}]
    /\ byhand \subseteq ToolNames
    /\ installs \in 0..MaxInstalls
    /\ pc \in [Procs -> Stages]
    /\ channel \in [Procs -> Channels] /\ latest \in [Procs -> BOOLEAN]
    /\ next \in [Procs -> 1..Len(Catalogue) + 1]
    /\ pin \in [Procs -> Versions \cup {NoPin}]
    /\ failed \in [Procs -> SUBSET ToolNames]
    /\ moved \in [Procs -> SUBSET ToolNames]
    /\ begun \in [Procs -> [ToolNames -> SUBSET Versions]]
    /\ stale \in [Procs -> SUBSET ToolNames]

\* No binary is installed before cargo-binstall is, whatever its probe said
\* and however its own installation went (ensure_cargo_binstall).
BinstallThere ==
    \A p \in Procs : pc[p] \in {"resolve", "install"} => binstall # NoTool

\* The versions a channel may install.
ChannelVersions(ch) == IF ch = "rnd" THEN ResearchOnes ELSE PlainVersions

\* A version is of the command's channel and at least as new as every such
\* version crates.io had when the command started; a channel without any
\* promises nothing (install_all_delegated_tools, research_or_fallback).
NewEnough(p, tool, version) ==
    LET known == begun[p][tool] \cap ChannelVersions(channel[p])
    IN known # {} => /\ version \in ChannelVersions(channel[p])
                     /\ \A v \in known : v <= version

\* A success leaves a version that is new enough on cargo-binstall's record.
\* The binary is that version when it was replaced, and always with --latest;
\* otherwise one that was changed by hand may stay.
NewestInstalled ==
    [][\A p \in Procs : pc[p] = "install" /\ moved'[p] # moved[p] =>
         LET tool == Tool(p)
         IN /\ NewEnough(p, tool, recorded'[tool])
            /\ latest[p] \/ bins'[tool] # bins[tool] \/ tool \notin byhand =>
                 bins'[tool] = recorded'[tool]]_vars

\* A command that got to the end of its list has forgotten no tool: each is
\* named as failed, or cargo-binstall succeeded for it, or it had no research
\* build when the command started.
NothingForgotten ==
    \A p \in Procs : pc[p] \in {"done", "incomplete"} =>
      \A tool \in Packages \X {channel[p]} :
         \/ tool \in failed[p] /\ pc[p] = "incomplete"
         \/ tool \in moved[p]
         \/ channel[p] = "rnd" /\ begun[p][tool] = {}

\* When a command gets to the end of its list, every tool cargo-binstall
\* succeeded for is still new enough, whatever other shells installed
\* meanwhile: its record, and its binary too unless that was changed by hand
\* and --latest not given.  Only a research build pinned by another shell
\* before this command began may have replaced it by an older one: a pin
\* resolved since then knows what this command knew.
StillNewEnough ==
    \A p \in Procs : pc[p] = "resolve" /\ ~Left(p) =>
        \A tool \in moved[p] \ stale[p] :
           /\ NewEnough(p, tool, recorded[tool])
           /\ latest[p] \/ tool \notin byhand => NewEnough(p, tool, bins[tool])
=============================================================================
