--------------------------- MODULE ReleaseRegistry ---------------------------
(***************************************************************************)
(* `greentic-dev release` (release_cmd.rs) against the OCI registry every  *)
(* release engineer and CI job shares.  A process is one shell or CI job   *)
(* that invokes the command, possibly several times.  One action stands    *)
(* for the code between two remote calls; processes, CI builds uploading   *)
(* release files and crates being published interleave between them.  A    *)
(* process may stop at any step: a remote call fails, or it is killed.     *)
(***************************************************************************)
EXTENDS ToolchainManifest

CONSTANTS
    Procs,           \* shells and CI jobs
    Commands,        \* the command lines they may run
    LocalManifests,  \* manifest files written by hand for `publish --manifest`
    Publishable,     \* the <<crate, version>> pairs that may be published
    Buildable,       \* the release files CI may upload
    GtcBuildable,    \* the gtc release files CI may upload
    MaxLaunches      \* bound: commands started in a behaviour

VARIABLES
    registry,    \* tag -> manifest stored under it
    index,       \* crate -> versions crates.io has published
    assets,      \* files attached to the packages' GitHub releases
    gtcAssets,   \* files attached to gtc's GitHub releases
    dist,        \* manifest files in the --out directory
    dispatched,  \* releases the update-plan workflow was told about
    launches,    \* commands started so far
    pc,          \* where each process is
    cmd,         \* its command line
    source,      \* the source manifest it loaded
    manifest,    \* the manifest it will push
    todo,        \* pins the gate has not checked yet
    clean        \* no pin checked so far was a problem

world == <<index, assets, gtcAssets>>
memory == <<cmd, source, manifest, todo, clean>>
vars == <<registry, world, dist, dispatched, launches, pc, memory>>

Operations == {"publish", "publish_file", "snapshot", "snapshot_github",
               "promote", "generate", "latest"}
Snapshots == {"snapshot", "snapshot_github"}
\* `from` is the source tag; for snapshot it is the channel's tag.
CommandLines == [op : Operations, release : Tags \cup {NoTag}, from : Tags,
                 tag : Tags \cup {NoTag}, force : BOOLEAN, dry : BOOLEAN,
                 notify : BOOLEAN, token : BOOLEAN]

ASSUME CommandAssumption ==
    /\ Commands # {} /\ Commands \subseteq CommandLines
    /\ \A c \in Commands :
         /\ c.op # "publish_file" => c.release # NoTag
         /\ c.op = "promote" => c.tag # NoTag
         /\ c.op = "snapshot" => c.from \in {"stable", "dev", "rnd"}
         /\ c.op = "snapshot_github" => c.from = "dev"
ASSUME WorldAssumption ==
    /\ LocalManifests \subseteq Manifests
    /\ Publishable \subseteq Crates \X Versions
    /\ Buildable \subseteq Assets
    /\ GtcBuildable \subseteq GtcRefs
    /\ MaxLaunches \in Nat

Stages == {"idle", "load", "bootstrap", "resolve", "gate", "name_gtc",
           "authorize", "check", "push", "tag", "pull", "notify",
           "done", "failed"}
Ended == {"idle", "done", "failed"}

Op(p) == cmd[p].op
Goto(p, stage) == pc' = [pc EXCEPT ![p] = stage]
WriteFile(m) == dist' = {f \in dist : FileName(f) # FileName(m)} \cup {m}

\* The pins the gate looks up: none unless the push affects the stable lane.
PinsToVerify(m, tag) == IF AffectsStable(m, tag) THEN m.pins ELSE {}

Init ==
    /\ registry = [t \in Tags |-> NoManifest]
    /\ index = [c \in Crates |-> {}]
    /\ assets = {}
    /\ gtcAssets = {}
    /\ dist = {}
    /\ dispatched = {}
    /\ launches = 0
    /\ pc = [p \in Procs |-> "idle"]
    /\ cmd = [p \in Procs |-> CHOOSE c \in Commands : TRUE]
    /\ source = [p \in Procs |-> NoManifest]
    /\ manifest = [p \in Procs |-> NoManifest]
    /\ todo = [p \in Procs |-> {}]
    /\ clean = [p \in Procs |-> TRUE]

-----------------------------------------------------------------------------
(* Starting a command.  A dry-run promote or latest prints and ends.       *)

FirstStage(c) ==
    CASE c.op \in {"promote", "latest"} /\ c.dry -> "done"
      [] c.op = "latest" /\ ~c.dry -> "authorize"
      [] c.op \in Snapshots -> "resolve"
      [] OTHER -> "load"

Begin(p) ==
    /\ pc[p] \in Ended
    /\ launches < MaxLaunches
    /\ launches' = launches + 1
    /\ \E c \in Commands :
         /\ cmd' = [cmd EXCEPT ![p] = c]
         /\ Goto(p, FirstStage(c))
         /\ manifest' = [manifest EXCEPT ![p] =
                           IF c.op = "latest" THEN LatestManifest
                           ELSE NoManifest]
    /\ source' = [source EXCEPT ![p] = NoManifest]
    /\ todo' = [todo EXCEPT ![p] = {}]
    /\ clean' = [clean EXCEPT ![p] = TRUE]
    /\ UNCHANGED <<registry, world, dist, dispatched>>

(* Loading the source.  A missing tag, one the credentials may not read    *)
(* and one whose image has no toolchain layer all load as None; promote    *)
(* also drops every other error.                                           *)

LoadOutcomes(p) ==
    {registry[IF Op(p) = "promote" THEN cmd[p].release ELSE cmd[p].from],
     NoManifest}

LoadSource(p) ==
    /\ pc[p] = "load" /\ Op(p) \in {"publish", "generate"}
    /\ \E m \in LoadOutcomes(p) :
         /\ source' = [source EXCEPT ![p] = m]
         /\ Goto(p, IF Op(p) = "generate" /\ m = NoManifest
                    THEN "bootstrap" ELSE "resolve")
    /\ UNCHANGED <<registry, world, dist, dispatched, launches, cmd, manifest,
                   todo, clean>>

LoadPromoted(p) ==
    /\ pc[p] = "load" /\ Op(p) = "promote"
    /\ \E m \in LoadOutcomes(p) :
         IF m = NoManifest
         THEN /\ Goto(p, IF cmd[p].tag = "stable" THEN "failed" ELSE "authorize")
              /\ UNCHANGED <<source, manifest, todo>>
         ELSE /\ source' = [source EXCEPT ![p] = m]
              /\ manifest' = [manifest EXCEPT ![p] = m]
              /\ todo' = [todo EXCEPT ![p] = PinsToVerify(m, cmd[p].tag)]
              /\ Goto(p, "gate")
    /\ UNCHANGED <<registry, world, dist, dispatched, launches, cmd, clean>>

LoadFile(p) ==
    /\ pc[p] = "load" /\ Op(p) = "publish_file"
    /\ \E f \in dist \cup LocalManifests :
         LET m == IF cmd[p].release = NoTag THEN f
                  ELSE [f EXCEPT !.version = cmd[p].release]
         IN /\ manifest' = [manifest EXCEPT ![p] = m]
            /\ todo' = [todo EXCEPT ![p] = PinsToVerify(m, cmd[p].tag)]
    /\ Goto(p, "gate")
    /\ UNCHANGED <<registry, world, dist, dispatched, launches, cmd, source,
                   clean>>

\* mutant: the bootstrapped source carries the requested release's version
BootstrapAsRelease(p) ==
    /\ pc[p] = "bootstrap" /\ source[p] = NoManifest
    /\ \E m \in GeneratedManifests(cmd[p].release, cmd[p].from, NoManifest, index) :
         source' = [source EXCEPT ![p] = m]
    /\ UNCHANGED <<registry, world, dist, dispatched, launches, pc, cmd,
                   manifest, todo, clean>>

(* generate, source missing: a fresh manifest for the source tag becomes   *)
(* the source and, with a token, is pushed there: no gate, no existence    *)
(* check.                                                                  *)
Bootstrap(p) ==
    /\ pc[p] = "bootstrap" /\ source[p] = NoManifest
    /\ \E m \in GeneratedManifests(cmd[p].from, cmd[p].from, NoManifest, index) :
         source' = [source EXCEPT ![p] = m]
    /\ IF cmd[p].dry \/ ~cmd[p].token
       THEN Goto(p, "resolve") ELSE UNCHANGED pc
    /\ UNCHANGED <<registry, world, dist, dispatched, launches, cmd, manifest,
                   todo, clean>>

PushBootstrap(p) ==
    /\ pc[p] = "bootstrap" /\ source[p] # NoManifest
    /\ registry' = [registry EXCEPT ![cmd[p].from] = source[p]]
    /\ Goto(p, "resolve")
    /\ UNCHANGED <<world, dist, dispatched, launches, memory>>

(* Assembling the manifest from the source and the crate index.            *)

AssembledManifests(p) ==
    IF Op(p) = "snapshot_github"
    THEN GithubManifests(cmd[p].release,
                         {pin \in Pins : CheckReleaseAssets(assets, pin)})
    ELSE GeneratedManifests(cmd[p].release, cmd[p].from, source[p], index)

ResolveForPush(p) ==
    /\ pc[p] = "resolve" /\ Op(p) \in {"publish"} \cup Snapshots
    /\ \E m \in AssembledManifests(p) :
         /\ manifest' = [manifest EXCEPT ![p] = m]
         /\ todo' = [todo EXCEPT ![p] = PinsToVerify(m, cmd[p].tag)]
         /\ IF Op(p) = "publish" /\ ~cmd[p].dry
            THEN WriteFile(m) ELSE UNCHANGED dist
    /\ Goto(p, "gate")
    /\ UNCHANGED <<registry, world, dispatched, launches, cmd, source, clean>>

ResolveForFile(p) ==
    /\ pc[p] = "resolve" /\ Op(p) = "generate"
    /\ \E m \in AssembledManifests(p) :
         /\ manifest' = [manifest EXCEPT ![p] = m]
         /\ IF cmd[p].dry THEN UNCHANGED dist ELSE WriteFile(m)
    /\ Goto(p, "done")
    /\ UNCHANGED <<registry, world, dispatched, launches, cmd, source, todo,
                   clean>>

(* The gate asks GitHub about one pin at a time and reports all problems.  *)

GateCheck(p) ==
    /\ pc[p] = "gate"
    /\ \E pin \in todo[p] :
         /\ todo' = [todo EXCEPT ![p] = @ \ {pin}]
         /\ clean' = [clean EXCEPT ![p] =
                        @ /\ CheckReleaseAssets(assets, pin)]
    /\ UNCHANGED <<registry, world, dist, dispatched, launches, pc, cmd,
                   source, manifest>>

GateVerdict(p) ==
    /\ pc[p] = "gate" /\ todo[p] = {}
    /\ Goto(p, IF ~clean[p] THEN "failed"
               ELSE IF Op(p) = "promote" THEN "authorize" ELSE "name_gtc")
    /\ UNCHANGED <<registry, world, dist, dispatched, launches, memory>>

(* Naming gtc's files, unless the manifest already does; a dry run ends    *)
(* here and a snapshot writes its file.                                    *)
NameGtc(p) ==
    /\ pc[p] = "name_gtc"
    /\ LET named == GtcArtifactsFor(manifest[p].version, gtcAssets)
           m == [manifest[p] EXCEPT !.gtc = IF @ = {} THEN named ELSE @]
       IN /\ manifest' = [manifest EXCEPT ![p] = m]
          /\ IF Op(p) \in Snapshots /\ ~cmd[p].dry
             THEN WriteFile(m) ELSE UNCHANGED dist
    /\ Goto(p, IF cmd[p].dry THEN "done" ELSE "authorize")
    /\ UNCHANGED <<registry, world, dispatched, launches, cmd, source, todo,
                   clean>>

Authorize(p) ==
    /\ pc[p] = "authorize"
    /\ Goto(p, CASE ~cmd[p].token -> "failed"
                 [] cmd[p].token /\ Op(p) = "promote" -> "pull"
                 [] OTHER -> IF cmd[p].force THEN "push" ELSE "check")
    /\ UNCHANGED <<registry, world, dist, dispatched, launches, memory>>

-----------------------------------------------------------------------------
(* Writing to the registry.  The manifest's own version is the release tag *)
(* it is pushed under ("latest" for `release latest`).                     *)

\* mutant: wait until the tag is gone
PollExists(p) ==
    /\ pc[p] = "check"
    /\ Goto(p, IF registry[manifest[p].version] = NoManifest
               THEN "push" ELSE "authorize")
    /\ UNCHANGED <<registry, world, dist, dispatched, launches, memory>>

CheckExists(p) ==
    /\ pc[p] = "check"
    /\ Goto(p, IF registry[manifest[p].version] = NoManifest
               THEN "push" ELSE "failed")
    /\ UNCHANGED <<registry, world, dist, dispatched, launches, memory>>

\* mutant: with --tag only the tag is pushed
PushTagInstead(p) ==
    /\ pc[p] = "push"
    /\ registry' = [registry EXCEPT
         ![IF cmd[p].tag = NoTag THEN manifest[p].version ELSE cmd[p].tag] =
           manifest[p]]
    /\ Goto(p, IF Op(p) = "latest" THEN "done" ELSE "notify")
    /\ UNCHANGED <<world, dist, dispatched, launches, memory>>

PushRelease(p) ==
    /\ pc[p] = "push"
    /\ registry' = [registry EXCEPT ![manifest[p].version] = manifest[p]]
    /\ Goto(p, CASE Op(p) = "latest" -> "done"
                 [] Op(p) # "latest" /\ cmd[p].tag # NoTag -> "tag"
                 [] OTHER -> "notify")
    /\ UNCHANGED <<world, dist, dispatched, launches, memory>>

\* promote: what is under the release tag by now, which is not looked at again
PullRelease(p) ==
    /\ pc[p] = "pull"
    /\ IF registry[cmd[p].release] = NoManifest
       THEN Goto(p, "failed") /\ UNCHANGED manifest
       ELSE /\ manifest' = [manifest EXCEPT ![p] = registry[cmd[p].release]]
            /\ Goto(p, "tag")
    /\ UNCHANGED <<registry, world, dist, dispatched, launches, cmd, source,
                   todo, clean>>

PushTag(p) ==
    /\ pc[p] = "tag"
    /\ registry' = [registry EXCEPT ![cmd[p].tag] = manifest[p]]
    /\ Goto(p, "notify")
    /\ UNCHANGED <<world, dist, dispatched, launches, memory>>

(* Telling the update-plan workflow; a failed dispatch is only a warning.  *)

NotifiedRelease(p) == IF Op(p) = "promote" THEN cmd[p].release
                      ELSE manifest[p].version
NotifiedManifest(p) == IF Op(p) = "promote" THEN source[p] ELSE manifest[p]

MayNotify(p) ==
    /\ cmd[p].notify
    /\ NotifiedManifest(p) # NoManifest
    /\ ShouldNotify(NotifiedRelease(p), NotifiedManifest(p).channel)

Notify(p) ==
    /\ pc[p] = "notify"
    /\ \/ MayNotify(p) /\ dispatched' = dispatched \cup {NotifiedRelease(p)}
       \/ UNCHANGED dispatched
    /\ Goto(p, "done")
    /\ UNCHANGED <<registry, world, dist, launches, memory>>

-----------------------------------------------------------------------------
(* A remote call fails or the process is killed.                           *)
Stop(p) ==
    /\ pc[p] \notin Ended
    /\ Goto(p, "failed")
    /\ UNCHANGED <<registry, world, dist, dispatched, launches, memory>>

(* The world outside: crates are published and CI attaches release files.  *)

PublishCrate ==
    /\ \E cv \in Publishable :
         /\ cv[2] \notin index[cv[1]]
         /\ index' = [index EXCEPT ![cv[1]] = @ \cup {cv[2]}]
    /\ UNCHANGED <<registry, assets, gtcAssets, dist, dispatched, launches, pc,
                   memory>>

UploadAsset ==
    /\ \E a \in Buildable \ assets : assets' = assets \cup {a}
    /\ UNCHANGED <<registry, index, gtcAssets, dist, dispatched, launches, pc,
                   memory>>

UploadGtc ==
    /\ \E g \in GtcBuildable \ gtcAssets : gtcAssets' = gtcAssets \cup {g}
    /\ UNCHANGED <<registry, index, assets, dist, dispatched, launches, pc,
                   memory>>

Step(p) ==
    \/ LoadSource(p) \/ LoadPromoted(p) \/ LoadFile(p)
    \/ Bootstrap(p) \/ PushBootstrap(p)
    \/ ResolveForPush(p) \/ ResolveForFile(p)
    \/ GateCheck(p) \/ GateVerdict(p) \/ NameGtc(p) \/ Authorize(p)
    \/ CheckExists(p) \/ PushRelease(p) \/ PullRelease(p) \/ PushTag(p)
    \/ Notify(p)

Next ==
    \/ \E p \in Procs : Begin(p) \/ Step(p) \/ Stop(p)
    \/ PublishCrate \/ UploadAsset \/ UploadGtc

Spec == Init /\ [][Next]_vars
\* Nothing blocks a running command except the resolver finding no version,
\* which the command reports by ending.
FairSpec == Spec /\ \A p \in Procs : WF_vars(Step(p) \/ Stop(p))

-----------------------------------------------------------------------------
(* Properties.                                                             *)

\* Every variable has the type the code gives it.
TypeOK ==
    /\ registry \in [Tags -> Manifests \cup {NoManifest}]
    /\ index \in [Crates -> SUBSET Versions]
    /\ assets \in SUBSET Assets
    /\ gtcAssets \in SUBSET GtcRefs
    /\ dist \in SUBSET Manifests
    /\ dispatched \in SUBSET Tags
    /\ launches \in 0..MaxLaunches
    /\ pc \in [Procs -> Stages]
    /\ cmd \in [Procs -> Commands]
    /\ source \in [Procs -> Manifests \cup {NoManifest}]
    /\ manifest \in [Procs -> Manifests \cup {NoManifest}]
    /\ todo \in [Procs -> SUBSET Pins]
    /\ clean \in [Procs -> BOOLEAN]

\* What the gate looks at: the loaded source for a promote (the pulled
\* manifest comes later), the assembled or read manifest otherwise.
GateSubject(p) == IF Op(p) = "promote" THEN source[p] ELSE manifest[p]

\* A command that is past the gate and affects the stable lane has found
\* every pin of what it verified downloadable, and that is still so at every
\* later step up to the dispatch, however CI uploads go on; a promote that
\* read no manifest does not reach the stable tag (verify_manifest_releases
\* and its three callers).
PastGate == {"name_gtc", "authorize", "check", "push", "pull", "tag", "notify"}
Verified(p) ==
    pc[p] \in PastGate /\ Op(p) # "latest" =>
      IF GateSubject(p) = NoManifest
      THEN Op(p) = "promote" /\ cmd[p].tag # "stable"
      ELSE AffectsStable(GateSubject(p), cmd[p].tag) =>
             AllDownloadable(assets, GateSubject(p))
PastGateVerified == \A p \in Procs : Verified(p)

\* Whatever is under a tag, the release it names is in the registry too: a
\* command stopped between its two pushes leaves the channel tag behind the
\* release, never ahead of it (publish, snapshot; rollback by promote relies
\* on it).
TagsBackedByRelease ==
    \A t \in Tags : registry[t] # NoManifest =>
        registry[registry[t].version] # NoManifest

\* The workflow is only ever told about a release it can pull.
DispatchedPullable == \A r \in dispatched : registry[r] # NoManifest

\* A manifest names gtc files only if they are attached to a release, and all
\* of one release (gtc_artifacts_for: "what was actually published").
GtcFilesPublished ==
    \A t \in Tags : registry[t] # NoManifest =>
        /\ registry[t].gtc \subseteq gtcAssets
        /\ \A r, s \in registry[t].gtc : r[1] = s[1]

\* The three ways the code moves `:stable` without the gate having seen what
\* is written: a bootstrap of the source tag, a promote that pulls something
\* else than it loaded, a release that is itself named `stable`.  It is the
\* step of a process p.
UngatedMove(p) ==
    /\ pc'[p] # pc[p]
    /\ \/ pc[p] = "bootstrap" /\ cmd[p].from = "stable"
       \/ /\ pc[p] = "tag" /\ cmd[p].tag = "stable"
          /\ Op(p) = "promote" /\ manifest[p] # source[p]
       \/ pc[p] = "push" /\ manifest[p].version = "stable"

\* Apart from these, no step of any process moves `:stable` onto a manifest
\* with a pin nobody can download.
StableMovesVerified ==
    [][registry'["stable"] # registry["stable"] =>
         \/ AllDownloadable(assets, registry'["stable"])
         \/ \E p \in Procs : UngatedMove(p)]_vars

\* The workflow is told about a release only by a process whose manifest has
\* the stable channel and was verified, whichever tag it moved.
DispatchVerified ==
    [][\A r \in dispatched' \ dispatched : \E p \in Procs :
         /\ pc[p] = "notify" /\ NotifiedRelease(p) = r
         /\ NotifiedManifest(p).channel = "stable"
         /\ AllDownloadable(assets, NotifiedManifest(p))]_vars

\* Everything a command does to the registry and tells the workflow is a step
\* of ToolchainLanes: a tag never gets ahead of the release it names, a stored
\* release is never deleted, and only a numbered release that is stored is
\* dispatched (publish_with_checker, promote, bootstrap_source_manifest).
Lanes == INSTANCE ToolchainLanes
ImplementsLanes == Lanes!Spec

\* A command that was started ends.
CommandsEnd == \A p \in Procs : pc[p] \notin Ended ~> pc[p] \in Ended

(* The next two hold when one process runs commands one after another,     *)
(* without --force and without generating from `stable`.                   *)

\* `:stable` never points at binaries nobody can download.
StableDownloadable ==
    registry["stable"] # NoManifest =>
        AllDownloadable(assets, registry["stable"])

\* What the update server is told about stays downloadable.
DispatchedDownloadable ==
    \A r \in dispatched : registry[r] # NoManifest =>
        AllDownloadable(assets, registry[r])
=============================================================================
