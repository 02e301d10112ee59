----------------------------- MODULE Workspace -----------------------------
(***************************************************************************)
(* What a developer's workspace gets from the distributor:                 *)
(* component_add.rs ("add"), run_component_add of pack_init.rs ("fetch")   *)
(* and its run ("init").  The first two put a component in a cache and     *)
(* record it in .greentic/manifest.json, the third makes a directory of a  *)
(* pack.  A process is a shell in the workspace.  No lock is taken and     *)
(* fs::write first truncates, so a file is torn until it is filled.        *)
(***************************************************************************)
EXTENDS Naturals, Sequences

CONSTANTS
    Procs,       \* the shells
    Commands,    \* command lines
    Offers,      \* what the distributor may answer
    Names, Versions, Digests, Bytes,
    SemVers,     \* the versions semver can parse
    ZeroVersion, \* 0.0.0, for a requirement that is no version
    SlugOf,      \* slugify of name and version
    DirOf,       \* slugify of a pack's name
    Slugs, Dirs,
    PackFiles,   \* the archive entries of a pack
    EntryNames,
    Suspicious,  \* archive entries that would leave the directory
    NoDigest, NoFile, Torn, NoOffer,
    MaxCommands  \* bound: commands started in a behaviour

VARIABLES
    manifest,    \* .greentic/manifest.json
    cache,       \* the cached artifacts: path -> bytes
    dirs,        \* pack directories: files, each with the command that wrote it
    recorded,    \* history: names of components whose addition was reported
    overlapped,  \* history: one update of the manifest was read into another
    initialised, \* history: packs whose initialisation was reported
    commands,    \* commands started so far
    pc,          \* where each process is
    cmd, number, \* its command line and the command's number
    offer,       \* what it obtained
    loaded,      \* the components of the manifest it read
    next         \* the archive entry it extracts next

disk == <<manifest, cache, dirs>>
history == <<recorded, overlapped, initialised>>
command == <<cmd, number, offer>>
vars == <<disk, history, commands, pc, command, loaded, next>>

Places == {"workspace", "components", "packs"}
Paths == Places \X (Slugs \cup Digests)
OfferRecords == [kind : {"component", "pack"}, coordinate : Names, name : Names,
                 version : Versions, digest : Digests \cup {NoDigest}, bytes : Bytes]
CommandRecords == [op : {"add", "fetch", "init"}, name : Names, version : Versions]
Entries == [name : Names, version : SemVers, file : Paths,
            hash : Digests \cup {NoDigest}]

ASSUME OfferAssumption ==
    /\ Offers \subseteq OfferRecords
    /\ Commands \subseteq CommandRecords /\ Commands # {}
    /\ SemVers \subseteq Versions /\ ZeroVersion \in SemVers
    /\ SlugOf \in [Names \X Versions -> Slugs]
    /\ DirOf \in [Names -> Dirs]
    /\ PackFiles \in [Bytes -> Seq(EntryNames)]
    /\ Suspicious \subseteq EntryNames /\ "bundle.gtpack" \in EntryNames
    /\ MaxCommands \in Nat
\* A digest names its bytes, and no name slugs to one.
ASSUME DigestAssumption ==
    /\ Digests \cap Slugs = {} /\ NoDigest \notin Digests
    /\ \A o1, o2 \in Offers :
         o1.digest = o2.digest /\ o1.digest # NoDigest => o1.bytes = o2.bytes
ASSUME NothingAssumption ==
    /\ NoFile \notin Bytes \cup Seq(Entries) /\ Torn \notin Bytes \cup Seq(Entries)
    /\ NoFile # Torn /\ NoOffer \notin OfferRecords
    /\ \A files \in SUBSET (EntryNames \X (1 .. MaxCommands)) : files # NoFile

Stages == {"idle", "obtain", "open", "write", "load", "truncate", "fill",
           "check", "mkdir", "unpack", "done", "stopped"}
Ended == {"idle", "done", "stopped"}
Updating == {"truncate", "fill"}

Goto(p, stage) == pc' = [pc EXCEPT ![p] = stage]
NamesIn(entries) == {entries[i].name : i \in DOMAIN entries}

\* mutant: the name and version whatever the digest
SlugAlone(o) == SlugOf[<<o.name, o.version>>]

CacheSlug(o) == IF o.digest # NoDigest THEN o.digest
                ELSE SlugOf[<<o.name, o.version>>]

Place(op) == CASE op = "add" -> "workspace"
               [] op = "fetch" -> "components"
               [] op = "init" -> "packs"
CachePath(p) == <<Place(cmd[p].op), CacheSlug(offer[p])>>

EntryOf(p) ==
    [name |-> offer[p].name,
     version |-> IF offer[p].version \in SemVers THEN offer[p].version
                 ELSE ZeroVersion,
     file |-> CachePath(p), hash |-> offer[p].digest]

\* The first entry of that name is replaced, or the new one appended.
Upsert(entries, e) ==
    LET same == {i \in DOMAIN entries : entries[i].name = e.name}
    IN IF same = {} THEN Append(entries, e)
       ELSE [entries EXCEPT ![CHOOSE i \in same : \A j \in same : i <= j] = e]

UnpackList(bytes) == <<"bundle.gtpack">> \o PackFiles[bytes]

\* What a writer leaves behind when it fills a file: its content, unless
\* another one filled the file since it truncated it.
Filled(old, content) == IF old \in {Torn, content} THEN {content}
                        ELSE {content, Torn}

Init ==
    /\ manifest = NoFile
    /\ cache = [x \in Paths |-> NoFile]
    /\ dirs = [d \in Dirs |-> NoFile]
    /\ recorded = {} /\ overlapped = FALSE /\ initialised = {}
    /\ commands = 0
    /\ pc = [p \in Procs |-> "idle"]
    /\ cmd = [p \in Procs |-> CHOOSE c \in Commands : TRUE]
    /\ number = [p \in Procs |-> 0]
    /\ offer = [p \in Procs |-> NoOffer]
    /\ loaded = [p \in Procs |-> <<>>]
    /\ next = [p \in Procs |-> 1]

-----------------------------------------------------------------------------
Begin(p) ==
    /\ pc[p] \in Ended
    /\ commands < MaxCommands
    /\ commands' = commands + 1
    /\ \E c \in Commands : cmd' = [cmd EXCEPT ![p] = c]
    /\ number' = [number EXCEPT ![p] = commands + 1]
    /\ offer' = [offer EXCEPT ![p] = NoOffer]
    /\ loaded' = [loaded EXCEPT ![p] = <<>>]
    /\ next' = [next EXCEPT ![p] = 1]
    /\ Goto(p, "obtain")
    /\ UNCHANGED <<disk, history>>

KindWanted(op) == IF op = "init" THEN "pack" ELSE "component"

\* `fetch` and `init` keep what the answer says of the artifact; `add` keeps the
\* name and version it asked for, and no digest.
Kept(c, o) == IF c.op = "add"
              THEN [o EXCEPT !.name = c.name, !.version = c.version,
                             !.digest = NoDigest]
              ELSE o

\* Resolve and download: the artifact path of an answer names one artifact.
Obtain(p) ==
    /\ pc[p] = "obtain"
    /\ \E o \in Offers :
         /\ o.coordinate = cmd[p].name
         /\ o.kind = KindWanted(cmd[p].op)
         /\ offer' = [offer EXCEPT ![p] = Kept(cmd[p], o)]
    /\ Goto(p, "open")
    /\ UNCHANGED <<disk, history, commands, cmd, number, loaded, next>>

OpenArtifact(p) ==
    /\ pc[p] = "open"
    /\ cache' = [cache EXCEPT ![CachePath(p)] = Torn]
    /\ Goto(p, "write")
    /\ UNCHANGED <<manifest, dirs, history, commands, command, loaded, next>>

WriteArtifact(p) ==
    /\ pc[p] = "write"
    /\ \E content \in Filled(cache[CachePath(p)], offer[p].bytes) :
         cache' = [cache EXCEPT ![CachePath(p)] = content]
    /\ Goto(p, IF cmd[p].op = "init" THEN "check" ELSE "load")
    /\ UNCHANGED <<manifest, dirs, history, commands, command, loaded, next>>

-----------------------------------------------------------------------------
\* Updating the manifest: a torn one cannot be parsed, and `fetch` refuses a
\* version that is none only now.

\* mutant: a manifest that cannot be parsed counts as empty
LoadOrStartOver(p) ==
    /\ pc[p] = "load"
    /\ cmd[p].op = "fetch" => offer[p].version \in SemVers
    /\ loaded' = [loaded EXCEPT ![p] =
                    IF manifest \in {NoFile, Torn} THEN <<>> ELSE manifest]
    /\ overlapped' = (overlapped \/ \E q \in Procs : pc[q] \in Updating)
    /\ Goto(p, "truncate")
    /\ UNCHANGED <<disk, recorded, initialised, commands, command, next>>

LoadManifest(p) ==
    /\ pc[p] = "load"
    /\ manifest # Torn
    /\ cmd[p].op = "fetch" => offer[p].version \in SemVers
    /\ loaded' = [loaded EXCEPT ![p] =
                    IF manifest = NoFile THEN <<>> ELSE manifest]
    /\ overlapped' = (overlapped \/ \E q \in Procs : pc[q] \in Updating)
    /\ Goto(p, "truncate")
    /\ UNCHANGED <<disk, recorded, initialised, commands, command, next>>

TruncateManifest(p) ==
    /\ pc[p] = "truncate"
    /\ manifest' = Torn
    /\ Goto(p, "fill")
    /\ UNCHANGED <<cache, dirs, history, commands, command, loaded, next>>

FillManifest(p) ==
    /\ pc[p] = "fill"
    /\ manifest' \in Filled(manifest, Upsert(loaded[p], EntryOf(p)))
    /\ recorded' = recorded \cup {offer[p].name}
    /\ Goto(p, "done")
    /\ UNCHANGED <<cache, dirs, overlapped, initialised, commands, command,
                   loaded, next>>

-----------------------------------------------------------------------------
\* The directory of a pack.
CheckDirectory(p) ==
    /\ pc[p] = "check"
    /\ dirs[DirOf[offer[p].name]] = NoFile
    /\ Goto(p, "mkdir")
    /\ UNCHANGED <<disk, history, commands, command, loaded, next>>

\* mutant: a directory that is there by now will do (create_dir_all)
MakeDirectoryAll(p) ==
    LET d == DirOf[offer[p].name]
    IN /\ pc[p] = "mkdir"
       /\ dirs' = [dirs EXCEPT ![d] = IF @ = NoFile THEN {} ELSE @]
       /\ Goto(p, "unpack")
       /\ UNCHANGED <<manifest, cache, history, commands, command, loaded, next>>

MakeDirectory(p) ==
    LET d == DirOf[offer[p].name]
    IN /\ pc[p] = "mkdir"
       /\ dirs[d] = NoFile
       /\ dirs' = [dirs EXCEPT ![d] = {}]
       /\ Goto(p, "unpack")
       /\ UNCHANGED <<manifest, cache, history, commands, command, loaded, next>>

\* The bundle, then its entries; one that would leave the directory ends the
\* command, with what was extracted before it in place.
ExtractEntry(p) ==
    LET d == DirOf[offer[p].name]
        list == UnpackList(offer[p].bytes)
    IN /\ pc[p] = "unpack" /\ next[p] <= Len(list)
       /\ list[next[p]] \notin Suspicious
       /\ dirs' = [dirs EXCEPT ![d] =
            {f \in @ : f[1] # list[next[p]]} \cup {<<list[next[p]], number[p]>>}]
       /\ next' = [next EXCEPT ![p] = @ + 1]
       /\ UNCHANGED <<manifest, cache, history, commands, pc, command, loaded>>

Initialised(p) ==
    /\ pc[p] = "unpack" /\ next[p] > Len(UnpackList(offer[p].bytes))
    /\ initialised' = initialised \cup
         {[dir |-> DirOf[offer[p].name], bytes |-> offer[p].bytes,
           number |-> number[p]]}
    /\ Goto(p, "done")
    /\ UNCHANGED <<disk, recorded, overlapped, commands, command, loaded, next>>

\* An error, or the end of the process, between any two steps.
Stop(p) ==
    /\ pc[p] \notin Ended
    /\ Goto(p, "stopped")
    /\ UNCHANGED <<disk, history, commands, command, loaded, next>>

-----------------------------------------------------------------------------
Step(p) ==
    \/ Obtain(p) \/ OpenArtifact(p) \/ WriteArtifact(p)
    \/ LoadManifest(p) \/ TruncateManifest(p) \/ FillManifest(p)
    \/ CheckDirectory(p) \/ MakeDirectory(p) \/ ExtractEntry(p) \/ Initialised(p)
Next == \E p \in Procs : Begin(p) \/ Step(p) \/ Stop(p)
Spec == Init /\ [][Next]_vars

-----------------------------------------------------------------------------
\* Every variable has its type.
TypeOK ==
    /\ manifest \in {NoFile, Torn} \/ manifest \in Seq(Entries)
    /\ cache \in [Paths -> Bytes \cup {NoFile, Torn}]
    /\ dirs \in [Dirs -> {NoFile} \cup SUBSET (EntryNames \X (1 .. MaxCommands))]
    /\ recorded \subseteq Names
    /\ overlapped \in BOOLEAN
    /\ initialised \subseteq [dir : Dirs, bytes : Bytes, number : 1 .. MaxCommands]
    /\ commands \in 0 .. MaxCommands
    /\ pc \in [Procs -> Stages]
    /\ cmd \in [Procs -> Commands]
    /\ number \in [Procs -> 0 .. MaxCommands]
    /\ offer \in [Procs -> OfferRecords \cup {NoOffer}]
    /\ loaded \in [Procs -> Seq(Entries)]
    /\ next \in [Procs -> Nat \ {0}]

Recorded == IF manifest \in {NoFile, Torn} THEN <<>> ELSE manifest

\* Whatever is in the manifest is in the cache, however the shells overlap and
\* wherever they stop: the artifact is written before the manifest is read.
EntryCached == \A i \in DOMAIN Recorded : cache[Recorded[i].file] # NoFile

\* An entry recorded with a digest never names another artifact's bytes: its
\* file may be torn, for it is being written again, but it is not replaced by
\* a rebuild of the same version.
EntryHoldsDigest ==
    \A i \in DOMAIN Recorded : \A o \in Offers :
        Recorded[i].hash # NoDigest /\ o.digest = Recorded[i].hash
            => cache[Recorded[i].file] \in {o.bytes, Torn}

\* The manifest has one entry of each name, whichever of the two ways of
\* adding a component wrote it.
OneEntryPerName ==
    \A i, j \in DOMAIN Recorded : Recorded[i].name = Recorded[j].name => i = j

\* As long as no two updates overlapped, a manifest that can be read has every
\* addition that was ever reported: one torn by a kill stays torn.
NoAdditionLost ==
    ~overlapped /\ manifest # Torn => recorded \subseteq NamesIn(Recorded)

\* A directory reported as initialised has its pack's files, all of them from
\* that command and no others: a second shell cannot unpack into it.
DirectoryOfOnePack ==
    \A i \in initialised :
        dirs[i.dir] = {<<UnpackList(i.bytes)[k], i.number>> :
                         k \in DOMAIN UnpackList(i.bytes)}
=============================================================================
