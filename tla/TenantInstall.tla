---------------------------- MODULE TenantInstall ----------------------------
(***************************************************************************)
(* `greentic-dev install --tenant` (install.rs): fetch the tenant's        *)
(* manifest, install its tools into the bin directory and its documents    *)
(* into the docs directory, keep the manifest and record the installation. *)
(* A process is one shell running the command, possibly several times; all *)
(* of them share the directories under ~/.greentic/install.  Every file is *)
(* replaced by a rename (write_atomically), so one action writes one file, *)
(* and a process may stop between any two.                                 *)
(***************************************************************************)
EXTENDS Integers, Sequences

CONSTANTS
    Procs,       \* the shells
    Tenants,
    Manifests,   \* the tenant manifests that may be published
    Tools,       \* tool entries after resolve_tool
    Docs,        \* document entries after resolve_doc
    Names,       \* file names in the bin directory
    DocPaths,    \* paths in the docs directory
    Similar,     \* <<expected, actual>> pairs archive_name_matches accepts
    NoManifest, NoFile, NoName, NoState,
    MaxInstalls  \* bound: commands started in a behaviour

VARIABLES
    staged,      \* tools whose download was put in downloads/
    bin,         \* the bin directory: name -> file
    library,     \* the docs directory: path -> document
    kept,        \* manifests/tenant-<tenant>.json
    state,       \* state.json
    installs,    \* commands started so far
    pc,          \* where each process is
    tenant,      \* the tenant it installs
    manifest,    \* the manifest it fetched
    next,        \* the tool, then the document, it installs next
    entry,       \* the archive entry it extracts next
    first,       \* the first name it extracted from this archive
    similar,     \* the first one similar to the binary's name
    bins,        \* binaries installed so far
    docs         \* documents installed so far

disk == <<staged, bin, library, kept, state>>
archive == <<entry, first, similar>>
progress == <<tenant, manifest, next, archive, bins, docs>>
vars == <<disk, installs, pc, progress>>

\* `ok` stands for everything checked before a file is written: the install
\* type, a target for the platform, a GitHub host, the declared checksum (for
\* a document: type, host, a path inside the docs directory).
ToolEntries == [id : STRING, build : Nat, bin : Names, entries : Seq(Names),
                ok : BOOLEAN]
DocEntries == [path : DocPaths, build : Nat, ok : BOOLEAN]
ManifestEntries == [tenant : Tenants, tools : Seq(Tools), docs : Seq(Docs)]
Files == [tool : Tools, exec : BOOLEAN]
States == [tenant : Tenants, bins : Seq(Names), docs : Seq(DocPaths)]

ASSUME EntryAssumption ==
    /\ Tools \subseteq ToolEntries
    /\ Docs \subseteq DocEntries
    /\ Manifests \subseteq ManifestEntries
    /\ Tenants # {}
    /\ MaxInstalls \in Nat
ASSUME NothingAssumption ==
    /\ NoManifest \notin Manifests /\ NoFile \notin Files \cup Docs
    /\ NoName \notin Names /\ NoState \notin States

Stages == {"idle", "fetch", "tool", "extract", "chmod", "doc", "keep",
           "record", "done", "failed"}
Ended == {"idle", "done", "failed"}

Goto(p, stage) == pc' = [pc EXCEPT ![p] = stage]

\* The file is replaced whole or left as it was.
WriteAtomically(dir, name, file) == [dir EXCEPT ![name] = file]

\* Whether an archive entry is, or may turn out to be, the tool's binary.
ExecutableEntry(tool, name) == name = tool.bin \/ <<tool.bin, name>> \in Similar

ToolOf(p) == manifest[p].tools[next[p]]
DocOf(p) == manifest[p].docs[next[p]]

Init ==
    /\ staged = {}
    /\ bin = [n \in Names |-> NoFile]
    /\ library = [d \in DocPaths |-> NoFile]
    /\ kept = [t \in Tenants |-> NoManifest]
    /\ state = NoState
    /\ installs = 0
    /\ pc = [p \in Procs |-> "idle"]
    /\ tenant = [p \in Procs |-> CHOOSE t \in Tenants : TRUE]
    /\ manifest = [p \in Procs |-> NoManifest]
    /\ next = [p \in Procs |-> 1]
    /\ entry = [p \in Procs |-> 1]
    /\ first = [p \in Procs |-> NoName]
    /\ similar = [p \in Procs |-> NoName]
    /\ bins = [p \in Procs |-> <<>>]
    /\ docs = [p \in Procs |-> <<>>]

-----------------------------------------------------------------------------
Begin(p) ==
    /\ pc[p] \in Ended
    /\ installs < MaxInstalls
    /\ installs' = installs + 1
    /\ \E t \in Tenants : tenant' = [tenant EXCEPT ![p] = t]
    /\ manifest' = [manifest EXCEPT ![p] = NoManifest]
    /\ next' = [next EXCEPT ![p] = 1]
    /\ bins' = [bins EXCEPT ![p] = <<>>]
    /\ docs' = [docs EXCEPT ![p] = <<>>]
    /\ Goto(p, "fetch")
    /\ UNCHANGED <<disk, archive>>

\* The GitHub release's asset if there is one, else the OCI artifact.
Fetched(github, oci) == IF github # NoManifest THEN github ELSE oci

\* mutant: whose manifest it is does not matter
FetchAnyTenant(p) ==
    /\ pc[p] = "fetch"
    /\ \E github, oci \in Manifests \cup {NoManifest} :
         LET m == Fetched(github, oci)
         IN IF m # NoManifest
            THEN Goto(p, "tool") /\ manifest' = [manifest EXCEPT ![p] = m]
            ELSE Goto(p, "failed") /\ UNCHANGED manifest
    /\ UNCHANGED <<disk, installs, tenant, next, archive, bins, docs>>

\* Anything may have been published under the tenant's name by now; another
\* tenant's manifest is refused.
Fetch(p) ==
    /\ pc[p] = "fetch"
    /\ \E github, oci \in Manifests \cup {NoManifest} :
         LET m == Fetched(github, oci)
         IN IF m # NoManifest /\ m.tenant = tenant[p]
            THEN Goto(p, "tool") /\ manifest' = [manifest EXCEPT ![p] = m]
            ELSE Goto(p, "failed") /\ UNCHANGED manifest
    /\ UNCHANGED <<disk, installs, tenant, next, archive, bins, docs>>

\* mutant: the checks are left to the extraction
DownloadUnchecked(p) ==
    /\ pc[p] = "tool" /\ next[p] <= Len(manifest[p].tools)
    /\ staged' = staged \cup {ToolOf(p)}
    /\ entry' = [entry EXCEPT ![p] = 1]
    /\ first' = [first EXCEPT ![p] = NoName]
    /\ similar' = [similar EXCEPT ![p] = NoName]
    /\ Goto(p, "extract")
    /\ UNCHANGED <<bin, library, kept, state, installs, tenant,
                   manifest, next, bins, docs>>

Download(p) ==
    /\ pc[p] = "tool" /\ next[p] <= Len(manifest[p].tools)
    /\ IF ToolOf(p).ok
       THEN /\ staged' = staged \cup {ToolOf(p)}
            /\ entry' = [entry EXCEPT ![p] = 1]
            /\ first' = [first EXCEPT ![p] = NoName]
            /\ similar' = [similar EXCEPT ![p] = NoName]
            /\ Goto(p, "extract")
       ELSE Goto(p, "failed") /\ UNCHANGED <<staged, archive>>
    /\ UNCHANGED <<bin, library, kept, state, installs, tenant,
                   manifest, next, bins, docs>>

\* mutant: extraction goes on behind the binary
ExtractAll(p) ==
    /\ pc[p] = "extract" /\ entry[p] <= Len(ToolOf(p).entries)
    /\ LET name == ToolOf(p).entries[entry[p]]
           fits == ExecutableEntry(ToolOf(p), name)
       IN /\ bin' = WriteAtomically(bin, name, [tool |-> ToolOf(p), exec |-> fits])
          /\ first' = [first EXCEPT ![p] = IF @ = NoName THEN name ELSE @]
          /\ similar' = [similar EXCEPT ![p] =
                           IF @ = NoName /\ fits THEN name ELSE @]
          /\ entry' = [entry EXCEPT ![p] = @ + 1]
    /\ UNCHANGED <<staged, library, kept, state, installs, pc,
                   tenant, manifest, next, bins, docs>>

\* Every file of the archive is written up to the one with the binary's name;
\* a file that is neither that nor similar is not executable.
Extract(p) ==
    /\ pc[p] = "extract" /\ entry[p] <= Len(ToolOf(p).entries)
    /\ LET name == ToolOf(p).entries[entry[p]]
           fits == ExecutableEntry(ToolOf(p), name)
       IN /\ bin' = WriteAtomically(bin, name, [tool |-> ToolOf(p), exec |-> fits])
          /\ first' = [first EXCEPT ![p] = IF @ = NoName THEN name ELSE @]
          /\ similar' = [similar EXCEPT ![p] =
                           IF name = ToolOf(p).bin \/ (@ = NoName /\ fits)
                           THEN name ELSE @]
          /\ entry' = [entry EXCEPT ![p] = @ + 1]
          /\ IF name = ToolOf(p).bin THEN Goto(p, "chmod") ELSE UNCHANGED pc
    /\ UNCHANGED <<staged, library, kept, state, installs, tenant,
                   manifest, next, bins, docs>>

\* Without a file of that name: the first similar one, else the first one,
\* else an error.
ArchiveEnd(p) ==
    /\ pc[p] = "extract" /\ entry[p] > Len(ToolOf(p).entries)
    /\ Goto(p, IF first[p] = NoName THEN "failed" ELSE "chmod")
    /\ UNCHANGED <<disk, installs, progress>>

Chosen(p) == IF similar[p] # NoName THEN similar[p] ELSE first[p]

EnsureExecutable(p) ==
    /\ pc[p] = "chmod"
    /\ bin' = [bin EXCEPT ![Chosen(p)].exec = TRUE]
    /\ bins' = [bins EXCEPT ![p] = Append(@, Chosen(p))]
    /\ next' = [next EXCEPT ![p] = @ + 1]
    /\ Goto(p, "tool")
    /\ UNCHANGED <<staged, library, kept, state, installs, tenant,
                   manifest, archive, docs>>

ToolsEnd(p) ==
    /\ pc[p] = "tool" /\ next[p] > Len(manifest[p].tools)
    /\ next' = [next EXCEPT ![p] = 1]
    /\ Goto(p, "doc")
    /\ UNCHANGED <<disk, installs, tenant, manifest, archive, bins,
                   docs>>

InstallDoc(p) ==
    /\ pc[p] = "doc" /\ next[p] <= Len(manifest[p].docs)
    /\ IF DocOf(p).ok
       THEN /\ library' = WriteAtomically(library, DocOf(p).path, DocOf(p))
            /\ docs' = [docs EXCEPT ![p] = Append(@, DocOf(p).path)]
            /\ next' = [next EXCEPT ![p] = @ + 1]
            /\ UNCHANGED pc
       ELSE Goto(p, "failed") /\ UNCHANGED <<library, docs, next>>
    /\ UNCHANGED <<staged, bin, kept, state, installs, tenant,
                   manifest, archive, bins>>

DocsEnd(p) ==
    /\ pc[p] = "doc" /\ next[p] > Len(manifest[p].docs)
    /\ Goto(p, "keep")
    /\ UNCHANGED <<disk, installs, progress>>

\* mutant: the record is written before the manifest file
RecordFirst(p) ==
    /\ pc[p] = "keep"
    /\ state' = [tenant |-> tenant[p], bins |-> bins[p], docs |-> docs[p]]
    /\ Goto(p, "record")
    /\ UNCHANGED <<staged, bin, library, kept, installs, progress>>

KeepManifest(p) ==
    /\ pc[p] = "keep"
    /\ kept' = WriteAtomically(kept, tenant[p], manifest[p])
    /\ Goto(p, "record")
    /\ UNCHANGED <<staged, bin, library, state, installs, progress>>

RecordState(p) ==
    /\ pc[p] = "record"
    /\ state' = [tenant |-> tenant[p], bins |-> bins[p], docs |-> docs[p]]
    /\ Goto(p, "done")
    /\ UNCHANGED <<staged, bin, library, kept, installs, progress>>

-----------------------------------------------------------------------------
\* A download or a write fails, or the process is killed.
Stop(p) ==
    /\ pc[p] \notin Ended
    /\ Goto(p, "failed")
    /\ UNCHANGED <<disk, installs, progress>>

Step(p) ==
    \/ Fetch(p) \/ Download(p) \/ Extract(p) \/ ArchiveEnd(p)
    \/ EnsureExecutable(p) \/ ToolsEnd(p) \/ InstallDoc(p) \/ DocsEnd(p)
    \/ KeepManifest(p) \/ RecordState(p)

Next == \E p \in Procs : Begin(p) \/ Step(p) \/ Stop(p)

Spec == Init /\ [][Next]_vars

-----------------------------------------------------------------------------
\* Every variable has the type the code gives it.
TypeOK ==
    /\ staged \in SUBSET Tools
    /\ bin \in [Names -> Files \cup {NoFile}]
    /\ library \in [DocPaths -> Docs \cup {NoFile}]
    /\ kept \in [Tenants -> Manifests \cup {NoManifest}]
    /\ state \in States \cup {NoState}
    /\ installs \in 0..MaxInstalls
    /\ pc \in [Procs -> Stages]
    /\ tenant \in [Procs -> Tenants]
    /\ manifest \in [Procs -> Manifests \cup {NoManifest}]
    /\ next \in [Procs -> Nat \ {0}]
    /\ entry \in [Procs -> Nat \ {0}]
    /\ first \in [Procs -> Names \cup {NoName}]
    /\ similar \in [Procs -> Names \cup {NoName}]
    /\ bins \in [Procs -> Seq(Names)]
    /\ docs \in [Procs -> Seq(DocPaths)]

\* state.json only names what is on disk: the tenant's manifest file, every
\* binary and every document, wherever the other installations are or were
\* stopped (install_tenant_async writes it last).
StateBacked ==
    state # NoState =>
        /\ kept[state.tenant] # NoManifest
        /\ \A i \in 1..Len(state.bins) : bin[state.bins[i]] # NoFile
        /\ \A i \in 1..Len(state.docs) : library[state.docs[i]] # NoFile

\* Nothing that failed its checks is in the bin directory or in downloads/.
OnlyVerifiedFiles ==
    /\ \A n \in Names : bin[n] # NoFile => bin[n].tool.ok
    /\ \A t \in staged : t.ok

\* A file kept for a tenant is that tenant's manifest, whatever was published
\* under its name.
KeptForTenant ==
    \A t \in Tenants : kept[t] # NoManifest => kept[t].tenant = t

\* An installation is recorded only when everything its manifest lists was
\* installed: one binary per tool and one document per entry.
RecordComplete ==
    [][state' # state => \E p \in Procs :
         /\ pc[p] = "record"
         /\ Len(bins[p]) = Len(manifest[p].tools)
         /\ Len(docs[p]) = Len(manifest[p].docs)]_vars

\* For a process that is alone, and archives that do not list another tool's
\* binary ahead of their own: when the command ends, each tool's binary is the
\* tool's own and can be run, whatever the archives written after it contained
\* and whatever earlier installations left behind.
Alone(p) == \A q \in Procs \ {p} : pc[q] = "idle"
ToolsRunnable ==
    \A p \in Procs : pc[p] = "done" /\ Alone(p) =>
        \A i \in 1..Len(bins[p]) :
            LET file == bin[bins[p][i]]
            IN file.exec /\ file.tool = manifest[p].tools[i]
=============================================================================
