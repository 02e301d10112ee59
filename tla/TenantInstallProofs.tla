-------------------------- MODULE TenantInstallProofs --------------------------
(***************************************************************************)
(* Proofs about TenantInstall, for every number of shells and              *)
(* installations, every set of tenants, manifests, archives and documents  *)
(* and every stop.                                                         *)
(*                                                                         *)
(* IndInv says, stage by stage, which manifest a shell works on (Control), *)
(* how many of its entries are installed (Counted), that the archive it    *)
(* extracts passed its checks (Verified), and that every name it remembers *)
(* is a file (OnDisk).                                                     *)
(***************************************************************************)
EXTENDS TenantInstall, SequenceTheorems, TLAPS

Working == {"tool", "extract", "chmod", "doc", "keep", "record", "done"}

ControlOf(p) ==
    /\ pc[p] \in Working =>
         manifest[p] \in Manifests /\ manifest[p].tenant = tenant[p]
    /\ pc[p] \in {"extract", "chmod"} => next[p] \in 1..Len(manifest[p].tools)
    /\ similar[p] # NoName => first[p] # NoName
    /\ pc[p] = "chmod" => first[p] # NoName
Control == \A p \in Procs : ControlOf(p)

CountedOf(p) ==
    /\ pc[p] = "fetch" => next[p] = 1 /\ bins[p] = <<>> /\ docs[p] = <<>>
    /\ pc[p] \in {"tool", "extract", "chmod"} =>
         /\ Len(bins[p]) = next[p] - 1 /\ docs[p] = <<>>
         /\ next[p] \in 1..(Len(manifest[p].tools) + 1)
    /\ pc[p] \in {"doc", "keep", "record"} =>
         Len(bins[p]) = Len(manifest[p].tools)
    /\ pc[p] = "doc" =>
         /\ Len(docs[p]) = next[p] - 1
         /\ next[p] \in 1..(Len(manifest[p].docs) + 1)
    /\ pc[p] \in {"keep", "record"} => Len(docs[p]) = Len(manifest[p].docs)
Counted == \A p \in Procs : CountedOf(p)

Verified ==
    /\ OnlyVerifiedFiles
    /\ \A p \in Procs : pc[p] = "extract" => ToolOf(p).ok

OnDiskOf(p) ==
    /\ first[p] # NoName => bin[first[p]] # NoFile
    /\ similar[p] # NoName => bin[similar[p]] # NoFile
    /\ \A i \in 1..Len(bins[p]) : bin[bins[p][i]] # NoFile
    /\ \A i \in 1..Len(docs[p]) : library[docs[p][i]] # NoFile
    /\ pc[p] = "record" => kept[tenant[p]] # NoManifest
OnDisk == \A p \in Procs : OnDiskOf(p)

TypeInv == TypeOK /\ Control
IndInv == /\ TypeInv /\ Counted /\ Verified /\ OnDisk
          /\ StateBacked /\ KeptForTenant

-----------------------------------------------------------------------------
(* Manifests, archives and the sequences a shell keeps.                    *)

\* A manifest names a tenant and lists tool and document entries.
LEMMA ManifestFields ==
    ASSUME NEW m \in Manifests
    PROVE  /\ m.tenant \in Tenants
           /\ m.tools \in Seq(Tools) /\ Len(m.tools) \in Nat
           /\ m.docs \in Seq(Docs) /\ Len(m.docs) \in Nat
           /\ \A i \in 1..Len(m.tools) : m.tools[i] \in Tools
           /\ \A i \in 1..Len(m.docs) : m.docs[i] \in Docs
  BY EntryAssumption DEF ManifestEntries

\* A tool entry lists the archive's files; a document entry has its place.
LEMMA EntryFields ==
    /\ \A t \in Tools : /\ t.bin \in Names /\ Len(t.entries) \in Nat
                        /\ \A i \in 1..Len(t.entries) : t.entries[i] \in Names
                        /\ t.ok \in BOOLEAN
    /\ \A d \in Docs : d.path \in DocPaths
  BY EntryAssumption DEF ToolEntries, DocEntries

\* Appending to a sequence adds its last element and nothing else.
LEMMA Appended ==
    ASSUME NEW S, NEW s \in Seq(S), NEW x \in S
    PROVE  /\ Append(s, x) \in Seq(S)
           /\ Len(Append(s, x)) = Len(s) + 1
           /\ \A i \in 1..Len(Append(s, x)) :
                Append(s, x)[i] = IF i = Len(s) + 1 THEN x ELSE s[i]
  OBVIOUS

\* The tool a shell is at is an entry of the manifest it fetched.
LEMMA ToolTyped ==
    ASSUME TypeInv, NEW p \in Procs, pc[p] \in Working,
           next[p] <= Len(manifest[p].tools)
    PROVE  /\ ToolOf(p) \in Tools
           /\ next[p] \in 1..Len(manifest[p].tools)
  BY ManifestFields DEF TypeInv, TypeOK, Control, ControlOf, ToolOf

\* The document a shell is at is an entry of the manifest it fetched.
LEMMA DocTyped ==
    ASSUME TypeInv, NEW p \in Procs, pc[p] = "doc",
           next[p] <= Len(manifest[p].docs)
    PROVE  /\ DocOf(p) \in Docs /\ DocOf(p).path \in DocPaths
           /\ next[p] \in 1..Len(manifest[p].docs)
  BY ManifestFields, EntryFields
  DEF TypeInv, TypeOK, Control, ControlOf, DocOf, Working

\* What an extraction writes is a file of the bin directory.
LEMMA ExtractedFile ==
    ASSUME TypeInv, NEW p \in Procs, pc[p] = "extract",
           entry[p] <= Len(ToolOf(p).entries)
    PROVE  /\ ToolOf(p).entries[entry[p]] \in Names
           /\ [tool |-> ToolOf(p),
               exec |-> ExecutableEntry(ToolOf(p), ToolOf(p).entries[entry[p]])]
                \in Files
           /\ ToolOf(p) \in Tools
  <1>1. ToolOf(p) \in Tools
    BY ManifestFields DEF TypeInv, TypeOK, Control, ControlOf, ToolOf, Working
  <1>2. ToolOf(p).entries[entry[p]] \in Names
    BY <1>1, EntryFields DEF TypeInv, TypeOK
  <1>3. ExecutableEntry(ToolOf(p), ToolOf(p).entries[entry[p]]) \in BOOLEAN
    BY DEF ExecutableEntry
  <1>4. QED BY <1>1, <1>2, <1>3 DEF Files

\* The file chosen from an archive has a name.
LEMMA ChosenTyped ==
    ASSUME TypeInv, NEW p \in Procs, pc[p] = "chmod"
    PROVE  Chosen(p) \in Names
  BY NothingAssumption DEF TypeInv, TypeOK, Control, ControlOf, Chosen

\* It was extracted, or is from an earlier installation.
LEMMA ChosenOnDisk ==
    ASSUME TypeInv, OnDisk, NEW p \in Procs, pc[p] = "chmod"
    PROVE  bin[Chosen(p)] \in Files
  BY ChosenTyped DEF TypeInv, TypeOK, Control, ControlOf, OnDisk, OnDiskOf, Chosen

-----------------------------------------------------------------------------
(* Types and control.                                                      *)

\* Every action of the installation keeps the types.
LEMMA TypesStep == TypeInv /\ OnDisk /\ [Next]_vars => TypeOK'
  <1> SUFFICES ASSUME TypeInv, OnDisk, [Next]_vars
               PROVE  TypeOK'
    OBVIOUS
  <1> USE DEF disk, archive, progress, Goto
  <1>1. ASSUME NEW p \in Procs, Begin(p) PROVE TypeOK'
    BY <1>1, EntryAssumption DEF Begin, TypeInv, TypeOK, Stages, Ended
  <1>2. ASSUME NEW p \in Procs, Fetch(p) PROVE TypeOK'
    <2>1. PICK m \in Manifests \cup {NoManifest} :
            \/ manifest' = [manifest EXCEPT ![p] = m]
            \/ UNCHANGED manifest
      BY <1>2 DEF Fetch, Fetched
    <2>2. manifest' \in [Procs -> Manifests \cup {NoManifest}]
      BY <2>1 DEF TypeInv, TypeOK
    <2>3. pc' \in [Procs -> Stages]
      BY <1>2 DEF Fetch, TypeInv, TypeOK, Stages
    <2>4. QED
      BY <1>2, <2>2, <2>3 DEF Fetch, TypeInv, TypeOK
  <1>3. ASSUME NEW p \in Procs, Download(p) PROVE TypeOK'
    <2>1. ToolOf(p) \in Tools
      BY <1>3, ToolTyped DEF Download, Working
    <2>2. staged' \in SUBSET Tools
      BY <1>3, <2>1 DEF Download, TypeInv, TypeOK
    <2>3. pc' \in [Procs -> Stages]
      BY <1>3 DEF Download, TypeInv, TypeOK, Stages
    <2>4. /\ entry' \in [Procs -> Nat \ {0}]
          /\ first' \in [Procs -> Names \cup {NoName}]
          /\ similar' \in [Procs -> Names \cup {NoName}]
      <3>1. CASE ToolOf(p).ok
        <4>1. /\ entry' = [entry EXCEPT ![p] = 1]
              /\ first' = [first EXCEPT ![p] = NoName]
              /\ similar' = [similar EXCEPT ![p] = NoName]
          BY <1>3, <3>1 DEF Download
        <4>2. QED BY <4>1 DEF TypeInv, TypeOK
      <3>2. CASE ~ToolOf(p).ok
        <4>1. UNCHANGED <<entry, first, similar>>
          BY <1>3, <3>2 DEF Download
        <4>2. QED BY <4>1 DEF TypeInv, TypeOK
      <3>3. QED BY <3>1, <3>2
    <2>5. UNCHANGED <<bin, library, kept, state, installs, tenant, manifest,
                      next, bins, docs>>
      BY <1>3 DEF Download
    <2>6. QED BY <2>2, <2>3, <2>4, <2>5 DEF TypeInv, TypeOK
  <1>4. ASSUME NEW p \in Procs, Extract(p) PROVE TypeOK'
    <2> DEFINE name == ToolOf(p).entries[entry[p]]
               file == [tool |-> ToolOf(p),
                        exec |-> ExecutableEntry(ToolOf(p), name)]
    <2>1. name \in Names /\ file \in Files
      BY <1>4, ExtractedFile DEF Extract
    <2>2. bin' \in [Names -> Files \cup {NoFile}]
      <3>1. bin' = [bin EXCEPT ![name] = file]
        BY <1>4 DEF Extract, WriteAtomically
      <3>2. QED BY <2>1, <3>1 DEF TypeInv, TypeOK
    <2>3. pc' \in [Procs -> Stages]
      BY <1>4 DEF Extract, TypeInv, TypeOK, Stages
    <2>4. first' \in [Procs -> Names \cup {NoName}]
      BY <1>4, <2>1 DEF Extract, TypeInv, TypeOK
    <2>5. similar' \in [Procs -> Names \cup {NoName}]
      BY <1>4, <2>1 DEF Extract, TypeInv, TypeOK
    <2>6. entry' \in [Procs -> Nat \ {0}]
      BY <1>4 DEF Extract, TypeInv, TypeOK
    <2>7. QED
      BY <1>4, <2>2, <2>3, <2>4, <2>5, <2>6 DEF Extract, TypeInv, TypeOK
  <1>5. ASSUME NEW p \in Procs, ArchiveEnd(p) PROVE TypeOK'
    BY <1>5 DEF ArchiveEnd, TypeInv, TypeOK, Stages
  <1>6. ASSUME NEW p \in Procs, EnsureExecutable(p) PROVE TypeOK'
    <2>1. Chosen(p) \in Names
      BY <1>6, ChosenTyped DEF EnsureExecutable
    <2>2. [bin[Chosen(p)] EXCEPT !.exec = TRUE] \in Files
      BY <1>6, ChosenOnDisk DEF EnsureExecutable, Files
    <2>3. bin' \in [Names -> Files \cup {NoFile}]
      <3>1. bin' = [bin EXCEPT ![Chosen(p)] =
                      [bin[Chosen(p)] EXCEPT !.exec = TRUE]]
        BY <1>6 DEF EnsureExecutable
      <3>2. QED BY <2>1, <2>2, <3>1 DEF TypeInv, TypeOK
    <2>4. bins' \in [Procs -> Seq(Names)]
      BY <1>6, <2>1 DEF EnsureExecutable, TypeInv, TypeOK
    <2>5. QED
      BY <1>6, <2>3, <2>4 DEF EnsureExecutable, TypeInv, TypeOK, Stages
  <1>7. ASSUME NEW p \in Procs, ToolsEnd(p) PROVE TypeOK'
    BY <1>7 DEF ToolsEnd, TypeInv, TypeOK, Stages
  <1>8. ASSUME NEW p \in Procs, InstallDoc(p) PROVE TypeOK'
    <2>1. DocOf(p) \in Docs /\ DocOf(p).path \in DocPaths
      BY <1>8, DocTyped DEF InstallDoc
    <2>2. docs' \in [Procs -> Seq(DocPaths)]
      <3>1. docs[p] \in Seq(DocPaths) /\ docs \in [Procs -> Seq(DocPaths)]
        BY DEF TypeInv, TypeOK
      <3>2. Append(docs[p], DocOf(p).path) \in Seq(DocPaths)
        BY <2>1, <3>1, Appended
      <3>3. \/ docs' = [docs EXCEPT ![p] = Append(docs[p], DocOf(p).path)]
            \/ docs' = docs
        BY <1>8 DEF InstallDoc
      <3>4. QED BY <3>1, <3>2, <3>3
    <2>3. library' \in [DocPaths -> Docs \cup {NoFile}]
      <3>1. \/ library' = [library EXCEPT ![DocOf(p).path] = DocOf(p)]
            \/ library' = library
        BY <1>8 DEF InstallDoc, WriteAtomically
      <3>2. QED BY <2>1, <3>1 DEF TypeInv, TypeOK
    <2>4. next' \in [Procs -> Nat \ {0}] /\ pc' \in [Procs -> Stages]
      <3>1. next' = [next EXCEPT ![p] = next[p] + 1] \/ next' = next
        BY <1>8 DEF InstallDoc
      <3>2. pc' = pc \/ pc' = [pc EXCEPT ![p] = "failed"]
        BY <1>8 DEF InstallDoc
      <3>3. next' \in [Procs -> Nat \ {0}]
        <4>1. next[p] + 1 \in Nat \ {0} /\ next \in [Procs -> Nat \ {0}]
          BY DEF TypeInv, TypeOK
        <4>2. QED BY <3>1, <4>1
      <3>4. pc' \in [Procs -> Stages]
        BY <3>2 DEF TypeInv, TypeOK, Stages
      <3>5. QED BY <3>3, <3>4
    <2>5. QED
      BY <1>8, <2>2, <2>3, <2>4 DEF InstallDoc, TypeInv, TypeOK
  <1>9. ASSUME NEW p \in Procs, DocsEnd(p) PROVE TypeOK'
    BY <1>9 DEF DocsEnd, TypeInv, TypeOK, Stages
  <1>10. ASSUME NEW p \in Procs, KeepManifest(p) PROVE TypeOK'
    BY <1>10
    DEF KeepManifest, WriteAtomically, TypeInv, TypeOK, Stages, Control,
        ControlOf, Working
  <1>11. ASSUME NEW p \in Procs, RecordState(p) PROVE TypeOK'
    BY <1>11 DEF RecordState, TypeInv, TypeOK, Stages, States
  <1>12. ASSUME NEW p \in Procs, Stop(p) PROVE TypeOK'
    BY <1>12 DEF Stop, TypeInv, TypeOK, Stages
  <1>13. ASSUME UNCHANGED vars PROVE TypeOK'
    BY <1>13 DEF vars, TypeInv, TypeOK
  <1>14. QED
    BY <1>1, <1>2, <1>3, <1>4, <1>5, <1>6, <1>7, <1>8, <1>9, <1>10, <1>11,
       <1>12, <1>13 DEF Next, Step

\* A step of one shell leaves what the others remember alone.
LEMMA OthersUnchanged ==
    ASSUME TypeInv, NEW p \in Procs, Begin(p) \/ Step(p) \/ Stop(p),
           NEW q \in Procs, q # p
    PROVE  /\ pc'[q] = pc[q] /\ tenant'[q] = tenant[q]
           /\ manifest'[q] = manifest[q] /\ next'[q] = next[q]
           /\ entry'[q] = entry[q] /\ first'[q] = first[q]
           /\ similar'[q] = similar[q]
           /\ bins'[q] = bins[q] /\ docs'[q] = docs[q]
  <1> USE DEF disk, archive, progress, Goto
  <1>1. CASE Begin(p) \/ Stop(p)
    BY <1>1 DEF Begin, Stop, TypeInv, TypeOK
  <1>2. CASE Fetch(p)
    BY <1>2 DEF Fetch, TypeInv, TypeOK
  <1>3. CASE Download(p)
    BY <1>3 DEF Download, TypeInv, TypeOK
  <1>4. CASE Extract(p)
    BY <1>4 DEF Extract, TypeInv, TypeOK
  <1>5. CASE ArchiveEnd(p) \/ EnsureExecutable(p) \/ ToolsEnd(p)
    BY <1>5 DEF ArchiveEnd, EnsureExecutable, ToolsEnd, TypeInv, TypeOK
  <1>6. CASE InstallDoc(p)
    BY <1>6 DEF InstallDoc, TypeInv, TypeOK
  <1>7. CASE DocsEnd(p) \/ KeepManifest(p) \/ RecordState(p)
    BY <1>7 DEF DocsEnd, KeepManifest, RecordState, TypeInv, TypeOK
  <1>8. QED
    BY <1>1, <1>2, <1>3, <1>4, <1>5, <1>6, <1>7 DEF Step

\* Every action keeps a shell's control facts and its count of installed
\* entries: its own by what the action does, the others' because they do not
\* change.
LEMMA LocalStep ==
    ASSUME TypeInv, Counted, [Next]_vars
    PROVE  Control' /\ Counted'
  <1> USE DEF disk, archive, progress, Goto
  <1> DEFINE Local(p) == ControlOf(p) /\ CountedOf(p)
  <1>1. \A p \in Procs : Local(p)
    BY DEF TypeInv, Control, Counted
  <1>2. ASSUME NEW p \in Procs, Begin(p) \/ Step(p) \/ Stop(p), Local(p)'
        PROVE  \A q \in Procs : Local(q)'
    <2> SUFFICES ASSUME NEW q \in Procs, q # p PROVE Local(q)'
      BY <1>2
    <2> QED
      BY <1>1, <1>2, OthersUnchanged DEF ControlOf, CountedOf
  <1>3. ASSUME NEW p \in Procs, Begin(p) PROVE Local(p)'
    BY <1>1, <1>3
    DEF Begin, ControlOf, CountedOf, Working, TypeInv, TypeOK
  <1>4. ASSUME NEW p \in Procs, Fetch(p) PROVE Local(p)'
    <2>1. pc'[p] \in {"tool", "failed"}
      BY <1>4 DEF Fetch, TypeInv, TypeOK
    <2>2. CASE pc'[p] = "tool"
      <3>1. manifest'[p] \in Manifests /\ manifest'[p].tenant = tenant[p]
        BY <1>4, <2>2 DEF Fetch, Fetched, TypeInv, TypeOK
      <3>2. Len(manifest'[p].tools) \in Nat
        BY <3>1, ManifestFields
      <3>3. UNCHANGED <<tenant, next, similar, first, bins, docs>>
            /\ pc[p] = "fetch"
        BY <1>4 DEF Fetch
      <3>4. QED BY <1>1, <2>2, <3>1, <3>2, <3>3 DEF ControlOf, CountedOf, Working
    <2>3. CASE pc'[p] = "failed"
      BY <1>1, <1>4, <2>3 DEF Fetch, ControlOf, CountedOf, Working
    <2>4. QED BY <2>1, <2>2, <2>3
  <1>5. ASSUME NEW p \in Procs, Download(p) PROVE Local(p)'
    <2>1. next[p] \in 1..Len(manifest[p].tools) /\ pc[p] = "tool"
      BY <1>5, ToolTyped DEF Download, Working
    <2>2. UNCHANGED <<tenant, manifest, next, bins, docs>>
      BY <1>5 DEF Download
    <2>3. CASE ToolOf(p).ok
      BY <1>1, <1>5, <2>1, <2>2, <2>3
      DEF Download, ControlOf, CountedOf, Working, TypeInv, TypeOK
    <2>4. CASE ~ToolOf(p).ok
      BY <1>1, <1>5, <2>1, <2>2, <2>4
      DEF Download, ControlOf, CountedOf, Working, TypeInv, TypeOK
    <2>5. QED BY <2>3, <2>4
  <1>6. ASSUME NEW p \in Procs, Extract(p) PROVE Local(p)'
    <2>1. ToolOf(p).entries[entry[p]] # NoName
      BY <1>6, ExtractedFile, NothingAssumption DEF Extract
    <2>2. UNCHANGED <<tenant, manifest, next, bins, docs>>
          /\ pc[p] = "extract" /\ pc'[p] \in {"extract", "chmod"}
      BY <1>6 DEF Extract, TypeInv, TypeOK
    <2>3. first'[p] # NoName
      BY <1>6, <2>1 DEF Extract, TypeInv, TypeOK
    <2>4. QED
      BY <1>1, <2>2, <2>3 DEF ControlOf, CountedOf, Working
  <1>7. ASSUME NEW p \in Procs, ArchiveEnd(p) PROVE Local(p)'
    BY <1>1, <1>7
    DEF ArchiveEnd, ControlOf, CountedOf, Working, TypeInv, TypeOK
  <1>8. ASSUME NEW p \in Procs, EnsureExecutable(p) PROVE Local(p)'
    <2>1. Chosen(p) \in Names /\ bins[p] \in Seq(Names)
      BY <1>8, ChosenTyped DEF EnsureExecutable, TypeInv, TypeOK
    <2>2. Len(bins'[p]) = Len(bins[p]) + 1
      BY <1>8, <2>1, Appended DEF EnsureExecutable, TypeInv, TypeOK
    <2>3. /\ pc[p] = "chmod" /\ pc'[p] = "tool"
          /\ next'[p] = next[p] + 1
          /\ UNCHANGED <<tenant, manifest, first, similar, docs>>
      BY <1>8 DEF EnsureExecutable, TypeInv, TypeOK
    <2>4. Len(manifest[p].tools) \in Nat
      BY <1>1, <2>3, ManifestFields DEF ControlOf, Working
    <2>5. QED
      BY <1>1, <2>2, <2>3, <2>4 DEF ControlOf, CountedOf, Working, TypeInv, TypeOK
  <1>9. ASSUME NEW p \in Procs, ToolsEnd(p) PROVE Local(p)'
    <2>1. manifest[p] \in Manifests
      BY <1>1, <1>9 DEF ToolsEnd, ControlOf, Working
    <2>2. Len(manifest[p].tools) \in Nat /\ Len(manifest[p].docs) \in Nat
      BY <2>1, ManifestFields
    <2>3. /\ pc[p] = "tool" /\ pc'[p] = "doc" /\ next'[p] = 1
          /\ next[p] > Len(manifest[p].tools)
          /\ UNCHANGED <<tenant, manifest, first, similar, bins, docs>>
      BY <1>9 DEF ToolsEnd, TypeInv, TypeOK
    <2>4. QED
      BY <1>1, <2>2, <2>3 DEF ControlOf, CountedOf, Working, TypeInv, TypeOK
  <1>10. ASSUME NEW p \in Procs, InstallDoc(p) PROVE Local(p)'
    <2>1. /\ DocOf(p).path \in DocPaths /\ docs[p] \in Seq(DocPaths)
          /\ next[p] \in 1..Len(manifest[p].docs)
      BY <1>10, DocTyped DEF InstallDoc, TypeInv, TypeOK
    <2>2. /\ pc[p] = "doc"
          /\ UNCHANGED <<tenant, manifest, first, similar, bins>>
      BY <1>10 DEF InstallDoc
    <2>3. CASE DocOf(p).ok
      <3>1. /\ docs'[p] = Append(docs[p], DocOf(p).path)
            /\ next'[p] = next[p] + 1 /\ pc' = pc
        BY <1>10, <2>3 DEF InstallDoc, TypeInv, TypeOK
      <3>2. Len(docs'[p]) = Len(docs[p]) + 1
        BY <2>1, <3>1, Appended
      <3>3. Len(manifest[p].docs) \in Nat
        BY <1>1, <2>2, ManifestFields DEF ControlOf, Working
      <3>4. QED
        BY <1>1, <2>1, <2>2, <3>1, <3>2, <3>3
        DEF ControlOf, CountedOf, Working, TypeInv, TypeOK
    <2>4. CASE ~DocOf(p).ok
      BY <1>1, <1>10, <2>2, <2>4
      DEF InstallDoc, ControlOf, CountedOf, Working, TypeInv, TypeOK
    <2>5. QED BY <2>3, <2>4
  <1>11. ASSUME NEW p \in Procs, DocsEnd(p) PROVE Local(p)'
    <2>1. manifest[p] \in Manifests
      BY <1>1, <1>11 DEF DocsEnd, ControlOf, Working
    <2>2. Len(manifest[p].docs) \in Nat
      BY <2>1, ManifestFields
    <2>3. QED
      BY <1>1, <1>11, <2>2
      DEF DocsEnd, ControlOf, CountedOf, Working, TypeInv, TypeOK
  <1>12. ASSUME NEW p \in Procs, KeepManifest(p) \/ RecordState(p) \/ Stop(p)
         PROVE  Local(p)'
    BY <1>1, <1>12
    DEF KeepManifest, RecordState, Stop, ControlOf, CountedOf, Working,
        TypeInv, TypeOK
  <1>13. ASSUME UNCHANGED vars
         PROVE  \A p \in Procs : Local(p)'
    BY <1>1, <1>13 DEF vars, ControlOf, CountedOf
  <1>14. \A p \in Procs : Local(p)'
    BY <1>2, <1>3, <1>4, <1>5, <1>6, <1>7, <1>8, <1>9, <1>10, <1>11, <1>12,
       <1>13 DEF Next, Step
  <1>15. QED BY <1>14 DEF Control, Counted

-----------------------------------------------------------------------------
(* What is on disk.                                                        *)

\* No step removes a file: a binary, a document or a kept manifest may only be
\* replaced.
LEMMA FilesStay ==
    ASSUME TypeInv, OnDisk, [Next]_vars
    PROVE  /\ \A n \in Names : bin[n] # NoFile => bin'[n] # NoFile
           /\ \A d \in DocPaths : library[d] # NoFile => library'[d] # NoFile
           /\ \A t \in Tenants : kept[t] # NoManifest => kept'[t] # NoManifest
  <1> USE DEF disk, archive, progress
  <1>1. ASSUME NEW p \in Procs, Extract(p)
        PROVE  /\ \A n \in Names : bin[n] # NoFile => bin'[n] # NoFile
               /\ UNCHANGED <<library, kept>>
    BY <1>1, ExtractedFile, NothingAssumption
    DEF Extract, WriteAtomically, TypeInv, TypeOK
  <1>2. ASSUME NEW p \in Procs, EnsureExecutable(p)
        PROVE  /\ \A n \in Names : bin[n] # NoFile => bin'[n] # NoFile
               /\ UNCHANGED <<library, kept>>
    <2>1. [bin[Chosen(p)] EXCEPT !.exec = TRUE] \in Files
      BY <1>2, ChosenOnDisk DEF EnsureExecutable, Files
    <2>2. bin' = [bin EXCEPT ![Chosen(p)] =
                    [bin[Chosen(p)] EXCEPT !.exec = TRUE]]
      BY <1>2 DEF EnsureExecutable
    <2>3. \A n \in Names : bin[n] # NoFile => bin'[n] # NoFile
      BY <2>1, <2>2, NothingAssumption DEF TypeInv, TypeOK
    <2>4. QED BY <1>2, <2>3 DEF EnsureExecutable
  <1>3. ASSUME NEW p \in Procs, InstallDoc(p)
        PROVE  /\ \A d \in DocPaths : library[d] # NoFile => library'[d] # NoFile
               /\ UNCHANGED <<bin, kept>>
    <2>1. DocOf(p) # NoFile
      BY <1>3, DocTyped, NothingAssumption DEF InstallDoc
    <2>2. \/ library' = [library EXCEPT ![DocOf(p).path] = DocOf(p)]
          \/ library' = library
      BY <1>3 DEF InstallDoc, WriteAtomically
    <2>3. QED BY <1>3, <2>1, <2>2 DEF InstallDoc, TypeInv, TypeOK
  <1>4. ASSUME NEW p \in Procs, KeepManifest(p)
        PROVE  /\ \A t \in Tenants : kept[t] # NoManifest => kept'[t] # NoManifest
               /\ UNCHANGED <<bin, library>>
    BY <1>4, NothingAssumption
    DEF KeepManifest, WriteAtomically, TypeInv, TypeOK, Control, ControlOf,
        Working
  <1>5. ASSUME \/ \E p \in Procs :
                    \/ Begin(p) \/ Fetch(p) \/ Download(p) \/ ArchiveEnd(p)
                    \/ ToolsEnd(p) \/ DocsEnd(p) \/ RecordState(p) \/ Stop(p)
               \/ UNCHANGED vars
        PROVE  UNCHANGED <<bin, library, kept>>
    BY <1>5 DEF Begin, Fetch, Download, ArchiveEnd, ToolsEnd, DocsEnd,
                RecordState, Stop, vars
  <1>6. QED BY <1>1, <1>2, <1>3, <1>4, <1>5 DEF Next, Step

\* Every action writes only what passed its checks.
LEMMA VerifiedStep ==
    ASSUME TypeInv, OnDisk, Verified, [Next]_vars
    PROVE  Verified'
  <1> USE DEF disk, archive, progress, Goto
  <1>1. ASSUME NEW p \in Procs, Extract(p) PROVE Verified'
    <2>1. OnlyVerifiedFiles'
      BY <1>1, ExtractedFile
      DEF Extract, WriteAtomically, Verified, OnlyVerifiedFiles, TypeInv, TypeOK
    <2>2. \A q \in Procs : (pc[q] = "extract" => ToolOf(q).ok)'
      BY <1>1 DEF Extract, Verified, ToolOf, TypeInv, TypeOK
    <2>3. QED BY <2>1, <2>2 DEF Verified
  <1>2. ASSUME NEW p \in Procs, EnsureExecutable(p) PROVE Verified'
    <2>1. bin[Chosen(p)] \in Files /\ pc[p] = "chmod"
      BY <1>2, ChosenOnDisk DEF EnsureExecutable
    <2>2. bin' = [bin EXCEPT ![Chosen(p)] =
                    [bin[Chosen(p)] EXCEPT !.exec = TRUE]]
      BY <1>2 DEF EnsureExecutable
    <2>3. [bin[Chosen(p)] EXCEPT !.exec = TRUE].tool = bin[Chosen(p)].tool
      BY <2>1 DEF Files
    <2>4. Chosen(p) \in Names /\ bin[Chosen(p)].tool.ok
      BY <2>1, ChosenTyped, NothingAssumption
      DEF Verified, OnlyVerifiedFiles
    <2>5. OnlyVerifiedFiles'
      BY <1>2, <2>2, <2>3, <2>4
      DEF EnsureExecutable, Verified, OnlyVerifiedFiles, TypeInv, TypeOK
    <2>6. \A q \in Procs : (pc[q] = "extract" => ToolOf(q).ok)'
      BY <1>2 DEF EnsureExecutable, Verified, ToolOf, TypeInv, TypeOK
    <2>7. QED BY <2>5, <2>6 DEF Verified
  <1>3. ASSUME NEW p \in Procs, Download(p) PROVE Verified'
    <2>1. \/ ToolOf(p).ok /\ staged' = staged \cup {ToolOf(p)}
          \/ pc'[p] = "failed" /\ staged' = staged
      BY <1>3 DEF Download, TypeInv, TypeOK
    <2>2. OnlyVerifiedFiles'
      BY <1>3, <2>1 DEF Download, Verified, OnlyVerifiedFiles
    <2>3. \A q \in Procs : (pc[q] = "extract" => ToolOf(q).ok)'
      <3> SUFFICES ASSUME NEW q \in Procs, pc'[q] = "extract"
                   PROVE  (ToolOf(q).ok)'
        OBVIOUS
      <3>1. CASE q = p
        BY <1>3, <2>1, <3>1 DEF Download, ToolOf
      <3>2. CASE q # p
        BY <1>3, <3>2, OthersUnchanged DEF Step, Verified, ToolOf
      <3>3. QED BY <3>1, <3>2
    <2>4. QED BY <2>2, <2>3 DEF Verified
  <1>4. ASSUME NEW p \in Procs,
               \/ Begin(p) \/ Fetch(p) \/ ArchiveEnd(p) \/ ToolsEnd(p)
               \/ InstallDoc(p) \/ DocsEnd(p) \/ KeepManifest(p)
               \/ RecordState(p) \/ Stop(p)
        PROVE  Verified'
    <2>1. UNCHANGED <<bin, staged>> /\ pc'[p] # "extract"
      BY <1>4
      DEF Begin, Fetch, ArchiveEnd, ToolsEnd, InstallDoc, DocsEnd,
          KeepManifest, RecordState, Stop, TypeInv, TypeOK
    <2>2. OnlyVerifiedFiles'
      BY <2>1 DEF Verified, OnlyVerifiedFiles
    <2>3. \A q \in Procs : (pc[q] = "extract" => ToolOf(q).ok)'
      BY <1>4, <2>1, OthersUnchanged DEF Step, Verified, ToolOf
    <2>4. QED BY <2>2, <2>3 DEF Verified
  <1>5. ASSUME UNCHANGED vars PROVE Verified'
    BY <1>5 DEF vars, Verified, OnlyVerifiedFiles, ToolOf
  <1>6. QED BY <1>1, <1>2, <1>3, <1>4, <1>5 DEF Next, Step

\* Every name a shell remembers, old or new, is a file afterwards.
LEMMA OnDiskStep ==
    ASSUME TypeInv, OnDisk, [Next]_vars
    PROVE  OnDisk'
  <1> USE DEF disk, archive, progress, Goto
  <1>1. ASSUME NEW q \in Procs,
               UNCHANGED <<first[q], similar[q], bins[q], docs[q], tenant[q]>>,
               pc'[q] = "record" => kept'[tenant[q]] # NoManifest
        PROVE  OnDiskOf(q)'
    <2>1. /\ first[q] \in Names \cup {NoName}
          /\ similar[q] \in Names \cup {NoName}
          /\ \A i \in 1..Len(bins[q]) : bins[q][i] \in Names
          /\ \A i \in 1..Len(docs[q]) : docs[q][i] \in DocPaths
      BY DEF TypeInv, TypeOK
    <2>2. QED BY <1>1, <2>1, FilesStay DEF OnDisk, OnDiskOf
  <1>2. ASSUME NEW p \in Procs, Begin(p) \/ Step(p) \/ Stop(p), OnDiskOf(p)'
        PROVE  OnDisk'
    <2> SUFFICES ASSUME NEW q \in Procs, q # p PROVE OnDiskOf(q)'
      BY <1>2 DEF OnDisk
    <2>1. tenant[q] \in Tenants
      BY DEF TypeInv, TypeOK
    <2>2. pc'[q] = "record" => kept'[tenant[q]] # NoManifest
      BY <1>2, <2>1, OthersUnchanged, FilesStay DEF OnDisk, OnDiskOf
    <2>3. QED BY <1>1, <1>2, <2>2, OthersUnchanged
  <1>3. ASSUME NEW p \in Procs, Begin(p) PROVE OnDiskOf(p)'
    <2>1. /\ first[p] \in Names \cup {NoName}
          /\ similar[p] \in Names \cup {NoName}
      BY DEF TypeInv, TypeOK
    <2>2. /\ UNCHANGED <<first, similar>> /\ pc'[p] = "fetch"
          /\ bins'[p] = <<>> /\ docs'[p] = <<>>
      BY <1>3 DEF Begin, TypeInv, TypeOK
    <2>3. QED BY <2>1, <2>2, FilesStay DEF OnDisk, OnDiskOf
  <1>4. ASSUME NEW p \in Procs, Download(p) PROVE OnDiskOf(p)'
    <2>1. /\ UNCHANGED <<bins, docs, tenant, bin, library>>
          /\ pc'[p] \in {"extract", "failed"}
          /\ first'[p] \in {NoName, first[p]}
          /\ similar'[p] \in {NoName, similar[p]}
      BY <1>4 DEF Download, TypeInv, TypeOK
    <2>2. QED BY <2>1 DEF OnDisk, OnDiskOf
  <1>5. ASSUME NEW p \in Procs, Extract(p) PROVE OnDiskOf(p)'
    <2> DEFINE name == ToolOf(p).entries[entry[p]]
    <2>1. /\ name \in Names /\ bin'[name] # NoFile
      BY <1>5, ExtractedFile, NothingAssumption
      DEF Extract, WriteAtomically, TypeInv, TypeOK
    <2>2. /\ UNCHANGED <<bins, docs, tenant, library, kept>>
          /\ pc'[p] # "record"
          /\ first'[p] \in {name, first[p]}
          /\ similar'[p] \in {name, similar[p]}
      BY <1>5 DEF Extract, TypeInv, TypeOK
    <2>3. /\ first[p] \in Names \cup {NoName}
          /\ similar[p] \in Names \cup {NoName}
          /\ \A i \in 1..Len(bins[p]) : bins[p][i] \in Names
      BY DEF TypeInv, TypeOK
    <2>4. QED BY <2>1, <2>2, <2>3, FilesStay DEF OnDisk, OnDiskOf
  <1>6. ASSUME NEW p \in Procs, EnsureExecutable(p) PROVE OnDiskOf(p)'
    <2>1. /\ Chosen(p) \in Names /\ bin[Chosen(p)] # NoFile
          /\ bins[p] \in Seq(Names)
      BY <1>6, ChosenTyped, ChosenOnDisk, NothingAssumption
      DEF EnsureExecutable, TypeInv, TypeOK
    <2>2. /\ UNCHANGED <<first, similar, docs, tenant, library>>
          /\ pc'[p] = "tool" /\ bins'[p] = Append(bins[p], Chosen(p))
      BY <1>6 DEF EnsureExecutable, TypeInv, TypeOK
    <2>3. \A i \in 1..Len(bins'[p]) :
            bins'[p][i] \in Names /\ bin[bins'[p][i]] # NoFile
      <3>1. \A i \in 1..Len(bins[p]) :
              bins[p][i] \in Names /\ bin[bins[p][i]] # NoFile
        BY <2>1 DEF OnDisk, OnDiskOf
      <3>2. /\ Len(bins'[p]) = Len(bins[p]) + 1 /\ Len(bins[p]) \in Nat
            /\ \A i \in 1..Len(bins'[p]) :
                 bins'[p][i] = IF i = Len(bins[p]) + 1 THEN Chosen(p)
                               ELSE bins[p][i]
        BY <2>1, <2>2, Appended
      <3>3. QED BY <2>1, <3>1, <3>2
    <2>4. /\ first[p] \in Names \cup {NoName}
          /\ similar[p] \in Names \cup {NoName}
      BY DEF TypeInv, TypeOK
    <2>5. QED BY <2>2, <2>3, <2>4, FilesStay DEF OnDisk, OnDiskOf
  <1>7. ASSUME NEW p \in Procs, InstallDoc(p) PROVE OnDiskOf(p)'
    <2>1. /\ DocOf(p).path \in DocPaths /\ docs[p] \in Seq(DocPaths)
          /\ DocOf(p) # NoFile
      BY <1>7, DocTyped, NothingAssumption DEF InstallDoc, TypeInv, TypeOK
    <2>2. /\ UNCHANGED <<first, similar, bins, tenant, bin, kept>>
          /\ pc'[p] # "record"
      BY <1>7 DEF InstallDoc, TypeInv, TypeOK
    <2>3. CASE DocOf(p).ok
      <3>1. /\ library' = [library EXCEPT ![DocOf(p).path] = DocOf(p)]
            /\ docs'[p] = Append(docs[p], DocOf(p).path)
        BY <1>7, <2>3 DEF InstallDoc, WriteAtomically, TypeInv, TypeOK
      <3>2. library'[DocOf(p).path] # NoFile
        BY <2>1, <3>1 DEF TypeInv, TypeOK
      <3>3. \A i \in 1..Len(docs[p]) :
              docs[p][i] \in DocPaths /\ library'[docs[p][i]] # NoFile
        BY <2>1, FilesStay DEF OnDisk, OnDiskOf
      <3>4. /\ Len(docs'[p]) = Len(docs[p]) + 1 /\ Len(docs[p]) \in Nat
            /\ \A i \in 1..Len(docs'[p]) :
                 docs'[p][i] = IF i = Len(docs[p]) + 1 THEN DocOf(p).path
                               ELSE docs[p][i]
        BY <2>1, <3>1, Appended
      <3>5. \A i \in 1..Len(docs'[p]) : library'[docs'[p][i]] # NoFile
        BY <3>2, <3>3, <3>4
      <3>6. QED BY <2>2, <3>5 DEF OnDisk, OnDiskOf
    <2>4. CASE ~DocOf(p).ok
      <3>1. UNCHANGED <<docs, library>>
        BY <1>7, <2>4 DEF InstallDoc
      <3>2. QED BY <2>2, <3>1 DEF OnDisk, OnDiskOf
    <2>5. QED BY <2>3, <2>4
  <1>8. ASSUME NEW p \in Procs, KeepManifest(p) PROVE OnDiskOf(p)'
    <2>1. /\ kept'[tenant[p]] # NoManifest
          /\ UNCHANGED <<first, similar, bins, docs, tenant>>
      BY <1>8, NothingAssumption
      DEF KeepManifest, WriteAtomically, TypeInv, TypeOK, Control, ControlOf,
          Working
    <2>2. QED BY <1>1, <2>1
  <1>9. ASSUME NEW p \in Procs,
               \/ Fetch(p) \/ ArchiveEnd(p) \/ ToolsEnd(p) \/ DocsEnd(p)
               \/ RecordState(p) \/ Stop(p)
        PROVE  OnDiskOf(p)'
    <2>1. /\ UNCHANGED <<first, similar, bins, docs, tenant>>
          /\ pc'[p] # "record"
      BY <1>9
      DEF Fetch, ArchiveEnd, ToolsEnd, DocsEnd, RecordState, Stop, TypeInv,
          TypeOK
    <2>2. QED BY <1>1, <2>1
  <1>10. ASSUME UNCHANGED vars PROVE OnDisk'
    <2>1. UNCHANGED <<bin, library, kept, pc, tenant, first, similar, bins, docs>>
      BY <1>10 DEF vars
    <2>2. QED BY <2>1 DEF OnDisk, OnDiskOf
  <1>11. QED
    BY <1>2, <1>3, <1>4, <1>5, <1>6, <1>7, <1>8, <1>9, <1>10 DEF Next, Step

\* state.json is written by a shell whose manifest is kept and whose names are
\* all files; nothing it names is removed later.
LEMMA StateBackedStep ==
    ASSUME TypeInv, OnDisk, StateBacked, [Next]_vars
    PROVE  StateBacked'
  <1> USE DEF disk, archive, progress
  <1>1. CASE state' = state
    <2>1. state # NoState => state \in States
      BY DEF TypeInv, TypeOK
    <2>2. state # NoState =>
            /\ state.tenant \in Tenants
            /\ \A i \in 1..Len(state.bins) : state.bins[i] \in Names
            /\ \A i \in 1..Len(state.docs) : state.docs[i] \in DocPaths
      BY <2>1 DEF States
    <2>3. QED BY <1>1, <2>2, FilesStay DEF StateBacked
  <1>2. ASSUME NEW p \in Procs, RecordState(p) PROVE StateBacked'
    <2>1. /\ state' = [tenant |-> tenant[p], bins |-> bins[p],
                       docs |-> docs[p]]
          /\ pc[p] = "record" /\ UNCHANGED <<bin, library, kept>>
      BY <1>2 DEF RecordState
    <2>2. QED BY <2>1 DEF StateBacked, OnDisk, OnDiskOf
  <1>3. state' = state \/ \E p \in Procs : RecordState(p)
    BY DEF Next, Step, Begin, Fetch, Download, Extract, ArchiveEnd,
           EnsureExecutable, ToolsEnd, InstallDoc, DocsEnd, KeepManifest, Stop,
           vars
  <1>4. QED BY <1>1, <1>2, <1>3

\* Only a manifest that names the tenant is kept for it.
LEMMA KeptStep ==
    ASSUME TypeInv, KeptForTenant, [Next]_vars
    PROVE  KeptForTenant'
  <1>1. CASE kept' = kept
    BY <1>1 DEF KeptForTenant
  <1>2. ASSUME NEW p \in Procs, KeepManifest(p) PROVE KeptForTenant'
    BY <1>2
    DEF KeepManifest, WriteAtomically, KeptForTenant, TypeInv, TypeOK, Control,
        ControlOf, Working
  <1>3. kept' = kept \/ \E p \in Procs : KeepManifest(p)
    BY DEF Next, Step, Begin, Fetch, Download, Extract, ArchiveEnd,
           EnsureExecutable, ToolsEnd, InstallDoc, DocsEnd, RecordState, Stop,
           vars, disk
  <1>4. QED BY <1>1, <1>2, <1>3

-----------------------------------------------------------------------------
(* The theorems.                                                           *)

\* Before the first command nothing is installed and nobody remembers anything.
LEMMA InitIndInv == Init => IndInv
  <1> SUFFICES ASSUME Init PROVE IndInv
    OBVIOUS
  <1>1. TypeOK
    BY EntryAssumption DEF Init, TypeOK, Stages
  <1>2. Control /\ Counted
    BY DEF Init, Control, ControlOf, Counted, CountedOf, Working
  <1>3. Verified /\ OnDisk
    BY DEF Init, Verified, OnlyVerifiedFiles, OnDisk, OnDiskOf
  <1>4. StateBacked /\ KeptForTenant
    BY DEF Init, StateBacked, KeptForTenant
  <1>5. QED BY <1>1, <1>2, <1>3, <1>4 DEF IndInv, TypeInv

\* IndInv is inductive.
LEMMA StepIndInv == IndInv /\ [Next]_vars => IndInv'
  <1> SUFFICES ASSUME IndInv, [Next]_vars PROVE IndInv'
    OBVIOUS
  <1> USE DEF IndInv
  <1>1. TypeInv'
    BY TypesStep, LocalStep DEF TypeInv
  <1>2. Counted' BY LocalStep
  <1>3. Verified' BY VerifiedStep
  <1>4. OnDisk' BY OnDiskStep
  <1>5. StateBacked' BY StateBackedStep
  <1>6. KeptForTenant' BY KeptStep
  <1>7. QED BY <1>1, <1>2, <1>3, <1>4, <1>5, <1>6

\* IndInv holds in every reachable state.
LEMMA Reachable == Spec => []IndInv
  BY InitIndInv, StepIndInv, PTL DEF Spec

\* Every variable keeps its type: run and install_tenant_async, for any
\* manifests and archives.
THEOREM TypeCorrect == Spec => []TypeOK
  BY Reachable, PTL DEF IndInv, TypeInv

\* state.json only ever names what is on disk, however installations overlap
\* and wherever they stop (write_atomically, lines 636-653 of install.rs).
THEOREM StateIsBacked == Spec => []StateBacked
  BY Reachable, PTL DEF IndInv

\* Nothing that failed its checks reaches the bin directory or downloads/
\* (install_tool).
THEOREM FilesAreVerified == Spec => []OnlyVerifiedFiles
  BY Reachable, PTL DEF IndInv, Verified

\* A manifest kept for a tenant names that tenant (lines 572-585).
THEOREM ManifestsAreTheTenants == Spec => []KeptForTenant
  BY Reachable, PTL DEF IndInv

\* state.json changes only when every tool and every document of the manifest
\* was installed (the loops of install_tenant_async before line 628).
THEOREM RecordsAreComplete == Spec => RecordComplete
  <1>1. ASSUME IndInv, [Next]_vars
        PROVE  [state' # state => \E p \in Procs :
                  /\ pc[p] = "record"
                  /\ Len(bins[p]) = Len(manifest[p].tools)
                  /\ Len(docs[p]) = Len(manifest[p].docs)]_vars
    <2>1. state' = state \/ \E p \in Procs : RecordState(p)
      BY <1>1
      DEF Next, Step, Begin, Fetch, Download, Extract, ArchiveEnd,
          EnsureExecutable, ToolsEnd, InstallDoc, DocsEnd, KeepManifest, Stop,
          vars, disk
    <2>2. QED
      BY <1>1, <2>1 DEF RecordState, IndInv, Counted, CountedOf
  <1>2. QED BY <1>1, Reachable, PTL DEF Spec, RecordComplete

-----------------------------------------------------------------------------
(* The binaries of an installation that nobody disturbs.                   *)

\* The archive's file number k, which may be the tool's binary.
Fits(t, k) == ExecutableEntry(t, t.entries[k])
\* The names install_tool writes: up to the binary's own.
Writes(t, n) ==
    \E k \in 1..Len(t.entries) :
        /\ n = t.entries[k]
        /\ \A l \in 1..(k - 1) : t.entries[l] # t.bin
\* The name it takes for the binary: its own, or the first similar one, or the
\* first of all.
BinaryOf(t, n) ==
    LET all == 1..Len(t.entries)
    IN \/ n = t.bin /\ \E k \in all : t.entries[k] = n
       \/ /\ \A k \in all : t.entries[k] # t.bin
          /\ \/ \E k \in all : /\ n = t.entries[k] /\ Fits(t, k)
                               /\ \A l \in 1..(k - 1) : ~Fits(t, l)
             \/ n = t.entries[1] /\ \A k \in all : ~Fits(t, k)

\* No archive carries the binary of a tool installed before it.
OwnBinaries ==
    \A m \in Manifests : \A i, j \in 1..Len(m.tools) : i < j =>
        \A n \in Names : ~(BinaryOf(m.tools[i], n) /\ Writes(m.tools[j], n))

\* What was extracted of the current archive so far.
ExtractedOf(p) ==
    LET t == ToolOf(p)
        past == 1..(entry[p] - 1)
    IN  /\ pc[p] = "extract" =>
             /\ entry[p] <= Len(t.entries) + 1
             /\ \A k \in past : t.entries[k] # t.bin
             /\ IF entry[p] = 1 THEN first[p] = NoName
                ELSE first[p] = t.entries[1] /\ bin[first[p]].tool = t
             /\ IF similar[p] = NoName THEN \A k \in past : ~Fits(t, k)
                ELSE /\ bin[similar[p]].tool = t
                     /\ \E k \in past : /\ similar[p] = t.entries[k]
                                        /\ Fits(t, k)
                                        /\ \A l \in 1..(k - 1) : ~Fits(t, l)
        /\ pc[p] = "chmod" =>
             BinaryOf(t, Chosen(p)) /\ bin[Chosen(p)].tool = t

\* The binaries of the tools behind are in place and executable.
InPlaceOf(p) ==
    pc[p] \in Working => \A i \in 1..Len(bins[p]) :
        /\ BinaryOf(manifest[p].tools[i], bins[p][i])
        /\ bin[bins[p][i]].exec
        /\ bin[bins[p][i]].tool = manifest[p].tools[i]

Undisturbed ==
    \A p \in Procs : Alone(p) => ExtractedOf(p) /\ InPlaceOf(p)

\* Nobody returns to "idle": a shell that is alone after a step was alone
\* before it, and it is the one that took it.
LEMMA AloneStep ==
    ASSUME TypeInv, NEW p \in Procs, [Next]_vars, Alone(p)'
    PROVE  /\ Alone(p)
           /\ Begin(p) \/ Step(p) \/ Stop(p) \/ UNCHANGED vars
  <1> USE DEF Goto, Ended
  <1>1. CASE UNCHANGED vars
    BY <1>1 DEF vars, Alone
  <1>2. ASSUME NEW q \in Procs, Begin(q) \/ Step(q) \/ Stop(q)
        PROVE  pc'[q] # "idle"
    <2>1. CASE Begin(q) \/ Stop(q)
      BY <2>1 DEF Begin, Stop, TypeInv, TypeOK
    <2>2. CASE Fetch(q) \/ Download(q) \/ Extract(q) \/ ArchiveEnd(q)
      BY <2>2 DEF Fetch, Download, Extract, ArchiveEnd, TypeInv, TypeOK
    <2>3. CASE EnsureExecutable(q) \/ ToolsEnd(q) \/ InstallDoc(q)
      BY <2>3 DEF EnsureExecutable, ToolsEnd, InstallDoc, TypeInv, TypeOK
    <2>4. CASE DocsEnd(q) \/ KeepManifest(q) \/ RecordState(q)
      BY <2>4 DEF DocsEnd, KeepManifest, RecordState, TypeInv, TypeOK
    <2>5. QED BY <1>2, <2>1, <2>2, <2>3, <2>4 DEF Step
  <1>3. CASE Next
    <2>1. PICK q \in Procs : Begin(q) \/ Step(q) \/ Stop(q)
      BY <1>3 DEF Next
    <2>2. q = p
      BY <1>2, <2>1 DEF Alone
    <2>3. Alone(p)
      BY <2>1, <2>2, OthersUnchanged DEF Alone
    <2>4. QED BY <2>1, <2>2, <2>3
  <1>4. QED BY <1>1, <1>3

\* Extracting one more file: it is none of the binaries in place, and what is
\* remembered of the archive stays true.
LEMMA ExtractKeeps ==
    ASSUME OwnBinaries, IndInv, NEW p \in Procs, Extract(p),
           ExtractedOf(p), InPlaceOf(p)
    PROVE  ExtractedOf(p)' /\ InPlaceOf(p)'
  <1> DEFINE t == ToolOf(p)
             k == entry[p]
             name == t.entries[k]
             file == [tool |-> t, exec |-> ExecutableEntry(t, name)]
  <1>1. /\ pc[p] = "extract" /\ k \in 1..Len(t.entries) /\ Len(t.entries) \in Nat
        /\ t \in Tools /\ t.bin \in Names /\ name \in Names /\ name # NoName
        /\ \A i \in 1..Len(t.entries) : t.entries[i] \in Names
    <2>1. t \in Tools /\ name \in Names /\ pc[p] = "extract"
      BY ExtractedFile DEF Extract, IndInv
    <2>2. entry[p] \in Nat \ {0} /\ entry[p] <= Len(t.entries)
      BY DEF Extract, IndInv, TypeInv, TypeOK
    <2>3. QED BY <2>1, <2>2, EntryFields, NothingAssumption
  <1>2. /\ bin' = [bin EXCEPT ![name] = file]
        /\ first'[p] = IF first[p] = NoName THEN name ELSE first[p]
        /\ similar'[p] = IF name = t.bin
                              \/ (similar[p] = NoName /\ ExecutableEntry(t, name))
                         THEN name ELSE similar[p]
        /\ entry'[p] = k + 1
        /\ pc'[p] = IF name = t.bin THEN "chmod" ELSE "extract"
        /\ UNCHANGED <<manifest, next, bins>>
    BY <1>1 DEF Extract, WriteAtomically, Goto, IndInv, TypeInv, TypeOK
  <1>3. ToolOf(p)' = t
    BY <1>2 DEF ToolOf
  <1>4. bin'[name] = file /\ \A n \in Names : n # name => bin'[n] = bin[n]
    BY <1>1, <1>2 DEF IndInv, TypeInv, TypeOK
  <1>5. /\ \A l \in 1..(k - 1) : t.entries[l] # t.bin
        /\ IF k = 1 THEN first[p] = NoName
           ELSE first[p] = t.entries[1] /\ bin[first[p]].tool = t
        /\ IF similar[p] = NoName THEN \A l \in 1..(k - 1) : ~Fits(t, l)
           ELSE /\ bin[similar[p]].tool = t
                /\ \E m \in 1..(k - 1) : /\ similar[p] = t.entries[m]
                                         /\ Fits(t, m)
                                         /\ \A l \in 1..(m - 1) : ~Fits(t, l)
    BY <1>1 DEF ExtractedOf
  <1>6. InPlaceOf(p)'
    <2>1. /\ Len(bins[p]) = next[p] - 1 /\ manifest[p] \in Manifests
          /\ next[p] \in 1..Len(manifest[p].tools)
          /\ bins[p] \in Seq(Names) /\ Len(manifest[p].tools) \in Nat
      BY <1>1, ManifestFields
      DEF IndInv, TypeInv, TypeOK, Control, ControlOf, Counted, CountedOf,
          Working
    <2>2. Writes(t, name)
      BY <1>1, <1>5 DEF Writes
    <2>3. ASSUME NEW i \in 1..Len(bins[p])
          PROVE  bins[p][i] \in Names /\ bins[p][i] # name
      <3>1. BinaryOf(manifest[p].tools[i], bins[p][i])
        BY <1>1 DEF InPlaceOf, Working
      <3>2. bins[p][i] \in Names
        BY <2>1
      <3>3. i \in 1..Len(manifest[p].tools) /\ i < next[p]
        BY <2>1
      <3>4. ~(BinaryOf(manifest[p].tools[i], bins[p][i])
                /\ Writes(manifest[p].tools[next[p]], bins[p][i]))
        BY <2>1, <3>2, <3>3 DEF OwnBinaries
      <3>5. QED BY <2>2, <3>1, <3>2, <3>4 DEF ToolOf
    <2>4. QED BY <1>1, <1>2, <1>4, <2>3 DEF InPlaceOf, Working
  <1>7. CASE name = t.bin
    <2>1. /\ pc'[p] = "chmod" /\ similar'[p] = name
      BY <1>2, <1>7
    <2>2. Chosen(p)' = name
      BY <1>1, <2>1 DEF Chosen
    <2>3. BinaryOf(t, name)
      BY <1>1, <1>7 DEF BinaryOf
    <2>4. ExtractedOf(p)'
      BY <1>3, <1>4, <2>1, <2>2, <2>3 DEF ExtractedOf
    <2>5. QED BY <1>6, <2>4
  <1>8. CASE name # t.bin
    <2>1. pc'[p] = "extract" /\ entry'[p] - 1 = k /\ entry'[p] # 1
          /\ entry'[p] <= Len(t.entries) + 1
      BY <1>1, <1>2, <1>8
    <2>2. \A l \in 1..k : t.entries[l] # t.bin
      <3>1. \A l \in 1..k : l = k \/ l \in 1..(k - 1)
        BY <1>1
      <3>2. QED BY <1>5, <1>8, <3>1
    <2>3. first'[p] = t.entries[1] /\ bin'[first'[p]].tool = t
      <3>1. CASE k = 1
        BY <1>2, <1>4, <1>5, <3>1
      <3>2. CASE k # 1
        <4>1. t.entries[1] \in Names
          BY <1>1
        <4>2. first'[p] = t.entries[1] /\ first[p] = t.entries[1]
          BY <1>2, <1>5, <3>2, <4>1, NothingAssumption
        <4>3. QED BY <1>4, <1>5, <3>2, <4>1, <4>2
      <3>3. QED BY <3>1, <3>2
    <2>4. IF similar'[p] = NoName THEN \A l \in 1..k : ~Fits(t, l)
          ELSE /\ bin'[similar'[p]].tool = t
               /\ \E m \in 1..k : /\ similar'[p] = t.entries[m]
                                  /\ Fits(t, m)
                                  /\ \A l \in 1..(m - 1) : ~Fits(t, l)
      <3>1. Fits(t, k) <=> ExecutableEntry(t, name)
        BY DEF Fits
      <3>2. \A l \in 1..k : l = k \/ l \in 1..(k - 1)
        BY <1>1
      <3>3. \A l \in 1..(k - 1) : l \in 1..k
        BY <1>1
      <3>4. CASE similar[p] # NoName
        <4>1. similar'[p] = similar[p]
          BY <1>2, <1>8, <3>4
        <4>2. similar[p] \in Names
          BY <3>4 DEF IndInv, TypeInv, TypeOK
        <4>3. bin'[similar[p]].tool = t
          BY <1>4, <1>5, <3>4, <4>2
        <4>4. QED BY <1>5, <3>3, <3>4, <4>1, <4>3
      <3>5. CASE similar[p] = NoName /\ ExecutableEntry(t, name)
        <4>1. similar'[p] = name
          BY <1>2, <3>5
        <4>2. k \in 1..k /\ \A l \in 1..(k - 1) : ~Fits(t, l)
          BY <1>1, <1>5, <3>5
        <4>3. QED BY <1>1, <1>4, <3>1, <3>5, <4>1, <4>2
      <3>6. CASE similar[p] = NoName /\ ~ExecutableEntry(t, name)
        <4>1. similar'[p] = NoName
          BY <1>2, <1>8, <3>6
        <4>2. QED BY <1>5, <3>1, <3>2, <3>6, <4>1
      <3>7. QED BY <3>4, <3>5, <3>6
    <2>5. ExtractedOf(p)'
      BY <1>3, <2>1, <2>2, <2>3, <2>4 DEF ExtractedOf
    <2>6. QED BY <1>6, <2>5
  <1>9. QED BY <1>7, <1>8

\* At the archive's end the first similar name, or the first of all, is the
\* tool's binary.
LEMMA ArchiveEndKeeps ==
    ASSUME IndInv, NEW p \in Procs, ArchiveEnd(p), ExtractedOf(p), InPlaceOf(p)
    PROVE  ExtractedOf(p)' /\ InPlaceOf(p)'
  <1> DEFINE t == ToolOf(p)
  <1>1. /\ pc[p] = "extract" /\ UNCHANGED <<bin, manifest, next, first, similar, bins>>
        /\ pc'[p] = IF first[p] = NoName THEN "failed" ELSE "chmod"
        /\ entry[p] > Len(t.entries) /\ entry[p] \in Nat \ {0}
    BY DEF ArchiveEnd, Goto, disk, archive, progress, IndInv, TypeInv, TypeOK
  <1>2. InPlaceOf(p)'
    BY <1>1 DEF InPlaceOf, Working
  <1>3. CASE first[p] = NoName
    BY <1>1, <1>2, <1>3 DEF ExtractedOf
  <1>4. CASE first[p] # NoName
    <2>1. t \in Tools /\ Len(t.entries) \in Nat
      <3>1. next[p] \in 1..Len(manifest[p].tools) /\ manifest[p] \in Manifests
        BY <1>1 DEF IndInv, TypeInv, Control, ControlOf, Working
      <3>2. QED BY <3>1, ManifestFields, EntryFields DEF ToolOf
    <2>2. entry[p] - 1 = Len(t.entries)
      BY <1>1, <2>1 DEF ExtractedOf
    <2>3. entry[p] # 1
      BY <1>1, <1>4 DEF ExtractedOf
    <2>4. BinaryOf(t, Chosen(p)) /\ bin[Chosen(p)].tool = t
      <3>1. CASE similar[p] # NoName
        BY <1>1, <2>2, <3>1 DEF ExtractedOf, BinaryOf, Chosen
      <3>2. CASE similar[p] = NoName
        BY <1>1, <2>2, <2>3, <3>2 DEF ExtractedOf, BinaryOf, Chosen
      <3>3. QED BY <3>1, <3>2
    <2>5. Chosen(p)' = Chosen(p) /\ ToolOf(p)' = t
      BY <1>1 DEF Chosen, ToolOf
    <2>6. ExtractedOf(p)'
      BY <1>1, <1>4, <2>4, <2>5 DEF ExtractedOf
    <2>7. QED BY <1>2, <2>6
  <1>5. QED BY <1>3, <1>4

\* ensure_executable adds the tool's binary to those in place.
LEMMA EnsureKeeps ==
    ASSUME IndInv, NEW p \in Procs, EnsureExecutable(p), ExtractedOf(p),
           InPlaceOf(p)
    PROVE  ExtractedOf(p)' /\ InPlaceOf(p)'
  <1> DEFINE c == Chosen(p)
  <1>1. /\ pc[p] = "chmod" /\ pc'[p] = "tool"
        /\ UNCHANGED manifest
        /\ bin' = [bin EXCEPT ![c] = [bin[c] EXCEPT !.exec = TRUE]]
        /\ bins'[p] = Append(bins[p], c)
    BY DEF EnsureExecutable, Goto, IndInv, TypeInv, TypeOK
  <1>2. c \in Names /\ bin[c] \in Files /\ bins[p] \in Seq(Names)
    BY <1>1, ChosenTyped, ChosenOnDisk DEF IndInv, TypeInv, TypeOK
  <1>3. /\ bin'[c].exec /\ bin'[c].tool = bin[c].tool
        /\ \A n \in Names : n # c => bin'[n] = bin[n]
    BY <1>1, <1>2 DEF Files, IndInv, TypeInv, TypeOK
  <1>4. \A n \in Names : bin[n].exec => bin'[n].exec /\ bin'[n].tool = bin[n].tool
    BY <1>3
  <1>5. /\ Len(bins'[p]) = Len(bins[p]) + 1 /\ Len(bins[p]) \in Nat
        /\ \A i \in 1..Len(bins'[p]) :
             bins'[p][i] = IF i = Len(bins[p]) + 1 THEN c ELSE bins[p][i]
    BY <1>1, <1>2, Appended
  <1>6. Len(bins[p]) + 1 = next[p] /\ ToolOf(p) = manifest[p].tools[next[p]]
    BY <1>1 DEF ToolOf, IndInv, Counted, CountedOf, TypeInv, TypeOK
  <1>7. BinaryOf(ToolOf(p), c) /\ bin[c].tool = ToolOf(p)
    BY <1>1 DEF ExtractedOf
  <1>8. ASSUME NEW i \in 1..Len(bins'[p])
        PROVE  /\ BinaryOf(manifest[p].tools[i], bins'[p][i])
               /\ bin'[bins'[p][i]].exec
               /\ bin'[bins'[p][i]].tool = manifest[p].tools[i]
    <2>1. CASE i = Len(bins[p]) + 1
      BY <1>3, <1>5, <1>6, <1>7, <2>1
    <2>2. CASE i # Len(bins[p]) + 1
      <3>1. i \in 1..Len(bins[p]) /\ bins'[p][i] = bins[p][i]
            /\ bins[p][i] \in Names
        BY <1>2, <1>5, <2>2
      <3>2. QED BY <1>1, <1>4, <3>1 DEF InPlaceOf, Working
    <2>3. QED BY <2>1, <2>2
  <1>9. QED BY <1>1, <1>8 DEF ExtractedOf, InPlaceOf

\* Undisturbed holds after every step of every shell.
LEMMA UndisturbedStep ==
    ASSUME OwnBinaries, IndInv, Undisturbed, [Next]_vars
    PROVE  Undisturbed'
  <1> SUFFICES ASSUME NEW p \in Procs, Alone(p)'
               PROVE  ExtractedOf(p)' /\ InPlaceOf(p)'
    BY DEF Undisturbed
  <1> USE DEF disk, archive, progress, Goto
  <1>1. /\ ExtractedOf(p) /\ InPlaceOf(p)
        /\ Begin(p) \/ Step(p) \/ Stop(p) \/ UNCHANGED vars
    BY AloneStep DEF IndInv, Undisturbed
  <1>2. CASE Begin(p) \/ Stop(p)
    <2>1. pc'[p] \in {"fetch", "failed"}
      BY <1>2 DEF Begin, Stop, IndInv, TypeInv, TypeOK
    <2>2. QED BY <2>1 DEF ExtractedOf, InPlaceOf, Working
  <1>3. CASE Fetch(p)
    <2>1. pc'[p] \in {"tool", "failed"} /\ bins'[p] = <<>>
      BY <1>3 DEF Fetch, IndInv, TypeInv, TypeOK, Counted, CountedOf
    <2>2. QED BY <2>1 DEF ExtractedOf, InPlaceOf
  <1>4. CASE Download(p)
    <2>1. UNCHANGED <<bin, bins, manifest, next>> /\ pc[p] = "tool"
      BY <1>4 DEF Download
    <2>2. InPlaceOf(p)'
      BY <1>1, <2>1 DEF InPlaceOf, Working
    <2>3. \/ pc'[p] = "failed"
          \/ /\ pc'[p] = "extract" /\ entry'[p] = 1
             /\ first'[p] = NoName /\ similar'[p] = NoName
      BY <1>4 DEF Download, IndInv, TypeInv, TypeOK
    <2>4. ToolOf(p)' = ToolOf(p) /\ Len(ToolOf(p).entries) \in Nat
      BY <1>4, <2>1, ToolTyped, EntryFields DEF Download, Working, IndInv, ToolOf
    <2>5. ExtractedOf(p)'
      <3>1. CASE pc'[p] = "failed"
        BY <3>1 DEF ExtractedOf
      <3>2. CASE pc'[p] # "failed"
        BY <2>3, <2>4, <3>2 DEF ExtractedOf
      <3>3. QED BY <3>1, <3>2
    <2>6. QED BY <2>2, <2>5
  <1>5. CASE Extract(p)
    BY <1>1, <1>5, ExtractKeeps
  <1>6. CASE ArchiveEnd(p)
    BY <1>1, <1>6, ArchiveEndKeeps
  <1>7. CASE EnsureExecutable(p)
    BY <1>1, <1>7, EnsureKeeps
  <1>8. CASE ToolsEnd(p) \/ InstallDoc(p) \/ DocsEnd(p) \/ KeepManifest(p)
             \/ RecordState(p)
    <2>1. /\ UNCHANGED <<bin, bins, manifest>> /\ pc[p] \in Working
          /\ pc'[p] \notin {"extract", "chmod"}
      BY <1>8
      DEF ToolsEnd, InstallDoc, DocsEnd, KeepManifest, RecordState, Working,
          IndInv, TypeInv, TypeOK
    <2>2. QED BY <1>1, <2>1 DEF ExtractedOf, InPlaceOf
  <1>9. CASE UNCHANGED vars
    BY <1>1, <1>9 DEF vars, ExtractedOf, InPlaceOf, ToolOf, Chosen
  <1>10. QED
    BY <1>1, <1>2, <1>3, <1>4, <1>5, <1>6, <1>7, <1>8, <1>9 DEF Step

\* When the command of a shell that is alone ends, every tool's binary is the
\* tool's own and executable (extract_tool_archive and ensure_executable), for
\* archives that do not carry the binary of a tool listed before theirs.
THEOREM ToolsAlwaysRunnable ==
    ASSUME OwnBinaries
    PROVE  Spec => []ToolsRunnable
  <1>1. Init => Undisturbed
    BY DEF Init, Undisturbed, ExtractedOf, InPlaceOf, Working
  <1>2. IndInv /\ Undisturbed /\ [Next]_vars => Undisturbed'
    BY UndisturbedStep
  <1>3. Undisturbed => ToolsRunnable
    BY DEF Undisturbed, InPlaceOf, ToolsRunnable, Working
  <1>4. QED BY <1>1, <1>2, <1>3, Reachable, PTL DEF Spec

=============================================================================
