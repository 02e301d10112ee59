----------------------------- MODULE WorkerStore -----------------------------
(***************************************************************************)
(* `greentic-dev dw publish` and `dw install` (src/dw_cmd.rs): publishing  *)
(* reads the description and the artifact, and posts both with the         *)
(* artifact's sha256; installing asks for a version's metadata, then for   *)
(* its artifact, and writes the artifact through a temporary file if its   *)
(* hash is the one of the metadata.                                        *)
(*                                                                         *)
(* The store is external: it accepts any publication, a version's second   *)
(* one too, and may refuse or lose any request or its answer; what it      *)
(* serves may be damaged on the way.                                       *)
(***************************************************************************)
EXTENDS Naturals

CONSTANTS
    Clients, Versions, Artifacts, Dirs,
    Damaged,      \* bytes that are no published artifact
    Partial,      \* a file not written to its end
    Digests, Sha, \* the sha256 of the bytes, in hex
    None,
    MaxRounds     \* bound: commands a client runs

VARIABLES
    store,        \* version -> what the store holds: [artifact, sha256]
    files,        \* directory and version -> the .gtpack there
    describe,     \* the local description: the version it names
    artifact,     \* the local artifact
    stage, round, \* where each client is, and the command it is at
    version, dir, \* what its command installs, and where
    expected,     \* the hash of the metadata
    bytes,        \* the bytes it has read
    temp          \* its temporary file

vars == <<store, files, describe, artifact, stage, round, version, dir,
          expected, bytes, temp>>
working == <<describe, artifact>>
args == <<version, dir>>

Bytes == Artifacts \cup {Damaged}
Published == [artifact : Artifacts, sha256 : Digests]
Stages == {"idle", "describe", "artifact", "post", "metadata", "download",
           "create", "write", "rename"}

ASSUME DigestAssumption ==
    /\ Sha \in [Bytes -> Digests]
    /\ \A a, b \in Bytes : Sha[a] = Sha[b] => a = b
    /\ Damaged \notin Artifacts
    /\ Partial \notin Artifacts
    /\ None \notin Bytes \cup {Partial} \cup Published \cup Digests
    /\ None \notin [version : Versions, dir : Dirs, artifact : Artifacts]
ASSUME BoundAssumption == MaxRounds \in Nat

Init ==
    /\ store = [v \in Versions |-> None]
    /\ files = [d \in Dirs |-> [v \in Versions |-> None]]
    /\ describe \in Versions /\ artifact \in Artifacts
    /\ stage = [c \in Clients |-> "idle"]
    /\ round = [c \in Clients |-> 0]
    /\ version \in [Clients -> Versions] /\ dir \in [Clients -> Dirs]
    /\ expected = [c \in Clients |-> None]
    /\ bytes = [c \in Clients |-> None]
    /\ temp = [c \in Clients |-> None]

Goto(c, s) == stage' = [stage EXCEPT ![c] = s]
\* The command ends: by itself, with an error or interrupted; tempfile removes
\* the temporary file, and one that a kill leaves has a name of its own.
End(c) ==
    /\ Goto(c, "idle")
    /\ expected' = [expected EXCEPT ![c] = None]
    /\ bytes' = [bytes EXCEPT ![c] = None]
    /\ temp' = [temp EXCEPT ![c] = None]
    /\ UNCHANGED <<round, args>>
Begin(c) ==
    /\ stage[c] = "idle" /\ round[c] < MaxRounds
    /\ round' = [round EXCEPT ![c] = @ + 1]
    /\ UNCHANGED <<store, files, working, expected, bytes, temp>>
\* An error or a signal, between any two steps.
Stop(c) ==
    /\ stage[c] # "idle"
    /\ End(c)
    /\ UNCHANGED <<store, files, working>>

\* The author changes the description or the artifact.
Edit ==
    /\ \/ describe' \in Versions \ {describe} /\ UNCHANGED artifact
       \/ artifact' \in Artifacts \ {artifact} /\ UNCHANGED describe
    /\ UNCHANGED <<store, files, stage, round, args, expected, bytes, temp>>

-----------------------------------------------------------------------------
(* dw publish, with a token.                                               *)

BeginPublish(c) == Begin(c) /\ Goto(c, "describe") /\ UNCHANGED args
ReadDescribe(c) ==
    /\ stage[c] = "describe"
    /\ version' = [version EXCEPT ![c] = describe]
    /\ Goto(c, "artifact")
    /\ UNCHANGED <<store, files, working, round, dir, expected, bytes, temp>>
ReadArtifact(c) ==
    /\ stage[c] = "artifact"
    /\ bytes' = [bytes EXCEPT ![c] = artifact]
    /\ expected' = [expected EXCEPT ![c] = Sha[artifact]]
    /\ Goto(c, "post")
    /\ UNCHANGED <<store, files, working, round, args, temp>>
\* The store takes the publication; its answer may be lost.
Post(c) ==
    /\ stage[c] = "post"
    /\ store' = [store EXCEPT ![version[c]] =
                     [artifact |-> bytes[c], sha256 |-> expected[c]]]
    /\ End(c)
    /\ UNCHANGED <<files, working>>

-----------------------------------------------------------------------------
(* dw install.                                                             *)

BeginInstall(c, v, d) ==
    /\ Begin(c)
    /\ version' = [version EXCEPT ![c] = v]
    /\ dir' = [dir EXCEPT ![c] = d]
    /\ Goto(c, "metadata")
GetMetadata(c) ==
    /\ stage[c] = "metadata"
    /\ store[version[c]] # None
    /\ expected' = [expected EXCEPT ![c] = store[version[c]].sha256]
    /\ Goto(c, "download")
    /\ UNCHANGED <<store, files, working, round, args, bytes, temp>>
\* The artifact of the version, as it is by now: on a mismatch the command
\* ends and nothing has been written.
Download(c) ==
    /\ stage[c] = "download"
    /\ store[version[c]] # None
    /\ \E served \in {store[version[c]].artifact, Damaged} :
           IF Sha[served] = expected[c]
           THEN /\ bytes' = [bytes EXCEPT ![c] = served]
                /\ Goto(c, "create")
                /\ UNCHANGED <<round, args, expected, temp>>
           ELSE End(c)
    /\ UNCHANGED <<store, files, working>>
\* mutant: the file is written in place.
CreateInPlace(c) ==
    /\ stage[c] = "create"
    /\ files' = [files EXCEPT ![dir[c]][version[c]] = Partial]
    /\ temp' = [temp EXCEPT ![c] = Partial]
    /\ Goto(c, "write")
    /\ UNCHANGED <<store, working, round, args, expected, bytes>>
CreateTemp(c) ==
    /\ stage[c] = "create"
    /\ temp' = [temp EXCEPT ![c] = Partial]
    /\ Goto(c, "write")
    /\ UNCHANGED <<store, files, working, round, args, expected, bytes>>
WriteTemp(c) ==
    /\ stage[c] = "write"
    /\ temp' = [temp EXCEPT ![c] = bytes[c]]
    /\ Goto(c, "rename")
    /\ UNCHANGED <<store, files, working, round, args, expected, bytes>>
Persist(c) ==
    /\ stage[c] = "rename"
    /\ files' = [files EXCEPT ![dir[c]][version[c]] = temp[c]]
    /\ End(c)
    /\ UNCHANGED <<store, working>>

Next ==
    \/ Edit
    \/ \E c \in Clients :
        \/ BeginPublish(c) \/ ReadDescribe(c) \/ ReadArtifact(c) \/ Post(c)
        \/ \E v \in Versions, d \in Dirs : BeginInstall(c, v, d)
        \/ GetMetadata(c) \/ Download(c)
        \/ CreateTemp(c) \/ WriteTemp(c) \/ Persist(c)
        \/ Stop(c)
Spec == Init /\ [][Next]_vars

-----------------------------------------------------------------------------
(* Properties.                                                             *)

\* What a client has verified and not put in place yet is an artifact of the
\* store, whole.
Verified == {"create", "write", "rename"}
TypeOK ==
    /\ store \in [Versions -> Published \cup {None}]
    /\ files \in [Dirs -> [Versions -> Bytes \cup {None, Partial}]]
    /\ describe \in Versions /\ artifact \in Artifacts
    /\ stage \in [Clients -> Stages]
    /\ round \in [Clients -> Nat]
    /\ version \in [Clients -> Versions] /\ dir \in [Clients -> Dirs]
    /\ expected \in [Clients -> Digests \cup {None}]
    /\ bytes \in [Clients -> Bytes \cup {None}]
    /\ temp \in [Clients -> Bytes \cup {None, Partial}]
    /\ \A v \in Versions :
           store[v] # None => store[v].sha256 = Sha[store[v].artifact]
    /\ \A c \in Clients :
        /\ stage[c] \in Verified \cup {"post"} =>
               bytes[c] \in Artifacts /\ expected[c] = Sha[bytes[c]]
        /\ stage[c] = "download" => \E a \in Artifacts : expected[c] = Sha[a]
        /\ stage[c] = "rename" => temp[c] = bytes[c]

\* Installing implements WorkerRegistry: whatever is published between the two
\* requests, damaged on the way or interrupted, a file changes only to an
\* artifact that the store held for its version when the client took it, and
\* never to a part of one (run_install: "hard fail with NO file written on
\* mismatch"; write_atomic).
Held(c) ==
    IF stage[c] \in Verified
    THEN [version |-> version[c], dir |-> dir[c], artifact |-> bytes[c]]
    ELSE None
Registry == INSTANCE WorkerRegistry WITH
    store <- [v \in Versions |->
                 IF store[v] = None THEN None ELSE store[v].artifact],
    held <- [c \in Clients |-> Held(c)]
ImplementsRegistry == Registry!Spec
=============================================================================
