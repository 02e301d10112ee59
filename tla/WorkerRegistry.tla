---------------------------- MODULE WorkerRegistry ----------------------------
(***************************************************************************)
(* What installing an agentic worker promises: a client takes, in one      *)
(* step, an artifact the store holds for a version, and later puts exactly *)
(* that artifact in place, or gives up.  Nothing else ever changes a file. *)
(***************************************************************************)
CONSTANTS
    Clients, Versions, Artifacts, Dirs,
    None   \* no artifact

VARIABLES
    store, \* version -> the artifact the store holds for it
    files, \* directory and version -> the artifact installed there
    held   \* client -> what it has taken and not put in place yet

vars == <<store, files, held>>

Holdings == [version : Versions, dir : Dirs, artifact : Artifacts]

Init ==
    /\ store = [v \in Versions |-> None]
    /\ files = [d \in Dirs |-> [v \in Versions |-> None]]
    /\ held = [c \in Clients |-> None]

Publish(v, a) ==
    /\ store' = [store EXCEPT ![v] = a]
    /\ UNCHANGED <<files, held>>
Take(c, v, d) ==
    /\ held[c] = None /\ store[v] # None
    /\ held' = [held EXCEPT ![c] =
                    [version |-> v, dir |-> d, artifact |-> store[v]]]
    /\ UNCHANGED <<store, files>>
Put(c) ==
    /\ held[c] # None
    /\ files' = [files EXCEPT ![held[c].dir][held[c].version] =
                     held[c].artifact]
    /\ held' = [held EXCEPT ![c] = None]
    /\ UNCHANGED store
GiveUp(c) ==
    /\ held[c] # None
    /\ held' = [held EXCEPT ![c] = None]
    /\ UNCHANGED <<store, files>>

Next ==
    \/ \E v \in Versions, a \in Artifacts : Publish(v, a)
    \/ \E c \in Clients :
        \/ \E v \in Versions, d \in Dirs : Take(c, v, d)
        \/ Put(c) \/ GiveUp(c)
Spec == Init /\ [][Next]_vars
=============================================================================
