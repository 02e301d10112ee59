---------------------------- MODULE ToolchainLanes ----------------------------
(***************************************************************************)
(* What `greentic-dev release` promises about the registry, whatever runs  *)
(* at the same time and wherever it stops: a manifest is stored under its  *)
(* own version or under a tag whose release is already there, nothing is   *)
(* ever deleted, and the update workflow is told only about numbered       *)
(* releases it can pull.                                                   *)
(***************************************************************************)
CONSTANTS Tags, PlainReleases, Manifests, NoManifest
VARIABLES registry, dispatched

Init == registry = [t \in Tags |-> NoManifest] /\ dispatched = {}

\* One tag, and no other, points at another manifest.
Push(t) ==
    /\ registry' \in [Tags -> Manifests \cup {NoManifest}]
    /\ registry'[t] # NoManifest
    /\ \A u \in Tags \ {t} : registry'[u] = registry[u]
    /\ UNCHANGED dispatched

\* A release is published, or published again.
Release(t) == Push(t) /\ registry'[t].version = t

\* A tag follows a release that is there.
Move(t) == Push(t) /\ registry[registry'[t].version] # NoManifest

Tell(r) ==
    /\ registry[r] # NoManifest
    /\ dispatched' = dispatched \cup {r}
    /\ UNCHANGED registry

Next == \/ \E t \in Tags : Release(t) \/ Move(t)
        \/ \E r \in PlainReleases : Tell(r)

Spec == Init /\ [][Next]_<<registry, dispatched>>
=============================================================================
