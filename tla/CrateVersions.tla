---------------------------- MODULE CrateVersions ----------------------------
(***************************************************************************)
(* How `greentic-dev` chooses a version among those crates.io has of a     *)
(* crate (release_cmd.rs).  A version is a positive integer ordered as     *)
(* semver orders the code's versions; "no research build" is the integer   *)
(* that is not one.  Every resolver yields the set of possible answers:    *)
(* the empty set is the code's error.                                      *)
(***************************************************************************)
EXTENDS Integers

CONSTANTS
    Versions,       \* the crate versions that may ever be published
    PlainVersions,  \* those without a pre-release part
    ResearchOnes,   \* those whose pre-release part starts with "research"
    VersionLane     \* the (major, minor) line of every version

Absent == -1      \* ResearchVersion::Absent

ASSUME VersionAssumption ==
    /\ Versions \subseteq Nat \ {0}
    /\ PlainVersions \subseteq Versions
    /\ ResearchOnes \subseteq Versions
    /\ VersionLane \in [Versions -> Nat]

Highest(vs) == {v \in vs : \A w \in vs : w <= v}

\* Without a stable version the registry answers with whichever version it
\* calls newest.
ResolveLatest(vs) == IF vs \cap PlainVersions # {}
                     THEN Highest(vs \cap PlainVersions)
                     ELSE vs

ResolveInLane(vs, lane) == Highest({v \in vs : VersionLane[v] = lane})

ResolveResearch(vs) == IF vs = {} THEN {Absent}
                       ELSE IF vs \cap ResearchOnes # {}
                            THEN Highest(vs \cap ResearchOnes)
                            ELSE Highest(vs)
=============================================================================
