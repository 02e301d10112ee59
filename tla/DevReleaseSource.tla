--------------------------- MODULE DevReleaseSource ---------------------------
(***************************************************************************)
(* `release snapshot --source github-releases` picks, for one package, the *)
(* GitHub release to pin (release_github_source.rs).  The repository's     *)
(* releases are listed newest first, one page per request, while CI keeps  *)
(* creating releases and attaching files.  A release is a number ordered   *)
(* as its version is.                                                      *)
(***************************************************************************)
EXTENDS Integers, Sequences, SequencesExt

CONSTANTS
    Releases,   \* every release the repository may ever get
    DevLane,    \* those tagged plain MAJOR.MINOR.RUN in the lane, no draft
    Clean,      \* those at a verified GitHub commit without worm marker
    Named,      \* those naming one -dev archive per target, with a digest
    PageSize,   \* releases per page
    MaxPages    \* MAX_RELEASE_PAGES

VARIABLES
    listing,    \* the repository's releases, newest first
    complete,   \* those whose archives all have their checksum
    stage,      \* where the resolution is
    page,       \* the next page to read
    ready,      \* candidates whose files were complete when their page was read
    pick,       \* the release chosen
    usable      \* history: the complete dev builds when the resolution began

repository == <<listing, complete>>
vars == <<repository, stage, page, ready, pick, usable>>

\* What the constants satisfy.
ReleaseAssumption ==
    /\ Releases \subseteq Nat \ {0}
    /\ DevLane \subseteq Releases /\ Clean \subseteq Releases
    /\ Named \subseteq Releases
    /\ PageSize \in Nat \ {0} /\ MaxPages \in Nat \ {0}

NoPick == 0
Stages == {"idle", "list", "choose", "commit", "done", "none", "refused", "failed"}
Ended == {"idle", "done", "none", "refused", "failed"}

Listed == Range(listing)
ReleasesPage(n) == Range(SubSeq(listing, (n - 1) * PageSize + 1,
                                IF n * PageSize > Len(listing)
                                THEN Len(listing) ELSE n * PageSize))
Newest(rs) == CHOOSE r \in rs : \A s \in rs : s <= r

Init ==
    /\ listing = <<>> /\ complete = {}
    /\ stage = "idle" /\ page = 1
    /\ ready = {} /\ pick = NoPick /\ usable = {}

Start ==
    /\ stage \in Ended
    /\ stage' = "list" /\ page' = 1
    /\ ready' = {} /\ pick' = NoPick
    /\ usable' = DevLane \cap complete
    /\ UNCHANGED repository

\* Reading stops at the end of the list, at the first page with a candidate
\* and after MaxPages.
ReadPage ==
    /\ stage = "list"
    /\ LET found == ReleasesPage(page) \cap DevLane
       IN /\ ready' = found \cap complete
          /\ IF ReleasesPage(page) = {} \/ found # {} \/ page = MaxPages
             THEN stage' = "choose" /\ UNCHANGED page
             ELSE page' = page + 1 /\ UNCHANGED stage
    /\ UNCHANGED <<repository, pick, usable>>

\* Incomplete candidates are skipped; the newest complete one either names
\* its archives or ends the command.
Choose ==
    /\ stage = "choose"
    /\ IF ready = {} THEN stage' = "none" /\ UNCHANGED pick
       ELSE /\ pick' = Newest(ready)
            /\ stage' = IF Newest(ready) \in Named THEN "commit" ELSE "refused"
    /\ UNCHANGED <<repository, page, ready, usable>>

\* mutant: an unclean build is skipped
SkipUncleanCommit ==
    /\ stage = "commit"
    /\ stage' = IF pick \in Clean THEN "done" ELSE "choose"
    /\ ready' = IF pick \in Clean THEN ready ELSE ready \ {pick}
    /\ UNCHANGED <<repository, page, pick, usable>>

\* An unclean commit is refused, never skipped.
RefuseUncleanCommit ==
    /\ stage = "commit"
    /\ stage' = IF pick \in Clean THEN "done" ELSE "refused"
    /\ UNCHANGED <<repository, page, ready, pick, usable>>

\* A request fails, or the process is killed.
Fail ==
    /\ stage \notin Ended
    /\ stage' = "failed"
    /\ UNCHANGED <<repository, page, ready, pick, usable>>

(* CI: the run number of a dev build grows; other tags come in any order.  *)
CreateRelease ==
    /\ \E r \in Releases \ Listed :
         /\ r \in DevLane => \A s \in Listed \cap DevLane : s < r
         /\ listing' = <<r>> \o listing
    /\ UNCHANGED <<complete, stage, page, ready, pick, usable>>

FinishUpload ==
    /\ \E r \in Listed \ complete : complete' = complete \cup {r}
    /\ UNCHANGED <<listing, stage, page, ready, pick, usable>>

Next ==
    \/ Start \/ ReadPage \/ Choose \/ RefuseUncleanCommit \/ Fail
    \/ CreateRelease \/ FinishUpload

Spec == Init /\ [][Next]_vars

-----------------------------------------------------------------------------
\* Every variable has its type; no page past the last is asked for.
TypeOK ==
    /\ listing \in Seq(Releases)
    /\ complete \subseteq Listed
    /\ stage \in Stages
    /\ page \in 1..MaxPages
    /\ ready \subseteq Releases /\ usable \subseteq Releases
    /\ pick \in Releases \cup {NoPick}

\* The release pinned is complete, clean and of the lane, and at least as new
\* as every complete dev build there was when the snapshot began, the unclean
\* ones included: pages that shift while they are read lose nothing, and an
\* older build is never fallen back to ("REFUSED, never skipped").
NewestAtStart ==
    stage = "done" =>
        /\ pick \in DevLane \cap complete \cap Clean \cap Named
        /\ \A r \in usable : r <= pick
=============================================================================
