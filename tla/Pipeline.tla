------------------------------ MODULE Pipeline ------------------------------
(***************************************************************************)
(* The commands that CI runs on a repository: ComponentPack,               *)
(* SecurityReport, CoverageRun and DevReleaseSource, side by side.  The    *)
(* last three keep their names behind Security!, Coverage! and Releases!.  *)
(***************************************************************************)
EXTENDS ComponentPack

CONSTANTS
    SecurityCommandLines, Alerts, Findings, DefaultPaths, DefaultRules,
    OwnIgnores, AlertStates, Places, AlertsPerPage,
    MaxChanges,                                       \* SecurityReport
    CoverageCommandLines, MeasuredFiles, Measurements, Policies, Machines,
    Invalid, Partial,                                 \* CoverageRun
    DevReleases, DevLane, Clean, Named, ReleasesPerPage,
    MaxPages                                          \* DevReleaseSource
VARIABLES
    github, tree, changes, foxguard, config, foxguard_report, security_stage,
    options, todo, part, alerts, skipped, cut, document, named, exit, own,
    overlapped, steady,                               \* SecurityReport
    machine, code, policy_file, report_file, coverage_edits,
    coverage_stage, cmd, coverage_todo, policy, evaluated, coverage_exit,
    measured, since, failures,                        \* CoverageRun
    listing, complete, lookup, page, ready, pick, usable \* DevReleaseSource

Security == INSTANCE SecurityReport WITH
    report <- foxguard_report, stage <- security_stage,
    disturbed <- overlapped, Procs <- Shells,
    CommandLines <- SecurityCommandLines, PageSize <- AlertsPerPage

Coverage == INSTANCE CoverageRun WITH
    Procs <- Shells, edits <- coverage_edits, stage <- coverage_stage,
    todo <- coverage_todo, exit <- coverage_exit,
    CommandLines <- CoverageCommandLines, Files <- MeasuredFiles

Releases == INSTANCE DevReleaseSource WITH
    stage <- lookup, Releases <- DevReleases, PageSize <- ReleasesPerPage

-----------------------------------------------------------------------------
\* The type invariants of three modules; ComponentPack's is its own TypeOK.
TypesOK == Security!TypeOK /\ Coverage!TypeOK /\ Releases!TypeOK
\* SecurityReport's PassMeansClean: a pass saw whatever could block it.
PassMeansClean == Security!PassMeansClean
\* SecurityReport's NothingHidden: every alert of the verdict is listed.
NothingHidden == Security!NothingHidden
\* SecurityReport's OwnIgnoresKept: the owner's ignores stay.
OwnIgnoresKept == Security!OwnIgnoresKept
\* SecurityReport's PassMeansNoFindings: what the notice of a pass says.
PassMeansNoFindings == Security!PassMeansNoFindings
\* CoverageRun's PassMeansMeasured: a run passes on a report written since.
PassMeansMeasured == Coverage!PassMeansMeasured
\* CoverageRun's SetupFailureHasCause: what is only on record is no cause.
SetupFailureHasCause == Coverage!SetupFailureHasCause
\* DevReleaseSource's NewestAtStart: no older build is ever fallen back to.
NewestAtStart == Releases!NewestAtStart
=============================================================================
