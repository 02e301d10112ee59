------------------------------ MODULE MCPipeline ------------------------------
(* Values for model checking Pipeline.  Its components share no state, so  *)
(* a behaviour is one of one component, the others at rest.                *)
EXTENDS Pipeline, FiniteSets, TLC

CONSTANTS old, new  \* artifacts
VARIABLE component  \* the one that moves

security_vars ==
    <<github, tree, changes, foxguard, config, foxguard_report, security_stage,
      options, todo, part, alerts, skipped, cut, document, named, exit, own,
      overlapped, steady>>
coverage_vars ==
    <<machine, code, policy_file, report_file, coverage_edits, coverage_stage, cmd,
      coverage_todo, policy, evaluated, coverage_exit, measured, since,
      failures>>
release_vars == <<listing, complete, lookup, page, ready, pick, usable>>

-----------------------------------------------------------------------------
(* ComponentPack: two versions, and the path of a target that is not built *)
(* any more; nothing built yet, or what that target left behind.           *)

MCArtifacts == {old, new}
Provider(dest, at) == [dest |-> dest, target |-> at]
MCProviders == {Provider("0.1.0", "wasip2"), Provider("0.2.0", "wasip2"),
                Provider("0.1.0", "wasip1")}
MCDests == {"0.1.0", "0.2.0"}
\* The newer artifact has the world that 0.2.0 declares.
MCSatisfies == {<<old, p>> : p \in {q \in MCProviders : q.dest = "0.1.0"}}
               \cup {<<new, p>> : p \in MCProviders}
NothingBuilt == [t \in Targets |-> NoFile]
MCInitialTrees == {NothingBuilt, [NothingBuilt EXCEPT !["wasip1"] = old]}
ASSUME ProviderAssumption
PacksRest == /\ Init /\ source = old /\ provider = Provider("0.1.0", "wasip2")
             /\ artifact = NothingBuilt

-----------------------------------------------------------------------------
(* SecurityReport.                                                         *)

CodeScanning(number, severity, level) ==
    [source |-> "code_scanning", number |-> number, severity |-> severity,
     security_severity_level |-> level]
\* An error behind a newer note, and a dependency without an advisory.
anError == CodeScanning(1, "error", "high")
aNote == CodeScanning(2, "note", None)
aDependency == [source |-> "dependabot", number |-> 3, advisory |-> None,
                vulnerability |-> "high"]
MCAlerts == {anError, aNote, aDependency}

Finding(mode, rule, severity, at, wording) ==
    [mode |-> mode, rule_id |-> rule, severity |-> severity, path |-> at,
     wording |-> wording]
\* Findings that block (a high one nobody has judged, a critical one in the
\* owner's own path) and that do not (a lookup, a test).
unjudged == Finding("scan", "rs/unsafe-block", "high", "src/", "plain")
critical == Finding("scan", "rs/no-ssrf", "critical", "vendor/", "plain")
MCFindings == {unjudged, critical,
               Finding("secrets", "rs/no-ssrf", "high", "src/", "lookup"),
               Finding("scan", "rs/unsafe-block", "critical", "tests/", "plain")}

MCDefaultPaths == {"tests/"}
MCDefaultRules == {"rs/unsafe-block"}
\* The owner ignores a path, and has a rule of his own for a default one.
MCOwnIgnores == {[p \in {"vendor/", "tests/"} |-> {"rs/no-ssrf"}]}

Unfiltered == [states |-> <<>>, severities |-> {}, security_severities |-> {},
              no_errors |-> FALSE, json |-> FALSE]
Options(states) == [Unfiltered EXCEPT !.states = states]
\* An empty --state asks nothing of GitHub, and leaves the files.
FileCommandLines ==
    {Options(<<>>),
     [Options(<<>>) EXCEPT !.json = TRUE, !.no_errors = TRUE]}
MCSecurityCommandLines ==
    {Options(<<"open">>), Options(<<"resolved", "open", "dismissed">>),
     [Options(<<"open">>) EXCEPT !.severities = {"error"}],
     [Options(<<"dismissed", "open">>)
         EXCEPT !.security_severities = {"critical", "high"}]}
    \cup FileCommandLines

\* Everything open, or all but the error; or nothing.
NoAlerts == [a \in MCAlerts |-> None]
MCAlertStates ==
    {[a \in MCAlerts |-> IF a = anError THEN s ELSE "open"] : s \in {"open", None}}
    \cup {NoAlerts}

\* Bounds: one command that asks GitHub while the world changes, foxguard
\* installed, at most two findings and the owner's own ignores; or two that
\* ask nothing of GitHub, with every finding, every .foxguard.yml and every
\* installation of foxguard.
Begun == {p \in Shells : security_stage[p] # "idle"}
ASSUME Security!PolicyAssumption
Alone == /\ Cardinality(Begun) <= 1
         /\ \A p \in Begun : options[p] \notin FileCommandLines
         /\ tree \subseteq {unjudged, critical} /\ foxguard = "path"
         /\ github # NoAlerts /\ own # Security!NoIgnores
OnlyFiles == /\ github = NoAlerts /\ changes = 0 /\ tree = MCFindings
             /\ \A p \in Begun : options[p] \in FileCommandLines
SecurityInit == /\ tree \in {{}, {unjudged, critical}, MCFindings}
                /\ Security!Init /\ (Alone \/ OnlyFiles)
SecurityNext == Security!Next /\ (Alone' \/ OnlyFiles')
SecurityRests == /\ Security!Init /\ github = NoAlerts /\ tree = {}
                 /\ foxguard = "path" /\ config = Security!NoConfigFile

-----------------------------------------------------------------------------
(* CoverageRun: coverage of the core and of a generated file, in lines of  *)
(* four; the generated file excluded, or a stricter core.                  *)

Measured(core) ==
    [f \in {"core", "generated"} |->
        [count |-> 4, covered |-> IF f = "core" THEN core ELSE 0]]
MCMeasurements == {Measured(3), Measured(1)}
WithoutGenerated ==
    [global |-> 60, default |-> None, excluded |-> {"generated"},
     per_file |-> [f \in {"core", "generated"} |-> None]]
MCPolicies == {WithoutGenerated,
             [WithoutGenerated EXCEPT !.default = 0, !.per_file["core"] = 80]}
MCCoverageCommandLines ==
    {[skip_run |-> FALSE, offline |-> FALSE],
     [skip_run |-> TRUE, offline |-> FALSE],
     [skip_run |-> FALSE, offline |-> TRUE]}
AllPrograms == {"cargo-binstall", "rustup", "cargo-llvm-cov", "cargo-nextest",
                "llvm-tools-preview"}
\* A machine that has everything, one with nothing but rustup, one whose
\* cargo-binstall has on record what is not there, one without rustup.
MCMachines ==
    {[bin |-> AllPrograms, listed |-> {}],
     [bin |-> {"rustup"}, listed |-> {}],
     [bin |-> {"rustup", "cargo-binstall"}, listed |-> {"cargo-nextest"}],
     [bin |-> AllPrograms \ {"rustup"}, listed |-> {}]}

ASSUME Coverage!CoverageAssumption
CoverageRests == /\ Coverage!Init
                 /\ machine = [bin |-> AllPrograms, listed |-> {}]
                 /\ code = Measured(3) /\ policy_file = None
                 /\ report_file = None

-----------------------------------------------------------------------------
(* DevReleaseSource: research builds between dev builds, one dev build     *)
(* from an unclean commit, one without its archives' names; two pages of   *)
(* two releases.                                                           *)

MCReleases == 1..5
MCDevLane == {1, 3, 5}
MCClean == 1..4
MCNamed == {1, 2, 4, 5}
ASSUME Releases!ReleaseAssumption
ReleasesRest == Releases!Init

-----------------------------------------------------------------------------
MCInit ==
    \/ /\ component = "packs" /\ Init
       /\ SecurityRests /\ CoverageRests /\ ReleasesRest
    \/ /\ component = "security" /\ SecurityInit
       /\ PacksRest /\ CoverageRests /\ ReleasesRest
    \/ /\ component = "coverage" /\ Coverage!Init
       /\ PacksRest /\ SecurityRests /\ ReleasesRest
    \/ /\ component = "releases" /\ Releases!Init
       /\ PacksRest /\ SecurityRests /\ CoverageRests
MCNext ==
    /\ UNCHANGED component
    /\ \/ /\ component = "packs" /\ Next
          /\ UNCHANGED <<security_vars, coverage_vars, release_vars>>
       \/ /\ component = "security" /\ SecurityNext
          /\ UNCHANGED <<vars, coverage_vars, release_vars>>
       \/ /\ component = "coverage" /\ Coverage!Next
          /\ UNCHANGED <<vars, security_vars, release_vars>>
       \/ /\ component = "releases" /\ Releases!Next
          /\ UNCHANGED <<vars, security_vars, coverage_vars>>
MCSpec ==
    MCInit
    /\ [][MCNext]_<<component, vars, security_vars, coverage_vars,
                         release_vars>>

Symmetry == Permutations(Shells)
=============================================================================
