---------------------------- MODULE SecurityReport ----------------------------
(***************************************************************************)
(* `greentic-dev security` (src/security_cmd.rs): ask GitHub for the       *)
(* alerts of each source and state, one request after another, merge the   *)
(* default ignores into .foxguard.yml, run foxguard twice, write its       *)
(* findings to a report of their own and exit with the policy's verdict.   *)
(* Meanwhile alerts change state at GitHub, the working tree is edited and *)
(* another command runs in the same checkout.                              *)
(*                                                                         *)
(* GitHub, foxguard and cargo-binstall are external: a request answers the *)
(* newest PageSize alerts, says that the feature is not available, or      *)
(* fails; foxguard answers the findings of the tree that the configuration *)
(* does not ignore.                                                        *)
(***************************************************************************)
EXTENDS SecurityPolicy

CONSTANTS
    Procs,          \* commands started in the checkout
    CommandLines,   \* the options they may be given
    Alerts,         \* the alerts GitHub may hold
    Findings,       \* what foxguard may find in the tree
    DefaultPaths,   \* paths of DEFAULT_FOXGUARD_EXCLUDE_DIRS
    DefaultRules,   \* DEFAULT_FOXGUARD_IGNORE_RULES
    OwnIgnores,     \* the ignores an owner may have written: path -> rules
    AlertStates,    \* initially: functions from Alerts to states
    Places,         \* initially: where foxguard is installed
    PageSize,       \* alerts in an answer of GitHub
    MaxChanges      \* bound: alerts and findings that come, change or go

VARIABLES
    github,         \* alert -> its state, or None
    tree,           \* the findings in the working tree
    changes,
    foxguard,       \* where foxguard is installed
    config,         \* .foxguard.yml
    report,         \* target/greentic-security/foxguard-report.md
    stage, options, \* where each command is, and its options
    todo,           \* states of the current source still to ask for
    part,           \* the alerts of the current source
    alerts,         \* the alerts of the sources read
    skipped,        \* what a warning names
    cut,            \* why an answer was not complete, without a warning
    document,       \* the configuration to write
    named,          \* the output names the separate report
    exit,
    own,            \* history: the ignores the owner wrote
    disturbed,      \* history: whether updates of .foxguard.yml
                    \* "overlapped" and whether one was "stopped"
    steady          \* history: what has not changed since a command began

environment == <<github, tree, changes>>
files == <<foxguard, config, report>>
command == <<stage, options, todo, part, alerts, skipped, cut, document,
             named, exit>>
history == <<own, disturbed, steady>>
vars == <<environment, files, command, history>>

ExitCodes == {"success", "policy_violation", "operational_error", "stopped"}
\* What the constants satisfy.
PolicyAssumption ==
    /\ Alerts \subseteq
           CodeScanningAlert \cup DependabotAlert \cup SecretScanningAlert
    /\ Findings \subseteq FoxguardFinding
    /\ AlertStates \subseteq [Alerts -> States \cup {None}]
    /\ CommandLines \subseteq
           [states : Seq(States), severities : SUBSET Severities,
            security_severities : SUBSET SecuritySeverities,
            no_errors : BOOLEAN, json : BOOLEAN]
    /\ Places \subseteq {"missing", "cargo_bin", "path"}
    /\ None \notin ExitCodes
    /\ PageSize \in Nat \ {0} /\ MaxChanges \in Nat

NoOptions == [states |-> <<>>, severities |-> {}, security_severities |-> {},
              no_errors |-> FALSE, json |-> FALSE]
Updating == {"truncate", "fill"}
Stages == {"idle", "config", "scan", "install_scan", "retry_scan", "secrets",
           "install_secrets", "retry_secrets", "report", "fill_report",
           "verdict", "done"} \cup Updating \cup Range(GithubSources)
Ended == {"idle", "done"}

\* .foxguard.yml and the report: the text is missing, cut short to nothing,
\* not what its writer meant, or whole.
Texts == {"none", "empty", "mixed", "whole"}
File(text, ignores) == [text |-> text, ignores |-> ignores]
NoIgnores == [p \in {} |-> {}]
NoConfigFile == File("none", NoIgnores)
NoReport == [text |-> "none", by |-> None, groups |-> FoxguardReport({})]

Init ==
    /\ github \in AlertStates
    /\ tree \in SUBSET Findings
    /\ changes = 0
    /\ foxguard \in Places
    /\ \/ own = NoIgnores /\ config = NoConfigFile
       \/ own = NoIgnores /\ config = File("mixed", NoIgnores)
       \/ own \in OwnIgnores /\ config = File("whole", own)
    /\ report = NoReport
    /\ stage = [p \in Procs |-> "idle"]
    /\ options = [p \in Procs |-> NoOptions]
    /\ todo = [p \in Procs |-> <<>>]
    /\ part = [p \in Procs |-> {}]
    /\ alerts = [p \in Procs |-> {}]
    /\ skipped = [p \in Procs |-> {}]
    /\ cut = [p \in Procs |-> {}]
    /\ document = [p \in Procs |-> NoIgnores]
    /\ named = [p \in Procs |-> FALSE]
    /\ exit = [p \in Procs |-> None]
    /\ disturbed = {}
    /\ steady = [p \in Procs |-> {}]

Goto(p, s) == stage' = [stage EXCEPT ![p] = s]
Exit(p, code) ==
    /\ exit' = [exit EXCEPT ![p] = code]
    /\ Goto(p, "done")
Skip(p, what) == skipped' = [skipped EXCEPT ![p] = @ \cup {what}]

-----------------------------------------------------------------------------
(* The world outside the command.                                          *)

Present(g, t) == {NormalizeGithub(a, g[a]) : a \in {b \in Alerts : g[b] # None}}
                     \cup {NormalizeFoxguard(f) : f \in t}
Change ==
    /\ changes < MaxChanges /\ changes' = changes + 1
    /\ steady' = [p \in Procs |-> steady[p] \cap Present(github', tree')]
    /\ UNCHANGED <<files, command, own, disturbed>>
\* Somebody triages an alert, or a scan of GitHub opens a new one.
Triage ==
    \E a \in Alerts, s \in States :
        /\ s \in AllowedStates(a.source) \ {github[a]}
        /\ github[a] = None => s = "open"
        /\ github' = [github EXCEPT ![a] = s]
        /\ tree' = tree
        /\ Change
Edit ==
    \E f \in Findings :
        /\ tree' = IF f \in tree THEN tree \ {f} ELSE tree \cup {f}
        /\ github' = github
        /\ Change

-----------------------------------------------------------------------------
(* The sources of GitHub.                                                  *)

\* The first source from the i-th on that is asked at all.
SourceFrom(i, opts) ==
    LET asked == {j \in i..Len(GithubSources) :
                      StatesFor(opts, GithubSources[j]) # <<>>}
    IN  IF asked = {} THEN "config" ELSE GithubSources[Min(asked)]
Enter(p, opts, i) ==
    /\ Goto(p, SourceFrom(i, opts))
    /\ todo' = [todo EXCEPT ![p] = IF SourceFrom(i, opts) = "config" THEN <<>>
                                   ELSE StatesFor(opts, SourceFrom(i, opts))]
SourceIndex(p) == CHOOSE i \in 1..Len(GithubSources) :
                      GithubSources[i] = stage[p]

\* git names the repository, the branch and the commit, or the command ends.
Begin(p, opts) ==
    /\ stage[p] = "idle"
    /\ options' = [options EXCEPT ![p] = opts]
    /\ Enter(p, opts, 1)
    /\ steady' = [steady EXCEPT ![p] = Present(github, tree)]
    /\ UNCHANGED <<environment, files, part, alerts, skipped, cut, document,
                   named, exit, own, disturbed>>
GitFails(p) ==
    /\ stage[p] = "idle"
    /\ Exit(p, "operational_error")
    /\ UNCHANGED <<environment, files, options, todo, part, alerts, skipped,
                   cut, document, named, history>>

\* External: the newest alerts in a state.
Page(source, s) ==
    LET all == {a \in Alerts : a.source = source /\ github[a] = s} IN
    {a \in all : Cardinality({b \in all : b.number > a.number}) < PageSize}
Cut(source, s) ==
    IF Page(source, s) = {a \in Alerts : a.source = source /\ github[a] = s}
    THEN {} ELSE {"page"}

\* The alerts of a source count once its last state has been answered.
Keep(p, found) ==
    /\ alerts' = [alerts EXCEPT ![p] = @ \cup found]
    /\ part' = [part EXCEPT ![p] = {}]
    /\ Enter(p, options[p], SourceIndex(p) + 1)
Answered(p) ==
    LET source == stage[p]
        s == Head(todo[p])
        found == part[p] \cup {NormalizeGithub(a, s) : a \in Page(source, s)}
    IN  /\ cut' = [cut EXCEPT ![p] = @ \cup Cut(source, s)]
        /\ IF Tail(todo[p]) = <<>>
           THEN Keep(p, found)
           ELSE /\ part' = [part EXCEPT ![p] = found]
                /\ todo' = [todo EXCEPT ![p] = Tail(@)]
                /\ UNCHANGED <<alerts, stage>>
        /\ UNCHANGED skipped
\* A feature that is not available ends its source without a warning.
Unavailable(p) ==
    /\ cut' = [cut EXCEPT ![p] = @ \cup {"unavailable"}]
    /\ Keep(p, part[p])
    /\ UNCHANGED skipped
\* mutant: a failure is taken for a feature that is not available.
RefusedQuietly(p) == Keep(p, part[p]) /\ UNCHANGED <<skipped, cut>>
\* Any other failure drops what the source has answered, with a warning.
Refused(p) ==
    /\ Skip(p, stage[p])
    /\ Keep(p, {})
    /\ UNCHANGED cut
Query(p) ==
    /\ stage[p] \in Range(GithubSources)
    /\ Answered(p) \/ Unavailable(p) \/ Refused(p)
    /\ UNCHANGED <<environment, files, options, document, named, exit,
                   history>>

-----------------------------------------------------------------------------
(* .foxguard.yml is read, merged and written again.                        *)

DefaultIgnores == [path \in DefaultPaths |-> DefaultRules]
IgnoresOf(ignores, path) ==
    IF path \in DOMAIN ignores THEN ignores[path] ELSE {}
\* mutant: the rules of a default path are replaced.
ReplaceDefaultIgnores(ignores) ==
    [path \in DOMAIN ignores \cup DefaultPaths |->
        IF path \in DefaultPaths THEN DefaultRules ELSE ignores[path]]
MergeDefaultIgnores(ignores) ==
    [path \in DOMAIN ignores \cup DefaultPaths |->
        IgnoresOf(ignores, path) \cup IgnoresOf(DefaultIgnores, path)]
ReadIgnores == IF config.text = "whole" THEN config.ignores ELSE NoIgnores

\* An empty file is an empty document; one that is not YAML, or not of the
\* expected shape, is left alone with a warning.
ReadConfig(p) ==
    /\ stage[p] = "config"
    /\ disturbed' = IF \E q \in Procs : stage[q] \in Updating
                    THEN disturbed \cup {"overlapped"} ELSE disturbed
    /\ IF config.text = "mixed"
       THEN /\ Skip(p, "config") /\ Goto(p, "scan")
            /\ UNCHANGED document
       ELSE LET merged == MergeDefaultIgnores(ReadIgnores) IN
            /\ document' = [document EXCEPT ![p] = merged]
            /\ Goto(p, IF config.text # "none" /\ merged = ReadIgnores
                       THEN "scan" ELSE "truncate")
            /\ UNCHANGED skipped
    /\ UNCHANGED <<environment, files, options, todo, part, alerts, cut, named,
                   exit, own, steady>>
\* fs::write opens the file, which empties it, and then writes.
TruncateConfig(p) ==
    /\ stage[p] = "truncate"
    /\ \/ /\ config' = File("empty", NoIgnores)
          /\ Goto(p, "fill") /\ UNCHANGED skipped
       \/ Skip(p, "config") /\ Goto(p, "scan") /\ UNCHANGED config
    /\ UNCHANGED <<environment, foxguard, report, options, todo, part, alerts,
                   cut, document, named, exit, history>>
\* Over a text written since, the longer one's end may remain.  A write that
\* fails half-way is a warning like one that fails at once.
FillConfig(p) ==
    /\ stage[p] = "fill"
    /\ \/ /\ \/ config' = File("whole", document[p])
             \/ /\ config.text \in {"whole", "mixed"}
                /\ config.ignores # document[p]
                /\ config' = File("mixed", NoIgnores)
          /\ UNCHANGED <<skipped, disturbed>>
       \/ /\ config' \in {config, File("mixed", NoIgnores)}
          /\ Skip(p, "config")
          /\ disturbed' = disturbed \cup {"stopped"}
    /\ Goto(p, "scan")
    /\ UNCHANGED <<environment, foxguard, report, options, todo, part, alerts,
                   cut, document, named, exit, own, steady>>

-----------------------------------------------------------------------------
(* foxguard: the scan, then the search for secrets.                        *)

\* External: what foxguard finds.  The scan leaves out the directories given
\* with --exclude and what the configuration ignores.
FoxguardAnswer(mode) ==
    {f \in tree : /\ f.mode = mode
                  /\ mode = "scan" => /\ f.path \notin DefaultPaths
                                      /\ f.rule_id \notin
                                             IgnoresOf(ReadIgnores, f.path)}

FoxguardMode(p) == IF stage[p] \in {"scan", "install_scan", "retry_scan"}
                   THEN "scan" ELSE "secrets"
FoxguardAnswers(p) ==
    LET found == part[p] \cup
                 {NormalizeFoxguard(f) : f \in FoxguardAnswer(FoxguardMode(p))}
    IN  /\ IF FoxguardMode(p) = "scan"
           THEN /\ part' = [part EXCEPT ![p] = found]
                /\ Goto(p, "secrets")
                /\ UNCHANGED alerts
           ELSE /\ alerts' = [alerts EXCEPT ![p] = @ \cup found]
                /\ part' = [part EXCEPT ![p] = {}]
                /\ Goto(p, "report")
        /\ UNCHANGED skipped
\* A failure of the second call drops the findings of the first.
FoxguardFails(p) ==
    /\ Skip(p, "foxguard")
    /\ part' = [part EXCEPT ![p] = {}]
    /\ Goto(p, "report")
    /\ UNCHANGED alerts
\* A foxguard that is not on the PATH is installed, by each of the two calls.
RunFoxguard(p) ==
    /\ stage[p] \in {"scan", "secrets"}
    /\ IF foxguard = "path"
       THEN FoxguardAnswers(p) \/ FoxguardFails(p)
       ELSE /\ Goto(p, IF stage[p] = "scan" THEN "install_scan"
                       ELSE "install_secrets")
            /\ UNCHANGED <<part, alerts, skipped>>
    /\ UNCHANGED <<environment, files, options, todo, cut, document, named,
                   exit, history>>
InstallFoxguard(p) ==
    /\ stage[p] \in {"install_scan", "install_secrets"}
    /\ \/ FoxguardFails(p) /\ UNCHANGED foxguard
       \/ /\ foxguard' \in IF foxguard = "missing" THEN {"cargo_bin", "path"}
                           ELSE {foxguard}
          /\ Goto(p, IF stage[p] = "install_scan" THEN "retry_scan"
                     ELSE "retry_secrets")
          /\ UNCHANGED <<part, alerts, skipped>>
    /\ UNCHANGED <<environment, config, report, options, todo, cut, document,
                   named, exit, history>>
\* The retry looks in ~/.cargo/bin too.
RetryFoxguard(p) ==
    /\ stage[p] \in {"retry_scan", "retry_secrets"}
    /\ FoxguardAnswers(p) \/ FoxguardFails(p)
    /\ UNCHANGED <<environment, files, options, todo, cut, document, named,
                   exit, history>>

-----------------------------------------------------------------------------
(* The reports and the verdict.                                            *)

Matched(p) == {a \in alerts[p] : Matches(options[p], a)}
FoxguardAlerts(p) == {a \in Matched(p) : a.source = "foxguard"}

\* Without findings the separate report is not touched.
WriteReport(p) ==
    /\ stage[p] = "report"
    /\ IF FoxguardAlerts(p) = {}
       THEN Goto(p, "verdict") /\ UNCHANGED <<report, exit>>
       ELSE \/ /\ report' = [NoReport EXCEPT !.text = "empty", !.by = p]
               /\ Goto(p, "fill_report") /\ UNCHANGED exit
            \/ Exit(p, "operational_error") /\ UNCHANGED report
    /\ UNCHANGED <<environment, foxguard, config, options, todo, part, alerts,
                   skipped, cut, document, named, history>>
FillReport(p) ==
    /\ stage[p] = "fill_report"
    /\ \/ /\ \E text \in IF report.text = "empty" THEN {"whole"}
                         ELSE {"whole", "mixed"} :
                report' = [text |-> text, by |-> p,
                           groups |-> FoxguardReport(FoxguardAlerts(p))]
          /\ named' = [named EXCEPT ![p] = TRUE]
          /\ Goto(p, "verdict") /\ UNCHANGED exit
       \/ /\ \/ UNCHANGED report
             \/ report' = [NoReport EXCEPT !.text = "mixed", !.by = p]
          /\ Exit(p, "operational_error") /\ UNCHANGED named
    /\ UNCHANGED <<environment, foxguard, config, options, todo, part, alerts,
                   skipped, cut, document, history>>

Verdict(p) ==
    /\ stage[p] = "verdict"
    /\ Exit(p, IF options[p].no_errors \/ \A a \in Matched(p) : ~Blocking(a)
               THEN "success" ELSE "policy_violation")
    /\ UNCHANGED <<environment, files, options, todo, part, alerts, skipped,
                   cut, document, named, history>>
\* The command is interrupted between two steps.
Stop(p) ==
    /\ stage[p] \notin Ended
    /\ disturbed' = IF stage[p] \in Updating THEN disturbed \cup {"stopped"}
                    ELSE disturbed
    /\ Exit(p, "stopped")
    /\ UNCHANGED <<environment, files, options, todo, part, alerts, skipped,
                   cut, document, named, own, steady>>

Next ==
    \/ Triage
    \/ Edit
    \/ \E p \in Procs :
        \/ \E opts \in CommandLines : Begin(p, opts)
        \/ GitFails(p)
        \/ Query(p)
        \/ ReadConfig(p) \/ TruncateConfig(p) \/ FillConfig(p)
        \/ RunFoxguard(p) \/ InstallFoxguard(p) \/ RetryFoxguard(p)
        \/ WriteReport(p) \/ FillReport(p) \/ Verdict(p)
        \/ Stop(p)
Spec == Init /\ [][Next]_vars

-----------------------------------------------------------------------------
(* Properties.                                                             *)

TypeOK ==
    /\ github \in [Alerts -> States \cup {None}]
    /\ tree \subseteq Findings
    /\ changes \in 0..MaxChanges
    /\ foxguard \in {"missing", "cargo_bin", "path"}
    /\ config.text \in Texts /\ report.text \in Texts
    /\ stage \in [Procs -> Stages]
    /\ exit \in [Procs -> ExitCodes \cup {None}]
    /\ \A p \in Procs :
        /\ options[p] \in CommandLines \cup {NoOptions}
        /\ stage[p] \in Range(GithubSources) =>
               todo[p] # <<>> /\ Range(todo[p]) \subseteq AllowedStates(stage[p])
        /\ alerts[p] \cap part[p] = {}
        /\ skipped[p] \subseteq AlertSource \cup {"config"}
        /\ exit[p] = None <=> stage[p] # "done"
        /\ named[p] => exit[p] # "operational_error"

\* What the filters of a command ask for: an alert in one of the states its
\* source is asked for, a finding foxguard looks for.
Selected(opts, a) ==
    /\ Matches(opts, a)
    /\ IF a.source = "foxguard"
       THEN /\ a.of.path \notin DefaultPaths
            /\ a.of.rule_id \notin IgnoresOf(own, a.of.path)
       ELSE a.state \in Range(StatesFor(opts, a.source))

\* A command that passes the policy, with no warning, every request answered
\* and no answer longer than a page, saw everything that could block it: no
\* blocking alert that the filters select stayed as it was for the whole run
\* (run_inner; the other sources come after each one, state by state).
PassMeansClean ==
    \A p \in Procs :
        /\ exit[p] = "success" /\ ~options[p].no_errors
        /\ skipped[p] = {} /\ cut[p] = {}
        => \A a \in steady[p] : Selected(options[p], a) => ~Blocking(a)

\* No alert the verdict rests on is hidden: it is listed by the output, or by
\* the separate report the output names, as long as no later command has
\* written that file (render_markdown_with_instructions leaves foxguard's
\* findings to the report it names).
NothingHidden ==
    \A p \in Procs :
        exit[p] \in {"success", "policy_violation"} =>
            \A a \in Matched(p) :
                \/ options[p].json \/ a \in Inline(Matched(p), named[p])
                \/ report.by # p \/ report.text = "mixed"
                \/ \E c \in Categories : a \in report.groups[c]

\* While no command is updating .foxguard.yml, every ignore its owner wrote is
\* in it, unless two updates overlapped or one was stopped or failed half-way.
OwnIgnoresKept ==
    disturbed = {} /\ (\A p \in Procs : stage[p] \notin Updating) =>
        \A path \in DOMAIN own : own[path] \subseteq IgnoresOf(ReadIgnores, path)

\* What the notice "Security policy: pass" says (render_policy_notice): with
\* every request answered, no alert of GitHub that the filters select was
\* there all the time.
PassMeansNoFindings ==
    \A p \in Procs :
        /\ exit[p] = "success" /\ ~options[p].no_errors
        /\ skipped[p] = {} /\ "unavailable" \notin cut[p]
        => ~\E a \in steady[p] : a.source # "foxguard" /\ Matches(options[p], a)
=============================================================================
