---------------------------- MODULE SecurityPolicy ----------------------------
(***************************************************************************)
(* What `greentic-dev security` makes of the alerts it reads               *)
(* (src/security_cmd.rs): the fields the policy uses of an alert of        *)
(* GitHub or a finding of foxguard, the filters of the command line, the   *)
(* triage category of a finding, the policy, and how the alerts are shared *)
(* between the command's output and the separate foxguard report.          *)
(*                                                                         *)
(* Texts are abstracted to what categorize_foxguard_alert looks for in     *)
(* them: "lookup" (map.get and the like), "secret" (secret, token,         *)
(* credential, private key) or "plain".                                    *)
(***************************************************************************)
EXTENDS Naturals, Sequences, FiniteSets, SequencesExt

CONSTANT None \* a field that is not there

GithubSources == <<"code_scanning", "dependabot", "secret_scanning">>
AlertSource == Range(GithubSources) \cup {"foxguard"}
States == {"open", "dismissed", "fixed", "resolved", "auto_dismissed"}
Severities == {"error", "warning", "note"}
SecuritySeverities == {"critical", "high", "medium", "low"}
Wordings == {"lookup", "secret", "plain"}

\* Alerts as GitHub answers them (their state apart) and foxguard's findings.
CodeScanningAlert ==
    [source : {"code_scanning"}, number : Nat,
     severity : Severities \cup {None},
     security_severity_level : SecuritySeverities \cup {None}]
DependabotAlert ==
    [source : {"dependabot"}, number : Nat,
     advisory : SecuritySeverities \cup {None},
     vulnerability : SecuritySeverities \cup {None}]
SecretScanningAlert == [source : {"secret_scanning"}, number : Nat]
FoxguardFinding ==
    [mode : {"scan", "secrets"}, rule_id : STRING, path : STRING,
     severity : SecuritySeverities \cup {None}, wording : Wordings]

\* The states of --state a source knows, in the order they were given.
AllowedStates(source) ==
    CASE source = "code_scanning"   -> {"open", "dismissed", "fixed"}
      [] source = "dependabot"      -> {"open", "dismissed", "fixed",
                                        "auto_dismissed"}
      [] source = "secret_scanning" -> {"open", "resolved"}
      [] source = "foxguard"        -> {"open"}
\* mutant: every source is asked for every state.
StatesForAll(options, source) == options.states
StatesFor(options, source) ==
    LET known[n \in 0..Len(options.states)] == \* of the first n
            IF n = 0 THEN <<>>
            ELSE IF options.states[n] \in AllowedStates(source)
                 THEN Append(known[n - 1], options.states[n])
                 ELSE known[n - 1]
    IN  known[Len(options.states)]

\* An alert of the report.  `of` stands for the descriptive fields.
Alert(source, number, state, severity, security_severity, of) ==
    [source |-> source, number |-> number, state |-> state,
     severity |-> severity, security_severity |-> security_severity,
     of |-> of]
NormalizeCodeScanning(a, state) ==
    Alert(a.source, a.number, state, a.severity, a.security_severity_level, a)
NormalizeDependabot(a, state) ==
    Alert(a.source, a.number, state, None,
          IF a.advisory # None THEN a.advisory ELSE a.vulnerability, a)
NormalizeSecretScanning(a, state) ==
    Alert(a.source, a.number, state, None, "critical", a)
NormalizeFoxguard(f) ==
    Alert("foxguard", None, "open", None, f.severity, f)

NormalizeGithub(a, state) ==
    CASE a.source = "code_scanning"   -> NormalizeCodeScanning(a, state)
      [] a.source = "dependabot"      -> NormalizeDependabot(a, state)
      [] a.source = "secret_scanning" -> NormalizeSecretScanning(a, state)

\* A filter that was not given lets everything pass; one that was drops the
\* alerts without the field.
MatchesFilter(filter, value) == filter = {} \/ value \in filter
Matches(options, alert) ==
    /\ MatchesFilter(Range(options.states), alert.state)
    /\ MatchesFilter(options.severities, alert.severity)
    /\ MatchesFilter(options.security_severities, alert.security_severity)

Categories == {"needs_human_consent", "likely_false_positive", "safe_cleanup",
               "needs_investigation"}
Categorize(alert) ==
    LET f == alert.of IN
    CASE f.wording = "lookup" -> "likely_false_positive"
      [] f.wording # "lookup" /\ (f.mode = "secrets" \/ f.wording = "secret")
             -> "needs_human_consent"
      [] OTHER ->
            CASE f.rule_id \in {"rs/no-ssrf", "rs/no-command-injection",
                                "rs/no-path-traversal"}
                     -> "needs_human_consent"
              [] f.rule_id = "rs/no-unwrap-in-lib" -> "safe_cleanup"
              [] OTHER -> "needs_investigation"

\* The policy: every alert of GitHub blocks, a finding of foxguard when it is
\* critical, or high and neither a false positive nor somebody's decision.
Blocking(alert) ==
    \/ alert.source # "foxguard"
    \/ alert.security_severity = "critical"
    \/ /\ alert.security_severity = "high"
       /\ Categorize(alert) = "needs_investigation"

\* mutant: the report has a section for what can be acted on only.
FoxguardReportActionable(alerts) ==
    [c \in Categories |-> IF c = "likely_false_positive" THEN {}
                          ELSE {a \in alerts : Categorize(a) = c}]
\* The separate report groups the findings by category.
FoxguardReport(alerts) ==
    [c \in Categories |-> {a \in alerts : Categorize(a) = c}]
\* The alerts the markdown output lists itself: with a separate report, those
\* of GitHub.
Inline(alerts, named) ==
    {a \in alerts : ~named \/ a.source # "foxguard"}
=============================================================================
