----------------------------- MODULE CoverageRun -----------------------------
(***************************************************************************)
(* `greentic-dev coverage` (src/coverage_cmd.rs): install what is missing  *)
(* of cargo-llvm-cov, cargo-nextest and llvm-tools-preview, measure the    *)
(* tests, write target/coverage/coverage.json and compare it with          *)
(* coverage-policy.json; with --skip-run, compare the report that is there.*)
(*                                                                         *)
(* The measurement takes minutes: meanwhile the code and the policy are    *)
(* edited, and another command runs in the same checkout.  cargo, rustup   *)
(* and cargo-binstall are external.  Percentages are compared as fractions *)
(* of whole numbers.                                                       *)
(***************************************************************************)
EXTENDS Integers, Sequences, FiniteSets, FiniteSetsExt

CONSTANTS
    Procs,
    CommandLines,  \* [skip_run, offline], the options and CARGO_NET_OFFLINE
    Files,
    Measurements,  \* what a run may measure: file -> [count, covered]
    Policies,      \* what coverage-policy.json may say
    Machines,      \* initially: the programs on the PATH and the packages
                   \* cargo-binstall has on record
    None, Invalid, Partial, \* no file, and one that cannot be parsed
    MaxEdits       \* bound: edits of the code or the policy

VARIABLES
    machine,       \* [bin, listed]
    code,          \* what a run of the tests would measure now
    policy_file,   \* coverage-policy.json, None or Invalid
    report_file,   \* coverage.json, None, Partial or a measurement
    edits,
    stage, cmd,    \* where each command is, and its options
    todo,          \* the tools it has still to ensure
    policy,        \* the policy it loaded
    evaluated,     \* the measurement it evaluated
    exit,
    measured,      \* the code its run compiled
    since,         \* history: the reports completed since its run ended
    failures       \* history: the installations that failed for it

environment == <<code, policy_file, edits>>
command == <<stage, cmd, todo, policy, evaluated, exit>>
history == <<since, failures>>
vars == <<machine, environment, report_file, command, measured, history>>

Tools == <<"cargo-llvm-cov", "cargo-nextest", "llvm-tools-preview">>
Programs == {"cargo-binstall", "rustup", "cargo-llvm-cov", "cargo-nextest",
             "llvm-tools-preview"}
ExitCodes == 0..5  \* 1 is an error of main
Stages == {"idle", "ensure", "binstall", "install", "run", "measure", "write",
           "report", "load_policy", "load_report", "done"}
Ended == {"idle", "done"}
NoCommand == [skip_run |-> FALSE, offline |-> FALSE]

\* A policy file's fields may be missing.
PolicyFields == [global : 0..100 \cup {None}, default : 0..100 \cup {None},
                 excluded : SUBSET Files,
                 per_file : [Files -> 0..100 \cup {None}]]
\* What the constants satisfy.
CoverageAssumption ==
    /\ CommandLines \subseteq [skip_run : BOOLEAN, offline : BOOLEAN]
    /\ Measurements \subseteq [Files -> [count : Nat, covered : Nat]]
    /\ Policies \subseteq PolicyFields
    /\ Machines \subseteq [bin : SUBSET Programs, listed : SUBSET Programs]
    /\ None \notin Measurements /\ None \notin ExitCodes
    /\ Partial \notin Measurements
    /\ MaxEdits \in Nat

-----------------------------------------------------------------------------
(* The policy.                                                             *)

Or(value, default) == IF value = None THEN default ELSE value
GlobalMin(pol) == Or(pol.global, 0)
DefaultMin(pol) == Or(pol.default, GlobalMin(pol))
Expected(pol, f) == Or(pol.per_file[f], DefaultMin(pol))

\* covered/count in percent is below a minimum; no lines are 0 percent.
Below(covered, count, min) ==
    IF count = 0 THEN min > 0 ELSE 100 * covered < min * count
Total(m, files, field) == MapThenSumSet(LAMBDA f : m[f][field], files)
\* What is wrong with a measurement: the files below their minimum, and the
\* workspace.  With nothing left to count the report's own total stands in.
Violations(pol, m) ==
    LET counted == Files \ pol.excluded
        base == IF Total(m, counted, "count") = 0 THEN Files ELSE counted
    IN  {f \in counted : Below(m[f].covered, m[f].count, Expected(pol, f))}
        \cup IF Below(Total(m, base, "covered"), Total(m, base, "count"),
                      GlobalMin(pol))
             THEN {"workspace"} ELSE {}

-----------------------------------------------------------------------------
Init ==
    /\ machine \in Machines
    /\ code \in Measurements
    /\ policy_file \in Policies \cup {None, Invalid}
    /\ report_file \in {None} \cup Measurements
    /\ edits = 0
    /\ stage = [p \in Procs |-> "idle"]
    /\ cmd = [p \in Procs |-> NoCommand]
    /\ todo = [p \in Procs |-> <<>>]
    /\ policy = [p \in Procs |-> None]
    /\ evaluated = [p \in Procs |-> None]
    /\ exit = [p \in Procs |-> None]
    /\ measured = [p \in Procs |-> None]
    /\ since = [p \in Procs |-> {}]
    /\ failures = [p \in Procs |-> {}]

Goto(p, s) == stage' = [stage EXCEPT ![p] = s]
Exit(p, status) ==
    /\ exit' = [exit EXCEPT ![p] = status]
    /\ Goto(p, "done")
Failure(p, what) == failures' = [failures EXCEPT ![p] = @ \cup {what}]

\* Somebody edits the code or the policy.
Edit ==
    /\ edits < MaxEdits /\ edits' = edits + 1
    /\ \/ code' \in Measurements \ {code} /\ UNCHANGED policy_file
       \/ /\ policy_file' \in (Policies \cup {None}) \ {policy_file}
          /\ UNCHANGED code
    /\ UNCHANGED <<machine, report_file, command, measured, history>>

Begin(p, c) ==
    /\ stage[p] = "idle"
    /\ cmd' = [cmd EXCEPT ![p] = c]
    /\ IF policy_file = None
       THEN Exit(p, 2) /\ UNCHANGED todo
       ELSE /\ Goto(p, IF c.skip_run THEN "report" ELSE "ensure")
            /\ todo' = [todo EXCEPT ![p] = Tools]
            /\ UNCHANGED exit
    /\ UNCHANGED <<machine, environment, report_file, policy, evaluated,
                   measured, history>>

-----------------------------------------------------------------------------
(* The tools.                                                              *)

Ensured(p) ==
    /\ todo' = [todo EXCEPT ![p] = Tail(@)]
    /\ Goto(p, IF Tail(todo[p]) = <<>> THEN "run" ELSE "ensure")
    /\ UNCHANGED exit
SetupFails(p) == Exit(p, 3) /\ UNCHANGED todo

\* ensure_tool and ensure_llvm_tools: what is there already, and what an
\* offline command cannot get.
Ensure(p) ==
    LET tool == Head(todo[p])
        installer == IF tool = "llvm-tools-preview" THEN "rustup"
                     ELSE "cargo-binstall"
        noRustup == installer = "rustup" /\ "rustup" \notin machine.bin
    IN  /\ stage[p] = "ensure"
        /\ \/ noRustup /\ SetupFails(p) /\ Failure(p, "rustup")
           \/ /\ ~noRustup /\ tool \in machine.bin
              /\ Ensured(p) /\ UNCHANGED failures
           \/ /\ ~noRustup /\ tool \notin machine.bin /\ cmd[p].offline
              /\ SetupFails(p) /\ UNCHANGED failures
           \/ /\ ~noRustup /\ tool \notin machine.bin /\ ~cmd[p].offline
              /\ Goto(p, IF installer \in machine.bin THEN "install"
                         ELSE "binstall")
              /\ UNCHANGED <<todo, exit, failures>>
        /\ UNCHANGED <<machine, environment, report_file, cmd, policy,
                       evaluated, measured, since>>
\* cargo install cargo-binstall.
EnsureBinstall(p) ==
    /\ stage[p] = "binstall"
    /\ \/ /\ machine' = [machine EXCEPT !.bin = @ \cup {"cargo-binstall"}]
          /\ Goto(p, "install")
          /\ UNCHANGED <<todo, exit, failures>>
       \/ /\ SetupFails(p) /\ Failure(p, "cargo-binstall")
          /\ UNCHANGED machine
    /\ UNCHANGED <<environment, report_file, cmd, policy, evaluated, measured,
                   since>>
\* mutant: without --force a package on record is taken for installed.
InstallUnforced(p) ==
    LET tool == Head(todo[p]) IN
    /\ stage[p] = "install"
    /\ \/ /\ machine' = [bin |-> machine.bin \cup ({tool} \ machine.listed),
                         listed |-> machine.listed \cup {tool}]
          /\ IF tool \in machine'.bin THEN Ensured(p) ELSE SetupFails(p)
          /\ UNCHANGED failures
       \/ /\ SetupFails(p) /\ Failure(p, tool)
          /\ UNCHANGED machine
    /\ UNCHANGED <<environment, report_file, cmd, policy, evaluated, measured,
                   since>>
\* cargo binstall --force installs what is on record but not there; a success
\* is believed only when the program is on the PATH.
Install(p) ==
    LET tool == Head(todo[p]) IN
    /\ stage[p] = "install"
    /\ \/ /\ machine' = [bin |-> machine.bin \cup {tool},
                         listed |-> machine.listed \cup {tool}]
          /\ Ensured(p) /\ UNCHANGED failures
       \/ /\ SetupFails(p) /\ Failure(p, tool)
          /\ \E listed \in {machine.listed, machine.listed \cup {tool}} :
                 machine' = [machine EXCEPT !.listed = listed]
    /\ UNCHANGED <<environment, report_file, cmd, policy, evaluated, measured,
                   since>>

-----------------------------------------------------------------------------
(* The run.                                                                *)

StartRun(p) ==
    /\ stage[p] = "run"
    /\ measured' = [measured EXCEPT ![p] = code]
    /\ Goto(p, "measure")
    /\ UNCHANGED <<machine, environment, report_file, cmd, todo, policy,
                   evaluated, exit, history>>
\* The report is written when the tests have run; failing tests do not fail
\* the run (--ignore-run-fail).
WriteReport(p) ==
    /\ stage[p] = "measure"
    /\ report_file' = Partial
    /\ Goto(p, "write")
    /\ UNCHANGED <<machine, environment, cmd, todo, policy, evaluated, exit,
                   measured, history>>
EndRun(p) ==
    /\ stage[p] = "write"
    /\ report_file' = measured[p]
    /\ since' = [q \in Procs |->
                    IF q = p \/ stage[q] \in {"report", "load_policy", "load_report"}
                    THEN since[q] \cup {measured[p]} ELSE since[q]]
    /\ Goto(p, "report")
    /\ UNCHANGED <<machine, environment, cmd, todo, policy, evaluated, exit,
                   measured, failures>>
\* mutant: the status of the run is not looked at.
RunFailsUnnoticed(p) ==
    /\ stage[p] \in {"measure", "write"}
    /\ Goto(p, "report")
    /\ UNCHANGED <<machine, environment, report_file, cmd, todo, policy,
                   evaluated, exit, measured, history>>
RunFails(p) ==
    /\ stage[p] \in {"measure", "write"}
    /\ Exit(p, 4)
    /\ UNCHANGED <<machine, environment, report_file, cmd, todo, policy,
                   evaluated, measured, history>>

-----------------------------------------------------------------------------
(* The verdict.                                                            *)

FindReport(p) ==
    /\ stage[p] = "report"
    /\ IF report_file = None THEN Exit(p, 4)
       ELSE Goto(p, "load_policy") /\ UNCHANGED exit
    /\ UNCHANGED <<machine, environment, report_file, cmd, todo, policy,
                   evaluated, measured, history>>
LoadPolicy(p) ==
    /\ stage[p] = "load_policy"
    /\ IF policy_file \in Policies
       THEN /\ policy' = [policy EXCEPT ![p] = policy_file]
            /\ Goto(p, "load_report") /\ UNCHANGED exit
       ELSE Exit(p, 1) /\ UNCHANGED policy
    /\ UNCHANGED <<machine, environment, report_file, cmd, todo, evaluated,
                   measured, history>>
Evaluate(p) ==
    /\ stage[p] = "load_report"
    /\ IF report_file \in {None, Partial}
       THEN Exit(p, 1) /\ UNCHANGED evaluated
       ELSE /\ evaluated' = [evaluated EXCEPT ![p] = report_file]
            /\ Exit(p, IF Violations(policy[p], report_file) = {} THEN 0 ELSE 5)
    /\ UNCHANGED <<machine, environment, report_file, cmd, todo, policy,
                   measured, history>>

\* The command is interrupted; what it wrote stays.
Stop(p) ==
    /\ stage[p] \notin Ended
    /\ Goto(p, "done")
    /\ UNCHANGED <<machine, environment, report_file, cmd, todo, policy,
                   evaluated, exit, measured, history>>

Next ==
    \/ Edit
    \/ \E p \in Procs :
        \/ \E c \in CommandLines : Begin(p, c)
        \/ Ensure(p) \/ EnsureBinstall(p) \/ Install(p)
        \/ StartRun(p) \/ WriteReport(p) \/ EndRun(p) \/ RunFails(p)
        \/ FindReport(p) \/ LoadPolicy(p) \/ Evaluate(p)
        \/ Stop(p)
Spec == Init /\ [][Next]_vars

-----------------------------------------------------------------------------
(* Properties.                                                             *)

TypeOK ==
    /\ machine \in [bin : SUBSET Programs, listed : SUBSET Programs]
    /\ code \in Measurements
    /\ policy_file \in Policies \cup {None, Invalid}
    /\ report_file \in Measurements \cup {None, Partial}
    /\ stage \in [Procs -> Stages]
    /\ \A p \in Procs :
        /\ cmd[p] \in CommandLines \cup {NoCommand}
        /\ stage[p] \in {"ensure", "binstall", "install"} => todo[p] # <<>>
        /\ exit[p] \in ExitCodes \cup {None}
        /\ exit[p] \in {0, 5} <=> evaluated[p] # None

\* A command that ran the tests passes on the report of its own run, or on one
\* another run completed since, never on one that was there before; and every
\* file of it that is not excluded has its minimum (run_inner looks for the
\* report at its path only, whoever wrote it).
PassMeansMeasured ==
    \A p \in Procs :
        exit[p] = 0 =>
            /\ ~cmd[p].skip_run => evaluated[p] \in since[p]
            /\ \A f \in Files \ policy[p].excluded :
                   ~Below(evaluated[p][f].covered, evaluated[p][f].count,
                          Expected(policy[p], f))

\* The setup fails only for a reason: the command is offline, or an
\* installation failed for it.  What cargo-binstall has on record but is not
\* there is no reason.
SetupFailureHasCause ==
    \A p \in Procs :
        exit[p] = 3 => cmd[p].offline \/ failures[p] # {}

=============================================================================
