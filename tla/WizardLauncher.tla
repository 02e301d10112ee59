---------------------------- MODULE WizardLauncher ----------------------------
(***************************************************************************)
(* `greentic-dev wizard` (src/wizard): load an answer document or ask for  *)
(* an action, persist answers and plan in a run directory, and delegate to *)
(* greentic-pack or greentic-bundle.  A launcher is one shell running the  *)
(* command, possibly several times.  A run directory is named by --out or  *)
(* by the second it is asked for, so launchers may share one.              *)
(*                                                                         *)
(* The executor's guards on programs, arguments and destructive steps hold *)
(* for every plan build_plan makes, and its version pins are compared with *)
(* the plan's inputs, which are empty until the command has run.           *)
(***************************************************************************)
EXTENDS Integers

CONSTANTS
    Launchers,
    Commands,    \* the command lines in use
    Documents,   \* the documents --answers may name
    Outs,        \* directories given with --out
    Schemas,     \* schema versions
    DefaultSchema,
    Delegated,   \* answer documents of the delegates
    EmptyDoc,    \* {}, which the menu's dry run passes on
    BadDoc,      \* a delegate_answer_document that is no object
    NoDoc, NoDir, NoAnswers, NoPlan, NoSchema,
    MaxClock,    \* bound: seconds that pass
    MaxRuns      \* bound: commands started in a behaviour

VARIABLES
    clock,
    dirs,        \* run directory -> its files
    emitted,     \* the document --emit-answers wrote last
    runs,        \* commands started so far
    pc, cmd, id, \* where each launcher is, its command line and number
    answers,     \* the merged answers
    schema,      \* the schema version to emit
    plan,        \* the plan
    dir,         \* the directory plan and answers go to
    applied,     \* the document the delegate applied
    written      \* the document the delegate was asked to write

vars == <<clock, dirs, emitted, runs, pc, cmd, id, answers, schema, plan, dir,
          applied, written>>

Actions == {"pack", "bundle"}
RunDirs == 0..MaxClock
Dirs == Outs \cup RunDirs

CommandLines == [menu : BOOLEAN, dry : BOOLEAN, yes : BOOLEAN,
                 unattended : BOOLEAN, tty : BOOLEAN, emit : BOOLEAN,
                 migrate : BOOLEAN, schema : Schemas \cup {NoSchema},
                 out : Outs \cup {NoDir}]
DocumentFields == [wizard : Actions \cup {"launcher", "other"},
                   action : Actions \cup {"other"}, schema : Schemas,
                   delegate : Delegated \cup {NoDoc, BadDoc},
                   self : Delegated]
AnswerFields == [action : Actions \cup {"other"},
                 delegate : Delegated \cup {EmptyDoc, NoDoc, BadDoc}]
Plans == [action : Actions, file : Dirs \cup {NoDir}, dry : BOOLEAN,
          executed : BOOLEAN]
Emissions == [answers : AnswerFields, schema : Schemas]
RunFiles == [delegated : Delegated \cup {EmptyDoc, NoDoc},
             answers : AnswerFields \cup {NoAnswers},
             plan : Plans \cup {NoPlan}, log : SUBSET (1..MaxRuns)]

ASSUME CommandAssumption ==
    /\ Commands \subseteq CommandLines /\ Commands # {}
    /\ Documents \subseteq DocumentFields
    /\ DefaultSchema \in Schemas
    /\ MaxClock \in Nat /\ MaxRuns \in Nat
ASSUME NothingAssumption ==
    /\ NoDir \notin Dirs /\ NoSchema \notin Schemas
    /\ NoPlan \notin Plans /\ NoAnswers \notin AnswerFields
    /\ NoDoc \notin Delegated \cup {EmptyDoc, BadDoc} \cup Emissions
    /\ BadDoc \notin Delegated \cup {EmptyDoc}

Stages == {"idle", "load", "menu", "delegate", "capture", "delegated", "plan",
           "answers", "plan_file", "confirm", "log", "run", "emit", "done",
           "failed"}
Ended == {"idle", "done", "failed"}

Goto(p, stage) == pc' = [pc EXCEPT ![p] = stage]
Write(d, field, content) == dirs' = [dirs EXCEPT ![d][field] = content]
\* resolve_out_dir; asked for twice in a command
OutDir(p) == IF cmd[p].out = NoDir THEN clock ELSE cmd[p].out

Init ==
    /\ clock = 0
    /\ dirs = [d \in Dirs |-> [delegated |-> NoDoc, answers |-> NoAnswers,
                               plan |-> NoPlan, log |-> {}]]
    /\ emitted = NoDoc
    /\ runs = 0
    /\ pc = [p \in Launchers |-> "idle"]
    /\ cmd = [p \in Launchers |-> CHOOSE c \in Commands : TRUE]
    /\ id = [p \in Launchers |-> 0]
    /\ answers = [p \in Launchers |-> NoAnswers]
    /\ schema = [p \in Launchers |-> DefaultSchema]
    /\ plan = [p \in Launchers |-> NoPlan]
    /\ dir = [p \in Launchers |-> NoDir]
    /\ applied = [p \in Launchers |-> NoDoc]
    /\ written = [p \in Launchers |-> NoDoc]

-----------------------------------------------------------------------------
Begin(p) ==
    /\ pc[p] \in Ended
    /\ runs < MaxRuns
    /\ runs' = runs + 1
    /\ id' = [id EXCEPT ![p] = runs + 1]
    /\ \E c \in Commands :
         /\ cmd' = [cmd EXCEPT ![p] = c]
         /\ schema' = [schema EXCEPT ![p] =
                         IF c.schema = NoSchema THEN DefaultSchema ELSE c.schema]
         /\ Goto(p, IF c.menu THEN "menu" ELSE "load")
    /\ answers' = [answers EXCEPT ![p] = NoAnswers]
    /\ plan' = [plan EXCEPT ![p] = NoPlan]
    /\ dir' = [dir EXCEPT ![p] = NoDir]
    /\ applied' = [applied EXCEPT ![p] = NoDoc]
    /\ written' = [written EXCEPT ![p] = NoDoc]
    /\ UNCHANGED <<clock, dirs, emitted>>

\* A launcher document of another schema needs --migrate; a delegate's own
\* document is wrapped; anything else is refused.
Accepted(d, c) ==
    \/ d.wizard \in Actions
    \/ d.wizard = "launcher" /\ (c.schema \in {NoSchema, d.schema} \/ c.migrate)
LoadedAnswers(d) ==
    IF d.wizard = "launcher" THEN [action |-> d.action, delegate |-> d.delegate]
    ELSE [action |-> d.wizard, delegate |-> d.self]

Load(p) ==
    /\ pc[p] = "load"
    /\ \E d \in Documents :
         IF Accepted(d, cmd[p])
         THEN /\ answers' = [answers EXCEPT ![p] = LoadedAnswers(d)]
              /\ schema' = [schema EXCEPT ![p] =
                              IF d.wizard = "launcher" /\ cmd[p].schema = NoSchema
                              THEN d.schema ELSE @]
              /\ Goto(p, "delegated")
         ELSE Goto(p, "failed") /\ UNCHANGED <<answers, schema>>
    /\ UNCHANGED <<clock, dirs, emitted, runs, cmd, id, plan, dir, applied,
                   written>>

\* Without --answers: a terminal, and exit or an action; a dry run passes an
\* empty document.
Menu(p) ==
    /\ pc[p] = "menu"
    /\ \/ Goto(p, IF cmd[p].tty THEN "done" ELSE "failed") /\ UNCHANGED answers
       \/ \E a \in Actions :
            /\ cmd[p].tty
            /\ answers' = [answers EXCEPT ![p] =
                 [action |-> a,
                  delegate |-> IF cmd[p].dry THEN EmptyDoc ELSE NoDoc]]
            /\ Goto(p, IF cmd[p].dry THEN "delegated" ELSE "delegate")
    /\ UNCHANGED <<clock, dirs, emitted, runs, cmd, id, schema, plan, dir,
                   applied, written>>

\* The delegate asks its own questions; with --emit-answers it must have
\* written a document of its own kind.
RunInteractive(p) ==
    /\ pc[p] = "delegate"
    /\ IF cmd[p].emit
       THEN \E d \in Documents :
              IF d.wizard = answers[p].action
              THEN /\ written' = [written EXCEPT ![p] = d.self]
                   /\ Goto(p, "capture")
              ELSE Goto(p, "failed") /\ UNCHANGED written
       ELSE Goto(p, "menu") /\ UNCHANGED written
    /\ UNCHANGED <<clock, dirs, emitted, runs, cmd, id, answers, schema, plan,
                   dir, applied>>

EmitCaptured(p) ==
    /\ pc[p] = "capture"
    /\ emitted' = [answers |-> [action |-> answers[p].action,
                                delegate |-> written[p]],
                   schema |-> schema[p]]
    /\ Goto(p, "done")
    /\ UNCHANGED <<clock, dirs, runs, cmd, id, answers, schema, plan, dir,
                   applied, written>>

-----------------------------------------------------------------------------
(* run_from_inputs.                                                        *)

\* mutant: an existing document is kept
PersistDelegatedOnce(p) ==
    /\ pc[p] = "delegated"
    /\ LET doc == answers[p].delegate
       IN IF doc = BadDoc THEN Goto(p, "failed") /\ UNCHANGED <<dirs, dir>>
          ELSE /\ Goto(p, "plan")
               /\ IF doc = NoDoc THEN UNCHANGED <<dirs, dir>>
                  ELSE /\ dir' = [dir EXCEPT ![p] = OutDir(p)]
                       /\ IF dirs[OutDir(p)].delegated = NoDoc
                          THEN Write(OutDir(p), "delegated", doc)
                          ELSE UNCHANGED dirs
    /\ UNCHANGED <<clock, emitted, runs, cmd, id, answers, schema, plan, applied,
                   written>>

PersistDelegated(p) ==
    /\ pc[p] = "delegated"
    /\ LET doc == answers[p].delegate
       IN IF doc = BadDoc THEN Goto(p, "failed") /\ UNCHANGED <<dirs, dir>>
          ELSE /\ Goto(p, "plan")
               /\ IF doc = NoDoc THEN UNCHANGED <<dirs, dir>>
                  ELSE /\ dir' = [dir EXCEPT ![p] = OutDir(p)]
                       /\ Write(OutDir(p), "delegated", doc)
    /\ UNCHANGED <<clock, emitted, runs, cmd, id, answers, schema, plan, applied,
                   written>>

\* The delegated document's directory is in the plan's arguments; plan and
\* answers go where resolve_out_dir points now.
BuildPlan(p) ==
    /\ pc[p] = "plan"
    /\ IF answers[p].action \in Actions
       THEN /\ plan' = [plan EXCEPT ![p] =
                 [action |-> answers[p].action, file |-> dir[p],
                  dry |-> cmd[p].dry, executed |-> FALSE]]
            /\ dir' = [dir EXCEPT ![p] = OutDir(p)]
            /\ Goto(p, "answers")
       ELSE Goto(p, "failed") /\ UNCHANGED <<plan, dir>>
    /\ UNCHANGED <<clock, dirs, emitted, runs, cmd, id, answers, schema, applied,
                   written>>

PersistAnswers(p) ==
    /\ pc[p] = "answers"
    /\ Write(dir[p], "answers", answers[p])
    /\ Goto(p, "plan_file")
    /\ UNCHANGED <<clock, emitted, runs, cmd, id, answers, schema, plan, dir,
                   applied, written>>

\* mutant: a dry run goes on
AfterPlanAnyMode(p) == IF ~plan[p].executed THEN "confirm"
                       ELSE IF cmd[p].emit THEN "emit" ELSE "done"

AfterPlan(p) == IF ~cmd[p].dry /\ ~plan[p].executed THEN "confirm"
                ELSE IF cmd[p].emit THEN "emit" ELSE "done"

\* Before the delegate runs, and again when it has succeeded.
PersistPlan(p) ==
    /\ pc[p] = "plan_file"
    /\ Write(dir[p], "plan", plan[p])
    /\ Goto(p, AfterPlan(p))
    /\ UNCHANGED <<clock, emitted, runs, cmd, id, answers, schema, plan, dir,
                   applied, written>>

\* --yes asks nobody; without a terminal --non-interactive is needed; at a
\* terminal the user may decline.
Confirm(p) ==
    /\ pc[p] = "confirm"
    /\ \/ Goto(p, "log") /\ (cmd[p].yes \/ cmd[p].tty \/ cmd[p].unattended)
       \/ Goto(p, "failed") /\ ~cmd[p].yes /\ (cmd[p].tty \/ ~cmd[p].unattended)
    /\ UNCHANGED <<clock, dirs, emitted, runs, cmd, id, answers, schema, plan,
                   dir, applied, written>>

\* mutant: the log is kept next to the delegated document
LogRunAtDocument(p) ==
    /\ pc[p] = "log"
    /\ LET d == IF plan[p].file = NoDir THEN dir[p] ELSE plan[p].file
       IN Write(d, "log", dirs[d].log \cup {id[p]})
    /\ Goto(p, "run")
    /\ UNCHANGED <<clock, emitted, runs, cmd, id, answers, schema, plan, dir,
                   applied, written>>

LogRun(p) ==
    /\ pc[p] = "log"
    /\ Write(dir[p], "log", dirs[dir[p]].log \cup {id[p]})
    /\ Goto(p, "run")
    /\ UNCHANGED <<clock, emitted, runs, cmd, id, answers, schema, plan, dir,
                   applied, written>>

\* The delegate reads the persisted document and succeeds or fails.
RunDelegate(p) ==
    /\ pc[p] = "run"
    /\ applied' = [applied EXCEPT ![p] =
         IF plan[p].file = NoDir THEN NoDoc ELSE dirs[plan[p].file].delegated]
    /\ \/ plan' = [plan EXCEPT ![p].executed = TRUE] /\ Goto(p, "answers")
       \/ Goto(p, "failed") /\ UNCHANGED plan
    /\ UNCHANGED <<clock, dirs, emitted, runs, cmd, id, answers, schema, dir,
                   written>>

Emit(p) ==
    /\ pc[p] = "emit"
    /\ emitted' = [answers |-> answers[p], schema |-> schema[p]]
    /\ Goto(p, "done")
    /\ UNCHANGED <<clock, dirs, runs, cmd, id, answers, schema, plan, dir,
                   applied, written>>

\* A write, the delegate's start or the terminal fails, or it is killed.
Stop(p) ==
    /\ pc[p] \notin Ended
    /\ Goto(p, "failed")
    /\ UNCHANGED <<clock, dirs, emitted, runs, cmd, id, answers, schema, plan,
                   dir, applied, written>>

Tick ==
    /\ clock < MaxClock
    /\ clock' = clock + 1
    /\ UNCHANGED <<dirs, emitted, runs, pc, cmd, id, answers, schema, plan, dir,
                   applied, written>>

Step(p) ==
    \/ Load(p) \/ Menu(p) \/ RunInteractive(p) \/ EmitCaptured(p)
    \/ PersistDelegated(p) \/ BuildPlan(p) \/ PersistAnswers(p)
    \/ PersistPlan(p) \/ Confirm(p) \/ LogRun(p) \/ RunDelegate(p) \/ Emit(p)

Next ==
    \/ \E p \in Launchers : Begin(p) \/ Step(p) \/ Stop(p)
    \/ Tick

Spec == Init /\ [][Next]_vars

-----------------------------------------------------------------------------
\* Every variable has its type; a plan has one of the two actions.
TypeOK ==
    /\ clock \in RunDirs
    /\ dirs \in [Dirs -> RunFiles]
    /\ emitted \in Emissions \cup {NoDoc}
    /\ runs \in 0..MaxRuns
    /\ pc \in [Launchers -> Stages]
    /\ cmd \in [Launchers -> Commands]
    /\ id \in [Launchers -> 0..MaxRuns]
    /\ answers \in [Launchers -> AnswerFields \cup {NoAnswers}]
    /\ schema \in [Launchers -> Schemas]
    /\ plan \in [Launchers -> Plans \cup {NoPlan}]
    /\ dir \in [Launchers -> Dirs \cup {NoDir}]
    /\ applied \in [Launchers -> Delegated \cup {EmptyDoc, NoDoc}]
    /\ written \in [Launchers -> Delegated \cup {NoDoc}]

\* A launcher that is alone and ended well left its answers, its plan and its
\* document on disk, the plan marked iff the delegate ran, and the delegate
\* applied that document, whatever an earlier or stopped command of its own
\* had left in the directory and however often the second changed.
Alone(p) == \A q \in Launchers \ {p} : pc[q] = "idle"
RunRecorded ==
    \A p \in Launchers : pc[p] = "done" /\ plan[p] # NoPlan /\ Alone(p) =>
        /\ dirs[dir[p]].answers = answers[p] /\ dirs[dir[p]].plan = plan[p]
        /\ plan[p].executed <=> ~cmd[p].dry
        /\ plan[p].file # NoDir =>
             /\ dirs[plan[p].file].delegated = answers[p].delegate
             /\ plan[p].executed => applied[p] = answers[p].delegate

\* A plan on disk that says its command was executed has an exec.log beside
\* it, whichever launchers share the directory and wherever they stop.
ExecutedIsLogged ==
    \A d \in Dirs : dirs[d].plan # NoPlan /\ dirs[d].plan.executed =>
        dirs[d].log # {}

\* No exec.log names a command that was a dry run, or that had neither a
\* terminal nor --yes nor --non-interactive ("`validate` always dry-run";
\* "exec.log (only when executed)").
NothingRunUnasked ==
    \A p \in Launchers, d \in Dirs : id[p] \in dirs[d].log =>
        ~cmd[p].dry /\ (cmd[p].yes \/ cmd[p].unattended \/ cmd[p].tty)
=============================================================================
