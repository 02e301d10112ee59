------------------------- MODULE WizardLauncherProofs -------------------------
(***************************************************************************)
(* Proofs about WizardLauncher, for every set of launchers, command lines, *)
(* documents and directories and every number of commands and seconds.     *)
(*                                                                         *)
(* IndInv adds what a launcher has at each stage (Control), that command   *)
(* numbers are never given twice (Numbered), and that a plan marked as     *)
(* executed has its log entry already (Logged).                            *)
(***************************************************************************)
EXTENDS WizardLauncher, TLAPS

Persisting == {"answers", "plan_file", "confirm", "log", "run", "emit"}
Asked(p) == ~cmd[p].dry /\ (cmd[p].yes \/ cmd[p].unattended \/ cmd[p].tty)

ControlOf(p) ==
    /\ pc[p] \in {"delegate", "capture"} =>
         answers[p] \in AnswerFields /\ answers[p].action \in Actions
    /\ pc[p] \in {"delegated", "plan"} => answers[p] \in AnswerFields
    /\ pc[p] \in Persisting =>
         answers[p] \in AnswerFields /\ plan[p] \in Plans /\ dir[p] \in Dirs
    /\ pc[p] = "capture" => written[p] \in Delegated
    /\ pc[p] = "run" /\ plan[p].file # NoDir => plan[p].file \in Dirs
    /\ pc[p] \notin Persisting \cup Ended => plan[p] = NoPlan
    /\ pc[p] = "confirm" => ~cmd[p].dry
    /\ pc[p] \in {"log", "run"} => Asked(p)
Control == \A p \in Launchers : ControlOf(p)

Numbered ==
    /\ \A d \in Dirs : dirs[d].log \subseteq 1..runs
    /\ \A p \in Launchers : id[p] \in 0..runs
    /\ \A p, q \in Launchers : id[p] = id[q] /\ id[p] # 0 => p = q
    /\ \A p \in Launchers : pc[p] # "idle" => id[p] # 0

LoggedOf(p) ==
    /\ pc[p] = "run" => dirs[dir[p]].log # {}
    /\ plan[p] # NoPlan /\ plan[p].executed =>
         dir[p] \in Dirs /\ dirs[dir[p]].log # {}
Logged == \A p \in Launchers : LoggedOf(p)

TypeInv == TypeOK /\ Control
IndInv == TypeInv /\ Numbered /\ Logged /\ ExecutedIsLogged /\ NothingRunUnasked

-----------------------------------------------------------------------------
\* Writing a run directory's log changes that log and nothing else.
LEMMA WriteLog ==
    ASSUME TypeOK, NEW d \in Dirs, NEW l \in SUBSET (1..MaxRuns),
           Write(d, "log", l)
    PROVE  /\ dirs' \in [Dirs -> RunFiles]
           /\ dirs'[d].log = l
           /\ \A e \in Dirs : e # d => dirs'[e] = dirs[e]
           /\ \A e \in Dirs : dirs'[e].plan = dirs[e].plan
           /\ \A e \in Dirs : dirs'[e].answers = dirs[e].answers
           /\ \A e \in Dirs : dirs'[e].delegated = dirs[e].delegated
  BY DEF Write, TypeOK, RunFiles

\* The same for the plan, ...
LEMMA WritePlan ==
    ASSUME TypeOK, NEW d \in Dirs, NEW l \in Plans, Write(d, "plan", l)
    PROVE  /\ dirs' \in [Dirs -> RunFiles]
           /\ dirs'[d].plan = l
           /\ \A e \in Dirs : e # d => dirs'[e] = dirs[e]
           /\ \A e \in Dirs : dirs'[e].log = dirs[e].log
           /\ \A e \in Dirs : dirs'[e].answers = dirs[e].answers
           /\ \A e \in Dirs : dirs'[e].delegated = dirs[e].delegated
  BY DEF Write, TypeOK, RunFiles

\* ... the answers ...
LEMMA WriteAnswers ==
    ASSUME TypeOK, NEW d \in Dirs, NEW l \in AnswerFields,
           Write(d, "answers", l)
    PROVE  /\ dirs' \in [Dirs -> RunFiles]
           /\ dirs'[d].answers = l
           /\ \A e \in Dirs : dirs'[e].delegated = dirs[e].delegated
           /\ \A e \in Dirs : dirs'[e].log = dirs[e].log
           /\ \A e \in Dirs : dirs'[e].plan = dirs[e].plan
  BY DEF Write, TypeOK, RunFiles

\* ... and the delegated document.
LEMMA WriteDelegated ==
    ASSUME TypeOK, NEW d \in Dirs, NEW l \in Delegated \cup {EmptyDoc},
           Write(d, "delegated", l)
    PROVE  /\ dirs' \in [Dirs -> RunFiles]
           /\ dirs'[d].delegated = l
           /\ \A e \in Dirs : dirs'[e].log = dirs[e].log
           /\ \A e \in Dirs : dirs'[e].plan = dirs[e].plan
  BY DEF Write, TypeOK, RunFiles

\* The directory asked for is a run directory, whenever it is asked for.
LEMMA OutDirType ==
    ASSUME TypeOK, NEW p \in Launchers
    PROVE  OutDir(p) \in Dirs
  BY CommandAssumption DEF OutDir, TypeOK, CommandLines, Dirs

\* What --answers may name becomes answers.
LEMMA LoadedType ==
    ASSUME NEW d \in Documents
    PROVE  LoadedAnswers(d) \in AnswerFields /\ d.schema \in Schemas
  BY CommandAssumption DEF LoadedAnswers, AnswerFields, DocumentFields

\* The delegate reads a document or finds none.
LEMMA AppliedType ==
    ASSUME TypeInv, NEW p \in Launchers, pc[p] = "run"
    PROVE  (IF plan[p].file = NoDir THEN NoDoc
            ELSE dirs[plan[p].file].delegated)
             \in Delegated \cup {EmptyDoc, NoDoc}
  BY DEF TypeInv, TypeOK, Control, ControlOf, RunFiles

-----------------------------------------------------------------------------
(* Types and control.                                                      *)

\* Every action of the wizard keeps the types.
LEMMA TypesStep == TypeInv /\ Numbered /\ [Next]_vars => TypeOK'
  <1> SUFFICES ASSUME TypeInv, Numbered, [Next]_vars
               PROVE  TypeOK'
    OBVIOUS
  <1> USE DEF Goto
  <1>1. ASSUME NEW p \in Launchers, Begin(p) PROVE TypeOK'
    <2>1. PICK c \in Commands :
            /\ cmd' = [cmd EXCEPT ![p] = c]
            /\ schema' = [schema EXCEPT ![p] =
                            IF c.schema = NoSchema THEN DefaultSchema
                            ELSE c.schema]
            /\ pc' = [pc EXCEPT ![p] = IF c.menu THEN "menu" ELSE "load"]
      BY <1>1 DEF Begin
    <2>2. c.schema \in Schemas \cup {NoSchema} /\ DefaultSchema \in Schemas
          /\ runs + 1 \in 0..MaxRuns
      BY <1>1, CommandAssumption DEF CommandLines, Begin, TypeInv, TypeOK
    <2>3. schema' \in [Launchers -> Schemas]
      BY <2>1, <2>2 DEF TypeInv, TypeOK
    <2>4. pc' \in [Launchers -> Stages] /\ cmd' \in [Launchers -> Commands]
      BY <2>1 DEF TypeInv, TypeOK, Stages
    <2>5. QED BY <1>1, <2>2, <2>3, <2>4 DEF Begin, TypeInv, TypeOK
  <1>2. ASSUME NEW p \in Launchers, Load(p) PROVE TypeOK'
    <2>1. PICK d \in Documents :
            \/ /\ answers' = [answers EXCEPT ![p] = LoadedAnswers(d)]
               /\ schema' = [schema EXCEPT ![p] =
                     IF d.wizard = "launcher" /\ cmd[p].schema = NoSchema
                     THEN d.schema ELSE @]
               /\ pc' = [pc EXCEPT ![p] = "delegated"]
            \/ /\ pc' = [pc EXCEPT ![p] = "failed"]
               /\ UNCHANGED <<answers, schema>>
      BY <1>2 DEF Load
    <2>2. answers' \in [Launchers -> AnswerFields \cup {NoAnswers}]
      BY <2>1, LoadedType DEF TypeInv, TypeOK
    <2>3. schema' \in [Launchers -> Schemas]
      BY <2>1, LoadedType DEF TypeInv, TypeOK
    <2>4. pc' \in [Launchers -> Stages]
      BY <2>1 DEF TypeInv, TypeOK, Stages
    <2>5. QED BY <1>2, <2>2, <2>3, <2>4 DEF Load, TypeInv, TypeOK
  <1>3. ASSUME NEW p \in Launchers, Menu(p) PROVE TypeOK'
    <2>1. pc' \in [Launchers -> Stages]
      BY <1>3 DEF Menu, TypeInv, TypeOK, Stages
    <2>2. answers' \in [Launchers -> AnswerFields \cup {NoAnswers}]
      BY <1>3 DEF Menu, TypeInv, TypeOK, AnswerFields, Actions
    <2>3. QED BY <1>3, <2>1, <2>2 DEF Menu, TypeInv, TypeOK
  <1>4. ASSUME NEW p \in Launchers, RunInteractive(p) PROVE TypeOK'
    <2>1. pc' \in [Launchers -> Stages]
      BY <1>4 DEF RunInteractive, TypeInv, TypeOK, Stages
    <2>2. written' \in [Launchers -> Delegated \cup {NoDoc}]
      BY <1>4, CommandAssumption
      DEF RunInteractive, TypeInv, TypeOK, DocumentFields
    <2>3. QED BY <1>4, <2>1, <2>2 DEF RunInteractive, TypeInv, TypeOK
  <1>5. ASSUME NEW p \in Launchers, EmitCaptured(p) PROVE TypeOK'
    <2>1. emitted' \in Emissions
      BY <1>5
      DEF EmitCaptured, TypeInv, TypeOK, Control, ControlOf, Emissions,
          AnswerFields
    <2>2. QED BY <1>5, <2>1 DEF EmitCaptured, TypeInv, TypeOK, Stages
  <1>6. ASSUME NEW p \in Launchers, PersistDelegated(p) PROVE TypeOK'
    <2>1. /\ answers[p].delegate \in Delegated \cup {EmptyDoc, NoDoc, BadDoc}
          /\ OutDir(p) \in Dirs /\ pc[p] = "delegated"
      BY <1>6, OutDirType
      DEF PersistDelegated, TypeInv, Control, ControlOf, AnswerFields
    <2>2. \/ UNCHANGED <<dirs, dir>>
          \/ /\ answers[p].delegate \in Delegated \cup {EmptyDoc}
             /\ Write(OutDir(p), "delegated", answers[p].delegate)
             /\ dir' = [dir EXCEPT ![p] = OutDir(p)]
      BY <1>6, <2>1 DEF PersistDelegated
    <2>3. dirs' \in [Dirs -> RunFiles]
      BY <2>1, <2>2, WriteDelegated DEF TypeInv, TypeOK
    <2>4. dir' \in [Launchers -> Dirs \cup {NoDir}]
      BY <2>1, <2>2 DEF TypeInv, TypeOK
    <2>5. pc' \in [Launchers -> Stages]
      BY <1>6 DEF PersistDelegated, TypeInv, TypeOK, Stages
    <2>6. QED BY <1>6, <2>3, <2>4, <2>5 DEF PersistDelegated, TypeInv, TypeOK
  <1>7. ASSUME NEW p \in Launchers, BuildPlan(p) PROVE TypeOK'
    <2>1. OutDir(p) \in Dirs /\ dir[p] \in Dirs \cup {NoDir}
          /\ cmd[p].dry \in BOOLEAN
      BY OutDirType, CommandAssumption DEF TypeInv, TypeOK, CommandLines
    <2>2. \/ UNCHANGED plan
          \/ /\ answers[p].action \in Actions
             /\ plan' = [plan EXCEPT ![p] =
                  [action |-> answers[p].action, file |-> dir[p],
                   dry |-> cmd[p].dry, executed |-> FALSE]]
      BY <1>7 DEF BuildPlan
    <2>3. answers[p].action \in Actions =>
            [action |-> answers[p].action, file |-> dir[p],
             dry |-> cmd[p].dry, executed |-> FALSE] \in Plans
      BY <2>1 DEF Plans
    <2>4. plan' \in [Launchers -> Plans \cup {NoPlan}]
      BY <2>2, <2>3 DEF TypeInv, TypeOK
    <2>5. dir' \in [Launchers -> Dirs \cup {NoDir}]
      BY <1>7, <2>1 DEF BuildPlan, TypeInv, TypeOK
    <2>6. pc' \in [Launchers -> Stages]
      BY <1>7 DEF BuildPlan, TypeInv, TypeOK, Stages
    <2>7. QED BY <1>7, <2>4, <2>5, <2>6 DEF BuildPlan, TypeInv, TypeOK
  <1>8. ASSUME NEW p \in Launchers, PersistAnswers(p) PROVE TypeOK'
    <2>1. dirs' \in [Dirs -> RunFiles]
      BY <1>8, WriteAnswers
      DEF PersistAnswers, TypeInv, Control, ControlOf, Persisting
    <2>2. QED BY <1>8, <2>1 DEF PersistAnswers, TypeInv, TypeOK, Stages
  <1>9. ASSUME NEW p \in Launchers, PersistPlan(p) PROVE TypeOK'
    <2>1. dirs' \in [Dirs -> RunFiles]
      BY <1>9, WritePlan
      DEF PersistPlan, TypeInv, Control, ControlOf, Persisting
    <2>2. AfterPlan(p) \in Stages
      BY DEF AfterPlan, Stages
    <2>3. QED BY <1>9, <2>1, <2>2 DEF PersistPlan, TypeInv, TypeOK
  <1>10. ASSUME NEW p \in Launchers, Confirm(p) PROVE TypeOK'
    BY <1>10 DEF Confirm, TypeInv, TypeOK, Stages
  <1>11. ASSUME NEW p \in Launchers, LogRun(p) PROVE TypeOK'
    <2>1. /\ dir[p] \in Dirs /\ id[p] \in 1..MaxRuns
          /\ dirs[dir[p]].log \in SUBSET (1..MaxRuns)
      BY <1>11
      DEF LogRun, TypeInv, TypeOK, Control, ControlOf, Persisting, RunFiles,
          Numbered
    <2>2. dirs' \in [Dirs -> RunFiles]
      BY <1>11, <2>1, WriteLog DEF LogRun, TypeInv
    <2>3. QED BY <1>11, <2>2 DEF LogRun, TypeInv, TypeOK, Stages
  <1>12. ASSUME NEW p \in Launchers, RunDelegate(p) PROVE TypeOK'
    <2>1. applied' \in [Launchers -> Delegated \cup {EmptyDoc, NoDoc}]
      BY <1>12, AppliedType DEF RunDelegate, TypeInv, TypeOK
    <2>2. \/ UNCHANGED plan
          \/ plan' = [plan EXCEPT ![p] = [plan[p] EXCEPT !.executed = TRUE]]
      BY <1>12 DEF RunDelegate, TypeInv, TypeOK
    <2>3. plan[p] \in Plans
      BY <1>12 DEF RunDelegate, TypeInv, Control, ControlOf, Persisting
    <2>4. [plan[p] EXCEPT !.executed = TRUE] \in Plans
      BY <2>3 DEF Plans
    <2>5. plan' \in [Launchers -> Plans \cup {NoPlan}]
      BY <2>2, <2>4 DEF TypeInv, TypeOK
    <2>6. pc' \in [Launchers -> Stages]
      BY <1>12 DEF RunDelegate, TypeInv, TypeOK, Stages
    <2>7. QED BY <1>12, <2>1, <2>5, <2>6 DEF RunDelegate, TypeInv, TypeOK
  <1>13. ASSUME NEW p \in Launchers, Emit(p) PROVE TypeOK'
    <2>1. emitted' \in Emissions
      BY <1>13
      DEF Emit, TypeInv, TypeOK, Control, ControlOf, Persisting, Emissions
    <2>2. QED BY <1>13, <2>1 DEF Emit, TypeInv, TypeOK, Stages
  <1>14. ASSUME NEW p \in Launchers, Stop(p) PROVE TypeOK'
    BY <1>14 DEF Stop, TypeInv, TypeOK, Stages
  <1>15. ASSUME Tick \/ UNCHANGED vars PROVE TypeOK'
    BY <1>15, CommandAssumption DEF Tick, vars, TypeInv, TypeOK, RunDirs
  <1>16. QED
    BY <1>1, <1>2, <1>3, <1>4, <1>5, <1>6, <1>7, <1>8, <1>9, <1>10, <1>11,
       <1>12, <1>13, <1>14, <1>15 DEF Next, Step

ActsAs(p) == Begin(p) \/ Step(p) \/ Stop(p)

\* A launcher's command changes nothing of another's.
LEMMA OthersUnchanged ==
    ASSUME TypeInv, NEW p \in Launchers, ActsAs(p),
           NEW q \in Launchers, q # p
    PROVE  /\ pc'[q] = pc[q] /\ cmd'[q] = cmd[q] /\ id'[q] = id[q]
           /\ answers'[q] = answers[q] /\ plan'[q] = plan[q]
           /\ dir'[q] = dir[q] /\ written'[q] = written[q]
  <1> USE DEF Goto, TypeInv, TypeOK
  <1>1. CASE Begin(p) BY <1>1 DEF Begin
  <1>2. CASE Load(p) BY <1>2 DEF Load
  <1>3. CASE Menu(p) BY <1>3 DEF Menu
  <1>4. CASE RunInteractive(p) BY <1>4 DEF RunInteractive
  <1>5. CASE EmitCaptured(p) BY <1>5 DEF EmitCaptured
  <1>6. CASE PersistDelegated(p) BY <1>6 DEF PersistDelegated
  <1>7. CASE BuildPlan(p) BY <1>7 DEF BuildPlan
  <1>8. CASE PersistAnswers(p) BY <1>8 DEF PersistAnswers
  <1>9. CASE PersistPlan(p) BY <1>9 DEF PersistPlan
  <1>10. CASE Confirm(p) BY <1>10 DEF Confirm
  <1>11. CASE LogRun(p) BY <1>11 DEF LogRun
  <1>12. CASE RunDelegate(p) BY <1>12 DEF RunDelegate
  <1>13. CASE Emit(p) BY <1>13 DEF Emit
  <1>14. CASE Stop(p) BY <1>14 DEF Stop
  <1>15. QED
    BY <1>1, <1>2, <1>3, <1>4, <1>5, <1>6, <1>7, <1>8, <1>9, <1>10, <1>11,
       <1>12, <1>13, <1>14 DEF ActsAs, Step

\* Each stage hands the next what it needs.
LEMMA OwnControl ==
    ASSUME TypeInv, NEW p \in Launchers, ActsAs(p)
    PROVE  ControlOf(p)'
  <1> USE DEF Goto, TypeInv, TypeOK
  <1>1. ControlOf(p) BY DEF Control
  <1>2. CASE Begin(p)
    <2>1. pc'[p] \in {"menu", "load"} /\ plan'[p] = NoPlan
      BY <1>2 DEF Begin
    <2>2. QED BY <2>1 DEF ControlOf, Persisting, Ended
  <1>3. CASE Load(p)
    <2>1. /\ pc[p] = "load" /\ plan'[p] = plan[p]
          /\ \/ pc'[p] = "delegated" /\ answers'[p] \in AnswerFields
             \/ pc'[p] = "failed"
      BY <1>3, LoadedType DEF Load
    <2>2. QED BY <1>1, <2>1 DEF ControlOf, Persisting, Ended
  <1>4. CASE Menu(p)
    <2>1. /\ pc[p] = "menu" /\ plan'[p] = plan[p]
          /\ \/ pc'[p] \in {"delegated", "delegate"}
                /\ answers'[p] \in AnswerFields
                /\ answers'[p].action \in Actions
             \/ pc'[p] \in {"done", "failed"}
      BY <1>4 DEF Menu, AnswerFields
    <2>2. QED BY <1>1, <2>1 DEF ControlOf, Persisting, Ended
  <1>5. CASE RunInteractive(p)
    <2>1. /\ pc[p] = "delegate" /\ plan'[p] = plan[p]
          /\ answers'[p] = answers[p]
          /\ \/ pc'[p] = "capture" /\ written'[p] \in Delegated
             \/ pc'[p] \in {"menu", "failed"}
      BY <1>5, CommandAssumption DEF RunInteractive, DocumentFields
    <2>2. QED BY <1>1, <2>1 DEF ControlOf, Persisting, Ended
  <1>6. CASE EmitCaptured(p)
    BY <1>6 DEF EmitCaptured, ControlOf, Persisting, Ended
  <1>7. CASE PersistDelegated(p)
    <2>1. /\ pc[p] = "delegated" /\ pc'[p] \in {"plan", "failed"}
          /\ plan'[p] = plan[p] /\ answers'[p] = answers[p]
      BY <1>7 DEF PersistDelegated
    <2>2. QED BY <1>1, <2>1 DEF ControlOf, Persisting, Ended
  <1>8. CASE BuildPlan(p)
    <2>1. OutDir(p) \in Dirs /\ dir[p] \in Dirs \cup {NoDir}
          /\ cmd[p].dry \in BOOLEAN
      BY OutDirType, CommandAssumption DEF CommandLines
    <2>2. /\ pc[p] = "plan" /\ answers'[p] = answers[p]
          /\ \/ pc'[p] = "failed"
             \/ /\ pc'[p] = "answers"
                /\ answers[p].action \in Actions
                /\ dir'[p] = OutDir(p)
                /\ plan'[p] = [action |-> answers[p].action, file |-> dir[p],
                               dry |-> cmd[p].dry, executed |-> FALSE]
      BY <1>8 DEF BuildPlan
    <2>3. answers[p].action \in Actions =>
            [action |-> answers[p].action, file |-> dir[p],
             dry |-> cmd[p].dry, executed |-> FALSE] \in Plans
      BY <2>1 DEF Plans
    <2>4. pc'[p] = "answers" => plan'[p] \in Plans /\ dir'[p] \in Dirs
      BY <2>1, <2>2, <2>3
    <2>5. QED BY <1>1, <2>2, <2>4 DEF ControlOf, Persisting, Ended
  <1>9. CASE PersistAnswers(p)
    <2>1. /\ pc[p] = "answers" /\ pc'[p] = "plan_file"
          /\ UNCHANGED <<answers, plan, dir>>
      BY <1>9 DEF PersistAnswers
    <2>2. QED BY <1>1, <2>1 DEF ControlOf, Persisting, Ended
  <1>10. CASE PersistPlan(p)
    <2>1. /\ pc[p] = "plan_file" /\ pc'[p] \in {"confirm", "emit", "done"}
          /\ pc'[p] = "confirm" => ~cmd[p].dry
          /\ UNCHANGED <<answers, plan, dir, cmd>>
      BY <1>10 DEF PersistPlan, AfterPlan
    <2>2. QED BY <1>1, <2>1 DEF ControlOf, Persisting, Ended
  <1>11. CASE Confirm(p)
    <2>1. /\ pc[p] = "confirm"
          /\ \/ /\ pc'[p] = "log"
                /\ cmd[p].yes \/ cmd[p].unattended \/ cmd[p].tty
             \/ pc'[p] = "failed"
          /\ UNCHANGED <<answers, plan, dir, cmd>>
      BY <1>11 DEF Confirm
    <2>2. QED BY <1>1, <2>1 DEF ControlOf, Persisting, Ended, Asked
  <1>12. CASE LogRun(p)
    <2>1. /\ pc[p] = "log" /\ pc'[p] = "run"
          /\ UNCHANGED <<answers, plan, dir, cmd>>
      BY <1>12 DEF LogRun
    <2>2. plan[p].file \in Dirs \cup {NoDir}
      BY <1>1, <2>1 DEF ControlOf, Persisting, Plans
    <2>3. QED BY <1>1, <2>1, <2>2 DEF ControlOf, Persisting, Ended, Asked
  <1>13. CASE RunDelegate(p)
    <2>1. plan[p] \in Plans /\ pc[p] = "run"
      BY <1>1, <1>13 DEF RunDelegate, ControlOf, Persisting
    <2>2. [plan[p] EXCEPT !.executed = TRUE] \in Plans
      BY <2>1 DEF Plans
    <2>3. /\ \/ /\ pc'[p] = "answers"
                /\ plan'[p] = [plan[p] EXCEPT !.executed = TRUE]
             \/ pc'[p] = "failed"
          /\ UNCHANGED <<answers, dir, cmd>>
      BY <1>13 DEF RunDelegate
    <2>4. QED BY <1>1, <2>1, <2>2, <2>3 DEF ControlOf, Persisting, Ended
  <1>14. CASE Emit(p) BY <1>14 DEF Emit, ControlOf, Persisting, Ended
  <1>15. CASE Stop(p) BY <1>15 DEF Stop, ControlOf, Persisting, Ended
  <1>16. QED
    BY <1>2, <1>3, <1>4, <1>5, <1>6, <1>7, <1>8, <1>9, <1>10, <1>11, <1>12,
       <1>13, <1>14, <1>15 DEF ActsAs, Step

\* Every step keeps what each stage relies on.
LEMMA ControlStep == TypeInv /\ [Next]_vars => Control'
  <1> SUFFICES ASSUME TypeInv, [Next]_vars, NEW q \in Launchers
               PROVE  ControlOf(q)'
    BY DEF Control
  <1>1. ControlOf(q) BY DEF TypeInv, Control
  <1>2. ASSUME NEW p \in Launchers, ActsAs(p) PROVE ControlOf(q)'
    <2>1. CASE q = p BY <1>2, <2>1, OwnControl
    <2>2. CASE q # p
      <3>1. /\ pc'[q] = pc[q] /\ cmd'[q] = cmd[q]
            /\ answers'[q] = answers[q] /\ plan'[q] = plan[q]
            /\ dir'[q] = dir[q] /\ written'[q] = written[q]
        BY <1>2, <2>2, OthersUnchanged
      <3>2. QED BY <1>1, <3>1 DEF ControlOf, Asked
    <2>3. QED BY <2>1, <2>2
  <1>3. CASE Tick \/ UNCHANGED vars
    BY <1>1, <1>3 DEF Tick, vars, ControlOf, Asked
  <1>4. QED BY <1>2, <1>3 DEF Next, ActsAs

-----------------------------------------------------------------------------
(* Numbers, logs and plans on disk.                                        *)

\* LogRun adds the command's own number to its directory's log.
LEMMA LogGains ==
    ASSUME TypeInv, Numbered, NEW p \in Launchers, LogRun(p)
    PROVE  /\ dir[p] \in Dirs /\ id[p] # 0
           /\ dirs'[dir[p]].log = dirs[dir[p]].log \cup {id[p]}
           /\ \A e \in Dirs : e # dir[p] => dirs'[e] = dirs[e]
           /\ \A e \in Dirs : dirs'[e].plan = dirs[e].plan
  <1>1. /\ dir[p] \in Dirs /\ id[p] \in 1..MaxRuns
        /\ dirs[dir[p]].log \in SUBSET (1..MaxRuns)
    BY DEF LogRun, TypeInv, TypeOK, Control, ControlOf, Persisting, RunFiles,
           Numbered
  <1>2. /\ dirs[dir[p]].log \cup {id[p]} \in SUBSET (1..MaxRuns)
        /\ Write(dir[p], "log", dirs[dir[p]].log \cup {id[p]})
    BY <1>1 DEF LogRun
  <1>3. QED BY <1>1, <1>2, WriteLog DEF TypeInv

\* PersistPlan puts the launcher's plan in its directory.
LEMMA PlanPut ==
    ASSUME TypeInv, NEW p \in Launchers, PersistPlan(p)
    PROVE  /\ dir[p] \in Dirs /\ dirs'[dir[p]].plan = plan[p]
           /\ \A e \in Dirs : e # dir[p] => dirs'[e] = dirs[e]
           /\ \A e \in Dirs : dirs'[e].log = dirs[e].log
  <1>1. /\ dir[p] \in Dirs /\ plan[p] \in Plans
        /\ Write(dir[p], "plan", plan[p])
    BY DEF PersistPlan, TypeInv, Control, ControlOf, Persisting
  <1>2. QED BY <1>1, WritePlan DEF TypeInv

\* Nothing else touches a log or a plan on disk.
LEMMA OnDisk ==
    ASSUME TypeInv, Numbered, NEW p \in Launchers, ActsAs(p), NEW d \in Dirs
    PROVE  /\ \/ dirs'[d].log = dirs[d].log
              \/ LogRun(p) /\ dirs'[d].log = dirs[d].log \cup {id[p]}
           /\ \/ dirs'[d].plan = dirs[d].plan
              \/ PersistPlan(p) /\ d = dir[p] /\ dirs'[d].plan = plan[p]
  <1>1. CASE UNCHANGED dirs BY <1>1
  <1>2. CASE PersistDelegated(p)
    <2>1. /\ answers[p].delegate \in Delegated \cup {EmptyDoc, NoDoc, BadDoc}
          /\ OutDir(p) \in Dirs
      BY <1>2, OutDirType
      DEF PersistDelegated, TypeInv, Control, ControlOf, AnswerFields
    <2>2. \/ UNCHANGED dirs
          \/ /\ answers[p].delegate \in Delegated \cup {EmptyDoc}
             /\ Write(OutDir(p), "delegated", answers[p].delegate)
      BY <1>2, <2>1 DEF PersistDelegated
    <2>3. QED BY <2>1, <2>2, WriteDelegated DEF TypeInv
  <1>3. CASE PersistAnswers(p)
    BY <1>3, WriteAnswers
    DEF PersistAnswers, TypeInv, Control, ControlOf, Persisting
  <1>4. CASE PersistPlan(p) BY <1>4, PlanPut
  <1>5. CASE LogRun(p) BY <1>5, LogGains
  <1>6. QED
    BY <1>1, <1>2, <1>3, <1>4, <1>5
    DEF ActsAs, Step, Begin, Load, Menu, RunInteractive, EmitCaptured,
        BuildPlan, Confirm, RunDelegate, Emit, Stop

\* After it has begun, a command keeps its number and its command line.
LEMMA KeepsNumber ==
    ASSUME NEW p \in Launchers, Step(p) \/ Stop(p)
    PROVE  UNCHANGED <<id, runs, cmd>> /\ pc[p] # "idle"
  BY DEF Step, Load, Menu, RunInteractive, EmitCaptured, PersistDelegated,
         BuildPlan, PersistAnswers, PersistPlan, Confirm, LogRun, RunDelegate,
         Emit, Stop, Ended

\* A command's number is its own, and no log has a number not given yet.
LEMMA NumberedStep == TypeInv /\ Numbered /\ [Next]_vars => Numbered'
  <1> SUFFICES ASSUME TypeInv, Numbered, [Next]_vars
               PROVE  Numbered'
    OBVIOUS
  <1>1. ASSUME NEW p \in Launchers, Begin(p) PROVE Numbered'
    <2>1. /\ runs \in Nat /\ runs' = runs + 1 /\ UNCHANGED dirs
          /\ id' = [id EXCEPT ![p] = runs + 1]
          /\ id \in [Launchers -> 0..MaxRuns] /\ MaxRuns \in Nat
      BY <1>1, CommandAssumption DEF Begin, TypeInv, TypeOK
    <2>2. \A q \in Launchers : q # p => pc'[q] = pc[q]
      BY <1>1, OthersUnchanged DEF ActsAs
    <2>3. QED BY <2>1, <2>2 DEF Numbered
  <1>2. ASSUME NEW p \in Launchers, Step(p) \/ Stop(p) PROVE Numbered'
    <2>1. UNCHANGED <<id, runs>> /\ pc[p] # "idle"
      BY <1>2, KeepsNumber
    <2>2. \A q \in Launchers : q # p => pc'[q] = pc[q]
      BY <1>2, OthersUnchanged DEF ActsAs
    <2>3. runs \in Nat /\ id[p] \in 1..runs
      BY <2>1, CommandAssumption DEF Numbered, TypeInv, TypeOK
    <2>4. \A d \in Dirs : dirs'[d].log \subseteq dirs[d].log \cup {id[p]}
      BY <1>2, OnDisk DEF ActsAs
    <2>5. QED BY <2>1, <2>2, <2>3, <2>4 DEF Numbered
  <1>3. CASE Tick \/ UNCHANGED vars BY <1>3 DEF Tick, vars, Numbered
  <1>4. QED BY <1>1, <1>2, <1>3 DEF Next

\* A launcher that runs its command, or has run it, has logged it.
LEMMA LoggedStep == TypeInv /\ Numbered /\ Logged /\ [Next]_vars => Logged'
  <1> SUFFICES ASSUME TypeInv, Numbered, Logged, [Next]_vars,
                      NEW q \in Launchers
               PROVE  LoggedOf(q)'
    BY DEF Logged
  <1>1. LoggedOf(q) /\ ControlOf(q) BY DEF Logged, TypeInv, Control
  <1>2. ASSUME NEW p \in Launchers, ActsAs(p) PROVE LoggedOf(q)'
    <2>1. \A d \in Dirs : dirs[d].log # {} => dirs'[d].log # {}
      BY <1>2, OnDisk
    <2>2. CASE plan'[q] = plan[q] /\ dir'[q] = dir[q]
                 /\ (pc'[q] = "run" => pc[q] = "run")
      BY <1>1, <2>1, <2>2 DEF LoggedOf, ControlOf, Persisting
    <2>3. CASE q # p
      BY <1>2, <2>2, <2>3, OthersUnchanged
    <2>4. CASE q = p
      <3> USE DEF Goto, TypeInv, TypeOK
      <3>1. CASE Begin(p)
        <4>1. plan'[p] = NoPlan /\ pc'[p] # "run"
          BY <1>2, <3>1 DEF Begin
        <4>2. QED BY <2>4, <4>1 DEF LoggedOf
      <3>2. CASE PersistDelegated(p)
        <4>1. plan'[p] = NoPlan /\ pc'[p] # "run"
          BY <1>1, <2>4, <3>2
          DEF PersistDelegated, ControlOf, Persisting, Ended
        <4>2. QED BY <2>4, <4>1 DEF LoggedOf
      <3>3. CASE BuildPlan(p)
        <4>1. /\ pc'[p] # "run"
              /\ \/ plan'[p] = plan[p] /\ dir'[p] = dir[p]
                 \/ plan'[p].executed = FALSE
          BY <3>3 DEF BuildPlan
        <4>2. QED BY <2>2, <2>4, <4>1 DEF LoggedOf
      <3>4. CASE LogRun(p)
        <4>1. /\ dir[p] \in Dirs /\ dirs'[dir[p]].log # {}
              /\ UNCHANGED <<plan, dir>>
          BY <3>4, LogGains DEF LogRun
        <4>2. QED BY <2>4, <4>1 DEF LoggedOf
      <3>5. CASE RunDelegate(p)
        <4>1. /\ pc[p] = "run" /\ dir[p] \in Dirs /\ pc'[p] # "run"
              /\ UNCHANGED <<dir, dirs>>
          BY <1>1, <2>4, <3>5 DEF RunDelegate, ControlOf, Persisting
        <4>2. QED BY <1>1, <2>4, <4>1 DEF LoggedOf
      <3>6. CASE /\ UNCHANGED <<plan, dir>> /\ pc'[p] # "run"
        BY <2>2, <2>4, <3>6
      <3>7. AfterPlan(p) # "run" BY DEF AfterPlan
      <3>8. QED
        BY <1>2, <3>1, <3>2, <3>3, <3>4, <3>5, <3>6, <3>7
        DEF ActsAs, Step, Load, Menu, RunInteractive, EmitCaptured,
            PersistAnswers, PersistPlan, Confirm, Emit, Stop
    <2>5. QED BY <2>3, <2>4
  <1>3. CASE Tick \/ UNCHANGED vars BY <1>1, <1>3 DEF Tick, vars, LoggedOf
  <1>4. QED BY <1>2, <1>3 DEF Next, ActsAs

\* A plan on disk marked as executed was in a launcher's hands before.
LEMMA ExecutedStep ==
    TypeInv /\ Numbered /\ Logged /\ ExecutedIsLogged /\ [Next]_vars
      => ExecutedIsLogged'
  <1> SUFFICES ASSUME TypeInv, Numbered, Logged, ExecutedIsLogged,
                      [Next]_vars, NEW d \in Dirs,
                      dirs'[d].plan # NoPlan, dirs'[d].plan.executed
               PROVE  dirs'[d].log # {}
    BY DEF ExecutedIsLogged
  <1>1. ASSUME NEW p \in Launchers, ActsAs(p) PROVE dirs'[d].log # {}
    <2>1. dirs[d].log # {} => dirs'[d].log # {}
      BY <1>1, OnDisk
    <2>2. CASE dirs'[d].plan = dirs[d].plan
      BY <2>1, <2>2 DEF ExecutedIsLogged
    <2>3. CASE d = dir[p] /\ dirs'[d].plan = plan[p]
      BY <2>1, <2>3 DEF Logged, LoggedOf
    <2>4. QED BY <1>1, <2>2, <2>3, OnDisk
  <1>2. CASE Tick \/ UNCHANGED vars
    BY <1>2 DEF Tick, vars, ExecutedIsLogged
  <1>3. QED BY <1>1, <1>2 DEF Next, ActsAs

\* The log gains only the number of a command that was confirmed.
LEMMA UnaskedStep ==
    TypeInv /\ Numbered /\ NothingRunUnasked /\ [Next]_vars
      => NothingRunUnasked'
  <1> SUFFICES ASSUME TypeInv, Numbered, NothingRunUnasked, [Next]_vars,
                      NEW q \in Launchers, NEW d \in Dirs,
                      id'[q] \in dirs'[d].log
               PROVE  Asked(q)'
    BY DEF NothingRunUnasked, Asked
  <1>1. ASSUME NEW p \in Launchers, Begin(p) PROVE Asked(q)'
    <2>1. /\ UNCHANGED dirs /\ runs \in Nat /\ dirs[d].log \subseteq 1..runs
          /\ id'[p] = runs + 1
      BY <1>1, CommandAssumption DEF Begin, TypeInv, TypeOK, Numbered
    <2>2. q # p BY <2>1
    <2>3. id'[q] = id[q] /\ cmd'[q] = cmd[q]
      BY <1>1, <2>2, OthersUnchanged DEF ActsAs
    <2>4. QED BY <2>1, <2>3 DEF NothingRunUnasked, Asked
  <1>2. ASSUME NEW p \in Launchers, Step(p) \/ Stop(p) PROVE Asked(q)'
    <2>1. UNCHANGED <<id, cmd>> BY <1>2, KeepsNumber
    <2>2. CASE id[q] \in dirs[d].log
      BY <2>1, <2>2 DEF NothingRunUnasked, Asked
    <2>3. CASE LogRun(p) /\ id[q] = id[p]
      <3>1. q = p BY <2>3, LogGains DEF Numbered
      <3>2. Asked(p) BY <2>3 DEF LogRun, TypeInv, Control, ControlOf
      <3>3. QED BY <2>1, <3>1, <3>2 DEF Asked
    <2>4. QED BY <1>2, <2>1, <2>2, <2>3, OnDisk DEF ActsAs
  <1>3. CASE Tick \/ UNCHANGED vars
    BY <1>3 DEF Tick, vars, NothingRunUnasked, Asked
  <1>4. QED BY <1>1, <1>2, <1>3 DEF Next

-----------------------------------------------------------------------------
(* The inductive invariant and the theorems.                               *)

\* Nothing has begun and every run directory is empty.
LEMMA InitInv == Init => IndInv
  <1> SUFFICES ASSUME Init PROVE IndInv
    OBVIOUS
  <1>1. (CHOOSE c \in Commands : TRUE) \in Commands
    BY CommandAssumption
  <1>2. TypeOK
    BY <1>1, CommandAssumption
    DEF Init, TypeOK, RunDirs, RunFiles, Stages
  <1>3. Control BY DEF Init, Control, ControlOf, Persisting, Ended
  <1>4. Numbered BY DEF Init, Numbered
  <1>5. Logged BY DEF Init, Logged, LoggedOf
  <1>6. ExecutedIsLogged /\ NothingRunUnasked
    BY DEF Init, ExecutedIsLogged, NothingRunUnasked
  <1>7. QED BY <1>2, <1>3, <1>4, <1>5, <1>6 DEF IndInv, TypeInv

\* Every step keeps the invariant.
LEMMA NextInv == IndInv /\ [Next]_vars => IndInv'
  BY TypesStep, ControlStep, NumberedStep, LoggedStep, ExecutedStep, UnaskedStep
  DEF IndInv, TypeInv

\* The invariant holds in every state.
LEMMA Invariant == Spec => []IndInv
  BY InitInv, NextInv, PTL DEF Spec

\* Every variable has its type, whatever the documents and the interleaving.
THEOREM TypeCorrect == Spec => []TypeOK
  <1>1. IndInv => TypeOK BY DEF IndInv, TypeInv
  <1>2. QED BY <1>1, Invariant, PTL

\* persist_plan_and_answers is called with a marked plan only after
\* append_exec_log wrote to the same directory.
THEOREM ExecutedLogged == Spec => []ExecutedIsLogged
  <1>1. IndInv => ExecutedIsLogged BY DEF IndInv
  <1>2. QED BY <1>1, Invariant, PTL

\* ensure_execute_allowed stands before every command that is run, and a dry
\* run never reaches it.
THEOREM NothingUnasked == Spec => []NothingRunUnasked
  <1>1. IndInv => NothingRunUnasked BY DEF IndInv
  <1>2. QED BY <1>1, Invariant, PTL
-----------------------------------------------------------------------------
(* The files of a launcher that nobody disturbs.                           *)

\* From the merged answers to the end of the command.
Planned(p) == pc[p] \in Persisting \/ (pc[p] = "done" /\ plan[p] # NoPlan)

\* The document, the answers and the plan are where the launcher wrote them,
\* and what the delegate applied is that document.
FilesOf(p) ==
    /\ pc[p] \in {"load", "menu", "delegate", "capture", "delegated"} =>
         dir[p] = NoDir
    /\ pc[p] = "plan" /\ dir[p] # NoDir =>
         dir[p] \in Dirs /\ dirs[dir[p]].delegated = answers[p].delegate
    /\ Planned(p) /\ plan[p].file # NoDir =>
         /\ plan[p].file \in Dirs
         /\ dirs[plan[p].file].delegated = answers[p].delegate
         /\ plan[p].executed => applied[p] = answers[p].delegate
    /\ Planned(p) /\ pc[p] # "answers" => dirs[dir[p]].answers = answers[p]
    /\ Planned(p) /\ pc[p] \notin {"answers", "plan_file"} =>
         dirs[dir[p]].plan = plan[p]

\* A plan is marked between the delegate's success and the command's end.
MarkedOf(p) ==
    /\ Planned(p) /\ plan[p].executed => ~cmd[p].dry
    /\ pc[p] \in {"confirm", "log", "run"} => ~plan[p].executed
    /\ Planned(p) /\ pc[p] \in {"emit", "done"} =>
         (plan[p].executed <=> ~cmd[p].dry)

Undisturbed ==
    \A p \in Launchers : Alone(p) => FilesOf(p) /\ MarkedOf(p)

\* Nobody returns to "idle": a launcher that is alone after a step was alone
\* before it, and the step is its own or the clock's.
LEMMA AloneStep ==
    ASSUME TypeInv, NEW p \in Launchers, [Next]_vars, Alone(p)'
    PROVE  Alone(p) /\ (ActsAs(p) \/ Tick \/ UNCHANGED vars)
  <1>1. CASE Tick \/ UNCHANGED vars
    BY <1>1 DEF Tick, vars, Alone
  <1>2. ASSUME NEW q \in Launchers, ActsAs(q)
        PROVE  pc'[q] # "idle"
    <2> USE DEF Goto, TypeInv, TypeOK
    <2>1. CASE Begin(q) \/ Load(q) \/ Menu(q) \/ RunInteractive(q)
      BY <2>1 DEF Begin, Load, Menu, RunInteractive
    <2>2. CASE EmitCaptured(q) \/ PersistDelegated(q) \/ BuildPlan(q)
      BY <2>2 DEF EmitCaptured, PersistDelegated, BuildPlan
    <2>3. CASE PersistAnswers(q) \/ PersistPlan(q) \/ Confirm(q)
      BY <2>3 DEF PersistAnswers, PersistPlan, AfterPlan, Confirm
    <2>4. CASE LogRun(q) \/ RunDelegate(q) \/ Emit(q) \/ Stop(q)
      BY <2>4 DEF LogRun, RunDelegate, Emit, Stop
    <2>5. QED BY <1>2, <2>1, <2>2, <2>3, <2>4 DEF ActsAs, Step
  <1>3. ASSUME NEW q \in Launchers, ActsAs(q)
        PROVE  Alone(p) /\ ActsAs(p)
    <2>1. q = p BY <1>2, <1>3 DEF Alone
    <2>2. Alone(p) BY <1>3, <2>1, OthersUnchanged DEF Alone
    <2>3. QED BY <1>3, <2>1, <2>2
  <1>4. QED BY <1>1, <1>3 DEF Next, ActsAs

\* A launcher's own step leaves its files as it remembers them and its plan
\* marked as far as it has come.
LEMMA OwnFiles ==
    ASSUME TypeInv, NEW p \in Launchers, ActsAs(p), FilesOf(p), MarkedOf(p)
    PROVE  FilesOf(p)' /\ MarkedOf(p)'
  <1> USE DEF Goto
  <1>1. ControlOf(p) BY DEF TypeInv, Control
  <1>2. CASE Begin(p)
    <2>1. pc'[p] \in {"menu", "load"} /\ plan'[p] = NoPlan /\ dir'[p] = NoDir
      BY <1>2 DEF Begin, TypeInv, TypeOK
    <2>2. QED BY <2>1 DEF FilesOf, MarkedOf, Planned, Persisting
  <1>3. CASE Load(p) \/ Menu(p) \/ RunInteractive(p)
    <2>1. /\ pc[p] \in {"load", "menu", "delegate"}
          /\ pc'[p] \in {"delegated", "menu", "delegate", "capture", "done",
                         "failed"}
          /\ UNCHANGED <<plan, dir>>
      BY <1>3 DEF Load, Menu, RunInteractive, TypeInv, TypeOK
    <2>2. plan[p] = NoPlan
      BY <1>1, <2>1 DEF ControlOf, Persisting, Ended
    <2>3. QED BY <2>1, <2>2 DEF FilesOf, MarkedOf, Planned, Persisting
  <1>4. CASE EmitCaptured(p)
    <2>1. pc[p] = "capture" /\ pc'[p] = "done" /\ UNCHANGED plan
      BY <1>4 DEF EmitCaptured, TypeInv, TypeOK
    <2>2. plan[p] = NoPlan
      BY <1>1, <2>1 DEF ControlOf, Persisting, Ended
    <2>3. QED BY <2>1, <2>2 DEF FilesOf, MarkedOf, Planned, Persisting
  <1>5. CASE PersistDelegated(p)
    <2>1. /\ pc[p] = "delegated" /\ pc'[p] \in {"plan", "failed"}
          /\ UNCHANGED <<plan, answers>>
      BY <1>5 DEF PersistDelegated, TypeInv, TypeOK
    <2>2. /\ dir[p] = NoDir /\ plan[p] = NoPlan /\ OutDir(p) \in Dirs
          /\ answers[p].delegate \in Delegated \cup {EmptyDoc, NoDoc, BadDoc}
      BY <1>1, <2>1, OutDirType
      DEF ControlOf, FilesOf, Persisting, Ended, AnswerFields, TypeInv
    <2>3. \/ dir'[p] = NoDir
          \/ /\ dir'[p] = OutDir(p)
             /\ answers[p].delegate \in Delegated \cup {EmptyDoc}
             /\ Write(OutDir(p), "delegated", answers[p].delegate)
      BY <1>5, <2>2 DEF PersistDelegated, TypeInv, TypeOK
    <2>4. dir'[p] # NoDir =>
            dir'[p] \in Dirs /\ dirs'[dir'[p]].delegated = answers[p].delegate
      BY <2>2, <2>3, WriteDelegated DEF TypeInv
    <2>5. QED BY <2>1, <2>2, <2>4 DEF FilesOf, MarkedOf, Planned, Persisting
  <1>6. CASE BuildPlan(p)
    <2>1. pc[p] = "plan" /\ UNCHANGED <<dirs, answers, cmd>>
          /\ dir[p] \in Dirs \cup {NoDir}
      BY <1>6 DEF BuildPlan, TypeInv, TypeOK
    <2>2. CASE answers[p].action \in Actions
      <3>1. /\ pc'[p] = "answers" /\ ~plan'[p].executed
            /\ plan'[p].file = dir[p]
        BY <1>6, <2>2 DEF BuildPlan, TypeInv, TypeOK
      <3>2. QED BY <2>1, <3>1 DEF FilesOf, MarkedOf, Planned, Persisting
    <2>3. CASE answers[p].action \notin Actions
      <3>1. pc'[p] = "failed"
        BY <1>6, <2>3 DEF BuildPlan, TypeInv, TypeOK
      <3>2. QED BY <3>1 DEF FilesOf, MarkedOf, Planned, Persisting
    <2>4. QED BY <2>2, <2>3
  <1>7. CASE PersistAnswers(p)
    <2>1. /\ pc[p] = "answers" /\ pc'[p] = "plan_file"
          /\ UNCHANGED <<answers, plan, dir, applied, cmd>>
          /\ Write(dir[p], "answers", answers[p])
      BY <1>7 DEF PersistAnswers, TypeInv, TypeOK
    <2>2. dir[p] \in Dirs /\ answers[p] \in AnswerFields
      BY <1>1, <2>1 DEF ControlOf, Persisting
    <2>3. /\ dirs'[dir[p]].answers = answers[p]
          /\ \A e \in Dirs : dirs'[e].delegated = dirs[e].delegated
      BY <2>1, <2>2, WriteAnswers DEF TypeInv
    <2>4. QED BY <2>1, <2>3 DEF FilesOf, MarkedOf, Planned, Persisting
  <1>8. CASE PersistPlan(p)
    <2>1. /\ pc[p] = "plan_file" /\ pc'[p] = AfterPlan(p)
          /\ UNCHANGED <<answers, plan, dir, applied, cmd>>
          /\ Write(dir[p], "plan", plan[p])
      BY <1>8 DEF PersistPlan, AfterPlan, TypeInv, TypeOK
    <2>2. dir[p] \in Dirs /\ plan[p] \in Plans
      BY <1>1, <2>1 DEF ControlOf, Persisting
    <2>3. /\ dirs'[dir[p]].plan = plan[p]
          /\ \A e \in Dirs : /\ dirs'[e].delegated = dirs[e].delegated
                             /\ dirs'[e].answers = dirs[e].answers
      BY <2>1, <2>2, WritePlan DEF TypeInv
    <2>4. plan[p].executed => ~cmd[p].dry
      BY <2>1 DEF MarkedOf, Planned, Persisting
    <2>5. /\ pc'[p] = "confirm" => ~plan[p].executed
          /\ pc'[p] \in {"confirm", "emit", "done"}
          /\ pc'[p] \in {"emit", "done"} => (plan[p].executed <=> ~cmd[p].dry)
      BY <2>1, <2>4 DEF AfterPlan
    <2>6. FilesOf(p)'
      BY <2>1, <2>2, <2>3, <2>5 DEF FilesOf, Planned, Persisting
    <2>7. MarkedOf(p)'
      BY <2>1, <2>4, <2>5 DEF MarkedOf, Planned
    <2>8. QED BY <2>6, <2>7
  <1>9. CASE Confirm(p)
    <2>1. /\ pc[p] = "confirm" /\ pc'[p] \in {"log", "failed"}
          /\ UNCHANGED <<dirs, answers, plan, dir, applied, cmd>>
      BY <1>9 DEF Confirm, TypeInv, TypeOK
    <2>2. QED BY <2>1 DEF FilesOf, MarkedOf, Planned, Persisting
  <1>10. CASE LogRun(p)
    <2>1. /\ pc[p] = "log" /\ pc'[p] = "run"
          /\ UNCHANGED <<answers, plan, dir, applied, cmd>>
          /\ Write(dir[p], "log", dirs[dir[p]].log \cup {id[p]})
      BY <1>10 DEF LogRun, TypeInv, TypeOK
    <2>2. dir[p] \in Dirs
      BY <1>1, <2>1 DEF ControlOf, Persisting
    <2>3. \A e \in Dirs : /\ dirs'[e].delegated = dirs[e].delegated
                          /\ dirs'[e].answers = dirs[e].answers
                          /\ dirs'[e].plan = dirs[e].plan
      BY <2>1, <2>2 DEF Write, TypeInv, TypeOK, RunFiles
    <2>4. QED BY <2>1, <2>2, <2>3 DEF FilesOf, MarkedOf, Planned, Persisting
  <1>11. CASE RunDelegate(p)
    <2>1. /\ pc[p] = "run" /\ UNCHANGED <<dirs, answers, dir, cmd>>
          /\ applied'[p] = IF plan[p].file = NoDir THEN NoDoc
                           ELSE dirs[plan[p].file].delegated
          /\ \/ pc'[p] = "failed"
             \/ /\ pc'[p] = "answers"
                /\ plan'[p] = [plan[p] EXCEPT !.executed = TRUE]
      BY <1>11 DEF RunDelegate, TypeInv, TypeOK
    <2>2. plan[p] \in Plans /\ ~cmd[p].dry
      BY <1>1, <2>1 DEF ControlOf, Persisting, Asked
    <2>3. CASE pc'[p] = "answers"
      <3>1. plan'[p].file = plan[p].file
        BY <2>1, <2>2, <2>3 DEF Plans
      <3>2. QED
        BY <2>1, <2>2, <2>3, <3>1 DEF FilesOf, MarkedOf, Planned, Persisting
    <2>4. CASE pc'[p] = "failed"
      BY <2>4 DEF FilesOf, MarkedOf, Planned, Persisting
    <2>5. QED BY <2>1, <2>3, <2>4
  <1>12. CASE Emit(p)
    <2>1. /\ pc[p] = "emit" /\ pc'[p] = "done"
          /\ UNCHANGED <<dirs, answers, plan, dir, applied, cmd>>
      BY <1>12 DEF Emit, TypeInv, TypeOK
    <2>2. QED BY <2>1 DEF FilesOf, MarkedOf, Planned, Persisting
  <1>13. CASE Stop(p)
    <2>1. pc'[p] = "failed" BY <1>13 DEF Stop, TypeInv, TypeOK
    <2>2. QED BY <2>1 DEF FilesOf, MarkedOf, Planned, Persisting
  <1>14. QED
    BY <1>2, <1>3, <1>4, <1>5, <1>6, <1>7, <1>8, <1>9, <1>10, <1>11, <1>12,
       <1>13 DEF ActsAs, Step

\* Every step keeps the files of a launcher that is alone.
LEMMA UndisturbedStep == TypeInv /\ Undisturbed /\ [Next]_vars => Undisturbed'
  <1> SUFFICES ASSUME TypeInv, Undisturbed, [Next]_vars,
                      NEW p \in Launchers, Alone(p)'
               PROVE  FilesOf(p)' /\ MarkedOf(p)'
    BY DEF Undisturbed
  <1>1. /\ FilesOf(p) /\ MarkedOf(p)
        /\ ActsAs(p) \/ Tick \/ UNCHANGED vars
    BY AloneStep DEF Undisturbed
  <1>2. CASE ActsAs(p) BY <1>1, <1>2, OwnFiles
  <1>3. CASE Tick \/ UNCHANGED vars
    BY <1>1, <1>3 DEF Tick, vars, FilesOf, MarkedOf, Planned
  <1>4. QED BY <1>1, <1>2, <1>3

\* A command that ends well has left answers, plan and document where it wrote
\* them, the plan marked iff the delegate ran, and the delegate applied that
\* document (run_from_inputs), when no other launcher writes to the directory.
THEOREM RunsAreRecorded == Spec => []RunRecorded
  <1>1. Init => Undisturbed
    BY DEF Init, Undisturbed, FilesOf, MarkedOf, Planned, Persisting
  <1>2. IndInv /\ Undisturbed /\ [Next]_vars => Undisturbed'
    BY UndisturbedStep DEF IndInv
  <1>3. Undisturbed => RunRecorded
    BY DEF Undisturbed, FilesOf, MarkedOf, Planned, RunRecorded
  <1>4. QED BY <1>1, <1>2, <1>3, Invariant, PTL DEF Spec
=============================================================================
