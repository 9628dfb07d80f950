------------------------------- MODULE WorkflowProofs -------------------------------
(***************************************************************************)
(* Proofs about the workflow engine, for any stages, steps and objects,    *)
(* any navigation, and any number of calls.                                *)
(***************************************************************************)
EXTENDS WorkflowProperties, TLAPS

\* The call p is inside a stage only when there is one.
Placed(p) ==
  /\ p.stage >= 1 /\ p.step >= 1
  /\ p.pc \in {"steps", "func", "end"} => p.stage <= Len(Stages)

\* What p executes is a step, and is not marked as passed in m.
Executes(p, m) ==
  p.pc \in {"func", "end"} => StepsOf[Stages[p.stage]][p.step] \in Step \ Passed(m)

\* The object that saved the last snapshot, or was restored from it, remembers every
\* step that the snapshot shows as passed.
Remembers ==
  \A i \in Instance :
    owner = i /\ proc[i].call # "none" => Passed(durable) \subseteq Passed(mem[i])

Inv ==
  /\ TypeOK
  /\ \A i \in Instance : Placed(proc[i]) /\ Executes(proc[i], mem[i])
  /\ Remembers

-----------------------------------------------------------------------------
(* The data.                                                               *)

\* A step that has not been passed may take any status, and all that were passed
\* remain so.
LEMMA StatusSet ==
  ASSUME NEW m \in Snapshot, NEW s, NEW status \in StepStatus,
         s \notin Passed(m)
  PROVE  /\ SetStatus(m, s, status) \in Snapshot
         /\ Passed(m) \subseteq Passed(SetStatus(m, s, status))
         /\ status \notin {"completed", "skipped"} => s \notin Passed(SetStatus(m, s, status))
BY DEF Snapshot, SetStatus, Passed

\* The steps of a stage, and what is left of them, are steps.
LEMMA StepsTyped ==
  ASSUME Inv, NEW i \in Instance, proc[i].stage <= Len(Stages)
  PROVE  /\ Steps(i) \in Seq(Step)
         /\ Range(Steps(i)) \subseteq Step
         /\ RestOfStage(i) \subseteq Step
<1>1. proc[i].stage \in 1..Len(Stages) /\ proc[i].step \in Nat
  BY DEF Inv, TypeOK, Placed, Process
<1>2. Steps(i) \in Seq(Step)
  BY <1>1, WorkflowAssumption DEF WorkflowAssumption, Steps, StageOf
<1> QED BY <1>1, <1>2 DEF Range, RestOfStage

LEMMA StepsInTyped ==
  ASSUME NEW lo \in Nat \ {0}
  PROVE  StepsIn(lo, Len(Stages)) \subseteq Step
<1>1. SUFFICES ASSUME NEW g \in lo..Len(Stages) PROVE Range(StepsOf[Stages[g]]) \subseteq Step
  BY DEF StepsIn
<1>2. g \in 1..Len(Stages)
  BY <1>1, WorkflowAssumption DEF WorkflowAssumption
<1>3. StepsOf[Stages[g]] \in Seq(Step)
  BY <1>2, WorkflowAssumption DEF WorkflowAssumption
<1> QED BY <1>3 DEF Range

-----------------------------------------------------------------------------
(* How an action changes an object and the last snapshot.                  *)

\* An object may go on in any way that keeps its place and the steps it has passed,
\* if the snapshot is not touched.
LEMMA GoesQuietly ==
  ASSUME Inv, NEW i \in Instance, NEW p \in Process, NEW m \in Snapshot,
         Go(i, p, m), Placed(p), Executes(p, m),
         p.call # "none" => proc[i].call # "none" /\ Passed(mem[i]) \subseteq Passed(m),
         UNCHANGED <<durable, owner>>, runs' \in 0..MaxRuns
  PROVE  Inv'
<1>1. TypeOK' BY DEF Inv, TypeOK, Go
<1>2. \A j \in Instance : Placed(proc[j])' /\ Executes(proc[j], mem[j])'
  <2> SUFFICES ASSUME NEW j \in Instance PROVE Placed(proc'[j]) /\ Executes(proc'[j], mem'[j])
    BY DEF Placed, Executes, Passed
  <2>1. CASE j = i BY <2>1 DEF Inv, TypeOK, Go
  <2>2. CASE j # i BY <2>2 DEF Inv, TypeOK, Go
  <2> QED BY <2>1, <2>2
<1>3. Remembers' BY DEF Inv, TypeOK, Remembers, Go, Passed
<1> QED BY <1>1, <1>2, <1>3 DEF Inv

\* The same if it saves what it remembers, or fails to.
LEMMA GoesSaving ==
  ASSUME Inv, NEW i \in Instance, NEW p \in Process, NEW m \in Snapshot,
         Go(i, p, m), Placed(p), Executes(p, m),
         proc[i].call # "none", Passed(mem[i]) \subseteq Passed(m),
         NEW ms \in SUBSET Snapshot, Save(i, ms),
         \A n \in ms : Passed(n) \subseteq Passed(m)
  PROVE  Inv'
<1>1. CASE UNCHANGED <<durable, owner>>
  BY <1>1, GoesQuietly DEF Save, Inv, TypeOK
<1>2. CASE \E n \in ms : durable' = n /\ owner' = i
  <2>1. TypeOK' BY <1>2 DEF Inv, TypeOK, Go, Save
  <2>2. \A j \in Instance : Placed(proc[j])' /\ Executes(proc[j], mem[j])'
    <3> SUFFICES ASSUME NEW j \in Instance PROVE Placed(proc'[j]) /\ Executes(proc'[j], mem'[j])
      BY DEF Placed, Executes, Passed
    <3>1. CASE j = i BY <3>1 DEF Inv, TypeOK, Go
    <3>2. CASE j # i BY <3>2 DEF Inv, TypeOK, Go
    <3> QED BY <3>1, <3>2
  <2>3. Remembers' BY <1>2 DEF Inv, TypeOK, Remembers, Go, Passed
  <2> QED BY <2>1, <2>2, <2>3 DEF Inv
<1> QED BY <1>1, <1>2 DEF Save

-----------------------------------------------------------------------------
(* One lemma for each kind of step.                                        *)

LEMMA CallerKeeps ==
  ASSUME Inv, NEW i \in Instance,
         Load(i) \/ Run(i) \/ Cancel(i) \/ Stop(i) \/ Timeout(i)
  PROVE  Inv'
<1> USE DEF Placed, Executes
<1>1. proc[i] \in Process /\ mem[i] \in Snapshot /\ runs \in 0..MaxRuns /\ MaxRuns \in Nat
  BY WorkflowAssumption DEF Inv, TypeOK, WorkflowAssumption
<1>2. CASE Load(i)
  <2>1. NewProcess \in Process BY DEF NewProcess, Process, Outcome
  <2>2. TypeOK' BY <1>2, <2>1 DEF Load, Go, Inv, TypeOK, Process
  <2>3. \A j \in Instance : (Placed(proc[j]) /\ Executes(proc[j], mem[j]))'
    BY <1>2 DEF Load, Go, Inv, TypeOK, NewProcess, Passed
  <2>4. Remembers' BY <1>2 DEF Load, Go, Inv, TypeOK, Remembers, Passed
  <2> QED BY <2>2, <2>3, <2>4 DEF Inv
<1>3. CASE Run(i)
  <2>1. PICK suspended \in {mem[i].suspended, FALSE} :
          Go(i, [proc[i] EXCEPT !.call = "waiting", !.pc = "begin"],
                [mem[i] EXCEPT !.suspended = suspended])
    BY <1>3 DEF Run
  <2> DEFINE p == [proc[i] EXCEPT !.call = "waiting", !.pc = "begin"]
             m == [mem[i] EXCEPT !.suspended = suspended]
  <2>2. p \in Process /\ m \in Snapshot /\ Placed(p) /\ Executes(p, m)
    BY <1>1, <2>1 DEF Process, Snapshot, Inv
  <2>3. Passed(mem[i]) \subseteq Passed(m) BY <1>1 DEF Passed, Snapshot
  <2>4. proc[i].call # "none" /\ runs' \in 0..MaxRuns /\ UNCHANGED <<durable, owner>>
    BY <1>1, <1>3 DEF Run
  <2> QED BY <2>1, <2>2, <2>3, <2>4, GoesQuietly
<1>4. CASE Cancel(i) \/ Stop(i) \/ Timeout(i)
  <2>1. PICK p \in Process :
          /\ Go(i, p, mem[i])
          /\ p.pc = proc[i].pc /\ p.stage = proc[i].stage /\ p.step = proc[i].step
    <3>1. CASE Cancel(i)
      <4>1. [proc[i] EXCEPT !.done = TRUE] \in Process BY <1>1 DEF Process
      <4> QED BY <1>1, <3>1, <4>1 DEF Cancel, Process
    <3>2. CASE Stop(i)
      <4>1. [proc[i] EXCEPT !.call = "stopping", !.stopped = TRUE] \in Process
        BY <1>1 DEF Process
      <4> QED BY <1>1, <3>2, <4>1 DEF Stop, Process
    <3>3. CASE Timeout(i)
      <4>1. [proc[i] EXCEPT !.call = "abandoned"] \in Process BY <1>1 DEF Process
      <4> QED BY <1>1, <3>3, <4>1 DEF Timeout, Process
    <3> QED BY <1>4, <3>1, <3>2, <3>3
  <2>2. Placed(p) /\ Executes(p, mem[i]) BY <2>1 DEF Inv
  <2>3. proc[i].call # "none" /\ UNCHANGED <<durable, owner>> /\ runs' \in 0..MaxRuns
    BY <1>1, <1>4 DEF Cancel, Stop, Timeout, Quietly
  <2> QED BY <1>1, <2>1, <2>2, <2>3, GoesQuietly
<1> QED BY <1>2, <1>3, <1>4

LEMMA FinishKeeps ==
  ASSUME Inv, NEW i \in Instance, Finish(i)
  PROVE  Inv'
<1> DEFINE m == IF proc[i].out = "fail" /\ proc[i].started THEN Compensation(mem[i]) ELSE mem[i]
           p == [NewProcess EXCEPT !.call = "idle", !.stopped = proc[i].stopped]
<1>1. proc[i] \in Process /\ mem[i] \in Snapshot /\ runs \in 0..MaxRuns
  BY DEF Inv, TypeOK
<1>2. m \in Snapshot /\ Passed(m) = Passed(mem[i])
  BY <1>1, WorkflowAssumption DEF WorkflowAssumption, Compensation, Snapshot, Passed
<1>3. p \in Process /\ Placed(p) /\ Executes(p, m) /\ p.pc = "returned"
  <2>1. p \in Process BY <1>1 DEF NewProcess, Process, Outcome
  <2>2. p.pc = "returned" /\ p.stage = 1 /\ p.step = 1 BY DEF NewProcess
  <2> HIDE DEF p
  <2> QED BY <2>1, <2>2 DEF Placed, Executes
<1>4. Go(i, p, m) /\ proc[i].call # "none"
  BY DEF Finish, At
<1>5. CASE proc[i].out = "fail"
  <2>1. Save(i, {mem[i], m}) BY <1>5 DEF Finish
  <2>2. {mem[i], m} \in SUBSET Snapshot BY <1>1, <1>2
  <2> HIDE DEF m, p
  <2> QED BY <1>2, <1>3, <1>4, <2>1, <2>2, GoesSaving
<1>6. CASE proc[i].out # "fail"
  <2>1. UNCHANGED <<durable, owner>> /\ runs' \in 0..MaxRuns
    BY <1>1, <1>6 DEF Finish, Quietly
  <2> HIDE DEF m, p
  <2> QED BY <1>2, <1>3, <1>4, <2>1, GoesQuietly
<1> QED BY <1>5, <1>6

LEMMA ForgetKeeps ==
  ASSUME Inv, NEW i \in Instance, Forget(i)
  PROVE  Inv'
<1>1. NewProcess \in Process /\ Placed(NewProcess) /\ Executes(NewProcess, NewWorkflow)
  BY DEF NewProcess, Process, Outcome, Placed, Executes
<1>2. NewWorkflow \in Snapshot /\ NewProcess.call = "none"
  BY DEF NewWorkflow, Snapshot, StepStatus, NewProcess
<1>3. UNCHANGED <<durable, owner>> /\ runs' \in 0..MaxRuns
  BY DEF Forget, Quietly, Inv, TypeOK
<1> QED BY <1>1, <1>2, <1>3, GoesQuietly DEF Forget

LEMMA CrashKeeps ==
  ASSUME Inv, Crash
  PROVE  Inv'
<1>1. NewProcess \in Process /\ NewWorkflow \in Snapshot
  BY DEF NewProcess, Process, Outcome, NewWorkflow, Snapshot, StepStatus
<1>2. TypeOK' BY <1>1 DEF Crash, Quietly, Inv, TypeOK
<1>3. \A j \in Instance : (Placed(proc[j]) /\ Executes(proc[j], mem[j]))'
  BY DEF Crash, NewProcess, Placed, Executes
<1>4. Remembers' BY DEF Crash, NewProcess, Remembers
<1> QED BY <1>2, <1>3, <1>4 DEF Inv

-----------------------------------------------------------------------------
(* execute.                                                                *)

\* Where execute goes on.
LEMMA Places ==
  ASSUME Inv, NEW i \in Instance, NEW m
  PROVE  /\ \A out \in Outcome :
              /\ Return(i, out) \in Process /\ Return(i, out).call = proc[i].call
              /\ Placed(Return(i, out)) /\ Executes(Return(i, out), m)
         /\ NextStage(i) \in Process /\ NextStage(i).call = proc[i].call
         /\ Placed(NextStage(i)) /\ Executes(NextStage(i), m)
         /\ proc[i].pc \in {"steps", "end"} =>
              /\ NextStep(i) \in Process /\ NextStep(i).call = proc[i].call
              /\ Placed(NextStep(i)) /\ Executes(NextStep(i), m)
<1>1. /\ proc[i] \in Process /\ Placed(proc[i])
      /\ proc[i].stage + 1 \in Nat /\ proc[i].step + 1 \in Nat
  BY DEF Inv, TypeOK, Process
<1>2. ASSUME NEW out \in Outcome
      PROVE  /\ Return(i, out) \in Process /\ Return(i, out).call = proc[i].call
             /\ Placed(Return(i, out)) /\ Executes(Return(i, out), m)
  <2>1. Return(i, out) \in Process BY <1>1 DEF Return, Process
  <2>2. /\ Return(i, out).call = proc[i].call
        /\ Return(i, out).pc = "returned"
        /\ Return(i, out).stage = 1 /\ Return(i, out).step = 1
    BY <1>1 DEF Return, Process
  <2> QED BY <2>1, <2>2 DEF Placed, Executes
<1>3. /\ NextStage(i) \in Process /\ NextStage(i).call = proc[i].call
      /\ Placed(NextStage(i)) /\ Executes(NextStage(i), m)
  <2>1. NextStage(i) \in Process
    <3>1. "ok" \in Outcome BY DEF Outcome
    <3> QED BY <1>1, <3>1 DEF NextStage, Process
  <2>2. /\ NextStage(i).call = proc[i].call /\ NextStage(i).pc = "stages"
        /\ NextStage(i).stage = proc[i].stage + 1 /\ NextStage(i).step = 1
    BY <1>1 DEF NextStage, Process
  <2>3. NextStage(i).stage >= 1 BY <1>1, <2>2 DEF Placed, Process
  <2> QED BY <2>1, <2>2, <2>3 DEF Placed, Executes
<1>4. ASSUME proc[i].pc \in {"steps", "end"}
      PROVE  /\ NextStep(i) \in Process /\ NextStep(i).call = proc[i].call
             /\ Placed(NextStep(i)) /\ Executes(NextStep(i), m)
  <2>1. NextStep(i) \in Process
    <3>1. "ok" \in Outcome BY DEF Outcome
    <3> QED BY <1>1, <3>1 DEF NextStep, Process
  <2>2. /\ NextStep(i).call = proc[i].call /\ NextStep(i).pc = "steps"
        /\ NextStep(i).stage = proc[i].stage /\ NextStep(i).step = proc[i].step + 1
    BY <1>1 DEF NextStep, Process
  <2>3. NextStep(i).step >= 1 BY <1>1, <2>2 DEF Placed, Process
  <2> QED BY <1>1, <1>4, <2>1, <2>2, <2>3 DEF Placed, Executes
<1> QED BY <1>2, <1>3, <1>4

\* To pass over steps changes nothing else.
LEMMA OverTyped ==
  ASSUME NEW p \in Process, NEW steps \in SUBSET Step, NEW m, Placed(p), Executes(p, m)
  PROVE  /\ Over(p, steps) \in Process /\ Over(p, steps).call = p.call
         /\ Placed(Over(p, steps)) /\ Executes(Over(p, steps), m)
BY DEF Over, Process, Placed, Executes

\* What every quiet step of execute comes down to.
LEMMA ExecuteQuietly ==
  ASSUME Inv, NEW i \in Instance, proc[i].call # "none", Quietly,
         NEW p \in Process, NEW m \in Snapshot, Go(i, p, m),
         Placed(p), Executes(p, m), Passed(mem[i]) \subseteq Passed(m)
  PROVE  Inv'
<1>1. UNCHANGED <<durable, owner>> /\ runs' \in 0..MaxRuns BY DEF Quietly, Inv, TypeOK
<1> QED BY <1>1, GoesQuietly

\* The steps of execute that touch neither a status nor the snapshot.
LEMMA PlainKeeps ==
  ASSUME Inv, NEW i \in Instance, Begin(i) \/ Stopped(i) \/ StagesDone(i) \/ StepsDone(i)
  PROVE  Inv'
<1>1. /\ proc[i] \in Process /\ mem[i] \in Snapshot /\ Placed(proc[i])
      /\ proc[i].call # "none" /\ Quietly
  BY DEF Inv, TypeOK, Begin, Stopped, StagesDone, StepsDone, At
<1>2. "ok" \in Outcome /\ "fail" \in Outcome BY DEF Outcome
<1>3. CASE \E out \in Outcome : Go(i, Return(i, out), mem[i])
  BY <1>1, <1>3, Places, ExecuteQuietly
<1>4. CASE Go(i, NextStage(i), mem[i])
  BY <1>1, <1>4, Places, ExecuteQuietly
<1>5. CASE Begin(i)
  <2> DEFINE p == [proc[i] EXCEPT !.pc = "stages", !.started = TRUE]
  <2>1. p \in Process BY <1>1 DEF Process
  <2>2. p.pc = "stages" /\ p.stage = proc[i].stage BY <1>1 DEF Process
  <2>3. Placed(p) /\ Executes(p, mem[i]) BY <1>1, <2>2 DEF Placed, Executes
  <2>4. CASE Go(i, p, mem[i])
    <3> HIDE DEF p
    <3> QED BY <1>1, <2>1, <2>3, <2>4, ExecuteQuietly
  <2> QED BY <1>2, <1>3, <1>5, <2>4 DEF Begin
<1>6. CASE Stopped(i) BY <1>2, <1>3, <1>6 DEF Stopped
<1>7. CASE StagesDone(i)
  <2> DEFINE m == [mem[i] EXCEPT !.completed = TRUE]
  <2>1. m \in Snapshot /\ Passed(mem[i]) \subseteq Passed(m) BY <1>1 DEF Snapshot, Passed
  <2>2. Go(i, Return(i, "ok"), m) BY <1>7 DEF StagesDone
  <2> HIDE DEF m
  <2> QED BY <1>1, <1>2, <2>1, <2>2, Places, ExecuteQuietly
<1>8. CASE StepsDone(i) BY <1>2, <1>3, <1>4, <1>8 DEF StepsDone
<1> QED BY <1>5, <1>6, <1>7, <1>8

LEMMA handleStageKeeps ==
  ASSUME Inv, NEW i \in Instance, handleStage(i)
  PROVE  Inv'
<1> DEFINE m == [mem[i] EXCEPT !.nextStage = None]
           p == [proc[i] EXCEPT !.pc = "steps"]
<1>1. /\ proc[i] \in Process /\ mem[i] \in Snapshot /\ Placed(proc[i])
      /\ proc[i].call # "none" /\ Quietly /\ proc[i].stage <= Len(Stages)
  BY DEF Inv, TypeOK, handleStage, At
<1>2. "ok" \in Outcome /\ "fail" \in Outcome BY DEF Outcome
<1>3. m \in Snapshot /\ Passed(mem[i]) \subseteq Passed(m) BY <1>1 DEF Snapshot, Passed
<1>4. Range(Steps(i)) \in SUBSET Step BY <1>1, StepsTyped
<1>5. p \in Process /\ Placed(p) /\ Executes(p, m)
  <2>1. p \in Process BY <1>1 DEF Process
  <2>2. p.pc = "steps" /\ p.stage = proc[i].stage BY <1>1 DEF Process
  <2> QED BY <1>1, <2>1, <2>2 DEF Placed, Executes
<1>6. \/ Go(i, Return(i, "ok"), mem[i])
      \/ Go(i, Over(NextStage(i), Range(Steps(i))), mem[i])
      \/ Go(i, NextStage(i), m)
      \/ Go(i, Return(i, "fail"), m)
      \/ Go(i, p, m)
  BY DEF handleStage
<1> HIDE DEF m, p
<1>7. CASE Go(i, Return(i, "ok"), mem[i]) BY <1>1, <1>2, <1>7, Places, ExecuteQuietly
<1>8. CASE Go(i, Over(NextStage(i), Range(Steps(i))), mem[i])
  <2> DEFINE q == Over(NextStage(i), Range(Steps(i)))
  <2>1. q \in Process /\ Placed(q) /\ Executes(q, mem[i]) BY <1>4, Places, OverTyped
  <2> HIDE DEF q
  <2>2. Go(i, q, mem[i]) BY <1>8 DEF q
  <2> QED BY <1>1, <2>1, <2>2, ExecuteQuietly
<1>9. CASE Go(i, NextStage(i), m) BY <1>1, <1>3, <1>9, Places, ExecuteQuietly
<1>10. CASE Go(i, Return(i, "fail"), m) BY <1>1, <1>2, <1>3, <1>10, Places, ExecuteQuietly
<1>11. CASE Go(i, p, m) BY <1>1, <1>3, <1>5, <1>11, ExecuteQuietly
<1> QED BY <1>6, <1>7, <1>8, <1>9, <1>10, <1>11

LEMMA PassStepKeeps ==
  ASSUME Inv, NEW i \in Instance, PassStep(i)
  PROVE  Inv'
<1> DEFINE s == StepOf(i)
           m == [mem[i] EXCEPT !.nextStep = IF @ = s THEN None ELSE @]
<1>1. /\ proc[i] \in Process /\ mem[i] \in Snapshot
      /\ proc[i].call # "none" /\ proc[i].pc = "steps" /\ Quietly
  BY DEF Inv, TypeOK, PassStep, At
<1>2. "ok" \in Outcome BY DEF Outcome
<1>3. m \in Snapshot /\ Passed(mem[i]) = Passed(m) BY <1>1 DEF Snapshot, Passed
<1>4. \/ Go(i, Return(i, "ok"), m)
      \/ Go(i, NextStep(i), m)
      \/ ~Finished(m, s) /\ Go(i, NextStep(i), SetStatus(m, s, "skipped"))
  BY DEF PassStep
<1> HIDE DEF m, s
<1>5. CASE Go(i, Return(i, "ok"), m) BY <1>1, <1>2, <1>3, <1>5, Places, ExecuteQuietly
<1>6. CASE Go(i, NextStep(i), m) BY <1>1, <1>3, <1>6, Places, ExecuteQuietly
<1>7. CASE ~Finished(m, s) /\ Go(i, NextStep(i), SetStatus(m, s, "skipped"))
  <2>1. s \notin Passed(m) BY <1>7 DEF Passed, Finished
  <2>2. "skipped" \in StepStatus BY DEF StepStatus
  <2>3. /\ SetStatus(m, s, "skipped") \in Snapshot
        /\ Passed(mem[i]) \subseteq Passed(SetStatus(m, s, "skipped"))
    BY <1>3, <2>1, <2>2, StatusSet
  <2> QED BY <1>1, <1>7, <2>3, Places, ExecuteQuietly
<1> QED BY <1>4, <1>5, <1>6, <1>7

LEMMA BeginStepKeeps ==
  ASSUME Inv, NEW i \in Instance, BeginStep(i)
  PROVE  Inv'
<1> DEFINE s == StepOf(i)
           set == SetStatus(mem[i], s, "processing")
           m == [set EXCEPT !.nextStep = None, !.routed = FALSE]
           p == [proc[i] EXCEPT !.pc = "func", !.tries = 1]
           q == [proc[i] EXCEPT !.pc = "end", !.out = "fail"]
<1>1. /\ proc[i] \in Process /\ mem[i] \in Snapshot /\ Placed(proc[i])
      /\ proc[i].call # "none" /\ proc[i].pc = "steps"
      /\ proc[i].step <= Len(Steps(i)) /\ ~Finished(mem[i], s)
  BY DEF Inv, TypeOK, BeginStep, At
<1>2. "fail" \in Outcome /\ "processing" \in StepStatus BY DEF Outcome, StepStatus
<1>3. proc[i].stage <= Len(Stages) BY <1>1 DEF Placed
<1>4. s \notin Passed(mem[i]) BY <1>1 DEF Passed, Finished
<1>5. /\ set \in Snapshot /\ Passed(mem[i]) \subseteq Passed(set)
      /\ s \notin Passed(set)
  <2> HIDE DEF s
  <2> QED BY <1>1, <1>2, <1>4, StatusSet
<1>6. m \in Snapshot /\ Passed(m) = Passed(set)
  <2> HIDE DEF set
  <2> QED BY <1>5 DEF Snapshot, Passed
<1>7. \/ Go(i, p, m) \/ Go(i, q, m)
  BY DEF BeginStep
<1>8. Save(i, {m}) BY DEF BeginStep
<1>9. ASSUME NEW r \in Process, r.stage = proc[i].stage, r.step = proc[i].step, Go(i, r, m)
      PROVE  Inv'
  <2>1. s = StepsOf[Stages[r.stage]][r.step] BY <1>9 DEF StepOf, Steps, StageOf
  <2>2. s \in Step
    <3>1. Steps(i) \in Seq(Step) BY <1>3, StepsTyped
    <3>2. CASE proc[i].step >= 1 BY <1>1, <3>1, <3>2 DEF StepOf, Process
    <3> QED BY <3>2, <1>1 DEF Placed
  <2>3. Placed(r) /\ Executes(r, m) BY <1>1, <1>3, <1>5, <1>6, <1>9, <2>1, <2>2 DEF Placed, Executes
  <2> HIDE DEF m
  <2> QED BY <1>1, <1>5, <1>6, <1>8, <1>9, <2>3, GoesSaving
<1>10. CASE Go(i, p, m)
  <2>1. p \in Process /\ p.stage = proc[i].stage /\ p.step = proc[i].step BY <1>1 DEF Process
  <2> HIDE DEF p
  <2> QED BY <1>9, <1>10, <2>1
<1>11. CASE Go(i, q, m)
  <2>1. q \in Process /\ q.stage = proc[i].stage /\ q.step = proc[i].step
    BY <1>1, <1>2 DEF Process
  <2> HIDE DEF q
  <2> QED BY <1>9, <1>11, <2>1
<1> QED BY <1>7, <1>10, <1>11

\* A step's function may suspend the workflow or navigate; no status changes.
LEMMA AfterFuncTyped ==
  ASSUME NEW m \in Snapshot, NEW s \in Step, NEW n \in AfterFunc(m, s)
  PROVE  n \in Snapshot /\ Passed(n) = Passed(m)
<1>1. CASE n = m BY <1>1
<1>2. CASE n = [m EXCEPT !.suspended = TRUE] BY <1>2 DEF Snapshot, Passed
<1>3. ASSUME NEW j \in Jumps[s],
             n = [m EXCEPT !.nextStage = IF j[1] = None THEN @ ELSE j[1],
                           !.nextStep = IF j[2] = None THEN @ ELSE j[2]]
      PROVE  n \in Snapshot /\ Passed(n) = Passed(m)
  <2>1. j[1] \in Stage \cup {None} /\ j[2] \in Step \cup {None}
    BY <1>3, WorkflowAssumption DEF WorkflowAssumption
  <2> QED BY <1>3, <2>1 DEF Snapshot, Passed
<1> QED BY <1>1, <1>2, <1>3 DEF AfterFunc

LEMMA FuncKeeps ==
  ASSUME Inv, NEW i \in Instance, Func(i)
  PROVE  Inv'
<1>1. /\ proc[i] \in Process /\ mem[i] \in Snapshot /\ Placed(proc[i])
      /\ Executes(proc[i], mem[i])
      /\ proc[i].call # "none" /\ proc[i].pc = "func" /\ Quietly
  BY DEF Inv, TypeOK, Func, At
<1>2. StepOf(i) \in Step \ Passed(mem[i])
  BY <1>1 DEF Executes, StepOf, Steps, StageOf
<1>3. PICK m \in AfterFunc(mem[i], StepOf(i)), out \in {"ok", "fail"} \cup ControlFlow[StepOf(i)] :
        \/ Go(i, [proc[i] EXCEPT !.tries = @ + 1], m)
        \/ Go(i, [proc[i] EXCEPT !.pc = "end", !.out = out, !.tries = 0], m)
  BY DEF Func
<1>4. m \in Snapshot /\ Passed(m) = Passed(mem[i]) BY <1>1, <1>2, AfterFuncTyped
<1>5. out \in Outcome
  BY <1>2, WorkflowAssumption DEF WorkflowAssumption, Outcome
<1>6. ASSUME NEW r \in Process, r.stage = proc[i].stage, r.step = proc[i].step,
             r.pc \in {"func", "end"}, Go(i, r, m)
      PROVE  Inv'
  <2>1. Placed(r) /\ Executes(r, m) BY <1>1, <1>4, <1>6 DEF Placed, Executes
  <2> QED BY <1>1, <1>4, <1>6, <2>1, ExecuteQuietly
<1>7. CASE Go(i, [proc[i] EXCEPT !.tries = @ + 1], m)
  <2> DEFINE r == [proc[i] EXCEPT !.tries = @ + 1]
  <2>1. r \in Process /\ r.stage = proc[i].stage /\ r.step = proc[i].step /\ r.pc = "func"
    BY <1>1 DEF Process
  <2> HIDE DEF r
  <2>2. Go(i, r, m) BY <1>7 DEF r
  <2> QED BY <1>6, <2>1, <2>2
<1>8. CASE Go(i, [proc[i] EXCEPT !.pc = "end", !.out = out, !.tries = 0], m)
  <2> DEFINE r == [proc[i] EXCEPT !.pc = "end", !.out = out, !.tries = 0]
  <2>1. r \in Process /\ r.stage = proc[i].stage /\ r.step = proc[i].step /\ r.pc = "end"
    BY <1>1, <1>5 DEF Process
  <2> HIDE DEF r
  <2>2. Go(i, r, m) BY <1>8 DEF r
  <2> QED BY <1>6, <2>1, <2>2
<1> QED BY <1>3, <1>7, <1>8

LEMMA EndStepKeeps ==
  ASSUME Inv, NEW i \in Instance, EndStep(i)
  PROVE  Inv'
<1> DEFINE s == StepOf(i)
           rest == StepsIn(proc[i].stage + 1, Len(Stages)) \cup RestOfStage(i)
<1>1. /\ proc[i] \in Process /\ mem[i] \in Snapshot /\ Placed(proc[i])
      /\ Executes(proc[i], mem[i])
      /\ proc[i].call # "none" /\ proc[i].pc = "end"
  BY DEF Inv, TypeOK, EndStep, At
<1>2. "ok" \in Outcome /\ "fail" \in Outcome /\ proc[i].out \in Outcome
  BY <1>1 DEF Outcome, Process
<1>3. s \in Step \ Passed(mem[i])
  BY <1>1 DEF Executes, StepOf, Steps, StageOf
<1>4. RestOfStage(i) \in SUBSET Step /\ rest \in SUBSET Step
  <2>1. RestOfStage(i) \subseteq Step BY <1>1, StepsTyped DEF Placed
  <2>2. proc[i].stage + 1 \in Nat \ {0} BY <1>1 DEF Process
  <2> QED BY <2>1, <2>2, StepsInTyped
<1> HIDE DEF s, rest
<1>5. PICK out \in {proc[i].out} \cup (IF HooksFail THEN {"fail"} ELSE {}) :
        LET m == SetStatus(mem[i], s, StatusAfter(out))
            finish == out = "break" \/ (out = "ok" /\ s \in FinishWorkflow)
        IN /\ Save(i, {m})
           /\ \/ out = "fail" /\ Go(i, Return(i, "fail"), m)
              \/ out = "exit" /\ Go(i, Return(i, "ok"), m)
              \/ finish /\ Go(i, Over(Return(i, "ok"), rest), [m EXCEPT !.completed = TRUE])
              \/ out = "skip stage" /\ Go(i, Over(NextStage(i), RestOfStage(i)), m)
              \/ out \in {"ok", "skip step"} /\ ~finish /\ Go(i, NextStep(i), m)
  BY DEF EndStep, s, rest
<1> DEFINE m == SetStatus(mem[i], s, StatusAfter(out))
           n == [m EXCEPT !.completed = TRUE]
<1>6. StatusAfter(out) \in StepStatus BY DEF StatusAfter, StepStatus
<1>7. m \in Snapshot /\ Passed(mem[i]) \subseteq Passed(m)
  BY <1>1, <1>3, <1>6, StatusSet
<1>8. n \in Snapshot /\ Passed(n) = Passed(m)
  <2> HIDE DEF m
  <2> QED BY <1>7 DEF Snapshot, Passed
<1>9. Save(i, {m}) BY <1>5
<1>10. \/ Go(i, Return(i, "fail"), m) \/ Go(i, Return(i, "ok"), m)
       \/ Go(i, Over(Return(i, "ok"), rest), n)
       \/ Go(i, Over(NextStage(i), RestOfStage(i)), m)
       \/ Go(i, NextStep(i), m)
  BY <1>5
<1> HIDE DEF m, n
<1>11. ASSUME NEW p \in Process, Placed(p), NEW k \in {m, n}, Executes(p, k), Go(i, p, k)
       PROVE  Inv'
  BY <1>1, <1>7, <1>8, <1>9, <1>11, GoesSaving
<1>12. CASE Go(i, Return(i, "fail"), m) BY <1>2, <1>11, <1>12, Places
<1>13. CASE Go(i, Return(i, "ok"), m) BY <1>2, <1>11, <1>13, Places
<1>14. CASE Go(i, Over(Return(i, "ok"), rest), n)
  BY <1>2, <1>4, <1>11, <1>14, Places, OverTyped
<1>15. CASE Go(i, Over(NextStage(i), RestOfStage(i)), m)
  BY <1>4, <1>11, <1>15, Places, OverTyped
<1>16. CASE Go(i, NextStep(i), m) BY <1>1, <1>11, <1>16, Places
<1> QED BY <1>10, <1>12, <1>13, <1>14, <1>15, <1>16

-----------------------------------------------------------------------------
(* The theorems.                                                           *)

LEMMA Initially == Init => Inv
<1> SUFFICES ASSUME Init PROVE Inv OBVIOUS
<1>1. NewProcess \in Process /\ NewWorkflow \in Snapshot
  BY DEF NewProcess, Process, Outcome, NewWorkflow, Snapshot, StepStatus
<1>2. TypeOK BY <1>1, WorkflowAssumption DEF WorkflowAssumption, Init, TypeOK
<1>3. \A i \in Instance : Placed(proc[i]) /\ Executes(proc[i], mem[i])
  BY DEF Init, NewProcess, Placed, Executes
<1>4. Remembers BY DEF Init, NewProcess, Remembers
<1> QED BY <1>2, <1>3, <1>4 DEF Inv

LEMMA StepKeeps == Inv /\ [Next]_vars => Inv'
<1> SUFFICES ASSUME Inv, [Next]_vars PROVE Inv' OBVIOUS
<1>1. ASSUME NEW i \in Instance,
             Load(i) \/ Run(i) \/ Cancel(i) \/ Stop(i) \/ Timeout(i)
      PROVE  Inv'
  BY <1>1, CallerKeeps
<1>2. ASSUME NEW i \in Instance, Finish(i) PROVE Inv' BY <1>2, FinishKeeps
<1>3. ASSUME NEW i \in Instance, Forget(i) PROVE Inv' BY <1>3, ForgetKeeps
<1>4. ASSUME NEW i \in Instance, execute(i) PROVE Inv'
  BY <1>4, PlainKeeps, handleStageKeeps, PassStepKeeps, BeginStepKeeps, FuncKeeps, EndStepKeeps
     DEF execute
<1>5. CASE Crash BY <1>5, CrashKeeps
<1>6. CASE UNCHANGED vars
  BY <1>6 DEF vars, Inv, TypeOK, Placed, Executes, Remembers, Passed
<1> QED BY <1>1, <1>2, <1>3, <1>4, <1>5, <1>6 DEF Next, Terminated

LEMMA Invariant == Spec => []Inv
<1>1. Init => Inv BY Initially
<1>2. Inv /\ [Next]_vars => Inv' BY StepKeeps
<1> QED BY <1>1, <1>2, PTL DEF Spec

\* The variables of the engine have their types, for any stages and steps.
THEOREM WorkflowTypeCorrect == Spec => []TypeOK
<1>1. Inv => TypeOK BY DEF Inv
<1> QED BY <1>1, Invariant, PTL

\* For any stages, steps, navigation and number of objects and runs: no step is
\* executed again that the last snapshot of its object shows as completed or
\* skipped, whatever was retried, abandoned, restored, or failed to be saved.
THEOREM CompletedOnceHolds == Spec => []CompletedOnce
<1>1. Inv => CompletedOnce
  BY DEF Inv, Remembers, Executes, CompletedOnce, At, StepOf, Steps, StageOf
<1> QED BY <1>1, Invariant, PTL
-----------------------------------------------------------------------------
(* Nothing is forgotten, and compensation comes first.                     *)

\* The steps that object p, with snapshot m, has passed or passes over.
Behind(p, m) == Passed(m) \cup p.over

\* Everything that the call p has come past lies behind it; a call that has started
\* and is not over has not completed the workflow; every loop begins at its first turn.
Covers(p, m) ==
  /\ p.pc \in {"begin", "returned"} => p.stage = 1
  /\ p.pc \in {"begin", "stages", "returned"} => p.step = 1
  /\ p.pc \in {"stages", "steps", "func", "end"} =>
       ~m.completed /\ StepsIn(1, p.stage - 1) \subseteq Behind(p, m)
  /\ p.pc \in {"steps", "func", "end"} =>
       \A k \in 1 .. p.step - 1 : StepsOf[Stages[p.stage]][k] \in Behind(p, m)
  /\ p.pc = "returned" /\ p.started /\ m.completed => StepsIn(1, Len(Stages)) \subseteq Behind(p, m)
  /\ p.pc = "begin" \/ p.call \in {"none", "idle"} => ~p.started
  /\ p.call \in {"none", "idle"} => p.pc = "returned"

\* A snapshot that asks for the compensation names its step, until it has been passed.
Routed(m) == m.routed => m.nextStep = CompensationStep \/ CompensationStep \in Passed(m)

\* Inside a stage nothing but a step's function suspends the workflow, and a step that
\* executes has taken the request.
Directed(p, m) ==
  /\ Routed(m)
  /\ p.pc = "steps" /\ m.routed => ~checkStatus(m)
  /\ p.pc \in {"func", "end"} => ~m.routed

Course ==
  /\ Routed(durable)
  /\ \A i \in Instance : Covers(proc[i], mem[i]) /\ Directed(proc[i], mem[i])

\* The steps of the first stages are those of the stages before g, of g, and after g.
LEMMA StepsInSplit ==
  ASSUME NEW g \in 1..Len(Stages)
  PROVE  /\ StepsIn(1, g) = StepsIn(1, g - 1) \cup Range(StepsOf[Stages[g]])
         /\ StepsIn(1, Len(Stages)) =
              StepsIn(1, g - 1) \cup Range(StepsOf[Stages[g]]) \cup StepsIn(g + 1, Len(Stages))
<1>1. Len(Stages) \in Nat BY WorkflowAssumption DEF WorkflowAssumption
<1>2. 1..g = (1..(g - 1)) \cup {g} BY <1>1
<1>3. 1..Len(Stages) = (1..(g - 1)) \cup {g} \cup ((g + 1)..Len(Stages)) BY <1>1
<1> DEFINE of(h) == Range(StepsOf[Stages[h]])
<1>4. \A lo, hi, s : s \in StepsIn(lo, hi) <=> \E h \in lo..hi : s \in of(h) BY DEF StepsIn
<1> HIDE DEF of
<1>5. StepsIn(1, g) = StepsIn(1, g - 1) \cup of(g) BY <1>2, <1>4
<1>6. StepsIn(1, Len(Stages)) = StepsIn(1, g - 1) \cup of(g) \cup StepsIn(g + 1, Len(Stages))
  BY <1>3, <1>4
<1> QED BY <1>5, <1>6 DEF of

\* The steps of the object's stage are those before its step, its step, and the rest.
LEMMA StageSplit ==
  ASSUME Inv, NEW i \in Instance, proc[i].stage <= Len(Stages), NEW S,
         \A k \in 1 .. proc[i].step - 1 : Steps(i)[k] \in S
  PROVE  /\ Range(Steps(i)) \subseteq S \cup {StepOf(i)} \cup RestOfStage(i)
         /\ proc[i].step > Len(Steps(i)) => Range(Steps(i)) \subseteq S
<1>1. Steps(i) \in Seq(Step) /\ proc[i].step \in Nat
  BY StepsTyped DEF Inv, TypeOK, Process
<1>2. \A k \in 1..Len(Steps(i)) : \/ k \in 1..(proc[i].step - 1)
                                  \/ k = proc[i].step
                                  \/ k \in (proc[i].step + 1)..Len(Steps(i))
  BY <1>1
<1>3. Range(Steps(i)) = {Steps(i)[k] : k \in 1..Len(Steps(i))} BY <1>1 DEF Range
<1> QED BY <1>1, <1>2, <1>3 DEF RestOfStage, StepOf

\* An object goes on in a way that keeps to its course, and may save a snapshot.
LEMMA KeepsCourse ==
  ASSUME Course, Inv, NEW i \in Instance, NEW p, NEW m, Go(i, p, m), Covers(p, m), Directed(p, m),
         durable' = durable \/ Routed(durable')
  PROVE  Course'
<1>1. /\ proc' = [proc EXCEPT ![i] = p] /\ mem' = [mem EXCEPT ![i] = m]
      /\ proc \in [Instance -> Process] /\ mem \in [Instance -> Snapshot]
  BY DEF Go, Inv, TypeOK
<1>2. \A j \in Instance : \/ j = i /\ proc'[j] = p /\ mem'[j] = m
                          \/ proc'[j] = proc[j] /\ mem'[j] = mem[j]
  BY <1>1
<1>3. ASSUME NEW j \in Instance PROVE Covers(proc[j], mem[j])' /\ Directed(proc[j], mem[j])'
  <2>1. Covers(proc'[j], mem'[j]) /\ Directed(proc'[j], mem'[j]) BY <1>2 DEF Course
  <2> QED BY <2>1 DEF Covers, Directed, Behind, Routed, Passed, checkStatus
<1>4. Routed(durable)' BY DEF Course, Routed, Passed
<1> QED BY <1>3, <1>4 DEF Course

\* The steps of the caller keep to the course.
LEMMA CallerCourse ==
  ASSUME Course, Inv, NEW i \in Instance,
         Load(i) \/ Run(i) \/ Cancel(i) \/ Stop(i) \/ Timeout(i) \/ Forget(i)
  PROVE  Course'
<1>1. /\ proc[i] \in Process /\ mem[i] \in Snapshot
      /\ Covers(proc[i], mem[i]) /\ Directed(proc[i], mem[i]) /\ Routed(durable)
  BY DEF Inv, TypeOK, Course
<1>2. ASSUME NEW p, p.pc = "returned", ~p.started, p.stage = 1, p.step = 1,
             NEW m, Routed(m), Go(i, p, m), UNCHANGED durable
      PROVE  Course'
  BY <1>2, KeepsCourse DEF Covers, Directed
<1>3. CASE Load(i)
  <2>1. /\ [NewProcess EXCEPT !.call = "idle"].pc = "returned"
        /\ ~[NewProcess EXCEPT !.call = "idle"].started
        /\ [NewProcess EXCEPT !.call = "idle"].stage = 1
        /\ [NewProcess EXCEPT !.call = "idle"].step = 1
    BY DEF NewProcess
  <2> QED BY <1>1, <1>2, <1>3, <2>1 DEF Load
<1>4. CASE Forget(i)
  <2>1. /\ NewProcess.pc = "returned" /\ ~NewProcess.started /\ Routed(NewWorkflow)
        /\ NewProcess.stage = 1 /\ NewProcess.step = 1
    BY DEF NewProcess, NewWorkflow, Routed
  <2> QED BY <1>2, <1>4, <2>1 DEF Forget, Quietly
<1>5. CASE Run(i)
  <2>1. PICK suspended \in {mem[i].suspended, FALSE} :
          Go(i, [proc[i] EXCEPT !.call = "waiting", !.pc = "begin"],
                [mem[i] EXCEPT !.suspended = suspended])
    BY <1>5 DEF Run
  <2> DEFINE p == [proc[i] EXCEPT !.call = "waiting", !.pc = "begin"]
             m == [mem[i] EXCEPT !.suspended = suspended]
  <2>2. p.pc = "begin" /\ ~p.started /\ p.stage = 1 /\ p.step = 1 /\ p.call = "waiting"
    <3>1. ~proc[i].started /\ proc[i].pc = "returned" BY <1>1, <1>5 DEF Run, Covers
    <3> QED BY <1>1, <3>1 DEF Process, Covers
  <2>3. m.routed = mem[i].routed /\ m.nextStep = mem[i].nextStep /\ m.status = mem[i].status
    BY <1>1 DEF Snapshot
  <2>4. Go(i, p, m) /\ UNCHANGED durable BY <1>5, <2>1 DEF Run
  <2> HIDE DEF p, m
  <2>5. Covers(p, m) BY <2>2 DEF Covers
  <2>6. Directed(p, m) BY <1>1, <2>2, <2>3 DEF Directed, Routed, Passed
  <2> QED BY <2>4, <2>5, <2>6, KeepsCourse
<1>6. ASSUME NEW p, p.pc = proc[i].pc, p.stage = proc[i].stage, p.step = proc[i].step,
             p.over = proc[i].over, p.started = proc[i].started, p.call \notin {"none", "idle"},
             Go(i, p, mem[i]), UNCHANGED durable
      PROVE  Course'
  <2>1. Covers(p, mem[i]) BY <1>1, <1>6 DEF Covers, Behind
  <2>2. Directed(p, mem[i]) BY <1>1, <1>6 DEF Directed
  <2> QED BY <1>6, <2>1, <2>2, KeepsCourse
<1>7. CASE Cancel(i)
  <2> DEFINE p == [proc[i] EXCEPT !.done = TRUE]
  <2>1. /\ p.pc = proc[i].pc /\ p.stage = proc[i].stage /\ p.step = proc[i].step
        /\ p.over = proc[i].over /\ p.started = proc[i].started /\ p.call = "waiting"
    BY <1>1, <1>7 DEF Process, Cancel
  <2>2. Go(i, p, mem[i]) /\ UNCHANGED durable BY <1>7 DEF Cancel, Quietly
  <2> HIDE DEF p
  <2> QED BY <1>6, <2>1, <2>2
<1>8. CASE Stop(i)
  <2> DEFINE p == [proc[i] EXCEPT !.call = "stopping", !.stopped = TRUE]
  <2>1. /\ p.pc = proc[i].pc /\ p.stage = proc[i].stage /\ p.step = proc[i].step
        /\ p.over = proc[i].over /\ p.started = proc[i].started /\ p.call = "stopping"
    BY <1>1 DEF Process
  <2>2. Go(i, p, mem[i]) /\ UNCHANGED durable BY <1>8 DEF Stop, Quietly
  <2> HIDE DEF p
  <2> QED BY <1>6, <2>1, <2>2
<1>9. CASE Timeout(i)
  <2> DEFINE p == [proc[i] EXCEPT !.call = "abandoned"]
  <2>1. /\ p.pc = proc[i].pc /\ p.stage = proc[i].stage /\ p.step = proc[i].step
        /\ p.over = proc[i].over /\ p.started = proc[i].started /\ p.call = "abandoned"
    BY <1>1 DEF Process
  <2>2. Go(i, p, mem[i]) /\ UNCHANGED durable BY <1>9 DEF Timeout, Quietly
  <2> HIDE DEF p
  <2> QED BY <1>6, <2>1, <2>2
<1> QED BY <1>3, <1>4, <1>5, <1>7, <1>8, <1>9

\* finish asks for the compensation step.
LEMMA FinishCourse ==
  ASSUME Course, Inv, NEW i \in Instance, Finish(i)
  PROVE  Course'
<1> DEFINE m == IF proc[i].out = "fail" /\ proc[i].started THEN Compensation(mem[i]) ELSE mem[i]
           p == [NewProcess EXCEPT !.call = "idle", !.stopped = proc[i].stopped]
<1>1. mem[i] \in Snapshot /\ Routed(mem[i]) BY DEF Inv, TypeOK, Course, Directed
<1>2. Compensation(mem[i]).nextStep = CompensationStep BY <1>1 DEF Compensation, Snapshot
<1>3. Routed(m) BY <1>1, <1>2 DEF Routed
<1>4. p.pc = "returned" /\ ~p.started /\ p.stage = 1 /\ p.step = 1 BY DEF NewProcess
<1>5. Go(i, p, m) /\ (durable' = durable \/ durable' \in {mem[i], m})
  BY DEF Finish, Save, Quietly
<1> HIDE DEF m, p
<1>6. Covers(p, m) /\ Directed(p, m) BY <1>3, <1>4 DEF Covers, Directed
<1> QED BY <1>1, <1>3, <1>5, <1>6, KeepsCourse

\* Where execute goes on covers what lies behind.
LEMMA CoursePlaces ==
  ASSUME Inv, NEW i \in Instance, NEW m, Routed(m), proc[i].call \notin {"none", "idle"}
  PROVE  /\ \A out \in Outcome :
              (proc[i].started /\ m.completed => StepsIn(1, Len(Stages)) \subseteq Behind(proc[i], m))
              => Covers(Return(i, out), m) /\ Directed(Return(i, out), m)
         /\ ~m.completed /\ StepsIn(1, proc[i].stage) \subseteq Behind(proc[i], m)
            => Covers(NextStage(i), m) /\ Directed(NextStage(i), m)
         /\ /\ ~m.completed /\ StepsIn(1, proc[i].stage - 1) \subseteq Behind(proc[i], m)
            /\ \A k \in 1 .. proc[i].step : Steps(i)[k] \in Behind(proc[i], m)
            /\ m.routed => ~checkStatus(m)
            => Covers(NextStep(i), m) /\ Directed(NextStep(i), m)
<1>1. proc[i] \in Process /\ proc[i].stage \in Nat /\ proc[i].step \in Nat
  BY DEF Inv, TypeOK, Process
<1>2. ASSUME NEW out \in Outcome,
             proc[i].started /\ m.completed => StepsIn(1, Len(Stages)) \subseteq Behind(proc[i], m)
      PROVE  Covers(Return(i, out), m) /\ Directed(Return(i, out), m)
  <2>1. /\ Return(i, out).pc = "returned" /\ Return(i, out).started = proc[i].started
        /\ Return(i, out).call = proc[i].call /\ Return(i, out).over = proc[i].over
        /\ Return(i, out).stage = 1 /\ Return(i, out).step = 1
    BY <1>1 DEF Return, Process
  <2> QED BY <1>2, <2>1 DEF Covers, Directed, Behind
<1>3. ASSUME ~m.completed, StepsIn(1, proc[i].stage) \subseteq Behind(proc[i], m)
      PROVE  Covers(NextStage(i), m) /\ Directed(NextStage(i), m)
  <2> DEFINE p == NextStage(i)
  <2>1. /\ p.pc = "stages" /\ p.stage = proc[i].stage + 1 /\ p.step = 1
        /\ p.call = proc[i].call /\ p.over = proc[i].over
    BY <1>1 DEF NextStage, Process
  <2> HIDE DEF p
  <2>2. p.stage - 1 = proc[i].stage BY <1>1, <2>1
  <2>3. Behind(p, m) = Behind(proc[i], m) BY <2>1 DEF Behind
  <2>4. Covers(p, m) BY <1>3, <2>1, <2>2, <2>3 DEF Covers
  <2>5. Directed(p, m) BY <2>1 DEF Directed
  <2> QED BY <2>4, <2>5 DEF p
<1>4. ASSUME ~m.completed, StepsIn(1, proc[i].stage - 1) \subseteq Behind(proc[i], m),
             \A k \in 1 .. proc[i].step : Steps(i)[k] \in Behind(proc[i], m),
             m.routed => ~checkStatus(m)
      PROVE  Covers(NextStep(i), m) /\ Directed(NextStep(i), m)
  <2> DEFINE p == NextStep(i)
  <2>1. /\ p.pc = "steps" /\ p.stage = proc[i].stage /\ p.step = proc[i].step + 1
        /\ p.call = proc[i].call /\ p.over = proc[i].over
    BY <1>1 DEF NextStep, Process
  <2> HIDE DEF p
  <2>2. p.step - 1 = proc[i].step BY <1>1, <2>1
  <2>3. Behind(p, m) = Behind(proc[i], m) BY <2>1 DEF Behind
  <2>4. \A k \in 1 .. p.step - 1 : StepsOf[Stages[p.stage]][k] \in Behind(p, m)
    BY <1>4, <2>1, <2>2, <2>3 DEF Steps, StageOf
  <2>5. Covers(p, m) BY <1>4, <2>1, <2>3, <2>4 DEF Covers
  <2>6. Directed(p, m) BY <1>4, <2>1 DEF Directed
  <2> QED BY <2>5, <2>6 DEF p
<1> QED BY <1>2, <1>3, <1>4

\* To pass over steps covers them as well.
LEMMA OverCourse ==
  ASSUME NEW p \in Process, NEW steps, NEW m
  PROVE  /\ Over(p, steps) = [p EXCEPT !.over = p.over \cup steps]
         /\ Over(p, steps).pc = p.pc /\ Over(p, steps).stage = p.stage
         /\ Over(p, steps).step = p.step /\ Over(p, steps).call = p.call
         /\ Over(p, steps).started = p.started
         /\ Behind(Over(p, steps), m) = Behind(p, m) \cup steps
BY DEF Over, Process, Behind

\* The steps of execute that touch no status keep to the course.
LEMMA PlainCourse ==
  ASSUME Course, Inv, NEW i \in Instance,
         Begin(i) \/ Stopped(i) \/ StagesDone(i) \/ StepsDone(i)
  PROVE  Course'
<1>1. /\ proc[i] \in Process /\ mem[i] \in Snapshot /\ Placed(proc[i])
      /\ proc[i].stage \in Nat /\ proc[i].step \in Nat
      /\ proc[i].call \in {"waiting", "stopping", "abandoned"} /\ UNCHANGED durable
  BY DEF Inv, TypeOK, Begin, Stopped, StagesDone, StepsDone, At, Quietly, Process
<1>2. "ok" \in Outcome /\ "fail" \in Outcome BY DEF Outcome
<1>3. /\ Covers(proc[i], mem[i]) /\ Directed(proc[i], mem[i]) /\ Routed(mem[i])
      /\ proc[i].call \notin {"none", "idle"}
  BY <1>1 DEF Course, Directed
<1>4. ASSUME NEW out \in Outcome, ~proc[i].started \/ ~mem[i].completed,
             Go(i, Return(i, out), mem[i])
      PROVE  Course'
  BY <1>1, <1>3, <1>4, CoursePlaces, KeepsCourse
<1>5. CASE Begin(i)
  <2> DEFINE p == [proc[i] EXCEPT !.pc = "stages", !.started = TRUE]
  <2>1. proc[i].pc = "begin" /\ ~proc[i].started BY <1>3, <1>5 DEF Begin, At, Covers
  <2>2. CASE Go(i, p, mem[i]) /\ ~checkStatus(mem[i])
    <3>1. /\ p.pc = "stages" /\ p.stage = proc[i].stage /\ p.call = proc[i].call
          /\ p.step = proc[i].step
      BY <1>1 DEF Process
    <3>2. proc[i].stage = 1 /\ proc[i].step = 1 BY <1>3, <2>1 DEF Covers
    <3> HIDE DEF p
    <3>3. Directed(p, mem[i]) BY <1>3, <3>1 DEF Directed
    <3>4. StepsIn(1, p.stage - 1) = {}
      <4>1. p.stage - 1 = 0 BY <3>1, <3>2
      <4>2. StepsIn(1, 0) = {} BY DEF StepsIn
      <4> QED BY <4>1, <4>2
    <3>5. Covers(p, mem[i]) BY <1>1, <1>3, <2>2, <3>1, <3>2, <3>4 DEF Covers, checkStatus
    <3> QED BY <1>1, <2>2, <3>3, <3>5, KeepsCourse
  <2> QED BY <1>2, <1>4, <1>5, <2>1, <2>2 DEF Begin
<1>6. CASE Stopped(i)
  <2>1. ~mem[i].completed BY <1>3, <1>6 DEF Stopped, At, Covers
  <2> QED BY <1>2, <1>4, <1>6, <2>1 DEF Stopped
<1>7. CASE StagesDone(i)
  <2> DEFINE m == [mem[i] EXCEPT !.completed = TRUE]
  <2>1. /\ m.status = mem[i].status /\ m.routed = mem[i].routed
        /\ m.nextStep = mem[i].nextStep
    BY <1>1 DEF Snapshot
  <2>2. Go(i, Return(i, "ok"), m) BY <1>7 DEF StagesDone
  <2> HIDE DEF m
  <2>3. Routed(m) /\ Behind(proc[i], m) = Behind(proc[i], mem[i])
    BY <1>3, <2>1 DEF Routed, Passed, Behind
  <2>4. StepsIn(1, Len(Stages)) \subseteq Behind(proc[i], mem[i])
    <3>1. StepsIn(1, proc[i].stage - 1) \subseteq Behind(proc[i], mem[i]) /\ proc[i].stage > Len(Stages)
      BY <1>3, <1>7 DEF StagesDone, At, Covers
    <3>2. Len(Stages) \in Nat BY WorkflowAssumption DEF WorkflowAssumption
    <3>3. 1..Len(Stages) \subseteq 1..(proc[i].stage - 1) BY <1>1, <3>1, <3>2
    <3> QED BY <3>1, <3>3 DEF StepsIn
  <2> QED BY <1>1, <1>2, <1>3, <2>2, <2>3, <2>4, CoursePlaces, KeepsCourse
<1>8. CASE StepsDone(i)
  <2>1. /\ ~mem[i].completed /\ proc[i].stage <= Len(Stages)
        /\ StepsIn(1, proc[i].stage - 1) \subseteq Behind(proc[i], mem[i])
        /\ \A k \in 1 .. proc[i].step - 1 : Steps(i)[k] \in Behind(proc[i], mem[i])
        /\ proc[i].step > Len(Steps(i))
    BY <1>1, <1>3, <1>8 DEF StepsDone, At, Covers, Placed, Steps, StageOf
  <2>2. Range(Steps(i)) \subseteq Behind(proc[i], mem[i]) BY <2>1, StageSplit
  <2>3. StepsIn(1, proc[i].stage) \subseteq Behind(proc[i], mem[i])
    <3>1. proc[i].stage \in 1..Len(Stages) BY <1>1, <2>1 DEF Placed
    <3> QED BY <2>1, <2>2, <3>1, StepsInSplit DEF Steps, StageOf
  <2>4. CASE Go(i, NextStage(i), mem[i])
    BY <1>1, <1>3, <2>1, <2>3, <2>4, CoursePlaces, KeepsCourse
  <2> QED BY <1>2, <1>4, <1>8, <2>1, <2>4 DEF StepsDone
<1> QED BY <1>5, <1>6, <1>7, <1>8

\* handleStage enters a stage at its first step, or passes the whole stage over.
LEMMA handleStageCourse ==
  ASSUME Course, Inv, NEW i \in Instance, handleStage(i)
  PROVE  Course'
<1> DEFINE m == [mem[i] EXCEPT !.nextStage = None]
           p == [proc[i] EXCEPT !.pc = "steps"]
           q == Over(NextStage(i), Range(Steps(i)))
<1>1. /\ proc[i] \in Process /\ mem[i] \in Snapshot
      /\ proc[i].stage \in 1..Len(Stages) /\ UNCHANGED durable
      /\ proc[i].call \notin {"none", "idle"} /\ proc[i].pc = "stages"
  BY DEF Inv, TypeOK, handleStage, At, Quietly, Process, Placed
<1>2. "ok" \in Outcome /\ "fail" \in Outcome BY DEF Outcome
<1>3. /\ ~mem[i].completed /\ proc[i].step = 1 /\ Routed(mem[i])
      /\ StepsIn(1, proc[i].stage - 1) \subseteq Behind(proc[i], mem[i])
  BY <1>1 DEF Course, Covers, Directed
<1>4. /\ m.status = mem[i].status /\ m.routed = mem[i].routed /\ m.completed = mem[i].completed
      /\ m.nextStep = mem[i].nextStep /\ m.suspended = mem[i].suspended
  BY <1>1 DEF Snapshot
<1>5. Routed(m) /\ \A r : Behind(r, m) = Behind(r, mem[i])
  BY <1>3, <1>4 DEF Routed, Passed, Behind
<1>6. \/ Go(i, Return(i, "ok"), mem[i])
      \/ Go(i, q, mem[i])
      \/ Steps(i) = <<>> /\ Go(i, NextStage(i), m)
      \/ Go(i, Return(i, "fail"), m)
      \/ ~checkStatus(mem[i]) /\ Go(i, p, m)
  BY DEF handleStage
<1>7. StepsIn(1, proc[i].stage) = StepsIn(1, proc[i].stage - 1) \cup Range(Steps(i))
  BY <1>1, StepsInSplit DEF Steps, StageOf
<1>8. CASE Go(i, Return(i, "ok"), mem[i])
  BY <1>1, <1>2, <1>3, <1>8, CoursePlaces, KeepsCourse
<1>9. CASE Go(i, q, mem[i])
  <2>1. NextStage(i) \in Process BY Places
  <2>2. /\ NextStage(i).pc = "stages" /\ NextStage(i).stage = proc[i].stage + 1
        /\ NextStage(i).call = proc[i].call /\ NextStage(i).over = proc[i].over
        /\ NextStage(i).step = 1
    BY <1>1 DEF NextStage, Process
  <2>3. /\ q.pc = "stages" /\ q.stage = proc[i].stage + 1 /\ q.step = 1
        /\ q.call = proc[i].call
        /\ Behind(q, mem[i]) = Behind(proc[i], mem[i]) \cup Range(Steps(i))
    BY <2>1, <2>2, OverCourse DEF Behind
  <2> HIDE DEF q
  <2>4. q.stage - 1 = proc[i].stage BY <1>1, <2>3
  <2>5. Covers(q, mem[i]) BY <1>1, <1>3, <1>7, <2>3, <2>4 DEF Covers
  <2>6. Directed(q, mem[i]) BY <1>3, <2>3 DEF Directed
  <2> QED BY <1>1, <1>9, <2>5, <2>6, KeepsCourse
<1>10. CASE Steps(i) = <<>> /\ Go(i, NextStage(i), m)
  <2>1. Range(Steps(i)) = {} BY <1>10 DEF Range
  <2> HIDE DEF m
  <2>2. ~m.completed /\ StepsIn(1, proc[i].stage) \subseteq Behind(proc[i], m)
    BY <1>3, <1>4, <1>5, <1>7, <2>1
  <2> QED BY <1>1, <1>5, <1>10, <2>2, CoursePlaces, KeepsCourse
<1>11. CASE Go(i, Return(i, "fail"), m)
  <2> HIDE DEF m
  <2> QED BY <1>1, <1>2, <1>3, <1>4, <1>5, <1>11, CoursePlaces, KeepsCourse
<1>12. CASE ~checkStatus(mem[i]) /\ Go(i, p, m)
  <2>1. /\ p.pc = "steps" /\ p.stage = proc[i].stage /\ p.step = 1
        /\ p.call = proc[i].call /\ p.over = proc[i].over
    BY <1>1, <1>3 DEF Process
  <2> HIDE DEF p, m
  <2>2. Behind(p, m) = Behind(proc[i], mem[i]) BY <1>5, <2>1 DEF Behind
  <2>3. 1 .. p.step - 1 = {} BY <2>1
  <2>4. Covers(p, m) BY <1>1, <1>3, <1>4, <2>1, <2>2, <2>3 DEF Covers
  <2>5. Directed(p, m) BY <1>4, <1>5, <1>12, <2>1 DEF Directed, checkStatus
  <2> QED BY <1>1, <1>12, <2>4, <2>5, KeepsCourse
<1> HIDE DEF m, p, q
<1> QED BY <1>6, <1>8, <1>9, <1>10, <1>11, <1>12

\* What is known of an object at a step of a stage.
LEMMA AtStep ==
  ASSUME Course, Inv, NEW i \in Instance, proc[i].pc \in {"steps", "func", "end"}
  PROVE  /\ proc[i] \in Process /\ mem[i] \in Snapshot
         /\ proc[i].stage \in 1..Len(Stages) /\ proc[i].step \in Nat \ {0}
         /\ ~mem[i].completed /\ Routed(mem[i])
         /\ StepsIn(1, proc[i].stage - 1) \subseteq Behind(proc[i], mem[i])
         /\ \A k \in 1 .. proc[i].step - 1 : Steps(i)[k] \in Behind(proc[i], mem[i])
         /\ proc[i].call \notin {"none", "idle"}
<1>1. /\ proc[i] \in Process /\ mem[i] \in Snapshot /\ Placed(proc[i])
      /\ Covers(proc[i], mem[i]) /\ Directed(proc[i], mem[i])
  BY DEF Inv, TypeOK, Course
<1>2. /\ proc[i].stage \in 1..Len(Stages) /\ proc[i].step \in Nat \ {0}
  BY <1>1, WorkflowAssumption DEF Placed, Process, WorkflowAssumption
<1>3. /\ ~mem[i].completed /\ Routed(mem[i])
      /\ StepsIn(1, proc[i].stage - 1) \subseteq Behind(proc[i], mem[i])
      /\ \A k \in 1 .. proc[i].step - 1 : StepsOf[Stages[proc[i].stage]][k] \in Behind(proc[i], mem[i])
      /\ proc[i].call \notin {"none", "idle"}
  BY <1>1 DEF Covers, Directed
<1> QED BY <1>1, <1>2, <1>3 DEF Steps, StageOf

\* A step that was passed just now or before leaves nothing behind.
LEMMA StepPassed ==
  ASSUME Course, Inv, NEW i \in Instance, proc[i].pc \in {"steps", "end"},
         NEW m, Routed(m), ~m.completed, m.routed => ~checkStatus(m),
         Passed(mem[i]) \subseteq Passed(m), StepOf(i) \in Passed(m)
  PROVE  Covers(NextStep(i), m) /\ Directed(NextStep(i), m)
<1>1. /\ proc[i].step \in Nat \ {0} /\ proc[i].call \notin {"none", "idle"}
      /\ StepsIn(1, proc[i].stage - 1) \subseteq Behind(proc[i], mem[i])
      /\ \A k \in 1 .. proc[i].step - 1 : Steps(i)[k] \in Behind(proc[i], mem[i])
  BY AtStep
<1>2. Behind(proc[i], mem[i]) \subseteq Behind(proc[i], m) BY DEF Behind
<1>3. \A k \in 1..proc[i].step : k \in 1..(proc[i].step - 1) \/ k = proc[i].step BY <1>1
<1>4. \A k \in 1..proc[i].step : Steps(i)[k] \in Behind(proc[i], m)
  BY <1>1, <1>2, <1>3 DEF StepOf, Behind
<1> QED BY <1>1, <1>2, <1>4, CoursePlaces

\* A step that is not executed has been passed, or is skipped on the way to another.
LEMMA PassStepCourse ==
  ASSUME Course, Inv, NEW i \in Instance, PassStep(i)
  PROVE  Course'
<1> DEFINE s == StepOf(i)
           m == [mem[i] EXCEPT !.nextStep = IF @ = s THEN None ELSE @]
           n == SetStatus(m, s, "skipped")
<1>1. proc[i].pc = "steps" /\ UNCHANGED durable BY DEF PassStep, At, Quietly
<1>2. /\ proc[i] \in Process /\ mem[i] \in Snapshot
      /\ proc[i].stage \in 1..Len(Stages) /\ proc[i].step \in Nat \ {0}
      /\ ~mem[i].completed /\ Routed(mem[i]) /\ proc[i].call \notin {"none", "idle"}
  BY <1>1, AtStep
<1>3. /\ mem[i].routed => ~checkStatus(mem[i])
  BY <1>1 DEF Course, Directed
<1>4. s \in Step
  <2>1. Steps(i) \in Seq(Step) /\ proc[i].step <= Len(Steps(i))
    BY <1>2, StepsTyped DEF PassStep
  <2> QED BY <1>2, <2>1 DEF StepOf
<1>5. /\ m.status = mem[i].status /\ m.routed = mem[i].routed /\ m.completed = mem[i].completed
      /\ m.suspended = mem[i].suspended
      /\ m.nextStep = IF mem[i].nextStep = s THEN None ELSE mem[i].nextStep
  BY <1>2 DEF Snapshot
<1>6. /\ \/ checkStatus(m) /\ Go(i, Return(i, "ok"), m)
         \/ Finished(m, s) /\ Go(i, NextStep(i), m)
         \/ ~Finished(m, s) /\ m.nextStep # None /\ Go(i, NextStep(i), n)
  BY DEF PassStep
<1>7. n.status = [m.status EXCEPT ![s] = "skipped"] /\ n.routed = m.routed
      /\ n.completed = m.completed /\ n.suspended = m.suspended /\ n.nextStep = m.nextStep
  BY <1>2 DEF SetStatus, Snapshot
<1>8. mem[i].status \in [Step -> StepStatus] BY <1>2 DEF Snapshot
<1> HIDE DEF m, n, s
<1>9. CASE checkStatus(m) /\ Go(i, Return(i, "ok"), m)
  <2>1. "ok" \in Outcome BY DEF Outcome
  <2>2. ~m.routed /\ ~m.completed BY <1>2, <1>3, <1>5, <1>9 DEF checkStatus
  <2>3. Routed(m) BY <2>2 DEF Routed
  <2> QED BY <1>1, <1>2, <1>9, <2>1, <2>2, <2>3, CoursePlaces, KeepsCourse
<1>10. CASE Finished(m, s) /\ Go(i, NextStep(i), m)
  <2>1. s \in Passed(m) BY <1>4, <1>10 DEF Finished, Passed
  <2>2. Passed(m) = Passed(mem[i]) BY <1>5 DEF Passed
  <2>3. Routed(m) BY <1>2, <1>5, <2>1, <2>2 DEF Routed
  <2>4. m.routed => ~checkStatus(m) BY <1>3, <1>5 DEF checkStatus
  <2> QED BY <1>1, <1>2, <1>5, <1>10, <2>1, <2>2, <2>3, <2>4, StepPassed, KeepsCourse DEF s
<1>11. CASE ~Finished(m, s) /\ m.nextStep # None /\ Go(i, NextStep(i), n)
  <2>1. s \in Passed(n) /\ Passed(mem[i]) \subseteq Passed(n)
    BY <1>4, <1>5, <1>7, <1>8 DEF Passed
  <2>2. m.nextStep = mem[i].nextStep BY <1>5, <1>11
  <2>3. Routed(n) BY <1>2, <1>5, <1>7, <2>1, <2>2 DEF Routed
  <2>4. n.routed => ~checkStatus(n) BY <1>3, <1>5, <1>7 DEF checkStatus
  <2> QED BY <1>1, <1>2, <1>5, <1>7, <1>11, <2>1, <2>3, <2>4, StepPassed, KeepsCourse DEF s
<1> QED BY <1>6, <1>9, <1>10, <1>11

\* A step that is executed takes the request for it.
LEMMA BeginStepCourse ==
  ASSUME Course, Inv, NEW i \in Instance, BeginStep(i)
  PROVE  Course'
<1> DEFINE s == StepOf(i)
           set == SetStatus(mem[i], s, "processing")
           m == [set EXCEPT !.nextStep = None, !.routed = FALSE]
           p == [proc[i] EXCEPT !.pc = "func", !.tries = 1]
           q == [proc[i] EXCEPT !.pc = "end", !.out = "fail"]
<1>1. proc[i].pc = "steps" BY DEF BeginStep, At
<1>2. /\ proc[i] \in Process /\ mem[i] \in Snapshot
      /\ ~mem[i].completed /\ proc[i].call \notin {"none", "idle"}
      /\ StepsIn(1, proc[i].stage - 1) \subseteq Behind(proc[i], mem[i])
      /\ \A k \in 1 .. proc[i].step - 1 : Steps(i)[k] \in Behind(proc[i], mem[i])
  BY <1>1, AtStep
<1>3. set \in Snapshot /\ Passed(mem[i]) \subseteq Passed(set) /\ set.completed = mem[i].completed
  <2>1. s \notin Passed(mem[i]) BY DEF BeginStep, Finished, Passed
  <2>2. "processing" \in StepStatus BY DEF StepStatus
  <2>3. set.completed = mem[i].completed BY <1>2 DEF SetStatus, Snapshot
  <2> QED BY <1>2, <2>1, <2>2, <2>3, StatusSet
<1>4. /\ Go(i, p, m) \/ Go(i, q, m)
      /\ durable' = durable \/ durable' = m
  BY DEF BeginStep, Save
<1> HIDE DEF set
<1>5. m.status = set.status /\ ~m.routed /\ m.completed = set.completed BY <1>3 DEF Snapshot
<1> HIDE DEF m
<1>6. Routed(m) /\ Behind(proc[i], mem[i]) \subseteq Behind(proc[i], m)
  BY <1>3, <1>5 DEF Routed, Behind, Passed
<1>7. ASSUME NEW r, r.pc \in {"func", "end"}, r.stage = proc[i].stage, r.step = proc[i].step,
             r.over = proc[i].over, r.call = proc[i].call, Go(i, r, m)
      PROVE  Course'
  <2>1. Behind(proc[i], mem[i]) \subseteq Behind(r, m) BY <1>6, <1>7 DEF Behind
  <2>2. Covers(r, m) BY <1>2, <1>3, <1>5, <1>7, <2>1 DEF Covers, Steps, StageOf
  <2>3. Directed(r, m) BY <1>5, <1>6, <1>7 DEF Directed
  <2> QED BY <1>4, <1>6, <1>7, <2>2, <2>3, KeepsCourse
<1>8. /\ p.pc = "func" /\ p.stage = proc[i].stage /\ p.step = proc[i].step
      /\ p.over = proc[i].over /\ p.call = proc[i].call
  BY <1>2 DEF Process
<1>9. /\ q.pc = "end" /\ q.stage = proc[i].stage /\ q.step = proc[i].step
      /\ q.over = proc[i].over /\ q.call = proc[i].call
  BY <1>2 DEF Process
<1> HIDE DEF p, q
<1> QED BY <1>4, <1>7, <1>8, <1>9

\* A step's function runs after the request was taken, and passes nothing.
LEMMA FuncCourse ==
  ASSUME Course, Inv, NEW i \in Instance, Func(i)
  PROVE  Course'
<1>1. proc[i].pc = "func" /\ UNCHANGED durable BY DEF Func, At, Quietly
<1>2. /\ proc[i] \in Process /\ mem[i] \in Snapshot
      /\ ~mem[i].completed /\ proc[i].call \notin {"none", "idle"}
      /\ StepsIn(1, proc[i].stage - 1) \subseteq Behind(proc[i], mem[i])
      /\ \A k \in 1 .. proc[i].step - 1 : Steps(i)[k] \in Behind(proc[i], mem[i])
  BY <1>1, AtStep
<1>3. ~mem[i].routed BY <1>1 DEF Course, Directed
<1>4. PICK m \in AfterFunc(mem[i], StepOf(i)), out \in {"ok", "fail"} \cup ControlFlow[StepOf(i)] :
        \/ Go(i, [proc[i] EXCEPT !.tries = @ + 1], m)
        \/ Go(i, [proc[i] EXCEPT !.pc = "end", !.out = out, !.tries = 0], m)
  BY DEF Func
<1>5. m.status = mem[i].status /\ m.routed = mem[i].routed /\ m.completed = mem[i].completed
  <2>1. CASE m = mem[i] BY <2>1
  <2>2. CASE m = [mem[i] EXCEPT !.suspended = TRUE] BY <1>2, <2>2 DEF Snapshot
  <2>3. CASE \E j \in Jumps[StepOf(i)] :
               m = [mem[i] EXCEPT !.nextStage = IF j[1] = None THEN @ ELSE j[1],
                                  !.nextStep = IF j[2] = None THEN @ ELSE j[2]]
    BY <1>2, <2>3 DEF Snapshot
  <2> QED BY <2>1, <2>2, <2>3 DEF AfterFunc
<1>6. ASSUME NEW r, r.pc \in {"func", "end"}, r.stage = proc[i].stage, r.step = proc[i].step,
             r.over = proc[i].over, r.call = proc[i].call, Go(i, r, m)
      PROVE  Course'
  <2>1. Behind(proc[i], mem[i]) = Behind(r, m) BY <1>5, <1>6 DEF Behind, Passed
  <2>2. Covers(r, m) BY <1>2, <1>5, <1>6, <2>1 DEF Covers, Steps, StageOf
  <2>3. Directed(r, m) BY <1>3, <1>5, <1>6 DEF Directed, Routed
  <2> QED BY <1>1, <1>6, <2>2, <2>3, KeepsCourse
<1>7. CASE Go(i, [proc[i] EXCEPT !.tries = @ + 1], m)
  <2> DEFINE r == [proc[i] EXCEPT !.tries = @ + 1]
  <2>1. /\ r.pc = "func" /\ r.stage = proc[i].stage /\ r.step = proc[i].step
        /\ r.over = proc[i].over /\ r.call = proc[i].call
    BY <1>1, <1>2 DEF Process
  <2>2. Go(i, r, m) BY <1>7
  <2> HIDE DEF r
  <2> QED BY <1>6, <2>1, <2>2
<1>8. CASE Go(i, [proc[i] EXCEPT !.pc = "end", !.out = out, !.tries = 0], m)
  <2> DEFINE r == [proc[i] EXCEPT !.pc = "end", !.out = out, !.tries = 0]
  <2>1. /\ r.pc = "end" /\ r.stage = proc[i].stage /\ r.step = proc[i].step
        /\ r.over = proc[i].over /\ r.call = proc[i].call
    BY <1>2 DEF Process
  <2>2. Go(i, r, m) BY <1>8
  <2> HIDE DEF r
  <2> QED BY <1>6, <2>1, <2>2
<1> QED BY <1>4, <1>7, <1>8

\* A step that ends without an error is passed; what a jump leaves out is passed over.
LEMMA EndStepCourse ==
  ASSUME Course, Inv, NEW i \in Instance, EndStep(i)
  PROVE  Course'
<1> DEFINE s == StepOf(i)
           rest == StepsIn(proc[i].stage + 1, Len(Stages)) \cup RestOfStage(i)
<1>1. proc[i].pc = "end" BY DEF EndStep, At
<1>2. /\ proc[i] \in Process /\ mem[i] \in Snapshot
      /\ proc[i].stage \in 1..Len(Stages) /\ proc[i].step \in Nat \ {0}
      /\ ~mem[i].completed /\ proc[i].call \notin {"none", "idle"}
      /\ StepsIn(1, proc[i].stage - 1) \subseteq Behind(proc[i], mem[i])
      /\ \A k \in 1 .. proc[i].step - 1 : Steps(i)[k] \in Behind(proc[i], mem[i])
  BY <1>1, AtStep
<1>3. ~mem[i].routed BY <1>1 DEF Course, Directed
<1>4. "ok" \in Outcome /\ "fail" \in Outcome BY DEF Outcome
<1>5. s \in Step \ Passed(mem[i])
  <2>1. Executes(proc[i], mem[i]) BY DEF Inv
  <2> QED BY <1>1, <2>1 DEF Executes, StepOf, Steps, StageOf
<1>6. RestOfStage(i) \in SUBSET Step BY <1>2, StepsTyped
<1> HIDE DEF s, rest
<1>7. PICK out \in {proc[i].out} \cup (IF HooksFail THEN {"fail"} ELSE {}) :
        LET m == SetStatus(mem[i], s, StatusAfter(out))
            finish == out = "break" \/ (out = "ok" /\ s \in FinishWorkflow)
        IN /\ Save(i, {m})
           /\ \/ out = "fail" /\ Go(i, Return(i, "fail"), m)
              \/ out = "exit" /\ Go(i, Return(i, "ok"), m)
              \/ finish /\ Go(i, Over(Return(i, "ok"), rest), [m EXCEPT !.completed = TRUE])
              \/ out = "skip stage" /\ Go(i, Over(NextStage(i), RestOfStage(i)), m)
              \/ out \in {"ok", "skip step"} /\ ~finish /\ Go(i, NextStep(i), m)
  BY DEF EndStep, s, rest
<1> DEFINE m == SetStatus(mem[i], s, StatusAfter(out))
           n == [m EXCEPT !.completed = TRUE]
<1>8. StatusAfter(out) \in StepStatus BY DEF StatusAfter, StepStatus
<1>9. m \in Snapshot /\ Passed(mem[i]) \subseteq Passed(m)
  BY <1>2, <1>5, <1>8, StatusSet
<1>10. ~m.routed /\ ~m.completed /\ Routed(m)
  BY <1>2, <1>3 DEF SetStatus, Snapshot, Routed
<1>11. out # "fail" => s \in Passed(m)
  <2>1. out # "fail" => StatusAfter(out) \in {"completed", "skipped"} BY DEF StatusAfter
  <2>2. mem[i].status \in [Step -> StepStatus] BY <1>2 DEF Snapshot
  <2>3. m.status = [mem[i].status EXCEPT ![s] = StatusAfter(out)] BY <1>2 DEF SetStatus, Snapshot
  <2> QED BY <1>5, <2>1, <2>2, <2>3 DEF Passed
<1>12. n.completed /\ ~n.routed /\ n.status = m.status BY <1>9, <1>10 DEF Snapshot
<1>13. durable' = durable \/ durable' = m BY <1>7 DEF Save
<1>14. \/ Go(i, Return(i, "fail"), m) \/ Go(i, Return(i, "ok"), m)
       \/ out # "fail" /\ Go(i, Over(Return(i, "ok"), rest), n)
       \/ out # "fail" /\ Go(i, Over(NextStage(i), RestOfStage(i)), m)
       \/ out # "fail" /\ Go(i, NextStep(i), m)
  BY <1>7
<1> HIDE DEF m, n
<1>15. Behind(proc[i], mem[i]) \subseteq Behind(proc[i], m) BY <1>9 DEF Behind
<1>16. ASSUME out # "fail"
       PROVE  /\ StepsIn(1, proc[i].stage) \subseteq Behind(proc[i], m) \cup RestOfStage(i)
              /\ StepsIn(1, Len(Stages)) \subseteq Behind(proc[i], m) \cup rest
  <2>1. \A k \in 1 .. proc[i].step - 1 : Steps(i)[k] \in Behind(proc[i], mem[i]) BY <1>2
  <2>2. Range(Steps(i)) \subseteq Behind(proc[i], mem[i]) \cup {s} \cup RestOfStage(i)
    BY <1>2, <2>1, StageSplit DEF s
  <2>3. s \in Behind(proc[i], m) BY <1>11, <1>16 DEF Behind
  <2>4. Range(Steps(i)) \subseteq Behind(proc[i], m) \cup RestOfStage(i) BY <1>15, <2>2, <2>3
  <2>5. Range(StepsOf[Stages[proc[i].stage]]) = Range(Steps(i)) BY DEF Steps, StageOf
  <2> QED BY <1>2, <1>15, <2>4, <2>5, StepsInSplit DEF rest
<1>17. CASE Go(i, Return(i, "fail"), m) \/ Go(i, Return(i, "ok"), m)
  BY <1>2, <1>4, <1>10, <1>13, <1>17, CoursePlaces, KeepsCourse
<1>18. CASE out # "fail" /\ Go(i, Over(Return(i, "ok"), rest), n)
  <2> DEFINE q == Over(Return(i, "ok"), rest)
  <2>1. Return(i, "ok") \in Process BY <1>4, Places
  <2>2. /\ Return(i, "ok").pc = "returned" /\ Return(i, "ok").call = proc[i].call
        /\ Return(i, "ok").stage = 1 /\ Return(i, "ok").step = 1
        /\ Return(i, "ok").over = proc[i].over
    BY <1>2 DEF Return, Process
  <2>3. /\ q.pc = "returned" /\ q.call = proc[i].call /\ q.stage = 1 /\ q.step = 1
        /\ Behind(q, n) = Behind(proc[i], m) \cup rest
    BY <1>12, <2>1, <2>2, OverCourse DEF Behind, Passed
  <2>4. Go(i, q, n) BY <1>18
  <2> HIDE DEF q
  <2>5. Covers(q, n) BY <1>2, <1>16, <1>18, <2>3 DEF Covers
  <2>6. Directed(q, n) BY <1>12, <2>3 DEF Directed, Routed
  <2> QED BY <1>10, <1>13, <2>4, <2>5, <2>6, KeepsCourse
<1>19. CASE out # "fail" /\ Go(i, Over(NextStage(i), RestOfStage(i)), m)
  <2> DEFINE q == Over(NextStage(i), RestOfStage(i))
  <2>1. NextStage(i) \in Process BY Places
  <2>2. /\ NextStage(i).pc = "stages" /\ NextStage(i).stage = proc[i].stage + 1
        /\ NextStage(i).call = proc[i].call /\ NextStage(i).over = proc[i].over
        /\ NextStage(i).step = 1
    BY <1>2 DEF NextStage, Process
  <2>3. /\ q.pc = "stages" /\ q.stage = proc[i].stage + 1 /\ q.step = 1
        /\ q.call = proc[i].call
        /\ Behind(q, m) = Behind(proc[i], m) \cup RestOfStage(i)
    BY <2>1, <2>2, OverCourse DEF Behind
  <2>4. Go(i, q, m) BY <1>19
  <2> HIDE DEF q
  <2>5. q.stage - 1 = proc[i].stage BY <1>2, <2>3
  <2>6. Covers(q, m) BY <1>2, <1>10, <1>16, <1>19, <2>3, <2>5 DEF Covers
  <2>7. Directed(q, m) BY <1>10, <2>3 DEF Directed
  <2> QED BY <1>10, <1>13, <2>4, <2>6, <2>7, KeepsCourse
<1>20. CASE out # "fail" /\ Go(i, NextStep(i), m)
  <2>1. Covers(NextStep(i), m) /\ Directed(NextStep(i), m)
    BY <1>1, <1>9, <1>10, <1>11, <1>20, StepPassed DEF s
  <2> QED BY <1>10, <1>13, <1>20, <2>1, KeepsCourse
<1> QED BY <1>14, <1>17, <1>18, <1>19, <1>20

\* Every step of the system keeps to the course.
LEMMA StepKeepsCourse == Course /\ Inv /\ [Next]_vars => Course'
<1> SUFFICES ASSUME Course, Inv, [Next]_vars PROVE Course' OBVIOUS
<1>1. ASSUME NEW i \in Instance,
             Load(i) \/ Run(i) \/ Cancel(i) \/ Stop(i) \/ Timeout(i) \/ Forget(i)
      PROVE  Course'
  BY <1>1, CallerCourse
<1>2. ASSUME NEW i \in Instance, Finish(i) PROVE Course' BY <1>2, FinishCourse
<1>3. ASSUME NEW i \in Instance, execute(i) PROVE Course'
  BY <1>3, PlainCourse, handleStageCourse, PassStepCourse, BeginStepCourse, FuncCourse,
     EndStepCourse DEF execute
<1>4. CASE Crash
  <2>1. \A i \in Instance : Covers(proc[i], mem[i])' /\ Directed(proc[i], mem[i])'
    BY <1>4 DEF Crash, NewProcess, NewWorkflow, Covers, Directed, Routed
  <2>2. Routed(durable)' BY <1>4 DEF Crash, Quietly, Course, Routed, Passed
  <2> QED BY <2>1, <2>2 DEF Course
<1>5. CASE UNCHANGED vars
  BY <1>5 DEF vars, Course, Covers, Directed, Routed, Behind, Passed, checkStatus
<1> QED BY <1>1, <1>2, <1>3, <1>4, <1>5 DEF Next, Terminated

LEMMA CourseHolds == Spec => []Course
<1>1. Init => Course
  <2> SUFFICES ASSUME Init PROVE Course OBVIOUS
  <2>1. \A i \in Instance : Covers(proc[i], mem[i]) /\ Directed(proc[i], mem[i])
    BY DEF Init, NewProcess, NewWorkflow, Covers, Directed, Routed
  <2>2. Routed(durable) BY DEF Init, NewWorkflow, Routed
  <2> QED BY <2>1, <2>2 DEF Course
<1>2. Course /\ Inv /\ [Next]_vars => Course' BY StepKeepsCourse
<1> QED BY <1>1, <1>2, Invariant, PTL DEF Spec

\* For any stages, steps, navigation, and number of objects and runs: what lies before a
\* step that executes, and everything in a completed workflow, was completed or skipped,
\* or passed over because a step or compensation asked for it.
THEOREM NothingForgottenHolds == Spec => []NothingForgotten
<1>1. Inv /\ Course => NothingForgotten
  BY DEF Course, Covers, Behind, NothingForgotten, At, Steps, StageOf
<1> QED BY <1>1, Invariant, CourseHolds, PTL

\* Only BeginStep takes an object from the head of the loop to a step's function.
LEMMA WhoExecutes ==
  ASSUME Inv, [Next]_vars, NEW i \in Instance, proc[i].pc = "steps", At(i, "func")'
  PROVE  BeginStep(i)
<1> USE DEF At
<1>1. proc[i] \in Process /\ proc \in [Instance -> Process] BY DEF Inv, TypeOK
<1>2. ASSUME NEW j \in Instance, j # i, NEW p, NEW m, Go(j, p, m) PROVE FALSE
  BY <1>1, <1>2 DEF Go
<1>3. ASSUME NEW p, NEW m, Go(i, p, m), p.pc # "func" PROVE FALSE
  BY <1>1, <1>3 DEF Go
<1>4. ASSUME NEW j \in Instance,
             Load(j) \/ Run(j) \/ Cancel(j) \/ Stop(j) \/ Timeout(j) \/ Finish(j) \/ Forget(j)
      PROVE  FALSE
  <2>1. \E p, m : Go(j, p, m) BY <1>4 DEF Load, Run, Cancel, Stop, Timeout, Finish, Forget
  <2>2. j = i BY <1>2, <2>1
  <2>3. ~Forget(i) /\ ~Finish(i) BY DEF Finish, Forget
  <2>4. [NewProcess EXCEPT !.call = "idle"].pc = "returned" BY DEF NewProcess
  <2>5. /\ [proc[i] EXCEPT !.call = "waiting", !.pc = "begin"].pc = "begin"
        /\ [proc[i] EXCEPT !.done = TRUE].pc = "steps"
        /\ [proc[i] EXCEPT !.call = "stopping", !.stopped = TRUE].pc = "steps"
        /\ [proc[i] EXCEPT !.call = "abandoned"].pc = "steps"
    BY <1>1 DEF Process
  <2> QED BY <1>3, <1>4, <2>2, <2>3, <2>4, <2>5 DEF Load, Run, Cancel, Stop, Timeout
<1>5. ASSUME NEW j \in Instance, execute(j) PROVE BeginStep(i)
  <2>1. \E p, m : Go(j, p, m)
    BY <1>5 DEF execute, Begin, Stopped, StagesDone, handleStage, StepsDone, PassStep, BeginStep,
       Func, EndStep
  <2>2. j = i BY <1>2, <2>1
  <2>3. ~Begin(i) /\ ~StagesDone(i) /\ ~handleStage(i) /\ ~Func(i) /\ ~EndStep(i)
    BY DEF Begin, StagesDone, handleStage, Func, EndStep
  <2>4. /\ \A out : Return(i, out).pc = "returned" /\ NextStage(i).pc = "stages"
        /\ NextStep(i).pc = "steps"
    BY <1>1 DEF Return, NextStage, NextStep, Process
  <2>5. ~Stopped(i) BY <1>3, <2>4 DEF Stopped
  <2>6. ~StepsDone(i) BY <1>3, <2>4 DEF StepsDone
  <2>7. ~PassStep(i) BY <1>3, <2>4 DEF PassStep
  <2> QED BY <1>5, <2>2, <2>3, <2>5, <2>6, <2>7 DEF execute
<1>6. ~Crash BY DEF Crash, NewProcess
<1>7. ~UNCHANGED vars BY DEF vars
<1> QED BY <1>4, <1>5, <1>6, <1>7 DEF Next, Terminated

\* After a failed run the next step that executes, in this object or in one restored from
\* the snapshot that finish saved, is the compensation step, unless it has been passed.
THEOREM CompensationFirstHolds == Spec => CompensationFirst
<1>1. ASSUME Course, Inv, [Next]_vars, NEW i \in Instance,
             At(i, "steps"), mem[i].routed, At(i, "func")'
      PROVE  StepOf(i) = CompensationStep \/ CompensationStep \in Passed(mem[i])
  <2>1. BeginStep(i) BY <1>1, WhoExecutes DEF At
  <2>2. mem[i].nextStep \in {None, StepOf(i)} BY <2>1 DEF BeginStep
  <2>3. CompensationStep # None BY WorkflowAssumption DEF WorkflowAssumption
  <2>4. Routed(mem[i]) BY <1>1 DEF Course, Directed
  <2> QED BY <1>1, <2>2, <2>3, <2>4 DEF Routed
<1>2. Course /\ Inv /\ [Next]_vars =>
        \A i \in Instance :
          At(i, "steps") /\ mem[i].routed /\ At(i, "func")' =>
            \/ StepOf(i) = CompensationStep
            \/ CompensationStep \in Passed(mem[i])
  BY <1>1
<1> QED BY <1>2, Invariant, CourseHolds, PTL DEF Spec, CompensationFirst

=============================================================================
