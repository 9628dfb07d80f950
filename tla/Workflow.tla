---------------------------------- MODULE Workflow ----------------------------------
(***************************************************************************)
(* The workflow engine (workflow/workflow.go).  A Workflow object runs its *)
(* stages, and the steps of each, in order; steps may navigate.  Run waits *)
(* for execute, a goroutine of its own, or, once the context has ended,    *)
(* for a grace period, after which it abandons execute.  The caller calls  *)
(* Run again on the same object, or restores a new one from the last       *)
(* snapshot that was saved, also after a crash.                            *)
(*                                                                         *)
(* Left out: hooks that succeed or return control-flow errors, AfterFn and *)
(* OnFailureFn of the workflow (their errors are only logged), variables,  *)
(* arguments, times and error texts, the errors of init, and isSkipError,  *)
(* which decides no more than the value that Run returns.                  *)
(***************************************************************************)
EXTENDS Integers, Sequences, Functions

CONSTANTS
  Instance,      \* Workflow objects
  Stage, Step,   \* names
  Stages,        \* the stages in their order
  StepsOf,       \* StepsOf[g]: the steps of stage g in their order
  MaxRetries,    \* MaxRetries[s]: attempts of step s
  FinishWorkflow,\* the steps with that flag
  ControlFlow,   \* ControlFlow[s]: the control-flow errors that s may return
  Jumps,         \* Jumps[s]: the <<stage, step>> that s may ask to go to
  Suspends,      \* the steps that may suspend the workflow, or set its failed flag
  CompensationStage, CompensationStep,
  None,          \* no object, no stage, no step
  HooksFail,     \* hooks of stages and steps, and BeforeFn, may return errors
  MaxRuns        \* bound: calls of Run

ControlFlowError == {"skip step", "skip stage", "break", "exit"}
Outcome == {"ok", "fail"} \cup ControlFlowError

WorkflowAssumption ==
  /\ Stages \in Seq(Stage) /\ StepsOf \in [Stage -> Seq(Step)]
  /\ None \notin Instance \cup Stage \cup Step
  /\ MaxRetries \in [Step -> Nat \ {0}]
  /\ ControlFlow \in [Step -> SUBSET ControlFlowError]
  /\ FinishWorkflow \subseteq Step /\ Suspends \subseteq Step
  /\ Jumps \in [Step -> SUBSET ((Stage \cup {None}) \X (Step \cup {None}))]
  /\ CompensationStage \in Stage /\ CompensationStep \in Step
  /\ HooksFail \in BOOLEAN /\ MaxRuns \in Nat
ASSUME WorkflowAssumption

VARIABLES
  mem,      \* mem[i]: what a snapshot of object i holds
  proc,     \* proc[i]: the Run of object i and its execute
  durable,  \* the last snapshot that was saved
  owner,    \* history: the object that saved it or was restored from it last
  runs      \* calls of Run so far

vars == <<mem, proc, durable, owner, runs>>

-----------------------------------------------------------------------------
\* "pending" is set and overwritten before anyone can see it; nothing sets "suspended".
StepStatus == {"none", "processing", "completed", "failed", "skipped"}

\* WorkflowState and the statuses of the steps; suspended: IsSuspended or IsFailed.
\* routed is history: the compensation that finish has asked for is still to begin.
Snapshot ==
  [status: [Step -> StepStatus], suspended: BOOLEAN, completed: BOOLEAN,
   nextStage: Stage \cup {None}, nextStep: Step \cup {None}, routed: BOOLEAN]

NewWorkflow ==
  [status |-> [s \in Step |-> "none"], suspended |-> FALSE, completed |-> FALSE,
   nextStage |-> None, nextStep |-> None, routed |-> FALSE]

\* call: an object is not in use, at rest, running, running with its context seen to
\* have ended, or abandoned.  done: the context of the call has ended.  over is history:
\* the steps that this call passes over without a trace in their status.
Process ==
  [call: {"none", "idle", "waiting", "stopping", "abandoned"},
   pc: {"begin", "stages", "steps", "func", "end", "returned"},
   stage: Nat, step: Nat, tries: Nat, out: Outcome,
   done: BOOLEAN, stopped: BOOLEAN, started: BOOLEAN, over: SUBSET Step]

NewProcess ==
  [call |-> "none", pc |-> "returned", stage |-> 1, step |-> 1, tries |-> 0, out |-> "ok",
   done |-> FALSE, stopped |-> FALSE, started |-> FALSE, over |-> {}]

Init ==
  /\ mem = [i \in Instance |-> NewWorkflow]
  /\ proc = [i \in Instance |-> NewProcess]
  /\ durable = NewWorkflow
  /\ owner = None
  /\ runs = 0

checkStatus(m) == m.completed \/ m.suspended

\* Mutation of Finished: skipped steps run again.
CompletedOnly(m, s) == m.status[s] = "completed"

Finished(m, s) == m.status[s] \in {"completed", "skipped"}

At(i, pc) == proc[i].call \in {"waiting", "stopping", "abandoned"} /\ proc[i].pc = pc
StageOf(i) == Stages[proc[i].stage]
Steps(i) == StepsOf[StageOf(i)]
StepOf(i) == Steps(i)[proc[i].step]

-----------------------------------------------------------------------------
\* The object goes on at p, in memory as m.
Go(i, p, m) == proc' = [proc EXCEPT ![i] = p] /\ mem' = [mem EXCEPT ![i] = m]

Quietly == UNCHANGED <<durable, owner, runs>>

\* SnapshotFn is called with the snapshots ms, one after the other.  An error of it is
\* only logged, so any of the calls may have saved nothing.
Save(i, ms) ==
  /\ \/ \E m \in ms : durable' = m /\ owner' = i
     \/ UNCHANGED <<durable, owner>>
  /\ UNCHANGED runs

\* execute returns with out, turns to the next stage, to the next step.
Return(i, out) == [proc[i] EXCEPT !.pc = "returned", !.out = out, !.stage = 1, !.step = 1]
NextStage(i) == [proc[i] EXCEPT !.pc = "stages", !.out = "ok", !.stage = @ + 1, !.step = 1]
NextStep(i) == [proc[i] EXCEPT !.pc = "steps", !.out = "ok", !.step = @ + 1]

\* The steps of the stages lo to hi, and what is left of the object's stage.
StepsIn(lo, hi) == UNION {Range(StepsOf[Stages[g]]) : g \in lo .. hi}
RestOfStage(i) == {Steps(i)[k] : k \in proc[i].step + 1 .. Len(Steps(i))}

Over(p, steps) == [p EXCEPT !.over = @ \cup steps]

-----------------------------------------------------------------------------
\* The caller: a new object takes up the last snapshot once the others are gone, or so
\* it believes.
Load(i) ==
  /\ proc[i].call = "none"
  /\ \A j \in Instance : proc[j].call \in {"none", "abandoned"}
  /\ runs < MaxRuns
  /\ Go(i, [NewProcess EXCEPT !.call = "idle"], durable)
  /\ owner' = i
  /\ UNCHANGED <<durable, runs>>

\* Run; the caller may have cleared the flags before.
Run(i) ==
  /\ proc[i].call = "idle"
  /\ runs < MaxRuns
  /\ \E suspended \in {mem[i].suspended, FALSE} :
       Go(i, [proc[i] EXCEPT !.call = "waiting", !.pc = "begin"],
             [mem[i] EXCEPT !.suspended = suspended])
  /\ runs' = runs + 1
  /\ UNCHANGED <<durable, owner>>

Cancel(i) ==
  /\ proc[i].call = "waiting" /\ ~proc[i].done
  /\ Go(i, [proc[i] EXCEPT !.done = TRUE], mem[i])
  /\ Quietly

\* Run sees that the context has ended; isStopped is never reset.
Stop(i) ==
  /\ proc[i].call = "waiting" /\ proc[i].done
  /\ Go(i, [proc[i] EXCEPT !.call = "stopping", !.stopped = TRUE], mem[i])
  /\ Quietly

\* The grace period is over: Run returns, execute goes on.
Timeout(i) ==
  /\ proc[i].call = "stopping"
  /\ Go(i, [proc[i] EXCEPT !.call = "abandoned"], mem[i])
  /\ Quietly

\* Mutation of Compensation: no GoToStep.
CompensationStageOnly(m) == [m EXCEPT !.nextStage = CompensationStage, !.routed = TRUE]

Compensation(m) ==
  [m EXCEPT !.nextStage = CompensationStage, !.nextStep = CompensationStep, !.routed = TRUE]

\* execute has returned to Run: finish.  Of the call only isStopped outlives it.
Finish(i) ==
  /\ At(i, "returned") /\ proc[i].call # "abandoned"
  /\ LET m == IF proc[i].out = "fail" /\ proc[i].started THEN Compensation(mem[i]) ELSE mem[i]
     IN  /\ Go(i, [NewProcess EXCEPT !.call = "idle", !.stopped = proc[i].stopped], m)
         /\ IF proc[i].out = "fail" THEN Save(i, {mem[i], m}) ELSE Quietly

\* Nobody waits for the end of an abandoned execute.
Forget(i) ==
  /\ At(i, "returned") /\ proc[i].call = "abandoned"
  /\ Go(i, NewProcess, NewWorkflow)
  /\ Quietly

\* The program ends, with all of its objects.
Crash ==
  /\ \E i \in Instance : proc[i].call # "none"
  /\ proc' = [i \in Instance |-> NewProcess]
  /\ mem' = [i \in Instance |-> NewWorkflow]
  /\ Quietly

-----------------------------------------------------------------------------
\* execute: executionStarted, the check of the flags and BeforeFn.
Begin(i) ==
  /\ At(i, "begin")
  /\ \/ /\ checkStatus(mem[i])
        /\ Go(i, Return(i, "ok"), mem[i])
     \/ /\ ~checkStatus(mem[i]) /\ HooksFail
        /\ Go(i, Return(i, "fail"), mem[i])
     \/ /\ ~checkStatus(mem[i])
        /\ Go(i, [proc[i] EXCEPT !.pc = "stages", !.started = TRUE], mem[i])
  /\ Quietly

\* Mutation of Stopped: the loop over the steps is left without an error.
StoppedStage(i) ==
  /\ \/ At(i, "stages") /\ proc[i].stage <= Len(Stages)
     \/ At(i, "steps") /\ proc[i].step <= Len(Steps(i))
  /\ proc[i].stopped
  /\ \/ proc[i].pc = "steps" /\ Go(i, NextStage(i), mem[i])
     \/ proc[i].pc = "stages" /\ Go(i, Return(i, IF proc[i].done THEN "fail" ELSE "ok"), mem[i])
  /\ Quietly

\* isStopped at the head of either loop.
Stopped(i) ==
  /\ \/ At(i, "stages") /\ proc[i].stage <= Len(Stages)
     \/ At(i, "steps") /\ proc[i].step <= Len(Steps(i))
  /\ proc[i].stopped
  /\ Go(i, Return(i, IF proc[i].done THEN "fail" ELSE "ok"), mem[i])
  /\ Quietly

StagesDone(i) ==
  /\ At(i, "stages") /\ proc[i].stage > Len(Stages)
  /\ Go(i, Return(i, "ok"), [mem[i] EXCEPT !.completed = TRUE])
  /\ Quietly

\* handleStage up to its steps.
handleStage(i) ==
  /\ At(i, "stages") /\ proc[i].stage <= Len(Stages) /\ ~proc[i].stopped
  /\ LET here == mem[i].nextStage \in {None, StageOf(i)}
         m == [mem[i] EXCEPT !.nextStage = None]
     IN  \/ /\ checkStatus(mem[i])
            /\ Go(i, Return(i, "ok"), mem[i])
         \/ /\ ~checkStatus(mem[i]) /\ ~here
            /\ Go(i, Over(NextStage(i), Range(Steps(i))), mem[i])
         \/ /\ ~checkStatus(mem[i]) /\ here /\ Steps(i) = <<>>
            /\ Go(i, NextStage(i), m)
         \/ /\ ~checkStatus(mem[i]) /\ here /\ Steps(i) # <<>> /\ HooksFail
            /\ Go(i, Return(i, "fail"), m)
         \/ /\ ~checkStatus(mem[i]) /\ here /\ Steps(i) # <<>>
            /\ Go(i, [proc[i] EXCEPT !.pc = "steps"], m)
  /\ Quietly

\* The steps of the stage are done: its AfterFn.
StepsDone(i) ==
  /\ At(i, "steps") /\ proc[i].step > Len(Steps(i))
  /\ \/ Go(i, NextStage(i), mem[i])
     \/ HooksFail /\ Go(i, Return(i, "fail"), mem[i])
  /\ Quietly

SetStatus(m, s, status) == [m EXCEPT !.status[s] = status]

\* handleStep, when it does not execute the step.
PassStep(i) ==
  /\ At(i, "steps") /\ proc[i].step <= Len(Steps(i)) /\ ~proc[i].stopped
  /\ LET s == StepOf(i)
         m == [mem[i] EXCEPT !.nextStep = IF @ = s THEN None ELSE @]
     IN  \/ /\ checkStatus(m)
            /\ Go(i, Return(i, "ok"), m)
         \/ /\ ~checkStatus(m) /\ Finished(m, s)
            /\ Go(i, NextStep(i), m)
         \/ /\ ~checkStatus(m) /\ ~Finished(m, s) /\ m.nextStep # None
            /\ Go(i, NextStep(i), SetStatus(m, s, "skipped"))
  /\ Quietly

\* handleStep, when it executes the step: up to RetryPolicy.
BeginStep(i) ==
  /\ At(i, "steps") /\ proc[i].step <= Len(Steps(i)) /\ ~proc[i].stopped
  /\ LET s == StepOf(i)
         m == [SetStatus(mem[i], s, "processing") EXCEPT !.nextStep = None, !.routed = FALSE]
     IN  /\ ~checkStatus(mem[i]) /\ ~Finished(mem[i], s)
         /\ mem[i].nextStep \in {None, s}
         /\ \/ Go(i, [proc[i] EXCEPT !.pc = "func", !.tries = 1], m)
            \/ HooksFail /\ Go(i, [proc[i] EXCEPT !.pc = "end", !.out = "fail"], m)
         /\ Save(i, {m})

\* What a call of the step's function may leave in the WorkflowState.
AfterFunc(m, s) ==
  {m} \cup {[m EXCEPT !.suspended = TRUE] : t \in Suspends \cap {s}}
      \cup {[m EXCEPT !.nextStage = IF j[1] = None THEN @ ELSE j[1],
                      !.nextStep = IF j[2] = None THEN @ ELSE j[2]] : j \in Jumps[s]}

\* One call of Func by RunWithLinear or RunWithBackoff; a plain error is retried after
\* a delay, unless the context ends.
Func(i) ==
  /\ At(i, "func")
  /\ \E m \in AfterFunc(mem[i], StepOf(i)), out \in {"ok", "fail"} \cup ControlFlow[StepOf(i)] :
       \/ /\ out = "fail" /\ proc[i].tries < MaxRetries[StepOf(i)]
          /\ Go(i, [proc[i] EXCEPT !.tries = @ + 1], m)
       \/ /\ out = "fail" => proc[i].tries = MaxRetries[StepOf(i)] \/ proc[i].done
          /\ Go(i, [proc[i] EXCEPT !.pc = "end", !.out = out, !.tries = 0], m)
  /\ Quietly

StatusAfter(out) ==
  CASE out = "ok" -> "completed" [] out = "fail" -> "failed" [] OTHER -> "skipped"

\* The hooks after the step, the deferred status and snapshot, and what handleStage and
\* execute make of the outcome.
EndStep(i) ==
  /\ At(i, "end")
  /\ \E out \in {proc[i].out} \cup (IF HooksFail THEN {"fail"} ELSE {}) :
       LET s == StepOf(i)
           m == SetStatus(mem[i], s, StatusAfter(out))
           finish == out = "break" \/ (out = "ok" /\ s \in FinishWorkflow)
           rest == StepsIn(proc[i].stage + 1, Len(Stages)) \cup RestOfStage(i)
       IN  /\ Save(i, {m})
           /\ \/ out = "fail" /\ Go(i, Return(i, "fail"), m)
              \/ out = "exit" /\ Go(i, Return(i, "ok"), m)
              \/ finish /\ Go(i, Over(Return(i, "ok"), rest), [m EXCEPT !.completed = TRUE])
              \/ out = "skip stage" /\ Go(i, Over(NextStage(i), RestOfStage(i)), m)
              \/ out \in {"ok", "skip step"} /\ ~finish /\ Go(i, NextStep(i), m)

-----------------------------------------------------------------------------
execute(i) ==
  \/ Begin(i) \/ Stopped(i) \/ StagesDone(i) \/ handleStage(i) \/ StepsDone(i)
  \/ PassStep(i) \/ BeginStep(i) \/ Func(i) \/ EndStep(i)

\* Every call that is allowed has been made.
Terminated ==
  /\ runs = MaxRuns
  /\ \A i \in Instance : proc[i].call \in {"none", "idle"}
  /\ UNCHANGED vars

Next ==
  \/ \E i \in Instance :
       \/ Load(i) \/ Run(i) \/ Cancel(i) \/ Stop(i) \/ Timeout(i) \/ Finish(i) \/ Forget(i)
       \/ execute(i)
  \/ Crash \/ Terminated

Spec == Init /\ [][Next]_vars
=============================================================================
