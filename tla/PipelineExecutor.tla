---------------------------- MODULE PipelineExecutor ----------------------------
(***************************************************************************)
(* The executor of a pipeline (pipeline/executor.go): workers that load    *)
(* the durable RunState, run or resume the step tree from it, write a      *)
(* snapshot after every change, and compensate completed steps in reverse  *)
(* when a step fails.                                                      *)
(*                                                                         *)
(* The code recurses: Run calls executeSteps, which calls executeBranch or *)
(* executeRepeat, which call executeSteps on a nested scope.  Here a       *)
(* worker holds that call stack as data, one frame per active executeSteps *)
(* with the innermost first, and a program counter.  One action is the     *)
(* code between two points at which another party can interfere: a         *)
(* callback, the write of a snapshot, a read of the clock, the return.     *)
(*                                                                         *)
(* Left out: shared data and its marshalling, diagnostics, the observer    *)
(* and the logger, none of which decide control flow, and versions and     *)
(* migration.                                                              *)
(***************************************************************************)
EXTENDS PipelineDefinition

CONSTANTS
  Worker,       \* processes that may call Run on this pipeline run
  Mode,         \* "none": no snapshot callback; "plain": WithSnapshotFn;
                \* "cas": WithCASSnapshotFn
  CallerSaves,  \* the caller stores the state that Run returns
  MaxFaults,    \* bound: crashes, cancellations, failed writes, delays, ...
  MaxTime       \* bound: ticks of the clock

ASSUME ExecutorAssumption ==
  /\ Mode \in {"none", "plain", "cas"}
  /\ CallerSaves \in BOOLEAN
  /\ MaxFaults \in Nat /\ MaxTime \in Nat

VARIABLES
  store,   \* the durable RunState
  proc,    \* proc[w]: the call of Run that worker w is in
  world,   \* the paths of the actions whose external effect is in force
  now,     \* the clock
  budget   \* adverse events that may still happen

vars == <<store, proc, world, now, budget>>

-----------------------------------------------------------------------------
(* RunState (state.go).                                                    *)

NoTime == -1
Time == Nat \cup {NoTime}

Terminal == {"completed", "failed"}
Status == {"new", "running", "polling", "compensating"} \cup Terminal

Completion == [path : Path, compensator : BOOLEAN]
RepeatState == [path : Path, iteration : Nat, awaiting : BOOLEAN, startedAt : Time]

RunState == [status            : Status,
             currentPath       : Path,
             completed         : Seq(Completion),      \* CompletedSteps
             failedStepPath    : Path,
             pollStartedAt     : Time,
             compensationIndex : Int,                  \* counts from 0
             revision          : Nat,
             repeats           : SUBSET RepeatState,   \* RepeatStates by path
             repeatTimeout     : BOOLEAN]

NewRun == [status |-> "new", currentPath |-> <<>>, completed |-> <<>>,
           failedStepPath |-> <<>>, pollStartedAt |-> NoTime,
           compensationIndex |-> 0, revision |-> 0, repeats |-> {},
           repeatTimeout |-> FALSE]

IsTerminal(m) == m.status \in Terminal

CompletedPaths(m) == {m.completed[k].path : k \in DOMAIN m.completed}

Complete(m, path, compensator) ==
  [m EXCEPT !.completed = Append(@, [path |-> path, compensator |-> compensator])]

\* The repeat state at a path; Go reads a missing key of the map as zero.
RepeatAt(m, path) ==
  IF \E r \in m.repeats : r.path = path
    THEN CHOOSE r \in m.repeats : r.path = path
    ELSE [path |-> path, iteration |-> 0, awaiting |-> FALSE, startedAt |-> NoTime]

SetRepeat(m, r) ==
  [m EXCEPT !.repeats = {q \in @ : q.path # r.path} \cup {r}]

-----------------------------------------------------------------------------
(* A call of Run.                                                          *)

Label == {"idle", "start", "steps", "repeatStart", "repeatCheck", "onEnter", "call",
          "sleep", "until", "raise", "snapshot", "compensate", "return"}

ErrorKind == {"none", "step", "nocompensate", "timeout", "context", "compensation"}
Error == [kind : ErrorKind, path : Path]
NoError == [kind |-> "none", path |-> <<>>]

\* One active executeSteps: parentPath, steps, startIdx, i and resumePath.
Frame == [base : Path, steps : Seq(Step), start : Nat \ {0}, i : Nat \ {0}, resume : Path]

Call == [pc : Label, mem : RunState, stack : Seq(Frame), err : Error,
         next : Label, cancelled : BOOLEAN, attempt : Nat]

NoCall == [pc |-> "idle", mem |-> NewRun, stack |-> <<>>, err |-> NoError,
           next |-> "idle", cancelled |-> FALSE, attempt |-> 0]

NewFrame(base, steps, start, resume) ==
  [base |-> base, steps |-> steps, start |-> start, i |-> start, resume |-> resume]

\* The step that the innermost frame of the call p is at, and its path.
Top(p) == Head(p.stack)
StepOf(p) == Top(p).steps[Top(p).i]
StepPath(p) == Append(Top(p).base, StepOf(p))

\* p has reached l while it executes a step.  The last two conjuncts hold
\* whenever the first one does; they make the guard self-contained.
At(p, l) == /\ p.pc = l
            /\ p.stack # <<>>
            /\ Top(p).i \in DOMAIN Top(p).steps

Advance(p) == [p EXCEPT !.stack[1].i = @ + 1]

Push(p, frame) == [p EXCEPT !.stack = <<frame>> \o @, !.pc = "steps"]

\* The innermost executeSteps returns an error to the frame that called it, or
\* to Run.
Unwind(p) ==
  IF Len(p.stack) > 1 THEN [p EXCEPT !.stack = Tail(@), !.pc = "raise"]
                      ELSE [p EXCEPT !.stack = <<>>, !.pc = "return"]

\* Write the snapshot m, then go on at l.
Persist(p, m, l) == [p EXCEPT !.mem = m, !.pc = "snapshot", !.next = l]

\* Write the snapshot m, then go on as the call q would.
PersistThen(q, m) == [q EXCEPT !.mem = m, !.pc = "snapshot", !.next = q.pc]

\* Mutation of Fail: the error does not say which step failed.
FailNameless(p, kind, path) == [p EXCEPT !.err = [kind |-> kind, path |-> <<>>], !.pc = "raise"]

\* The step at path fails: executeStep returns an error to executeSteps.
Fail(p, kind, path) == [p EXCEPT !.err = [kind |-> kind, path |-> path], !.pc = "raise"]

Timed(s) == Def[s].kind = "repeat" /\ Def[s].maxDuration > 0

TimedOut(s, startedAt) ==
  /\ Def[s].maxDuration > 0 /\ startedAt # NoTime
  /\ now - startedAt >= Def[s].maxDuration

\* Where the body of executeStep goes on before and after the OnEnter hook.
Dispatch(s) == IF Def[s].onEnter THEN "onEnter" ELSE "call"
Prologue(s) == IF Timed(s) THEN "repeatStart" ELSE Dispatch(s)

-----------------------------------------------------------------------------
(* What one step of a worker leaves alone.                                 *)

Adverse == budget > 0 /\ budget' = budget - 1

\* A callback returns nil, an error, an error wrapped by NoCompensate, or a
\* delayed continuation.  The last two leave the run to be tried again, so
\* they count against the budget.
Outcome == {"ok", "error", "nocompensate", "retryafter"}

Charge(o) == IF o \in {"ok", "error"} THEN UNCHANGED budget ELSE Adverse

KindOf(o) == IF o = "nocompensate" THEN "nocompensate" ELSE "step"

Set(w, p) == proc' = [proc EXCEPT ![w] = p]

Local(w, p) == Set(w, p) /\ UNCHANGED <<store, world, now>>
-----------------------------------------------------------------------------
Init ==
  /\ store = NewRun
  /\ proc = [w \in Worker |-> NoCall]
  /\ world = {}
  /\ now = 0
  /\ budget = MaxFaults

-----------------------------------------------------------------------------
(* Run: load the durable state and begin.                                  *)

\* A job queue delivers the run to w.  Delivery to a second worker while a
\* first one is still at it (a lost lease, a retried request) is adverse.
Load(w) ==
  /\ proc[w].pc = "idle"
  /\ ~IsTerminal(store)
  /\ Set(w, [NoCall EXCEPT !.pc = "start", !.mem = store])
  /\ IF \A v \in Worker : proc[v].pc = "idle" THEN UNCHANGED budget ELSE Adverse
  /\ UNCHANGED <<store, world, now>>

\* Mutations of Start: a run that rolls back is run forward, and a rollback that
\* is resumed begins again at the end of the journal.
StartForward(w) ==
  LET p == proc[w]
      m == p.mem
      frame == NewFrame(<<>>, Root, ResumeIndex(Root, m.currentPath, 1), m.currentPath)
  IN /\ p.pc = "start"
     /\ Local(w, PersistThen(Push(p, frame),
                             IF m.status = "compensating" THEN m
                                                          ELSE [m EXCEPT !.status = "running"]))
     /\ UNCHANGED budget

StartOver(w) ==
  LET p == proc[w]
      m == p.mem
      frame == NewFrame(<<>>, Root, ResumeIndex(Root, m.currentPath, 1), m.currentPath)
  IN /\ p.pc = "start"
     /\ Local(w, IF m.status = "compensating"
                   THEN Persist(p, [m EXCEPT !.compensationIndex = Len(m.completed) - 1],
                                "compensate")
                   ELSE PersistThen(Push(p, frame), [m EXCEPT !.status = "running"]))
     /\ UNCHANGED budget

\* Run up to the first snapshot: a cancelled context returns the state as it
\* is; a compensating run resumes its compensation; any other run becomes
\* running, and that is durable before the first callback.
Start(w) ==
  LET p == proc[w]
      m == p.mem
      frame == NewFrame(<<>>, Root, ResumeIndex(Root, m.currentPath, 1), m.currentPath)
  IN /\ p.pc = "start"
     /\ \/ /\ p.cancelled
           /\ Local(w, [p EXCEPT !.pc = "return"])
        \/ /\ ~p.cancelled /\ m.status = "compensating"
           /\ Local(w, Persist(p, m, "compensate"))
        \/ /\ ~p.cancelled /\ m.status # "compensating"
           /\ Local(w, PersistThen(Push(p, frame), [m EXCEPT !.status = "running"]))
     /\ UNCHANGED budget

-----------------------------------------------------------------------------
(* snapshot: the write of the RunState.                                    *)

Written(m) == [m EXCEPT !.revision = @ + 1]

\* Mutation of Accepts: the storage does not compare revisions.
AcceptsStale(m) == TRUE

\* Whether the storage accepts the write of m.
Accepts(m) == Mode = "cas" => store.revision = m.revision

SnapshotOK(w) ==
  LET p == proc[w] IN
  /\ p.pc = "snapshot"
  /\ IF Mode = "none"
       THEN /\ Set(w, [p EXCEPT !.pc = p.next])
            /\ UNCHANGED store
       ELSE /\ Accepts(p.mem)
            /\ store' = Written(p.mem)
            /\ Set(w, [p EXCEPT !.pc = p.next, !.mem = Written(p.mem)])
  /\ UNCHANGED <<world, now, budget>>

\* Mutation of SnapshotFailed: the executor goes on without the snapshot.
SnapshotFailedIgnored(w) ==
  LET p == proc[w] IN
  /\ p.pc = "snapshot" /\ Mode # "none"
  /\ IF ~Accepts(p.mem) \/ p.cancelled THEN UNCHANGED budget ELSE Adverse
  /\ Local(w, [p EXCEPT !.pc = p.next])

\* ErrSnapshotFailed: Run returns at once, and the caller reloads the durable
\* state instead of saving the one Run returned (errors.go).  The storage did
\* not write: a conflict, an outage, or a write with a cancelled context.
SnapshotFailed(w) ==
  LET p == proc[w] IN
  /\ p.pc = "snapshot" /\ Mode # "none"
  /\ IF ~Accepts(p.mem) \/ p.cancelled THEN UNCHANGED budget ELSE Adverse
  /\ Local(w, NoCall)

\* The storage wrote, but the answer is lost: the executor sees a failure.
SnapshotAckLost(w) ==
  LET p == proc[w] IN
  /\ p.pc = "snapshot" /\ Mode # "none" /\ Accepts(p.mem)
  /\ store' = Written(p.mem)
  /\ Set(w, NoCall)
  /\ Adverse
  /\ UNCHANGED <<world, now>>

-----------------------------------------------------------------------------
(* executeSteps: the loop over a scope.                                    *)

\* The step at which this scope resumes is the one whose completion the
\* resume path names.
Resumed(p) ==
  /\ Top(p).i = Top(p).start
  /\ StepPath(p) = Top(p).resume
  /\ StepPath(p) \in CompletedPaths(p.mem)

SkipCompleted(w) ==
  LET p == proc[w] IN
  /\ At(p, "steps") /\ Resumed(p)
  /\ Local(w, Advance(p))
  /\ UNCHANGED budget

StopCancelled(w) ==
  LET p == proc[w] IN
  /\ At(p, "steps") /\ ~Resumed(p) /\ p.cancelled
  /\ Local(w, Unwind([p EXCEPT !.mem.currentPath = StepPath(p),
                               !.err = [kind |-> "context", path |-> <<>>]]))
  /\ UNCHANGED budget

\* Mutation of EnterStep: the resume path is cut at the step entered.
EnterStepShallow(w) ==
  LET p == proc[w] IN
  /\ At(p, "steps") /\ ~Resumed(p) /\ ~p.cancelled
  /\ Local(w, [p EXCEPT !.mem.currentPath = StepPath(p), !.attempt = 0,
                        !.pc = Prologue(StepOf(p))])
  /\ UNCHANGED budget

\* The first step of a resumed scope keeps the resume path if that leads below
\* the step; executeBranch and executeRepeat follow it.
EnterStep(w) ==
  LET p == proc[w]
      deeper == Top(p).i = Top(p).start /\ IsStrictPrefix(StepPath(p), Top(p).resume)
  IN /\ At(p, "steps") /\ ~Resumed(p) /\ ~p.cancelled
     /\ Local(w, [p EXCEPT !.mem.currentPath = IF deeper THEN Top(p).resume ELSE StepPath(p),
                           !.attempt = 0,
                           !.pc = Prologue(StepOf(p))])
     /\ UNCHANGED budget

\* The scope is done.  The top level ends the run; a branch path ends its
\* branch step; a repeat body goes on to the condition of the repeat.
ScopeDone(w) ==
  LET p == proc[w]
      up == [p EXCEPT !.stack = Tail(@)]
      r == RepeatAt(p.mem, StepPath(up))
  IN /\ p.pc = "steps" /\ p.stack # <<>> /\ Top(p).i > Len(Top(p).steps)
     /\ \/ /\ Len(p.stack) = 1
           /\ Local(w, Persist([p EXCEPT !.stack = <<>>],
                               [p.mem EXCEPT !.status = "completed"], "return"))
        \/ /\ Len(p.stack) > 1 /\ At(up, "steps") /\ Def[StepOf(up)].kind = "branch"
           /\ Local(w, Advance(up))
        \/ /\ Len(p.stack) > 1 /\ At(up, "steps") /\ Def[StepOf(up)].kind = "repeat"
           /\ Local(w, [up EXCEPT !.mem = SetRepeat(p.mem, [r EXCEPT !.awaiting = TRUE]),
                                  !.pc = "until"])
     /\ UNCHANGED budget

-----------------------------------------------------------------------------
(* executeStep: the clock of a timed repeat, then the OnEnter hook.        *)

\* Mutation of EnsureRepeatStarted: every Run starts the clock of the repeat.
EnsureRepeatRestarted(w) ==
  LET p == proc[w]
      r == RepeatAt(p.mem, StepPath(p))
  IN /\ At(p, "repeatStart")
     /\ Local(w, Persist(p, SetRepeat(p.mem, [r EXCEPT !.startedAt = now]), "repeatCheck"))
     /\ UNCHANGED budget

EnsureRepeatStarted(w) ==
  LET p == proc[w]
      r == RepeatAt(p.mem, StepPath(p))
  IN /\ At(p, "repeatStart")
     /\ Local(w, IF r.startedAt # NoTime
                   THEN [p EXCEPT !.pc = "repeatCheck"]
                   ELSE Persist(p, SetRepeat(p.mem, [r EXCEPT !.startedAt = now]), "repeatCheck"))
     /\ UNCHANGED budget

CheckRepeatTimeout(w) ==
  LET p == proc[w]
      r == RepeatAt(p.mem, StepPath(p))
  IN /\ At(p, "repeatCheck")
     /\ Local(w, IF TimedOut(StepOf(p), r.startedAt)
                   THEN Fail(p, "timeout", StepPath(p))
                   ELSE [p EXCEPT !.pc = Dispatch(StepOf(p))])
     /\ UNCHANGED budget

\* A repeat looks at its clock again after the hook.
OnEnter(w, o) ==
  LET p == proc[w]
      late == Timed(StepOf(p)) /\ TimedOut(StepOf(p), RepeatAt(p.mem, StepPath(p)).startedAt)
  IN /\ At(p, "onEnter")
     /\ CASE o = "ok" -> Local(w, IF late THEN Fail(p, "timeout", StepPath(p))
                                          ELSE [p EXCEPT !.pc = "call"])
          [] o = "retryafter" -> Local(w, Persist(p, p.mem, "return"))
          [] OTHER -> Local(w, Fail(p, KindOf(o), StepPath(p)))
     /\ Charge(o)

-----------------------------------------------------------------------------
(* executeAction with runWithRetry.                                        *)

\* The Do callback.  Its effect is in force before the completion is durable.
Do(w, o) ==
  LET p == proc[w]
      s == StepOf(p)
  IN /\ At(p, "call") /\ Def[s].kind = "action"
     /\ Set(w, CASE o = "ok" ->
                      PersistThen([Advance(p) EXCEPT !.pc = "steps"],
                                  Complete(p.mem, StepPath(p), Def[s].compensate))
                 [] o = "retryafter" -> Persist(p, p.mem, "return")
                 [] o \in {"error", "nocompensate"} /\ p.attempt + 1 < Def[s].attempts ->
                      [p EXCEPT !.attempt = @ + 1, !.pc = "sleep"]
                 [] OTHER -> Fail(p, KindOf(o), StepPath(p)))
     /\ world' = IF o = "ok" THEN world \cup {StepPath(p)} ELSE world
     /\ Charge(o)
     /\ UNCHANGED <<store, now>>

\* The wait before the next attempt ends, or the context ends it.
Sleep(w) ==
  LET p == proc[w] IN
  /\ At(p, "sleep")
  /\ \/ Local(w, [p EXCEPT !.pc = "call"])
     \/ p.cancelled /\ Local(w, Fail(p, "context", StepPath(p)))
  /\ UNCHANGED budget

-----------------------------------------------------------------------------
(* executePoll.                                                            *)

\* Mutation of Opened: every check opens the window again.
OpenedAnew(m) == [m EXCEPT !.pollStartedAt = now]

\* The poll with its window open.
Opened(m) == IF m.pollStartedAt = NoTime THEN [m EXCEPT !.pollStartedAt = now] ELSE m

PollTimeout(w) ==
  LET p == proc[w]
      m == Opened(p.mem)
  IN /\ At(p, "call") /\ Def[StepOf(p)].kind = "poll" /\ TimedOut(StepOf(p), m.pollStartedAt)
     /\ Local(w, Fail([p EXCEPT !.mem = [m EXCEPT !.pollStartedAt = NoTime]],
                      "step", StepPath(p)))
     /\ UNCHANGED budget

\* The Check callback; "pending" is done = false.
Check(w, o) ==
  LET p == proc[w]
      m == Opened(p.mem)
      closed == [m EXCEPT !.pollStartedAt = NoTime]
  IN /\ At(p, "call") /\ Def[StepOf(p)].kind = "poll" /\ ~TimedOut(StepOf(p), m.pollStartedAt)
     /\ Local(w, CASE o = "ok" ->
                        PersistThen([Advance(p) EXCEPT !.pc = "steps"],
                                    Complete([closed EXCEPT !.status = "running"],
                                             StepPath(p), FALSE))
                   [] o \in {"pending", "retryafter"} ->
                        Persist(p, [m EXCEPT !.status = "polling"], "return")
                   [] OTHER ->
                        Fail([p EXCEPT !.mem = IF p.cancelled THEN m ELSE closed],
                             KindOf(o), StepPath(p)))
     /\ Charge(o)

-----------------------------------------------------------------------------
(* executeBranch.                                                          *)

\* The path was decided in an earlier Run: resume below it.
ResumeBranch(w) ==
  LET p == proc[w]
      d == Len(StepPath(p)) + 1
      path == p.mem.currentPath
      key == path[d]
      steps == Def[StepOf(p)].paths[key]
  IN /\ At(p, "call") /\ Def[StepOf(p)].kind = "branch"
     /\ d <= Len(path) /\ key \in DOMAIN Def[StepOf(p)].paths
     /\ Local(w, Push(p, NewFrame(Append(StepPath(p), key), steps,
                                  ResumeIndex(steps, path, d + 1), path)))
     /\ UNCHANGED budget

\* The Decide callback chooses the path key, and the decision is durable
\* before the first step of the path.
Decide(w, key) ==
  LET p == proc[w]
      s == StepOf(p)
      childPath == Append(StepPath(p), key)
      m == Complete(p.mem, StepPath(p), FALSE)
  IN /\ At(p, "call") /\ Def[s].kind = "branch"
     /\ Len(p.mem.currentPath) <= Len(StepPath(p))
     /\ key \in DOMAIN Def[s].paths
     /\ Local(w, IF Def[s].paths[key] = <<>>
                   THEN PersistThen([Advance(p) EXCEPT !.pc = "steps"],
                                    [m EXCEPT !.currentPath = StepPath(p)])
                   ELSE PersistThen(Push(p, NewFrame(childPath, Def[s].paths[key], 1, childPath)),
                                    [m EXCEPT !.currentPath = childPath]))
     /\ UNCHANGED budget

\* Decide returns an error or, which is the same, a path that does not exist.
DecideFailed(w, o) ==
  LET p == proc[w] IN
  /\ At(p, "call") /\ Def[StepOf(p)].kind = "branch"
  /\ Len(p.mem.currentPath) <= Len(StepPath(p))
  /\ o # "ok"
  /\ Local(w, IF o = "retryafter" THEN Persist(p, p.mem, "return")
                                  ELSE Fail(p, KindOf(o), StepPath(p)))
  /\ Charge(o)

-----------------------------------------------------------------------------
(* executeRepeat.                                                          *)

\* Begin or resume an iteration: the current path names it, or else the
\* repeat state does.  If its steps are all done the condition is next.
BeginIteration(w) ==
  LET p == proc[w]
      d == Len(StepPath(p)) + 1
      path == p.mem.currentPath
      r == RepeatAt(p.mem, StepPath(p))
      iteration == IF d <= Len(path) THEN path[d] ELSE r.iteration
      m == SetRepeat(p.mem, [r EXCEPT !.iteration = iteration])
      body == Def[StepOf(p)].body
      frame == NewFrame(Append(StepPath(p), iteration), body,
                        ResumeIndex(body, path, d + 1), path)
  IN /\ At(p, "call") /\ Def[StepOf(p)].kind = "repeat"
     /\ iteration \in Nat
     /\ Local(w, IF r.awaiting THEN [p EXCEPT !.mem = m, !.pc = "until"]
                               ELSE Push([p EXCEPT !.mem = m], frame))
     /\ UNCHANGED budget

\* Mutation of Compact: the states of the repeats inside stay behind.
CompactJournalOnly(m, iterationPath) ==
  [m EXCEPT !.completed = Subsequence(@, {k \in DOMAIN @ : ~IsPrefix(iterationPath, @[k].path)})]

\* compactRepeatIteration: forget what completed below this iteration.
Compact(m, iterationPath) ==
  [m EXCEPT !.completed = Subsequence(@, {k \in DOMAIN @ : ~IsPrefix(iterationPath, @[k].path)}),
            !.repeats = {r \in @ : ~IsPrefix(iterationPath, r.path)}]

\* The Until callback and what follows it; "more" is done = false.
Until(w, o) ==
  LET p == proc[w]
      s == StepOf(p)
      r == RepeatAt(p.mem, StepPath(p))
      m == IF Def[s].compact THEN Compact(p.mem, Append(StepPath(p), r.iteration)) ELSE p.mem
      finished == [r EXCEPT !.awaiting = FALSE, !.startedAt = NoTime]
      next == [r EXCEPT !.awaiting = FALSE, !.iteration = @ + 1]
      exhausted == Def[s].maxIterations > 0 /\ r.iteration + 1 >= Def[s].maxIterations
  IN /\ At(p, "until") /\ ~TimedOut(s, r.startedAt)
     /\ Local(w, CASE o = "ok" ->
                        PersistThen([Advance(p) EXCEPT !.pc = "steps"],
                                    Complete([SetRepeat(m, finished)
                                                EXCEPT !.currentPath = StepPath(p)],
                                             StepPath(p), FALSE))
                   [] o = "more" /\ exhausted ->
                        Fail([p EXCEPT !.mem = m], "step", StepPath(p))
                   [] o = "more" /\ ~exhausted ->
                        Persist(p, [SetRepeat(m, next)
                                      EXCEPT !.currentPath = Append(StepPath(p), next.iteration)],
                                "return")
                   [] o = "retryafter" -> Persist(p, p.mem, "return")
                   [] OTHER -> Fail(p, KindOf(o), StepPath(p)))
     \* Without a limit the number of iterations is bounded by the budget.
     /\ IF o = "more" /\ Def[s].maxIterations > 0 THEN UNCHANGED budget ELSE Charge(o)

UntilTimeout(w) ==
  LET p == proc[w] IN
  /\ At(p, "until") /\ TimedOut(StepOf(p), RepeatAt(p.mem, StepPath(p)).startedAt)
  /\ Local(w, Fail(p, "timeout", StepPath(p)))
  /\ UNCHANGED budget

-----------------------------------------------------------------------------
(* executeSteps: the error path, once per frame from the inside out.       *)

\* A cancelled context is not a failure: the run stays resumable.
RaiseCancelled(w) ==
  LET p == proc[w] IN
  /\ At(p, "raise") /\ p.cancelled
  /\ Local(w, Unwind([p EXCEPT !.mem.currentPath = StepPath(p),
                               !.err = [kind |-> "context", path |-> <<>>]]))
  /\ UNCHANGED budget

\* Mutation of HandledBelow: the status alone tells.
HandledByStatus(p) == p.mem.status # "running"

\* A nested scope has dealt with the error already.
HandledBelow(p) ==
  \/ p.mem.status # "running"
  \/ Len(p.err.path) > Len(StepPath(p))

Propagate(w) ==
  LET p == proc[w] IN
  /\ At(p, "raise") /\ ~p.cancelled /\ HandledBelow(p)
  /\ Local(w, Unwind(p))
  /\ UNCHANGED budget

RaiseNoCompensate(w) ==
  LET p == proc[w] IN
  /\ At(p, "raise") /\ ~p.cancelled /\ ~HandledBelow(p) /\ p.err.kind = "nocompensate"
  /\ Local(w, PersistThen(Unwind(p), [p.mem EXCEPT !.failedStepPath = StepPath(p)]))
  /\ UNCHANGED budget

RaiseFailure(w) ==
  LET p == proc[w] IN
  /\ At(p, "raise") /\ ~p.cancelled /\ ~HandledBelow(p) /\ p.err.kind # "nocompensate"
  /\ Local(w, Persist(p, [p.mem EXCEPT !.failedStepPath = StepPath(p),
                                       !.status = "compensating",
                                       !.compensationIndex = Len(p.mem.completed) - 1,
                                       !.repeatTimeout = @ \/ p.err.kind = "timeout"],
                      "compensate"))
  /\ UNCHANGED budget

-----------------------------------------------------------------------------
(* runCompensation.                                                        *)

\* The completion at the compensation index of m.
Due(m) == m.completed[m.compensationIndex + 1]

AtCompletion(p) ==
  /\ p.pc = "compensate"
  /\ p.mem.compensationIndex + 1 \in DOMAIN p.mem.completed

\* Mutation of SkipCompensation: a step is skipped though it has a compensator.
SkipCompensationAny(w) ==
  LET p == proc[w] IN
  /\ AtCompletion(p)
  /\ Local(w, [p EXCEPT !.mem.compensationIndex = @ - 1])
  /\ UNCHANGED budget

\* Mutation of SkipCompensation: the index stays, as it would if the loop counted
\* compensations only.
SkipCompensationStays(w) ==
  LET p == proc[w] IN
  /\ AtCompletion(p) /\ ~Due(p.mem).compensator
  /\ Local(w, p)
  /\ UNCHANGED budget

SkipCompensation(w) ==
  LET p == proc[w] IN
  /\ AtCompletion(p) /\ ~Due(p.mem).compensator
  /\ Local(w, [p EXCEPT !.mem.compensationIndex = @ - 1])
  /\ UNCHANGED budget

CompensationCancelled(w) ==
  LET p == proc[w] IN
  /\ AtCompletion(p) /\ Due(p.mem).compensator /\ p.cancelled
  /\ Local(w, Unwind([p EXCEPT !.err = [kind |-> "context", path |-> <<>>]]))
  /\ UNCHANGED budget

\* The Compensate callback.
Compensate(w, o) ==
  LET p == proc[w]
      back == Unwind([p EXCEPT !.err = [kind |-> "compensation", path |-> <<>>]])
  IN /\ AtCompletion(p) /\ Due(p.mem).compensator /\ ~p.cancelled
     /\ Set(w, CASE o = "ok" -> Persist(p, [p.mem EXCEPT !.compensationIndex = @ - 1], "compensate")
                 [] o = "retryafter" -> Persist(p, p.mem, "return")
                 [] o = "error" -> PersistThen(back, p.mem)
                 [] o = "context" -> Unwind([p EXCEPT !.cancelled = TRUE,
                                                      !.err = [kind |-> "context", path |-> <<>>]]))
     /\ world' = IF o = "ok" THEN world \ {Due(p.mem).path} ELSE world
     \* Every failure leaves the run to be tried again.
     /\ IF o = "ok" THEN UNCHANGED budget ELSE Adverse
     /\ UNCHANGED <<store, now>>

\* All is compensated: the run has failed.  The state is terminal, so what the
\* frames still open do with it has no effect and they return at once.
CompensationDone(w) ==
  LET p == proc[w] IN
  /\ p.pc = "compensate" /\ p.mem.compensationIndex < 0
  /\ Local(w, Persist([p EXCEPT !.stack = <<>>],
                      [p.mem EXCEPT !.status = "failed", !.compensationIndex = -1], "return"))
  /\ UNCHANGED budget

-----------------------------------------------------------------------------
(* The return of Run, and the environment.                                 *)

Return(w) ==
  /\ proc[w].pc = "return"
  /\ store' = IF CallerSaves THEN proc[w].mem ELSE store
  /\ Set(w, NoCall)
  /\ UNCHANGED <<world, now, budget>>

\* The process dies; only the durable state and the outside world survive.
Crash(w) ==
  /\ proc[w].pc # "idle"
  /\ Local(w, NoCall)
  /\ Adverse

\* The caller cancels the context of the call.
Cancel(w) ==
  /\ proc[w].pc # "idle" /\ ~proc[w].cancelled
  /\ Local(w, [proc[w] EXCEPT !.cancelled = TRUE])
  /\ Adverse

Tick ==
  /\ now < MaxTime
  /\ now' = now + 1
  /\ UNCHANGED <<store, proc, world, budget>>

\* The run is over and every call has returned.
Terminated ==
  /\ IsTerminal(store)
  /\ \A w \in Worker : proc[w].pc = "idle"
  /\ UNCHANGED vars

-----------------------------------------------------------------------------
\* What the process of worker w does when it is left alone.
WorkerStep(w) ==
  \/ Start(w) \/ SnapshotOK(w) \/ SnapshotFailed(w)
  \/ SkipCompleted(w) \/ StopCancelled(w) \/ EnterStep(w) \/ ScopeDone(w)
  \/ EnsureRepeatStarted(w) \/ CheckRepeatTimeout(w)
  \/ \E o \in Outcome : OnEnter(w, o)
  \/ \E o \in Outcome : Do(w, o)
  \/ Sleep(w)
  \/ PollTimeout(w)
  \/ \E o \in Outcome \cup {"pending"} : Check(w, o)
  \/ ResumeBranch(w)
  \/ \E key \in Key : Decide(w, key)
  \/ \E o \in Outcome : DecideFailed(w, o)
  \/ BeginIteration(w)
  \/ \E o \in Outcome \cup {"more"} : Until(w, o)
  \/ UntilTimeout(w)
  \/ RaiseCancelled(w) \/ Propagate(w) \/ RaiseNoCompensate(w) \/ RaiseFailure(w)
  \/ SkipCompensation(w) \/ CompensationCancelled(w) \/ CompensationDone(w)
  \/ \E o \in {"ok", "error", "retryafter", "context"} : Compensate(w, o)
  \/ Return(w)

Next ==
  \/ \E w \in Worker : Load(w) \/ WorkerStep(w) \/ SnapshotAckLost(w) \/ Crash(w) \/ Cancel(w)
  \/ Tick
  \/ Terminated

Spec == Init /\ [][Next]_vars

\* A run that is not over is delivered again, and a call that is running goes
\* on.  Crashes, cancellations, lost answers and the clock are free to happen
\* or not.
Fairness == \A w \in Worker : WF_vars(Load(w)) /\ WF_vars(WorkerStep(w))

FairSpec == Spec /\ Fairness
=============================================================================
