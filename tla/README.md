# A formal model of xutils

`xutils` is a Go library of independent packages. Three of them have behaviour that
tests reach badly: the **pipeline** (a durable, resumable saga executor, with versions,
migration and diagnostics of its own), the **broker** (publish-subscribe between
goroutines) and the **workflow** engine; **loopper** and **retry** have a little of it.
This directory holds TLA+ models of that behaviour, translated from the Go source, TLC runs
that check them on small instances, and TLAPS proofs, for every instance, of the safety
properties that the runs check. Paths below are relative to `src/`.

1. [The system](#the-system) – inventory
2. [The modules](#the-modules) – what models what, and how
3. [The runs](#the-runs) – what TLC checks, bounds, fairness
4. [The proofs](#the-proofs)
5. [Disagreements with the documentation](#disagreements-with-the-documentation)
6. [What is not modelled](#what-is-not-modelled)
7. [The plan](#the-plan)

To repeat the checks: `tlc -config Timed.cfg MCPipeline` (each `.cfg` names its module
below), `tlapm PipelineSafety.tla` (each module of the section on proofs).

## The system

### pipeline executor (`pipeline/executor.go`, `state.go`, `errors.go`, `options.go`)

*State.* A `RunState` that the caller keeps between calls of `Run`: status, current path,
the journal `CompletedSteps`, failed path, `PollStartedAt`, compensation index, revision,
one `RepeatState` per repeat, shared data. Nothing else survives a call. During a call
there is the Go call stack: `executeSteps` of a scope, inside `executeBranch` or
`executeRepeat` of the scope around it.

*Operations.* `Run` starts or resumes the step tree; an action is called (and retried), a
poll checked, a branch decided, a repeat iterated; hooks run before a step; a snapshot is
written after every change, optionally with compare-and-swap on the revision; a failure
stores the failed path and turns the run into a rollback, which calls the compensators of
completed steps in reverse order. `ErrRetryAfter`, a pending poll, an unfinished repeat, a
cancelled context and a failed snapshot leave the call with the run resumable.

*Interactions.* Callbacks of the user (`Do`, `Check`, `Decide`, `Until`, `OnEnter`,
`Compensate`), the snapshot function, the clock, and the caller, who loads the state,
calls `Run`, and may store the returned state.

*Hard behaviour.* A crash or a failed write between any two points; resumption in the
middle of nested scopes from nothing but a path; deadlines that span restarts; two
workers on the same run; an error that passes through several scopes, of which exactly
one must act on it; cancellation, which must not be mistaken for failure.

*What makes it correct.* The durable state is that of a saga; what the journal says is in
force; a completed step is not called again and none is left out; a rollback is final and
a failure names the step that failed; deadlines are kept; every run ends.

### pipeline definition (`pipeline/pipeline.go`, `helpers.go`) and compaction (`compact.go`)

The immutable tree of steps with its validation, and `compactRepeatIteration`, which
removes finished iterations from the journal. Correct if it removes exactly those.

### pipeline versions and migration (front of `executor.go`, `migration.go`)

*State.* The version in the `RunState`, and, outside of it, the release that each worker
runs. *Operations.* A new run gets the version of its release; an older one is migrated, and
the migrated state is durable, before the first callback; a newer one, and one that is too
old, is refused. *Hard.* In a rolling deployment any worker may get the run next; the state
refers to steps by name, and names change; a release that takes older states as they are
does not put its version on them. *Correct* if nothing is done again under another name, a
rollback undoes what other releases did, and no old release takes the run back.

### pipeline diagnostics (`record*` in `executor.go`, `StepPathKey`, `compact.go`)

*State.* A map from keys to records of attempts, times, errors and the next run. A key joins
the names of a path, with escapes. *Operations.* Each callback's outcome is recorded; a
compact repeat moves the records of an iteration to its aggregates, in a loop over the map
that it changes. *Correct* if the record of a path says what happened there.

### pipeline shared data, observer

Shared data is a JSON map that `Do` may change and that the executor marshals into the
state after the call. Observer and logger are told what happens.

### broker (`broker/broker.go`)

*State.* A `sync.Map` of subscriber channels, the queues `publishCh` and `unsubCh`, the
flag `closed`, the channels `stopCh` and `doneCh`.

*Operations.* `Subscribe`, `Unsubscribe`, `Publish`, `Stop`, called by any goroutine at any
time; and `Start`, the goroutine that takes requests from the queues, sends a message to
its recipients without waiting for them, and closes all channels on the way out.
Consumers receive from, and may close, their channels.

*Hard behaviour.* Every test of `closed` may be stale when used; `Range` is no snapshot;
queues fill while the broker stops; a send may meet a closed channel; two parties may
want to close one channel.

*What makes it correct.* No channel is closed twice; all are closed by `Stop`; messages
arrive in one order, once, not before the subscription, and in spite of what other
subscribers do; every call returns.

### workflow engine and its retry policies (`workflow/`)

*State.* Per object the flags suspended, completed and failed, the navigation request
(`NextStage`, `NextStep`) and the status of each step, all of which a snapshot holds; and,
outside of it, `isStopped`, `executionStarted` and the two loops over stages and steps.
*Operations.* `Run`, `execute` in a goroutine of its own, stages and steps in order,
navigation, suspension, shutdown with a grace period, the routing of a failure to the
compensation step, retry policies, `SetSnapshot`. *Hard.* `Run` may return while `execute`
is still at work; ten ways out of three nested loops, some of which mark the workflow
completed; navigation that only memory knows; a crash anywhere. *Correct* if a finished
step does not run again, none is left out that nobody asked to pass over, a failed run is
followed by the compensation step, and a restored workflow goes on where it was.

### loopper (`loopper/loop.go`)

*State.* The flags `running`, `started`, `stopped`, a WaitGroup and a cancel function.
*Operations.* `Start`, `Trigger`, the ticker, `Stop`, `Wait`, all concurrent; every run is a
goroutine. *Hard.* The flag is taken before the lock and given back without it; Add and
Wait on one WaitGroup. *Correct* if two runs never overlap, none begins after `Wait`
returned from a stopped loop, the WaitGroup is used as package `sync` asks, and `Wait`
returns.

### retry (`retry/retry.go`), and the loops of pipeline and workflow

*State.* The number of attempts, and a delay on 64 bits that doubles. *Operations.* An
attempt, the wait, and its end by the timer or by the context. Three loops are written
apart: `Retry.Do`, `runWithRetry`, `RunWithLinear`/`RunWithBackoff`. *Hard.* Overflow; a
context that ends in a wait, in an attempt, or between them. *Correct* if each wait is the
documented one, `Do` goes on to no attempt after the end of its context, and loops return.

### dbutil (`dbutil/pagination.go`)

A pure function from page and size to limit and offset.

### syncutil, strutil, randutil, cacheutil, dbutil (rest), loggerutil, timeutil, testutil, skills

A mutex around a map or slice per operation, formatting, random strings, adapters to
`database/sql`, logging, documentation. No behaviour that outlives a call.

The packages do not call each other, but for `loggerutil`, so no module composes two of
them. The parts of the pipeline are split by what their properties need: `PipelineExecutor`
has all kinds of steps under one definition, `Migration` has definitions that change and
one kind of step, `Diagnostics` has keys made of characters and no faults but those that
are recorded.

## The modules

| module | models | contents |
|---|---|---|
| `PipelineDefinition` | `pipeline.go`, `helpers.go` | the step tree, its constructors, validation as an assumption, resume positions |
| `PipelineExecutor` | `executor.go`, `state.go`, `compact.go`, `errors.go` | the workers, their call stacks, the durable state, callbacks, faults, the clock |
| `Saga` | – | the abstract promise: a ledger that grows, then is undone last first |
| `PipelineProperties` | – | properties of the executor, the refinement mapping, inductive invariants |
| `MCPipeline` | – | three small pipelines |
| `Broker` | `broker.go` | the clients' calls, the server goroutine, consumers |
| `BrokerProperties`, `MCBroker` | – | properties, inductive invariants; symmetry |
| `Migration`, `MigrationProperties`, `MCMigration` | the front of `Executor.Run`, `checkVersion`, `migration.go`, resumption and rollback by name | workers of several releases on one durable state; three releases |
| `Diagnostics`, `DiagnosticsProperties`, `MCDiagnostics` | `record*`, `StepPathKey`, `compact.go` | keys, records, and their merging; names that need escapes |
| `Retry`, `RetryProperties`, `MCRetry` | `retry.go`, `runWithRetry`, `step_retry_policies.go` | the three loops, with durations of few bits |
| `Loopper` | `loop.go` | the clients' calls, the ticker, the runs, the WaitGroup |
| `LoopperProperties`, `MCLoopper` | – | properties, the inductive invariant; programs of calls |
| `Workflow` | `workflow/workflow.go`, `step_retry_policies.go`, snapshots and states | the caller, `Run` and `execute` of each object, the saved snapshot |
| `WorkflowProperties`, `MCWorkflow` | – | properties; a workflow of three stages |
| `PipelineSafety`, `PipelineCourse`, `PipelineJournal` | – | proofs about the executor: types, rollback and errors, the place of a run; the window of a poll, what a run leaves in its journal, and its deadlines; the order of the journal, the refinement of `Saga`, the effects, the orphans. Each extends the one before it |
| `BrokerProofs`, `LoopperProofs`, `WorkflowProofs`, `MigrationProofs`, `RetryProofs` | – | proofs about the components of those names |

Definitions named *Mutation of ...* in a module are deliberate bugs; no specification uses
them. They show that each property can fail: put in the place of the definition they
mutate, they make TLC find a violation (the table `mutants` in `PROJECT.json`).

### The executor as a state machine

The code recurses; the model keeps the recursion as data. `proc[w]` is a call of `Run` by
worker `w`: the `RunState` in memory (`mem`), one frame per active `executeSteps` with the
innermost first (`stack`), a program counter (`pc`), the error on its way up (`err`), and
whether the context is cancelled. `store` is the durable state, `world` the set of step
paths whose external effect is in force. One action is the code between two points at
which something else may happen – a callback, a write, a look at the clock, the return:

| code | actions |
|---|---|
| `Run`, `resumeCompensation` | `Load`, `Start`, `Return` |
| `snapshot` | `SnapshotOK`, `SnapshotFailed`, `SnapshotAckLost` |
| `executeSteps`, the loop | `SkipCompleted`, `StopCancelled`, `EnterStep`, `ScopeDone` |
| `executeSteps`, the error path | `RaiseCancelled`, `Propagate`, `RaiseNoCompensate`, `RaiseFailure` |
| `executeStep` | `EnsureRepeatStarted`, `CheckRepeatTimeout`, `OnEnter` |
| `executeAction`, `runWithRetry` | `Do`, `Sleep` |
| `executePoll` | `PollTimeout`, `Check` |
| `executeBranch` | `ResumeBranch`, `Decide`, `DecideFailed` |
| `executeRepeat` | `BeginIteration`, `Until`, `UntilTimeout`; `Compact` for `compactRepeatIteration` |
| `runCompensation` | `SkipCompensation`, `CompensationCancelled`, `Compensate`, `CompensationDone` |
| the environment | `Crash`, `Cancel`, `Tick` |

A write is an action of its own: a call that wants to write goes to `snapshot` with the
place to go on at in `next`, so a crash, another worker or the clock may come between a
callback, the change in memory, and the write. The storage may refuse the write (a
conflict of revisions, an outage, a cancelled context) or write and lose the answer. After
`ErrSnapshotFailed` the caller reloads, as `errors.go` asks.

*Abstractions.* A step name is unique in the whole tree (the code asks it per scope; paths
tell equal names apart). Iteration numbers in paths are numbers, not decimals. A failing
`Do` has no effect. Shared data and its marshalling, observer, logger and `ForceTerminate`
are left out; versions and diagnostics are in the next two modules. A marshalling that
fails after an action was executed makes `Run` return without a snapshot: what is durable
and in force is then what a `Crash` at the same place leaves. `RepeatState.Completed` is never
read and left out. Errors that need a definition changed between calls (a saved path that
no longer exists) do not occur. `CompensationDone` drops the remaining frames at once: the
state is terminal, and they do nothing but return.

*Constants.* `Mode` tells how snapshots are written: `"none"`, `"plain"`
(`WithSnapshotFn`) or `"cas"` (`WithCASSnapshotFn`). With `CallerSaves` the caller stores
the state that `Run` returns, as the comment on `Run` suggests.

### Versions and migration as a state machine

`store` is the durable state, `proc[w]` the call of worker `w`, `release[w]` what it runs;
`Deploy` puts a newer release on an idle worker. An entry of the journal carries, besides
its name, the operation that the step did, which the code does not store: the properties
speak of operations, the code's guards of names. The order of `Run` is kept:

| code | actions |
|---|---|
| the context, the version of a newer state | `Refuse` |
| a new run, a state that needs no migration | `Begin` |
| the migrator, the stamp of the version, the snapshot | `Migrate`, `MigrateFailed` |
| `checkVersion`, the test for a terminal state | `CheckVersion` |
| the first snapshot, `findTopLevelIndex` | `Resume` |
| `executeSteps` at the top level | `SkipCompleted`, `StopCancelled`, `Do`, `DoFailed`, `DoCancelled`, `StepsDone` |
| `runCompensation` | `SkipCompensation`, `CompensationCancelled`, `Compensate`, `CompensateFailed`, `CompensationDone` |
| `snapshot` with compare-and-swap | `SnapshotOK`, `SnapshotFailed`, `SnapshotAckLost` |

The migrator and the definitions are the application's. `CompatibilityAssumption` is what it
owes: a release that takes older states as they are has their steps; one that migrates
knows the older operations, in their order; none does an operation twice. Then `Renamed`
is the migration that keeps to it.

### The diagnostics as a state machine

One pipeline runs through its callbacks: `Begin` records an attempt, `Unsuccessful` an error,
a deferral with or without a cause, or a snooze, `Complete` the completion; `UntilReturns`
starts the loop over the map, `Visit` takes one key of it, `RepeatDone`, `RepeatGoesOn` and
`RepeatLimit` decide. Go leaves open in which order the loop visits the keys and whether it
meets one that it inserts: `walk` is the set of keys still to be visited, `Visit` takes any
of them, and adds its aggregate to it or not. `log` keeps everything that was recorded, with
its full path, and `merged` the iterations that were compacted; no guard looks at them.
Time does not go backwards. The errors of a rollback are left out.

### The retry loops as a state machine

`conf` is one of all configurations of the three loops; `Start` is the validation, `CheckContext`
the look at the context before an attempt (`Do` only), `CallEnds` and `CallFails` the attempt,
`TimerFires` and `WaitCancelled` the two cases of the `select` of a wait. A duration wraps at
`Width` bits. The goroutine may come to the `select` late, so both cases may be ready, also if
the context had ended before the wait began, and either is taken. `ended` (where the call was
when its context ended) and `late` (attempts that came to an end since) are history.

### The broker as a state machine

A call is split where another goroutine may come in between: `Subscribe` tests `closed`
(`Subscribe`), then stores (`Store`); `Publish` tests it (`Publish`), walks the map
(`Collect`, `RangeDone`), then waits for the queue or for the end (`Enqueue`,
`DropPublish`); `Unsubscribe` likewise; `Stop` sets the flag, closes `stopCh`, waits for
`doneCh`. The server receives, sends to one recipient after the other (`SafeSend`, with
the recovered panic on a closed channel and the drop on a full one), removes and closes
(`RemoveAndClose`), and on its way out closes one channel after the other
(`CloseSubscriber`, `Exit`). Walking a `sync.Map` visits every key that is there
throughout and may visit one that comes or goes; the model allows all of that. A call that
finds the broker closed and returns at once changes nothing and is not an action. The
fields `early`, `missed`, `overflow`, `asked` and the variables `log` and `returned` are
history: the properties speak of them, no guard of the code's does (`asked` and the
channels left bound the number of calls).

### The loop as a state machine

`thread[t]` says what the client or the ticker `t` is doing, `Program[c]` which calls the
client `c` makes. A critical section of `mu` is one action, and so is a compare-and-swap of
the flag. `tryRun`, which three callers share, is `CompareAndSwap`, `Launch` (the critical
section and the start of the run), and `Undo`; the caller goes on at `TryReturns`. `Start`
is `Start`, with `WithLeading` a `tryRun`, and `Spawn`, which creates the ticker; `Stop` is
`Stop` and `Cancel`. A run is in the function (`bodies`) until `RunEnds` clears the flag, and
counted (`finishing`) until `RunDone`. The ticker leaves at `TickerExit` when its context
has ended, by `Stop` or because the caller's context did (`ParentCancel`).

`sync.WaitGroup` is modelled from its documentation and with its two panics: an `Add` from
zero while there are waiters, which is possible between the `Done` that reaches zero and
the waking of the waiters (`Release`), and a waiter that is woken and finds the group in
use again (`WaitReturn`). The value that `Trigger` returns, the context that a run gets and
the recovery of its panic are left out.

### The workflow as a state machine

`mem[i]` is what a snapshot of object `i` would hold, `proc[i]` its call of `Run` (`call`,
`done`), the goroutine of `execute` (`pc`, the positions in the two loops, the attempts, the
outcome of the step) and the flags outside the snapshot. `durable` is the last snapshot
that `SnapshotFn` saved; since its errors are only logged, any call of it may save nothing.

| code | actions |
|---|---|
| the caller | `Load` (`SetSnapshot` on a new object), `Run`, `Cancel`, `Crash` |
| `Run`, `finish` | `Stop`, `Timeout`, `Finish`; `Forget` when an abandoned `execute` ends |
| `execute` | `Begin`, `Stopped`, `StagesDone` |
| `handleStage` | `handleStage`, `StepsDone` |
| `handleStep` | `PassStep`, `BeginStep`, `EndStep` |
| `RunWithLinear`, `RunWithBackoff` | `Func`, once per attempt |

A step's function may navigate (`Jumps`), suspend (`Suspends`) and return control-flow errors
(`ControlFlow`). `EndStep` is the hooks after a step, the deferred status and snapshot, and what
the loops make of the outcome; nobody sees the state in between, for a crash loses what is
only in memory. An object is not run while a call of `Run` on it may still be at work, as
the documentation asks; but another object may be restored, and then the abandoned one goes
on beside it. `owner`, `over` and `routed` are history. Left out are hooks that return
control-flow errors, the errors of `init` (which never change between two calls), variables
and arguments, and the two hooks whose errors are only logged.

## The runs

### Pipeline (`MCPipeline`)

| run | instance | what it shows |
|---|---|---|
| `Repeat` | a repeat of two compensable actions, then below a branch one with compact history around a branch and another repeat; 2 faults | what the durable state says is done is in force and what it says is undone is not (`EffectsFollowJournal`); resumption finds its place in branches and iterations: `NeverReexecuted`, `NothingSkipped`, `JournalOrdered`; iterations are compensated one after the other; one scope only acts on an error and it names the innermost step (`Attribution`, `FailureKeepsItsPath`); at most one effect is unknown to the durable state, and none when the run completes (`AtMostOneOrphan`); `HistoryCompacted` |
| `Timed` | an action, a repeat with a deadline and a hook, around a poll with a deadline and a retried action; one worker, plain snapshots, 2 faults, 4 ticks | nothing goes forward after a rollback began (`NoForwardAfterRollback`); the durable state is that of a saga (`ImplementsSaga`); no poll inherits another one's window (`PollWindowOwned`), the clock of a repeat and that of a poll start once and survive every restart (`RepeatDeadlineFixed`, `PollDeadlineFixed`), every run ends (`Termination`) |
| `Cas` | a branch in a branch, with empty paths; two workers, compare-and-swap, 2 faults | two workers leave the durable state of one saga; a call whose write will be accepted is not behind the durable state (`Lineage`); a rollback is final, whoever writes; of the effects of both workers at most one is unknown to the durable state (`AtMostOneOrphan`) |
| `SavedBranch` | the pipeline of `Cas`, one worker, and the caller stores every returned state, 1 fault | *violation*, see below |

*Bounds.* `MaxFaults` counts adverse events: crashes, cancellations, failed writes, lost
answers, concurrent deliveries, failed compensations, continuations (`ErrRetryAfter`,
pending polls, an `Until` of a repeat without limit), errors that forbid compensation. An
ordinary error of a callback is free, a snapshot may fail for free when the context is
cancelled, and a conflict of revisions is free. Two adverse events suffice for a fault
during the recovery from a fault, which is as deep as the code's recovery nests: a
resumption starts from the durable state alone, so its history matters only through that
state. `MaxTime` lets the deadlines (2 and 3 ticks) pass before, between and after the
restarts. Two iterations distinguish first, next and last; two levels of nesting
distinguish a scope, the one around it and the top; two workers suffice for a conflict,
since a write conflicts with one other write. Only `Tick` counts against `MaxTime`, and
`Load` waits for nothing, so no bound hides a behaviour of the code between two events.

*Fairness.* `Termination` assumes that a run that is not over is delivered to a worker
again (`WF(Load)`; the job queue the documentation tells the user to have) and that a call
that is running goes on (`WF(WorkerStep)`). Crashes, cancellations, lost answers and the
clock are under no fairness. Which callback outcome occurs is open: a callback may fail
always. That the adverse events are finitely many is what the documentation assumes when
it promises completion.

### Versions (`MCMigration`)

| run | instance | what it shows |
|---|---|---|
| `Migration` | three releases – the second takes the runs of the first, the third renames both steps so that one gets the other's name, and puts a step in front; 2 workers, 3 faults | nothing recorded is done again, by any release under any name (`NeverRepeated`); a rollback undoes what any release did (`RollbackUndoes`); version, journal and end are not taken back (`NoWayBack`); the run ends (`RunEnds`) |

*Bounds.* Three releases are the least that have both kinds of compatibility and a state that
passed through each; two workers are an old one and a new one. Three faults let a migration
fail or be written without an answer, and a crash follow in the migrated run.

*Fairness.* A release may refuse the run; it then gives the job back to the queue
(`pipeline/README.md:382`), which offers it again to all workers. A worker that is refused
takes it and gives it back for ever, so the worker that accepts it may take it only again
and again, not all the time: `SF` of `Load`. Deployment, crashes and cancellation are under
no fairness; `RunEnds` holds without any deployment, since the worker that wrote the state
last accepts it.

### Diagnostics (`MCDiagnostics`)

| run | instance | what it shows |
|---|---|---|
| `Diagnostics` | two nested repeats of two iterations, compact or not; names of the characters that are escaped and of their escapes, and a name like an iteration's number; 1 fault, 1 tick | the record of each path says what the log says of it (`DiagnosticsTrue`); the merging loses no attempt and counts none twice, in any order of the loop over the map (`AttemptsConserved`) |

*Bounds.* Two iterations are one that makes the aggregate and one that is merged into it;
the inner repeat's aggregates are merged once more by the outer one. The names contain
`~`, `/`, `~0`, `~1` and `~01`, which are all that escaping can confuse. One fault, placed
anywhere, makes the errors and the plans of two iterations differ.

### Retry (`MCRetry`)

| run | instance | what it shows |
|---|---|---|
| `Retry` | every configuration of three loops with seven delays, three caps, five limits; durations of 6 bits | the wait after the n-th failure is the documented one as long as that is a duration, and bounded beyond (`WaitsAsDocumented`); after the end of its context `Do` comes to the end of no attempt but the one under way, and returns the context's error if there was none (`CancelStops`); loops return (`LoopReturns`) |

*Bounds.* With 6 bits nine attempts pass the width, so every shift and every overflow of the
code occurs; the delays are no delay, a negative one, a power of two, and odd numbers
whose shifts wrap to either sign. Without a limit, failures are counted up to two more than
bits, from where on the delay is constant.

*Fairness.* The loop is scheduled, its function returns and timers fire (`WF`); of two ready
cases `select` takes each with the same probability, so the end of the context is taken in
the long run (`SF` of `WaitCancelled`).

### Broker (`MCBroker`)

| run | instance | what it shows |
|---|---|---|
| `Broker` | 2 clients, 2 channels, 2 messages, queues and channels of 1; consumers may close their channels; each may be unsubscribed once | `StopCloses`, `DeliveredInOrder`, `NoLateDelivery`, `NoLoss`; every call returns (`CallsReturn`), an unsubscribed channel is closed in the end (`UnsubscribeCloses`) |
| `BrokerClose` | the same | *violation*, see below |

*Bounds.* The code's capacities are 16, 16 and 8; with 1 the queues and channels are full
after one step, which is when the code does something else. Two messages are one in
broadcast and one in the queue, and the second finds the queue full when the server has
not taken the first; two channels are one that misbehaves
and one that must not suffer; two clients are one that stops and one in the middle of any
call. No guard of the code counts above one.

*Fairness.* `go broker.Start()` is documented, and the goroutine is scheduled
(`WF(ServerStep)`); a call that has begun goes on when it can (`WF(ClientStep)`). Nobody
need call, and no consumer need receive: the calls return though nobody reads. The choice
of `select` among ready cases is open, with no fairness between the cases.
Deadlock is checked in both runs; the end states (the run is over and no call is under way,
the broker has stopped) have a step of their own that changes nothing.

### Loop (`MCLoopper`)

| run | instance | what it shows |
|---|---|---|
| `Loopper` | a client that starts twice, one that triggers twice, one that stops and waits, one that triggers, stops and waits; a leading run; the caller's context may end | `NoOverlap`, `QuietAfterWait`, `NoMisuse`, and `Wait` returns (`WaitReturns`) |

*Bounds.* Only one run can be in the function, so two runs and a tick that is refused are
all the overlap there is; two clients that shut down are one that is first and one that
comes late. `MaxFinishing` stops the ticker while two runs have cleared the flag and not
called `Done`; a slower `Done` only adds to a counter that is above zero anyway.

*Fairness.* Goroutines are scheduled and the function returns (`WF` of the clients, of the
ticker inside `tryRun`, of the runs). The ticker's `select` chooses among its ready cases at
random, so it takes the ended context in the long run although ticks come in between: `SF`
of `TickerExit`. Ticks, and the end of the caller's context, need never come.

### Workflow (`MCWorkflow`)

| run | instance | what it shows |
|---|---|---|
| `Workflow` | a stage of two steps, of which the first is retried, may jump into the compensation stage, skip the stage or suspend, and the second finishes the workflow; an empty stage; a compensation stage whose second step is the compensation step; 2 objects, 3 calls of `Run`, hooks and snapshots that fail | `CompletedOnce`, `NothingForgotten`, `CompensationFirst` |
| `WorkflowResume` | the same without jumps, suspension and failing hooks, 1 object | *violation*, see below |

*Bounds.* Three calls of `Run` are a failed one, one that is to compensate and is
interrupted, and the one after it. Two objects are one that was abandoned and the one
restored beside it; a third would be restored from the same single snapshot. `Terminated`
is the end of the calls, the only deadlock. The run has no liveness property and no
fairness. The objects are symmetric.

## The proofs

TLAPS checks all proofs for every value of the constants: any step tree that satisfies
`DefinitionAssumption` (what `validate` guarantees), any number of workers, faults and ticks;
any number of clients, channels, messages and any capacities; any programs of calls; any
workflow; any releases that keep to `ReleaseAssumption`; durations of any width. The type
invariants and `LoopInvariant` are proved and in no run: the runs are for what the proofs do
not reach, or rest on.

| theorem | says |
|---|---|
| `PipelineSafety!TypeCorrect` | `Spec => []TypeOK` |
| `PipelineSafety!LineageHolds` | `Guarded => (Spec => []Lineage)` |
| `PipelineSafety!RollbackFinal` | `Guarded => (Spec => RollbackIsFinal)` |
| `PipelineSafety!NoForward` | `Alone => (Spec => NoForwardAfterRollback)` |
| `PipelineSafety!AttributionHolds` | `Spec => []Attribution` |
| `PipelineSafety!FailureKeepsPath` | `Spec => FailureKeepsItsPath` |
| `PipelineSafety!PositionHolds`, `NeverReexecutedHolds` | `~CallerSaves => (Spec => []` of `Position`, `NeverReexecuted`) |
| `PipelineCourse!PollWindowHolds` | `~CallerSaves => (Spec => []PollWindowOwned)` |
| `PipelineCourse!HistoryCompactedHolds`, `NothingSkippedHolds` | `~CallerSaves => (Spec => []` of `HistoryCompacted`, `NothingSkipped`) |
| `PipelineCourse!RepeatDeadlineHolds`, `PollDeadlineHolds` | `~CallerSaves /\ Guarded => (Spec => ` `RepeatDeadlineFixed`, `PollDeadlineFixed`) |
| `PipelineJournal!JournalOrderedHolds` | `~CallerSaves => (Spec => []JournalOrdered)` |
| `PipelineJournal!SagaImplemented` | `~CallerSaves /\ Guarded => (Spec => ImplementsSaga)` |
| `PipelineJournal!EffectsFollowJournalHolds` | `~CallerSaves /\ Alone => (Spec => []EffectsFollowJournal)` |
| `PipelineJournal!AtMostOneOrphanHolds` | `~CallerSaves /\ Guarded /\ Mode # "none" => (Spec => []AtMostOneOrphan)` |
| `BrokerProofs!BrokerTypeCorrect` | `Spec => []TypeOK` |
| `BrokerProofs!NoDoubleCloseHolds` | `~ConsumersClose => (Spec => []NoDoubleClose)` |
| `BrokerProofs!StopClosesHolds`, `NoLateDeliveryHolds`, `DeliveredInOrderHolds`, `NoLossHolds` | `Spec => []` of the property of that name |
| `LoopperProofs!LoopTypeCorrect`, `LoopInvariantHolds`, `NoOverlapHolds`, `QuietAfterWaitHolds` | `Spec => []` of `TypeOK`, `LoopInvariant`, `NoOverlap`, `QuietAfterWait` |
| `LoopperProofs!NoMisuseHolds` | `Orderly => (Spec => []NoMisuse)` |
| `WorkflowProofs!WorkflowTypeCorrect`, `CompletedOnceHolds`, `NothingForgottenHolds` | `Spec => []` of `TypeOK`, `CompletedOnce`, `NothingForgotten` |
| `WorkflowProofs!CompensationFirstHolds` | `Spec => CompensationFirst` |
| `MigrationProofs!MigrationTypeCorrect` | `Spec => []TypeOK` |
| `MigrationProofs!NoWayBackHolds` | `Spec => NoWayBack` |
| `MigrationProofs!NeverRepeatedHolds`, `RollbackUndoesHolds` | `Spec => []` of `NeverRepeated`, `RollbackUndoes` |
| `RetryProofs!RetryTypeCorrect`, `WaitsAsDocumentedHolds`, `CancelStopsHolds` | `Spec => []` of `TypeOK`, `WaitsAsDocumented`, `CancelStops` |

*Types.* `TypeOK` of the executor says that the program counter, the frames and the error
fit together only as far as their types go. `At` therefore repeats that there is a frame
and that its index lies in its scope, and the proofs need no invariant for that.

*Rollback.* `RollbackIsFinal` is about one write, but the write's content was fixed when
its worker read the state, many steps earlier. `Lineage` closes the gap: what a call holds
in memory is a state that *may follow* (`MayFollow`) the durable one, as long as the call
is `Fresh` – nobody has written since it read. A call that is not fresh is refused by the
comparison of revisions; this is where `Guarded` (compare-and-swap without a caller who
overwrites, or a lone worker) is needed. `MayFollow` alone is not inductive: a call must
also not go back from compensating to the forward path, so `OnItsWay` ties the status in
memory to the program counter. The steps of a call that do not touch the rollback are
shown to keep status, journal and index ahead of what they were (`StepsAhead` to
`RepeatAhead`), one lemma per group of actions. `NoForward` follows from `Lineage`:
`Do` needs a status in memory that cannot follow a durable rollback.

*Attribution.* Which scope acts on an error is decided by comparing the length of the
error's path with that of the scope's step. That is right only if the frames lie inside
one another and an error that reaches a frame comes from its step or from below it;
`Attribution` says so, and is kept by one lemma per group of actions
(`StepsAttributed` to `CompensationAttributed`). `FailureKeepsPath` then is a property of
each step.

*Position.* A run is resumed from a path and from the set of completed paths, and nothing
else. `NeverReexecuted` is about one call, yet the loops skip a completed step only at the
path itself and trust the order of the definition everywhere else, so what has to be
invariant is the relation between the two. `Route(J, q)` is that relation: `q` lies on the
tree of the definition; no path of `J` is after it; of the steps on the way to it the
branches are in `J` (their decision is recorded before the chosen path is entered) and the
repeats are not; the elder siblings of each are. `Sound` says that a state that goes forward
can be resumed from its `CurrentPath` (`Route`, and nothing completed below it unless it is
itself completed); `Placed` that the frames of a call are a chain of scopes of the
definition (`Chained`, in which the frame inside a repeat is in the iteration that the
repeat counts) and that the innermost one is where its label says: in the loop (`Stands`: what
is before it is completed, what is behind it is not, and the first step of a resumption
alone may be half done), inside a step (`Entered`), or between two iterations (`Asking`). The
paths that `NeverReexecuted` needs are one consequence: an action or a poll has nothing
below it, so the current path is its own, and `Entered` says that it is not completed.
Most of the lemmas move a route: one position further (`RouteOn`), back (`RouteBack`), over a
completion at or below it (`RouteGrows`), past what compaction forgets (`RouteLess`);
`ResumeStands` is the resumption of a scope and `BodyDone` its end. Each group of actions has
a lemma of its own (`StartPlaced` to `EndPlaced`). `~CallerSaves` is needed: a caller that
stores what a cancelled call returned stores a path that is not a route (`SavedBranch`).

*Window.* `PollWindowOwned` is about one field that every poll shares, and a call that has
loaded it does not know for which poll it was opened. `Windows` adds what happens on the way:
while the window is open no repeat above the poll waits for its condition (`Awake`: such a
repeat would be asked, and begin another iteration, before the poll is reached), and a call
that goes forward goes down to the poll (`Descends`: the loop is at the first step of its
resumption, which leads to the current path; nothing asks a condition of a repeat). The
descent is that of *Position*, so the proof rests on its `Route`: `ResumedDescends` says that
a scope is resumed at the step that leads to the current path. A poll that ends shuts the
window in the snapshot that completes it, and a failure leaves the forward path.

*Course.* `HistoryCompacted` and `NothingSkipped` are about everything that a run has recorded,
and each action is a loop's turn or a callback that touches one place of it. `Tracks` lists
the moves of a call as far as the journal, the states of the repeats and the place are
concerned – a step is entered, passed by or recorded, a branch decides, a body is done, a
condition is asked – and every action is shown to be one of them; the invariants are then
about moves. `Tidiness` is the first: at most one state for each repeat, and one for every
repeat that anything recorded lies in or below (`Kempt`: otherwise the counter of an
iteration would be started afresh over its history); of a repeat with compact history
nothing but the iteration that its state counts; and the repeats on the way to the current
path count the iterations which that path names (`Tied`), so that what compaction forgets
(`Retained`) is the whole of what was known. `HistoryCompacted` is read off. `Fill` is the
second: the iterations before the last one are full, and the last one too when the condition
is due (`Rounds`); a branch that is in the journal has a full path, unless it is on the way to
where the call goes (`Branches`, `Whither`: the current path of a resumption, else the scope in
which the loop is). A loop that comes to its end has a full scope because `Stands` says so of
every index; what lies between the condition of a repeat and the return of the call is
saved with the flag `awaiting`, so a call that is cut off there asks again instead of
beginning the body again. `Windows` is needed for that: a branch decides, and is half done, only
while no repeat above it waits for its condition (`Awake`).

*Deadlines.* `RepeatDeadlineFixed` and `PollDeadlineFixed` are about one write, which carries
what a call did since it read the state. `Deadlines` says what a call that may write (`Fresh`)
has kept of the durable clocks. `Carried` relates the journal and the states of the repeats in
the one and in the other: the clock of a repeat is as it was, or the repeat is in the journal,
or it lies below one with compact history. It is transitive (`CarriedOn`) because what lies
below a compact repeat stays below one (`AboveCarried`), and every move of *Course* keeps it
(`TracksCarried`; from `Tidiness`, that the state which compaction leaves is the one that it is
forgotten below). `PollKept` is for the window, which memory shuts before anything durable says
why: the call holds it open, or it is writing that the poll is completed or has failed, or it
is raising the poll's own error (`Raises`), from which the next step at that frame, and no
other one, writes the failed path (`RaiseWatches`: the error is not taken for one that a nested
scope has dealt with); a call whose context is cancelled writes no more. Elsewhere the window is
not touched, because `Windows` lets nothing happen while it is open but the way down to the
poll. `Guarded` is needed: without a comparison of revisions a second worker writes an older
clock.

*Journal.* `JournalOrdered` is about all pairs of entries, `Route` about the journal and one
path: what is completed next is completed at the current path, or at the end of the scope
around it, and everything that is in the journal precedes that path. `JournalGrows` says how
a step changes the journal of a call: it is replaced by the one that was loaded, trimmed by
compaction (`Trimmed`), extended by one entry (`Extended`), or both; `PrecedesNext` and
`EldersOfNext` get the order of the new entry from the route, `TrimmedOrder` shows that
compaction, which forgets a whole iteration, takes no elder sibling from an entry it leaves.

*Saga.* `SagaImplemented` is the refinement: under the mapping of `PipelineProperties!Durable`
the initial state is one of `Saga`, and every step of the executor is a step of `Saga` or a
stutter. A write may carry several steps of a call, so the steps are counted in memory:
`Stepwise` says that what a call that may write (`Fresh`) holds is the same saga as the
durable state, and one step ahead of it while a snapshot is being written. Every action
is then shown to be no step of the saga, or one step that a snapshot follows at once
(`ForwardSaga`, `RaiseSaga`, `CompensationSaga`): a completion extends the ledger by an
entry that is not in it (`LedgerExtended`, from `Extended`), a failure aborts with all of
the ledger to undo (`FailureAborts`), a compensation undoes one entry (`CompensationUndoes`),
and an entry without a compensator is passed by (`SkipIsSame`). Compaction is a stutter
because it forgets only what is below a repeat with compact history, where the definition
allows no compensator (`LedgerTrimmed`, from `BelowRepeat` and `CompactOK`); that is why
`InOrder` also says that every entry is a step of the definition (`Genuine`).

*Effects.* `EffectsFollowJournal` relates the world, which a callback changes at once, to the
state, which a write changes later. `Agreed` says it of the durable state and of what a lone
worker holds (`Settled`), and each step is shown to keep both. Along the forward path the
world only grows, and what enters the journal with a compensator is an action whose effect is
in force (`ForwardCovered`). A compensation takes one effect back before its index is durable:
it is the last of those that the durable state has to undo (`UndoesDurable`, from `Lineage` and
`Stepwise`: the call may have passed entries without a compensator, which are not owed), and
takes no other effect with it, because no path is twice in the journal (`OnceInOrder`, from
`Orderly`). With two workers it fails: the one whose write will be refused has undone an
effect already.

*Orphans.* `AtMostOneOrphan` is about effects that the durable journal lacks, in a world in
which any number of calls may have died between an action and its write. That there is at most
one of them is so because a run has at most one next action, and every call that may write is
on its way to that same action. `Impends(m, x)` says that the run state `m` comes to the
action at `x` next: there is a route to `x`, the repeats on the way are in the iteration that
`x` names, and the current path leads to `x`, or is completed together with every scope around
it that is not around `x` (`Reaches`). `OneImpends` shows that no state that can be resumed
has two. This is then followed through the moves of *Course*: what comes next in a call before
a move still does so after it, or the move has recorded it (`ComesNext`, for calls that are
`Underway`); and without a write or a load a call gets no other next action (`CameNext`).
`Follows` says the first of all that a call which may write (`Fresh`) has done since it read
the durable state. Compaction is no exception, because nothing that it forgets is compensable
(`NeverLost`). `OneLoose` is the inductive invariant: of the compensable actions that are in
force, or that a call is on its way to (`Aims`), the durable journal lacks at most one, which
is the one that comes next in the durable state as long as that goes forward, and it lacks
none once the run is completed. The aims are there for calls that may not write any more: such
a call may still execute the action that it aims at, and is refused after it. `Stepwise` says
which of the writes end the forward path. `Guarded` is needed, because a write that is not
compared may take an entry back; and `Mode # "none"`, because without snapshots no write
follows an action.

*Broker.* `NoDoubleClose` follows from `SubsOpen`: what `subs` holds is open, since only
the server closes, and removes what it closes. `StopCloses` needs `StopOrder` (the flag is
set before `stopCh` is closed, and that before the server leaves its loop) and
`Registered` (an early channel is in `subs`, or closed, and the closing server has it on
its list). `NoLateDelivery` needs to follow a message from the call through the queue to
the broadcast: `Senders`, `NotMissed`, `History`. `DeliveredInOrder` needs `Queued`: the
queue is the end of the log, and what the channels were sent comes from before it. `NoLoss`
follows a message the same way, for a recipient that the queue has taken it for (`Addressed`:
its channel exists); what is lost is lost with a channel that was full or closed.

*Loop.* `NoOverlap` needs the owner of the flag between the compare-and-swap and the start
of the run (`OneOwner`). `QuietAfterWait` needs to know what the WaitGroup counts (`Counted`:
the runs, and the ticker from the critical section of `Start` on, before it exists), that
the ticker is created once (`TickerOnce`), and that a call that is under way fits its label
(`CallsFit`). `NoMisuse` holds if every `Wait` comes after a `Stop` of the same client
(`Orderly`): then a waiter means that the loop is stopped, and a stopped loop adds nothing.
The assumption cannot be dropped: see `Trigger` and `Wait` below.

*Workflow.* `CompletedOnce` compares what an object is about to execute with the last
snapshot, which the object may have saved long before, or another one, from which it was
restored. `Remembers` says that what the snapshot of an object's own shows as passed its
memory shows too; `Executes` that a step in execution is not marked as passed in memory;
`Placed` that the positions of the two loops lie inside the workflow. A failed write
(`GoesSaving`) leaves an older snapshot, which has passed less. `Course` is for the order of
steps: `Covers` says that what the three loops have come past is passed or was passed over
on request, and what each label knows of the flags (a workflow that is completed has left
its loops; a loop begins at its first turn), from which `NothingForgotten` follows;
`Directed` that a snapshot that asks for compensation names the step (`Routed`), that nothing
suspends the workflow between the request and the step, and that a step that executes has
taken the request, from which `CompensationFirst` follows.

*Versions.* A worker's write was fixed when it loaded the state, and other workers of other
releases wrote since. `Linked` says of each call: if the durable state still has the
revision that the call read, the call's state follows it (`Follows`: the version is not
lower, the journal goes on from it, whatever it was renamed to), and if the durable state
is over, the call only returns. `Sound` says where a call may be, given its own state: a
state that is over is not worked on. Compare-and-swap refuses every other write, so `NoWayBack`
holds of all that are accepted. The meaning of the operations needs `CompatibilityAssumption`
(a migrator renames a step to one that does the same, and a release without one takes over
the steps it does not migrate), and `Awareness`: a state records only what steps of its own
release do, up to the step where it stands (`Known`); a call works with steps that are those
of the version in its state, and what it has recorded lies before the step it is at, or is
the step where it resumed (`Aware`); what a rollback has gone past is undone (`Undone`).
`NeverRepeated` and `RollbackUndoes` are read off.

*Retry.* `WaitsAsDocumented` compares a delay that is doubled after every wait, or computed by
a shift whose result may have wrapped, with `delay * 2^(attempt-1)` in unbounded integers.
`Keeps` says what each loop has kept of it: `Do` nothing but the configured delay, the
pipeline the lesser of the exact delay and the largest duration, the workflow the exact delay
as long as it is a duration, and anything beyond. `Counted` bounds the attempts, so that an
endless loop whose count stands still is one whose delay has overflowed (`ExactBeyond`).
`WrapSmall` says that what fits is not changed by the width, `PowerMonotone` that a shift
which is cut off at the width minus two is cut off only where the exact delay does not fit.
For `CancelStops`, `Stopping` adds where `Do` may still be: in an attempt only if it was in
that one when its context ended, with nothing ended since; a wait that the timer wins leads to
the look at the context, and no further. The provers do not know that powers of two double, and cannot be
told by induction over an operator. `PowerAssumption` states that law for the exponents that a
loop can come to; it is no condition on the constants, and TLC evaluates it. All else about
powers is proved from it.

*Only model-checked.* All liveness, which is out of TLAPS's reach here; and the diagnostics.
Their keys are strings that are escaped and split by recursion, and that a key leads back to its
path, on which both properties rest – `AttemptsConserved` too: the record of a repeat must not
be taken for one of its iterations' – would need induction over strings.

## Disagreements with the documentation

* **`SavedBranch`** (`pipeline/executor.go:264`). A context that is cancelled inside a
  branch leaves `CurrentPath` at the outermost step: each scope on the way out puts its
  own path there. `Run` is documented to return a state that "should be persisted" and
  from which a later call "continues from the interrupted step". If the caller does persist
  it, the branch, whose decision is in the journal, is taken for finished and the rest of
  its path is never executed, in a run that completes. In a repeat the same cut makes the
  next call begin the iteration over and execute its completed steps again. The snapshots
  hold the right path, so a caller who keeps to them is not affected (`Cas`, `Repeat`).
* **`BrokerClose`** (`broker/broker.go:210`). A consumer that closes its own channel "is
  handled gracefully" – if a message is sent to it before it is unsubscribed or the broker
  stops. Otherwise the broker closes it again and panics.
* **`WorkflowResume`** (`workflow/workflow.go:301`). A stage that navigation skips, and the
  rest of a stage whose step returned `ErrSkipStage`, leave no mark in the states of the steps,
  and `NextStage` is cleared in memory when its stage begins. A workflow that dies behind them
  is restored at the first step that is neither completed nor skipped: a workflow that was
  compensating executes its failed step and the forward steps behind it first. The
  documentation says that it resumes where it stopped, and that what navigation passes over
  is marked skipped.

Disagreements that no run shows:

* `Stop` may come between the test of `closed` in `Subscribe` and the registration
  (`broker/broker.go:126`): the channel is never closed, and a consumer that ranges over it
  waits for ever. The documentation says that `Stop` closes all channels; `StopCloses` is
  therefore about those who had subscribed before `Stop` began.
* `Trigger` is documented as safe "concurrently with Stop and Wait". The lock
  (`loopper/loop.go:133`) keeps its `Add` apart from `Stop`, but not from `Wait`: who waits
  without `Stop`, having ended the context of `Start` or only triggered, may be woken when
  another `Trigger` adds from zero, and `sync` panics.
* A release with a lower `MinResumeVersion` and no migrator resumes an older state and leaves its
  version as it is (`pipeline/executor.go:81`). If it has new steps, an older release accepts the
  state that it wrote; the name in `CurrentPath` is unknown there, so the run begins at its
  first step again (`findTopLevelIndex`), against "completed steps are never re-executed"
  (`pipeline/README.md:8`), or its rollback passes over a compensator it does not know.
  `CompatibilityAssumption` asks that such a release has the same steps.
* The guard of `backoffDelay` against overflow (`retry/retry.go:186`) sees negative and zero
  results only. A delay whose low bits are set wraps to a small positive one after enough
  attempts: 2^33 + 1 ns becomes 2^31 ns at attempt 32. Its comment calls the result guarded.
  `WaitsAsDocumented` says what holds beyond the width: it is positive and not above the cap.
* `Do` with a delay of zero and a cap waits the cap after every attempt (`retry/retry.go:187`).
* The waits of the retry loops do not look at the context before their `select`
  (`workflow/step_retry_policies.go:23`, `pipeline/clock.go:24`), nor do the loops of the pipeline
  and the workflow before an attempt. Where the timer is ready too, after a short delay or when
  the goroutine comes late, `select` may take it, and so they may make several attempts after
  the end of the context, against "a cancel during the wait aborts immediately"
  (`pipeline/README.md:267`). `Do` looks before every attempt, and `CancelStops` is about `Do`;
  of the others `LoopReturns` says that they end.
* `RunWithBackoff` doubles without a guard (`workflow/step_retry_policies.go:90`): with unlimited
  retries the delay is negative after some attempts, then zero, and the loop no longer waits.
* `compactRepeatIteration` recognizes iterations by the strings of their numbers
  (`pipeline/compact.go:25`). Once a compact repeat has aggregated a child step named `1`, the
  compaction of iteration 1 takes that record for the iteration's and adds its attempts to
  the repeat's own. The map is documented as keyed by the full path of a step
  (`pipeline/README.md:291`).
  `DiagnosticsTrue` excludes such names, `AttemptsConserved` does not.
* `ForceTerminate` does not advance the revision (`pipeline/state.go:130`). An application that
  stores its result as it is leaves the revision that a call under way has read, and the
  next write of that call is accepted and takes the termination back.
* `loopper/doc.go:22-24`, the quick start, defers `Stop`, then `Wait`, so that `Wait` runs first;
  it waits for the ticker too (`loop.go:64`), which runs until the context ends. With a context
  that nobody ends the program hangs. The tests defer them in the other order.
* `IsCompleted` is set after the last snapshot (`workflow.go:209`) and never saved, so a
  workflow that ended early (`FinishWorkflow`, `ErrBreakStages`) goes on with the later stages
  when it is restored.
* A context that is cancelled between two steps is a failure like any other (`workflow.go:319`):
  the next run compensates, though no step has failed (`workflow/README.md:231`).
* `isStopped` is never reset: after a shutdown, `Run` of the same object does nothing and
  returns no error.

## What is not modelled

Shared data: only the callbacks read it, and a marshalling that fails is a crash as far as the
durable state is concerned. `ForceTerminate`: one assignment, and the write that follows it is
the application's. The hooks of `retry` (`OnFailed`, `OnSuccess`) and of the workflow's
callbacks decide nothing. Pagination is a pure function of two integers that a table tests
(`(page - 1) * limit` wraps at 32 bits, before the limit is checked).
Observer, loggers, formatting, random strings and adapters decide no control flow, or keep
no state. The time that callbacks take is not modelled but as ticks of the
clock between actions. The contract of the snapshot function – it writes synchronously and
keeps no reference to the state – is assumed.

## The plan

1. *Done:* the executor, its properties, the saga, their runs; types, rollback, attribution,
   the place of a run, its journal, the course of a whole run, its deadlines and the refinement
   of `Saga`, effects and orphans proved: all its safety. The broker, its properties and
   runs; all its safety proved.
2. *Done:* `Loopper`, its properties and runs; no overlap, quiet after `Wait`, and the use of
   the WaitGroup proved.
3. *Done:* `Workflow` and its retry policies, its properties and runs; all its safety proved.
4. *Done:* `Migration`, its properties and run; all its safety proved.
5. *Done:* `Retry`, its properties and run; all its safety proved. `Diagnostics`, its
   properties and run.
6. *Left:* proofs about `Diagnostics`, which need induction over strings.
