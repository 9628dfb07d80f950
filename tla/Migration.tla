------------------------------- MODULE Migration -------------------------------
(***************************************************************************)
(* A pipeline run while its definition changes (the front of Executor.Run, *)
(* checkVersion, and migration.go): workers that run different releases of *)
(* the program share one durable RunState in a storage that compares       *)
(* revisions, and any of them may get the run next.                        *)
(*                                                                         *)
(* A release is a version of the pipeline.  Its steps are actions at the   *)
(* top level: PipelineExecutor has the other kinds, and there the version  *)
(* never changes.  A step has a name, by which the durable state refers to *)
(* it, and an operation, which is what its callback does to the outside    *)
(* world; a later release may do an operation under another name.          *)
(*                                                                         *)
(* Left out besides what PipelineExecutor leaves out: retries, hooks,      *)
(* deferred continuations and NoCompensate, and ForceTerminate, which is a *)
(* write of the application.                                               *)
(***************************************************************************)
EXTENDS Integers, Sequences, FiniteSets, SequencesExt

CONSTANTS
  Worker,     \* processes that may call Run on this pipeline run
  Release,    \* the versions of the pipeline
  Def,        \* Def[v]: the definition and the executor of release v
  Name,       \* what steps are called
  Operation,  \* what steps do
  NoName,     \* an empty CurrentPath
  MaxFaults   \* bound: crashes, cancellations, failed writes and migrations, ...

StepDef == [name : Name, does : Operation, compensates : BOOLEAN]

ReleaseDef == [steps : Seq(StepDef), minResume : Nat, migrator : BOOLEAN]

\* validate, for the fields that matter here.
ASSUME ReleaseAssumption ==
  /\ Release \subseteq Nat /\ NoName \notin Name /\ MaxFaults \in Nat
  /\ Def \in [Release -> ReleaseDef]
  /\ \A v \in Release :
       /\ Def[v].steps # <<>> /\ Def[v].minResume <= v
       /\ \A i, j \in DOMAIN Def[v].steps :
            Def[v].steps[i].name = Def[v].steps[j].name => i = j

\* What the application owes.  A release that takes older runs as they are has
\* their steps; one that migrates them knows all they may have done, in the same
\* order; and no release does an operation twice.
ASSUME CompatibilityAssumption ==
  /\ \A v \in Release : \A i, j \in DOMAIN Def[v].steps :
       Def[v].steps[i].does = Def[v].steps[j].does => i = j
  /\ \A u, v \in Release :
       u < v =>
         IF Def[v].migrator
           THEN \A i, j \in DOMAIN Def[u].steps :
                  i <= j => \E k, l \in DOMAIN Def[v].steps :
                              /\ k <= l
                              /\ Def[v].steps[k].does = Def[u].steps[i].does
                              /\ Def[v].steps[l].does = Def[u].steps[j].does
                              /\ Def[u].steps[i].compensates => Def[v].steps[k].compensates
           ELSE Def[v].minResume <= u => Def[v].steps = Def[u].steps

VARIABLES
  store,    \* the durable RunState
  proc,     \* proc[w]: the call of Run that worker w is in
  release,  \* release[w]: the release that worker w runs
  undone,   \* the operations that a Compensate callback has undone
  budget    \* adverse events that may still happen

vars == <<store, proc, release, undone, budget>>

-----------------------------------------------------------------------------
(* RunState (state.go) and a call of Run.                                  *)

Terminal == {"completed", "failed"}
Status == {"new", "running", "compensating"} \cup Terminal

\* An entry of CompletedSteps; does is what the step did, which the code does
\* not store.
Completion == [step : Name, compensator : BOOLEAN, does : Operation]

RunState == [status : Status, version : Nat, path : Name \cup {NoName},
             completed : Seq(Completion), index : Int, revision : Nat]

NewRun == [status |-> "new", version |-> 0, path |-> NoName, completed |-> <<>>,
           index |-> 0, revision |-> 0]

IsTerminal(m) == m.status \in Terminal

Completed(m, name) == \E k \in DOMAIN m.completed : m.completed[k].step = name

Label == {"idle", "start", "check", "resume", "steps", "compensate", "snapshot", "return"}

Call == [pc : Label, next : Label, mem : RunState, first : Nat, i : Nat, cancelled : BOOLEAN]

NoCall == [pc |-> "idle", next |-> "idle", mem |-> NewRun, first |-> 0, i |-> 0,
           cancelled |-> FALSE]

Steps(w) == Def[release[w]].steps

\* Write the snapshot m, then go on at l.
Persist(p, m, l) == [p EXCEPT !.mem = m, !.pc = "snapshot", !.next = l]

Adverse == budget > 0 /\ budget' = budget - 1

Set(w, p) == proc' = [proc EXCEPT ![w] = p]

\* A step that changes the call of w alone.
Local(w, p) == Set(w, p) /\ UNCHANGED <<store, release, undone>>

-----------------------------------------------------------------------------
Init ==
  /\ store = NewRun
  /\ proc = [w \in Worker |-> NoCall]
  /\ release \in [Worker -> Release]
  /\ undone = {}
  /\ budget = MaxFaults

\* The queue hands the run to w; to two workers at once is adverse.
Load(w) ==
  /\ proc[w].pc = "idle" /\ ~IsTerminal(store)
  /\ Local(w, [NoCall EXCEPT !.pc = "start", !.mem = store])
  /\ IF \A v \in Worker : proc[v].pc = "idle" THEN UNCHANGED budget ELSE Adverse

\* A newer release is deployed on w between two calls.
Deploy(w) ==
  /\ proc[w].pc = "idle"
  /\ \E v \in Release : v > release[w] /\ release' = [release EXCEPT ![w] = v]
  /\ UNCHANGED <<store, proc, undone, budget>>

-----------------------------------------------------------------------------
(* Run: the version of the state, before anything else happens to it.      *)

\* The call is at the beginning of Run and its context has not ended.
Starting(w) == proc[w].pc = "start" /\ ~proc[w].cancelled

\* Mutation of Migrates: a newer state is migrated as well.
MigratesDown(w) ==
  LET m == proc[w].mem IN
  m.status # "new" /\ m.version # release[w] /\ Def[release[w]].migrator

\* The state that w has loaded goes through the migrator.
Migrates(w) ==
  LET m == proc[w].mem IN
  m.status # "new" /\ m.version < release[w] /\ Def[release[w]].migrator

\* Run returns the state as it was given: the context has ended, or the state
\* is of a newer version.
Refuse(w) ==
  LET p == proc[w] IN
  /\ p.pc = "start"
  /\ p.cancelled \/ (p.mem.status # "new" /\ p.mem.version > release[w])
  /\ Local(w, [p EXCEPT !.pc = "return"])
  /\ UNCHANGED budget

\* A new run gets the version of its first release; another one is checked as it
\* is, unless it is to be migrated.  (A new run passes the check of versions.)
Begin(w) ==
  LET p == proc[w] IN
  /\ Starting(w)
  /\ p.mem.status # "new" => p.mem.version <= release[w] /\ ~Migrates(w)
  /\ Local(w, [p EXCEPT !.pc = "check",
                        !.mem.version = IF p.mem.status = "new" THEN release[w] ELSE @])
  /\ UNCHANGED budget

\* Mutation of Renamed: names are taken over as they are.
RenamedNot(u, v, name) == name

\* The migrator of release v, which is code of the application: the name in v of
\* what release u does under this name.
Renamed(u, v, name) ==
  IF \E i \in DOMAIN Def[u].steps, j \in DOMAIN Def[v].steps :
       Def[u].steps[i].name = name /\ Def[v].steps[j].does = Def[u].steps[i].does
    THEN LET j == CHOOSE j \in DOMAIN Def[v].steps :
                    \E i \in DOMAIN Def[u].steps :
                      /\ Def[u].steps[i].name = name
                      /\ Def[v].steps[j].does = Def[u].steps[i].does
         IN Def[v].steps[j].name
    ELSE name

RenamedJournal(u, v, completed) ==
  [k \in DOMAIN completed |->
     [completed[k] EXCEPT !.step = Renamed(u, v, completed[k].step)]]

\* Mutation of Migrated: the state keeps its version.
MigratedUnstamped(m, v) ==
  [m EXCEPT !.path = Renamed(m.version, v, @),
            !.completed = RenamedJournal(m.version, v, @)]

\* What the migrator makes of the state m, with the version that Run stamps on it.
Migrated(m, v) ==
  [m EXCEPT !.version = v,
            !.path = Renamed(m.version, v, @),
            !.completed = RenamedJournal(m.version, v, @)]

\* The migrated state is durable before anything else happens.  The migrator may
\* also end the run.
Migrate(w) ==
  LET p == proc[w]
      m == Migrated(p.mem, release[w])
  IN /\ Starting(w) /\ Migrates(w)
     /\ \/ Local(w, Persist(p, m, "check")) /\ UNCHANGED budget
        \/ Local(w, Persist(p, [m EXCEPT !.status = "completed"], "check")) /\ Adverse

\* The migrator returns an error: so does Run, with the state it was given.
MigrateFailed(w) ==
  /\ Starting(w) /\ Migrates(w)
  /\ Local(w, [proc[w] EXCEPT !.pc = "return"])
  /\ Adverse

\* Mutation of Acceptable: only the release's own version will do.
AcceptableExact(w) == proc[w].mem.version = release[w]

\* checkVersion, which a state passes after migration too.
Acceptable(w) ==
  /\ Def[release[w]].minResume <= proc[w].mem.version
  /\ proc[w].mem.version <= release[w]

CheckVersion(w) ==
  LET p == proc[w] IN
  /\ p.pc = "check"
  /\ Local(w, [p EXCEPT !.pc = IF Acceptable(w) /\ ~IsTerminal(p.mem) THEN "resume" ELSE "return"])
  /\ UNCHANGED budget

-----------------------------------------------------------------------------
(* Run: the first snapshot, and the steps from where the state stands.     *)

\* findTopLevelIndex: a name that the release does not know begins from the start.
TopLevelIndex(steps, name) ==
  IF \E j \in DOMAIN steps : steps[j].name = name
    THEN CHOOSE j \in DOMAIN steps : steps[j].name = name
    ELSE 1

Resume(w) ==
  LET p == proc[w]
      j == TopLevelIndex(Steps(w), p.mem.path)
  IN /\ p.pc = "resume"
     /\ Local(w, IF p.cancelled THEN [p EXCEPT !.pc = "return"]
                 ELSE IF p.mem.status = "compensating" THEN Persist(p, p.mem, "compensate")
                 ELSE Persist([p EXCEPT !.first = j, !.i = j],
                              [p.mem EXCEPT !.status = "running"], "steps"))
     /\ UNCHANGED budget

Written(m) == [m EXCEPT !.revision = @ + 1]

\* CASSnapshotFn: the storage compares the revision that the worker has read.
Accepts(m) == store.revision = m.revision

SnapshotOK(w) ==
  LET p == proc[w] IN
  /\ p.pc = "snapshot" /\ Accepts(p.mem)
  /\ store' = Written(p.mem)
  /\ Set(w, [p EXCEPT !.pc = p.next, !.mem = Written(p.mem)])
  /\ UNCHANGED <<release, undone, budget>>

\* A conflict or an outage: Run returns at once, and the state is loaded again.
SnapshotFailed(w) ==
  LET p == proc[w] IN
  /\ p.pc = "snapshot"
  /\ IF ~Accepts(p.mem) \/ p.cancelled THEN UNCHANGED budget ELSE Adverse
  /\ Local(w, NoCall)

\* The storage wrote, but the executor sees a failure.
SnapshotAckLost(w) ==
  LET p == proc[w] IN
  /\ p.pc = "snapshot" /\ Accepts(p.mem)
  /\ store' = Written(p.mem)
  /\ Set(w, NoCall)
  /\ Adverse
  /\ UNCHANGED <<release, undone>>

\* The step at which the run resumes is the one that it completed last.
Resumed(w) ==
  LET p == proc[w] IN
  /\ p.i = p.first
  /\ Steps(w)[p.i].name = p.mem.path
  /\ Completed(p.mem, p.mem.path)

AtStep(w) == proc[w].pc = "steps" /\ proc[w].i \in DOMAIN Steps(w)

\* The next thing that w does is to call the Do callback of its step.
Calling(w) == AtStep(w) /\ ~Resumed(w) /\ ~proc[w].cancelled

SkipCompleted(w) ==
  /\ AtStep(w) /\ Resumed(w)
  /\ Local(w, [proc[w] EXCEPT !.i = @ + 1])
  /\ UNCHANGED budget

StopCancelled(w) ==
  LET p == proc[w] IN
  /\ AtStep(w) /\ ~Resumed(w) /\ p.cancelled
  /\ Local(w, [p EXCEPT !.mem.path = Steps(w)[p.i].name, !.pc = "return"])
  /\ UNCHANGED budget

\* The Do callback succeeds: its completion is durable before the next step.
Do(w) ==
  LET p == proc[w]
      s == Steps(w)[p.i]
      entry == [step |-> s.name, compensator |-> s.compensates, does |-> s.does]
  IN /\ Calling(w)
     /\ Local(w, Persist([p EXCEPT !.i = @ + 1],
                         [p.mem EXCEPT !.path = s.name, !.completed = Append(@, entry)],
                         "steps"))
     /\ UNCHANGED budget

\* The Do callback fails: the run rolls back.
DoFailed(w) ==
  LET p == proc[w] IN
  /\ Calling(w)
  /\ Local(w, Persist(p, [p.mem EXCEPT !.path = Steps(w)[p.i].name,
                                       !.status = "compensating",
                                       !.index = Len(p.mem.completed) - 1],
                      "compensate"))
  /\ UNCHANGED budget

\* The Do callback fails because the context has ended, which is no failure of
\* the step.
DoCancelled(w) ==
  LET p == proc[w] IN
  /\ Calling(w)
  /\ Local(w, [p EXCEPT !.mem.path = Steps(w)[p.i].name, !.cancelled = TRUE, !.pc = "return"])
  /\ Adverse

StepsDone(w) ==
  LET p == proc[w] IN
  /\ p.pc = "steps" /\ p.i > Len(Steps(w))
  /\ Local(w, Persist(p, [p.mem EXCEPT !.status = "completed"], "return"))
  /\ UNCHANGED budget

-----------------------------------------------------------------------------
(* runCompensation.                                                        *)

\* The completion at the compensation index, and the steps of w with its name.
Due(w) == proc[w].mem.completed[proc[w].mem.index + 1]

Compensators(w) ==
  {s \in Range(Steps(w)) : s.name = Due(w).step /\ s.compensates}

AtCompletion(w) ==
  /\ proc[w].pc = "compensate"
  /\ proc[w].mem.index + 1 \in DOMAIN proc[w].mem.completed

\* A step without a compensator is passed over - and so is one that the release
\* of w does not know, with a warning.
SkipCompensation(w) ==
  LET p == proc[w] IN
  /\ AtCompletion(w)
  /\ ~Due(w).compensator \/ (~p.cancelled /\ Compensators(w) = {})
  /\ Local(w, [p EXCEPT !.mem.index = @ - 1])
  /\ UNCHANGED budget

CompensationCancelled(w) ==
  /\ AtCompletion(w) /\ Due(w).compensator /\ proc[w].cancelled
  /\ Local(w, [proc[w] EXCEPT !.pc = "return"])
  /\ UNCHANGED budget

\* The Compensate callback.
Compensate(w) ==
  LET p == proc[w] IN
  /\ AtCompletion(w) /\ Due(w).compensator /\ ~p.cancelled
  /\ Set(w, Persist(p, [p.mem EXCEPT !.index = @ - 1], "compensate"))
  /\ \E s \in Compensators(w) : undone' = undone \cup {s.does}
  /\ UNCHANGED <<store, release, budget>>

\* It returns an error, which leaves the run to be tried again.
CompensateFailed(w) ==
  LET p == proc[w] IN
  /\ AtCompletion(w) /\ Due(w).compensator /\ ~p.cancelled /\ Compensators(w) # {}
  /\ Local(w, Persist(p, p.mem, "return"))
  /\ Adverse

CompensationDone(w) ==
  LET p == proc[w] IN
  /\ p.pc = "compensate" /\ p.mem.index < 0
  /\ Local(w, Persist(p, [p.mem EXCEPT !.status = "failed", !.index = -1], "return"))
  /\ UNCHANGED budget

-----------------------------------------------------------------------------
\* The caller relies on the snapshots and drops the state that Run returns.
Return(w) ==
  /\ proc[w].pc = "return"
  /\ Local(w, NoCall)
  /\ UNCHANGED budget

Crash(w) ==
  /\ proc[w].pc # "idle"
  /\ Local(w, NoCall)
  /\ Adverse

Cancel(w) ==
  /\ proc[w].pc # "idle" /\ ~proc[w].cancelled
  /\ Local(w, [proc[w] EXCEPT !.cancelled = TRUE])
  /\ Adverse

Terminated ==
  /\ IsTerminal(store)
  /\ \A w \in Worker : proc[w].pc = "idle"
  /\ UNCHANGED vars

-----------------------------------------------------------------------------
WorkerStep(w) ==
  \/ Refuse(w) \/ Begin(w) \/ Migrate(w) \/ MigrateFailed(w) \/ CheckVersion(w) \/ Resume(w)
  \/ SnapshotOK(w) \/ SnapshotFailed(w)
  \/ SkipCompleted(w) \/ StopCancelled(w) \/ StepsDone(w)
  \/ Do(w) \/ DoFailed(w) \/ DoCancelled(w)
  \/ SkipCompensation(w) \/ CompensationCancelled(w) \/ CompensationDone(w)
  \/ Compensate(w) \/ CompensateFailed(w)
  \/ Return(w)

Next ==
  \/ \E w \in Worker : \/ Load(w) \/ WorkerStep(w) \/ SnapshotAckLost(w)
                       \/ Crash(w) \/ Cancel(w) \/ Deploy(w)
  \/ Terminated

Spec == Init /\ [][Next]_vars

\* A call that is running goes on.  A worker that cannot take the run gives it
\* back to the queue ("return the job to the queue", pipeline/README.md), and the
\* queue offers it to every worker again and again.  Nothing else need happen.
Fairness == \A w \in Worker : SF_vars(Load(w)) /\ WF_vars(WorkerStep(w))

FairSpec == Spec /\ Fairness
=============================================================================
