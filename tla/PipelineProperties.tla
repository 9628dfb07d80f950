--------------------------- MODULE PipelineProperties ---------------------------
(***************************************************************************)
(* What the executor promises.  The properties speak of the durable state  *)
(* (store), which is all that a later Run, a caller or an operator sees,   *)
(* of the outside world, and of the two together.                          *)
(***************************************************************************)
EXTENDS PipelineExecutor

\* Every variable has its type.
TypeOK ==
  /\ store \in RunState
  /\ proc \in [Worker -> Call]
  /\ world \in SUBSET Path
  /\ now \in Nat
  /\ budget \in Nat

-----------------------------------------------------------------------------
(* The outside world and the journal.                                      *)

Compensable(m) == {k \in DOMAIN m.completed : m.completed[k].compensator}

\* Of the compensable completions of the durable state, those a rollback has
\* undone, and those still to undo.
Undone == {k \in Compensable(store) : k - 1 > store.compensationIndex}
ToUndo == Compensable(store) \ Undone

\* While the run goes forward, and after it completed, the effect of every
\* journaled compensable action is in force.  While it rolls back, the effects
\* above the compensation index are undone and those at or below it are in
\* force, except that the next one to undo may be undone already; so after any
\* crash the index tells what is left to do.  After it failed, all are undone.
EffectsFollowJournal ==
  LET InForce(k) == store.completed[k].path \in world IN
  CASE store.status = "compensating" ->
         /\ \A k \in Undone : ~InForce(k)
         /\ \A k \in ToUndo : InForce(k) \/ \A j \in ToUndo : j <= k
    [] store.status = "failed" -> \A k \in Compensable(store) : ~InForce(k)
    [] OTHER -> \A k \in Compensable(store) : InForce(k)

\* The effects of compensable actions that the durable journal does not know.
Orphans ==
  {path \in world : Def[Last(path)].compensate /\ path \notin CompletedPaths(store)}

\* A write follows every action and a failed write stops the run, so a crash or
\* an outage leaves at most one effect without a journal entry; and a run that
\* completes has executed that action again and journaled it.
AtMostOneOrphan ==
  /\ Cardinality(Orphans) <= 1
  /\ store.status = "completed" => Orphans = {}

RolledBack == {"compensating", "failed"}

\* Once the decision to roll back is durable a lone worker executes no action any
\* more, whatever crashes and resumptions follow.
NoForwardAfterRollback ==
  [][store.status \in RolledBack => world' \subseteq world]_vars

\* The state n may follow the state m: a rollback neither turns back nor ends
\* otherwise than in failure, its journal is closed, and what it has undone is
\* not undone again.
MayFollow(m, n) ==
  m.status \in RolledBack =>
    /\ n.status \in RolledBack
    /\ m.status = "failed" => n.status = "failed"
    /\ n.completed = m.completed
    /\ n.compensationIndex <= m.compensationIndex

\* A rollback, once durable, is final: no write of any worker, however late it
\* comes, takes the run back to an earlier point.
RollbackIsFinal == [][MayFollow(store, store')]_vars

-----------------------------------------------------------------------------
(* The journal.                                                            *)

\* "completed steps are never re-executed on resume" (pipeline/README.md): an
\* action or a poll that the journal holds is not called again.
NeverReexecuted ==
  \A w \in Worker :
    LET p == proc[w] IN
    At(p, "call") /\ Def[StepOf(p)].kind \in {"action", "poll"}
      => StepPath(p) \notin CompletedPaths(p.mem)

\* The scope that a base path leads to.
ScopeAt(base) ==
  IF base = <<>> THEN Root
  ELSE LET d == Def[base[Len(base) - 1]]
       IN IF d.kind = "branch" THEN d.paths[Last(base)] ELSE d.body

ScopeComplete(base, steps) ==
  \A s \in Range(steps) : Append(base, s) \in CompletedPaths(store)

\* A completed run has skipped nothing: the journal holds every step of the top
\* level, of one path of each branch it entered, and of every iteration of each
\* repeat it entered (but those that compaction has forgotten).
NothingSkipped ==
  store.status = "completed" =>
    /\ ScopeComplete(<<>>, Root)
    /\ \A path \in CompletedPaths(store) :
         LET d == Def[Last(path)] IN
         /\ d.kind = "branch" =>
              \E k \in DOMAIN d.paths : ScopeComplete(Append(path, k), d.paths[k])
         /\ d.kind = "repeat" /\ ~d.compact =>
              \A n \in 0..RepeatAt(store, path).iteration : ScopeComplete(Append(path, n), d.body)

\* Entry j of the journal may follow entry i: siblings stand in the order of
\* their scope, a branch before the steps of the path it chose, a repeat after
\* the steps of its iterations, and an iteration after the one before it.
MayPrecede(a, b) ==
  LET base == Front(b)
  IN /\ Front(a) = base => \E i, j \in DOMAIN ScopeAt(base) :
                             i < j /\ ScopeAt(base)[i] = Last(a) /\ ScopeAt(base)[j] = Last(b)
     /\ IsStrictPrefix(b, a) => Def[Last(b)].kind = "repeat"
     /\ IsStrictPrefix(a, b) => Def[Last(a)].kind = "branch"
     /\ \A d \in 1..Len(a) :
          d <= Len(b) /\ d % 2 = 0 /\ SubSeq(a, 1, d - 1) = SubSeq(b, 1, d - 1)
            => IF Def[a[d - 1]].kind = "repeat" THEN a[d] <= b[d] ELSE a[d] = b[d]

\* At every moment the durable journal lists the steps in the order in which the
\* definition runs them, none twice, and no step before its elder siblings.
JournalOrdered ==
  /\ \A i, j \in DOMAIN store.completed :
       i < j => MayPrecede(store.completed[i].path, store.completed[j].path)
  /\ \A j \in DOMAIN store.completed :
       LET b == store.completed[j].path
           scope == ScopeAt(Front(b))
       IN \A e, f \in DOMAIN scope :
            e < f /\ scope[f] = Last(b) =>
              \E i \in 1..(j - 1) : store.completed[i].path = Append(Front(b), scope[e])

\* Compact history stays compact: of a repeat that keeps no history, the durable
\* state holds what its iteration in progress did and no more, at any depth, and
\* nothing once the repeat has completed.
HistoryCompacted ==
  \A r \in store.repeats :
    Def[Last(r.path)].compact =>
      \A path \in CompletedPaths(store) \cup {q.path : q \in store.repeats} :
        IsStrictPrefix(r.path, path) =>
          path[Len(r.path) + 1] = r.iteration /\ r.path \notin CompletedPaths(store)

-----------------------------------------------------------------------------
(* Failure attribution and deadlines.                                      *)

\* FailedStepPath names the step that failed: the scopes around it, through
\* which the error passes, do not put their own path in its place.
FailureKeepsItsPath ==
  [][\A w \in Worker :
       /\ proc[w].pc # "idle" /\ proc'[w].pc # "idle"
       /\ proc'[w].mem.failedStepPath # proc[w].mem.failedStepPath
       => proc'[w].mem.failedStepPath = proc[w].err.path]_vars

\* PollStartedAt is one field for all polls.  While the run goes forward it is
\* set only for the poll that the run is at, so no poll inherits the window of
\* another one.
PollWindowOwned ==
  store.status \in {"new", "running", "polling"} /\ store.pollStartedAt # NoTime
    => /\ store.currentPath # <<>>
       /\ store.currentPath \notin CompletedPaths(store)
       /\ Def[Last(store.currentPath)].kind = "poll"

\* The window of a timed repeat spans restarts: once it is durable, no later
\* write moves it while the repeat goes on.
RepeatDeadlineFixed ==
  [][\A r \in store.repeats :
       r.startedAt # NoTime =>
         \/ r.path \in CompletedPaths(store')
         \/ \E q \in store'.repeats : q.path = r.path /\ q.startedAt = r.startedAt
         \/ \E q \in store'.repeats : /\ IsStrictPrefix(q.path, r.path)
                                      /\ Def[Last(q.path)].compact]_vars

\* The window of a poll spans restarts as well: once it is durable it stays where it
\* is until the poll has completed or is recorded as failed, though the same field is
\* cleared in memory before either is written, and a cancelled context or a lost
\* write may keep that from the durable state.
PollDeadlineFixed ==
  [][store.pollStartedAt # NoTime =>
       \/ store'.pollStartedAt = store.pollStartedAt
       \/ /\ store'.pollStartedAt = NoTime
          /\ \/ store.currentPath \in CompletedPaths(store')
             \/ store'.failedStepPath = store.currentPath]_vars

-----------------------------------------------------------------------------
(* The durable state implements a saga, and the run comes to an end.       *)

Ledger == Subsequence(store.completed, Compensable(store))

Phase ==
  CASE store.status \in {"new", "running", "polling"} -> "forward"
    [] store.status = "compensating" -> "rollback"
    [] store.status = "completed" -> "done"
    [] store.status = "failed" -> "aborted"

Left ==
  IF store.status = "compensating"
    THEN Cardinality(ToUndo)
    ELSE 0

Durable == INSTANCE Saga WITH Entry <- Completion, phase <- Phase, ledger <- Ledger, left <- Left

\* Every write of the state is a step of a saga, or changes nothing in it: one
\* write makes at most one compensable completion durable, and rolls back at
\* most one.
ImplementsSaga == Durable!Spec

\* With finitely many faults the run ends: completed, or failed and rolled back.
Termination == <>IsTerminal(store)

-----------------------------------------------------------------------------
(* Inductive invariants.  The proofs rest on them; TLC checks them first.  *)

\* At most one process works on the run.
Alone == \A v, w \in Worker : v = w

\* The call of w may write: nobody has written the state since w read it.
Fresh(w) == Alone \/ (Mode = "cas" /\ proc[w].mem.revision = store.revision)

\* The call p is at l, or is writing a snapshot before it goes on there.
Goes(p, l) == p.pc = l \/ (p.pc = "snapshot" /\ p.next = l)

\* A call that rolls back has left the forward path, and one that compensates
\* has recorded so.
OnItsWay(p) ==
  /\ p.mem.compensationIndex >= -1
  /\ p.mem.status \in RolledBack =>
       \E l \in {"start", "compensate", "raise", "return"} : Goes(p, l)
  /\ Goes(p, "compensate") => p.mem.status = "compensating"
  /\ Goes(p, "start") => p.mem.status \notin Terminal

\* What each worker holds in memory relates to the durable state thus.
Lineage ==
  /\ store.compensationIndex >= -1
  /\ \A w \in Worker :
       proc[w].pc # "idle" =>
         /\ OnItsWay(proc[w])
         /\ Mode = "cas" /\ ~CallerSaves => proc[w].mem.revision <= store.revision
         /\ Fresh(w) => MayFollow(store, proc[w].mem)

\* Frames lie inside one another, the innermost first.
Nested(stack) ==
  \A k \in 1..(Len(stack) - 1) : Len(stack[k].base) > Len(stack[k + 1].base)

\* An error that reaches a frame started at the step that the frame is at, or
\* deeper.
Attributed(p) ==
  /\ Nested(p.stack)
  /\ Goes(p, "start") => p.stack = <<>>
  /\ Goes(p, "compensate") => p.mem.status = "compensating"
  /\ Goes(p, "raise") /\ p.stack # <<>> /\ ~p.cancelled /\ p.mem.status = "running" =>
       Len(p.err.path) > Len(Top(p).base) + 1 \/ p.err.path = StepPath(p)

Attribution == \A w \in Worker : Attributed(proc[w])
=============================================================================
