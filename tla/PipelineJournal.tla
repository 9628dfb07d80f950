----------------------------- MODULE PipelineJournal -----------------------------
(***************************************************************************)
(* Proofs about the journal of a run: the completed steps stand in it in   *)
(* the order in which the definition runs them, whatever was interrupted,  *)
(* saved, loaded and resumed in between; the durable state implements a    *)
(* saga whose ledger is made of the compensable completions; the effects   *)
(* outside are those that the journal says; and a run that is resumed      *)
(* comes first to the one action whose effect its journal may not know.    *)
(***************************************************************************)
EXTENDS PipelineCourse, FunctionTheorems

-----------------------------------------------------------------------------
(* How the journal changes.                                                *)

\* The paths that the journal s lists.
Paths(s) == {s[k].path : k \in DOMAIN s}

\* The journal t is s, or what is left of it when an iteration of a repeat that
\* keeps no history is forgotten.
Trimmed(s, t) ==
  \/ t = s
  \/ \E x \in Path, n \in Nat :
       /\ Odd(Len(x)) /\ Last(x) \in Step /\ Def[Last(x)].kind = "repeat" /\ Def[Last(x)].compact
       /\ t = Subsequence(s, {k \in DOMAIN s : ~IsPrefix(Append(x, n), s[k].path)})

\* The journal t is s and one more completion, of a step that is next.
Extended(s, t) ==
  \E b \in Path, c \in BOOLEAN :
    /\ t = Append(s, [path |-> b, compensator |-> c])
    /\ Odd(Len(b)) /\ Last(b) \in Step
    /\ c => Def[Last(b)].kind = "action" /\ Def[Last(b)].compensate
    /\ b \notin Paths(s) /\ Route(Paths(s), b)
    /\ \A a \in Paths(s) : Under(b, a) => Def[Last(b)].kind = "repeat"

\* The operators on states that do not touch the journal.
LEMMA JournalSame ==
  ASSUME NEW m \in RunState
  PROVE  /\ Opened(m).completed = m.completed
         /\ [m EXCEPT !.pollStartedAt = NoTime].completed = m.completed
         /\ \A r : SetRepeat(m, r).completed = m.completed
         /\ \A path : [m EXCEPT !.currentPath = path].completed = m.completed
         /\ Written(m).completed = m.completed
BY DEF Opened, SetRepeat, Written, RunState

\* The steps that do not touch the journal of the call.
LEMMA JournalKept ==
  ASSUME TypeOK, NEW w \in Worker,
         \/ Start(w) \/ SnapshotOK(w)
         \/ SkipCompleted(w) \/ StopCancelled(w) \/ EnterStep(w) \/ ScopeDone(w)
         \/ EnsureRepeatStarted(w) \/ CheckRepeatTimeout(w)
         \/ \E o \in Outcome : OnEnter(w, o)
         \/ Sleep(w) \/ PollTimeout(w) \/ ResumeBranch(w)
         \/ \E o \in Outcome : DecideFailed(w, o)
         \/ BeginIteration(w) \/ UntilTimeout(w)
         \/ RaiseCancelled(w) \/ Propagate(w) \/ RaiseNoCompensate(w) \/ RaiseFailure(w)
         \/ SkipCompensation(w) \/ CompensationCancelled(w) \/ CompensationDone(w)
         \/ \E o \in {"ok", "error", "retryafter", "context"} : Compensate(w, o)
         \/ Cancel(w)
  PROVE  proc'[w].mem.completed = proc[w].mem.completed
<1> DEFINE q == proc[w]
           s == q.mem.completed
<1>1. q \in Call /\ q.mem \in RunState /\ proc \in [Worker -> Call]
  BY MemType DEF TypeOK
<1> USE DEF Call, Local, Set
<1>2. CASE Start(w)
  <2> DEFINE m == [q.mem EXCEPT !.status = "running"]
  <2>1. \/ proc'[w] = [q EXCEPT !.pc = "return"]
        \/ proc'[w] = Persist(q, q.mem, "compensate")
        \/ \E frame : proc'[w] = PersistThen(Push(q, frame), m)
    BY <1>1, <1>2 DEF Start
  <2>2. m.completed = s BY <1>1 DEF RunState
  <2> HIDE DEF m
  <2>3. \A frame : PersistThen(Push(q, frame), m).mem = m BY <1>1 DEF PersistThen, Push
  <2>4. Persist(q, q.mem, "compensate").mem = q.mem BY <1>1 DEF Persist
  <2> QED BY <1>1, <2>1, <2>2, <2>3, <2>4
<1>3. CASE SnapshotOK(w)
  BY <1>1, <1>3, JournalSame DEF SnapshotOK
<1>4. CASE SkipCompleted(w) BY <1>1, <1>4 DEF SkipCompleted, Advance
<1>5. CASE StopCancelled(w) BY <1>1, <1>5 DEF StopCancelled, Unwind, RunState
<1>6. CASE EnterStep(w)
  <2>1. \E path : proc'[w] = [q EXCEPT !.mem.currentPath = path, !.attempt = 0,
                                      !.pc = Prologue(StepOf(q))]
    BY <1>1, <1>6 DEF EnterStep
  <2> QED BY <1>1, <2>1 DEF RunState
<1>7. CASE ScopeDone(w)
  <2> DEFINE up == [q EXCEPT !.stack = Tail(@)]
  <2>1. \/ proc'[w] = Persist([q EXCEPT !.stack = <<>>], [q.mem EXCEPT !.status = "completed"],
                             "return")
        \/ proc'[w] = Advance(up)
        \/ \E r : proc'[w] = [up EXCEPT !.mem = SetRepeat(q.mem, r), !.pc = "until"]
    BY <1>1, <1>7 DEF ScopeDone
  <2>2. Persist([q EXCEPT !.stack = <<>>], [q.mem EXCEPT !.status = "completed"],
                "return").mem.completed = s
    BY <1>1 DEF Persist, RunState
  <2>3. Advance(up).mem = q.mem BY <1>1 DEF Advance
  <2>4. \A m : [up EXCEPT !.mem = m, !.pc = "until"].mem = m BY <1>1
  <2> HIDE DEF up
  <2>5. ASSUME NEW r, proc'[w] = [up EXCEPT !.mem = SetRepeat(q.mem, r), !.pc = "until"]
        PROVE  proc'[w].mem.completed = s
    <3>1. proc'[w].mem = SetRepeat(q.mem, r) BY <2>4, <2>5
    <3> QED BY <1>1, <3>1, JournalSame
  <2> QED BY <2>1, <2>2, <2>3, <2>5
<1>8. CASE EnsureRepeatStarted(w) BY <1>1, <1>8, JournalSame DEF EnsureRepeatStarted, Persist
<1>9. CASE CheckRepeatTimeout(w)
  <2>1. \/ \E l : proc'[w] = [q EXCEPT !.pc = l]
        \/ \E kind, path : proc'[w] = Fail(q, kind, path)
    BY <1>1, <1>9 DEF CheckRepeatTimeout
  <2> QED BY <1>1, <2>1 DEF Fail
<1>10. ASSUME NEW o \in Outcome, OnEnter(w, o) PROVE proc'[w].mem.completed = s
  BY <1>1, <1>10 DEF OnEnter, Fail, Persist
<1>11. CASE Sleep(w) BY <1>1, <1>11 DEF Sleep, Fail
<1>12. CASE PollTimeout(w)
  <2>1. Opened(q.mem) \in RunState BY <1>1 DEF Opened, RunState, TypeOK, Time
  <2> QED BY <1>1, <1>12, <2>1, JournalSame DEF PollTimeout, Fail
<1>13. CASE ResumeBranch(w) BY <1>1, <1>13 DEF ResumeBranch, Push
<1>14. ASSUME NEW o \in Outcome, DecideFailed(w, o) PROVE proc'[w].mem.completed = s
  BY <1>1, <1>14 DEF DecideFailed, Fail, Persist
<1>15. CASE BeginIteration(w) BY <1>1, <1>15, JournalSame DEF BeginIteration, Push
<1>16. CASE UntilTimeout(w) BY <1>1, <1>16 DEF UntilTimeout, Fail
<1>17. CASE RaiseCancelled(w) BY <1>1, <1>17 DEF RaiseCancelled, Unwind, RunState
<1>18. CASE Propagate(w) BY <1>1, <1>18 DEF Propagate, Unwind
<1>19. CASE RaiseNoCompensate(w)
  BY <1>1, <1>19 DEF RaiseNoCompensate, Unwind, PersistThen, RunState
<1>20. CASE RaiseFailure(w) BY <1>1, <1>20 DEF RaiseFailure, Persist, RunState
<1>21. CASE SkipCompensation(w) BY <1>1, <1>21 DEF SkipCompensation, RunState
<1>22. CASE CompensationCancelled(w) BY <1>1, <1>22 DEF CompensationCancelled, Unwind
<1>23. CASE CompensationDone(w) BY <1>1, <1>23 DEF CompensationDone, Persist, RunState
<1>24. ASSUME NEW o \in {"ok", "error", "retryafter", "context"}, Compensate(w, o)
       PROVE  proc'[w].mem.completed = s
  BY <1>1, <1>24 DEF Compensate, Unwind, Persist, PersistThen, RunState
<1>25. CASE Cancel(w) BY <1>1, <1>25 DEF Cancel
<1> QED BY <1>2, <1>3, <1>4, <1>5, <1>6, <1>7, <1>8, <1>9, <1>10, <1>11, <1>12, <1>13, <1>14,
           <1>15, <1>16, <1>17, <1>18, <1>19, <1>20, <1>21, <1>22, <1>23, <1>24, <1>25

\* A completion is appended.
LEMMA CompleteIs ==
  ASSUME NEW m \in RunState, NEW path, NEW c
  PROVE  LET n == Complete(m, path, c) IN
         /\ n.completed = Append(m.completed, [path |-> path, compensator |-> c])
         /\ n.status = m.status
BY DEF Complete, RunState

\* The step that a call executes has nothing in the journal, if its path is the current one.
LEMMA CallFresh ==
  ASSUME NEW q \in Call, Placed(q), At(q, "call"),
         q.mem.currentPath = StepPath(q), NEW c \in BOOLEAN,
         c => Def[StepOf(q)].kind = "action" /\ Def[StepOf(q)].compensate
  PROVE  Extended(q.mem.completed,
                  Append(q.mem.completed, [path |-> StepPath(q), compensator |-> c]))
<1> DEFINE f == q.stack[1]
           s == q.mem.completed
           J == CompletedPaths(q.mem)
           cp == q.mem.currentPath
           x == StepPath(q)
<1>1. "call" \in Forward /\ "call" \in InStep BY DEF Forward, InStep
<1>2. /\ f \in Frame /\ Framed(f) /\ f.i \in DOMAIN f.steps
      /\ StepOf(q) = f.steps[f.i] /\ x = Here(f) /\ StepOf(q) \in Step
      /\ Going("call", q.mem, f) /\ Resumable(J, cp) /\ Route(J, Here(f))
  BY <1>1, AtPlaced
<1>3. Entered(J, cp, f) BY <1>1, <1>2 DEF Going
<1>4. x \in Path /\ Odd(Len(x)) /\ Last(x) = StepOf(q) BY <1>2, HereIs
<1>5. J = Paths(s) BY DEF CompletedPaths, Paths
<1> HIDE DEF J, x, f
<1>6. x \notin J /\ Route(J, x) BY <1>2, <1>3 DEF Entered, x
<1>7. \A a \in J : ~Under(x, a) BY <1>2, <1>6 DEF Resumable, x
<1> QED BY <1>2, <1>4, <1>5, <1>6, <1>7 DEF Extended, x

\* The steps that may complete a step.
LEMMA JournalGrows ==
  ASSUME TypeOK, NEW w \in Worker, Placed(proc[w]),
         \/ \E o \in Outcome : Do(w, o)
         \/ \E o \in Outcome \cup {"pending"} : Check(w, o)
         \/ \E key \in Key : Decide(w, key)
  PROVE  LET s == proc[w].mem.completed
             t == proc'[w].mem.completed
         IN t = s \/ (Extended(s, t) /\ proc'[w].pc = "snapshot" /\ proc[w].pc = "call")
<1> DEFINE q == proc[w]
           n == proc'[w]
           s == q.mem.completed
           t == n.mem.completed
           x == StepPath(q)
           on == [Advance(q) EXCEPT !.pc = "steps"]
           Ext(c) == Append(s, [path |-> x, compensator |-> c])
<1>1. q \in Call /\ q.mem \in RunState /\ proc \in [Worker -> Call] /\ At(q, "call")
  BY MemType DEF TypeOK, Do, Check, Decide
<1>2. on \in Call
  BY <1>1, AdvanceType, GotoType DEF At, Label
<1>3. q.pc = "call" BY <1>1 DEF At
<1>4. \A m : PersistThen(on, m).mem = m /\ PersistThen(on, m).pc = "snapshot"
  BY <1>2, PersistThenIs
<1>5. /\ \A m, l : Persist(q, m, l).mem = m
      /\ \A kind, path : Fail(q, kind, path).mem = q.mem
  BY <1>1, PersistIs, FailIs
<1>6. Def[StepOf(q)].compensate \in BOOLEAN
  BY <1>1, AtType, DefinitionAssumption DEF StepOK
<1>7. ASSUME Def[StepOf(q)].kind \in {"action", "poll"} PROVE q.mem.currentPath = x
  <2> DEFINE f == q.stack[1]
             J == CompletedPaths(q.mem)
             cp == q.mem.currentPath
  <2>1. "call" \in Forward /\ "call" \in InStep BY DEF Forward, InStep
  <2>2. /\ f \in Frame /\ Framed(f) /\ f.i \in DOMAIN f.steps
        /\ StepOf(q) = f.steps[f.i] /\ x = Here(f) /\ J \in SUBSET Path /\ cp \in Path
        /\ Resumable(J, cp) /\ Leads(Here(f), cp)
    BY <1>1, <2>1, AtPlaced
  <2> HIDE DEF f, J, cp
  <2>3. /\ Here(f) \in Path /\ Here(f) # <<>> /\ Odd(Len(Here(f)))
        /\ Last(Here(f)) = StepOf(q)
    BY <2>2, HereIs
  <2>4. cp = Here(f) BY <1>7, <2>2, <2>3, LeafPath DEF Resumable
  <2> QED BY <2>2, <2>4 DEF cp
<1> HIDE DEF on, q
<1>8. ASSUME NEW c \in BOOLEAN, c => Def[StepOf(q)].kind = "action" /\ Def[StepOf(q)].compensate,
             q.mem.currentPath = x
      PROVE  Extended(s, Ext(c))
  BY <1>1, <1>8, CallFresh DEF q
<1>9. ASSUME NEW o \in Outcome, Do(w, o) PROVE t = s \/ (Extended(s, t) /\ n.pc = "snapshot")
  <2> DEFINE c == Def[StepOf(q)].compensate
             m == Complete(q.mem, x, c)
  <2>1. m.completed = Ext(c) BY <1>1, CompleteIs DEF q
  <2>2. Def[StepOf(q)].kind = "action" BY <1>9 DEF Do, q
  <2>3. Extended(s, Ext(c)) BY <1>6, <1>7, <1>8, <2>2 DEF q
  <2>4. \/ n = PersistThen(on, m)
        \/ n = Persist(q, q.mem, "return")
        \/ n = [q EXCEPT !.attempt = @ + 1, !.pc = "sleep"]
        \/ \E kind, path : n = Fail(q, kind, path)
    BY <1>1, <1>9 DEF Do, Set, on, q
  <2>5. [q EXCEPT !.attempt = @ + 1, !.pc = "sleep"].mem = q.mem BY <1>1 DEF q, Call
  <2> HIDE DEF m, c
  <2>6. CASE n = PersistThen(on, m)
    <3>1. n.mem = m /\ n.pc = "snapshot" BY <1>4, <2>6
    <3> HIDE DEF n
    <3> QED BY <2>1, <2>3, <3>1
  <2>7. CASE n.mem = q.mem
    <3> HIDE DEF n
    <3> QED BY <2>7
  <2> DEFINE retry == [q EXCEPT !.attempt = @ + 1, !.pc = "sleep"]
  <2>8. \/ n = PersistThen(on, m)
        \/ n = Persist(q, q.mem, "return")
        \/ n = retry
        \/ \E kind, path : n = Fail(q, kind, path)
    BY <2>4
  <2>9. retry.mem = q.mem BY <2>5
  <2> HIDE DEF retry, n
  <2>10. n = PersistThen(on, m) \/ n.mem = q.mem BY <1>5, <2>8, <2>9
  <2> QED BY <2>6, <2>7, <2>10
<1>10. ASSUME NEW o \in Outcome \cup {"pending"}, Check(w, o)
       PROVE  t = s \/ (Extended(s, t) /\ n.pc = "snapshot")
  <2> DEFINE m == Opened(q.mem)
             closed == [m EXCEPT !.pollStartedAt = NoTime]
             running == [closed EXCEPT !.status = "running"]
             done == Complete(running, x, FALSE)
  <2>1. m \in RunState /\ m.completed = s
    BY <1>1, JournalSame DEF Opened, RunState, TypeOK, Time, q
  <2> HIDE DEF m
  <2>2. closed \in RunState /\ closed.completed = s
    BY <2>1 DEF RunState, Time
  <2> HIDE DEF closed
  <2>3. running \in RunState /\ running.completed = s
    BY <2>2 DEF RunState, Status
  <2> HIDE DEF running
  <2>4. done.completed = Ext(FALSE) BY <2>3, CompleteIs
  <2>5. [m EXCEPT !.status = "polling"].completed = s BY <2>1 DEF RunState
  <2>6. Def[StepOf(q)].kind = "poll" BY <1>10 DEF Check, q
  <2>7. Extended(s, Ext(FALSE)) BY <1>7, <1>8, <2>6 DEF q
  <2>8. \/ n = PersistThen(on, done)
        \/ n = Persist(q, [m EXCEPT !.status = "polling"], "return")
        \/ \E kind, path : n = Fail([q EXCEPT !.mem = IF q.cancelled THEN m ELSE closed], kind, path)
    BY <1>1, <1>10 DEF Check, Local, Set, on, q, m, closed, running
  <2> HIDE DEF done
  <2>9. \A kind, path : LET g == IF q.cancelled THEN m ELSE closed IN
          Fail([q EXCEPT !.mem = g], kind, path).mem = g
    BY <1>1 DEF Fail, Call, q
  <2>10. CASE n = PersistThen(on, done)
    <3>1. n.mem = done /\ n.pc = "snapshot" BY <1>4, <2>10
    <3> HIDE DEF n
    <3> QED BY <2>4, <2>7, <3>1
  <2>11. CASE n = Persist(q, [m EXCEPT !.status = "polling"], "return")
    <3>1. n.mem = [m EXCEPT !.status = "polling"] BY <1>5, <2>11
    <3> HIDE DEF n
    <3> QED BY <2>5, <3>1
  <2>12. ASSUME NEW kind, NEW path,
                n = Fail([q EXCEPT !.mem = IF q.cancelled THEN m ELSE closed], kind, path)
         PROVE  t = s
    <3>1. n.mem = m \/ n.mem = closed BY <2>9, <2>12
    <3> HIDE DEF n
    <3> QED BY <2>1, <2>2, <3>1
  <2> QED BY <2>8, <2>10, <2>11, <2>12
<1>11. ASSUME NEW key \in Key, Decide(w, key)
       PROVE  t = s \/ (Extended(s, t) /\ n.pc = "snapshot")
  <2> DEFINE m == Complete(q.mem, x, FALSE)
  <2>1. m.completed = Ext(FALSE) BY <1>1, CompleteIs DEF q
  <2>2. \A path : [m EXCEPT !.currentPath = path].completed = m.completed
    BY <1>1 DEF Complete, RunState, q
  <2>3. q.mem.currentPath = x
    <3> DEFINE f == q.stack[1]
               J == CompletedPaths(q.mem)
               cp == q.mem.currentPath
    <3>1. "call" \in Forward /\ "call" \in InStep BY DEF Forward, InStep
    <3>2. /\ f \in Frame /\ Framed(f) /\ f.i \in DOMAIN f.steps
          /\ x = Here(f) /\ cp \in Path /\ Leads(Here(f), cp)
      BY <1>1, <3>1, AtPlaced DEF q
    <3>3. Len(cp) <= Len(x) BY <1>11 DEF Decide, q
    <3> HIDE DEF f, J, cp
    <3>4. Here(f) \in Path BY <3>2, HereIs
    <3>5. cp = x BY <3>2, <3>3, <3>4, PathOrder
    <3> QED BY <3>5 DEF cp
  <2>4. Extended(s, Ext(FALSE)) BY <1>8, <2>3
  <2> DEFINE child == Append(x, key)
             into == Push(q, NewFrame(child, Def[StepOf(q)].paths[key], 1, child))
  <2>5. \/ n = PersistThen(on, [m EXCEPT !.currentPath = x])
        \/ n = PersistThen(into, [m EXCEPT !.currentPath = child])
    BY <1>1, <1>11 DEF Decide, Local, Set, q, on
  <2>6. \A g : PersistThen(into, g).mem = g /\ PersistThen(into, g).pc = "snapshot"
    BY <1>1 DEF PersistThen, Push, Call, q
  <2> HIDE DEF m, into
  <2>7. \E path : n.mem = [m EXCEPT !.currentPath = path] /\ n.pc = "snapshot"
    <3>1. CASE n = PersistThen(on, [m EXCEPT !.currentPath = x])
      <4>1. PersistThen(on, [m EXCEPT !.currentPath = x]).mem = [m EXCEPT !.currentPath = x]
        BY <1>4
      <4>2. PersistThen(on, [m EXCEPT !.currentPath = x]).pc = "snapshot" BY <1>4
      <4> QED BY <3>1, <4>1, <4>2
    <3>2. CASE n = PersistThen(into, [m EXCEPT !.currentPath = child]) BY <2>6, <3>2
    <3> QED BY <2>5, <3>1, <3>2
  <2> HIDE DEF n
  <2> QED BY <2>1, <2>2, <2>4, <2>7
<1> QED BY <1>3, <1>9, <1>10, <1>11 DEF q

-----------------------------------------------------------------------------
(* The order of the journal.                                               *)

\* The elder siblings of the step of entry j of the journal s are listed before it.
EldersBefore(s, j) ==
  LET b == s[j].path
      scope == ScopeAt(Front(b))
  IN \A e, f \in DOMAIN scope :
       e < f /\ scope[f] = Last(b) =>
         \E i \in 1..(j - 1) : s[i].path = Append(Front(b), scope[e])

\* The path a leads to a step of the definition; an entry has a compensator only if its
\* step has one.
Genuine(a, c) ==
  /\ \A d \in DOMAIN a : NodeOf(a, d)
  /\ c => Def[Last(a)].compensate

\* The journal s lists steps of the definition, in their order.
InOrder(s) ==
  /\ \A k \in DOMAIN s : Genuine(s[k].path, s[k].compensator)
  /\ \A k \in DOMAIN s : Odd(Len(s[k].path))
  /\ \A i, j \in DOMAIN s : i < j => MayPrecede(s[i].path, s[j].path)
  /\ \A j \in DOMAIN s : EldersBefore(s, j)

\* The scope of the last step of a path.
LEMMA LastScope ==
  ASSUME NEW b \in Path, Odd(Len(b))
  PROVE  /\ Len(b) \in Nat /\ Len(b) >= 1 /\ Front(b) \in Path /\ Len(Front(b)) = Len(b) - 1
         /\ b = Append(Front(b), Last(b)) /\ Last(b) = b[Len(b)]
         /\ \A e \in 1..(Len(b) - 1) : Front(b)[e] = b[e]
         /\ ScopeOf(b, Len(b)) = ScopeAt(Front(b))
<1>1. Len(b) \in Nat /\ b \in Seq(Segment) /\ Len(b) # 0 /\ Last(b) = b[Len(b)]
  BY Parity DEF Path, Last
<1>2. /\ Front(b) \in Path /\ Len(Front(b)) = Len(b) - 1
      /\ \A e \in 1..(Len(b) - 1) : Front(b)[e] = b[e]
  <2>1. PICK n \in Nat : Len(b) = n + 1
    <3>1. Len(b) - 1 \in Nat /\ Len(b) = (Len(b) - 1) + 1 BY <1>1
    <3> QED BY <3>1
  <2>2. Front(b) = SubSeq(b, 1, n) BY <2>1 DEF Front
  <2>3. SubSeq(b, 1, n) \in Seq(Segment) /\ Len(SubSeq(b, 1, n)) = n
        /\ \A e \in 1..n : SubSeq(b, 1, n)[e] = b[e]
    BY <1>1, <2>1
  <2>4. Len(b) - 1 = n BY <2>1
  <2> QED BY <2>2, <2>3, <2>4 DEF Path
<1>3. b = Append(Front(b), Last(b))
  <2> DEFINE r == Append(Front(b), Last(b))
  <2>1. b[Len(b)] \in Segment BY <1>1
  <2>2. /\ r \in Seq(Segment) /\ Len(r) = Len(b) /\ r[Len(b)] = b[Len(b)]
        /\ \A e \in 1..(Len(b) - 1) : r[e] = b[e]
    BY <1>1, <1>2, <2>1 DEF Path
  <2> HIDE DEF r
  <2>3. \A e \in 1..Len(b) : r[e] = b[e] BY <1>1, <2>2
  <2>4. r = b BY <1>1, <2>2, <2>3
  <2> QED BY <2>4 DEF r
<1>4. ScopeOf(b, Len(b)) = ScopeAt(Front(b))
  <2>1. CASE Len(b) = 1
    <3>1. Len(Front(b)) = 0 BY <1>2, <2>1
    <3>2. Front(b) = <<>> BY <1>2, <3>1 DEF Path
    <3> QED BY <2>1, <3>2 DEF ScopeOf, ScopeAt
  <2>2. CASE Len(b) # 1
    <3>1. Len(b) >= 3 BY <1>1, <2>2, Parity
    <3>2. Front(b) # <<>>
      <4>1. Len(Front(b)) # 0 BY <1>2, <3>1
      <4> QED BY <4>1
    <3>3. Front(b)[Len(b) - 1] = b[Len(b) - 1] /\ Front(b)[Len(b) - 2] = b[Len(b) - 2]
      <4>1. Len(b) - 1 \in 1..(Len(b) - 1) /\ Len(b) - 2 \in 1..(Len(b) - 1) BY <1>1, <3>1
      <4> QED BY <1>2, <4>1
    <3>4. Last(Front(b)) = b[Len(b) - 1] BY <1>2, <3>3 DEF Last
    <3>5. Len(Front(b)) - 1 = Len(b) - 2 BY <1>1, <1>2
    <3> QED BY <2>2, <3>2, <3>3, <3>4, <3>5 DEF ScopeOf, ScopeAt
  <2> QED BY <2>1, <2>2
<1> QED BY <1>1, <1>2, <1>3, <1>4

\* Paths with the same initial part.
LEMMA SameInitial ==
  ASSUME NEW a \in Path, NEW b \in Path, NEW n \in Nat, n <= Len(a), n <= Len(b),
         SubSeq(a, 1, n) = SubSeq(b, 1, n)
  PROVE  Agree(a, b, n)
<1>1. \A e \in 1..n : SubSeq(a, 1, n)[e] = a[e] /\ SubSeq(b, 1, n)[e] = b[e] BY DEF Path
<1> QED BY <1>1 DEF Agree

\* What is completed may precede the step that is next.
LEMMA PrecedesNext ==
  ASSUME NEW J \in SUBSET Path, NEW b \in Path, Odd(Len(b)), b \notin J, Route(J, b),
         NEW a \in J, Odd(Len(a)), Under(b, a) => Def[Last(b)].kind = "repeat"
  PROVE  MayPrecede(a, b)
<1>1. a \in Path OBVIOUS
<1>2. /\ Len(b) \in Nat /\ Len(b) >= 1 /\ Len(Front(b)) = Len(b) - 1 /\ Last(b) = b[Len(b)]
      /\ \A e \in 1..(Len(b) - 1) : Front(b)[e] = b[e]
      /\ ScopeOf(b, Len(b)) = ScopeAt(Front(b)) /\ b = Append(Front(b), Last(b))
  BY LastScope
<1>3. /\ Len(a) \in Nat /\ Len(a) >= 1 /\ Len(Front(a)) = Len(a) - 1 /\ Last(a) = a[Len(a)]
      /\ \A e \in 1..(Len(a) - 1) : Front(a)[e] = a[e] /\ a = Append(Front(a), Last(a))
  BY <1>1, LastScope
<1>d. DOMAIN a = 1..Len(a) /\ DOMAIN b = 1..Len(b) BY <1>1 DEF Path
<1>4. \A d \in 1..Len(a) : d \in 1..Len(b) /\ Agree(a, b, d - 1) => NotAfter(a, b, d)
  BY <1>d DEF Route
<1>5. ASSUME Front(a) = Front(b)
      PROVE  \E i, j \in DOMAIN ScopeAt(Front(b)) :
               i < j /\ ScopeAt(Front(b))[i] = Last(a) /\ ScopeAt(Front(b))[j] = Last(b)
  <2>1. Len(a) = Len(b) BY <1>2, <1>3, <1>5
  <2>2. Agree(a, b, Len(b) - 1) BY <1>2, <1>3, <1>5, <2>1 DEF Agree
  <2>3. Last(a) # Last(b)
    <3>1. a = Append(Front(a), Last(a)) BY <1>1, LastScope
    <3> QED BY <1>2, <1>5, <3>1
  <2>4. NotAfter(a, b, Len(b)) BY <1>2, <1>4, <2>1, <2>2
  <2> QED BY <1>2, <1>3, <2>1, <2>3, <2>4 DEF NotAfter
<1>6. ASSUME IsStrictPrefix(b, a) PROVE Def[Last(b)].kind = "repeat"
  BY <1>1, <1>6, PrefixLeads
<1>7. ASSUME IsStrictPrefix(a, b) PROVE Def[Last(a)].kind = "branch"
  <2>1. Len(a) < Len(b) /\ Agree(a, b, Len(a)) BY <1>1, <1>7, PrefixLeads DEF Under
  <2>2. a[Len(a)] = b[Len(a)] /\ Agree(a, b, Len(a) - 1) /\ Len(a) \in DOMAIN b
    BY <1>2, <1>3, <1>d, <2>1 DEF Agree
  <2>3. Listed(J, b, Len(a), b[Len(a)]) BY <2>2 DEF Listed
  <2> QED BY <1>3, <2>1, <2>2, <2>3 DEF Route
<1>8. ASSUME NEW d \in 1..Len(a), d <= Len(b), d % 2 = 0,
             SubSeq(a, 1, d - 1) = SubSeq(b, 1, d - 1)
      PROVE  IF Def[a[d - 1]].kind = "repeat" THEN a[d] <= b[d] ELSE a[d] = b[d]
  <2>0. ~Odd(d) BY <1>8 DEF Odd
  <2>a. d # 1 BY <2>0, Parity
  <2>b. d \in Nat /\ d >= 1 /\ d <= Len(a) /\ d <= Len(b) BY <1>3, <1>8
  <2>1. d - 1 \in Nat /\ d - 1 <= Len(a) /\ d - 1 <= Len(b) /\ d >= 2 /\ d \in 1..Len(b)
    BY <1>2, <1>3, <2>a, <2>b
  <2>2. Agree(a, b, d - 1) BY <1>1, <1>8, <2>1, SameInitial
  <2>3. NotAfter(a, b, d) BY <1>4, <2>1, <2>2
  <2>4. a[d - 1] = b[d - 1]
    <3>1. d - 1 \in 1..(d - 1) BY <2>1
    <3> QED BY <2>2, <3>1 DEF Agree
  <2>5. ~Odd(d) BY <2>0
  <2>6. NodeOf(b, d) BY <1>d, <2>1 DEF Route
  <2>7. Def[b[d - 1]].kind = "repeat" => b[d] \in Nat BY <2>5, <2>6 DEF NodeOf
  <2>8. IF Def[b[d - 1]].kind = "repeat" THEN a[d] \in 0..b[d] ELSE a[d] = b[d]
    BY <2>3, <2>5 DEF NotAfter
  <2> QED BY <2>4, <2>7, <2>8
<1> QED BY <1>5, <1>6, <1>7, <1>8 DEF MayPrecede

\* The elder siblings of the step that is next are completed.
LEMMA EldersOfNext ==
  ASSUME NEW J \in SUBSET Path, NEW b \in Path, Odd(Len(b)), Route(J, b)
  PROVE  LET scope == ScopeAt(Front(b)) IN
         \A e, f \in DOMAIN scope :
           e < f /\ scope[f] = Last(b) => Append(Front(b), scope[e]) \in J
<1> DEFINE scope == ScopeAt(Front(b))
           l == Len(b)
<1> SUFFICES ASSUME NEW e \in DOMAIN scope, NEW f \in DOMAIN scope, e < f, scope[f] = Last(b)
             PROVE  Append(Front(b), scope[e]) \in J
  OBVIOUS
<1>1. /\ l \in Nat /\ l >= 1 /\ Front(b) \in Path /\ Len(Front(b)) = l - 1 /\ Last(b) = b[l]
      /\ \A k \in 1..(l - 1) : Front(b)[k] = b[k]
      /\ ScopeOf(b, l) = scope
  BY LastScope
<1>2. l \in DOMAIN b BY <1>1 DEF Path
<1>3. Elders(J, b, l) BY <1>2 DEF Route
<1> HIDE DEF scope
<1>4. Listed(J, b, l, scope[e]) BY <1>1, <1>3 DEF Elders
<1>5. PICK a \in J : Len(a) = l /\ Agree(a, b, l - 1) /\ a[l] = scope[e] BY <1>4 DEF Listed
<1>6. a \in Path OBVIOUS
<1>7. /\ Front(a) \in Path /\ Len(Front(a)) = l - 1 /\ a = Append(Front(a), a[l])
      /\ \A k \in 1..(l - 1) : Front(a)[k] = a[k]
  BY <1>5, <1>6, LastScope
<1>8. Front(a) = Front(b)
  <2>1. \A k \in 1..(l - 1) : Front(a)[k] = Front(b)[k] BY <1>1, <1>5, <1>7 DEF Agree
  <2> QED BY <1>1, <1>7, <2>1 DEF Path
<1> QED BY <1>5, <1>7, <1>8 DEF scope

\* A completion of the step that is next keeps the order.
LEMMA ExtendedOrder ==
  ASSUME NEW s \in Seq(Completion), NEW t, InOrder(s), Extended(s, t)
  PROVE  t \in Seq(Completion) /\ InOrder(t)
<1> DEFINE J == Paths(s)
           l == Len(s)
<1>1. PICK b \in Path, c \in BOOLEAN :
        /\ t = Append(s, [path |-> b, compensator |-> c])
        /\ Odd(Len(b)) /\ b \notin J /\ Route(J, b)
        /\ c => Def[Last(b)].compensate
        /\ \A a \in J : Under(b, a) => Def[Last(b)].kind = "repeat"
  BY DEF Extended
<1> DEFINE entry == [path |-> b, compensator |-> c]
<1>2. entry \in Completion /\ entry.path = b /\ entry.compensator = c BY DEF Completion
<1>3. t = Append(s, entry) BY <1>1
<1> HIDE DEF entry
<1>4. /\ t \in Seq(Completion) /\ l \in Nat /\ DOMAIN s = 1..l /\ DOMAIN t = 1..(l + 1)
      /\ t[l + 1] = entry /\ \A k \in 1..l : t[k] = s[k] /\ s[k] \in Completion
  BY <1>2, <1>3
<1>5. \A k \in 1..l : s[k].path \in J /\ s[k].path \in Path /\ t[k].path = s[k].path
  BY <1>4 DEF Paths, Completion
<1>6. J \in SUBSET Path BY <1>4, <1>5 DEF Paths
<1>7. \A x \in J : \E k \in 1..l : s[k].path = x BY <1>4 DEF Paths
<1>8. t[l + 1].path = b /\ t[l + 1].compensator = c BY <1>2, <1>4
<1>a. Genuine(b, c) BY <1>1 DEF Genuine, Route
<1>9. \A k \in 1..(l + 1) : (k \in 1..l /\ k # l + 1) \/ k = l + 1 BY <1>4
<1> HIDE DEF J, l
<1>b. ASSUME NEW k \in DOMAIN t PROVE Genuine(t[k].path, t[k].compensator)
  <2>1. CASE k \in 1..l BY <1>4, <2>1 DEF InOrder
  <2>2. CASE k = l + 1 BY <1>a, <1>8, <2>2
  <2> QED BY <1>4, <1>9, <2>1, <2>2
<1>10. ASSUME NEW k \in DOMAIN t PROVE Odd(Len(t[k].path))
  <2>1. CASE k \in 1..l BY <1>4, <1>5, <2>1 DEF InOrder
  <2>2. CASE k = l + 1 BY <1>1, <1>8, <2>2
  <2> QED BY <1>4, <1>9, <2>1, <2>2
<1>11. ASSUME NEW i \in DOMAIN t, NEW j \in DOMAIN t, i < j
       PROVE  MayPrecede(t[i].path, t[j].path)
  <2>1. CASE j \in 1..l
    <3>1. i \in 1..l BY <1>4, <1>11, <2>1
    <3> QED BY <1>4, <1>5, <1>11, <2>1, <3>1 DEF InOrder
  <2>2. CASE j = l + 1
    <3>1. i \in 1..l BY <1>4, <1>11, <2>2
    <3>2. s[i].path \in J /\ Odd(Len(s[i].path)) BY <1>4, <1>5, <3>1 DEF InOrder
    <3>3. MayPrecede(s[i].path, b) BY <1>1, <1>6, <3>2, PrecedesNext
    <3> QED BY <1>5, <1>8, <2>2, <3>1, <3>3
  <2> QED BY <1>4, <1>9, <2>1, <2>2
<1>12. ASSUME NEW j \in DOMAIN t PROVE EldersBefore(t, j)
  <2>1. CASE j \in 1..l
    <3>1. EldersBefore(s, j) BY <1>4, <2>1 DEF InOrder
    <3>2. \A i \in 1..(j - 1) : i \in 1..l BY <1>4, <2>1
    <3> QED BY <1>5, <2>1, <3>1, <3>2 DEF EldersBefore
  <2>2. CASE j = l + 1
    <3>1. \A e, f \in DOMAIN ScopeAt(Front(b)) :
            e < f /\ ScopeAt(Front(b))[f] = Last(b) => Append(Front(b), ScopeAt(Front(b))[e]) \in J
      BY <1>1, <1>6, EldersOfNext
    <3>2. j - 1 = l BY <1>4, <2>2
    <3>3. t[j].path = b BY <1>8, <2>2
    <3>4. \A x \in J : \E i \in 1..(j - 1) : t[i].path = x BY <1>5, <1>7, <3>2
    <3>5. \A e, f \in DOMAIN ScopeAt(Front(b)) :
            e < f /\ ScopeAt(Front(b))[f] = Last(b) =>
              \E i \in 1..(j - 1) : t[i].path = Append(Front(b), ScopeAt(Front(b))[e])
      BY <3>1, <3>4
    <3> QED BY <3>3, <3>5 DEF EldersBefore
  <2> QED BY <1>4, <1>9, <2>1, <2>2
<1> QED BY <1>4, <1>b, <1>10, <1>11, <1>12 DEF InOrder

\* What compaction leaves is in order: it forgets an iteration with all that is below.
LEMMA TrimmedOrder ==
  ASSUME NEW s \in Seq(Completion), NEW t, InOrder(s), Trimmed(s, t)
  PROVE  t \in Seq(Completion) /\ InOrder(t)
<1>1. CASE t = s BY <1>1
<1>2. ASSUME NEW x \in Path, NEW n \in Nat, Odd(Len(x)),
             t = Subsequence(s, {k \in DOMAIN s : ~IsPrefix(Append(x, n), s[k].path)})
      PROVE  t \in Seq(Completion) /\ InOrder(t)
  <2> DEFINE y == Append(x, n)
             K == {k \in DOMAIN s : ~IsPrefix(y, s[k].path)}
             l == Len(s)
  <2>1. l \in Nat /\ DOMAIN s = 1..l /\ \A k \in 1..l : s[k] \in Completion OBVIOUS
  <2>2. K \in SUBSET (1..l) BY <2>1
  <2>3. t = Subsequence(s, K) BY <1>2
  <2>4. y \in Path /\ Len(y) = Len(x) + 1 /\ Len(x) \in Nat BY AppendKey DEF Path
  <2>5. ~Odd(Len(y)) BY <1>2, <2>4, Parity
  <2>6. \A k \in 1..l : s[k].path \in Path BY <2>1 DEF Completion
  <2>7. \A k \in 1..l : k \in K <=> ~Leads(y, s[k].path) BY <2>1, <2>4, <2>6, PrefixLeads
  <2> HIDE DEF K, y
  <2>8. t \in Seq(Completion)
    <3>1. K \in SUBSET (DOMAIN s) BY <2>1, <2>2
    <3> QED BY <2>3, <3>1, SubsequenceType
  <2>9. DOMAIN t = 1..Cardinality(K) /\ \A k \in 1..Cardinality(K) : t[k] = s[Nth(K, k)]
    BY <2>3 DEF Subsequence
  <2>10. \A k \in 1..Cardinality(K) : Nth(K, k) \in K /\ Nth(K, k) \in 1..l
    BY <2>1, <2>2, NthMember
  <2>11. \A i, k \in 1..Cardinality(K) : i < k <=> Nth(K, i) < Nth(K, k)
    BY <2>1, <2>2, NthOrder
  <2> HIDE DEF l
  <2>12. ASSUME NEW j \in DOMAIN t PROVE EldersBefore(t, j)
    <3> DEFINE q == Nth(K, j)
               b == s[q].path
               scope == ScopeAt(Front(b))
    <3>1. q \in K /\ q \in 1..l /\ t[j].path = b BY <2>9, <2>10
    <3>2. EldersBefore(s, q) BY <2>1, <3>1 DEF InOrder
    <3>3. b \in Path /\ Odd(Len(b)) /\ ~Leads(y, b) BY <2>1, <2>6, <2>7, <3>1 DEF InOrder
    <3> HIDE DEF q
    <3>4. ASSUME NEW e \in DOMAIN scope, NEW f \in DOMAIN scope, e < f, scope[f] = Last(b)
          PROVE  \E i \in 1..(j - 1) : t[i].path = Append(Front(b), scope[e])
      <4>1. PICK i \in 1..(q - 1) : s[i].path = Append(Front(b), scope[e])
        BY <3>2, <3>4 DEF EldersBefore
      <4>2. i \in 1..l /\ i < q BY <2>1, <3>1
      <4>3. i \in K
        <5> SUFFICES ASSUME Leads(y, s[i].path) PROVE FALSE BY <2>7, <4>2
        <5>a. /\ Front(b) \in Path /\ Len(Front(b)) = Len(b) - 1 /\ Len(b) \in Nat /\ Len(b) >= 1
              /\ \A k \in 1..(Len(b) - 1) : Front(b)[k] = b[k]
          BY <3>3, LastScope
        <5>1. Front(b) \in Path /\ Leads(Front(b), b) /\ Len(Front(b)) \in Nat
          BY <5>a DEF Leads, Agree
        <5>2. s[i].path \in Path /\ Odd(Len(s[i].path)) BY <2>1, <2>6, <4>2 DEF InOrder
        <5>3. Front(b) = Front(s[i].path)
          <6>1. Append(Front(b), scope[e]) \in Path BY <4>1, <5>2
          <6> HIDE DEF b, scope
          <6> QED BY <4>1, <5>1, <6>1, FrontAppend
        <5>4. Len(y) < Len(s[i].path)
          <6>1. Len(s[i].path) \in Nat BY <5>2, LastScope
          <6>2. Len(y) # Len(s[i].path) BY <2>5, <5>2
          <6> QED BY <2>4, <6>1, <6>2 DEF Leads
        <5>b. LET r == s[i].path IN
              /\ Len(Front(r)) = Len(r) - 1 /\ Len(r) \in Nat
              /\ \A k \in 1..(Len(r) - 1) : Front(r)[k] = r[k]
          BY <5>2, LastScope
        <5>5. Leads(y, Front(s[i].path))
          <6> DEFINE r == s[i].path
          <6>1. \A k \in 1..Len(y) : y[k] = r[k] BY DEF Leads, Agree
          <6>2. Len(y) \in Nat /\ Len(y) <= Len(r) - 1 BY <2>4, <5>4, <5>b
          <6>3. Len(Front(r)) = Len(r) - 1 /\ \A k \in 1..(Len(r) - 1) : Front(r)[k] = r[k]
            BY <5>b
          <6> HIDE DEF r
          <6>4. \A k \in 1..Len(y) : y[k] = Front(r)[k] BY <6>1, <6>2, <6>3
          <6>5. Len(y) <= Len(Front(r)) BY <6>2, <6>3
          <6> QED BY <6>4, <6>5 DEF Leads, Agree, r
        <5> QED BY <2>4, <3>3, <5>1, <5>3, <5>5, PathOrder
      <4>4. PICK k \in 1..Cardinality(K) : Nth(K, k) = i BY <2>1, <2>2, <4>3, NthOnto
      <4>5. j \in 1..Cardinality(K) BY <2>9
      <4>6. k < j BY <2>11, <4>2, <4>4, <4>5 DEF q
      <4>7. k \in 1..(j - 1) BY <4>4, <4>5, <4>6
      <4> QED BY <2>9, <4>1, <4>4, <4>7
    <3> HIDE DEF b
    <3> QED BY <3>1, <3>4 DEF EldersBefore
  <2>13. ASSUME NEW i \in DOMAIN t, NEW j \in DOMAIN t, i < j
         PROVE  MayPrecede(t[i].path, t[j].path)
    <3>1. Nth(K, i) < Nth(K, j) /\ Nth(K, i) \in 1..l /\ Nth(K, j) \in 1..l
      BY <2>9, <2>10, <2>11, <2>13
    <3> QED BY <2>1, <2>9, <3>1 DEF InOrder
  <2>14. \A k \in DOMAIN t : Odd(Len(t[k].path)) /\ Genuine(t[k].path, t[k].compensator)
    BY <2>1, <2>9, <2>10 DEF InOrder
  <2> QED BY <2>8, <2>12, <2>13, <2>14 DEF InOrder
<1> QED BY <1>1, <1>2 DEF Trimmed

\* The end of an iteration forgets it if the repeat keeps no history, and completes
\* the repeat if it is done.
LEMMA UntilJournal ==
  ASSUME TypeOK, NEW w \in Worker, Placed(proc[w]), NEW o \in Outcome \cup {"more"}, Until(w, o)
  PROVE  \E u \in Seq(Completion) :
           /\ Trimmed(proc[w].mem.completed, u)
           /\ \/ proc'[w].mem.completed = u
              \/ /\ Extended(u, proc'[w].mem.completed) /\ proc'[w].pc = "snapshot"
                 /\ \E b : proc'[w].mem.completed = Append(u, [path |-> b, compensator |-> FALSE])
<1> DEFINE q == proc[w]
           f == q.stack[1]
           x == StepPath(q)
           s == q.mem.completed
           r == RepeatAt(q.mem, x)
           def == Def[StepOf(q)]
           y == Append(x, r.iteration)
           m == IF def.compact THEN Compact(q.mem, y) ELSE q.mem
           u == m.completed
           fin == [r EXCEPT !.awaiting = FALSE, !.startedAt = NoTime]
           next == [r EXCEPT !.awaiting = FALSE, !.iteration = @ + 1]
           a == SetRepeat(m, fin)
           b == [a EXCEPT !.currentPath = x]
           k == Complete(b, x, FALSE)
           c == SetRepeat(m, next)
           on == [c EXCEPT !.currentPath = Append(x, next.iteration)]
           go == [Advance(q) EXCEPT !.pc = "steps"]
<1>1. q \in Call /\ q.mem \in RunState /\ proc \in [Worker -> Call] /\ At(q, "until")
  BY MemType DEF TypeOK, Until
<1>2. /\ f \in Frame /\ Framed(f) /\ f.i \in DOMAIN f.steps /\ x = Here(f)
      /\ StepOf(q) = f.steps[f.i] /\ x \in Path /\ StepOf(q) \in Step
      /\ CompletedPaths(q.mem) \in SUBSET Path /\ Going("until", q.mem, f)
      /\ Route(CompletedPaths(q.mem), x)
  BY <1>1, AtPlaced DEF Forward
<1>3. Odd(Len(x)) /\ Last(x) = StepOf(q) BY <1>2, HereIs
<1>4. Asking(CompletedPaths(q.mem), q.mem.currentPath, f, r.iteration) BY <1>2 DEF Going
<1>5. x \notin CompletedPaths(q.mem) /\ Def[Last(x)].kind = "repeat"
  BY <1>2, <1>3, <1>4 DEF Asking
<1>6. r \in RepeatState /\ r.iteration \in Nat BY <1>1, <1>2, RepeatAtType DEF RepeatState
<1>8. \/ proc'[w] = PersistThen(go, k)
      \/ proc'[w] = Fail([q EXCEPT !.mem = m], "step", x)
      \/ proc'[w] = Persist(q, on, "return")
      \/ proc'[w] = Persist(q, q.mem, "return")
      \/ proc'[w] = Fail(q, KindOf(o), x)
  BY <1>1 DEF Until, Local, Set
<1>9. go \in Call BY <1>1, AdvanceType, GotoType DEF At, Label
<1> HIDE DEF go, q
<1>10. /\ m = q.mem \/ (m = Compact(q.mem, y) /\ Def[Last(x)].compact)
  BY <1>3
<1> HIDE DEF m, def
<1>11. /\ m \in RunState /\ CompletedPaths(m) \in SUBSET CompletedPaths(q.mem)
       /\ Route(CompletedPaths(m), x)
  BY <1>1, <1>2, <1>6, <1>10, CompactBelow
<1>12. u \in Seq(Completion) BY <1>11 DEF RunState
<1>13. Trimmed(s, u)
  <2>1. CASE m = q.mem BY <2>1 DEF Trimmed
  <2>2. CASE m = Compact(q.mem, y) /\ Def[Last(x)].compact
    <3>1. u = Subsequence(s, {j \in DOMAIN s : ~IsPrefix(y, s[j].path)})
      BY <1>1, <2>2 DEF Compact, RunState
    <3>2. Last(x) \in Step BY <1>2, <1>3
    <3> HIDE DEF u
    <3> QED BY <1>2, <1>3, <1>5, <1>6, <2>2, <3>1, <3>2 DEF Trimmed
  <2> QED BY <1>10, <2>1, <2>2
<1>14. fin \in RepeatState BY <1>6 DEF RepeatState, Time
<1>15. next \in RepeatState
  <2>1. r.iteration + 1 \in Nat BY <1>6
  <2> QED BY <1>6, <2>1 DEF RepeatState
<1> HIDE DEF fin, next
<1>16. a \in RunState /\ a.completed = u BY <1>11, <1>14, SetRepeatType, SetRepeatIs
<1>17. c \in RunState /\ c.completed = u BY <1>11, <1>15, SetRepeatType, SetRepeatIs
<1> HIDE DEF a, c
<1>18. b \in RunState /\ b.completed = u BY <1>2, <1>16 DEF RunState
<1> HIDE DEF b
<1>19. on.completed = u BY <1>17 DEF RunState
<1>20. k.completed = Append(u, [path |-> x, compensator |-> FALSE]) BY <1>2, <1>18, CompleteIs
<1> HIDE DEF on, k
<1>21. Extended(u, k.completed)
  <2>1. CompletedPaths(m) = Paths(u) BY DEF CompletedPaths, Paths
  <2>2. Last(x) \in Step /\ x \notin Paths(u) /\ Route(Paths(u), x)
    BY <1>2, <1>3, <1>5, <1>11, <2>1
  <2> HIDE DEF u, x
  <2> QED BY <1>2, <1>3, <1>5, <1>20, <2>2 DEF Extended
<1>22. CASE proc'[w] = PersistThen(go, k)
  <2>1. proc'[w].mem = k /\ proc'[w].pc = "snapshot" BY <1>9, <1>22, PersistThenIs
  <2>2. \E z : proc'[w].mem.completed = Append(u, [path |-> z, compensator |-> FALSE])
    BY <1>20, <2>1
  <2> HIDE DEF u
  <2> QED BY <1>12, <1>13, <1>21, <2>1, <2>2 DEF q
<1>23. CASE proc'[w].mem = m \/ proc'[w].mem = on
  <2>1. proc'[w].mem.completed = u BY <1>19, <1>23
  <2> HIDE DEF u
  <2> QED BY <1>12, <1>13, <2>1 DEF q
<1>24. CASE proc'[w].mem = q.mem
  <2>1. s \in Seq(Completion) /\ Trimmed(s, s) BY <1>1 DEF RunState, Trimmed
  <2> QED BY <1>24, <2>1 DEF q
<1>25. /\ Fail([q EXCEPT !.mem = m], "step", x).mem = m
       /\ Persist(q, on, "return").mem = on
       /\ Persist(q, q.mem, "return").mem = q.mem
       /\ Fail(q, KindOf(o), x).mem = q.mem
  <2> DEFINE g == [q EXCEPT !.mem = m]
  <2>1. g \in Call /\ g.mem = m BY <1>1, <1>11, MemType DEF Call
  <2> HIDE DEF g, on, x
  <2>2. Fail(g, "step", x).mem = m BY <2>1, FailIs
  <2>3. /\ Persist(q, on, "return").mem = on /\ Persist(q, q.mem, "return").mem = q.mem
        /\ Fail(q, KindOf(o), x).mem = q.mem
    BY <1>1, PersistIs, FailIs
  <2> QED BY <2>2, <2>3 DEF g
<1> QED BY <1>8, <1>22, <1>23, <1>24, <1>25

-----------------------------------------------------------------------------
(* The order of the journal is an invariant.                               *)

\* What is durable and what every worker holds is in order.
Orderly ==
  /\ InOrder(store.completed)
  /\ \A w \in Worker : InOrder(proc[w].mem.completed)

\* Initially the journals are empty.
LEMMA InitOrderly == Init => Orderly
<1> SUFFICES ASSUME Init PROVE Orderly OBVIOUS
<1>1. InOrder(<<>>) BY DEF InOrder
<1>2. store.completed = <<>> /\ \A w \in Worker : proc[w].mem.completed = <<>>
  BY DEF Init, NoCall, NewRun
<1> QED BY <1>1, <1>2 DEF Orderly

\* Every step keeps the order.
LEMMA StepKeepsOrder ==
  ASSUME TypeOK, ~CallerSaves, Position, Orderly, [Next]_vars
  PROVE  Orderly'
<1>1. InOrder(<<>>) BY DEF InOrder
<1>2. NoCall.mem.completed = <<>> BY DEF NoCall, NewRun
<1>3. proc \in [Worker -> Call] /\ InOrder(store.completed) BY DEF TypeOK, Orderly
<1>m. \A w \in Worker : proc[w].mem \in RunState BY <1>3 DEF Call
<1>4. ASSUME NEW w \in Worker, InOrder(proc'[w].mem.completed), InOrder(store'.completed),
             \E n : Set(w, n)
      PROVE  Orderly'
  <2>1. \A v \in Worker \ {w} : proc'[v] = proc[v] BY <1>3, <1>4 DEF Set
  <2>2. \A v \in Worker : InOrder(proc'[v].mem.completed) BY <1>4, <2>1 DEF Orderly
  <2> QED BY <1>4, <2>2 DEF Orderly
<1>5. ASSUME NEW w \in Worker, WorkerStep(w) PROVE Orderly'
  <2> DEFINE s == proc[w].mem.completed
             t == proc'[w].mem.completed
  <2>1. Placed(proc[w]) /\ InOrder(s) /\ s \in Seq(Completion)
    BY <1>m DEF Position, Orderly, RunState
  <2>2. CASE store' = store /\ (\E n : Set(w, n)) /\ (t = s \/ t = <<>> \/ Extended(s, t))
    <3>1. InOrder(t) BY <1>1, <2>1, <2>2, ExtendedOrder
    <3> QED BY <1>3, <1>4, <2>2, <3>1
  <2>3. CASE \/ \E o \in Outcome : Do(w, o)
             \/ \E o \in Outcome \cup {"pending"} : Check(w, o)
             \/ \E key \in Key : Decide(w, key)
    <3>1. t = s \/ Extended(s, t) BY <2>1, <2>3, JournalGrows
    <3>2. store' = store /\ \E n : Set(w, n) BY <2>3 DEF Do, Check, Decide, Local
    <3> QED BY <2>2, <3>1, <3>2
  <2>4. ASSUME NEW o \in Outcome \cup {"more"}, Until(w, o) PROVE Orderly'
    <3>1. PICK u \in Seq(Completion) : Trimmed(s, u) /\ (t = u \/ Extended(u, t))
      BY <2>1, <2>4, UntilJournal
    <3>2. InOrder(u) BY <2>1, <3>1, TrimmedOrder
    <3>3. InOrder(t) BY <3>1, <3>2, ExtendedOrder
    <3>4. store' = store /\ \E n : Set(w, n) BY <2>4 DEF Until, Local
    <3> QED BY <1>3, <1>4, <3>3, <3>4
  <2>5. CASE SnapshotOK(w)
    <3>1. t = s BY <2>5, JournalKept
    <3>2. store'.completed = s \/ store' = store
      <4>1. store' = store \/ store' = Written(proc[w].mem) BY <2>5 DEF SnapshotOK
      <4> QED BY <1>m, <4>1, JournalSame
    <3>3. \E n : Set(w, n) BY <2>5 DEF SnapshotOK
    <3> QED BY <1>3, <1>4, <2>1, <3>1, <3>2, <3>3
  <2>6. CASE SnapshotFailed(w) \/ Return(w)
    <3>1. proc'[w] = NoCall BY <1>3, <2>6 DEF SnapshotFailed, Return, Local, Set
    <3>2. store' = store /\ \E n : Set(w, n) BY <2>6 DEF SnapshotFailed, Return, Local
    <3> QED BY <1>2, <2>2, <3>1, <3>2
  <2>7. CASE \/ Start(w) \/ SkipCompleted(w) \/ StopCancelled(w) \/ EnterStep(w) \/ ScopeDone(w)
             \/ EnsureRepeatStarted(w) \/ CheckRepeatTimeout(w)
             \/ \E o \in Outcome : OnEnter(w, o)
             \/ Sleep(w) \/ PollTimeout(w) \/ ResumeBranch(w)
             \/ \E o \in Outcome : DecideFailed(w, o)
             \/ BeginIteration(w) \/ UntilTimeout(w)
    <3>1. t = s BY <2>7, JournalKept
    <3>2. store' = store /\ \E n : Set(w, n)
      BY <2>7 DEF Start, SkipCompleted, StopCancelled, EnterStep, ScopeDone, EnsureRepeatStarted,
         CheckRepeatTimeout, OnEnter, Sleep, PollTimeout, ResumeBranch, DecideFailed,
         BeginIteration, UntilTimeout, Local
    <3> QED BY <2>2, <3>1, <3>2
  <2>8. CASE \/ RaiseCancelled(w) \/ Propagate(w) \/ RaiseNoCompensate(w) \/ RaiseFailure(w)
             \/ SkipCompensation(w) \/ CompensationCancelled(w) \/ CompensationDone(w)
             \/ \E o \in {"ok", "error", "retryafter", "context"} : Compensate(w, o)
    <3>1. t = s BY <2>8, JournalKept
    <3>2. store' = store /\ \E n : Set(w, n)
      BY <2>8 DEF RaiseCancelled, Propagate, RaiseNoCompensate, RaiseFailure, SkipCompensation,
         CompensationCancelled, CompensationDone, Compensate, Local
    <3> QED BY <2>2, <3>1, <3>2
  <2> QED BY <1>5, <2>3, <2>4, <2>5, <2>6, <2>7, <2>8 DEF WorkerStep
<1>6. ASSUME NEW w \in Worker, Load(w) \/ SnapshotAckLost(w) \/ Crash(w) \/ Cancel(w)
      PROVE  Orderly'
  <2>1. CASE Load(w)
    <3>1. proc'[w] = [NoCall EXCEPT !.pc = "start", !.mem = store] /\ store' = store
      BY <1>3, <2>1 DEF Load, Local, Set
    <3>2. proc'[w].mem = store BY <3>1 DEF NoCall
    <3>3. \E n : Set(w, n) BY <2>1 DEF Load, Local
    <3> QED BY <1>3, <1>4, <3>1, <3>2, <3>3
  <2>2. CASE SnapshotAckLost(w)
    <3>1. proc'[w] = NoCall /\ store' = Written(proc[w].mem) /\ \E n : Set(w, n)
      BY <1>3, <2>2 DEF SnapshotAckLost, Set
    <3>2. proc[w].mem \in RunState BY <1>m
    <3>3. store'.completed = proc[w].mem.completed BY <3>1, <3>2, JournalSame
    <3> QED BY <1>1, <1>2, <1>4, <3>1, <3>3 DEF Orderly
  <2>3. CASE Crash(w)
    <3>1. proc'[w] = NoCall /\ store' = store /\ \E n : Set(w, n)
      BY <1>3, <2>3 DEF Crash, Local, Set
    <3> QED BY <1>1, <1>2, <1>3, <1>4, <3>1
  <2>4. CASE Cancel(w)
    <3>1. proc'[w].mem.completed = proc[w].mem.completed BY <2>4, JournalKept
    <3>2. store' = store /\ \E n : Set(w, n) BY <2>4 DEF Cancel, Local
    <3>3. InOrder(proc[w].mem.completed) BY DEF Orderly
    <3> QED BY <1>3, <1>4, <3>1, <3>2, <3>3
  <2> QED BY <1>6, <2>1, <2>2, <2>3, <2>4
<1>7. CASE Tick \/ UNCHANGED vars BY <1>7 DEF Tick, vars, Orderly
<1> QED BY <1>5, <1>6, <1>7 DEF Next, Terminated

\* At every moment the durable journal lists the steps in the order in which the
\* definition runs them, none twice, and no step before its elder siblings, whatever
\* the pipeline, the number of workers and the faults.
THEOREM JournalOrderedHolds ==
  ASSUME ~CallerSaves
  PROVE  Spec => []JournalOrdered
<1>1. Init => Orderly BY InitOrderly
<1>2. TypeOK /\ Position /\ Orderly /\ [Next]_vars => Orderly'
  BY StepKeepsOrder
<1>3. Orderly => JournalOrdered
  BY DEF Orderly, InOrder, EldersBefore, JournalOrdered
<1> QED BY <1>1, <1>2, <1>3, PositionHolds, TypeCorrect, PTL DEF Spec

-----------------------------------------------------------------------------
(* Subsequences.                                                           *)

\* The member of a finite set of positions up to which there are k is the k-th one.
LEMMA NthIs ==
  ASSUME NEW n \in Nat, NEW K \in SUBSET (1..n), NEW i \in K, NEW k,
         Cardinality({j \in K : j <= i}) = k
  PROVE  k \in 1..Cardinality(K) /\ Nth(K, k) = i
<1>1. PICK e \in 1..Cardinality(K) : Nth(K, e) = i BY NthOnto
<1>2. Cardinality({j \in K : j <= Nth(K, e)}) = e BY NthMember
<1> QED BY <1>1, <1>2

\* A set of positions is finite.
LEMMA Positions ==
  ASSUME NEW n \in Nat, NEW K \in SUBSET (1..n)
  PROVE  IsFiniteSet(K) /\ Cardinality(K) \in Nat
<1>1. IsFiniteSet(1..n) BY FS_Interval
<1>2. IsFiniteSet(K) BY <1>1, FS_Subset
<1> QED BY <1>2, FS_CardinalityType

\* A subsequence is the same in a longer sequence.
LEMMA SubsequenceLonger ==
  ASSUME NEW S, NEW s \in Seq(S), NEW e \in S, NEW K \in SUBSET (DOMAIN s)
  PROVE  Subsequence(Append(s, e), K) = Subsequence(s, K)
<1> DEFINE t == Append(s, e)
           l == Len(s)
<1>1. l \in Nat /\ DOMAIN s = 1..l /\ K \in SUBSET (1..l) OBVIOUS
<1>2. \A k \in 1..l : t[k] = s[k] BY <1>1
<1> HIDE DEF t, l
<1>3. \A k \in 1..Cardinality(K) : Nth(K, k) \in 1..l BY <1>1, NthMember
<1>4. \A k \in 1..Cardinality(K) : t[Nth(K, k)] = s[Nth(K, k)] BY <1>2, <1>3
<1>5. Subsequence(t, K) = Subsequence(s, K) BY <1>4 DEF Subsequence
<1> QED BY <1>5 DEF t

\* With the new last position the subsequence has one more member, the last one.
LEMMA SubsequenceGrows ==
  ASSUME NEW S, NEW s \in Seq(S), NEW e \in S, NEW K \in SUBSET (DOMAIN s)
  PROVE  Subsequence(Append(s, e), K \cup {Len(s) + 1}) = Append(Subsequence(s, K), e)
<1> DEFINE t == Append(s, e)
           l == Len(s)
           c == Cardinality(K)
           L == K \cup {l + 1}
           u == Subsequence(s, K)
           v == Subsequence(t, L)
           r == Append(u, e)
<1>1. l \in Nat /\ DOMAIN s = 1..l /\ K \in SUBSET (1..l) OBVIOUS
<1>2. t[l + 1] = e /\ \A k \in 1..l : t[k] = s[k] BY <1>1
<1>3. u \in Seq(S) BY SubsequenceType
<1>4. c \in Nat /\ IsFiniteSet(K) BY <1>1, Positions
<1>5. Cardinality(L) = c + 1
  <2>1. l + 1 \notin K BY <1>1
  <2> QED BY <1>4, <2>1, FS_AddElement
<1>6. L \in SUBSET (1..(l + 1)) /\ l + 1 \in Nat BY <1>1
<1>7. ASSUME NEW k \in 1..c PROVE Nth(L, k) = Nth(K, k)
  <2>1. Nth(K, k) \in K /\ Cardinality({j \in K : j <= Nth(K, k)}) = k BY <1>1, NthMember
  <2>2. \A j \in K \cup {l + 1} : j <= Nth(K, k) <=> j \in K /\ j <= Nth(K, k) BY <1>1, <2>1
  <2>3. {j \in L : j <= Nth(K, k)} = {j \in K : j <= Nth(K, k)} BY <2>2
  <2>4. Nth(K, k) \in L BY <2>1
  <2>5. Cardinality({j \in L : j <= Nth(K, k)}) = k BY <2>1, <2>3
  <2> DEFINE i == Nth(K, k)
  <2>6. i \in L /\ Cardinality({j \in L : j <= i}) = k BY <2>4, <2>5
  <2> HIDE DEF L, c, i
  <2>7. Nth(L, k) = i BY <1>6, <2>6, NthIs
  <2> QED BY <2>7 DEF i
<1>8. Nth(L, c + 1) = l + 1
  <2>1. \A j \in L : j <= l + 1 BY <1>1
  <2>2. {j \in L : j <= l + 1} = L BY <2>1
  <2>3. l + 1 \in L OBVIOUS
  <2>4. Cardinality({j \in L : j <= l + 1}) = c + 1 BY <1>5, <2>2
  <2> HIDE DEF L, c
  <2> QED BY <1>6, <2>3, <2>4, NthIs
<1>9. DOMAIN u = 1..c /\ \A k \in 1..c : u[k] = s[Nth(K, k)] BY DEF Subsequence
<1>10. v = [k \in 1..(c + 1) |-> t[Nth(L, k)]] BY <1>5 DEF Subsequence
<1>11. \A k \in 1..c : Nth(K, k) \in 1..l BY <1>1, NthMember
<1> HIDE DEF L, v, t, u, c, l
<1>12. Len(u) = c BY <1>3, <1>4, <1>9
<1>13. r \in Seq(S) /\ Len(r) = c + 1 /\ r[c + 1] = e /\ \A k \in 1..c : r[k] = u[k]
  BY <1>3, <1>4, <1>12
<1> HIDE DEF r
<1>14. \A k \in 1..(c + 1) : k \in 1..c \/ k = c + 1 BY <1>4
<1>15. \A k \in 1..c : t[Nth(L, k)] = r[k] BY <1>2, <1>7, <1>9, <1>11, <1>13
<1>16. t[Nth(L, c + 1)] = r[c + 1] BY <1>2, <1>8, <1>13
<1>17. \A k \in 1..(c + 1) : t[Nth(L, k)] = r[k] BY <1>14, <1>15, <1>16
<1>18. r = [k \in 1..(c + 1) |-> r[k]] BY <1>4, <1>13
<1>19. v = r BY <1>10, <1>17, <1>18
<1> QED BY <1>19 DEF v, t, L, r, u, l

\* A subsequence of a subsequence, at the positions of C.
LEMMA SubsequenceWithin ==
  ASSUME NEW S, NEW s \in Seq(S), NEW K \in SUBSET (DOMAIN s), NEW C \in SUBSET K
  PROVE  LET t == Subsequence(s, K) IN
         Subsequence(t, {k \in DOMAIN t : Nth(K, k) \in C}) = Subsequence(s, C)
<1> DEFINE t == Subsequence(s, K)
           l == Len(s)
           c == Cardinality(K)
           D == {k \in 1..c : Nth(K, k) \in C}
<1>1. l \in Nat /\ DOMAIN s = 1..l /\ K \in SUBSET (1..l) /\ C \in SUBSET (1..l) OBVIOUS
<1>2. c \in Nat /\ IsFiniteSet(K) BY <1>1, Positions
<1>3. DOMAIN t = 1..c /\ \A k \in 1..c : t[k] = s[Nth(K, k)] BY DEF Subsequence
<1>4. \A k \in 1..c : Nth(K, k) \in K BY <1>1, NthMember
<1>5. \A i, k \in 1..c : i < k <=> Nth(K, i) < Nth(K, k) BY <1>1, NthOrder
<1>6. \A i \in K : \E k \in 1..c : Nth(K, k) = i BY <1>1, NthOnto
<1>7. D \in SUBSET (1..c) /\ \A k \in D : Nth(K, k) \in C OBVIOUS
<1>8. \A i \in C : \E k \in D : Nth(K, k) = i BY <1>6
<1> HIDE DEF t, l, c, D
<1>9. \A k \in 1..c : Nth(K, k) \in Nat /\ k \in Nat BY <1>1, <1>2, <1>4
<1>10. \A i, k \in 1..c : i <= k <=> Nth(K, i) <= Nth(K, k)
  <2> SUFFICES ASSUME NEW i \in 1..c, NEW k \in 1..c
               PROVE  i <= k <=> Nth(K, i) <= Nth(K, k)
    OBVIOUS
  <2>1. k < i <=> Nth(K, k) < Nth(K, i) BY <1>5
  <2> QED BY <1>9, <2>1
<1>11. ASSUME NEW A \in SUBSET D, NEW B, B = {Nth(K, k) : k \in A}
       PROVE  Cardinality(B) = Cardinality(A)
  <2> DEFINE f == [k \in A |-> Nth(K, k)]
  <2>1. f \in [A -> B] BY <1>11
  <2>2. ASSUME NEW i \in A, NEW k \in A, f[i] = f[k] PROVE i = k
    <3>1. i \in 1..c /\ k \in 1..c BY <1>7
    <3>2. Nth(K, i) = Nth(K, k) BY <2>2
    <3>3. i <= k /\ k <= i BY <1>9, <1>10, <3>1, <3>2
    <3> QED BY <1>9, <3>1, <3>3
  <2>3. \A b \in B : \E k \in A : f[k] = b BY <1>11
  <2> HIDE DEF f
  <2>4. f \in Bijection(A, B) BY <2>1, <2>2, <2>3, Fun_IsBij
  <2>5. ExistsBijection(A, B) BY <2>4 DEF ExistsBijection
  <2>6. IsFiniteSet(A)
    <3>1. A \in SUBSET (1..c) BY <1>7
    <3> QED BY <1>2, <3>1, Positions
  <2> QED BY <2>5, <2>6, FS_Bijection
<1>12. Cardinality(D) = Cardinality(C)
  <2>1. C = {Nth(K, k) : k \in D} BY <1>7, <1>8
  <2> QED BY <1>11, <2>1
<1>13. ASSUME NEW k \in 1..Cardinality(D)
       PROVE  Nth(D, k) \in D /\ Nth(C, k) = Nth(K, Nth(D, k))
  <2> DEFINE d == Nth(D, k)
             A == {j \in D : j <= d}
             B == {j \in C : j <= Nth(K, d)}
  <2>1. d \in D /\ Cardinality(A) = k BY <1>2, <1>7, NthMember
  <2> HIDE DEF d
  <2>2. d \in 1..c /\ Nth(K, d) \in C BY <1>7, <2>1
  <2>3. B = {Nth(K, j) : j \in A}
    <3>1. \A j \in A : j \in 1..c /\ j <= d /\ Nth(K, j) \in C BY <1>7
    <3>2. \A j \in A : Nth(K, j) \in B BY <1>10, <2>2, <3>1
    <3>3. ASSUME NEW b \in B PROVE \E j \in A : Nth(K, j) = b
      <4>1. PICK j \in D : Nth(K, j) = b BY <1>8
      <4>2. j \in 1..c BY <1>7
      <4>3. j <= d BY <1>10, <2>2, <4>1, <4>2
      <4> QED BY <4>1, <4>3
    <3> HIDE DEF A, B
    <3> QED BY <3>2, <3>3
  <2>4. A \in SUBSET D OBVIOUS
  <2>5. Cardinality(B) = k
    <3> HIDE DEF A, B
    <3> QED BY <1>11, <2>1, <2>3, <2>4
  <2>6. Nth(C, k) = Nth(K, d)
    <3> DEFINE i == Nth(K, d)
    <3>1. i \in C /\ Cardinality({j \in C : j <= i}) = k BY <2>2, <2>5
    <3> HIDE DEF i
    <3>2. Nth(C, k) = i BY <1>1, <3>1, NthIs
    <3> QED BY <3>2 DEF i
  <2> QED BY <2>1, <2>6 DEF d
<1>14. Subsequence(t, D) = Subsequence(s, C)
  <2>1. \A k \in 1..Cardinality(D) : Nth(D, k) \in 1..c BY <1>7, <1>13
  <2>2. \A k \in 1..Cardinality(D) : t[Nth(D, k)] = s[Nth(C, k)] BY <1>3, <1>13, <2>1
  <2> QED BY <1>12, <2>2 DEF Subsequence
<1>15. {k \in DOMAIN t : Nth(K, k) \in C} = D BY <1>3 DEF D
<1> QED BY <1>14, <1>15 DEF t

-----------------------------------------------------------------------------
(* The state of a run as a saga.                                           *)

\* Phase, Ledger and Left of any state of a run.
PhaseOf(m) ==
  CASE m.status \in {"new", "running", "polling"} -> "forward"
    [] m.status = "compensating" -> "rollback"
    [] m.status = "completed" -> "done"
    [] m.status = "failed" -> "aborted"

LedgerIn(s) == Subsequence(s, {k \in DOMAIN s : s[k].compensator})
LedgerOf(m) == LedgerIn(m.completed)

Owed(m) == {k \in Compensable(m) : k - 1 <= m.compensationIndex}

LeftOf(m) == IF m.status = "compensating" THEN Cardinality(Owed(m)) ELSE 0

\* The states m and n are the same saga.
SameSaga(m, n) == PhaseOf(n) = PhaseOf(m) /\ LedgerOf(n) = LedgerOf(m) /\ LeftOf(n) = LeftOf(m)

\* The ways in which the state n may be one step of the saga after m.
Extends(m, n) ==
  /\ PhaseOf(m) = "forward" /\ PhaseOf(n) = "forward"
  /\ \E e \in Completion : /\ LedgerOf(n) = Append(LedgerOf(m), e)
                           /\ \A i \in DOMAIN LedgerOf(m) : LedgerOf(m)[i] # e

Commits(m, n) == PhaseOf(m) = "forward" /\ PhaseOf(n) = "done" /\ LedgerOf(n) = LedgerOf(m)

Aborts(m, n) ==
  /\ PhaseOf(m) = "forward" /\ PhaseOf(n) = "rollback" /\ LedgerOf(n) = LedgerOf(m)
  /\ LeftOf(n) = Len(LedgerOf(m))

Undoes(m, n) ==
  /\ PhaseOf(m) = "rollback" /\ PhaseOf(n) = "rollback" /\ LedgerOf(n) = LedgerOf(m)
  /\ LeftOf(m) > 0 /\ LeftOf(n) = LeftOf(m) - 1

Finishes(m, n) ==
  /\ PhaseOf(m) = "rollback" /\ PhaseOf(n) = "aborted" /\ LedgerOf(n) = LedgerOf(m)
  /\ LeftOf(m) = 0

OneStep(m, n) ==
  SameSaga(m, n) \/ Extends(m, n) \/ Commits(m, n) \/ Aborts(m, n) \/ Undoes(m, n) \/ Finishes(m, n)

\* A call that holds m at the label l is at most one step of the saga ahead of the state
\* k, and none unless it is writing a snapshot.
Leading(k, l, m) == IF l = "snapshot" THEN OneStep(k, m) ELSE SameSaga(k, m)

\* What a call that may write is about to write is one step of the saga after the durable
\* state.
Stepwise ==
  Mode # "none" =>
    \A w \in Worker : proc[w].pc # "idle" /\ Fresh(w) => Leading(store, proc[w].pc, proc[w].mem)

-----------------------------------------------------------------------------
(* The ledger.                                                             *)

\* The phases are the statuses.
LEMMA PhaseIs ==
  ASSUME NEW m \in RunState
  PROVE  /\ PhaseOf(m) = "forward" <=> GoesForward(m)
         /\ PhaseOf(m) = "rollback" <=> m.status = "compensating"
         /\ PhaseOf(m) = "done" <=> m.status = "completed"
         /\ PhaseOf(m) = "aborted" <=> m.status = "failed"
<1>1. m.status \in Status BY DEF RunState
<1> QED BY <1>1 DEF PhaseOf, GoesForward, Status, Terminal

\* The ledger lists entries of the journal.
LEMMA LedgerIs ==
  ASSUME NEW s \in Seq(Completion)
  PROVE  LET C == {k \in DOMAIN s : s[k].compensator} IN
         /\ C \in SUBSET (1..Len(s)) /\ DOMAIN s = 1..Len(s) /\ Len(s) \in Nat
         /\ IsFiniteSet(C) /\ Cardinality(C) \in Nat
         /\ LedgerIn(s) \in Seq(Completion) /\ Len(LedgerIn(s)) = Cardinality(C)
         /\ \A i \in DOMAIN LedgerIn(s) : LedgerIn(s)[i].path \in Paths(s)
<1> DEFINE C == {k \in DOMAIN s : s[k].compensator}
<1>1. C \in SUBSET (1..Len(s)) /\ DOMAIN s = 1..Len(s) /\ Len(s) \in Nat OBVIOUS
<1>2. C \in SUBSET (DOMAIN s) OBVIOUS
<1>3. LedgerIn(s) = Subsequence(s, C) BY DEF LedgerIn
<1> HIDE DEF C
<1>4. IsFiniteSet(C) /\ Cardinality(C) \in Nat BY <1>1, Positions
<1>5. LedgerIn(s) \in Seq(Completion) BY <1>2, <1>3, SubsequenceType
<1>6. DOMAIN LedgerIn(s) = 1..Cardinality(C)
      /\ \A i \in 1..Cardinality(C) : LedgerIn(s)[i] = s[Nth(C, i)]
  BY <1>3 DEF Subsequence
<1>7. Len(LedgerIn(s)) = Cardinality(C) BY <1>4, <1>5, <1>6
<1>8. \A i \in 1..Cardinality(C) : Nth(C, i) \in DOMAIN s BY <1>1, NthMember
<1>9. \A i \in DOMAIN LedgerIn(s) : LedgerIn(s)[i].path \in Paths(s)
  BY <1>6, <1>8 DEF Paths
<1> QED BY <1>1, <1>4, <1>5, <1>7, <1>9 DEF C

\* What is completed enters the ledger if it can be compensated.
LEMMA LedgerExtended ==
  ASSUME NEW s \in Seq(Completion), NEW t, Extended(s, t)
  PROVE  \/ LedgerIn(t) = LedgerIn(s)
         \/ \E e \in Completion : /\ LedgerIn(t) = Append(LedgerIn(s), e)
                                  /\ \A i \in DOMAIN LedgerIn(s) : LedgerIn(s)[i] # e
<1> DEFINE C == {k \in DOMAIN s : s[k].compensator}
           D == {k \in DOMAIN t : t[k].compensator}
           l == Len(s)
<1>1. PICK b \in Path, c \in BOOLEAN :
        t = Append(s, [path |-> b, compensator |-> c]) /\ b \notin Paths(s)
  BY DEF Extended
<1> DEFINE e == [path |-> b, compensator |-> c]
<1>2. e \in Completion /\ e.path = b /\ e.compensator = c BY DEF Completion
<1>3. t = Append(s, e) BY <1>1
<1> HIDE DEF e
<1>4. /\ l \in Nat /\ DOMAIN s = 1..l /\ DOMAIN t = 1..(l + 1) /\ t[l + 1] = e
      /\ \A k \in 1..l : t[k] = s[k] /\ k # l + 1
  BY <1>2, <1>3
<1>5. C \in SUBSET (DOMAIN s) /\ LedgerIn(s) = Subsequence(s, C) /\ LedgerIn(t) = Subsequence(t, D)
  BY DEF LedgerIn
<1>6. \A k \in 1..(l + 1) : k \in 1..l \/ k = l + 1 BY <1>4
<1>7. CASE c
  <2>0. t[l + 1].compensator /\ l + 1 \in DOMAIN t
    <3>1. e.compensator BY <1>2, <1>7
    <3>2. l + 1 \in 1..(l + 1) BY <1>4
    <3> QED BY <1>4, <3>1, <3>2
  <2>1. \A k \in 1..l : k \in DOMAIN s /\ k \in DOMAIN t /\ t[k] = s[k] BY <1>4
  <2>2. D = C \cup {l + 1}
    <3>1. \A k \in D : k \in C \/ k = l + 1 BY <1>4, <1>6, <2>1
    <3>2. \A k \in C : k \in D BY <1>4, <2>1
    <3> QED BY <2>0, <3>1, <3>2
  <2> HIDE DEF C, D
  <2>3. LedgerIn(t) = Append(LedgerIn(s), e) BY <1>2, <1>3, <1>5, <2>2, SubsequenceGrows DEF l
  <2>4. \A i \in DOMAIN LedgerIn(s) : LedgerIn(s)[i] # e BY <1>1, <1>2, LedgerIs
  <2> QED BY <1>2, <2>3, <2>4
<1>8. CASE ~c
  <2>1. \A k : k \in D <=> k \in C BY <1>2, <1>4, <1>6, <1>8
  <2>2. D = C BY <2>1
  <2> HIDE DEF C, D
  <2>3. LedgerIn(t) = LedgerIn(s) BY <1>2, <1>3, <1>5, <2>2, SubsequenceLonger
  <2> QED BY <2>3
<1> QED BY <1>7, <1>8

\* A step in an iteration of a repeat is below the repeat.
LEMMA BelowRepeat ==
  ASSUME NEW a \in Path, Odd(Len(a)), \A d \in DOMAIN a : NodeOf(a, d),
         NEW x \in Path, Odd(Len(x)), Last(x) \in Step, Def[Last(x)].kind = "repeat",
         NEW n \in Nat, Leads(Append(x, n), a)
  PROVE  Last(a) \in Below(Last(x))
<1> DEFINE l == Len(x)
           k == Len(a)
<1>1. /\ l \in Nat /\ k \in Nat /\ DOMAIN a = 1..k /\ l >= 1 /\ Last(x) = x[l] /\ Last(a) = a[k]
      /\ k >= 1
  <2>1. l \in Nat /\ k \in Nat /\ DOMAIN a = 1..k /\ Last(x) = x[l] /\ Last(a) = a[k]
    BY DEF Path, Last
  <2>2. l # 0 /\ k # 0 BY Parity
  <2> QED BY <2>1, <2>2
<1>2. k >= l + 1 /\ a[l] = x[l]
  <2>1. Len(Append(x, n)) = l + 1 /\ \A e \in 1..l : Append(x, n)[e] = x[e] BY DEF Path
  <2>2. l \in 1..l /\ l \in 1..(l + 1) BY <1>1
  <2>3. Len(Append(x, n)) <= k /\ \A e \in 1..Len(Append(x, n)) : Append(x, n)[e] = a[e]
    BY DEF Leads, Agree
  <2> QED BY <1>1, <2>1, <2>2, <2>3
<1>3. k >= l + 2
  <2>1. ~Odd(l + 1) BY <1>1, Parity
  <2>2. k # l + 1 BY <2>1
  <2>3. l \in Nat /\ k \in Nat /\ k >= l + 1 BY <1>1, <1>2
  <2> HIDE DEF l, k
  <2> QED BY <2>2, <2>3
<1>4. \A d \in 1..k : NodeOf(a, d) BY <1>1
<1>5. Odd(l) /\ Odd(k) /\ Def[a[l]].kind = "repeat" /\ a[l] \in Step
      /\ Last(a) = a[k] /\ Last(x) = a[l]
  BY <1>1, <1>2
<1> HIDE DEF l, k
<1>6. ASSUME NEW d \in l..k, Odd(d), d + 2 <= k, a[d] \in Step
      PROVE  a[d + 2] \in Children(a[d]) /\ a[d + 2] \in Step
  <2> DEFINE def == Def[a[d]]
             g == d + 2
  <2>1. /\ d \in Nat /\ d >= 1 /\ g \in 1..k /\ d + 1 \in 1..k /\ g # 1
        /\ g - 2 = d /\ g - 1 = d + 1 /\ (d + 1) - 1 = d
    BY <1>1, <1>3, <1>6
  <2>2. ~Odd(d + 1) /\ Odd(g)
    <3>1. ~Odd(d + 1) BY <1>6, <2>1, Parity
    <3>2. d + 1 \in Nat /\ (d + 1) + 1 = g BY <2>1
    <3>3. Odd((d + 1) + 1) BY <3>1, <3>2, Parity
    <3> QED BY <3>1, <3>2, <3>3
  <2> HIDE DEF g
  <2>3. NodeOf(a, d + 1) /\ NodeOf(a, g) BY <1>4, <2>1
  <2>4. IF def.kind = "repeat" THEN TRUE
        ELSE def.kind = "branch" /\ a[d + 1] \in DOMAIN def.paths
    <3>1. IF Def[a[(d + 1) - 1]].kind = "repeat" THEN TRUE
          ELSE /\ Def[a[(d + 1) - 1]].kind = "branch"
               /\ a[d + 1] \in DOMAIN Def[a[(d + 1) - 1]].paths
      BY <2>2, <2>3 DEF NodeOf
    <3> QED BY <2>1, <3>1
  <2>5. ScopeOf(a, g) = IF def.kind = "branch" THEN def.paths[a[d + 1]] ELSE def.body
    BY <2>1 DEF ScopeOf
  <2>6. PICK j \in DOMAIN ScopeOf(a, g) : ScopeOf(a, g)[j] = a[g] BY <2>2, <2>3 DEF NodeOf
  <2>7. StepOK(def) BY <1>6, DefinitionAssumption
  <2> HIDE DEF def
  <2>8. CASE def.kind = "branch"
    <3>1. ScopeOf(a, g) = def.paths[a[d + 1]] /\ a[d + 1] \in DOMAIN def.paths
      BY <2>4, <2>5, <2>8
    <3>2. def.paths[a[d + 1]] \in Seq(Step) BY <2>7, <3>1 DEF StepOK
    <3>3. a[g] \in Range(def.paths[a[d + 1]]) BY <2>6, <3>1 DEF Range
    <3>4. a[g] \in Step BY <2>6, <3>1, <3>2
    <3>5. a[g] \in Children(a[d]) BY <3>1, <3>3 DEF Children, def
    <3> QED BY <3>4, <3>5 DEF g
  <2>9. CASE def.kind # "branch"
    <3>1. ScopeOf(a, g) = def.body BY <2>5, <2>9
    <3>2. def.body \in Seq(Step) BY <2>7 DEF StepOK
    <3>3. a[g] \in Range(def.body) BY <2>6, <3>1 DEF Range
    <3>4. a[g] \in Step BY <2>6, <3>1, <3>2
    <3>5. a[g] \in Children(a[d]) BY <3>3 DEF Children, def
    <3> QED BY <3>4, <3>5 DEF g
  <2> QED BY <2>8, <2>9
<1>7. ASSUME NEW C, Children(a[l]) \subseteq C, \A u \in C \cap Step : Children(u) \subseteq C
      PROVE  a[k] \in C /\ a[k] \in Step
  <2> DEFINE T == {d \in Nat : Odd(d) /\ l + 2 <= d /\ d <= k /\ ~(a[d] \in C /\ a[d] \in Step)}
  <2>1. SUFFICES ASSUME ~(a[k] \in C /\ a[k] \in Step) PROVE FALSE OBVIOUS
  <2>2. k \in T BY <1>1, <1>3, <1>5, <2>1
  <2>3. PICK d \in T : \A e \in T : d <= e
    <3>1. T \in SUBSET Nat /\ T # {} BY <2>2
    <3> QED BY <3>1, LeastMember
  <2>4. d \in Nat /\ Odd(d) /\ l + 2 <= d /\ d <= k OBVIOUS
  <2>5. d - 2 \in l..k /\ (d - 2) + 2 = d /\ (d - 2) + 2 <= k /\ d - 2 \in Nat BY <1>1, <2>4
  <2>6. Odd(d - 2) BY <2>4, <2>5 DEF Odd
  <2>7. CASE d - 2 = l
    <3>1. a[d] \in Children(a[l]) /\ a[d] \in Step BY <1>5, <1>6, <2>5, <2>6, <2>7
    <3> QED BY <1>7, <3>1
  <2>8. CASE d - 2 # l
    <3>1. l + 2 <= d - 2
      <4>1. d - 2 # l + 1
        <5>1. ~Odd(l + 1) BY <1>1, <1>5, Parity
        <5> QED BY <2>6, <5>1
      <4> QED BY <1>1, <2>5, <2>8, <4>1
    <3>2. d - 2 \notin T BY <2>3, <2>4
    <3>3. a[d - 2] \in C /\ a[d - 2] \in Step BY <1>1, <2>4, <2>5, <2>6, <3>1, <3>2
    <3>4. a[d] \in Children(a[d - 2]) /\ a[d] \in Step BY <1>6, <2>5, <2>6, <3>3
    <3> QED BY <1>7, <3>3, <3>4
  <2> QED BY <2>7, <2>8
<1>8. a[k] \in Step
  <2>1. Children(a[l]) \subseteq UNION {Children(u) : u \in Step} BY <1>5
  <2> DEFINE C == UNION {Children(u) : u \in Step}
  <2>2. \A u \in C \cap Step : Children(u) \subseteq C OBVIOUS
  <2> QED BY <1>7, <2>1, <2>2
<1>9. \A C \in SUBSET Step :
        Children(a[l]) \subseteq C /\ (\A u \in C : Children(u) \subseteq C) => a[k] \in C
  BY <1>7
<1> QED BY <1>5, <1>8, <1>9 DEF Below

\* Compaction takes nothing from the ledger.
LEMMA LedgerTrimmed ==
  ASSUME NEW s \in Seq(Completion), NEW t, InOrder(s), Trimmed(s, t)
  PROVE  t \in Seq(Completion) /\ LedgerIn(t) = LedgerIn(s)
<1>1. CASE t = s BY <1>1
<1>2. ASSUME NEW x \in Path, NEW n \in Nat, Odd(Len(x)), Last(x) \in Step,
             Def[Last(x)].kind = "repeat", Def[Last(x)].compact,
             t = Subsequence(s, {k \in DOMAIN s : ~IsPrefix(Append(x, n), s[k].path)})
      PROVE  t \in Seq(Completion) /\ LedgerIn(t) = LedgerIn(s)
  <2> DEFINE y == Append(x, n)
             K == {k \in DOMAIN s : ~IsPrefix(y, s[k].path)}
             C == {k \in DOMAIN s : s[k].compensator}
             D == {k \in DOMAIN t : t[k].compensator}
  <2>1. DOMAIN s = 1..Len(s) /\ Len(s) \in Nat /\ K \in SUBSET (DOMAIN s) /\ C \in SUBSET (DOMAIN s)
    OBVIOUS
  <2>2. y \in Path BY AppendKey
  <2>3. C \in SUBSET K
    <3> SUFFICES ASSUME NEW k \in C, IsPrefix(y, s[k].path) PROVE FALSE OBVIOUS
    <3>0. s[k] \in Completion /\ s[k].compensator OBVIOUS
    <3>1. s[k].path \in Path /\ s[k].compensator BY <3>0 DEF Completion
    <3>2. Leads(y, s[k].path) BY <2>2, <3>1, PrefixLeads
    <3>3. /\ Odd(Len(s[k].path)) /\ \A d \in DOMAIN s[k].path : NodeOf(s[k].path, d)
          /\ Def[Last(s[k].path)].compensate
      BY <3>1 DEF InOrder, Genuine
    <3>4. Last(s[k].path) \in Below(Last(x)) BY <1>2, <3>1, <3>2, <3>3, BelowRepeat
    <3>5. CompactOK(Last(x)) BY <1>2, DefinitionAssumption
    <3> QED BY <1>2, <3>3, <3>4, <3>5 DEF CompactOK
  <2>4. t = Subsequence(s, K) BY <1>2
  <2>5. \A k \in DOMAIN s : k \in C <=> s[k].compensator OBVIOUS
  <2>6. LedgerIn(s) = Subsequence(s, C) /\ LedgerIn(t) = Subsequence(t, D) BY DEF LedgerIn
  <2> HIDE DEF C, K, y
  <2>7. t \in Seq(Completion) BY <2>1, <2>4, SubsequenceType
  <2>8. DOMAIN t = 1..Cardinality(K) /\ \A k \in DOMAIN t : t[k] = s[Nth(K, k)]
    BY <2>4 DEF Subsequence
  <2>9. \A k \in DOMAIN t : Nth(K, k) \in DOMAIN s BY <2>1, <2>8, NthMember
  <2>10. D = {k \in DOMAIN t : Nth(K, k) \in C} BY <2>5, <2>8, <2>9
  <2>11. Subsequence(t, {k \in DOMAIN t : Nth(K, k) \in C}) = Subsequence(s, C)
    BY <2>1, <2>3, <2>4, SubsequenceWithin
  <2> QED BY <2>6, <2>7, <2>10, <2>11
<1> QED BY <1>1, <1>2 DEF Trimmed

-----------------------------------------------------------------------------
(* The steps of a call as steps of the saga.                               *)

\* n has the status, the journal and the compensation index of m.
Still(m, n) ==
  n.status = m.status /\ n.completed = m.completed /\ n.compensationIndex = m.compensationIndex

\* Nothing else matters to the saga.
LEMMA StillIs ==
  ASSUME NEW m, NEW n, Still(m, n)
  PROVE  SameSaga(m, n)
BY DEF Still, SameSaga, PhaseOf, LedgerOf, LeftOf, Owed, Compensable

\* The compensable completions, and those that are owed, are positions of the journal.
LEMMA OwedIs ==
  ASSUME NEW m \in RunState
  PROVE  /\ m.completed \in Seq(Completion) /\ DOMAIN m.completed = 1..Len(m.completed)
         /\ Len(m.completed) \in Nat /\ m.compensationIndex \in Int
         /\ Compensable(m) \in SUBSET (1..Len(m.completed)) /\ Owed(m) \subseteq Compensable(m)
         /\ IsFiniteSet(Owed(m)) /\ Cardinality(Owed(m)) \in Nat
         /\ Len(LedgerOf(m)) = Cardinality(Compensable(m))
<1>1. m.completed \in Seq(Completion) /\ m.compensationIndex \in Int BY DEF RunState
<1>2. DOMAIN m.completed = 1..Len(m.completed) /\ Len(m.completed) \in Nat BY <1>1
<1>3. Compensable(m) \in SUBSET (1..Len(m.completed)) BY <1>2 DEF Compensable
<1>4. Owed(m) \subseteq Compensable(m) BY DEF Owed
<1>5. Owed(m) \in SUBSET (1..Len(m.completed)) BY <1>3, <1>4
<1>6. IsFiniteSet(Owed(m)) /\ Cardinality(Owed(m)) \in Nat BY <1>2, <1>5, Positions
<1>7. Len(LedgerOf(m)) = Cardinality(Compensable(m)) BY <1>1, LedgerIs DEF LedgerOf, Compensable
<1> QED BY <1>1, <1>2, <1>3, <1>4, <1>6, <1>7

\* A failure begins the rollback at the end of the journal.
LEMMA FailureAborts ==
  ASSUME NEW m \in RunState, NEW n \in RunState, GoesForward(m), n.status = "compensating",
         n.completed = m.completed, n.compensationIndex = Len(m.completed) - 1
  PROVE  Aborts(m, n)
<1>1. PhaseOf(m) = "forward" /\ PhaseOf(n) = "rollback" BY PhaseIs
<1>2. LedgerOf(n) = LedgerOf(m) /\ Compensable(n) = Compensable(m) BY DEF LedgerOf, Compensable
<1>3. /\ Compensable(m) \in SUBSET (1..Len(m.completed)) /\ Len(m.completed) \in Nat
      /\ Len(LedgerOf(m)) = Cardinality(Compensable(m))
  BY OwedIs
<1>4. \A k \in 1..Len(m.completed) : k - 1 <= n.compensationIndex BY <1>3
<1>5. Owed(n) = Compensable(m) BY <1>2, <1>3, <1>4 DEF Owed
<1> QED BY <1>1, <1>2, <1>3, <1>5 DEF Aborts, LeftOf

\* One step further down the journal.
LEMMA OwedBelow ==
  ASSUME NEW m \in RunState, NEW n, n.completed = m.completed,
         n.compensationIndex = m.compensationIndex - 1,
         m.compensationIndex + 1 \in DOMAIN m.completed
  PROVE  LET k == m.compensationIndex + 1 IN
         /\ Owed(n) = Owed(m) \ {k}
         /\ k \in Owed(m) <=> Due(m).compensator
<1> DEFINE k == m.compensationIndex + 1
<1>1. /\ m.compensationIndex \in Int
      /\ \A j \in Compensable(m) : j \in Int
  BY OwedIs
<1>2. Compensable(n) = Compensable(m) BY DEF Compensable
<1>3. /\ k - 1 <= m.compensationIndex
      /\ \A j \in Int : j - 1 <= m.compensationIndex - 1
                          <=> j - 1 <= m.compensationIndex /\ j # k
  BY <1>1
<1>4. Owed(n) = Owed(m) \ {k} BY <1>1, <1>2, <1>3 DEF Owed
<1>5. k \in Compensable(m) <=> Due(m).compensator BY DEF Compensable, Due
<1> QED BY <1>3, <1>4, <1>5 DEF Owed

\* A completion without a compensator is passed by.
LEMMA SkipIsSame ==
  ASSUME NEW m \in RunState, NEW n, n.status = m.status, n.completed = m.completed,
         n.compensationIndex = m.compensationIndex - 1,
         m.compensationIndex + 1 \in DOMAIN m.completed, ~Due(m).compensator
  PROVE  SameSaga(m, n)
<1>1. Owed(n) = Owed(m) BY OwedBelow
<1> QED BY <1>1 DEF SameSaga, PhaseOf, LedgerOf, LeftOf

\* A completion with a compensator is undone.
LEMMA CompensationUndoes ==
  ASSUME NEW m \in RunState, NEW n \in RunState,
         m.status = "compensating", n.status = "compensating",
         n.completed = m.completed, n.compensationIndex = m.compensationIndex - 1,
         m.compensationIndex + 1 \in DOMAIN m.completed, Due(m).compensator
  PROVE  Undoes(m, n)
<1> DEFINE k == m.compensationIndex + 1
<1>1. k \in Owed(m) /\ Owed(n) = Owed(m) \ {k} BY OwedBelow
<1>2. IsFiniteSet(Owed(m)) /\ Cardinality(Owed(m)) \in Nat BY OwedIs
<1>3. Cardinality(Owed(n)) = Cardinality(Owed(m)) - 1
  <2> DEFINE A == Owed(m)
             B == Owed(n)
  <2>1. IsFiniteSet(A) /\ k \in A /\ B = A \ {k} BY <1>1, <1>2
  <2> HIDE DEF k, A, B
  <2>2. Cardinality(B) = Cardinality(A) - 1 BY <2>1, FS_RemoveElement
  <2> QED BY <2>2 DEF A, B
<1> HIDE DEF k
<1>4. Cardinality(Owed(m)) > 0
  <2>1. Owed(m) # {} BY <1>1
  <2>2. Cardinality(Owed(m)) # 0 BY <1>2, <2>1, FS_EmptySet
  <2> QED BY <1>2, <2>2
<1>5. LeftOf(m) = Cardinality(Owed(m)) /\ LeftOf(n) = Cardinality(Owed(n)) BY DEF LeftOf
<1>6. PhaseOf(m) = "rollback" /\ PhaseOf(n) = "rollback" BY PhaseIs
<1>7. LedgerOf(n) = LedgerOf(m) BY DEF LedgerOf
<1> QED BY <1>3, <1>4, <1>5, <1>6, <1>7 DEF Undoes

\* Below the beginning of the journal nothing is owed.
LEMMA RollbackFinishes ==
  ASSUME NEW m \in RunState, NEW n \in RunState,
         m.status = "compensating", n.status = "failed", n.completed = m.completed,
         m.compensationIndex < 0
  PROVE  Finishes(m, n)
<1>1. \A k \in Compensable(m) : k >= 1 /\ k \in Int BY OwedIs
<1>2. m.compensationIndex \in Int BY OwedIs
<1>3. Owed(m) = {} BY <1>1, <1>2 DEF Owed
<1>4. LeftOf(m) = 0 BY <1>3, FS_EmptySet DEF LeftOf
<1>5. PhaseOf(m) = "rollback" /\ PhaseOf(n) = "aborted" BY PhaseIs
<1>6. LedgerOf(n) = LedgerOf(m) BY DEF LedgerOf
<1> QED BY <1>4, <1>5, <1>6 DEF Finishes

\* A run that goes forward is the same saga if its ledger is.
LEMMA ForwardSame ==
  ASSUME NEW m \in RunState, NEW n \in RunState, GoesForward(m), GoesForward(n)
  PROVE  /\ LedgerOf(n) = LedgerOf(m) => SameSaga(m, n)
         /\ (\E e \in Completion : /\ LedgerOf(n) = Append(LedgerOf(m), e)
                                   /\ \A i \in DOMAIN LedgerOf(m) : LedgerOf(m)[i] # e)
              => Extends(m, n)
<1>1. PhaseOf(m) = "forward" /\ PhaseOf(n) = "forward" BY PhaseIs
<1>2. LeftOf(m) = 0 /\ LeftOf(n) = 0 BY DEF LeftOf, GoesForward
<1> QED BY <1>1, <1>2 DEF SameSaga, Extends

\* A call that holds what q holds may go on as n.
SagaMove(q, n) == n.pc = "idle" \/ Leading(q.mem, n.pc, n.mem)

\* The same saga is at most one step of the saga away.
LEMMA SameMoves ==
  ASSUME NEW q, NEW n, SameSaga(q.mem, n.mem)
  PROVE  SagaMove(q, n)
BY DEF SagaMove, Leading, OneStep

\* A step along the forward path, after which the journal is t: a completion if it
\* grows, and no step of the saga otherwise.
LEMMA AheadSaga ==
  ASSUME NEW q \in Call, NEW n \in Call, Ahead(q, n), q.mem.status = "running",
         LET s == q.mem.completed
             t == n.mem.completed
         IN \/ t = s
            \/ InOrder(s) /\ Trimmed(s, t)
            \/ Extended(s, t) /\ n.pc = "snapshot"
            \/ \E u \in Seq(Completion) :
                 InOrder(s) /\ Trimmed(s, u) /\ Extended(u, t) /\ n.pc = "snapshot"
  PROVE  SagaMove(q, n)
<1> DEFINE m == q.mem
           r == n.mem
           s == m.completed
           t == r.completed
<1>1. m \in RunState /\ r \in RunState /\ s \in Seq(Completion) BY MemType DEF RunState, Call
<1>2. m.status = "running" OBVIOUS
<1>3. \/ r.status \in {"running", "polling"}
      \/ r.status = "completed" /\ n.pc = "snapshot" /\ t = s
  BY DEF Ahead
<1>4. \/ t = s
      \/ InOrder(s) /\ Trimmed(s, t)
      \/ Extended(s, t) /\ n.pc = "snapshot"
      \/ \E u \in Seq(Completion) :
           InOrder(s) /\ Trimmed(s, u) /\ Extended(u, t) /\ n.pc = "snapshot"
  OBVIOUS
<1>5. SagaMove(q, n) <=> n.pc = "idle" \/ Leading(m, n.pc, r) BY DEF SagaMove
<1>6. LedgerOf(m) = LedgerIn(s) /\ LedgerOf(r) = LedgerIn(t) BY DEF LedgerOf
<1> HIDE DEF m, r
<1>7. GoesForward(m) BY <1>2 DEF GoesForward
<1>8. CASE r.status = "completed" /\ n.pc = "snapshot" /\ t = s
  <2>1. PhaseOf(m) = "forward" /\ PhaseOf(r) = "done" BY <1>1, <1>7, <1>8, PhaseIs
  <2>2. Commits(m, r) BY <1>6, <1>8, <2>1 DEF Commits
  <2> QED BY <1>5, <1>8, <2>2 DEF Leading, OneStep
<1>9. CASE r.status \in {"running", "polling"}
  <2>1. GoesForward(r) BY <1>9 DEF GoesForward
  <2>2. ASSUME LedgerIn(t) = LedgerIn(s) PROVE SagaMove(q, n)
    <3>1. SameSaga(m, r) BY <1>1, <1>6, <1>7, <2>1, <2>2, ForwardSame
    <3> QED BY <1>5, <3>1 DEF Leading, OneStep
  <2>3. ASSUME NEW u \in Seq(Completion), LedgerIn(u) = LedgerIn(s), Extended(u, t),
               n.pc = "snapshot"
        PROVE  SagaMove(q, n)
    <3>1. \/ LedgerIn(t) = LedgerIn(u)
          \/ \E e \in Completion : /\ LedgerIn(t) = Append(LedgerIn(u), e)
                                   /\ \A i \in DOMAIN LedgerIn(u) : LedgerIn(u)[i] # e
      BY <2>3, LedgerExtended
    <3>2. CASE LedgerIn(t) = LedgerIn(u) BY <2>2, <2>3, <3>2
    <3>3. CASE \E e \in Completion : /\ LedgerIn(t) = Append(LedgerIn(u), e)
                                     /\ \A i \in DOMAIN LedgerIn(u) : LedgerIn(u)[i] # e
      <4>1. Extends(m, r) BY <1>1, <1>6, <1>7, <2>1, <2>3, <3>3, ForwardSame
      <4> QED BY <1>5, <2>3, <4>1 DEF Leading, OneStep
    <3> QED BY <3>1, <3>2, <3>3
  <2>4. \A u : InOrder(s) /\ Trimmed(s, u) => LedgerIn(u) = LedgerIn(s) BY <1>1, LedgerTrimmed
  <2> QED BY <1>1, <1>4, <2>2, <2>3, <2>4
<1> QED BY <1>3, <1>8, <1>9

\* A step along the forward path is a step of the saga, or none.
LEMMA ForwardSaga ==
  ASSUME TypeOK, TypeOK', NEW w \in Worker, Placed(proc[w]), InOrder(proc[w].mem.completed),
         \/ SkipCompleted(w) \/ StopCancelled(w) \/ EnterStep(w) \/ ScopeDone(w)
         \/ EnsureRepeatStarted(w) \/ CheckRepeatTimeout(w)
         \/ \E o \in Outcome : OnEnter(w, o)
         \/ \E o \in Outcome : Do(w, o)
         \/ Sleep(w) \/ PollTimeout(w)
         \/ \E o \in Outcome \cup {"pending"} : Check(w, o)
         \/ ResumeBranch(w)
         \/ \E key \in Key : Decide(w, key)
         \/ \E o \in Outcome : DecideFailed(w, o)
         \/ BeginIteration(w) \/ UntilTimeout(w)
         \/ \E o \in Outcome \cup {"more"} : Until(w, o)
  PROVE  SagaMove(proc[w], proc'[w])
<1> DEFINE q == proc[w]
           n == proc'[w]
           s == q.mem.completed
           t == n.mem.completed
<1>1. q \in Call /\ n \in Call BY DEF TypeOK
<1>2. Ahead(q, n) BY StepsAhead, PrologueAhead, ActionAhead, PollAhead, BranchAhead, RepeatAhead
<1>3. q.mem.status = "running"
  <2>1. q.pc \in Forward BY <1>2 DEF Ahead
  <2>2. Heading(q) \in Forward BY <2>1 DEF Heading, Forward
  <2> QED BY <2>2 DEF Placed, Going
<1>4. \/ t = s
      \/ InOrder(s) /\ Trimmed(s, t)
      \/ Extended(s, t) /\ n.pc = "snapshot"
      \/ \E u \in Seq(Completion) :
           InOrder(s) /\ Trimmed(s, u) /\ Extended(u, t) /\ n.pc = "snapshot"
  <2>1. CASE \/ \E o \in Outcome : Do(w, o)
             \/ \E o \in Outcome \cup {"pending"} : Check(w, o)
             \/ \E key \in Key : Decide(w, key)
    BY <2>1, JournalGrows
  <2>2. ASSUME NEW o \in Outcome \cup {"more"}, Until(w, o) PROVE <1>4!:
    BY <2>2, UntilJournal
  <2>3. CASE \/ SkipCompleted(w) \/ StopCancelled(w) \/ EnterStep(w) \/ ScopeDone(w)
             \/ EnsureRepeatStarted(w) \/ CheckRepeatTimeout(w)
             \/ \E o \in Outcome : OnEnter(w, o)
             \/ Sleep(w) \/ PollTimeout(w) \/ ResumeBranch(w)
             \/ \E o \in Outcome : DecideFailed(w, o)
             \/ BeginIteration(w) \/ UntilTimeout(w)
    BY <2>3, JournalKept
  <2> QED BY <2>1, <2>2, <2>3
<1> HIDE DEF q, n
<1>5. SagaMove(q, n) BY <1>1, <1>2, <1>3, <1>4, AheadSaga
<1> QED BY <1>5 DEF q, n

\* The beginning of a call is no step of the saga.
LEMMA StartSaga ==
  ASSUME TypeOK, NEW w \in Worker, Placed(proc[w]), Start(w)
  PROVE  SagaMove(proc[w], proc'[w])
<1> DEFINE q == proc[w]
           m == [q.mem EXCEPT !.status = "running"]
<1>1. q \in Call /\ q.mem \in RunState /\ proc \in [Worker -> Call]
  BY MemType DEF TypeOK
<1>2. ~IsTerminal(q.mem) BY DEF Placed, Heading, Start
<1>3. \/ proc'[w] = [q EXCEPT !.pc = "return"]
      \/ proc'[w] = Persist(q, q.mem, "compensate")
      \/ q.mem.status # "compensating" /\ \E frame : proc'[w] = PersistThen(Push(q, frame), m)
  BY <1>1 DEF Start, Local, Set
<1>4. m \in RunState /\ m.status = "running" /\ m.completed = q.mem.completed
  BY <1>1 DEF RunState, Status
<1> HIDE DEF m
<1>5. \A frame : PersistThen(Push(q, frame), m).mem = m
  BY <1>1 DEF PersistThen, Push, Call
<1>6. CASE proc'[w].mem = q.mem BY <1>6, StillIs, SameMoves DEF Still
<1>7. CASE q.mem.status # "compensating" /\ proc'[w].mem = m
  <2>1. GoesForward(q.mem) /\ GoesForward(m)
    <3>1. q.mem.status \in Status BY <1>1 DEF RunState
    <3> QED BY <1>2, <1>4, <1>7, <3>1 DEF GoesForward, Status, IsTerminal
  <2>2. LedgerOf(m) = LedgerOf(q.mem) BY <1>4 DEF LedgerOf
  <2>3. SameSaga(q.mem, m) BY <1>1, <1>4, <2>1, <2>2, ForwardSame
  <2> QED BY <1>7, <2>3, SameMoves
<1>8. [q EXCEPT !.pc = "return"].mem = q.mem /\ Persist(q, q.mem, "compensate").mem = q.mem
  BY <1>1, GotoIs, PersistIs
<1> QED BY <1>3, <1>5, <1>6, <1>7, <1>8

\* The error path is no step of the saga, except that it begins the rollback.
LEMMA RaiseSaga ==
  ASSUME TypeOK, TypeOK', NEW w \in Worker,
         RaiseCancelled(w) \/ Propagate(w) \/ RaiseNoCompensate(w) \/ RaiseFailure(w)
  PROVE  SagaMove(proc[w], proc'[w])
<1> DEFINE q == proc[w]
           n == proc'[w]
<1>1. /\ q \in Call /\ q.mem \in RunState /\ proc \in [Worker -> Call]
      /\ n \in Call /\ n.mem \in RunState
  BY MemType DEF TypeOK
<1>2. CASE RaiseCancelled(w) \/ Propagate(w) \/ RaiseNoCompensate(w)
  <2>1. CASE RaiseCancelled(w)
    <3>1. Still(q.mem, n.mem)
      BY <1>1, <2>1 DEF RaiseCancelled, Local, Set, Unwind, Call, RunState, Still
    <3> QED BY <3>1, StillIs, SameMoves
  <2>2. CASE Propagate(w)
    <3>1. Still(q.mem, n.mem) BY <1>1, <2>2 DEF Propagate, Local, Set, Unwind, Call, Still
    <3> QED BY <3>1, StillIs, SameMoves
  <2>3. CASE RaiseNoCompensate(w)
    <3>1. Still(q.mem, n.mem)
      BY <1>1, <2>3 DEF RaiseNoCompensate, Local, Set, Unwind, PersistThen, Call, RunState, Still
    <3> QED BY <3>1, StillIs, SameMoves
  <2> QED BY <1>2, <2>1, <2>2, <2>3
<1>3. CASE RaiseFailure(w)
  <2>1. q.mem.status = "running" BY <1>3 DEF RaiseFailure, HandledBelow
  <2>2. /\ n.pc = "snapshot" /\ n.mem.status = "compensating"
        /\ n.mem.completed = q.mem.completed
        /\ n.mem.compensationIndex = Len(q.mem.completed) - 1
    BY <1>1, <1>3 DEF RaiseFailure, Local, Set, Persist, Call, RunState
  <2>3. GoesForward(q.mem) BY <2>1 DEF GoesForward
  <2> DEFINE m == q.mem
             r == n.mem
  <2>4. SagaMove(q, n) <=> n.pc = "idle" \/ Leading(m, n.pc, r) BY DEF SagaMove
  <2>5. m \in RunState /\ r \in RunState /\ GoesForward(m) /\ r.status = "compensating"
        /\ r.completed = m.completed /\ r.compensationIndex = Len(m.completed) - 1
    BY <1>1, <2>2, <2>3
  <2> HIDE DEF m, r
  <2>6. Aborts(m, r) BY <2>5, FailureAborts
  <2> QED BY <2>2, <2>4, <2>6 DEF Leading, OneStep
<1> QED BY <1>2, <1>3

\* A compensation undoes one completion, or ends the rollback, or is no step of the saga.
LEMMA CompensationSaga ==
  ASSUME TypeOK, TypeOK', NEW w \in Worker, OnItsWay(proc[w]),
         \/ SkipCompensation(w) \/ CompensationCancelled(w) \/ CompensationDone(w)
         \/ \E o \in {"ok", "error", "retryafter", "context"} : Compensate(w, o)
  PROVE  SagaMove(proc[w], proc'[w])
<1> DEFINE q == proc[w]
           n == proc'[w]
           m == q.mem
           r == n.mem
<1>1. /\ q \in Call /\ m \in RunState /\ proc \in [Worker -> Call]
      /\ n \in Call /\ r \in RunState
  BY MemType DEF TypeOK
<1>2. m.status = "compensating"
  <2>1. q.pc = "compensate"
    BY DEF SkipCompensation, CompensationCancelled, CompensationDone, Compensate, AtCompletion
  <2> QED BY <2>1 DEF OnItsWay, Goes
<1>3. CASE SkipCompensation(w)
  <2>1. /\ r.status = m.status /\ r.completed = m.completed
        /\ r.compensationIndex = m.compensationIndex - 1
    BY <1>1, <1>3 DEF SkipCompensation, Local, Set, Call, RunState
  <2>2. m.compensationIndex + 1 \in DOMAIN m.completed /\ ~Due(m).compensator
    BY <1>3 DEF SkipCompensation, AtCompletion
  <2> HIDE DEF m, r
  <2>3. SameSaga(m, r) BY <1>1, <2>1, <2>2, SkipIsSame
  <2> QED BY <2>3, SameMoves DEF m, r
<1>4. CASE CompensationDone(w)
  <2>1. n.pc = "snapshot" /\ r.status = "failed" /\ r.completed = m.completed
    BY <1>1, <1>4 DEF CompensationDone, Local, Set, Persist, Call, RunState
  <2>2. m.compensationIndex < 0 BY <1>4 DEF CompensationDone
  <2>3. SagaMove(q, n) <=> n.pc = "idle" \/ Leading(m, n.pc, r) BY DEF SagaMove
  <2> HIDE DEF m, r
  <2>4. Finishes(m, r) BY <1>1, <1>2, <2>1, <2>2, RollbackFinishes
  <2> QED BY <2>1, <2>3, <2>4 DEF Leading, OneStep
<1>5. CASE Still(m, r) BY <1>5, StillIs, SameMoves
<1>6. CASE CompensationCancelled(w)
  <2>1. Still(m, r) BY <1>1, <1>6 DEF CompensationCancelled, Local, Set, Unwind, Call, Still
  <2> QED BY <1>5, <2>1
<1>7. ASSUME NEW o \in {"ok", "error", "retryafter", "context"}, Compensate(w, o)
      PROVE  SagaMove(q, n)
  <2> DEFINE down == [m EXCEPT !.compensationIndex = @ - 1]
             back == Unwind([q EXCEPT !.err = [kind |-> "compensation", path |-> <<>>]])
             away == Unwind([q EXCEPT !.cancelled = TRUE,
                                      !.err = [kind |-> "context", path |-> <<>>]])
  <2>1. \/ n = Persist(q, down, "compensate")
        \/ n = Persist(q, m, "return")
        \/ n = PersistThen(back, m)
        \/ n = away
    BY <1>1, <1>7 DEF Compensate, Set
  <2>2. m.compensationIndex + 1 \in DOMAIN m.completed /\ Due(m).compensator
    BY <1>7 DEF Compensate, AtCompletion
  <2>3. back \in Call
    <3> DEFINE p == [q EXCEPT !.err = [kind |-> "compensation", path |-> <<>>]]
    <3>1. p \in Call BY <1>1, ContextType
    <3> HIDE DEF p
    <3>2. Unwind(p) \in Call BY <3>1, UnwindType
    <3> QED BY <3>2 DEF p
  <2>4. away.mem = m
    <3> DEFINE p == [q EXCEPT !.cancelled = TRUE, !.err = [kind |-> "context", path |-> <<>>]]
    <3>1. p \in Call /\ p.mem = m BY <1>1, ContextType DEF Call
    <3> HIDE DEF p, m
    <3>2. Unwind(p).mem = m BY <3>1, UnwindIs
    <3> QED BY <3>2 DEF p
  <2>5. /\ down.status = m.status /\ down.completed = m.completed
        /\ down.compensationIndex = m.compensationIndex - 1
    BY <1>1 DEF RunState
  <2> HIDE DEF back, away, down
  <2>6. CASE n = Persist(q, down, "compensate")
    <3>1. n.pc = "snapshot" /\ r = down BY <1>1, <2>6, PersistIs
    <3>2. SagaMove(q, n) <=> n.pc = "idle" \/ Leading(m, n.pc, r) BY DEF SagaMove
    <3> HIDE DEF m, r
    <3>3. Undoes(m, r) BY <1>1, <1>2, <2>2, <2>5, <3>1, CompensationUndoes
    <3> QED BY <3>1, <3>2, <3>3 DEF Leading, OneStep
  <2>7. Persist(q, m, "return").mem = m /\ PersistThen(back, m).mem = m
    BY <1>1, <2>3, PersistIs, PersistThenIs
  <2>8. CASE r = m BY <1>5, <2>8 DEF Still
  <2> QED BY <2>1, <2>4, <2>6, <2>7, <2>8
<1> QED BY <1>3, <1>4, <1>6, <1>7

-----------------------------------------------------------------------------
(* The durable state implements the saga.                                  *)

\* The same saga, then one step, is one step.
LEMMA SagaSteps ==
  ASSUME NEW a, NEW b, NEW c, SameSaga(a, b)
  PROVE  /\ SameSaga(b, c) => SameSaga(a, c)
         /\ OneStep(b, c) => OneStep(a, c)
BY DEF SameSaga, OneStep, Extends, Commits, Aborts, Undoes, Finishes

\* A step of one call that writes nothing.
LEMMA MoveKeepsStepwise ==
  ASSUME Stepwise, NEW w \in Worker, proc[w].pc \notin {"idle", "snapshot"}, store' = store,
         \A v \in Worker \ {w} : proc'[v] = proc[v],
         SagaMove(proc[w], proc'[w]),
         proc'[w].pc # "idle" => proc'[w].mem.revision = proc[w].mem.revision
  PROVE  Stepwise'
<1> SUFFICES ASSUME Mode # "none", NEW v \in Worker, proc'[v].pc # "idle", Fresh(v)'
             PROVE  Leading(store', proc'[v].pc, proc'[v].mem)
  BY DEF Stepwise
<1>1. CASE v # w
  <2>1. proc'[v] = proc[v] BY <1>1
  <2>2. Fresh(v) BY <2>1 DEF Fresh
  <2> QED BY <2>1, <2>2 DEF Stepwise
<1>2. CASE v = w
  <2>1. Fresh(w) BY <1>2 DEF Fresh
  <2>2. SameSaga(store, proc[w].mem) BY <2>1 DEF Stepwise, Leading
  <2>3. Leading(proc[w].mem, proc'[w].pc, proc'[w].mem) BY <1>2 DEF SagaMove
  <2> QED BY <1>2, <2>2, <2>3, SagaSteps DEF Leading
<1> QED BY <1>1, <1>2

\* A write leaves behind only calls whose writes will fail.
LEMMA WriteKeepsStepwise ==
  ASSUME Guarded, ~CallerSaves, TypeOK, TypeOK', Lineage, Stepwise, NEW w \in Worker,
         \A v \in Worker \ {w} : proc'[v] = proc[v],
         Mode = "cas" => store.revision < store'.revision,
         proc'[w].pc = "idle" \/ proc'[w].mem = store'
  PROVE  Stepwise'
<1> SUFFICES ASSUME Mode # "none", NEW v \in Worker, proc'[v].pc # "idle", Fresh(v)'
             PROVE  Leading(store', proc'[v].pc, proc'[v].mem)
  BY DEF Stepwise
<1>1. CASE v # w
  <2>1. proc'[v] = proc[v] /\ ~Alone /\ Mode = "cas" BY <1>1 DEF Guarded, Alone
  <2>2. proc[v].mem.revision <= store.revision BY <2>1 DEF Lineage
  <2>3. /\ store.revision \in Nat /\ store'.revision \in Nat /\ proc[v].mem.revision \in Nat
    BY DEF TypeOK, RunState, Call
  <2>4. proc'[v].mem.revision = store'.revision BY <2>1 DEF Fresh, Alone
  <2> QED BY <2>1, <2>2, <2>3, <2>4
<1>2. CASE v = w
  <2>1. SameSaga(store', proc'[w].mem) BY <1>2 DEF SameSaga
  <2> QED BY <1>2, <2>1 DEF Leading, OneStep
<1> QED BY <1>1, <1>2

\* The revision of a call is what it loaded, until it writes.
LEMMA RevisionKept ==
  ASSUME TypeOK, Lineage, NEW w \in Worker, Moves(proc[w], proc'[w])
  PROVE  /\ proc[w].pc # "idle"
         /\ proc'[w].pc # "idle" => proc'[w].mem.revision = proc[w].mem.revision
BY DEF Moves, Lineage

\* Stepwise is inductive.
LEMMA StepKeepsStepwise ==
  ASSUME Guarded, ~CallerSaves, TypeOK, Position, Lineage, Orderly, Stepwise, [Next]_vars
  PROVE  Stepwise'
<1>1. TypeOK' BY StepPreservesType
<1>2. proc \in [Worker -> Call] /\ \A w \in Worker : proc[w].mem \in RunState
  BY DEF TypeOK, Call
<1>3. ASSUME NEW w \in Worker, Moves(proc[w], proc'[w]), SagaMove(proc[w], proc'[w]),
             store' = store, \E n : Set(w, n), proc[w].pc # "snapshot"
      PROVE  Stepwise'
  <2>1. \A v \in Worker \ {w} : proc'[v] = proc[v] BY <1>2, <1>3 DEF Set
  <2> QED BY <2>1, <1>3, RevisionKept, MoveKeepsStepwise
<1>4. ASSUME NEW w \in Worker, Ahead(proc[w], proc'[w]), SagaMove(proc[w], proc'[w]),
             store' = store, \E n : Set(w, n)
      PROVE  Stepwise'
  <2>1. proc[w].pc # "snapshot" BY <1>4 DEF Ahead, Forward
  <2> QED BY <1>3, <1>4, <2>1, AheadMoves
<1>5. ASSUME NEW w \in Worker, proc'[w].pc = "idle", store' = store, \E n : Set(w, n)
      PROVE  Stepwise'
  <2>1. \A v \in Worker \ {w} : proc'[v] = proc[v] BY <1>2, <1>5 DEF Set
  <2>2. ASSUME NEW v \in Worker, proc'[v].pc # "idle", Fresh(v)'
        PROVE  proc'[v] = proc[v] /\ Fresh(v)
    BY <1>5, <2>1, <2>2 DEF Fresh
  <2> QED BY <1>5, <2>2 DEF Stepwise
<1>6. \A w \in Worker : Placed(proc[w]) /\ InOrder(proc[w].mem.completed)
  BY DEF Position, Orderly
<1>7. NoCall.pc = "idle" BY DEF NoCall
<1>8. ASSUME NEW w \in Worker, SnapshotOK(w) \/ SnapshotAckLost(w) PROVE Stepwise'
  <2> DEFINE m == Written(proc[w].mem)
  <2>1. CASE Mode = "none" BY <2>1 DEF Stepwise
  <2>2. CASE Mode # "none"
    <3>1. /\ store' = m /\ Accepts(proc[w].mem)
          /\ \/ proc'[w] = [proc[w] EXCEPT !.pc = proc[w].next, !.mem = m]
             \/ proc'[w] = NoCall
          /\ \E n : Set(w, n)
      BY <1>2, <1>8, <2>2 DEF SnapshotOK, SnapshotAckLost, Set
    <3>2. m.revision = proc[w].mem.revision + 1 /\ proc[w].mem.revision \in Nat
      BY <1>2 DEF Written, RunState
    <3> HIDE DEF m
    <3>3. proc'[w].pc = "idle" \/ proc'[w].mem = m BY <1>2, <1>7, <3>1 DEF Call
    <3>4. Mode = "cas" => store.revision < store'.revision BY <3>1, <3>2 DEF Accepts
    <3>5. \A v \in Worker \ {w} : proc'[v] = proc[v] BY <1>2, <3>1 DEF Set
    <3> QED BY <1>1, <3>1, <3>3, <3>4, <3>5, WriteKeepsStepwise
  <2> QED BY <2>1, <2>2
<1>9. ASSUME NEW w \in Worker, WorkerStep(w) PROVE Stepwise'
  <2>1. CASE Start(w)
    BY <1>3, <1>6, <2>1, StartMoves, StartSaga DEF Start, Local
  <2>2. CASE SnapshotFailed(w) \/ Return(w)
    <3>1. proc'[w] = NoCall /\ store' = store /\ \E n : Set(w, n)
      BY <1>2, <2>2 DEF SnapshotFailed, Return, Local, Set
    <3> QED BY <1>5, <1>7, <3>1
  <2>3. CASE SkipCompleted(w) \/ StopCancelled(w) \/ EnterStep(w) \/ ScopeDone(w)
    BY <1>1, <1>4, <1>6, <2>3, StepsAhead, ForwardSaga
       DEF SkipCompleted, StopCancelled, EnterStep, ScopeDone, Local
  <2>4. CASE \/ EnsureRepeatStarted(w) \/ CheckRepeatTimeout(w)
             \/ \E o \in Outcome : OnEnter(w, o)
    BY <1>1, <1>4, <1>6, <2>4, PrologueAhead, ForwardSaga
       DEF EnsureRepeatStarted, CheckRepeatTimeout, OnEnter, Local
  <2>5. CASE (\E o \in Outcome : Do(w, o)) \/ Sleep(w)
    BY <1>1, <1>4, <1>6, <2>5, ActionAhead, ForwardSaga DEF Do, Sleep, Local
  <2>6. CASE PollTimeout(w) \/ \E o \in Outcome \cup {"pending"} : Check(w, o)
    BY <1>1, <1>4, <1>6, <2>6, PollAhead, ForwardSaga DEF PollTimeout, Check, Local
  <2>7. CASE \/ ResumeBranch(w) \/ \E key \in Key : Decide(w, key)
             \/ \E o \in Outcome : DecideFailed(w, o)
    BY <1>1, <1>4, <1>6, <2>7, BranchAhead, ForwardSaga DEF ResumeBranch, Decide, DecideFailed, Local
  <2>8. CASE \/ BeginIteration(w) \/ UntilTimeout(w)
             \/ \E o \in Outcome \cup {"more"} : Until(w, o)
    BY <1>1, <1>4, <1>6, <2>8, RepeatAhead, ForwardSaga DEF BeginIteration, UntilTimeout, Until, Local
  <2>9. CASE RaiseCancelled(w) \/ Propagate(w) \/ RaiseNoCompensate(w) \/ RaiseFailure(w)
    <3>1. proc[w].pc = "raise" /\ store' = store /\ \E n : Set(w, n)
      BY <2>9 DEF RaiseCancelled, Propagate, RaiseNoCompensate, RaiseFailure, Local, At
    <3> QED BY <1>1, <1>3, <2>9, <3>1, RaiseMoves, RaiseSaga
  <2>10. CASE \/ SkipCompensation(w) \/ CompensationCancelled(w) \/ CompensationDone(w)
              \/ \E o \in {"ok", "error", "retryafter", "context"} : Compensate(w, o)
    <3>1. proc[w].pc = "compensate" /\ store' = store /\ \E n : Set(w, n)
      BY <2>10 DEF SkipCompensation, CompensationCancelled, CompensationDone, Compensate, Local,
         AtCompletion
    <3>2. OnItsWay(proc[w]) BY <3>1 DEF Lineage
    <3> QED BY <1>1, <1>3, <2>10, <3>1, <3>2, CompensationMoves, CompensationSaga
  <2> QED BY <1>8, <1>9, <2>1, <2>2, <2>3, <2>4, <2>5, <2>6, <2>7, <2>8, <2>9, <2>10
       DEF WorkerStep
<1>10. ASSUME NEW w \in Worker, Load(w) \/ Crash(w) \/ Cancel(w) PROVE Stepwise'
  <2>1. CASE Load(w)
    <3>1. proc'[w] = [NoCall EXCEPT !.pc = "start", !.mem = store] /\ store' = store
      BY <1>2, <2>1 DEF Load, Set
    <3>2. proc'[w].mem = store BY <3>1 DEF NoCall
    <3>3. \A v \in Worker \ {w} : proc'[v] = proc[v] BY <1>2, <2>1 DEF Load, Set
    <3>4. SameSaga(store, store) BY DEF SameSaga
    <3>5. ASSUME NEW v \in Worker, proc'[v].pc # "idle", Fresh(v)', Mode # "none"
          PROVE  Leading(store', proc'[v].pc, proc'[v].mem)
      <4>1. CASE v = w BY <3>1, <3>2, <3>4, <4>1 DEF Leading, OneStep
      <4>2. CASE v # w BY <3>1, <3>3, <3>5, <4>2 DEF Stepwise, Fresh
      <4> QED BY <4>1, <4>2
    <3> QED BY <3>5 DEF Stepwise
  <2>2. CASE Crash(w)
    <3>1. proc'[w] = NoCall /\ store' = store /\ \E n : Set(w, n)
      BY <1>2, <2>2 DEF Crash, Local, Set
    <3> QED BY <1>5, <1>7, <3>1
  <2>3. CASE Cancel(w)
    <3>1. /\ proc'[w].pc = proc[w].pc /\ proc'[w].mem = proc[w].mem /\ store' = store
          /\ \A v \in Worker \ {w} : proc'[v] = proc[v]
      BY <1>2, <2>3 DEF Cancel, Local, Set, Call
    <3>2. \A v \in Worker : proc'[v].pc = proc[v].pc /\ proc'[v].mem = proc[v].mem
      BY <3>1
    <3>3. \A v \in Worker : Fresh(v)' => Fresh(v) BY <3>1, <3>2 DEF Fresh
    <3> QED BY <3>1, <3>2, <3>3 DEF Stepwise
  <2> QED BY <1>10, <2>1, <2>2, <2>3
<1>11. CASE Tick \/ UNCHANGED vars BY <1>11 DEF Tick, vars, Stepwise, Fresh
<1> QED BY <1>8, <1>9, <1>10, <1>11 DEF Next, Terminated

\* Every write of the state is one step of the saga.
LEMMA WriteIsOneStep ==
  ASSUME Guarded, ~CallerSaves, TypeOK, Stepwise, [Next]_vars
  PROVE  OneStep(store, store')
<1>1. CASE store' = store BY <1>1 DEF OneStep, SameSaga
<1>2. ASSUME NEW w \in Worker, (SnapshotOK(w) /\ Mode # "none") \/ SnapshotAckLost(w)
      PROVE  OneStep(store, store')
  <2>1. /\ store' = Written(proc[w].mem) /\ Accepts(proc[w].mem) /\ proc[w].pc = "snapshot"
        /\ Mode # "none"
    BY <1>2 DEF SnapshotOK, SnapshotAckLost
  <2>2. Fresh(w) BY <2>1 DEF Guarded, Fresh, Accepts
  <2>3. OneStep(store, proc[w].mem) BY <2>1, <2>2 DEF Stepwise, Leading
  <2>4. proc[w].mem \in RunState BY DEF TypeOK, Call
  <2>5. Still(proc[w].mem, store') BY <2>1, <2>4 DEF Written, RunState, Still
  <2>6. PhaseOf(store') = PhaseOf(proc[w].mem) /\ LedgerOf(store') = LedgerOf(proc[w].mem)
        /\ LeftOf(store') = LeftOf(proc[w].mem)
    BY <2>5, StillIs DEF SameSaga
  <2> QED BY <2>3, <2>6 DEF OneStep, SameSaga, Extends, Commits, Aborts, Undoes, Finishes
<1> QED BY <1>1, <1>2, WhoWrites

\* What the refinement maps a state to.
LEMMA SagaOfState ==
  ASSUME NEW m \in RunState
  PROVE  /\ LedgerOf(m) = Subsequence(m.completed, Compensable(m)) /\ LedgerOf(m) \in Seq(Completion)
         /\ LeftOf(m) \in Nat
         /\ Owed(m) = Compensable(m) \ {k \in Compensable(m) : k - 1 > m.compensationIndex}
<1>1. /\ m.completed \in Seq(Completion) /\ m.compensationIndex \in Int
      /\ \A k \in Compensable(m) : k \in Int
      /\ Cardinality(Owed(m)) \in Nat
  BY OwedIs
<1>2. LedgerOf(m) \in Seq(Completion) BY <1>1, LedgerIs DEF LedgerOf
<1> QED BY <1>1, <1>2 DEF LedgerOf, LedgerIn, LeftOf, Owed, Compensable

\* One step of the saga is a step of its specification, or a stutter.
LEMMA OneStepIsNext ==
  ASSUME TypeOK, TypeOK', OneStep(store, store')
  PROVE  [Durable!Next]_(Durable!vars)
<1>1. store \in RunState /\ store' \in RunState BY DEF TypeOK
<1>2. Phase = PhaseOf(store) /\ Ledger = LedgerOf(store) /\ Left = LeftOf(store)
  BY <1>1, SagaOfState DEF Phase, PhaseOf, Ledger, Left, LeftOf, ToUndo, Undone
<1>3. Phase' = PhaseOf(store') /\ Ledger' = LedgerOf(store') /\ Left' = LeftOf(store')
  BY <1>1, SagaOfState DEF Phase, PhaseOf, Ledger, Left, LeftOf, ToUndo, Undone
<1>4. CASE SameSaga(store, store')
  BY <1>2, <1>3, <1>4 DEF SameSaga, Durable!vars
<1>5. CASE Extends(store, store')
  <2> DEFINE l == LedgerOf(store)
             r == LedgerOf(store')
  <2>1. PICK e \in Completion : r = Append(l, e) /\ \A i \in DOMAIN l : l[i] # e
    BY <1>5 DEF Extends
  <2>2. l \in Seq(Completion) BY <1>1, SagaOfState
  <2>3. PhaseOf(store) = "forward" /\ PhaseOf(store') = "forward" BY <1>5 DEF Extends
  <2>4. LeftOf(store') = LeftOf(store)
    <3>1. store.status # "compensating" /\ store'.status # "compensating"
      BY <1>1, <2>3, PhaseIs DEF GoesForward
    <3> QED BY <3>1 DEF LeftOf
  <2> HIDE DEF l, r
  <2>5. Len(r) = Len(l) + 1 /\ SubSeq(r, 1, Len(l)) = l /\ r[Len(l) + 1] = e
    BY <2>1, <2>2
  <2>6. Ledger = l /\ Ledger' = r BY <1>2, <1>3 DEF l, r
  <2>7. Durable!Extend
    BY <1>2, <1>3, <2>1, <2>3, <2>4, <2>5, <2>6 DEF Durable!Extend
  <2> QED BY <2>7 DEF Durable!Next
<1>6. CASE Commits(store, store')
  <2>1. Durable!Commit
    <3>1. LeftOf(store') = 0 /\ LeftOf(store) = 0
      BY <1>1, <1>6, PhaseIs DEF Commits, GoesForward, LeftOf
    <3> QED BY <1>2, <1>3, <1>6, <3>1 DEF Commits, Durable!Commit
  <2> QED BY <2>1 DEF Durable!Next
<1>7. CASE Aborts(store, store')
  <2>1. Durable!Abort BY <1>2, <1>3, <1>7 DEF Aborts, Durable!Abort
  <2> QED BY <2>1 DEF Durable!Next
<1>8. CASE Undoes(store, store')
  <2>1. Durable!Undo BY <1>2, <1>3, <1>8 DEF Undoes, Durable!Undo
  <2> QED BY <2>1 DEF Durable!Next
<1>9. CASE Finishes(store, store')
  <2>1. LeftOf(store') = 0 BY <1>1, <1>9, PhaseIs DEF Finishes, LeftOf
  <2>2. Durable!Finish BY <1>2, <1>3, <1>9, <2>1 DEF Finishes, Durable!Finish
  <2> QED BY <2>2 DEF Durable!Next
<1> QED BY <1>4, <1>5, <1>6, <1>7, <1>8, <1>9 DEF OneStep

\* Initially nothing is in the ledger.
LEMMA InitSaga ==
  ASSUME Init
  PROVE  Durable!Init /\ Stepwise
<1>1. store = NewRun /\ \A w \in Worker : proc[w].pc = "idle" BY DEF Init, NoCall
<1>2. Stepwise BY <1>1 DEF Stepwise
<1>3. store \in RunState BY <1>1, NewRunType
<1>4. store.status = "new" /\ store.completed = <<>> BY <1>1 DEF NewRun
<1>5. Compensable(store) = {} BY <1>4 DEF Compensable
<1>6. Ledger = <<>>
  <2>1. Cardinality({}) = 0 BY FS_EmptySet
  <2> QED BY <1>5, <2>1 DEF Ledger, Subsequence
<1>7. Phase = "forward" /\ Left = 0 BY <1>4 DEF Phase, Left
<1> QED BY <1>2, <1>6, <1>7 DEF Durable!Init

\* The durable state of a run implements the saga: whatever the pipeline, and with any
\* number of workers if the storage compares revisions, one write makes at most one
\* compensable completion durable, and rolls back at most one, the last first.
THEOREM SagaImplemented ==
  ASSUME ~CallerSaves, Guarded
  PROVE  Spec => ImplementsSaga
<1>1. Init => Durable!Init /\ Stepwise BY InitSaga
<1>2. Init => Orderly BY InitOrderly
<1>3. TypeOK /\ Position /\ Orderly /\ [Next]_vars => Orderly' BY StepKeepsOrder
<1>4. TypeOK /\ Position /\ Lineage /\ Orderly /\ Stepwise /\ [Next]_vars => Stepwise'
  BY StepKeepsStepwise
<1>5. TypeOK /\ Stepwise /\ [Next]_vars => [Durable!Next]_(Durable!vars)
  BY StepPreservesType, WriteIsOneStep, OneStepIsNext
<1> QED BY <1>1, <1>2, <1>3, <1>4, <1>5, TypeCorrect, PositionHolds, LineageHolds, PTL
        DEF Spec, ImplementsSaga, Durable!Spec

-----------------------------------------------------------------------------
(* The effects outside and the journal.                                    *)

\* The effects of the completions that m holds are as EffectsFollowJournal asks.
Settled(m, W) ==
  LET InForce(k) == m.completed[k].path \in W IN
  CASE m.status = "compensating" ->
         /\ \A k \in Compensable(m) \ Owed(m) : ~InForce(k)
         /\ \A k \in Owed(m) : InForce(k) \/ \A j \in Owed(m) : j <= k
    [] m.status = "failed" -> \A k \in Compensable(m) : ~InForce(k)
    [] OTHER -> \A k \in Compensable(m) : InForce(k)

\* Every compensable completion of t is one of s, or its effect is in force.
Covered(s, t, W) ==
  \A k \in DOMAIN t :
    t[k].compensator => t[k].path \in W \/ \E j \in DOMAIN s : s[j] = t[k]

\* What is durable and what a lone worker holds agree with the world.
Agreed ==
  /\ Mode = "none" => store.status = "new" /\ store.completed = <<>>
  /\ Settled(store, world)
  /\ \A w \in Worker : proc[w].pc # "idle" => Settled(proc[w].mem, world)

\* Only the status, the journal and what is still to undo matter.
LEMMA SettledSame ==
  ASSUME NEW m, NEW n, NEW W, Settled(m, W),
         n.status = m.status, n.completed = m.completed, Owed(n) = Owed(m)
  PROVE  Settled(n, W)
<1>1. Compensable(n) = Compensable(m) BY DEF Compensable
<1> QED BY <1>1 DEF Settled

\* A step that keeps all of these keeps the agreement.
LEMMA SettledStill ==
  ASSUME NEW m, NEW n, NEW W, Settled(m, W), Still(m, n)
  PROVE  Settled(n, W)
<1>1. Owed(n) = Owed(m) BY DEF Owed, Compensable, Still
<1> QED BY <1>1, SettledSame DEF Still

\* A run that goes forward, or is done, keeps what it has if its completions are covered.
LEMMA SettledForward ==
  ASSUME NEW m, NEW n, NEW V, NEW W, Settled(m, V), V \subseteq W,
         m.status \notin RolledBack, n.status \notin RolledBack,
         Covered(m.completed, n.completed, W)
  PROVE  Settled(n, W)
<1>1. \A k \in Compensable(m) : m.completed[k].path \in W BY DEF Settled, RolledBack
<1>2. ASSUME NEW k \in Compensable(n) PROVE n.completed[k].path \in W
  <2>1. k \in DOMAIN n.completed /\ n.completed[k].compensator BY DEF Compensable
  <2>2. CASE \E j \in DOMAIN m.completed : m.completed[j] = n.completed[k]
    BY <1>1, <2>1, <2>2 DEF Compensable
  <2> QED BY <2>1, <2>2 DEF Covered
<1> QED BY <1>2 DEF Settled, RolledBack

\* A failure begins the rollback with everything to undo.
LEMMA SettledFailure ==
  ASSUME NEW m \in RunState, NEW n \in RunState, NEW W, Settled(m, W),
         m.status \notin RolledBack, n.status = "compensating",
         n.completed = m.completed, n.compensationIndex = Len(m.completed) - 1
  PROVE  Settled(n, W)
<1>1. \A k \in Compensable(m) : m.completed[k].path \in W BY DEF Settled, RolledBack
<1>2. Compensable(n) = Compensable(m) BY DEF Compensable
<1>3. Compensable(m) \in SUBSET (1..Len(m.completed)) /\ Len(m.completed) \in Nat BY OwedIs
<1>4. \A k \in 1..Len(m.completed) : k - 1 <= n.compensationIndex BY <1>3
<1>5. Owed(n) = Compensable(n) BY <1>2, <1>3, <1>4 DEF Owed
<1> QED BY <1>1, <1>2, <1>5 DEF Settled

\* A rollback that has come past the beginning of the journal has undone everything.
LEMMA SettledDone ==
  ASSUME NEW m \in RunState, NEW n, NEW W, Settled(m, W),
         m.status = "compensating", n.status = "failed",
         n.completed = m.completed, m.compensationIndex < 0
  PROVE  Settled(n, W)
<1>1. Compensable(n) = Compensable(m) BY DEF Compensable
<1>2. /\ Compensable(m) \in SUBSET (1..Len(m.completed)) /\ Len(m.completed) \in Nat
      /\ m.compensationIndex \in Int
  BY OwedIs
<1>3. \A k \in Compensable(m) : ~(k - 1 <= m.compensationIndex) BY <1>2
<1>4. Owed(m) = {} BY <1>3 DEF Owed
<1> QED BY <1>1, <1>4 DEF Settled

\* The completion at the compensation index is undone: the world agrees with the state
\* before and with the state after that.
LEMMA SettledUndo ==
  ASSUME NEW m \in RunState, NEW n, NEW W, Settled(m, W),
         m.status = "compensating", n.status = "compensating", n.completed = m.completed,
         n.compensationIndex = m.compensationIndex - 1,
         m.compensationIndex + 1 \in DOMAIN m.completed, Due(m).compensator,
         \A i, j \in DOMAIN m.completed : m.completed[i].path = m.completed[j].path => i = j
  PROVE  Settled(m, W \ {Due(m).path}) /\ Settled(n, W \ {Due(m).path})
<1> DEFINE k == m.compensationIndex + 1
           V == W \ {Due(m).path}
           s == m.completed
<1>1. Owed(n) = Owed(m) \ {k} /\ k \in Owed(m) BY OwedBelow
<1>2. Compensable(n) = Compensable(m) /\ Owed(m) \subseteq Compensable(m)
      /\ Compensable(m) \subseteq DOMAIN s
  BY DEF Compensable, Owed
<1>3. \A j \in Owed(m) : j <= k
  <2>1. m.compensationIndex \in Int /\ \A j \in Owed(m) : j \in Int BY OwedIs
  <2> QED BY <2>1 DEF Owed
<1>4. /\ \A j \in Compensable(m) \ Owed(m) : s[j].path \notin W
      /\ \A j \in Owed(m) : s[j].path \in W \/ \A i \in Owed(m) : i <= j
  BY DEF Settled
<1>5. Due(m).path = s[k].path BY DEF Due
<1> HIDE DEF k
<1>6. \A j \in Owed(m) \ {k} : j \in Int /\ k \in Int BY <1>1, OwedIs
<1>7. ASSUME NEW j \in Owed(m) \ {k} PROVE s[j].path \in V
  <2>1. ~(k <= j) BY <1>3, <1>6, <1>7
  <2>2. s[j].path \in W BY <1>1, <1>4, <2>1
  <2>3. s[j].path # s[k].path BY <1>1, <1>2
  <2> QED BY <1>5, <2>2, <2>3
<1>8. \A j \in Compensable(m) \ Owed(m) : s[j].path \notin V BY <1>4
<1>9. s[k].path \notin V BY <1>5
<1> HIDE DEF V
<1>10. Settled(m, V) BY <1>3, <1>7, <1>8 DEF Settled
<1>11. Settled(n, V) BY <1>1, <1>2, <1>7, <1>8, <1>9 DEF Settled
<1> QED BY <1>10, <1>11 DEF V

\* No path is twice in a journal that is in order.
LEMMA OnceInOrder ==
  ASSUME NEW s \in Seq(Completion), InOrder(s)
  PROVE  \A i, j \in DOMAIN s : s[i].path = s[j].path => i = j
<1>1. ASSUME NEW i \in DOMAIN s, NEW j \in DOMAIN s, i < j, s[i].path = s[j].path PROVE FALSE
  <2> DEFINE a == s[i].path
             T == {k \in DOMAIN s : s[k].path = a}
             scope == ScopeAt(Front(a))
  <2>1. MayPrecede(a, a) BY <1>1 DEF InOrder
  <2>2. a \in Path /\ Odd(Len(a))
    <3>1. s[i] \in Completion OBVIOUS
    <3> QED BY <3>1 DEF InOrder, Completion
  <2>3. PICK h \in T : \A k \in T : h <= k
    <3>1. T \in SUBSET Nat /\ i \in T OBVIOUS
    <3> HIDE DEF T
    <3> QED BY <3>1, LeastMember
  <2>4. EldersBefore(s, h) /\ h \in DOMAIN s /\ s[h].path = a BY DEF InOrder
  <2> HIDE DEF a
  <2>5. PICK e, f \in DOMAIN scope : e < f /\ scope[e] = Last(a) /\ scope[f] = Last(a)
    BY <2>1 DEF MayPrecede
  <2>6. PICK g \in 1..(h - 1) : s[g].path = Append(Front(a), scope[e])
    BY <2>4, <2>5 DEF EldersBefore
  <2>7. Append(Front(a), Last(a)) = a BY <2>2, LastScope
  <2>8. g \in DOMAIN s /\ g < h
    <3>1. DOMAIN s = 1..Len(s) OBVIOUS
    <3> QED BY <2>4, <2>6, <3>1
  <2>9. g \in T BY <2>5, <2>6, <2>7, <2>8
  <2>10. h <= g BY <2>3, <2>9
  <2>11. g \in Int /\ h \in Int BY <2>4, <2>8
  <2> QED BY <2>8, <2>10, <2>11
<1>2. \A i, j \in DOMAIN s : i \in Int /\ j \in Int /\ (i < j \/ j < i \/ i = j) OBVIOUS
<1> QED BY <1>1, <1>2

\* The entries of u are entries of s.
Within(s, u) == \A k \in DOMAIN u : \E j \in DOMAIN s : s[j] = u[k]

\* Compaction adds no entry.
LEMMA TrimmedWithin ==
  ASSUME NEW s \in Seq(Completion), NEW u, Trimmed(s, u)
  PROVE  Within(s, u)
<1>1. CASE u = s BY <1>1 DEF Within
<1>2. ASSUME NEW y, u = Subsequence(s, {k \in DOMAIN s : ~IsPrefix(y, s[k].path)})
      PROVE  Within(s, u)
  <2> DEFINE K == {k \in DOMAIN s : ~IsPrefix(y, s[k].path)}
  <2>1. DOMAIN s = 1..Len(s) /\ Len(s) \in Nat /\ K \in SUBSET (DOMAIN s) OBVIOUS
  <2>2. u = Subsequence(s, K) BY <1>2
  <2> HIDE DEF K
  <2>3. DOMAIN u = 1..Cardinality(K) /\ \A k \in DOMAIN u : u[k] = s[Nth(K, k)]
    BY <2>2 DEF Subsequence
  <2>4. \A k \in DOMAIN u : Nth(K, k) \in DOMAIN s BY <2>1, <2>3, NthMember
  <2> QED BY <2>3, <2>4 DEF Within
<1> QED BY <1>1, <1>2 DEF Trimmed

\* A completion is covered by its own effect, or needs none.
LEMMA CoveredGrown ==
  ASSUME NEW s, NEW u \in Seq(Completion), Within(s, u), NEW W,
         NEW b, NEW c, c => b \in W
  PROVE  Covered(s, u, W) /\ Covered(s, Append(u, [path |-> b, compensator |-> c]), W)
<1> DEFINE e == [path |-> b, compensator |-> c]
           t == Append(u, e)
<1>1. e.path = b /\ e.compensator = c OBVIOUS
<1> HIDE DEF e
<1>2. ASSUME NEW k \in DOMAIN t, t[k].compensator
      PROVE  t[k].path \in W \/ \E j \in DOMAIN s : s[j] = t[k]
  <2>1. CASE k = Len(u) + 1
    <3>1. t[k] = e BY <2>1
    <3> QED BY <1>1, <1>2, <3>1
  <2>2. CASE k # Len(u) + 1
    <3>1. k \in DOMAIN u /\ t[k] = u[k] BY <2>2
    <3> QED BY <3>1 DEF Within
  <2> QED BY <2>1, <2>2
<1> HIDE DEF t
<1>3. Covered(s, t, W) BY <1>2 DEF Covered
<1>4. Covered(s, u, W) BY DEF Covered, Within
<1> QED BY <1>3, <1>4 DEF t, e

\* The effect of an action is in force before its completion is in the journal; nothing
\* else that completes has a compensator.
LEMMA CompletionCovered ==
  ASSUME TypeOK, NEW w \in Worker,
         \/ \E o \in Outcome : Do(w, o)
         \/ \E o \in Outcome \cup {"pending"} : Check(w, o)
         \/ \E key \in Key : Decide(w, key)
  PROVE  LET s == proc[w].mem.completed
             t == proc'[w].mem.completed
         IN \/ t = s
            \/ \E b, c : t = Append(s, [path |-> b, compensator |-> c]) /\ (c => b \in world')
<1> DEFINE q == proc[w]
           n == proc'[w]
           s == q.mem.completed
           t == n.mem.completed
           x == StepPath(q)
           on == [Advance(q) EXCEPT !.pc = "steps"]
           Ext(c) == Append(s, [path |-> x, compensator |-> c])
<1>1. q \in Call /\ q.mem \in RunState /\ proc \in [Worker -> Call] /\ At(q, "call")
  BY MemType DEF TypeOK, Do, Check, Decide
<1>2. on \in Call BY <1>1, AdvanceType, GotoType DEF At, Label
<1>3. \A m : PersistThen(on, m).mem = m BY <1>2, PersistThenIs
<1>4. /\ \A m, l : Persist(q, m, l).mem = m
      /\ \A kind, path : Fail(q, kind, path).mem = q.mem
  BY <1>1, PersistIs, FailIs
<1> HIDE DEF on, q
<1>5. ASSUME NEW o \in Outcome, Do(w, o)
      PROVE  t = s \/ \E c : t = Ext(c) /\ (c => x \in world')
  <2> DEFINE c == Def[StepOf(q)].compensate
             m == Complete(q.mem, x, c)
             retry == [q EXCEPT !.attempt = @ + 1, !.pc = "sleep"]
  <2>1. m.completed = Ext(c) BY <1>1, CompleteIs
  <2>2. retry.mem = q.mem BY <1>1 DEF Call
  <2>3. \/ n = PersistThen(on, m) /\ x \in world'
        \/ n = Persist(q, q.mem, "return")
        \/ n = retry
        \/ \E kind, path : n = Fail(q, kind, path)
    BY <1>1, <1>5 DEF Do, Set, on, q
  <2> HIDE DEF m, c, retry, n
  <2>4. (n.mem = m /\ x \in world') \/ n.mem = q.mem BY <1>3, <1>4, <2>2, <2>3
  <2> QED BY <2>1, <2>4
<1>6. ASSUME NEW o \in Outcome \cup {"pending"}, Check(w, o) PROVE t = s \/ t = Ext(FALSE)
  <2> DEFINE m == Opened(q.mem)
             closed == [m EXCEPT !.pollStartedAt = NoTime]
             running == [closed EXCEPT !.status = "running"]
             done == Complete(running, x, FALSE)
             late == [m EXCEPT !.status = "polling"]
             g == IF q.cancelled THEN m ELSE closed
             h == [q EXCEPT !.mem = g]
  <2>1. m \in RunState /\ m.completed = s
    BY <1>1, JournalSame DEF Opened, RunState, TypeOK, Time
  <2>2. \/ n = PersistThen(on, done)
        \/ n = Persist(q, late, "return")
        \/ \E kind, path : n = Fail(h, kind, path)
    BY <1>1, <1>6 DEF Check, Local, Set, on, q
  <2> HIDE DEF m
  <2>3. closed \in RunState /\ closed.completed = s BY <2>1 DEF RunState, Time
  <2> HIDE DEF closed
  <2>4. running \in RunState /\ running.completed = s BY <2>3 DEF RunState, Status
  <2> HIDE DEF running
  <2>5. done.completed = Ext(FALSE) BY <2>4, CompleteIs
  <2>6. late.completed = s BY <2>1 DEF RunState
  <2> HIDE DEF done, late
  <2>7. g \in RunState /\ g.completed = s BY <2>1, <2>3
  <2> HIDE DEF g
  <2>8. h \in Call /\ h.mem = g BY <1>1, <2>7, MemType DEF Call
  <2> HIDE DEF h
  <2>9. \A kind, path : Fail(h, kind, path).mem = g BY <2>8, FailIs
  <2> HIDE DEF n
  <2>10. n.mem = done \/ n.mem = late \/ n.mem = g BY <1>3, <1>4, <2>2, <2>9
  <2> QED BY <2>5, <2>6, <2>7, <2>10
<1>7. ASSUME NEW key \in Key, Decide(w, key) PROVE t = s \/ t = Ext(FALSE)
  <2> DEFINE m == Complete(q.mem, x, FALSE)
             child == Append(x, key)
             into == Push(q, NewFrame(child, Def[StepOf(q)].paths[key], 1, child))
             up == [m EXCEPT !.currentPath = x]
             down == [m EXCEPT !.currentPath = child]
  <2>1. m.completed = Ext(FALSE) BY <1>1, CompleteIs
  <2>2. up.completed = m.completed /\ down.completed = m.completed
    BY <1>1 DEF Complete, RunState
  <2>3. n = PersistThen(on, up) \/ n = PersistThen(into, down)
    BY <1>1, <1>7 DEF Decide, Local, Set, q, on
  <2>4. \A g : PersistThen(into, g).mem = g BY <1>1 DEF PersistThen, Push, Call
  <2> HIDE DEF m, into, up, down, n
  <2>5. n.mem = up \/ n.mem = down BY <1>3, <2>3, <2>4
  <2> QED BY <2>1, <2>2, <2>5
<1>8. ASSUME t = s \/ \E c : t = Ext(c) /\ (c => x \in world')
      PROVE  t = s \/ \E b, c : t = Append(s, [path |-> b, compensator |-> c]) /\ (c => b \in world')
  BY <1>8
<1> QED BY <1>5, <1>6, <1>7, <1>8 DEF q

\* On the forward path effects come into force only, and what is completed is covered.
LEMMA ForwardCovered ==
  ASSUME TypeOK, NEW w \in Worker, Placed(proc[w]),
         \/ SkipCompleted(w) \/ StopCancelled(w) \/ EnterStep(w) \/ ScopeDone(w)
         \/ EnsureRepeatStarted(w) \/ CheckRepeatTimeout(w)
         \/ \E o \in Outcome : OnEnter(w, o)
         \/ \E o \in Outcome : Do(w, o)
         \/ Sleep(w) \/ PollTimeout(w)
         \/ \E o \in Outcome \cup {"pending"} : Check(w, o)
         \/ ResumeBranch(w)
         \/ \E key \in Key : Decide(w, key)
         \/ \E o \in Outcome : DecideFailed(w, o)
         \/ BeginIteration(w) \/ UntilTimeout(w)
         \/ \E o \in Outcome \cup {"more"} : Until(w, o)
  PROVE  Covered(proc[w].mem.completed, proc'[w].mem.completed, world')
<1> DEFINE s == proc[w].mem.completed
           t == proc'[w].mem.completed
<1>1. s \in Seq(Completion)
  <2>1. proc[w].mem \in RunState BY DEF TypeOK, Call
  <2> QED BY <2>1 DEF RunState
<1>2. Within(s, s) BY DEF Within
<1>3. CASE \/ \E o \in Outcome : Do(w, o)
           \/ \E o \in Outcome \cup {"pending"} : Check(w, o)
           \/ \E key \in Key : Decide(w, key)
  <2>1. \/ t = s
        \/ \E b, c : t = Append(s, [path |-> b, compensator |-> c]) /\ (c => b \in world')
    BY <1>3, CompletionCovered
  <2> HIDE DEF s, t
  <2>2. Covered(s, t, world') BY <1>1, <1>2, <2>1, CoveredGrown
  <2> QED BY <2>2 DEF s, t
<1>4. ASSUME NEW o \in Outcome \cup {"more"}, Until(w, o) PROVE Covered(s, t, world')
  <2>1. PICK u \in Seq(Completion) :
          /\ Trimmed(s, u)
          /\ t = u \/ \E b : t = Append(u, [path |-> b, compensator |-> FALSE])
    BY <1>4, UntilJournal
  <2> HIDE DEF s, t
  <2>2. Within(s, u) BY <1>1, <2>1, TrimmedWithin
  <2> QED BY <2>1, <2>2, CoveredGrown
<1>5. CASE \/ SkipCompleted(w) \/ StopCancelled(w) \/ EnterStep(w) \/ ScopeDone(w)
           \/ EnsureRepeatStarted(w) \/ CheckRepeatTimeout(w)
           \/ \E o \in Outcome : OnEnter(w, o)
           \/ Sleep(w) \/ PollTimeout(w) \/ ResumeBranch(w)
           \/ \E o \in Outcome : DecideFailed(w, o)
           \/ BeginIteration(w) \/ UntilTimeout(w)
  <2>1. t = s BY <1>5, JournalKept
  <2> QED BY <2>1 DEF Covered
<1> QED BY <1>3, <1>4, <1>5

\* A step of the forward path keeps the world in agreement.
LEMMA ForwardAgreed ==
  ASSUME Alone, TypeOK, Lineage, Agreed, NEW w \in Worker, Placed(proc[w]),
         \/ SkipCompleted(w) \/ StopCancelled(w) \/ EnterStep(w) \/ ScopeDone(w)
         \/ EnsureRepeatStarted(w) \/ CheckRepeatTimeout(w)
         \/ \E o \in Outcome : OnEnter(w, o)
         \/ \E o \in Outcome : Do(w, o)
         \/ Sleep(w) \/ PollTimeout(w)
         \/ \E o \in Outcome \cup {"pending"} : Check(w, o)
         \/ ResumeBranch(w)
         \/ \E key \in Key : Decide(w, key)
         \/ \E o \in Outcome : DecideFailed(w, o)
         \/ BeginIteration(w) \/ UntilTimeout(w)
         \/ \E o \in Outcome \cup {"more"} : Until(w, o)
  PROVE  Settled(store, world') /\ Settled(proc'[w].mem, world')
<1> DEFINE m == proc[w].mem
           n == proc'[w].mem
<1>1. Ahead(proc[w], proc'[w])
  BY StepsAhead, PrologueAhead, ActionAhead, PollAhead, BranchAhead, RepeatAhead
<1>2. proc[w].pc \in Forward /\ proc[w].pc # "idle" BY <1>1 DEF Ahead, Forward
<1>3. m.status = "running"
  <2>1. Heading(proc[w]) \in Forward BY <1>2 DEF Heading, Forward
  <2> QED BY <2>1 DEF Placed, Going
<1>4. n.status \notin RolledBack BY <1>1, <1>3 DEF Ahead, RolledBack
<1>5. m.status \notin RolledBack BY <1>3 DEF RolledBack
<1>6. store.status \notin RolledBack
  <2>1. MayFollow(store, m) BY <1>2 DEF Lineage, Fresh
  <2> QED BY <1>5, <2>1 DEF MayFollow
<1>7. Covered(m.completed, n.completed, world') BY ForwardCovered
<1>8. Settled(store, world) /\ Settled(m, world) BY <1>2 DEF Agreed
<1>9. Covered(store.completed, store.completed, world') BY DEF Covered
<1>10. world \subseteq world'
  <2>1. ASSUME NEW o \in Outcome, Do(w, o) PROVE world \subseteq world' BY <2>1 DEF Do
  <2>2. CASE ~\E o \in Outcome : Do(w, o)
    <3>1. UNCHANGED world
      BY <2>2 DEF SkipCompleted, StopCancelled, EnterStep, ScopeDone, EnsureRepeatStarted,
         CheckRepeatTimeout, OnEnter, Sleep, PollTimeout, Check, ResumeBranch, Decide,
         DecideFailed, BeginIteration, Until, UntilTimeout, Local
    <3> QED BY <3>1
  <2> QED BY <2>1, <2>2
<1> HIDE DEF m, n
<1>11. Settled(n, world') BY <1>4, <1>5, <1>7, <1>8, <1>10, SettledForward
<1>12. Settled(store, world') BY <1>6, <1>8, <1>9, <1>10, SettledForward
<1> QED BY <1>11, <1>12 DEF n

\* So does the beginning of a call, which changes nothing outside.
LEMMA StartAgreed ==
  ASSUME TypeOK, NEW w \in Worker, Placed(proc[w]), Settled(proc[w].mem, world), Start(w)
  PROVE  Settled(proc'[w].mem, world)
<1> DEFINE q == proc[w]
           m == [q.mem EXCEPT !.status = "running"]
<1>1. q \in Call /\ q.mem \in RunState /\ proc \in [Worker -> Call]
  BY MemType DEF TypeOK
<1>2. ~IsTerminal(q.mem) BY DEF Placed, Heading, Start
<1>3. \/ proc'[w] = [q EXCEPT !.pc = "return"]
      \/ proc'[w] = Persist(q, q.mem, "compensate")
      \/ q.mem.status # "compensating" /\ \E frame : proc'[w] = PersistThen(Push(q, frame), m)
  BY <1>1 DEF Start, Local, Set
<1>4. m.status = "running" /\ m.completed = q.mem.completed BY <1>1 DEF RunState
<1> HIDE DEF m
<1>5. \A frame : PersistThen(Push(q, frame), m).mem = m
  BY <1>1 DEF PersistThen, Push, Call
<1>6. CASE proc'[w].mem = q.mem BY <1>6
<1>7. CASE q.mem.status # "compensating" /\ proc'[w].mem = m
  <2>1. q.mem.status \notin RolledBack /\ m.status \notin RolledBack
    BY <1>2, <1>4, <1>7 DEF RolledBack, IsTerminal, Terminal
  <2>2. Covered(q.mem.completed, m.completed, world) BY <1>4 DEF Covered
  <2>3. Settled(m, world) BY <2>1, <2>2, SettledForward
  <2> QED BY <1>7, <2>3
<1>8. [q EXCEPT !.pc = "return"].mem = q.mem /\ Persist(q, q.mem, "compensate").mem = q.mem
  BY <1>1, GotoIs, PersistIs
<1> QED BY <1>3, <1>5, <1>6, <1>7, <1>8

\* So does the error path.
LEMMA RaiseAgreed ==
  ASSUME TypeOK, TypeOK', NEW w \in Worker, Settled(proc[w].mem, world),
         RaiseCancelled(w) \/ Propagate(w) \/ RaiseNoCompensate(w) \/ RaiseFailure(w)
  PROVE  Settled(proc'[w].mem, world)
<1> DEFINE q == proc[w]
           n == proc'[w]
<1>1. /\ q \in Call /\ q.mem \in RunState /\ proc \in [Worker -> Call]
      /\ n \in Call /\ n.mem \in RunState
  BY MemType DEF TypeOK
<1>2. CASE RaiseCancelled(w) \/ Propagate(w) \/ RaiseNoCompensate(w)
  <2>1. Still(q.mem, n.mem)
    <3>1. CASE RaiseCancelled(w)
      BY <1>1, <3>1 DEF RaiseCancelled, Local, Set, Unwind, Call, RunState, Still
    <3>2. CASE Propagate(w) BY <1>1, <3>2 DEF Propagate, Local, Set, Unwind, Call, Still
    <3>3. CASE RaiseNoCompensate(w)
      BY <1>1, <3>3 DEF RaiseNoCompensate, Local, Set, Unwind, PersistThen, Call, RunState, Still
    <3> QED BY <1>2, <3>1, <3>2, <3>3
  <2> QED BY <2>1, SettledStill
<1>3. CASE RaiseFailure(w)
  <2>1. q.mem.status = "running" BY <1>3 DEF RaiseFailure, HandledBelow
  <2>2. /\ n.mem.status = "compensating" /\ n.mem.completed = q.mem.completed
        /\ n.mem.compensationIndex = Len(q.mem.completed) - 1
    BY <1>1, <1>3 DEF RaiseFailure, Local, Set, Persist, Call, RunState
  <2>3. q.mem.status \notin RolledBack BY <2>1 DEF RolledBack
  <2> DEFINE m == q.mem
             r == n.mem
  <2>4. m \in RunState /\ r \in RunState /\ m.status \notin RolledBack
        /\ r.status = "compensating" /\ r.completed = m.completed
        /\ r.compensationIndex = Len(m.completed) - 1 /\ Settled(m, world)
    BY <1>1, <2>2, <2>3
  <2> HIDE DEF m, r
  <2>5. Settled(r, world) BY <2>4, SettledFailure
  <2> QED BY <2>5 DEF r
<1> QED BY <1>2, <1>3

\* The durable rollback is where the call that compensates is, as far as there is
\* anything to undo.
LEMMA UndoesDurable ==
  ASSUME Alone, TypeOK, Lineage, Stepwise, Mode # "none", NEW w \in Worker,
         proc[w].pc = "compensate"
  PROVE  /\ store.status = "compensating" /\ store.completed = proc[w].mem.completed
         /\ Owed(store) = Owed(proc[w].mem)
<1> DEFINE m == proc[w].mem
<1>1. m \in RunState /\ store \in RunState BY DEF TypeOK, Call
<1>2. m.status = "compensating" /\ MayFollow(store, m) /\ SameSaga(store, m)
  BY DEF Lineage, OnItsWay, Goes, Fresh, Stepwise, Leading
<1> HIDE DEF m
<1>3. PhaseOf(store) = "rollback" BY <1>1, <1>2, PhaseIs DEF SameSaga
<1>4. store.status = "compensating" BY <1>1, <1>3, PhaseIs
<1>5. store.completed = m.completed /\ m.compensationIndex <= store.compensationIndex
  BY <1>2, <1>4 DEF MayFollow, RolledBack
<1>6. Cardinality(Owed(m)) = Cardinality(Owed(store)) BY <1>2, <1>4 DEF SameSaga, LeftOf
<1>7. /\ IsFiniteSet(Owed(store)) /\ Compensable(m) = Compensable(store)
      /\ \A k \in Compensable(m) : k \in Int
      /\ m.compensationIndex \in Int /\ store.compensationIndex \in Int
  <2>1. IsFiniteSet(Owed(store)) /\ store.compensationIndex \in Int BY <1>1, OwedIs
  <2>2. m.compensationIndex \in Int /\ Compensable(m) \in SUBSET (1..Len(m.completed))
        /\ Len(m.completed) \in Nat
    BY <1>1, OwedIs
  <2>3. Compensable(m) = Compensable(store) BY <1>5 DEF Compensable
  <2> QED BY <2>1, <2>2, <2>3
<1>8. Owed(m) \subseteq Owed(store) BY <1>5, <1>7 DEF Owed
<1>9. Owed(m) = Owed(store)
  <2> DEFINE A == Owed(m)
             B == Owed(store)
  <2>1. IsFiniteSet(B) /\ A \in SUBSET B /\ Cardinality(A) = Cardinality(B) BY <1>6, <1>7, <1>8
  <2> HIDE DEF A, B
  <2>2. A = B BY <2>1, FS_Subset
  <2> QED BY <2>2 DEF A, B
<1> QED BY <1>4, <1>5, <1>9 DEF m

\* The rollback takes the effects back one by one.
LEMMA CompensationAgreed ==
  ASSUME Alone, TypeOK, TypeOK', Lineage, Orderly, Stepwise, Agreed, NEW w \in Worker,
         \/ SkipCompensation(w) \/ CompensationCancelled(w) \/ CompensationDone(w)
         \/ \E o \in {"ok", "error", "retryafter", "context"} : Compensate(w, o)
  PROVE  Settled(store, world') /\ Settled(proc'[w].mem, world')
<1> DEFINE q == proc[w]
           n == proc'[w]
           m == q.mem
           r == n.mem
<1>1. /\ q \in Call /\ m \in RunState /\ proc \in [Worker -> Call]
      /\ n \in Call /\ r \in RunState
  BY MemType DEF TypeOK
<1>2. q.pc = "compensate"
  BY DEF SkipCompensation, CompensationCancelled, CompensationDone, Compensate, AtCompletion
<1>3. m.status = "compensating" /\ Settled(m, world) /\ Settled(store, world)
  BY <1>2 DEF Lineage, OnItsWay, Goes, Agreed
<1>4. CASE SkipCompensation(w)
  <2>1. /\ r.status = m.status /\ r.completed = m.completed
        /\ r.compensationIndex = m.compensationIndex - 1 /\ world' = world
    BY <1>1, <1>4 DEF SkipCompensation, Local, Set, Call, RunState
  <2>2. m.compensationIndex + 1 \in DOMAIN m.completed /\ ~Due(m).compensator
    BY <1>4 DEF SkipCompensation, AtCompletion
  <2> HIDE DEF m, r
  <2>3. Owed(r) = Owed(m) BY <1>1, <2>1, <2>2, OwedBelow
  <2>4. Settled(r, world) BY <1>3, <2>1, <2>3, SettledSame
  <2> QED BY <1>3, <2>1, <2>4 DEF r
<1>5. CASE CompensationDone(w)
  <2>1. r.status = "failed" /\ r.completed = m.completed /\ world' = world
    BY <1>1, <1>5 DEF CompensationDone, Local, Set, Persist, Call, RunState
  <2>2. m.compensationIndex < 0 BY <1>5 DEF CompensationDone
  <2> HIDE DEF m, r
  <2>3. Settled(r, world) BY <1>1, <1>3, <2>1, <2>2, SettledDone
  <2> QED BY <1>3, <2>1, <2>3 DEF r
<1>6. CASE Still(m, r) /\ world' = world BY <1>3, <1>6, SettledStill
<1>7. CASE CompensationCancelled(w)
  <2>1. Still(m, r) /\ world' = world
    BY <1>1, <1>7 DEF CompensationCancelled, Local, Set, Unwind, Call, Still
  <2> QED BY <1>6, <2>1
<1>8. ASSUME NEW o \in {"error", "retryafter", "context"}, Compensate(w, o)
      PROVE  Still(m, r) /\ world' = world
  <2> DEFINE back == Unwind([q EXCEPT !.err = [kind |-> "compensation", path |-> <<>>]])
             away == Unwind([q EXCEPT !.cancelled = TRUE,
                                      !.err = [kind |-> "context", path |-> <<>>]])
  <2>1. \/ n = Persist(q, m, "return")
        \/ n = PersistThen(back, m)
        \/ n = away
    BY <1>1, <1>8 DEF Compensate, Set
  <2>2. world' = world BY <1>8 DEF Compensate
  <2>3. back \in Call
    <3> DEFINE p == [q EXCEPT !.err = [kind |-> "compensation", path |-> <<>>]]
    <3>1. p \in Call BY <1>1, ContextType
    <3> HIDE DEF p
    <3>2. Unwind(p) \in Call BY <3>1, UnwindType
    <3> QED BY <3>2 DEF p
  <2>4. away.mem = m
    <3> DEFINE p == [q EXCEPT !.cancelled = TRUE, !.err = [kind |-> "context", path |-> <<>>]]
    <3>1. p \in Call /\ p.mem = m BY <1>1, ContextType DEF Call
    <3> HIDE DEF p, m
    <3>2. Unwind(p).mem = m BY <3>1, UnwindIs
    <3> QED BY <3>2 DEF p
  <2> HIDE DEF back, away
  <2>5. Persist(q, m, "return").mem = m /\ PersistThen(back, m).mem = m
    BY <1>1, <2>3, PersistIs, PersistThenIs
  <2>6. r = m BY <2>1, <2>4, <2>5
  <2> QED BY <2>2, <2>6 DEF Still
<1>9. CASE Compensate(w, "ok")
  <2> DEFINE down == [m EXCEPT !.compensationIndex = @ - 1]
             W == world \ {Due(m).path}
  <2>1. n = Persist(q, down, "compensate") /\ world' = W
    BY <1>1, <1>9 DEF Compensate, Set
  <2>2. m.compensationIndex + 1 \in DOMAIN m.completed /\ Due(m).compensator
    BY <1>9 DEF Compensate, AtCompletion
  <2>3. /\ down.status = m.status /\ down.completed = m.completed
        /\ down.compensationIndex = m.compensationIndex - 1
    BY <1>1 DEF RunState
  <2> HIDE DEF down
  <2>4. r = down BY <1>1, <2>1, PersistIs
  <2>5. \A i, j \in DOMAIN m.completed : m.completed[i].path = m.completed[j].path => i = j
    <3>1. m.completed \in Seq(Completion) /\ InOrder(m.completed)
      BY <1>1 DEF RunState, Orderly
    <3> QED BY <3>1, OnceInOrder
  <2> HIDE DEF q, n, r
  <2>6. /\ m \in RunState /\ m.status = "compensating" /\ Settled(m, world)
        /\ down.status = "compensating"
    BY <1>1, <1>3, <2>3
  <2> DEFINE k == m
  <2>7. Settled(k, W) /\ Settled(down, W)
    <3>1. k \in RunState /\ k.status = "compensating" /\ Settled(k, world)
          /\ down.completed = k.completed /\ down.compensationIndex = k.compensationIndex - 1
          /\ k.compensationIndex + 1 \in DOMAIN k.completed /\ Due(k).compensator
          /\ \A i, j \in DOMAIN k.completed : k.completed[i].path = k.completed[j].path => i = j
      BY <2>2, <2>3, <2>5, <2>6
    <3> DEFINE V == world \ {Due(k).path}
    <3>2. W = V OBVIOUS
    <3> HIDE DEF k, W
    <3>3. Settled(k, V) /\ Settled(down, V) BY <2>6, <3>1, SettledUndo
    <3> QED BY <3>2, <3>3
  <2>8. Settled(store, W)
    <3>1. CASE Mode = "none"
      <4>1. store.status = "new" /\ store.completed = <<>> BY <3>1 DEF Agreed
      <4> QED BY <4>1 DEF Settled, Compensable
    <3>2. CASE Mode # "none"
      <4>1. /\ store.status = m.status /\ store.completed = m.completed
            /\ Owed(store) = Owed(m)
        BY <1>2, <2>6, <3>2, UndoesDurable DEF q
      <4> QED BY <2>7, <4>1, SettledSame
    <3> QED BY <3>1, <3>2
  <2> QED BY <2>1, <2>4, <2>7, <2>8 DEF r, n
<1> QED BY <1>4, <1>5, <1>6, <1>7, <1>8, <1>9

\* The agreement is inductive.
LEMMA StepKeepsAgreed ==
  ASSUME Alone, ~CallerSaves, TypeOK, Position, Lineage, Orderly, Stepwise, Agreed, [Next]_vars
  PROVE  Agreed'
<1>1. TypeOK' BY StepPreservesType
<1>2. proc \in [Worker -> Call] /\ \A w \in Worker : proc[w].mem \in RunState
  BY DEF TypeOK, Call
<1>3. Mode = "none" => store' = store
  BY WhoWrites DEF SnapshotAckLost
<1>4. ASSUME NEW w \in Worker, Settled(store', world'),
             proc'[w].pc # "idle" => Settled(proc'[w].mem, world')
      PROVE  Agreed'
  <2>1. \A v \in Worker : v = w BY DEF Alone
  <2> QED BY <1>3, <1>4, <2>1 DEF Agreed
<1>5. Settled(store, world) /\ \A w \in Worker : proc[w].pc # "idle" => Settled(proc[w].mem, world)
  BY DEF Agreed
<1>6. \A w \in Worker : Placed(proc[w]) BY DEF Position
<1>7. NoCall.pc = "idle" BY DEF NoCall
<1>8. ASSUME NEW w \in Worker, SnapshotOK(w) \/ SnapshotAckLost(w) PROVE Agreed'
  <2> DEFINE m == Written(proc[w].mem)
             on == [proc[w] EXCEPT !.pc = proc[w].next, !.mem = m]
             go == [proc[w] EXCEPT !.pc = proc[w].next]
  <2>1. Settled(proc[w].mem, world) /\ world' = world
    BY <1>5, <1>8 DEF SnapshotOK, SnapshotAckLost
  <2>2. Settled(m, world)
    <3>1. Still(proc[w].mem, m) BY <1>2 DEF Written, RunState, Still
    <3> QED BY <2>1, <3>1, SettledStill
  <2>3. \/ store' = m /\ (proc'[w] = on \/ proc'[w] = NoCall)
        \/ store' = store /\ proc'[w] = go
    BY <1>2, <1>8 DEF SnapshotOK, SnapshotAckLost, Set
  <2> HIDE DEF m
  <2>4. on.mem = m /\ go.mem = proc[w].mem BY <1>2 DEF Call
  <2> HIDE DEF on, go
  <2> QED BY <1>4, <1>5, <1>7, <2>1, <2>2, <2>3, <2>4
<1>9. ASSUME NEW w \in Worker, WorkerStep(w) PROVE Agreed'
  <2>1. CASE Start(w)
    <3>1. Settled(proc[w].mem, world) /\ store' = store /\ world' = world
      BY <1>5, <2>1 DEF Start, Local
    <3> QED BY <1>4, <1>5, <1>6, <2>1, <3>1, StartAgreed
  <2>2. CASE SnapshotFailed(w) \/ Return(w)
    <3>1. proc'[w] = NoCall /\ store' = store /\ world' = world
      BY <1>2, <2>2 DEF SnapshotFailed, Return, Local, Set
    <3> QED BY <1>4, <1>5, <1>7, <3>1
  <2>3. CASE \/ SkipCompleted(w) \/ StopCancelled(w) \/ EnterStep(w) \/ ScopeDone(w)
             \/ EnsureRepeatStarted(w) \/ CheckRepeatTimeout(w)
             \/ \E o \in Outcome : OnEnter(w, o)
             \/ \E o \in Outcome : Do(w, o)
             \/ Sleep(w) \/ PollTimeout(w)
             \/ \E o \in Outcome \cup {"pending"} : Check(w, o)
             \/ ResumeBranch(w)
             \/ \E key \in Key : Decide(w, key)
             \/ \E o \in Outcome : DecideFailed(w, o)
             \/ BeginIteration(w) \/ UntilTimeout(w)
             \/ \E o \in Outcome \cup {"more"} : Until(w, o)
    <3>1. store' = store
      BY <2>3 DEF SkipCompleted, StopCancelled, EnterStep, ScopeDone, EnsureRepeatStarted,
         CheckRepeatTimeout, OnEnter, Do, Sleep, PollTimeout, Check, ResumeBranch, Decide,
         DecideFailed, BeginIteration, Until, UntilTimeout, Local
    <3>2. Settled(store, world') /\ Settled(proc'[w].mem, world')
      BY <1>6, <2>3, ForwardAgreed
    <3> QED BY <1>4, <3>1, <3>2
  <2>4. CASE RaiseCancelled(w) \/ Propagate(w) \/ RaiseNoCompensate(w) \/ RaiseFailure(w)
    <3>1. proc[w].pc = "raise" /\ store' = store /\ world' = world
      BY <2>4 DEF RaiseCancelled, Propagate, RaiseNoCompensate, RaiseFailure, Local, At
    <3>2. Settled(proc[w].mem, world) BY <1>5, <3>1
    <3> QED BY <1>1, <1>4, <1>5, <2>4, <3>1, <3>2, RaiseAgreed
  <2>5. CASE \/ SkipCompensation(w) \/ CompensationCancelled(w) \/ CompensationDone(w)
             \/ \E o \in {"ok", "error", "retryafter", "context"} : Compensate(w, o)
    <3>1. store' = store
      BY <2>5 DEF SkipCompensation, CompensationCancelled, CompensationDone, Compensate, Local
    <3>2. Settled(store, world') /\ Settled(proc'[w].mem, world')
      BY <1>1, <2>5, CompensationAgreed
    <3> QED BY <1>4, <3>1, <3>2
  <2> QED BY <1>8, <1>9, <2>1, <2>2, <2>3, <2>4, <2>5 DEF WorkerStep
<1>10. ASSUME NEW w \in Worker, Load(w) \/ Crash(w) \/ Cancel(w) PROVE Agreed'
  <2>1. store' = store /\ world' = world BY <1>10 DEF Load, Crash, Cancel, Local
  <2>2. CASE Load(w)
    <3>1. proc'[w].mem = store BY <1>2, <2>2 DEF Load, Set, NoCall
    <3> QED BY <1>4, <1>5, <2>1, <3>1
  <2>3. CASE Crash(w)
    <3>1. proc'[w] = NoCall BY <1>2, <2>3 DEF Crash, Local, Set
    <3> QED BY <1>4, <1>5, <1>7, <2>1, <3>1
  <2>4. CASE Cancel(w)
    <3>1. proc[w].pc # "idle" /\ proc'[w].mem = proc[w].mem
      BY <1>2, <2>4 DEF Cancel, Local, Set, Call
    <3> QED BY <1>4, <1>5, <2>1, <3>1
  <2> QED BY <1>10, <2>2, <2>3, <2>4
<1>11. CASE Tick \/ UNCHANGED vars BY <1>11 DEF Tick, vars, Agreed
<1> QED BY <1>8, <1>9, <1>10, <1>11 DEF Next, Terminated

\* Whatever crashes, is cut off or is lost, the effects outside are at every moment those
\* that the durable journal says: all of them in force while a lone worker goes forward,
\* undone down to the compensation index while it rolls back, all undone once it failed.
THEOREM EffectsFollowJournalHolds ==
  ASSUME Alone, ~CallerSaves
  PROVE  Spec => []EffectsFollowJournal
<1>1. Guarded BY DEF Guarded
<1>2. Init => Orderly /\ Stepwise BY InitOrderly, InitSaga
<1>3. Init => Agreed
  <2> SUFFICES ASSUME Init PROVE Agreed OBVIOUS
  <2>1. store = NewRun /\ \A w \in Worker : proc[w].pc = "idle" BY DEF Init, NoCall
  <2>2. store.status = "new" /\ store.completed = <<>> BY <2>1 DEF NewRun
  <2> QED BY <2>1, <2>2 DEF Agreed, Settled, Compensable
<1>4. TypeOK /\ Position /\ Orderly /\ [Next]_vars => Orderly' BY StepKeepsOrder
<1>5. TypeOK /\ Position /\ Lineage /\ Orderly /\ Stepwise /\ [Next]_vars => Stepwise'
  BY <1>1, StepKeepsStepwise
<1>6. TypeOK /\ Position /\ Lineage /\ Orderly /\ Stepwise /\ Agreed /\ [Next]_vars => Agreed'
  BY StepKeepsAgreed
<1>7. TypeOK /\ Agreed => EffectsFollowJournal
  <2> SUFFICES ASSUME TypeOK, Agreed PROVE EffectsFollowJournal OBVIOUS
  <2>1. store \in RunState BY DEF TypeOK
  <2>2. Undone = Compensable(store) \ Owed(store) /\ ToUndo = Owed(store)
    <3>1. Undone \subseteq Compensable(store) /\ Owed(store) \subseteq Compensable(store)
      BY DEF Undone, Owed
    <3>2. Owed(store) = Compensable(store) \ Undone BY <2>1, SagaOfState DEF Undone
    <3> QED BY <3>1, <3>2 DEF ToUndo
  <2>3. Settled(store, world) BY DEF Agreed
  <2> QED BY <2>2, <2>3 DEF Settled, EffectsFollowJournal
<1> QED BY <1>1, <1>2, <1>3, <1>4, <1>5, <1>6, <1>7, TypeCorrect, PositionHolds, LineageHolds,
           PTL DEF Spec

-----------------------------------------------------------------------------
(* The action that comes next.                                             *)

\* The repeats around the step at the path x are in the iterations that x names, and none
\* of them waits for its condition.
Unbarred(m, x) ==
  \A y \in Path : Odd(Len(y)) /\ Def[Last(y)].kind = "repeat" /\ Under(y, x) =>
    RepeatAt(m, y).iteration = x[Len(y) + 1] /\ ~RepeatAt(m, y).awaiting

\* A run at the path cp comes to x next: x is at or below cp, or cp is completed, and with it
\* every scope around cp that is not around x.
Reaches(J, cp, x) ==
  IF cp \in J
    THEN /\ ~Leads(cp, x)
         /\ \A z \in Path : ~Odd(Len(z)) /\ Leads(z, cp) /\ ~Leads(z, x) => Full(J, z, ScopeAt(z))
    ELSE Leads(cp, x)

\* The action at the path x may be the next one that the run m executes.
Impends(m, x) ==
  /\ x \in Path /\ Odd(Len(x)) /\ Def[Last(x)].kind = "action"
  /\ x \notin CompletedPaths(m) /\ Route(CompletedPaths(m), x)
  /\ Unbarred(m, x) /\ Reaches(CompletedPaths(m), m.currentPath, x)

\* Nothing in J is at or below the path that agrees with x up to position e.
Beyond(J, x, e) == \A a \in J : e <= Len(a) => ~Agree(a, x, e)

\* A path has prefixes of every length.
LEMMA Prefixed ==
  ASSUME NEW x \in Path, NEW d \in Nat, d <= Len(x)
  PROVE  \E y \in Path : Len(y) = d /\ Leads(y, x)
<1> DEFINE y == SubSeq(x, 1, d)
<1>1. x \in Seq(Segment) /\ Len(x) \in Nat BY DEF Path
<1>2. y \in Seq(Segment) /\ Len(y) = d /\ \A e \in 1..d : y[e] = x[e] BY <1>1
<1> HIDE DEF y
<1>3. y \in Path /\ Leads(y, x) BY <1>2 DEF Path, Leads, Agree
<1> QED BY <1>2, <1>3

\* Two paths of which neither leads to the other part somewhere.
LEMMA Diverge ==
  ASSUME NEW x \in Path, NEW y \in Path, ~Leads(x, y), ~Leads(y, x)
  PROVE  \E d \in Nat : /\ d >= 1 /\ d \in DOMAIN x /\ d \in DOMAIN y
                        /\ x[d] # y[d] /\ Agree(x, y, d - 1)
<1> DEFINE T == {d \in Nat : d >= 1 /\ d <= Len(x) /\ d <= Len(y) /\ x[d] # y[d]}
<1>1. Len(x) \in Nat /\ Len(y) \in Nat /\ DOMAIN x = 1..Len(x) /\ DOMAIN y = 1..Len(y)
  BY DEF Path
<1>2. T # {}
  <2>1. CASE Len(x) <= Len(y)
    <3>1. PICK d \in 1..Len(x) : x[d] # y[d] BY <2>1 DEF Leads, Agree
    <3> QED BY <1>1, <2>1, <3>1
  <2>2. CASE Len(y) <= Len(x)
    <3>1. PICK d \in 1..Len(y) : x[d] # y[d] BY <2>2 DEF Leads, Agree
    <3> QED BY <1>1, <2>2, <3>1
  <2> QED BY <1>1, <2>1, <2>2
<1>3. PICK d \in T : \A e \in T : d <= e
  <2>1. T \in SUBSET Nat OBVIOUS
  <2> QED BY <1>2, <2>1, LeastMember
<1>4. d \in Nat /\ d >= 1 /\ d <= Len(x) /\ d <= Len(y) /\ x[d] # y[d] OBVIOUS
<1>5. ASSUME NEW e \in 1..(d - 1) PROVE x[e] = y[e]
  <2>1. e \in Nat /\ e >= 1 /\ e < d BY <1>4
  <2>2. e \notin T BY <1>3, <1>4, <2>1
  <2> QED BY <1>1, <1>4, <2>1, <2>2
<1>6. Agree(x, y, d - 1) BY <1>5 DEF Agree
<1> QED BY <1>1, <1>4, <1>6

\* Agreement of paths.
LEMMA AgreeIs ==
  ASSUME NEW x, NEW y, NEW d
  PROVE  /\ Agree(x, y, d) <=> Agree(y, x, d)
         /\ \A z : Agree(x, y, d) /\ Agree(y, z, d) => Agree(x, z, d)
         /\ \A e : e \in Nat /\ d \in Nat /\ e <= d /\ Agree(x, y, d) => Agree(x, y, e)
         /\ d \in Nat /\ d >= 1 => (Agree(x, y, d) <=> Agree(x, y, d - 1) /\ x[d] = y[d])
<1>1. d \in Nat /\ d >= 1 => \A e : e \in 1..d <=> e \in 1..(d - 1) \/ e = d OBVIOUS
<1>2. \A e : e \in Nat /\ d \in Nat /\ e <= d => \A k \in 1..e : k \in 1..d OBVIOUS
<1> QED BY <1>1, <1>2 DEF Agree

\* A path of the length of what it agrees on leads there.
LEMMA AgreeLeads ==
  ASSUME NEW y \in Path, NEW x \in Path
  PROVE  /\ Len(y) <= Len(x) /\ Agree(y, x, Len(y)) <=> Leads(y, x)
         /\ Len(y) < Len(x) /\ Leads(y, x) <=> Under(y, x)
         /\ Len(y) \in Nat /\ DOMAIN y = 1..Len(y)
<1>1. Len(y) \in Nat /\ Len(x) \in Nat /\ DOMAIN y = 1..Len(y) BY DEF Path
<1> QED BY <1>1 DEF Leads, Under

\* The scope of a position depends on the path before it.
LEMMA ScopeSame ==
  ASSUME NEW q \in Path, NEW r \in Path, NEW d \in Nat, d >= 1, Odd(d), Agree(q, r, d - 1)
  PROVE  ScopeOf(q, d) = ScopeOf(r, d)
<1>1. d # 1 => d - 1 \in 1..(d - 1) /\ d - 2 \in 1..(d - 1)
  <2>1. d # 1 => d >= 3 BY Parity
  <2> QED BY <2>1
<1> QED BY <1>1 DEF ScopeOf, Agree

\* On a path of nodes every odd position is a step of its scope, where it occurs once.
LEMMA NodeScopes ==
  ASSUME NEW q \in Path, \A d \in DOMAIN q : NodeOf(q, d)
  PROVE  \A d \in DOMAIN q : Odd(d) =>
           q[d] \in Step /\ ScopeOf(q, d) \in Seq(Step) /\ ScopeOK(ScopeOf(q, d))
<1> DEFINE Good(d) == q[d] \in Step /\ ScopeOf(q, d) \in Seq(Step) /\ ScopeOK(ScopeOf(q, d))
           T == {d \in Nat : d >= 1 /\ d <= Len(q) /\ Odd(d) /\ ~Good(d)}
<1>1. Len(q) \in Nat /\ DOMAIN q = 1..Len(q) BY DEF Path
<1>2. SUFFICES T = {} BY <1>1
<1>3. SUFFICES ASSUME T # {} PROVE FALSE OBVIOUS
<1>4. PICK d \in T : \A e \in T : d <= e
  <2>1. T \in SUBSET Nat OBVIOUS
  <2> QED BY <1>3, <2>1, LeastMember
<1>5. d \in Nat /\ d >= 1 /\ d <= Len(q) /\ Odd(d) /\ ~Good(d) OBVIOUS
<1>6. ScopeOf(q, d) \in Seq(Step) /\ ScopeOK(ScopeOf(q, d))
  <2>1. CASE d = 1 BY <2>1, DefinitionAssumption DEF ScopeOf
  <2>2. CASE d # 1
    <3> DEFINE def == Def[q[d - 2]]
    <3>1. d >= 3 BY <1>5, <2>2, Parity
    <3>2. /\ d - 2 \in Nat /\ d - 2 >= 1 /\ d - 2 <= Len(q) /\ ~(d <= d - 2)
          /\ d - 1 \in Nat /\ d - 1 >= 1 /\ d - 1 <= Len(q) /\ (d - 1) - 1 = d - 2
      BY <1>1, <1>5, <3>1
    <3>3. Odd(d - 2) /\ ~Odd(d - 1)
      <4>1. d - 2 \in Nat /\ (d - 2) + 1 = d - 1 /\ d - 1 \in Nat /\ (d - 1) + 1 = d BY <3>2
      <4>2. ~Odd(d - 1) BY <1>5, <4>1, Parity
      <4> QED BY <4>1, <4>2, Parity
    <3>4. Good(d - 2) BY <1>4, <3>2, <3>3
    <3>5. StepOK(def) BY <3>4, DefinitionAssumption
    <3>6. NodeOf(q, d - 1) BY <1>1, <3>2
    <3>7. IF def.kind = "repeat" THEN TRUE
          ELSE def.kind = "branch" /\ q[d - 1] \in DOMAIN def.paths
      BY <3>2, <3>3, <3>6 DEF NodeOf
    <3>8. ScopeOf(q, d) = IF def.kind = "branch" THEN def.paths[q[d - 1]] ELSE def.body
      BY <2>2 DEF ScopeOf
    <3> HIDE DEF def
    <3> QED BY <3>5, <3>7, <3>8 DEF StepOK
  <2> QED BY <2>1, <2>2
<1>7. q[d] \in Step
  <2>1. NodeOf(q, d) BY <1>1, <1>5
  <2>2. PICK j \in DOMAIN ScopeOf(q, d) : ScopeOf(q, d)[j] = q[d] BY <1>5, <2>1 DEF NodeOf
  <2> QED BY <1>6, <2>2
<1> QED BY <1>5, <1>6, <1>7

\* Where two paths on a route part at a step, of one scope, one of them is not after the other.
LEMMA PartOnce ==
  ASSUME NEW x \in Path, NEW y \in Path, \A d \in DOMAIN x : NodeOf(x, d),
         NEW d \in DOMAIN x, d >= 1, Odd(d), Agree(x, y, d - 1), x[d] # y[d]
  PROVE  ~(NotAfter(x, y, d) /\ NotAfter(y, x, d))
<1>1. d \in Nat BY DEF Path
<1>2. ScopeOf(x, d) = ScopeOf(y, d) BY <1>1, ScopeSame
<1>3. ScopeOf(x, d) \in Seq(Step) /\ ScopeOK(ScopeOf(x, d)) BY NodeScopes
<1> DEFINE s == ScopeOf(x, d)
<1>4. SUFFICES ASSUME NEW i \in DOMAIN s, NEW j \in DOMAIN s, i < j, s[i] = x[d], s[j] = y[d],
                      NEW k \in DOMAIN s, NEW l \in DOMAIN s, k < l, s[k] = y[d], s[l] = x[d]
               PROVE  FALSE
  BY <1>2 DEF NotAfter
<1> HIDE DEF s
<1>5. j = k /\ i = l BY <1>3, <1>4 DEF ScopeOK, s
<1>6. i \in Nat /\ j \in Nat /\ k \in Nat /\ l \in Nat BY <1>3 DEF s
<1> QED BY <1>4, <1>5, <1>6

\* An elder sibling of a step on the way to x is completed.
LEMMA ElderListed ==
  ASSUME NEW J \in SUBSET Path, NEW x \in Path, Route(J, x), NEW y \in Path, NEW d \in DOMAIN x,
         d >= 1, Odd(d), Agree(y, x, d - 1), NotAfter(y, x, d), y[d] # x[d]
  PROVE  \E a \in J : Len(a) = d /\ Agree(a, y, d)
<1>1. d \in Nat BY DEF Path
<1>2. PICK i, j \in DOMAIN ScopeOf(x, d) :
        i < j /\ ScopeOf(x, d)[i] = y[d] /\ ScopeOf(x, d)[j] = x[d]
  BY DEF NotAfter
<1>3. Elders(J, x, d) BY DEF Route
<1>4. Listed(J, x, d, y[d]) BY <1>2, <1>3 DEF Elders
<1>5. PICK a \in J : Len(a) = d /\ Agree(a, x, d - 1) /\ a[d] = y[d] BY <1>4 DEF Listed
<1>6. Agree(a, y, d)
  <2>1. \A e \in 1..d : e \in 1..(d - 1) \/ e = d BY <1>1
  <2> QED BY <1>5, <2>1 DEF Agree
<1> QED BY <1>5, <1>6

\* A scope on the way to x that is completed holds a step on the way to x.
LEMMA FullListed ==
  ASSUME NEW J \in SUBSET Path, NEW x \in Path, \A d \in DOMAIN x : NodeOf(x, d),
         NEW z \in Path, ~Odd(Len(z)), Under(z, x), Full(J, z, ScopeAt(z))
  PROVE  \E v \in J : Len(v) = Len(z) + 1 /\ Leads(v, x) /\ v = Append(z, x[Len(z) + 1])
<1> DEFINE d == Len(z) + 1
<1>1. /\ Len(z) \in Nat /\ Len(x) \in Nat /\ d \in Nat /\ d >= 1 /\ d <= Len(x)
      /\ DOMAIN x = 1..Len(x) /\ d \in DOMAIN x /\ d - 1 = Len(z)
  BY DEF Path, Under
<1>2. Odd(d) BY <1>1, Parity
<1>3. PICK v \in Path : Len(v) = d /\ Leads(v, x) BY <1>1, Prefixed
<1>4. /\ Front(v) \in Path /\ Len(Front(v)) = Len(z) /\ v = Append(Front(v), v[d])
      /\ \A e \in 1..Len(z) : Front(v)[e] = v[e]
      /\ ScopeOf(v, d) = ScopeAt(Front(v))
  BY <1>1, <1>2, <1>3, LastScope
<1>5. Agree(v, x, d) /\ v[d] = x[d] /\ Agree(v, x, d - 1)
  <2>1. Agree(v, x, d) BY <1>3 DEF Leads
  <2> QED BY <1>1, <2>1 DEF Agree
<1>6. Front(v) = z
  <2>1. \A e \in 1..Len(z) : v[e] = x[e] BY <1>1, <1>5 DEF Agree
  <2>2. \A e \in 1..Len(z) : z[e] = x[e] BY DEF Under, Agree
  <2> QED BY <1>1, <1>4, <2>1, <2>2 DEF Path
<1>7. ScopeOf(x, d) = ScopeAt(z) BY <1>1, <1>2, <1>4, <1>5, <1>6, ScopeSame
<1>8. PICK j \in DOMAIN ScopeAt(z) : ScopeAt(z)[j] = x[d]
  <2>1. NodeOf(x, d) BY <1>1
  <2> QED BY <1>2, <1>7, <2>1 DEF NodeOf
<1>9. v \in J BY <1>4, <1>5, <1>6, <1>8 DEF Full
<1> QED BY <1>3, <1>4, <1>5, <1>6, <1>9

-----------------------------------------------------------------------------
(* There is one next action at most.                                       *)

\* The run m can be resumed, and its journal and the states of its repeats are as they should.
Ready(m) ==
  /\ m \in RunState /\ Tidy(m) /\ Tied(m.repeats, m.currentPath)
  /\ Resumable(CompletedPaths(m), m.currentPath)

\* What is known of such a run.
LEMMA ReadyIs ==
  ASSUME NEW m, Ready(m)
  PROVE  LET J == CompletedPaths(m)
             cp == m.currentPath
         IN
         /\ J \in SUBSET Path /\ cp \in Path /\ Route(J, cp) /\ Resumable(J, cp)
         /\ m \in RunState /\ m.repeats \in SUBSET RepeatState
         /\ Kempt(J, m.repeats) /\ Tied(m.repeats, cp) /\ \A a \in J : Odd(Len(a))
<1>1. CompletedPaths(m) \in SUBSET Path /\ m.currentPath \in Path BY PathsType DEF Ready
<1>2. m.repeats \in SUBSET RepeatState BY DEF Ready, RunState
<1> QED BY <1>1, <1>2 DEF Ready, Resumable, Tidy, Kempt

\* The iteration of a repeat that a tied path passes through is the one that is read.
LEMMA IterationAt ==
  ASSUME NEW m \in RunState, Tidy(m), NEW q \in Path, Tied(m.repeats, q),
         NEW y \in Path, Odd(Len(y)), Def[Last(y)].kind = "repeat", Under(y, q)
  PROVE  RepeatAt(m, y).iteration = q[Len(y) + 1]
<1>1. m.repeats \in SUBSET RepeatState BY DEF RunState
<1>2. y # <<>>
  <2>1. Len(y) # 0 BY Parity
  <2> QED BY <2>1
<1>3. PICK r \in m.repeats : r.path = y /\ r.iteration = q[Len(y) + 1] BY <1>1, <1>2, TiedAt
<1>4. RepeatAt(m, r.path) = r BY StateRead DEF Tidy
<1> QED BY <1>3, <1>4

\* Where a completed current path and the next action part, the action comes later, and
\* nothing is completed there or below.
LEMMA Frontier ==
  ASSUME NEW m, Ready(m), NEW x, Impends(m, x), m.currentPath \in CompletedPaths(m)
  PROVE  \E e \in Nat :
           LET cp == m.currentPath
           IN  /\ e >= 1 /\ e \in DOMAIN x /\ e \in DOMAIN cp /\ Odd(e)
               /\ x[e] # cp[e] /\ Agree(x, cp, e - 1) /\ NotAfter(cp, x, e)
               /\ Beyond(CompletedPaths(m), x, e)
<1> DEFINE J == CompletedPaths(m)
           cp == m.currentPath
<1>1. /\ J \in SUBSET Path /\ cp \in Path /\ Route(J, cp) /\ m \in RunState /\ Tidy(m)
      /\ Tied(m.repeats, cp) /\ cp \in J
  BY ReadyIs DEF Ready
<1>2. x \in Path /\ Odd(Len(x)) /\ Def[Last(x)].kind = "action" /\ x \notin J /\ Route(J, x)
      /\ Unbarred(m, x) /\ ~Leads(cp, x)
  BY <1>1 DEF Impends, Reaches
<1> HIDE DEF J, cp
<1>3. ~Leads(x, cp)
  <2>1. x # <<>>
    <3>1. Len(x) # 0 BY <1>2, Parity
    <3> QED BY <3>1
  <2> QED BY <1>1, <1>2, <2>1, LeafPath
<1>4. PICK d \in Nat : /\ d >= 1 /\ d \in DOMAIN x /\ d \in DOMAIN cp
                       /\ x[d] # cp[d] /\ Agree(x, cp, d - 1)
  BY <1>1, <1>2, <1>3, Diverge
<1>5. Agree(cp, x, d - 1) BY <1>4 DEF Agree
<1>6. NotAfter(cp, x, d) BY <1>1, <1>2, <1>4, <1>5 DEF Route
<1>7. Odd(d)
  <2>1. SUFFICES ASSUME ~Odd(d) PROVE FALSE OBVIOUS
  <2>2. d >= 2 /\ d - 1 \in Nat /\ Odd(d - 1) BY <1>4, <2>1, Parity
  <2>3. /\ Len(x) \in Nat /\ Len(cp) \in Nat /\ DOMAIN x = 1..Len(x) /\ DOMAIN cp = 1..Len(cp)
        /\ d - 1 < Len(x) /\ d - 1 < Len(cp)
    BY <1>1, <1>2, <1>4 DEF Path
  <2>4. PICK y \in Path : Len(y) = d - 1 /\ Leads(y, x) BY <1>2, <2>2, <2>3, Prefixed
  <2>5. Under(y, x) BY <2>3, <2>4 DEF Under, Leads
  <2>6. Under(y, cp) BY <1>4, <2>3, <2>4 DEF Under, Leads, Agree
  <2>7. Last(y) = x[d - 1]
    <3>1. d - 1 \in 1..(d - 1) BY <2>2
    <3> QED BY <2>4, <3>1 DEF Leads, Agree, Last
  <2>8. Def[Last(y)].kind # "repeat"
    <3>1. SUFFICES ASSUME Def[Last(y)].kind = "repeat" PROVE FALSE OBVIOUS
    <3>2. RepeatAt(m, y).iteration = x[d]
      <4>1. (d - 1) + 1 = d BY <2>2
      <4> QED BY <1>2, <2>2, <2>4, <2>5, <3>1, <4>1 DEF Unbarred
    <3>3. RepeatAt(m, y).iteration = cp[d]
      <4>1. (d - 1) + 1 = d BY <2>2
      <4> QED BY <1>1, <2>2, <2>4, <2>6, <3>1, <4>1, IterationAt
    <3> QED BY <1>4, <3>2, <3>3
  <2> QED BY <1>4, <1>6, <2>1, <2>7, <2>8 DEF NotAfter
<1>8. Beyond(J, x, d)
  <2>1. SUFFICES ASSUME NEW a \in J, d <= Len(a), Agree(a, x, d) PROVE FALSE BY DEF Beyond
  <2>2. a \in Path /\ Len(a) \in Nat /\ DOMAIN a = 1..Len(a) BY <1>1 DEF Path
  <2>3. d \in DOMAIN a BY <1>4, <2>1, <2>2
  <2>4. a[d] = x[d] /\ Agree(a, cp, d - 1) BY <1>4, <2>1 DEF Agree
  <2>5. NotAfter(a, cp, d) BY <1>1, <1>4, <2>3, <2>4 DEF Route
  <2>6. NotAfter(x, cp, d) BY <1>4, <1>7, <2>4, <2>5 DEF NotAfter
  <2>7. \A k \in DOMAIN x : NodeOf(x, k) BY <1>2 DEF Route
  <2> QED BY <1>1, <1>2, <1>4, <1>6, <1>7, <2>6, <2>7, PartOnce
<1> QED BY <1>4, <1>6, <1>7, <1>8 DEF J, cp

\* At a current path that is not completed, nothing is completed there or below.
LEMMA Open ==
  ASSUME NEW m, Ready(m), m.currentPath \notin CompletedPaths(m)
  PROVE  /\ \A a \in CompletedPaths(m) : ~Leads(m.currentPath, a)
         /\ \A x : Impends(m, x) =>
              Leads(m.currentPath, x) /\ Beyond(CompletedPaths(m), x, Len(m.currentPath))
<1> DEFINE J == CompletedPaths(m)
           cp == m.currentPath
<1>1. J \in SUBSET Path /\ cp \in Path /\ Resumable(J, cp) /\ cp \notin J BY ReadyIs
<1> HIDE DEF J, cp
<1>2. ASSUME NEW a \in J PROVE ~Leads(cp, a)
  <2>1. a \in Path BY <1>1
  <2>2. ~Under(cp, a) BY <1>1 DEF Resumable
  <2> QED BY <1>1, <2>1, <2>2, PathOrder
<1>3. ASSUME NEW x, Leads(cp, x) PROVE Beyond(J, x, Len(cp))
  <2>1. SUFFICES ASSUME NEW a \in J, Len(cp) <= Len(a), Agree(a, x, Len(cp)) PROVE FALSE
    BY DEF Beyond
  <2>2. Leads(cp, a) BY <1>3, <2>1 DEF Leads, Agree
  <2> QED BY <1>2, <2>2
<1> QED BY <1>1, <1>2, <1>3 DEF J, cp, Impends, Reaches

\* Two actions of which neither is completed, with routes along which the repeats are in the
\* same iterations, are the same if nothing is completed from where they may part.
LEMMA OneAction ==
  ASSUME NEW J \in SUBSET Path, NEW x \in Path, NEW y \in Path, Route(J, x), Route(J, y),
         Odd(Len(x)), Odd(Len(y)), Def[Last(x)].kind = "action", Def[Last(y)].kind = "action",
         NEW e \in Nat, (Odd(e) /\ Agree(x, y, e - 1)) \/ Agree(x, y, e),
         Beyond(J, x, e), Beyond(J, y, e),
         \A z \in Path :
           Odd(Len(z)) /\ Def[Last(z)].kind = "repeat" /\ Under(z, x) /\ Under(z, y) =>
             x[Len(z) + 1] = y[Len(z) + 1]
  PROVE  x = y
<1>1. SUFFICES ASSUME x # y PROVE FALSE OBVIOUS
<1>2. x # <<>> /\ y # <<>>
  <2>1. Len(x) # 0 /\ Len(y) # 0 BY Parity
  <2> QED BY <2>1
<1>3. ~Leads(x, y) BY <1>1, <1>2, LeafPath
<1>4. ~Leads(y, x) BY <1>1, <1>2, LeafPath
<1>5. PICK d \in Nat :
        d >= 1 /\ d \in DOMAIN x /\ d \in DOMAIN y /\ x[d] # y[d] /\ Agree(x, y, d - 1)
  BY <1>3, <1>4, Diverge
<1>6. e <= d /\ (e = d => Odd(d))
  <2>1. Agree(x, y, e) => e < d
    <3>1. SUFFICES ASSUME Agree(x, y, e), d <= e PROVE FALSE BY <1>5
    <3>2. d \in 1..e BY <1>5, <3>1
    <3> QED BY <1>5, <3>1, <3>2 DEF Agree
  <2>2. Odd(e) /\ Agree(x, y, e - 1) => e <= d
    <3>1. SUFFICES ASSUME Odd(e), Agree(x, y, e - 1), d < e PROVE FALSE BY <1>5
    <3>2. d \in 1..(e - 1) BY <1>5, <3>1
    <3> QED BY <1>5, <3>1, <3>2 DEF Agree
  <2> QED BY <1>5, <2>1, <2>2
<1>7. /\ Len(x) \in Nat /\ Len(y) \in Nat /\ DOMAIN x = 1..Len(x) /\ DOMAIN y = 1..Len(y)
  BY DEF Path
<1>8. CASE ~Odd(d)
  <2>1. d >= 2 /\ d - 1 \in Nat /\ Odd(d - 1) /\ e <= d - 1
    <3>1. d >= 2 /\ d - 1 \in Nat /\ Odd(d - 1) BY <1>5, <1>8, Parity
    <3> QED BY <1>6, <1>8, <3>1
  <2>2. d - 1 < Len(x) /\ d - 1 < Len(y) BY <1>5, <1>7
  <2>3. PICK z \in Path : Len(z) = d - 1 /\ Leads(z, x) BY <1>7, <2>1, <2>2, Prefixed
  <2>4. Under(z, x) BY <2>2, <2>3 DEF Under, Leads
  <2>5. Under(z, y) BY <1>5, <2>2, <2>3 DEF Under, Leads, Agree
  <2>6. z # <<>> /\ (d - 1) + 1 = d
    <3>1. Len(z) # 0 BY <2>1, <2>3
    <3> QED BY <2>1, <3>1
  <2>7. Def[Last(z)].kind # "repeat" BY <1>5, <2>1, <2>3, <2>4, <2>5, <2>6
  <2>8. z \in J BY <2>1, <2>3, <2>4, <2>6, <2>7, Along
  <2>9. Agree(z, x, e)
    <3>1. \A k \in 1..e : k \in 1..(d - 1) BY <2>1
    <3> QED BY <2>3, <3>1 DEF Leads, Agree
  <2> QED BY <2>1, <2>3, <2>8, <2>9 DEF Beyond
<1>9. CASE Odd(d)
  <2>1. ScopeOf(x, d) = ScopeOf(y, d) BY <1>5, <1>9, ScopeSame
  <2>2. NodeOf(x, d) /\ NodeOf(y, d) BY <1>5 DEF Route
  <2>3. PICK i \in DOMAIN ScopeOf(x, d) : ScopeOf(x, d)[i] = x[d] BY <1>9, <2>2 DEF NodeOf
  <2>4. PICK j \in DOMAIN ScopeOf(x, d) : ScopeOf(x, d)[j] = y[d]
    BY <1>9, <2>1, <2>2 DEF NodeOf
  <2>5. ScopeOf(x, d) \in Seq(Step) BY <1>5, <1>9, NodeScopes DEF Route
  <2>6. i \in Nat /\ j \in Nat /\ i # j BY <1>5, <2>3, <2>4, <2>5
  <2>7. ASSUME NEW u \in Path, Beyond(J, u, e), NEW a \in J, Len(a) = d, Agree(a, u, d)
        PROVE  FALSE
    <3>1. \A k \in 1..e : k \in 1..d BY <1>6
    <3>2. Agree(a, u, e) BY <2>7, <3>1 DEF Agree
    <3> QED BY <1>6, <2>7, <3>2 DEF Beyond
  <2>8. CASE i < j
    <3>1. NotAfter(x, y, d) BY <1>9, <2>1, <2>3, <2>4, <2>8 DEF NotAfter
    <3> QED BY <1>5, <1>9, <2>7, <3>1, ElderListed
  <2>9. CASE j < i
    <3>1. NotAfter(y, x, d) BY <1>9, <2>3, <2>4, <2>9 DEF NotAfter
    <3>2. Agree(y, x, d - 1) BY <1>5 DEF Agree
    <3> QED BY <1>5, <1>9, <2>7, <3>1, <3>2, ElderListed
  <2> QED BY <2>6, <2>8, <2>9
<1> QED BY <1>8, <1>9

\* At most one action comes next.
LEMMA OneImpends ==
  ASSUME NEW m, Ready(m), NEW x, NEW y, Impends(m, x), Impends(m, y)
  PROVE  x = y
<1> DEFINE J == CompletedPaths(m)
           cp == m.currentPath
           Is(u) == /\ u \in Path /\ Odd(Len(u)) /\ Def[Last(u)].kind = "action" /\ Route(J, u)
                    /\ Unbarred(m, u)
           Part(u, e) == /\ e \in Nat /\ e >= 1 /\ e \in DOMAIN u /\ e \in DOMAIN cp /\ Odd(e)
                         /\ u[e] # cp[e] /\ Agree(u, cp, e - 1) /\ NotAfter(cp, u, e)
                         /\ Beyond(J, u, e)
<1>1. J \in SUBSET Path /\ cp \in Path BY ReadyIs
<1>2. Is(x) /\ Is(y) BY DEF Impends
<1>3. \A z \in Path : Odd(Len(z)) /\ Def[Last(z)].kind = "repeat" /\ Under(z, x) /\ Under(z, y) =>
        x[Len(z) + 1] = y[Len(z) + 1]
  <2>1. SUFFICES ASSUME NEW z \in Path, Odd(Len(z)), Def[Last(z)].kind = "repeat",
                        Under(z, x), Under(z, y)
                 PROVE  x[Len(z) + 1] = y[Len(z) + 1]
    OBVIOUS
  <2>2. RepeatAt(m, z).iteration = x[Len(z) + 1] BY <1>2, <2>1 DEF Unbarred
  <2>3. RepeatAt(m, z).iteration = y[Len(z) + 1] BY <1>2, <2>1 DEF Unbarred
  <2> QED BY <2>2, <2>3
<1>4. CASE cp \notin J
  <2>1. /\ Leads(cp, x) /\ Beyond(J, x, Len(cp))
        /\ Leads(cp, y) /\ Beyond(J, y, Len(cp))
    BY <1>4, Open
  <2>2. Agree(x, y, Len(cp)) BY <2>1 DEF Leads, Agree
  <2>3. Len(cp) \in Nat BY <1>1 DEF Path
  <2> HIDE DEF J, cp
  <2>4. \A e \in Nat : Agree(x, y, e) /\ Beyond(J, x, e) /\ Beyond(J, y, e) => x = y
    BY <1>1, <1>2, <1>3, OneAction
  <2> QED BY <2>1, <2>2, <2>3, <2>4
<1>5. CASE cp \in J
  <2>1. PICK d \in Nat : Part(x, d) BY <1>5, Frontier
  <2>2. PICK e \in Nat : Part(y, e) BY <1>5, Frontier
  <2>3. \A z \in Path : ~Odd(Len(z)) /\ Leads(z, cp) =>
          /\ ~Leads(z, x) => Full(J, z, ScopeAt(z))
          /\ ~Leads(z, y) => Full(J, z, ScopeAt(z))
    BY <1>5 DEF Impends, Reaches
  <2> HIDE DEF J, cp
  <2>4. CASE d = e
    <3>1. Agree(x, y, d - 1) BY <2>1, <2>2, <2>4 DEF Agree
    <3> QED BY <1>1, <1>2, <1>3, <2>1, <2>2, <2>4, <3>1, OneAction
  <2>5. ASSUME NEW u, NEW v, NEW k \in Nat, NEW l \in Nat, Is(u), Is(v), Part(u, k), Part(v, l),
               k < l,
               \A z \in Path :
                 ~Odd(Len(z)) /\ Leads(z, cp) /\ ~Leads(z, u) => Full(J, z, ScopeAt(z))
        PROVE  FALSE
    <3>1. /\ l - 1 \in Nat /\ k <= l - 1 /\ l - 1 < Len(cp) /\ l - 1 < Len(v) /\ (l - 1) + 1 = l
          /\ Len(v) \in Nat /\ Len(cp) \in Nat
      BY <1>1, <2>5 DEF Path
    <3>2. ~Odd(l - 1)
      <4>1. Odd((l - 1) + 1) BY <2>5, <3>1
      <4> QED BY <3>1, <4>1, Parity
    <3>3. PICK z \in Path : Len(z) = l - 1 /\ Leads(z, cp) BY <1>1, <3>1, Prefixed
    <3>4. ~Leads(z, u)
      <4>1. k \in 1..(l - 1) BY <2>5, <3>1
      <4>2. z[k] = cp[k] BY <3>3, <4>1 DEF Leads, Agree
      <4>3. Leads(z, u) => z[k] = u[k] BY <3>3, <4>1 DEF Leads, Agree
      <4> QED BY <2>5, <4>2, <4>3
    <3>5. Full(J, z, ScopeAt(z)) BY <2>5, <3>2, <3>3, <3>4
    <3>6. Under(z, v) BY <2>5, <3>1, <3>3 DEF Under, Leads, Agree
    <3>7. \A i \in DOMAIN v : NodeOf(v, i) BY <2>5 DEF Route
    <3>8. PICK w \in J : Len(w) = Len(z) + 1 /\ Leads(w, v)
      BY <1>1, <2>5, <3>2, <3>3, <3>5, <3>6, <3>7, FullListed
    <3>9. Len(w) = l /\ Agree(w, v, l) BY <3>1, <3>3, <3>8 DEF Leads
    <3> QED BY <2>5, <3>9 DEF Beyond
  <2>6. ~(d < e) BY <1>2, <2>1, <2>2, <2>3, <2>5
  <2>7. ~(e < d) BY <1>2, <2>1, <2>2, <2>3, <2>5
  <2> QED BY <2>4, <2>6, <2>7
<1> QED BY <1>4, <1>5

\* Paths of the same length that lead to the same path are the same.
LEMMA SameLength ==
  ASSUME NEW q \in Path, NEW r \in Path, NEW a \in Path, Leads(q, a), Leads(r, a), Len(q) = Len(r)
  PROVE  q = r
<1>1. Len(q) \in Nat /\ Len(r) \in Nat BY DEF Path
<1> QED BY <1>1, Fork DEF Under

\* The next action lies below every step around the current path that is not completed.
LEMMA OnTheWay ==
  ASSUME NEW m, Ready(m), NEW x, Impends(m, x), NEW h \in Path, Odd(Len(h)),
         h \notin CompletedPaths(m), Leads(h, m.currentPath)
  PROVE  Leads(h, x)
<1> DEFINE J == CompletedPaths(m)
           cp == m.currentPath
           l == Len(h)
<1>1. J \in SUBSET Path /\ cp \in Path /\ Route(J, cp) BY ReadyIs
<1>2. x \in Path /\ Route(J, x) BY DEF Impends
<1>3. CASE cp \notin J
  <2>1. Leads(cp, x) BY <1>3, Open
  <2> QED BY <1>1, <1>2, <2>1, PathOrder
<1>4. CASE cp \in J
  <2>1. PICK e \in Nat :
          /\ e >= 1 /\ e \in DOMAIN x /\ e \in DOMAIN cp /\ Odd(e)
          /\ x[e] # cp[e] /\ Agree(x, cp, e - 1) /\ NotAfter(cp, x, e)
    BY <1>4, Frontier
  <2>2. \A z \in Path : ~Odd(Len(z)) /\ Leads(z, cp) /\ ~Leads(z, x) => Full(J, z, ScopeAt(z))
    BY <1>4 DEF Impends, Reaches
  <2>3. /\ l \in Nat /\ l >= 1 /\ Len(x) \in Nat /\ Len(cp) \in Nat /\ l <= Len(cp)
        /\ e <= Len(x) /\ e <= Len(cp) /\ l - 1 \in Nat /\ (l - 1) + 1 = l
    <3>1. l # 0 /\ l \in Nat BY Parity DEF Path
    <3>2. Len(x) \in Nat /\ Len(cp) \in Nat /\ l <= Len(cp) BY <1>1, <1>2 DEF Path, Leads
    <3>3. e <= Len(x) /\ e <= Len(cp) BY <1>1, <1>2, <2>1 DEF Path
    <3> QED BY <3>1, <3>2, <3>3
  <2>4. h \in Path /\ h \notin J /\ Leads(h, cp) /\ Odd(l) OBVIOUS
  <2> HIDE DEF J, cp
  <2>5. CASE l < e
    <3>1. \A k \in 1..l : k \in 1..(e - 1) BY <2>1, <2>3, <2>5
    <3>2. \A k \in 1..l : h[k] = x[k] BY <2>1, <2>4, <3>1 DEF Leads, Agree
    <3> QED BY <2>3, <2>5, <3>2 DEF Leads, Agree
  <2>6. CASE e <= l
    <3>1. ~Odd(l - 1) BY <2>3, <2>4, Parity
    <3>2. PICK z \in Path : Len(z) = l - 1 /\ Leads(z, cp)
      <4>1. l - 1 <= Len(cp) BY <2>3
      <4> QED BY <1>1, <2>3, <4>1, Prefixed
    <3>3. Leads(z, x)
      <4>1. SUFFICES ASSUME ~Leads(z, x) PROVE FALSE OBVIOUS
      <4>2. Full(J, z, ScopeAt(z)) BY <2>2, <3>1, <3>2, <4>1
      <4>3. Under(z, cp) BY <2>3, <3>2 DEF Under, Leads
      <4>4. PICK v \in J : Len(v) = Len(z) + 1 /\ Leads(v, cp)
        <5>1. \A d \in DOMAIN cp : NodeOf(cp, d) BY <1>1 DEF Route
        <5> QED BY <1>1, <3>1, <3>2, <4>2, <4>3, <5>1, FullListed
      <4>5. v = h
        <5>1. v \in Path /\ Len(v) = l BY <1>1, <2>3, <3>2, <4>4
        <5> QED BY <1>1, <2>4, <4>4, <5>1, SameLength
      <4> QED BY <2>4, <4>4, <4>5
    <3>4. ~(e \in 1..(l - 1)) BY <2>1, <3>2, <3>3 DEF Leads, Agree
    <3>5. e = l
      <4>1. e \in Nat /\ e >= 1 /\ l \in Nat BY <2>1, <2>3
      <4> HIDE DEF l
      <4> QED BY <2>6, <3>4, <4>1
    <3>6. Agree(cp, x, e - 1) BY <2>1 DEF Agree
    <3>7. PICK a \in J : Len(a) = e /\ Agree(a, cp, e)
      BY <1>1, <1>2, <2>1, <3>6, ElderListed
    <3>8. a = h
      <4>1. a \in Path /\ Leads(a, cp) BY <1>1, <2>3, <3>7 DEF Leads
      <4> QED BY <1>1, <2>3, <2>4, <3>5, <3>7, <4>1, SameLength
    <3> QED BY <2>4, <3>7, <3>8
  <2> QED BY <2>1, <2>3, <2>5, <2>6
<1> QED BY <1>3, <1>4

\* The next action does not lie below a step around the completed current path if every scope
\* below the step and around that path is completed.
LEMMA NotBelow ==
  ASSUME NEW m, Ready(m), NEW x, Impends(m, x), m.currentPath \in CompletedPaths(m),
         NEW y \in Path, Odd(Len(y)), Leads(y, m.currentPath),
         \A z \in Path : ~Odd(Len(z)) /\ Under(y, z) /\ Leads(z, m.currentPath) =>
           Full(CompletedPaths(m), z, ScopeAt(z))
  PROVE  ~Leads(y, x)
<1> DEFINE J == CompletedPaths(m)
           cp == m.currentPath
           l == Len(y)
<1>1. J \in SUBSET Path /\ cp \in Path BY ReadyIs
<1>2. x \in Path /\ Route(J, x) BY DEF Impends
<1>3. PICK e \in Nat :
        /\ e >= 1 /\ e \in DOMAIN x /\ e \in DOMAIN cp /\ Odd(e)
        /\ x[e] # cp[e] /\ Agree(x, cp, e - 1) /\ Beyond(J, x, e)
  BY Frontier
<1>4. /\ l \in Nat /\ Odd(l) /\ Leads(y, cp)
      /\ \A z \in Path : ~Odd(Len(z)) /\ Under(y, z) /\ Leads(z, cp) => Full(J, z, ScopeAt(z))
  BY DEF Path
<1> HIDE DEF J, cp
<1>5. SUFFICES ASSUME Leads(y, x) PROVE FALSE OBVIOUS
<1>6. ~(e \in 1..l) BY <1>3, <1>4, <1>5 DEF Leads, Agree
<1>7. /\ Len(x) \in Nat /\ Len(cp) \in Nat /\ e <= Len(x) /\ e <= Len(cp)
      /\ e - 1 \in Nat /\ (e - 1) + 1 = e
  BY <1>1, <1>2, <1>3 DEF Path
<1>8. ~Odd(e - 1) BY <1>3, <1>7, Parity
<1>9. l < e - 1
  <2>1. e - 1 # l BY <1>4, <1>8
  <2> QED BY <1>3, <1>4, <1>6, <2>1
<1>10. PICK z \in Path : Len(z) = e - 1 /\ Leads(z, cp)
  <2>1. e - 1 <= Len(cp) BY <1>7
  <2> QED BY <1>1, <1>7, <2>1, Prefixed
<1>11. Under(y, z) BY <1>1, <1>4, <1>9, <1>10, Fork DEF Under
<1>12. Full(J, z, ScopeAt(z)) BY <1>4, <1>8, <1>10, <1>11
<1>13. Under(z, x) BY <1>3, <1>7, <1>10 DEF Under, Leads, Agree
<1>14. PICK v \in J : Len(v) = Len(z) + 1 /\ Leads(v, x)
  <2>1. \A d \in DOMAIN x : NodeOf(x, d) BY <1>2 DEF Route
  <2>2. z \in Path /\ ~Odd(Len(z)) BY <1>8, <1>10
  <2> QED BY <1>1, <1>2, <1>12, <1>13, <2>1, <2>2, FullListed
<1>15. Len(v) = e /\ Agree(v, x, e) BY <1>7, <1>10, <1>14 DEF Leads
<1> QED BY <1>3, <1>15 DEF Beyond

\* The states m and n differ in nothing that tells which action comes next.
SameCourse(m, n) ==
  /\ CompletedPaths(n) = CompletedPaths(m) /\ n.currentPath = m.currentPath
  /\ \A y \in Path : /\ RepeatAt(n, y).iteration = RepeatAt(m, y).iteration
                     /\ RepeatAt(n, y).awaiting = RepeatAt(m, y).awaiting

LEMMA ImpendsSame ==
  ASSUME NEW m, NEW n, SameCourse(m, n), NEW x
  PROVE  Impends(m, x) <=> Impends(n, x)
<1>1. Unbarred(m, x) <=> Unbarred(n, x) BY DEF Unbarred, SameCourse
<1>2. Reaches(CompletedPaths(m), m.currentPath, x) <=> Reaches(CompletedPaths(n), n.currentPath, x)
  BY DEF SameCourse
<1> QED BY <1>1, <1>2 DEF Impends, SameCourse

\* The same journal, path and states of repeats.
LEMMA TrackCourse ==
  ASSUME NEW m, NEW n, n.completed = m.completed, n.repeats = m.repeats,
         n.currentPath = m.currentPath
  PROVE  SameCourse(m, n)
BY DEF SameCourse, CompletedPaths, RepeatAt

\* No action comes next while the condition of a repeat around the current path is due.
LEMMA NoneAtUntil ==
  ASSUME NEW m, Ready(m), NEW h \in Path, Odd(Len(h)), h \notin CompletedPaths(m),
         Leads(h, m.currentPath), Def[Last(h)].kind = "repeat", RepeatAt(m, h).awaiting, NEW x
  PROVE  ~Impends(m, x)
<1>1. SUFFICES ASSUME Impends(m, x) PROVE FALSE OBVIOUS
<1>2. Leads(h, x) BY <1>1, OnTheWay
<1>3. x \in Path /\ Def[Last(x)].kind = "action" /\ Unbarred(m, x) BY <1>1 DEF Impends
<1>4. Under(h, x)
  <2>1. x # h BY <1>3
  <2> QED BY <1>2, <1>3, <2>1, PathOrder
<1> QED BY <1>3, <1>4 DEF Unbarred

\* At an action which is not completed, that one comes next.
LEMMA CallImpends ==
  ASSUME NEW m, Ready(m), NEW u \in Path, u = m.currentPath, Odd(Len(u)),
         u \notin CompletedPaths(m), Def[Last(u)].kind = "action"
  PROVE  /\ Awake(m, u) => Impends(m, u)
         /\ \A x : Impends(m, x) => x = u
<1>1. /\ CompletedPaths(m) \in SUBSET Path /\ Route(CompletedPaths(m), u)
      /\ m \in RunState /\ Tidy(m) /\ Tied(m.repeats, u)
  BY ReadyIs DEF Ready
<1>2. Leads(u, u) BY PathOrder
<1>3. ASSUME Awake(m, u) PROVE Unbarred(m, u)
  <2>1. SUFFICES ASSUME NEW y \in Path, Odd(Len(y)), Def[Last(y)].kind = "repeat", Under(y, u)
                 PROVE  RepeatAt(m, y).iteration = u[Len(y) + 1] /\ ~RepeatAt(m, y).awaiting
    BY DEF Unbarred
  <2>2. RepeatAt(m, y).iteration = u[Len(y) + 1] BY <1>1, <2>1, IterationAt
  <2>3. ~RepeatAt(m, y).awaiting
    <3>1. SUFFICES ASSUME RepeatAt(m, y).awaiting PROVE FALSE OBVIOUS
    <3>2. RepeatAt(m, y) \in m.repeats /\ RepeatAt(m, y).path = y BY <1>1, <3>1, AwaitingRead
    <3> QED BY <1>3, <2>1, <3>1, <3>2 DEF Awake
  <2> QED BY <2>2, <2>3
<1>4. ASSUME NEW x, Impends(m, x) PROVE x = u
  <2>1. x \in Path /\ Route(CompletedPaths(m), x) /\ Leads(u, x) BY <1>4 DEF Impends, Reaches
  <2>2. u # <<>>
    <3>1. Len(u) # 0 BY Parity
    <3> QED BY <3>1
  <2> QED BY <1>1, <2>1, <2>2, LeafPath
<1> QED BY <1>1, <1>2, <1>3, <1>4 DEF Impends, Reaches

-----------------------------------------------------------------------------
(* Where the loop over a scope stands to the next action.                  *)

\* The loop over the scope of f has not begun, and the current path ends at the scope or at
\* the repeat around it.
Newly(J, cp, f) == f.i = f.start /\ cp \notin J /\ Leads(cp, f.base)

\* The current path is that of the last step that the loop has completed, or is completed
\* below that step, and so are the scopes around it there.
Behind(J, cp, f) ==
  /\ f.i > f.start /\ f.i - 1 \in DOMAIN f.steps /\ cp \in J /\ Leads(StepAt(f, f.i - 1), cp)
  /\ \A z \in Path : ~Odd(Len(z)) /\ Under(StepAt(f, f.i - 1), z) /\ Leads(z, cp) =>
       Full(J, z, ScopeAt(z))

\* The current path leads below the step that the loop is at, or is one of these.
Headed(J, cp, f) == Resuming(f, cp) \/ Newly(J, cp, f) \/ Behind(J, cp, f)

\* A path into the scope of a frame passes through one of its steps.
LEMMA InScope ==
  ASSUME NEW f \in Frame, Framed(f), NEW x \in Path, \A d \in DOMAIN x : NodeOf(x, d),
         Odd(Len(x)), Leads(f.base, x)
  PROVE  LET d == Len(f.base) + 1 IN
         /\ d \in DOMAIN x /\ d \in Nat /\ d >= 1 /\ Odd(d) /\ ScopeOf(x, d) = f.steps
         /\ \E j \in DOMAIN f.steps : x[d] = f.steps[j] /\ Leads(StepAt(f, j), x)
<1> DEFINE d == Len(f.base) + 1
<1>1. f.base \in Path /\ ~Odd(Len(f.base)) /\ f.steps = ScopeAt(f.base) BY DEF Frame, Framed
<1>2. /\ Len(f.base) \in Nat /\ Len(x) \in Nat /\ DOMAIN x = 1..Len(x) /\ Len(f.base) <= Len(x)
  BY <1>1 DEF Path, Leads
<1>3. d \in Nat /\ d >= 1 /\ Odd(d) /\ d - 1 = Len(f.base)
  <2>1. Odd(Len(f.base) + 1) BY <1>1, <1>2, Parity
  <2>2. \A n \in Nat : n + 1 \in Nat /\ n + 1 >= 1 /\ (n + 1) - 1 = n OBVIOUS
  <2> QED BY <1>2, <2>1, <2>2
<1>4. d <= Len(x) /\ d \in DOMAIN x
  <2>1. Len(f.base) # Len(x) BY <1>1
  <2> QED BY <1>2, <2>1
<1>5. PICK v \in Path : Len(v) = d /\ Leads(v, x) BY <1>3, <1>4, Prefixed
<1>6. /\ Front(v) \in Path /\ Len(Front(v)) = Len(f.base) /\ v = Append(Front(v), v[d])
      /\ \A e \in 1..Len(f.base) : Front(v)[e] = v[e]
      /\ ScopeOf(v, d) = ScopeAt(Front(v))
  BY <1>3, <1>5, LastScope
<1>7. Agree(v, x, d) /\ v[d] = x[d] /\ Agree(v, x, d - 1)
  <2>1. Agree(v, x, d) BY <1>5 DEF Leads
  <2> QED BY <1>3, <2>1 DEF Agree
<1>8. Front(v) = f.base
  <2>1. \A e \in 1..Len(f.base) : v[e] = x[e] BY <1>3, <1>7 DEF Agree
  <2>2. \A e \in 1..Len(f.base) : f.base[e] = x[e] BY DEF Leads, Agree
  <2> QED BY <1>1, <1>2, <1>6, <2>1, <2>2 DEF Path
<1>9. ScopeOf(x, d) = f.steps BY <1>1, <1>3, <1>5, <1>6, <1>7, <1>8, ScopeSame
<1>10. PICK j \in DOMAIN f.steps : f.steps[j] = x[d]
  <2>1. NodeOf(x, d) BY <1>4
  <2> QED BY <1>3, <1>9, <2>1 DEF NodeOf
<1>11. Leads(StepAt(f, j), x) BY <1>5, <1>6, <1>7, <1>8, <1>10 DEF StepAt
<1> QED BY <1>3, <1>4, <1>9, <1>10, <1>11

\* Nothing is completed in a scope that has newly begun, so that the loop is at its first step.
LEMMA NewlyFirst ==
  ASSUME NEW m, Ready(m), NEW f \in Frame, Framed(f),
         Stands(CompletedPaths(m), m.currentPath, f),
         Newly(CompletedPaths(m), m.currentPath, f)
  PROVE  /\ \A a \in CompletedPaths(m) : ~Leads(f.base, a)
         /\ f.steps # <<>> => f.i = 1 /\ f.i \in DOMAIN f.steps
<1> DEFINE J == CompletedPaths(m)
           cp == m.currentPath
<1>1. J \in SUBSET Path /\ cp \in Path BY ReadyIs
<1>2. f.base \in Path /\ f.steps \in Seq(Step) /\ f.i \in Nat /\ f.i >= 1
      /\ Leads(cp, f.base) /\ cp \notin J
  BY DEF Frame, Newly
<1>3. \A a \in J : ~Leads(f.base, a)
  <2>1. \A a \in J : ~Leads(cp, a) BY <1>2, Open
  <2> QED BY <1>1, <1>2, <2>1, PathOrder
<1>4. ASSUME f.steps # <<>> PROVE f.i = 1 /\ f.i \in DOMAIN f.steps
  <2>1. 1 \in DOMAIN f.steps BY <1>2, <1>4
  <2>2. SUFFICES ASSUME 1 < f.i PROVE FALSE BY <1>2, <2>1
  <2>3. Listed(J, StepAt(f, 1), Len(f.base) + 1, f.steps[1]) BY <2>1, <2>2 DEF Stands
  <2>4. /\ Len(f.base) \in Nat
        /\ \A e \in 1..Len(f.base) : StepAt(f, 1)[e] = f.base[e]
    BY <2>1, StepAtIs
  <2>5. PICK a \in J : Len(a) = Len(f.base) + 1 /\ Agree(a, StepAt(f, 1), (Len(f.base) + 1) - 1)
    BY <2>3 DEF Listed
  <2>6. (Len(f.base) + 1) - 1 = Len(f.base) /\ Len(f.base) <= Len(f.base) + 1 BY <2>4
  <2>7. \A e \in 1..Len(f.base) : a[e] = f.base[e] BY <2>4, <2>5, <2>6 DEF Agree
  <2>8. Leads(f.base, a) BY <2>5, <2>6, <2>7 DEF Leads, Agree
  <2> QED BY <1>3, <2>8
<1> QED BY <1>3, <1>4

\* The next action lies in a scope that has newly begun.
LEMMA NewlyWhere ==
  ASSUME NEW m, Ready(m), NEW f \in Frame, Framed(f),
         Stands(CompletedPaths(m), m.currentPath, f), Tied(m.repeats, f.base),
         Newly(CompletedPaths(m), m.currentPath, f), NEW x, Impends(m, x)
  PROVE  f.i \in DOMAIN f.steps /\ Leads(Here(f), x)
<1> DEFINE J == CompletedPaths(m)
           cp == m.currentPath
<1>1. J \in SUBSET Path /\ cp \in Path /\ m \in RunState /\ Tidy(m) BY ReadyIs DEF Ready
<1>2. f.base \in Path /\ f.steps \in Seq(Step) /\ f.i \in Nat /\ f.i >= 1
      /\ ~Odd(Len(f.base)) /\ Leads(cp, f.base) /\ cp \notin J
  BY DEF Frame, Framed, Newly
<1>3. /\ x \in Path /\ Odd(Len(x)) /\ Def[Last(x)].kind = "action" /\ Route(J, x) /\ Unbarred(m, x)
      /\ Leads(cp, x)
  BY <1>2, Open DEF Impends
<1>4. Route(J, f.base) /\ (f.base # <<>> => Leads(Front(f.base), cp)) BY DEF Stands
<1>n. \A d \in DOMAIN x : NodeOf(x, d) BY <1>3 DEF Route
<1>5. /\ \A a \in J : ~Leads(f.base, a)
      /\ f.steps # <<>> => f.i = 1 /\ f.i \in DOMAIN f.steps
  BY NewlyFirst
<1> HIDE DEF J, cp
<1>6. Leads(f.base, x)
  <2>1. CASE f.base = <<>> BY <1>3, <2>1 DEF Leads, Agree, Path
  <2>2. CASE f.base # <<>>
    <3> DEFINE u == Front(f.base)
    <3>1. /\ Len(f.base) \in Nat /\ Len(f.base) >= 2 /\ Odd(Len(f.base) - 1)
      <4>1. Len(f.base) \in Nat /\ Len(f.base) # 0 BY <1>2, <2>2 DEF Path
      <4> QED BY <1>2, <4>1, Parity
    <3>2. u \in Path /\ Leads(u, f.base) /\ Len(u) = Len(f.base) - 1
      <4>1. Leads(f.base, f.base) BY <1>2, PathOrder
      <4>2. u \in Path /\ Leads(u, f.base) BY <1>2, <2>2, <4>1, FrontLeads
      <4>3. Len(u) = Len(f.base) - 1 BY <1>2, <3>1 DEF Front, Path
      <4> QED BY <4>2, <4>3
    <3>3. Leads(u, cp) BY <1>4, <2>2
    <3>m. Len(u) \in Nat /\ Len(u) # 0 /\ Len(u) < Len(f.base) /\ Len(u) + 1 = Len(f.base)
      <4>1. \A n \in Nat : n >= 2 => n - 1 \in Nat /\ n - 1 # 0 /\ n - 1 < n /\ (n - 1) + 1 = n
        OBVIOUS
      <4> QED BY <3>1, <3>2, <4>1
    <3> HIDE DEF u
    <3>4. cp = f.base \/ cp = u
      <4>1. Len(cp) \in Nat /\ Len(u) <= Len(cp) /\ Len(cp) <= Len(f.base)
        BY <1>1, <1>2, <3>3 DEF Leads, Path
      <4>2. Len(cp) = Len(f.base) \/ Len(cp) = Len(u) BY <3>1, <3>2, <4>1
      <4>3. Len(cp) = Len(f.base) => cp = f.base
        <5>1. Leads(f.base, f.base) BY <1>2, PathOrder
        <5> QED BY <1>1, <1>2, <5>1, SameLength
      <4>4. Len(cp) = Len(u) => cp = u
        <5>1. Leads(cp, cp) BY <1>1, PathOrder
        <5> QED BY <1>1, <3>2, <3>3, <5>1, SameLength
      <4> QED BY <4>2, <4>3, <4>4
    <3>5. CASE cp = f.base BY <1>3, <3>5
    <3>6. CASE cp = u
      <4>1. Odd(Len(u)) /\ u # <<>> /\ Under(u, f.base)
        <5>1. u # <<>> BY <3>m
        <5> QED BY <3>1, <3>2, <3>m, <5>1 DEF Under, Leads
      <4>2. Def[Last(u)].kind = "repeat" BY <1>1, <1>2, <1>4, <3>2, <3>6, <4>1, Along
      <4>3. RepeatAt(m, u).iteration = f.base[Len(u) + 1]
        BY <1>1, <1>2, <3>2, <4>1, <4>2, IterationAt
      <4>4. Under(u, x)
        <5>1. x # u BY <1>3, <4>2
        <5> QED BY <1>3, <3>2, <3>6, <5>1, PathOrder
      <4>5. RepeatAt(m, u).iteration = x[Len(u) + 1] BY <1>3, <3>2, <4>1, <4>2, <4>4 DEF Unbarred
      <4>6. f.base[Len(f.base)] = x[Len(f.base)] /\ Len(f.base) <= Len(x)
        <5>1. f.base[Len(f.base)] = x[Len(f.base)] BY <3>m, <4>3, <4>5
        <5>2. Len(x) \in Nat /\ Len(u) < Len(x) BY <1>3, <4>4 DEF Path, Under
        <5>3. \A a, b \in Nat : a < b => a + 1 <= b OBVIOUS
        <5> QED BY <3>m, <5>1, <5>2, <5>3
      <4>7. \A e \in 1..Len(f.base) : e = Len(f.base) \/ e \in 1..Len(u) BY <3>1, <3>2
      <4>8. \A e \in 1..Len(u) : f.base[e] = x[e] BY <3>2, <4>4 DEF Leads, Under, Agree
      <4> QED BY <4>6, <4>7, <4>8 DEF Leads, Agree
    <3> QED BY <3>4, <3>5, <3>6
  <2> QED BY <2>1, <2>2
<1> DEFINE d == Len(f.base) + 1
<1>7. /\ d \in DOMAIN x /\ d \in Nat /\ d >= 1 /\ Odd(d) /\ ScopeOf(x, d) = f.steps
      /\ \E j \in DOMAIN f.steps : x[d] = f.steps[j] /\ Leads(StepAt(f, j), x)
  BY <1>3, <1>6, <1>n, InScope
<1>8. PICK j \in DOMAIN f.steps : x[d] = f.steps[j] /\ Leads(StepAt(f, j), x) BY <1>7
<1>9. f.i = 1 /\ f.i \in DOMAIN f.steps
  <2>1. f.steps # <<>> BY <1>8
  <2> QED BY <1>5, <2>1
<1>10. j = 1
  <2>1. SUFFICES ASSUME j # 1 PROVE FALSE OBVIOUS
  <2>2. 1 < j /\ 1 \in DOMAIN f.steps BY <1>2, <1>8, <1>9, <2>1
  <2>3. Listed(J, x, d, f.steps[1])
    <3>1. Elders(J, x, d) BY <1>3, <1>7 DEF Route
    <3> QED BY <1>7, <1>8, <2>2, <3>1 DEF Elders
  <2>4. PICK a \in J : Len(a) = d /\ Agree(a, x, d - 1) BY <2>3 DEF Listed
  <2>5. Len(f.base) \in Nat /\ d - 1 = Len(f.base) /\ Len(f.base) <= d BY <1>2 DEF Path
  <2>6. Leads(f.base, a) BY <1>6, <2>4, <2>5 DEF Leads, Agree
  <2> QED BY <1>5, <2>6
<1> QED BY <1>8, <1>9, <1>10 DEF Here

\* Nothing is completed at or after the step that the loop has come to.
LEMMA NoneLater ==
  ASSUME NEW J \in SUBSET Path, NEW cp, NEW f \in Frame, Framed(f), Stands(J, cp, f), f.start < f.i,
         NEW a \in J, Under(f.base, a), NEW j \in DOMAIN f.steps, a[Len(f.base) + 1] = f.steps[j]
  PROVE  j < f.i
<1>1. PICK k \in DOMAIN f.steps :
        /\ f.steps[k] = a[Len(f.base) + 1]
        /\ k < f.i \/ (k = f.i /\ f.i = f.start /\ Leads(StepAt(f, k), cp))
  BY DEF Stands
<1>2. k = j BY <1>1 DEF Framed, ScopeOK
<1>3. f.i # f.start
  <2>1. f.i \in Nat /\ f.start \in Nat BY DEF Frame
  <2> QED BY <2>1
<1> QED BY <1>1, <1>2, <1>3

\* A step of a scope is completed, hence the loop has passed it.
LEMMA DoneEarlier ==
  ASSUME NEW J \in SUBSET Path, NEW cp, NEW f \in Frame, Framed(f), Stands(J, cp, f), f.start < f.i,
         NEW j \in DOMAIN f.steps, StepAt(f, j) \in J
  PROVE  j < f.i
<1>1. /\ StepAt(f, j) \in Path /\ Len(StepAt(f, j)) = Len(f.base) + 1
      /\ StepAt(f, j)[Len(f.base) + 1] = f.steps[j] /\ Leads(f.base, StepAt(f, j))
      /\ Len(f.base) \in Nat
  BY StepAtIs
<1>2. Under(f.base, StepAt(f, j)) BY <1>1 DEF Under, Leads
<1> QED BY <1>1, <1>2, NoneLater

\* Behind the last step that the loop has completed comes the next one, or the scope is done.
LEMMA BehindWhere ==
  ASSUME NEW m, Ready(m), NEW f \in Frame, Framed(f),
         Stands(CompletedPaths(m), m.currentPath, f),
         Behind(CompletedPaths(m), m.currentPath, f), NEW x, Impends(m, x)
  PROVE  IF f.i \in DOMAIN f.steps THEN Leads(Here(f), x) ELSE ~Leads(f.base, x)
<1> DEFINE J == CompletedPaths(m)
           cp == m.currentPath
           d == Len(f.base) + 1
           h == f.i - 1
           v == StepAt(f, h)
<1>1. J \in SUBSET Path /\ cp \in Path BY ReadyIs
<1>2. x \in Path /\ Odd(Len(x)) /\ Route(J, x) BY DEF Impends
<1>3. cp \in J /\ f.start < f.i /\ h \in DOMAIN f.steps /\ Leads(v, cp)
  <2>1. f.i \in Nat /\ f.start \in Nat BY DEF Frame
  <2> QED BY <2>1 DEF Behind
<1>4. /\ v \in Path /\ Len(v) = d /\ d \in Nat /\ Odd(d) /\ v[d] = f.steps[h]
      /\ Leads(f.base, v) /\ f.base \in Path /\ f.i \in Nat /\ h \in Nat
  BY <1>3, StepAtIs
<1>5. ~Leads(v, x)
  <2>1. \A z \in Path : ~Odd(Len(z)) /\ Under(v, z) /\ Leads(z, cp) => Full(J, z, ScopeAt(z))
    BY DEF Behind
  <2> HIDE DEF v
  <2> QED BY <1>3, <1>4, <2>1, NotBelow
<1>6. ~Leads(f.base, x) => Full(J, f.base, f.steps)
  <2>1. Leads(f.base, cp) BY <1>1, <1>3, <1>4, PathOrder
  <2>2. ~Odd(Len(f.base)) /\ f.steps = ScopeAt(f.base) BY DEF Framed
  <2> QED BY <1>3, <1>4, <2>1, <2>2 DEF Impends, Reaches
<1>7. ASSUME f.i \in DOMAIN f.steps, Full(J, f.base, f.steps) PROVE FALSE
  <2>1. StepAt(f, f.i) \in J BY <1>7 DEF Full, StepAt
  <2>2. f.i < f.i BY <1>1, <1>3, <1>7, <2>1, DoneEarlier
  <2> QED BY <1>4, <2>2
<1>8. ASSUME Leads(f.base, x) PROVE f.i \in DOMAIN f.steps /\ Leads(Here(f), x)
  <2>1. \A e \in DOMAIN x : NodeOf(x, e) BY <1>2 DEF Route
  <2>2. /\ d \in DOMAIN x /\ d >= 1 /\ ScopeOf(x, d) = f.steps
        /\ \E j \in DOMAIN f.steps : x[d] = f.steps[j] /\ Leads(StepAt(f, j), x)
    BY <1>2, <1>8, <2>1, InScope
  <2>3. PICK j \in DOMAIN f.steps : x[d] = f.steps[j] /\ Leads(StepAt(f, j), x) BY <2>2
  <2>4. j \in Nat /\ Len(f.base) \in Nat /\ d - 1 = Len(f.base) /\ Len(f.base) < d
    <3>1. j \in Nat /\ Len(f.base) \in Nat BY <2>3, StepAtIs
    <3> QED BY <3>1
  <2>5. \A i, k \in DOMAIN f.steps : f.steps[i] = f.steps[k] => i = k BY DEF Framed, ScopeOK
  <2>6. ~(f.i < j)
    <3>1. SUFFICES ASSUME f.i < j PROVE FALSE OBVIOUS
    <3>2. f.i \in DOMAIN f.steps
      <4>1. f.steps \in Seq(Step) /\ f.i >= 1 BY DEF Frame
      <4> QED BY <1>4, <2>3, <2>4, <3>1, <4>1
    <3>3. Elders(J, x, d) BY <1>2, <1>4, <2>2 DEF Route
    <3>4. Listed(J, x, d, f.steps[f.i]) BY <2>2, <2>3, <3>1, <3>2, <3>3 DEF Elders
    <3>5. PICK a \in J : Len(a) = d /\ Agree(a, x, d - 1) /\ a[d] = f.steps[f.i]
      BY <3>4 DEF Listed
    <3>6. Under(f.base, a) BY <1>8, <2>4, <3>5 DEF Under, Leads, Agree
    <3>7. f.i < f.i BY <1>1, <1>3, <3>2, <3>5, <3>6, NoneLater
    <3> QED BY <1>4, <3>7
  <2>7. ~(j < h)
    <3>1. SUFFICES ASSUME j < h PROVE FALSE OBVIOUS
    <3>2. d \in DOMAIN cp /\ cp[d] = f.steps[h]
      <4>1. d \in 1..Len(v) /\ Len(v) <= Len(cp) /\ DOMAIN cp = 1..Len(cp) /\ Len(cp) \in Nat
        BY <1>1, <1>3, <1>4, <2>2 DEF Path, Leads
      <4> HIDE DEF v, d
      <4> QED BY <1>3, <1>4, <4>1 DEF Leads, Agree
    <3>3. Agree(cp, x, d - 1)
      <4>1. Leads(f.base, cp) BY <1>1, <1>3, <1>4, PathOrder
      <4> QED BY <1>8, <2>4, <4>1 DEF Leads, Agree
    <3>4. NotAfter(cp, x, d) BY <1>2, <1>3, <2>2, <3>2, <3>3 DEF Route
    <3>5. \/ cp[d] = x[d]
          \/ \E i, k \in DOMAIN f.steps : i < k /\ f.steps[i] = cp[d] /\ f.steps[k] = x[d]
      BY <1>4, <2>2, <3>4 DEF NotAfter
    <3>6. cp[d] # x[d]
      <4>1. h # j BY <1>4, <2>4, <3>1
      <4> QED BY <1>3, <2>3, <2>5, <3>2, <4>1
    <3>7. PICK i, k \in DOMAIN f.steps : i < k /\ f.steps[i] = cp[d] /\ f.steps[k] = x[d]
      BY <3>5, <3>6
    <3>8. i = h /\ k = j BY <1>3, <2>3, <2>5, <3>2, <3>7
    <3> QED BY <1>4, <2>4, <3>1, <3>7, <3>8
  <2>8. j # h BY <1>5, <2>3
  <2>9. j = f.i BY <1>4, <2>4, <2>6, <2>7, <2>8
  <2> QED BY <2>3, <2>9 DEF Here
<1> QED BY <1>6, <1>7, <1>8

\* Where the next action is: below the step that the loop has come to, or not in its scope.
LEMMA Where ==
  ASSUME NEW m, Ready(m), NEW f \in Frame, Framed(f),
         Stands(CompletedPaths(m), m.currentPath, f), Tied(m.repeats, f.base),
         Headed(CompletedPaths(m), m.currentPath, f), ~Resuming(f, m.currentPath),
         NEW x, Impends(m, x)
  PROVE  IF f.i \in DOMAIN f.steps THEN Leads(Here(f), x) ELSE ~Leads(f.base, x)
<1>1. CASE Newly(CompletedPaths(m), m.currentPath, f) BY <1>1, NewlyWhere
<1>2. CASE Behind(CompletedPaths(m), m.currentPath, f) BY <1>2, BehindWhere
<1> QED BY <1>1, <1>2 DEF Headed

-----------------------------------------------------------------------------
(* The course of a call.                                                   *)

\* A path that ends in the choice of a branch has chosen steps to execute.
Peopled(cp) ==
  cp # <<>> /\ ~Odd(Len(cp)) /\ Def[cp[Len(cp) - 1]].kind = "branch" =>
    Def[cp[Len(cp) - 1]].paths[Last(cp)] # <<>>

\* The call p is on its way to the next action.
Underway(p) ==
  /\ Firm(p) => Peopled(p.mem.currentPath)
  /\ Heading(p) = "steps" =>
       Headed(CompletedPaths(p.mem), p.mem.currentPath, p.stack[1])

\* A scope that resumes on the way to the current path is headed there.
LEMMA ResumesHeaded ==
  ASSUME NEW J \in SUBSET Path, \A a \in J : Odd(Len(a)), NEW cp \in Path, Route(J, cp),
         NEW g, Resumes(g, cp)
  PROVE  Headed(J, cp, g)
<1>1. /\ g \in Frame /\ Framed(g) /\ Leads(g.base, cp) /\ g.i = g.start
      /\ g.start = ResumeIndex(g.steps, cp, Len(g.base) + 1)
  BY DEF Resumes
<1>2. g.base \in Path /\ ~Odd(Len(g.base)) /\ Len(g.base) <= Len(cp)
  BY <1>1 DEF Frame, Framed, Leads
<1>3. Len(g.base) \in Nat /\ Len(cp) \in Nat BY <1>2 DEF Path
<1>4. CASE Len(g.base) < Len(cp)
  <2>1. g.i \in DOMAIN g.steps /\ Leads(Here(g), cp) BY <1>1, <1>4, ResumeLeads
  <2> QED BY <1>1, <2>1 DEF Headed, Resuming
<1>5. CASE Len(cp) <= Len(g.base)
  <2>1. cp = g.base BY <1>1, <1>2, <1>5, PathOrder
  <2>2. Leads(cp, g.base) /\ cp \notin J BY <1>2, <2>1, PathOrder
  <2> QED BY <1>1, <2>2 DEF Headed, Newly
<1> QED BY <1>3, <1>4, <1>5

\* A step at the current path is completed, and the loop has passed it.
LEMMA PassedHeaded ==
  ASSUME NEW J, NEW f \in Frame, Framed(f), f.i \in DOMAIN f.steps, Here(f) \in J,
         NEW g, g.base = f.base, g.steps = f.steps, g.start = f.start, g.i = f.i + 1
  PROVE  Headed(J, Here(f), g)
<1>1. f.i \in Nat /\ f.start \in Nat /\ f.start <= f.i BY DEF Frame, Framed
<1>2. g.i > g.start /\ g.i - 1 = f.i BY <1>1
<1>3. StepAt(g, g.i - 1) = Here(f) BY <1>2 DEF StepAt, Here
<1>4. Here(f) \in Path BY HereIs
<1> DEFINE x == Here(f)
<1> HIDE DEF x
<1>5. x \in Path => Leads(x, x) /\ \A z \in Path : Under(x, z) => ~Leads(z, x)
  <2>1. ASSUME x \in Path, NEW z \in Path, Under(x, z) PROVE ~Leads(z, x)
    <3>1. Len(x) \in Nat /\ Len(z) \in Nat BY <2>1 DEF Path
    <3> QED BY <2>1, <3>1 DEF Leads, Under
  <2> QED BY <2>1, PathOrder
<1>6. Behind(J, x, g) BY <1>2, <1>3, <1>4, <1>5 DEF Behind, x
<1> QED BY <1>6 DEF Headed, x

\* A path on the way to where r leads lies before r, is r, or lies below it.
LEMMA Between ==
  ASSUME NEW q \in Path, NEW r \in Path, Len(r) = Len(q) + 1, NEW z \in Path, NEW a \in Path,
         Leads(r, a), Leads(z, a), Leads(q, r)
  PROVE  Leads(z, q) \/ z = r \/ Under(r, z)
<1>1. Len(q) \in Nat /\ Len(r) \in Nat /\ Len(z) \in Nat BY DEF Path
<1>2. Leads(q, a) BY PathOrder
<1>3. CASE Len(z) <= Len(q)
  <2>1. q = z \/ Under(q, z) \/ Under(z, q) BY <1>2, Fork
  <2>2. ~Under(q, z) BY <1>1, <1>3 DEF Under
  <2> QED BY <2>1, <2>2, PathOrder
<1>4. CASE Len(q) < Len(z)
  <2>1. ~Under(z, r) BY <1>1, <1>4 DEF Under
  <2> QED BY <2>1, Fork
<1> QED BY <1>1, <1>3, <1>4

\* The path that a branch has chosen is done, and the loop around the branch goes on.
LEMMA RiseHeaded ==
  ASSUME NEW q \in Call, NEW n \in Call, Placed(q), TidyCall(q), Filled(q), Underway(q), Rises(q, n)
  PROVE  Headed(CompletedPaths(q.mem), q.mem.currentPath, n.stack[1])
<1> DEFINE f == q.stack[1]
           u == q.stack[2]
           c == Last(f.base)
           x == Here(u)
           J == CompletedPaths(q.mem)
           cp == q.mem.currentPath
           g == n.stack[1]
           h == f.i - 1
           v == StepAt(f, h)
<1>1. q.pc = "steps" /\ Len(q.stack) > 1 /\ f.i \notin DOMAIN f.steps
      /\ Def[u.steps[u.i]].kind = "branch" /\ n.stack = Onward(Tail(q.stack))
  BY DEF Rises
<1>2. /\ q.mem \in RunState /\ J \in SUBSET Path /\ cp \in Path /\ f \in Frame /\ Framed(f)
      /\ u \in Frame /\ Framed(u) /\ u.i \in DOMAIN u.steps
      /\ Tail(q.stack) \in Seq(Frame) /\ Tail(q.stack) # <<>> /\ Tail(q.stack)[1] = u
      /\ x \in Path /\ Odd(Len(x)) /\ Last(x) = u.steps[u.i] /\ f.base \in Path
      /\ GoesForward(q.mem) /\ Joined(f, u, q.mem) /\ Stands(J, cp, f)
      /\ Kempt(J, q.mem.repeats) /\ Tied(q.mem.repeats, cp)
  BY <1>1, DoneTidy
<1>3. /\ f.base = Append(x, c) /\ Full(J, f.base, f.steps)
      /\ c \in DOMAIN Def[Last(x)].paths /\ f.steps = Def[Last(x)].paths[c]
  BY <1>1, <1>2, DoneFilled
<1>4. Leads(x, cp) /\ x \in J
  <2> HIDE DEF f, u, J, cp
  <2> QED BY <1>1, <1>2, BodyDone DEF x
<1>5. /\ g.base = u.base /\ g.steps = u.steps /\ g.start = u.start /\ g.i = u.i + 1
  BY <1>1, <1>2, OnwardBase
<1>6. Heading(q) = "steps" /\ Firm(q) BY <1>1, <1>2 DEF Heading, Firm
<1>7. Headed(J, cp, f) /\ Peopled(cp) BY <1>6 DEF Underway
<1>8. ~Resuming(f, cp) BY <1>1 DEF Resuming
<1>9. Ready(q.mem)
  <2>1. Sound(q.mem) BY <1>6 DEF Placed, Firm
  <2> QED BY <1>2, <2>1 DEF Ready, Sound, Tidy
<1>10. ~Newly(J, cp, f)
  <2>1. SUFFICES ASSUME Newly(J, cp, f) PROVE FALSE OBVIOUS
  <2>2. f.steps = <<>> BY <1>1, <1>2, <1>9, <2>1, NewlyFirst
  <2>3. cp \notin J /\ Leads(cp, f.base) BY <2>1 DEF Newly
  <2>4. Len(x) \in Nat /\ Len(cp) \in Nat /\ Len(f.base) = Len(x) + 1 /\ f.base # <<>>
    <3>1. Len(f.base) = Len(x) + 1 /\ f.base # <<>> BY <1>2, <1>3, FrontAppend
    <3> QED BY <1>2, <3>1 DEF Path
  <2>5. cp = f.base
    <3>1. x # cp BY <1>4, <2>3
    <3>2. Under(x, cp) BY <1>2, <1>4, <3>1, PathOrder
    <3>3. Len(f.base) <= Len(cp) BY <2>4, <3>2 DEF Under
    <3> QED BY <1>2, <2>3, <3>3, PathOrder
  <2>6. cp[Len(cp) - 1] = Last(x) /\ Last(cp) = c
    <3>1. Len(x) # 0 /\ Last(x) = x[Len(x)] BY <1>2, <2>4, Parity DEF Last
    <3>2. Len(cp) - 1 = Len(x) BY <2>4, <2>5
    <3>3. x \in Seq(Segment) BY <1>2 DEF Path
    <3>4. Append(x, c)[Len(x)] = x[Len(x)]
      <4>1. \A e \in 1..Len(x) : Append(x, c)[e] = x[e] BY <3>3
      <4>2. Len(x) \in 1..Len(x) BY <2>4, <3>1
      <4> QED BY <4>1, <4>2
    <3>5. Append(x, c)[Len(x) + 1] = c BY <3>3
    <3>6. Last(cp) = cp[Len(cp)] /\ Len(cp) = Len(x) + 1 BY <2>4, <2>5 DEF Last
    <3> HIDE DEF x, c, cp
    <3> QED BY <1>3, <2>5, <3>1, <3>2, <3>4, <3>5, <3>6
  <2>7. ~Odd(Len(cp)) BY <1>2, <2>5 DEF Framed
  <2> QED BY <1>1, <1>2, <1>3, <1>7, <2>2, <2>4, <2>5, <2>6, <2>7 DEF Peopled
<1>11. Behind(J, cp, f) BY <1>7, <1>8, <1>10 DEF Headed
<1>12. /\ h \in DOMAIN f.steps /\ cp \in J /\ Leads(v, cp)
       /\ \A z \in Path : ~Odd(Len(z)) /\ Under(v, z) /\ Leads(z, cp) => Full(J, z, ScopeAt(z))
  BY <1>11 DEF Behind
<1>13. /\ v \in Path /\ Len(v) = Len(f.base) + 1 /\ Odd(Len(v)) /\ Leads(f.base, v)
       /\ Len(f.base) = Len(x) + 1 /\ Leads(x, f.base) /\ f.steps = ScopeAt(f.base)
  <2>1. Len(f.base) = Len(x) + 1 /\ Leads(x, f.base)
    <3>1. Append(x, c) \in Path /\ x \in Path BY <1>2, <1>3
    <3> HIDE DEF x, c
    <3>2. Len(Append(x, c)) = Len(x) + 1 BY <3>1, FrontAppend
    <3>3. Leads(x, Append(x, c)) BY <3>1, PathOrder
    <3> QED BY <1>3, <3>2, <3>3
  <2>2. f.steps = ScopeAt(f.base) BY <1>2 DEF Framed
  <2> QED BY <1>2, <1>12, <2>1, <2>2, StepAtIs
<1> HIDE DEF v, f, J, cp, x
<1>14. ASSUME NEW z \in Path, ~Odd(Len(z)), Under(x, z), Leads(z, cp)
       PROVE  Full(J, z, ScopeAt(z))
  <2>1. Leads(z, f.base) \/ z = v \/ Under(v, z) BY <1>2, <1>12, <1>13, <1>14, Between
  <2>2. z # v BY <1>13, <1>14
  <2>3. ASSUME Leads(z, f.base) PROVE z = f.base
    <3>1. Len(x) \in Nat /\ Len(z) \in Nat BY <1>2 DEF Path
    <3>2. Len(f.base) <= Len(z) BY <1>13, <1>14, <3>1 DEF Under
    <3> QED BY <1>2, <2>3, <3>2, PathOrder
  <2> QED BY <1>3, <1>12, <1>13, <1>14, <2>1, <2>2, <2>3
<1>15. g.i > g.start /\ g.i - 1 = u.i /\ StepAt(g, g.i - 1) = x
  <2>1. u.i \in Nat /\ u.start \in Nat /\ u.start <= u.i BY <1>2 DEF Frame, Framed
  <2>2. g.i > g.start /\ g.i - 1 = u.i BY <1>5, <2>1
  <2> QED BY <1>5, <2>2 DEF StepAt, Here, x
<1>16. Behind(J, cp, g)
  <2>1. g.i - 1 \in DOMAIN g.steps BY <1>2, <1>5, <1>15
  <2> HIDE DEF g
  <2> QED BY <1>4, <1>12, <1>14, <1>15, <2>1 DEF Behind
<1> QED BY <1>16 DEF Headed, J, cp

\* A call that goes forward holds a run that can be resumed.
LEMMA FirmReady ==
  ASSUME NEW q \in Call, Placed(q), TidyCall(q), Firm(q)
  PROVE  Ready(q.mem)
<1>1. q.mem \in RunState BY DEF Call
<1>2. Sound(q.mem) /\ GoesForward(q.mem) BY DEF Placed, Firm
<1>3. Tidy(q.mem) /\ Tied(q.mem.repeats, q.mem.currentPath) BY DEF TidyCall
<1> QED BY <1>1, <1>2, <1>3 DEF Ready, Sound

\* A call on the forward path goes forward.
LEMMA ForwardFirm ==
  ASSUME NEW q \in Call, Placed(q), q.pc \in Forward
  PROVE  Firm(q) /\ q.mem.status = "running" /\ Heading(q) = q.pc
<1>1. Heading(q) = q.pc BY DEF Heading, Forward
<1>2. q.mem.status = "running" BY <1>1 DEF Placed, Going
<1> QED BY <1>1, <1>2 DEF Firm, GoesForward, Forward

\* The state of a repeat is set to one with the same iteration, at the same point of it.
LEMMA SetCourse ==
  ASSUME NEW m \in RunState, NEW s \in RepeatState,
         s.iteration = RepeatAt(m, s.path).iteration, s.awaiting = RepeatAt(m, s.path).awaiting
  PROVE  SameCourse(m, SetRepeat(m, s))
<1> DEFINE n == SetRepeat(m, s)
<1>1. /\ RepeatAt(n, s.path) = s
      /\ \A x : x # s.path => RepeatAt(n, x) = RepeatAt(m, x)
      /\ n.completed = m.completed /\ n.currentPath = m.currentPath
  BY SetRepeatIs
<1> HIDE DEF n
<1>2. CompletedPaths(n) = CompletedPaths(m) BY <1>1 DEF CompletedPaths
<1>3. ASSUME NEW y \in Path
      PROVE  /\ RepeatAt(n, y).iteration = RepeatAt(m, y).iteration
             /\ RepeatAt(n, y).awaiting = RepeatAt(m, y).awaiting
  BY <1>1
<1> QED BY <1>1, <1>2, <1>3 DEF SameCourse, n

\* An iteration begins or is resumed: the one that the repeat counts.
LEMMA BeginIs ==
  ASSUME NEW q \in Call, NEW n \in Call, Placed(q), TidyCall(q), Begins(q, n)
  PROVE  LET x == Place(q)
             cp == q.mem.currentPath
         IN
         /\ SameCourse(q.mem, n.mem) /\ n.mem.status = "running" /\ n.mem.currentPath = cp
         /\ \/ n.pc = "until" /\ n.stack = q.stack
            \/ /\ n.pc = "steps"
               /\ \E it, g : /\ g.base = Append(x, it) /\ n.stack = <<g>> \o q.stack
                             /\ g \in Frame /\ Framed(g) /\ g.i = g.start
                             /\ cp = x \/ Resumes(g, cp)
<1> DEFINE x == Place(q)
           J == CompletedPaths(q.mem)
           R == q.mem.repeats
           cp == q.mem.currentPath
           r == RepeatAt(q.mem, x)
<1>1. At(q, "call") /\ "call" \in Forward BY DEF Begins, Forward
<1>2. /\ q.mem \in RunState /\ J \in SUBSET Path /\ cp \in Path /\ R \in SUBSET RepeatState
      /\ x \in Path /\ x # <<>> /\ Odd(Len(x)) /\ Def[Last(x)] = DefAt(q) /\ Kempt(J, R)
      /\ Tied(R, cp) /\ q.stack \in Seq(Frame) /\ q.stack # <<>>
  BY <1>1, AtTidy
<1>3. q.mem.status = "running" BY <1>1, AtPlaced
<1>5. Def[Last(x)].kind = "repeat" BY <1>2 DEF Begins
<1>6. PICK it \in Nat :
        /\ \/ cp = x /\ it = r.iteration
           \/ Under(x, cp) /\ it = cp[Len(x) + 1]
        /\ n.mem = SetRepeat(q.mem, [r EXCEPT !.iteration = it])
        /\ \/ r.awaiting /\ n.pc = "until" /\ n.stack = q.stack
           \/ /\ ~r.awaiting /\ n.pc = "steps"
              /\ \E g : /\ g.base = Append(x, it) /\ n.stack = <<g>> \o q.stack
                        /\ g \in Frame /\ Framed(g) /\ g.i = g.start
                        /\ Under(x, cp) => Resumes(g, cp)
  BY DEF Begins
<1>7. r \in RepeatState /\ r.path = x BY <1>2, RepeatAtType
<1> DEFINE s == [r EXCEPT !.iteration = it]
<1>8. s \in RepeatState /\ s.path = x /\ s.iteration = it /\ s.awaiting = r.awaiting
  BY <1>7 DEF RepeatState
<1>9. r.iteration = it
  <2> HIDE DEF x, r, R, J, cp
  <2>1. CASE Under(x, cp)
    <3>1. ~(cp = x) BY <1>2, <2>1, PathOrder
    <3>2. PICK t \in R : t.path = x /\ t.iteration = it
      BY <1>2, <1>5, <1>6, <2>1, <3>1, TiedAt
    <3> QED BY <1>2, <3>2, StateRead DEF r, R, J
  <2> QED BY <1>6, <2>1
<1>10. n.mem = SetRepeat(q.mem, s) BY <1>6
<1> HIDE DEF s
<1>11. SameCourse(q.mem, n.mem) BY <1>2, <1>8, <1>9, <1>10, SetCourse
<1>12. n.mem.status = "running" /\ n.mem.currentPath = cp BY <1>2, <1>3, <1>8, <1>10, SetRepeatIs
<1> QED BY <1>6, <1>11, <1>12

\* The moves that do not change what comes next.
LEMMA SameMove ==
  ASSUME NEW q \in Call, NEW n \in Call, Placed(q), TidyCall(q),
         \/ Passes(q, n) /\ (Firm(n) \/ Heading(n) \in Forward)
         \/ SetsOut(q, n) \/ Skips(q, n) \/ Rises(q, n) \/ GoesDown(q, n) \/ Clocks(q, n)
         \/ Begins(q, n)
  PROVE  SameCourse(q.mem, n.mem)
<1>1. SameCourse(q.mem, q.mem) BY DEF SameCourse
<1>2. CASE Passes(q, n) /\ (Firm(n) \/ Heading(n) \in Forward)
  BY <1>2, TrackCourse DEF Passes, SameTrack
<1>3. CASE SetsOut(q, n) BY <1>3, TrackCourse DEF SetsOut, SameTrack
<1>4. CASE Skips(q, n) \/ Rises(q, n) \/ GoesDown(q, n) BY <1>1, <1>4 DEF Skips, Rises, GoesDown
<1>5. CASE Clocks(q, n)
  <2> DEFINE x == Place(q)
             r == RepeatAt(q.mem, x)
             s == [r EXCEPT !.startedAt = now]
  <2>1. At(q, "repeatStart") /\ "repeatStart" \in Forward BY <1>5 DEF Clocks, Forward
  <2>2. q.mem \in RunState /\ x \in Path BY <2>1, AtTidy
  <2>3. r \in RepeatState /\ r.path = x BY <2>2, RepeatAtType
  <2>4. /\ s.path = x /\ s.iteration = r.iteration /\ s.awaiting = r.awaiting
        /\ n.mem = SetRepeat(q.mem, s)
    BY <1>5, <2>3 DEF Clocks, RepeatState
  <2>5. s \in RepeatState
    <3>1. s \in n.mem.repeats /\ n.mem.repeats \in SUBSET RepeatState
      BY <2>2, <2>4 DEF SetRepeat, RunState, Call
    <3> QED BY <3>1
  <2> HIDE DEF s
  <2> QED BY <2>2, <2>4, <2>5, SetCourse
<1>6. CASE Begins(q, n) BY <1>6, BeginIs
<1> QED BY <1>2, <1>3, <1>4, <1>5, <1>6

\* A path that ends at a step is peopled.
LEMMA StepPeopled ==
  ASSUME NEW x, Odd(Len(x))
  PROVE  Peopled(x)
BY DEF Peopled

\* The choice at the end of a path.
LEMMA ChoicePeopled ==
  ASSUME NEW x \in Path, Odd(Len(x)), NEW c, Append(x, c) \in Path,
         Def[Last(x)].kind = "branch" => Def[Last(x)].paths[c] # <<>>
  PROVE  Peopled(Append(x, c))
<1> DEFINE y == Append(x, c)
<1>1. x \in Seq(Segment) /\ Len(x) \in Nat /\ Len(x) # 0 BY Parity DEF Path
<1>2. Len(y) = Len(x) + 1 /\ Last(y) = c BY FrontAppend
<1>3. Len(y) - 1 = Len(x) BY <1>1, <1>2
<1>4. \A e \in 1..Len(x) : y[e] = x[e] BY <1>1
<1>5. Len(x) \in 1..Len(x) BY <1>1
<1>6. y[Len(y) - 1] = Last(x) BY <1>3, <1>4, <1>5 DEF Last
<1> HIDE DEF y
<1>7. Peopled(y) BY <1>2, <1>6 DEF Peopled
<1> QED BY <1>7 DEF y

\* The path of a call that goes forward stays peopled.
LEMMA PeopledMoves ==
  ASSUME NEW q \in Call, NEW n \in Call, Placed(q), TidyCall(q), Underway(q), Tracks(q, n), Firm(n)
  PROVE  Peopled(n.mem.currentPath)
<1>1. Firm(q) => Peopled(q.mem.currentPath) BY DEF Underway
<1>2. CASE Passes(q, n) BY <1>1, <1>2 DEF Passes
<1>3. CASE SetsOut(q, n)
  <2>1. Firm(q) BY <1>3 DEF SetsOut, Firm
  <2> QED BY <1>1, <1>3, <2>1 DEF SetsOut
<1>4. CASE Skips(q, n) \/ Rises(q, n) \/ GoesDown(q, n) \/ Clocks(q, n) \/ Begins(q, n)
  <2>1. q.pc \in Forward BY <1>4 DEF Skips, Rises, GoesDown, Clocks, Begins, Forward, At
  <2>2. Firm(q) BY <2>1, ForwardFirm
  <2>3. SameCourse(q.mem, n.mem) BY <1>4, SameMove
  <2> QED BY <1>1, <2>2, <2>3 DEF SameCourse
<1>5. CASE Closes(q, n)
  <2>1. q.pc \in Forward BY <1>5 DEF Closes, Forward
  <2>2. n.mem.currentPath = q.mem.currentPath BY <1>5 DEF Closes, SetRepeat
  <2> QED BY <1>1, <2>1, <2>2, ForwardFirm
<1>6. CASE Enters(q, n)
  <2> DEFINE f == q.stack[1]
             cp == q.mem.currentPath
  <2>1. At(q, "steps") /\ "steps" \in Forward /\ n.mem.currentPath = Entering(f)
    BY <1>6 DEF Enters, Forward
  <2>2. f \in Frame /\ Framed(f) /\ f.i \in DOMAIN f.steps /\ Going("steps", q.mem, f)
    BY <2>1, AtTidy
  <2>3. Firm(q) BY <2>1, ForwardFirm DEF At
  <2>4. f.i = f.start => f.resume = cp BY <2>2 DEF Going, Stands
  <2>5. Entering(f) = cp \/ Entering(f) = Here(f) BY <2>4 DEF Entering
  <2>6. Peopled(Here(f)) BY <2>2, HereIs, StepPeopled
  <2> QED BY <1>1, <2>1, <2>3, <2>5, <2>6
<1>7. CASE Ends(q, n) BY <1>7 DEF Ends, Firm, GoesForward
<1>8. CASE Records(q, n) \/ UntilDone(q, n)
  <2>1. \E l \in Forward : At(q, l) BY <1>8 DEF Records, UntilDone, Forward
  <2>2. Odd(Len(Place(q))) BY <2>1, AtTidy
  <2>3. n.mem.currentPath = Place(q) BY <1>8 DEF Records, UntilDone
  <2> QED BY <2>2, <2>3, StepPeopled
<1>9. CASE Decides(q, n)
  <2>1. At(q, "call") /\ "call" \in Forward BY <1>9 DEF Decides, Forward
  <2>2. Place(q) \in Path /\ Odd(Len(Place(q))) /\ Def[Last(Place(q))] = DefAt(q) BY <2>1, AtTidy
  <2>3. PICK key, g : /\ g.base = Append(Place(q), key) /\ g.base \in Path
                      /\ DefAt(q).paths[key] # <<>> /\ n.mem.currentPath = g.base
    BY <1>9 DEF Decides
  <2>4. Peopled(Append(Place(q), key)) BY <2>2, <2>3, ChoicePeopled
  <2> QED BY <2>3, <2>4
<1>10. CASE UntilMore(q, n)
  <2> DEFINE x == Place(q)
             c == RepeatAt(q.mem, x).iteration + 1
  <2>1. At(q, "until") /\ "until" \in Forward /\ n.mem.currentPath = Append(x, c)
    BY <1>10 DEF UntilMore, Forward
  <2>2. x \in Path /\ Odd(Len(x)) /\ Def[Last(x)] = DefAt(q) /\ Going("until", q.mem, q.stack[1])
    BY <2>1, AtTidy
  <2>3. Def[Last(x)].kind = "repeat" BY <2>2 DEF Going, Asking, DefAt
  <2>4. Append(x, c) \in Path
    <3>1. n.mem \in RunState BY DEF Call
    <3> QED BY <2>1, <3>1, PathsType
  <2> HIDE DEF x, c
  <2>5. Peopled(Append(x, c)) BY <2>2, <2>3, <2>4, ChoicePeopled
  <2> QED BY <2>1, <2>5
<1>11. CASE UntilFails(q, n) BY <1>11 DEF UntilFails, Firm
<1> QED BY <1>2, <1>3, <1>4, <1>5, <1>6, <1>7, <1>8, <1>9, <1>10, <1>11 DEF Tracks

\* A call at the loop over a scope stays headed for what comes next.
LEMMA HeadedMoves ==
  ASSUME NEW q \in Call, NEW n \in Call, Placed(q), Placed(n), TidyCall(q), TidyCall(n), Filled(q),
         Underway(q), Tracks(q, n), Heading(n) = "steps"
  PROVE  Headed(CompletedPaths(n.mem), n.mem.currentPath, n.stack[1])
<1> DEFINE J == CompletedPaths(q.mem)
           cp == q.mem.currentPath
           K == CompletedPaths(n.mem)
           g1 == n.stack[1]
<1>1. "steps" \in Forward /\ "call" \in Forward /\ "until" \in Forward /\ "steps" \notin InStep
  BY DEF Forward, InStep
<1>2. J \in SUBSET Path /\ cp \in Path /\ \A a \in J : Odd(Len(a))
  <2>1. q.mem \in RunState /\ Tidy(q.mem) BY DEF Call, TidyCall
  <2> QED BY <2>1, PathsType DEF Tidy, Kempt
<1>3. Firm(q) => Route(J, cp) BY DEF Placed, Firm, Sound, Resumable
<1>4. CASE Passes(q, n)
  <2>1. n.stack = q.stack /\ Heading(q) = "steps" BY <1>1, <1>4 DEF Passes
  <2>2. SameCourse(q.mem, n.mem) BY <1>1, <1>4, SameMove
  <2> QED BY <2>1, <2>2 DEF Underway, SameCourse
<1>5. CASE SetsOut(q, n)
  <2>1. Firm(q) BY <1>5 DEF SetsOut, Firm
  <2>2. PICK g : n.stack = <<g>> /\ Resumes(g, cp) BY <1>5 DEF SetsOut
  <2>3. SameCourse(q.mem, n.mem) BY <1>5, SameMove
  <2>4. Headed(J, cp, g) BY <1>2, <1>3, <2>1, <2>2, ResumesHeaded
  <2>5. n.stack[1] = g BY <2>2
  <2> QED BY <2>3, <2>4, <2>5 DEF SameCourse
<1>6. CASE GoesDown(q, n)
  <2>1. At(q, "call") /\ n.mem = q.mem BY <1>6 DEF GoesDown
  <2>2. Firm(q) BY <1>1, <2>1, ForwardFirm DEF At
  <2>3. PICK g : n.stack = <<g>> \o q.stack /\ Resumes(g, cp) BY <1>6 DEF GoesDown
  <2>4. n.stack[1] = g
    <3>1. g \in Frame /\ q.stack \in Seq(Frame) BY <2>3 DEF Resumes, Call
    <3> QED BY <2>3, <3>1
  <2>5. Headed(J, cp, g) BY <1>2, <1>3, <2>2, <2>3, ResumesHeaded
  <2> QED BY <2>1, <2>4, <2>5
<1>7. CASE Begins(q, n)
  <2> DEFINE x == Place(q)
  <2>1. At(q, "call") BY <1>7 DEF Begins
  <2>2. Firm(q) BY <1>1, <2>1, ForwardFirm DEF At
  <2>3. n.pc # "until" BY DEF Heading
  <2>4. SameCourse(q.mem, n.mem) BY <1>7, BeginIs
  <2>5. PICK it, g : /\ g.base = Append(x, it) /\ n.stack = <<g>> \o q.stack
                     /\ g \in Frame /\ Framed(g) /\ g.i = g.start
                     /\ cp = x \/ Resumes(g, cp)
    BY <1>7, <2>3, BeginIs
  <2>6. n.stack[1] = g
    <3>1. q.stack \in Seq(Frame) BY DEF Call
    <3> QED BY <2>5, <3>1
  <2>7. CASE Resumes(g, cp)
    <3>1. Headed(J, cp, g) BY <1>2, <1>3, <2>2, <2>7, ResumesHeaded
    <3> QED BY <2>4, <2>6, <3>1 DEF SameCourse
  <2>8. CASE cp = x
    <3>1. Entered(J, cp, q.stack[1]) BY <1>1, <2>1, AtTidy DEF Going, InStep
    <3>2. cp \notin J BY <2>8, <3>1 DEF Entered, Place
    <3>3. g.base \in Path BY <2>5 DEF Frame
    <3>4. Leads(x, Append(x, it)) BY <1>2, <2>5, <2>8, <3>3, PathOrder
    <3>5. Headed(J, cp, g) BY <2>5, <2>8, <3>2, <3>4 DEF Headed, Newly
    <3> QED BY <2>4, <2>6, <3>5 DEF SameCourse
  <2> QED BY <2>5, <2>7, <2>8
<1>8. CASE Decides(q, n)
  <2>1. At(q, "call") BY <1>8 DEF Decides
  <2>2. Odd(Len(Place(q))) /\ Place(q) \in Path /\ q.stack \in Seq(Frame) BY <1>1, <2>1, AtTidy
  <2>3. PICK key, g : /\ g.base = Append(Place(q), key) /\ g.base \in Path /\ g.i = g.start
                      /\ n.mem.currentPath = g.base /\ n.stack = <<g>> \o q.stack
    BY <1>8 DEF Decides
  <2>4. n.stack[1] = g BY <2>2, <2>3
  <2>5. g.base \notin K
    <3>1. K = J \cup {Place(q)} BY <1>8 DEF Decides
    <3>2. \A a \in K : Odd(Len(a)) BY <1>2, <2>2, <3>1
    <3>3. Len(g.base) = Len(Place(q)) + 1 /\ Len(Place(q)) \in Nat
      BY <2>2, <2>3, FrontAppend DEF Path
    <3>4. ~Odd(Len(g.base)) BY <2>2, <3>3, Parity
    <3> QED BY <3>2, <3>4
  <2>6. Leads(g.base, g.base) BY <2>3, PathOrder
  <2> QED BY <2>3, <2>4, <2>5, <2>6 DEF Headed, Newly
<1>9. CASE Skips(q, n) \/ Records(q, n) \/ UntilDone(q, n)
  <2> DEFINE f == q.stack[1]
  <2>1. PICK l \in Forward : At(q, l) BY <1>1, <1>9 DEF Skips, Records, UntilDone
  <2>2. /\ f \in Frame /\ Framed(f) /\ f.i \in DOMAIN f.steps
        /\ q.stack \in Seq(Frame) /\ q.stack # <<>>
    BY <2>1, AtTidy
  <2>3. n.stack = Onward(q.stack) /\ n.mem.currentPath = Here(f)
    BY <1>9 DEF Skips, Records, UntilDone, Place
  <2>4. g1.base = f.base /\ g1.steps = f.steps /\ g1.start = f.start /\ g1.i = f.i + 1
    BY <2>2, <2>3, OnwardBase
  <2>5. Here(f) \in K
    <3>1. CASE Records(q, n) \/ UntilDone(q, n) BY <3>1 DEF Records, UntilDone, Place
    <3>2. CASE Skips(q, n)
      <4>1. Stands(K, n.mem.currentPath, g1) BY <1>1 DEF Placed, Going
      <4>2. K \in SUBSET Path
        <5>1. n.mem \in RunState BY DEF Call
        <5> QED BY <5>1, PathsType
      <4>3. f.i < g1.i /\ f.i \in DOMAIN g1.steps
        <5>1. f.i \in Nat BY <2>2 DEF Frame
        <5> QED BY <2>2, <2>4, <5>1
      <4>4. Listed(K, StepAt(g1, f.i), Len(g1.base) + 1, g1.steps[f.i]) BY <4>1, <4>3 DEF Stands
      <4>5. StepAt(g1, f.i) = Here(f) BY <2>4 DEF StepAt, Here
      <4> DEFINE x == Here(f)
      <4>6. x \in Path /\ x # <<>> /\ Last(x) = f.steps[f.i] /\ Len(x) = Len(f.base) + 1
        BY <2>2, HereIs
      <4>7. x[Len(x)] = f.steps[f.i] BY <4>6 DEF Last
      <4>8. Listed(K, x, Len(x), x[Len(x)]) BY <2>4, <4>4, <4>5, <4>6, <4>7
      <4> HIDE DEF x
      <4> QED BY <4>2, <4>6, <4>8, ListedIs DEF x
    <3> QED BY <1>9, <3>1, <3>2
  <2> HIDE DEF f, g1
  <2>6. Headed(K, Here(f), g1) BY <2>2, <2>4, <2>5, PassedHeaded
  <2> QED BY <2>3, <2>6 DEF g1
<1>10. CASE Rises(q, n)
  <2>1. n.mem = q.mem BY <1>10 DEF Rises
  <2> QED BY <1>10, <2>1, RiseHeaded
<1>11. CASE \/ Enters(q, n) \/ Ends(q, n) \/ Closes(q, n) \/ Clocks(q, n)
            \/ UntilMore(q, n) \/ UntilFails(q, n)
  BY <1>1, <1>11 DEF Enters, Ends, Closes, Clocks, UntilMore, UntilFails, Heading, InStep
<1> QED
  BY <1>4, <1>5, <1>6, <1>7, <1>8, <1>9, <1>10, <1>11 DEF Tracks

-----------------------------------------------------------------------------
(* What comes next as a call moves.                                        *)

\* Where the next action is for a loop that does not resume.
LEMMA LoopWhere ==
  ASSUME NEW q \in Call, Placed(q), TidyCall(q), Underway(q), q.pc = "steps",
         ~Resuming(q.stack[1], q.mem.currentPath), NEW x, Impends(q.mem, x)
  PROVE  LET f == q.stack[1]
         IN  IF f.i \in DOMAIN f.steps THEN Leads(Here(f), x) ELSE ~Leads(f.base, x)
<1> DEFINE f == q.stack[1]
           J == CompletedPaths(q.mem)
           cp == q.mem.currentPath
<1>1. Heading(q) = "steps" /\ "steps" \in Forward BY DEF Heading, Forward
<1>2. Ready(q.mem) BY <1>1, ForwardFirm, FirmReady
<1>3. Chained(q.stack, q.mem) /\ Stands(J, cp, f) BY <1>1 DEF Placed, Going
<1>4. f \in Frame /\ Framed(f)
  <2>1. q.stack \in Seq(Frame) /\ q.stack # <<>> BY <1>3 DEF Call, Chained
  <2>2. 1 \in DOMAIN q.stack BY <2>1
  <2> QED BY <1>3, <2>1, <2>2 DEF Chained
<1>5. Tied(q.mem.repeats, f.base) BY <1>1 DEF TidyCall
<1>6. Headed(J, cp, f) BY <1>1 DEF Underway
<1> HIDE DEF f
<1> QED BY <1>2, <1>3, <1>4, <1>5, <1>6, Where DEF f

\* Nothing comes next once the top level is done.
LEMMA EndNone ==
  ASSUME NEW q \in Call, NEW n, Placed(q), TidyCall(q), Filled(q), Underway(q), Ends(q, n), NEW x
  PROVE  ~Impends(q.mem, x)
<1> DEFINE f == q.stack[1]
<1>1. SUFFICES ASSUME Impends(q.mem, x) PROVE FALSE OBVIOUS
<1>2. q.pc = "steps" /\ Len(q.stack) = 1 /\ f.i \notin DOMAIN f.steps BY DEF Ends
<1>3. Heading(q) \in Forward BY <1>2 DEF Heading, Forward
<1>4. f.base = <<>> BY <1>2, <1>3 DEF Filled
<1>5. ~Resuming(f, q.mem.currentPath) BY <1>2 DEF Resuming
<1>6. ~Leads(f.base, x) BY <1>1, <1>2, <1>5, LoopWhere
<1>7. x \in Path BY <1>1 DEF Impends
<1>8. Leads(<<>>, x)
  <2>1. Len(x) \in Nat BY <1>7 DEF Path
  <2>2. Len(<<>>) = 0 /\ 1..0 = {} OBVIOUS
  <2> QED BY <2>1, <2>2 DEF Leads, Agree
<1> QED BY <1>4, <1>6, <1>8

\* Nothing comes next while the condition of a repeat is due.
LEMMA UntilNone ==
  ASSUME NEW q \in Call, Placed(q), TidyCall(q), Filled(q), q.pc = "until", NEW x
  PROVE  ~Impends(q.mem, x)
<1> DEFINE f == q.stack[1]
           J == CompletedPaths(q.mem)
           cp == q.mem.currentPath
           h == Here(f)
<1>1. Heading(q) = "until" /\ "until" \in Forward BY DEF Heading, Forward
<1>2. Ready(q.mem) BY <1>1, ForwardFirm, FirmReady
<1>3. Asking(J, cp, f, RepeatAt(q.mem, h).iteration) /\ Chained(q.stack, q.mem)
  BY <1>1 DEF Placed, Going
<1>4. /\ f.i \in DOMAIN f.steps /\ Leads(h, cp) /\ h \notin J
      /\ Def[f.steps[f.i]].kind = "repeat"
  BY <1>3 DEF Asking
<1>5. f \in Frame /\ Framed(f)
  <2>1. q.stack \in Seq(Frame) /\ q.stack # <<>> BY <1>3 DEF Call, Chained
  <2>2. 1 \in DOMAIN q.stack BY <2>1
  <2> QED BY <1>3, <2>1, <2>2 DEF Chained
<1>6. h \in Path /\ Odd(Len(h)) /\ Last(h) = f.steps[f.i] BY <1>4, <1>5, HereIs
<1>7. RepeatAt(q.mem, h).awaiting BY <1>1 DEF Filled
<1> HIDE DEF h
<1> QED BY <1>2, <1>4, <1>6, <1>7, NoneAtUntil

\* Nothing comes next once the body of a repeat is done.
LEMMA CloseNone ==
  ASSUME NEW q \in Call, NEW n, Placed(q), TidyCall(q), Filled(q), Underway(q), Closes(q, n), NEW x
  PROVE  ~Impends(q.mem, x)
<1> DEFINE f == q.stack[1]
           u == q.stack[2]
           h == Here(u)
           J == CompletedPaths(q.mem)
           cp == q.mem.currentPath
           c == Last(f.base)
<1>1. SUFFICES ASSUME Impends(q.mem, x) PROVE FALSE OBVIOUS
<1>2. /\ q.pc = "steps" /\ Len(q.stack) > 1 /\ f.i \notin DOMAIN f.steps
      /\ Def[u.steps[u.i]].kind = "repeat"
  BY DEF Closes
<1>3. /\ J \in SUBSET Path /\ cp \in Path /\ f \in Frame /\ Framed(f) /\ u \in Frame /\ Framed(u)
      /\ h \in Path /\ Odd(Len(h)) /\ Last(h) = u.steps[u.i]
      /\ Joined(f, u, q.mem) /\ Stands(J, cp, f) /\ f.base \in Path
  BY <1>2, DoneTidy
<1>4. f.base = Append(h, c) /\ c = RepeatAt(q.mem, h).iteration
  BY <1>2, <1>3, DoneFilled
<1>5. Asking(J, cp, u, RepeatAt(q.mem, h).iteration)
  <2> HIDE DEF f, u, J, cp
  <2> QED BY <1>2, <1>3, BodyDone DEF h
<1>6. Leads(h, cp) /\ h \notin J BY <1>5 DEF Asking
<1>7. Ready(q.mem)
  <2>1. q.pc \in Forward BY <1>2 DEF Forward
  <2> QED BY <2>1, ForwardFirm, FirmReady
<1>8. ~Leads(f.base, x)
  <2>1. ~Resuming(f, q.mem.currentPath) BY <1>2 DEF Resuming
  <2> QED BY <1>1, <1>2, <2>1, LoopWhere
<1> HIDE DEF h
<1>9. Leads(h, x) BY <1>1, <1>3, <1>6, <1>7, OnTheWay
<1>10. x \in Path /\ Def[Last(x)].kind = "action" /\ Unbarred(q.mem, x) BY <1>1 DEF Impends
<1>11. Under(h, x)
  <2>1. h # x BY <1>2, <1>3, <1>10
  <2> QED BY <1>3, <1>9, <1>10, <2>1, PathOrder
<1>12. x[Len(h) + 1] = c BY <1>2, <1>3, <1>4, <1>10, <1>11 DEF Unbarred
<1>13. Append(h, c) \in Path /\ Leads(Append(h, c), x)
  BY <1>3, <1>10, <1>11, <1>12, NextLeads
<1> QED BY <1>4, <1>8, <1>13

\* A step that is no repeat, at the current path, is what comes next if anything does.
LEMMA CallNext ==
  ASSUME NEW q \in Call, Placed(q), TidyCall(q), At(q, "call"), q.mem.currentPath = Place(q),
         DefAt(q).kind # "repeat", NEW x, Impends(q.mem, x)
  PROVE  x = Place(q)
<1> DEFINE J == CompletedPaths(q.mem)
           u == Place(q)
<1>1. "call" \in Forward /\ "call" \in InStep BY DEF Forward, InStep
<1>2. /\ J \in SUBSET Path /\ u \in Path /\ u # <<>> /\ Odd(Len(u)) /\ Def[Last(u)] = DefAt(q)
      /\ Going("call", q.mem, q.stack[1])
  BY <1>1, AtTidy
<1>3. u \notin J BY <1>1, <1>2 DEF Going, Entered, Place
<1>4. x \in Path /\ Route(J, x) /\ Leads(u, x) BY <1>3 DEF Impends, Reaches
<1>5. x = u \/ Under(u, x) BY <1>2, <1>4, PathOrder
<1>6. ~Under(u, x)
  <2> HIDE DEF u, J
  <2> QED BY <1>2, <1>3, <1>4, Along
<1> QED BY <1>5, <1>6

\* What a call that goes forward comes from goes forward.
LEMMA FirmBefore ==
  ASSUME NEW q \in Call, NEW n \in Call, Placed(q), Tracks(q, n), Firm(n)
  PROVE  Firm(q)
<1>1. CASE Passes(q, n) BY <1>1 DEF Passes
<1>2. CASE SetsOut(q, n) BY <1>2 DEF SetsOut, Firm
<1>3. CASE Ends(q, n) \/ UntilFails(q, n) BY <1>3 DEF Ends, UntilFails, Firm, GoesForward
<1>4. q.pc \in Forward => Firm(q) BY ForwardFirm
<1>5. CASE Skips(q, n) \/ Enters(q, n) \/ Rises(q, n) \/ Closes(q, n) \/ Clocks(q, n)
           \/ Records(q, n) \/ Decides(q, n) \/ GoesDown(q, n) \/ Begins(q, n)
           \/ UntilDone(q, n) \/ UntilMore(q, n)
  BY <1>4, <1>5
     DEF Skips, Enters, Rises, Closes, Clocks, Records, Decides, GoesDown, Begins, UntilDone,
         UntilMore, At, Forward
<1> QED BY <1>1, <1>2, <1>3, <1>5 DEF Tracks

\* The step that is entered is at the current path, or is one that the loop has come to.
LEMMA EnterWhere ==
  ASSUME NEW q \in Call, Placed(q), At(q, "steps"), Entering(q.stack[1]) # q.mem.currentPath
  PROVE  /\ Entering(q.stack[1]) = Place(q)
         /\ ~Resuming(q.stack[1], q.mem.currentPath)
<1> DEFINE f == q.stack[1]
           cp == q.mem.currentPath
           J == CompletedPaths(q.mem)
<1>1. "steps" \in Forward BY DEF Forward
<1>2. f \in Frame /\ Framed(f) /\ f.i \in DOMAIN f.steps /\ Here(f) \in Path /\ cp \in Path
      /\ Going("steps", q.mem, f)
  BY <1>1, AtPlaced
<1>3. f.i = f.start => f.resume = cp BY <1>2 DEF Going, Stands
<1>4. Entering(f) = Here(f) BY <1>3 DEF Entering
<1>5. ASSUME Resuming(f, cp) PROVE FALSE
  <2>1. f.i = f.start /\ Leads(Here(f), cp) BY <1>5 DEF Resuming
  <2>2. cp = Here(f) \/ Under(Here(f), cp) BY <1>2, <2>1, PathOrder
  <2>3. ~Under(Here(f), cp) BY <1>3, <2>1 DEF Entering
  <2> QED BY <1>4, <2>2, <2>3
<1> QED BY <1>4, <1>5 DEF Place

\* What comes next is still to come after a move of the call, or has been recorded.
LEMMA ComesNext ==
  ASSUME NEW q \in Call, NEW n \in Call, Placed(q), Placed(n), TidyCall(q), Filled(q), Underway(q),
         Tracks(q, n), Firm(n), NEW x, Impends(q.mem, x)
  PROVE  x \in CompletedPaths(n.mem) \/ Impends(n.mem, x)
<1> DEFINE J == CompletedPaths(q.mem)
           K == CompletedPaths(n.mem)
           cp == q.mem.currentPath
<1>1. "steps" \in Forward /\ "call" \in Forward BY DEF Forward
<1>2. CASE Passes(q, n) \/ SetsOut(q, n) \/ Skips(q, n) \/ Rises(q, n) \/ GoesDown(q, n)
           \/ Clocks(q, n) \/ Begins(q, n)
  <2>1. SameCourse(q.mem, n.mem) BY <1>2, SameMove
  <2> QED BY <2>1, ImpendsSame
<1>3. CASE Enters(q, n)
  <2> DEFINE f == q.stack[1]
             h == Place(q)
  <2>1. /\ At(q, "steps") /\ n.pc \in InStep /\ n.stack = q.stack /\ SameTrack(q.mem, n.mem)
        /\ n.mem.currentPath = Entering(f)
    BY <1>3 DEF Enters
  <2>2. CASE Entering(f) = cp
    <3>1. SameCourse(q.mem, n.mem) BY <2>1, <2>2, TrackCourse DEF SameTrack
    <3> QED BY <3>1, ImpendsSame
  <2>3. CASE Entering(f) # cp
    <3>1. Entering(f) = h /\ ~Resuming(f, cp) BY <2>1, <2>3, EnterWhere
    <3>2. q.pc = "steps" /\ f.i \in DOMAIN f.steps BY <2>1, <1>1, AtPlaced
    <3>3. Leads(h, x) BY <3>1, <3>2, LoopWhere DEF Place
    <3>4. K = J BY <2>1 DEF SameTrack, CompletedPaths
    <3>5. h \notin K
      <4>1. n.pc = Heading(n) /\ n.pc \in Forward BY <2>1 DEF Heading, InStep, Forward
      <4>2. Entered(K, n.mem.currentPath, f) BY <2>1, <4>1 DEF Placed, Going
      <4> QED BY <2>1, <3>1, <4>2 DEF Entered, Place
    <3>6. Unbarred(n.mem, x)
      <4>1. \A y : RepeatAt(n.mem, y) = RepeatAt(q.mem, y) BY <2>1 DEF SameTrack, RepeatAt
      <4> QED BY <4>1 DEF Impends, Unbarred
    <3> HIDE DEF h
    <3> QED BY <2>1, <3>1, <3>3, <3>4, <3>5, <3>6 DEF Impends, Reaches
  <2> QED BY <2>2, <2>3
<1>4. CASE Ends(q, n) BY <1>4, EndNone
<1>5. CASE Closes(q, n) BY <1>5, CloseNone
<1>6. CASE Records(q, n)
  <2>1. x = Place(q) BY <1>6, CallNext DEF Records
  <2> QED BY <1>6, <2>1 DEF Records
<1>7. CASE Decides(q, n)
  <2>1. At(q, "call") /\ DefAt(q).kind = "branch" BY <1>7 DEF Decides
  <2>2. x = Place(q) BY <1>7, <2>1, CallNext DEF Decides
  <2>3. Def[Last(Place(q))] = DefAt(q) BY <1>1, <2>1, AtTidy
  <2> QED BY <2>1, <2>2, <2>3 DEF Impends
<1>8. CASE UntilDone(q, n) \/ UntilMore(q, n) \/ UntilFails(q, n)
  <2>1. q.pc = "until" BY <1>8 DEF UntilDone, UntilMore, UntilFails, At
  <2> QED BY <2>1, UntilNone
<1> QED BY <1>2, <1>3, <1>4, <1>5, <1>6, <1>7, <1>8 DEF Tracks

\* What is to come after a step is entered was to come before.
LEMMA EnterCame ==
  ASSUME NEW q \in Call, NEW n \in Call, Placed(q), Placed(n), TidyCall(q), Underway(q),
         Enters(q, n), NEW x, Impends(n.mem, x)
  PROVE  Impends(q.mem, x)
<1> DEFINE J == CompletedPaths(q.mem)
           cp == q.mem.currentPath
           f == q.stack[1]
           h == Here(f)
           w == StepAt(f, f.i - 1)
<1>1. /\ At(q, "steps") /\ n.pc \in InStep /\ n.stack = q.stack /\ SameTrack(q.mem, n.mem)
      /\ n.mem.currentPath = Entering(f)
  BY DEF Enters
<1>2. "steps" \in Forward BY DEF Forward
<1>3. CASE Entering(f) = cp
  <2>1. SameCourse(q.mem, n.mem) BY <1>1, <1>3, TrackCourse DEF SameTrack
  <2> QED BY <2>1, ImpendsSame
<1>4. CASE Entering(f) # cp
  <2>1. Entering(f) = h /\ ~Resuming(f, cp) BY <1>1, <1>4, EnterWhere DEF Place
  <2>2. /\ f \in Frame /\ Framed(f) /\ f.i \in DOMAIN f.steps /\ h \in Path /\ J \in SUBSET Path
        /\ cp \in Path /\ q.pc = "steps"
    BY <1>1, <1>2, AtPlaced
  <2>3. CompletedPaths(n.mem) = J BY <1>1 DEF SameTrack, CompletedPaths
  <2>4. h \notin J
    <3>1. n.pc = Heading(n) /\ n.pc \in Forward BY <1>1 DEF Heading, InStep, Forward
    <3>2. Entered(J, n.mem.currentPath, f) BY <1>1, <2>3, <3>1 DEF Placed, Going
    <3> QED BY <1>1, <2>1, <3>2 DEF Entered
  <2>5. /\ x \in Path /\ Odd(Len(x)) /\ Def[Last(x)].kind = "action" /\ x \notin J /\ Route(J, x)
        /\ Leads(h, x)
    BY <1>1, <2>1, <2>3, <2>4 DEF Impends, Reaches
  <2>6. Unbarred(q.mem, x)
    <3>1. \A y : RepeatAt(n.mem, y) = RepeatAt(q.mem, y) BY <1>1 DEF SameTrack, RepeatAt
    <3> QED BY <3>1 DEF Impends, Unbarred
  <2>7. Headed(J, cp, f) BY <2>2 DEF Underway, Heading
  <2> HIDE DEF f, h, w, J, cp
  <2>8. f.base \in Path /\ Leads(f.base, h)
    <3>1. Leads(f.base, StepAt(f, f.i)) /\ f.base \in Path BY <2>2, StepAtIs
    <3> QED BY <3>1 DEF h, Here
  <2>9. CASE Newly(J, cp, f)
    <3>1. cp \notin J /\ Leads(cp, f.base) BY <2>9 DEF Newly
    <3>2. Leads(cp, h) BY <2>2, <2>8, <3>1, PathOrder
    <3>3. Leads(cp, x) BY <2>2, <2>5, <3>2, PathOrder
    <3> QED BY <2>5, <2>6, <3>1, <3>3 DEF Impends, Reaches, J, cp
  <2>10. CASE Behind(J, cp, f)
    <3>1. /\ f.i - 1 \in DOMAIN f.steps /\ cp \in J /\ Leads(w, cp)
          /\ \A z \in Path : ~Odd(Len(z)) /\ Under(w, z) /\ Leads(z, cp) => Full(J, z, ScopeAt(z))
      BY <2>10 DEF Behind, w
    <3> DEFINE d == Len(f.base) + 1
    <3>2. /\ w \in Path /\ Len(w) = d /\ Odd(d) /\ w[d] = f.steps[f.i - 1] /\ Leads(f.base, w)
          /\ d \in Nat /\ f.i \in Nat
      <4> DEFINE j == f.i - 1
      <4>1. j \in DOMAIN f.steps BY <3>1
      <4> HIDE DEF j
      <4> QED BY <2>2, <4>1, StepAtIs DEF w, j
    <3>3. Len(h) = d /\ h[d] = f.steps[f.i] BY <2>2, StepAtIs DEF h, Here
    <3>4. f.steps[f.i - 1] # f.steps[f.i] BY <2>2, <3>1, <3>2 DEF Framed, ScopeOK
    <3>5. ~Leads(cp, x)
      <4>1. SUFFICES ASSUME Leads(cp, x) PROVE FALSE OBVIOUS
      <4>2. Leads(w, x) BY <2>2, <2>5, <3>1, <3>2, <4>1, PathOrder
      <4>3. w = h BY <2>2, <2>5, <3>2, <3>3, <4>2, SameLength
      <4> QED BY <3>2, <3>3, <3>4, <4>3
    <3>6. ASSUME NEW z \in Path, ~Odd(Len(z)), Leads(z, cp), ~Leads(z, x)
          PROVE  Full(J, z, ScopeAt(z))
      <4>1. Leads(z, f.base) \/ z = w \/ Under(w, z)
        BY <2>2, <2>8, <3>1, <3>2, <3>6, Between
      <4>2. ~Leads(z, f.base)
        <5>1. Leads(z, f.base) => Leads(z, h) BY <2>2, <2>8, <3>6, PathOrder
        <5>2. Leads(z, h) => Leads(z, x) BY <2>2, <2>5, <3>6, PathOrder
        <5> QED BY <3>6, <5>1, <5>2
      <4>3. z # w BY <3>2, <3>6
      <4> QED BY <3>1, <3>6, <4>1, <4>2, <4>3
    <3>7. Reaches(J, cp, x) BY <3>1, <3>5, <3>6 DEF Reaches
    <3> QED BY <2>5, <2>6, <3>7 DEF Impends, J, cp
  <2> QED BY <2>1, <2>7, <2>9, <2>10 DEF Headed
<1> QED BY <1>3, <1>4

\* What comes next after a move along the forward path came next before.
LEMMA CameNext ==
  ASSUME NEW q \in Call, NEW n \in Call, Placed(q), Placed(n), TidyCall(q), TidyCall(n), Filled(n),
         Underway(q), Tracks(q, n), q.pc # "snapshot", n.pc \in Forward, NEW x, Impends(n.mem, x)
  PROVE  q.pc \in Forward /\ GoesForward(q.mem) /\ Impends(q.mem, x)
<1>1. Heading(n) = n.pc /\ Heading(q) = q.pc /\ n.pc # "snapshot" /\ n.pc # "raise"
  BY DEF Heading, Forward
<1>2. q.pc \in Forward
  BY <1>1
     DEF Tracks, Passes, SetsOut, Skips, Enters, Ends, Rises, Closes, Clocks, Records, Decides,
         GoesDown, Begins, UntilDone, UntilMore, UntilFails, At, Forward, InStep
<1>3. GoesForward(q.mem) BY <1>2, ForwardFirm DEF Firm
<1>4. CASE Passes(q, n) \/ Skips(q, n) \/ Rises(q, n) \/ GoesDown(q, n) \/ Begins(q, n)
  <2>1. SameCourse(q.mem, n.mem) BY <1>1, <1>4, SameMove
  <2> QED BY <1>2, <1>3, <2>1, ImpendsSame
<1>5. CASE Enters(q, n) BY <1>2, <1>3, <1>5, EnterCame
<1>6. CASE Closes(q, n)
  <2>1. n.pc = "until" BY <1>6 DEF Closes
  <2> QED BY <2>1, UntilNone
<1>7. CASE SetsOut(q, n) \/ Ends(q, n) \/ Clocks(q, n) \/ Records(q, n) \/ Decides(q, n)
           \/ UntilDone(q, n) \/ UntilMore(q, n) \/ UntilFails(q, n)
  BY <1>1, <1>7 DEF SetsOut, Ends, Clocks, Records, Decides, UntilDone, UntilMore, UntilFails
<1> QED BY <1>4, <1>5, <1>6, <1>7 DEF Tracks

\* A compensable completion is never forgotten: no repeat with a compact history holds one.
LEMMA NeverLost ==
  ASSUME NEW q \in Call, NEW n \in Call, Placed(q), TidyCall(q), InOrder(q.mem.completed),
         Tracks(q, n), NEW a \in CompletedPaths(q.mem), Def[Last(a)].compensate
  PROVE  a \in CompletedPaths(n.mem)
<1> DEFINE m == q.mem
           J == CompletedPaths(m)
<1>1. CASE Passes(q, n) \/ SetsOut(q, n) \/ Enters(q, n) \/ Ends(q, n)
  <2>1. SameTrack(m, n.mem) BY <1>1 DEF Passes, SetsOut, Enters, Ends
  <2> QED BY <2>1 DEF SameTrack, CompletedPaths
<1>2. CASE Skips(q, n) \/ Rises(q, n) \/ GoesDown(q, n)
  BY <1>2 DEF Skips, Rises, GoesDown
<1>3. CASE Clocks(q, n) \/ Begins(q, n)
  <2>1. SameCourse(m, n.mem) BY <1>3, SameMove
  <2> QED BY <2>1 DEF SameCourse
<1>4. CASE Closes(q, n)
  <2>1. CompletedPaths(n.mem) = J BY <1>4 DEF Closes, SetRepeat, CompletedPaths, Call, RunState
  <2> QED BY <2>1
<1>5. CASE Records(q, n) \/ Decides(q, n) BY <1>5 DEF Records, Decides
<1>6. CASE UntilDone(q, n) \/ UntilMore(q, n) \/ UntilFails(q, n)
  <2> DEFINE x == Place(q)
             k == Retained(m, x)
             y == Append(x, RepeatAt(m, x).iteration)
  <2>1. At(q, "until") /\ "until" \in Forward
    BY <1>6 DEF UntilDone, UntilMore, UntilFails, Forward
  <2>2. /\ m \in RunState /\ J \in SUBSET Path /\ x \in Path /\ x # <<>> /\ Odd(Len(x))
        /\ Def[Last(x)] = DefAt(q) /\ Route(J, x) /\ Tied(m.repeats, x)
        /\ Going("until", m, q.stack[1])
    BY <2>1, AtTidy
  <2>3. Last(x) \in Step
    <3>1. q.stack[1] \in Frame /\ Framed(q.stack[1]) /\ q.stack[1].i \in DOMAIN q.stack[1].steps
      BY <2>1, AtTidy
    <3> QED BY <3>1, HereIs DEF Place
  <2>4. Def[Last(x)].kind = "repeat" BY <2>2 DEF Going, Asking, DefAt
  <2>5. Tidy(m) BY DEF TidyCall
  <2>6. CompletedPaths(k) \subseteq CompletedPaths(n.mem)
    BY <1>6 DEF UntilDone, UntilMore, UntilFails
  <2>7. ASSUME a \notin CompletedPaths(k) PROVE FALSE
    <3> HIDE DEF x
    <3>1. Leads(y, a) /\ Def[Last(x)].compact
      BY <2>2, <2>4, <2>5, <2>7, RetainedIs
    <3>2. PICK j \in DOMAIN m.completed : a = m.completed[j].path BY DEF CompletedPaths
    <3>3. a \in Path /\ Odd(Len(a)) /\ \A d \in DOMAIN a : NodeOf(a, d)
      BY <2>2, <3>2 DEF InOrder, Genuine
    <3>4. RepeatAt(m, x).iteration \in Nat
      BY <2>2, RepeatAtType DEF RepeatState
    <3> DEFINE i == RepeatAt(m, x).iteration
    <3>5. i \in Nat /\ Leads(Append(x, i), a) BY <3>1, <3>4
    <3> HIDE DEF i
    <3>6. Last(a) \in Below(Last(x)) BY <2>2, <2>3, <2>4, <3>3, <3>5, BelowRepeat
    <3>7. CompactOK(Last(x)) BY <2>3, DefinitionAssumption
    <3> QED BY <3>1, <3>6, <3>7 DEF CompactOK
  <2> QED BY <2>6, <2>7
<1> QED BY <1>1, <1>2, <1>3, <1>4, <1>5, <1>6 DEF Tracks

-----------------------------------------------------------------------------
(* The durable state and what comes next for the calls.                    *)

\* The call p, which may write, keeps the compensable completions of s, and what comes next in
\* s, if it can be compensated, comes next for p too unless p has completed it; p does not end
\* the run before.
Follows(s, p) ==
  /\ \A a \in CompletedPaths(s) : Def[Last(a)].compensate => a \in CompletedPaths(p.mem)
  /\ GoesForward(s) =>
       \A x : Impends(s, x) /\ Def[Last(x)].compensate =>
         /\ Firm(p) => x \in CompletedPaths(p.mem) \/ Impends(p.mem, x)
         /\ p.mem.status = "completed" => x \in CompletedPaths(p.mem)

\* A call ends the run only when its top level is done.
LEMMA EndsOnly ==
  ASSUME NEW q \in Call, NEW n \in Call, Placed(q), TidyCall(q), Tracks(q, n),
         n.mem.status = "completed"
  PROVE  q.mem.status = "completed" \/ (Firm(q) /\ Ends(q, n))
<1>1. ASSUME q.pc \in Forward PROVE Firm(q) /\ q.mem.status = "running"
  BY <1>1, ForwardFirm
<1>2. CASE Passes(q, n) BY <1>2 DEF Passes
<1>3. CASE Ends(q, n) BY <1>1, <1>3 DEF Ends, Forward
<1>4. CASE SetsOut(q, n) \/ Records(q, n) \/ Decides(q, n) \/ UntilDone(q, n) \/ UntilMore(q, n)
  BY <1>4 DEF SetsOut, Records, Decides, UntilDone, UntilMore
<1>5. CASE Skips(q, n) \/ Enters(q, n) \/ Rises(q, n) \/ GoesDown(q, n)
  BY <1>1, <1>5 DEF Skips, Enters, Rises, GoesDown, At, Forward
<1>6. CASE Closes(q, n) \/ Clocks(q, n)
  <2>1. n.mem.status = q.mem.status
    BY <1>6 DEF Closes, Clocks, SetRepeat, Call, RunState
  <2> QED BY <2>1
<1>7. CASE Begins(q, n)
  <2>1. n.mem.status = "running" BY <1>7, BeginIs
  <2> QED BY <2>1
<1>8. CASE UntilFails(q, n)
  <2> DEFINE x == Place(q)
  <2>1. At(q, "until") /\ "until" \in Forward BY <1>8 DEF UntilFails, Forward
  <2>2. /\ q.mem \in RunState /\ x \in Path /\ x # <<>> /\ Odd(Len(x)) /\ Def[Last(x)] = DefAt(q)
        /\ Route(CompletedPaths(q.mem), x) /\ Tied(q.mem.repeats, x)
        /\ Going("until", q.mem, q.stack[1])
    BY <2>1, AtTidy
  <2>3. Def[Last(x)].kind = "repeat" BY <2>2 DEF Going, Asking, DefAt
  <2>4. Tidy(q.mem) BY DEF TidyCall
  <2>5. n.mem = Retained(q.mem, x) BY <1>8 DEF UntilFails
  <2> HIDE DEF x
  <2>6. Retained(q.mem, x).status = q.mem.status BY <2>2, <2>3, <2>4, RetainedIs
  <2> QED BY <2>5, <2>6
<1> QED BY <1>2, <1>3, <1>4, <1>5, <1>6, <1>7, <1>8 DEF Tracks

\* A call that moves follows what it followed.
LEMMA TracksFollow ==
  ASSUME NEW q \in Call, NEW n \in Call, Placed(q), Placed(n), TidyCall(q), Filled(q), Underway(q),
         InOrder(q.mem.completed), Tracks(q, n), NEW s, Follows(s, q)
  PROVE  Follows(s, n)
<1>1. \A a \in CompletedPaths(q.mem) : Def[Last(a)].compensate => a \in CompletedPaths(n.mem)
  BY NeverLost
<1>2. \A a \in CompletedPaths(s) : Def[Last(a)].compensate => a \in CompletedPaths(n.mem)
  BY <1>1 DEF Follows
<1>3. ASSUME GoesForward(s), NEW x, Impends(s, x), Def[Last(x)].compensate
      PROVE  /\ Firm(n) => x \in CompletedPaths(n.mem) \/ Impends(n.mem, x)
             /\ n.mem.status = "completed" => x \in CompletedPaths(n.mem)
  <2>1. /\ Firm(q) => x \in CompletedPaths(q.mem) \/ Impends(q.mem, x)
        /\ q.mem.status = "completed" => x \in CompletedPaths(q.mem)
    BY <1>3 DEF Follows
  <2>2. x \in CompletedPaths(q.mem) => x \in CompletedPaths(n.mem) BY <1>1, <1>3
  <2>3. ASSUME Firm(n) PROVE x \in CompletedPaths(n.mem) \/ Impends(n.mem, x)
    <3>1. Firm(q) BY <2>3, FirmBefore
    <3>2. CASE Impends(q.mem, x) BY <2>3, <3>2, ComesNext
    <3> QED BY <2>1, <2>2, <3>1, <3>2
  <2>4. ASSUME n.mem.status = "completed" PROVE x \in CompletedPaths(n.mem)
    <3>1. q.mem.status = "completed" \/ (Firm(q) /\ Ends(q, n)) BY <2>4, EndsOnly
    <3>2. ASSUME Ends(q, n) PROVE ~Impends(q.mem, x) BY <3>2, EndNone
    <3> QED BY <2>1, <2>2, <3>1, <3>2
  <2> QED BY <2>3, <2>4
<1> QED BY <1>2, <1>3 DEF Follows

\* A call that holds the durable state follows it.
LEMMA FollowSame ==
  ASSUME NEW s, NEW p, p.mem = s
  PROVE  Follows(s, p)
BY DEF Follows, GoesForward

\* The calls are on their way to the next action, and so is the durable state.
Courses ==
  /\ GoesForward(store) => Peopled(store.currentPath)
  /\ \A w \in Worker : Underway(proc[w])

\* The calls that may write follow the durable state.
Followed == \A w \in Worker : proc[w].pc # "idle" /\ Fresh(w) => Follows(store, proc[w])

\* The call p is on its way to the action at the path x, and nothing need be saved before.
Aims(p, x) == p.pc \in Forward /\ Impends(p.mem, x)

\* The compensable action at the path x is not in the durable journal, though its effect is in
\* force or a call is on its way to it.
Loose(x) ==
  /\ x \in Path /\ Def[Last(x)].compensate /\ x \notin CompletedPaths(store)
  /\ x \in world \/ \E w \in Worker : Aims(proc[w], x)

\* There is one such action at most: the one that comes next in the durable state, as long as
\* that goes forward; and none when the run is completed.
OneLoose ==
  /\ GoesForward(store) => \A x : Loose(x) => Impends(store, x)
  /\ \A x, y : Loose(x) /\ Loose(y) => x = y
  /\ store.status = "completed" => \A x : ~Loose(x)

\* Initially no call is on its way, and nothing is in force.
LEMMA InitLoose == Init => Courses /\ Followed /\ OneLoose
<1> SUFFICES ASSUME Init PROVE Courses /\ Followed /\ OneLoose OBVIOUS
<1>1. \A w \in Worker : proc[w] = NoCall BY DEF Init
<1>2. NoCall.pc = "idle" BY DEF NoCall
<1>3. store.currentPath = <<>> /\ world = {} BY DEF Init, NewRun
<1>4. Underway(NoCall) BY <1>2 DEF Underway, Firm, Heading
<1>5. Peopled(<<>>) BY DEF Peopled
<1>6. \A x : \A w \in Worker : ~Aims(proc[w], x) BY <1>1, <1>2 DEF Aims, Forward
<1>7. \A x : ~Loose(x) BY <1>3, <1>6 DEF Loose
<1> QED BY <1>1, <1>2, <1>3, <1>4, <1>5, <1>7 DEF Courses, Followed, OneLoose

\* Every step leaves the calls on their way.
LEMMA StepKeepsCourses ==
  ASSUME TypeOK, TypeOK', ~CallerSaves, Position, Position', Tidiness, Tidiness', Fill, Courses,
         [Next]_vars
  PROVE  Courses'
<1>1. Saved /\ \A w \in Worker : Moved(w) BY StepMoves
<1>2. \A w \in Worker : /\ proc[w] \in Call /\ proc'[w] \in Call /\ Placed(proc[w])
                        /\ Placed(proc'[w]) /\ TidyCall(proc[w]) /\ TidyCall(proc'[w])
                        /\ Filled(proc[w]) /\ Underway(proc[w])
  BY DEF TypeOK, Position, Tidiness, Fill, Courses
<1>3. Underway(NoCall)
  <2>1. NoCall.pc = "idle" BY DEF NoCall
  <2> QED BY <2>1 DEF Underway, Firm, Heading
<1>4. Underway(Loaded)
  <2>1. Loaded.mem = store /\ Loaded.pc = "start" BY DEF Loaded, NoCall
  <2> QED BY <2>1 DEF Underway, Firm, Heading, Courses
<1>5. ASSUME NEW w \in Worker PROVE Underway(proc'[w])
  <2>1. CASE Tracks(proc[w], proc'[w])
    <3>1. Firm(proc'[w]) => Peopled(proc'[w].mem.currentPath) BY <1>2, <2>1, PeopledMoves
    <3>2. Heading(proc'[w]) = "steps" =>
            Headed(CompletedPaths(proc'[w].mem), proc'[w].mem.currentPath, proc'[w].stack[1])
      BY <1>2, <2>1, HeadedMoves
    <3> QED BY <3>1, <3>2 DEF Underway
  <2> QED BY <1>1, <1>2, <1>3, <1>4, <2>1 DEF Moved
<1>6. GoesForward(store') => Peopled(store'.currentPath)
  <2>1. CASE store' = store BY <2>1 DEF Courses
  <2>2. ASSUME NEW w \in Worker, proc[w].pc = "snapshot", store' = Written(proc[w].mem)
        PROVE  GoesForward(store') => Peopled(store'.currentPath)
    <3>1. proc[w].mem \in RunState BY <1>2 DEF Call
    <3>2. store'.status = proc[w].mem.status /\ store'.currentPath = proc[w].mem.currentPath
      BY <2>2, <3>1 DEF Written, RunState
    <3>3. GoesForward(store') => Firm(proc[w]) BY <2>2, <3>2 DEF Firm, GoesForward
    <3> QED BY <1>2, <3>2, <3>3 DEF Underway
  <2> QED BY <1>1, <2>1, <2>2 DEF Saved
<1> QED BY <1>5, <1>6 DEF Courses

\* The writer is the only call that may write after its write.
LEMMA OthersStale ==
  ASSUME Guarded, TypeOK, Lineage, NEW w \in Worker, Writes(w),
         NEW v \in Worker, v # w, proc'[v].pc # "idle"
  PROVE  ~Fresh(v)'
<1> SUFFICES ASSUME Fresh(v)' PROVE FALSE OBVIOUS
<1>1. proc'[v] = proc[v] /\ ~Alone /\ Mode = "cas" /\ ~CallerSaves
  BY DEF Writes, Guarded, Alone
<1>2. store.revision = proc[w].mem.revision /\ store' = Written(proc[w].mem)
  BY <1>1 DEF Writes, Accepts
<1>3. proc[w].mem \in RunState /\ proc[v].mem \in RunState BY DEF TypeOK, Call
<1>4. /\ proc[w].mem.revision \in Nat /\ proc[v].mem.revision \in Nat
      /\ store'.revision = proc[w].mem.revision + 1
  BY <1>2, <1>3 DEF Written, RunState
<1>5. proc[v].mem.revision <= store.revision BY <1>1 DEF Lineage
<1>6. proc[v].mem.revision = store'.revision BY <1>1 DEF Fresh, Alone
<1> QED BY <1>2, <1>4, <1>5, <1>6

\* Every step leaves the calls that may write following the durable state.
LEMMA StepKeepsFollowed ==
  ASSUME Guarded, ~CallerSaves, Mode # "none", TypeOK, TypeOK', Position, Position', Windows,
         Tidiness, Fill, Lineage, Orderly, Courses, Followed, [Next]_vars
  PROVE  Followed'
<1> SUFFICES ASSUME NEW v \in Worker, proc'[v].pc # "idle", Fresh(v)'
             PROVE  Follows(store', proc'[v])
  BY DEF Followed
<1>1. Fresh(v) /\ proc[v].pc # "idle" => Follows(store, proc[v]) BY DEF Followed
<1>2. Moved(v) BY StepMoves
<1>3. /\ proc[v] \in Call /\ proc'[v] \in Call /\ Placed(proc[v]) /\ Placed(proc'[v])
      /\ TidyCall(proc[v]) /\ Filled(proc[v]) /\ Underway(proc[v])
      /\ InOrder(proc[v].mem.completed)
  BY DEF TypeOK, Position, Tidiness, Fill, Courses, Orderly
<1>4. Loaded.mem = store /\ NoCall.pc = "idle" BY DEF Loaded, NoCall
<1>5. ASSUME store' = store, proc'[v] = proc[v] PROVE Follows(store', proc'[v])
  BY <1>1, <1>5 DEF Fresh
<1>6. ASSUME store' = store,
             proc[v].pc # "idle" /\ proc'[v].mem.revision = proc[v].mem.revision
      PROVE  Follows(store', proc'[v])
  <2>1. Fresh(v) BY <1>6 DEF Fresh
  <2>2. Follows(store, proc[v]) BY <1>1, <1>6, <2>1
  <2>3. CASE Tracks(proc[v], proc'[v]) BY <1>3, <1>6, <2>2, <2>3, TracksFollow
  <2>4. CASE proc'[v] = Loaded BY <1>4, <1>6, <2>4, FollowSame
  <2> QED BY <1>2, <1>4, <1>6, <2>2, <2>3, <2>4 DEF Moved
<1>7. ASSUME NEW w \in Worker, Relays(w) PROVE Follows(store', proc'[v])
  <2>1. CASE v # w BY <1>5, <1>7, <2>1 DEF Relays
  <2>2. CASE v = w BY <1>6, <1>7, <2>2 DEF Relays
  <2> QED BY <2>1, <2>2
<1>8. ASSUME NEW w \in Worker, Restarts(w) PROVE Follows(store', proc'[v])
  <2>1. CASE v # w BY <1>5, <1>8, <2>1 DEF Restarts
  <2>2. CASE v = w /\ proc'[w] = Loaded BY <1>4, <1>8, <2>2, FollowSame DEF Restarts
  <2>3. CASE v = w /\ proc[w].pc # "idle" /\ proc'[w].mem = proc[w].mem
    BY <1>6, <1>8, <2>3 DEF Restarts
  <2> QED BY <1>8, <2>1, <2>2, <2>3 DEF Restarts
<1>9. ASSUME NEW w \in Worker, Writes(w) PROVE Follows(store', proc'[v])
  <2>1. CASE v = w
    <3>1. proc'[v].mem = store' BY <1>9, <2>1 DEF Writes
    <3> QED BY <3>1, FollowSame
  <2>2. CASE v # w BY <1>9, <2>2, OthersStale
  <2> QED BY <2>1, <2>2
<1> QED BY <1>5, <1>7, <1>8, <1>9, StepRelays

\* The effect of an action comes into force only while a call is at the action.
LEMMA WorldGrows ==
  ASSUME TypeOK, [Next]_vars, NEW x \in world', x \notin world
  PROVE  \E w \in Worker : /\ At(proc[w], "call") /\ x = StepPath(proc[w])
                           /\ Def[StepOf(proc[w])].kind = "action"
<1>1. ASSUME NEW w \in Worker, NEW o \in Outcome, Do(w, o)
      PROVE  /\ At(proc[w], "call") /\ x = StepPath(proc[w])
             /\ Def[StepOf(proc[w])].kind = "action"
  BY <1>1 DEF Do
<1>2. ASSUME NEW w \in Worker, WorkerStep(w), ~(\E o \in Outcome : Do(w, o)) PROVE FALSE
  BY <1>2 DEF WorkerStep, Start, SnapshotOK, SnapshotFailed, Return, SkipCompleted, StopCancelled,
     EnterStep, ScopeDone, EnsureRepeatStarted, CheckRepeatTimeout, OnEnter, Sleep, PollTimeout,
     Check, ResumeBranch, Decide, DecideFailed, BeginIteration, Until, UntilTimeout,
     RaiseCancelled, Propagate, RaiseNoCompensate, RaiseFailure, SkipCompensation,
     CompensationCancelled, CompensationDone, Compensate, Local
<1>3. ASSUME NEW w \in Worker, Load(w) \/ Crash(w) \/ Cancel(w) \/ SnapshotAckLost(w) PROVE FALSE
  BY <1>3 DEF Load, Crash, Cancel, SnapshotAckLost, Local
<1>4. ~(Tick \/ UNCHANGED vars) BY DEF Tick, vars
<1> QED BY <1>1, <1>2, <1>3, <1>4 DEF Next, Terminated

\* A call at an action is on its way to it.
LEMMA CallAims ==
  ASSUME NEW q \in Call, Placed(q), TidyCall(q), Windowed(q), At(q, "call"),
         Def[StepOf(q)].kind = "action"
  PROVE  Aims(q, StepPath(q)) /\ StepPath(q) \in Path
<1> DEFINE f == q.stack[1]
           h == Here(f)
           J == CompletedPaths(q.mem)
           cp == q.mem.currentPath
<1>1. "call" \in Forward /\ "call" \in InStep BY DEF Forward, InStep
<1>2. /\ q.pc = "call" /\ StepPath(q) = h /\ StepOf(q) = f.steps[f.i] /\ f \in Frame /\ Framed(f)
      /\ f.i \in DOMAIN f.steps /\ q.mem \in RunState /\ J \in SUBSET Path /\ cp \in Path
      /\ Leads(h, cp) /\ Resumable(J, cp) /\ Going("call", q.mem, f)
  BY <1>1, AtPlaced
<1>3. h \in Path /\ h # <<>> /\ Odd(Len(h)) /\ Last(h) = f.steps[f.i] BY <1>2, HereIs
<1>4. Entered(J, cp, f) BY <1>1, <1>2 DEF Going
<1>5. Descends("call", q.mem, f) BY <1>1, AtWindowed
<1>6. Awake(q.mem, f.base) BY <1>5 DEF Descends
<1>7. Awake(q.mem, h)
  <2> HIDE DEF f
  <2> QED BY <1>2, <1>6, AwakeHere
<1>8. Ready(q.mem) BY <1>1, <1>2, ForwardFirm, FirmReady
<1>9. Def[Last(h)].kind = "action" BY <1>2, <1>3
<1>10. h = cp
  <2> HIDE DEF h, J, cp
  <2>1. Route(J, cp) BY <1>2 DEF Resumable
  <2> QED BY <1>2, <1>3, <1>9, <2>1, LeafPath
<1>11. h \notin J BY <1>4, <1>10 DEF Entered
<1> HIDE DEF h
<1>12. Impends(q.mem, h) BY <1>3, <1>7, <1>8, <1>9, <1>10, <1>11, CallImpends
<1> QED BY <1>1, <1>2, <1>3, <1>12 DEF Aims

\* An action whose effect comes into force was aimed at, and so was one that a call is on its
\* way to, unless the call has just written.
LEMMA LooseBefore ==
  ASSUME ~CallerSaves, Mode # "none", TypeOK, TypeOK', Position, Position', Windows, Tidiness,
         Tidiness', Fill, Fill', Lineage, Courses, [Next]_vars, NEW x
  PROVE  /\ x \in world' \ world => \E w \in Worker : Aims(proc[w], x) /\ x \in Path
         /\ \A w \in Worker :
              proc[w].pc # "snapshot" /\ Aims(proc'[w], x) => Aims(proc[w], x)
<1>1. ASSUME x \in world' \ world PROVE \E w \in Worker : Aims(proc[w], x) /\ x \in Path
  <2>1. PICK w \in Worker : /\ At(proc[w], "call") /\ x = StepPath(proc[w])
                            /\ Def[StepOf(proc[w])].kind = "action"
    BY <1>1, WorldGrows
  <2>2. proc[w] \in Call /\ Placed(proc[w]) /\ TidyCall(proc[w]) /\ Windowed(proc[w])
    BY DEF TypeOK, Position, Tidiness, Windows
  <2> QED BY <2>1, <2>2, CallAims
<1>2. ASSUME NEW w \in Worker, proc[w].pc # "snapshot", Aims(proc'[w], x)
      PROVE  Aims(proc[w], x)
  <2>1. /\ proc[w] \in Call /\ proc'[w] \in Call /\ Placed(proc[w]) /\ Placed(proc'[w])
        /\ TidyCall(proc[w]) /\ TidyCall(proc'[w]) /\ Filled(proc'[w]) /\ Underway(proc[w])
    BY DEF TypeOK, Position, Tidiness, Fill, Courses
  <2>2. proc'[w].pc \in Forward /\ Impends(proc'[w].mem, x) BY <1>2 DEF Aims
  <2>3. Moved(w) BY StepMoves
  <2>4. CASE Tracks(proc[w], proc'[w])
    BY <1>2, <2>1, <2>2, <2>4, CameNext DEF Aims
  <2>5. NoCall.pc \notin Forward /\ Loaded.pc \notin Forward BY DEF NoCall, Loaded, Forward
  <2> QED BY <1>2, <2>2, <2>3, <2>4, <2>5 DEF Moved
<1> QED BY <1>1, <1>2

\* A step that writes nothing makes nothing loose.
LEMMA QuietKeepsLoose ==
  ASSUME ~CallerSaves, Mode # "none", TypeOK, TypeOK', Position, Position', Windows, Tidiness,
         Tidiness', Fill, Fill', Lineage, Courses, OneLoose, [Next]_vars, store' = store,
         \A w \in Worker : proc[w].pc = "snapshot" => proc'[w].pc \notin Forward
  PROVE  OneLoose'
<1>1. ASSUME NEW x, Loose(x)' PROVE Loose(x)
  <2>1. /\ x \in Path /\ Def[Last(x)].compensate /\ x \notin CompletedPaths(store)
        /\ x \in world' \/ \E w \in Worker : Aims(proc'[w], x)
    BY <1>1 DEF Loose
  <2>2. x \in world' \ world => \E w \in Worker : Aims(proc[w], x) BY LooseBefore
  <2>3. \A w \in Worker : proc[w].pc # "snapshot" /\ Aims(proc'[w], x) => Aims(proc[w], x)
    BY LooseBefore
  <2>4. \A w \in Worker : Aims(proc'[w], x) => Aims(proc[w], x) BY <2>3 DEF Aims
  <2> QED BY <2>1, <2>2, <2>4 DEF Loose
<1> QED BY <1>1 DEF OneLoose

\* A write leaves nothing loose but what comes next.
LEMMA WriteKeepsLoose ==
  ASSUME Guarded, ~CallerSaves, Mode # "none", TypeOK, TypeOK', Position, Position', Windows,
         Tidiness, Tidiness', Fill, Fill', Lineage, Stepwise, Courses, Followed, OneLoose,
         [Next]_vars, NEW w \in Worker, Writes(w)
  PROVE  OneLoose'
<1> DEFINE q == proc[w]
           m == q.mem
           s == store'
<1>1. /\ q.pc = "snapshot" /\ s = Written(m) /\ \A v \in Worker \ {w} : proc'[v] = proc[v]
      /\ proc'[w].pc = "idle" \/ proc'[w].mem = s
  BY DEF Writes
<1>2. q \in Call /\ m \in RunState /\ Placed(q) /\ TidyCall(q) /\ store \in RunState
  BY DEF TypeOK, Position, Tidiness, Call
<1>3. /\ s.completed = m.completed /\ s.status = m.status /\ s.repeats = m.repeats
      /\ s.currentPath = m.currentPath
  BY <1>1, <1>2 DEF Written, RunState
<1>4. CompletedPaths(s) = CompletedPaths(m) BY <1>3 DEF CompletedPaths
<1>5. \A x : Impends(m, x) <=> Impends(s, x)
  <2>1. SameCourse(m, s) BY <1>3, TrackCourse
  <2> QED BY <2>1, ImpendsSame
<1>6. Follows(store, q) /\ Leading(store, "snapshot", m)
  <2>1. Fresh(w) BY WriterFresh
  <2> QED BY <1>1, <2>1 DEF Followed, Stepwise
<1>7. OneStep(store, m) BY <1>6 DEF Leading
<1>8. ASSUME NEW x, Aims(proc'[w], x) PROVE GoesForward(s) /\ Impends(s, x)
  <2>1. proc'[w].pc \in Forward /\ Impends(proc'[w].mem, x) BY <1>8 DEF Aims
  <2>2. proc'[w].mem = s BY <1>1, <2>1 DEF Forward
  <2>3. proc'[w] \in Call /\ Placed(proc'[w]) BY DEF TypeOK, Position
  <2>4. GoesForward(proc'[w].mem) BY <2>1, <2>3, ForwardFirm DEF Firm
  <2> QED BY <2>1, <2>2, <2>4
<1>9. ASSUME NEW x, Loose(x)' PROVE Loose(x) \/ (GoesForward(s) /\ Impends(s, x))
  <2>1. /\ x \in Path /\ Def[Last(x)].compensate /\ x \notin CompletedPaths(m)
        /\ x \in world' \/ \E v \in Worker : Aims(proc'[v], x)
    BY <1>4, <1>9 DEF Loose
  <2>2. x \notin CompletedPaths(store) BY <1>6, <2>1 DEF Follows
  <2>3. x \in world' \ world => \E v \in Worker : Aims(proc[v], x) BY LooseBefore
  <2>4. \A v \in Worker \ {w} : Aims(proc'[v], x) => Aims(proc[v], x) BY <1>1
  <2> QED BY <1>8, <2>1, <2>2, <2>3, <2>4 DEF Loose
<1>10. ASSUME GoesForward(s), NEW x, Loose(x)' PROVE Impends(m, x)
  <2>1. Firm(q) BY <1>1, <1>3, <1>10 DEF Firm, GoesForward
  <2>2. CASE Loose(x)
    <3>1. PhaseOf(m) = "forward" BY <1>2, <1>3, <1>10, PhaseIs DEF GoesForward
    <3>2. PhaseOf(store) = "forward"
      BY <1>7, <3>1 DEF OneStep, SameSaga, Extends, Commits, Aborts, Undoes, Finishes
    <3>3. GoesForward(store) BY <1>2, <3>2, PhaseIs
    <3>4. Impends(store, x) BY <2>2, <3>3 DEF OneLoose
    <3>5. Def[Last(x)].compensate /\ x \notin CompletedPaths(m) BY <1>4, <1>10 DEF Loose
    <3> QED BY <1>6, <2>1, <3>3, <3>4, <3>5 DEF Follows
  <2> QED BY <1>5, <1>9, <1>10, <2>2
<1>11. ASSUME s.status = "completed", NEW x, Loose(x)' PROVE FALSE
  <2>1. ~GoesForward(s) BY <1>11 DEF GoesForward
  <2>2. Loose(x) BY <1>9, <1>11, <2>1
  <2>3. PhaseOf(m) = "done" BY <1>2, <1>3, <1>11, PhaseIs
  <2>4. PhaseOf(store) = "done" \/ PhaseOf(store) = "forward"
    BY <1>7, <2>3 DEF OneStep, SameSaga, Extends, Commits, Aborts, Undoes, Finishes
  <2>5. store.status # "completed" BY <2>2 DEF OneLoose
  <2>6. GoesForward(store) BY <1>2, <2>4, <2>5, PhaseIs
  <2>7. Impends(store, x) BY <2>2, <2>6 DEF OneLoose
  <2>8. Def[Last(x)].compensate /\ x \notin CompletedPaths(m) BY <1>4, <1>11 DEF Loose
  <2> QED BY <1>3, <1>6, <1>11, <2>6, <2>7, <2>8 DEF Follows
<1>12. ASSUME NEW x, NEW y, Loose(x)', Loose(y)' PROVE x = y
  <2>1. CASE GoesForward(s)
    <3>1. Impends(m, x) /\ Impends(m, y) BY <1>10, <1>12, <2>1
    <3>2. Firm(q) BY <1>1, <1>3, <2>1 DEF Firm, GoesForward
    <3>3. Ready(m) BY <1>2, <3>2, FirmReady
    <3> QED BY <3>1, <3>3, OneImpends
  <2>2. CASE ~GoesForward(s) BY <1>9, <1>12, <2>2 DEF OneLoose
  <2> QED BY <2>1, <2>2
<1> QED BY <1>5, <1>10, <1>11, <1>12 DEF OneLoose

\* Every step leaves at most one compensable action loose.
LEMMA StepKeepsLoose ==
  ASSUME Guarded, ~CallerSaves, Mode # "none", TypeOK, TypeOK', Position, Position', Windows,
         Tidiness, Tidiness', Fill, Fill', Lineage, Stepwise, Courses, Followed, OneLoose,
         [Next]_vars
  PROVE  OneLoose'
<1>1. CASE store' = store /\ proc' = proc
  <2>1. \A w \in Worker : proc[w].pc = "snapshot" => proc'[w].pc \notin Forward
    BY <1>1 DEF Forward
  <2> QED BY <1>1, <2>1, QuietKeepsLoose
<1>2. ASSUME NEW v \in Worker, Relays(v) \/ Restarts(v) PROVE OneLoose'
  <2>1. store' = store /\ \A w \in Worker \ {v} : proc'[w] = proc[w]
    BY <1>2 DEF Relays, Restarts
  <2>2. proc[v].pc = "snapshot" => proc'[v].pc \notin Forward
    BY <1>2 DEF Relays, Restarts, Forward, Loaded, NoCall
  <2>3. \A w \in Worker : proc[w].pc = "snapshot" => proc'[w].pc \notin Forward
    BY <2>1, <2>2 DEF Forward
  <2> QED BY <2>1, <2>3, QuietKeepsLoose
<1>3. ASSUME NEW w \in Worker, Writes(w) PROVE OneLoose' BY <1>3, WriteKeepsLoose
<1> QED BY <1>1, <1>2, <1>3, StepRelays

\* What is not in the durable journal is loose.
LEMMA OrphansLoose ==
  ASSUME TypeOK, OneLoose
  PROVE  AtMostOneOrphan
<1>1. \A x \in Orphans : Loose(x)
  <2>1. world \subseteq Path BY DEF TypeOK
  <2> QED BY <2>1 DEF Orphans, Loose
<1>2. store.status = "completed" => Orphans = {} BY <1>1 DEF OneLoose
<1>3. Cardinality(Orphans) <= 1
  <2>1. CASE Orphans = {} BY <2>1, FS_EmptySet
  <2>2. ASSUME NEW x \in Orphans PROVE Cardinality(Orphans) <= 1
    <3>1. Orphans = {x} BY <1>1, <2>2 DEF OneLoose
    <3> QED BY <3>1, FS_Singleton
  <2> QED BY <2>1, <2>2
<1> QED BY <1>2, <1>3 DEF AtMostOneOrphan

\* Whatever crashes, is cut off or lost, at most one compensable action has its effect outside
\* without its entry in the durable journal, and none when the run is completed: a write follows
\* every action, a call whose write fails stops, and whoever resumes comes to that action first;
\* with any number of workers if the storage compares revisions, and as long as the snapshots
\* alone make the run durable.
THEOREM AtMostOneOrphanHolds ==
  ASSUME Guarded, ~CallerSaves, Mode # "none"
  PROVE  Spec => []AtMostOneOrphan
<1>1. TypeOK /\ [Next]_vars => TypeOK' BY StepPreservesType
<1>2. TypeOK /\ Position /\ [Next]_vars => Position' BY StepKeepsPosition
<1>3. TypeOK /\ Position /\ Windows /\ [Next]_vars => Windows' BY StepKeepsWindows
<1>4. TypeOK /\ TypeOK' /\ Position /\ Tidiness /\ [Next]_vars => Tidiness'
  BY StepKeepsTidiness
<1>5. TypeOK /\ TypeOK' /\ Position /\ Windows /\ Tidiness /\ Fill /\ [Next]_vars => Fill'
  BY StepKeepsFill
<1>6. TypeOK /\ Position /\ Orderly /\ [Next]_vars => Orderly' BY StepKeepsOrder
<1>7. TypeOK /\ Position /\ Lineage /\ Orderly /\ Stepwise /\ [Next]_vars => Stepwise'
  BY StepKeepsStepwise
<1>8. /\ TypeOK /\ TypeOK' /\ Position /\ Position' /\ Tidiness /\ Tidiness' /\ Fill /\ Courses
      /\ [Next]_vars
      => Courses'
  BY StepKeepsCourses
<1>9. /\ TypeOK /\ TypeOK' /\ Position /\ Position' /\ Windows /\ Tidiness /\ Fill /\ Lineage
      /\ Orderly /\ Courses /\ Followed /\ [Next]_vars
      => Followed'
  BY StepKeepsFollowed
<1>10. /\ TypeOK /\ TypeOK' /\ Position /\ Position' /\ Windows /\ Tidiness /\ Tidiness' /\ Fill
       /\ Fill' /\ Lineage /\ Stepwise /\ Courses /\ Followed /\ OneLoose /\ [Next]_vars
       => OneLoose'
  BY StepKeepsLoose
<1>11. Init => Stepwise BY InitSaga
<1>12. TypeOK /\ OneLoose => AtMostOneOrphan BY OrphansLoose
<1> QED
  BY <1>1, <1>2, <1>3, <1>4, <1>5, <1>6, <1>7, <1>8, <1>9, <1>10, <1>11, <1>12, InitWindows,
     InitTidiness, InitFill, InitOrderly, InitLoose, TypeCorrect, PositionHolds, LineageHolds, PTL
     DEF Spec

==============================================================================
