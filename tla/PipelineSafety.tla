----------------------------- MODULE PipelineSafety -----------------------------
(***************************************************************************)
(* Proofs about the executor, for every definition of a pipeline, every    *)
(* set of workers, every way of storing the state and every bound: that    *)
(* the state has its type; that a rollback is final and that nothing goes  *)
(* forward after it, from the inductive invariant Lineage; and that a      *)
(* failure keeps its path, from Attribution.                               *)
(*                                                                         *)
(* The second part is about where a run stands.  The journal is what       *)
(* precedes the current path in the order in which the definition runs its *)
(* steps: from that, a run that is resumed goes on where it was and calls  *)
(* no completed step again.                                                *)
(***************************************************************************)
EXTENDS PipelineProperties, FiniteSetTheorems, WellFoundedInduction, TLAPS

-----------------------------------------------------------------------------
(* The helpers on sequences.                                               *)

\* Every non-empty set of natural numbers has a least member.
LEMMA LeastMember ==
  ASSUME NEW T \in SUBSET Nat, T # {}
  PROVE  \E m \in T : \A k \in T : m <= k
<1>1. PICK m \in T : \A k \in T : ~(<<k, m>> \in OpToRel(<, Nat))
  BY NatLessThanWellFounded, WFMin
<1>2. OpToRel(<, Nat) = {ss \in Nat \X Nat : ss[1] < ss[2]}
  BY Zenon DEF OpToRel
<1>3. \A k \in Nat : k < m => <<k, m>> \in OpToRel(<, Nat)
  BY <1>2
<1>4. ASSUME NEW k \in T PROVE m <= k
  <2>1. k \in Nat /\ m \in Nat
    OBVIOUS
  <2>2. ~(k < m)
    BY <2>1, <1>1, <1>3
  <2>3. QED
    BY <2>1, <2>2
<1>5. QED
  BY <1>4

\* The k-th member of a finite set of positions exists.
LEMMA NthMember ==
  ASSUME NEW n \in Nat, NEW K \in SUBSET (1..n), NEW k \in 1..Cardinality(K)
  PROVE  Nth(K, k) \in K /\ Cardinality({j \in K : j <= Nth(K, k)}) = k
<1> DEFINE Upto(i) == {j \in K : j <= i}
           T == {i \in Nat : Cardinality(Upto(i)) >= k}
<1>a. \A j \in K : j \in Nat /\ 1 <= j /\ j <= n
  OBVIOUS
<1>1. IsFiniteSet(K) /\ Cardinality(K) \in Nat
  <2>1. IsFiniteSet(1..n)
    BY FS_Interval
  <2>2. IsFiniteSet(K)
    BY <2>1, FS_Subset
  <2>3. QED
    BY <2>2, FS_CardinalityType
<1>2. \A i \in Nat : IsFiniteSet(Upto(i)) /\ Cardinality(Upto(i)) \in Nat
  <2>1. SUFFICES ASSUME NEW i \in Nat
                 PROVE  IsFiniteSet(Upto(i)) /\ Cardinality(Upto(i)) \in Nat
    OBVIOUS
  <2>2. Upto(i) \subseteq K
    OBVIOUS
  <2>3. IsFiniteSet(Upto(i))
    BY <2>2, <1>1, FS_Subset
  <2>4. QED
    BY <2>3, FS_CardinalityType
<1>b. k \in Nat /\ 1 <= k /\ k <= Cardinality(K)
  BY <1>1
<1>3. n \in T
  <2>1. Upto(n) = K
    BY <1>a
  <2>2. Cardinality(Upto(n)) >= k
    BY <2>1, <1>b, <1>1
  <2>3. QED
    BY <2>2
<1>4. PICK m \in T : \A i \in T : m <= i
  <2>1. T \in SUBSET Nat /\ T # {}
    BY <1>3
  <2>2. QED
    BY <2>1, LeastMember
<1>5. m \in Nat /\ Cardinality(Upto(m)) >= k
  OBVIOUS
<1>6. m # 0
  <2>a. \A j \in K : ~(j <= 0)
    BY <1>a
  <2>1. Upto(0) = {}
    BY <2>a
  <2>2. Cardinality(Upto(0)) = 0
    BY <2>1, FS_EmptySet
  <2>3. QED
    BY <2>2, <1>5, <1>b
<1>7. m - 1 \in Nat /\ m - 1 < m
  BY <1>5, <1>6
<1>8. m - 1 \notin T
  <2>1. ~(m <= m - 1)
    BY <1>5
  <2>2. QED
    BY <2>1, <1>4
<1>9. Cardinality(Upto(m - 1)) < k
  <2>1. ~(Cardinality(Upto(m - 1)) >= k)
    BY <1>7, <1>8
  <2>2. Cardinality(Upto(m - 1)) \in Nat
    BY <1>2, <1>7
  <2>3. QED
    BY <2>1, <2>2, <1>b
<1>10. m \in K
  <2>1. SUFFICES ASSUME m \notin K PROVE FALSE
    OBVIOUS
  <2>2. Upto(m) = Upto(m - 1)
    <3>1. \A j \in K : j <= m <=> j <= m - 1
      BY <2>1, <1>a, <1>5
    <3>2. QED
      BY <3>1
  <2>3. Cardinality(Upto(m)) = Cardinality(Upto(m - 1))
    BY <2>2
  <2>4. Cardinality(Upto(m - 1)) \in Nat
    BY <1>2, <1>7
  <2>5. QED
    BY <2>3, <2>4, <1>5, <1>9, <1>b
<1>11. Cardinality(Upto(m)) = k
  <2>1. Upto(m) = Upto(m - 1) \cup {m} /\ m \notin Upto(m - 1)
    <3>1. \A j \in K : j <= m <=> (j <= m - 1 \/ j = m)
      BY <1>a, <1>5
    <3>2. ~(m <= m - 1)
      BY <1>5
    <3>3. QED
      BY <3>1, <3>2, <1>10
  <2>2. IsFiniteSet(Upto(m - 1)) /\ Cardinality(Upto(m - 1)) \in Nat
    BY <1>2, <1>7
  <2>3. Cardinality(Upto(m - 1) \cup {m}) = Cardinality(Upto(m - 1)) + 1
    BY <2>1, <2>2, FS_AddElement
  <2>4. Cardinality(Upto(m)) = Cardinality(Upto(m - 1)) + 1
    BY <2>1, <2>3
  <2>5. QED
    BY <2>2, <2>4, <1>5, <1>9, <1>b
<1>12. Cardinality({j \in K : j <= m}) = k
  BY <1>11
<1> HIDE DEF Upto, T
<1>13. QED
  BY <1>10, <1>12 DEF Nth

\* The k-th members are in order.
LEMMA NthOrder ==
  ASSUME NEW n \in Nat, NEW K \in SUBSET (1..n), NEW i \in 1..Cardinality(K),
         NEW k \in 1..Cardinality(K)
  PROVE  i < k <=> Nth(K, i) < Nth(K, k)
<1> DEFINE Upto(e) == {j \in K : j <= e}
<1>1. /\ Nth(K, i) \in K /\ Cardinality(Upto(Nth(K, i))) = i
      /\ Nth(K, k) \in K /\ Cardinality(Upto(Nth(K, k))) = k
  BY NthMember
<1>2. IsFiniteSet(K) /\ Cardinality(K) \in Nat
  <2>1. IsFiniteSet(1..n)
    BY FS_Interval
  <2>2. IsFiniteSet(K)
    BY <2>1, FS_Subset
  <2>3. QED
    BY <2>2, FS_CardinalityType
<1>3. \A d, e \in K : d <= e => Cardinality(Upto(d)) <= Cardinality(Upto(e))
  <2>1. SUFFICES ASSUME NEW d \in K, NEW e \in K, d <= e
                 PROVE  Cardinality(Upto(d)) <= Cardinality(Upto(e))
    OBVIOUS
  <2>2. \A j \in K : j <= d => j <= e
    BY <2>1
  <2>3. Upto(d) \in SUBSET Upto(e)
    BY <2>2
  <2>4. IsFiniteSet(Upto(e))
    BY <1>2, FS_Subset
  <2>5. QED
    BY <2>3, <2>4, FS_Subset
<1>4. i \in Nat /\ k \in Nat /\ Nth(K, i) \in Nat /\ Nth(K, k) \in Nat
  <2>1. Nth(K, i) \in 1..n /\ Nth(K, k) \in 1..n
    BY <1>1
  <2>2. QED
    BY <1>2, <2>1
<1> HIDE DEF Upto
<1>5. Nth(K, i) <= Nth(K, k) => i <= k
  BY <1>1, <1>3
<1>6. Nth(K, k) <= Nth(K, i) => k <= i
  BY <1>1, <1>3
<1>7. Nth(K, i) = Nth(K, k) => i = k
  BY <1>1
<1>8. QED
  BY <1>4, <1>5, <1>6, <1>7

\* A subsequence is a sequence over the same set.
LEMMA SubsequenceType ==
  ASSUME NEW S, NEW s \in Seq(S), NEW K \in SUBSET (DOMAIN s)
  PROVE  Subsequence(s, K) \in Seq(S)
<1>1. DOMAIN s = 1..Len(s) /\ Len(s) \in Nat
  OBVIOUS
<1>2. Cardinality(K) \in Nat
  <2>1. IsFiniteSet(1..Len(s))
    BY <1>1, FS_Interval
  <2>2. IsFiniteSet(K)
    BY <2>1, <1>1, FS_Subset
  <2>3. QED
    BY <2>2, FS_CardinalityType
<1>3. \A k \in 1..Cardinality(K) : Nth(K, k) \in 1..Len(s)
  <2>1. K \in SUBSET (1..Len(s))
    BY <1>1
  <2>2. QED
    BY <2>1, <1>1, NthMember
<1>4. \A k \in 1..Cardinality(K) : s[Nth(K, k)] \in S
  BY <1>1, <1>3
<1>5. QED
  BY <1>2, <1>4 DEF Subsequence

-----------------------------------------------------------------------------
(* The types of the operators the executor is built from.                  *)

\* The scopes of a step are sequences of steps.
LEMMA StepType ==
  ASSUME NEW s \in Step
  PROVE  /\ Def[s].body \in Seq(Step)
         /\ \A k \in DOMAIN Def[s].paths : k \in Key /\ Def[s].paths[k] \in Seq(Step)
BY DefinitionAssumption DEF StepOK

\* A scope resumes at a positive position.
LEMMA ResumeIndexType ==
  ASSUME NEW steps \in Seq(Step), NEW path, NEW d
  PROVE  ResumeIndex(steps, path, d) \in Nat \ {0}
<1>1. DOMAIN steps \subseteq Nat \ {0}
  OBVIOUS
<1>2. CASE d <= Len(path) /\ (\E j \in DOMAIN steps : steps[j] = path[d])
  <2>1. (CHOOSE j \in DOMAIN steps : steps[j] = path[d]) \in DOMAIN steps
    BY <1>2
  <2>2. QED
    BY <1>1, <1>2, <2>1 DEF ResumeIndex
<1>3. CASE ~(d <= Len(path) /\ (\E j \in DOMAIN steps : steps[j] = path[d]))
  BY <1>3 DEF ResumeIndex
<1>4. QED
  BY <1>2, <1>3

\* A new frame is a frame.
LEMMA FrameType ==
  ASSUME NEW base \in Path, NEW steps \in Seq(Step), NEW start \in Nat \ {0},
         NEW resume \in Path
  PROVE  NewFrame(base, steps, start, resume) \in Frame
BY DEF NewFrame, Frame

\* What the guard At says of the innermost frame.
LEMMA AtType ==
  ASSUME NEW q \in Call, NEW l, At(q, l)
  PROVE  /\ q.stack # <<>> /\ Top(q) \in Frame
         /\ StepOf(q) \in Step /\ StepPath(q) \in Path
<1>1. q.stack \in Seq(Frame) /\ q.stack # <<>>
  BY DEF At, Call
<1>2. Top(q) \in Frame
  BY <1>1 DEF Top
<1>3. Top(q).steps \in Seq(Step) /\ Top(q).base \in Path
  BY <1>2 DEF Frame
<1>4. StepOf(q) \in Step
  BY <1>3 DEF At, StepOf
<1>5. StepPath(q) \in Path
  BY <1>3, <1>4 DEF StepPath, Path, Segment
<1>6. QED
  BY <1>1, <1>2, <1>4, <1>5

\* A path extended by a path key or an iteration is a path.
LEMMA AppendKey ==
  ASSUME NEW path \in Path, NEW k \in Key \cup Nat
  PROVE  Append(path, k) \in Path
BY DEF Path, Segment

\* A call that goes on to the next step is a call.
LEMMA AdvanceType ==
  ASSUME NEW q \in Call, q.stack # <<>>
  PROVE  Advance(q) \in Call
<1> DEFINE f == [q.stack[1] EXCEPT !.i = @ + 1]
           st == [q.stack EXCEPT ![1] = f]
<1>1. q.stack \in Seq(Frame) /\ 1 \in DOMAIN q.stack
  BY DEF Call
<1>2. q.stack[1] \in Frame
  BY <1>1
<1>3. f \in Frame
  BY <1>2 DEF Frame
<1>4. st \in Seq(Frame)
  BY <1>1, <1>3
<1>5. Advance(q) = [q EXCEPT !.stack = st]
  BY DEF Advance
<1> HIDE DEF st
<1>6. QED
  BY <1>4, <1>5 DEF Call

\* A call that enters a nested scope is a call.
LEMMA PushType ==
  ASSUME NEW q \in Call, NEW frame \in Frame
  PROVE  Push(q, frame) \in Call
<1>1. q.stack \in Seq(Frame)
  BY DEF Call
<1>2. <<frame>> \o q.stack \in Seq(Frame)
  BY <1>1
<1>3. QED
  BY <1>2 DEF Push, Call, Label

\* A call whose innermost scope returns is a call.
LEMMA UnwindType ==
  ASSUME NEW q \in Call
  PROVE  Unwind(q) \in Call
<1>1. q.stack \in Seq(Frame) /\ <<>> \in Seq(Frame)
  BY DEF Call
<1>2. Len(q.stack) > 1 => Tail(q.stack) \in Seq(Frame)
  BY <1>1
<1>3. QED
  BY <1>1, <1>2 DEF Unwind, Call, Label

\* A call that is about to write a snapshot is a call.
LEMMA PersistType ==
  ASSUME NEW q \in Call, NEW m \in RunState, NEW l \in Label
  PROVE  Persist(q, m, l) \in Call /\ PersistThen(q, m) \in Call
BY DEF Persist, PersistThen, Call, Label

\* A call that fails is a call.
LEMMA FailType ==
  ASSUME NEW q \in Call, NEW kind \in ErrorKind, NEW path \in Path
  PROVE  Fail(q, kind, path) \in Call
BY DEF Fail, Call, Label, Error

\* A call that goes elsewhere is a call.
LEMMA GotoType ==
  ASSUME NEW q \in Call, NEW l \in Label
  PROVE  [q EXCEPT !.pc = l] \in Call
BY DEF Call

\* Where executeStep goes on is a label.
LEMMA DispatchType ==
  ASSUME NEW s
  PROVE  Dispatch(s) \in Label /\ Prologue(s) \in Label
BY DEF Dispatch, Prologue, Label

\* A call with another state in memory is a call.
LEMMA MemType ==
  ASSUME NEW q \in Call, NEW m \in RunState
  PROVE  q.mem \in RunState /\ [q EXCEPT !.mem = m] \in Call
BY DEF Call

\* A state with one more completion is a state.
LEMMA CompleteType ==
  ASSUME NEW m \in RunState, NEW path \in Path, NEW compensator \in BOOLEAN
  PROVE  Complete(m, path, compensator) \in RunState
<1>1. m.completed \in Seq(Completion)
  BY DEF RunState
<1>2. [path |-> path, compensator |-> compensator] \in Completion
  BY DEF Completion
<1>3. Append(m.completed, [path |-> path, compensator |-> compensator]) \in Seq(Completion)
  BY <1>1, <1>2
<1>4. QED
  BY <1>3 DEF Complete, RunState

\* The repeat state read at a path belongs to that path.
LEMMA RepeatAtType ==
  ASSUME NEW m \in RunState, NEW path \in Path
  PROVE  RepeatAt(m, path) \in RepeatState /\ RepeatAt(m, path).path = path
<1>1. m.repeats \subseteq RepeatState
  BY DEF RunState
<1>2. CASE \E r \in m.repeats : r.path = path
  <2>1. PICK r \in m.repeats : r.path = path
    BY <1>2
  <2>2. RepeatAt(m, path) \in m.repeats /\ RepeatAt(m, path).path = path
    BY <2>1 DEF RepeatAt
  <2>3. QED
    BY <1>1, <2>2
<1>3. CASE ~\E r \in m.repeats : r.path = path
  <2>1. RepeatAt(m, path)
          = [path |-> path, iteration |-> 0, awaiting |-> FALSE, startedAt |-> NoTime]
    BY <1>3 DEF RepeatAt
  <2>2. QED
    BY <2>1 DEF RepeatState, Time
<1>4. QED
  BY <1>2, <1>3

\* A state in which a repeat state is replaced is a state.
LEMMA SetRepeatType ==
  ASSUME NEW m \in RunState, NEW r \in RepeatState
  PROVE  SetRepeat(m, r) \in RunState
<1>1. {q \in m.repeats : q.path # r.path} \cup {r} \in SUBSET RepeatState
  BY DEF RunState
<1>2. QED
  BY <1>1 DEF SetRepeat, RunState

\* A compacted state is a state.
LEMMA CompactType ==
  ASSUME NEW m \in RunState, NEW path
  PROVE  Compact(m, path) \in RunState
<1> DEFINE K == {k \in DOMAIN m.completed : ~IsPrefix(path, m.completed[k].path)}
           R == {r \in m.repeats : ~IsPrefix(path, r.path)}
<1>1. m.completed \in Seq(Completion) /\ m.repeats \in SUBSET RepeatState
  BY DEF RunState
<1>2. Subsequence(m.completed, K) \in Seq(Completion)
  BY <1>1, SubsequenceType
<1>3. R \in SUBSET RepeatState
  BY <1>1
<1>4. Compact(m, path) = [m EXCEPT !.completed = Subsequence(m.completed, K), !.repeats = R]
  BY DEF Compact
<1> HIDE DEF K, R
<1>5. QED
  BY <1>2, <1>3, <1>4 DEF RunState

-----------------------------------------------------------------------------
(* Type correctness.                                                       *)

\* A run that has not started and a worker without a call are well typed.
LEMMA NewRunType == NewRun \in RunState /\ NoCall \in Call
<1>1. <<>> \in Path /\ <<>> \in Seq(Completion) /\ <<>> \in Seq(Frame)
  BY DEF Path
<1>2. NewRun \in RunState
  BY <1>1 DEF NewRun, RunState, Status, Terminal, Time, NoTime
<1>3. NoError \in Error
  BY <1>1 DEF NoError, Error, ErrorKind
<1>4. QED
  BY <1>1, <1>2, <1>3 DEF NoCall, Call, Label

\* The initial state is well typed.
LEMMA InitType == Init => TypeOK
BY NewRunType, ExecutorAssumption DEF Init, TypeOK

\* A step of one worker, which leaves it in the call q.
LEMMA SetType ==
  ASSUME TypeOK, NEW w \in Worker, NEW q \in Call, Set(w, q)
  PROVE  proc' \in [Worker -> Call]
BY DEF Set, TypeOK

\* A step that changes one call only keeps the types.
LEMMA LocalType ==
  ASSUME TypeOK, NEW w \in Worker, NEW q \in Call, Local(w, q), budget' \in Nat
  PROVE  TypeOK'
BY SetType DEF Local, TypeOK

\* The budget stays a natural number.
LEMMA BudgetType ==
  ASSUME TypeOK
  PROVE  /\ UNCHANGED budget => budget' \in Nat
         /\ Adverse => budget' \in Nat
         /\ \A o : Charge(o) => budget' \in Nat
BY DEF TypeOK, Adverse, Charge

\* Delivery of a run keeps the types.
LEMMA LoadType ==
  ASSUME TypeOK, NEW w \in Worker, Load(w)
  PROVE  TypeOK'
<1>1. [NoCall EXCEPT !.pc = "start", !.mem = store] \in Call
  BY NewRunType DEF TypeOK, Call, Label
<1>2. budget' \in Nat
  BY BudgetType DEF Load
<1>3. proc' \in [Worker -> Call]
  BY <1>1, SetType DEF Load
<1>4. QED
  BY <1>2, <1>3 DEF Load, TypeOK

\* The beginning of Run keeps the types.
LEMMA StartType ==
  ASSUME TypeOK, NEW w \in Worker, Start(w)
  PROVE  TypeOK'
<1> DEFINE q == proc[w]
           m == q.mem
           frame == NewFrame(<<>>, Root, ResumeIndex(Root, m.currentPath, 1), m.currentPath)
<1>1. q \in Call /\ m \in RunState
  BY MemType DEF TypeOK
<1>2. budget' \in Nat
  BY BudgetType DEF Start
<1>3. frame \in Frame
  <2>1. <<>> \in Path /\ m.currentPath \in Path
    BY <1>1 DEF RunState, Path
  <2>2. QED
    BY <2>1, FrameType, ResumeIndexType, DefinitionAssumption
<1>4. [q EXCEPT !.pc = "return"] \in Call
  BY <1>1, GotoType DEF Label
<1>5. Persist(q, m, "compensate") \in Call
  BY <1>1, PersistType DEF Label
<1>6. PersistThen(Push(q, frame), [m EXCEPT !.status = "running"]) \in Call
  <2>1. [m EXCEPT !.status = "running"] \in RunState
    BY <1>1 DEF RunState, Status
  <2>2. Push(q, frame) \in Call
    BY <1>1, <1>3, PushType
  <2>3. QED
    BY <2>1, <2>2, PersistType DEF Label
<1>7. \/ Local(w, [q EXCEPT !.pc = "return"])
      \/ Local(w, Persist(q, m, "compensate"))
      \/ Local(w, PersistThen(Push(q, frame), [m EXCEPT !.status = "running"]))
  BY DEF Start
<1> HIDE DEF q, m, frame
<1>8. QED
  BY <1>2, <1>4, <1>5, <1>6, <1>7, LocalType

\* The write of a snapshot, however it ends, keeps the types.
LEMMA SnapshotType ==
  ASSUME TypeOK, NEW w \in Worker,
         SnapshotOK(w) \/ SnapshotFailed(w) \/ SnapshotAckLost(w)
  PROVE  TypeOK'
<1> DEFINE q == proc[w]
<1>1. q \in Call /\ q.mem \in RunState /\ q.next \in Label
  BY DEF TypeOK, Call
<1>2. Written(q.mem) \in RunState
  BY <1>1 DEF Written, RunState
<1>3. [q EXCEPT !.pc = q.next] \in Call
  BY <1>1, GotoType
<1>4. [q EXCEPT !.pc = q.next, !.mem = Written(q.mem)] \in Call
  BY <1>1, <1>2 DEF Call
<1>5. CASE SnapshotOK(w)
  <2>1. proc' \in [Worker -> Call]
    BY <1>3, <1>4, <1>5, SetType DEF SnapshotOK
  <2>2. store' \in RunState
    BY <1>2, <1>5 DEF SnapshotOK, TypeOK
  <2>3. QED
    BY <2>1, <2>2, <1>5 DEF SnapshotOK, TypeOK
<1>6. CASE SnapshotFailed(w)
  <2>1. budget' \in Nat
    BY <1>6, BudgetType DEF SnapshotFailed
  <2>2. QED
    BY <2>1, <1>6, NewRunType, LocalType DEF SnapshotFailed
<1>7. CASE SnapshotAckLost(w)
  <2>1. budget' \in Nat /\ proc' \in [Worker -> Call]
    BY <1>7, BudgetType, NewRunType, SetType DEF SnapshotAckLost
  <2>2. QED
    BY <2>1, <1>2, <1>7 DEF SnapshotAckLost, TypeOK
<1>8. QED
  BY <1>5, <1>6, <1>7

\* A cancelled context ends the call.
LEMMA ContextType ==
  ASSUME NEW q \in Call
  PROVE  /\ [q EXCEPT !.err = [kind |-> "context", path |-> <<>>]] \in Call
         /\ [q EXCEPT !.err = [kind |-> "compensation", path |-> <<>>]] \in Call
         /\ [q EXCEPT !.cancelled = TRUE, !.err = [kind |-> "context", path |-> <<>>]] \in Call
         /\ \A path \in Path :
              [q EXCEPT !.mem.currentPath = path,
                        !.err = [kind |-> "context", path |-> <<>>]] \in Call
<1>1. <<>> \in Path
  BY DEF Path
<1>2. /\ [kind |-> "context", path |-> <<>>] \in Error
      /\ [kind |-> "compensation", path |-> <<>>] \in Error
  BY <1>1 DEF Error, ErrorKind
<1>3. \A path \in Path : [q.mem EXCEPT !.currentPath = path] \in RunState
  BY DEF Call, RunState
<1>4. QED
  BY <1>2, <1>3 DEF Call

\* The actions of executeSteps on its way forward.
LEMMA StepsType ==
  ASSUME TypeOK, NEW w \in Worker,
         SkipCompleted(w) \/ StopCancelled(w) \/ EnterStep(w) \/ ScopeDone(w)
  PROVE  TypeOK'
<1> DEFINE q == proc[w]
<1>1. q \in Call /\ q.mem \in RunState /\ q.stack \in Seq(Frame)
  BY DEF TypeOK, Call
<1>2. budget' \in Nat
  BY BudgetType DEF SkipCompleted, StopCancelled, EnterStep, ScopeDone
<1>3. CASE SkipCompleted(w)
  <2>1. Advance(q) \in Call
    BY <1>1, <1>3, AtType, AdvanceType DEF SkipCompleted
  <2>2. QED
    BY <2>1, <1>2, <1>3, LocalType DEF SkipCompleted
<1>4. CASE StopCancelled(w)
  <2>1. StepPath(q) \in Path
    BY <1>1, <1>4, AtType DEF StopCancelled
  <2>2. Unwind([q EXCEPT !.mem.currentPath = StepPath(q),
                         !.err = [kind |-> "context", path |-> <<>>]]) \in Call
    BY <2>1, <1>1, ContextType, UnwindType
  <2>3. QED
    BY <2>2, <1>2, <1>4, LocalType DEF StopCancelled
<1>5. CASE EnterStep(w)
  <2>1. /\ StepPath(q) \in Path /\ Top(q) \in Frame /\ Prologue(StepOf(q)) \in Label
    BY <1>1, <1>5, AtType, DispatchType DEF EnterStep
  <2> DEFINE deeper == Top(q).i = Top(q).start /\ IsStrictPrefix(StepPath(q), Top(q).resume)
             path == IF deeper THEN Top(q).resume ELSE StepPath(q)
  <2>2. path \in Path
    BY <2>1 DEF Frame
  <2>3. Local(w, [q EXCEPT !.mem.currentPath = path, !.attempt = 0,
                           !.pc = Prologue(StepOf(q))])
    BY <1>5 DEF EnterStep
  <2> HIDE DEF path
  <2>4. [q.mem EXCEPT !.currentPath = path] \in RunState
    BY <1>1, <2>2 DEF RunState
  <2>5. [q EXCEPT !.mem.currentPath = path, !.attempt = 0, !.pc = Prologue(StepOf(q))] \in Call
    BY <1>1, <2>1, <2>4 DEF Call
  <2>6. QED
    BY <2>3, <2>5, <1>2, LocalType
<1>6. CASE ScopeDone(w)
  <2> DEFINE up == [q EXCEPT !.stack = Tail(@)]
             r == RepeatAt(q.mem, StepPath(up))
             done == Persist([q EXCEPT !.stack = <<>>], [q.mem EXCEPT !.status = "completed"],
                             "return")
             more == [up EXCEPT !.mem = SetRepeat(q.mem, [r EXCEPT !.awaiting = TRUE]),
                                !.pc = "until"]
  <2>1. q.stack # <<>>
    BY <1>6 DEF ScopeDone
  <2>2. up \in Call /\ up.stack = Tail(q.stack)
    <3>1. Tail(q.stack) \in Seq(Frame)
      BY <1>1, <2>1
    <3>2. QED
      BY <3>1, <1>1 DEF Call
  <2>3. done \in Call
    <3>1. [q EXCEPT !.stack = <<>>] \in Call
      BY <1>1, NewRunType DEF Call, NoCall
    <3>2. [q.mem EXCEPT !.status = "completed"] \in RunState
      BY <1>1 DEF RunState, Status, Terminal
    <3>3. QED
      BY <3>1, <3>2, PersistType DEF Label
  <2> HIDE DEF up
  <2>4. At(up, "steps") => Advance(up) \in Call
    BY <2>2, AtType, AdvanceType
  <2>5. At(up, "steps") => more \in Call
    <3>1. SUFFICES ASSUME At(up, "steps") PROVE more \in Call
      OBVIOUS
    <3>2. StepPath(up) \in Path
      BY <3>1, <2>2, AtType
    <3>3. r \in RepeatState
      BY <3>2, <1>1, RepeatAtType
    <3>4. [r EXCEPT !.awaiting = TRUE] \in RepeatState
      BY <3>3 DEF RepeatState
    <3>5. SetRepeat(q.mem, [r EXCEPT !.awaiting = TRUE]) \in RunState
      BY <3>4, <1>1, SetRepeatType
    <3>6. QED
      BY <3>5, <2>2 DEF Call, Label
  <2>6. \/ Local(w, done)
        \/ At(up, "steps") /\ Local(w, Advance(up))
        \/ At(up, "steps") /\ Local(w, more)
    BY <1>6 DEF ScopeDone, up
  <2> HIDE DEF done, more
  <2>7. QED
    BY <2>3, <2>4, <2>5, <2>6, <1>2, LocalType
<1>7. QED
  BY <1>3, <1>4, <1>5, <1>6

\* The actions of executeStep before the callback.
LEMMA PrologueType ==
  ASSUME TypeOK, NEW w \in Worker,
         \/ EnsureRepeatStarted(w) \/ CheckRepeatTimeout(w)
         \/ \E o \in Outcome : OnEnter(w, o)
  PROVE  TypeOK'
<1> DEFINE q == proc[w]
           r == RepeatAt(q.mem, StepPath(q))
<1>1. q \in Call /\ q.mem \in RunState
  BY MemType DEF TypeOK
<1>2. /\ \E l : At(q, l)
      /\ budget' \in Nat
  BY BudgetType DEF EnsureRepeatStarted, CheckRepeatTimeout, OnEnter
<1>3. StepOf(q) \in Step /\ StepPath(q) \in Path
  BY <1>1, <1>2, AtType
<1>4. \A l \in Label : [q EXCEPT !.pc = l] \in Call
  BY <1>1, GotoType
<1>5. \A kind \in ErrorKind : Fail(q, kind, StepPath(q)) \in Call
  BY <1>1, <1>3, FailType
<1>6. \A l \in Label : Persist(q, q.mem, l) \in Call
  BY <1>1, PersistType
<1>7. {"repeatCheck", "call", "return", Dispatch(StepOf(q))} \subseteq Label
  BY DispatchType DEF Label
<1>8. CASE EnsureRepeatStarted(w)
  <2>1. r \in RepeatState
    BY <1>1, <1>3, RepeatAtType
  <2>2. [r EXCEPT !.startedAt = now] \in RepeatState
    BY <2>1 DEF TypeOK, RepeatState, Time
  <2>3. SetRepeat(q.mem, [r EXCEPT !.startedAt = now]) \in RunState
    BY <2>2, <1>1, SetRepeatType
  <2>4. Persist(q, SetRepeat(q.mem, [r EXCEPT !.startedAt = now]), "repeatCheck") \in Call
    BY <2>3, <1>1, <1>7, PersistType
  <2>5. QED
    BY <2>4, <1>2, <1>4, <1>7, <1>8, LocalType DEF EnsureRepeatStarted
<1>9. CASE CheckRepeatTimeout(w)
  <2>1. "timeout" \in ErrorKind
    BY DEF ErrorKind
  <2>2. QED
    BY <2>1, <1>2, <1>4, <1>5, <1>7, <1>9, LocalType DEF CheckRepeatTimeout
<1>10. ASSUME NEW o \in Outcome, OnEnter(w, o) PROVE TypeOK'
  <2>1. "timeout" \in ErrorKind /\ KindOf(o) \in ErrorKind
    BY DEF ErrorKind, KindOf
  <2>2. \/ Local(w, Fail(q, "timeout", StepPath(q)))
        \/ Local(w, [q EXCEPT !.pc = "call"])
        \/ Local(w, Persist(q, q.mem, "return"))
        \/ Local(w, Fail(q, KindOf(o), StepPath(q)))
    BY <1>10 DEF OnEnter
  <2> HIDE DEF q
  <2>3. QED
    BY <2>1, <2>2, <1>2, <1>4, <1>5, <1>6, <1>7, LocalType
<1>11. QED
  BY <1>8, <1>9, <1>10

\* executeAction and runWithRetry.
LEMMA ActionType ==
  ASSUME TypeOK, NEW w \in Worker,
         (\E o \in Outcome : Do(w, o)) \/ Sleep(w)
  PROVE  TypeOK'
<1> DEFINE q == proc[w]
<1>1. q \in Call /\ q.mem \in RunState
  BY MemType DEF TypeOK
<1>2. (\E l : At(q, l)) /\ budget' \in Nat
  BY BudgetType DEF Do, Sleep
<1>3. StepOf(q) \in Step /\ StepPath(q) \in Path /\ q.stack # <<>>
  BY <1>1, <1>2, AtType
<1>4. \A kind \in ErrorKind : Fail(q, kind, StepPath(q)) \in Call
  BY <1>1, <1>3, FailType
<1>5. ASSUME NEW o \in Outcome, Do(w, o) PROVE TypeOK'
  <2> DEFINE s == StepOf(q)
             ok == PersistThen([Advance(q) EXCEPT !.pc = "steps"],
                               Complete(q.mem, StepPath(q), Def[s].compensate))
             later == Persist(q, q.mem, "return")
             again == [q EXCEPT !.attempt = @ + 1, !.pc = "sleep"]
             failed == Fail(q, KindOf(o), StepPath(q))
  <2>1. ok \in Call
    <3>1. Complete(q.mem, StepPath(q), Def[s].compensate) \in RunState
      BY <1>1, <1>3, DefinitionAssumption, CompleteType DEF StepOK
    <3>2. [Advance(q) EXCEPT !.pc = "steps"] \in Call
      BY <1>1, <1>3, AdvanceType, GotoType DEF Label
    <3>3. QED
      BY <3>1, <3>2, PersistType DEF Label
  <2>2. later \in Call
    BY <1>1, PersistType DEF Label
  <2>3. again \in Call
    <3>1. q.attempt + 1 \in Nat
      BY <1>1 DEF Call
    <3>2. QED
      BY <3>1, <1>1 DEF Call, Label
  <2>4. failed \in Call
    BY <1>4 DEF KindOf, ErrorKind
  <2>5. Set(w, ok) \/ Set(w, later) \/ Set(w, again) \/ Set(w, failed)
    BY <1>5 DEF Do
  <2>6. proc' \in [Worker -> Call]
    <3> HIDE DEF ok, later, again, failed
    <3>1. QED
      BY <2>1, <2>2, <2>3, <2>4, <2>5, SetType
  <2>7. world' \in SUBSET Path
    BY <1>3, <1>5 DEF Do, TypeOK
  <2>8. QED
    BY <2>6, <2>7, <1>2, <1>5 DEF Do, TypeOK
<1>6. CASE Sleep(w)
  <2>1. [q EXCEPT !.pc = "call"] \in Call /\ Fail(q, "context", StepPath(q)) \in Call
    BY <1>1, <1>4, GotoType DEF Label, ErrorKind
  <2>2. QED
    BY <2>1, <1>2, <1>6, LocalType DEF Sleep
<1>7. QED
  BY <1>5, <1>6

\* executePoll.
LEMMA PollType ==
  ASSUME TypeOK, NEW w \in Worker,
         PollTimeout(w) \/ \E o \in Outcome \cup {"pending"} : Check(w, o)
  PROVE  TypeOK'
<1> DEFINE q == proc[w]
           m == Opened(q.mem)
           closed == [m EXCEPT !.pollStartedAt = NoTime]
<1>1. q \in Call /\ q.mem \in RunState
  BY MemType DEF TypeOK
<1>2. (\E l : At(q, l)) /\ budget' \in Nat
  BY BudgetType DEF PollTimeout, Check
<1>3. StepPath(q) \in Path /\ q.stack # <<>>
  BY <1>1, <1>2, AtType
<1>4. m \in RunState
  BY <1>1 DEF Opened, RunState, TypeOK, Time
<1>5. closed \in RunState
  BY <1>4 DEF RunState, Time
<1>6. \A kind \in ErrorKind :
        \A n \in RunState : Fail([q EXCEPT !.mem = n], kind, StepPath(q)) \in Call
  <2>1. \A n \in RunState : [q EXCEPT !.mem = n] \in Call
    BY <1>1, MemType
  <2>2. QED
    BY <2>1, <1>3, FailType
<1> HIDE DEF m
<1>7. CASE PollTimeout(w)
  <2>1. Fail([q EXCEPT !.mem = closed], "step", StepPath(q)) \in Call
    BY <1>5, <1>6 DEF ErrorKind
  <2>2. QED
    BY <2>1, <1>2, <1>7, LocalType DEF PollTimeout, m
<1>8. ASSUME NEW o \in Outcome \cup {"pending"}, Check(w, o) PROVE TypeOK'
  <2> DEFINE ok == PersistThen([Advance(q) EXCEPT !.pc = "steps"],
                               Complete([closed EXCEPT !.status = "running"],
                                        StepPath(q), FALSE))
             later == Persist(q, [m EXCEPT !.status = "polling"], "return")
             failed == Fail([q EXCEPT !.mem = IF q.cancelled THEN m ELSE closed],
                            KindOf(o), StepPath(q))
  <2>1. ok \in Call
    <3>1. [closed EXCEPT !.status = "running"] \in RunState
      BY <1>5 DEF RunState, Status
    <3>2. Complete([closed EXCEPT !.status = "running"], StepPath(q), FALSE) \in RunState
      BY <3>1, <1>3, CompleteType
    <3>3. [Advance(q) EXCEPT !.pc = "steps"] \in Call
      BY <1>1, <1>3, AdvanceType, GotoType DEF Label
    <3>4. QED
      BY <3>2, <3>3, PersistType DEF Label
  <2>2. later \in Call
    <3>1. [m EXCEPT !.status = "polling"] \in RunState
      BY <1>4 DEF RunState, Status
    <3>2. QED
      BY <3>1, <1>1, PersistType DEF Label
  <2>3. failed \in Call
    BY <1>4, <1>5, <1>6 DEF KindOf, ErrorKind
  <2>4. Local(w, ok) \/ Local(w, later) \/ Local(w, failed)
    BY <1>8 DEF Check, m
  <2> HIDE DEF ok, later, failed
  <2>5. QED
    BY <2>1, <2>2, <2>3, <2>4, <1>2, LocalType
<1>9. QED
  BY <1>7, <1>8

\* executeBranch.
LEMMA BranchType ==
  ASSUME TypeOK, NEW w \in Worker,
         \/ ResumeBranch(w) \/ \E key \in Key : Decide(w, key)
         \/ \E o \in Outcome : DecideFailed(w, o)
  PROVE  TypeOK'
<1> DEFINE q == proc[w]
<1>1. q \in Call /\ q.mem \in RunState
  BY MemType DEF TypeOK
<1>2. (\E l : At(q, l)) /\ budget' \in Nat
  BY BudgetType DEF ResumeBranch, Decide, DecideFailed
<1>3. StepOf(q) \in Step /\ StepPath(q) \in Path /\ q.stack # <<>>
  BY <1>1, <1>2, AtType
<1>4. \A k \in DOMAIN Def[StepOf(q)].paths :
        Def[StepOf(q)].paths[k] \in Seq(Step) /\ Append(StepPath(q), k) \in Path
  BY <1>3, StepType, AppendKey
<1>5. CASE ResumeBranch(w)
  <2> DEFINE d == Len(StepPath(q)) + 1
             path == q.mem.currentPath
             key == path[d]
             steps == Def[StepOf(q)].paths[key]
             frame == NewFrame(Append(StepPath(q), key), steps,
                               ResumeIndex(steps, path, d + 1), path)
  <2>1. key \in DOMAIN Def[StepOf(q)].paths /\ Local(w, Push(q, frame))
    BY <1>5 DEF ResumeBranch
  <2>2. frame \in Frame
    <3>1. path \in Path
      BY <1>1 DEF RunState
    <3>2. QED
      BY <3>1, <2>1, <1>4, FrameType, ResumeIndexType
  <2> HIDE DEF frame
  <2>3. Push(q, frame) \in Call
    BY <2>2, <1>1, PushType
  <2>4. QED
    BY <2>1, <2>3, <1>2, LocalType
<1>6. ASSUME NEW key \in Key, Decide(w, key) PROVE TypeOK'
  <2> DEFINE paths == Def[StepOf(q)].paths
             childPath == Append(StepPath(q), key)
             m == Complete(q.mem, StepPath(q), FALSE)
             frame == NewFrame(childPath, paths[key], 1, childPath)
             none == PersistThen([Advance(q) EXCEPT !.pc = "steps"],
                                 [m EXCEPT !.currentPath = StepPath(q)])
             some == PersistThen(Push(q, frame), [m EXCEPT !.currentPath = childPath])
  <2>1. paths[key] \in Seq(Step) /\ childPath \in Path
    BY <1>4, <1>6 DEF Decide
  <2>2. \A path \in Path : [m EXCEPT !.currentPath = path] \in RunState
    <3>1. m \in RunState
      BY <1>1, <1>3, CompleteType
    <3>2. QED
      BY <3>1 DEF RunState
  <2>3. none \in Call
    <3>1. [Advance(q) EXCEPT !.pc = "steps"] \in Call
      BY <1>1, <1>3, AdvanceType, GotoType DEF Label
    <3>2. QED
      BY <3>1, <2>2, <1>3, PersistType DEF Label
  <2>4. some \in Call
    <3>1. Push(q, frame) \in Call
      BY <2>1, <1>1, FrameType, PushType
    <3>2. QED
      BY <3>1, <2>1, <2>2, PersistType DEF Label
  <2>5. Local(w, none) \/ Local(w, some)
    BY <1>6 DEF Decide
  <2> HIDE DEF none, some
  <2>6. QED
    BY <2>3, <2>4, <2>5, <1>2, LocalType
<1>7. ASSUME NEW o \in Outcome, DecideFailed(w, o) PROVE TypeOK'
  <2>1. Persist(q, q.mem, "return") \in Call
    BY <1>1, PersistType DEF Label
  <2>2. Fail(q, KindOf(o), StepPath(q)) \in Call
    BY <1>1, <1>3, FailType DEF KindOf, ErrorKind
  <2>3. QED
    BY <2>1, <2>2, <1>2, <1>7, LocalType DEF DecideFailed
<1>8. QED
  BY <1>5, <1>6, <1>7

\* executeRepeat.
LEMMA RepeatType ==
  ASSUME TypeOK, NEW w \in Worker,
         \/ BeginIteration(w) \/ UntilTimeout(w)
         \/ \E o \in Outcome \cup {"more"} : Until(w, o)
  PROVE  TypeOK'
<1> DEFINE q == proc[w]
           r == RepeatAt(q.mem, StepPath(q))
<1>1. q \in Call /\ q.mem \in RunState
  BY MemType DEF TypeOK
<1>2. (\E l : At(q, l)) /\ budget' \in Nat
  BY BudgetType DEF BeginIteration, UntilTimeout, Until
<1>3. StepOf(q) \in Step /\ StepPath(q) \in Path /\ q.stack # <<>>
  BY <1>1, <1>2, AtType
<1>4. r \in RepeatState
  BY <1>1, <1>3, RepeatAtType
<1>5. \A kind \in ErrorKind :
        \A n \in RunState : Fail([q EXCEPT !.mem = n], kind, StepPath(q)) \in Call
  <2>1. \A n \in RunState : [q EXCEPT !.mem = n] \in Call
    BY <1>1, MemType
  <2>2. QED
    BY <2>1, <1>3, FailType
<1>6. \A kind \in ErrorKind : Fail(q, kind, StepPath(q)) \in Call
  BY <1>1, <1>3, FailType
<1> HIDE DEF r
<1>7. CASE BeginIteration(w)
  <2> DEFINE d == Len(StepPath(q)) + 1
             path == q.mem.currentPath
             iteration == IF d <= Len(path) THEN path[d] ELSE r.iteration
             m == SetRepeat(q.mem, [r EXCEPT !.iteration = iteration])
             body == Def[StepOf(q)].body
             frame == NewFrame(Append(StepPath(q), iteration), body,
                               ResumeIndex(body, path, d + 1), path)
             until == [q EXCEPT !.mem = m, !.pc = "until"]
  <2>1. iteration \in Nat
    BY <1>7 DEF BeginIteration, r
  <2>2. m \in RunState
    <3> HIDE DEF iteration
    <3>1. [r EXCEPT !.iteration = iteration] \in RepeatState
      BY <2>1, <1>4 DEF RepeatState
    <3>2. QED
      BY <3>1, <1>1, SetRepeatType
  <2>3. frame \in Frame
    <3> HIDE DEF iteration
    <3>1. path \in Path /\ body \in Seq(Step) /\ Append(StepPath(q), iteration) \in Path
      BY <1>1, <1>3, <2>1, StepType, AppendKey DEF RunState
    <3>2. QED
      BY <3>1, FrameType, ResumeIndexType
  <2>4. Local(w, until) \/ Local(w, Push([q EXCEPT !.mem = m], frame))
    BY <1>7 DEF BeginIteration, r
  <2> HIDE DEF m, frame
  <2>5. until \in Call
    BY <1>1, <2>2 DEF Call, Label
  <2>6. Push([q EXCEPT !.mem = m], frame) \in Call
    BY <1>1, <2>2, <2>3, MemType, PushType
  <2> HIDE DEF until
  <2>7. QED
    BY <2>4, <2>5, <2>6, <1>2, LocalType
<1>8. CASE UntilTimeout(w)
  <2>1. Fail(q, "timeout", StepPath(q)) \in Call
    BY <1>6 DEF ErrorKind
  <2>2. QED
    BY <2>1, <1>2, <1>8, LocalType DEF UntilTimeout
<1>9. ASSUME NEW o \in Outcome \cup {"more"}, Until(w, o) PROVE TypeOK'
  <2> DEFINE s == StepOf(q)
             m == IF Def[s].compact THEN Compact(q.mem, Append(StepPath(q), r.iteration))
                                    ELSE q.mem
             finished == [r EXCEPT !.awaiting = FALSE, !.startedAt = NoTime]
             next == [r EXCEPT !.awaiting = FALSE, !.iteration = @ + 1]
             ok == PersistThen([Advance(q) EXCEPT !.pc = "steps"],
                               Complete([SetRepeat(m, finished)
                                           EXCEPT !.currentPath = StepPath(q)],
                                        StepPath(q), FALSE))
             exhausted == Fail([q EXCEPT !.mem = m], "step", StepPath(q))
             more == Persist(q, [SetRepeat(m, next)
                                   EXCEPT !.currentPath = Append(StepPath(q), next.iteration)],
                             "return")
             later == Persist(q, q.mem, "return")
             failed == Fail(q, KindOf(o), StepPath(q))
  <2>1. m \in RunState
    BY <1>1, CompactType
  <2>2. finished \in RepeatState
    BY <1>4 DEF RepeatState, Time
  <2>3. next \in RepeatState /\ next.iteration \in Nat
    <3>1. r.iteration + 1 \in Nat
      BY <1>4 DEF RepeatState
    <3>2. QED
      BY <3>1, <1>4 DEF RepeatState
  <2> HIDE DEF m, finished, next
  <2>4. ok \in Call
    <3>1. SetRepeat(m, finished) \in RunState
      BY <2>1, <2>2, SetRepeatType
    <3>2. [SetRepeat(m, finished) EXCEPT !.currentPath = StepPath(q)] \in RunState
      BY <3>1, <1>3 DEF RunState
    <3>3. [Advance(q) EXCEPT !.pc = "steps"] \in Call
      BY <1>1, <1>3, AdvanceType, GotoType DEF Label
    <3>4. QED
      BY <3>2, <3>3, <1>3, CompleteType, PersistType DEF Label
  <2>5. exhausted \in Call
    BY <2>1, <1>5 DEF ErrorKind
  <2>6. more \in Call
    <3>1. SetRepeat(m, next) \in RunState
      BY <2>1, <2>3, SetRepeatType
    <3>2. Append(StepPath(q), next.iteration) \in Path
      BY <2>3, <1>3, AppendKey
    <3>3. [SetRepeat(m, next) EXCEPT !.currentPath = Append(StepPath(q), next.iteration)]
            \in RunState
      BY <3>1, <3>2 DEF RunState
    <3>4. QED
      BY <3>3, <1>1, PersistType DEF Label
  <2>7. later \in Call
    BY <1>1, PersistType DEF Label
  <2>8. failed \in Call
    BY <1>6 DEF KindOf, ErrorKind
  <2>9. \/ Local(w, ok) \/ Local(w, exhausted) \/ Local(w, more)
        \/ Local(w, later) \/ Local(w, failed)
    BY <1>9 DEF Until, r, m, finished, next
  <2> HIDE DEF ok, exhausted, more, later, failed
  <2>10. QED
    BY <2>4, <2>5, <2>6, <2>7, <2>8, <2>9, <1>2, LocalType
<1>10. QED
  BY <1>7, <1>8, <1>9

\* The error path of executeSteps.
LEMMA RaiseType ==
  ASSUME TypeOK, NEW w \in Worker,
         RaiseCancelled(w) \/ Propagate(w) \/ RaiseNoCompensate(w) \/ RaiseFailure(w)
  PROVE  TypeOK'
<1> DEFINE q == proc[w]
<1>1. q \in Call /\ q.mem \in RunState
  BY MemType DEF TypeOK
<1>2. (\E l : At(q, l)) /\ budget' \in Nat
  BY BudgetType DEF RaiseCancelled, Propagate, RaiseNoCompensate, RaiseFailure
<1>3. StepPath(q) \in Path
  BY <1>1, <1>2, AtType
<1>4. CASE RaiseCancelled(w)
  <2>1. Unwind([q EXCEPT !.mem.currentPath = StepPath(q),
                         !.err = [kind |-> "context", path |-> <<>>]]) \in Call
    BY <1>1, <1>3, ContextType, UnwindType
  <2>2. QED
    BY <2>1, <1>2, <1>4, LocalType DEF RaiseCancelled
<1>5. CASE Propagate(w)
  BY <1>1, <1>2, <1>5, UnwindType, LocalType DEF Propagate
<1>6. CASE RaiseNoCompensate(w)
  <2>1. [q.mem EXCEPT !.failedStepPath = StepPath(q)] \in RunState
    BY <1>1, <1>3 DEF RunState
  <2>2. PersistThen(Unwind(q), [q.mem EXCEPT !.failedStepPath = StepPath(q)]) \in Call
    BY <2>1, <1>1, UnwindType, PersistType DEF Label
  <2>3. QED
    BY <2>2, <1>2, <1>6, LocalType DEF RaiseNoCompensate
<1>7. CASE RaiseFailure(w)
  <2> DEFINE m == [q.mem EXCEPT !.failedStepPath = StepPath(q),
                                !.status = "compensating",
                                !.compensationIndex = Len(q.mem.completed) - 1,
                                !.repeatTimeout = @ \/ q.err.kind = "timeout"]
  <2>1. Len(q.mem.completed) - 1 \in Int
    <3>1. q.mem.completed \in Seq(Completion)
      BY <1>1 DEF RunState
    <3>2. QED
      BY <3>1
  <2>2. (q.mem.repeatTimeout \/ q.err.kind = "timeout") \in BOOLEAN
    OBVIOUS
  <2>3. "compensating" \in Status
    BY DEF Status
  <2>4. m \in RunState
    BY <2>1, <2>2, <2>3, <1>1, <1>3 DEF RunState
  <2> HIDE DEF m
  <2>5. Persist(q, m, "compensate") \in Call
    BY <2>4, <1>1, PersistType DEF Label
  <2>6. Local(w, Persist(q, m, "compensate"))
    BY <1>7 DEF RaiseFailure, m
  <2>7. QED
    BY <2>5, <2>6, <1>2, LocalType
<1>8. QED
  BY <1>4, <1>5, <1>6, <1>7

\* runCompensation.
LEMMA CompensationType ==
  ASSUME TypeOK, NEW w \in Worker,
         \/ SkipCompensation(w) \/ CompensationCancelled(w) \/ CompensationDone(w)
         \/ \E o \in {"ok", "error", "retryafter", "context"} : Compensate(w, o)
  PROVE  TypeOK'
<1> DEFINE q == proc[w]
           down == [q.mem EXCEPT !.compensationIndex = @ - 1]
           back == Unwind([q EXCEPT !.err = [kind |-> "compensation", path |-> <<>>]])
           stop == Unwind([q EXCEPT !.cancelled = TRUE,
                                    !.err = [kind |-> "context", path |-> <<>>]])
<1>1. q \in Call /\ q.mem \in RunState
  BY MemType DEF TypeOK
<1>2. budget' \in Nat
  BY BudgetType DEF SkipCompensation, CompensationCancelled, CompensationDone, Compensate
<1>3. down \in RunState
  BY <1>1 DEF RunState
<1>4. back \in Call /\ stop \in Call
  BY <1>1, ContextType, UnwindType
<1>5. CASE SkipCompensation(w)
  <2>1. [q EXCEPT !.mem.compensationIndex = @ - 1] \in Call
    BY <1>1, <1>3 DEF Call
  <2>2. QED
    BY <2>1, <1>2, <1>5, LocalType DEF SkipCompensation
<1>6. CASE CompensationCancelled(w)
  <2>1. Unwind([q EXCEPT !.err = [kind |-> "context", path |-> <<>>]]) \in Call
    BY <1>1, ContextType, UnwindType
  <2>2. QED
    BY <2>1, <1>2, <1>6, LocalType DEF CompensationCancelled
<1>7. CASE CompensationDone(w)
  <2>1. [q EXCEPT !.stack = <<>>] \in Call
    BY <1>1, NewRunType DEF Call, NoCall
  <2>2. [q.mem EXCEPT !.status = "failed", !.compensationIndex = -1] \in RunState
    <3>1. "failed" \in Status /\ -1 \in Int
      BY DEF Status, Terminal
    <3>2. QED
      BY <3>1, <1>1 DEF RunState
  <2>3. Persist([q EXCEPT !.stack = <<>>],
                [q.mem EXCEPT !.status = "failed", !.compensationIndex = -1], "return") \in Call
    BY <2>1, <2>2, PersistType DEF Label
  <2>4. QED
    BY <2>3, <1>2, <1>7, LocalType DEF CompensationDone
<1>8. ASSUME NEW o \in {"ok", "error", "retryafter", "context"}, Compensate(w, o)
      PROVE  TypeOK'
  <2>1. /\ Persist(q, down, "compensate") \in Call
        /\ Persist(q, q.mem, "return") \in Call
        /\ PersistThen(back, q.mem) \in Call
    BY <1>1, <1>3, <1>4, PersistType DEF Label
  <2>2. \/ Set(w, Persist(q, down, "compensate"))
        \/ Set(w, Persist(q, q.mem, "return"))
        \/ Set(w, PersistThen(back, q.mem))
        \/ Set(w, stop)
    BY <1>8 DEF Compensate
  <2>3. proc' \in [Worker -> Call]
    <3> HIDE DEF q, down, back, stop
    <3>1. QED
      BY <2>1, <2>2, <1>4, SetType
  <2>4. world' \in SUBSET Path
    BY <1>8 DEF Compensate, TypeOK
  <2>5. QED
    BY <2>3, <2>4, <1>2, <1>8 DEF Compensate, TypeOK
<1>9. QED
  BY <1>5, <1>6, <1>7, <1>8

\* Return, Crash and Cancel.
LEMMA EndType ==
  ASSUME TypeOK, NEW w \in Worker, Return(w) \/ Crash(w) \/ Cancel(w)
  PROVE  TypeOK'
<1>1. proc[w] \in Call /\ proc[w].mem \in RunState
  BY MemType DEF TypeOK
<1>2. CASE Return(w)
  <2>1. proc' \in [Worker -> Call]
    BY <1>2, NewRunType, SetType DEF Return
  <2>2. QED
    BY <2>1, <1>1, <1>2 DEF Return, TypeOK
<1>3. CASE Crash(w)
  BY <1>3, BudgetType, NewRunType, LocalType DEF Crash
<1>4. CASE Cancel(w)
  <2>1. [proc[w] EXCEPT !.cancelled = TRUE] \in Call
    BY <1>1 DEF Call
  <2>2. QED
    BY <2>1, <1>4, BudgetType, LocalType DEF Cancel
<1>5. QED
  BY <1>2, <1>3, <1>4

\* Every step of the executor preserves the types.
LEMMA StepPreservesType == TypeOK /\ [Next]_vars => TypeOK'
<1> SUFFICES ASSUME TypeOK, [Next]_vars PROVE TypeOK'
  OBVIOUS
<1>1. ASSUME NEW w \in Worker, WorkerStep(w) PROVE TypeOK'
  BY <1>1, StartType, SnapshotType, StepsType, PrologueType, ActionType, PollType,
     BranchType, RepeatType, RaiseType, CompensationType, EndType DEF WorkerStep
<1>2. ASSUME NEW w \in Worker, Load(w) \/ SnapshotAckLost(w) \/ Crash(w) \/ Cancel(w)
      PROVE  TypeOK'
  BY <1>2, LoadType, SnapshotType, EndType
<1>3. CASE Tick
  BY <1>3 DEF Tick, TypeOK
<1>4. CASE UNCHANGED vars
  BY <1>4 DEF vars, TypeOK
<1>5. QED
  BY <1>1, <1>2, <1>3, <1>4 DEF Next, Terminated

\* The state of every execution, whatever the pipeline, has its type.
THEOREM TypeCorrect == Spec => []TypeOK
<1>1. QED
  BY InitType, StepPreservesType, PTL DEF Spec

-----------------------------------------------------------------------------
(* What the helpers do to the fields the invariants speak of.              *)

\* A snapshot that goes on at a label.
LEMMA PersistIs ==
  ASSUME NEW q \in Call, NEW m, NEW l
  PROVE  LET n == Persist(q, m, l) IN
         /\ n.pc = "snapshot" /\ n.next = l /\ n.mem = m
         /\ n.stack = q.stack /\ n.err = q.err /\ n.cancelled = q.cancelled
BY DEF Persist, Call

\* A snapshot that goes on where the call was.
LEMMA PersistThenIs ==
  ASSUME NEW q \in Call, NEW m
  PROVE  LET n == PersistThen(q, m) IN
         /\ n.pc = "snapshot" /\ n.next = q.pc /\ n.mem = m
         /\ n.stack = q.stack /\ n.err = q.err /\ n.cancelled = q.cancelled
BY DEF PersistThen, Call

\* A failure.
LEMMA FailIs ==
  ASSUME NEW q \in Call, NEW kind, NEW path
  PROVE  LET n == Fail(q, kind, path) IN
         /\ n.pc = "raise" /\ n.mem = q.mem /\ n.err.kind = kind /\ n.err.path = path
         /\ n.stack = q.stack /\ n.cancelled = q.cancelled
BY DEF Fail, Call

\* The entry of a nested scope.
LEMMA PushIs ==
  ASSUME NEW q \in Call, NEW frame
  PROVE  LET n == Push(q, frame) IN
         /\ n.pc = "steps" /\ n.mem = q.mem /\ n.stack = <<frame>> \o q.stack
         /\ n.err = q.err /\ n.cancelled = q.cancelled
BY DEF Push, Call

\* The move to the next step.
LEMMA AdvanceIs ==
  ASSUME NEW q \in Call
  PROVE  LET n == Advance(q) IN
         /\ n.pc = q.pc /\ n.next = q.next /\ n.mem = q.mem
         /\ n.err = q.err /\ n.cancelled = q.cancelled
BY DEF Advance, Call

\* The return of the innermost scope.
LEMMA UnwindIs ==
  ASSUME NEW q \in Call
  PROVE  LET n == Unwind(q) IN
         /\ n.pc \in {"raise", "return"} /\ n.mem = q.mem /\ n.err = q.err
         /\ n.cancelled = q.cancelled
BY DEF Unwind, Call

\* A jump.
LEMMA GotoIs ==
  ASSUME NEW q \in Call, NEW l
  PROVE  LET n == [q EXCEPT !.pc = l] IN
         /\ n.pc = l /\ n.next = q.next /\ n.mem = q.mem /\ n.stack = q.stack
         /\ n.err = q.err /\ n.cancelled = q.cancelled
BY DEF Call

\* A new state in memory.
LEMMA WithMemIs ==
  ASSUME NEW q \in Call, NEW m
  PROVE  LET n == [q EXCEPT !.mem = m] IN
         /\ n.pc = q.pc /\ n.next = q.next /\ n.mem = m /\ n.stack = q.stack
         /\ n.err = q.err /\ n.cancelled = q.cancelled
BY DEF Call

\* n has the status, the rollback fields and the failed path of m.
Alike(m, n) ==
  /\ n.status = m.status /\ n.compensationIndex = m.compensationIndex
  /\ n.revision = m.revision /\ n.failedStepPath = m.failedStepPath

\* What the operators on states leave alone.
LEMMA AlikeIs ==
  ASSUME NEW m \in RunState
  PROVE  /\ Alike(m, m)
         /\ Alike(m, Opened(m))
         /\ Alike(m, [m EXCEPT !.pollStartedAt = NoTime])
         /\ \A r : Alike(m, SetRepeat(m, r))
         /\ \A path : Alike(m, Compact(m, path))
         /\ \A path : Alike(m, [m EXCEPT !.currentPath = path])
         /\ \A path, compensator : Alike(m, Complete(m, path, compensator))
BY DEF Alike, Complete, SetRepeat, Compact, Opened, RunState

-----------------------------------------------------------------------------
(* Lineage.                                                                *)

\* MayFollow is reflexive and transitive.
LEMMA FollowOrder ==
  ASSUME NEW a \in RunState, NEW b \in RunState, NEW c \in RunState
  PROVE  /\ MayFollow(a, a)
         /\ MayFollow(a, b) /\ MayFollow(b, c) => MayFollow(a, c)
<1>1. /\ a.compensationIndex \in Int /\ b.compensationIndex \in Int
      /\ c.compensationIndex \in Int
  BY DEF RunState
<1>2. QED
  BY <1>1 DEF MayFollow, RolledBack

\* A call q moves to n without a write.
Moves(q, n) ==
  /\ q.pc # "idle"
  /\ OnItsWay(q) /\ n.pc # "idle" =>
       OnItsWay(n) /\ n.mem.revision = q.mem.revision /\ MayFollow(q.mem, n.mem)

\* A step of one call that may follow what it held before keeps the lineage.
LEMMA MoveKeepsLineage ==
  ASSUME TypeOK, TypeOK', Lineage, NEW w \in Worker,
         \A v \in Worker \ {w} : proc'[v] = proc[v], store' = store, Moves(proc[w], proc'[w])
  PROVE  Lineage'
<1>1. store'.compensationIndex >= -1
  BY DEF Lineage
<1>2. ASSUME NEW v \in Worker, proc'[v].pc # "idle"
      PROVE  /\ OnItsWay(proc'[v])
             /\ Mode = "cas" /\ ~CallerSaves => proc'[v].mem.revision <= store'.revision
             /\ Fresh(v)' => MayFollow(store', proc'[v].mem)
  <2>1. CASE v # w
    <3>1. proc'[v] = proc[v]
      BY <2>1
    <3>2. QED
      BY <1>2, <3>1 DEF Lineage, Fresh
  <2>2. CASE v = w
    <3>1. /\ OnItsWay(proc[w])
          /\ Mode = "cas" /\ ~CallerSaves => proc[w].mem.revision <= store.revision
          /\ Fresh(w) => MayFollow(store, proc[w].mem)
      BY DEF Lineage, Moves
    <3>2. /\ OnItsWay(proc'[w]) /\ proc'[w].mem.revision = proc[w].mem.revision
          /\ MayFollow(proc[w].mem, proc'[w].mem)
      BY <1>2, <2>2, <3>1 DEF Moves
    <3>3. Fresh(w)' => Fresh(w)
      BY <3>2 DEF Fresh
    <3>4. store \in RunState /\ proc[w].mem \in RunState /\ proc'[w].mem \in RunState
      BY DEF TypeOK, Call
    <3>5. Fresh(w)' => MayFollow(store, proc'[w].mem)
      BY <3>1, <3>2, <3>3, <3>4, FollowOrder
    <3>6. QED
      BY <2>2, <3>1, <3>2, <3>5
  <2>3. QED
    BY <2>1, <2>2
<1>3. QED
  BY <1>1, <1>2 DEF Lineage

\* The labels of the forward path.
Forward == {"steps", "repeatStart", "repeatCheck", "onEnter", "call", "sleep", "until"}

\* The call q is on the forward path and stays there in n, or leaves it.
Ahead(q, n) ==
  /\ q.pc \in Forward
  /\ n.pc \in Forward \cup {"raise", "snapshot", "return"}
  /\ n.pc = "snapshot" => n.next \notin {"idle", "start", "compensate"}
  /\ \/ n.mem.status \in {q.mem.status, "running", "polling"}
     \/ /\ n.mem.status = "completed" /\ n.pc = "snapshot"
        /\ n.mem.completed = q.mem.completed
  /\ n.mem.compensationIndex = q.mem.compensationIndex
  /\ n.mem.revision = q.mem.revision
  /\ n.mem.failedStepPath = q.mem.failedStepPath

\* A step along the forward path is such a step.
LEMMA AheadMoves ==
  ASSUME NEW q, NEW n, Ahead(q, n)
  PROVE  Moves(q, n)
<1>1. OnItsWay(q) => q.mem.status \notin RolledBack /\ n.mem.status \notin RolledBack
  BY DEF Ahead, OnItsWay, Goes, RolledBack, Forward
<1>2. QED
  BY <1>1 DEF Ahead, Moves, OnItsWay, Goes, MayFollow, Forward

\* The memory m may take the place of that of q on the forward path.
Kept(q, m) ==
  /\ m.status \in {q.mem.status, "running", "polling"}
  /\ m.compensationIndex = q.mem.compensationIndex
  /\ m.revision = q.mem.revision
  /\ m.failedStepPath = q.mem.failedStepPath

\* The ways in which the actions of the forward path leave a call.
LEMMA AheadFail ==
  ASSUME NEW q, q.pc \in Forward, NEW p \in Call, Kept(q, p.mem), NEW kind, NEW path
  PROVE  Ahead(q, Fail(p, kind, path))
BY FailIs DEF Ahead, Kept, Forward

\* A failure with a new state in memory.
LEMMA AheadFailWith ==
  ASSUME NEW q \in Call, q.pc \in Forward, NEW m \in RunState, Kept(q, m), NEW kind, NEW path
  PROVE  Ahead(q, Fail([q EXCEPT !.mem = m], kind, path))
<1> DEFINE p == [q EXCEPT !.mem = m]
<1>1. p \in Call /\ p.mem = m
  BY MemType, WithMemIs
<1> HIDE DEF p
<1>2. Ahead(q, Fail(p, kind, path))
  BY <1>1, AheadFail
<1>3. QED
  BY <1>2 DEF p

\* The entry of a nested scope.
LEMMA AheadPush ==
  ASSUME NEW q, q.pc \in Forward, NEW p \in Call, Kept(q, p.mem), NEW frame
  PROVE  Ahead(q, Push(p, frame))
BY PushIs DEF Ahead, Kept, Forward

\* A jump along the forward path.
LEMMA AheadGoto ==
  ASSUME NEW q, q.pc \in Forward, NEW p \in Call, Kept(q, p.mem), NEW l \in Forward
  PROVE  Ahead(q, [p EXCEPT !.pc = l])
BY GotoIs DEF Ahead, Kept, Forward

\* A snapshot that goes on at a label of the forward path, or returns.
LEMMA AheadPersist ==
  ASSUME NEW q, q.pc \in Forward, NEW p \in Call, NEW m, Kept(q, m),
         NEW l \in Forward \cup {"return"}
  PROVE  Ahead(q, Persist(p, m, l))
BY PersistIs DEF Ahead, Kept, Forward

\* A snapshot that goes on where the call was.
LEMMA AheadPersistThen ==
  ASSUME NEW q, q.pc \in Forward, NEW p \in Call, p.pc \in Forward, NEW m, Kept(q, m)
  PROVE  Ahead(q, PersistThen(p, m))
BY PersistThenIs DEF Ahead, Kept, Forward

\* The loop of executeSteps stays on the forward path.
LEMMA StepsAhead ==
  ASSUME TypeOK, NEW w \in Worker,
         SkipCompleted(w) \/ StopCancelled(w) \/ EnterStep(w) \/ ScopeDone(w)
  PROVE  Ahead(proc[w], proc'[w])
<1> DEFINE q == proc[w]
<1>1. q \in Call /\ q.mem \in RunState /\ proc \in [Worker -> Call]
  BY MemType DEF TypeOK
<1>2. CASE SkipCompleted(w)
  <2>1. proc'[w] = Advance(q) /\ q.pc = "steps"
    BY <1>1, <1>2 DEF SkipCompleted, Local, Set, At
  <2>2. QED
    BY <2>1, <1>1, AdvanceIs DEF Ahead, Forward
<1>3. CASE StopCancelled(w)
  <2> DEFINE p == [q EXCEPT !.mem.currentPath = StepPath(q),
                            !.err = [kind |-> "context", path |-> <<>>]]
  <2>1. proc'[w] = Unwind(p) /\ q.pc = "steps"
    BY <1>1, <1>3 DEF StopCancelled, Local, Set, At
  <2>2. StepPath(q) \in Path
    BY <1>1, <1>3, AtType DEF StopCancelled
  <2>3. p \in Call
    BY <1>1, <2>2, ContextType
  <2>4. Alike(q.mem, p.mem)
    BY <1>1 DEF Call, RunState, Alike
  <2> HIDE DEF p
  <2>5. QED
    BY <2>1, <2>3, <2>4, UnwindIs DEF Ahead, Forward, Alike
<1>4. CASE EnterStep(w)
  <2> DEFINE deeper == Top(q).i = Top(q).start /\ IsStrictPrefix(StepPath(q), Top(q).resume)
             path == IF deeper THEN Top(q).resume ELSE StepPath(q)
             n == [q EXCEPT !.mem.currentPath = path, !.attempt = 0, !.pc = Prologue(StepOf(q))]
  <2>1. proc'[w] = n /\ q.pc = "steps"
    BY <1>1, <1>4 DEF EnterStep, Local, Set, At
  <2> HIDE DEF path
  <2>2. n.pc \in {"repeatStart", "onEnter", "call"} /\ Alike(q.mem, n.mem)
    BY <1>1 DEF Call, RunState, Alike, Prologue, Dispatch
  <2>3. QED
    BY <2>1, <2>2 DEF Ahead, Forward, Alike
<1>5. CASE ScopeDone(w)
  <2> DEFINE up == [q EXCEPT !.stack = Tail(@)]
             r == RepeatAt(q.mem, StepPath(up))
             done == Persist([q EXCEPT !.stack = <<>>], [q.mem EXCEPT !.status = "completed"],
                             "return")
             more == [up EXCEPT !.mem = SetRepeat(q.mem, [r EXCEPT !.awaiting = TRUE]),
                                !.pc = "until"]
  <2>1. q.pc = "steps" /\ (proc'[w] = done \/ proc'[w] = Advance(up) \/ proc'[w] = more)
    BY <1>1, <1>5 DEF ScopeDone, Local, Set, At
  <2>2. up.pc = q.pc /\ up.mem = q.mem /\ Advance(up).pc = up.pc /\ Advance(up).mem = up.mem
    BY <1>1 DEF Call, Advance
  <2>3. /\ done.pc = "snapshot" /\ done.next = "return" /\ done.mem.status = "completed"
        /\ done.mem.completed = q.mem.completed
        /\ done.mem.compensationIndex = q.mem.compensationIndex
        /\ done.mem.revision = q.mem.revision
        /\ done.mem.failedStepPath = q.mem.failedStepPath
    BY <1>1 DEF Persist, Call, RunState
  <2>4. more.pc = "until" /\ Alike(q.mem, more.mem)
    <3>1. more.mem = SetRepeat(q.mem, [r EXCEPT !.awaiting = TRUE]) /\ more.pc = "until"
      BY <1>1 DEF Call
    <3>2. QED
      BY <3>1, <1>1, AlikeIs
  <2> HIDE DEF up, done, more
  <2>5. QED
    BY <2>1, <2>2, <2>3, <2>4 DEF Ahead, Forward, Alike
<1>6. QED
  BY <1>2, <1>3, <1>4, <1>5

\* The clock of a repeat and the hook stay on the forward path.
LEMMA PrologueAhead ==
  ASSUME TypeOK, NEW w \in Worker,
         \/ EnsureRepeatStarted(w) \/ CheckRepeatTimeout(w)
         \/ \E o \in Outcome : OnEnter(w, o)
  PROVE  Ahead(proc[w], proc'[w])
<1> DEFINE q == proc[w]
           r == RepeatAt(q.mem, StepPath(q))
           m == SetRepeat(q.mem, [r EXCEPT !.startedAt = now])
<1>1. q \in Call /\ q.mem \in RunState /\ proc \in [Worker -> Call]
  BY MemType DEF TypeOK
<1>2. q.pc \in Forward
  BY DEF EnsureRepeatStarted, CheckRepeatTimeout, OnEnter, At, Forward
<1>3. {"repeatCheck", "call", Dispatch(StepOf(q))} \subseteq Forward
  BY DEF Dispatch, Forward
<1>4. \/ proc'[w] = Persist(q, m, "repeatCheck")
      \/ proc'[w] = Persist(q, q.mem, "return")
      \/ \E l \in {"repeatCheck", "call", Dispatch(StepOf(q))} : proc'[w] = [q EXCEPT !.pc = l]
      \/ \E kind : proc'[w] = Fail(q, kind, StepPath(q))
  <2>1. CASE EnsureRepeatStarted(w)
    BY <1>1, <2>1 DEF EnsureRepeatStarted, Local, Set
  <2>2. CASE CheckRepeatTimeout(w)
    BY <1>1, <2>2 DEF CheckRepeatTimeout, Local, Set
  <2>3. ASSUME NEW o \in Outcome, OnEnter(w, o) PROVE <1>4!:
    BY <1>1, <2>3 DEF OnEnter, Local, Set
  <2>4. QED
    BY <2>1, <2>2, <2>3
<1>5. Kept(q, m) /\ Kept(q, q.mem)
  BY <1>1, AlikeIs DEF Alike, Kept
<1> HIDE DEF m
<1>6. QED
  BY <1>1, <1>2, <1>3, <1>4, <1>5, AheadFail, AheadGoto, AheadPersist

\* An action stays on the forward path.
LEMMA ActionAhead ==
  ASSUME TypeOK, NEW w \in Worker,
         (\E o \in Outcome : Do(w, o)) \/ Sleep(w)
  PROVE  Ahead(proc[w], proc'[w])
<1> DEFINE q == proc[w]
           m == Complete(q.mem, StepPath(q), Def[StepOf(q)].compensate)
           on == [Advance(q) EXCEPT !.pc = "steps"]
           again == [q EXCEPT !.attempt = @ + 1, !.pc = "sleep"]
<1>1. q \in Call /\ q.mem \in RunState /\ proc \in [Worker -> Call]
  BY MemType DEF TypeOK
<1>2. q.pc \in Forward /\ "call" \in Forward /\ q.stack # <<>>
  BY DEF Do, Sleep, At, Forward
<1>3. \/ proc'[w] = PersistThen(on, m)
      \/ proc'[w] = Persist(q, q.mem, "return")
      \/ proc'[w] = again
      \/ proc'[w] = [q EXCEPT !.pc = "call"]
      \/ \E kind : proc'[w] = Fail(q, kind, StepPath(q))
  <2>1. ASSUME NEW o \in Outcome, Do(w, o) PROVE <1>3!:
    BY <1>1, <2>1 DEF Do, Set
  <2>2. CASE Sleep(w)
    BY <1>1, <2>2 DEF Sleep, Local, Set
  <2>3. QED
    BY <2>1, <2>2
<1>4. Kept(q, m) /\ Kept(q, q.mem)
  BY <1>1, AlikeIs DEF Alike, Kept
<1>5. on \in Call /\ on.pc \in Forward
  <2>1. Advance(q) \in Call
    BY <1>1, <1>2, AdvanceType
  <2>2. QED
    BY <2>1, GotoType, GotoIs DEF Label, Forward
<1>6. Ahead(q, again)
  <2>1. again.pc = "sleep" /\ again.mem = q.mem
    BY <1>1 DEF Call
  <2>2. QED
    BY <2>1, <1>2 DEF Ahead, Forward
<1> HIDE DEF m, on, again
<1>7. QED
  BY <1>1, <1>2, <1>3, <1>4, <1>5, <1>6, AheadFail, AheadGoto, AheadPersist,
     AheadPersistThen

\* A poll stays on the forward path.
LEMMA PollAhead ==
  ASSUME TypeOK, NEW w \in Worker,
         PollTimeout(w) \/ \E o \in Outcome \cup {"pending"} : Check(w, o)
  PROVE  Ahead(proc[w], proc'[w])
<1> DEFINE q == proc[w]
           m == Opened(q.mem)
           closed == [m EXCEPT !.pollStartedAt = NoTime]
           done == Complete([closed EXCEPT !.status = "running"], StepPath(q), FALSE)
           on == [Advance(q) EXCEPT !.pc = "steps"]
           waiting == [m EXCEPT !.status = "polling"]
<1>1. q \in Call /\ q.mem \in RunState /\ proc \in [Worker -> Call]
  BY MemType DEF TypeOK
<1>2. q.pc \in Forward /\ q.stack # <<>>
  BY DEF PollTimeout, Check, At, Forward
<1>3. \/ proc'[w] = PersistThen(on, done)
      \/ proc'[w] = Persist(q, waiting, "return")
      \/ \E kind : \/ proc'[w] = Fail([q EXCEPT !.mem = m], kind, StepPath(q))
                   \/ proc'[w] = Fail([q EXCEPT !.mem = closed], kind, StepPath(q))
  <2>1. CASE PollTimeout(w)
    BY <1>1, <2>1 DEF PollTimeout, Local, Set
  <2>2. ASSUME NEW o \in Outcome \cup {"pending"}, Check(w, o) PROVE <1>3!:
    BY <1>1, <2>2 DEF Check, Local, Set
  <2>3. QED
    BY <2>1, <2>2
<1>4. m \in RunState /\ Alike(q.mem, m)
  BY <1>1, AlikeIs DEF Opened, RunState, TypeOK, Time
<1>5. closed \in RunState /\ Alike(m, closed)
  BY <1>4, AlikeIs DEF RunState, Time
<1>6. /\ waiting.status = "polling" /\ waiting.revision = m.revision
      /\ waiting.compensationIndex = m.compensationIndex
      /\ waiting.failedStepPath = m.failedStepPath
  BY <1>4 DEF RunState
<1> HIDE DEF m
<1>7. /\ done.status = "running" /\ done.revision = closed.revision
      /\ done.compensationIndex = closed.compensationIndex
      /\ done.failedStepPath = closed.failedStepPath
  <2>1. [closed EXCEPT !.status = "running"] \in RunState
    BY <1>5 DEF RunState, Status
  <2>2. Alike([closed EXCEPT !.status = "running"], done)
    BY <2>1, AlikeIs
  <2>3. QED
    BY <2>2, <1>5 DEF Alike, RunState
<1>8. on \in Call /\ on.pc \in Forward
  <2>1. Advance(q) \in Call
    BY <1>1, <1>2, AdvanceType
  <2>2. QED
    BY <2>1, GotoType, GotoIs DEF Label, Forward
<1>9. Kept(q, m) /\ Kept(q, closed) /\ Kept(q, done) /\ Kept(q, waiting)
  BY <1>4, <1>5, <1>6, <1>7 DEF Alike, Kept
<1>10. ASSUME NEW n \in RunState, Kept(q, n), NEW kind
       PROVE  Ahead(q, Fail([q EXCEPT !.mem = n], kind, StepPath(q)))
  BY <1>1, <1>2, <1>10, AheadFailWith
<1> HIDE DEF closed, done, on, waiting
<1>11. QED
  BY <1>1, <1>2, <1>3, <1>4, <1>5, <1>8, <1>9, <1>10, AheadPersist, AheadPersistThen

\* A branch stays on the forward path.
LEMMA BranchAhead ==
  ASSUME TypeOK, NEW w \in Worker,
         \/ ResumeBranch(w) \/ \E key \in Key : Decide(w, key)
         \/ \E o \in Outcome : DecideFailed(w, o)
  PROVE  Ahead(proc[w], proc'[w])
<1> DEFINE q == proc[w]
           m == Complete(q.mem, StepPath(q), FALSE)
           on == [Advance(q) EXCEPT !.pc = "steps"]
<1>1. q \in Call /\ q.mem \in RunState /\ proc \in [Worker -> Call]
  BY MemType DEF TypeOK
<1>2. q.pc \in Forward /\ q.stack # <<>>
  BY DEF ResumeBranch, Decide, DecideFailed, At, Forward
<1>3. Alike(q.mem, m) /\ \A path : Alike(m, [m EXCEPT !.currentPath = path])
  <2>1. m \in RunState
    <3>1. StepPath(q) \in Path
      BY <1>1, AtType DEF ResumeBranch, Decide, DecideFailed
    <3>2. QED
      BY <3>1, <1>1, CompleteType
  <2>2. QED
    BY <2>1, <1>1, AlikeIs
<1>4. on \in Call /\ on.pc \in Forward
  <2>1. Advance(q) \in Call
    BY <1>1, <1>2, AdvanceType
  <2>2. QED
    BY <2>1, GotoType, GotoIs DEF Label, Forward
<1>5. CASE ResumeBranch(w)
  <2>1. \E frame : proc'[w] = Push(q, frame)
    BY <1>1, <1>5 DEF ResumeBranch, Local, Set
  <2>2. QED
    BY <2>1, <1>1, <1>2, AheadPush DEF Kept
<1>6. ASSUME NEW key \in Key, Decide(w, key) PROVE Ahead(q, proc'[w])
  <2> DEFINE childPath == Append(StepPath(q), key)
             frame == NewFrame(childPath, Def[StepOf(q)].paths[key], 1, childPath)
             down == Push(q, frame)
  <2>1. \/ proc'[w] = PersistThen(on, [m EXCEPT !.currentPath = StepPath(q)])
        \/ proc'[w] = PersistThen(down, [m EXCEPT !.currentPath = childPath])
    BY <1>1, <1>6 DEF Decide, Local, Set
  <2>2. down \in Call /\ down.pc \in Forward
    <3>1. StepOf(q) \in Step /\ StepPath(q) \in Path
      BY <1>1, <1>6, AtType DEF Decide
    <3>2. Def[StepOf(q)].paths[key] \in Seq(Step) /\ childPath \in Path
      BY <3>1, <1>6, StepType, AppendKey DEF Decide
    <3>3. frame \in Frame
      BY <3>2, FrameType
    <3>4. QED
      BY <3>3, <1>1, PushType, PushIs DEF Forward
  <2>3. \A path : Kept(q, [m EXCEPT !.currentPath = path])
    BY <1>3 DEF Alike, Kept
  <2> HIDE DEF m, on, down
  <2>4. QED
    BY <2>1, <2>2, <2>3, <1>2, <1>4, AheadPersistThen
<1>7. ASSUME NEW o \in Outcome, DecideFailed(w, o) PROVE Ahead(q, proc'[w])
  <2>1. \/ proc'[w] = Persist(q, q.mem, "return")
        \/ proc'[w] = Fail(q, KindOf(o), StepPath(q))
    BY <1>1, <1>7 DEF DecideFailed, Local, Set
  <2>2. QED
    BY <2>1, <1>1, <1>2, AheadFail, AheadPersist DEF Kept
<1>8. QED
  BY <1>5, <1>6, <1>7

\* A repeat stays on the forward path.
LEMMA RepeatAhead ==
  ASSUME TypeOK, NEW w \in Worker,
         \/ BeginIteration(w) \/ UntilTimeout(w)
         \/ \E o \in Outcome \cup {"more"} : Until(w, o)
  PROVE  Ahead(proc[w], proc'[w])
<1> DEFINE q == proc[w]
           r == RepeatAt(q.mem, StepPath(q))
<1>1. q \in Call /\ q.mem \in RunState /\ proc \in [Worker -> Call]
  BY MemType DEF TypeOK
<1>2. q.pc \in Forward /\ q.stack # <<>>
  BY DEF BeginIteration, UntilTimeout, Until, At, Forward
<1>3. StepPath(q) \in Path
  BY <1>1, AtType DEF BeginIteration, UntilTimeout, Until
<1>4. r \in RepeatState
  BY <1>1, <1>3, RepeatAtType
<1>5. CASE BeginIteration(w)
  <2>1. \E n, frame : LET m == SetRepeat(q.mem, n) IN
          \/ proc'[w] = [q EXCEPT !.mem = m, !.pc = "until"]
          \/ proc'[w] = Push([q EXCEPT !.mem = m], frame)
    BY <1>1, <1>5 DEF BeginIteration, Local, Set
  <2>2. PICK n, frame : LET m == SetRepeat(q.mem, n) IN
          \/ proc'[w] = [q EXCEPT !.mem = m, !.pc = "until"]
          \/ proc'[w] = Push([q EXCEPT !.mem = m], frame)
    BY <2>1
  <2> DEFINE m == SetRepeat(q.mem, n)
  <2>3. Alike(q.mem, m)
    BY <1>1, AlikeIs
  <2> HIDE DEF m
  <2>4. proc'[w] = [q EXCEPT !.mem = m, !.pc = "until"]
          \/ proc'[w] = Push([q EXCEPT !.mem = m], frame)
    BY <2>2 DEF m
  <2>5. proc'[w].pc \in {"until", "steps"} /\ proc'[w].mem = m
    BY <2>4, <1>1 DEF Push, Call
  <2>6. QED
    BY <2>3, <2>5, <1>2 DEF Ahead, Alike, Forward
<1>6. CASE UntilTimeout(w)
  <2>1. proc'[w] = Fail(q, "timeout", StepPath(q))
    BY <1>1, <1>6 DEF UntilTimeout, Local, Set
  <2>2. QED
    BY <2>1, <1>1, <1>2, AheadFail DEF Kept
<1>7. ASSUME NEW o \in Outcome \cup {"more"}, Until(w, o) PROVE Ahead(q, proc'[w])
  <2> DEFINE s == StepOf(q)
             m == IF Def[s].compact THEN Compact(q.mem, Append(StepPath(q), r.iteration))
                                    ELSE q.mem
             finished == [r EXCEPT !.awaiting = FALSE, !.startedAt = NoTime]
             next == [r EXCEPT !.awaiting = FALSE, !.iteration = @ + 1]
             on == [Advance(q) EXCEPT !.pc = "steps"]
             done == Complete([SetRepeat(m, finished) EXCEPT !.currentPath = StepPath(q)],
                              StepPath(q), FALSE)
             more == [SetRepeat(m, next)
                        EXCEPT !.currentPath = Append(StepPath(q), next.iteration)]
  <2>1. \/ proc'[w] = PersistThen(on, done)
        \/ proc'[w] = Fail([q EXCEPT !.mem = m], "step", StepPath(q))
        \/ proc'[w] = Persist(q, more, "return")
        \/ proc'[w] = Persist(q, q.mem, "return")
        \/ proc'[w] = Fail(q, KindOf(o), StepPath(q))
    BY <1>1, <1>7 DEF Until, Local, Set
  <2>2. m \in RunState /\ Alike(q.mem, m)
    BY <1>1, CompactType, AlikeIs
  <2> HIDE DEF m
  <2>3. /\ SetRepeat(m, finished) \in RunState /\ SetRepeat(m, next) \in RunState
        /\ Alike(m, SetRepeat(m, finished)) /\ Alike(m, SetRepeat(m, next))
    <3>1. finished \in RepeatState
      BY <1>4 DEF RepeatState, Time
    <3>2. r.iteration + 1 \in Nat
      BY <1>4 DEF RepeatState
    <3>3. next \in RepeatState
      BY <3>2, <1>4 DEF RepeatState
    <3>4. QED
      BY <3>1, <3>3, <2>2, SetRepeatType, AlikeIs
  <2>4. Alike(m, more)
    <3>1. Alike(SetRepeat(m, next), more)
      BY <2>3, AlikeIs
    <3>2. QED
      BY <3>1, <2>3 DEF Alike
  <2>5. Alike(m, done)
    <3> DEFINE n == [SetRepeat(m, finished) EXCEPT !.currentPath = StepPath(q)]
    <3>1. n \in RunState
      BY <2>3, <1>3 DEF RunState
    <3>2. Alike(SetRepeat(m, finished), n)
      BY <2>3, AlikeIs
    <3>3. Alike(n, done)
      BY <3>1, AlikeIs
    <3>4. QED
      BY <3>2, <3>3, <2>3 DEF Alike
  <2>6. on \in Call /\ on.pc \in Forward
    <3>1. Advance(q) \in Call
      BY <1>1, <1>2, AdvanceType
    <3>2. QED
      BY <3>1, GotoType, GotoIs DEF Label, Forward
  <2>7. Kept(q, m) /\ Kept(q, done) /\ Kept(q, more) /\ Kept(q, q.mem)
    BY <2>2, <2>4, <2>5 DEF Alike, Kept
  <2>8. Ahead(q, Fail([q EXCEPT !.mem = m], "step", StepPath(q)))
    BY <1>1, <1>2, <2>2, <2>7, AheadFailWith
  <2> HIDE DEF on, done, more
  <2>9. QED
    BY <2>1, <2>6, <2>7, <2>8, <1>1, <1>2, AheadFail, AheadPersist, AheadPersistThen
<1>8. QED
  BY <1>5, <1>6, <1>7

\* The start of Run.
LEMMA StartMoves ==
  ASSUME TypeOK, NEW w \in Worker, Start(w)
  PROVE  Moves(proc[w], proc'[w])
<1> DEFINE q == proc[w]
           m == [q.mem EXCEPT !.status = "running"]
<1>1. q \in Call /\ q.mem \in RunState /\ proc \in [Worker -> Call] /\ q.pc = "start"
  BY MemType DEF TypeOK, Start
<1>2. MayFollow(q.mem, q.mem)
  BY <1>1, FollowOrder
<1>3. CASE proc'[w] = [q EXCEPT !.pc = "return"]
  BY <1>1, <1>2, <1>3, GotoIs DEF Moves, OnItsWay, Goes
<1>4. CASE q.mem.status = "compensating" /\ proc'[w] = Persist(q, q.mem, "compensate")
  BY <1>1, <1>2, <1>4, PersistIs DEF Moves, OnItsWay, Goes
<1>5. ASSUME q.mem.status # "compensating",
             NEW frame \in Frame, proc'[w] = PersistThen(Push(q, frame), m)
      PROVE  Moves(q, proc'[w])
  <2>1. Push(q, frame) \in Call /\ Push(q, frame).pc = "steps"
    BY <1>1, PushType, PushIs
  <2>2. proc'[w].pc = "snapshot" /\ proc'[w].next = "steps" /\ proc'[w].mem = m
    BY <2>1, <1>5, PersistThenIs
  <2>3. /\ m.status = "running" /\ m.revision = q.mem.revision
        /\ m.compensationIndex = q.mem.compensationIndex
    BY <1>1 DEF RunState
  <2>4. OnItsWay(q) => q.mem.status \notin RolledBack
    BY <1>1, <1>5 DEF OnItsWay, Goes, RolledBack, Terminal
  <2> HIDE DEF m
  <2>5. QED
    BY <2>2, <2>3, <2>4, <1>1 DEF Moves, OnItsWay, Goes, MayFollow, RolledBack
<1>6. \/ proc'[w] = [q EXCEPT !.pc = "return"]
      \/ q.mem.status = "compensating" /\ proc'[w] = Persist(q, q.mem, "compensate")
      \/ /\ q.mem.status # "compensating"
         /\ \E frame \in Frame : proc'[w] = PersistThen(Push(q, frame), m)
  <2> DEFINE frame == NewFrame(<<>>, Root, ResumeIndex(Root, q.mem.currentPath, 1),
                               q.mem.currentPath)
  <2>1. frame \in Frame
    <3>1. <<>> \in Path /\ q.mem.currentPath \in Path
      BY <1>1 DEF RunState, Path
    <3>2. QED
      BY <3>1, FrameType, ResumeIndexType, DefinitionAssumption
  <2>2. \/ proc'[w] = [q EXCEPT !.pc = "return"]
        \/ q.mem.status = "compensating" /\ proc'[w] = Persist(q, q.mem, "compensate")
        \/ q.mem.status # "compensating" /\ proc'[w] = PersistThen(Push(q, frame), m)
    BY <1>1 DEF Start, Local, Set
  <2> HIDE DEF frame
  <2>3. QED
    BY <2>1, <2>2
<1>7. QED
  BY <1>3, <1>4, <1>5, <1>6

\* The error path: whatever it passes through, a rollback goes on.
LEMMA UnwindMoves ==
  ASSUME NEW q \in Call, NEW p \in Call, q.pc \in {"raise", "compensate"}, Alike(q.mem, p.mem),
         p.mem.completed = q.mem.completed
  PROVE  /\ Moves(q, Unwind(p))
         /\ \A m : Alike([q.mem EXCEPT !.failedStepPath = m.failedStepPath], m)
                   /\ m.completed = q.mem.completed => Moves(q, PersistThen(Unwind(p), m))
<1>1. q.mem \in RunState /\ q.mem.compensationIndex \in Int
  <2>1. q.mem \in RunState
    BY DEF Call
  <2>2. QED
    BY <2>1 DEF RunState
<1>2. Unwind(p).pc \in {"raise", "return"} /\ Unwind(p).mem = p.mem
  BY UnwindIs
<1>3. Moves(q, Unwind(p))
  BY <1>1, <1>2 DEF Moves, OnItsWay, Goes, MayFollow, Alike
<1>4. ASSUME NEW m, Alike([q.mem EXCEPT !.failedStepPath = m.failedStepPath], m),
             m.completed = q.mem.completed
      PROVE  Moves(q, PersistThen(Unwind(p), m))
  <2>1. /\ m.status = q.mem.status /\ m.revision = q.mem.revision
        /\ m.compensationIndex = q.mem.compensationIndex
    BY <1>1, <1>4 DEF Alike, RunState
  <2>2. /\ PersistThen(Unwind(p), m).pc = "snapshot" /\ PersistThen(Unwind(p), m).mem = m
        /\ PersistThen(Unwind(p), m).next \in {"raise", "return"}
    BY <1>2, UnwindType, PersistThenIs
  <2>3. QED
    BY <2>1, <2>2, <1>1, <1>4 DEF Moves, OnItsWay, Goes, MayFollow
<1>5. QED
  BY <1>3, <1>4

\* The error path begins a rollback or leaves one as it is.
LEMMA RaiseMoves ==
  ASSUME TypeOK, NEW w \in Worker,
         RaiseCancelled(w) \/ Propagate(w) \/ RaiseNoCompensate(w) \/ RaiseFailure(w)
  PROVE  Moves(proc[w], proc'[w])
<1> DEFINE q == proc[w]
<1>1. q \in Call /\ q.mem \in RunState /\ proc \in [Worker -> Call]
  BY MemType DEF TypeOK
<1>2. q.pc = "raise" /\ StepPath(q) \in Path
  <2>1. At(q, "raise")
    BY DEF RaiseCancelled, Propagate, RaiseNoCompensate, RaiseFailure
  <2>2. QED
    BY <2>1, <1>1, AtType DEF At
<1>3. CASE RaiseCancelled(w)
  <2> DEFINE p == [q EXCEPT !.mem.currentPath = StepPath(q),
                            !.err = [kind |-> "context", path |-> <<>>]]
  <2>1. proc'[w] = Unwind(p)
    BY <1>1, <1>3 DEF RaiseCancelled, Local, Set
  <2>2. p \in Call
    BY <1>1, <1>2, ContextType
  <2>3. Alike(q.mem, p.mem) /\ p.mem.completed = q.mem.completed
    BY <1>1 DEF Call, RunState, Alike
  <2> HIDE DEF p
  <2>4. QED
    BY <2>1, <2>2, <2>3, <1>1, <1>2, UnwindMoves
<1>4. CASE Propagate(w)
  <2>1. proc'[w] = Unwind(q)
    BY <1>1, <1>4 DEF Propagate, Local, Set
  <2>2. QED
    BY <2>1, <1>1, <1>2, AlikeIs, UnwindMoves
<1>5. CASE RaiseNoCompensate(w)
  <2> DEFINE m == [q.mem EXCEPT !.failedStepPath = StepPath(q)]
  <2>1. proc'[w] = PersistThen(Unwind(q), m)
    BY <1>1, <1>5 DEF RaiseNoCompensate, Local, Set
  <2>2. /\ Alike([q.mem EXCEPT !.failedStepPath = m.failedStepPath], m)
        /\ m.completed = q.mem.completed
    BY <1>1 DEF Alike, RunState
  <2> HIDE DEF m
  <2>3. QED
    BY <2>1, <2>2, <1>1, <1>2, AlikeIs, UnwindMoves
<1>6. CASE RaiseFailure(w)
  <2> DEFINE m == [q.mem EXCEPT !.failedStepPath = StepPath(q),
                                !.status = "compensating",
                                !.compensationIndex = Len(q.mem.completed) - 1,
                                !.repeatTimeout = @ \/ q.err.kind = "timeout"]
  <2>1. proc'[w] = Persist(q, m, "compensate") /\ q.mem.status = "running"
    BY <1>1, <1>6 DEF RaiseFailure, HandledBelow, Local, Set
  <2>2. /\ m.status = "compensating" /\ m.revision = q.mem.revision
        /\ m.compensationIndex = Len(q.mem.completed) - 1
    BY <1>1 DEF RunState
  <2>3. Len(q.mem.completed) \in Nat
    <3>1. q.mem.completed \in Seq(Completion)
      BY <1>1 DEF RunState
    <3>2. QED
      BY <3>1
  <2>4. m.compensationIndex >= -1
    BY <2>2, <2>3
  <2> HIDE DEF m
  <2>5. proc'[w].pc = "snapshot" /\ proc'[w].next = "compensate" /\ proc'[w].mem = m
    BY <2>1, <1>1, PersistIs
  <2>6. QED
    BY <2>1, <2>2, <2>4, <2>5, <1>2 DEF Moves, OnItsWay, Goes, MayFollow, RolledBack
<1>7. QED
  BY <1>3, <1>4, <1>5, <1>6

\* The compensation goes down, and ends in failure.
LEMMA CompensationMoves ==
  ASSUME TypeOK, NEW w \in Worker,
         \/ SkipCompensation(w) \/ CompensationCancelled(w) \/ CompensationDone(w)
         \/ \E o \in {"ok", "error", "retryafter", "context"} : Compensate(w, o)
  PROVE  Moves(proc[w], proc'[w])
<1> DEFINE q == proc[w]
           down == [q.mem EXCEPT !.compensationIndex = @ - 1]
<1>1. q \in Call /\ q.mem \in RunState /\ proc \in [Worker -> Call]
  BY MemType DEF TypeOK
<1>2. q.pc = "compensate"
  BY DEF SkipCompensation, CompensationCancelled, CompensationDone, Compensate, AtCompletion
<1>3. q.mem.compensationIndex \in Int /\ q.mem.completed \in Seq(Completion)
  BY <1>1 DEF RunState
<1>4. /\ Alike(q.mem, q.mem)
      /\ Alike([q.mem EXCEPT !.failedStepPath = q.mem.failedStepPath], q.mem)
  BY <1>1 DEF Alike, RunState
<1>5. AtCompletion(q) =>
        /\ down.compensationIndex = q.mem.compensationIndex - 1 /\ down.compensationIndex >= -1
        /\ down.compensationIndex <= q.mem.compensationIndex
        /\ down.status = q.mem.status /\ down.revision = q.mem.revision
        /\ down.completed = q.mem.completed
  <2>1. DOMAIN q.mem.completed \subseteq Nat \ {0}
    BY <1>3
  <2>2. AtCompletion(q) => q.mem.compensationIndex >= 0
    BY <2>1, <1>3 DEF AtCompletion
  <2>3. QED
    BY <2>2, <1>1, <1>3 DEF RunState
<1>6. CASE SkipCompensation(w)
  <2>1. proc'[w] = [q EXCEPT !.mem.compensationIndex = @ - 1] /\ AtCompletion(q)
    BY <1>1, <1>6 DEF SkipCompensation, Local, Set
  <2>2. proc'[w].pc = "compensate" /\ proc'[w].mem = down
    BY <2>1, <1>1, <1>2 DEF Call
  <2> HIDE DEF down
  <2>3. QED
    BY <2>1, <2>2, <1>2, <1>5 DEF Moves, OnItsWay, Goes, MayFollow
<1>7. CASE CompensationCancelled(w)
  <2> DEFINE p == [q EXCEPT !.err = [kind |-> "context", path |-> <<>>]]
  <2>1. proc'[w] = Unwind(p)
    BY <1>1, <1>7 DEF CompensationCancelled, Local, Set
  <2>2. p \in Call /\ p.mem = q.mem
    BY <1>1, ContextType DEF Call
  <2> HIDE DEF p
  <2>3. QED
    BY <2>1, <2>2, <1>1, <1>2, <1>4, UnwindMoves
<1>8. ASSUME NEW o \in {"ok", "error", "retryafter", "context"}, Compensate(w, o)
      PROVE  Moves(q, proc'[w])
  <2> DEFINE p == [q EXCEPT !.err = [kind |-> "compensation", path |-> <<>>]]
             c == [q EXCEPT !.cancelled = TRUE, !.err = [kind |-> "context", path |-> <<>>]]
  <2>1. \/ proc'[w] = Persist(q, down, "compensate") /\ AtCompletion(q)
        \/ proc'[w] = Persist(q, q.mem, "return")
        \/ proc'[w] = PersistThen(Unwind(p), q.mem)
        \/ proc'[w] = Unwind(c)
    BY <1>1, <1>8 DEF Compensate, Set
  <2>2. p \in Call /\ p.mem = q.mem /\ c \in Call /\ c.mem = q.mem
    BY <1>1, ContextType DEF Call
  <2> HIDE DEF p, c, down
  <2>3. CASE proc'[w] = Persist(q, down, "compensate") /\ AtCompletion(q)
    BY <2>3, <1>1, <1>2, <1>5, PersistIs DEF Moves, OnItsWay, Goes, MayFollow
  <2>4. CASE proc'[w] = Persist(q, q.mem, "return")
    BY <2>4, <1>1, <1>2, <1>3, PersistIs DEF Moves, OnItsWay, Goes, MayFollow
  <2>5. CASE proc'[w] = PersistThen(Unwind(p), q.mem)
    BY <2>5, <2>2, <1>1, <1>2, <1>4, UnwindMoves
  <2>6. CASE proc'[w] = Unwind(c)
    BY <2>6, <2>2, <1>1, <1>2, <1>4, UnwindMoves
  <2>7. QED
    BY <2>1, <2>3, <2>4, <2>5, <2>6
<1>9. CASE CompensationDone(w)
  <2> DEFINE m == [q.mem EXCEPT !.status = "failed", !.compensationIndex = -1]
             p == [q EXCEPT !.stack = <<>>]
  <2>1. proc'[w] = Persist(p, m, "return") /\ q.mem.compensationIndex < 0
    BY <1>1, <1>9 DEF CompensationDone, Local, Set
  <2>2. p \in Call
    BY <1>1, NewRunType DEF Call, NoCall
  <2>3. /\ m.status = "failed" /\ m.compensationIndex = -1 /\ m.revision = q.mem.revision
        /\ m.completed = q.mem.completed
    BY <1>1 DEF RunState
  <2> HIDE DEF p, m
  <2>4. proc'[w].pc = "snapshot" /\ proc'[w].next = "return" /\ proc'[w].mem = m
    BY <2>1, <2>2, PersistIs
  <2>5. OnItsWay(q) => q.mem.compensationIndex = -1
    BY <2>1, <1>3 DEF OnItsWay
  <2>6. QED
    BY <2>3, <2>4, <2>5, <1>2 DEF Moves, OnItsWay, Goes, MayFollow, RolledBack
<1>10. QED
  BY <1>6, <1>7, <1>8, <1>9

\* Writes are guarded: the storage compares revisions, or nobody else writes.
Guarded == Alone \/ (Mode = "cas" /\ ~CallerSaves)

\* A write of the state of w, after which w is idle or continues from it.
LEMMA WriteKeepsLineage ==
  ASSUME Guarded, TypeOK, TypeOK', Lineage, NEW w \in Worker, proc[w].pc # "idle",
         \A v \in Worker \ {w} : proc'[v] = proc[v],
         Mode = "cas" /\ ~CallerSaves => store.revision < store'.revision,
         store'.compensationIndex >= -1,
         proc'[w].pc = "idle" \/ (OnItsWay(proc'[w]) /\ proc'[w].mem = store')
  PROVE  Lineage'
<1>1. store \in RunState /\ store' \in RunState
  BY DEF TypeOK
<1>2. /\ store.revision \in Nat /\ store'.revision \in Nat
      /\ \A v \in Worker : proc[v].mem.revision \in Nat
  BY DEF TypeOK, RunState, Call
<1>3. ASSUME NEW v \in Worker, proc'[v].pc # "idle"
      PROVE  /\ OnItsWay(proc'[v])
             /\ Mode = "cas" /\ ~CallerSaves => proc'[v].mem.revision <= store'.revision
             /\ Fresh(v)' => MayFollow(store', proc'[v].mem)
  <2>1. CASE v # w
    <3>1. proc'[v] = proc[v] /\ ~Alone /\ Mode = "cas" /\ ~CallerSaves
      BY <2>1 DEF Guarded, Alone
    <3>2. OnItsWay(proc[v]) /\ proc[v].mem.revision <= store.revision
      BY <1>3, <3>1 DEF Lineage
    <3>3. proc'[v].mem.revision < store'.revision
      BY <3>1, <3>2, <1>2
    <3>4. ~Fresh(v)'
      BY <3>1, <3>3, <1>2 DEF Fresh, Alone
    <3>5. QED
      BY <3>1, <3>2, <3>3, <3>4, <1>2
  <2>2. CASE v = w
    <3>1. OnItsWay(proc'[v]) /\ proc'[v].mem = store'
      BY <2>2, <1>3
    <3>2. MayFollow(store', store')
      BY <1>1, FollowOrder
    <3>3. QED
      BY <3>1, <3>2, <1>2
  <2>3. QED
    BY <2>1, <2>2
<1>4. QED
  BY <1>3 DEF Lineage

\* A call that has just loaded the state is not behind it.
LEMMA LoadKeepsLineage ==
  ASSUME TypeOK, Lineage, NEW w \in Worker, Load(w)
  PROVE  Lineage'
<1> DEFINE n == [NoCall EXCEPT !.pc = "start", !.mem = store]
<1>1. store' = store /\ proc' = [proc EXCEPT ![w] = n] /\ proc \in [Worker -> Call]
  BY DEF Load, Set, TypeOK
<1>2. n.pc = "start" /\ n.mem = store
  BY DEF NoCall
<1>3. store \in RunState /\ store.revision \in Nat
  BY DEF TypeOK, RunState
<1>4. OnItsWay(n)
  BY <1>2 DEF Load, IsTerminal, Lineage, OnItsWay, Goes
<1>5. MayFollow(store, store)
  BY <1>3, FollowOrder
<1> HIDE DEF n
<1>6. ASSUME NEW v \in Worker, proc'[v].pc # "idle"
      PROVE  /\ OnItsWay(proc'[v])
             /\ Mode = "cas" /\ ~CallerSaves => proc'[v].mem.revision <= store'.revision
             /\ Fresh(v)' => MayFollow(store', proc'[v].mem)
  <2>1. CASE v = w
    BY <2>1, <1>1, <1>2, <1>3, <1>4, <1>5
  <2>2. CASE v # w
    BY <2>2, <1>1, <1>6 DEF Lineage, Fresh
  <2>3. QED
    BY <2>1, <2>2
<1>7. QED
  BY <1>1, <1>6 DEF Lineage

\* A write that succeeds leaves behind only calls whose writes will fail.
LEMMA SnapshotKeepsLineage ==
  ASSUME Guarded, TypeOK, TypeOK', Lineage, NEW w \in Worker,
         SnapshotOK(w) \/ SnapshotFailed(w) \/ SnapshotAckLost(w)
  PROVE  Lineage'
<1> DEFINE q == proc[w]
           m == Written(q.mem)
<1>1. q \in Call /\ q.mem \in RunState /\ proc \in [Worker -> Call]
  BY MemType DEF TypeOK
<1>2. q.pc = "snapshot" /\ OnItsWay(q)
  BY DEF SnapshotOK, SnapshotFailed, SnapshotAckLost, Lineage
<1>3. /\ m.revision = q.mem.revision + 1 /\ m.status = q.mem.status
      /\ m.compensationIndex = q.mem.compensationIndex
  BY <1>1 DEF Written, RunState
<1>4. /\ NoCall.pc = "idle"
      /\ store.revision \in Nat
      /\ m.compensationIndex >= -1
  BY <1>2, <1>3 DEF NoCall, TypeOK, RunState, OnItsWay
<1>5. Accepts(q.mem) /\ Mode = "cas" => store.revision < m.revision
  BY <1>3, <1>4 DEF Accepts
<1>6. \A v \in Worker \ {w} : proc'[v] = proc[v]
  BY <1>1 DEF SnapshotOK, SnapshotFailed, SnapshotAckLost, Local, Set
<1> HIDE DEF m
<1>7. CASE SnapshotOK(w) /\ Mode = "none"
  <2>1. proc'[w] = [q EXCEPT !.pc = q.next] /\ store' = store
    BY <1>1, <1>7 DEF SnapshotOK, Set
  <2>2. proc'[w].pc = q.next /\ proc'[w].mem = q.mem /\ proc'[w].next = q.next
    BY <2>1, <1>1, GotoIs
  <2>3. MayFollow(q.mem, q.mem)
    BY <1>1, FollowOrder
  <2>4. OnItsWay(proc'[w])
    BY <2>2, <1>2 DEF OnItsWay, Goes
  <2>5. Moves(q, proc'[w])
    BY <2>2, <2>3, <2>4, <1>2 DEF Moves
  <2>6. QED
    BY <2>1, <2>5, <1>6, MoveKeepsLineage
<1>8. CASE SnapshotOK(w) /\ Mode # "none"
  <2>1. /\ proc'[w] = [q EXCEPT !.pc = q.next, !.mem = m]
        /\ store' = m /\ Accepts(q.mem)
    BY <1>1, <1>8 DEF SnapshotOK, Set, m
  <2>2. proc'[w].pc = q.next /\ proc'[w].mem = m /\ proc'[w].next = q.next
    BY <2>1, <1>1 DEF Call
  <2>3. OnItsWay(proc'[w])
    BY <2>2, <1>2, <1>3 DEF OnItsWay, Goes
  <2>4. QED
    BY <2>1, <2>2, <2>3, <1>2, <1>4, <1>5, <1>6, WriteKeepsLineage
<1>9. CASE SnapshotFailed(w)
  <2>1. proc'[w].pc = "idle" /\ store' = store
    BY <1>1, <1>4, <1>9 DEF SnapshotFailed, Local, Set
  <2>2. QED
    BY <2>1, <1>2, <1>6, MoveKeepsLineage DEF Moves
<1>10. CASE SnapshotAckLost(w)
  <2>1. proc'[w].pc = "idle" /\ store' = m /\ Accepts(q.mem)
    BY <1>1, <1>4, <1>10 DEF SnapshotAckLost, Set, m
  <2>2. QED
    BY <2>1, <1>2, <1>4, <1>5, <1>6, WriteKeepsLineage
<1>11. QED
  BY <1>7, <1>8, <1>9, <1>10

\* The end of a call, by return or crash, keeps the lineage.
LEMMA EndKeepsLineage ==
  ASSUME Guarded, TypeOK, TypeOK', Lineage, NEW w \in Worker,
         Return(w) \/ Crash(w) \/ Cancel(w)
  PROVE  Lineage'
<1> DEFINE q == proc[w]
<1>1. q \in Call /\ q.mem \in RunState /\ proc \in [Worker -> Call] /\ NoCall.pc = "idle"
  BY MemType DEF TypeOK, NoCall
<1>2. q.pc # "idle" /\ OnItsWay(q)
  BY DEF Return, Crash, Cancel, Lineage
<1>3. \A v \in Worker \ {w} : proc'[v] = proc[v]
  BY <1>1 DEF Return, Crash, Cancel, Local, Set
<1>4. CASE Return(w) /\ CallerSaves
  <2>1. proc'[w].pc = "idle" /\ store' = q.mem
    BY <1>1, <1>4 DEF Return, Set
  <2>2. QED
    BY <2>1, <1>2, <1>3, <1>4, WriteKeepsLineage DEF OnItsWay
<1>5. CASE (Return(w) /\ ~CallerSaves) \/ Crash(w)
  <2>1. proc'[w].pc = "idle" /\ store' = store
    BY <1>1, <1>5 DEF Return, Crash, Local, Set
  <2>2. QED
    BY <2>1, <1>2, <1>3, MoveKeepsLineage DEF Moves
<1>6. CASE Cancel(w)
  <2>1. proc'[w] = [q EXCEPT !.cancelled = TRUE] /\ store' = store
    BY <1>1, <1>6 DEF Cancel, Local, Set
  <2>2. proc'[w].pc = q.pc /\ proc'[w].next = q.next /\ proc'[w].mem = q.mem
    BY <2>1, <1>1 DEF Call
  <2>3. MayFollow(q.mem, q.mem)
    BY <1>1, FollowOrder
  <2>4. Moves(q, proc'[w])
    BY <2>2, <2>3, <1>2 DEF Moves, OnItsWay, Goes
  <2>5. QED
    BY <2>1, <2>4, <1>3, MoveKeepsLineage
<1>7. QED
  BY <1>4, <1>5, <1>6

\* Lineage is inductive.
LEMMA StepKeepsLineage ==
  ASSUME Guarded, TypeOK, Lineage, [Next]_vars
  PROVE  Lineage'
<1>1. TypeOK'
  BY StepPreservesType
<1>2. ASSUME NEW w \in Worker, Moves(proc[w], proc'[w]), store' = store,
             \E n : Set(w, n)
      PROVE  Lineage'
  <2>1. \A v \in Worker \ {w} : proc'[v] = proc[v]
    BY <1>2 DEF Set, TypeOK
  <2>2. QED
    BY <2>1, <1>1, <1>2, MoveKeepsLineage
<1>3. ASSUME NEW w \in Worker, WorkerStep(w) PROVE Lineage'
  <2>1. CASE Start(w)
    BY <2>1, <1>2, StartMoves DEF Start, Local
  <2>2. CASE SnapshotOK(w) \/ SnapshotFailed(w)
    BY <2>2, <1>1, SnapshotKeepsLineage
  <2>3. CASE SkipCompleted(w) \/ StopCancelled(w) \/ EnterStep(w) \/ ScopeDone(w)
    BY <2>3, <1>2, StepsAhead, AheadMoves
       DEF SkipCompleted, StopCancelled, EnterStep, ScopeDone, Local
  <2>4. CASE \/ EnsureRepeatStarted(w) \/ CheckRepeatTimeout(w)
             \/ \E o \in Outcome : OnEnter(w, o)
    BY <2>4, <1>2, PrologueAhead, AheadMoves
       DEF EnsureRepeatStarted, CheckRepeatTimeout, OnEnter, Local
  <2>5. CASE (\E o \in Outcome : Do(w, o)) \/ Sleep(w)
    BY <2>5, <1>2, ActionAhead, AheadMoves DEF Do, Sleep, Local
  <2>6. CASE PollTimeout(w) \/ \E o \in Outcome \cup {"pending"} : Check(w, o)
    BY <2>6, <1>2, PollAhead, AheadMoves DEF PollTimeout, Check, Local
  <2>7. CASE \/ ResumeBranch(w) \/ \E key \in Key : Decide(w, key)
             \/ \E o \in Outcome : DecideFailed(w, o)
    BY <2>7, <1>2, BranchAhead, AheadMoves DEF ResumeBranch, Decide, DecideFailed, Local
  <2>8. CASE \/ BeginIteration(w) \/ UntilTimeout(w)
             \/ \E o \in Outcome \cup {"more"} : Until(w, o)
    BY <2>8, <1>2, RepeatAhead, AheadMoves DEF BeginIteration, UntilTimeout, Until, Local
  <2>9. CASE RaiseCancelled(w) \/ Propagate(w) \/ RaiseNoCompensate(w) \/ RaiseFailure(w)
    BY <2>9, <1>2, RaiseMoves
       DEF RaiseCancelled, Propagate, RaiseNoCompensate, RaiseFailure, Local
  <2>10. CASE \/ SkipCompensation(w) \/ CompensationCancelled(w) \/ CompensationDone(w)
              \/ \E o \in {"ok", "error", "retryafter", "context"} : Compensate(w, o)
    BY <2>10, <1>2, CompensationMoves
       DEF SkipCompensation, CompensationCancelled, CompensationDone, Compensate, Local
  <2>11. CASE Return(w)
    BY <2>11, <1>1, EndKeepsLineage
  <2>12. QED
    BY <1>3, <2>1, <2>2, <2>3, <2>4, <2>5, <2>6, <2>7, <2>8, <2>9, <2>10, <2>11 DEF WorkerStep
<1>4. ASSUME NEW w \in Worker, Load(w) \/ SnapshotAckLost(w) \/ Crash(w) \/ Cancel(w)
      PROVE  Lineage'
  BY <1>1, <1>4, LoadKeepsLineage, SnapshotKeepsLineage, EndKeepsLineage
<1>5. CASE Tick \/ UNCHANGED vars
  BY <1>5 DEF Tick, vars, Lineage, Fresh
<1>6. QED
  BY <1>3, <1>4, <1>5 DEF Next, Terminated

\* Only the write of a snapshot and the caller change the durable state, and
\* only the Do callback adds to the effects.
LEMMA WhoWrites ==
  ASSUME [Next]_vars
  PROVE  /\ \/ store' = store
            \/ \E w \in Worker : \/ SnapshotOK(w) /\ Mode # "none"
                                 \/ SnapshotAckLost(w)
                                 \/ Return(w) /\ CallerSaves
         /\ \/ world' \subseteq world
            \/ \E w \in Worker : proc[w].pc = "call"
<1>1. ASSUME NEW w \in Worker, WorkerStep(w), ~Return(w), ~SnapshotOK(w) PROVE store' = store
  BY <1>1 DEF WorkerStep, Start, SnapshotFailed, SkipCompleted, StopCancelled, EnterStep,
     ScopeDone, EnsureRepeatStarted, CheckRepeatTimeout, OnEnter, Do, Sleep, PollTimeout,
     Check, ResumeBranch, Decide, DecideFailed, BeginIteration, Until, UntilTimeout,
     RaiseCancelled, Propagate, RaiseNoCompensate, RaiseFailure, SkipCompensation,
     CompensationCancelled, CompensationDone, Compensate, Local
<1>2. ASSUME NEW w \in Worker, WorkerStep(w) PROVE world' \subseteq world \/ proc[w].pc = "call"
  BY <1>2 DEF WorkerStep, Start, SnapshotFailed, SkipCompleted, StopCancelled, EnterStep,
     ScopeDone, EnsureRepeatStarted, CheckRepeatTimeout, OnEnter, Do, Sleep, PollTimeout,
     Check, ResumeBranch, Decide, DecideFailed, BeginIteration, Until, UntilTimeout,
     RaiseCancelled, Propagate, RaiseNoCompensate, RaiseFailure, SkipCompensation,
     CompensationCancelled, CompensationDone, Compensate, Local, At, SnapshotOK, Return
<1>3. ASSUME NEW w \in Worker, Load(w) \/ Crash(w) \/ Cancel(w) \/ SnapshotAckLost(w)
      PROVE  /\ store' = store \/ SnapshotAckLost(w)
             /\ world' \subseteq world
  BY <1>3 DEF Load, Crash, Cancel, SnapshotAckLost, Local
<1>4. ASSUME NEW w \in Worker, SnapshotOK(w) \/ Return(w)
      PROVE  store' = store \/ (SnapshotOK(w) /\ Mode # "none") \/ (Return(w) /\ CallerSaves)
  BY <1>4 DEF SnapshotOK, Return
<1>5. Tick \/ UNCHANGED vars => store' = store /\ world' = world
  BY DEF Tick, vars
<1>6. QED
  BY <1>1, <1>2, <1>3, <1>4, <1>5 DEF Next, Terminated

\* Every change of the durable state may follow it.
LEMMA WriteFollows ==
  ASSUME Guarded, TypeOK, Lineage, [Next]_vars
  PROVE  MayFollow(store, store')
<1>1. store \in RunState
  BY DEF TypeOK
<1>2. CASE store' = store
  BY <1>1, <1>2, FollowOrder
<1>3. ASSUME NEW w \in Worker, (SnapshotOK(w) /\ Mode # "none") \/ SnapshotAckLost(w)
      PROVE  MayFollow(store, store')
  <2>1. /\ store' = Written(proc[w].mem) /\ Accepts(proc[w].mem) /\ proc[w].pc = "snapshot"
    BY <1>3 DEF SnapshotOK, SnapshotAckLost
  <2>2. Fresh(w)
    BY <2>1 DEF Guarded, Fresh, Accepts
  <2>3. MayFollow(store, proc[w].mem)
    BY <2>1, <2>2 DEF Lineage
  <2>4. proc[w].mem \in RunState
    BY DEF TypeOK, Call
  <2>5. /\ store'.status = proc[w].mem.status /\ store'.completed = proc[w].mem.completed
        /\ store'.compensationIndex = proc[w].mem.compensationIndex
    BY <2>1, <2>4 DEF Written, RunState
  <2>6. QED
    BY <2>3, <2>5 DEF MayFollow
<1>4. ASSUME NEW w \in Worker, Return(w) /\ CallerSaves PROVE MayFollow(store, store')
  <2>1. store' = proc[w].mem /\ proc[w].pc = "return" /\ Fresh(w)
    BY <1>4 DEF Return, Guarded, Fresh
  <2>2. QED
    BY <2>1 DEF Lineage
<1>5. QED
  BY <1>2, <1>3, <1>4, WhoWrites

\* Initially no call holds a state.
LEMMA InitLineage == Init => Lineage
BY DEF Init, Lineage, NewRun, NoCall

\* What a worker holds in memory descends from the durable state: the invariant
\* behind the theorems below.
THEOREM LineageHolds ==
  ASSUME Guarded
  PROVE  Spec => []Lineage
<1>1. TypeOK /\ Lineage /\ [Next]_vars => Lineage'
  BY StepKeepsLineage
<1>2. QED
  BY <1>1, InitLineage, TypeCorrect, PTL DEF Spec

\* A rollback, once durable, is final, with any number of workers that write
\* with compare-and-swap, or with one worker.
THEOREM RollbackFinal ==
  ASSUME Guarded
  PROVE  Spec => RollbackIsFinal
<1>1. TypeOK /\ Lineage /\ [Next]_vars => [MayFollow(store, store')]_vars
  BY WriteFollows
<1>2. QED
  BY <1>1, TypeCorrect, LineageHolds, PTL DEF Spec, RollbackIsFinal

\* A lone worker executes no action once the decision to roll back is durable.
THEOREM NoForward ==
  ASSUME Alone
  PROVE  Spec => NoForwardAfterRollback
<1>1. Lineage /\ [Next]_vars =>
        [store.status \in RolledBack => world' \subseteq world]_vars
  <2>1. SUFFICES ASSUME Lineage, [Next]_vars, store.status \in RolledBack
                 PROVE  world' \subseteq world
    OBVIOUS
  <2>2. ASSUME NEW w \in Worker, proc[w].pc = "call" PROVE FALSE
    <3>1. Fresh(w) /\ proc[w].pc # "idle"
      BY <2>2 DEF Fresh
    <3>2. OnItsWay(proc[w]) /\ MayFollow(store, proc[w].mem)
      BY <2>1, <3>1 DEF Lineage
    <3>3. proc[w].mem.status \in RolledBack
      BY <2>1, <3>2 DEF MayFollow
    <3>4. QED
      BY <3>2, <3>3, <2>2 DEF OnItsWay, Goes
  <2>3. QED
    BY <2>1, <2>2, WhoWrites
<1>2. Guarded
  BY DEF Guarded
<1>3. QED
  BY <1>1, <1>2, LineageHolds, PTL DEF Spec, NoForwardAfterRollback
-----------------------------------------------------------------------------
(* Stacks.                                                                 *)

\* Frames stay nested when the innermost one returns.
LEMMA NestedTail ==
  ASSUME NEW st \in Seq(Frame), st # <<>>, Nested(st)
  PROVE  Nested(Tail(st))
<1>1. Len(Tail(st)) = Len(st) - 1 /\ \A k \in 1..Len(Tail(st)) : Tail(st)[k] = st[k + 1]
  OBVIOUS
<1>2. Len(st) \in Nat
  OBVIOUS
<1>3. ASSUME NEW k \in 1..(Len(Tail(st)) - 1)
      PROVE  Len(Tail(st)[k].base) > Len(Tail(st)[k + 1].base)
  <2>1. k + 1 \in 1..(Len(st) - 1) /\ k \in 1..Len(Tail(st)) /\ k + 1 \in 1..Len(Tail(st))
    BY <1>1, <1>2
  <2>2. Len(st[k + 1].base) > Len(st[(k + 1) + 1].base)
    BY <2>1 DEF Nested
  <2>3. QED
    BY <1>1, <2>1, <2>2
<1>4. QED
  BY <1>3 DEF Nested

\* Frames stay nested when a deeper one is pushed.
LEMMA NestedPush ==
  ASSUME NEW st \in Seq(Frame), Nested(st), NEW frame \in Frame,
         st # <<>> => Len(frame.base) > Len(Head(st).base)
  PROVE  Nested(<<frame>> \o st)
<1> DEFINE up == <<frame>> \o st
<1>1. /\ Len(up) = Len(st) + 1 /\ up[1] = frame
      /\ \A k \in 1..Len(st) : up[k + 1] = st[k]
      /\ Len(st) \in Nat /\ (Len(st) > 0 => st # <<>> /\ Head(st) = st[1])
  OBVIOUS
<1> HIDE DEF up
<1>2. ASSUME NEW k \in 1..(Len(up) - 1) PROVE Len(up[k].base) > Len(up[k + 1].base)
  <2>1. CASE k = 1
    <3>1. up[1 + 1] = st[1] /\ up[1] = frame /\ Len(st) > 0
      BY <2>1, <1>1
    <3>2. QED
      BY <2>1, <3>1, <1>1
  <2>2. CASE k # 1
    <3>1. k - 1 \in 1..(Len(st) - 1) /\ k - 1 \in 1..Len(st) /\ k \in 1..Len(st)
      BY <2>2, <1>1
    <3>2. up[(k - 1) + 1] = st[k - 1] /\ up[k + 1] = st[k] /\ (k - 1) + 1 = k
      BY <3>1, <1>1
    <3>3. Len(st[k - 1].base) > Len(st[(k - 1) + 1].base)
      BY <3>1 DEF Nested
    <3>4. QED
      BY <3>2, <3>3
  <2>3. QED
    BY <2>1, <2>2
<1>3. QED
  BY <1>2 DEF Nested, up

\* Frames stay nested when the innermost one goes on to its next step.
LEMMA NestedAdvance ==
  ASSUME NEW q \in Call, q.stack # <<>>, Nested(q.stack)
  PROVE  Nested(Advance(q).stack)
<1> DEFINE f == [q.stack[1] EXCEPT !.i = @ + 1]
           st == [q.stack EXCEPT ![1] = f]
<1>1. q.stack \in Seq(Frame) /\ 1 \in DOMAIN q.stack /\ Len(q.stack) \in Nat
  BY DEF Call
<1>2. q.stack[1] \in Frame
  BY <1>1
<1>3. f.base = q.stack[1].base
  BY <1>2 DEF Frame
<1>4. Advance(q).stack = st
  BY DEF Advance, Call
<1> HIDE DEF f
<1>5. Len(st) = Len(q.stack) /\ \A k \in 1..Len(q.stack) : st[k].base = q.stack[k].base
  BY <1>1, <1>3
<1> HIDE DEF st
<1>6. ASSUME NEW k \in 1..(Len(st) - 1) PROVE Len(st[k].base) > Len(st[k + 1].base)
  <2>1. k \in 1..Len(q.stack) /\ k + 1 \in 1..Len(q.stack) /\ k \in 1..(Len(q.stack) - 1)
    BY <1>1, <1>5
  <2>2. QED
    BY <2>1, <1>5 DEF Nested
<1>7. QED
  BY <1>4, <1>6 DEF Nested

-----------------------------------------------------------------------------
(* The ways in which an action leaves a call.                              *)

\* The call n is past its start, carries no error and does not compensate.
Calm(n) ==
  Nested(n.stack) /\ ~Goes(n, "start") /\ ~Goes(n, "raise") /\ ~Goes(n, "compensate")

\* A call that raises nothing is attributed as long as its frames are nested.
LEMMA CalmAttributed ==
  ASSUME NEW n, Calm(n)
  PROVE  Attributed(n)
BY DEF Calm, Attributed

\* To go to a label of the forward path raises nothing.
LEMMA GotoCalm ==
  ASSUME NEW p \in Call, Nested(p.stack), NEW l \in Forward \cup {"return"}
  PROVE  Calm([p EXCEPT !.pc = l])
BY GotoIs DEF Calm, Goes, Forward

\* To write a snapshot and go on along the forward path raises nothing.
LEMMA PersistCalm ==
  ASSUME NEW p \in Call, Nested(p.stack), NEW m, NEW l \in Forward \cup {"return"}
  PROVE  Calm(Persist(p, m, l))
BY PersistIs DEF Calm, Goes, Forward

\* The same for a call that goes on where it was.
LEMMA PersistThenCalm ==
  ASSUME NEW p \in Call, Nested(p.stack), NEW m, p.pc \in Forward
  PROVE  Calm(PersistThen(p, m))
BY PersistThenIs DEF Calm, Goes, Forward

\* A step that fails is where the error starts.
LEMMA FailAttributed ==
  ASSUME NEW q \in Call, Nested(q.stack), NEW p \in Call, p.stack = q.stack, NEW kind
  PROVE  Attributed(Fail(p, kind, StepPath(q)))
<1> DEFINE n == Fail(p, kind, StepPath(q))
<1>1. n.pc = "raise" /\ n.stack = q.stack /\ n.err.path = StepPath(q)
  BY FailIs
<1>2. StepPath(n) = StepPath(q)
  BY <1>1 DEF StepPath, StepOf, Top
<1> HIDE DEF n
<1>3. Attributed(n)
  BY <1>1, <1>2 DEF Attributed, Goes
<1>4. QED
  BY <1>3 DEF n

\* An error that has started at or below a step starts below the one around it.
LEMMA UnwindAttributed ==
  ASSUME NEW q \in Call, Nested(q.stack),
         q.stack # <<>> /\ ~q.cancelled /\ q.mem.status = "running" =>
           Len(q.err.path) >= Len(Top(q).base) + 1
  PROVE  /\ Attributed(Unwind(q))
         /\ \A m : m.status = q.mem.status => Attributed(PersistThen(Unwind(q), m))
<1> DEFINE n == Unwind(q)
<1>1. q.stack \in Seq(Frame) /\ Len(q.stack) \in Nat /\ n \in Call
  BY UnwindType DEF Call
<1>2. /\ n.mem = q.mem /\ n.err = q.err /\ n.cancelled = q.cancelled
      /\ n.pc \in {"raise", "return"}
  BY UnwindIs
<1>3. CASE Len(q.stack) > 1
  <2>1. n.stack = Tail(q.stack) /\ q.stack # <<>>
    BY <1>1, <1>3 DEF Unwind, Call
  <2>2. Nested(n.stack)
    BY <2>1, <1>1, NestedTail
  <2>3. /\ Top(q) = q.stack[1] /\ Top(n) = q.stack[2]
        /\ Len(Top(q).base) > Len(Top(n).base)
    <3>1. Top(q) = q.stack[1] /\ Top(n) = q.stack[2]
      BY <2>1, <1>1, <1>3 DEF Top
    <3>2. 1 \in 1..(Len(q.stack) - 1) /\ q.stack[1 + 1] = q.stack[2]
      BY <1>1, <1>3
    <3>3. QED
      BY <3>1, <3>2 DEF Nested
  <2>4. Len(Top(q).base) \in Nat /\ Len(Top(n).base) \in Nat /\ Len(q.err.path) \in Nat
    <3>1. Top(q) \in Frame /\ Top(n) \in Frame
      BY <2>3, <1>1, <1>3
    <3>2. Top(q).base \in Path /\ Top(n).base \in Path /\ q.err.path \in Path
      BY <3>1 DEF Frame, Call, Error
    <3>3. QED
      BY <3>2 DEF Path
  <2> HIDE DEF n
  <2>5. ~n.cancelled /\ n.mem.status = "running" => Len(n.err.path) > Len(Top(n).base) + 1
    <3>1. Len(Top(q).base) > Len(Top(n).base)
      BY <2>3
    <3>2. ~n.cancelled /\ n.mem.status = "running" => Len(q.err.path) >= Len(Top(q).base) + 1
      BY <2>1, <1>2
    <3>3. QED
      BY <3>1, <3>2, <2>4, <1>2
  <2>6. Attributed(n)
    BY <2>2, <2>5, <1>2 DEF Attributed, Goes
  <2>7. ASSUME NEW m, m.status = q.mem.status PROVE Attributed(PersistThen(n, m))
    <3> DEFINE o == PersistThen(n, m)
    <3>1. /\ o.pc = "snapshot" /\ o.next = n.pc /\ o.mem = m /\ o.stack = n.stack
          /\ o.err = n.err /\ o.cancelled = n.cancelled
      BY <1>1, PersistThenIs
    <3>2. Top(o) = Top(n)
      BY <3>1 DEF Top
    <3> HIDE DEF o
    <3>3. Attributed(o)
      BY <3>1, <3>2, <2>2, <2>5, <2>7, <1>2 DEF Attributed, Goes
    <3>4. QED
      BY <3>3 DEF o
  <2>8. QED
    BY <2>6, <2>7 DEF n
<1>4. CASE ~(Len(q.stack) > 1)
  <2>1. n.stack = <<>> /\ n.pc = "return"
    BY <1>4 DEF Unwind, Call
  <2>2. Nested(<<>>)
    BY DEF Nested
  <2> HIDE DEF n
  <2>3. Attributed(n)
    BY <2>1, <2>2 DEF Attributed, Goes
  <2>4. ASSUME NEW m PROVE Attributed(PersistThen(n, m))
    <3> DEFINE o == PersistThen(n, m)
    <3>1. o.pc = "snapshot" /\ o.next = n.pc /\ o.stack = n.stack
      BY <1>1, PersistThenIs
    <3> HIDE DEF o
    <3>2. Attributed(o)
      BY <3>1, <2>1, <2>2 DEF Attributed, Goes
    <3>3. QED
      BY <3>2 DEF o
  <2>5. QED
    BY <2>3, <2>4 DEF n
<1>5. QED
  BY <1>3, <1>4

-----------------------------------------------------------------------------
(* The actions.                                                            *)

\* The loop of executeSteps keeps the attribution.
LEMMA StepsAttributed ==
  ASSUME TypeOK, NEW w \in Worker, Attributed(proc[w]),
         SkipCompleted(w) \/ StopCancelled(w) \/ EnterStep(w) \/ ScopeDone(w)
  PROVE  Attributed(proc'[w])
<1> DEFINE q == proc[w]
<1>1. /\ q \in Call /\ q.mem \in RunState /\ proc \in [Worker -> Call]
      /\ q.pc \in Forward /\ q.stack # <<>> /\ Nested(q.stack)
  BY MemType DEF TypeOK, Attributed, SkipCompleted, StopCancelled, EnterStep, ScopeDone, At,
     Forward
<1>2. CASE SkipCompleted(w)
  <2>1. proc'[w] = Advance(q)
    BY <1>1, <1>2 DEF SkipCompleted, Local, Set
  <2>2. Nested(proc'[w].stack) /\ proc'[w].pc \in Forward
    BY <2>1, <1>1, NestedAdvance, AdvanceIs
  <2>3. QED
    BY <2>2, CalmAttributed DEF Calm, Goes, Forward
<1>3. CASE StopCancelled(w)
  <2> DEFINE p == [q EXCEPT !.mem.currentPath = StepPath(q),
                            !.err = [kind |-> "context", path |-> <<>>]]
  <2>1. proc'[w] = Unwind(p) /\ q.cancelled
    BY <1>1, <1>3 DEF StopCancelled, Local, Set
  <2>2. StepPath(q) \in Path
    BY <1>1, <1>3, AtType DEF StopCancelled
  <2>3. p \in Call /\ p.stack = q.stack /\ p.cancelled = q.cancelled
    BY <1>1, <2>2, ContextType DEF Call
  <2> HIDE DEF p
  <2>4. QED
    BY <2>1, <2>3, <1>1, UnwindAttributed
<1>4. CASE EnterStep(w)
  <2> DEFINE deeper == Top(q).i = Top(q).start /\ IsStrictPrefix(StepPath(q), Top(q).resume)
             path == IF deeper THEN Top(q).resume ELSE StepPath(q)
             n == [q EXCEPT !.mem.currentPath = path, !.attempt = 0, !.pc = Prologue(StepOf(q))]
  <2>1. proc'[w] = n
    BY <1>1, <1>4 DEF EnterStep, Local, Set
  <2> HIDE DEF path
  <2>2. n.pc \in Forward /\ n.stack = q.stack
    BY <1>1 DEF Call, Prologue, Dispatch, Forward
  <2> HIDE DEF n
  <2>3. QED
    BY <2>1, <2>2, <1>1, CalmAttributed DEF Calm, Goes, Forward
<1>5. CASE ScopeDone(w)
  <2> DEFINE up == [q EXCEPT !.stack = Tail(@)]
             r == RepeatAt(q.mem, StepPath(up))
             done == Persist([q EXCEPT !.stack = <<>>], [q.mem EXCEPT !.status = "completed"],
                             "return")
             more == [up EXCEPT !.mem = SetRepeat(q.mem, [r EXCEPT !.awaiting = TRUE]),
                                !.pc = "until"]
  <2>1. \/ proc'[w] = done
        \/ At(up, "steps") /\ proc'[w] = Advance(up)
        \/ proc'[w] = more
    BY <1>1, <1>5 DEF ScopeDone, Local, Set
  <2>2. Tail(q.stack) \in Seq(Frame) /\ Nested(Tail(q.stack))
    BY <1>1, NestedTail DEF Call
  <2>3. up \in Call /\ up.stack = Tail(q.stack) /\ up.pc = q.pc
    BY <2>2, <1>1 DEF Call
  <2>4. [q EXCEPT !.stack = <<>>] \in Call /\ [q EXCEPT !.stack = <<>>].stack = <<>>
    BY <1>1, NewRunType DEF Call, NoCall
  <2>5. CASE proc'[w] = done
    <3>1. Nested(<<>>)
      BY DEF Nested
    <3>2. QED
      BY <3>1, <2>4, <2>5, PersistCalm, CalmAttributed
  <2> HIDE DEF up
  <2>6. CASE At(up, "steps") /\ proc'[w] = Advance(up)
    <3>1. Nested(Advance(up).stack) /\ Advance(up).pc \in Forward
      BY <2>2, <2>3, <2>6, <1>1, NestedAdvance, AdvanceIs DEF At
    <3>2. QED
      BY <3>1, <2>6, CalmAttributed DEF Calm, Goes, Forward
  <2>7. CASE proc'[w] = more
    <3>1. proc'[w].pc = "until" /\ proc'[w].stack = up.stack
      BY <2>3, <2>7 DEF Call
    <3>2. QED
      BY <3>1, <2>2, <2>3, CalmAttributed DEF Calm, Goes
  <2>8. QED
    BY <2>1, <2>5, <2>6, <2>7
<1>6. QED
  BY <1>2, <1>3, <1>4, <1>5

\* The clock of a repeat and the hook: a failure names the step that has them.
LEMMA PrologueAttributed ==
  ASSUME TypeOK, NEW w \in Worker, Attributed(proc[w]),
         \/ EnsureRepeatStarted(w) \/ CheckRepeatTimeout(w)
         \/ \E o \in Outcome : OnEnter(w, o)
  PROVE  Attributed(proc'[w])
<1> DEFINE q == proc[w]
<1>1. /\ q \in Call /\ proc \in [Worker -> Call] /\ Nested(q.stack)
  BY DEF TypeOK, Attributed
<1>2. {"repeatCheck", "call", Dispatch(StepOf(q))} \subseteq Forward
  BY DEF Dispatch, Forward
<1>3. \/ \E m : \/ proc'[w] = Persist(q, m, "repeatCheck")
                \/ proc'[w] = Persist(q, m, "return")
      \/ \E l \in {"repeatCheck", "call", Dispatch(StepOf(q))} : proc'[w] = [q EXCEPT !.pc = l]
      \/ \E kind : proc'[w] = Fail(q, kind, StepPath(q))
  <2>1. CASE EnsureRepeatStarted(w)
    BY <1>1, <2>1 DEF EnsureRepeatStarted, Local, Set
  <2>2. CASE CheckRepeatTimeout(w)
    BY <1>1, <2>2 DEF CheckRepeatTimeout, Local, Set
  <2>3. ASSUME NEW o \in Outcome, OnEnter(w, o) PROVE <1>3!:
    BY <1>1, <2>3 DEF OnEnter, Local, Set
  <2>4. QED
    BY <2>1, <2>2, <2>3
<1>4. QED
  BY <1>1, <1>2, <1>3, GotoCalm, PersistCalm, CalmAttributed, FailAttributed

\* An action: its failure names the action.
LEMMA ActionAttributed ==
  ASSUME TypeOK, NEW w \in Worker, Attributed(proc[w]),
         (\E o \in Outcome : Do(w, o)) \/ Sleep(w)
  PROVE  Attributed(proc'[w])
<1> DEFINE q == proc[w]
           on == [Advance(q) EXCEPT !.pc = "steps"]
           again == [q EXCEPT !.attempt = @ + 1, !.pc = "sleep"]
<1>1. /\ q \in Call /\ proc \in [Worker -> Call] /\ Nested(q.stack) /\ q.stack # <<>>
  BY DEF TypeOK, Attributed, Do, Sleep, At
<1>2. \/ \E m : proc'[w] = PersistThen(on, m)
      \/ proc'[w] = Persist(q, q.mem, "return")
      \/ proc'[w] = again
      \/ proc'[w] = [q EXCEPT !.pc = "call"]
      \/ \E kind : proc'[w] = Fail(q, kind, StepPath(q))
  <2>1. ASSUME NEW o \in Outcome, Do(w, o) PROVE <1>2!:
    BY <1>1, <2>1 DEF Do, Set
  <2>2. CASE Sleep(w)
    BY <1>1, <2>2 DEF Sleep, Local, Set
  <2>3. QED
    BY <2>1, <2>2
<1>3. on \in Call /\ on.pc \in Forward /\ Nested(on.stack)
  <2>1. Advance(q) \in Call /\ Nested(Advance(q).stack)
    BY <1>1, AdvanceType, NestedAdvance
  <2>2. QED
    BY <2>1, GotoType, GotoIs DEF Label, Forward
<1>4. Attributed(again)
  <2>1. again.pc = "sleep" /\ again.stack = q.stack
    BY <1>1 DEF Call
  <2>2. QED
    BY <2>1, <1>1 DEF Attributed, Goes
<1>5. "call" \in Forward
  BY DEF Forward
<1> HIDE DEF on, again
<1>6. QED
  BY <1>1, <1>2, <1>3, <1>4, <1>5, GotoCalm, PersistCalm, PersistThenCalm, CalmAttributed,
     FailAttributed

\* A poll: its failure names the poll.
LEMMA PollAttributed ==
  ASSUME TypeOK, NEW w \in Worker, Attributed(proc[w]),
         PollTimeout(w) \/ \E o \in Outcome \cup {"pending"} : Check(w, o)
  PROVE  Attributed(proc'[w])
<1> DEFINE q == proc[w]
           m == Opened(q.mem)
           closed == [m EXCEPT !.pollStartedAt = NoTime]
           on == [Advance(q) EXCEPT !.pc = "steps"]
<1>1. /\ q \in Call /\ proc \in [Worker -> Call] /\ Nested(q.stack) /\ q.stack # <<>>
      /\ q.mem \in RunState
  BY MemType DEF TypeOK, Attributed, PollTimeout, Check, At
<1>2. \/ \E n : proc'[w] = PersistThen(on, n)
      \/ \E n : proc'[w] = Persist(q, n, "return")
      \/ \E kind : \/ proc'[w] = Fail([q EXCEPT !.mem = m], kind, StepPath(q))
                   \/ proc'[w] = Fail([q EXCEPT !.mem = closed], kind, StepPath(q))
  <2>1. CASE PollTimeout(w)
    BY <1>1, <2>1 DEF PollTimeout, Local, Set
  <2>2. ASSUME NEW o \in Outcome \cup {"pending"}, Check(w, o) PROVE <1>2!:
    BY <1>1, <2>2 DEF Check, Local, Set
  <2>3. QED
    BY <2>1, <2>2
<1>3. m \in RunState /\ closed \in RunState
  <2>1. m \in RunState
    BY <1>1 DEF Opened, RunState, TypeOK, Time
  <2>2. QED
    BY <2>1 DEF RunState, Time
<1>4. \A n \in RunState : [q EXCEPT !.mem = n] \in Call /\ [q EXCEPT !.mem = n].stack = q.stack
  BY <1>1 DEF Call
<1>5. on \in Call /\ on.pc \in Forward /\ Nested(on.stack)
  <2>1. Advance(q) \in Call /\ Nested(Advance(q).stack)
    BY <1>1, AdvanceType, NestedAdvance
  <2>2. QED
    BY <2>1, GotoType, GotoIs DEF Label, Forward
<1> HIDE DEF m, closed, on
<1>6. \A kind : /\ Attributed(Fail([q EXCEPT !.mem = m], kind, StepPath(q)))
                /\ Attributed(Fail([q EXCEPT !.mem = closed], kind, StepPath(q)))
  BY <1>1, <1>3, <1>4, FailAttributed
<1>7. QED
  BY <1>1, <1>2, <1>5, <1>6, PersistCalm, PersistThenCalm, CalmAttributed

\* A branch: a failed decision names the branch, and the path taken is nested in it.
LEMMA BranchAttributed ==
  ASSUME TypeOK, NEW w \in Worker, Attributed(proc[w]),
         \/ ResumeBranch(w) \/ \E key \in Key : Decide(w, key)
         \/ \E o \in Outcome : DecideFailed(w, o)
  PROVE  Attributed(proc'[w])
<1> DEFINE q == proc[w]
           on == [Advance(q) EXCEPT !.pc = "steps"]
<1>1. /\ q \in Call /\ q.mem \in RunState /\ proc \in [Worker -> Call] /\ Nested(q.stack)
      /\ q.stack # <<>> /\ q.stack \in Seq(Frame)
  BY MemType DEF TypeOK, Attributed, ResumeBranch, Decide, DecideFailed, At, Call
<1>2. StepOf(q) \in Step /\ StepPath(q) \in Path /\ Top(q) \in Frame
  BY <1>1, AtType DEF ResumeBranch, Decide, DecideFailed
<1>3. \A k : Len(Append(StepPath(q), k)) > Len(Top(q).base)
  <2>1. Top(q).base \in Path
    BY <1>2 DEF Frame
  <2>2. Len(StepPath(q)) = Len(Top(q).base) + 1 /\ Len(Top(q).base) \in Nat
    BY <2>1 DEF StepPath, Path
  <2>3. \A k : Len(Append(StepPath(q), k)) = Len(StepPath(q)) + 1
    BY <1>2 DEF Path
  <2>4. QED
    BY <2>2, <2>3
<1>4. ASSUME NEW k, NEW frame \in Frame, frame.base = Append(StepPath(q), k)
      PROVE  /\ Push(q, frame) \in Call /\ Push(q, frame).pc \in Forward
             /\ Nested(Push(q, frame).stack)
  <2>1. Len(frame.base) > Len(Head(q.stack).base)
    BY <1>3, <1>4 DEF Top
  <2>2. Nested(<<frame>> \o q.stack)
    BY <2>1, <1>1, NestedPush
  <2>3. QED
    BY <2>2, <1>1, PushType, PushIs DEF Forward
<1>5. CASE ResumeBranch(w)
  <2> DEFINE d == Len(StepPath(q)) + 1
             path == q.mem.currentPath
             key == path[d]
             steps == Def[StepOf(q)].paths[key]
             frame == NewFrame(Append(StepPath(q), key), steps,
                               ResumeIndex(steps, path, d + 1), path)
  <2>1. key \in DOMAIN Def[StepOf(q)].paths /\ proc'[w] = Push(q, frame)
    BY <1>1, <1>5 DEF ResumeBranch, Local, Set
  <2>2. frame \in Frame /\ frame.base = Append(StepPath(q), key)
    <3>1. path \in Path /\ steps \in Seq(Step) /\ Append(StepPath(q), key) \in Path
      BY <1>1, <1>2, <2>1, StepType, AppendKey DEF RunState
    <3>2. QED
      BY <3>1, FrameType, ResumeIndexType DEF NewFrame
  <2> HIDE DEF frame, key
  <2>3. QED
    BY <2>1, <2>2, <1>4, CalmAttributed DEF Calm, Goes, Forward
<1>6. ASSUME NEW key \in Key, Decide(w, key) PROVE Attributed(proc'[w])
  <2> DEFINE childPath == Append(StepPath(q), key)
             frame == NewFrame(childPath, Def[StepOf(q)].paths[key], 1, childPath)
             down == Push(q, frame)
  <2>1. \E m : proc'[w] = PersistThen(on, m) \/ proc'[w] = PersistThen(down, m)
    BY <1>1, <1>6 DEF Decide, Local, Set
  <2>2. down \in Call /\ down.pc \in Forward /\ Nested(down.stack)
    <3>1. Def[StepOf(q)].paths[key] \in Seq(Step) /\ childPath \in Path
      BY <1>2, <1>6, StepType, AppendKey DEF Decide
    <3>2. frame \in Frame /\ frame.base = Append(StepPath(q), key)
      <4>1. frame \in Frame
        BY <3>1, FrameType
      <4>2. QED
        BY <4>1 DEF NewFrame
    <3> HIDE DEF frame
    <3>3. QED
      BY <3>2, <1>4
  <2>3. on \in Call /\ on.pc \in Forward /\ Nested(on.stack)
    <3>1. Advance(q) \in Call /\ Nested(Advance(q).stack)
      BY <1>1, AdvanceType, NestedAdvance
    <3>2. QED
      BY <3>1, GotoType, GotoIs DEF Label, Forward
  <2> HIDE DEF on, down
  <2>4. QED
    BY <2>1, <2>2, <2>3, PersistThenCalm, CalmAttributed
<1>7. ASSUME NEW o \in Outcome, DecideFailed(w, o) PROVE Attributed(proc'[w])
  <2>1. proc'[w] = Persist(q, q.mem, "return") \/ proc'[w] = Fail(q, KindOf(o), StepPath(q))
    BY <1>1, <1>7 DEF DecideFailed, Local, Set
  <2>2. QED
    BY <2>1, <1>1, PersistCalm, CalmAttributed, FailAttributed
<1>8. QED
  BY <1>5, <1>6, <1>7
\* A repeat: a failed condition names the repeat, and its iteration is nested in it.
LEMMA RepeatAttributed ==
  ASSUME TypeOK, NEW w \in Worker, Attributed(proc[w]),
         \/ BeginIteration(w) \/ UntilTimeout(w)
         \/ \E o \in Outcome \cup {"more"} : Until(w, o)
  PROVE  Attributed(proc'[w])
<1> DEFINE q == proc[w]
           r == RepeatAt(q.mem, StepPath(q))
           on == [Advance(q) EXCEPT !.pc = "steps"]
<1>1. /\ q \in Call /\ q.mem \in RunState /\ proc \in [Worker -> Call] /\ Nested(q.stack)
      /\ q.stack # <<>> /\ q.stack \in Seq(Frame)
  BY MemType DEF TypeOK, Attributed, BeginIteration, UntilTimeout, Until, At, Call
<1>2. StepOf(q) \in Step /\ StepPath(q) \in Path /\ Top(q) \in Frame
  BY <1>1, AtType DEF BeginIteration, UntilTimeout, Until
<1>3. r \in RepeatState
  BY <1>1, <1>2, RepeatAtType
<1> HIDE DEF r
<1>4. CASE BeginIteration(w)
  <2> DEFINE d == Len(StepPath(q)) + 1
             path == q.mem.currentPath
             iteration == IF d <= Len(path) THEN path[d] ELSE r.iteration
             m == SetRepeat(q.mem, [r EXCEPT !.iteration = iteration])
             body == Def[StepOf(q)].body
             frame == NewFrame(Append(StepPath(q), iteration), body,
                               ResumeIndex(body, path, d + 1), path)
  <2>1. /\ iteration \in Nat
        /\ \/ proc'[w] = [q EXCEPT !.mem = m, !.pc = "until"]
           \/ proc'[w] = Push([q EXCEPT !.mem = m], frame)
    BY <1>1, <1>4 DEF BeginIteration, Local, Set, r
  <2> HIDE DEF iteration
  <2>2. path \in Path /\ body \in Seq(Step) /\ Append(StepPath(q), iteration) \in Path
    BY <1>1, <1>2, <2>1, StepType, AppendKey DEF RunState
  <2>3. frame \in Frame
    BY <2>2, FrameType, ResumeIndexType
  <2>4. frame.base = Append(StepPath(q), iteration)
    BY DEF NewFrame
  <2>5. Len(frame.base) > Len(Head(q.stack).base)
    <3>1. Top(q).base \in Path
      BY <1>2 DEF Frame
    <3>2. Len(StepPath(q)) = Len(Top(q).base) + 1 /\ Len(Top(q).base) \in Nat
      BY <3>1 DEF StepPath, Path
    <3>3. Len(frame.base) = Len(StepPath(q)) + 1
      BY <2>4, <1>2 DEF Path
    <3>4. QED
      BY <3>2, <3>3 DEF Top
  <2> HIDE DEF frame, m
  <2>6. Nested(<<frame>> \o q.stack)
    BY <2>3, <2>5, <1>1, NestedPush
  <2>7. \/ proc'[w].pc = "until" /\ proc'[w].stack = q.stack
        \/ proc'[w].pc = "steps" /\ proc'[w].stack = <<frame>> \o q.stack
    BY <2>1, <1>1 DEF Push, Call
  <2>8. QED
    BY <2>6, <2>7, <1>1, CalmAttributed DEF Calm, Goes
<1>5. CASE UntilTimeout(w)
  <2>1. proc'[w] = Fail(q, "timeout", StepPath(q))
    BY <1>1, <1>5 DEF UntilTimeout, Local, Set
  <2>2. QED
    BY <2>1, <1>1, FailAttributed
<1>6. ASSUME NEW o \in Outcome \cup {"more"}, Until(w, o) PROVE Attributed(proc'[w])
  <2> DEFINE m == IF Def[StepOf(q)].compact
                    THEN Compact(q.mem, Append(StepPath(q), r.iteration)) ELSE q.mem
             p == [q EXCEPT !.mem = m]
  <2>1. \/ \E n : proc'[w] = PersistThen(on, n)
        \/ proc'[w] = Fail(p, "step", StepPath(q))
        \/ \E n : proc'[w] = Persist(q, n, "return")
        \/ proc'[w] = Fail(q, KindOf(o), StepPath(q))
    BY <1>1, <1>6 DEF Until, Local, Set, r
  <2>2. p \in Call /\ p.stack = q.stack
    <3>1. m \in RunState
      BY <1>1, CompactType
    <3> HIDE DEF m
    <3>2. QED
      BY <3>1, <1>1 DEF Call
  <2>3. on \in Call /\ on.pc \in Forward /\ Nested(on.stack)
    <3>1. Advance(q) \in Call /\ Nested(Advance(q).stack)
      BY <1>1, AdvanceType, NestedAdvance
    <3>2. QED
      BY <3>1, GotoType, GotoIs DEF Label, Forward
  <2> HIDE DEF on, p
  <2>4. QED
    BY <2>1, <2>2, <2>3, <1>1, PersistCalm, PersistThenCalm, CalmAttributed, FailAttributed
<1>7. QED
  BY <1>4, <1>5, <1>6

\* The error path: a scope that passes an error on leaves it deeper than its caller's step.
LEMMA RaiseAttributed ==
  ASSUME TypeOK, NEW w \in Worker, Attributed(proc[w]),
         RaiseCancelled(w) \/ Propagate(w) \/ RaiseNoCompensate(w) \/ RaiseFailure(w)
  PROVE  Attributed(proc'[w])
<1> DEFINE q == proc[w]
<1>1. /\ q \in Call /\ q.mem \in RunState /\ proc \in [Worker -> Call] /\ Nested(q.stack)
      /\ At(q, "raise") /\ q.pc = "raise" /\ q.stack # <<>>
  BY MemType DEF TypeOK, Attributed, RaiseCancelled, Propagate, RaiseNoCompensate,
     RaiseFailure, At
<1>2. StepPath(q) \in Path /\ Top(q) \in Frame
  BY <1>1, AtType
<1>3. Len(StepPath(q)) = Len(Top(q).base) + 1 /\ Len(Top(q).base) \in Nat
  <2>1. Top(q).base \in Path
    BY <1>2 DEF Frame
  <2>2. QED
    BY <2>1 DEF StepPath, Path
<1>4. Len(q.err.path) \in Nat
  <2>1. q.err.path \in Path
    BY <1>1 DEF Call, Error
  <2>2. QED
    BY <2>1 DEF Path
<1>5. ~q.cancelled /\ q.mem.status = "running" => Len(q.err.path) >= Len(Top(q).base) + 1
  BY <1>1, <1>3, <1>4 DEF Attributed, Goes
<1>6. CASE RaiseCancelled(w)
  <2> DEFINE p == [q EXCEPT !.mem.currentPath = StepPath(q),
                            !.err = [kind |-> "context", path |-> <<>>]]
  <2>1. proc'[w] = Unwind(p) /\ q.cancelled
    BY <1>1, <1>6 DEF RaiseCancelled, Local, Set
  <2>2. p \in Call /\ p.stack = q.stack /\ p.cancelled = q.cancelled
    BY <1>1, <1>2, ContextType DEF Call
  <2> HIDE DEF p
  <2>3. QED
    BY <2>1, <2>2, <1>1, UnwindAttributed
<1>7. CASE Propagate(w)
  <2>1. proc'[w] = Unwind(q)
    BY <1>1, <1>7 DEF Propagate, Local, Set
  <2>2. QED
    BY <2>1, <1>1, <1>5, UnwindAttributed
<1>8. CASE RaiseNoCompensate(w)
  <2> DEFINE m == [q.mem EXCEPT !.failedStepPath = StepPath(q)]
  <2>1. proc'[w] = PersistThen(Unwind(q), m)
    BY <1>1, <1>8 DEF RaiseNoCompensate, Local, Set
  <2>2. m.status = q.mem.status
    BY <1>1 DEF RunState
  <2> HIDE DEF m
  <2>3. QED
    BY <2>1, <2>2, <1>1, <1>5, UnwindAttributed
<1>9. CASE RaiseFailure(w)
  <2> DEFINE m == [q.mem EXCEPT !.failedStepPath = StepPath(q),
                                !.status = "compensating",
                                !.compensationIndex = Len(q.mem.completed) - 1,
                                !.repeatTimeout = @ \/ q.err.kind = "timeout"]
  <2>1. proc'[w] = Persist(q, m, "compensate")
    BY <1>1, <1>9 DEF RaiseFailure, Local, Set
  <2>2. m.status = "compensating"
    BY <1>1 DEF RunState
  <2> HIDE DEF m
  <2>3. /\ proc'[w].pc = "snapshot" /\ proc'[w].next = "compensate" /\ proc'[w].mem = m
        /\ proc'[w].stack = q.stack
    BY <2>1, <1>1, PersistIs
  <2>4. QED
    BY <2>2, <2>3, <1>1 DEF Attributed, Goes
<1>10. QED
  BY <1>6, <1>7, <1>8, <1>9

\* The compensation: the run is no longer running, so no error is attributed any more.
LEMMA CompensationAttributed ==
  ASSUME TypeOK, NEW w \in Worker, Attributed(proc[w]),
         \/ SkipCompensation(w) \/ CompensationCancelled(w) \/ CompensationDone(w)
         \/ \E o \in {"ok", "error", "retryafter", "context"} : Compensate(w, o)
  PROVE  Attributed(proc'[w])
<1> DEFINE q == proc[w]
           down == [q.mem EXCEPT !.compensationIndex = @ - 1]
<1>1. /\ q \in Call /\ q.mem \in RunState /\ proc \in [Worker -> Call] /\ Nested(q.stack)
      /\ q.pc = "compensate" /\ q.mem.status = "compensating"
  BY MemType DEF TypeOK, Attributed, SkipCompensation, CompensationCancelled,
     CompensationDone, Compensate, AtCompletion, Goes
<1>2. down.status = "compensating"
  BY <1>1 DEF RunState
<1>3. CASE SkipCompensation(w)
  <2>1. proc'[w] = [q EXCEPT !.mem.compensationIndex = @ - 1]
    BY <1>1, <1>3 DEF SkipCompensation, Local, Set
  <2>2. proc'[w].pc = "compensate" /\ proc'[w].mem = down /\ proc'[w].stack = q.stack
    BY <2>1, <1>1 DEF Call
  <2> HIDE DEF down
  <2>3. QED
    BY <2>2, <1>1, <1>2 DEF Attributed, Goes
<1>4. CASE CompensationCancelled(w)
  <2> DEFINE p == [q EXCEPT !.err = [kind |-> "context", path |-> <<>>]]
  <2>1. proc'[w] = Unwind(p)
    BY <1>1, <1>4 DEF CompensationCancelled, Local, Set
  <2>2. p \in Call /\ p.mem = q.mem /\ p.stack = q.stack
    BY <1>1, ContextType DEF Call
  <2> HIDE DEF p
  <2>3. QED
    BY <2>1, <2>2, <1>1, UnwindAttributed
<1>5. ASSUME NEW o \in {"ok", "error", "retryafter", "context"}, Compensate(w, o)
      PROVE  Attributed(proc'[w])
  <2> DEFINE p == [q EXCEPT !.err = [kind |-> "compensation", path |-> <<>>]]
             c == [q EXCEPT !.cancelled = TRUE, !.err = [kind |-> "context", path |-> <<>>]]
  <2>1. \/ proc'[w] = Persist(q, down, "compensate")
        \/ proc'[w] = Persist(q, q.mem, "return")
        \/ proc'[w] = PersistThen(Unwind(p), q.mem)
        \/ proc'[w] = Unwind(c)
    BY <1>1, <1>5 DEF Compensate, Set
  <2>2. /\ p \in Call /\ p.mem = q.mem /\ p.stack = q.stack
        /\ c \in Call /\ c.mem = q.mem /\ c.stack = q.stack
    BY <1>1, ContextType DEF Call
  <2> HIDE DEF p, c, down
  <2>3. CASE proc'[w] = Persist(q, down, "compensate")
    <3>1. /\ proc'[w].pc = "snapshot" /\ proc'[w].next = "compensate"
          /\ proc'[w].mem = down /\ proc'[w].stack = q.stack
      BY <2>3, <1>1, PersistIs
    <3>2. QED
      BY <3>1, <1>1, <1>2 DEF Attributed, Goes
  <2>4. CASE proc'[w] = Persist(q, q.mem, "return")
    BY <2>4, <1>1, PersistCalm, CalmAttributed
  <2>5. CASE proc'[w] = PersistThen(Unwind(p), q.mem)
    BY <2>2, <2>5, <1>1, UnwindAttributed
  <2>6. CASE proc'[w] = Unwind(c)
    BY <2>2, <2>6, <1>1, UnwindAttributed
  <2>7. QED
    BY <2>1, <2>3, <2>4, <2>5, <2>6
<1>6. CASE CompensationDone(w)
  <2> DEFINE p == [q EXCEPT !.stack = <<>>]
  <2>1. \E m : proc'[w] = Persist(p, m, "return")
    BY <1>1, <1>6 DEF CompensationDone, Local, Set
  <2>2. p \in Call /\ p.stack = <<>>
    BY <1>1, NewRunType DEF Call, NoCall
  <2> HIDE DEF p
  <2>3. Nested(p.stack)
    BY <2>2 DEF Nested
  <2>4. QED
    BY <2>1, <2>2, <2>3, PersistCalm, CalmAttributed
<1>7. QED
  BY <1>3, <1>4, <1>5, <1>6

\* Load, Start, the snapshot, and the end of a call.
LEMMA CallAttributed ==
  ASSUME TypeOK, NEW w \in Worker, Attributed(proc[w]),
         \/ Load(w) \/ Start(w) \/ SnapshotOK(w) \/ SnapshotFailed(w) \/ SnapshotAckLost(w)
         \/ Return(w) \/ Crash(w) \/ Cancel(w)
  PROVE  Attributed(proc'[w])
<1> DEFINE q == proc[w]
<1>1. q \in Call /\ q.mem \in RunState /\ proc \in [Worker -> Call] /\ Nested(q.stack)
  BY MemType DEF TypeOK, Attributed
<1>2. Attributed(NoCall)
  BY DEF Attributed, NoCall, Nested, Goes
<1>3. CASE SnapshotFailed(w) \/ SnapshotAckLost(w) \/ Return(w) \/ Crash(w)
  <2>1. proc'[w] = NoCall
    BY <1>1, <1>3 DEF SnapshotFailed, SnapshotAckLost, Return, Crash, Local, Set
  <2>2. QED
    BY <2>1, <1>2
<1>4. CASE Load(w)
  <2>1. proc'[w] = [NoCall EXCEPT !.pc = "start", !.mem = store]
    BY <1>1, <1>4 DEF Load, Set
  <2>2. proc'[w].pc = "start" /\ proc'[w].stack = <<>>
    BY <2>1 DEF NoCall
  <2>3. QED
    BY <2>2 DEF Attributed, Nested, Goes
<1>5. CASE SnapshotOK(w)
  <2> DEFINE n == proc'[w]
  <2>1. /\ q.pc = "snapshot" /\ n.pc = q.next /\ n.next = q.next /\ n.stack = q.stack
        /\ n.err = q.err /\ n.cancelled = q.cancelled /\ n.mem.status = q.mem.status
    <3>1. Written(q.mem).status = q.mem.status
      BY <1>1 DEF Written, RunState
    <3>2. CASE proc'[w] = [q EXCEPT !.pc = q.next] /\ q.pc = "snapshot"
      BY <3>2, <1>1, GotoIs
    <3>3. CASE proc'[w] = [q EXCEPT !.pc = q.next, !.mem = Written(q.mem)] /\ q.pc = "snapshot"
      BY <3>1, <3>3, <1>1 DEF Call
    <3>4. QED
      BY <3>2, <3>3, <1>1, <1>5 DEF SnapshotOK, Set
  <2>2. Top(n) = Top(q) /\ StepPath(n) = StepPath(q)
    BY <2>1 DEF Top, StepPath, StepOf
  <2> HIDE DEF n
  <2>3. Attributed(n)
    BY <2>1, <2>2 DEF Attributed, Goes
  <2>4. QED
    BY <2>3 DEF n
<1>6. CASE Cancel(w)
  <2>1. proc'[w] = [q EXCEPT !.cancelled = TRUE]
    BY <1>1, <1>6 DEF Cancel, Local, Set
  <2>2. /\ proc'[w].pc = q.pc /\ proc'[w].next = q.next /\ proc'[w].mem = q.mem
        /\ proc'[w].stack = q.stack /\ proc'[w].cancelled
    BY <2>1, <1>1 DEF Call
  <2>3. QED
    BY <2>2 DEF Attributed, Goes
<1>7. CASE Start(w)
  <2> DEFINE frame == NewFrame(<<>>, Root, ResumeIndex(Root, q.mem.currentPath, 1),
                               q.mem.currentPath)
  <2>1. \/ proc'[w] = [q EXCEPT !.pc = "return"]
        \/ q.mem.status = "compensating" /\ proc'[w] = Persist(q, q.mem, "compensate")
        \/ \E m : proc'[w] = PersistThen(Push(q, frame), m)
    BY <1>1, <1>7 DEF Start, Local, Set
  <2>2. CASE proc'[w] = [q EXCEPT !.pc = "return"]
    BY <2>2, <1>1, GotoCalm, CalmAttributed
  <2>3. CASE q.mem.status = "compensating" /\ proc'[w] = Persist(q, q.mem, "compensate")
    <3>1. /\ proc'[w].pc = "snapshot" /\ proc'[w].next = "compensate"
          /\ proc'[w].mem = q.mem /\ proc'[w].stack = q.stack
      BY <2>3, <1>1, PersistIs
    <3>2. QED
      BY <3>1, <2>3, <1>1 DEF Attributed, Goes
  <2>4. CASE \E m : proc'[w] = PersistThen(Push(q, frame), m)
    <3>1. frame \in Frame
      <4>1. <<>> \in Path /\ q.mem.currentPath \in Path
        BY <1>1 DEF RunState, Path
      <4>2. QED
        BY <4>1, FrameType, ResumeIndexType, DefinitionAssumption
    <3>2. PICK m : proc'[w] = PersistThen(Push(q, frame), m)
      BY <2>4
    <3> HIDE DEF frame
    <3>3. Push(q, frame) \in Call /\ Push(q, frame).pc = "steps"
      BY <3>1, <1>1, PushType, PushIs
    <3>4. Nested(Push(q, frame).stack)
      <4>1. q.stack = <<>>
        BY <1>7 DEF Start, Attributed, Goes
      <4>2. Push(q, frame).stack = <<frame>> \o q.stack
        BY <3>1, <1>1, PushIs
      <4>3. Nested(<<frame>> \o q.stack)
        <5>1. q.stack \in Seq(Frame)
          BY <1>1 DEF Call
        <5>2. QED
          BY <3>1, <4>1, <5>1, <1>1, NestedPush
      <4>4. QED
        BY <4>2, <4>3
    <3>5. QED
      BY <3>2, <3>3, <3>4, PersistThenCalm, CalmAttributed DEF Forward
  <2>5. QED
    BY <2>1, <2>2, <2>3, <2>4
<1>8. QED
  BY <1>3, <1>4, <1>5, <1>6, <1>7

\* Initially there is no call.
LEMMA InitAttribution == Init => Attribution
BY DEF Init, Attribution, Attributed, NoCall, Nested, Goes

\* Attribution is inductive.
LEMMA StepKeepsAttribution ==
  ASSUME TypeOK, Attribution, [Next]_vars
  PROVE  Attribution'
<1>1. ASSUME NEW w \in Worker, NEW n, Set(w, n), Attributed(proc'[w])
      PROVE  Attribution'
  <2>1. \A v \in Worker \ {w} : proc'[v] = proc[v]
    BY <1>1 DEF Set, TypeOK
  <2>2. QED
    BY <2>1, <1>1 DEF Attribution
<1>2. ASSUME NEW w \in Worker, WorkerStep(w) PROVE Attribution'
  <2> USE <1>1, <1>2
  <2>1. Attributed(proc[w])
    BY DEF Attribution
  <2>2. CASE Start(w) \/ SnapshotOK(w) \/ SnapshotFailed(w) \/ Return(w)
    BY <2>1, <2>2, CallAttributed DEF Start, SnapshotOK, SnapshotFailed, Return, Local
  <2>3. CASE SkipCompleted(w) \/ StopCancelled(w) \/ EnterStep(w) \/ ScopeDone(w)
    BY <2>1, <2>3, StepsAttributed
       DEF SkipCompleted, StopCancelled, EnterStep, ScopeDone, Local
  <2>4. CASE \/ EnsureRepeatStarted(w) \/ CheckRepeatTimeout(w)
             \/ \E o \in Outcome : OnEnter(w, o)
    BY <2>1, <2>4, PrologueAttributed
       DEF EnsureRepeatStarted, CheckRepeatTimeout, OnEnter, Local
  <2>5. CASE (\E o \in Outcome : Do(w, o)) \/ Sleep(w)
    BY <2>1, <2>5, ActionAttributed DEF Do, Sleep, Local
  <2>6. CASE PollTimeout(w) \/ \E o \in Outcome \cup {"pending"} : Check(w, o)
    BY <2>1, <2>6, PollAttributed DEF PollTimeout, Check, Local
  <2>7. CASE \/ ResumeBranch(w) \/ \E key \in Key : Decide(w, key)
             \/ \E o \in Outcome : DecideFailed(w, o)
    BY <2>1, <2>7, BranchAttributed DEF ResumeBranch, Decide, DecideFailed, Local
  <2>8. CASE \/ BeginIteration(w) \/ UntilTimeout(w)
             \/ \E o \in Outcome \cup {"more"} : Until(w, o)
    BY <2>1, <2>8, RepeatAttributed DEF BeginIteration, UntilTimeout, Until, Local
  <2>9. CASE RaiseCancelled(w) \/ Propagate(w) \/ RaiseNoCompensate(w) \/ RaiseFailure(w)
    BY <2>1, <2>9, RaiseAttributed
       DEF RaiseCancelled, Propagate, RaiseNoCompensate, RaiseFailure, Local
  <2>10. CASE \/ SkipCompensation(w) \/ CompensationCancelled(w) \/ CompensationDone(w)
              \/ \E o \in {"ok", "error", "retryafter", "context"} : Compensate(w, o)
    BY <2>1, <2>10, CompensationAttributed
       DEF SkipCompensation, CompensationCancelled, CompensationDone, Compensate, Local
  <2>11. QED
    BY <2>2, <2>3, <2>4, <2>5, <2>6, <2>7, <2>8, <2>9, <2>10 DEF WorkerStep
<1>3. ASSUME NEW w \in Worker, Load(w) \/ SnapshotAckLost(w) \/ Crash(w) \/ Cancel(w)
      PROVE  Attribution'
  <2>1. Attributed(proc[w])
    BY DEF Attribution
  <2>2. Attributed(proc'[w])
    BY <1>3, <2>1, CallAttributed
  <2>3. QED
    BY <1>1, <1>3, <2>2 DEF Load, SnapshotAckLost, Crash, Cancel, Local
<1>4. CASE Tick \/ UNCHANGED vars
  BY <1>4 DEF Tick, vars, Attribution
<1>5. QED
  BY <1>2, <1>3, <1>4 DEF Next, Terminated

\* Every error that reaches a frame comes from the step that the frame is at, or
\* from below it; the frames lie inside one another.
THEOREM AttributionHolds == Spec => []Attribution
<1>1. TypeOK /\ Attribution /\ [Next]_vars => Attribution'
  BY StepKeepsAttribution
<1>2. QED
  BY <1>1, InitAttribution, TypeCorrect, PTL DEF Spec

-----------------------------------------------------------------------------
(* Who writes the path of a failure.                                       *)

\* The call q moves to n, which names no other failed step than the error does.
Names(q, n) ==
  q.pc # "idle" /\ n.pc # "idle" =>
    n.mem.failedStepPath = q.mem.failedStepPath \/ n.mem.failedStepPath = q.err.path

\* The error path sets the failed step to the path of the error only.
LEMMA RaiseNames ==
  ASSUME TypeOK, NEW w \in Worker, Attributed(proc[w]),
         RaiseCancelled(w) \/ Propagate(w) \/ RaiseNoCompensate(w) \/ RaiseFailure(w)
  PROVE  Names(proc[w], proc'[w])
<1> DEFINE q == proc[w]
<1>1. /\ q \in Call /\ q.mem \in RunState /\ proc \in [Worker -> Call]
      /\ At(q, "raise") /\ q.pc = "raise" /\ q.stack # <<>>
  BY MemType DEF TypeOK, RaiseCancelled, Propagate, RaiseNoCompensate, RaiseFailure, At
<1>2. StepPath(q) \in Path /\ Top(q) \in Frame
  BY <1>1, AtType
<1>3. Len(StepPath(q)) = Len(Top(q).base) + 1 /\ Len(Top(q).base) \in Nat
  <2>1. Top(q).base \in Path
    BY <1>2 DEF Frame
  <2>2. QED
    BY <2>1 DEF StepPath, Path
<1>4. Len(q.err.path) \in Nat
  <2>1. q.err.path \in Path
    BY <1>1 DEF Call, Error
  <2>2. QED
    BY <2>1 DEF Path
<1>5. ~q.cancelled /\ ~HandledBelow(q) => q.err.path = StepPath(q)
  BY <1>1, <1>3, <1>4 DEF Attributed, Goes, HandledBelow
<1>6. CASE RaiseCancelled(w)
  <2> DEFINE p == [q EXCEPT !.mem.currentPath = StepPath(q),
                            !.err = [kind |-> "context", path |-> <<>>]]
  <2>1. proc'[w] = Unwind(p)
    BY <1>1, <1>6 DEF RaiseCancelled, Local, Set
  <2>2. p \in Call /\ p.mem.failedStepPath = q.mem.failedStepPath
    BY <1>1, <1>2, ContextType DEF Call, RunState
  <2> HIDE DEF p
  <2>3. QED
    BY <2>1, <2>2, UnwindIs DEF Names
<1>7. CASE Propagate(w)
  <2>1. proc'[w] = Unwind(q)
    BY <1>1, <1>7 DEF Propagate, Local, Set
  <2>2. QED
    BY <2>1, <1>1, UnwindIs DEF Names
<1>8. CASE RaiseNoCompensate(w)
  <2> DEFINE m == [q.mem EXCEPT !.failedStepPath = StepPath(q)]
  <2>1. proc'[w] = PersistThen(Unwind(q), m)
    BY <1>1, <1>8 DEF RaiseNoCompensate, Local, Set
  <2>2. m.failedStepPath = q.err.path
    BY <1>1, <1>5, <1>8 DEF RunState, RaiseNoCompensate
  <2> HIDE DEF m
  <2>3. QED
    BY <2>1, <2>2, <1>1, UnwindType, PersistThenIs DEF Names
<1>9. CASE RaiseFailure(w)
  <2> DEFINE m == [q.mem EXCEPT !.failedStepPath = StepPath(q),
                                !.status = "compensating",
                                !.compensationIndex = Len(q.mem.completed) - 1,
                                !.repeatTimeout = @ \/ q.err.kind = "timeout"]
  <2>1. proc'[w] = Persist(q, m, "compensate")
    BY <1>1, <1>9 DEF RaiseFailure, Local, Set
  <2>2. m.failedStepPath = q.err.path
    BY <1>1, <1>5, <1>9 DEF RunState, RaiseFailure
  <2> HIDE DEF m
  <2>3. QED
    BY <2>1, <2>2, <1>1, PersistIs DEF Names
<1>10. QED
  BY <1>6, <1>7, <1>8, <1>9

\* The compensation leaves the failed step as it is.
LEMMA CompensationNames ==
  ASSUME TypeOK, NEW w \in Worker,
         \/ SkipCompensation(w) \/ CompensationCancelled(w) \/ CompensationDone(w)
         \/ \E o \in {"ok", "error", "retryafter", "context"} : Compensate(w, o)
  PROVE  Names(proc[w], proc'[w])
<1> DEFINE q == proc[w]
           down == [q.mem EXCEPT !.compensationIndex = @ - 1]
<1>1. /\ q \in Call /\ q.mem \in RunState /\ proc \in [Worker -> Call]
      /\ down.failedStepPath = q.mem.failedStepPath
  BY MemType DEF TypeOK, RunState
<1>2. CASE SkipCompensation(w)
  <2>1. proc'[w] = [q EXCEPT !.mem.compensationIndex = @ - 1]
    BY <1>1, <1>2 DEF SkipCompensation, Local, Set
  <2>2. proc'[w].mem = down
    BY <2>1, <1>1 DEF Call
  <2> HIDE DEF down
  <2>3. QED
    BY <2>2, <1>1 DEF Names
<1>3. CASE CompensationCancelled(w)
  <2> DEFINE p == [q EXCEPT !.err = [kind |-> "context", path |-> <<>>]]
  <2>1. proc'[w] = Unwind(p)
    BY <1>1, <1>3 DEF CompensationCancelled, Local, Set
  <2>2. p \in Call /\ p.mem = q.mem
    BY <1>1, ContextType DEF Call
  <2> HIDE DEF p
  <2>3. QED
    BY <2>1, <2>2, UnwindIs DEF Names
<1>4. ASSUME NEW o \in {"ok", "error", "retryafter", "context"}, Compensate(w, o)
      PROVE  Names(q, proc'[w])
  <2> DEFINE p == [q EXCEPT !.err = [kind |-> "compensation", path |-> <<>>]]
             c == [q EXCEPT !.cancelled = TRUE, !.err = [kind |-> "context", path |-> <<>>]]
  <2>1. \/ proc'[w] = Persist(q, down, "compensate")
        \/ proc'[w] = Persist(q, q.mem, "return")
        \/ proc'[w] = PersistThen(Unwind(p), q.mem)
        \/ proc'[w] = Unwind(c)
    BY <1>1, <1>4 DEF Compensate, Set
  <2>2. p \in Call /\ Unwind(p) \in Call /\ c \in Call /\ c.mem = q.mem
    BY <1>1, ContextType, UnwindType DEF Call
  <2> HIDE DEF p, c, down
  <2>3. \/ proc'[w].mem = down
        \/ proc'[w].mem = q.mem
    BY <2>1, <2>2, <1>1, PersistIs, PersistThenIs, UnwindIs
  <2>4. QED
    BY <2>3, <1>1 DEF Names
<1>5. CASE CompensationDone(w)
  <2> DEFINE p == [q EXCEPT !.stack = <<>>]
             m == [q.mem EXCEPT !.status = "failed", !.compensationIndex = -1]
  <2>1. proc'[w] = Persist(p, m, "return")
    BY <1>1, <1>5 DEF CompensationDone, Local, Set
  <2>2. p \in Call /\ m.failedStepPath = q.mem.failedStepPath
    BY <1>1, NewRunType DEF Call, NoCall, RunState
  <2> HIDE DEF p, m
  <2>3. QED
    BY <2>1, <2>2, PersistIs DEF Names
<1>6. QED
  BY <1>2, <1>3, <1>4, <1>5

\* Load, Start, the snapshot, and the end of a call.
LEMMA CallNames ==
  ASSUME TypeOK, NEW w \in Worker,
         \/ Load(w) \/ Start(w) \/ SnapshotOK(w) \/ SnapshotFailed(w) \/ SnapshotAckLost(w)
         \/ Return(w) \/ Crash(w) \/ Cancel(w)
  PROVE  Names(proc[w], proc'[w])
<1> DEFINE q == proc[w]
<1>1. q \in Call /\ q.mem \in RunState /\ proc \in [Worker -> Call] /\ NoCall.pc = "idle"
  BY MemType DEF TypeOK, NoCall
<1>2. CASE SnapshotFailed(w) \/ SnapshotAckLost(w) \/ Return(w) \/ Crash(w) \/ Load(w)
  BY <1>1, <1>2 DEF SnapshotFailed, SnapshotAckLost, Return, Crash, Load, Local, Set, Names
<1>3. CASE SnapshotOK(w)
  <2>1. Written(q.mem).failedStepPath = q.mem.failedStepPath
    BY <1>1 DEF Written, RunState
  <2>2. \/ proc'[w] = [q EXCEPT !.pc = q.next]
        \/ proc'[w] = [q EXCEPT !.pc = q.next, !.mem = Written(q.mem)]
    BY <1>1, <1>3 DEF SnapshotOK, Set
  <2>3. proc'[w].mem \in {q.mem, Written(q.mem)}
    BY <2>2, <1>1 DEF Call
  <2>4. QED
    BY <2>1, <2>3 DEF Names
<1>4. CASE Cancel(w)
  <2>1. proc'[w] = [q EXCEPT !.cancelled = TRUE]
    BY <1>1, <1>4 DEF Cancel, Local, Set
  <2>2. proc'[w].mem = q.mem
    BY <2>1, <1>1 DEF Call
  <2>3. QED
    BY <2>2 DEF Names
<1>5. CASE Start(w)
  <2> DEFINE frame == NewFrame(<<>>, Root, ResumeIndex(Root, q.mem.currentPath, 1),
                               q.mem.currentPath)
             m == [q.mem EXCEPT !.status = "running"]
  <2>1. \/ proc'[w] = [q EXCEPT !.pc = "return"]
        \/ proc'[w] = Persist(q, q.mem, "compensate")
        \/ proc'[w] = PersistThen(Push(q, frame), m)
    BY <1>1, <1>5 DEF Start, Local, Set
  <2>2. m.failedStepPath = q.mem.failedStepPath
    BY <1>1 DEF RunState
  <2>3. frame \in Frame
    <3>1. <<>> \in Path /\ q.mem.currentPath \in Path
      BY <1>1 DEF RunState, Path
    <3>2. QED
      BY <3>1, FrameType, ResumeIndexType, DefinitionAssumption
  <2> HIDE DEF frame, m
  <2>4. proc'[w].mem = q.mem \/ proc'[w].mem = m
    <3>1. [q EXCEPT !.pc = "return"].mem = q.mem
      BY <1>1, GotoIs
    <3>2. Persist(q, q.mem, "compensate").mem = q.mem
      BY <1>1, PersistIs
    <3>3. PersistThen(Push(q, frame), m).mem = m
      <4>1. Push(q, frame) \in Call
        BY <1>1, <2>3, PushType
      <4>2. QED
        BY <4>1, PersistThenIs
    <3>4. QED
      BY <2>1, <3>1, <3>2, <3>3
  <2>5. QED
    BY <2>2, <2>4 DEF Names
<1>6. QED
  BY <1>2, <1>3, <1>4, <1>5

\* No step sets the failed step of a call to anything but the path of its error.
LEMMA StepNames ==
  ASSUME TypeOK, Attribution, [Next]_vars, NEW v \in Worker
  PROVE  Names(proc[v], proc'[v])
<1>1. ASSUME NEW w \in Worker, NEW n, Set(w, n), Names(proc[w], proc'[w])
      PROVE  Names(proc[v], proc'[v])
  <2>1. v # w => proc'[v] = proc[v]
    BY <1>1 DEF Set, TypeOK
  <2>2. QED
    BY <2>1, <1>1 DEF Names
<1>2. ASSUME NEW w \in Worker, Ahead(proc[w], proc'[w]) PROVE Names(proc[w], proc'[w])
  BY <1>2 DEF Ahead, Names
<1>3. ASSUME NEW w \in Worker, WorkerStep(w) PROVE Names(proc[v], proc'[v])
  <2> USE <1>1, <1>3
  <2>1. CASE Start(w) \/ SnapshotOK(w) \/ SnapshotFailed(w) \/ Return(w)
    BY <2>1, CallNames DEF Start, SnapshotOK, SnapshotFailed, Return, Local
  <2>2. CASE SkipCompleted(w) \/ StopCancelled(w) \/ EnterStep(w) \/ ScopeDone(w)
    BY <2>2, <1>2, StepsAhead DEF SkipCompleted, StopCancelled, EnterStep, ScopeDone, Local
  <2>3. CASE \/ EnsureRepeatStarted(w) \/ CheckRepeatTimeout(w)
             \/ \E o \in Outcome : OnEnter(w, o)
    BY <2>3, <1>2, PrologueAhead DEF EnsureRepeatStarted, CheckRepeatTimeout, OnEnter, Local
  <2>4. CASE (\E o \in Outcome : Do(w, o)) \/ Sleep(w)
    BY <2>4, <1>2, ActionAhead DEF Do, Sleep, Local
  <2>5. CASE PollTimeout(w) \/ \E o \in Outcome \cup {"pending"} : Check(w, o)
    BY <2>5, <1>2, PollAhead DEF PollTimeout, Check, Local
  <2>6. CASE \/ ResumeBranch(w) \/ \E key \in Key : Decide(w, key)
             \/ \E o \in Outcome : DecideFailed(w, o)
    BY <2>6, <1>2, BranchAhead DEF ResumeBranch, Decide, DecideFailed, Local
  <2>7. CASE \/ BeginIteration(w) \/ UntilTimeout(w)
             \/ \E o \in Outcome \cup {"more"} : Until(w, o)
    BY <2>7, <1>2, RepeatAhead DEF BeginIteration, UntilTimeout, Until, Local
  <2>8. CASE RaiseCancelled(w) \/ Propagate(w) \/ RaiseNoCompensate(w) \/ RaiseFailure(w)
    BY <2>8, RaiseNames
       DEF RaiseCancelled, Propagate, RaiseNoCompensate, RaiseFailure, Local, Attribution
  <2>9. CASE \/ SkipCompensation(w) \/ CompensationCancelled(w) \/ CompensationDone(w)
             \/ \E o \in {"ok", "error", "retryafter", "context"} : Compensate(w, o)
    BY <2>9, CompensationNames
       DEF SkipCompensation, CompensationCancelled, CompensationDone, Compensate, Local
  <2>10. QED
    BY <2>1, <2>2, <2>3, <2>4, <2>5, <2>6, <2>7, <2>8, <2>9 DEF WorkerStep
<1>4. ASSUME NEW w \in Worker, Load(w) \/ SnapshotAckLost(w) \/ Crash(w) \/ Cancel(w)
      PROVE  Names(proc[v], proc'[v])
  BY <1>1, <1>4, CallNames DEF Load, SnapshotAckLost, Crash, Cancel, Local
<1>5. CASE Tick \/ UNCHANGED vars
  BY <1>5 DEF Tick, vars, Names
<1>6. QED
  BY <1>3, <1>4, <1>5 DEF Next, Terminated

\* FailedStepPath names the step at which the error started, at any depth and
\* with any number of workers.
THEOREM FailureKeepsPath == Spec => FailureKeepsItsPath
<1> DEFINE Named ==
      \A w \in Worker :
        /\ proc[w].pc # "idle" /\ proc'[w].pc # "idle"
        /\ proc'[w].mem.failedStepPath # proc[w].mem.failedStepPath
        => proc'[w].mem.failedStepPath = proc[w].err.path
<1>1. TypeOK /\ Attribution /\ [Next]_vars => Attribution'
  BY StepKeepsAttribution
<1>2. TypeOK /\ Attribution /\ [Next]_vars => [Named]_vars
  BY StepNames DEF Names
<1>3. QED
  BY <1>1, <1>2, InitAttribution, TypeCorrect, PTL DEF Spec, FailureKeepsItsPath

-----------------------------------------------------------------------------
(* Paths and the order of steps.                                           *)

\* The odd positions of a path hold steps, the even ones choices.
Odd(d) == d % 2 = 1

\* The scope of the step at position d of the path q.
ScopeOf(q, d) ==
  IF d = 1 THEN Root
  ELSE LET def == Def[q[d - 2]]
       IN IF def.kind = "branch" THEN def.paths[q[d - 1]] ELSE def.body

\* The paths a and q are the same up to position d.
Agree(a, q, d) == \A e \in 1..d : a[e] = q[e]

\* The path q leads to a, or strictly below itself to a.
Leads(q, a) == Len(q) <= Len(a) /\ Agree(q, a, Len(q))
Under(q, a) == Len(q) < Len(a) /\ Agree(q, a, Len(q))

\* At position d, up to which they are the same, a is not after q.
NotAfter(a, q, d) ==
  IF Odd(d)
    THEN \/ a[d] = q[d]
         \/ \E i, j \in DOMAIN ScopeOf(q, d) :
              i < j /\ ScopeOf(q, d)[i] = a[d] /\ ScopeOf(q, d)[j] = q[d]
    ELSE IF Def[q[d - 1]].kind = "repeat" THEN a[d] \in 0..q[d] ELSE a[d] = q[d]

\* Position d of the path q is a node of the definition.
NodeOf(q, d) ==
  IF Odd(d)
    THEN \E j \in DOMAIN ScopeOf(q, d) : ScopeOf(q, d)[j] = q[d]
    ELSE IF Def[q[d - 1]].kind = "repeat"
           THEN q[d] \in Nat
           ELSE Def[q[d - 1]].kind = "branch" /\ q[d] \in DOMAIN Def[q[d - 1]].paths

\* The paths J hold the step s at position d of q.
Listed(J, q, d, s) == \E a \in J : Len(a) = d /\ Agree(a, q, d - 1) /\ a[d] = s

\* The paths J hold the elder siblings of position d of q.
Elders(J, q, d) ==
  \A i, j \in DOMAIN ScopeOf(q, d) :
    i < j /\ ScopeOf(q, d)[j] = q[d] => Listed(J, q, d, ScopeOf(q, d)[i])

\* The path q is on the tree of the definition, and the completed paths J are what
\* comes before it: none is after it, of the steps around it the branches are
\* completed and the repeats are not, and the elder siblings of all are.
Route(J, q) ==
  /\ \A d \in DOMAIN q : NodeOf(q, d)
  /\ \A a \in J : \A d \in DOMAIN a : d \in DOMAIN q /\ Agree(a, q, d - 1) => NotAfter(a, q, d)
  /\ \A d \in DOMAIN q : Odd(d) =>
       /\ d < Len(q) => (Listed(J, q, d, q[d]) <=> Def[q[d]].kind = "branch")
       /\ Elders(J, q, d)

\* Odd and even numbers alternate.
LEMMA Parity ==
  ASSUME NEW d \in Nat
  PROVE  /\ Odd(d + 1) <=> ~Odd(d)
         /\ Odd(1) /\ ~Odd(0)
         /\ Odd(d) /\ d # 1 => d >= 3
         /\ ~Odd(d) /\ d # 0 => d >= 2 /\ Odd(d - 1)
BY DEF Odd

\* What the positions of a path say depends on the path up to them only.
LEMMA SameUpTo ==
  ASSUME NEW q \in Path, NEW r \in Path, NEW d \in DOMAIN q, d \in DOMAIN r, Agree(q, r, d)
  PROVE  /\ Odd(d) => ScopeOf(q, d) = ScopeOf(r, d)
         /\ NodeOf(q, d) <=> NodeOf(r, d)
         /\ \A a : NotAfter(a, q, d) <=> NotAfter(a, r, d)
         /\ \A J, s : Listed(J, q, d, s) <=> Listed(J, r, d, s)
         /\ \A J : Odd(d) => (Elders(J, q, d) <=> Elders(J, r, d))
<1>1. d \in Nat /\ d >= 1 /\ (Odd(d) /\ d # 1 => d >= 3) /\ (~Odd(d) => d >= 2)
  <2>1. d \in Nat /\ d >= 1 BY DEF Path
  <2> QED BY <2>1, Parity
<1>2. q[d] = r[d] BY <1>1 DEF Agree
<1>3. d >= 2 => q[d - 1] = r[d - 1] BY <1>1 DEF Agree
<1>4. d >= 3 => q[d - 2] = r[d - 2] BY <1>1 DEF Agree
<1>5. Odd(d) => ScopeOf(q, d) = ScopeOf(r, d) BY <1>1, <1>3, <1>4 DEF ScopeOf
<1>6. NodeOf(q, d) <=> NodeOf(r, d) BY <1>1, <1>2, <1>3, <1>5 DEF NodeOf
<1>7. \A a : NotAfter(a, q, d) <=> NotAfter(a, r, d)
  BY <1>1, <1>2, <1>3, <1>5 DEF NotAfter
<1>8. \A a : Agree(a, q, d - 1) <=> Agree(a, r, d - 1) BY <1>1 DEF Agree
<1>9. \A J, s : Listed(J, q, d, s) <=> Listed(J, r, d, s) BY <1>8 DEF Listed
<1>10. \A J : Odd(d) => (Elders(J, q, d) <=> Elders(J, r, d))
  BY <1>2, <1>5, <1>9 DEF Elders
<1> QED BY <1>5, <1>6, <1>7, <1>9, <1>10

\* A path on a route has the route up to it.
LEMMA RouteBack ==
  ASSUME NEW J, NEW q \in Path, NEW r \in Path, Route(J, q), Leads(r, q)
  PROVE  Route(J, r)
<1>1. Len(r) \in Nat /\ Len(q) \in Nat /\ Len(r) <= Len(q)
      /\ DOMAIN r = 1..Len(r) /\ DOMAIN q = 1..Len(q)
  BY DEF Path, Leads
<1>2. \A d \in DOMAIN r : d \in Nat /\ d \in DOMAIN q /\ Agree(q, r, d) /\ (d < Len(r) => d < Len(q))
  BY <1>1 DEF Leads, Agree
<1>3. \A d \in DOMAIN r : NodeOf(r, d) BY <1>2, SameUpTo DEF Route
<1>4. ASSUME NEW a \in J, NEW d \in DOMAIN a, d \in DOMAIN r, Agree(a, r, d - 1)
      PROVE  NotAfter(a, r, d)
  <2>1. Agree(a, q, d - 1) BY <1>2, <1>4 DEF Agree
  <2> QED BY <1>2, <1>4, <2>1, SameUpTo DEF Route
<1>5. ASSUME NEW d \in DOMAIN r, Odd(d)
      PROVE  /\ d < Len(r) => (Listed(J, r, d, r[d]) <=> Def[r[d]].kind = "branch")
             /\ Elders(J, r, d)
  <2>1. q[d] = r[d] BY <1>2 DEF Agree
  <2> QED BY <1>2, <1>5, <2>1, SameUpTo DEF Route
<1> QED BY <1>3, <1>4, <1>5 DEF Route

\* One more position of a path.
LEMMA RouteOn ==
  ASSUME NEW J \in SUBSET Path, NEW q \in Path, NEW c, Append(q, c) \in Path, Route(J, q),
         NEW d, d = Len(q) + 1,
         NodeOf(Append(q, c), d),
         \A a \in J : Under(q, a) => NotAfter(a, Append(q, c), d),
         Odd(d) => Elders(J, Append(q, c), d),
         Odd(Len(q)) => (Listed(J, q, Len(q), q[Len(q)]) <=> Def[q[Len(q)]].kind = "branch")
  PROVE  Route(J, Append(q, c))
<1> DEFINE r == Append(q, c)
<1>1. /\ Len(q) \in Nat /\ DOMAIN q = 1..Len(q) /\ DOMAIN r = 1..d /\ Len(r) = d
      /\ \A e \in 1..Len(q) : r[e] = q[e]
  BY DEF Path
<1>2. \A e \in DOMAIN q : e \in DOMAIN r /\ Agree(q, r, e) /\ e \in Nat /\ e <= Len(q)
  BY <1>1 DEF Agree
<1>3. \A e \in DOMAIN r : e \in DOMAIN q \/ e = d BY <1>1
<1>4. r \in Path /\ NodeOf(r, d) /\ (Odd(d) => Elders(J, r, d))
      /\ \A a \in J : Under(q, a) => NotAfter(a, r, d)
  OBVIOUS
<1> HIDE DEF r
<1>5. \A e \in DOMAIN r : NodeOf(r, e) BY <1>2, <1>3, <1>4, SameUpTo DEF Route
<1>6. ASSUME NEW a \in J, NEW e \in DOMAIN a, e \in DOMAIN r, Agree(a, r, e - 1)
      PROVE  NotAfter(a, r, e)
  <2>1. CASE e \in DOMAIN q
    <3>1. Agree(a, q, e - 1) BY <1>1, <1>6, <2>1 DEF Agree
    <3> QED BY <1>2, <1>4, <1>6, <2>1, <3>1, SameUpTo DEF Route
  <2>2. CASE e = d
    <3>1. Len(a) \in Nat /\ e \in 1..Len(a)
      <4>1. a \in Path OBVIOUS
      <4> QED BY <4>1, <1>6 DEF Path
    <3>2. Under(q, a) BY <1>1, <1>6, <2>2, <3>1 DEF Under, Agree
    <3> QED BY <1>4, <2>2, <3>2
  <2> QED BY <1>3, <1>6, <2>1, <2>2
<1>7. ASSUME NEW e \in DOMAIN r, Odd(e)
      PROVE  /\ e < Len(r) => (Listed(J, r, e, r[e]) <=> Def[r[e]].kind = "branch")
             /\ Elders(J, r, e)
  <2>1. CASE e \in DOMAIN q
    <3>1. r[e] = q[e] /\ (Listed(J, q, e, q[e]) <=> Def[q[e]].kind = "branch")
      BY <1>1, <1>2, <1>7, <2>1 DEF Route
    <3>2. Elders(J, q, e) BY <1>7, <2>1 DEF Route
    <3> QED BY <1>2, <1>4, <1>7, <2>1, <3>1, <3>2, SameUpTo
  <2>2. CASE e = d BY <1>1, <1>4, <1>7, <2>2
  <2> QED BY <1>3, <1>7, <2>1, <2>2
<1>8. Route(J, r) BY <1>5, <1>6, <1>7 DEF Route
<1> QED BY <1>8 DEF r

\* The route of a path is kept when something at or below the path is completed.
LEMMA RouteGrows ==
  ASSUME NEW J \in SUBSET Path, NEW q \in Path, NEW b \in Path, Route(J, q), Leads(q, b)
  PROVE  Route(J \cup {b}, q)
<1>1. /\ Len(q) \in Nat /\ Len(b) \in Nat /\ Len(q) <= Len(b) /\ DOMAIN q = 1..Len(q)
      /\ \A e \in 1..Len(q) : q[e] = b[e]
  BY DEF Path, Leads, Agree
<1>2. ASSUME NEW d \in DOMAIN q PROVE NotAfter(b, q, d)
  <2>1. b[d] = q[d] /\ NodeOf(q, d) BY <1>1, <1>2 DEF Route
  <2>2. CASE Odd(d) BY <2>1, <2>2 DEF NotAfter
  <2>3. CASE ~Odd(d) BY <2>1, <2>3 DEF NotAfter, NodeOf
  <2> QED BY <2>2, <2>3
<1>3. ASSUME NEW d \in DOMAIN q, d < Len(q), NEW s
      PROVE  Listed(J \cup {b}, q, d, s) <=> Listed(J, q, d, s)
  BY <1>1, <1>3 DEF Listed
<1>4. \A d, s : Listed(J, q, d, s) => Listed(J \cup {b}, q, d, s) BY DEF Listed
<1>5. \A d : Elders(J, q, d) => Elders(J \cup {b}, q, d) BY <1>4 DEF Elders
<1> QED BY <1>2, <1>3, <1>5 DEF Route

\* It is kept when completed steps below the path are forgotten.
LEMMA RouteLess ==
  ASSUME NEW J \in SUBSET Path, NEW K \in SUBSET J, NEW q \in Path, Route(J, q),
         \A a \in J \ K : Len(q) < Len(a)
  PROVE  Route(K, q)
<1>1. Len(q) \in Nat /\ DOMAIN q = 1..Len(q) BY DEF Path
<1>2. \A a \in J : Len(a) \in Nat BY DEF Path
<1>3. ASSUME NEW d \in DOMAIN q, NEW s PROVE Listed(K, q, d, s) <=> Listed(J, q, d, s)
  BY <1>1, <1>2, <1>3 DEF Listed
<1>4. \A d \in DOMAIN q : Elders(J, q, d) <=> Elders(K, q, d) BY <1>3 DEF Elders
<1> QED BY <1>3, <1>4 DEF Route

-----------------------------------------------------------------------------
(* Frames.                                                                 *)

\* The path of the step at position j of the frame f, and of the one it is at.
StepAt(f, j) == Append(f.base, f.steps[j])
Here(f) == StepAt(f, f.i)

\* The frame f is one of a scope of the definition.
Framed(f) ==
  /\ f.steps = ScopeAt(f.base) /\ ScopeOK(f.steps)
  /\ f.start <= f.i
  /\ ~Odd(Len(f.base))

\* The path of a step of a frame.
LEMMA StepAtIs ==
  ASSUME NEW f \in Frame, Framed(f), NEW j \in DOMAIN f.steps, NEW d, d = Len(f.base) + 1
  PROVE  LET x == StepAt(f, j) IN
         /\ x \in Path /\ d \in Nat /\ Len(x) = d /\ Odd(d) /\ DOMAIN x = 1..d
         /\ x[d] = f.steps[j] /\ ScopeOf(x, d) = f.steps
         /\ f.base \in Path /\ f.steps[j] \in Step /\ j \in Nat /\ f.i \in Nat /\ f.start \in Nat
         /\ Len(f.base) \in Nat /\ DOMAIN f.base = 1..Len(f.base)
         /\ \A e \in 1..Len(f.base) : x[e] = f.base[e]
         /\ Leads(f.base, x)
<1> DEFINE x == StepAt(f, j)
<1>1. f.base \in Path /\ f.steps \in Seq(Step) /\ f.i \in Nat /\ f.start \in Nat BY DEF Frame
<1>2. f.steps[j] \in Step /\ j \in Nat BY <1>1
<1>3. x \in Path BY <1>1, <1>2 DEF StepAt, Path, Segment
<1>4. /\ Len(f.base) \in Nat /\ Len(x) = d /\ x[d] = f.steps[j] /\ d \in Nat
      /\ DOMAIN x = 1..d /\ DOMAIN f.base = 1..Len(f.base)
      /\ \A e \in 1..Len(f.base) : x[e] = f.base[e]
  BY <1>1, <1>2 DEF StepAt, Path
<1>5. Odd(d) /\ (Len(f.base) # 0 => Len(f.base) >= 2) BY <1>4, Parity DEF Framed
<1>6. ScopeOf(x, d) = ScopeAt(f.base)
  <2>1. CASE Len(f.base) = 0
    <3>1. f.base = <<>> BY <1>1, <2>1 DEF Path
    <3> QED BY <1>4, <2>1, <3>1 DEF ScopeOf, ScopeAt
  <2>2. CASE Len(f.base) # 0
    <3>1. f.base # <<>> /\ d # 1 BY <1>1, <1>4, <2>2 DEF Path
    <3>2. x[d - 2] = f.base[Len(f.base) - 1] /\ x[d - 1] = f.base[Len(f.base)]
      BY <1>4, <1>5, <2>2
    <3> HIDE DEF x
    <3> QED BY <3>1, <3>2 DEF ScopeOf, ScopeAt, Last
  <2> QED BY <2>1, <2>2
<1>7. Leads(f.base, x) BY <1>4 DEF Leads, Agree
<1> HIDE DEF x
<1>8. ScopeOf(x, d) = f.steps BY <1>6 DEF Framed
<1> QED BY <1>1, <1>2, <1>3, <1>4, <1>5, <1>7, <1>8 DEF x

-----------------------------------------------------------------------------
(* What is known of a call at each point.                                  *)

\* A run with the completed paths J can be resumed at the path cp: what is completed
\* below cp, if anything, belongs to a step that is completed itself.
Resumable(J, cp) ==
  /\ Route(J, cp)
  /\ \A a \in J : Under(cp, a) => Odd(Len(cp)) /\ cp \in J

\* The loop over the scope of the frame f: the steps before the one it is at are
\* completed; the others are not, nor is anything below them, but for the step at
\* which the frame resumes, if it lies on the way to the current path.
Stands(J, cp, f) ==
  /\ Route(J, f.base)
  /\ \A j \in DOMAIN f.steps : j < f.i => Listed(J, StepAt(f, j), Len(f.base) + 1, f.steps[j])
  /\ \A a \in J : Under(f.base, a) =>
       \E j \in DOMAIN f.steps :
         /\ f.steps[j] = a[Len(f.base) + 1]
         /\ j < f.i \/ (j = f.i /\ f.i = f.start /\ Leads(StepAt(f, j), cp))
  /\ f.i = f.start => f.resume = cp
  /\ f.base # <<>> => Leads(Front(f.base), cp)

\* The step that the frame f is at is being executed.
Entered(J, cp, f) ==
  /\ f.i \in DOMAIN f.steps
  /\ Leads(Here(f), cp)
  /\ cp = Here(f) => cp \notin J

\* The repeat that the frame f is at asks whether to go on after iteration n.
Asking(J, cp, f, n) ==
  /\ f.i \in DOMAIN f.steps
  /\ Leads(Here(f), cp)
  /\ Here(f) \notin J
  /\ Def[f.steps[f.i]].kind = "repeat"
  /\ \A a \in J : Under(Here(f), a) => a[Len(Here(f)) + 1] \in 0..n

\* The order of paths.
LEMMA PathOrder ==
  ASSUME NEW q \in Path, NEW r \in Path, NEW a \in Path
  PROVE  /\ Leads(q, a) /\ Len(a) <= Len(q) => a = q
         /\ Leads(q, a) => a = q \/ Under(q, a)
         /\ Leads(q, r) /\ Leads(r, a) => Leads(q, a)
         /\ Leads(q, r) /\ Under(r, a) => Under(q, a)
         /\ Under(q, r) /\ Leads(r, a) => Under(q, a)
         /\ Leads(q, q) /\ ~Under(q, q)
         /\ Under(q, a) => Leads(q, a)
         /\ \A c : Append(q, c) \in Path => Leads(q, Append(q, c)) /\ ~Leads(Append(q, c), q)
                                            /\ Under(q, Append(q, c))
<1>0. Len(q) \in Nat /\ Len(r) \in Nat /\ Len(a) \in Nat BY DEF Path
<1>1. /\ Len(q) \in Nat /\ Len(r) \in Nat /\ Len(a) \in Nat
      /\ DOMAIN q = 1..Len(q) /\ DOMAIN a = 1..Len(a)
  BY DEF Path
<1>2. ASSUME Leads(q, a), Len(a) <= Len(q) PROVE a = q
  <2>1. Len(q) <= Len(a) BY <1>2 DEF Leads
  <2>2. Len(a) = Len(q) BY <1>0, <1>2, <2>1
  <2>3. \A e \in 1..Len(q) : q[e] = a[e] BY <1>2 DEF Leads, Agree
  <2>4. q \in Seq(Segment) /\ a \in Seq(Segment) BY DEF Path
  <2> QED BY <1>1, <2>2, <2>3, <2>4
<1>3. Leads(q, a) => a = q \/ Under(q, a) BY <1>1, <1>2 DEF Leads, Under
<1>4. Leads(q, r) /\ Leads(r, a) => Leads(q, a) BY <1>1 DEF Leads, Agree
<1>5. /\ Leads(q, r) /\ Under(r, a) => Under(q, a)
      /\ Under(q, r) /\ Leads(r, a) => Under(q, a)
  BY <1>1 DEF Leads, Under, Agree
<1>6. Leads(q, q) /\ ~Under(q, q) BY <1>1 DEF Leads, Under, Agree
<1>7. Under(q, a) => Leads(q, a) BY <1>1 DEF Leads, Under
<1>8. ASSUME NEW c, Append(q, c) \in Path
      PROVE  Leads(q, Append(q, c)) /\ ~Leads(Append(q, c), q) /\ Under(q, Append(q, c))
  <2>1. Len(Append(q, c)) = Len(q) + 1 /\ \A e \in 1..Len(q) : Append(q, c)[e] = q[e]
    BY <1>1 DEF Path
  <2> QED BY <1>1, <2>1 DEF Leads, Under, Agree
<1> QED BY <1>2, <1>3, <1>4, <1>5, <1>6, <1>7, <1>8

\* A path is listed where it ends if it is completed.
LEMMA ListedIs ==
  ASSUME NEW J \in SUBSET Path, NEW q \in Path, q # <<>>
  PROVE  Listed(J, q, Len(q), q[Len(q)]) <=> q \in J
<1>1. Len(q) \in Nat /\ Len(q) >= 1 BY DEF Path
<1>2. q \in J => Listed(J, q, Len(q), q[Len(q)]) BY <1>1 DEF Listed, Agree
<1>3. ASSUME NEW a \in J, Len(a) = Len(q), Agree(a, q, Len(q) - 1), a[Len(q)] = q[Len(q)]
      PROVE  a = q
  <2>1. a \in Path OBVIOUS
  <2>2. \A e \in 1..Len(q) : q[e] = a[e] BY <1>1, <1>3 DEF Agree
  <2>3. Leads(q, a) /\ Len(a) <= Len(q) BY <1>1, <1>3, <2>2 DEF Leads, Agree
  <2> QED BY <2>1, <2>3, PathOrder
<1> QED BY <1>2, <1>3 DEF Listed

\* The path of the step that the loop has come to.
LEMMA HereRoute ==
  ASSUME NEW J \in SUBSET Path, NEW cp \in Path, NEW f \in Frame, Framed(f),
         f.i \in DOMAIN f.steps, Stands(J, cp, f)
  PROVE  Route(J, Here(f))
<1> DEFINE d == Len(f.base) + 1
           x == StepAt(f, f.i)
<1>1. /\ x \in Path /\ d \in Nat /\ Len(x) = d /\ Odd(d) /\ x[d] = f.steps[f.i]
      /\ ScopeOf(x, d) = f.steps /\ f.base \in Path /\ Len(f.base) \in Nat
      /\ x = Append(f.base, f.steps[f.i]) /\ f.steps[f.i] \in Step
      /\ \A e \in 1..Len(f.base) : x[e] = f.base[e]
  BY StepAtIs DEF StepAt
<1>2. \A i, j \in DOMAIN f.steps : f.steps[i] = f.steps[j] => i = j BY DEF Framed, ScopeOK
<1>3. \A j \in DOMAIN f.steps : /\ Len(StepAt(f, j)) = d
                                /\ \A e \in 1..Len(f.base) : StepAt(f, j)[e] = f.base[e]
  BY StepAtIs
<1> HIDE DEF x
<1>4. NodeOf(x, d) BY <1>1 DEF NodeOf
<1>5. ASSUME NEW a \in J, Under(f.base, a) PROVE NotAfter(a, x, d)
  <2>1. PICK j \in DOMAIN f.steps : f.steps[j] = a[d] /\ (j < f.i \/ j = f.i) BY <1>5 DEF Stands
  <2> QED BY <1>1, <2>1 DEF NotAfter
<1>6. Elders(J, x, d)
  <2>1. ASSUME NEW i \in DOMAIN f.steps, NEW j \in DOMAIN f.steps, i < j, f.steps[j] = x[d]
        PROVE  Listed(J, x, d, f.steps[i])
    <3>1. j = f.i BY <1>1, <1>2, <2>1
    <3>2. Listed(J, StepAt(f, i), d, f.steps[i]) BY <2>1, <3>1 DEF Stands
    <3>3. \A a : Agree(a, x, d - 1) <=> Agree(a, StepAt(f, i), d - 1) BY <1>1, <1>3 DEF Agree
    <3> QED BY <3>2, <3>3 DEF Listed
  <2> QED BY <1>1, <2>1 DEF Elders
<1>7. Route(J, f.base) BY DEF Stands
<1>8. ~Odd(Len(f.base)) BY DEF Framed
<1>9. Route(J, Append(f.base, f.steps[f.i])) BY <1>1, <1>4, <1>5, <1>6, <1>7, <1>8, RouteOn
<1> QED BY <1>1, <1>9 DEF Here, x

\* What EnterStep makes the current path: the resume path of the frame if that leads
\* below the step, or else the path of the step.
Entering(f) ==
  IF f.i = f.start /\ Under(Here(f), f.resume) THEN f.resume ELSE Here(f)

\* The step that the loop enters is not completed.
LEMMA EnterIs ==
  ASSUME NEW J \in SUBSET Path, NEW cp \in Path, NEW f \in Frame, Framed(f),
         f.i \in DOMAIN f.steps, Stands(J, cp, f), Resumable(J, cp),
         ~(f.i = f.start /\ Here(f) = f.resume /\ Here(f) \in J)
  PROVE  Resumable(J, Entering(f)) /\ Entered(J, Entering(f), f)
<1> DEFINE d == Len(f.base) + 1
           x == Here(f)
<1>1. /\ x \in Path /\ Len(x) = d /\ x[d] = f.steps[f.i] /\ d \in Nat
      /\ f.i \in Nat /\ f.base \in Path /\ Leads(f.base, x) /\ x = StepAt(f, f.i)
      /\ Under(f.base, x)
  <2>1. /\ x \in Path /\ Len(x) = d /\ x[d] = f.steps[f.i] /\ d \in Nat
        /\ f.i \in Nat /\ f.base \in Path /\ Leads(f.base, x) /\ x = StepAt(f, f.i)
    BY StepAtIs DEF Here
  <2>2. Under(f.base, x) BY <2>1 DEF Under, Leads
  <2> QED BY <2>1, <2>2
<1>2. \A i, j \in DOMAIN f.steps : f.steps[i] = f.steps[j] => i = j BY DEF Framed, ScopeOK
<1>3. Route(J, x) BY HereRoute
<1>4. CASE f.i = f.start /\ Under(x, f.resume)
  <2>1. Entering(f) = cp /\ cp # x /\ Leads(x, cp)
    BY <1>1, <1>4, PathOrder DEF Entering, Stands
  <2> QED BY <2>1 DEF Entered
<1>5. CASE ~(f.i = f.start /\ Under(x, f.resume))
  <2>1. Entering(f) = x BY <1>5 DEF Entering
  <2>2. ASSUME NEW a \in J, Leads(x, a) PROVE FALSE
    <3>1. a \in Path /\ Under(f.base, a) /\ a[d] = x[d]
      <4>1. a \in Path OBVIOUS
      <4>2. a = x \/ Under(x, a) BY <4>1, <1>1, <2>2, PathOrder
      <4>3. Under(f.base, a) BY <4>1, <4>2, <1>1, PathOrder
      <4>4. a[d] = x[d] BY <1>1, <2>2 DEF Leads, Agree
      <4> QED BY <4>1, <4>3, <4>4
    <3>2. PICK j \in DOMAIN f.steps :
            /\ f.steps[j] = a[d]
            /\ j < f.i \/ (j = f.i /\ f.i = f.start /\ Leads(StepAt(f, j), cp))
      BY <3>1 DEF Stands
    <3>3. j = f.i BY <1>1, <1>2, <3>1, <3>2
    <3>4. f.i = f.start /\ Leads(x, cp) /\ f.resume = cp
      <4>1. f.i = f.start /\ Leads(x, cp) BY <1>1, <3>2, <3>3
      <4> QED BY <4>1 DEF Stands
    <3>5. cp = x BY <1>1, <1>5, <3>4, PathOrder
    <3>6. cp \in J
      <4>1. a = x \/ Under(x, a) BY <1>1, <3>1, <2>2, PathOrder
      <4> QED BY <4>1, <3>5 DEF Resumable
    <3> QED BY <3>4, <3>5, <3>6
  <2>3. x \notin J BY <1>1, <2>2, PathOrder
  <2>4. \A a \in J : ~Under(x, a) BY <1>1, <2>2, PathOrder
  <2> HIDE DEF x
  <2>5. Resumable(J, x) BY <1>3, <2>4 DEF Resumable
  <2>6. Leads(x, x) BY <1>1, PathOrder
  <2>7. Entered(J, x, f) BY <2>3, <2>6 DEF Entered, x
  <2> QED BY <2>1, <2>5, <2>7
<1> QED BY <1>4, <1>5

\* A step that is completed is passed by.
LEMMA DoneStands ==
  ASSUME NEW J \in SUBSET Path, NEW cp \in Path, NEW f \in Frame, Framed(f),
         f.i \in DOMAIN f.steps, NEW g \in Frame, g = [f EXCEPT !.i = @ + 1],
         Route(J, Here(f)), Here(f) \in J, Leads(Here(f), cp)
  PROVE  Stands(J, cp, g)
<1> DEFINE d == Len(f.base) + 1
           x == Here(f)
<1>1. /\ x \in Path /\ Len(x) = d /\ x[d] = f.steps[f.i] /\ d \in Nat /\ Odd(d) /\ DOMAIN x = 1..d
      /\ f.i \in Nat /\ f.start \in Nat /\ f.base \in Path /\ Leads(f.base, x)
      /\ Len(f.base) \in Nat
      /\ ScopeOf(x, d) = f.steps /\ \A e \in 1..Len(f.base) : x[e] = f.base[e]
  BY StepAtIs DEF Here
<1>2. \A i, j \in DOMAIN f.steps : f.steps[i] = f.steps[j] => i = j BY DEF Framed, ScopeOK
<1>3. /\ g.base = f.base /\ g.steps = f.steps /\ g.i = f.i + 1 /\ g.start = f.start
      /\ g.start # g.i
  <2>1. /\ g.base = f.base /\ g.steps = f.steps /\ g.i = f.i + 1 /\ g.start = f.start
    BY DEF Frame
  <2> QED BY <2>1, <1>1 DEF Framed
<1>4. \A j \in DOMAIN f.steps : j \in Nat /\ StepAt(g, j) = StepAt(f, j)
  BY <1>3 DEF StepAt, Frame
<1>5. Route(J, f.base) BY <1>1, RouteBack
<1>6. ASSUME NEW j \in DOMAIN f.steps, j < f.i + 1 PROVE Listed(J, StepAt(f, j), d, f.steps[j])
  <2>1. Listed(J, x, d, f.steps[j])
    <3>1. CASE j = f.i
      <4>1. x # <<>> BY <1>1
      <4> QED BY <4>1, <3>1, <1>1, ListedIs
    <3>2. CASE j # f.i
      <4>1. j < f.i BY <1>1, <1>4, <1>6, <3>2
      <4>2. Elders(J, x, d) BY <1>1 DEF Route
      <4> QED BY <4>1, <4>2, <1>1 DEF Elders
    <3> QED BY <3>1, <3>2
  <2>2. \A e \in 1..Len(f.base) : StepAt(f, j)[e] = f.base[e] BY StepAtIs
  <2>3. \A a : Agree(a, x, d - 1) <=> Agree(a, StepAt(f, j), d - 1) BY <1>1, <2>2 DEF Agree
  <2> QED BY <2>1, <2>3 DEF Listed
<1>7. ASSUME NEW a \in J, Under(f.base, a)
      PROVE  \E j \in DOMAIN f.steps : f.steps[j] = a[d] /\ j < f.i + 1
  <2>1. Len(a) \in Nat /\ DOMAIN a = 1..Len(a)
    <3>1. a \in Path OBVIOUS
    <3> QED BY <3>1 DEF Path
  <2>2. d \in DOMAIN a /\ d \in DOMAIN x /\ Agree(a, x, d - 1)
    BY <1>1, <1>7, <2>1 DEF Under, Agree
  <2>3. NotAfter(a, x, d) BY <2>2 DEF Route
  <2>4. CASE a[d] = x[d] BY <1>1, <2>4
  <2>5. CASE a[d] # x[d]
    <3>1. PICK i \in DOMAIN f.steps, j \in DOMAIN f.steps :
             i < j /\ f.steps[i] = a[d] /\ f.steps[j] = x[d]
      BY <1>1, <2>3, <2>5 DEF NotAfter
    <3>2. j = f.i BY <1>1, <1>2, <3>1
    <3> QED BY <1>1, <1>4, <3>1, <3>2
  <2> QED BY <2>4, <2>5
<1>8. f.base # <<>> => Leads(Front(f.base), cp)
  <2>1. SUFFICES ASSUME f.base # <<>> PROVE Leads(Front(f.base), cp) OBVIOUS
  <2>2. Front(f.base) \in Path /\ Len(Front(f.base)) = Len(f.base) - 1
        /\ \A e \in 1..(Len(f.base) - 1) : Front(f.base)[e] = f.base[e]
    BY <1>1, <2>1 DEF Front, Path
  <2>3. Leads(Front(f.base), x) BY <1>1, <2>2 DEF Leads, Agree
  <2> QED BY <1>1, <2>2, <2>3, PathOrder
<1> HIDE DEF x
<1>9. QED BY <1>3, <1>4, <1>5, <1>6, <1>7, <1>8 DEF Stands

\* The front of a path that is led to leads there too.
LEMMA FrontLeads ==
  ASSUME NEW q \in Path, NEW a \in Path, Leads(q, a), q # <<>>
  PROVE  Front(q) \in Path /\ Leads(Front(q), a)
<1>1. Len(q) \in Nat /\ Len(q) >= 1 /\ Len(a) \in Nat BY DEF Path
<1>2. q \in Seq(Segment) BY DEF Path
<1>3. PICK n \in Nat : Len(q) = n + 1
  <2>1. Len(q) - 1 \in Nat /\ Len(q) = (Len(q) - 1) + 1 BY <1>1
  <2> QED BY <2>1
<1>4. Len(q) - 1 = n BY <1>3
<1>5. SubSeq(q, 1, n) \in Seq(Segment) /\ Len(SubSeq(q, 1, n)) = n
      /\ \A e \in 1..n : SubSeq(q, 1, n)[e] = q[e]
  BY <1>1, <1>2, <1>3
<1>6. Front(q) \in Seq(Segment) /\ Len(Front(q)) = Len(q) - 1
      /\ \A e \in 1..(Len(q) - 1) : Front(q)[e] = q[e]
  BY <1>4, <1>5 DEF Front
<1>7. Front(q) \in Path BY <1>6 DEF Path
<1>8. Leads(Front(q), a) BY <1>1, <1>6 DEF Leads, Agree
<1> QED BY <1>7, <1>8

\* The front of an extended path.
LEMMA FrontAppend ==
  ASSUME NEW q \in Path, NEW c, Append(q, c) \in Path
  PROVE  Front(Append(q, c)) = q /\ Last(Append(q, c)) = c /\ Append(q, c) # <<>>
         /\ Len(Append(q, c)) = Len(q) + 1
<1> DEFINE r == Append(q, c)
<1>1. /\ q \in Seq(Segment) /\ r \in Seq(Segment) /\ Len(q) \in Nat /\ Len(r) = Len(q) + 1
      /\ DOMAIN q = 1..Len(q) /\ \A e \in 1..Len(q) : r[e] = q[e]
  BY DEF Path
<1>2. r[Len(r)] = c BY <1>1
<1>3. r # <<>> BY <1>1
<1> HIDE DEF r
<1>4. /\ Front(r) \in Seq(Segment) /\ Len(Front(r)) = Len(q)
      /\ \A e \in 1..Len(q) : Front(r)[e] = r[e]
  BY <1>1 DEF Front
<1>5. Front(r) = q BY <1>1, <1>4
<1>6. Front(r) = q /\ Last(r) = c /\ r # <<>> /\ Len(r) = Len(q) + 1
  BY <1>1, <1>2, <1>3, <1>5 DEF Last
<1> QED BY <1>6 DEF r

\* The frame of a scope that is resumed is at the step through which the current path goes.
LEMMA ResumeLeads ==
  ASSUME NEW J \in SUBSET Path, NEW cp \in Path, NEW f \in Frame, Framed(f),
         Route(J, cp), Leads(f.base, cp), Len(f.base) < Len(cp),
         f.i = ResumeIndex(f.steps, cp, Len(f.base) + 1)
  PROVE  /\ f.i \in DOMAIN f.steps /\ f.steps[f.i] = cp[Len(f.base) + 1] /\ Leads(Here(f), cp)
         /\ Len(f.base) + 1 \in DOMAIN cp /\ ScopeOf(cp, Len(f.base) + 1) = f.steps
<1> DEFINE d == Len(f.base) + 1
<1>1. /\ f.base \in Path /\ f.steps \in Seq(Step) /\ Len(f.base) \in Nat /\ Len(cp) \in Nat
      /\ d \in Nat /\ d >= 1 /\ DOMAIN cp = 1..Len(cp)
      /\ \A e \in 1..Len(f.base) : f.base[e] = cp[e]
  BY DEF Frame, Path, Leads, Agree
<1>2. d \in DOMAIN cp /\ Odd(d) /\ d <= Len(cp)
  <2>1. Odd(d) BY <1>1, Parity DEF Framed
  <2> QED BY <1>1, <2>1
<1>3. ScopeOf(cp, d) = f.steps
  <2>1. ASSUME Len(f.base) = 0 PROVE ScopeOf(cp, d) = ScopeAt(f.base)
    <3>1. f.base = <<>> BY <1>1, <2>1 DEF Path
    <3> QED BY <1>1, <2>1, <3>1 DEF ScopeOf, ScopeAt
  <2>2. ASSUME Len(f.base) # 0 PROVE ScopeOf(cp, d) = ScopeAt(f.base)
    <3>1. f.base # <<>> /\ d # 1 BY <1>1, <2>2 DEF Path
    <3>2. Len(f.base) >= 2 BY <1>1, <2>2, Parity DEF Framed
    <3>3. cp[d - 2] = f.base[Len(f.base) - 1] /\ cp[d - 1] = f.base[Len(f.base)]
      <4>1. /\ Len(f.base) - 1 \in 1..Len(f.base) /\ Len(f.base) \in 1..Len(f.base)
            /\ d - 2 = Len(f.base) - 1 /\ d - 1 = Len(f.base)
        BY <1>1, <3>2
      <4> HIDE DEF d
      <4> QED BY <1>1, <4>1
    <3> QED BY <3>1, <3>3 DEF ScopeOf, ScopeAt, Last
  <2>3. ScopeOf(cp, d) = ScopeAt(f.base) BY <2>1, <2>2
  <2> QED BY <2>3 DEF Framed
<1>4. \E j \in DOMAIN f.steps : f.steps[j] = cp[d] BY <1>2, <1>3 DEF Route, NodeOf
<1>5. f.i = CHOOSE j \in DOMAIN f.steps : f.steps[j] = cp[d] BY <1>2, <1>4 DEF ResumeIndex
<1>6. f.i \in DOMAIN f.steps /\ f.steps[f.i] = cp[d] BY <1>4, <1>5
<1>7. /\ Len(Here(f)) = d /\ Here(f)[d] = cp[d]
      /\ \A e \in 1..Len(f.base) : Here(f)[e] = f.base[e]
  BY <1>6, StepAtIs DEF Here
<1>8. Leads(Here(f), cp) BY <1>1, <1>2, <1>7 DEF Leads, Agree
<1> QED BY <1>2, <1>3, <1>6, <1>8

\* A scope on the way to the current path is resumed where that leads.
LEMMA ResumeStands ==
  ASSUME NEW J \in SUBSET Path, NEW cp \in Path, NEW f \in Frame, Framed(f),
         Resumable(J, cp), Leads(f.base, cp), f.i = f.start, f.resume = cp,
         f.start = ResumeIndex(f.steps, cp, Len(f.base) + 1)
  PROVE  Stands(J, cp, f)
<1> DEFINE d == Len(f.base) + 1
<1>1. /\ f.base \in Path /\ f.steps \in Seq(Step) /\ Len(f.base) \in Nat /\ Len(cp) \in Nat
      /\ d \in Nat /\ d >= 1 /\ Len(f.base) <= Len(cp) /\ DOMAIN cp = 1..Len(cp)
      /\ \A e \in 1..Len(f.base) : f.base[e] = cp[e]
  BY DEF Frame, Path, Leads, Agree
<1>2. Route(J, f.base) BY <1>1, RouteBack DEF Resumable
<1>3. f.base # <<>> => Leads(Front(f.base), cp) BY <1>1, FrontLeads
<1>4. \A j \in DOMAIN f.steps : j \in Nat /\ j >= 1 BY <1>1
<1>5. CASE Len(f.base) < Len(cp)
  <2>1. d \in DOMAIN cp /\ Odd(d) BY <1>1, <1>5, Parity DEF Framed
  <2>2. Route(J, cp) /\ f.i = ResumeIndex(f.steps, cp, Len(f.base) + 1) BY DEF Resumable
  <2>3. ScopeOf(cp, d) = f.steps BY <1>5, <2>2, ResumeLeads
  <2>4. Elders(J, cp, d) BY <2>1, <2>2 DEF Route
  <2>5. d <= Len(cp) BY <1>1, <1>5
  <2>6. f.i \in DOMAIN f.steps /\ f.steps[f.i] = cp[d] BY <1>5, <2>2, ResumeLeads
  <2>7. \A i, j \in DOMAIN f.steps : f.steps[i] = f.steps[j] => i = j BY DEF Framed, ScopeOK
  <2>8. ASSUME NEW j \in DOMAIN f.steps, j < f.i PROVE Listed(J, StepAt(f, j), d, f.steps[j])
    <3>1. Listed(J, cp, d, f.steps[j]) BY <2>3, <2>4, <2>6, <2>8 DEF Elders
    <3>2. \A e \in 1..Len(f.base) : StepAt(f, j)[e] = f.base[e] BY StepAtIs
    <3>3. \A a : Agree(a, cp, d - 1) <=> Agree(a, StepAt(f, j), d - 1) BY <1>1, <3>2 DEF Agree
    <3> QED BY <3>1, <3>3 DEF Listed
  <2>9. ASSUME NEW a \in J, Under(f.base, a)
         PROVE  \E j \in DOMAIN f.steps :
                  /\ f.steps[j] = a[d]
                  /\ j < f.i \/ (j = f.i /\ f.i = f.start /\ Leads(StepAt(f, j), cp))
    <3>1. Len(a) \in Nat /\ DOMAIN a = 1..Len(a)
      <4>1. a \in Path OBVIOUS
      <4> QED BY <4>1 DEF Path
    <3>2. d \in DOMAIN a /\ Agree(a, cp, d - 1) BY <1>1, <2>9, <3>1 DEF Under, Agree
    <3>3. NotAfter(a, cp, d) BY <2>1, <3>2 DEF Resumable, Route
    <3>4. CASE a[d] = cp[d]
      <4>1. /\ Len(StepAt(f, f.i)) = d /\ StepAt(f, f.i)[d] = cp[d]
            /\ \A e \in 1..Len(f.base) : StepAt(f, f.i)[e] = f.base[e]
        BY <2>6, StepAtIs
      <4>2. Leads(StepAt(f, f.i), cp) BY <1>1, <2>5, <4>1 DEF Leads, Agree
      <4> QED BY <2>6, <3>4, <4>2
    <3>5. CASE a[d] # cp[d]
      <4>1. PICK i \in DOMAIN f.steps, j \in DOMAIN f.steps :
               i < j /\ f.steps[i] = a[d] /\ f.steps[j] = cp[d]
        BY <2>1, <2>3, <3>3, <3>5 DEF NotAfter
      <4>2. j = f.i BY <2>6, <2>7, <4>1
      <4> QED BY <4>1, <4>2
    <3> QED BY <3>4, <3>5
  <2> QED BY <1>2, <1>3, <2>8, <2>9 DEF Stands
<1>6. CASE ~(Len(f.base) < Len(cp))
  <2>1. f.base = cp
    <3>1. Len(cp) <= Len(f.base) BY <1>1, <1>6
    <3> QED BY <1>1, <3>1, PathOrder
  <2>2. f.start = 1 BY <1>1, <1>6 DEF ResumeIndex
  <2>3. \A j \in DOMAIN f.steps : ~(j < f.i) BY <1>4, <2>2
  <2>4. \A a \in J : ~Under(f.base, a) BY <2>1 DEF Framed, Resumable
  <2> QED BY <1>2, <1>3, <2>3, <2>4 DEF Stands
<1> QED BY <1>5, <1>6

\* A scope below which nothing is completed is begun at its first step.
LEMMA FreshStands ==
  ASSUME NEW J \in SUBSET Path, NEW cp \in Path, NEW f \in Frame,
         Route(J, f.base), \A a \in J : ~Under(f.base, a),
         f.i = 1, f.start = 1, f.resume = cp,
         f.base # <<>> => Leads(Front(f.base), cp)
  PROVE  Stands(J, cp, f)
<1>1. \A j \in DOMAIN f.steps : ~(j < f.i) BY DEF Frame
<1> QED BY <1>1 DEF Stands

-----------------------------------------------------------------------------
(* The stack of frames.                                                    *)

\* The scope of the frame f is below the step that the frame u around it is at, in the
\* iteration that the repeat there counts.
Joined(f, u, m) ==
  /\ u.i \in DOMAIN u.steps
  /\ f.base = Append(Here(u), Last(f.base))
  /\ Def[u.steps[u.i]].kind = "repeat" => RepeatAt(m, Here(u)).iteration = Last(f.base)

\* The frames of a stack are scopes of the definition, each below the next one.
Chained(stack, m) ==
  /\ stack # <<>>
  /\ \A k \in DOMAIN stack : Framed(stack[k])
  /\ \A j, k \in DOMAIN stack : j < k => Len(stack[k].base) < Len(stack[j].base)
  /\ \A k \in 1..(Len(stack) - 1) : Joined(stack[k], stack[k + 1], m)

\* The states m and n count the same iterations at paths shorter than l.
Counts(m, n, l) ==
  \A x \in Path : Len(x) < l => RepeatAt(n, x).iteration = RepeatAt(m, x).iteration

\* A stack is kept by a change of the states of repeats at its innermost step and below.
LEMMA ChainKept ==
  ASSUME NEW stack \in Seq(Frame), NEW m, NEW n, Chained(stack, m),
         Counts(m, n, Len(stack[1].base) + 1)
  PROVE  Chained(stack, n)
<1>1. Len(stack) \in Nat /\ DOMAIN stack = 1..Len(stack) /\ Len(stack) >= 1
  BY DEF Chained
<1>2. ASSUME NEW k \in 1..(Len(stack) - 1) PROVE Joined(stack[k], stack[k + 1], n)
  <2>1. k \in Nat /\ k + 1 \in DOMAIN stack /\ 1 < k + 1 /\ 1 \in DOMAIN stack BY <1>1
  <2>2. Joined(stack[k], stack[k + 1], m) BY DEF Chained
  <2>3. Len(stack[k + 1].base) < Len(stack[1].base) BY <2>1 DEF Chained
  <2>4. stack[k + 1] \in Frame /\ stack[1] \in Frame /\ Framed(stack[k + 1])
    BY <2>1 DEF Chained
  <2>5. Here(stack[k + 1]) \in Path /\ Len(Here(stack[k + 1])) = Len(stack[k + 1].base) + 1
        /\ Len(stack[k + 1].base) \in Nat
    BY <2>2, <2>4, StepAtIs DEF Here, Joined
  <2>6. Len(stack[1].base) \in Nat
    <3>1. stack[1].base \in Path BY <2>4 DEF Frame
    <3> QED BY <3>1 DEF Path
  <2>7. Len(Here(stack[k + 1])) < Len(stack[1].base) + 1 BY <2>3, <2>5, <2>6
  <2> QED BY <2>2, <2>5, <2>7 DEF Joined, Counts
<1> QED BY <1>2 DEF Chained

\* A stack is kept by the move to the next step.
LEMMA ChainAdvance ==
  ASSUME NEW stack \in Seq(Frame), NEW m, Chained(stack, m),
         NEW g \in Frame, g = [stack[1] EXCEPT !.i = @ + 1]
  PROVE  Chained([stack EXCEPT ![1] = g], m)
<1> DEFINE t == [stack EXCEPT ![1] = g]
<1>1. Len(stack) \in Nat /\ DOMAIN stack = 1..Len(stack) /\ Len(stack) >= 1 /\ 1 \in DOMAIN stack
  BY DEF Chained
<1>2. /\ t \in Seq(Frame) /\ Len(t) = Len(stack) /\ DOMAIN t = DOMAIN stack /\ t[1] = g
      /\ \A k \in DOMAIN stack : k # 1 => t[k] = stack[k]
  BY <1>1
<1>3. stack[1] \in Frame BY <1>1
<1>4. /\ g.base = stack[1].base /\ g.steps = stack[1].steps /\ g.start = stack[1].start
      /\ g.i = stack[1].i + 1
  BY <1>3 DEF Frame
<1>5. Framed(g)
  <2>1. Framed(stack[1]) BY <1>1 DEF Chained
  <2>2. stack[1].start \in Nat /\ stack[1].i \in Nat BY <1>3 DEF Frame
  <2> QED BY <1>4, <2>1, <2>2 DEF Framed
<1> HIDE DEF t
<1>6. t # <<>> BY <1>1, <1>2
<1>7. \A k \in DOMAIN t : Framed(t[k]) /\ t[k].base = stack[k].base
  BY <1>2, <1>4, <1>5 DEF Chained
<1>8. \A j, k \in DOMAIN t : j < k => Len(t[k].base) < Len(t[j].base)
  BY <1>2, <1>7 DEF Chained
<1>9. ASSUME NEW k \in 1..(Len(t) - 1) PROVE Joined(t[k], t[k + 1], m)
  <2>1. k \in DOMAIN t /\ k + 1 \in DOMAIN t /\ k + 1 # 1 BY <1>1, <1>2
  <2>2. Joined(stack[k], stack[k + 1], m) BY <1>2 DEF Chained
  <2>3. t[k + 1] = stack[k + 1] /\ t[k].base = stack[k].base BY <1>2, <1>7, <2>1
  <2> QED BY <2>2, <2>3 DEF Joined
<1>10. Chained(t, m) BY <1>6, <1>7, <1>8, <1>9 DEF Chained
<1> QED BY <1>10 DEF t

\* A stack with a nested scope.
LEMMA ChainPush ==
  ASSUME NEW stack \in Seq(Frame), NEW m, Chained(stack, m),
         NEW f \in Frame, Framed(f), Joined(f, stack[1], m)
  PROVE  Chained(<<f>> \o stack, m)
<1> DEFINE t == <<f>> \o stack
<1>1. Len(stack) \in Nat /\ DOMAIN stack = 1..Len(stack) /\ Len(stack) >= 1 /\ 1 \in DOMAIN stack
  BY DEF Chained
<1>2. /\ t \in Seq(Frame) /\ Len(t) = Len(stack) + 1 /\ t[1] = f /\ DOMAIN t = 1..(Len(stack) + 1)
      /\ \A k \in 2..(Len(stack) + 1) : t[k] = stack[k - 1]
  BY <1>1
<1> HIDE DEF t
<1>3. stack[1] \in Frame /\ Framed(stack[1]) BY <1>1 DEF Chained
<1>4. Here(stack[1]) \in Path /\ Len(Here(stack[1])) = Len(stack[1].base) + 1
      /\ Len(stack[1].base) \in Nat
  BY <1>3, StepAtIs DEF Here, Joined
<1>5. Len(f.base) = Len(stack[1].base) + 2
  <2>1. f.base = Append(Here(stack[1]), Last(f.base)) BY DEF Joined
  <2>2. f.base \in Path BY DEF Frame
  <2>3. Len(f.base) = Len(Here(stack[1])) + 1 BY <1>4, <2>1, <2>2, FrontAppend
  <2> QED BY <1>4, <2>3
<1>6. \A k \in DOMAIN stack : /\ Len(stack[k].base) \in Nat
                              /\ Len(stack[k].base) <= Len(stack[1].base)
  <2>1. SUFFICES ASSUME NEW k \in DOMAIN stack
                 PROVE  Len(stack[k].base) \in Nat /\ Len(stack[k].base) <= Len(stack[1].base)
    OBVIOUS
  <2>2. Len(stack[k].base) \in Nat
    <3>1. stack[k] \in Frame OBVIOUS
    <3> QED BY <3>1 DEF Frame, Path
  <2>3. k = 1 \/ 1 < k BY <1>1
  <2>4. 1 < k => Len(stack[k].base) < Len(stack[1].base) BY <1>1 DEF Chained
  <2> QED BY <1>4, <2>2, <2>3, <2>4
<1>7. \A k \in DOMAIN t : k = 1 \/ (k \in 2..(Len(stack) + 1) /\ k - 1 \in DOMAIN stack)
  BY <1>1, <1>2
<1>8. \A k \in DOMAIN t : Framed(t[k]) BY <1>2, <1>7 DEF Chained
<1>9. ASSUME NEW j \in DOMAIN t, NEW k \in DOMAIN t, j < k
      PROVE  Len(t[k].base) < Len(t[j].base)
  <2>1. j \in Nat /\ k \in Nat /\ k # 1 /\ j >= 1 BY <1>1, <1>2, <1>9
  <2>2. t[k] = stack[k - 1] /\ k - 1 \in DOMAIN stack BY <1>2, <1>7, <2>1
  <2>3. CASE j = 1 BY <1>2, <1>4, <1>5, <1>6, <2>2, <2>3
  <2>4. CASE j # 1
    <3>1. t[j] = stack[j - 1] /\ j - 1 \in DOMAIN stack BY <1>2, <1>7, <2>4
    <3>2. j - 1 < k - 1 BY <2>1, <1>9
    <3> QED BY <2>2, <3>1, <3>2 DEF Chained
  <2> QED BY <2>3, <2>4
<1>10. ASSUME NEW k \in 1..(Len(t) - 1) PROVE Joined(t[k], t[k + 1], m)
  <2>1. k \in Nat /\ k + 1 \in 2..(Len(stack) + 1) /\ t[k + 1] = stack[k] BY <1>1, <1>2
  <2>2. CASE k = 1 BY <1>2, <2>1, <2>2
  <2>3. CASE k # 1
    <3>1. k - 1 \in 1..(Len(stack) - 1) /\ (k - 1) + 1 = k /\ t[k] = stack[k - 1]
      BY <1>1, <1>2, <2>1, <2>3
    <3>2. Joined(stack[k - 1], stack[(k - 1) + 1], m) BY <3>1 DEF Chained
    <3> QED BY <2>1, <3>1, <3>2
  <2> QED BY <2>2, <2>3
<1>11. t # <<>> BY <1>1, <1>2
<1>12. Chained(t, m) BY <1>8, <1>9, <1>10, <1>11 DEF Chained
<1> QED BY <1>12 DEF t

\* A stack whose innermost scope is done.
LEMMA ChainPop ==
  ASSUME NEW stack \in Seq(Frame), NEW m, Chained(stack, m), Len(stack) > 1
  PROVE  /\ Chained(Tail(stack), m) /\ Tail(stack) \in Seq(Frame)
         /\ Tail(stack)[1] = stack[2] /\ Joined(stack[1], stack[2], m)
<1> DEFINE t == Tail(stack)
<1>1. Len(stack) \in Nat /\ DOMAIN stack = 1..Len(stack) /\ Len(stack) >= 2
  OBVIOUS
<1>2. /\ t \in Seq(Frame) /\ Len(t) = Len(stack) - 1 /\ DOMAIN t = 1..(Len(stack) - 1)
      /\ \A k \in 1..(Len(stack) - 1) : t[k] = stack[k + 1]
  BY <1>1
<1> HIDE DEF t
<1>3. \A k \in DOMAIN t : k \in Nat /\ k + 1 \in DOMAIN stack BY <1>1, <1>2
<1>4. \A k \in DOMAIN t : Framed(t[k]) BY <1>2, <1>3 DEF Chained
<1>5. \A j, k \in DOMAIN t : j < k => Len(t[k].base) < Len(t[j].base)
  <2>1. \A j, k \in DOMAIN t : j < k => j + 1 < k + 1 BY <1>3
  <2> QED BY <1>2, <1>3, <2>1 DEF Chained
<1>6. ASSUME NEW k \in 1..(Len(t) - 1) PROVE Joined(t[k], t[k + 1], m)
  <2>1. k + 1 \in 1..(Len(stack) - 1) /\ t[k] = stack[k + 1] /\ t[k + 1] = stack[(k + 1) + 1]
    BY <1>1, <1>2
  <2> QED BY <2>1 DEF Chained
<1>7. t # <<>> BY <1>1, <1>2
<1>8. Chained(t, m) BY <1>4, <1>5, <1>6, <1>7 DEF Chained
<1>9. 1 \in 1..(Len(stack) - 1) /\ 1 + 1 = 2 BY <1>1
<1>10. t[1] = stack[2] /\ Joined(stack[1], stack[2], m) BY <1>2, <1>9 DEF Chained
<1> QED BY <1>2, <1>8, <1>10 DEF t

\* The scope of a step: its body, or the path of the branch that the key names.
LEMMA ScopeBelow ==
  ASSUME NEW x \in Path, x # <<>>, Odd(Len(x)), Last(x) \in Step, NEW c \in Key \cup Nat,
         NEW start \in Nat \ {0}, NEW resume \in Path,
         NEW steps, \/ /\ Def[Last(x)].kind = "branch" /\ c \in DOMAIN Def[Last(x)].paths
                       /\ steps = Def[Last(x)].paths[c]
                    \/ /\ Def[Last(x)].kind # "branch" /\ steps = Def[Last(x)].body
  PROVE  LET f == NewFrame(Append(x, c), steps, start, resume) IN
         /\ f \in Frame /\ Framed(f) /\ Append(x, c) \in Path
         /\ f.base = Append(x, c) /\ f.steps = steps /\ f.start = start /\ f.i = start
         /\ f.resume = resume
<1> DEFINE f == NewFrame(Append(x, c), steps, start, resume)
<1>1. Append(x, c) \in Path /\ steps \in Seq(Step)
  <2>1. Append(x, c) \in Path BY AppendKey
  <2>2. steps \in Seq(Step) BY StepType
  <2> QED BY <2>1, <2>2
<1>2. f \in Frame BY <1>1, FrameType
<1>3. /\ f.base = Append(x, c) /\ f.steps = steps /\ f.start = start /\ f.i = start
      /\ f.resume = resume
  BY DEF NewFrame
<1> HIDE DEF f
<1>4. Len(x) \in Nat BY DEF Path
<1>5. ScopeAt(f.base) = steps
  <2>1. f.base # <<>> /\ Last(f.base) = c /\ Len(f.base) = Len(x) + 1
    BY <1>1, <1>3, FrontAppend
  <2>2. Len(f.base) - 1 = Len(x) /\ Len(x) \in 1..Len(x)
    <3>1. Len(x) # 0 BY DEF Path
    <3> QED BY <1>4, <2>1, <3>1
  <2>3. f.base[Len(x)] = x[Len(x)] BY <1>3, <2>2 DEF Path
  <2>4. f.base[Len(f.base) - 1] = Last(x) BY <2>2, <2>3 DEF Last
  <2> QED BY <2>1, <2>4 DEF ScopeAt
<1>6. ScopeOK(steps) BY DefinitionAssumption DEF StepOK
<1>7. ~Odd(Len(f.base))
  <2>1. Len(f.base) = Len(x) + 1 BY <1>1, <1>3, FrontAppend
  <2> QED BY <1>4, <2>1, Parity
<1>8. f.start <= f.i BY <1>3
<1>9. Framed(f) BY <1>3, <1>5, <1>6, <1>7, <1>8 DEF Framed
<1>10. QED BY <1>1, <1>2, <1>3, <1>9 DEF f

\* The top level is a scope.
LEMMA ScopeTop ==
  ASSUME NEW start \in Nat \ {0}, NEW resume \in Path
  PROVE  LET f == NewFrame(<<>>, Root, start, resume) IN
         /\ f \in Frame /\ Framed(f)
         /\ f.base = <<>> /\ f.steps = Root /\ f.start = start /\ f.i = start
         /\ f.resume = resume
<1>1. <<>> \in Path /\ ~Odd(Len(<<>>))
  <2>1. Len(<<>>) = 0 /\ <<>> \in Path BY DEF Path
  <2> QED BY <2>1, Parity
<1>2. NewFrame(<<>>, Root, start, resume) \in Frame BY <1>1, FrameType, DefinitionAssumption
<1> QED BY <1>1, <1>2, DefinitionAssumption DEF Framed, NewFrame, ScopeAt

-----------------------------------------------------------------------------
(* The states of repeats and the journal.                                  *)

\* What the states of repeats count depends on these states only.
LEMMA CountsSame ==
  ASSUME NEW m \in RunState, NEW n, n.repeats = m.repeats, NEW l
  PROVE  Counts(m, n, l)
BY DEF Counts, RepeatAt

\* States that hold the same at a path read the same there.
LEMMA RepeatsRead ==
  ASSUME NEW m, NEW n, NEW x,
         \A q : (q \in n.repeats /\ q.path = x) = (q \in m.repeats /\ q.path = x)
  PROVE  RepeatAt(n, x) = RepeatAt(m, x)
<1>1. (\E q \in n.repeats : q.path = x) <=> (\E q \in m.repeats : q.path = x) OBVIOUS
<1>2. (CHOOSE q \in n.repeats : q.path = x) = (CHOOSE q \in m.repeats : q.path = x) OBVIOUS
<1> QED BY <1>1, <1>2 DEF RepeatAt

\* The state of a repeat that is set is read, and those of the others are not changed.
LEMMA SetRepeatIs ==
  ASSUME NEW m \in RunState, NEW r \in RepeatState
  PROVE  /\ RepeatAt(SetRepeat(m, r), r.path) = r
         /\ \A x : x # r.path => RepeatAt(SetRepeat(m, r), x) = RepeatAt(m, x)
         /\ SetRepeat(m, r).completed = m.completed /\ SetRepeat(m, r).status = m.status
         /\ SetRepeat(m, r).currentPath = m.currentPath
<1> DEFINE n == SetRepeat(m, r)
<1>1. /\ n.repeats = {q \in m.repeats : q.path # r.path} \cup {r}
      /\ n.completed = m.completed /\ n.status = m.status /\ n.currentPath = m.currentPath
  BY DEF SetRepeat, RunState
<1> HIDE DEF n
<1>2. RepeatAt(n, r.path) = r
  <2>1. r \in n.repeats /\ \A q \in n.repeats : q.path = r.path => q = r BY <1>1
  <2> QED BY <2>1 DEF RepeatAt
<1>3. ASSUME NEW x, x # r.path PROVE RepeatAt(n, x) = RepeatAt(m, x)
  <2>1. \A q : (q \in n.repeats /\ q.path = x) = (q \in m.repeats /\ q.path = x) BY <1>1, <1>3
  <2> QED BY <2>1, RepeatsRead
<1> QED BY <1>1, <1>2, <1>3 DEF n

\* The state of a repeat below which nothing is forgotten is not changed.
LEMMA CompactRepeats ==
  ASSUME NEW m \in RunState, NEW y, NEW x, ~IsPrefix(y, x)
  PROVE  RepeatAt(Compact(m, y), x) = RepeatAt(m, x)
<1> DEFINE n == Compact(m, y)
<1>1. n.repeats = {r \in m.repeats : ~IsPrefix(y, r.path)} BY DEF Compact, RunState
<1> HIDE DEF n
<1>2. \A q : (q \in n.repeats /\ q.path = x) = (q \in m.repeats /\ q.path = x) BY <1>1
<1>3. RepeatAt(n, x) = RepeatAt(m, x) BY <1>2, RepeatsRead
<1> QED BY <1>3 DEF n

\* The journal with one more completion.
LEMMA CompletePaths ==
  ASSUME NEW m \in RunState, NEW path \in Path, NEW compensator \in BOOLEAN
  PROVE  CompletedPaths(Complete(m, path, compensator)) = CompletedPaths(m) \cup {path}
<1> DEFINE e == [path |-> path, compensator |-> compensator]
           n == Complete(m, path, compensator)
<1>1. m.completed \in Seq(Completion) BY DEF RunState
<1>2. e \in Completion BY DEF Completion
<1>3. n.completed = Append(m.completed, e) BY DEF Complete, RunState
<1> HIDE DEF n
<1>4. /\ DOMAIN n.completed = DOMAIN m.completed \cup {Len(m.completed) + 1}
      /\ n.completed[Len(m.completed) + 1] = e
      /\ \A k \in DOMAIN m.completed : n.completed[k] = m.completed[k]
  BY <1>1, <1>2, <1>3
<1>5. e.path = path OBVIOUS
<1> HIDE DEF e
<1>6. CompletedPaths(n) = CompletedPaths(m) \cup {path} BY <1>4, <1>5 DEF CompletedPaths
<1> QED BY <1>6 DEF n

\* Every member of a finite set of positions is the k-th one for some k.
LEMMA NthOnto ==
  ASSUME NEW n \in Nat, NEW K \in SUBSET (1..n), NEW i \in K
  PROVE  \E k \in 1..Cardinality(K) : Nth(K, k) = i
<1> DEFINE Upto(j) == {x \in K : x <= j}
           k == Cardinality(Upto(i))
<1>1. \A j \in K : j \in Nat OBVIOUS
<1>2. IsFiniteSet(K) /\ Cardinality(K) \in Nat
  <2>1. IsFiniteSet(1..n) BY FS_Interval
  <2>2. IsFiniteSet(K) BY <2>1, FS_Subset
  <2> QED BY <2>2, FS_CardinalityType
<1>3. \A j \in K : IsFiniteSet(Upto(j)) /\ Cardinality(Upto(j)) \in Nat
  <2>1. ASSUME NEW j \in K PROVE IsFiniteSet(Upto(j)) /\ Cardinality(Upto(j)) \in Nat
    <3>1. IsFiniteSet(Upto(j)) BY <1>2, FS_Subset
    <3> QED BY <3>1, FS_CardinalityType
  <2> QED BY <2>1
<1>4. k \in Nat /\ k <= Cardinality(K)
  <2>1. Upto(i) \in SUBSET K OBVIOUS
  <2>2. Cardinality(Upto(i)) <= Cardinality(K) BY <1>2, <2>1, FS_Subset
  <2> QED BY <1>3, <2>2
<1>5. k >= 1
  <2>1. i \in Upto(i) BY <1>1
  <2>2. Upto(i) # {} BY <2>1
  <2>3. k # 0 BY <1>3, <2>2, FS_EmptySet
  <2> QED BY <1>4, <2>3
<1>a. ASSUME NEW S \in SUBSET K, NEW T \in SUBSET S, Cardinality(S) = Cardinality(T)
      PROVE  S = T
  <2>1. IsFiniteSet(S) BY <1>2, FS_Subset
  <2> QED BY <2>1, <1>a, FS_Subset
<1>6. ASSUME NEW j \in K, Cardinality(Upto(j)) = k PROVE j = i
  <2>1. j \in Nat /\ i \in Nat BY <1>1
  <2>2. i \in Upto(i) /\ j \in Upto(j) /\ Upto(i) \in SUBSET K /\ Upto(j) \in SUBSET K BY <1>1
  <2>3. Cardinality(Upto(i)) = Cardinality(Upto(j)) BY <1>6
  <2>4. Upto(j) \in SUBSET Upto(i) \/ Upto(i) \in SUBSET Upto(j) => Upto(i) = Upto(j)
    <3> HIDE DEF Upto
    <3> QED BY <1>a, <2>2, <2>3
  <2>5. CASE j < i
    <3>0. \A x \in K : x <= j => x <= i BY <1>1, <2>1, <2>5
    <3>1. Upto(j) \in SUBSET Upto(i) BY <3>0
    <3>2. Upto(j) = Upto(i) BY <2>4, <3>1
    <3>3. ~(i <= j) BY <2>1, <2>5
    <3> QED BY <2>2, <3>2, <3>3
  <2>6. CASE i < j
    <3>0. \A x \in K : x <= i => x <= j BY <1>1, <2>1, <2>6
    <3>1. Upto(i) \in SUBSET Upto(j) BY <3>0
    <3>2. Upto(j) = Upto(i) BY <2>4, <3>1
    <3>3. ~(j <= i) BY <2>1, <2>6
    <3> QED BY <2>2, <3>2, <3>3
  <2> QED BY <2>1, <2>5, <2>6
<1>7. k \in 1..Cardinality(K) BY <1>2, <1>4, <1>5
<1>8. \A j \in K : Cardinality(Upto(j)) = k <=> j = i BY <1>6
<1>9. Nth(K, k) = CHOOSE j \in K : Cardinality(Upto(j)) = k BY DEF Nth
<1> HIDE DEF k, Upto
<1>10. Nth(K, k) = i BY <1>8, <1>9
<1> QED BY <1>7, <1>10

\* Compaction forgets completed steps of the iteration, and no others.
LEMMA CompactPaths ==
  ASSUME NEW m \in RunState, NEW y
  PROVE  /\ CompletedPaths(Compact(m, y)) \in SUBSET CompletedPaths(m)
         /\ \A a \in CompletedPaths(m) \ CompletedPaths(Compact(m, y)) : IsPrefix(y, a)
         /\ Compact(m, y).status = m.status /\ Compact(m, y).currentPath = m.currentPath
<1> DEFINE K == {k \in DOMAIN m.completed : ~IsPrefix(y, m.completed[k].path)}
           n == Compact(m, y)
           s == m.completed
<1>1. s \in Seq(Completion) /\ Len(s) \in Nat /\ DOMAIN s = 1..Len(s) BY DEF RunState
<1>2. K \in SUBSET (1..Len(s)) BY <1>1
<1>3. n.completed = Subsequence(s, K) /\ n.status = m.status /\ n.currentPath = m.currentPath
  BY DEF Compact, RunState
<1>4. \A k \in K : ~IsPrefix(y, s[k].path) OBVIOUS
<1>5. \A k \in DOMAIN s : k \notin K => IsPrefix(y, s[k].path) OBVIOUS
<1>6. CompletedPaths(m) = {s[k].path : k \in DOMAIN s} BY DEF CompletedPaths
<1>7. CompletedPaths(n) = {n.completed[k].path : k \in DOMAIN n.completed} BY DEF CompletedPaths
<1> HIDE DEF n, K, s
<1>8. DOMAIN n.completed = 1..Cardinality(K)
      /\ \A k \in 1..Cardinality(K) : n.completed[k] = s[Nth(K, k)]
  BY <1>3 DEF Subsequence
<1>9. ASSUME NEW k \in 1..Cardinality(K) PROVE n.completed[k].path \in CompletedPaths(m)
  <2>1. Nth(K, k) \in DOMAIN s BY <1>1, <1>2, NthMember
  <2> QED BY <1>6, <1>8, <2>1
<1>10. ASSUME NEW i \in K PROVE s[i].path \in CompletedPaths(n)
  <2>1. PICK k \in 1..Cardinality(K) : Nth(K, k) = i BY <1>1, <1>2, NthOnto
  <2> QED BY <1>7, <1>8, <2>1
<1>11. CompletedPaths(n) \in SUBSET CompletedPaths(m) BY <1>7, <1>8, <1>9
<1>12. \A a \in CompletedPaths(m) \ CompletedPaths(n) : IsPrefix(y, a) BY <1>5, <1>6, <1>10
<1> QED BY <1>3, <1>11, <1>12 DEF n

\* A path is a prefix of those it leads to.
LEMMA PrefixLeads ==
  ASSUME NEW q \in Path, NEW a \in Path
  PROVE  /\ IsPrefix(q, a) <=> Leads(q, a)
         /\ IsStrictPrefix(q, a) <=> Under(q, a)
<1>1. /\ q \in Seq(Segment) /\ a \in Seq(Segment) /\ Len(q) \in Nat /\ Len(a) \in Nat
      /\ DOMAIN q = 1..Len(q) /\ DOMAIN a = 1..Len(a)
  BY DEF Path
<1>2. ASSUME Len(q) <= Len(a)
      PROVE  (SubSeq(q, 1, Len(q)) = SubSeq(a, 1, Len(q))) <=> Agree(q, a, Len(q))
  <2>0. SubSeq(q, 1, Len(q)) = q BY <1>1
  <2>1. /\ SubSeq(a, 1, Len(q)) \in Seq(Segment) /\ Len(SubSeq(a, 1, Len(q))) = Len(q)
        /\ \A e \in 1..Len(q) : SubSeq(a, 1, Len(q))[e] = a[e]
    BY <1>1, <1>2
  <2>2. ASSUME Agree(q, a, Len(q)) PROVE q = SubSeq(a, 1, Len(q))
    BY <1>1, <2>1, <2>2 DEF Agree
  <2>3. ASSUME q = SubSeq(a, 1, Len(q)) PROVE Agree(q, a, Len(q)) BY <2>1, <2>3 DEF Agree
  <2> QED BY <2>0, <2>2, <2>3
<1>3. IsPrefix(q, a) <=> Leads(q, a) BY <1>2 DEF IsPrefix, Leads
<1>4. q = a => Len(q) = Len(a) OBVIOUS
<1>5. Leads(q, a) /\ q # a => Under(q, a)
  <2>1. Leads(q, a) => a = q \/ Under(q, a) BY PathOrder
  <2> QED BY <2>1
<1>6. Under(q, a) => Leads(q, a) /\ q # a
  <2>1. Len(q) \in Nat /\ Len(a) \in Nat BY <1>1
  <2>2. Under(q, a) => Leads(q, a) /\ Len(q) # Len(a) BY <2>1 DEF Under, Leads
  <2> QED BY <1>4, <2>2
<1> QED BY <1>3, <1>5, <1>6 DEF IsStrictPrefix

-----------------------------------------------------------------------------
(* The position of a run.                                                  *)

\* Where the call p goes on once its snapshot, if it is at one, is written.
Heading(p) == IF p.pc = "snapshot" THEN p.next ELSE p.pc

\* The labels inside the step that the innermost frame is at.
InStep == {"repeatStart", "repeatCheck", "onEnter", "call", "sleep"}

\* The run m goes forward.
GoesForward(m) == m.status \in {"new", "running", "polling"}

\* The run m, if it goes forward, can be resumed from what it holds.
Sound(m) == GoesForward(m) => Resumable(CompletedPaths(m), m.currentPath)

\* A call that holds m and has the innermost frame f is at l, on its way forward.
Going(l, m, f) ==
  /\ m.status = "running"
  /\ l = "steps" => Stands(CompletedPaths(m), m.currentPath, f)
  /\ l \in InStep => Entered(CompletedPaths(m), m.currentPath, f)
  /\ l = "until" =>
       Asking(CompletedPaths(m), m.currentPath, f, RepeatAt(m, Here(f)).iteration)

\* What the call p holds is sound as long as it may become durable, and its frames
\* follow it.
Placed(p) ==
  /\ Heading(p) = "start" => p.stack = <<>> /\ ~IsTerminal(p.mem)
  /\ Heading(p) \in Forward => Chained(p.stack, p.mem) /\ Going(Heading(p), p.mem, p.stack[1])
  /\ p.pc \notin {"idle", "return"}
       /\ (p.pc = "raise" => ~p.cancelled /\ p.err.kind = "nocompensate") => Sound(p.mem)

\* Every call is where its journal says, and so is a run that is resumed.
Position == Sound(store) /\ \A w \in Worker : Placed(proc[w])

\* The completed paths are paths.
LEMMA PathsType ==
  ASSUME NEW m \in RunState
  PROVE  CompletedPaths(m) \in SUBSET Path /\ m.currentPath \in Path
<1>1. m.completed \in Seq(Completion) /\ m.currentPath \in Path BY DEF RunState
<1>2. \A k \in DOMAIN m.completed : m.completed[k] \in Completion BY <1>1
<1>3. \A k \in DOMAIN m.completed : m.completed[k].path \in Path BY <1>2 DEF Completion
<1> QED BY <1>1, <1>3 DEF CompletedPaths

\* What is known of a call at a step.
LEMMA AtPlaced ==
  ASSUME NEW q \in Call, Placed(q), NEW l \in Forward, At(q, l)
  PROVE  LET f == q.stack[1]
             J == CompletedPaths(q.mem)
             cp == q.mem.currentPath
         IN
         /\ q.mem \in RunState /\ q.stack \in Seq(Frame) /\ q.stack # <<>> /\ q.pc = l
         /\ f \in Frame /\ Framed(f) /\ f.i \in DOMAIN f.steps
         /\ Top(q) = f /\ StepOf(q) = f.steps[f.i] /\ StepPath(q) = Here(f)
         /\ StepOf(q) \in Step /\ Here(f) \in Path /\ J \in SUBSET Path /\ cp \in Path
         /\ Chained(q.stack, q.mem) /\ q.mem.status = "running" /\ Going(l, q.mem, f)
         /\ Sound(q.mem) /\ Resumable(J, cp)
         /\ l # "steps" => Leads(Here(f), cp)
         /\ Route(J, Here(f))
<1> DEFINE f == q.stack[1]
           J == CompletedPaths(q.mem)
           cp == q.mem.currentPath
<1>1. q.mem \in RunState /\ q.stack \in Seq(Frame) /\ q.stack # <<>> /\ q.pc = l BY DEF At, Call
<1>2. 1 \in DOMAIN q.stack /\ Top(q) = f BY <1>1 DEF Top
<1>3. f \in Frame /\ f.i \in DOMAIN f.steps BY <1>1, <1>2 DEF At
<1>4. StepOf(q) = f.steps[f.i] /\ StepPath(q) = Here(f)
  BY <1>2 DEF StepOf, StepPath, Here, StepAt
<1>5. StepOf(q) \in Step /\ Here(f) \in Path BY <1>4, AtType
<1>6. J \in SUBSET Path /\ cp \in Path BY <1>1, PathsType
<1>7. Heading(q) = l /\ q.pc \notin {"idle", "return", "raise"} BY <1>1 DEF Heading, Forward
<1>8. Chained(q.stack, q.mem) /\ Going(l, q.mem, f) /\ Sound(q.mem) BY <1>7 DEF Placed
<1>9. Framed(f) BY <1>2, <1>8 DEF Chained
<1>10. q.mem.status = "running" BY <1>8 DEF Going
<1>11. Resumable(J, cp) BY <1>8, <1>10 DEF Sound, GoesForward
<1>12. l # "steps" => Leads(Here(f), cp)
  BY <1>8 DEF Going, Forward, InStep, Entered, Asking
<1> HIDE DEF f, J, cp
<1>13. Route(J, Here(f))
  <2>1. CASE l = "steps"
    <3>1. Stands(J, cp, f) BY <2>1, <1>8 DEF Going, f, J, cp
    <3> QED BY <3>1, <1>3, <1>6, <1>9, HereRoute
  <2>2. CASE l # "steps" BY <2>2, <1>5, <1>6, <1>11, <1>12, RouteBack DEF Resumable
  <2> QED BY <2>1, <2>2
<1> QED BY <1>1, <1>2, <1>3, <1>4, <1>5, <1>6, <1>8, <1>9, <1>10, <1>11, <1>12, <1>13 DEF f, J, cp

\* A call that has left the forward path.
LEMMA PlacedOff ==
  ASSUME NEW p, Heading(p) \notin Forward \cup {"start"},
         \/ p.pc \in {"idle", "return"}
         \/ p.pc = "raise" /\ (p.cancelled \/ p.err.kind # "nocompensate")
         \/ Sound(p.mem)
  PROVE  Placed(p)
BY DEF Placed

\* A call that fails.
LEMMA PlacedFail ==
  ASSUME NEW q \in Call, NEW kind, NEW path, kind # "nocompensate" \/ Sound(q.mem)
  PROVE  Placed(Fail(q, kind, path))
<1> DEFINE n == Fail(q, kind, path)
<1>1. n.pc = "raise" /\ n.mem = q.mem /\ n.err.kind = kind BY FailIs
<1> HIDE DEF n
<1>2. Heading(n) \notin Forward \cup {"start"} BY <1>1 DEF Heading, Forward
<1>3. Placed(n) BY <1>1, <1>2, PlacedOff
<1> QED BY <1>3 DEF n

\* A call that writes its last snapshot, or one that begins a rollback.
LEMMA PlacedPersist ==
  ASSUME NEW q \in Call, NEW m, NEW l \in {"return", "compensate"}, Sound(m)
  PROVE  Placed(Persist(q, m, l))
<1> DEFINE n == Persist(q, m, l)
<1>1. n.pc = "snapshot" /\ n.mem = m /\ n.next = l BY PersistIs
<1> HIDE DEF n
<1>2. Heading(n) \notin Forward \cup {"start"} BY <1>1 DEF Heading, Forward
<1>3. Placed(n) BY <1>1, <1>2, PlacedOff
<1> QED BY <1>3 DEF n

\* A call on the forward path.
LEMMA PlacedOn ==
  ASSUME NEW p, Heading(p) \in Forward, Chained(p.stack, p.mem),
         Going(Heading(p), p.mem, p.stack[1]), Sound(p.mem)
  PROVE  Placed(p)
BY DEF Placed, Forward

\* What is sound stays so when neither the journal nor the current path changes.
LEMMA SoundSame ==
  ASSUME NEW m, NEW n, n.completed = m.completed, n.currentPath = m.currentPath,
         Sound(m), GoesForward(n) => GoesForward(m)
  PROVE  Sound(n)
BY DEF Sound, CompletedPaths

\* Where a call is does not change when neither does, and the iterations are the same.
LEMMA GoingSame ==
  ASSUME NEW m, NEW n, n.completed = m.completed, n.currentPath = m.currentPath,
         n.status = m.status, NEW f, NEW l, Going(l, m, f),
         RepeatAt(n, Here(f)).iteration = RepeatAt(m, Here(f)).iteration
  PROVE  Going(l, n, f)
BY DEF Going, CompletedPaths

\* Inside a step it does not matter where.
LEMMA GoingOn ==
  ASSUME NEW m, NEW f, NEW k \in InStep, NEW l \in InStep, Going(k, m, f)
  PROVE  Going(l, m, f)
BY DEF Going, InStep

-----------------------------------------------------------------------------
(* The ways of a step.                                                     *)

\* What a route says at a step that lies on it: a branch, which is completed, or a
\* repeat, which is not and has completed nothing in a later iteration.
LEMMA Along ==
  ASSUME NEW J \in SUBSET Path, NEW x \in Path, x # <<>>, Odd(Len(x)), NEW q \in Path,
         Under(x, q), Route(J, q)
  PROVE  LET def == Def[Last(x)]
             c == q[Len(x) + 1]
         IN
         /\ x \in J <=> def.kind = "branch"
         /\ def.kind = "repeat" =>
              c \in Nat /\ \A a \in J : Under(x, a) => a[Len(x) + 1] \in 0..c
         /\ def.kind # "repeat" => def.kind = "branch" /\ c \in DOMAIN def.paths
<1> DEFINE d == Len(x)
           c == q[d + 1]
<1>1. /\ d \in Nat /\ d >= 1 /\ DOMAIN x = 1..d /\ Len(q) \in Nat /\ DOMAIN q = 1..Len(q)
      /\ d + 1 <= Len(q) /\ \A e \in 1..d : x[e] = q[e]
  BY DEF Path, Under, Agree
<1>2. x[d] = Last(x) /\ q[d] = Last(x) BY <1>1 DEF Last
<1>3. d \in DOMAIN q /\ d \in DOMAIN x /\ d < Len(q) /\ d + 1 \in DOMAIN q /\ ~Odd(d + 1)
      /\ (d + 1) - 1 = d
  <2>1. ~Odd(d + 1)
    <3>1. d \in Nat BY <1>1
    <3> QED BY <3>1, Parity
  <2> QED BY <1>1, <2>1
<1>4. x \in J <=> Def[Last(x)].kind = "branch"
  <2>1. Listed(J, q, d, q[d]) <=> Def[q[d]].kind = "branch" BY <1>3 DEF Route
  <2>2. Agree(x, q, d) BY <1>1 DEF Agree
  <2>3. Listed(J, x, d, q[d]) <=> Listed(J, q, d, q[d]) BY <1>3, <2>2, SameUpTo
  <2>4. Listed(J, x, d, x[d]) <=> x \in J BY ListedIs
  <2> QED BY <1>2, <2>1, <2>3, <2>4
<1>5. NodeOf(q, d + 1) BY <1>3 DEF Route
<1>6. ASSUME Def[Last(x)].kind = "repeat", NEW a \in J, Under(x, a) PROVE a[d + 1] \in 0..c
  <2>1. Len(a) \in Nat /\ DOMAIN a = 1..Len(a)
    <3>1. a \in Path OBVIOUS
    <3> QED BY <3>1 DEF Path
  <2>2. d + 1 \in DOMAIN a /\ Agree(a, q, (d + 1) - 1) BY <1>1, <1>6, <2>1 DEF Under, Agree
  <2>3. NotAfter(a, q, d + 1) BY <1>3, <2>2 DEF Route
  <2> QED BY <1>2, <1>3, <1>6, <2>3 DEF NotAfter
<1> QED BY <1>2, <1>3, <1>4, <1>5, <1>6 DEF NodeOf

\* An action or a poll has nothing below it.
LEMMA LeafPath ==
  ASSUME NEW J \in SUBSET Path, NEW x \in Path, x # <<>>, Odd(Len(x)), NEW cp \in Path,
         Leads(x, cp), Route(J, cp), Def[Last(x)].kind \in {"action", "poll"}
  PROVE  cp = x
<1>1. SUFFICES ASSUME Under(x, cp) PROVE FALSE BY PathOrder
<1> QED BY <1>1, Along

\* A completed step is where a run can be resumed.
LEMMA DoneSound ==
  ASSUME NEW J \in SUBSET Path, NEW x \in Path, Odd(Len(x)), Route(J, x)
  PROVE  Route(J \cup {x}, x) /\ Resumable(J \cup {x}, x) /\ x \in J \cup {x}
<1>1. Leads(x, x) BY PathOrder
<1>2. Route(J \cup {x}, x) BY <1>1, RouteGrows
<1> QED BY <1>2 DEF Resumable

\* The path of a step that a frame is at.
LEMMA HereIs ==
  ASSUME NEW f \in Frame, Framed(f), f.i \in DOMAIN f.steps
  PROVE  /\ Here(f) \in Path /\ Here(f) # <<>> /\ Odd(Len(Here(f)))
         /\ Last(Here(f)) = f.steps[f.i] /\ f.steps[f.i] \in Step
         /\ Len(Here(f)) = Len(f.base) + 1 /\ Len(f.base) \in Nat
<1>1. LET x == Here(f) IN
      /\ x \in Path /\ Len(x) = Len(f.base) + 1 /\ Odd(Len(x)) /\ Len(f.base) \in Nat
      /\ x[Len(f.base) + 1] = f.steps[f.i] /\ f.steps[f.i] \in Step
  BY StepAtIs DEF Here
<1>2. Len(Here(f)) # 0 BY <1>1
<1>3. Here(f) # <<>> BY <1>2
<1> QED BY <1>1, <1>3 DEF Last

\* The step of the frame st[1] is completed, and the loop goes on.
LEMMA DoneOn ==
  ASSUME NEW st \in Seq(Frame), NEW k \in RunState, Chained(st, k), NEW m \in RunState,
         Counts(k, m, Len(st[1].base) + 1), st[1].i \in DOMAIN st[1].steps,
         m.status = "running", Sound(m), Route(CompletedPaths(m), Here(st[1])),
         Here(st[1]) \in CompletedPaths(m), Leads(Here(st[1]), m.currentPath),
         NEW n, n.mem = m, n.stack = [st EXCEPT ![1].i = @ + 1], Heading(n) = "steps"
  PROVE  Placed(n)
<1> DEFINE f == st[1]
           g == [f EXCEPT !.i = @ + 1]
           t == [st EXCEPT ![1] = g]
<1>1. st # <<>> /\ 1 \in DOMAIN st /\ f \in Frame BY DEF Chained
<1>2. Framed(f) BY <1>1 DEF Chained
<1>3. g \in Frame
  <2>1. f.i \in Nat BY <1>1 DEF Frame
  <2>2. f.i + 1 \in Nat \ {0} BY <2>1
  <2> QED BY <1>1, <2>2 DEF Frame
<1>4. n.stack = t /\ t[1] = g BY <1>1
<1>5. Chained(st, m) BY ChainKept
<1>6. Chained(t, m) BY <1>3, <1>5, ChainAdvance
<1>7. CompletedPaths(m) \in SUBSET Path /\ m.currentPath \in Path BY PathsType
<1> HIDE DEF t
<1>8. Stands(CompletedPaths(m), m.currentPath, g) BY <1>1, <1>2, <1>3, <1>7, DoneStands
<1> HIDE DEF g
<1>9. Going("steps", m, g) BY <1>8 DEF Going, InStep
<1> QED BY <1>4, <1>6, <1>9, PlacedOn DEF Forward

\* The scope of the frame f, below the step that the frame u is at, is done.
LEMMA BodyDone ==
  ASSUME NEW J \in SUBSET Path, NEW cp \in Path, NEW f \in Frame, Framed(f), NEW u \in Frame,
         Framed(u), Stands(J, cp, f), NEW m, Joined(f, u, m)
  PROVE  /\ Leads(Here(u), cp) /\ Route(J, Here(u))
         /\ Def[u.steps[u.i]].kind = "branch" => Here(u) \in J
         /\ Def[u.steps[u.i]].kind = "repeat" => Asking(J, cp, u, RepeatAt(m, Here(u)).iteration)
<1> DEFINE x == Here(u)
           c == Last(f.base)
<1>1. /\ x \in Path /\ x # <<>> /\ Odd(Len(x)) /\ Last(x) = u.steps[u.i] /\ u.i \in DOMAIN u.steps
      /\ Len(x) \in Nat
  BY HereIs DEF Joined, Path
<1>2. f.base \in Path /\ f.base = Append(x, c) BY DEF Frame, Joined
<1> HIDE DEF x, c
<1>3. /\ Front(f.base) = x /\ f.base # <<>> /\ Len(f.base) = Len(x) + 1
      /\ Under(x, f.base) /\ Leads(x, f.base)
  BY <1>1, <1>2, FrontAppend, PathOrder
<1>4. f.base[Len(x) + 1] = c BY <1>3 DEF Last, c
<1>5. Leads(x, cp) BY <1>3 DEF Stands
<1>6. Route(J, f.base) /\ Route(J, x) BY <1>1, <1>2, <1>3, RouteBack DEF Stands
<1>7. /\ x \in J <=> Def[Last(x)].kind = "branch"
      /\ Def[Last(x)].kind = "repeat" => \A a \in J : Under(x, a) => a[Len(x) + 1] \in 0..c
  <2> DEFINE e == f.base[Len(x) + 1]
  <2>1. /\ x \in J <=> Def[Last(x)].kind = "branch"
        /\ Def[Last(x)].kind = "repeat" => \A a \in J : Under(x, a) => a[Len(x) + 1] \in 0..e
    BY <1>1, <1>2, <1>3, <1>6, Along
  <2> QED BY <1>4, <2>1
<1>8. Def[u.steps[u.i]].kind = "repeat" => RepeatAt(m, x).iteration = c
  BY DEF Joined, x, c
<1>9. Def[u.steps[u.i]].kind = "repeat" => Asking(J, cp, u, RepeatAt(m, x).iteration)
  BY <1>1, <1>5, <1>7, <1>8 DEF Asking, x
<1> QED BY <1>1, <1>5, <1>6, <1>7, <1>9 DEF x

-----------------------------------------------------------------------------
(* The actions keep the position.                                          *)

\* The worker has no call.
LEMMA PlacedNoCall == Placed(NoCall)
BY PlacedOff DEF NoCall, Heading, Forward

\* The next step of a call.
LEMMA AdvanceIsNext ==
  ASSUME NEW q \in Call
  PROVE  /\ Advance(q).pc = q.pc /\ Advance(q).mem = q.mem /\ Advance(q).err = q.err
         /\ Advance(q).stack = [q.stack EXCEPT ![1].i = @ + 1]
         /\ [Advance(q) EXCEPT !.pc = "steps"].pc = "steps"
         /\ [Advance(q) EXCEPT !.pc = "steps"].stack = [q.stack EXCEPT ![1].i = @ + 1]
BY DEF Advance, Call

\* A snapshot after which the loop goes on with the next step.
LEMMA NextIs ==
  ASSUME NEW q \in Call, q.stack # <<>>, NEW m
  PROVE  LET n == PersistThen([Advance(q) EXCEPT !.pc = "steps"], m) IN
         /\ n.mem = m /\ Heading(n) = "steps" /\ n.stack = [q.stack EXCEPT ![1].i = @ + 1]
<1> DEFINE on == [Advance(q) EXCEPT !.pc = "steps"]
<1>1. on \in Call /\ on.pc = "steps" /\ on.stack = [q.stack EXCEPT ![1].i = @ + 1]
  BY AdvanceType, AdvanceIsNext, GotoType DEF Label
<1> HIDE DEF on
<1>2. LET n == PersistThen(on, m) IN
      n.mem = m /\ n.pc = "snapshot" /\ n.next = "steps" /\ n.stack = on.stack
  BY <1>1, PersistThenIs
<1>3. LET n == PersistThen(on, m) IN
      n.mem = m /\ Heading(n) = "steps" /\ n.stack = [q.stack EXCEPT ![1].i = @ + 1]
  BY <1>1, <1>2 DEF Heading
<1> QED BY <1>3 DEF on

\* The loop over a scope.
LEMMA StepsPlaced ==
  ASSUME TypeOK, NEW w \in Worker, Placed(proc[w]),
         SkipCompleted(w) \/ StopCancelled(w) \/ EnterStep(w)
  PROVE  Placed(proc'[w])
<1> DEFINE q == proc[w]
           m == q.mem
           f == q.stack[1]
           J == CompletedPaths(m)
           cp == m.currentPath
<1>1. q \in Call /\ proc \in [Worker -> Call] BY DEF TypeOK
<1>2. At(q, "steps") BY DEF SkipCompleted, StopCancelled, EnterStep
<1>3. /\ m \in RunState /\ q.stack \in Seq(Frame) /\ q.stack # <<>> /\ q.pc = "steps"
      /\ f \in Frame /\ Framed(f) /\ f.i \in DOMAIN f.steps
      /\ Top(q) = f /\ StepOf(q) = f.steps[f.i] /\ StepPath(q) = Here(f)
      /\ StepOf(q) \in Step /\ Here(f) \in Path /\ J \in SUBSET Path /\ cp \in Path
      /\ Chained(q.stack, m) /\ m.status = "running" /\ Going("steps", m, f)
      /\ Sound(m) /\ Resumable(J, cp) /\ Route(J, Here(f))
  BY <1>1, <1>2, AtPlaced DEF Forward
<1>4. Stands(J, cp, f) BY <1>3 DEF Going
<1>5. CASE SkipCompleted(w)
  <2>1. proc'[w] = Advance(q) BY <1>1, <1>5 DEF SkipCompleted, Local, Set
  <2>2. Here(f) \in J /\ cp = Here(f)
    BY <1>3, <1>4, <1>5 DEF SkipCompleted, Resumed, Stands
  <2>3. Leads(Here(f), cp) BY <1>3, <2>2, PathOrder
  <2> DEFINE n == Advance(q)
  <2>4. n.mem = m /\ n.stack = [q.stack EXCEPT ![1].i = @ + 1] /\ n.pc = "steps"
    BY <1>1, <1>3, AdvanceIsNext
  <2>5. Counts(m, m, Len(f.base) + 1) BY <1>3, CountsSame
  <2> HIDE DEF n, m
  <2>6. Heading(n) = "steps" BY <2>4 DEF Heading
  <2>7. Placed(n) BY <1>3, <2>2, <2>3, <2>4, <2>5, <2>6, DoneOn
  <2> QED BY <2>1, <2>7 DEF n
<1>6. CASE StopCancelled(w)
  <2> DEFINE p == [q EXCEPT !.mem.currentPath = StepPath(q),
                            !.err = [kind |-> "context", path |-> <<>>]]
  <2>1. proc'[w] = Unwind(p) BY <1>1, <1>6 DEF StopCancelled, Local, Set
  <2>2. p \in Call BY <1>1, <1>3, ContextType
  <2>3. p.err.kind = "context" BY <1>1 DEF Call
  <2> HIDE DEF p
  <2>4. Unwind(p).pc \in {"raise", "return"} /\ Unwind(p).err.kind = "context"
    BY <2>2, <2>3, UnwindIs
  <2>5. Heading(Unwind(p)) \notin Forward \cup {"start"} BY <2>4 DEF Heading, Forward
  <2> QED BY <2>1, <2>4, <2>5, PlacedOff
<1>7. CASE EnterStep(w)
  <2> DEFINE deeper == Top(q).i = Top(q).start /\ IsStrictPrefix(StepPath(q), Top(q).resume)
             path == IF deeper THEN Top(q).resume ELSE StepPath(q)
             n == [q EXCEPT !.mem.currentPath = path, !.attempt = 0, !.pc = Prologue(StepOf(q))]
  <2>1. proc'[w] = n BY <1>1, <1>7 DEF EnterStep, Local, Set
  <2>2. path = Entering(f)
    <3>1. f.resume \in Path BY <1>3 DEF Frame
    <3>2. IsStrictPrefix(Here(f), f.resume) <=> Under(Here(f), f.resume)
      BY <1>3, <3>1, PrefixLeads
    <3> QED BY <1>3, <3>2 DEF Entering
  <2> HIDE DEF path
  <2>3. ~(f.i = f.start /\ Here(f) = f.resume /\ Here(f) \in J)
    BY <1>3, <1>7 DEF EnterStep, Resumed
  <2>4. Resumable(J, path) /\ Entered(J, path, f) BY <1>3, <1>4, <2>2, <2>3, EnterIs
  <2>5. /\ n.mem.completed = m.completed /\ n.mem.currentPath = path /\ n.mem.status = m.status
        /\ n.mem.repeats = m.repeats /\ n.stack = q.stack /\ n.pc = Prologue(StepOf(q))
    BY <1>1, <1>3 DEF Call, RunState
  <2>6. n.pc \in InStep /\ n.pc # "snapshot" BY <2>5 DEF Prologue, Dispatch, InStep
  <2>7. Counts(m, n.mem, Len(f.base) + 1) BY <1>3, <2>5, CountsSame
  <2> HIDE DEF n
  <2>8. Chained(n.stack, n.mem) BY <1>3, <2>5, <2>7, ChainKept
  <2>9. CompletedPaths(n.mem) = J BY <2>5 DEF CompletedPaths
  <2>10. Sound(n.mem) BY <2>4, <2>5, <2>9 DEF Sound
  <2>11. Heading(n) = n.pc /\ n.pc \in Forward BY <2>6 DEF Heading, InStep, Forward
  <2>12. Going(n.pc, n.mem, n.stack[1]) BY <1>3, <2>4, <2>5, <2>6, <2>9 DEF Going, InStep
  <2> QED BY <2>1, <2>8, <2>10, <2>11, <2>12, PlacedOn
<1> QED BY <1>5, <1>6, <1>7

\* The end of a scope.
LEMMA ScopePlaced ==
  ASSUME TypeOK, NEW w \in Worker, Placed(proc[w]), ScopeDone(w)
  PROVE  Placed(proc'[w])
<1> DEFINE q == proc[w]
           m == q.mem
           st == Tail(q.stack)
           f == q.stack[1]
           u == st[1]
           J == CompletedPaths(m)
           cp == m.currentPath
           up == [q EXCEPT !.stack = Tail(@)]
           r == RepeatAt(m, StepPath(up))
           done == Persist([q EXCEPT !.stack = <<>>], [m EXCEPT !.status = "completed"], "return")
           more == [up EXCEPT !.mem = SetRepeat(m, [r EXCEPT !.awaiting = TRUE]), !.pc = "until"]
<1>1. /\ q \in Call /\ proc \in [Worker -> Call] /\ m \in RunState /\ q.stack \in Seq(Frame)
      /\ q.stack # <<>> /\ q.pc = "steps"
  BY DEF TypeOK, Call, ScopeDone
<1>2. Chained(q.stack, m) /\ Going("steps", m, f) /\ Sound(m)
  BY <1>1 DEF Placed, Heading, Forward
<1>3. J \in SUBSET Path /\ cp \in Path BY <1>1, PathsType
<1>4. m.status = "running" /\ Stands(J, cp, f) /\ Resumable(J, cp)
  BY <1>2 DEF Going, Sound, GoesForward
<1>5. f \in Frame /\ Framed(f)
  <2>1. 1 \in DOMAIN q.stack BY <1>1
  <2> QED BY <1>1, <1>2, <2>1 DEF Chained
<1>6. CASE proc'[w] = done
  <2> DEFINE p == [q EXCEPT !.stack = <<>>]
             k == [m EXCEPT !.status = "completed"]
  <2>1. k.status = "completed" BY <1>1 DEF RunState
  <2>2. Sound(k) BY <2>1 DEF Sound, GoesForward
  <2>3. p \in Call
    <3>1. <<>> \in Seq(Frame) OBVIOUS
    <3> QED BY <1>1, <3>1 DEF Call
  <2> HIDE DEF p, k
  <2>4. Placed(Persist(p, k, "return")) BY <2>2, <2>3, PlacedPersist
  <2> QED BY <1>6, <2>4 DEF p, k
<1>7. ASSUME Len(q.stack) > 1, At(up, "steps"),
             \/ Def[StepOf(up)].kind = "branch" /\ proc'[w] = Advance(up)
             \/ Def[StepOf(up)].kind = "repeat" /\ proc'[w] = more
      PROVE  Placed(proc'[w])
  <2>1. /\ Chained(st, m) /\ st \in Seq(Frame) /\ u = q.stack[2] /\ Joined(f, u, m)
    BY <1>1, <1>2, <1>7, ChainPop
  <2>2. up \in Call /\ up.stack = st /\ up.mem = m /\ up.pc = "steps" BY <1>1, <2>1 DEF Call
  <2>3. u \in Frame /\ Framed(u) /\ u.i \in DOMAIN u.steps /\ st # <<>> /\ 1 \in DOMAIN st
    <3> HIDE DEF st
    <3>1. st # <<>> /\ 1 \in DOMAIN st BY <2>1 DEF Chained
    <3>2. u \in Frame BY <2>1, <3>1
    <3>3. Framed(u) BY <2>1, <3>1 DEF Chained
    <3>4. u.i \in DOMAIN u.steps BY <2>1 DEF Joined
    <3> QED BY <3>1, <3>2, <3>3, <3>4
  <2> HIDE DEF st
  <2>4. StepOf(up) = u.steps[u.i] /\ StepPath(up) = Here(u)
    <3> HIDE DEF up
    <3>1. Top(up) = u BY <2>1, <2>2, <2>3 DEF Top
    <3> QED BY <3>1 DEF StepOf, StepPath, Here, StepAt
  <2>5. Here(u) \in Path /\ Len(Here(u)) = Len(u.base) + 1 /\ Len(u.base) \in Nat
    BY <2>3, HereIs
  <2>6. /\ Leads(Here(u), cp) /\ Route(J, Here(u))
        /\ Def[u.steps[u.i]].kind = "branch" => Here(u) \in J
        /\ Def[u.steps[u.i]].kind = "repeat" => Asking(J, cp, u, RepeatAt(m, Here(u)).iteration)
    BY <1>3, <1>4, <1>5, <2>1, <2>3, BodyDone
  <2>7. CASE Def[StepOf(up)].kind = "branch" /\ proc'[w] = Advance(up)
    <3> DEFINE n == Advance(up)
    <3>1. n.mem = m /\ n.stack = [st EXCEPT ![1].i = @ + 1] /\ n.pc = "steps"
      BY <2>2, AdvanceIsNext
    <3>2. Counts(m, m, Len(u.base) + 1) BY <1>1, CountsSame
    <3> HIDE DEF n, m
    <3>3. Heading(n) = "steps" BY <3>1 DEF Heading
    <3>4. Placed(n)
      BY <1>1, <1>2, <1>4, <2>1, <2>3, <2>4, <2>6, <2>7, <3>1, <3>2, <3>3, DoneOn
    <3> QED BY <2>7, <3>4 DEF n
  <2>8. CASE Def[StepOf(up)].kind = "repeat" /\ proc'[w] = more
    <3> DEFINE x == Here(u)
               s == [r EXCEPT !.awaiting = TRUE]
               k == SetRepeat(m, s)
    <3>1. r \in RepeatState /\ r.path = x BY <1>1, <2>4, <2>5, RepeatAtType
    <3>2. s \in RepeatState /\ s.path = x /\ s.iteration = r.iteration BY <3>1 DEF RepeatState
    <3> HIDE DEF s
    <3>3. /\ RepeatAt(k, x) = s /\ \A y : y # x => RepeatAt(k, y) = RepeatAt(m, y)
          /\ k.completed = m.completed /\ k.status = m.status /\ k.currentPath = m.currentPath
      BY <1>1, <3>2, SetRepeatIs
    <3>4. Counts(m, k, Len(u.base) + 1) BY <2>5, <3>3 DEF Counts
    <3>5. more.pc = "until" /\ more.mem = k /\ more.stack = st BY <2>2 DEF Call, s
    <3>6. Chained(st, k) BY <2>1, <3>4, ChainKept
    <3> HIDE DEF k, more
    <3>7. CompletedPaths(k) = J BY <3>3 DEF CompletedPaths
    <3>8. Sound(k) BY <1>2, <3>3, SoundSame DEF GoesForward
    <3>9. RepeatAt(k, x).iteration = RepeatAt(m, x).iteration BY <2>4, <3>2, <3>3
    <3>10. Going("until", k, u)
      BY <1>4, <2>4, <2>6, <2>8, <3>3, <3>7, <3>9 DEF Going, InStep
    <3>11. Heading(more) = "until" BY <3>5 DEF Heading
    <3>12. Placed(more) BY <3>5, <3>6, <3>8, <3>10, <3>11, PlacedOn DEF Forward
    <3> QED BY <2>8, <3>12
  <2> QED BY <1>7, <2>7, <2>8
<1>8. \/ proc'[w] = done
      \/ Len(q.stack) > 1 /\ At(up, "steps") /\ Def[StepOf(up)].kind = "branch"
         /\ proc'[w] = Advance(up)
      \/ Len(q.stack) > 1 /\ At(up, "steps") /\ Def[StepOf(up)].kind = "repeat"
         /\ proc'[w] = more
  BY <1>1 DEF ScopeDone, Local, Set
<1> QED BY <1>6, <1>7, <1>8

\* A step that has just completed is recorded, and the loop goes on.
LEMMA CompletePlaced ==
  ASSUME NEW st \in Seq(Frame), NEW k \in RunState, Chained(st, k), NEW m \in RunState,
         Counts(k, m, Len(st[1].base) + 1), st[1].i \in DOMAIN st[1].steps,
         m.status = "running", NEW K \in SUBSET Path, Route(K, Here(st[1])),
         CompletedPaths(m) = K \cup {Here(st[1])}, m.currentPath = Here(st[1]),
         NEW n, n.mem = m, n.stack = [st EXCEPT ![1].i = @ + 1], Heading(n) = "steps"
  PROVE  Placed(n)
<1> DEFINE x == Here(st[1])
<1>1. st # <<>> /\ 1 \in DOMAIN st BY DEF Chained
<1>2. st[1] \in Frame /\ Framed(st[1]) BY <1>1 DEF Chained
<1>3. x \in Path /\ Odd(Len(x)) BY <1>2, HereIs
<1>4. Route(K \cup {x}, x) /\ Resumable(K \cup {x}, x) BY <1>3, DoneSound
<1>5. Leads(x, x) BY <1>3, PathOrder
<1>6. Sound(m) BY <1>4 DEF Sound
<1> QED BY <1>4, <1>5, <1>6, DoneOn

\* A call that goes elsewhere in the same step.
LEMMA GotoPlaced ==
  ASSUME NEW q \in Call, Placed(q), NEW k \in InStep, At(q, k),
         NEW n, n.mem = q.mem, n.stack = q.stack, n.pc \in InStep
  PROVE  Placed(n)
<1>1. k \in Forward /\ Heading(n) = n.pc /\ n.pc \in Forward BY DEF InStep, Forward, Heading
<1>2. Chained(q.stack, q.mem) /\ Going(k, q.mem, q.stack[1]) /\ Sound(q.mem) BY <1>1, AtPlaced
<1>3. Going(n.pc, q.mem, q.stack[1]) BY <1>2, GoingOn
<1> QED BY <1>1, <1>2, <1>3, PlacedOn

\* The state of the repeat at a path counts at no shorter path.
LEMMA SetCounts ==
  ASSUME NEW m \in RunState, NEW s \in RepeatState
  PROVE  Counts(m, SetRepeat(m, s), Len(s.path))
<1>1. s.path \in Path /\ Len(s.path) \in Nat BY DEF RepeatState, Path
<1>2. ASSUME NEW x \in Path, Len(x) < Len(s.path) PROVE x # s.path
  BY <1>1, <1>2
<1> QED BY <1>2, SetRepeatIs DEF Counts

\* The clock of a repeat and the hook.
LEMMA ProloguePlaced ==
  ASSUME TypeOK, NEW w \in Worker, Placed(proc[w]),
         \/ EnsureRepeatStarted(w) \/ CheckRepeatTimeout(w)
         \/ \E o \in Outcome : OnEnter(w, o)
  PROVE  Placed(proc'[w])
<1> DEFINE q == proc[w]
           f == q.stack[1]
           x == Here(f)
           r == RepeatAt(q.mem, StepPath(q))
           s == [r EXCEPT !.startedAt = now]
           m == SetRepeat(q.mem, s)
<1>1. q \in Call /\ proc \in [Worker -> Call] /\ now \in Nat BY DEF TypeOK
<1>2. PICK k \in InStep : At(q, k)
  BY DEF EnsureRepeatStarted, CheckRepeatTimeout, OnEnter, InStep
<1>3. k \in Forward BY DEF InStep, Forward
<1>4. /\ q.mem \in RunState /\ q.stack \in Seq(Frame) /\ f \in Frame /\ Framed(f)
      /\ f.i \in DOMAIN f.steps /\ StepPath(q) = x /\ x \in Path /\ q.pc = k
      /\ Chained(q.stack, q.mem) /\ Going(k, q.mem, f) /\ Sound(q.mem)
  BY <1>1, <1>2, <1>3, AtPlaced
<1>5. \A l \in InStep : Placed([q EXCEPT !.pc = l])
  <2>1. ASSUME NEW l \in InStep PROVE Placed([q EXCEPT !.pc = l])
    <3> DEFINE n == [q EXCEPT !.pc = l]
    <3>1. n.mem = q.mem /\ n.stack = q.stack /\ n.pc = l BY <1>1, GotoIs
    <3> HIDE DEF n
    <3>2. Placed(n) BY <1>1, <1>2, <3>1, GotoPlaced
    <3> QED BY <3>2 DEF n
  <2> QED BY <2>1
<1>6. Placed(Persist(q, q.mem, "return")) BY <1>1, <1>4, PlacedPersist
<1>7. \A kind, path : Placed(Fail(q, kind, path)) BY <1>1, <1>4, PlacedFail
<1>8. Placed(Persist(q, m, "repeatCheck"))
  <2> DEFINE n == Persist(q, m, "repeatCheck")
  <2>1. r \in RepeatState /\ r.path = x BY <1>4, RepeatAtType
  <2>2. s \in RepeatState /\ s.path = x /\ s.iteration = r.iteration
    BY <1>1, <2>1 DEF RepeatState, Time
  <2> HIDE DEF s
  <2>3. /\ m.completed = q.mem.completed /\ m.status = q.mem.status
        /\ m.currentPath = q.mem.currentPath
        /\ RepeatAt(m, x).iteration = RepeatAt(q.mem, x).iteration
    BY <1>4, <2>2, SetRepeatIs
  <2>4. Counts(q.mem, m, Len(x)) /\ Len(x) = Len(f.base) + 1
    BY <1>4, <2>2, SetCounts, HereIs
  <2>5. n.mem = m /\ n.stack = q.stack /\ n.pc = "snapshot" /\ n.next = "repeatCheck"
    BY <1>1, PersistIs
  <2> HIDE DEF n, m
  <2>6. Chained(q.stack, m) BY <1>4, <2>4, ChainKept
  <2>7. Going("repeatCheck", m, f)
    <3>1. Going("repeatCheck", q.mem, f) BY <1>4, GoingOn DEF InStep
    <3> QED BY <2>3, <3>1, GoingSame
  <2>8. Sound(m) BY <1>4, <2>3, SoundSame DEF GoesForward
  <2>9. Heading(n) = "repeatCheck" BY <2>5 DEF Heading
  <2>10. Placed(n) BY <2>5, <2>6, <2>7, <2>8, <2>9, PlacedOn DEF Forward
  <2> QED BY <2>10 DEF n
<1>9. {"repeatCheck", "call", Dispatch(StepOf(q))} \subseteq InStep
  BY DEF Dispatch, InStep
<1>10. \/ proc'[w] = Persist(q, m, "repeatCheck")
       \/ proc'[w] = Persist(q, q.mem, "return")
       \/ \E l \in {"repeatCheck", "call", Dispatch(StepOf(q))} : proc'[w] = [q EXCEPT !.pc = l]
       \/ \E kind : proc'[w] = Fail(q, kind, StepPath(q))
  <2>1. CASE EnsureRepeatStarted(w)
    BY <1>1, <2>1 DEF EnsureRepeatStarted, Local, Set
  <2>2. CASE CheckRepeatTimeout(w)
    BY <1>1, <2>2 DEF CheckRepeatTimeout, Local, Set
  <2>3. ASSUME NEW o \in Outcome, OnEnter(w, o) PROVE <1>10!:
    BY <1>1, <2>3 DEF OnEnter, Local, Set
  <2> QED BY <2>1, <2>2, <2>3
<1> QED BY <1>5, <1>6, <1>7, <1>8, <1>9, <1>10

\* An action, and the wait between its attempts.
LEMMA ActionPlaced ==
  ASSUME TypeOK, NEW w \in Worker, Placed(proc[w]),
         (\E o \in Outcome : Do(w, o)) \/ Sleep(w)
  PROVE  Placed(proc'[w])
<1> DEFINE q == proc[w]
           f == q.stack[1]
           x == Here(f)
           J == CompletedPaths(q.mem)
           m == Complete(q.mem, StepPath(q), Def[StepOf(q)].compensate)
           done == PersistThen([Advance(q) EXCEPT !.pc = "steps"], m)
           again == [q EXCEPT !.attempt = @ + 1, !.pc = "sleep"]
<1>1. q \in Call /\ proc \in [Worker -> Call] BY DEF TypeOK
<1>2. PICK k \in {"call", "sleep"} : At(q, k) BY DEF Do, Sleep
<1>3. k \in Forward /\ k \in InStep /\ k # "steps" BY DEF InStep, Forward
<1>4. /\ q.mem \in RunState /\ q.stack \in Seq(Frame) /\ q.stack # <<>> /\ f \in Frame /\ Framed(f)
      /\ f.i \in DOMAIN f.steps /\ StepPath(q) = x /\ x \in Path /\ StepOf(q) = f.steps[f.i]
      /\ StepOf(q) \in Step /\ J \in SUBSET Path /\ q.mem.currentPath \in Path
      /\ Chained(q.stack, q.mem) /\ Sound(q.mem) /\ q.mem.status = "running"
      /\ Leads(x, q.mem.currentPath) /\ Resumable(J, q.mem.currentPath) /\ Route(J, x)
  BY <1>1, <1>2, <1>3, AtPlaced
<1>5. Placed([q EXCEPT !.pc = "call"]) /\ Placed(again)
  <2> DEFINE n == [q EXCEPT !.pc = "call"]
  <2>1. n.mem = q.mem /\ n.stack = q.stack /\ n.pc \in InStep BY <1>1, GotoIs DEF InStep
  <2>2. again.mem = q.mem /\ again.stack = q.stack /\ again.pc \in InStep BY <1>1 DEF Call, InStep
  <2> HIDE DEF n, again
  <2>3. Placed(n) /\ Placed(again) BY <1>1, <1>2, <1>3, <2>1, <2>2, GotoPlaced
  <2> QED BY <2>3 DEF n
<1>6. Placed(Persist(q, q.mem, "return")) BY <1>1, <1>4, PlacedPersist
<1>7. \A kind, path : Placed(Fail(q, kind, path)) BY <1>1, <1>4, PlacedFail
<1>8. ASSUME Def[StepOf(q)].kind = "action" PROVE Placed(done)
  <2>1. /\ x # <<>> /\ Odd(Len(x)) /\ Last(x) = f.steps[f.i] /\ Len(x) = Len(f.base) + 1
    BY <1>4, HereIs
  <2>2. q.mem.currentPath = x BY <1>4, <1>8, <2>1, LeafPath DEF Resumable
  <2>3. Def[StepOf(q)].compensate \in BOOLEAN BY <1>4, DefinitionAssumption DEF StepOK
  <2>4. m \in RunState BY <1>4, <2>3, CompleteType
  <2>5. CompletedPaths(m) = J \cup {x} BY <1>4, <2>3, CompletePaths
  <2>6. m.status = "running" /\ m.currentPath = x /\ m.repeats = q.mem.repeats
    BY <1>4, <2>2 DEF Complete, RunState
  <2>7. Counts(q.mem, m, Len(f.base) + 1) BY <1>4, <2>6, CountsSame
  <2>8. done.mem = m /\ Heading(done) = "steps" /\ done.stack = [q.stack EXCEPT ![1].i = @ + 1]
    BY <1>1, <1>4, NextIs
  <2> HIDE DEF done, m, J
  <2> QED BY <1>4, <2>4, <2>5, <2>6, <2>7, <2>8, CompletePlaced
<1>9. \/ Def[StepOf(q)].kind = "action" /\ proc'[w] = done
      \/ proc'[w] = Persist(q, q.mem, "return")
      \/ proc'[w] = again
      \/ proc'[w] = [q EXCEPT !.pc = "call"]
      \/ \E kind : proc'[w] = Fail(q, kind, StepPath(q))
  <2>1. ASSUME NEW o \in Outcome, Do(w, o) PROVE <1>9!:
    BY <1>1, <2>1 DEF Do, Set
  <2>2. CASE Sleep(w)
    BY <1>1, <2>2 DEF Sleep, Local, Set
  <2> QED BY <2>1, <2>2
<1> QED BY <1>5, <1>6, <1>7, <1>8, <1>9


\* A poll.
LEMMA PollPlaced ==
  ASSUME TypeOK, NEW w \in Worker, Placed(proc[w]),
         PollTimeout(w) \/ \E o \in Outcome \cup {"pending"} : Check(w, o)
  PROVE  Placed(proc'[w])
<1> DEFINE q == proc[w]
           f == q.stack[1]
           x == Here(f)
           J == CompletedPaths(q.mem)
           m == Opened(q.mem)
           closed == [m EXCEPT !.pollStartedAt = NoTime]
           back == [closed EXCEPT !.status = "running"]
           k == Complete(back, StepPath(q), FALSE)
           done == PersistThen([Advance(q) EXCEPT !.pc = "steps"], k)
           waiting == [m EXCEPT !.status = "polling"]
<1>1. q \in Call /\ proc \in [Worker -> Call] /\ now \in Nat BY DEF TypeOK
<1>2. At(q, "call") /\ Def[StepOf(q)].kind = "poll" BY DEF PollTimeout, Check
<1>3. /\ q.mem \in RunState /\ q.stack \in Seq(Frame) /\ q.stack # <<>> /\ f \in Frame /\ Framed(f)
      /\ f.i \in DOMAIN f.steps /\ StepPath(q) = x /\ x \in Path /\ StepOf(q) = f.steps[f.i]
      /\ StepOf(q) \in Step /\ J \in SUBSET Path /\ q.mem.currentPath \in Path
      /\ Chained(q.stack, q.mem) /\ Sound(q.mem) /\ q.mem.status = "running"
      /\ Leads(x, q.mem.currentPath) /\ Resumable(J, q.mem.currentPath) /\ Route(J, x)
  BY <1>1, <1>2, AtPlaced DEF Forward
<1>4. /\ m \in RunState /\ m.completed = q.mem.completed /\ m.currentPath = q.mem.currentPath
      /\ m.status = q.mem.status /\ m.repeats = q.mem.repeats
  BY <1>1, <1>3 DEF Opened, RunState, Time
<1> HIDE DEF m
<1>5. /\ closed \in RunState /\ closed.completed = m.completed
      /\ closed.currentPath = m.currentPath /\ closed.status = m.status
      /\ closed.repeats = m.repeats
  BY <1>4 DEF RunState, Time
<1>6. /\ waiting.completed = m.completed /\ waiting.currentPath = m.currentPath
  BY <1>4 DEF RunState
<1> HIDE DEF waiting, closed
<1>7. /\ back \in RunState /\ back.completed = closed.completed /\ back.status = "running"
      /\ back.currentPath = closed.currentPath /\ back.repeats = closed.repeats
  BY <1>5 DEF RunState, Status
<1> HIDE DEF back
<1>8. Sound(m) /\ Sound(closed) /\ Sound(waiting)
  <2>1. Sound(m) BY <1>3, <1>4, SoundSame DEF GoesForward
  <2>2. GoesForward(m) BY <1>3, <1>4 DEF GoesForward
  <2> QED BY <2>1, <2>2, <1>5, <1>6, SoundSame
<1>9. Placed(Persist(q, waiting, "return")) BY <1>1, <1>8, PlacedPersist
<1>10. ASSUME NEW n \in RunState, Sound(n), NEW kind
       PROVE  Placed(Fail([q EXCEPT !.mem = n], kind, StepPath(q)))
  <2>1. [q EXCEPT !.mem = n] \in Call /\ [q EXCEPT !.mem = n].mem = n
    BY <1>1, <1>10, MemType, WithMemIs
  <2> QED BY <2>1, <1>10, PlacedFail
<1>11. Placed(done)
  <2>1. /\ x # <<>> /\ Odd(Len(x)) /\ Last(x) = f.steps[f.i] /\ Len(x) = Len(f.base) + 1
    BY <1>3, HereIs
  <2>2. q.mem.currentPath = x BY <1>2, <1>3, <2>1, LeafPath DEF Resumable
  <2>3. k \in RunState BY <1>3, <1>7, CompleteType
  <2>4. CompletedPaths(back) = J BY <1>4, <1>5, <1>7 DEF CompletedPaths
  <2>5. CompletedPaths(k) = J \cup {x} BY <1>3, <1>7, <2>4, CompletePaths
  <2>6. k.status = "running" /\ k.currentPath = x /\ k.repeats = q.mem.repeats
    BY <1>3, <1>4, <1>5, <1>7, <2>2 DEF Complete, RunState
  <2>7. Counts(q.mem, k, Len(f.base) + 1) BY <1>3, <2>6, CountsSame
  <2>8. done.mem = k /\ Heading(done) = "steps" /\ done.stack = [q.stack EXCEPT ![1].i = @ + 1]
    BY <1>1, <1>3, NextIs
  <2> HIDE DEF done, k, J
  <2> QED BY <1>3, <2>3, <2>5, <2>6, <2>7, <2>8, CompletePlaced
<1>12. \/ proc'[w] = done
       \/ proc'[w] = Persist(q, waiting, "return")
       \/ \E kind : \/ proc'[w] = Fail([q EXCEPT !.mem = m], kind, StepPath(q))
                    \/ proc'[w] = Fail([q EXCEPT !.mem = closed], kind, StepPath(q))
  <2>1. CASE PollTimeout(w)
    BY <1>1, <2>1 DEF PollTimeout, Local, Set, m, closed
  <2>2. ASSUME NEW o \in Outcome \cup {"pending"}, Check(w, o) PROVE <1>12!:
    BY <1>1, <2>2 DEF Check, Local, Set, m, closed, waiting, back
  <2> QED BY <2>1, <2>2
<1> HIDE DEF done
<1> QED BY <1>4, <1>5, <1>8, <1>9, <1>10, <1>11, <1>12


\* A nested scope is entered from the step of the frame st[1].
LEMMA PushPlaced ==
  ASSUME NEW st \in Seq(Frame), NEW k \in RunState, Chained(st, k), NEW m \in RunState,
         Counts(k, m, Len(st[1].base) + 1), m.status = "running", Sound(m),
         NEW g \in Frame, Framed(g), Joined(g, st[1], m),
         Stands(CompletedPaths(m), m.currentPath, g),
         NEW n, n.mem = m, n.stack = <<g>> \o st, Heading(n) = "steps"
  PROVE  Placed(n)
<1>1. Chained(st, m) BY ChainKept
<1>2. Chained(<<g>> \o st, m) BY <1>1, ChainPush
<1>3. (<<g>> \o st)[1] = g OBVIOUS
<1>4. Going("steps", m, g) BY DEF Going, InStep
<1> DEFINE t == <<g>> \o st
<1>5. n.stack = t /\ Chained(t, m) /\ t[1] = g BY <1>2, <1>3
<1> HIDE DEF t
<1>6. Going("steps", n.mem, n.stack[1]) BY <1>4, <1>5
<1>7. Chained(n.stack, n.mem) BY <1>5
<1>8. Heading(n) \in Forward BY DEF Forward
<1> QED BY <1>6, <1>7, <1>8, PlacedOn

\* The next position of a path on the way to another one.
LEMMA NextLeads ==
  ASSUME NEW x \in Path, NEW cp \in Path, Under(x, cp), NEW c, c = cp[Len(x) + 1]
  PROVE  Append(x, c) \in Path /\ Leads(Append(x, c), cp)
<1>1. /\ x \in Seq(Segment) /\ cp \in Seq(Segment) /\ Len(x) \in Nat /\ Len(cp) \in Nat
      /\ Len(x) + 1 <= Len(cp) /\ \A e \in 1..Len(x) : x[e] = cp[e]
  BY DEF Path, Under, Agree
<1>2. Len(x) + 1 \in 1..Len(cp) BY <1>1
<1>3. c \in Segment BY <1>1, <1>2
<1>4. /\ Append(x, c) \in Seq(Segment) /\ Len(Append(x, c)) = Len(x) + 1
      /\ Append(x, c)[Len(x) + 1] = c /\ \A e \in 1..Len(x) : Append(x, c)[e] = x[e]
  BY <1>1, <1>3
<1>5. \A e \in 1..(Len(x) + 1) : Append(x, c)[e] = cp[e] BY <1>1, <1>4
<1> QED BY <1>1, <1>4, <1>5 DEF Leads, Agree, Path


\* The route goes on below a step: in a branch that is completed, or in an iteration of
\* a repeat that is not.
LEMMA RouteDown ==
  ASSUME NEW J \in SUBSET Path, NEW x \in Path, x # <<>>, Odd(Len(x)), Route(J, x),
         NEW c, Append(x, c) \in Path,
         \/ /\ Def[Last(x)].kind = "repeat" /\ c \in Nat /\ x \notin J
            /\ \A a \in J : Under(x, a) => a[Len(x) + 1] \in 0..c
         \/ /\ Def[Last(x)].kind = "branch" /\ c \in DOMAIN Def[Last(x)].paths /\ x \in J
            /\ \A a \in J : ~Under(x, a)
  PROVE  Route(J, Append(x, c))
<1> DEFINE d == Len(x) + 1
           r == Append(x, c)
<1>1. Len(x) \in Nat /\ x[Len(x)] = Last(x) /\ Len(x) # 0 BY DEF Path, Last
<1>2. ~Odd(d) /\ d - 1 = Len(x) /\ d \in Nat BY <1>1, Parity
<1>3. r[d] = c /\ r[d - 1] = Last(x)
  <2>1. r[Len(x) + 1] = c /\ \A e \in 1..Len(x) : r[e] = x[e] BY <1>1 DEF Path
  <2>2. Len(x) \in 1..Len(x) BY <1>1
  <2> QED BY <1>1, <1>2, <2>1, <2>2
<1>4. Listed(J, x, Len(x), x[Len(x)]) <=> x \in J BY ListedIs
<1>5. r \in Path OBVIOUS
<1> HIDE DEF r
<1>6. NodeOf(r, d) BY <1>2, <1>3 DEF NodeOf
<1>7. \A a \in J : Under(x, a) => NotAfter(a, r, d) BY <1>2, <1>3 DEF NotAfter
<1>8. Listed(J, x, Len(x), x[Len(x)]) <=> Def[x[Len(x)]].kind = "branch" BY <1>1, <1>4
<1>9. Route(J, r) BY <1>2, <1>5, <1>6, <1>7, <1>8, RouteOn DEF r
<1> QED BY <1>9 DEF r

\* The scope steps lies below the step that the frame f is at, at the choice c.
Inside(f, c, steps) ==
  LET def == Def[f.steps[f.i]] IN
  \/ def.kind = "branch" /\ c \in DOMAIN def.paths /\ steps = def.paths[c]
  \/ def.kind = "repeat" /\ c \in Nat /\ steps = def.body

\* The frame of a scope below a step.
LEMMA InsideIs ==
  ASSUME NEW f \in Frame, Framed(f), f.i \in DOMAIN f.steps, NEW c, NEW steps,
         Inside(f, c, steps), NEW start \in Nat \ {0}, NEW resume \in Path
  PROVE  LET g == NewFrame(Append(Here(f), c), steps, start, resume) IN
         /\ g \in Frame /\ Framed(g) /\ Append(Here(f), c) \in Path
         /\ g.base = Append(Here(f), c) /\ g.steps = steps /\ g.start = start /\ g.i = start
         /\ g.resume = resume
         /\ \A m : (Def[f.steps[f.i]].kind = "repeat" => RepeatAt(m, Here(f)).iteration = c)
                      => Joined(g, f, m)
<1> DEFINE x == Here(f)
           g == NewFrame(Append(x, c), steps, start, resume)
<1>1. x \in Path /\ x # <<>> /\ Odd(Len(x)) /\ Last(x) = f.steps[f.i] /\ f.steps[f.i] \in Step
  BY HereIs
<1>2. c \in Key \cup Nat BY <1>1, StepType DEF Inside
<1>3. \/ /\ Def[Last(x)].kind = "branch" /\ c \in DOMAIN Def[Last(x)].paths
         /\ steps = Def[Last(x)].paths[c]
      \/ Def[Last(x)].kind # "branch" /\ steps = Def[Last(x)].body
  BY <1>1 DEF Inside
<1>4. Last(x) \in Step BY <1>1
<1> HIDE DEF x
<1>5. /\ g \in Frame /\ Framed(g) /\ Append(x, c) \in Path
      /\ g.base = Append(x, c) /\ g.steps = steps /\ g.start = start /\ g.i = start
      /\ g.resume = resume
  BY <1>1, <1>2, <1>3, <1>4, ScopeBelow
<1> HIDE DEF g
<1>6. Last(g.base) = c BY <1>1, <1>5, FrontAppend
<1>7. ASSUME NEW m, Def[f.steps[f.i]].kind = "repeat" => RepeatAt(m, x).iteration = c
      PROVE  Joined(g, f, m)
  BY <1>5, <1>6, <1>7 DEF Joined, x
<1> QED BY <1>5, <1>7 DEF g, x

\* A scope on the way to the current path.
LEMMA ScopeResumed ==
  ASSUME NEW J \in SUBSET Path, NEW cp \in Path, Resumable(J, cp),
         NEW f \in Frame, Framed(f), f.i \in DOMAIN f.steps, Leads(Here(f), cp),
         NEW d, d = Len(Here(f)) + 1, d <= Len(cp), NEW c, c = cp[d],
         NEW steps, Inside(f, c, steps)
  PROVE  LET start == ResumeIndex(steps, cp, d + 1)
             g == NewFrame(Append(Here(f), c), steps, start, cp)
         IN start \in Nat \ {0} /\ Stands(J, cp, g)
<1> DEFINE x == Here(f)
           start == ResumeIndex(steps, cp, d + 1)
           g == NewFrame(Append(x, c), steps, start, cp)
<1>1. x \in Path /\ f.steps[f.i] \in Step /\ Len(x) \in Nat /\ Len(cp) \in Nat BY HereIs DEF Path
<1>2. steps \in Seq(Step) BY <1>1, StepType DEF Inside
<1>3. start \in Nat \ {0} BY <1>2, ResumeIndexType
<1> HIDE DEF start
<1>4. /\ g \in Frame /\ Framed(g) /\ g.base = Append(x, c) /\ g.steps = steps
      /\ g.start = start /\ g.i = start /\ g.resume = cp /\ Append(x, c) \in Path
  <2>1. LET h == NewFrame(Append(Here(f), c), steps, start, cp) IN
        /\ h \in Frame /\ Framed(h) /\ Append(Here(f), c) \in Path
        /\ h.base = Append(Here(f), c) /\ h.steps = steps /\ h.start = start /\ h.i = start
        /\ h.resume = cp
    BY ONLY <1>3, InsideIs, f \in Frame, Framed(f), f.i \in DOMAIN f.steps,
            Inside(f, c, steps), cp \in Path
  <2> QED BY <2>1
<1> HIDE DEF g
<1>5. Under(x, cp) BY <1>1 DEF Under, Leads
<1>6. Leads(Append(x, c), cp) BY <1>1, <1>5, NextLeads
<1>7. Len(g.base) = d BY <1>1, <1>4, FrontAppend
<1>8. Leads(g.base, cp) /\ g.i = g.start BY <1>4, <1>6
<1>9. g.start = ResumeIndex(g.steps, cp, Len(g.base) + 1) BY <1>4, <1>7 DEF start
<1>10. Stands(J, cp, g) BY <1>4, <1>8, <1>9, ResumeStands
<1> QED BY <1>3, <1>10 DEF g, start

\* A scope below which nothing is completed.
LEMMA ScopeBegun ==
  ASSUME NEW J \in SUBSET Path, NEW cp \in Path,
         NEW f \in Frame, Framed(f), f.i \in DOMAIN f.steps, Leads(Here(f), cp),
         NEW c, NEW steps, Inside(f, c, steps), Route(J, Append(Here(f), c)),
         \A a \in J : ~Under(Append(Here(f), c), a)
  PROVE  Stands(J, cp, NewFrame(Append(Here(f), c), steps, 1, cp))
<1> DEFINE g == NewFrame(Append(Here(f), c), steps, 1, cp)
<1>1. 1 \in Nat \ {0} OBVIOUS
<1>2. /\ g \in Frame /\ Framed(g) /\ g.base = Append(Here(f), c) /\ g.steps = steps
      /\ g.start = 1 /\ g.i = 1 /\ g.resume = cp /\ Append(Here(f), c) \in Path
  BY <1>1, InsideIs
<1> HIDE DEF g
<1>3. Here(f) \in Path BY HereIs
<1>4. Front(g.base) = Here(f) BY <1>2, <1>3, FrontAppend
<1>5. Stands(J, cp, g) BY <1>2, <1>4, FreshStands
<1> QED BY <1>5 DEF g


\* A decision to go down a path is where a run can be resumed.
LEMMA DecideSound ==
  ASSUME NEW J \in SUBSET Path, NEW f \in Frame, Framed(f), f.i \in DOMAIN f.steps,
         Route(J, Here(f)), \A a \in J : ~Under(Here(f), a), NEW c, NEW steps,
         Inside(f, c, steps), Def[f.steps[f.i]].kind = "branch",
         NEW K, K = J \cup {Here(f)}, NEW child, child = Append(Here(f), c)
  PROVE  /\ child \in Path /\ Resumable(K, child)
         /\ Stands(K, child, NewFrame(child, steps, 1, child))
<1> DEFINE x == Here(f)
<1>1. /\ x \in Path /\ x # <<>> /\ Odd(Len(x)) /\ Last(x) = f.steps[f.i] /\ f.steps[f.i] \in Step
  BY HereIs
<1>2. c \in Key /\ c \in DOMAIN Def[Last(x)].paths BY <1>1, StepType DEF Inside
<1> HIDE DEF x
<1>3. child \in Path BY <1>1, <1>2, AppendKey DEF x
<1>4. K \in SUBSET Path /\ Route(K, x) BY <1>1, DoneSound DEF x
<1>5. \A a \in K : ~Under(x, a) BY <1>1, PathOrder DEF x
<1>6. Leads(x, child) /\ Under(x, child) BY <1>1, <1>3, PathOrder DEF x
<1>7. Route(K, child)
  <2>1. x \in K /\ child = Append(x, c) BY DEF x
  <2>2. Def[Last(x)].kind = "branch" BY <1>1
  <2> QED BY <1>1, <1>2, <1>3, <1>4, <1>5, <2>1, <2>2, RouteDown
<1>8. \A a \in K : ~Under(child, a) BY <1>1, <1>3, <1>4, <1>5, <1>6, PathOrder
<1>9. Stands(K, child, NewFrame(child, steps, 1, child))
  BY <1>3, <1>4, <1>6, <1>7, <1>8, ScopeBegun DEF x
<1> QED BY <1>3, <1>7, <1>8, <1>9 DEF Resumable

\* A branch.
LEMMA BranchPlaced ==
  ASSUME TypeOK, NEW w \in Worker, Placed(proc[w]),
         \/ ResumeBranch(w) \/ \E key \in Key : Decide(w, key)
         \/ \E o \in Outcome : DecideFailed(w, o)
  PROVE  Placed(proc'[w])
<1> DEFINE q == proc[w]
           f == q.stack[1]
           x == Here(f)
           J == CompletedPaths(q.mem)
           cp == q.mem.currentPath
           def == Def[StepOf(q)]
<1>1. q \in Call /\ proc \in [Worker -> Call] BY DEF TypeOK
<1>2. At(q, "call") /\ def.kind = "branch" BY DEF ResumeBranch, Decide, DecideFailed
<1>3. /\ q.mem \in RunState /\ q.stack \in Seq(Frame) /\ q.stack # <<>> /\ f \in Frame /\ Framed(f)
      /\ f.i \in DOMAIN f.steps /\ StepPath(q) = x /\ x \in Path /\ StepOf(q) = f.steps[f.i]
      /\ StepOf(q) \in Step /\ J \in SUBSET Path /\ cp \in Path
      /\ Chained(q.stack, q.mem) /\ Sound(q.mem) /\ q.mem.status = "running"
      /\ Leads(x, cp) /\ Resumable(J, cp) /\ Route(J, x) /\ Going("call", q.mem, f)
  BY <1>1, <1>2, AtPlaced DEF Forward
<1>4. Entered(J, cp, f) BY <1>3 DEF Going, InStep
<1>5. def = Def[f.steps[f.i]] BY <1>3
<1> HIDE DEF J, cp, def
<1>6. CASE ResumeBranch(w)
  <2> DEFINE d == Len(x) + 1
             key == cp[d]
             steps == def.paths[key]
             start == ResumeIndex(steps, cp, d + 1)
             g == NewFrame(Append(x, key), steps, start, cp)
             n == Push(q, g)
  <2>1. d <= Len(cp) /\ key \in DOMAIN def.paths /\ proc'[w] = n
    <3> HIDE DEF x
    <3> QED BY <1>1, <1>3, <1>6 DEF ResumeBranch, Local, Set, cp, def
  <2> HIDE DEF x
  <2>2. Inside(f, key, steps) BY <1>2, <1>5, <2>1 DEF Inside
  <2> HIDE DEF key, steps
  <2>3. start \in Nat \ {0} /\ Stands(J, cp, g)
    <3>1. d = Len(Here(f)) + 1 /\ key = cp[d] BY DEF x, key
    <3> HIDE DEF d
    <3> QED BY <1>3, <2>1, <2>2, <3>1, ScopeResumed DEF x
  <2> HIDE DEF start
  <2>4. g \in Frame /\ Framed(g) /\ Joined(g, f, q.mem)
    <3>1. Def[f.steps[f.i]].kind # "repeat" BY <1>2, <1>5
    <3> HIDE DEF f
    <3> QED BY <1>3, <2>2, <2>3, <3>1, InsideIs DEF x
  <2> HIDE DEF g
  <2>5. Counts(q.mem, q.mem, Len(f.base) + 1) BY <1>3, CountsSame
  <2>6. n.pc = "steps" /\ n.mem = q.mem /\ n.stack = <<g>> \o q.stack BY <1>1, PushIs
  <2> HIDE DEF n
  <2>7. Heading(n) = "steps" BY <2>6 DEF Heading
  <2>8. Placed(n) BY <1>3, <2>3, <2>4, <2>5, <2>6, <2>7, PushPlaced DEF J, cp
  <2> QED BY <2>1, <2>8
<1>7. ASSUME NEW key \in Key, Decide(w, key) PROVE Placed(proc'[w])
  <2> DEFINE c == Append(x, key)
             steps == def.paths[key]
             m == Complete(q.mem, x, FALSE)
             g == NewFrame(c, steps, 1, c)
             none == [m EXCEPT !.currentPath = x]
             some == [m EXCEPT !.currentPath = c]
             done == PersistThen([Advance(q) EXCEPT !.pc = "steps"], none)
             down == PersistThen(Push(q, g), some)
             K == J \cup {x}
  <2>1. /\ Len(cp) <= Len(x) /\ key \in DOMAIN def.paths
        /\ proc'[w] = done \/ proc'[w] = down
    <3> HIDE DEF x
    <3> QED BY <1>1, <1>3, <1>7 DEF Decide, Local, Set, cp, def
  <2>2. cp = x BY <1>3, <2>1, PathOrder
  <2>3. x \notin J BY <1>4, <2>2 DEF Entered
  <2>4. \A a \in J : ~Under(x, a) BY <1>3, <2>2, <2>3 DEF Resumable
  <2>5. Inside(f, key, steps) BY <1>2, <1>5, <2>1 DEF Inside
  <2>6. m \in RunState /\ CompletedPaths(m) = K BY <1>3, CompleteType, CompletePaths DEF J
  <2>7. m.status = "running" /\ m.repeats = q.mem.repeats BY <1>3 DEF Complete, RunState
  <2>8. c \in Path /\ Resumable(K, c) /\ Stands(K, c, g)
    BY <1>2, <1>3, <1>5, <2>4, <2>5, DecideSound
  <2>9. g \in Frame /\ Framed(g) /\ \A n : Joined(g, f, n)
    <3>1. 1 \in Nat \ {0} OBVIOUS
    <3> QED BY <1>2, <1>3, <1>5, <2>5, <2>8, <3>1, InsideIs
  <2> HIDE DEF m, x, g, c
  <2>10. /\ none \in RunState /\ none.currentPath = x /\ none.status = "running"
         /\ none.repeats = q.mem.repeats /\ none.completed = m.completed
         /\ some \in RunState /\ some.currentPath = c /\ some.status = "running"
         /\ some.repeats = q.mem.repeats /\ some.completed = m.completed
    BY <1>3, <2>6, <2>7, <2>8 DEF RunState
  <2> HIDE DEF none, some
  <2>11. CompletedPaths(none) = K /\ CompletedPaths(some) = K
    BY <2>6, <2>10 DEF CompletedPaths
  <2>12. Counts(q.mem, none, Len(f.base) + 1) /\ Counts(q.mem, some, Len(f.base) + 1)
    BY <1>3, <2>10, CountsSame
  <2>13. CASE proc'[w] = done
    <3>1. /\ done.mem = none /\ Heading(done) = "steps"
          /\ done.stack = [q.stack EXCEPT ![1].i = @ + 1]
      BY <1>1, <1>3, NextIs
    <3> HIDE DEF done
    <3>2. Placed(done) BY <1>3, <2>10, <2>11, <2>12, <3>1, CompletePlaced DEF x
    <3> QED BY <2>13, <3>2
  <2>14. CASE proc'[w] = down
    <3>1. Sound(some) BY <2>8, <2>10, <2>11 DEF Sound
    <3>2. Push(q, g) \in Call /\ Push(q, g).pc = "steps" /\ Push(q, g).stack = <<g>> \o q.stack
      BY <1>1, <2>9, PushType, PushIs
    <3>3. /\ down.mem = some /\ down.pc = "snapshot" /\ down.next = "steps"
          /\ down.stack = <<g>> \o q.stack
      BY <3>2, PersistThenIs
    <3> HIDE DEF down
    <3>4. Heading(down) = "steps" BY <3>3 DEF Heading
    <3>5. Placed(down)
      BY <1>3, <2>8, <2>9, <2>10, <2>11, <2>12, <3>1, <3>3, <3>4, PushPlaced
    <3> QED BY <2>14, <3>5
  <2> QED BY <2>1, <2>13, <2>14
<1>8. ASSUME NEW o \in Outcome, DecideFailed(w, o) PROVE Placed(proc'[w])
  <2>1. \/ proc'[w] = Persist(q, q.mem, "return")
        \/ proc'[w] = Fail(q, KindOf(o), StepPath(q))
    BY <1>1, <1>8 DEF DecideFailed, Local, Set
  <2> QED BY <1>1, <1>3, <2>1, PlacedPersist, PlacedFail
<1> QED BY <1>6, <1>7, <1>8


\* An iteration is begun, or resumed if the current path names it, where the journal
\* stops; and if its steps are all done, nothing later is completed.
LEMMA IterationBegins ==
  ASSUME NEW J \in SUBSET Path, NEW cp \in Path, Resumable(J, cp),
         NEW f \in Frame, Framed(f), f.i \in DOMAIN f.steps, Entered(J, cp, f),
         Def[f.steps[f.i]].kind = "repeat", NEW d, d = Len(Here(f)) + 1, NEW n,
         NEW it \in Nat, it = IF d <= Len(cp) THEN cp[d] ELSE n,
         NEW body, body = Def[f.steps[f.i]].body
  PROVE  LET start == ResumeIndex(body, cp, d + 1) IN
         /\ Asking(J, cp, f, it) /\ start \in Nat \ {0} /\ Inside(f, it, body)
         /\ Stands(J, cp, NewFrame(Append(Here(f), it), body, start, cp))
<1> DEFINE x == Here(f)
           start == ResumeIndex(body, cp, d + 1)
<1>1. /\ x \in Path /\ x # <<>> /\ Odd(Len(x)) /\ Last(x) = f.steps[f.i] /\ Len(x) \in Nat
      /\ Len(cp) \in Nat /\ Leads(x, cp) /\ f.steps[f.i] \in Step
  BY HereIs DEF Path, Entered
<1>2. Inside(f, it, body) BY DEF Inside
<1>3. start \in Nat \ {0} BY <1>1, StepType, ResumeIndexType
<1>4. CASE d <= Len(cp)
  <2>1. it = cp[d] BY <1>4
  <2>2. Under(x, cp) BY <1>1, <1>4 DEF Under, Leads
  <2>3. x \notin J /\ \A a \in J : Under(x, a) => a[Len(x) + 1] \in 0..it
    <3> HIDE DEF x
    <3> DEFINE c == cp[Len(x) + 1]
    <3>1. /\ x \in J <=> Def[Last(x)].kind = "branch"
          /\ Def[Last(x)].kind = "repeat" => \A a \in J : Under(x, a) => a[Len(x) + 1] \in 0..c
      BY <1>1, <2>2, Along DEF Resumable
    <3>2. c = it BY <2>1 DEF x
    <3> QED BY <1>1, <3>1, <3>2
  <2>4. Asking(J, cp, f, it) BY <1>1, <2>3 DEF Asking
  <2>5. Stands(J, cp, NewFrame(Append(x, it), body, start, cp))
    BY <1>1, <1>2, <1>4, <2>1, ScopeResumed
  <2> QED BY <1>2, <1>3, <2>4, <2>5
<1>5. CASE ~(d <= Len(cp))
  <2>1. cp = x
    <3>1. Len(cp) <= Len(x) BY <1>1, <1>5
    <3> QED BY <1>1, <3>1, PathOrder
  <2>2. x \notin J BY <2>1 DEF Entered
  <2>3. \A a \in J : ~Under(x, a) BY <2>1, <2>2 DEF Resumable
  <2>4. Asking(J, cp, f, it) BY <1>1, <2>2, <2>3 DEF Asking
  <2>5. start = 1 BY <1>1, <1>5 DEF ResumeIndex
  <2>6. Append(x, it) \in Path BY <1>1, AppendKey
  <2>7. Route(J, Append(x, it))
    <3>1. Route(J, x) BY <2>1 DEF Resumable
    <3> HIDE DEF x
    <3> QED BY <1>1, <2>2, <2>3, <2>6, <3>1, RouteDown
  <2>8. \A a \in J : ~Under(Append(x, it), a)
    <3> HIDE DEF x
    <3> QED BY <1>1, <2>3, <2>6, PathOrder
  <2>9. Stands(J, cp, NewFrame(Append(x, it), body, 1, cp))
    BY <1>1, <1>2, <2>7, <2>8, ScopeBegun
  <2> QED BY <1>2, <1>3, <2>4, <2>5, <2>9
<1> QED BY <1>4, <1>5

\* The next iteration is where a run can be resumed.
LEMMA NextIteration ==
  ASSUME NEW J \in SUBSET Path, NEW cp \in Path, NEW f \in Frame, Framed(f), NEW n \in Nat,
         Asking(J, cp, f, n), NEW K \in SUBSET J, Route(K, Here(f))
  PROVE  Append(Here(f), n + 1) \in Path /\ Resumable(K, Append(Here(f), n + 1))
<1> DEFINE x == Here(f)
           r == Append(x, n + 1)
<1>1. /\ x \in Path /\ x # <<>> /\ Odd(Len(x)) /\ Last(x) = f.steps[f.i] /\ Len(x) \in Nat
      /\ Def[Last(x)].kind = "repeat" /\ x \notin K
  BY HereIs DEF Path, Asking
<1>2. \A a \in K : Under(x, a) => a[Len(x) + 1] \in 0..n BY DEF Asking
<1>3. n + 1 \in Nat /\ n + 1 \notin 0..n /\ \A b \in 0..n : b \in 0..(n + 1) OBVIOUS
<1>4. r \in Path BY <1>1, <1>3, AppendKey
<1>5. r[Len(x) + 1] = n + 1 /\ Len(r) = Len(x) + 1 /\ Under(x, r)
  BY <1>1, <1>4, PathOrder DEF Path
<1> HIDE DEF x
<1>6. \A a \in K : Under(x, a) => a[Len(x) + 1] \in 0..(n + 1) BY <1>2, <1>3
<1>7. Route(K, r) BY <1>1, <1>3, <1>4, <1>6, RouteDown DEF x
<1> HIDE DEF r
<1>8. ASSUME NEW a \in K, Under(r, a) PROVE FALSE
  <2>1. a \in Path /\ Under(x, a) BY <1>1, <1>4, <1>5, <1>8, PathOrder
  <2>2. a[Len(x) + 1] = n + 1
    <3>1. Len(r) \in 1..Len(r) BY <1>1, <1>5
    <3> QED BY <1>5, <1>8, <3>1 DEF Under, Agree
  <2> QED BY <1>2, <1>3, <2>1, <2>2
<1> QED BY <1>4, <1>7, <1>8 DEF Resumable, r, x


\* What a repeat with compact history forgets lies below its step.
LEMMA CompactBelow ==
  ASSUME NEW m \in RunState, NEW x \in Path, NEW n \in Nat, NEW k,
         k = m \/ k = Compact(m, Append(x, n)), Route(CompletedPaths(m), x)
  PROVE  /\ k \in RunState /\ k.status = m.status
         /\ CompletedPaths(k) \in SUBSET CompletedPaths(m) /\ Route(CompletedPaths(k), x)
         /\ Counts(m, k, Len(x))
<1> DEFINE y == Append(x, n)
           J == CompletedPaths(m)
           K == CompletedPaths(k)
<1>1. y \in Path /\ Len(x) \in Nat /\ Len(y) = Len(x) + 1 BY AppendKey DEF Path
<1>2. J \in SUBSET Path BY PathsType
<1> HIDE DEF y, J
<1>3. CASE k = m BY <1>3, CountsSame DEF J
<1>4. CASE k = Compact(m, y)
  <2>1. k \in RunState BY <1>4, CompactType
  <2>2. K \in SUBSET J /\ (\A a \in J \ K : IsPrefix(y, a)) /\ k.status = m.status
    BY <1>4, CompactPaths DEF J
  <2>3. ASSUME NEW a \in J \ K PROVE Len(x) < Len(a)
    <3>1. a \in Path /\ Leads(y, a) BY <1>1, <1>2, <2>2, <2>3, PrefixLeads
    <3>2. Len(a) \in Nat BY <3>1 DEF Path
    <3> QED BY <1>1, <3>1, <3>2 DEF Leads
  <2>4. Route(K, x)
    <3> HIDE DEF K
    <3> QED BY <1>2, <2>2, <2>3, RouteLess DEF J
  <2>5. ASSUME NEW z \in Path, Len(z) < Len(x) PROVE ~IsPrefix(y, z)
    <3>1. Len(z) \in Nat BY DEF Path
    <3>2. ~Leads(y, z) BY <1>1, <2>5, <3>1 DEF Leads
    <3> QED BY <1>1, <3>2, PrefixLeads
  <2>6. Counts(m, k, Len(x)) BY <1>4, <2>5, CompactRepeats DEF Counts
  <2> QED BY <2>1, <2>2, <2>4, <2>6 DEF J
<1> QED BY <1>3, <1>4 DEF y

\* A repeat.
LEMMA RepeatPlaced ==
  ASSUME TypeOK, NEW w \in Worker, Placed(proc[w]),
         \/ BeginIteration(w) \/ UntilTimeout(w)
         \/ \E o \in Outcome \cup {"more"} : Until(w, o)
  PROVE  Placed(proc'[w])
<1> DEFINE q == proc[w]
           f == q.stack[1]
           x == Here(f)
           J == CompletedPaths(q.mem)
           cp == q.mem.currentPath
           def == Def[StepOf(q)]
           r == RepeatAt(q.mem, StepPath(q))
<1>1. q \in Call /\ proc \in [Worker -> Call] BY DEF TypeOK
<1>2. PICK l \in {"call", "until"} : At(q, l) BY DEF BeginIteration, UntilTimeout, Until
<1>3. /\ q.mem \in RunState /\ q.stack \in Seq(Frame) /\ q.stack # <<>> /\ f \in Frame /\ Framed(f)
      /\ f.i \in DOMAIN f.steps /\ StepPath(q) = x /\ x \in Path /\ StepOf(q) = f.steps[f.i]
      /\ StepOf(q) \in Step /\ J \in SUBSET Path /\ cp \in Path
      /\ Chained(q.stack, q.mem) /\ Sound(q.mem) /\ q.mem.status = "running"
      /\ Leads(x, cp) /\ Resumable(J, cp) /\ Route(J, x) /\ Going(l, q.mem, f) /\ q.pc = l
  BY <1>1, <1>2, AtPlaced DEF Forward
<1>4. def = Def[f.steps[f.i]] /\ Len(x) = Len(f.base) + 1 BY <1>3, HereIs
<1>5. r \in RepeatState /\ r.path = x /\ r.iteration \in Nat
  <2>1. r \in RepeatState /\ r.path = x BY <1>3, RepeatAtType
  <2> QED BY <2>1 DEF RepeatState
<1>6. r = RepeatAt(q.mem, x) BY <1>3
<1> HIDE DEF J, cp, def, x, r
<1>7. CASE BeginIteration(w)
  <2> DEFINE d == Len(x) + 1
             it == IF d <= Len(cp) THEN cp[d] ELSE r.iteration
             s == [r EXCEPT !.iteration = it]
             m == SetRepeat(q.mem, s)
             body == def.body
             start == ResumeIndex(body, cp, d + 1)
             g == NewFrame(Append(x, it), body, start, cp)
             until == [q EXCEPT !.mem = m, !.pc = "until"]
             down == Push([q EXCEPT !.mem = m], g)
  <2>1. /\ At(q, "call") /\ def.kind = "repeat" /\ it \in Nat
        /\ proc'[w] = until \/ proc'[w] = down
    <3>1. At(q, "call") /\ def.kind = "repeat" BY <1>7 DEF BeginIteration, def
    <3>2. it \in Nat /\ (proc'[w] = until \/ proc'[w] = down)
      BY <1>1, <1>3, <1>7 DEF BeginIteration, Local, Set, cp, def, r
    <3> QED BY <3>1, <3>2
  <2>2. Entered(J, cp, f) BY <1>3, <2>1 DEF Going, InStep, At, J, cp
  <2>3. /\ Asking(J, cp, f, it) /\ start \in Nat \ {0} /\ Inside(f, it, body)
        /\ Stands(J, cp, g)
    <3>1. it = (IF d <= Len(cp) THEN cp[d] ELSE r.iteration) /\ d = Len(Here(f)) + 1 BY DEF x
    <3> HIDE DEF it, d
    <3> QED BY <1>3, <1>4, <2>1, <2>2, <3>1, IterationBegins DEF x
  <2> HIDE DEF it, start
  <2>4. s \in RepeatState /\ s.path = x /\ s.iteration = it BY <1>5, <2>1 DEF RepeatState
  <2> HIDE DEF s
  <2>5. /\ m \in RunState /\ RepeatAt(m, x) = s
        /\ m.completed = q.mem.completed /\ m.status = q.mem.status
        /\ m.currentPath = cp /\ Counts(q.mem, m, Len(f.base) + 1)
    BY <1>3, <1>4, <2>4, SetRepeatType, SetRepeatIs, SetCounts DEF cp
  <2> HIDE DEF m
  <2>6. CompletedPaths(m) = J BY <2>5 DEF CompletedPaths, J
  <2>7. Sound(m) BY <1>3, <2>5, SoundSame DEF GoesForward, cp
  <2>8. CASE proc'[w] = until
    <3>1. until.mem = m /\ until.pc = "until" /\ until.stack = q.stack BY <1>1 DEF Call
    <3> HIDE DEF until
    <3>2. Chained(q.stack, m) BY <1>3, <2>5, ChainKept
    <3>3. Asking(J, cp, f, RepeatAt(m, Here(f)).iteration) BY <2>3, <2>4, <2>5 DEF x
    <3>4. Going("until", m, f) BY <1>3, <2>5, <2>6, <3>3 DEF Going, InStep
    <3>5. Heading(until) = "until" BY <3>1 DEF Heading
    <3>6. Placed(until) BY <2>7, <3>1, <3>2, <3>4, <3>5, PlacedOn DEF Forward
    <3> QED BY <2>8, <3>6
  <2>9. CASE proc'[w] = down
    <3>1. g \in Frame /\ Framed(g) /\ Joined(g, f, m)
      <4>1. RepeatAt(m, Here(f)).iteration = it BY <2>4, <2>5 DEF x
      <4> QED BY <1>3, <2>3, <4>1, InsideIs DEF x
    <3> HIDE DEF g
    <3> DEFINE p == [q EXCEPT !.mem = m]
    <3>2. p \in Call /\ p.mem = m /\ p.stack = q.stack BY <1>1, <2>5, MemType, WithMemIs
    <3> HIDE DEF p
    <3>3. Push(p, g).pc = "steps" /\ Push(p, g).mem = m /\ Push(p, g).stack = <<g>> \o q.stack
      <4>1. /\ Push(p, g).pc = "steps" /\ Push(p, g).mem = p.mem
            /\ Push(p, g).stack = <<g>> \o p.stack
        BY <3>2, PushIs
      <4> QED BY <3>2, <4>1
    <3>4. Heading(Push(p, g)) = "steps" BY <3>3 DEF Heading
    <3>5. Placed(Push(p, g))
      <4> DEFINE n == Push(p, g)
      <4>1. n.mem = m /\ n.stack = <<g>> \o q.stack /\ Heading(n) = "steps" BY <3>3, <3>4
      <4> HIDE DEF n
      <4>2. Placed(n) BY <1>3, <2>3, <2>5, <2>6, <2>7, <3>1, <4>1, PushPlaced
      <4> QED BY <4>2 DEF n
    <3> QED BY <2>9, <3>5 DEF p
  <2> QED BY <2>1, <2>8, <2>9
<1>8. CASE UntilTimeout(w)
  <2>1. proc'[w] = Fail(q, "timeout", StepPath(q)) BY <1>1, <1>8 DEF UntilTimeout, Local, Set
  <2> QED BY <1>1, <2>1, PlacedFail
<1>9. ASSUME NEW o \in Outcome \cup {"more"}, Until(w, o) PROVE Placed(proc'[w])
  <2> DEFINE y == Append(x, r.iteration)
             m == IF def.compact THEN Compact(q.mem, y) ELSE q.mem
             fin == [r EXCEPT !.awaiting = FALSE, !.startedAt = NoTime]
             next == [r EXCEPT !.awaiting = FALSE, !.iteration = @ + 1]
             a == SetRepeat(m, fin)
             b == [a EXCEPT !.currentPath = x]
             k == Complete(b, x, FALSE)
             c == SetRepeat(m, next)
             ahead == Append(x, next.iteration)
             on == [c EXCEPT !.currentPath = ahead]
             done == PersistThen([Advance(q) EXCEPT !.pc = "steps"], k)
  <2>1. /\ At(q, "until")
        /\ \/ proc'[w] = done
           \/ proc'[w] = Fail([q EXCEPT !.mem = m], "step", x)
           \/ proc'[w] = Persist(q, on, "return")
           \/ proc'[w] = Persist(q, q.mem, "return")
           \/ proc'[w] = Fail(q, KindOf(o), x)
    <3>1. At(q, "until") BY <1>9 DEF Until
    <3> QED BY <3>1, <1>1, <1>3, <1>9 DEF Until, Local, Set, def, r
  <2>2. Asking(J, cp, f, r.iteration) BY <1>3, <1>6, <2>1 DEF Going, At, J, cp, x
  <2>3. m = q.mem \/ m = Compact(q.mem, y) OBVIOUS
  <2> HIDE DEF m
  <2> DEFINE K == CompletedPaths(m)
  <2>4. /\ m \in RunState /\ m.status = "running" /\ K \in SUBSET J /\ Route(K, x)
        /\ Counts(q.mem, m, Len(x))
    BY <1>3, <1>5, <2>3, CompactBelow DEF J
  <2>5. fin \in RepeatState /\ fin.path = x BY <1>5 DEF RepeatState, Time
  <2>6. next \in RepeatState /\ next.path = x /\ next.iteration = r.iteration + 1
    <3>1. r.iteration + 1 \in Nat BY <1>5
    <3> QED BY <1>5, <3>1 DEF RepeatState
  <2> HIDE DEF fin, next
  <2>7. /\ a \in RunState /\ a.completed = m.completed /\ a.status = m.status
        /\ Counts(m, a, Len(x))
    BY <2>4, <2>5, SetRepeatType, SetRepeatIs, SetCounts
  <2>8. c \in RunState /\ c.completed = m.completed
    BY <2>4, <2>6, SetRepeatType, SetRepeatIs
  <2> HIDE DEF a, c
  <2>9. /\ b \in RunState /\ b.completed = m.completed /\ b.status = m.status
        /\ b.currentPath = x /\ b.repeats = a.repeats
    BY <1>3, <2>7 DEF RunState
  <2> HIDE DEF b
  <2>10. CASE proc'[w] = done
    <3>1. CompletedPaths(b) = K BY <2>9 DEF CompletedPaths
    <3>2. k \in RunState /\ CompletedPaths(k) = K \cup {x}
      BY <1>3, <2>9, <3>1, CompleteType, CompletePaths
    <3>3. k.status = "running" /\ k.currentPath = x /\ k.repeats = a.repeats
      BY <2>4, <2>9 DEF Complete, RunState
    <3>4. Counts(q.mem, k, Len(f.base) + 1)
      <4>1. Counts(a, k, Len(x)) BY <2>7, <3>3, CountsSame
      <4> QED BY <1>4, <2>4, <2>7, <4>1 DEF Counts
    <3>5. done.mem = k /\ Heading(done) = "steps" /\ done.stack = [q.stack EXCEPT ![1].i = @ + 1]
      BY <1>1, <1>3, NextIs
    <3> HIDE DEF done, k, K
    <3>6. K \in SUBSET Path BY <1>3, <2>4
    <3>7. Placed(done) BY <1>3, <2>4, <3>2, <3>3, <3>4, <3>5, <3>6, CompletePlaced DEF x
    <3> QED BY <2>10, <3>7
  <2>11. Placed(Fail([q EXCEPT !.mem = m], "step", x))
    <3>1. [q EXCEPT !.mem = m] \in Call BY <1>1, <2>4, MemType
    <3> QED BY <3>1, PlacedFail
  <2>12. Placed(Persist(q, on, "return"))
    <3>1. ahead \in Path /\ Resumable(K, ahead)
      <4> HIDE DEF K
      <4> QED BY <1>3, <1>5, <2>2, <2>4, <2>6, NextIteration DEF x
    <3>2. on.completed = m.completed /\ on.currentPath = ahead BY <2>8 DEF RunState
    <3> HIDE DEF on
    <3>3. CompletedPaths(on) = K BY <3>2 DEF CompletedPaths
    <3>4. Sound(on) BY <3>1, <3>2, <3>3 DEF Sound
    <3> QED BY <1>1, <3>4, PlacedPersist
  <2>13. Placed(Persist(q, q.mem, "return")) /\ Placed(Fail(q, KindOf(o), x))
    BY <1>1, <1>3, PlacedPersist, PlacedFail
  <2> QED BY <2>1, <2>10, <2>11, <2>12, <2>13
<1> QED BY <1>7, <1>8, <1>9


\* The start of Run.
LEMMA StartPlaced ==
  ASSUME TypeOK, NEW w \in Worker, Placed(proc[w]), Start(w)
  PROVE  Placed(proc'[w])
<1> DEFINE q == proc[w]
           J == CompletedPaths(q.mem)
           cp == q.mem.currentPath
           start == ResumeIndex(Root, cp, 1)
           f == NewFrame(<<>>, Root, start, cp)
           m == [q.mem EXCEPT !.status = "running"]
           n == PersistThen(Push(q, f), m)
           stop == [q EXCEPT !.pc = "return"]
<1>1. q \in Call /\ q.mem \in RunState /\ proc \in [Worker -> Call] /\ q.pc = "start"
  BY MemType DEF TypeOK, Start
<1>2. q.stack = <<>> /\ ~IsTerminal(q.mem) /\ Sound(q.mem)
  BY <1>1 DEF Placed, Heading
<1>3. J \in SUBSET Path /\ cp \in Path BY <1>1, PathsType
<1>4. Placed(Persist(q, q.mem, "compensate")) BY <1>1, <1>2, PlacedPersist
<1>5. Placed(stop)
  <2>1. stop.pc = "return" BY <1>1, GotoIs
  <2> HIDE DEF stop
  <2> QED BY <2>1, PlacedOff DEF Heading, Forward
<1>6. ASSUME q.mem.status # "compensating" PROVE Placed(n)
  <2>1. Resumable(J, cp)
    <3>1. q.mem.status \in Status BY <1>1 DEF RunState
    <3>2. GoesForward(q.mem) BY <1>2, <1>6, <3>1 DEF GoesForward, IsTerminal, Status, Terminal
    <3> QED BY <1>2, <3>2 DEF Sound
  <2>2. start \in Nat \ {0} BY ResumeIndexType, DefinitionAssumption
  <2> HIDE DEF start
  <2>3. /\ f \in Frame /\ Framed(f) /\ f.base = <<>> /\ f.steps = Root /\ f.start = start
        /\ f.i = start /\ f.resume = cp
    BY <1>3, <2>2, ScopeTop
  <2> HIDE DEF f
  <2>4. /\ Len(f.base) = 0 /\ Leads(f.base, cp)
    <3>1. Len(f.base) = 0 /\ Len(cp) \in Nat BY <1>3, <2>3 DEF Path
    <3> QED BY <3>1 DEF Leads, Agree
  <2>5. Stands(J, cp, f)
    <3>1. f.start = ResumeIndex(f.steps, cp, Len(f.base) + 1) BY <2>3, <2>4 DEF start
    <3> HIDE DEF J, cp
    <3> QED BY <1>3, <2>1, <2>3, <2>4, <3>1, ResumeStands
  <2>6. m.status = "running" /\ m.completed = q.mem.completed /\ m.currentPath = cp
    BY <1>1 DEF RunState
  <2> HIDE DEF m
  <2>7. CompletedPaths(m) = J BY <2>6 DEF CompletedPaths
  <2>8. Push(q, f) \in Call /\ Push(q, f).pc = "steps" /\ Push(q, f).stack = <<f>> \o q.stack
    BY <1>1, <2>3, PushType, PushIs
  <2>9. n.mem = m /\ n.pc = "snapshot" /\ n.next = "steps" /\ n.stack = <<f>> \o q.stack
    BY <2>8, PersistThenIs
  <2> HIDE DEF n
  <2> DEFINE t == <<f>>
  <2>10. n.stack = t /\ t \in Seq(Frame) /\ t # <<>> /\ DOMAIN t = {1} /\ Len(t) = 1 /\ t[1] = f
    <3>1. <<f>> \o <<>> = <<f>> BY <2>3
    <3> QED BY <1>2, <2>3, <2>9, <3>1
  <2> HIDE DEF t
  <2>11. Chained(t, m) BY <2>3, <2>10 DEF Chained
  <2>12. Going("steps", m, f) BY <2>5, <2>6, <2>7 DEF Going, InStep
  <2>13. Sound(m) BY <2>1, <2>6, <2>7 DEF Sound
  <2>14. Heading(n) = "steps" BY <2>9 DEF Heading
  <2> QED BY <2>9, <2>10, <2>11, <2>12, <2>13, <2>14, PlacedOn DEF Forward
<1>7. \/ proc'[w] = stop
      \/ proc'[w] = Persist(q, q.mem, "compensate")
      \/ q.mem.status # "compensating" /\ proc'[w] = n
  BY <1>1 DEF Start, Local, Set
<1> QED BY <1>4, <1>5, <1>6, <1>7

\* A call whose innermost scope returns an error.
LEMMA UnwindPlaced ==
  ASSUME NEW p \in Call
  PROVE  /\ p.err.kind # "nocompensate" \/ Sound(p.mem) => Placed(Unwind(p))
         /\ \A m : Sound(m) => Placed(PersistThen(Unwind(p), m))
<1>1. /\ Unwind(p).pc \in {"raise", "return"} /\ Unwind(p).mem = p.mem
      /\ Unwind(p).err = p.err /\ Unwind(p) \in Call
  BY UnwindIs, UnwindType
<1> DEFINE u == Unwind(p)
<1> HIDE DEF u
<1>2. u.pc \in {"raise", "return"} /\ u.mem = p.mem /\ u.err = p.err /\ u \in Call BY <1>1 DEF u
<1>3. Heading(u) \notin Forward \cup {"start"} BY <1>2 DEF Heading, Forward
<1>4. p.err.kind # "nocompensate" \/ Sound(p.mem) => Placed(u) BY <1>2, <1>3, PlacedOff
<1>5. ASSUME NEW m, Sound(m) PROVE Placed(PersistThen(u, m))
  <2> DEFINE n == PersistThen(u, m)
  <2>1. n.pc = "snapshot" /\ n.next = u.pc /\ n.mem = m BY <1>2, PersistThenIs
  <2> HIDE DEF n
  <2>2. Heading(n) \notin Forward \cup {"start"} BY <1>2, <2>1 DEF Heading, Forward
  <2>3. Placed(n) BY <1>5, <2>1, <2>2, PlacedOff
  <2> QED BY <2>3 DEF n
<1> QED BY <1>4, <1>5 DEF u

\* The error path.
LEMMA RaisePlaced ==
  ASSUME TypeOK, NEW w \in Worker, Placed(proc[w]),
         RaiseCancelled(w) \/ Propagate(w) \/ RaiseNoCompensate(w) \/ RaiseFailure(w)
  PROVE  Placed(proc'[w])
<1> DEFINE q == proc[w]
<1>1. q \in Call /\ q.mem \in RunState /\ proc \in [Worker -> Call]
  BY MemType DEF TypeOK
<1>2. At(q, "raise") BY DEF RaiseCancelled, Propagate, RaiseNoCompensate, RaiseFailure
<1>3. q.pc = "raise" /\ StepPath(q) \in Path BY <1>1, <1>2, AtType DEF At
<1>4. ~q.cancelled /\ q.err.kind = "nocompensate" => Sound(q.mem) BY <1>3 DEF Placed
<1>5. CASE RaiseCancelled(w)
  <2> DEFINE p == [q EXCEPT !.mem.currentPath = StepPath(q),
                            !.err = [kind |-> "context", path |-> <<>>]]
  <2>1. proc'[w] = Unwind(p) BY <1>1, <1>5 DEF RaiseCancelled, Local, Set
  <2>2. p \in Call BY <1>1, <1>3, ContextType
  <2>3. p.err.kind = "context" BY <1>1 DEF Call
  <2> HIDE DEF p
  <2> QED BY <2>1, <2>2, <2>3, UnwindPlaced
<1>6. CASE Propagate(w)
  <2>1. proc'[w] = Unwind(q) /\ ~q.cancelled BY <1>1, <1>6 DEF Propagate, Local, Set
  <2> QED BY <1>1, <1>4, <2>1, UnwindPlaced
<1>7. CASE RaiseNoCompensate(w)
  <2> DEFINE m == [q.mem EXCEPT !.failedStepPath = StepPath(q)]
  <2>1. proc'[w] = PersistThen(Unwind(q), m) /\ ~q.cancelled /\ q.err.kind = "nocompensate"
    BY <1>1, <1>7 DEF RaiseNoCompensate, Local, Set
  <2>2. m.completed = q.mem.completed /\ m.currentPath = q.mem.currentPath
        /\ m.status = q.mem.status
    BY <1>1 DEF RunState
  <2> HIDE DEF m
  <2>3. Sound(m) BY <1>4, <2>1, <2>2, SoundSame DEF GoesForward
  <2> QED BY <1>1, <2>1, <2>3, UnwindPlaced
<1>8. CASE RaiseFailure(w)
  <2> DEFINE m == [q.mem EXCEPT !.failedStepPath = StepPath(q),
                                !.status = "compensating",
                                !.compensationIndex = Len(q.mem.completed) - 1,
                                !.repeatTimeout = @ \/ q.err.kind = "timeout"]
  <2>1. proc'[w] = Persist(q, m, "compensate") BY <1>1, <1>8 DEF RaiseFailure, Local, Set
  <2>2. m.status = "compensating" BY <1>1 DEF RunState
  <2> HIDE DEF m
  <2>3. Sound(m) BY <2>2 DEF Sound, GoesForward
  <2> QED BY <1>1, <2>1, <2>3, PlacedPersist
<1> QED BY <1>5, <1>6, <1>7, <1>8

\* The compensation.
LEMMA CompensationPlaced ==
  ASSUME TypeOK, NEW w \in Worker, Placed(proc[w]),
         \/ SkipCompensation(w) \/ CompensationCancelled(w) \/ CompensationDone(w)
         \/ \E o \in {"ok", "error", "retryafter", "context"} : Compensate(w, o)
  PROVE  Placed(proc'[w])
<1> DEFINE q == proc[w]
           down == [q.mem EXCEPT !.compensationIndex = @ - 1]
<1>1. q \in Call /\ q.mem \in RunState /\ proc \in [Worker -> Call]
  BY MemType DEF TypeOK
<1>2. q.pc = "compensate"
  BY DEF SkipCompensation, CompensationCancelled, CompensationDone, Compensate, AtCompletion
<1>3. Sound(q.mem) BY <1>2 DEF Placed
<1>4. Sound(down)
  <2>1. down.completed = q.mem.completed /\ down.currentPath = q.mem.currentPath
        /\ down.status = q.mem.status
    BY <1>1 DEF RunState
  <2> HIDE DEF down
  <2> QED BY <1>3, <2>1, SoundSame DEF GoesForward
<1>5. CASE SkipCompensation(w)
  <2>1. proc'[w] = [q EXCEPT !.mem.compensationIndex = @ - 1]
    BY <1>1, <1>5 DEF SkipCompensation, Local, Set
  <2>2. proc'[w].pc = "compensate" /\ proc'[w].mem = down BY <2>1, <1>1, <1>2 DEF Call
  <2> HIDE DEF down
  <2>3. Heading(proc'[w]) \notin Forward \cup {"start"} BY <2>2 DEF Heading, Forward
  <2> QED BY <1>4, <2>2, <2>3, PlacedOff
<1>6. CASE CompensationCancelled(w)
  <2> DEFINE p == [q EXCEPT !.err = [kind |-> "context", path |-> <<>>]]
  <2>1. proc'[w] = Unwind(p) BY <1>1, <1>6 DEF CompensationCancelled, Local, Set
  <2>2. p \in Call /\ p.err.kind = "context" BY <1>1, ContextType DEF Call
  <2> HIDE DEF p
  <2> QED BY <2>1, <2>2, UnwindPlaced
<1>7. ASSUME NEW o \in {"ok", "error", "retryafter", "context"}, Compensate(w, o)
      PROVE  Placed(proc'[w])
  <2> DEFINE p == [q EXCEPT !.err = [kind |-> "compensation", path |-> <<>>]]
             c == [q EXCEPT !.cancelled = TRUE, !.err = [kind |-> "context", path |-> <<>>]]
  <2>1. \/ proc'[w] = Persist(q, down, "compensate")
        \/ proc'[w] = Persist(q, q.mem, "return")
        \/ proc'[w] = PersistThen(Unwind(p), q.mem)
        \/ proc'[w] = Unwind(c)
    BY <1>1, <1>7 DEF Compensate, Set
  <2>2. p \in Call /\ c \in Call /\ c.err.kind = "context" BY <1>1, ContextType DEF Call
  <2> HIDE DEF p, c, down
  <2>3. /\ Placed(Persist(q, down, "compensate")) /\ Placed(Persist(q, q.mem, "return"))
        /\ Placed(PersistThen(Unwind(p), q.mem)) /\ Placed(Unwind(c))
    BY <1>1, <1>3, <1>4, <2>2, PlacedPersist, UnwindPlaced
  <2> QED BY <2>1, <2>3
<1>8. CASE CompensationDone(w)
  <2> DEFINE m == [q.mem EXCEPT !.status = "failed", !.compensationIndex = -1]
             p == [q EXCEPT !.stack = <<>>]
  <2>1. proc'[w] = Persist(p, m, "return") BY <1>1, <1>8 DEF CompensationDone, Local, Set
  <2>2. p \in Call BY <1>1, NewRunType DEF Call, NoCall
  <2>3. m.status = "failed" BY <1>1 DEF RunState
  <2> HIDE DEF p, m
  <2>4. Sound(m) BY <2>3 DEF Sound, GoesForward
  <2> QED BY <2>1, <2>2, <2>4, PlacedPersist
<1> QED BY <1>5, <1>6, <1>7, <1>8


\* The write of a snapshot, however it ends: what is written is sound.
LEMMA SnapshotPlaced ==
  ASSUME TypeOK, Sound(store), NEW w \in Worker, Placed(proc[w]),
         SnapshotOK(w) \/ SnapshotFailed(w) \/ SnapshotAckLost(w)
  PROVE  Sound(store') /\ Placed(proc'[w])
<1> DEFINE q == proc[w]
           m == Written(q.mem)
           n == [q EXCEPT !.pc = q.next]
           r == [q EXCEPT !.pc = q.next, !.mem = m]
<1>1. q \in Call /\ q.mem \in RunState /\ proc \in [Worker -> Call] /\ q.stack \in Seq(Frame)
  BY MemType DEF TypeOK, Call
<1>2. q.pc = "snapshot" /\ Heading(q) = q.next
  BY DEF SnapshotOK, SnapshotFailed, SnapshotAckLost, Heading
<1>3. Sound(q.mem) BY <1>2 DEF Placed
<1>4. m.completed = q.mem.completed /\ m.currentPath = q.mem.currentPath
      /\ m.status = q.mem.status /\ m.repeats = q.mem.repeats
  BY <1>1 DEF Written, RunState
<1>5. n.pc = q.next /\ n.next = q.next /\ n.stack = q.stack /\ n.mem = q.mem BY <1>1 DEF Call
<1>6. r.pc = q.next /\ r.next = q.next /\ r.stack = q.stack /\ r.mem = m BY <1>1 DEF Call
<1>7. \/ proc'[w] = n /\ store' = store
      \/ proc'[w] = r /\ store' = m
      \/ proc'[w] = NoCall /\ (store' = store \/ store' = m)
  BY <1>1 DEF SnapshotOK, SnapshotFailed, SnapshotAckLost, Local, Set
<1> HIDE DEF m, n, r
<1>8. Sound(m) BY <1>3, <1>4, SoundSame DEF GoesForward
<1>9. ASSUME NEW p, p.pc = q.next, p.next = q.next, p.stack = q.stack,
             p.mem = q.mem \/ p.mem = m
      PROVE  Placed(p)
  <2>1. Heading(p) = Heading(q) BY <1>2, <1>9 DEF Heading
  <2>2. Sound(p.mem) BY <1>3, <1>8, <1>9
  <2>3. p.mem.status = q.mem.status /\ p.mem.completed = q.mem.completed
        /\ p.mem.currentPath = q.mem.currentPath /\ p.mem.repeats = q.mem.repeats
    BY <1>4, <1>9
  <2>4. Heading(p) = "start" => p.stack = <<>> /\ ~IsTerminal(p.mem)
    BY <1>9, <2>1, <2>3 DEF Placed, IsTerminal
  <2>5. ASSUME Heading(p) \in Forward
        PROVE  Chained(p.stack, p.mem) /\ Going(Heading(p), p.mem, p.stack[1])
    <3>1. Chained(q.stack, q.mem) /\ Going(Heading(q), q.mem, q.stack[1])
      BY <2>1, <2>5 DEF Placed
    <3>2. \A l : Counts(q.mem, p.mem, l) BY <1>1, <2>3, CountsSame
    <3>3. Chained(q.stack, p.mem) BY <1>1, <3>1, <3>2, ChainKept
    <3>4. \A x : RepeatAt(p.mem, x) = RepeatAt(q.mem, x) BY <2>3 DEF RepeatAt
    <3>5. Going(Heading(q), p.mem, q.stack[1]) BY <2>3, <3>1, <3>4, GoingSame
    <3> QED BY <1>9, <2>1, <3>3, <3>5
  <2> QED BY <2>2, <2>4, <2>5 DEF Placed
<1>10. Placed(n) /\ Placed(r) BY <1>5, <1>6, <1>9
<1> QED BY <1>7, <1>8, <1>10, PlacedNoCall

\* The beginning and the end of a call, when the caller saves nothing itself.
LEMMA EndPlaced ==
  ASSUME TypeOK, ~CallerSaves, Sound(store), NEW w \in Worker, Placed(proc[w]),
         Load(w) \/ Return(w) \/ Crash(w) \/ Cancel(w)
  PROVE  Sound(store') /\ Placed(proc'[w])
<1> DEFINE q == proc[w]
           n == [NoCall EXCEPT !.pc = "start", !.mem = store]
           c == [q EXCEPT !.cancelled = TRUE]
<1>1. q \in Call /\ proc \in [Worker -> Call] BY DEF TypeOK
<1>2. store' = store BY DEF Load, Return, Crash, Cancel, Local
<1>3. CASE Load(w)
  <2>1. proc'[w] = n /\ ~IsTerminal(store) BY <1>1, <1>3 DEF Load, Set
  <2>2. n.pc = "start" /\ n.mem = store /\ n.stack = <<>> BY DEF NoCall
  <2> HIDE DEF n
  <2>3. Heading(n) = "start" BY <2>2 DEF Heading
  <2>4. Placed(n) BY <2>1, <2>2, <2>3 DEF Placed, Forward
  <2> QED BY <1>2, <2>1, <2>4
<1>4. CASE Return(w) \/ Crash(w)
  <2>1. proc'[w] = NoCall BY <1>1, <1>4 DEF Return, Crash, Local, Set
  <2> QED BY <1>2, <2>1, PlacedNoCall
<1>5. CASE Cancel(w)
  <2>1. proc'[w] = c BY <1>1, <1>5 DEF Cancel, Local, Set
  <2>2. c.pc = q.pc /\ c.next = q.next /\ c.mem = q.mem /\ c.stack = q.stack /\ c.err = q.err
        /\ c.cancelled = TRUE
    BY <1>1 DEF Call
  <2> HIDE DEF c
  <2>3. Heading(c) = Heading(q) BY <2>2 DEF Heading
  <2>4. Placed(c) BY <2>2, <2>3 DEF Placed
  <2> QED BY <1>2, <2>1, <2>4
<1> QED BY <1>3, <1>4, <1>5

-----------------------------------------------------------------------------
(* The position is an invariant.                                           *)

\* A run that has not begun has completed nothing.
LEMMA InitPosition == Init => Position
<1> SUFFICES ASSUME Init PROVE Position OBVIOUS
<1>1. store = NewRun /\ \A w \in Worker : proc[w] = NoCall BY DEF Init
<1>2. CompletedPaths(NewRun) = {} /\ NewRun.currentPath = <<>> BY DEF CompletedPaths, NewRun
<1>3. Resumable({}, <<>>)
  <2>1. DOMAIN <<>> = {} OBVIOUS
  <2> QED BY <2>1 DEF Resumable, Route
<1>4. Sound(store) BY <1>1, <1>2, <1>3 DEF Sound
<1> QED BY <1>1, <1>4, PlacedNoCall DEF Position


\* Every step of every worker keeps the position.
LEMMA StepKeepsPosition ==
  ASSUME TypeOK, ~CallerSaves, Position, [Next]_vars
  PROVE  Position'
<1>1. ASSUME NEW w \in Worker, Placed(proc'[w]), Sound(store'), \E n : Set(w, n)
      PROVE  Position'
  <2>1. \A v \in Worker \ {w} : proc'[v] = proc[v] BY <1>1 DEF Set, TypeOK
  <2>2. \A v \in Worker : Placed(proc'[v]) BY <1>1, <2>1 DEF Position
  <2> QED BY <1>1, <2>2 DEF Position
<1>2. ASSUME NEW w \in Worker, Placed(proc'[w]), store' = store, \E n : Set(w, n)
      PROVE  Position'
  <2>1. Sound(store') BY <1>2 DEF Position
  <2> QED BY <1>1, <1>2, <2>1
<1>3. Sound(store) /\ \A w \in Worker : Placed(proc[w]) BY DEF Position
<1>4. ASSUME NEW w \in Worker, WorkerStep(w) PROVE Position'
  <2>1. CASE Start(w)
    BY <1>2, <1>3, <2>1, StartPlaced DEF Start, Local
  <2>2. CASE SnapshotOK(w) \/ SnapshotFailed(w)
    <3>1. Sound(store') /\ Placed(proc'[w]) BY <1>3, <2>2, SnapshotPlaced
    <3>2. \E n : Set(w, n) BY <2>2 DEF SnapshotOK, SnapshotFailed, Local
    <3> QED BY <1>1, <3>1, <3>2
  <2>3. CASE SkipCompleted(w) \/ StopCancelled(w) \/ EnterStep(w)
    BY <1>2, <1>3, <2>3, StepsPlaced DEF SkipCompleted, StopCancelled, EnterStep, Local
  <2>4. CASE ScopeDone(w)
    BY <1>2, <1>3, <2>4, ScopePlaced DEF ScopeDone, Local
  <2>5. CASE \/ EnsureRepeatStarted(w) \/ CheckRepeatTimeout(w)
             \/ \E o \in Outcome : OnEnter(w, o)
    BY <1>2, <1>3, <2>5, ProloguePlaced
       DEF EnsureRepeatStarted, CheckRepeatTimeout, OnEnter, Local
  <2>6. CASE (\E o \in Outcome : Do(w, o)) \/ Sleep(w)
    BY <1>2, <1>3, <2>6, ActionPlaced DEF Do, Sleep, Local
  <2>7. CASE PollTimeout(w) \/ \E o \in Outcome \cup {"pending"} : Check(w, o)
    BY <1>2, <1>3, <2>7, PollPlaced DEF PollTimeout, Check, Local
  <2>8. CASE \/ ResumeBranch(w) \/ \E key \in Key : Decide(w, key)
             \/ \E o \in Outcome : DecideFailed(w, o)
    BY <1>2, <1>3, <2>8, BranchPlaced DEF ResumeBranch, Decide, DecideFailed, Local
  <2>9. CASE \/ BeginIteration(w) \/ UntilTimeout(w)
             \/ \E o \in Outcome \cup {"more"} : Until(w, o)
    BY <1>2, <1>3, <2>9, RepeatPlaced DEF BeginIteration, UntilTimeout, Until, Local
  <2>10. CASE RaiseCancelled(w) \/ Propagate(w) \/ RaiseNoCompensate(w) \/ RaiseFailure(w)
    BY <1>2, <1>3, <2>10, RaisePlaced
       DEF RaiseCancelled, Propagate, RaiseNoCompensate, RaiseFailure, Local
  <2>11. CASE \/ SkipCompensation(w) \/ CompensationCancelled(w) \/ CompensationDone(w)
              \/ \E o \in {"ok", "error", "retryafter", "context"} : Compensate(w, o)
    BY <1>2, <1>3, <2>11, CompensationPlaced
       DEF SkipCompensation, CompensationCancelled, CompensationDone, Compensate, Local
  <2>12. CASE Return(w)
    <3>1. Sound(store') /\ Placed(proc'[w]) BY <1>3, <2>12, EndPlaced
    <3>2. \E n : Set(w, n) BY <2>12 DEF Return
    <3> QED BY <1>1, <3>1, <3>2
  <2> QED BY <1>4, <2>1, <2>2, <2>3, <2>4, <2>5, <2>6, <2>7, <2>8, <2>9, <2>10, <2>11, <2>12
          DEF WorkerStep
<1>5. ASSUME NEW w \in Worker, Load(w) \/ SnapshotAckLost(w) \/ Crash(w) \/ Cancel(w)
      PROVE  Position'
  <2>1. Sound(store') /\ Placed(proc'[w]) BY <1>3, <1>5, SnapshotPlaced, EndPlaced
  <2>2. \E n : Set(w, n) BY <1>5 DEF Load, SnapshotAckLost, Crash, Cancel, Local
  <2> QED BY <1>1, <2>1, <2>2
<1>6. CASE Tick \/ UNCHANGED vars BY <1>6 DEF Tick, vars, Position
<1> QED BY <1>4, <1>5, <1>6 DEF Next, Terminated

\* A step that is executed and has nothing below it is not completed.
LEMMA PositionAvoids ==
  ASSUME TypeOK, Position
  PROVE  NeverReexecuted
<1> SUFFICES ASSUME NEW w \in Worker, At(proc[w], "call"),
                    Def[StepOf(proc[w])].kind \in {"action", "poll"}
             PROVE  StepPath(proc[w]) \notin CompletedPaths(proc[w].mem)
  BY DEF NeverReexecuted
<1> DEFINE q == proc[w]
           f == q.stack[1]
           J == CompletedPaths(q.mem)
           cp == q.mem.currentPath
<1>1. q \in Call /\ Placed(q) BY DEF TypeOK, Position
<1>2. "call" \in Forward /\ "call" \in InStep BY DEF Forward, InStep
<1>3. /\ f \in Frame /\ Framed(f) /\ f.i \in DOMAIN f.steps
      /\ StepOf(q) = f.steps[f.i] /\ StepPath(q) = Here(f)
      /\ J \in SUBSET Path /\ cp \in Path /\ Going("call", q.mem, f)
      /\ Resumable(J, cp) /\ Leads(Here(f), cp)
  BY <1>1, <1>2, AtPlaced
<1>4. Entered(J, cp, f) BY <1>2, <1>3 DEF Going
<1> HIDE DEF q, f, J, cp
<1>5. Here(f) \in Path /\ Here(f) # <<>> /\ Odd(Len(Here(f))) /\ Last(Here(f)) = f.steps[f.i]
  BY <1>3, HereIs
<1>6. Def[Last(Here(f))].kind \in {"action", "poll"} BY <1>3, <1>5 DEF q
<1>7. cp = Here(f) BY <1>3, <1>5, <1>6, LeafPath DEF Resumable
<1>8. Here(f) \notin J BY <1>4, <1>7 DEF Entered
<1> QED BY <1>3, <1>8 DEF q, J

\* Every run stands where its journal says, whatever the pipeline, the number of
\* workers and the faults: the invariant behind the theorem below.
THEOREM PositionHolds ==
  ASSUME ~CallerSaves
  PROVE  Spec => []Position
<1>1. TypeOK /\ Position /\ [Next]_vars => Position'
  BY StepKeepsPosition
<1>2. QED
  BY <1>1, InitPosition, TypeCorrect, PTL DEF Spec

\* A completed action or poll is never executed again, however often the run is
\* interrupted and resumed, when the snapshots alone make it durable.
THEOREM NeverReexecutedHolds ==
  ASSUME ~CallerSaves
  PROVE  Spec => []NeverReexecuted
<1>1. TypeOK /\ Position => NeverReexecuted
  BY PositionAvoids
<1>2. QED
  BY <1>1, PositionHolds, TypeCorrect, PTL
=============================================================================
