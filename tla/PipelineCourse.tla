----------------------------- MODULE PipelineCourse -----------------------------
(***************************************************************************)
(* Proofs about the course of a whole run: that the window of a poll       *)
(* belongs to the poll where the run is, since while it is open the run    *)
(* goes down to that poll and does nothing else; what the journal and the  *)
(* states of the repeats hold of each iteration; that a run that has       *)
(* completed has skipped nothing; and that no write moves the clock of a   *)
(* repeat or the window of a poll.                                         *)
(***************************************************************************)
EXTENDS PipelineSafety

-----------------------------------------------------------------------------
(* The window of a poll.                                                   *)

\* No repeat on the way to q waits for its condition.
Awake(m, q) ==
  \A r \in m.repeats :
    r.awaiting /\ Odd(Len(r.path)) /\ Def[Last(r.path)].kind = "repeat" => ~Under(r.path, q)

\* The window in m, if it is open and the run goes forward, is that of the poll which
\* m is at.
Attends(m) ==
  GoesForward(m) /\ m.pollStartedAt # NoTime =>
    /\ Odd(Len(m.currentPath)) /\ m.currentPath \notin CompletedPaths(m)
    /\ Def[Last(m.currentPath)].kind = "poll"
    /\ Awake(m, m.currentPath)

\* While a window is open the call goes down to the poll that it belongs to.
Descends(l, m, f) ==
  /\ Awake(m, f.base)
  /\ l = "until" => m.pollStartedAt = NoTime
  /\ l = "steps" /\ m.pollStartedAt # NoTime =>
       f.i \in DOMAIN f.steps /\ f.i = f.start /\ Leads(Here(f), m.currentPath)

\* What the call p holds of the window.
Windowed(p) ==
  /\ Heading(p) \in Forward => Descends(Heading(p), p.mem, p.stack[1])
  /\ p.pc \notin {"idle", "return"} /\ (p.pc = "raise" => ~p.cancelled) => Attends(p.mem)

Windows == Attends(store) /\ \A w \in Worker : Windowed(proc[w])

\* A call that has left the forward path.
LEMMA WindowedOff ==
  ASSUME NEW p, Heading(p) \notin Forward,
         p.pc \in {"idle", "return"} \/ (p.pc = "raise" /\ p.cancelled) \/ Attends(p.mem)
  PROVE  Windowed(p)
BY DEF Windowed

\* A call on the forward path.
LEMMA WindowedOn ==
  ASSUME NEW p, Heading(p) \in Forward, Descends(Heading(p), p.mem, p.stack[1]), Attends(p.mem)
  PROVE  Windowed(p)
BY DEF Windowed

\* A call that fails.
LEMMA WindowedFail ==
  ASSUME NEW q \in Call, NEW kind, NEW path, Attends(q.mem)
  PROVE  Windowed(Fail(q, kind, path))
<1> DEFINE n == Fail(q, kind, path)
<1>1. n.pc = "raise" /\ n.mem = q.mem BY FailIs
<1> HIDE DEF n
<1>2. Heading(n) \notin Forward BY <1>1 DEF Heading, Forward
<1>3. Windowed(n) BY <1>1, <1>2, WindowedOff
<1> QED BY <1>3 DEF n

\* A call that writes its last snapshot, or one that belongs to a rollback.
LEMMA WindowedPersist ==
  ASSUME NEW q \in Call, NEW m, NEW l \in {"return", "compensate"}, Attends(m)
  PROVE  Windowed(Persist(q, m, l))
<1> DEFINE n == Persist(q, m, l)
<1>1. n.pc = "snapshot" /\ n.mem = m /\ n.next = l BY PersistIs
<1> HIDE DEF n
<1>2. Heading(n) \notin Forward BY <1>1 DEF Heading, Forward
<1>3. Windowed(n) BY <1>1, <1>2, WindowedOff
<1> QED BY <1>3 DEF n

\* A call whose innermost scope returns an error.
LEMMA UnwindWindowed ==
  ASSUME NEW p \in Call
  PROVE  /\ p.cancelled \/ Attends(p.mem) => Windowed(Unwind(p))
         /\ \A m : Attends(m) => Windowed(PersistThen(Unwind(p), m))
<1> DEFINE u == Unwind(p)
<1>1. u.pc \in {"raise", "return"} /\ u.mem = p.mem /\ u \in Call /\ u.cancelled = p.cancelled
  BY UnwindIs, UnwindType
<1> HIDE DEF u
<1>2. Heading(u) \notin Forward BY <1>1 DEF Heading, Forward
<1>3. p.cancelled \/ Attends(p.mem) => Windowed(u) BY <1>1, <1>2, WindowedOff
<1>4. ASSUME NEW m, Attends(m) PROVE Windowed(PersistThen(u, m))
  <2> DEFINE n == PersistThen(u, m)
  <2>1. n.pc = "snapshot" /\ n.next = u.pc /\ n.mem = m BY <1>1, PersistThenIs
  <2> HIDE DEF n
  <2>2. Heading(n) \notin Forward BY <1>1, <2>1 DEF Heading, Forward
  <2>3. Windowed(n) BY <1>4, <2>1, <2>2, WindowedOff
  <2> QED BY <2>3 DEF n
<1> QED BY <1>3, <1>4 DEF u

\* The window of a run that does not change where it is.
LEMMA AttendsSame ==
  ASSUME NEW m, NEW n, Attends(m), n.completed = m.completed, n.currentPath = m.currentPath,
         n.pollStartedAt = m.pollStartedAt, n.repeats = m.repeats,
         GoesForward(n) => GoesForward(m)
  PROVE  Attends(n)
BY DEF Attends, Awake, CompletedPaths

\* A window that is shut belongs to no poll.
LEMMA AttendsShut ==
  ASSUME NEW m, m.pollStartedAt = NoTime \/ ~GoesForward(m)
  PROVE  Attends(m)
BY DEF Attends

\* Away from a poll the window is shut.
LEMMA ShutElsewhere ==
  ASSUME NEW m, Attends(m), m.status = "running",
         Def[Last(m.currentPath)].kind # "poll" \/ m.currentPath \in CompletedPaths(m)
  PROVE  m.pollStartedAt = NoTime
BY DEF Attends, GoesForward

\* The path of a repeat that is read as waiting is that of a state.
LEMMA AwaitingRead ==
  ASSUME NEW m \in RunState, NEW x, RepeatAt(m, x).awaiting
  PROVE  RepeatAt(m, x) \in m.repeats /\ RepeatAt(m, x).path = x
BY DEF RepeatAt

\* The state of a repeat changes, and does not begin to wait on the way to q.
LEMMA AwakeSet ==
  ASSUME NEW m \in RunState, NEW q, Awake(m, q), NEW s \in RepeatState,
         s.awaiting => RepeatAt(m, s.path).awaiting \/ ~Under(s.path, q)
  PROVE  Awake(SetRepeat(m, s), q)
<1>1. \A r \in SetRepeat(m, s).repeats : r = s \/ r \in m.repeats BY DEF SetRepeat, RunState
<1>2. ASSUME s.awaiting, Odd(Len(s.path)), Def[Last(s.path)].kind = "repeat"
      PROVE  ~Under(s.path, q)
  <2>1. CASE RepeatAt(m, s.path).awaiting
    BY <1>2, <2>1, AwaitingRead DEF Awake
  <2> QED BY <1>2, <2>1
<1> QED BY <1>1, <1>2 DEF Awake

\* With fewer states of repeats no more of them wait.
LEMMA AwakeLess ==
  ASSUME NEW m, NEW n, n.repeats \subseteq m.repeats, NEW q, Awake(m, q)
  PROVE  Awake(n, q)
BY DEF Awake

\* No repeat waits on the way to the scope of a frame, hence none on the way to the step
\* that the frame is at; nor on the way to a scope below that, unless the step is a
\* repeat that waits.
LEMMA AwakeHere ==
  ASSUME NEW m \in RunState, NEW f \in Frame, Framed(f), f.i \in DOMAIN f.steps,
         Awake(m, f.base)
  PROVE  /\ Awake(m, Here(f))
         /\ \A c : Append(Here(f), c) \in Path
                   /\ (\A r \in m.repeats :
                         r.path = Here(f) /\ r.awaiting => Def[f.steps[f.i]].kind # "repeat")
              => Awake(m, Append(Here(f), c))
<1> DEFINE x == Here(f)
<1>1. /\ x \in Path /\ Len(x) = Len(f.base) + 1 /\ Len(f.base) \in Nat /\ Last(x) = f.steps[f.i]
  BY HereIs
<1>2. f.base \in Path /\ ~Odd(Len(f.base)) /\ \A e \in 1..Len(f.base) : x[e] = f.base[e]
  BY StepAtIs DEF Here, Frame, Framed
<1> HIDE DEF x
<1>3. ASSUME NEW r \in m.repeats, r.awaiting, Odd(Len(r.path)), Def[Last(r.path)].kind = "repeat",
             Under(r.path, x)
      PROVE  FALSE
  <2>1. r.path \in Path /\ Len(r.path) \in Nat BY DEF RunState, RepeatState, Path
  <2>2. Len(r.path) # Len(f.base) BY <1>2, <1>3
  <2>3. Len(r.path) < Len(f.base) BY <1>1, <1>3, <2>1, <2>2 DEF Under
  <2>4. \A e \in 1..Len(r.path) : e \in 1..Len(f.base) BY <1>1, <2>1, <2>3
  <2>5. Under(r.path, f.base) BY <1>2, <1>3, <2>3, <2>4 DEF Under, Agree
  <2> QED BY <1>3, <2>5 DEF Awake
<1>4. Awake(m, x) BY <1>3 DEF Awake
<1>5. ASSUME NEW c, Append(x, c) \in Path,
             \A r \in m.repeats : r.path = x /\ r.awaiting => Def[f.steps[f.i]].kind # "repeat",
             NEW r \in m.repeats, r.awaiting, Odd(Len(r.path)), Def[Last(r.path)].kind = "repeat",
             Under(r.path, Append(x, c))
      PROVE  FALSE
  <2>1. r.path \in Path /\ Len(r.path) \in Nat BY DEF RunState, RepeatState, Path
  <2>2. /\ Len(Append(x, c)) = Len(x) + 1 /\ x \in Seq(Segment)
        /\ \A e \in 1..Len(x) : Append(x, c)[e] = x[e]
    BY <1>1 DEF Path
  <2>3. Len(r.path) <= Len(x) BY <1>1, <1>5, <2>1, <2>2 DEF Under
  <2>4. \A e \in 1..Len(r.path) : e \in 1..Len(x) BY <1>1, <2>1, <2>3
  <2>5. \A e \in 1..Len(r.path) : r.path[e] = x[e] BY <1>5, <2>2, <2>4 DEF Under, Agree
  <2>6. Leads(r.path, x) BY <2>3, <2>5 DEF Leads, Agree
  <2>7. r.path = x \/ Under(r.path, x) BY <1>1, <2>1, <2>6, PathOrder
  <2>8. r.path # x BY <1>1, <1>5
  <2> QED BY <1>3, <1>5, <2>7, <2>8
<1>6. ASSUME NEW c, Append(x, c) \in Path,
             \A r \in m.repeats : r.path = x /\ r.awaiting => Def[f.steps[f.i]].kind # "repeat"
      PROVE  Awake(m, Append(x, c))
  BY <1>5, <1>6 DEF Awake
<1> QED BY <1>4, <1>6 DEF x

-----------------------------------------------------------------------------
(* The actions keep the windows.                                           *)

\* What is known of the window of a call at a step.
LEMMA AtWindowed ==
  ASSUME NEW q \in Call, Windowed(q), NEW l \in Forward, At(q, l)
  PROVE  Attends(q.mem) /\ Descends(l, q.mem, q.stack[1])
<1>1. q.pc = l BY DEF At
<1>2. Heading(q) = l /\ q.pc \notin {"idle", "return", "raise"} BY <1>1 DEF Heading, Forward
<1> QED BY <1>2 DEF Windowed

\* The worker has no call.
LEMMA WindowedNoCall == Windowed(NoCall)
BY WindowedOff DEF NoCall, Heading, Forward

\* The call stays at its step.
LEMMA GotoWindowed ==
  ASSUME NEW q \in Call, Windowed(q), NEW k \in InStep, At(q, k),
         NEW n, n.mem = q.mem, n.stack = q.stack, n.pc \in InStep
  PROVE  Windowed(n)
<1>1. k \in Forward /\ Heading(n) = n.pc /\ n.pc \in Forward /\ n.pc \notin {"steps", "until"}
  BY DEF InStep, Forward, Heading
<1>2. Attends(q.mem) /\ Descends(k, q.mem, q.stack[1]) BY <1>1, AtWindowed
<1>3. Descends(n.pc, n.mem, n.stack[1]) BY <1>1, <1>2 DEF Descends
<1> QED BY <1>1, <1>2, <1>3, WindowedOn

\* The step of the frame st[1] is completed or skipped, its window is shut, and the loop
\* goes on.
LEMMA NextWindowed ==
  ASSUME NEW st \in Seq(Frame), st # <<>>, NEW m, Awake(m, st[1].base),
         m.pollStartedAt = NoTime,
         NEW n, n.mem = m, n.stack = [st EXCEPT ![1].i = @ + 1], Heading(n) = "steps"
  PROVE  Windowed(n)
<1>1. n.stack[1].base = st[1].base
  <2>1. 1 \in DOMAIN st /\ st[1] \in Frame OBVIOUS
  <2> QED BY <2>1 DEF Frame
<1>2. Descends("steps", m, n.stack[1]) BY <1>1 DEF Descends
<1>3. Attends(m) BY AttendsShut
<1> QED BY <1>2, <1>3, WindowedOn DEF Forward

\* A nested scope is entered.
LEMMA PushWindowed ==
  ASSUME NEW st \in Seq(Frame), NEW m, Attends(m), NEW g \in Frame, Awake(m, g.base),
         m.pollStartedAt # NoTime =>
           g.i \in DOMAIN g.steps /\ g.i = g.start /\ Leads(Here(g), m.currentPath),
         NEW n, n.mem = m, n.stack = <<g>> \o st, Heading(n) = "steps"
  PROVE  Windowed(n)
<1>1. (<<g>> \o st)[1] = g OBVIOUS
<1>2. n.stack[1] = g BY <1>1
<1>3. Descends("steps", m, g) BY DEF Descends
<1> QED BY <1>2, <1>3, WindowedOn DEF Forward

\* The loop over a scope.
LEMMA StepsWindowed ==
  ASSUME TypeOK, NEW w \in Worker, Placed(proc[w]), Windowed(proc[w]),
         SkipCompleted(w) \/ StopCancelled(w) \/ EnterStep(w)
  PROVE  Windowed(proc'[w])
<1> DEFINE q == proc[w]
           m == q.mem
           f == q.stack[1]
           J == CompletedPaths(m)
           cp == m.currentPath
<1>1. q \in Call /\ proc \in [Worker -> Call] BY DEF TypeOK
<1>2. At(q, "steps") BY DEF SkipCompleted, StopCancelled, EnterStep
<1>3. /\ m \in RunState /\ q.stack \in Seq(Frame) /\ q.stack # <<>> /\ q.pc = "steps"
      /\ f \in Frame /\ Framed(f) /\ f.i \in DOMAIN f.steps
      /\ Top(q) = f /\ StepOf(q) = f.steps[f.i] /\ StepPath(q) = Here(f)
      /\ StepOf(q) \in Step /\ Here(f) \in Path /\ J \in SUBSET Path /\ cp \in Path
      /\ m.status = "running" /\ Going("steps", m, f)
  BY <1>1, <1>2, AtPlaced DEF Forward
<1>4. Attends(m) /\ Descends("steps", m, f) BY <1>1, <1>2, AtWindowed DEF Forward
<1>5. f.i = f.start => f.resume = cp BY <1>3 DEF Going, Stands
<1>6. CASE SkipCompleted(w)
  <2>1. proc'[w] = Advance(q) BY <1>1, <1>6 DEF SkipCompleted, Local, Set
  <2>2. cp \in J BY <1>3, <1>5, <1>6 DEF SkipCompleted, Resumed
  <2>3. m.pollStartedAt = NoTime BY <1>3, <1>4, <2>2, ShutElsewhere
  <2> DEFINE n == Advance(q)
  <2>4. n.mem = m /\ n.stack = [q.stack EXCEPT ![1].i = @ + 1] /\ n.pc = "steps"
    BY <1>1, <1>3, AdvanceIsNext
  <2> HIDE DEF n, m
  <2>5. Heading(n) = "steps" BY <2>4 DEF Heading
  <2>6. Windowed(n) BY <1>3, <1>4, <2>3, <2>4, <2>5, NextWindowed DEF Descends
  <2> QED BY <2>1, <2>6 DEF n
<1>7. CASE StopCancelled(w)
  <2> DEFINE p == [q EXCEPT !.mem.currentPath = StepPath(q),
                            !.err = [kind |-> "context", path |-> <<>>]]
  <2>1. proc'[w] = Unwind(p) /\ q.cancelled BY <1>1, <1>7 DEF StopCancelled, Local, Set
  <2>2. p \in Call BY <1>1, <1>3, ContextType
  <2>3. p.cancelled BY <1>1, <2>1 DEF Call
  <2> HIDE DEF p
  <2> QED BY <2>1, <2>2, <2>3, UnwindWindowed
<1>8. CASE EnterStep(w)
  <2> DEFINE deeper == Top(q).i = Top(q).start /\ IsStrictPrefix(StepPath(q), Top(q).resume)
             path == IF deeper THEN Top(q).resume ELSE StepPath(q)
             n == [q EXCEPT !.mem.currentPath = path, !.attempt = 0, !.pc = Prologue(StepOf(q))]
  <2>1. proc'[w] = n BY <1>1, <1>8 DEF EnterStep, Local, Set
  <2>2. path = Entering(f)
    <3>1. f.resume \in Path BY <1>3 DEF Frame
    <3>2. IsStrictPrefix(Here(f), f.resume) <=> Under(Here(f), f.resume)
      BY <1>3, <3>1, PrefixLeads
    <3> QED BY <1>3, <3>2 DEF Entering
  <2> HIDE DEF path
  <2>3. m.pollStartedAt # NoTime => path = cp
    <3>1. ASSUME m.pollStartedAt # NoTime PROVE path = cp
      <4>1. f.i = f.start /\ Leads(Here(f), cp) /\ f.resume = cp
        BY <1>4, <1>5, <3>1 DEF Descends
      <4>2. cp = Here(f) \/ Under(Here(f), cp) BY <1>3, <4>1, PathOrder
      <4> QED BY <2>2, <4>1, <4>2 DEF Entering
    <3> QED BY <3>1
  <2>4. /\ n.mem.completed = m.completed /\ n.mem.currentPath = path /\ n.mem.status = m.status
        /\ n.mem.repeats = m.repeats /\ n.mem.pollStartedAt = m.pollStartedAt
        /\ n.stack = q.stack /\ n.pc = Prologue(StepOf(q))
    BY <1>1, <1>3 DEF Call, RunState
  <2>5. n.pc \in InStep /\ n.pc # "snapshot" BY <2>4 DEF Prologue, Dispatch, InStep
  <2> HIDE DEF n
  <2>6. Attends(n.mem)
    <3>1. CASE m.pollStartedAt = NoTime BY <2>4, <3>1, AttendsShut
    <3>2. CASE m.pollStartedAt # NoTime BY <1>4, <2>3, <2>4, <3>2, AttendsSame DEF GoesForward
    <3> QED BY <3>1, <3>2
  <2>7. Heading(n) = n.pc /\ n.pc \in Forward BY <2>5 DEF Heading, InStep, Forward
  <2>8. Descends(n.pc, n.mem, n.stack[1])
    BY <1>4, <2>4, <2>5 DEF Descends, Awake, InStep
  <2> QED BY <2>1, <2>6, <2>7, <2>8, WindowedOn
<1> QED BY <1>6, <1>7, <1>8

\* The end of a scope.
LEMMA ScopeWindowed ==
  ASSUME TypeOK, NEW w \in Worker, Placed(proc[w]), Windowed(proc[w]), ScopeDone(w)
  PROVE  Windowed(proc'[w])
<1> DEFINE q == proc[w]
           m == q.mem
           st == Tail(q.stack)
           f == q.stack[1]
           u == st[1]
           up == [q EXCEPT !.stack = Tail(@)]
           r == RepeatAt(m, StepPath(up))
           done == Persist([q EXCEPT !.stack = <<>>], [m EXCEPT !.status = "completed"], "return")
           more == [up EXCEPT !.mem = SetRepeat(m, [r EXCEPT !.awaiting = TRUE]), !.pc = "until"]
<1>1. /\ q \in Call /\ proc \in [Worker -> Call] /\ m \in RunState /\ q.stack \in Seq(Frame)
      /\ q.stack # <<>> /\ q.pc = "steps"
  BY DEF TypeOK, Call, ScopeDone
<1>2. Chained(q.stack, m) /\ Attends(m) /\ Descends("steps", m, f)
  BY <1>1 DEF Placed, Windowed, Heading, Forward
<1>3. f \in Frame /\ Framed(f)
  <2>1. 1 \in DOMAIN q.stack BY <1>1
  <2> QED BY <1>1, <1>2, <2>1 DEF Chained
<1>4. m.pollStartedAt = NoTime
  <2>1. f.i > Len(f.steps) BY <1>1 DEF ScopeDone, Top
  <2>2. f.i \notin DOMAIN f.steps
    <3>1. f.steps \in Seq(Step) BY <1>3 DEF Frame
    <3> QED BY <2>1, <3>1
  <2> QED BY <1>2, <2>2 DEF Descends
<1>5. CASE proc'[w] = done
  <2> DEFINE p == [q EXCEPT !.stack = <<>>]
             k == [m EXCEPT !.status = "completed"]
  <2>1. k.pollStartedAt = NoTime BY <1>1, <1>4 DEF RunState
  <2>2. Attends(k) BY <2>1, AttendsShut
  <2>3. p \in Call
    <3>1. <<>> \in Seq(Frame) OBVIOUS
    <3> QED BY <1>1, <3>1 DEF Call
  <2> HIDE DEF p, k
  <2>4. Windowed(Persist(p, k, "return")) BY <2>2, <2>3, WindowedPersist
  <2> QED BY <1>5, <2>4 DEF p, k
<1>6. ASSUME Len(q.stack) > 1, At(up, "steps"),
             \/ Def[StepOf(up)].kind = "branch" /\ proc'[w] = Advance(up)
             \/ Def[StepOf(up)].kind = "repeat" /\ proc'[w] = more
      PROVE  Windowed(proc'[w])
  <2>1. /\ Chained(st, m) /\ st \in Seq(Frame) /\ u = q.stack[2] /\ Joined(f, u, m)
    BY <1>1, <1>2, <1>6, ChainPop
  <2>2. up \in Call /\ up.stack = st /\ up.mem = m /\ up.pc = "steps" BY <1>1, <2>1 DEF Call
  <2>3. u \in Frame /\ Framed(u) /\ u.i \in DOMAIN u.steps /\ st # <<>>
    <3> HIDE DEF st
    <3>1. st # <<>> /\ 1 \in DOMAIN st BY <2>1 DEF Chained
    <3>2. u \in Frame BY <2>1, <3>1
    <3>3. Framed(u) BY <2>1, <3>1 DEF Chained
    <3>4. u.i \in DOMAIN u.steps BY <2>1 DEF Joined
    <3> QED BY <3>1, <3>2, <3>3, <3>4
  <2> HIDE DEF st
  <2>4. StepPath(up) = Here(u)
    <3> HIDE DEF up
    <3>1. Top(up) = u BY <2>1, <2>2, <2>3 DEF Top
    <3> QED BY <3>1 DEF StepOf, StepPath, Here, StepAt
  <2>5. Here(u) \in Path /\ Len(Here(u)) = Len(u.base) + 1 /\ Len(u.base) \in Nat
        /\ u.base \in Path
    BY <2>3, HereIs DEF Frame
  <2>6. Awake(m, u.base)
    <3>1. f.base \in Path /\ f.base = Append(Here(u), Last(f.base)) BY <1>3, <2>1 DEF Frame, Joined
    <3>2. Under(Here(u), f.base)
      <4> DEFINE c == Last(f.base)
                 y == Here(u)
      <4>1. y \in Path /\ Append(y, c) \in Path /\ f.base = Append(y, c) BY <2>5, <3>1
      <4> HIDE DEF c, y
      <4>2. Under(y, Append(y, c)) BY <4>1, PathOrder
      <4> QED BY <4>1, <4>2 DEF y
    <3>3. Leads(u.base, Here(u)) BY <2>3, StepAtIs DEF Here
    <3>4. \A r0 \in m.repeats : Under(r0.path, u.base) => Under(r0.path, f.base)
      <4>1. ASSUME NEW r0 \in m.repeats, Under(r0.path, u.base) PROVE Under(r0.path, f.base)
        <5>1. r0.path \in Path BY <1>1 DEF RunState, RepeatState
        <5>2. Leads(u.base, f.base) BY <2>5, <3>1, <3>2, <3>3, PathOrder
        <5> QED BY <2>5, <3>1, <4>1, <5>1, <5>2, PathOrder
      <4> QED BY <4>1
    <3> QED BY <1>2, <3>4 DEF Descends, Awake
  <2>7. CASE proc'[w] = Advance(up)
    <3> DEFINE n == Advance(up)
    <3>1. n.mem = m /\ n.stack = [st EXCEPT ![1].i = @ + 1] /\ n.pc = "steps"
      BY <2>2, AdvanceIsNext
    <3> HIDE DEF n, m
    <3>2. Heading(n) = "steps" BY <3>1 DEF Heading
    <3>3. Windowed(n) BY <1>4, <2>1, <2>3, <2>6, <3>1, <3>2, NextWindowed
    <3> QED BY <2>7, <3>3 DEF n
  <2>8. CASE proc'[w] = more
    <3> DEFINE x == Here(u)
               s == [r EXCEPT !.awaiting = TRUE]
               k == SetRepeat(m, s)
    <3>1. r \in RepeatState /\ r.path = x BY <1>1, <2>4, <2>5, RepeatAtType
    <3>2. s \in RepeatState /\ s.path = x BY <3>1 DEF RepeatState
    <3> HIDE DEF s
    <3>3. k.pollStartedAt = NoTime BY <1>1, <1>4 DEF SetRepeat, RunState
    <3>4. ~Under(x, u.base) BY <2>5 DEF Under
    <3>5. Awake(k, u.base) BY <1>1, <2>6, <3>2, <3>4, AwakeSet
    <3>6. more.pc = "until" /\ more.mem = k /\ more.stack = st BY <2>2 DEF Call, s
    <3> HIDE DEF k, more
    <3>7. Attends(k) BY <3>3, AttendsShut
    <3>8. Descends("until", k, u) BY <3>3, <3>5 DEF Descends
    <3>9. Heading(more) = "until" BY <3>6 DEF Heading
    <3>10. Windowed(more) BY <3>6, <3>7, <3>8, <3>9, WindowedOn DEF Forward
    <3> QED BY <2>8, <3>10
  <2> QED BY <1>6, <2>7, <2>8
<1>7. \/ proc'[w] = done
      \/ Len(q.stack) > 1 /\ At(up, "steps") /\ Def[StepOf(up)].kind = "branch"
         /\ proc'[w] = Advance(up)
      \/ Len(q.stack) > 1 /\ At(up, "steps") /\ Def[StepOf(up)].kind = "repeat"
         /\ proc'[w] = more
  BY <1>1 DEF ScopeDone, Local, Set
<1> QED BY <1>5, <1>6, <1>7

\* The clock of a repeat and the hook.
LEMMA PrologueWindowed ==
  ASSUME TypeOK, NEW w \in Worker, Placed(proc[w]), Windowed(proc[w]),
         \/ EnsureRepeatStarted(w) \/ CheckRepeatTimeout(w)
         \/ \E o \in Outcome : OnEnter(w, o)
  PROVE  Windowed(proc'[w])
<1> DEFINE q == proc[w]
           f == q.stack[1]
           x == Here(f)
           r == RepeatAt(q.mem, StepPath(q))
           s == [r EXCEPT !.startedAt = now]
           m == SetRepeat(q.mem, s)
<1>1. q \in Call /\ proc \in [Worker -> Call] /\ now \in Nat BY DEF TypeOK
<1>2. PICK k \in InStep : At(q, k)
  BY DEF EnsureRepeatStarted, CheckRepeatTimeout, OnEnter, InStep
<1>3. k \in Forward /\ k # "steps" /\ k # "until" BY DEF InStep, Forward
<1>4. /\ q.mem \in RunState /\ q.stack \in Seq(Frame) /\ f \in Frame /\ StepPath(q) = x
      /\ x \in Path
  BY <1>1, <1>2, <1>3, AtPlaced
<1>5. Attends(q.mem) /\ Descends(k, q.mem, f) BY <1>1, <1>2, <1>3, AtWindowed
<1>6. \A l \in InStep : Windowed([q EXCEPT !.pc = l])
  <2>1. ASSUME NEW l \in InStep PROVE Windowed([q EXCEPT !.pc = l])
    <3> DEFINE n == [q EXCEPT !.pc = l]
    <3>1. n.mem = q.mem /\ n.stack = q.stack /\ n.pc = l BY <1>1, GotoIs
    <3> HIDE DEF n
    <3>2. Windowed(n) BY <1>1, <1>2, <3>1, GotoWindowed
    <3> QED BY <3>2 DEF n
  <2> QED BY <2>1
<1>7. Windowed(Persist(q, q.mem, "return")) BY <1>1, <1>5, WindowedPersist
<1>8. \A kind, path : Windowed(Fail(q, kind, path)) BY <1>1, <1>5, WindowedFail
<1>9. Windowed(Persist(q, m, "repeatCheck"))
  <2> DEFINE n == Persist(q, m, "repeatCheck")
  <2>1. r \in RepeatState /\ r.path = x /\ r = RepeatAt(q.mem, x) BY <1>4, RepeatAtType
  <2>2. s \in RepeatState /\ s.path = x /\ s.awaiting = r.awaiting
    BY <1>1, <2>1 DEF RepeatState, Time
  <2> HIDE DEF s
  <2>3. \A y : Awake(q.mem, y) => Awake(m, y) BY <1>4, <2>1, <2>2, AwakeSet
  <2>4. /\ m.completed = q.mem.completed /\ m.status = q.mem.status
        /\ m.currentPath = q.mem.currentPath /\ m.pollStartedAt = q.mem.pollStartedAt
    BY <1>4 DEF SetRepeat, RunState
  <2>5. n.mem = m /\ n.stack = q.stack /\ n.pc = "snapshot" /\ n.next = "repeatCheck"
    BY <1>1, PersistIs
  <2> HIDE DEF n, m
  <2>6. Attends(m) BY <1>5, <2>3, <2>4 DEF Attends, GoesForward, CompletedPaths
  <2>7. Descends("repeatCheck", m, f) BY <1>5, <2>3 DEF Descends
  <2>8. Heading(n) = "repeatCheck" BY <2>5 DEF Heading
  <2>9. Windowed(n) BY <2>5, <2>6, <2>7, <2>8, WindowedOn DEF Forward
  <2> QED BY <2>9 DEF n
<1>10. {"repeatCheck", "call", Dispatch(StepOf(q))} \subseteq InStep
  BY DEF Dispatch, InStep
<1>11. \/ proc'[w] = Persist(q, m, "repeatCheck")
       \/ proc'[w] = Persist(q, q.mem, "return")
       \/ \E l \in {"repeatCheck", "call", Dispatch(StepOf(q))} : proc'[w] = [q EXCEPT !.pc = l]
       \/ \E kind : proc'[w] = Fail(q, kind, StepPath(q))
  <2>1. CASE EnsureRepeatStarted(w)
    BY <1>1, <2>1 DEF EnsureRepeatStarted, Local, Set
  <2>2. CASE CheckRepeatTimeout(w)
    BY <1>1, <2>2 DEF CheckRepeatTimeout, Local, Set
  <2>3. ASSUME NEW o \in Outcome, OnEnter(w, o) PROVE <1>11!:
    BY <1>1, <2>3 DEF OnEnter, Local, Set
  <2> QED BY <2>1, <2>2, <2>3
<1> QED BY <1>6, <1>7, <1>8, <1>9, <1>10, <1>11

\* An action, and the wait between its attempts.
LEMMA ActionWindowed ==
  ASSUME TypeOK, NEW w \in Worker, Placed(proc[w]), Windowed(proc[w]),
         (\E o \in Outcome : Do(w, o)) \/ Sleep(w)
  PROVE  Windowed(proc'[w])
<1> DEFINE q == proc[w]
           f == q.stack[1]
           x == Here(f)
           m == Complete(q.mem, StepPath(q), Def[StepOf(q)].compensate)
           done == PersistThen([Advance(q) EXCEPT !.pc = "steps"], m)
           again == [q EXCEPT !.attempt = @ + 1, !.pc = "sleep"]
<1>1. q \in Call /\ proc \in [Worker -> Call] BY DEF TypeOK
<1>2. PICK k \in {"call", "sleep"} : At(q, k) BY DEF Do, Sleep
<1>3. k \in Forward /\ k \in InStep /\ k # "steps" BY DEF InStep, Forward
<1>4. /\ q.mem \in RunState /\ q.stack \in Seq(Frame) /\ q.stack # <<>> /\ f \in Frame /\ Framed(f)
      /\ f.i \in DOMAIN f.steps /\ StepPath(q) = x /\ x \in Path /\ StepOf(q) = f.steps[f.i]
      /\ CompletedPaths(q.mem) \in SUBSET Path /\ q.mem.currentPath \in Path
      /\ q.mem.status = "running" /\ Leads(x, q.mem.currentPath)
      /\ Route(CompletedPaths(q.mem), q.mem.currentPath)
  BY <1>1, <1>2, <1>3, AtPlaced DEF Resumable
<1>5. Attends(q.mem) /\ Descends(k, q.mem, f) BY <1>1, <1>2, <1>3, AtWindowed
<1>6. Windowed([q EXCEPT !.pc = "call"]) /\ Windowed(again)
  <2> DEFINE n == [q EXCEPT !.pc = "call"]
  <2>1. n.mem = q.mem /\ n.stack = q.stack /\ n.pc \in InStep BY <1>1, GotoIs DEF InStep
  <2>2. again.mem = q.mem /\ again.stack = q.stack /\ again.pc \in InStep BY <1>1 DEF Call, InStep
  <2> HIDE DEF n, again
  <2>3. Windowed(n) /\ Windowed(again) BY <1>1, <1>2, <1>3, <2>1, <2>2, GotoWindowed
  <2> QED BY <2>3 DEF n
<1>7. Windowed(Persist(q, q.mem, "return")) BY <1>1, <1>5, WindowedPersist
<1>8. \A kind, path : Windowed(Fail(q, kind, path)) BY <1>1, <1>5, WindowedFail
<1>9. ASSUME Def[StepOf(q)].kind = "action" PROVE Windowed(done)
  <2>1. x # <<>> /\ Odd(Len(x)) /\ Last(x) = f.steps[f.i] BY <1>4, HereIs
  <2>2. q.mem.currentPath = x BY <1>4, <1>9, <2>1, LeafPath
  <2>3. q.mem.pollStartedAt = NoTime BY <1>4, <1>5, <1>9, <2>1, <2>2, ShutElsewhere
  <2>4. m.pollStartedAt = NoTime /\ m.repeats = q.mem.repeats
    BY <1>4, <2>3 DEF Complete, RunState
  <2>5. done.mem = m /\ Heading(done) = "steps" /\ done.stack = [q.stack EXCEPT ![1].i = @ + 1]
    BY <1>1, <1>4, NextIs
  <2> HIDE DEF done, m
  <2>6. Awake(m, f.base) BY <1>5, <2>4 DEF Descends, Awake
  <2> QED BY <1>4, <2>4, <2>5, <2>6, NextWindowed
<1>10. \/ Def[StepOf(q)].kind = "action" /\ proc'[w] = done
       \/ proc'[w] = Persist(q, q.mem, "return")
       \/ proc'[w] = again
       \/ proc'[w] = [q EXCEPT !.pc = "call"]
       \/ \E kind : proc'[w] = Fail(q, kind, StepPath(q))
  <2>1. ASSUME NEW o \in Outcome, Do(w, o) PROVE <1>10!:
    BY <1>1, <2>1 DEF Do, Set
  <2>2. CASE Sleep(w)
    BY <1>1, <2>2 DEF Sleep, Local, Set
  <2> QED BY <2>1, <2>2
<1> QED BY <1>6, <1>7, <1>8, <1>9, <1>10

\* A poll: its check opens the window, and its end shuts it.
LEMMA PollWindowed ==
  ASSUME TypeOK, NEW w \in Worker, Placed(proc[w]), Windowed(proc[w]),
         PollTimeout(w) \/ \E o \in Outcome \cup {"pending"} : Check(w, o)
  PROVE  Windowed(proc'[w])
<1> DEFINE q == proc[w]
           f == q.stack[1]
           x == Here(f)
           J == CompletedPaths(q.mem)
           m == Opened(q.mem)
           closed == [m EXCEPT !.pollStartedAt = NoTime]
           back == [closed EXCEPT !.status = "running"]
           k == Complete(back, StepPath(q), FALSE)
           done == PersistThen([Advance(q) EXCEPT !.pc = "steps"], k)
           waiting == [m EXCEPT !.status = "polling"]
<1>1. q \in Call /\ proc \in [Worker -> Call] /\ now \in Nat BY DEF TypeOK
<1>2. At(q, "call") /\ Def[StepOf(q)].kind = "poll" BY DEF PollTimeout, Check
<1>3. /\ q.mem \in RunState /\ q.stack \in Seq(Frame) /\ q.stack # <<>> /\ f \in Frame /\ Framed(f)
      /\ f.i \in DOMAIN f.steps /\ StepPath(q) = x /\ x \in Path /\ StepOf(q) = f.steps[f.i]
      /\ J \in SUBSET Path /\ q.mem.currentPath \in Path /\ q.mem.status = "running"
      /\ Leads(x, q.mem.currentPath) /\ Route(J, q.mem.currentPath) /\ Going("call", q.mem, f)
  BY <1>1, <1>2, AtPlaced DEF Forward, Resumable
<1>4. Attends(q.mem) /\ Descends("call", q.mem, f) BY <1>1, <1>2, AtWindowed DEF Forward
<1>5. x # <<>> /\ Odd(Len(x)) /\ Last(x) = f.steps[f.i] BY <1>3, HereIs
<1>6. q.mem.currentPath = x BY <1>2, <1>3, <1>5, LeafPath
<1>7. x \notin J BY <1>3, <1>6 DEF Going, InStep, Entered
<1>8. Awake(q.mem, x) BY <1>3, <1>4, AwakeHere DEF Descends
<1>9. /\ m \in RunState /\ m.completed = q.mem.completed /\ m.currentPath = x
      /\ m.repeats = q.mem.repeats
  BY <1>1, <1>3, <1>6 DEF Opened, RunState, Time
<1> HIDE DEF m
<1>10. /\ closed \in RunState /\ closed.pollStartedAt = NoTime /\ closed.repeats = m.repeats
  BY <1>9 DEF RunState, Time
<1>11. /\ waiting.completed = m.completed /\ waiting.currentPath = m.currentPath
       /\ waiting.repeats = m.repeats
  BY <1>9 DEF RunState
<1> HIDE DEF waiting, closed
<1>12. k.pollStartedAt = NoTime /\ k.repeats = closed.repeats
  BY <1>10 DEF RunState, Complete
<1>13. ASSUME NEW n, n.completed = q.mem.completed, n.currentPath = x, n.repeats = q.mem.repeats
       PROVE  Attends(n)
  <2>1. x \notin CompletedPaths(n) BY <1>7, <1>13 DEF CompletedPaths
  <2>2. Awake(n, x) BY <1>8, <1>13 DEF Awake
  <2>3. Def[Last(x)].kind = "poll" BY <1>2, <1>3, <1>5
  <2> QED BY <1>5, <1>13, <2>1, <2>2, <2>3 DEF Attends
<1>14. Attends(m) /\ Attends(waiting) /\ Attends(closed)
  <2>1. Attends(m) BY <1>9, <1>13
  <2>2. Attends(waiting) BY <1>9, <1>11, <1>13
  <2> QED BY <1>10, <2>1, <2>2, AttendsShut
<1>15. Windowed(Persist(q, waiting, "return")) BY <1>1, <1>14, WindowedPersist
<1>16. ASSUME NEW n \in RunState, Attends(n), NEW kind
       PROVE  Windowed(Fail([q EXCEPT !.mem = n], kind, StepPath(q)))
  <2>1. [q EXCEPT !.mem = n] \in Call /\ [q EXCEPT !.mem = n].mem = n
    BY <1>1, <1>16, MemType, WithMemIs
  <2> QED BY <2>1, <1>16, WindowedFail
<1>17. Windowed(done)
  <2>1. done.mem = k /\ Heading(done) = "steps" /\ done.stack = [q.stack EXCEPT ![1].i = @ + 1]
    BY <1>1, <1>3, NextIs
  <2> HIDE DEF done, k
  <2>2. Awake(k, f.base) BY <1>4, <1>9, <1>10, <1>12 DEF Descends, Awake
  <2> QED BY <1>3, <1>12, <2>1, <2>2, NextWindowed
<1>18. \/ proc'[w] = done
       \/ proc'[w] = Persist(q, waiting, "return")
       \/ \E kind : \/ proc'[w] = Fail([q EXCEPT !.mem = m], kind, StepPath(q))
                    \/ proc'[w] = Fail([q EXCEPT !.mem = closed], kind, StepPath(q))
  <2>1. CASE PollTimeout(w)
    BY <1>1, <2>1 DEF PollTimeout, Local, Set, m, closed
  <2>2. ASSUME NEW o \in Outcome \cup {"pending"}, Check(w, o) PROVE <1>18!:
    BY <1>1, <2>2 DEF Check, Local, Set, m, closed, waiting, back
  <2> QED BY <2>1, <2>2
<1> HIDE DEF done
<1> QED BY <1>9, <1>10, <1>14, <1>15, <1>16, <1>17, <1>18

\* While a window is open, a scope that is resumed leads down to the poll.
LEMMA ResumedDescends ==
  ASSUME NEW m \in RunState, Attends(m), m.status = "running", m.pollStartedAt # NoTime,
         Route(CompletedPaths(m), m.currentPath), NEW g \in Frame, Framed(g),
         Leads(g.base, m.currentPath), g.i = g.start,
         g.start = ResumeIndex(g.steps, m.currentPath, Len(g.base) + 1)
  PROVE  g.i \in DOMAIN g.steps /\ Leads(Here(g), m.currentPath)
<1> DEFINE cp == m.currentPath
           J == CompletedPaths(m)
<1>1. J \in SUBSET Path /\ cp \in Path BY PathsType
<1>2. Odd(Len(cp)) /\ ~Odd(Len(g.base)) BY DEF Attends, GoesForward, Framed
<1>3. Len(g.base) < Len(cp)
  <2>1. Len(cp) \in Nat /\ Len(g.base) \in Nat BY <1>1 DEF Path, Frame
  <2>2. Len(cp) # Len(g.base) BY <1>2
  <2> QED BY <2>1, <2>2 DEF Leads
<1> HIDE DEF cp, J
<1>4. g.i = ResumeIndex(g.steps, cp, Len(g.base) + 1) BY DEF cp
<1>5. Route(J, cp) /\ Leads(g.base, cp) BY DEF J, cp
<1>6. g.i \in DOMAIN g.steps /\ Leads(Here(g), cp) BY <1>1, <1>3, <1>4, <1>5, ResumeLeads
<1> QED BY <1>6 DEF cp

\* A branch.
LEMMA BranchWindowed ==
  ASSUME TypeOK, NEW w \in Worker, Placed(proc[w]), Windowed(proc[w]),
         \/ ResumeBranch(w) \/ \E key \in Key : Decide(w, key)
         \/ \E o \in Outcome : DecideFailed(w, o)
  PROVE  Windowed(proc'[w])
<1> DEFINE q == proc[w]
           f == q.stack[1]
           x == Here(f)
           J == CompletedPaths(q.mem)
           cp == q.mem.currentPath
           def == Def[StepOf(q)]
<1>1. q \in Call /\ proc \in [Worker -> Call] BY DEF TypeOK
<1>2. At(q, "call") /\ def.kind = "branch" BY DEF ResumeBranch, Decide, DecideFailed
<1>3. /\ q.mem \in RunState /\ q.stack \in Seq(Frame) /\ q.stack # <<>> /\ f \in Frame /\ Framed(f)
      /\ f.i \in DOMAIN f.steps /\ StepPath(q) = x /\ x \in Path /\ StepOf(q) = f.steps[f.i]
      /\ J \in SUBSET Path /\ cp \in Path /\ q.mem.status = "running"
      /\ Leads(x, cp) /\ Route(J, cp)
  BY <1>1, <1>2, AtPlaced DEF Forward, Resumable
<1>4. Attends(q.mem) /\ Awake(q.mem, f.base)
  BY <1>1, <1>2, AtWindowed DEF Forward, Descends
<1>5. def = Def[f.steps[f.i]] BY <1>3
<1>6. \A c : Append(x, c) \in Path => Awake(q.mem, Append(x, c))
  BY <1>2, <1>3, <1>4, <1>5, AwakeHere
<1>7. Last(x) = f.steps[f.i] /\ Len(x) \in Nat BY <1>3, HereIs DEF Path
<1> HIDE DEF J, cp, def
<1>8. CASE ResumeBranch(w)
  <2> DEFINE d == Len(x) + 1
             key == cp[d]
             steps == def.paths[key]
             start == ResumeIndex(steps, cp, d + 1)
             g == NewFrame(Append(x, key), steps, start, cp)
             n == Push(q, g)
  <2>1. d <= Len(cp) /\ key \in DOMAIN def.paths /\ proc'[w] = n
    <3> HIDE DEF x
    <3> QED BY <1>1, <1>3, <1>8 DEF ResumeBranch, Local, Set, cp, def
  <2>2. Under(x, cp)
    <3>1. Len(x) < Len(cp)
      <4>1. Len(cp) \in Nat BY <1>3 DEF Path
      <4> QED BY <1>7, <2>1, <4>1
    <3> QED BY <1>3, <3>1 DEF Under, Leads
  <2> HIDE DEF x
  <2>3. Inside(f, key, steps) BY <1>2, <1>5, <2>1 DEF Inside
  <2>4. Append(x, key) \in Path /\ Leads(Append(x, key), cp)
    BY <1>3, <2>2, NextLeads
  <2> HIDE DEF key, steps
  <2>5. start \in Nat \ {0}
    <3>1. steps \in Seq(Step) BY <1>3, <2>3, StepType, HereIs DEF Inside
    <3> QED BY <3>1, ResumeIndexType
  <2>6. /\ g \in Frame /\ Framed(g) /\ g.base = Append(x, key) /\ g.steps = steps
        /\ g.start = start /\ g.i = start
    <3> HIDE DEF f, start
    <3> QED BY <1>3, <2>3, <2>5, InsideIs DEF x
  <2>7. Len(g.base) + 1 = d + 1 BY <1>3, <2>4, <2>6 DEF Path
  <2>8. n.pc = "steps" /\ n.mem = q.mem /\ n.stack = <<g>> \o q.stack BY <1>1, PushIs
  <2>9. g.start = ResumeIndex(g.steps, cp, Len(g.base) + 1) BY <2>6, <2>7
  <2> HIDE DEF n, g, start, d
  <2>10. Heading(n) = "steps" BY <2>8 DEF Heading
  <2>11. Awake(q.mem, g.base) BY <1>6, <2>4, <2>6
  <2>12. q.mem.pollStartedAt # NoTime => g.i \in DOMAIN g.steps /\ Leads(Here(g), cp)
    BY <1>3, <1>4, <2>4, <2>6, <2>9, ResumedDescends DEF cp, J
  <2>13. Windowed(n)
    BY <1>3, <1>4, <2>6, <2>8, <2>10, <2>11, <2>12, PushWindowed DEF cp
  <2> QED BY <2>1, <2>13
<1>9. ASSUME NEW key \in Key, Decide(w, key) PROVE Windowed(proc'[w])
  <2> DEFINE c == Append(x, key)
             steps == def.paths[key]
             m == Complete(q.mem, x, FALSE)
             g == NewFrame(c, steps, 1, c)
             none == [m EXCEPT !.currentPath = x]
             some == [m EXCEPT !.currentPath = c]
             done == PersistThen([Advance(q) EXCEPT !.pc = "steps"], none)
             down == PersistThen(Push(q, g), some)
  <2>1. /\ Len(cp) <= Len(x) /\ key \in DOMAIN def.paths
        /\ proc'[w] = done \/ proc'[w] = down
    <3> HIDE DEF x
    <3> QED BY <1>1, <1>3, <1>9 DEF Decide, Local, Set, cp, def
  <2>2. cp = x BY <1>3, <2>1, PathOrder
  <2>3. q.mem.pollStartedAt = NoTime
    BY <1>2, <1>3, <1>4, <1>5, <1>7, <2>2, ShutElsewhere DEF cp
  <2>4. Inside(f, key, steps) BY <1>2, <1>5, <2>1 DEF Inside
  <2>5. c \in Path
    <3> HIDE DEF x
    <3> QED BY <1>3, AppendKey
  <2>6. g \in Frame /\ g.base = c
    <3>1. 1 \in Nat \ {0} OBVIOUS
    <3> QED BY <1>3, <2>4, <2>5, <3>1, InsideIs
  <2>7. m.pollStartedAt = NoTime /\ m.repeats = q.mem.repeats
    BY <1>3, <2>3 DEF Complete, RunState
  <2> HIDE DEF x, g, c
  <2>8. /\ none.pollStartedAt = NoTime /\ none.repeats = q.mem.repeats
        /\ some.pollStartedAt = NoTime /\ some.repeats = q.mem.repeats
    BY <1>3, <2>3 DEF Complete, RunState
  <2> HIDE DEF m, none, some
  <2>9. CASE proc'[w] = done
    <3>1. /\ done.mem = none /\ Heading(done) = "steps"
          /\ done.stack = [q.stack EXCEPT ![1].i = @ + 1]
      BY <1>1, <1>3, NextIs
    <3> HIDE DEF done
    <3>2. Awake(none, f.base) BY <1>4, <2>8 DEF Awake
    <3>3. Windowed(done) BY <1>3, <2>8, <3>1, <3>2, NextWindowed
    <3> QED BY <2>9, <3>3
  <2>10. CASE proc'[w] = down
    <3>1. Push(q, g) \in Call /\ Push(q, g).pc = "steps" /\ Push(q, g).stack = <<g>> \o q.stack
      BY <1>1, <2>6, PushType, PushIs
    <3>2. /\ down.mem = some /\ down.pc = "snapshot" /\ down.next = "steps"
          /\ down.stack = <<g>> \o q.stack
      BY <3>1, PersistThenIs
    <3> HIDE DEF down
    <3>3. Heading(down) = "steps" BY <3>2 DEF Heading
    <3>4. Awake(q.mem, c) BY <1>6, <2>5 DEF c
    <3>5. Awake(some, g.base) BY <2>6, <2>8, <3>4 DEF Awake
    <3>6. Attends(some) BY <2>8, AttendsShut
    <3>7. Windowed(down) BY <1>3, <2>6, <2>8, <3>2, <3>3, <3>5, <3>6, PushWindowed
    <3> QED BY <2>10, <3>7
  <2> QED BY <2>1, <2>9, <2>10
<1>10. ASSUME NEW o \in Outcome, DecideFailed(w, o) PROVE Windowed(proc'[w])
  <2>1. \/ proc'[w] = Persist(q, q.mem, "return")
        \/ proc'[w] = Fail(q, KindOf(o), StepPath(q))
    BY <1>1, <1>10 DEF DecideFailed, Local, Set
  <2> QED BY <1>1, <1>4, <2>1, WindowedPersist, WindowedFail
<1> QED BY <1>8, <1>9, <1>10

\* A repeat.
LEMMA RepeatWindowed ==
  ASSUME TypeOK, NEW w \in Worker, Placed(proc[w]), Windowed(proc[w]),
         \/ BeginIteration(w) \/ UntilTimeout(w)
         \/ \E o \in Outcome \cup {"more"} : Until(w, o)
  PROVE  Windowed(proc'[w])
<1> DEFINE q == proc[w]
           f == q.stack[1]
           x == Here(f)
           J == CompletedPaths(q.mem)
           cp == q.mem.currentPath
           def == Def[StepOf(q)]
           r == RepeatAt(q.mem, StepPath(q))
<1>1. q \in Call /\ proc \in [Worker -> Call] BY DEF TypeOK
<1>2. PICK l \in {"call", "until"} : At(q, l) BY DEF BeginIteration, UntilTimeout, Until
<1>3. /\ q.mem \in RunState /\ q.stack \in Seq(Frame) /\ q.stack # <<>> /\ f \in Frame /\ Framed(f)
      /\ f.i \in DOMAIN f.steps /\ StepPath(q) = x /\ x \in Path /\ StepOf(q) = f.steps[f.i]
      /\ J \in SUBSET Path /\ cp \in Path /\ q.mem.status = "running"
      /\ Leads(x, cp) /\ Route(J, cp) /\ q.pc = l
  BY <1>1, <1>2, AtPlaced DEF Forward, Resumable
<1>4. /\ Attends(q.mem) /\ Awake(q.mem, f.base)
      /\ l = "until" => q.mem.pollStartedAt = NoTime
  BY <1>1, <1>2, AtWindowed DEF Forward, Descends
<1>5. /\ def = Def[f.steps[f.i]] /\ Last(x) = f.steps[f.i] /\ Odd(Len(x))
      /\ Len(x) = Len(f.base) + 1 /\ Len(x) \in Nat /\ Len(f.base) \in Nat
  BY <1>3, HereIs DEF Path
<1>6. /\ r \in RepeatState /\ r.path = x /\ r.iteration \in Nat /\ r = RepeatAt(q.mem, x)
  <2>1. r \in RepeatState /\ r.path = x /\ r = RepeatAt(q.mem, x) BY <1>3, RepeatAtType
  <2> QED BY <2>1 DEF RepeatState
<1> HIDE DEF J, cp, def, x, r
<1>7. ~Under(x, f.base)
  <2>1. ~(Len(x) < Len(f.base))
    <3> HIDE DEF f
    <3> QED BY <1>5
  <2> QED BY <2>1 DEF Under
<1>8. CASE BeginIteration(w)
  <2> DEFINE d == Len(x) + 1
             it == IF d <= Len(cp) THEN cp[d] ELSE r.iteration
             s == [r EXCEPT !.iteration = it]
             m == SetRepeat(q.mem, s)
             body == def.body
             start == ResumeIndex(body, cp, d + 1)
             g == NewFrame(Append(x, it), body, start, cp)
             until == [q EXCEPT !.mem = m, !.pc = "until"]
             down == Push([q EXCEPT !.mem = m], g)
  <2>1. /\ def.kind = "repeat" /\ it \in Nat
        /\ \/ r.awaiting /\ proc'[w] = until
           \/ ~r.awaiting /\ proc'[w] = down
    <3>1. def.kind = "repeat" BY <1>8 DEF BeginIteration, def
    <3>2. it \in Nat /\ proc'[w] = IF r.awaiting THEN until ELSE down
      BY <1>1, <1>3, <1>8 DEF BeginIteration, Local, Set, cp, def, r
    <3> QED BY <3>1, <3>2
  <2>2. q.mem.pollStartedAt # NoTime => Under(x, cp) /\ it = cp[d]
    <3>1. ASSUME q.mem.pollStartedAt # NoTime PROVE Under(x, cp) /\ it = cp[d]
      <4>1. cp # x BY <1>3, <1>4, <1>5, <2>1, <3>1, ShutElsewhere DEF cp
      <4>2. Under(x, cp) BY <1>3, <4>1, PathOrder
      <4>3. d <= Len(cp)
        <5>1. Len(cp) \in Nat BY <1>3 DEF Path
        <5> QED BY <1>5, <4>2, <5>1 DEF Under
      <4> QED BY <4>2, <4>3
    <3> QED BY <3>1
  <2> HIDE DEF it
  <2>3. s \in RepeatState /\ s.path = x /\ s.awaiting = r.awaiting BY <1>6, <2>1 DEF RepeatState
  <2> HIDE DEF s
  <2>4. /\ m \in RunState /\ m.completed = q.mem.completed /\ m.status = q.mem.status
        /\ m.currentPath = cp /\ m.pollStartedAt = q.mem.pollStartedAt
        /\ m.repeats = {e \in q.mem.repeats : e.path # x} \cup {s}
    BY <1>3, <2>3, SetRepeatType DEF cp, SetRepeat, RunState
  <2>5. \A y : Awake(q.mem, y) => Awake(m, y) BY <1>3, <1>6, <2>3, AwakeSet
  <2> HIDE DEF m
  <2>6. Attends(m) BY <1>4, <2>4, <2>5 DEF Attends, GoesForward, CompletedPaths, cp
  <2>7. CASE r.awaiting /\ proc'[w] = until
    <3>1. until.mem = m /\ until.pc = "until" /\ until.stack = q.stack BY <1>1 DEF Call
    <3> HIDE DEF until
    <3>2. m.pollStartedAt = NoTime
      <4>1. r \in q.mem.repeats BY <1>3, <1>6, <2>7, AwaitingRead
      <4>2. q.mem.pollStartedAt # NoTime => Awake(q.mem, cp)
        BY <1>3, <1>4 DEF Attends, GoesForward, cp
      <4> QED BY <1>5, <1>6, <2>1, <2>2, <2>4, <2>7, <4>1, <4>2 DEF Awake
    <3>3. Descends("until", m, f) BY <1>4, <2>5, <3>2 DEF Descends
    <3>4. Heading(until) = "until" BY <3>1 DEF Heading
    <3>5. Windowed(until) BY <2>6, <3>1, <3>3, <3>4, WindowedOn DEF Forward
    <3> QED BY <2>7, <3>5
  <2>8. CASE ~r.awaiting /\ proc'[w] = down
    <3>1. start \in Nat \ {0}
      <4>1. body \in Seq(Step) BY <1>3, <1>5, StepType, HereIs
      <4> QED BY <4>1, ResumeIndexType
    <3>2. Inside(f, it, body) BY <1>5, <2>1 DEF Inside
    <3> HIDE DEF start, body
    <3>3. /\ g \in Frame /\ Framed(g) /\ g.base = Append(x, it) /\ Append(x, it) \in Path
          /\ g.steps = body /\ g.start = start /\ g.i = start
      <4> HIDE DEF f
      <4> QED BY <1>3, <3>1, <3>2, InsideIs DEF x
    <3>4. Len(g.base) + 1 = d + 1 BY <1>3, <3>3 DEF Path
    <3>5. g.start = ResumeIndex(g.steps, cp, Len(g.base) + 1) BY <3>3, <3>4 DEF start
    <3> HIDE DEF g
    <3>6. Awake(m, g.base)
      <4>1. Awake(m, f.base) BY <1>4, <2>5
      <4>2. \A e \in m.repeats : e.path = Here(f) => ~e.awaiting
        BY <2>3, <2>4, <2>8 DEF x
      <4> QED BY <1>3, <2>4, <3>3, <4>1, <4>2, AwakeHere DEF x
    <3>7. m.pollStartedAt # NoTime =>
            g.i \in DOMAIN g.steps /\ g.i = g.start /\ Leads(Here(g), m.currentPath)
      <4>1. ASSUME m.pollStartedAt # NoTime
            PROVE  g.i \in DOMAIN g.steps /\ Leads(Here(g), m.currentPath)
        <5>1. Under(x, cp) /\ it = cp[Len(x) + 1] BY <2>2, <2>4, <4>1
        <5>2. Leads(g.base, cp) BY <1>3, <3>3, <5>1, NextLeads
        <5>3. CompletedPaths(m) = J BY <2>4 DEF CompletedPaths, J
        <5>4. g.i = g.start BY <3>3
        <5> QED BY <1>3, <2>4, <2>6, <3>3, <3>5, <4>1, <5>2, <5>3, <5>4, ResumedDescends
      <4> QED BY <3>3, <4>1
    <3> DEFINE p == [q EXCEPT !.mem = m]
               n == Push(p, g)
    <3>8. p \in Call /\ p.mem = m /\ p.stack = q.stack BY <1>1, <2>4, MemType, WithMemIs
    <3> HIDE DEF p
    <3>9. n.pc = "steps" /\ n.mem = p.mem /\ n.stack = <<g>> \o p.stack BY <3>8, PushIs
    <3> HIDE DEF n
    <3>10. Heading(n) = "steps" /\ n.mem = m /\ n.stack = <<g>> \o q.stack
      BY <3>8, <3>9 DEF Heading
    <3>11. Windowed(n) BY <1>3, <2>6, <3>3, <3>6, <3>7, <3>10, PushWindowed
    <3>12. proc'[w] = n BY <2>8 DEF n, p, g, body, start
    <3> QED BY <3>11, <3>12
  <2> QED BY <2>1, <2>7, <2>8
<1>9. CASE UntilTimeout(w)
  <2>1. proc'[w] = Fail(q, "timeout", StepPath(q)) BY <1>1, <1>9 DEF UntilTimeout, Local, Set
  <2> QED BY <1>1, <1>4, <2>1, WindowedFail
<1>10. ASSUME NEW o \in Outcome \cup {"more"}, Until(w, o) PROVE Windowed(proc'[w])
  <2> DEFINE y == Append(x, r.iteration)
             m == IF def.compact THEN Compact(q.mem, y) ELSE q.mem
             fin == [r EXCEPT !.awaiting = FALSE, !.startedAt = NoTime]
             next == [r EXCEPT !.awaiting = FALSE, !.iteration = @ + 1]
             a == SetRepeat(m, fin)
             b == [a EXCEPT !.currentPath = x]
             k == Complete(b, x, FALSE)
             c == SetRepeat(m, next)
             ahead == Append(x, next.iteration)
             on == [c EXCEPT !.currentPath = ahead]
             done == PersistThen([Advance(q) EXCEPT !.pc = "steps"], k)
  <2>1. /\ At(q, "until")
        /\ \/ proc'[w] = done
           \/ proc'[w] = Fail([q EXCEPT !.mem = m], "step", x)
           \/ proc'[w] = Persist(q, on, "return")
           \/ proc'[w] = Persist(q, q.mem, "return")
           \/ proc'[w] = Fail(q, KindOf(o), x)
    <3>1. At(q, "until") BY <1>10 DEF Until
    <3> QED BY <3>1, <1>1, <1>3, <1>10 DEF Until, Local, Set, def, r
  <2>2. q.mem.pollStartedAt = NoTime BY <1>3, <1>4, <2>1 DEF At
  <2>3. /\ m \in RunState /\ m.pollStartedAt = NoTime /\ m.repeats \subseteq q.mem.repeats
    <3>1. Compact(q.mem, y) \in RunState
      <4>1. y \in Path BY <1>3, <1>6, AppendKey
      <4> QED BY <1>3, <4>1, CompactType
    <3> QED BY <1>3, <2>2, <3>1 DEF Compact, RunState
  <2> HIDE DEF m
  <2>4. fin \in RepeatState /\ fin.path = x /\ ~fin.awaiting BY <1>6 DEF RepeatState, Time
  <2> HIDE DEF fin
  <2>5. Awake(a, f.base)
    <3>1. Awake(m, f.base) BY <1>4, <2>3, AwakeLess
    <3> QED BY <2>3, <2>4, <3>1, AwakeSet
  <2>6. c.pollStartedAt = NoTime /\ on.pollStartedAt = NoTime /\ a.pollStartedAt = NoTime
        /\ b.pollStartedAt = NoTime /\ b.repeats = a.repeats
    BY <2>3 DEF SetRepeat, RunState
  <2> HIDE DEF a, on
  <2>7. k.pollStartedAt = NoTime /\ k.repeats = a.repeats
    <3>1. b = [a EXCEPT !.currentPath = x] BY DEF b
    <3> QED BY <2>6 DEF Complete
  <2> HIDE DEF b, k
  <2>8. Windowed(done)
    <3>1. done.mem = k /\ Heading(done) = "steps" /\ done.stack = [q.stack EXCEPT ![1].i = @ + 1]
      BY <1>1, <1>3, NextIs
    <3> HIDE DEF done
    <3>2. Awake(k, f.base) BY <2>5, <2>7 DEF Awake
    <3> QED BY <1>3, <2>7, <3>1, <3>2, NextWindowed
  <2>9. Windowed(Fail([q EXCEPT !.mem = m], "step", x))
    <3>1. [q EXCEPT !.mem = m] \in Call /\ [q EXCEPT !.mem = m].mem = m
      BY <1>1, <2>3, MemType, WithMemIs
    <3> QED BY <2>3, <3>1, AttendsShut, WindowedFail
  <2>10. Windowed(Persist(q, on, "return"))
    BY <1>1, <2>6, AttendsShut, WindowedPersist
  <2>11. Windowed(Persist(q, q.mem, "return")) /\ Windowed(Fail(q, KindOf(o), x))
    BY <1>1, <1>4, WindowedPersist, WindowedFail
  <2> QED BY <2>1, <2>8, <2>9, <2>10, <2>11
<1> QED BY <1>8, <1>9, <1>10

\* The start of Run.
LEMMA StartWindowed ==
  ASSUME TypeOK, NEW w \in Worker, Placed(proc[w]), Windowed(proc[w]), Start(w)
  PROVE  Windowed(proc'[w])
<1> DEFINE q == proc[w]
           cp == q.mem.currentPath
           start == ResumeIndex(Root, cp, 1)
           f == NewFrame(<<>>, Root, start, cp)
           m == [q.mem EXCEPT !.status = "running"]
           n == PersistThen(Push(q, f), m)
           stop == [q EXCEPT !.pc = "return"]
<1>1. q \in Call /\ q.mem \in RunState /\ proc \in [Worker -> Call] /\ q.pc = "start"
  BY MemType DEF TypeOK, Start
<1>2. q.stack = <<>> /\ ~IsTerminal(q.mem) /\ Sound(q.mem)
  BY <1>1 DEF Placed, Heading
<1>3. Attends(q.mem) BY <1>1 DEF Windowed
<1>4. cp \in Path BY <1>1, PathsType
<1>5. Windowed(Persist(q, q.mem, "compensate")) BY <1>1, <1>3, WindowedPersist
<1>6. Windowed(stop)
  <2>1. stop.pc = "return" BY <1>1, GotoIs
  <2> HIDE DEF stop
  <2> QED BY <2>1, WindowedOff DEF Heading, Forward
<1>7. ASSUME q.mem.status # "compensating" PROVE Windowed(n)
  <2>1. GoesForward(q.mem)
    <3>1. q.mem.status \in Status BY <1>1 DEF RunState
    <3> QED BY <1>2, <1>7, <3>1 DEF GoesForward, IsTerminal, Status, Terminal
  <2>2. Route(CompletedPaths(q.mem), cp) BY <1>2, <2>1 DEF Sound, Resumable
  <2>3. /\ m \in RunState /\ m.status = "running" /\ m.completed = q.mem.completed
        /\ m.currentPath = cp /\ m.pollStartedAt = q.mem.pollStartedAt
        /\ m.repeats = q.mem.repeats
    BY <1>1 DEF RunState, Status
  <2> HIDE DEF m
  <2>4. Attends(m) BY <1>3, <2>1, <2>3, AttendsSame
  <2>5. start \in Nat \ {0} BY ResumeIndexType, DefinitionAssumption
  <2> HIDE DEF start
  <2>6. /\ f \in Frame /\ Framed(f) /\ f.base = <<>> /\ f.steps = Root /\ f.start = start
        /\ f.i = start
    BY <1>4, <2>5, ScopeTop
  <2> HIDE DEF f
  <2>7. Len(f.base) = 0 /\ Leads(f.base, cp)
    <3>1. Len(f.base) = 0 /\ Len(cp) \in Nat BY <1>4, <2>6 DEF Path
    <3> QED BY <3>1 DEF Leads, Agree
  <2>8. Awake(m, f.base)
    <3>1. ASSUME NEW r \in m.repeats PROVE ~Under(r.path, f.base)
      <4>1. Len(r.path) \in Nat BY <2>3 DEF RunState, RepeatState, Path
      <4> QED BY <2>7, <4>1 DEF Under
    <3> QED BY <3>1 DEF Awake
  <2>9. m.pollStartedAt # NoTime =>
          f.i \in DOMAIN f.steps /\ f.i = f.start /\ Leads(Here(f), m.currentPath)
    <3>1. f.start = ResumeIndex(f.steps, cp, Len(f.base) + 1) BY <2>6, <2>7 DEF start
    <3>2. CompletedPaths(m) = CompletedPaths(q.mem) BY <2>3 DEF CompletedPaths
    <3>3. Route(CompletedPaths(m), m.currentPath) BY <2>2, <2>3, <3>2
    <3>4. f.i = f.start BY <2>6
    <3> HIDE DEF cp
    <3> QED BY <2>3, <2>4, <2>6, <2>7, <3>1, <3>3, <3>4, ResumedDescends
  <2>10. Push(q, f) \in Call /\ Push(q, f).pc = "steps" /\ Push(q, f).stack = <<f>> \o q.stack
    BY <1>1, <2>6, PushType, PushIs
  <2>11. n.mem = m /\ n.pc = "snapshot" /\ n.next = "steps" /\ n.stack = <<f>> \o q.stack
    BY <2>10, PersistThenIs
  <2> HIDE DEF n
  <2>12. Heading(n) = "steps" BY <2>11 DEF Heading
  <2>13. q.stack \in Seq(Frame) BY <1>1 DEF Call
  <2> QED BY <2>4, <2>6, <2>8, <2>9, <2>11, <2>12, <2>13, PushWindowed
<1>8. \/ proc'[w] = stop
      \/ proc'[w] = Persist(q, q.mem, "compensate")
      \/ q.mem.status # "compensating" /\ proc'[w] = n
  BY <1>1 DEF Start, Local, Set
<1> QED BY <1>5, <1>6, <1>7, <1>8

\* The error path.
LEMMA RaiseWindowed ==
  ASSUME TypeOK, NEW w \in Worker, Windowed(proc[w]),
         RaiseCancelled(w) \/ Propagate(w) \/ RaiseNoCompensate(w) \/ RaiseFailure(w)
  PROVE  Windowed(proc'[w])
<1> DEFINE q == proc[w]
<1>1. q \in Call /\ q.mem \in RunState /\ proc \in [Worker -> Call]
  BY MemType DEF TypeOK
<1>2. At(q, "raise") BY DEF RaiseCancelled, Propagate, RaiseNoCompensate, RaiseFailure
<1>3. q.pc = "raise" /\ StepPath(q) \in Path BY <1>1, <1>2, AtType DEF At
<1>4. q.cancelled \/ Attends(q.mem) BY <1>3 DEF Windowed
<1>5. CASE RaiseCancelled(w)
  <2> DEFINE p == [q EXCEPT !.mem.currentPath = StepPath(q),
                            !.err = [kind |-> "context", path |-> <<>>]]
  <2>1. proc'[w] = Unwind(p) /\ q.cancelled BY <1>1, <1>5 DEF RaiseCancelled, Local, Set
  <2>2. p \in Call BY <1>1, <1>3, ContextType
  <2>3. p.cancelled BY <1>1, <2>1 DEF Call
  <2> HIDE DEF p
  <2> QED BY <2>1, <2>2, <2>3, UnwindWindowed
<1>6. CASE Propagate(w)
  <2>1. proc'[w] = Unwind(q) BY <1>1, <1>6 DEF Propagate, Local, Set
  <2> QED BY <1>1, <1>4, <2>1, UnwindWindowed
<1>7. CASE RaiseNoCompensate(w)
  <2> DEFINE m == [q.mem EXCEPT !.failedStepPath = StepPath(q)]
  <2>1. proc'[w] = PersistThen(Unwind(q), m) /\ ~q.cancelled
    BY <1>1, <1>7 DEF RaiseNoCompensate, Local, Set
  <2>2. /\ m.completed = q.mem.completed /\ m.currentPath = q.mem.currentPath
        /\ m.status = q.mem.status /\ m.pollStartedAt = q.mem.pollStartedAt
        /\ m.repeats = q.mem.repeats
    BY <1>1 DEF RunState
  <2> HIDE DEF m
  <2>3. Attends(m) BY <1>4, <2>1, <2>2, AttendsSame DEF GoesForward
  <2> QED BY <1>1, <2>1, <2>3, UnwindWindowed
<1>8. CASE RaiseFailure(w)
  <2> DEFINE m == [q.mem EXCEPT !.failedStepPath = StepPath(q),
                                !.status = "compensating",
                                !.compensationIndex = Len(q.mem.completed) - 1,
                                !.repeatTimeout = @ \/ q.err.kind = "timeout"]
  <2>1. proc'[w] = Persist(q, m, "compensate") BY <1>1, <1>8 DEF RaiseFailure, Local, Set
  <2>2. m.status = "compensating" BY <1>1 DEF RunState
  <2> HIDE DEF m
  <2>3. Attends(m) BY <2>2 DEF Attends, GoesForward
  <2> QED BY <1>1, <2>1, <2>3, WindowedPersist
<1> QED BY <1>5, <1>6, <1>7, <1>8

\* The compensation.
LEMMA CompensationWindowed ==
  ASSUME TypeOK, NEW w \in Worker, Windowed(proc[w]),
         \/ SkipCompensation(w) \/ CompensationCancelled(w) \/ CompensationDone(w)
         \/ \E o \in {"ok", "error", "retryafter", "context"} : Compensate(w, o)
  PROVE  Windowed(proc'[w])
<1> DEFINE q == proc[w]
           down == [q.mem EXCEPT !.compensationIndex = @ - 1]
<1>1. q \in Call /\ q.mem \in RunState /\ proc \in [Worker -> Call]
  BY MemType DEF TypeOK
<1>2. q.pc = "compensate"
  BY DEF SkipCompensation, CompensationCancelled, CompensationDone, Compensate, AtCompletion
<1>3. Attends(q.mem) BY <1>2 DEF Windowed
<1>4. Attends(down)
  <2>1. /\ down.completed = q.mem.completed /\ down.currentPath = q.mem.currentPath
        /\ down.status = q.mem.status /\ down.pollStartedAt = q.mem.pollStartedAt
        /\ down.repeats = q.mem.repeats
    BY <1>1 DEF RunState
  <2> HIDE DEF down
  <2> QED BY <1>3, <2>1, AttendsSame DEF GoesForward
<1>5. CASE SkipCompensation(w)
  <2>1. proc'[w] = [q EXCEPT !.mem.compensationIndex = @ - 1]
    BY <1>1, <1>5 DEF SkipCompensation, Local, Set
  <2>2. proc'[w].pc = "compensate" /\ proc'[w].mem = down BY <2>1, <1>1, <1>2 DEF Call
  <2> HIDE DEF down
  <2>3. Heading(proc'[w]) \notin Forward BY <2>2 DEF Heading, Forward
  <2> QED BY <1>4, <2>2, <2>3, WindowedOff
<1>6. CASE CompensationCancelled(w)
  <2> DEFINE p == [q EXCEPT !.err = [kind |-> "context", path |-> <<>>]]
  <2>1. proc'[w] = Unwind(p) BY <1>1, <1>6 DEF CompensationCancelled, Local, Set
  <2>2. p \in Call /\ p.mem = q.mem BY <1>1, ContextType DEF Call
  <2> HIDE DEF p
  <2> QED BY <1>3, <2>1, <2>2, UnwindWindowed
<1>7. ASSUME NEW o \in {"ok", "error", "retryafter", "context"}, Compensate(w, o)
      PROVE  Windowed(proc'[w])
  <2> DEFINE p == [q EXCEPT !.err = [kind |-> "compensation", path |-> <<>>]]
             c == [q EXCEPT !.cancelled = TRUE, !.err = [kind |-> "context", path |-> <<>>]]
  <2>1. \/ proc'[w] = Persist(q, down, "compensate")
        \/ proc'[w] = Persist(q, q.mem, "return")
        \/ proc'[w] = PersistThen(Unwind(p), q.mem)
        \/ proc'[w] = Unwind(c)
    BY <1>1, <1>7 DEF Compensate, Set
  <2>2. p \in Call /\ c \in Call /\ c.cancelled BY <1>1, ContextType DEF Call
  <2> HIDE DEF p, c, down
  <2>3. /\ Windowed(Persist(q, down, "compensate")) /\ Windowed(Persist(q, q.mem, "return"))
        /\ Windowed(PersistThen(Unwind(p), q.mem)) /\ Windowed(Unwind(c))
    BY <1>1, <1>3, <1>4, <2>2, WindowedPersist, UnwindWindowed
  <2> QED BY <2>1, <2>3
<1>8. CASE CompensationDone(w)
  <2> DEFINE m == [q.mem EXCEPT !.status = "failed", !.compensationIndex = -1]
             p == [q EXCEPT !.stack = <<>>]
  <2>1. proc'[w] = Persist(p, m, "return") BY <1>1, <1>8 DEF CompensationDone, Local, Set
  <2>2. p \in Call BY <1>1, NewRunType DEF Call, NoCall
  <2>3. m.status = "failed" BY <1>1 DEF RunState
  <2> HIDE DEF p, m
  <2>4. Attends(m) BY <2>3 DEF Attends, GoesForward
  <2> QED BY <2>1, <2>2, <2>4, WindowedPersist
<1> QED BY <1>5, <1>6, <1>7, <1>8

\* The write of a snapshot, however it ends.
LEMMA SnapshotWindowed ==
  ASSUME TypeOK, Attends(store), NEW w \in Worker, Windowed(proc[w]),
         SnapshotOK(w) \/ SnapshotFailed(w) \/ SnapshotAckLost(w)
  PROVE  Attends(store') /\ Windowed(proc'[w])
<1> DEFINE q == proc[w]
           m == Written(q.mem)
           n == [q EXCEPT !.pc = q.next]
           r == [q EXCEPT !.pc = q.next, !.mem = m]
<1>1. q \in Call /\ q.mem \in RunState /\ proc \in [Worker -> Call]
  BY MemType DEF TypeOK
<1>2. q.pc = "snapshot" /\ Heading(q) = q.next
  BY DEF SnapshotOK, SnapshotFailed, SnapshotAckLost, Heading
<1>3. Attends(q.mem) BY <1>2 DEF Windowed
<1>4. /\ m.completed = q.mem.completed /\ m.currentPath = q.mem.currentPath
      /\ m.status = q.mem.status /\ m.repeats = q.mem.repeats
      /\ m.pollStartedAt = q.mem.pollStartedAt
  BY <1>1 DEF Written, RunState
<1>5. n.pc = q.next /\ n.next = q.next /\ n.stack = q.stack /\ n.mem = q.mem BY <1>1 DEF Call
<1>6. r.pc = q.next /\ r.next = q.next /\ r.stack = q.stack /\ r.mem = m BY <1>1 DEF Call
<1>7. \/ proc'[w] = n /\ store' = store
      \/ proc'[w] = r /\ store' = m
      \/ proc'[w] = NoCall /\ (store' = store \/ store' = m)
  BY <1>1 DEF SnapshotOK, SnapshotFailed, SnapshotAckLost, Local, Set
<1> HIDE DEF m, n, r
<1>8. Attends(m) BY <1>3, <1>4, AttendsSame DEF GoesForward
<1>9. ASSUME NEW p, p.pc = q.next, p.next = q.next, p.stack = q.stack,
             p.mem = q.mem \/ p.mem = m
      PROVE  Windowed(p)
  <2>1. Heading(p) = Heading(q) BY <1>2, <1>9 DEF Heading
  <2>2. Attends(p.mem) BY <1>3, <1>8, <1>9
  <2>3. /\ p.mem.currentPath = q.mem.currentPath /\ p.mem.repeats = q.mem.repeats
        /\ p.mem.pollStartedAt = q.mem.pollStartedAt
    BY <1>4, <1>9
  <2>4. ASSUME Heading(p) \in Forward PROVE Descends(Heading(p), p.mem, p.stack[1])
    <3>1. Descends(Heading(q), q.mem, q.stack[1]) BY <2>1, <2>4 DEF Windowed
    <3> QED BY <1>9, <2>1, <2>3, <3>1 DEF Descends, Awake
  <2> QED BY <2>2, <2>4 DEF Windowed
<1>10. Windowed(n) /\ Windowed(r) BY <1>5, <1>6, <1>9
<1> QED BY <1>7, <1>8, <1>10, WindowedNoCall

\* The beginning and the end of a call, when the caller saves nothing itself.
LEMMA EndWindowed ==
  ASSUME TypeOK, ~CallerSaves, Attends(store), NEW w \in Worker, Windowed(proc[w]),
         Load(w) \/ Return(w) \/ Crash(w) \/ Cancel(w)
  PROVE  Attends(store') /\ Windowed(proc'[w])
<1> DEFINE q == proc[w]
           n == [NoCall EXCEPT !.pc = "start", !.mem = store]
           c == [q EXCEPT !.cancelled = TRUE]
<1>1. q \in Call /\ proc \in [Worker -> Call] BY DEF TypeOK
<1>2. store' = store BY DEF Load, Return, Crash, Cancel, Local
<1>3. CASE Load(w)
  <2>1. proc'[w] = n BY <1>1, <1>3 DEF Load, Set
  <2>2. n.pc = "start" /\ n.mem = store BY DEF NoCall
  <2> HIDE DEF n
  <2>3. Windowed(n) BY <2>1, <2>2 DEF Windowed, Heading, Forward
  <2> QED BY <1>2, <2>1, <2>3
<1>4. CASE Return(w) \/ Crash(w)
  <2>1. proc'[w] = NoCall BY <1>1, <1>4 DEF Return, Crash, Local, Set
  <2> QED BY <1>2, <2>1, WindowedNoCall
<1>5. CASE Cancel(w)
  <2>1. proc'[w] = c BY <1>1, <1>5 DEF Cancel, Local, Set
  <2>2. c.pc = q.pc /\ c.next = q.next /\ c.mem = q.mem /\ c.stack = q.stack /\ c.cancelled = TRUE
    BY <1>1 DEF Call
  <2> HIDE DEF c
  <2>3. Heading(c) = Heading(q) BY <2>2 DEF Heading
  <2>4. Windowed(c) BY <2>2, <2>3 DEF Windowed
  <2> QED BY <1>2, <2>1, <2>4
<1> QED BY <1>3, <1>4, <1>5

\* No window is open before the first poll.
LEMMA InitWindows == Init => Windows
<1> SUFFICES ASSUME Init PROVE Windows OBVIOUS
<1>1. store = NewRun /\ \A w \in Worker : proc[w] = NoCall BY DEF Init
<1>2. Attends(store) BY <1>1, AttendsShut DEF NewRun
<1> QED BY <1>1, <1>2, WindowedNoCall DEF Windows

\* Every step of every worker keeps the windows.
LEMMA StepKeepsWindows ==
  ASSUME TypeOK, ~CallerSaves, Position, Windows, [Next]_vars
  PROVE  Windows'
<1>1. ASSUME NEW w \in Worker, Windowed(proc'[w]), Attends(store'), \E n : Set(w, n)
      PROVE  Windows'
  <2>1. \A v \in Worker \ {w} : proc'[v] = proc[v] BY <1>1 DEF Set, TypeOK
  <2>2. \A v \in Worker : Windowed(proc'[v]) BY <1>1, <2>1 DEF Windows
  <2> QED BY <1>1, <2>2 DEF Windows
<1>2. ASSUME NEW w \in Worker, Windowed(proc'[w]), store' = store, \E n : Set(w, n)
      PROVE  Windows'
  <2>1. Attends(store') BY <1>2 DEF Windows
  <2> QED BY <1>1, <1>2, <2>1
<1>3. Attends(store) /\ \A w \in Worker : Placed(proc[w]) /\ Windowed(proc[w])
  BY DEF Position, Windows
<1>4. ASSUME NEW w \in Worker, WorkerStep(w) PROVE Windows'
  <2>1. CASE Start(w)
    BY <1>2, <1>3, <2>1, StartWindowed DEF Start, Local
  <2>2. CASE SnapshotOK(w) \/ SnapshotFailed(w)
    <3>1. Attends(store') /\ Windowed(proc'[w]) BY <1>3, <2>2, SnapshotWindowed
    <3>2. \E n : Set(w, n) BY <2>2 DEF SnapshotOK, SnapshotFailed, Local
    <3> QED BY <1>1, <3>1, <3>2
  <2>3. CASE SkipCompleted(w) \/ StopCancelled(w) \/ EnterStep(w)
    BY <1>2, <1>3, <2>3, StepsWindowed DEF SkipCompleted, StopCancelled, EnterStep, Local
  <2>4. CASE ScopeDone(w)
    BY <1>2, <1>3, <2>4, ScopeWindowed DEF ScopeDone, Local
  <2>5. CASE \/ EnsureRepeatStarted(w) \/ CheckRepeatTimeout(w)
             \/ \E o \in Outcome : OnEnter(w, o)
    BY <1>2, <1>3, <2>5, PrologueWindowed
       DEF EnsureRepeatStarted, CheckRepeatTimeout, OnEnter, Local
  <2>6. CASE (\E o \in Outcome : Do(w, o)) \/ Sleep(w)
    BY <1>2, <1>3, <2>6, ActionWindowed DEF Do, Sleep, Local
  <2>7. CASE PollTimeout(w) \/ \E o \in Outcome \cup {"pending"} : Check(w, o)
    BY <1>2, <1>3, <2>7, PollWindowed DEF PollTimeout, Check, Local
  <2>8. CASE \/ ResumeBranch(w) \/ \E key \in Key : Decide(w, key)
             \/ \E o \in Outcome : DecideFailed(w, o)
    BY <1>2, <1>3, <2>8, BranchWindowed DEF ResumeBranch, Decide, DecideFailed, Local
  <2>9. CASE \/ BeginIteration(w) \/ UntilTimeout(w)
             \/ \E o \in Outcome \cup {"more"} : Until(w, o)
    BY <1>2, <1>3, <2>9, RepeatWindowed DEF BeginIteration, UntilTimeout, Until, Local
  <2>10. CASE RaiseCancelled(w) \/ Propagate(w) \/ RaiseNoCompensate(w) \/ RaiseFailure(w)
    BY <1>2, <1>3, <2>10, RaiseWindowed
       DEF RaiseCancelled, Propagate, RaiseNoCompensate, RaiseFailure, Local
  <2>11. CASE \/ SkipCompensation(w) \/ CompensationCancelled(w) \/ CompensationDone(w)
              \/ \E o \in {"ok", "error", "retryafter", "context"} : Compensate(w, o)
    BY <1>2, <1>3, <2>11, CompensationWindowed
       DEF SkipCompensation, CompensationCancelled, CompensationDone, Compensate, Local
  <2>12. CASE Return(w)
    <3>1. Attends(store') /\ Windowed(proc'[w]) BY <1>3, <2>12, EndWindowed
    <3>2. \E n : Set(w, n) BY <2>12 DEF Return
    <3> QED BY <1>1, <3>1, <3>2
  <2> QED BY <1>4, <2>1, <2>2, <2>3, <2>4, <2>5, <2>6, <2>7, <2>8, <2>9, <2>10, <2>11, <2>12
          DEF WorkerStep
<1>5. ASSUME NEW w \in Worker, Load(w) \/ SnapshotAckLost(w) \/ Crash(w) \/ Cancel(w)
      PROVE  Windows'
  <2>1. Attends(store') /\ Windowed(proc'[w]) BY <1>3, <1>5, SnapshotWindowed, EndWindowed
  <2>2. \E n : Set(w, n) BY <1>5 DEF Load, SnapshotAckLost, Crash, Cancel, Local
  <2> QED BY <1>1, <2>1, <2>2
<1>6. CASE Tick \/ UNCHANGED vars BY <1>6 DEF Tick, vars, Windows
<1> QED BY <1>4, <1>5, <1>6 DEF Next, Terminated

\* While a run goes forward the window of a poll, which one field holds for all polls, is
\* open only for the poll that the run is at, whatever was interrupted, saved, loaded and
\* resumed in between, as long as the snapshots alone make the run durable: so no poll
\* inherits the window of another one.
THEOREM PollWindowHolds ==
  ASSUME ~CallerSaves
  PROVE  Spec => []PollWindowOwned
<1>1. TypeOK /\ Position /\ Windows /\ [Next]_vars => Windows'
  BY StepKeepsWindows
<1>2. Windows => PollWindowOwned
  <2>1. Windows => Attends(store) BY DEF Windows
  <2>2. \A path : Odd(Len(path)) => path # <<>>
    <3>1. ASSUME NEW path, path = <<>> PROVE ~Odd(Len(path))
      <4>1. Len(path) = 0 BY <3>1
      <4> QED BY <4>1, Parity
    <3> QED BY <3>1
  <2> QED BY <2>1, <2>2 DEF Attends, GoesForward, PollWindowOwned
<1>3. QED
  BY <1>1, <1>2, InitWindows, PositionHolds, TypeCorrect, PTL DEF Spec

-----------------------------------------------------------------------------
(* The moves of a call, as far as its journal, the states of its repeats   *)
(* and its place go.                                                       *)

\* What the call p holds goes forward and may become durable.
Firm(p) ==
  /\ p.pc \notin {"idle", "return"} /\ GoesForward(p.mem)
  /\ p.pc = "raise" => ~p.cancelled /\ p.err.kind = "nocompensate"

\* The states m and n have the same journal and the same states of repeats.
SameTrack(m, n) == n.completed = m.completed /\ n.repeats = m.repeats

\* The path of the step that the call q is at.
Place(q) == Here(q.stack[1])

\* The definition of that step.
DefAt(q) == Def[q.stack[1].steps[q.stack[1].i]]

\* The frames with the innermost one at its next step.
Onward(stack) == [stack EXCEPT ![1].i = @ + 1]

\* The frame g is that of a scope on the way to the path cp, where that leads.
Resumes(g, cp) ==
  /\ g \in Frame /\ Framed(g) /\ Leads(g.base, cp)
  /\ g.i = g.start /\ g.start = ResumeIndex(g.steps, cp, Len(g.base) + 1)

\* The call stays at its step, or leaves the forward path.
Passes(q, n) ==
  /\ SameTrack(q.mem, n.mem)
  /\ n.mem.status = "completed" => q.mem.status = "completed"
  /\ Firm(n) => Firm(q) /\ n.mem.currentPath = q.mem.currentPath
  /\ Firm(n) /\ n.pc \notin Forward => q.pc # "steps"
  /\ Heading(n) \in Forward =>
       /\ n.stack = q.stack /\ n.mem.currentPath = q.mem.currentPath
       /\ \/ Heading(n) = Heading(q)
          \/ Heading(n) \in InStep \ {"repeatStart"} /\ Heading(q) \in InStep

\* Run begins, or resumes, at the top level.
SetsOut(q, n) ==
  /\ q.pc = "start" /\ n.pc = "snapshot" /\ Heading(n) = "steps"
  /\ SameTrack(q.mem, n.mem) /\ n.mem.currentPath = q.mem.currentPath
  /\ GoesForward(q.mem) /\ n.mem.status = "running"
  /\ \E g : n.stack = <<g>> /\ g.base = <<>> /\ Resumes(g, q.mem.currentPath)

\* The step at which the scope resumes is passed by, since it is completed.
Skips(q, n) ==
  /\ At(q, "steps") /\ n.pc = "steps" /\ n.mem = q.mem /\ n.stack = Onward(q.stack)
  /\ q.stack[1].i = q.stack[1].start /\ Place(q) = q.mem.currentPath

\* A step is entered.
Enters(q, n) ==
  /\ At(q, "steps") /\ n.pc \in InStep /\ n.stack = q.stack
  /\ n.pc = "repeatStart" => DefAt(q).kind = "repeat"
  /\ SameTrack(q.mem, n.mem) /\ n.mem.status = q.mem.status
  /\ n.mem.currentPath = Entering(q.stack[1])

\* The top level is done.
Ends(q, n) ==
  /\ q.pc = "steps" /\ Len(q.stack) = 1 /\ q.stack[1].i \notin DOMAIN q.stack[1].steps
  /\ n.pc = "snapshot" /\ Heading(n) = "return"
  /\ SameTrack(q.mem, n.mem) /\ n.mem.status = "completed"

\* The path that a branch has chosen is done.
Rises(q, n) ==
  /\ q.pc = "steps" /\ Len(q.stack) > 1 /\ q.stack[1].i \notin DOMAIN q.stack[1].steps
  /\ Def[q.stack[2].steps[q.stack[2].i]].kind = "branch"
  /\ n.pc = "steps" /\ n.mem = q.mem /\ n.stack = Onward(Tail(q.stack))

\* The body of a repeat is done.
Closes(q, n) ==
  LET r == RepeatAt(q.mem, Here(q.stack[2])) IN
  /\ q.pc = "steps" /\ Len(q.stack) > 1 /\ q.stack[1].i \notin DOMAIN q.stack[1].steps
  /\ Def[q.stack[2].steps[q.stack[2].i]].kind = "repeat"
  /\ n.pc = "until" /\ n.mem = SetRepeat(q.mem, [r EXCEPT !.awaiting = TRUE])
  /\ n.stack = Tail(q.stack)

\* The clock of a repeat starts.
Clocks(q, n) ==
  LET r == RepeatAt(q.mem, Place(q)) IN
  /\ At(q, "repeatStart") /\ n.pc = "snapshot" /\ Heading(n) = "repeatCheck"
  /\ n.stack = q.stack
  /\ r.startedAt = NoTime /\ n.mem = SetRepeat(q.mem, [r EXCEPT !.startedAt = now])

\* A step that is no repeat and has nothing below it to do is completed.
Records(q, n) ==
  /\ At(q, "call") /\ n.pc = "snapshot" /\ Heading(n) = "steps" /\ n.stack = Onward(q.stack)
  /\ DefAt(q).kind # "repeat"
  /\ DefAt(q).kind = "branch" => \E k \in DOMAIN DefAt(q).paths : DefAt(q).paths[k] = <<>>
  /\ q.mem.currentPath = Place(q) /\ n.mem.currentPath = Place(q)
  /\ CompletedPaths(n.mem) = CompletedPaths(q.mem) \cup {Place(q)}
  /\ n.mem.repeats = q.mem.repeats /\ n.mem.status = "running"

\* A branch chooses a path.
Decides(q, n) ==
  /\ At(q, "call") /\ n.pc = "snapshot" /\ Heading(n) = "steps" /\ DefAt(q).kind = "branch"
  /\ q.mem.currentPath = Place(q)
  /\ CompletedPaths(n.mem) = CompletedPaths(q.mem) \cup {Place(q)}
  /\ n.mem.repeats = q.mem.repeats /\ n.mem.status = "running"
  /\ \E key, g : /\ g.base = Append(Place(q), key) /\ g.base \in Path
                 /\ g.i = g.start /\ DefAt(q).paths[key] # <<>>
                 /\ n.mem.currentPath = g.base /\ n.stack = <<g>> \o q.stack

\* A branch is resumed.
GoesDown(q, n) ==
  /\ At(q, "call") /\ n.pc = "steps" /\ DefAt(q).kind = "branch" /\ n.mem = q.mem
  /\ \E key, g : /\ g.base = Append(Place(q), key) /\ n.stack = <<g>> \o q.stack
                 /\ Resumes(g, q.mem.currentPath)

\* An iteration of a repeat begins or is resumed, as the current path says or, at the
\* step itself, as the state of the repeat does.
Begins(q, n) ==
  LET r == RepeatAt(q.mem, Place(q))
      cp == q.mem.currentPath
  IN
  /\ At(q, "call") /\ DefAt(q).kind = "repeat"
  /\ \E it \in Nat :
       /\ \/ cp = Place(q) /\ it = r.iteration
          \/ Under(Place(q), cp) /\ it = cp[Len(Place(q)) + 1]
       /\ n.mem = SetRepeat(q.mem, [r EXCEPT !.iteration = it])
       /\ \/ r.awaiting /\ n.pc = "until" /\ n.stack = q.stack
          \/ /\ ~r.awaiting /\ n.pc = "steps"
             /\ \E g : /\ g.base = Append(Place(q), it) /\ n.stack = <<g>> \o q.stack
                       /\ g \in Frame /\ Framed(g) /\ g.i = g.start
                       /\ Under(Place(q), cp) => Resumes(g, cp)

\* What is left of the last iteration of the repeat at x when its condition is known.
Retained(m, x) ==
  IF Def[Last(x)].compact THEN Compact(m, Append(x, RepeatAt(m, x).iteration)) ELSE m

\* A repeat ends.
UntilDone(q, n) ==
  LET m == Retained(q.mem, Place(q))
      r == RepeatAt(q.mem, Place(q))
  IN
  /\ At(q, "until") /\ n.pc = "snapshot" /\ Heading(n) = "steps" /\ n.stack = Onward(q.stack)
  /\ CompletedPaths(n.mem) = CompletedPaths(m) \cup {Place(q)}
  /\ n.mem.repeats = SetRepeat(m, [r EXCEPT !.awaiting = FALSE, !.startedAt = NoTime]).repeats
  /\ n.mem.currentPath = Place(q) /\ n.mem.status = "running"

\* A repeat goes on with its next iteration, in a later call.
UntilMore(q, n) ==
  LET m == Retained(q.mem, Place(q))
      r == RepeatAt(q.mem, Place(q))
  IN
  /\ At(q, "until") /\ n.pc = "snapshot" /\ Heading(n) = "return"
  /\ CompletedPaths(n.mem) = CompletedPaths(m)
  /\ n.mem.repeats = SetRepeat(m, [r EXCEPT !.awaiting = FALSE, !.iteration = @ + 1]).repeats
  /\ n.mem.currentPath = Append(Place(q), r.iteration + 1) /\ n.mem.status = "running"

\* A repeat has used up its iterations.
UntilFails(q, n) ==
  /\ At(q, "until") /\ n.pc = "raise" /\ n.err.kind = "step"
  /\ n.mem = Retained(q.mem, Place(q))

\* What a call does unless it ends.
Tracks(q, n) ==
  \/ Passes(q, n) \/ SetsOut(q, n) \/ Skips(q, n) \/ Enters(q, n) \/ Ends(q, n)
  \/ Rises(q, n) \/ Closes(q, n) \/ Clocks(q, n) \/ Records(q, n) \/ Decides(q, n)
  \/ GoesDown(q, n) \/ Begins(q, n) \/ UntilDone(q, n) \/ UntilMore(q, n) \/ UntilFails(q, n)

\* The call that begins with the durable state.
Loaded == [NoCall EXCEPT !.pc = "start", !.mem = store]

-----------------------------------------------------------------------------
(* Every action is one of these moves.                                     *)

\* A call that leaves the forward path with what it holds.
LEMMA PassesOff ==
  ASSUME NEW q, NEW n, SameTrack(q.mem, n.mem), Heading(n) \notin Forward,
         n.mem.status = "completed" => q.mem.status = "completed",
         Firm(n) => Firm(q) /\ n.mem.currentPath = q.mem.currentPath /\ q.pc # "steps"
  PROVE  Tracks(q, n)
BY DEF Passes, Tracks

\* A call that goes elsewhere in the same step.
LEMMA PassesOn ==
  ASSUME NEW q, NEW k \in InStep, q.pc = k, q.mem.status = "running",
         NEW n, n.mem = q.mem, n.stack = q.stack, n.pc \in InStep \ {"repeatStart"}
  PROVE  Tracks(q, n)
<1>1. Heading(n) = n.pc /\ Heading(q) = k BY DEF Heading, InStep
<1>2. q.pc \notin {"idle", "return", "raise", "steps"} /\ n.pc \in Forward BY DEF InStep, Forward
<1> QED BY <1>1, <1>2 DEF Passes, Tracks, SameTrack, Firm, GoesForward

\* A step that fails: the journal, the states of repeats and the current path stay.
LEMMA PassesFail ==
  ASSUME NEW q, q.pc \in InStep \cup {"until"}, q.mem.status = "running",
         NEW p \in Call, SameTrack(q.mem, p.mem), p.mem.status = "running",
         p.mem.currentPath = q.mem.currentPath, NEW kind, NEW path
  PROVE  Tracks(q, Fail(p, kind, path))
<1> DEFINE n == Fail(p, kind, path)
<1>1. n.pc = "raise" /\ n.mem = p.mem BY FailIs
<1> HIDE DEF n
<1>2. Heading(n) \notin Forward BY <1>1 DEF Heading, Forward
<1>3. Firm(q) /\ q.pc # "steps" BY DEF Firm, GoesForward, InStep
<1>4. Tracks(q, n) BY <1>1, <1>2, <1>3, PassesOff
<1> QED BY <1>4 DEF n

\* A call that writes its last snapshot, or one of a rollback.
LEMMA PassesPersist ==
  ASSUME NEW q, NEW p \in Call, NEW m, NEW l \in {"return", "compensate"}, SameTrack(q.mem, m),
         m.status = "completed" => q.mem.status = "completed",
         GoesForward(m) => Firm(q) /\ m.currentPath = q.mem.currentPath /\ q.pc # "steps"
  PROVE  Tracks(q, Persist(p, m, l))
<1> DEFINE n == Persist(p, m, l)
<1>1. n.pc = "snapshot" /\ n.mem = m /\ n.next = l BY PersistIs
<1> HIDE DEF n
<1>2. Heading(n) \notin Forward BY <1>1 DEF Heading, Forward
<1>3. Tracks(q, n) BY <1>1, <1>2, PassesOff DEF Firm
<1> QED BY <1>3 DEF n

\* A call whose innermost scope returns an error.
LEMMA PassesUnwind ==
  ASSUME NEW q, NEW p \in Call, SameTrack(q.mem, p.mem),
         p.mem.status = "completed" => q.mem.status = "completed"
  PROVE  /\ \/ p.cancelled
            \/ p.mem.currentPath = q.mem.currentPath /\ q.pc # "steps"
               /\ (GoesForward(p.mem) /\ p.err.kind = "nocompensate" /\ ~p.cancelled => Firm(q))
         => Tracks(q, Unwind(p))
<1> DEFINE u == Unwind(p)
<1>1. /\ u.pc \in {"raise", "return"} /\ u.mem = p.mem /\ u.cancelled = p.cancelled
      /\ u.err = p.err
  BY UnwindIs DEF Unwind, Call
<1> HIDE DEF u
<1>2. Heading(u) \notin Forward BY <1>1 DEF Heading, Forward
<1>3. ASSUME \/ p.cancelled
             \/ p.mem.currentPath = q.mem.currentPath /\ q.pc # "steps"
                /\ (GoesForward(p.mem) /\ p.err.kind = "nocompensate" /\ ~p.cancelled => Firm(q))
      PROVE  Tracks(q, u)
  <2>1. Firm(u) => Firm(q) /\ u.mem.currentPath = q.mem.currentPath /\ q.pc # "steps"
    BY <1>1, <1>3 DEF Firm
  <2> QED BY <1>1, <1>2, <2>1, PassesOff
<1> QED BY <1>3 DEF u

\* The loop over a scope.
LEMMA StepsTrack ==
  ASSUME TypeOK, NEW w \in Worker, Placed(proc[w]),
         SkipCompleted(w) \/ StopCancelled(w) \/ EnterStep(w)
  PROVE  Tracks(proc[w], proc'[w])
<1> DEFINE q == proc[w]
           m == q.mem
           f == q.stack[1]
           cp == m.currentPath
<1>1. q \in Call /\ proc \in [Worker -> Call] BY DEF TypeOK
<1>2. At(q, "steps") BY DEF SkipCompleted, StopCancelled, EnterStep
<1>3. /\ m \in RunState /\ q.stack \in Seq(Frame) /\ q.stack # <<>> /\ q.pc = "steps"
      /\ f \in Frame /\ Framed(f) /\ f.i \in DOMAIN f.steps
      /\ Top(q) = f /\ StepOf(q) = f.steps[f.i] /\ StepPath(q) = Here(f)
      /\ Here(f) \in Path /\ cp \in Path
      /\ m.status = "running" /\ Going("steps", m, f)
  BY <1>1, <1>2, AtPlaced DEF Forward
<1>4. f.i = f.start => f.resume = cp BY <1>3 DEF Going, Stands
<1>5. CASE SkipCompleted(w)
  <2> DEFINE n == Advance(q)
  <2>1. proc'[w] = n BY <1>1, <1>5 DEF SkipCompleted, Local, Set
  <2>2. f.i = f.start /\ Here(f) = cp BY <1>3, <1>4, <1>5 DEF SkipCompleted, Resumed
  <2>3. n.mem = m /\ n.stack = [q.stack EXCEPT ![1].i = @ + 1] /\ n.pc = "steps"
    BY <1>1, <1>3, AdvanceIsNext
  <2> HIDE DEF n
  <2>4. Skips(q, n) BY <1>2, <2>2, <2>3 DEF Skips, Onward, Place
  <2> QED BY <2>1, <2>4 DEF Tracks
<1>6. CASE StopCancelled(w)
  <2> DEFINE p == [q EXCEPT !.mem.currentPath = StepPath(q),
                            !.err = [kind |-> "context", path |-> <<>>]]
  <2>1. proc'[w] = Unwind(p) /\ q.cancelled BY <1>1, <1>6 DEF StopCancelled, Local, Set
  <2>2. p \in Call BY <1>1, <1>3, ContextType
  <2>3. p.cancelled /\ SameTrack(m, p.mem) /\ p.mem.status = "running"
    BY <1>1, <1>3, <2>1 DEF Call, RunState, SameTrack
  <2> HIDE DEF p
  <2> QED BY <2>1, <2>2, <2>3, PassesUnwind
<1>7. CASE EnterStep(w)
  <2> DEFINE deeper == Top(q).i = Top(q).start /\ IsStrictPrefix(StepPath(q), Top(q).resume)
             path == IF deeper THEN Top(q).resume ELSE StepPath(q)
             n == [q EXCEPT !.mem.currentPath = path, !.attempt = 0, !.pc = Prologue(StepOf(q))]
  <2>1. proc'[w] = n BY <1>1, <1>7 DEF EnterStep, Local, Set
  <2>2. path = Entering(f)
    <3>1. f.resume \in Path BY <1>3 DEF Frame
    <3>2. IsStrictPrefix(Here(f), f.resume) <=> Under(Here(f), f.resume)
      BY <1>3, <3>1, PrefixLeads
    <3> QED BY <1>3, <3>2 DEF Entering
  <2> HIDE DEF path
  <2>3. /\ n.mem.completed = m.completed /\ n.mem.currentPath = path /\ n.mem.status = m.status
        /\ n.mem.repeats = m.repeats
        /\ n.stack = q.stack /\ n.pc = Prologue(StepOf(q))
    BY <1>1, <1>3 DEF Call, RunState
  <2>4. n.pc \in InStep /\ (n.pc = "repeatStart" => Def[StepOf(q)].kind = "repeat")
    BY <2>3 DEF Prologue, Dispatch, InStep, Timed
  <2> HIDE DEF n
  <2>5. Enters(q, n) BY <1>2, <1>3, <2>2, <2>3, <2>4 DEF Enters, SameTrack, DefAt
  <2> QED BY <2>1, <2>5 DEF Tracks
<1> QED BY <1>5, <1>6, <1>7

\* The end of a scope.
LEMMA ScopeTracks ==
  ASSUME TypeOK, NEW w \in Worker, Placed(proc[w]), ScopeDone(w)
  PROVE  Tracks(proc[w], proc'[w])
<1> DEFINE q == proc[w]
           m == q.mem
           st == Tail(q.stack)
           f == q.stack[1]
           u == st[1]
           up == [q EXCEPT !.stack = Tail(@)]
           r == RepeatAt(m, StepPath(up))
           done == Persist([q EXCEPT !.stack = <<>>], [m EXCEPT !.status = "completed"], "return")
           more == [up EXCEPT !.mem = SetRepeat(m, [r EXCEPT !.awaiting = TRUE]), !.pc = "until"]
<1>1. /\ q \in Call /\ proc \in [Worker -> Call] /\ m \in RunState /\ q.stack \in Seq(Frame)
      /\ q.stack # <<>> /\ q.pc = "steps"
  BY DEF TypeOK, Call, ScopeDone
<1>2. Chained(q.stack, m) BY <1>1 DEF Placed, Heading, Forward
<1>3. f.i \notin DOMAIN f.steps
  <2>1. f \in Frame BY <1>1
  <2>2. f.i > Len(f.steps) BY DEF ScopeDone, Top
  <2> QED BY <2>1, <2>2 DEF Frame
<1>4. ASSUME proc'[w] = done, Len(q.stack) = 1 PROVE Tracks(q, proc'[w])
  <2> DEFINE k == [m EXCEPT !.status = "completed"]
             p == [q EXCEPT !.stack = <<>>]
             n == Persist(p, k, "return")
  <2>1. p \in Call BY <1>1, NewRunType DEF Call, NoCall
  <2>2. k.completed = m.completed /\ k.repeats = m.repeats /\ k.status = "completed"
    BY <1>1 DEF RunState
  <2> HIDE DEF p, k
  <2>3. n.pc = "snapshot" /\ n.mem = k /\ n.next = "return" BY <2>1, PersistIs
  <2> HIDE DEF n
  <2>4. Heading(n) = "return" BY <2>3 DEF Heading
  <2>5. Ends(q, n) BY <1>1, <1>3, <1>4, <2>2, <2>3, <2>4 DEF Ends, SameTrack
  <2>6. proc'[w] = n BY <1>4 DEF n, p, k
  <2> QED BY <2>5, <2>6 DEF Tracks
<1>5. ASSUME Len(q.stack) > 1, At(up, "steps"),
             \/ Def[StepOf(up)].kind = "branch" /\ proc'[w] = Advance(up)
             \/ Def[StepOf(up)].kind = "repeat" /\ proc'[w] = more
      PROVE  Tracks(q, proc'[w])
  <2>1. /\ Chained(st, m) /\ st \in Seq(Frame) /\ u = q.stack[2] /\ Joined(f, u, m)
    BY <1>1, <1>2, <1>5, ChainPop
  <2>2. up \in Call /\ up.stack = st /\ up.mem = m /\ up.pc = "steps" BY <1>1, <2>1 DEF Call
  <2>3. st # <<>>
    <3> HIDE DEF st
    <3> QED BY <2>1 DEF Chained
  <2> HIDE DEF st
  <2>4. StepPath(up) = Here(u) /\ StepOf(up) = u.steps[u.i]
    <3> HIDE DEF up
    <3>1. Top(up) = u BY <2>1, <2>2, <2>3 DEF Top
    <3> QED BY <3>1 DEF StepOf, StepPath, Here, StepAt
  <2>5. CASE Def[StepOf(up)].kind = "branch" /\ proc'[w] = Advance(up)
    <3> DEFINE n == Advance(up)
    <3>1. n.mem = m /\ n.stack = [st EXCEPT ![1].i = @ + 1] /\ n.pc = "steps"
      BY <2>2, AdvanceIsNext
    <3> HIDE DEF n, m
    <3>2. Rises(q, n) BY <1>1, <1>3, <1>5, <2>1, <2>4, <2>5, <3>1 DEF Rises, Onward, st, m
    <3> QED BY <2>5, <3>2 DEF n, Tracks
  <2>6. CASE Def[StepOf(up)].kind = "repeat" /\ proc'[w] = more
    <3> DEFINE k == SetRepeat(m, [r EXCEPT !.awaiting = TRUE])
    <3>1. more.pc = "until" /\ more.mem = k /\ more.stack = st BY <2>2 DEF Call
    <3>2. k = SetRepeat(m, [RepeatAt(m, Here(u)) EXCEPT !.awaiting = TRUE]) BY <2>4
    <3> HIDE DEF k, more
    <3>3. Closes(q, more)
      BY <1>1, <1>3, <1>5, <2>1, <2>4, <2>6, <3>1, <3>2 DEF Closes, st
    <3> QED BY <2>6, <3>3 DEF Tracks
  <2> QED BY <1>5, <2>5, <2>6
<1>6. \/ proc'[w] = done /\ Len(q.stack) = 1
      \/ Len(q.stack) > 1 /\ At(up, "steps") /\ Def[StepOf(up)].kind = "branch"
         /\ proc'[w] = Advance(up)
      \/ Len(q.stack) > 1 /\ At(up, "steps") /\ Def[StepOf(up)].kind = "repeat"
         /\ proc'[w] = more
  BY <1>1 DEF ScopeDone, Local, Set
<1> QED BY <1>4, <1>5, <1>6

\* The clock of a repeat and the hook.
LEMMA PrologueTracks ==
  ASSUME TypeOK, NEW w \in Worker, Placed(proc[w]),
         \/ EnsureRepeatStarted(w) \/ CheckRepeatTimeout(w)
         \/ \E o \in Outcome : OnEnter(w, o)
  PROVE  Tracks(proc[w], proc'[w])
<1> DEFINE q == proc[w]
           f == q.stack[1]
           r == RepeatAt(q.mem, StepPath(q))
           m == SetRepeat(q.mem, [r EXCEPT !.startedAt = now])
<1>1. q \in Call /\ proc \in [Worker -> Call] BY DEF TypeOK
<1>2. PICK k \in InStep : At(q, k)
  BY DEF EnsureRepeatStarted, CheckRepeatTimeout, OnEnter, InStep
<1>3. k \in Forward /\ k # "steps" /\ k # "until" BY DEF InStep, Forward
<1>4. q.mem \in RunState /\ StepPath(q) = Here(f) /\ q.pc = k /\ q.mem.status = "running"
  BY <1>1, <1>2, <1>3, AtPlaced
<1>5. Firm(q) /\ q.pc # "steps" BY <1>3, <1>4 DEF Firm, GoesForward, InStep
<1>6. \A l \in InStep \ {"repeatStart"} : Tracks(q, [q EXCEPT !.pc = l])
  <2>1. ASSUME NEW l \in InStep \ {"repeatStart"} PROVE Tracks(q, [q EXCEPT !.pc = l])
    <3> DEFINE n == [q EXCEPT !.pc = l]
    <3>1. n.mem = q.mem /\ n.stack = q.stack /\ n.pc = l BY <1>1, <2>1, GotoIs
    <3> HIDE DEF n
    <3>2. Tracks(q, n) BY <1>4, <2>1, <3>1, PassesOn
    <3> QED BY <3>2 DEF n
  <2> QED BY <2>1
<1>7. Tracks(q, Persist(q, q.mem, "return")) BY <1>1, <1>4, <1>5, PassesPersist DEF SameTrack
<1>8. \A kind, path : Tracks(q, Fail(q, kind, path)) BY <1>1, <1>4, PassesFail DEF SameTrack
<1>9. ASSUME EnsureRepeatStarted(w), r.startedAt = NoTime
      PROVE  Tracks(q, Persist(q, m, "repeatCheck"))
  <2> DEFINE n == Persist(q, m, "repeatCheck")
  <2>1. n.mem = m /\ n.stack = q.stack /\ n.pc = "snapshot" /\ n.next = "repeatCheck"
    BY <1>1, PersistIs
  <2> HIDE DEF n
  <2>2. Heading(n) = "repeatCheck" BY <2>1 DEF Heading
  <2>3. At(q, "repeatStart") BY <1>9 DEF EnsureRepeatStarted
  <2>4. Clocks(q, n) BY <1>4, <1>9, <2>1, <2>2, <2>3 DEF Clocks, Place
  <2> QED BY <2>4 DEF Tracks, n
<1>10. {"repeatCheck", "call", Dispatch(StepOf(q))} \subseteq InStep \ {"repeatStart"}
  BY DEF Dispatch, InStep
<1>11. \/ EnsureRepeatStarted(w) /\ r.startedAt = NoTime /\ proc'[w] = Persist(q, m, "repeatCheck")
       \/ proc'[w] = Persist(q, q.mem, "return")
       \/ \E l \in {"repeatCheck", "call", Dispatch(StepOf(q))} : proc'[w] = [q EXCEPT !.pc = l]
       \/ \E kind : proc'[w] = Fail(q, kind, StepPath(q))
  <2>1. CASE EnsureRepeatStarted(w)
    BY <1>1, <2>1 DEF EnsureRepeatStarted, Local, Set
  <2>2. CASE CheckRepeatTimeout(w)
    BY <1>1, <2>2 DEF CheckRepeatTimeout, Local, Set
  <2>3. ASSUME NEW o \in Outcome, OnEnter(w, o) PROVE <1>11!:
    BY <1>1, <2>3 DEF OnEnter, Local, Set
  <2> QED BY <2>1, <2>2, <2>3
<1> QED BY <1>6, <1>7, <1>8, <1>9, <1>10, <1>11

\* A step that completes at its own path, and below which there is nothing to do.
LEMMA RecordTracks ==
  ASSUME NEW q \in Call, At(q, "call"), DefAt(q).kind # "repeat",
         DefAt(q).kind = "branch" => \E k \in DOMAIN DefAt(q).paths : DefAt(q).paths[k] = <<>>,
         q.mem.currentPath = Place(q), NEW m, m.currentPath = Place(q),
         CompletedPaths(m) = CompletedPaths(q.mem) \cup {Place(q)},
         m.repeats = q.mem.repeats, m.status = "running"
  PROVE  Tracks(q, PersistThen([Advance(q) EXCEPT !.pc = "steps"], m))
<1> DEFINE p == [Advance(q) EXCEPT !.pc = "steps"]
           n == PersistThen(p, m)
<1>1. q.stack # <<>> BY DEF At
<1>2. n.mem = m /\ Heading(n) = "steps" /\ n.stack = [q.stack EXCEPT ![1].i = @ + 1]
  BY <1>1, NextIs
<1>3. n.pc = "snapshot"
  <2>1. p \in Call BY <1>1, AdvanceType, GotoType DEF Label
  <2> HIDE DEF p
  <2> QED BY <2>1, PersistThenIs
<1> HIDE DEF n
<1>4. Records(q, n) BY <1>2, <1>3 DEF Records, Onward
<1> QED BY <1>4 DEF Tracks, n

\* An action, and the wait between its attempts.
LEMMA ActionTracks ==
  ASSUME TypeOK, NEW w \in Worker, Placed(proc[w]),
         (\E o \in Outcome : Do(w, o)) \/ Sleep(w)
  PROVE  Tracks(proc[w], proc'[w])
<1> DEFINE q == proc[w]
           f == q.stack[1]
           x == Here(f)
           m == Complete(q.mem, StepPath(q), Def[StepOf(q)].compensate)
           done == PersistThen([Advance(q) EXCEPT !.pc = "steps"], m)
           again == [q EXCEPT !.attempt = @ + 1, !.pc = "sleep"]
<1>1. q \in Call /\ proc \in [Worker -> Call] BY DEF TypeOK
<1>2. PICK k \in {"call", "sleep"} : At(q, k) BY DEF Do, Sleep
<1>3. k \in Forward /\ k \in InStep /\ k # "steps" BY DEF InStep, Forward
<1>4. /\ q.mem \in RunState /\ q.stack \in Seq(Frame) /\ q.stack # <<>> /\ f \in Frame /\ Framed(f)
      /\ f.i \in DOMAIN f.steps /\ StepPath(q) = x /\ x \in Path /\ StepOf(q) = f.steps[f.i]
      /\ CompletedPaths(q.mem) \in SUBSET Path /\ q.mem.currentPath \in Path
      /\ q.mem.status = "running" /\ Leads(x, q.mem.currentPath) /\ q.pc = k
      /\ Route(CompletedPaths(q.mem), q.mem.currentPath)
  BY <1>1, <1>2, <1>3, AtPlaced DEF Resumable
<1>5. Firm(q) /\ q.pc # "steps" BY <1>3, <1>4 DEF Firm, GoesForward, InStep
<1>6. Tracks(q, [q EXCEPT !.pc = "call"]) /\ Tracks(q, again)
  <2> DEFINE n == [q EXCEPT !.pc = "call"]
  <2>1. n.mem = q.mem /\ n.stack = q.stack /\ n.pc \in InStep \ {"repeatStart"}
    BY <1>1, GotoIs DEF InStep
  <2>2. again.mem = q.mem /\ again.stack = q.stack /\ again.pc \in InStep \ {"repeatStart"}
    BY <1>1 DEF Call, InStep
  <2> HIDE DEF n, again
  <2>3. Tracks(q, n) /\ Tracks(q, again) BY <1>3, <1>4, <2>1, <2>2, PassesOn
  <2> QED BY <2>3 DEF n
<1>7. Tracks(q, Persist(q, q.mem, "return")) BY <1>1, <1>4, <1>5, PassesPersist DEF SameTrack
<1>8. \A kind, path : Tracks(q, Fail(q, kind, path))
  BY <1>1, <1>3, <1>4, PassesFail DEF SameTrack
<1>9. ASSUME At(q, "call"), Def[StepOf(q)].kind = "action" PROVE Tracks(q, done)
  <2>1. x # <<>> /\ Odd(Len(x)) /\ Last(x) = f.steps[f.i] BY <1>4, HereIs
  <2>2. q.mem.currentPath = x BY <1>4, <1>9, <2>1, LeafPath
  <2>3. CompletedPaths(m) = CompletedPaths(q.mem) \cup {x}
    <3>1. Def[StepOf(q)].compensate \in BOOLEAN
      <4>1. StepOf(q) \in Step BY <1>4, HereIs
      <4> QED BY <4>1, DefinitionAssumption DEF StepOK
    <3> QED BY <1>4, <3>1, CompletePaths
  <2>4. m.currentPath = q.mem.currentPath /\ m.repeats = q.mem.repeats /\ m.status = "running"
    BY <1>4 DEF Complete, RunState
  <2> HIDE DEF m
  <2>5. DefAt(q) = Def[StepOf(q)] /\ Place(q) = x BY <1>4 DEF DefAt, Place
  <2> QED BY <1>1, <1>9, <2>2, <2>3, <2>4, <2>5, RecordTracks
<1>10. \/ At(q, "call") /\ Def[StepOf(q)].kind = "action" /\ proc'[w] = done
       \/ proc'[w] = Persist(q, q.mem, "return")
       \/ proc'[w] = again
       \/ proc'[w] = [q EXCEPT !.pc = "call"]
       \/ \E kind : proc'[w] = Fail(q, kind, StepPath(q))
  <2>1. ASSUME NEW o \in Outcome, Do(w, o) PROVE <1>10!:
    BY <1>1, <2>1 DEF Do, Set
  <2>2. CASE Sleep(w)
    BY <1>1, <2>2 DEF Sleep, Local, Set
  <2> QED BY <2>1, <2>2
<1> QED BY <1>6, <1>7, <1>8, <1>9, <1>10

\* A poll.
LEMMA PollTracks ==
  ASSUME TypeOK, NEW w \in Worker, Placed(proc[w]),
         PollTimeout(w) \/ \E o \in Outcome \cup {"pending"} : Check(w, o)
  PROVE  Tracks(proc[w], proc'[w])
<1> DEFINE q == proc[w]
           f == q.stack[1]
           x == Here(f)
           J == CompletedPaths(q.mem)
           m == Opened(q.mem)
           closed == [m EXCEPT !.pollStartedAt = NoTime]
           back == [closed EXCEPT !.status = "running"]
           k == Complete(back, StepPath(q), FALSE)
           done == PersistThen([Advance(q) EXCEPT !.pc = "steps"], k)
           waiting == [m EXCEPT !.status = "polling"]
<1>1. q \in Call /\ proc \in [Worker -> Call] /\ now \in Nat BY DEF TypeOK
<1>2. At(q, "call") /\ Def[StepOf(q)].kind = "poll" BY DEF PollTimeout, Check
<1>3. /\ q.mem \in RunState /\ q.stack \in Seq(Frame) /\ q.stack # <<>> /\ f \in Frame /\ Framed(f)
      /\ f.i \in DOMAIN f.steps /\ StepPath(q) = x /\ x \in Path /\ StepOf(q) = f.steps[f.i]
      /\ J \in SUBSET Path /\ q.mem.currentPath \in Path /\ q.mem.status = "running"
      /\ Leads(x, q.mem.currentPath) /\ Route(J, q.mem.currentPath) /\ q.pc = "call"
  BY <1>1, <1>2, AtPlaced DEF Forward, Resumable
<1>4. Firm(q) /\ q.pc # "steps" /\ q.pc \in InStep BY <1>3 DEF Firm, GoesForward, InStep
<1>5. x # <<>> /\ Odd(Len(x)) /\ Last(x) = f.steps[f.i] BY <1>3, HereIs
<1>6. q.mem.currentPath = x BY <1>2, <1>3, <1>5, LeafPath
<1>7. /\ m \in RunState /\ m.completed = q.mem.completed /\ m.currentPath = x
      /\ m.repeats = q.mem.repeats /\ m.status = "running"
  BY <1>1, <1>3, <1>6 DEF Opened, RunState, Time
<1> HIDE DEF m
<1>8. /\ closed \in RunState /\ closed.completed = m.completed /\ closed.currentPath = x
      /\ closed.repeats = m.repeats /\ closed.status = "running"
  BY <1>7 DEF RunState, Time
<1>9. /\ waiting.completed = m.completed /\ waiting.currentPath = m.currentPath
      /\ waiting.repeats = m.repeats /\ waiting.status = "polling"
  BY <1>7 DEF RunState
<1> HIDE DEF waiting, closed
<1>10. /\ back \in RunState /\ back.completed = q.mem.completed /\ back.currentPath = x
       /\ back.repeats = q.mem.repeats /\ back.status = "running"
  BY <1>7, <1>8 DEF RunState
<1> HIDE DEF back
<1>11. /\ CompletedPaths(k) = J \cup {x} /\ k.currentPath = x /\ k.repeats = q.mem.repeats
       /\ k.status = "running"
  <2>1. CompletedPaths(k) = CompletedPaths(back) \cup {x} BY <1>3, <1>10, CompletePaths
  <2>2. CompletedPaths(back) = J BY <1>10 DEF CompletedPaths
  <2>3. k.currentPath = x /\ k.repeats = q.mem.repeats /\ k.status = "running"
    BY <1>10 DEF Complete, RunState
  <2> QED BY <2>1, <2>2, <2>3
<1>12. Tracks(q, Persist(q, waiting, "return"))
  BY <1>1, <1>4, <1>6, <1>7, <1>9, PassesPersist DEF SameTrack
<1>13. ASSUME NEW n \in RunState, n.completed = q.mem.completed, n.repeats = q.mem.repeats,
              n.currentPath = x, n.status = "running", NEW kind
       PROVE  Tracks(q, Fail([q EXCEPT !.mem = n], kind, StepPath(q)))
  <2>1. [q EXCEPT !.mem = n] \in Call /\ [q EXCEPT !.mem = n].mem = n
    BY <1>1, <1>13, MemType, WithMemIs
  <2> QED BY <2>1, <1>3, <1>4, <1>6, <1>13, PassesFail DEF SameTrack
<1>14. Tracks(q, done)
  <2>1. DefAt(q) = Def[StepOf(q)] /\ Place(q) = x BY <1>3 DEF DefAt, Place
  <2> HIDE DEF k
  <2> QED BY <1>1, <1>2, <1>6, <1>11, <2>1, RecordTracks
<1>15. \/ proc'[w] = done
       \/ proc'[w] = Persist(q, waiting, "return")
       \/ \E kind : \/ proc'[w] = Fail([q EXCEPT !.mem = m], kind, StepPath(q))
                    \/ proc'[w] = Fail([q EXCEPT !.mem = closed], kind, StepPath(q))
  <2>1. CASE PollTimeout(w)
    BY <1>1, <2>1 DEF PollTimeout, Local, Set, m, closed
  <2>2. ASSUME NEW o \in Outcome \cup {"pending"}, Check(w, o) PROVE <1>15!:
    BY <1>1, <2>2 DEF Check, Local, Set, m, closed, waiting, back
  <2> QED BY <2>1, <2>2
<1> HIDE DEF done
<1> QED BY <1>7, <1>8, <1>12, <1>13, <1>14, <1>15

\* A branch.
LEMMA BranchTracks ==
  ASSUME TypeOK, NEW w \in Worker, Placed(proc[w]),
         \/ ResumeBranch(w) \/ \E key \in Key : Decide(w, key)
         \/ \E o \in Outcome : DecideFailed(w, o)
  PROVE  Tracks(proc[w], proc'[w])
<1> DEFINE q == proc[w]
           f == q.stack[1]
           x == Here(f)
           J == CompletedPaths(q.mem)
           cp == q.mem.currentPath
           def == Def[StepOf(q)]
<1>1. q \in Call /\ proc \in [Worker -> Call] BY DEF TypeOK
<1>2. At(q, "call") /\ def.kind = "branch" BY DEF ResumeBranch, Decide, DecideFailed
<1>3. /\ q.mem \in RunState /\ q.stack \in Seq(Frame) /\ q.stack # <<>> /\ f \in Frame /\ Framed(f)
      /\ f.i \in DOMAIN f.steps /\ StepPath(q) = x /\ x \in Path /\ StepOf(q) = f.steps[f.i]
      /\ J \in SUBSET Path /\ cp \in Path /\ q.mem.status = "running" /\ q.pc = "call"
      /\ Leads(x, cp)
  BY <1>1, <1>2, AtPlaced DEF Forward
<1>4. Firm(q) /\ q.pc # "steps" /\ q.pc \in InStep BY <1>3 DEF Firm, GoesForward, InStep
<1>5. def = DefAt(q) /\ def = Def[f.steps[f.i]] /\ Place(q) = x BY <1>3 DEF DefAt, Place
<1>6. Len(x) \in Nat BY <1>3 DEF Path
<1> HIDE DEF J, cp, def
<1>7. CASE ResumeBranch(w)
  <2> DEFINE d == Len(x) + 1
             key == cp[d]
             steps == def.paths[key]
             start == ResumeIndex(steps, cp, d + 1)
             g == NewFrame(Append(x, key), steps, start, cp)
             n == Push(q, g)
  <2>1. d <= Len(cp) /\ key \in DOMAIN def.paths /\ proc'[w] = n
    <3> HIDE DEF x
    <3> QED BY <1>1, <1>3, <1>7 DEF ResumeBranch, Local, Set, cp, def
  <2>2. Under(x, cp)
    <3>1. Len(x) < Len(cp)
      <4>1. Len(cp) \in Nat BY <1>3 DEF Path
      <4> QED BY <1>6, <2>1, <4>1
    <3> QED BY <1>3, <3>1 DEF Under, Leads
  <2> HIDE DEF x
  <2>3. Inside(f, key, steps) BY <1>2, <1>5, <2>1 DEF Inside
  <2>4. Append(x, key) \in Path /\ Leads(Append(x, key), cp)
    BY <1>3, <2>2, NextLeads
  <2> HIDE DEF key, steps
  <2>5. start \in Nat \ {0}
    <3>1. steps \in Seq(Step) BY <1>3, <2>3, StepType, HereIs DEF Inside
    <3> QED BY <3>1, ResumeIndexType
  <2>6. /\ g \in Frame /\ Framed(g) /\ g.base = Append(x, key) /\ g.steps = steps
        /\ g.start = start /\ g.i = start
    <3> HIDE DEF f, start
    <3> QED BY <1>3, <2>3, <2>5, InsideIs DEF x
  <2>7. Len(g.base) + 1 = d + 1 BY <1>3, <2>4, <2>6 DEF Path
  <2>8. n.pc = "steps" /\ n.mem = q.mem /\ n.stack = <<g>> \o q.stack BY <1>1, PushIs
  <2>9. g.start = ResumeIndex(g.steps, cp, Len(g.base) + 1) BY <2>6, <2>7
  <2> HIDE DEF n, g, start, d
  <2>10. Resumes(g, cp) BY <2>4, <2>6, <2>9 DEF Resumes
  <2>11. GoesDown(q, n) BY <1>2, <1>5, <2>6, <2>8, <2>10 DEF GoesDown, cp
  <2> QED BY <2>1, <2>11 DEF Tracks
<1>8. ASSUME NEW key \in Key, Decide(w, key) PROVE Tracks(q, proc'[w])
  <2> DEFINE c == Append(x, key)
             steps == def.paths[key]
             m == Complete(q.mem, x, FALSE)
             g == NewFrame(c, steps, 1, c)
             none == [m EXCEPT !.currentPath = x]
             some == [m EXCEPT !.currentPath = c]
             done == PersistThen([Advance(q) EXCEPT !.pc = "steps"], none)
             down == PersistThen(Push(q, g), some)
  <2>1. /\ Len(cp) <= Len(x) /\ key \in DOMAIN def.paths
        /\ \/ steps = <<>> /\ proc'[w] = done
           \/ steps # <<>> /\ proc'[w] = down
    <3> HIDE DEF x
    <3> QED BY <1>1, <1>3, <1>8 DEF Decide, Local, Set, cp, def
  <2>2. cp = x BY <1>3, <2>1, PathOrder
  <2>3. Inside(f, key, steps) BY <1>2, <1>5, <2>1 DEF Inside
  <2>4. c \in Path
    <3> HIDE DEF x
    <3> QED BY <1>3, AppendKey
  <2>5. g \in Frame /\ g.base = c /\ g.i = g.start
    <3>1. 1 \in Nat \ {0} OBVIOUS
    <3> QED BY <1>3, <2>3, <2>4, <3>1, InsideIs
  <2>6. CompletedPaths(m) = J \cup {x} BY <1>3, CompletePaths DEF J
  <2> HIDE DEF x, g, c
  <2>7. /\ none.completed = m.completed /\ some.completed = m.completed
        /\ none.currentPath = x /\ none.repeats = q.mem.repeats /\ none.status = "running"
        /\ some.currentPath = c /\ some.repeats = q.mem.repeats /\ some.status = "running"
    BY <1>3 DEF Complete, RunState
  <2> HIDE DEF m, none, some
  <2>8. CompletedPaths(none) = J \cup {x} /\ CompletedPaths(some) = J \cup {x}
    BY <2>6, <2>7 DEF CompletedPaths
  <2>9. CASE steps = <<>> /\ proc'[w] = done
    <3>1. Tracks(q, done)
      BY <1>1, <1>2, <1>5, <2>1, <2>2, <2>7, <2>8, <2>9, RecordTracks DEF cp, J
    <3> QED BY <2>9, <3>1
  <2>10. CASE steps # <<>> /\ proc'[w] = down
    <3>1. Push(q, g) \in Call /\ Push(q, g).pc = "steps" /\ Push(q, g).stack = <<g>> \o q.stack
      BY <1>1, <2>5, PushType, PushIs
    <3>2. /\ down.mem = some /\ down.pc = "snapshot" /\ down.next = "steps"
          /\ down.stack = <<g>> \o q.stack
      BY <3>1, PersistThenIs
    <3> HIDE DEF down
    <3>3. Heading(down) = "steps" BY <3>2 DEF Heading
    <3>4. /\ g.base = Append(Place(q), key) /\ g.base \in Path
          /\ g.i = g.start /\ DefAt(q).paths[key] # <<>>
      BY <1>5, <2>4, <2>5, <2>10 DEF c
    <3>5. Decides(q, down)
      BY <1>2, <1>5, <2>2, <2>5, <2>7, <2>8, <3>2, <3>3, <3>4 DEF Decides, cp, J
    <3> QED BY <2>10, <3>5 DEF Tracks
  <2> QED BY <2>1, <2>9, <2>10
<1>9. ASSUME NEW o \in Outcome, DecideFailed(w, o) PROVE Tracks(q, proc'[w])
  <2>1. \/ proc'[w] = Persist(q, q.mem, "return")
        \/ proc'[w] = Fail(q, KindOf(o), StepPath(q))
    BY <1>1, <1>9 DEF DecideFailed, Local, Set
  <2> QED BY <1>1, <1>3, <1>4, <2>1, PassesPersist, PassesFail DEF SameTrack
<1> QED BY <1>7, <1>8, <1>9

\* A repeat.
LEMMA RepeatTracks ==
  ASSUME TypeOK, NEW w \in Worker, Placed(proc[w]),
         \/ BeginIteration(w) \/ UntilTimeout(w)
         \/ \E o \in Outcome \cup {"more"} : Until(w, o)
  PROVE  Tracks(proc[w], proc'[w])
<1> DEFINE q == proc[w]
           f == q.stack[1]
           x == Here(f)
           J == CompletedPaths(q.mem)
           cp == q.mem.currentPath
           def == Def[StepOf(q)]
           r == RepeatAt(q.mem, StepPath(q))
<1>1. q \in Call /\ proc \in [Worker -> Call] BY DEF TypeOK
<1>2. PICK l \in {"call", "until"} : At(q, l) BY DEF BeginIteration, UntilTimeout, Until
<1>3. /\ q.mem \in RunState /\ q.stack \in Seq(Frame) /\ q.stack # <<>> /\ f \in Frame /\ Framed(f)
      /\ f.i \in DOMAIN f.steps /\ StepPath(q) = x /\ x \in Path /\ StepOf(q) = f.steps[f.i]
      /\ J \in SUBSET Path /\ cp \in Path /\ q.mem.status = "running"
      /\ Leads(x, cp) /\ q.pc = l /\ Route(J, x)
  BY <1>1, <1>2, AtPlaced DEF Forward, Resumable
<1>4. Firm(q) /\ q.pc # "steps" /\ q.pc \in InStep \cup {"until"}
  BY <1>3 DEF Firm, GoesForward, InStep
<1>5. /\ def = Def[f.steps[f.i]] /\ Last(x) = f.steps[f.i] /\ Odd(Len(x)) /\ Len(x) \in Nat
      /\ def = DefAt(q) /\ Place(q) = x
  BY <1>3, HereIs DEF Path, DefAt, Place
<1>6. /\ r \in RepeatState /\ r.path = x /\ r.iteration \in Nat /\ r = RepeatAt(q.mem, x)
  <2>1. r \in RepeatState /\ r.path = x /\ r = RepeatAt(q.mem, x) BY <1>3, RepeatAtType
  <2> QED BY <2>1 DEF RepeatState
<1> HIDE DEF J, cp, def, x, r
<1>7. CASE BeginIteration(w)
  <2> DEFINE d == Len(x) + 1
             it == IF d <= Len(cp) THEN cp[d] ELSE r.iteration
             s == [r EXCEPT !.iteration = it]
             m == SetRepeat(q.mem, s)
             body == def.body
             start == ResumeIndex(body, cp, d + 1)
             g == NewFrame(Append(x, it), body, start, cp)
             until == [q EXCEPT !.mem = m, !.pc = "until"]
             down == Push([q EXCEPT !.mem = m], g)
  <2>1. /\ At(q, "call") /\ def.kind = "repeat" /\ it \in Nat
        /\ \/ r.awaiting /\ proc'[w] = until
           \/ ~r.awaiting /\ proc'[w] = down
    <3>1. At(q, "call") /\ def.kind = "repeat" BY <1>7 DEF BeginIteration, def
    <3>2. it \in Nat /\ proc'[w] = IF r.awaiting THEN until ELSE down
      BY <1>1, <1>3, <1>7 DEF BeginIteration, Local, Set, cp, def, r
    <3> QED BY <3>1, <3>2
  <2>2. \/ cp = x /\ it = r.iteration
        \/ Under(x, cp) /\ it = cp[Len(x) + 1]
    <3>1. Len(cp) \in Nat BY <1>3 DEF Path
    <3>2. CASE cp = x BY <1>5, <3>2
    <3>3. CASE Under(x, cp)
      <4>1. d <= Len(cp) BY <1>5, <3>1, <3>3 DEF Under
      <4> QED BY <3>3, <4>1
    <3> QED BY <1>3, <3>2, <3>3, PathOrder
  <2> HIDE DEF it
  <2>3. s \in RepeatState BY <1>6, <2>1 DEF RepeatState
  <2>4. m \in RunState
    <3> HIDE DEF s
    <3> QED BY <1>3, <2>3, SetRepeatType
  <2> DEFINE n == proc'[w]
  <2>5. CASE r.awaiting /\ proc'[w] = until
    <3> HIDE DEF m
    <3>1. until.mem = m /\ until.pc = "until" /\ until.stack = q.stack BY <1>1 DEF Call
    <3> HIDE DEF until
    <3>2. n.mem = m /\ n.pc = "until" /\ n.stack = q.stack BY <2>5, <3>1
    <3> HIDE DEF n
    <3>3. Begins(q, n) BY <1>5, <1>6, <2>1, <2>2, <2>5, <3>2 DEF Begins, m, cp
    <3> QED BY <3>3 DEF Tracks, n
  <2>6. CASE ~r.awaiting /\ proc'[w] = down
    <3>1. start \in Nat \ {0}
      <4>1. body \in Seq(Step) BY <1>3, <1>5, StepType, HereIs
      <4> QED BY <4>1, ResumeIndexType
    <3>2. Inside(f, it, body) BY <1>5, <2>1 DEF Inside
    <3> HIDE DEF start, body
    <3>3. /\ g \in Frame /\ Framed(g) /\ g.base = Append(x, it) /\ Append(x, it) \in Path
          /\ g.steps = body /\ g.start = start /\ g.i = start
      <4> HIDE DEF f
      <4> QED BY <1>3, <3>1, <3>2, InsideIs DEF x
    <3>4. Len(g.base) + 1 = d + 1 BY <1>3, <3>3 DEF Path
    <3>5. g.start = ResumeIndex(g.steps, cp, Len(g.base) + 1) BY <3>3, <3>4 DEF start
    <3> DEFINE p == [q EXCEPT !.mem = m]
    <3>6. p \in Call /\ p.mem = m /\ p.stack = q.stack BY <1>1, <2>4, MemType, WithMemIs
    <3>7. down = Push(p, g) OBVIOUS
    <3> HIDE DEF p, g, m, down, start
    <3>8. down.pc = "steps" /\ down.mem = m /\ down.stack = <<g>> \o q.stack
      BY <3>6, <3>7, PushIs
    <3>9. n.mem = m /\ n.pc = "steps" /\ n.stack = <<g>> \o q.stack BY <2>6, <3>8
    <3>10. Under(x, cp) => Resumes(g, cp)
      <4>1. ASSUME Under(x, cp) PROVE Resumes(g, cp)
        <5>1. ~(cp = x /\ it = r.iteration)
          <6>1. ~Under(x, x) BY <1>3, PathOrder
          <6> QED BY <4>1, <6>1
        <5>2. it = cp[Len(x) + 1] BY <2>2, <5>1
        <5>3. Leads(Append(x, it), cp) BY <1>3, <4>1, <5>2, NextLeads
        <5> QED BY <3>3, <3>5, <5>3 DEF Resumes
      <4> QED BY <4>1
    <3> HIDE DEF n
    <3>11. \E h : /\ h.base = Append(x, it) /\ n.stack = <<h>> \o q.stack
                  /\ h \in Frame /\ Framed(h) /\ h.i = h.start
                  /\ Under(x, cp) => Resumes(h, cp)
      BY <3>3, <3>9, <3>10
    <3>12. Begins(q, n)
      BY <1>5, <1>6, <2>1, <2>2, <2>6, <3>9, <3>11 DEF Begins, m, cp
    <3> QED BY <3>12 DEF Tracks, n
  <2> QED BY <2>1, <2>5, <2>6
<1>8. CASE UntilTimeout(w)
  <2>1. proc'[w] = Fail(q, "timeout", StepPath(q)) BY <1>1, <1>8 DEF UntilTimeout, Local, Set
  <2> QED BY <1>1, <1>3, <1>4, <2>1, PassesFail DEF SameTrack
<1>9. ASSUME NEW o \in Outcome \cup {"more"}, Until(w, o) PROVE Tracks(q, proc'[w])
  <2> DEFINE y == Append(x, r.iteration)
             m == IF def.compact THEN Compact(q.mem, y) ELSE q.mem
             fin == [r EXCEPT !.awaiting = FALSE, !.startedAt = NoTime]
             next == [r EXCEPT !.awaiting = FALSE, !.iteration = @ + 1]
             a == SetRepeat(m, fin)
             b == [a EXCEPT !.currentPath = x]
             k == Complete(b, x, FALSE)
             c == SetRepeat(m, next)
             ahead == Append(x, next.iteration)
             on == [c EXCEPT !.currentPath = ahead]
             done == PersistThen([Advance(q) EXCEPT !.pc = "steps"], k)
             failed == Fail([q EXCEPT !.mem = m], "step", x)
  <2>1. /\ At(q, "until")
        /\ \/ proc'[w] = done
           \/ proc'[w] = failed
           \/ proc'[w] = Persist(q, on, "return")
           \/ proc'[w] = Persist(q, q.mem, "return")
           \/ proc'[w] = Fail(q, KindOf(o), x)
    <3>1. At(q, "until") BY <1>9 DEF Until
    <3> QED BY <3>1, <1>1, <1>3, <1>9 DEF Until, Local, Set, def, r
  <2>2. m = Retained(q.mem, x) BY <1>5, <1>6 DEF Retained
  <2>3. m \in RunState /\ m.status = "running"
    <3>1. m = q.mem \/ m = Compact(q.mem, y) OBVIOUS
    <3> HIDE DEF m
    <3> QED BY <1>3, <1>6, <3>1, CompactBelow DEF J
  <2> HIDE DEF m
  <2>4. fin \in RepeatState /\ next \in RepeatState /\ next.iteration = r.iteration + 1
    <3>1. r.iteration + 1 \in Nat BY <1>6
    <3>2. fin \in RepeatState BY <1>6 DEF RepeatState, Time
    <3>3. next \in RepeatState BY <1>6, <3>1 DEF RepeatState
    <3>4. next.iteration = r.iteration + 1 BY <1>6 DEF RepeatState
    <3> QED BY <3>2, <3>3, <3>4
  <2>5. ahead = Append(x, r.iteration + 1) BY <2>4
  <2> HIDE DEF fin, next, ahead
  <2>6. /\ a \in RunState /\ a.completed = m.completed /\ a.status = "running"
        /\ c \in RunState /\ c.completed = m.completed /\ c.status = "running"
    <3>1. a \in RunState /\ c \in RunState BY <2>3, <2>4, SetRepeatType
    <3> QED BY <3>1, <2>3 DEF SetRepeat, RunState
  <2> HIDE DEF a, c
  <2>7. /\ b \in RunState /\ b.completed = m.completed /\ b.status = "running"
        /\ b.repeats = a.repeats /\ b.currentPath = x
        /\ on.completed = m.completed /\ on.status = "running"
        /\ on.repeats = c.repeats /\ on.currentPath = ahead
    BY <1>3, <2>6 DEF RunState
  <2> HIDE DEF b, on
  <2>8. /\ k.repeats = a.repeats /\ k.currentPath = x /\ k.status = "running"
        /\ CompletedPaths(k) = CompletedPaths(m) \cup {x}
    <3>1. CompletedPaths(k) = CompletedPaths(b) \cup {x} BY <1>3, <2>7, CompletePaths
    <3>2. CompletedPaths(b) = CompletedPaths(m) BY <2>7 DEF CompletedPaths
    <3> QED BY <2>7, <3>1, <3>2 DEF Complete, RunState
  <2> HIDE DEF k
  <2>9. Tracks(q, done)
    <3> DEFINE p == [Advance(q) EXCEPT !.pc = "steps"]
               n == PersistThen(p, k)
    <3>1. n.mem = k /\ Heading(n) = "steps" /\ n.stack = [q.stack EXCEPT ![1].i = @ + 1]
      BY <1>1, <1>3, NextIs
    <3>2. n.pc = "snapshot"
      <4>1. p \in Call BY <1>1, <1>3, AdvanceType, GotoType DEF Label
      <4> HIDE DEF p
      <4> QED BY <4>1, PersistThenIs
    <3> HIDE DEF n
    <3>3. UntilDone(q, n)
      BY <1>5, <1>6, <2>1, <2>2, <2>8, <3>1, <3>2 DEF UntilDone, Onward, a, fin
    <3> QED BY <3>3 DEF Tracks, n
  <2>10. Tracks(q, failed)
    <3>1. [q EXCEPT !.mem = m] \in Call /\ [q EXCEPT !.mem = m].mem = m
      BY <1>1, <2>3, MemType, WithMemIs
    <3> DEFINE p == [q EXCEPT !.mem = m]
    <3> HIDE DEF p
    <3>2. p \in Call /\ p.mem = m BY <3>1 DEF p
    <3>3. failed = Fail(p, "step", x) BY DEF p
    <3>4. failed.pc = "raise" /\ failed.mem = m /\ failed.err.kind = "step"
      BY <3>2, <3>3 DEF Fail, Call
    <3> HIDE DEF failed
    <3>5. UntilFails(q, failed) BY <1>5, <2>1, <2>2, <3>4 DEF UntilFails
    <3> QED BY <3>5 DEF Tracks
  <2>11. Tracks(q, Persist(q, on, "return"))
    <3> DEFINE n == Persist(q, on, "return")
    <3>1. n.mem = on /\ n.pc = "snapshot" /\ n.next = "return" BY <1>1, PersistIs
    <3> HIDE DEF n
    <3>2. Heading(n) = "return" BY <3>1 DEF Heading
    <3>3. CompletedPaths(on) = CompletedPaths(m) BY <2>7 DEF CompletedPaths
    <3>4. UntilMore(q, n)
      BY <1>5, <1>6, <2>1, <2>2, <2>5, <2>7, <3>1, <3>2, <3>3 DEF UntilMore, c, next
    <3> QED BY <3>4 DEF Tracks, n
  <2>12. Tracks(q, Persist(q, q.mem, "return")) /\ Tracks(q, Fail(q, KindOf(o), x))
    BY <1>1, <1>3, <1>4, PassesPersist, PassesFail DEF SameTrack
  <2> QED BY <2>1, <2>9, <2>10, <2>11, <2>12
<1> QED BY <1>7, <1>8, <1>9

\* The start of Run.
LEMMA StartTracks ==
  ASSUME TypeOK, NEW w \in Worker, Placed(proc[w]), Start(w)
  PROVE  Tracks(proc[w], proc'[w])
<1> DEFINE q == proc[w]
           cp == q.mem.currentPath
           start == ResumeIndex(Root, cp, 1)
           f == NewFrame(<<>>, Root, start, cp)
           m == [q.mem EXCEPT !.status = "running"]
           n == PersistThen(Push(q, f), m)
           stop == [q EXCEPT !.pc = "return"]
<1>1. q \in Call /\ q.mem \in RunState /\ proc \in [Worker -> Call] /\ q.pc = "start"
  BY MemType DEF TypeOK, Start
<1>2. q.stack = <<>> /\ ~IsTerminal(q.mem) BY <1>1 DEF Placed, Heading
<1>3. cp \in Path BY <1>1, PathsType
<1>4. Tracks(q, Persist(q, q.mem, "compensate"))
  BY <1>1, PassesPersist DEF SameTrack, Firm
<1>5. Tracks(q, stop)
  <2>1. stop.pc = "return" /\ stop.mem = q.mem BY <1>1, GotoIs
  <2> HIDE DEF stop
  <2> QED BY <2>1, PassesOff DEF Heading, Forward, SameTrack, Firm
<1>6. ASSUME q.mem.status # "compensating" PROVE Tracks(q, n)
  <2>1. GoesForward(q.mem)
    <3>1. q.mem.status \in Status BY <1>1 DEF RunState
    <3> QED BY <1>2, <1>6, <3>1 DEF GoesForward, IsTerminal, Status, Terminal
  <2>2. /\ m.status = "running" /\ m.completed = q.mem.completed
        /\ m.currentPath = cp /\ m.repeats = q.mem.repeats
    BY <1>1 DEF RunState, Status
  <2> HIDE DEF m
  <2>3. start \in Nat \ {0} BY ResumeIndexType, DefinitionAssumption
  <2> HIDE DEF start
  <2>4. /\ f \in Frame /\ Framed(f) /\ f.base = <<>> /\ f.steps = Root /\ f.start = start
        /\ f.i = start
    BY <1>3, <2>3, ScopeTop
  <2> HIDE DEF f
  <2>5. Len(f.base) = 0 /\ Leads(f.base, cp)
    <3>1. Len(f.base) = 0 /\ Len(cp) \in Nat BY <1>3, <2>4 DEF Path
    <3> QED BY <3>1 DEF Leads, Agree
  <2>6. Resumes(f, cp)
    <3>1. f.start = ResumeIndex(f.steps, cp, Len(f.base) + 1) BY <2>4, <2>5 DEF start
    <3> QED BY <2>4, <2>5, <3>1 DEF Resumes
  <2>7. Push(q, f) \in Call /\ Push(q, f).pc = "steps" /\ Push(q, f).stack = <<f>> \o q.stack
    BY <1>1, <2>4, PushType, PushIs
  <2>8. n.mem = m /\ n.pc = "snapshot" /\ n.next = "steps" /\ n.stack = <<f>> \o q.stack
    BY <2>7, PersistThenIs
  <2> HIDE DEF n
  <2>9. n.stack = <<f>> BY <1>2, <2>4, <2>8
  <2>10. Heading(n) = "steps" BY <2>8 DEF Heading
  <2>11. SetsOut(q, n)
    BY <1>1, <2>1, <2>2, <2>4, <2>6, <2>8, <2>9, <2>10 DEF SetsOut, SameTrack
  <2> QED BY <2>11 DEF Tracks
<1>7. \/ proc'[w] = stop
      \/ proc'[w] = Persist(q, q.mem, "compensate")
      \/ q.mem.status # "compensating" /\ proc'[w] = n
  BY <1>1 DEF Start, Local, Set
<1> QED BY <1>4, <1>5, <1>6, <1>7

\* A snapshot written while the innermost scope returns an error.
LEMMA PassesRaise ==
  ASSUME NEW q, q.pc # "steps", NEW p \in Call, NEW m, SameTrack(q.mem, m),
         m.currentPath = q.mem.currentPath, m.status = q.mem.status,
         GoesForward(m) => Firm(q)
  PROVE  Tracks(q, PersistThen(Unwind(p), m))
<1> DEFINE u == Unwind(p)
           n == PersistThen(u, m)
<1>1. u.pc \in {"raise", "return"} /\ u \in Call BY UnwindIs, UnwindType
<1> HIDE DEF u
<1>2. n.pc = "snapshot" /\ n.next = u.pc /\ n.mem = m BY <1>1, PersistThenIs
<1> HIDE DEF n
<1>3. Heading(n) \notin Forward BY <1>1, <1>2 DEF Heading, Forward
<1>4. Tracks(q, n) BY <1>2, <1>3, PassesOff DEF Firm
<1> QED BY <1>4 DEF n, u

\* The error path.
LEMMA RaiseTracks ==
  ASSUME TypeOK, NEW w \in Worker,
         RaiseCancelled(w) \/ Propagate(w) \/ RaiseNoCompensate(w) \/ RaiseFailure(w)
  PROVE  Tracks(proc[w], proc'[w])
<1> DEFINE q == proc[w]
<1>1. q \in Call /\ q.mem \in RunState /\ proc \in [Worker -> Call]
  BY MemType DEF TypeOK
<1>2. At(q, "raise") BY DEF RaiseCancelled, Propagate, RaiseNoCompensate, RaiseFailure
<1>3. q.pc = "raise" /\ StepPath(q) \in Path BY <1>1, <1>2, AtType DEF At
<1>4. CASE RaiseCancelled(w)
  <2> DEFINE p == [q EXCEPT !.mem.currentPath = StepPath(q),
                            !.err = [kind |-> "context", path |-> <<>>]]
  <2>1. proc'[w] = Unwind(p) /\ q.cancelled BY <1>1, <1>4 DEF RaiseCancelled, Local, Set
  <2>2. p \in Call BY <1>1, <1>3, ContextType
  <2>3. p.cancelled /\ SameTrack(q.mem, p.mem) /\ p.mem.status = q.mem.status
    BY <1>1, <2>1 DEF Call, RunState, SameTrack
  <2> HIDE DEF p
  <2> QED BY <2>1, <2>2, <2>3, PassesUnwind
<1>5. CASE Propagate(w)
  <2>1. proc'[w] = Unwind(q) BY <1>1, <1>5 DEF Propagate, Local, Set
  <2> QED BY <1>1, <1>3, <2>1, PassesUnwind DEF SameTrack, Firm
<1>6. CASE RaiseNoCompensate(w)
  <2> DEFINE m == [q.mem EXCEPT !.failedStepPath = StepPath(q)]
  <2>1. /\ proc'[w] = PersistThen(Unwind(q), m) /\ ~q.cancelled
        /\ q.err.kind = "nocompensate"
    BY <1>1, <1>6 DEF RaiseNoCompensate, Local, Set
  <2>2. /\ m.completed = q.mem.completed /\ m.currentPath = q.mem.currentPath
        /\ m.status = q.mem.status /\ m.repeats = q.mem.repeats
    BY <1>1 DEF RunState
  <2> HIDE DEF m
  <2> QED BY <1>1, <1>3, <2>1, <2>2, PassesRaise DEF SameTrack, Firm, GoesForward
<1>7. CASE RaiseFailure(w)
  <2> DEFINE m == [q.mem EXCEPT !.failedStepPath = StepPath(q),
                                !.status = "compensating",
                                !.compensationIndex = Len(q.mem.completed) - 1,
                                !.repeatTimeout = @ \/ q.err.kind = "timeout"]
  <2>1. proc'[w] = Persist(q, m, "compensate") BY <1>1, <1>7 DEF RaiseFailure, Local, Set
  <2>2. /\ m.status = "compensating" /\ m.completed = q.mem.completed
        /\ m.repeats = q.mem.repeats
    BY <1>1 DEF RunState
  <2> HIDE DEF m
  <2> QED BY <1>1, <2>1, <2>2, PassesPersist DEF SameTrack, GoesForward
<1> QED BY <1>4, <1>5, <1>6, <1>7

\* The compensation.
LEMMA CompensationTracks ==
  ASSUME TypeOK, NEW w \in Worker,
         \/ SkipCompensation(w) \/ CompensationCancelled(w) \/ CompensationDone(w)
         \/ \E o \in {"ok", "error", "retryafter", "context"} : Compensate(w, o)
  PROVE  Tracks(proc[w], proc'[w])
<1> DEFINE q == proc[w]
           down == [q.mem EXCEPT !.compensationIndex = @ - 1]
<1>1. q \in Call /\ q.mem \in RunState /\ proc \in [Worker -> Call]
  BY MemType DEF TypeOK
<1>2. q.pc = "compensate"
  BY DEF SkipCompensation, CompensationCancelled, CompensationDone, Compensate, AtCompletion
<1>3. \A m : GoesForward(m) /\ m.status = q.mem.status => Firm(q)
  BY <1>2 DEF Firm, GoesForward
<1>4. /\ down.completed = q.mem.completed /\ down.currentPath = q.mem.currentPath
      /\ down.status = q.mem.status /\ down.repeats = q.mem.repeats
  BY <1>1 DEF RunState
<1>5. CASE SkipCompensation(w)
  <2>1. proc'[w] = [q EXCEPT !.mem.compensationIndex = @ - 1]
    BY <1>1, <1>5 DEF SkipCompensation, Local, Set
  <2>2. proc'[w].pc = "compensate" /\ proc'[w].mem = down BY <2>1, <1>1, <1>2 DEF Call
  <2> HIDE DEF down
  <2>3. Heading(proc'[w]) \notin Forward BY <2>2 DEF Heading, Forward
  <2>4. Firm(proc'[w]) => Firm(q) BY <1>3, <1>4, <2>2 DEF Firm
  <2> QED BY <1>2, <1>4, <2>2, <2>3, <2>4, PassesOff DEF SameTrack
<1>6. CASE CompensationCancelled(w)
  <2> DEFINE p == [q EXCEPT !.err = [kind |-> "context", path |-> <<>>]]
  <2>1. proc'[w] = Unwind(p) /\ q.cancelled
    BY <1>1, <1>6 DEF CompensationCancelled, Local, Set
  <2>2. p \in Call /\ p.mem = q.mem /\ p.cancelled BY <1>1, <2>1, ContextType DEF Call
  <2> HIDE DEF p
  <2> QED BY <2>1, <2>2, PassesUnwind DEF SameTrack
<1>7. ASSUME NEW o \in {"ok", "error", "retryafter", "context"}, Compensate(w, o)
      PROVE  Tracks(q, proc'[w])
  <2> DEFINE p == [q EXCEPT !.err = [kind |-> "compensation", path |-> <<>>]]
             c == [q EXCEPT !.cancelled = TRUE, !.err = [kind |-> "context", path |-> <<>>]]
  <2>1. \/ proc'[w] = Persist(q, down, "compensate")
        \/ proc'[w] = Persist(q, q.mem, "return")
        \/ proc'[w] = PersistThen(Unwind(p), q.mem)
        \/ proc'[w] = Unwind(c)
    BY <1>1, <1>7 DEF Compensate, Set
  <2>2. p \in Call /\ c \in Call /\ c.cancelled /\ c.mem = q.mem BY <1>1, ContextType DEF Call
  <2> HIDE DEF p, c, down
  <2>3. Tracks(q, Persist(q, down, "compensate")) /\ Tracks(q, Persist(q, q.mem, "return"))
    BY <1>1, <1>2, <1>3, <1>4, PassesPersist DEF SameTrack
  <2>4. Tracks(q, PersistThen(Unwind(p), q.mem))
    BY <1>1, <1>2, <1>3, <2>2, PassesRaise DEF SameTrack
  <2>5. Tracks(q, Unwind(c)) BY <2>2, PassesUnwind DEF SameTrack
  <2> QED BY <2>1, <2>3, <2>4, <2>5
<1>8. CASE CompensationDone(w)
  <2> DEFINE m == [q.mem EXCEPT !.status = "failed", !.compensationIndex = -1]
             p == [q EXCEPT !.stack = <<>>]
  <2>1. proc'[w] = Persist(p, m, "return") BY <1>1, <1>8 DEF CompensationDone, Local, Set
  <2>2. p \in Call BY <1>1, NewRunType DEF Call, NoCall
  <2>3. m.status = "failed" /\ m.completed = q.mem.completed /\ m.repeats = q.mem.repeats
    BY <1>1 DEF RunState
  <2> HIDE DEF p, m
  <2> QED BY <2>1, <2>2, <2>3, PassesPersist DEF SameTrack, GoesForward
<1> QED BY <1>5, <1>6, <1>7, <1>8

-----------------------------------------------------------------------------
(* The steps of the executor.                                              *)

\* What a step does to the call of the worker w.
Moved(w) ==
  \/ proc'[w] = proc[w] \/ proc'[w] = NoCall \/ proc'[w] = Loaded
  \/ Tracks(proc[w], proc'[w])

\* What a step does to the durable state, when the caller saves nothing itself.
Saved ==
  \/ store' = store
  \/ \E w \in Worker : proc[w].pc = "snapshot" /\ store' = Written(proc[w].mem)

\* The write of a snapshot, however it ends.
LEMMA SnapshotTracks ==
  ASSUME TypeOK, NEW w \in Worker,
         SnapshotOK(w) \/ SnapshotFailed(w) \/ SnapshotAckLost(w)
  PROVE  Moved(w) /\ Saved
<1> DEFINE q == proc[w]
           m == Written(q.mem)
           n == [q EXCEPT !.pc = q.next]
           r == [q EXCEPT !.pc = q.next, !.mem = m]
<1>1. q \in Call /\ q.mem \in RunState /\ proc \in [Worker -> Call]
  BY MemType DEF TypeOK
<1>2. q.pc = "snapshot" /\ Heading(q) = q.next
  BY DEF SnapshotOK, SnapshotFailed, SnapshotAckLost, Heading
<1>3. /\ m.completed = q.mem.completed /\ m.currentPath = q.mem.currentPath
      /\ m.status = q.mem.status /\ m.repeats = q.mem.repeats
  BY <1>1 DEF Written, RunState
<1>4. n.pc = q.next /\ n.next = q.next /\ n.stack = q.stack /\ n.mem = q.mem BY <1>1 DEF Call
<1>5. r.pc = q.next /\ r.next = q.next /\ r.stack = q.stack /\ r.mem = m BY <1>1 DEF Call
<1>6. \/ proc'[w] = n /\ store' = store
      \/ proc'[w] = r /\ store' = m
      \/ proc'[w] = NoCall /\ (store' = store \/ store' = m)
  BY <1>1 DEF SnapshotOK, SnapshotFailed, SnapshotAckLost, Local, Set
<1> HIDE DEF n, r, m
<1>7. ASSUME NEW p, p.pc = q.next, p.next = q.next, p.stack = q.stack,
             p.mem = q.mem \/ p.mem = m
      PROVE  Tracks(q, p)
  <2>1. Heading(p) = Heading(q) BY <1>2, <1>7 DEF Heading
  <2>2. Firm(p) => Firm(q) BY <1>2, <1>3, <1>7 DEF Firm, GoesForward
  <2> QED BY <1>2, <1>3, <1>7, <2>1, <2>2 DEF Tracks, Passes, SameTrack
<1>8. Tracks(q, n) /\ Tracks(q, r) BY <1>4, <1>5, <1>7
<1>9. Saved BY <1>2, <1>6 DEF Saved, m
<1> QED BY <1>6, <1>8, <1>9 DEF Moved

\* The beginning and the end of a call.
LEMMA EndTracks ==
  ASSUME TypeOK, ~CallerSaves, NEW w \in Worker, Load(w) \/ Return(w) \/ Crash(w) \/ Cancel(w)
  PROVE  Moved(w) /\ store' = store
<1> DEFINE q == proc[w]
           c == [q EXCEPT !.cancelled = TRUE]
<1>1. q \in Call /\ proc \in [Worker -> Call] BY DEF TypeOK
<1>2. store' = store BY DEF Load, Return, Crash, Cancel, Local
<1>3. CASE Load(w)
  BY <1>1, <1>2, <1>3 DEF Load, Set, Moved, Loaded
<1>4. CASE Return(w) \/ Crash(w)
  BY <1>1, <1>2, <1>4 DEF Return, Crash, Local, Set, Moved
<1>5. CASE Cancel(w)
  <2>1. proc'[w] = c BY <1>1, <1>5 DEF Cancel, Local, Set
  <2>2. /\ c.pc = q.pc /\ c.next = q.next /\ c.mem = q.mem /\ c.stack = q.stack
        /\ c.cancelled = TRUE /\ c.err = q.err
    BY <1>1 DEF Call
  <2> HIDE DEF c
  <2>3. Heading(c) = Heading(q) BY <2>2 DEF Heading
  <2>4. Firm(c) => Firm(q) BY <2>2 DEF Firm
  <2>5. Firm(c) /\ c.pc \notin Forward => q.pc # "steps" BY <2>2 DEF Forward
  <2>6. Passes(q, c) BY <2>2, <2>3, <2>4, <2>5 DEF Passes, SameTrack
  <2> QED BY <1>2, <2>1, <2>6 DEF Moved, Tracks
<1> QED BY <1>3, <1>4, <1>5

\* Every step of the executor is a move of one call, and writes no state but one that a
\* call was about to write.
LEMMA StepMoves ==
  ASSUME TypeOK, ~CallerSaves, Position, [Next]_vars
  PROVE  Saved /\ \A w \in Worker : Moved(w)
<1>1. ASSUME NEW w \in Worker, Moved(w), Saved, \E n : Set(w, n)
      PROVE  Saved /\ \A v \in Worker : Moved(v)
  <2>1. \A v \in Worker \ {w} : proc'[v] = proc[v] BY <1>1 DEF Set, TypeOK
  <2> QED BY <1>1, <2>1 DEF Moved
<1>2. ASSUME NEW w \in Worker, Tracks(proc[w], proc'[w]), store' = store, \E n : Set(w, n)
      PROVE  Saved /\ \A v \in Worker : Moved(v)
  BY <1>1, <1>2 DEF Moved, Saved
<1>3. \A w \in Worker : Placed(proc[w]) BY DEF Position
<1>4. ASSUME NEW w \in Worker, WorkerStep(w) PROVE Saved /\ \A v \in Worker : Moved(v)
  <2>1. CASE Start(w)
    BY <1>2, <1>3, <2>1, StartTracks DEF Start, Local
  <2>2. CASE SnapshotOK(w) \/ SnapshotFailed(w)
    <3>1. Moved(w) /\ Saved BY <2>2, SnapshotTracks
    <3>2. \E n : Set(w, n) BY <2>2 DEF SnapshotOK, SnapshotFailed, Local
    <3> QED BY <1>1, <3>1, <3>2
  <2>3. CASE SkipCompleted(w) \/ StopCancelled(w) \/ EnterStep(w)
    BY <1>2, <1>3, <2>3, StepsTrack DEF SkipCompleted, StopCancelled, EnterStep, Local
  <2>4. CASE ScopeDone(w)
    BY <1>2, <1>3, <2>4, ScopeTracks DEF ScopeDone, Local
  <2>5. CASE \/ EnsureRepeatStarted(w) \/ CheckRepeatTimeout(w)
             \/ \E o \in Outcome : OnEnter(w, o)
    BY <1>2, <1>3, <2>5, PrologueTracks
       DEF EnsureRepeatStarted, CheckRepeatTimeout, OnEnter, Local
  <2>6. CASE (\E o \in Outcome : Do(w, o)) \/ Sleep(w)
    BY <1>2, <1>3, <2>6, ActionTracks DEF Do, Sleep, Local
  <2>7. CASE PollTimeout(w) \/ \E o \in Outcome \cup {"pending"} : Check(w, o)
    BY <1>2, <1>3, <2>7, PollTracks DEF PollTimeout, Check, Local
  <2>8. CASE \/ ResumeBranch(w) \/ \E key \in Key : Decide(w, key)
             \/ \E o \in Outcome : DecideFailed(w, o)
    BY <1>2, <1>3, <2>8, BranchTracks DEF ResumeBranch, Decide, DecideFailed, Local
  <2>9. CASE \/ BeginIteration(w) \/ UntilTimeout(w)
             \/ \E o \in Outcome \cup {"more"} : Until(w, o)
    BY <1>2, <1>3, <2>9, RepeatTracks DEF BeginIteration, UntilTimeout, Until, Local
  <2>10. CASE RaiseCancelled(w) \/ Propagate(w) \/ RaiseNoCompensate(w) \/ RaiseFailure(w)
    BY <1>2, <2>10, RaiseTracks
       DEF RaiseCancelled, Propagate, RaiseNoCompensate, RaiseFailure, Local
  <2>11. CASE \/ SkipCompensation(w) \/ CompensationCancelled(w) \/ CompensationDone(w)
              \/ \E o \in {"ok", "error", "retryafter", "context"} : Compensate(w, o)
    BY <1>2, <2>11, CompensationTracks
       DEF SkipCompensation, CompensationCancelled, CompensationDone, Compensate, Local
  <2>12. CASE Return(w)
    <3>1. Moved(w) /\ Saved BY <2>12, EndTracks DEF Saved
    <3>2. \E n : Set(w, n) BY <2>12 DEF Return
    <3> QED BY <1>1, <3>1, <3>2
  <2> QED BY <1>4, <2>1, <2>2, <2>3, <2>4, <2>5, <2>6, <2>7, <2>8, <2>9, <2>10, <2>11, <2>12
          DEF WorkerStep
<1>5. ASSUME NEW w \in Worker, Load(w) \/ SnapshotAckLost(w) \/ Crash(w) \/ Cancel(w)
      PROVE  Saved /\ \A v \in Worker : Moved(v)
  <2>1. Moved(w) /\ Saved BY <1>5, SnapshotTracks, EndTracks DEF Saved
  <2>2. \E n : Set(w, n) BY <1>5 DEF Load, SnapshotAckLost, Crash, Cancel, Local
  <2> QED BY <1>1, <2>1, <2>2
<1>6. CASE Tick \/ UNCHANGED vars BY <1>6 DEF Tick, vars, Moved, Saved
<1> QED BY <1>4, <1>5, <1>6 DEF Next, Terminated

-----------------------------------------------------------------------------
(* The states of repeats, and the history that compaction leaves.          *)

\* The state r is that of the step at position d of the path q.
Marks(r, q, d) == Len(r.path) = d /\ Agree(r.path, q, d)

\* What the journal and the states of repeats speak of.
Known(J, R) == J \cup {r.path : r \in R}

\* Every completed path is that of a step; every repeat has at most one state, and has one
\* as soon as anything in or below it is known; where the history is compact, only what the
\* last iteration does is known, and nothing once the repeat is completed.
Kempt(J, R) ==
  /\ \A a \in J : Odd(Len(a))
  /\ \A r \in R : Odd(Len(r.path)) /\ Def[Last(r.path)].kind = "repeat"
  /\ \A r, s \in R : r.path = s.path => r = s
  /\ \A a \in Known(J, R) : \A d \in DOMAIN a :
       Odd(d) /\ Def[a[d]].kind = "repeat" => \E r \in R : Marks(r, a, d)
  /\ \A r \in R : Def[Last(r.path)].compact =>
       \A a \in Known(J, R) : Under(r.path, a) =>
           a[Len(r.path) + 1] = r.iteration /\ r.path \notin J

\* The repeats that the path q passes through are at the iterations that it names.
Tied(R, q) ==
  \A d \in DOMAIN q : d < Len(q) /\ Odd(d) /\ Def[q[d]].kind = "repeat" =>
    \E r \in R : Marks(r, q, d) /\ r.iteration = q[d + 1]

\* A path whose end is tied is tied.
LEMMA TiedBack ==
  ASSUME NEW R, NEW a \in Path, NEW b \in Path, Leads(a, b), Tied(R, b)
  PROVE  Tied(R, a)
<1> SUFFICES ASSUME NEW d \in DOMAIN a, d < Len(a), Odd(d), Def[a[d]].kind = "repeat"
             PROVE  \E r \in R : Marks(r, a, d) /\ r.iteration = a[d + 1]
  BY DEF Tied
<1>1. /\ Len(a) \in Nat /\ Len(b) \in Nat /\ DOMAIN a = 1..Len(a) /\ DOMAIN b = 1..Len(b)
      /\ Len(a) <= Len(b)
  BY DEF Path, Leads
<1>2. d \in DOMAIN b /\ d < Len(b) /\ d \in 1..Len(a) /\ d + 1 \in 1..Len(a) BY <1>1
<1>3. \A e \in 1..Len(a) : a[e] = b[e] BY DEF Leads, Agree
<1>4. a[d] = b[d] /\ a[d + 1] = b[d + 1] BY <1>2, <1>3
<1>5. PICK r \in R : Marks(r, b, d) /\ r.iteration = b[d + 1] BY <1>2, <1>4 DEF Tied
<1>6. \A e \in 1..d : e \in 1..Len(a) BY <1>1, <1>2
<1>7. Marks(r, a, d) BY <1>3, <1>5, <1>6 DEF Marks, Agree
<1> QED BY <1>4, <1>5, <1>7

\* The step of a scope whose path is tied.
LEMMA TiedHere ==
  ASSUME NEW R, NEW f \in Frame, Framed(f), f.i \in DOMAIN f.steps, Tied(R, f.base)
  PROVE  Tied(R, Here(f))
<1> DEFINE x == Here(f)
           l == Len(f.base)
<1>1. /\ x \in Path /\ Len(x) = l + 1 /\ Odd(Len(x)) /\ DOMAIN x = 1..(l + 1) /\ l \in Nat
      /\ DOMAIN f.base = 1..l /\ \A e \in 1..l : x[e] = f.base[e]
  BY StepAtIs DEF Here
<1>2. ~Odd(l) BY <1>1, Parity
<1> HIDE DEF x, l
<1> SUFFICES ASSUME NEW d \in DOMAIN x, d < Len(x), Odd(d), Def[x[d]].kind = "repeat"
             PROVE  \E r \in R : Marks(r, x, d) /\ r.iteration = x[d + 1]
  BY DEF Tied, x
<1>3. d # l BY <1>2
<1>4. d \in 1..l /\ d < l /\ d + 1 \in 1..l BY <1>1, <1>3
<1>5. PICK r \in R : Marks(r, f.base, d) /\ r.iteration = f.base[d + 1]
  BY <1>1, <1>4 DEF Tied, l
<1>6. \A e \in 1..d : e \in 1..l BY <1>1, <1>4
<1>7. Marks(r, x, d) BY <1>1, <1>5, <1>6 DEF Marks, Agree
<1> QED BY <1>1, <1>4, <1>5, <1>7

\* A scope below the step at x.
LEMMA TiedDown ==
  ASSUME NEW R, NEW x \in Path, x # <<>>, NEW c, Append(x, c) \in Path, Tied(R, x),
         Def[Last(x)].kind = "repeat" => \E r \in R : r.path = x /\ r.iteration = c
  PROVE  Tied(R, Append(x, c))
<1> DEFINE y == Append(x, c)
           l == Len(x)
<1>1. /\ l \in Nat /\ l >= 1 /\ DOMAIN x = 1..l /\ Last(x) = x[l]
      /\ Len(y) = l + 1 /\ DOMAIN y = 1..(l + 1) /\ y[l + 1] = c
      /\ \A e \in 1..l : y[e] = x[e]
  BY DEF Path, Last
<1> HIDE DEF y, l
<1> SUFFICES ASSUME NEW d \in DOMAIN y, d < Len(y), Odd(d), Def[y[d]].kind = "repeat"
             PROVE  \E r \in R : Marks(r, y, d) /\ r.iteration = y[d + 1]
  BY DEF Tied, y
<1>2. d \in 1..l /\ y[d] = x[d] BY <1>1
<1>3. CASE d = l
  <2>1. PICK r \in R : r.path = x /\ r.iteration = c BY <1>1, <1>2, <1>3
  <2>2. Marks(r, y, d) BY <1>1, <1>3, <2>1 DEF Marks, Agree, l
  <2> QED BY <1>1, <1>3, <2>1, <2>2
<1>4. CASE d # l
  <2>1. d < Len(x) /\ d \in DOMAIN x /\ d + 1 \in 1..l BY <1>1, <1>2, <1>4 DEF l
  <2>2. PICK r \in R : Marks(r, x, d) /\ r.iteration = x[d + 1] BY <1>2, <2>1 DEF Tied
  <2>3. \A e \in 1..d : e \in 1..l BY <1>1, <1>2
  <2>4. Marks(r, y, d) BY <1>1, <2>2, <2>3 DEF Marks, Agree
  <2> QED BY <1>1, <2>1, <2>2, <2>4
<1> QED BY <1>3, <1>4

\* The state at a position of a path is that of the step there.
LEMMA MarksIs ==
  ASSUME NEW q \in Path, NEW x \in Path, Leads(x, q), NEW r \in RepeatState, Marks(r, q, Len(x))
  PROVE  r.path = x
<1>1. r.path \in Path BY DEF RepeatState
<1>2. Leads(r.path, x) /\ Len(x) <= Len(r.path)
  <2>1. Len(x) \in Nat /\ Len(r.path) = Len(x) BY DEF Path, Marks
  <2>2. \A e \in 1..Len(x) : r.path[e] = q[e] /\ x[e] = q[e] BY DEF Leads, Marks, Agree
  <2> QED BY <2>1, <2>2 DEF Leads, Agree
<1> QED BY <1>1, <1>2, PathOrder

\* The state of the repeat at x, through which a tied path passes.
LEMMA TiedAt ==
  ASSUME NEW R \in SUBSET RepeatState, NEW q \in Path, Tied(R, q),
         NEW x \in Path, x # <<>>, Odd(Len(x)), Def[Last(x)].kind = "repeat", Under(x, q)
  PROVE  \E r \in R : r.path = x /\ r.iteration = q[Len(x) + 1]
<1> DEFINE d == Len(x)
<1>1. /\ d \in Nat /\ d >= 1 /\ Len(q) \in Nat /\ DOMAIN q = 1..Len(q) /\ d < Len(q)
      /\ Last(x) = x[d]
  BY DEF Path, Last, Under
<1>2. d \in DOMAIN q /\ d \in 1..d BY <1>1
<1>3. q[d] = x[d] BY <1>2 DEF Under, Agree
<1>4. PICK r \in R : Marks(r, q, d) /\ r.iteration = q[d + 1] BY <1>1, <1>2, <1>3 DEF Tied
<1>5. Leads(x, q) BY PathOrder
<1>6. r.path = x BY <1>4, <1>5, MarksIs
<1> QED BY <1>4, <1>6

\* The state of a repeat below which something is known.
LEMMA KemptAt ==
  ASSUME NEW J, NEW R \in SUBSET RepeatState, Kempt(J, R), NEW a \in Path, a \in Known(J, R),
         NEW x \in Path, x # <<>>, Odd(Len(x)), Def[Last(x)].kind = "repeat", Leads(x, a)
  PROVE  \E r \in R : r.path = x
<1> DEFINE d == Len(x)
<1>1. /\ d \in Nat /\ d >= 1 /\ Len(a) \in Nat /\ DOMAIN a = 1..Len(a) /\ d <= Len(a)
      /\ Last(x) = x[d]
  BY DEF Path, Last, Leads
<1>2. d \in DOMAIN a /\ d \in 1..d BY <1>1
<1>3. a[d] = x[d] BY <1>2 DEF Leads, Agree
<1>4. PICK r \in R : Marks(r, a, d) BY <1>1, <1>2, <1>3 DEF Kempt
<1>5. r.path = x BY <1>4, MarksIs
<1> QED BY <1>5

\* The states R with s in place of the state of the same repeat.
Replaced(R, s) == {r \in R : r.path # s.path} \cup {s}

\* Where the history is compact, s changes no iteration below which something is known.
Spares(J, R, s) ==
  Def[Last(s.path)].compact => \A r \in R : r.path = s.path =>
    r.iteration = s.iteration \/ \A a \in Known(J, R) : ~Under(s.path, a)

\* Nor does it change the iteration that the path q names.
Agrees(R, s, q) ==
  Under(s.path, q) => \A r \in R : r.path = s.path => r.iteration = s.iteration

\* The state of a repeat is set: the iteration of one that has a state is kept, unless it
\* keeps a history or nothing is known below it.
LEMMA SetKempt ==
  ASSUME NEW J \in SUBSET Path, NEW R \in SUBSET RepeatState, Kempt(J, R), NEW s \in RepeatState,
         NEW x \in Path, x = s.path, Odd(Len(x)), x # <<>>, Def[Last(x)].kind = "repeat",
         Tied(R, x), Route(J, x),
         Spares(J, R, s)
  PROVE  Kempt(J, Replaced(R, s))
<1> DEFINE S == Replaced(R, s)
<1>0. S = {r \in R : r.path # x} \cup {s} BY DEF Replaced
<1> HIDE DEF S
<1>1. \A r \in R : r.path \in Path BY DEF RepeatState
<1>2. \A r \in R : \E t \in S : t.path = r.path BY <1>0
<1>3. Known(J, S) = Known(J, R) \cup {x} BY <1>0 DEF Known
<1>4. Known(J, R) \in SUBSET Path BY <1>1 DEF Known
<1>5. Len(x) \in Nat /\ DOMAIN x = 1..Len(x) /\ Last(x) = x[Len(x)] BY DEF Path, Last
<1>6. \A r \in S : Odd(Len(r.path)) /\ Def[Last(r.path)].kind = "repeat"
  BY <1>0 DEF Kempt
<1>7. \A r, t \in S : r.path = t.path => r = t BY <1>0 DEF Kempt
<1>8. ASSUME NEW a \in Known(J, S), NEW d \in DOMAIN a, Odd(d), Def[a[d]].kind = "repeat"
      PROVE  \E r \in S : Marks(r, a, d)
  <2>1. CASE a \in Known(J, R)
    <3>1. PICK r \in R : Marks(r, a, d) BY <1>8, <2>1 DEF Kempt
    <3> QED BY <1>2, <3>1 DEF Marks
  <2>2. CASE a = x
    <3>1. CASE d = Len(x)
      <4>1. Marks(s, a, d) BY <2>2, <3>1 DEF Marks, Agree
      <4> QED BY <1>0, <4>1
    <3>2. CASE d # Len(x)
      <4>1. d < Len(x) BY <1>5, <2>2, <3>2
      <4>2. PICK r \in R : Marks(r, a, d) BY <1>8, <2>2, <4>1 DEF Tied
      <4> QED BY <1>2, <4>2 DEF Marks
    <3> QED BY <3>1, <3>2
  <2> QED BY <1>3, <2>1, <2>2
<1>9. ASSUME NEW r \in S, Def[Last(r.path)].compact, NEW a \in Known(J, S), Under(r.path, a)
      PROVE  a[Len(r.path) + 1] = r.iteration /\ r.path \notin J
  <2>1. CASE r = s
    <3>0. r.path = x BY <2>1
    <3>1. ~Under(x, x) BY PathOrder
    <3>2. a \in Known(J, R) /\ a \in Path BY <1>3, <1>4, <1>9, <3>0, <3>1
    <3>3. Leads(x, a) BY <1>9, <3>0, <3>2, PathOrder
    <3>4. PICK t \in R : t.path = x BY <3>2, <3>3, KemptAt
    <3>5. Def[Last(t.path)].compact /\ Under(t.path, a) BY <1>9, <3>0, <3>4
    <3>6. a[Len(x) + 1] = t.iteration /\ x \notin J BY <3>2, <3>4, <3>5 DEF Kempt
    <3>7. t.iteration = s.iteration BY <1>9, <3>0, <3>2, <3>4 DEF Spares
    <3> QED BY <2>1, <3>6, <3>7
  <2>2. CASE r # s
    <3>1. r \in R /\ r.path \in Path BY <1>0, <1>1, <2>2
    <3>2. CASE a \in Known(J, R) BY <1>9, <3>1, <3>2 DEF Kempt
    <3>3. CASE a = x
      <4>1. Odd(Len(r.path)) /\ Def[Last(r.path)].kind = "repeat" BY <3>1 DEF Kempt
      <4>2. r.path # <<>>
        <5>1. Len(<<>>) = 0 OBVIOUS
        <5> QED BY <4>1, <5>1, Parity
      <4>3. PICK t \in R : t.path = r.path /\ t.iteration = x[Len(r.path) + 1]
        BY <1>9, <3>1, <3>3, <4>1, <4>2, TiedAt
      <4>4. t = r BY <3>1, <4>3 DEF Kempt
      <4>5. r.path \notin J BY <1>9, <3>1, <3>3, <4>1, <4>2, Along
      <4> QED BY <3>3, <4>3, <4>4, <4>5
    <3> QED BY <1>3, <3>2, <3>3
  <2> QED BY <2>1, <2>2
<1>10. Kempt(J, S)
  <2>1. \A a \in J : Odd(Len(a)) BY DEF Kempt
  <2> HIDE DEF Known
  <2> QED BY <1>6, <1>7, <1>8, <1>9, <2>1 DEF Kempt
<1> QED BY <1>10 DEF S

\* A path is tied to the states that are left alone, and to the one that is set.
LEMMA SetTied ==
  ASSUME NEW R \in SUBSET RepeatState, NEW s \in RepeatState, NEW q \in Path,
         Tied(R, q), Agrees(R, s, q)
  PROVE  Tied(Replaced(R, s), q)
<1> DEFINE S == Replaced(R, s)
           x == s.path
<1>0. S = {r \in R : r.path # x} \cup {s} BY DEF Replaced
<1> HIDE DEF S
<1> SUFFICES ASSUME NEW d \in DOMAIN q, d < Len(q), Odd(d), Def[q[d]].kind = "repeat"
             PROVE  \E r \in S : Marks(r, q, d) /\ r.iteration = q[d + 1]
  BY DEF Tied, S
<1>1. PICK r \in R : Marks(r, q, d) /\ r.iteration = q[d + 1] BY DEF Tied
<1>2. CASE r.path = x
  <2>1. Under(x, q)
    <3>1. Len(x) < Len(q) /\ Len(x) = d BY <1>1, <1>2 DEF Marks
    <3> QED BY <1>1, <1>2, <3>1 DEF Marks, Under
  <2>2. s.iteration = q[d + 1] BY <1>1, <1>2, <2>1 DEF Agrees
  <2>3. Marks(s, q, d) BY <1>1, <1>2 DEF Marks
  <2> QED BY <1>0, <2>2, <2>3
<1>3. CASE r.path # x BY <1>0, <1>1, <1>3
<1> QED BY <1>2, <1>3

\* A step is completed.
LEMMA RecordKempt ==
  ASSUME NEW J \in SUBSET Path, NEW R \in SUBSET RepeatState, Kempt(J, R),
         NEW x \in Path, Odd(Len(x)), x # <<>>, Tied(R, x), Route(J, x),
         Def[Last(x)].kind = "repeat" =>
           /\ \E r \in R : r.path = x
           /\ Def[Last(x)].compact => \A a \in Known(J, R) : ~Under(x, a)
  PROVE  Kempt(J \cup {x}, R)
<1>1. \A r \in R : r.path \in Path BY DEF RepeatState
<1>3. Known(J \cup {x}, R) = Known(J, R) \cup {x} BY DEF Known
<1>5. Len(x) \in Nat /\ DOMAIN x = 1..Len(x) /\ Last(x) = x[Len(x)] BY DEF Path, Last
<1>8. ASSUME NEW a \in Known(J \cup {x}, R), NEW d \in DOMAIN a, Odd(d), Def[a[d]].kind = "repeat"
      PROVE  \E r \in R : Marks(r, a, d)
  <2>1. CASE a \in Known(J, R) BY <1>8, <2>1 DEF Kempt
  <2>2. CASE a = x
    <3>1. CASE d = Len(x)
      <4>1. PICK r \in R : r.path = x BY <1>5, <1>8, <2>2, <3>1
      <4>2. Marks(r, a, d) BY <2>2, <3>1, <4>1 DEF Marks, Agree
      <4> QED BY <4>2
    <3>2. CASE d # Len(x)
      <4>1. d < Len(x) BY <1>5, <2>2, <3>2
      <4> QED BY <1>8, <2>2, <4>1 DEF Tied
    <3> QED BY <3>1, <3>2
  <2> QED BY <1>3, <2>1, <2>2
<1>9. ASSUME NEW r \in R, Def[Last(r.path)].compact, NEW a \in Known(J \cup {x}, R),
             Under(r.path, a)
      PROVE  a[Len(r.path) + 1] = r.iteration /\ r.path \notin J \cup {x}
  <2>1. r.path \in Path /\ Odd(Len(r.path)) /\ Def[Last(r.path)].kind = "repeat" BY <1>1 DEF Kempt
  <2>2. r.path # <<>>
    <3>1. Len(<<>>) = 0 OBVIOUS
    <3> QED BY <2>1, <3>1, Parity
  <2>3. CASE a \in Known(J, R)
    <3>1. r.path # x BY <1>9, <2>1, <2>3
    <3> QED BY <1>9, <2>3, <3>1 DEF Kempt
  <2>4. CASE a = x
    <3>1. r.path # x BY <1>9, <2>4, PathOrder
    <3>2. PICK t \in R : t.path = r.path /\ t.iteration = x[Len(r.path) + 1]
      BY <1>9, <2>1, <2>2, <2>4, TiedAt
    <3>3. t = r BY <3>2 DEF Kempt
    <3>4. r.path \notin J BY <1>9, <2>1, <2>2, <2>4, Along
    <3> QED BY <2>4, <3>1, <3>2, <3>3, <3>4
  <2> QED BY <1>3, <2>3, <2>4
<1> HIDE DEF Known
<1>10. \A r \in R : Odd(Len(r.path)) /\ Def[Last(r.path)].kind = "repeat" BY DEF Kempt
<1>11. \A r, t \in R : r.path = t.path => r = t BY DEF Kempt
<1>12. \A a \in J \cup {x} : Odd(Len(a)) BY DEF Kempt
<1> QED BY <1>8, <1>9, <1>10, <1>11, <1>12 DEF Kempt

\* What is at or below y is forgotten.
LEMMA LessKempt ==
  ASSUME NEW J \in SUBSET Path, NEW R \in SUBSET RepeatState, Kempt(J, R), NEW y \in Path,
         NEW K \in SUBSET J, \A a \in K : ~Leads(y, a),
         NEW S, S = {r \in R : ~Leads(y, r.path)}
  PROVE  /\ Kempt(K, S)
         /\ \A q \in Path : Tied(R, q) /\ ~Leads(y, q) => Tied(S, q)
<1>1. \A r \in R : r.path \in Path BY DEF RepeatState
<1>2. Known(K, S) \in SUBSET Known(J, R) /\ \A a \in Known(K, S) : ~Leads(y, a) /\ a \in Path
  BY <1>1 DEF Known
<1>3. ASSUME NEW q \in Path, ~Leads(y, q), NEW d \in DOMAIN q, NEW r \in R, Marks(r, q, d)
      PROVE  r \in S
  <2>1. Leads(r.path, q)
    <3>1. Len(r.path) \in Nat /\ Len(r.path) = d /\ d <= Len(q) BY <1>1, <1>3 DEF Marks, Path
    <3> QED BY <1>3, <3>1 DEF Marks, Leads
  <2>2. ~Leads(y, r.path) BY <1>1, <1>3, <2>1, PathOrder
  <2> QED BY <2>2
<1>4. ASSUME NEW a \in Known(K, S), NEW d \in DOMAIN a, Odd(d), Def[a[d]].kind = "repeat"
      PROVE  \E r \in S : Marks(r, a, d)
  <2>1. PICK r \in R : Marks(r, a, d) BY <1>2, <1>4 DEF Kempt
  <2>2. r \in S BY <1>2, <1>3, <1>4, <2>1
  <2> QED BY <2>1, <2>2
<1>5. \A r \in S : Def[Last(r.path)].compact =>
         \A a \in Known(K, S) : Under(r.path, a) =>
             a[Len(r.path) + 1] = r.iteration /\ r.path \notin K
  BY <1>2 DEF Kempt
<1>6. \A r \in S : Odd(Len(r.path)) /\ Def[Last(r.path)].kind = "repeat" BY DEF Kempt
<1>7. \A r, t \in S : r.path = t.path => r = t BY DEF Kempt
<1>8. Kempt(K, S)
  <2>1. \A a \in K : Odd(Len(a)) BY DEF Kempt
  <2> HIDE DEF Known
  <2> QED BY <1>4, <1>5, <1>6, <1>7, <2>1 DEF Kempt
<1>9. ASSUME NEW q \in Path, Tied(R, q), ~Leads(y, q) PROVE Tied(S, q)
  <2> SUFFICES ASSUME NEW d \in DOMAIN q, d < Len(q), Odd(d), Def[q[d]].kind = "repeat"
               PROVE  \E r \in S : Marks(r, q, d) /\ r.iteration = q[d + 1]
    BY DEF Tied
  <2>1. PICK r \in R : Marks(r, q, d) /\ r.iteration = q[d + 1] BY <1>9 DEF Tied
  <2>2. r \in S BY <1>3, <1>9, <2>1
  <2> QED BY <2>1, <2>2
<1> QED BY <1>8, <1>9

\* Nothing is known below a repeat with a compact history once its iteration is forgotten.
LEMMA KemptLess ==
  ASSUME NEW J \in SUBSET Path, NEW R \in SUBSET RepeatState, Kempt(J, R),
         NEW x \in Path, x # <<>>, Odd(Len(x)), Def[Last(x)].kind = "repeat",
         Def[Last(x)].compact, NEW n, NEW y \in Path, y = Append(x, n),
         \A r \in R : r.path = x => r.iteration = n,
         \A a \in Known(J, R) : ~Leads(y, a)
  PROVE  \A a \in Known(J, R) : ~Under(x, a)
<1>1. Known(J, R) \in SUBSET Path BY DEF RepeatState, Known
<1> SUFFICES ASSUME NEW a \in Known(J, R), Under(x, a) PROVE FALSE
  OBVIOUS
<1>2. a \in Path /\ Leads(x, a)
  <2>1. a \in Path BY <1>1
  <2> QED BY <2>1, PathOrder
<1>3. PICK r \in R : r.path = x BY <1>2, KemptAt
<1>4. a[Len(x) + 1] = n BY <1>3 DEF Kempt
<1>5. Leads(y, a)
  <2>1. /\ Len(x) \in Nat /\ Len(a) \in Nat /\ Len(y) = Len(x) + 1 /\ y[Len(x) + 1] = n
        /\ \A e \in 1..Len(x) : y[e] = x[e]
    BY <1>2 DEF Path
  <2>2. Len(y) <= Len(a) BY <2>1 DEF Under
  <2>3. \A e \in 1..Len(x) : x[e] = a[e] BY <1>2 DEF Leads, Agree
  <2>4. Agree(y, a, Len(y)) BY <1>4, <2>1, <2>3 DEF Agree
  <2> QED BY <2>2, <2>4 DEF Leads
<1> QED BY <1>5

\* Compaction leaves nothing at or below the path y.
LEMMA CompactForgets ==
  ASSUME NEW m \in RunState, NEW y \in Path
  PROVE  /\ \A a \in CompletedPaths(Compact(m, y)) : ~Leads(y, a)
         /\ Compact(m, y).repeats = {r \in m.repeats : ~Leads(y, r.path)}
<1> DEFINE K == {k \in DOMAIN m.completed : ~IsPrefix(y, m.completed[k].path)}
           n == Compact(m, y)
           s == m.completed
<1>1. s \in Seq(Completion) /\ Len(s) \in Nat /\ DOMAIN s = 1..Len(s) BY DEF RunState
<1>2. K \in SUBSET (1..Len(s)) BY <1>1
<1>3. n.completed = Subsequence(s, K) /\ n.repeats = {r \in m.repeats : ~IsPrefix(y, r.path)}
  BY DEF Compact, RunState
<1>4. \A k \in K : ~IsPrefix(y, s[k].path) OBVIOUS
<1>5. \A k \in DOMAIN s : s[k].path \in Path
  <2>1. \A k \in DOMAIN s : s[k] \in Completion BY <1>1
  <2> HIDE DEF s
  <2> QED BY <2>1 DEF Completion
<1>6. CompletedPaths(n) = {n.completed[k].path : k \in DOMAIN n.completed} BY DEF CompletedPaths
<1> HIDE DEF n, K, s
<1>7. DOMAIN n.completed = 1..Cardinality(K)
      /\ \A k \in 1..Cardinality(K) : n.completed[k] = s[Nth(K, k)]
  BY <1>3 DEF Subsequence
<1>8. ASSUME NEW k \in 1..Cardinality(K) PROVE ~Leads(y, n.completed[k].path)
  <2>1. Nth(K, k) \in K BY <1>1, <1>2, NthMember
  <2>2. s[Nth(K, k)].path \in Path BY <1>1, <1>2, <1>5, <2>1
  <2>3. ~IsPrefix(y, s[Nth(K, k)].path) BY <1>4, <2>1
  <2> QED BY <1>7, <2>2, <2>3, PrefixLeads
<1>9. \A a \in CompletedPaths(n) : ~Leads(y, a) BY <1>6, <1>7, <1>8
<1>10. \A r \in m.repeats : r.path \in Path BY DEF RunState, RepeatState
<1>11. \A r \in m.repeats : IsPrefix(y, r.path) <=> Leads(y, r.path) BY <1>10, PrefixLeads
<1>12. n.repeats = {r \in m.repeats : ~Leads(y, r.path)} BY <1>3, <1>11
<1> QED BY <1>9, <1>12 DEF n

\* What m knows is kept.
Tidy(m) == Kempt(CompletedPaths(m), m.repeats)

\* What the call p knows is kept, and the way to its step or its scope is tied.
TidyCall(p) ==
  /\ Tidy(p.mem)
  /\ Firm(p) => Tied(p.mem.repeats, p.mem.currentPath)
  /\ Heading(p) \in Forward => Tied(p.mem.repeats, p.stack[1].base)
  /\ Heading(p) = "repeatStart" => DefAt(p).kind = "repeat"

\* The durable state and every call are tidy.
Tidiness ==
  /\ Tidy(store) /\ (GoesForward(store) => Tied(store.repeats, store.currentPath))
  /\ \A w \in Worker : TidyCall(proc[w])

\* Whether a state is tidy depends on its journal and its repeats alone.
LEMMA TidySame ==
  ASSUME NEW m, NEW k, SameTrack(m, k), Tidy(m)
  PROVE  Tidy(k)
BY DEF SameTrack, Tidy, CompletedPaths

\* The step that a call is at.
LEMMA AtTidy ==
  ASSUME NEW q \in Call, Placed(q), TidyCall(q), NEW l \in Forward, At(q, l)
  PROVE  LET x == Place(q)
             J == CompletedPaths(q.mem)
         IN
         /\ q.mem \in RunState /\ q.mem.repeats \in SUBSET RepeatState /\ J \in SUBSET Path
         /\ q.mem.currentPath \in Path /\ q.stack[1] \in Frame /\ Framed(q.stack[1])
         /\ q.stack[1].i \in DOMAIN q.stack[1].steps /\ q.stack # <<>> /\ q.stack \in Seq(Frame)
         /\ x \in Path /\ x # <<>> /\ Odd(Len(x)) /\ Def[Last(x)] = DefAt(q) /\ Route(J, x)
         /\ Kempt(J, q.mem.repeats) /\ Tied(q.mem.repeats, x)
         /\ Tied(q.mem.repeats, q.mem.currentPath) /\ Tied(q.mem.repeats, q.stack[1].base)
         /\ Going(l, q.mem, q.stack[1]) /\ GoesForward(q.mem) /\ Heading(q) = l
<1> DEFINE f == q.stack[1]
<1>1. /\ q.mem \in RunState /\ q.stack \in Seq(Frame) /\ q.stack # <<>> /\ q.pc = l
      /\ f \in Frame /\ Framed(f) /\ f.i \in DOMAIN f.steps
      /\ Here(f) \in Path /\ CompletedPaths(q.mem) \in SUBSET Path /\ q.mem.currentPath \in Path
      /\ q.mem.status = "running" /\ Going(l, q.mem, f)
      /\ Route(CompletedPaths(q.mem), Here(f))
  BY AtPlaced
<1>2. Here(f) # <<>> /\ Odd(Len(Here(f))) /\ Last(Here(f)) = f.steps[f.i] BY <1>1, HereIs
<1>3. q.mem.repeats \in SUBSET RepeatState BY <1>1 DEF RunState
<1>4. Heading(q) = l /\ Heading(q) \in Forward /\ Firm(q) /\ GoesForward(q.mem)
  BY <1>1 DEF Heading, Forward, Firm, GoesForward
<1>5. Tied(q.mem.repeats, f.base) /\ Tied(q.mem.repeats, q.mem.currentPath)
      /\ Kempt(CompletedPaths(q.mem), q.mem.repeats)
  BY <1>4 DEF TidyCall, Tidy
<1>6. Tied(q.mem.repeats, Here(f)) BY <1>1, <1>5, TiedHere
<1> HIDE DEF f
<1> QED BY <1>1, <1>2, <1>3, <1>4, <1>5, <1>6 DEF Place, DefAt, f

\* The frames with the innermost one at its next step have the same base.
LEMMA OnwardBase ==
  ASSUME NEW st \in Seq(Frame), st # <<>>
  PROVE  Onward(st)[1].base = st[1].base /\ Onward(st)[1].steps = st[1].steps
         /\ Onward(st)[1].start = st[1].start /\ Onward(st)[1].i = st[1].i + 1
<1>1. 1 \in DOMAIN st /\ st[1] \in Frame OBVIOUS
<1> QED BY <1>1 DEF Onward, Frame

\* The call stays at its step, or its scope begins.
LEMMA PassTidy ==
  ASSUME NEW q \in Call, NEW n \in Call, Placed(q), TidyCall(q),
         Passes(q, n) \/ SetsOut(q, n) \/ Skips(q, n) \/ Enters(q, n) \/ Ends(q, n)
  PROVE  TidyCall(n)
<1>1. CASE Passes(q, n)
  <2>1. /\ Heading(n) \in Forward => Heading(q) \in Forward
        /\ Heading(n) = "repeatStart" => Heading(q) = "repeatStart" /\ n.stack = q.stack
    BY <1>1 DEF Passes, InStep, Forward
  <2>2. Heading(n) = "repeatStart" => DefAt(n).kind = "repeat" BY <2>1 DEF TidyCall, DefAt
  <2> QED BY <1>1, <2>1, <2>2, TidySame DEF Passes, TidyCall, SameTrack
<1>2. CASE SetsOut(q, n)
  <2>1. Firm(q) BY <1>2 DEF SetsOut, Firm
  <2>2. n.stack[1].base = <<>> /\ Heading(n) = "steps" BY <1>2 DEF SetsOut
  <2>3. Tied(n.mem.repeats, n.stack[1].base) BY <2>2 DEF Tied
  <2> QED BY <1>2, <2>1, <2>2, <2>3, TidySame DEF SetsOut, TidyCall, SameTrack
<1>3. CASE Skips(q, n)
  <2>1. At(q, "steps") /\ n.mem = q.mem /\ n.stack = Onward(q.stack) BY <1>3 DEF Skips
  <2>2. /\ q.stack \in Seq(Frame) /\ q.stack # <<>> /\ Tidy(q.mem)
        /\ Tied(q.mem.repeats, q.mem.currentPath) /\ Tied(q.mem.repeats, q.stack[1].base)
    BY <2>1, AtTidy DEF Forward, Tidy
  <2>3. n.stack[1].base = q.stack[1].base BY <2>1, <2>2, OnwardBase
  <2>4. Heading(n) = "steps" BY <1>3 DEF Skips, Heading
  <2> QED BY <2>1, <2>2, <2>3, <2>4 DEF TidyCall
<1>4. CASE Enters(q, n)
  <2> DEFINE f == q.stack[1]
  <2>1. /\ At(q, "steps") /\ SameTrack(q.mem, n.mem) /\ n.stack = q.stack
        /\ n.mem.currentPath = Entering(f)
    BY <1>4 DEF Enters
  <2>2. /\ Tidy(q.mem) /\ Tied(q.mem.repeats, Here(f)) /\ Tied(q.mem.repeats, q.mem.currentPath)
        /\ Tied(q.mem.repeats, f.base) /\ Going("steps", q.mem, f)
    BY <2>1, AtTidy DEF Forward, Tidy, Place
  <2>3. f.i = f.start => f.resume = q.mem.currentPath BY <2>2 DEF Going, Stands
  <2>4. Tied(q.mem.repeats, Entering(f)) BY <2>2, <2>3 DEF Entering
  <2>5. Heading(n) = "repeatStart" => DefAt(n).kind = "repeat"
    BY <1>4 DEF Enters, Heading, DefAt, InStep
  <2> QED BY <2>1, <2>2, <2>4, <2>5, TidySame DEF TidyCall, SameTrack
<1>5. CASE Ends(q, n)
  <2>1. Heading(n) \notin Forward /\ Heading(n) # "repeatStart" /\ ~Firm(n)
    BY <1>5 DEF Ends, Forward, Firm, GoesForward
  <2> QED BY <1>5, <2>1, TidySame DEF Ends, TidyCall
<1> QED BY <1>1, <1>2, <1>3, <1>4, <1>5

\* The frames of a scope that is done and of the step it belongs to.
LEMMA DoneTidy ==
  ASSUME NEW q \in Call, Placed(q), TidyCall(q), q.pc = "steps", Len(q.stack) > 1
  PROVE  LET f == q.stack[1]
             u == q.stack[2]
             J == CompletedPaths(q.mem)
         IN
         /\ q.mem \in RunState /\ q.mem.repeats \in SUBSET RepeatState /\ J \in SUBSET Path
         /\ q.mem.currentPath \in Path /\ f \in Frame /\ Framed(f) /\ u \in Frame /\ Framed(u)
         /\ Tail(q.stack) \in Seq(Frame) /\ Tail(q.stack) # <<>> /\ Tail(q.stack)[1] = u
         /\ u.i \in DOMAIN u.steps /\ f.base = Append(Here(u), Last(f.base))
         /\ Joined(f, u, q.mem) /\ Stands(J, q.mem.currentPath, f)
         /\ Here(u) \in Path /\ Here(u) # <<>> /\ Odd(Len(Here(u)))
         /\ Last(Here(u)) = u.steps[u.i] /\ f.base \in Path /\ u.base \in Path
         /\ Leads(u.base, Here(u)) /\ Under(Here(u), f.base) /\ Route(J, Here(u))
         /\ Kempt(J, q.mem.repeats) /\ GoesForward(q.mem)
         /\ Tied(q.mem.repeats, q.mem.currentPath) /\ Tied(q.mem.repeats, f.base)
         /\ Tied(q.mem.repeats, Here(u)) /\ Tied(q.mem.repeats, u.base)
<1> DEFINE st == q.stack
           f == st[1]
           u == st[2]
           J == CompletedPaths(q.mem)
           cp == q.mem.currentPath
           R == q.mem.repeats
<1>1. /\ q.mem \in RunState /\ st \in Seq(Frame) /\ J \in SUBSET Path /\ cp \in Path
      /\ R \in SUBSET RepeatState
  <2>1. q.mem \in RunState /\ q.stack \in Seq(Frame) BY DEF Call
  <2> QED BY <2>1, PathsType DEF RunState
<1>2. Chained(st, q.mem) /\ Going("steps", q.mem, f) /\ Heading(q) = "steps"
  BY DEF Placed, Heading, Forward
<1>3. Chained(Tail(st), q.mem) /\ Tail(st) \in Seq(Frame) /\ Tail(st)[1] = u /\ Joined(f, u, q.mem)
  <2> HIDE DEF st, u
  <2> QED BY <1>1, <1>2, ChainPop DEF st, u
<1>4. Framed(f) /\ Framed(u) /\ f \in Frame /\ u \in Frame BY <1>1, <1>2 DEF Chained
<1>5. Tail(st) # <<>> BY <1>3 DEF Chained
<1>6. u.i \in DOMAIN u.steps /\ f.base = Append(Here(u), Last(f.base)) BY <1>3 DEF Joined
<1>7. Here(u) \in Path /\ Here(u) # <<>> /\ Odd(Len(Here(u))) /\ Last(Here(u)) = u.steps[u.i]
  BY <1>4, <1>6, HereIs
<1>8. u.base \in Path /\ Leads(u.base, Here(u)) BY <1>4, <1>6, StepAtIs DEF Here
<1>9. f.base \in Path BY <1>4 DEF Frame
<1>10. Under(Here(u), f.base) /\ Leads(Here(u), f.base)
  <2>1. ASSUME NEW x \in Path, NEW b \in Path, NEW c, b = Append(x, c)
        PROVE  Under(x, b) /\ Leads(x, b)
    BY <2>1, PathOrder
  <2> QED BY <1>6, <1>7, <1>9, <2>1
<1>11. Stands(J, cp, f) /\ GoesForward(q.mem) BY <1>2 DEF Going, GoesForward
<1>12. Route(J, Here(u)) BY <1>1, <1>3, <1>4, <1>11, BodyDone
<1>13. Kempt(J, R) /\ Tied(R, cp) /\ Tied(R, f.base)
  BY <1>2, <1>11 DEF TidyCall, Tidy, Firm, Forward
<1>14. Tied(R, Here(u)) BY <1>7, <1>9, <1>10, <1>13, TiedBack
<1>15. Tied(R, u.base) BY <1>7, <1>8, <1>14, TiedBack
<1> HIDE DEF st, f, u, J, cp, R
<1> QED BY <1>1, <1>3, <1>4, <1>5, <1>6, <1>7, <1>8, <1>9, <1>10, <1>11, <1>12, <1>13, <1>14, <1>15
        DEF st, f, u, J, cp, R

\* The read state of a repeat is the one that there is.
LEMMA StateRead ==
  ASSUME NEW m, NEW J, Kempt(J, m.repeats), NEW r \in m.repeats
  PROVE  RepeatAt(m, r.path) = r
<1> DEFINE x == r.path
<1>1. \A t \in m.repeats : t.path = x => t = r BY DEF Kempt
<1>2. r \in m.repeats /\ r.path = x OBVIOUS
<1> HIDE DEF x
<1>3. RepeatAt(m, x) = r BY <1>1, <1>2 DEF RepeatAt
<1> QED BY <1>3 DEF x

\* The state of the repeat at x is set, while the call goes on with the rest of what it knows.
LEMMA SetTidy ==
  ASSUME NEW m \in RunState, NEW J, J = CompletedPaths(m), Kempt(J, m.repeats),
         NEW s \in RepeatState,
         NEW x \in Path, x = s.path, Odd(Len(x)), x # <<>>, Def[Last(x)].kind = "repeat",
         Tied(m.repeats, x), Route(J, x), s.iteration = RepeatAt(m, x).iteration
  PROVE  LET k == SetRepeat(m, s) IN
         /\ Tidy(k) /\ CompletedPaths(k) = J
         /\ \A q \in Path : Tied(m.repeats, q) => Tied(k.repeats, q)
         /\ s \in k.repeats
<1> DEFINE k == SetRepeat(m, s)
           R == m.repeats
<1>1. R \in SUBSET RepeatState /\ J \in SUBSET Path BY PathsType DEF RunState
<1>2. k.repeats = Replaced(R, s) /\ CompletedPaths(k) = J /\ s \in k.repeats
  BY DEF SetRepeat, RunState, CompletedPaths, Replaced
<1>3. ASSUME NEW r \in R, r.path = x PROVE r.iteration = s.iteration
  <2>1. RepeatAt(m, r.path) = r BY StateRead
  <2> QED BY <1>3, <2>1
<1>4. Kempt(J, Replaced(R, s))
  <2> HIDE DEF k, R
  <2>1. Kempt(J, R) /\ Tied(R, x) BY DEF R
  <2>2. Spares(J, R, s) BY <1>3 DEF Spares
  <2> QED BY <1>1, <2>1, <2>2, SetKempt
<1>5. ASSUME NEW q \in Path, Tied(R, q) PROVE Tied(Replaced(R, s), q)
  <2> HIDE DEF k, R
  <2>1. Agrees(R, s, q) BY <1>3 DEF Agrees
  <2> QED BY <1>1, <1>5, <2>1, SetTied
<1> HIDE DEF k, R
<1> QED BY <1>2, <1>4, <1>5 DEF Tidy, k, R

\* The path that a branch has chosen is done, or the body of a repeat.
LEMMA RiseTidy ==
  ASSUME NEW q \in Call, NEW n \in Call, Placed(q), TidyCall(q), Rises(q, n) \/ Closes(q, n)
  PROVE  TidyCall(n)
<1> DEFINE f == q.stack[1]
           u == q.stack[2]
           x == Here(u)
           J == CompletedPaths(q.mem)
           R == q.mem.repeats
<1>1. q.pc = "steps" /\ Len(q.stack) > 1 BY DEF Rises, Closes
<1>2. /\ q.mem \in RunState /\ R \in SUBSET RepeatState /\ q.mem.currentPath \in Path
      /\ Tail(q.stack) \in Seq(Frame) /\ Tail(q.stack) # <<>> /\ Tail(q.stack)[1] = u
      /\ x \in Path /\ x # <<>> /\ Odd(Len(x)) /\ Last(x) = u.steps[u.i] /\ Route(J, x)
      /\ f.base \in Path /\ u.base \in Path /\ Under(x, f.base)
      /\ Kempt(J, R) /\ Tied(R, q.mem.currentPath) /\ Tied(R, f.base)
       /\ Tied(R, x) /\ Tied(R, u.base)
  BY <1>1, DoneTidy
<1>3. CASE Rises(q, n)
  <2>1. n.mem = q.mem /\ n.stack = Onward(Tail(q.stack)) BY <1>3 DEF Rises
  <2>2. n.stack[1].base = u.base BY <1>2, <2>1, OnwardBase
  <2>3. Heading(n) = "steps" BY <1>3 DEF Rises, Heading
  <2> QED BY <1>2, <2>1, <2>2, <2>3 DEF TidyCall, Tidy
<1>4. CASE Closes(q, n)
  <2> DEFINE r == RepeatAt(q.mem, x)
             s == [r EXCEPT !.awaiting = TRUE]
  <2>1. n.mem = SetRepeat(q.mem, s) /\ n.stack = Tail(q.stack) /\ Def[Last(x)].kind = "repeat"
    BY <1>2, <1>4 DEF Closes
  <2>2. r \in RepeatState /\ r.path = x BY <1>2, RepeatAtType
  <2>3. s \in RepeatState /\ s.path = x /\ s.iteration = r.iteration
    BY <2>2 DEF RepeatState
  <2> HIDE DEF s
  <2>4. /\ Tidy(n.mem) /\ \A p \in Path : Tied(R, p) => Tied(n.mem.repeats, p)
        /\ n.mem.currentPath = q.mem.currentPath
    BY <1>2, <2>1, <2>3, SetTidy, SetRepeatIs
  <2>5. n.stack[1].base = u.base BY <1>2, <2>1
  <2>6. Heading(n) = "until" BY <1>4 DEF Closes, Heading
  <2> QED BY <1>2, <2>4, <2>5, <2>6 DEF TidyCall
<1> QED BY <1>3, <1>4

\* The clock of a repeat starts, or an iteration begins or is resumed.
LEMMA BeginTidy ==
  ASSUME NEW q \in Call, NEW n \in Call, Placed(q), TidyCall(q), Clocks(q, n) \/ Begins(q, n)
  PROVE  TidyCall(n)
<1> DEFINE f == q.stack[1]
           x == Place(q)
           J == CompletedPaths(q.mem)
           R == q.mem.repeats
           cp == q.mem.currentPath
           r == RepeatAt(q.mem, x)
<1>1. PICK l \in {"repeatStart", "call"} : At(q, l) BY DEF Clocks, Begins
<1>2. /\ q.mem \in RunState /\ R \in SUBSET RepeatState /\ J \in SUBSET Path /\ cp \in Path
      /\ q.stack \in Seq(Frame) /\ f \in Frame
      /\ x \in Path /\ x # <<>> /\ Odd(Len(x)) /\ Def[Last(x)] = DefAt(q) /\ Route(J, x)
      /\ Kempt(J, R) /\ Tied(R, x) /\ Tied(R, cp) /\ Tied(R, f.base)
  BY <1>1, AtTidy DEF Forward
<1>3. r \in RepeatState /\ r.path = x BY <1>2, RepeatAtType
<1>4. f.base \in Path BY <1>2 DEF Frame
<1> HIDE DEF x, r, f
<1>5. ASSUME NEW s \in RepeatState, s.path = x, s.iteration = r.iteration,
             Def[Last(x)].kind = "repeat", n.mem = SetRepeat(q.mem, s)
      PROVE  /\ Tidy(n.mem) /\ \A p \in Path : Tied(R, p) => Tied(n.mem.repeats, p)
             /\ n.mem.currentPath = cp /\ s \in n.mem.repeats
  BY <1>2, <1>5, SetTidy, SetRepeatIs DEF r
<1>6. CASE Clocks(q, n)
  <2> DEFINE s == [r EXCEPT !.startedAt = now]
  <2>1. n.mem = SetRepeat(q.mem, s) /\ n.stack = q.stack BY <1>6 DEF Clocks, x, r
  <2>2. n.mem \in RunState BY DEF Call
  <2>3. s.path = x /\ s.iteration = r.iteration BY <1>3 DEF RepeatState
  <2>4. s \in n.mem.repeats BY <1>2, <2>1 DEF SetRepeat, RunState
  <2>5. s \in RepeatState BY <2>2, <2>4 DEF RunState
  <2>6. Def[Last(x)].kind = "repeat"
    <3>1. At(q, "repeatStart") BY <1>6 DEF Clocks
    <3>2. Heading(q) = "repeatStart" BY <3>1 DEF At, Heading
    <3> QED BY <1>2, <3>2 DEF TidyCall
  <2>7. Heading(n) = "repeatCheck" BY <1>6 DEF Clocks
  <2> HIDE DEF s
  <2> QED BY <1>2, <1>4, <1>5, <2>1, <2>3, <2>5, <2>6, <2>7 DEF TidyCall, f
<1>7. CASE Begins(q, n)
  <2>1. PICK it \in Nat :
          /\ \/ cp = x /\ it = r.iteration
             \/ Under(x, cp) /\ it = cp[Len(x) + 1]
          /\ n.mem = SetRepeat(q.mem, [r EXCEPT !.iteration = it])
          /\ \/ n.pc = "until" /\ n.stack = q.stack
             \/ \E g : /\ g.base = Append(x, it) /\ n.stack = <<g>> \o q.stack
    BY <1>7 DEF Begins, x, r
  <2> DEFINE s == [r EXCEPT !.iteration = it]
  <2>2. Def[Last(x)].kind = "repeat" BY <1>2, <1>7 DEF Begins
  <2>3. s \in RepeatState /\ s.path = x /\ s.iteration = it BY <1>3 DEF RepeatState
  <2>4. r.iteration = it
    <3>1. CASE Under(x, cp)
      <4>1. ~(cp = x) BY <1>2, <3>1, PathOrder
      <4>2. PICK t \in R : t.path = x /\ t.iteration = it BY <1>2, <2>1, <2>2, <3>1, <4>1, TiedAt
      <4> QED BY <1>2, <4>2, StateRead DEF r
    <3> QED BY <2>1, <3>1
  <2> HIDE DEF s
  <2>5. /\ Tidy(n.mem) /\ \A p \in Path : Tied(R, p) => Tied(n.mem.repeats, p)
        /\ n.mem.currentPath = cp /\ s \in n.mem.repeats
    BY <1>5, <2>1, <2>2, <2>3, <2>4 DEF s
  <2>6. Tied(n.mem.repeats, n.stack[1].base)
    <3>1. CASE n.stack = q.stack BY <1>2, <1>4, <2>5, <3>1 DEF f
    <3>2. CASE \E g : /\ g.base = Append(x, it) /\ n.stack = <<g>> \o q.stack
      <4>1. PICK g : /\ g.base = Append(x, it) /\ n.stack = <<g>> \o q.stack BY <3>2
      <4>2. n.stack[1] = g BY <1>2, <4>1
      <4>3. Append(x, it) \in Path BY <1>2, AppendKey
      <4>4. Tied(n.mem.repeats, x) BY <1>2, <2>5
      <4>5. Tied(n.mem.repeats, Append(x, it)) BY <1>2, <2>3, <2>5, <4>3, <4>4, TiedDown
      <4> QED BY <4>1, <4>2, <4>5
    <3> QED BY <2>1, <3>1, <3>2
  <2>7. Heading(n) # "repeatStart" BY <1>7 DEF Begins, Heading
  <2> QED BY <1>2, <2>5, <2>6, <2>7 DEF TidyCall
<1> QED BY <1>6, <1>7

\* A step that is no repeat is completed, a branch chooses its path or is resumed.
LEMMA DoneStepTidy ==
  ASSUME NEW q \in Call, NEW n \in Call, Placed(q), TidyCall(q),
         Records(q, n) \/ Decides(q, n) \/ GoesDown(q, n)
  PROVE  TidyCall(n)
<1> DEFINE f == q.stack[1]
           x == Place(q)
           J == CompletedPaths(q.mem)
           R == q.mem.repeats
           cp == q.mem.currentPath
<1>1. At(q, "call") BY DEF Records, Decides, GoesDown
<1>2. /\ q.mem \in RunState /\ R \in SUBSET RepeatState /\ J \in SUBSET Path /\ cp \in Path
      /\ q.stack \in Seq(Frame) /\ q.stack # <<>>
      /\ x \in Path /\ x # <<>> /\ Odd(Len(x)) /\ Def[Last(x)] = DefAt(q) /\ Route(J, x)
      /\ Kempt(J, R) /\ Tied(R, x) /\ Tied(R, cp) /\ Tied(R, f.base)
  BY <1>1, AtTidy DEF Forward
<1> HIDE DEF x, J, R
<1>3. DefAt(q).kind # "repeat" => Kempt(J \cup {x}, R) BY <1>2, RecordKempt
<1>4. CASE Records(q, n)
  <2>1. /\ n.stack = Onward(q.stack) /\ n.mem.currentPath = x /\ n.mem.repeats = R
        /\ CompletedPaths(n.mem) = J \cup {x} /\ DefAt(q).kind # "repeat" /\ Heading(n) = "steps"
    BY <1>4 DEF Records, x, J, R
  <2>2. n.stack[1].base = f.base BY <1>2, <2>1, OnwardBase
  <2> QED BY <1>2, <1>3, <2>1, <2>2 DEF TidyCall, Tidy
<1>5. ASSUME NEW key, NEW g, g.base = Append(x, key), n.stack = <<g>> \o q.stack,
             DefAt(q).kind = "branch", g.base \in Path
      PROVE  Tied(R, g.base) /\ n.stack[1] = g
  <2>1. Tied(R, Append(x, key)) BY <1>2, <1>5, TiedDown
  <2> QED BY <1>2, <1>5, <2>1
<1>6. CASE Decides(q, n)
  <2>1. /\ n.mem.repeats = R /\ CompletedPaths(n.mem) = J \cup {x} /\ DefAt(q).kind = "branch"
        /\ Heading(n) = "steps"
    BY <1>6 DEF Decides, x, J, R
  <2>2. PICK key, g : /\ g.base = Append(x, key) /\ g.base \in Path
                      /\ n.mem.currentPath = g.base /\ n.stack = <<g>> \o q.stack
    BY <1>6 DEF Decides, x
  <2>3. Tied(R, g.base) /\ n.stack[1] = g BY <1>5, <2>1, <2>2
  <2> QED BY <1>3, <2>1, <2>2, <2>3 DEF TidyCall, Tidy
<1>7. CASE GoesDown(q, n)
  <2>1. n.mem = q.mem /\ DefAt(q).kind = "branch" /\ Heading(n) = "steps"
    BY <1>7 DEF GoesDown, Heading
  <2>2. PICK key, g : g.base = Append(x, key) /\ n.stack = <<g>> \o q.stack /\ g \in Frame
    BY <1>7 DEF GoesDown, Resumes, x
  <2>3. g.base \in Path BY <2>2 DEF Frame
  <2>4. Tied(R, g.base) /\ n.stack[1] = g BY <1>5, <2>1, <2>2, <2>3
  <2> QED BY <1>2, <2>1, <2>4 DEF TidyCall, Tidy, J, R
<1> QED BY <1>4, <1>6, <1>7

\* What is retained of the last iteration of the repeat at x: the state of the repeat is
\* the same, and what is known is kept; where the history is compact, nothing is known
\* below the repeat any more.
LEMMA RetainedIs ==
  ASSUME NEW m \in RunState, Tidy(m), NEW x \in Path, x # <<>>, Odd(Len(x)),
         Def[Last(x)].kind = "repeat", Route(CompletedPaths(m), x), Tied(m.repeats, x)
  PROVE  LET k == Retained(m, x)
             J == CompletedPaths(m)
             K == CompletedPaths(k)
             y == Append(x, RepeatAt(m, x).iteration)
         IN
         /\ k \in RunState /\ Tidy(k) /\ K \in SUBSET J /\ RepeatAt(k, x) = RepeatAt(m, x)
         /\ \A a \in J \ K : Leads(y, a)
         /\ \A q \in Path : Tied(m.repeats, q) /\ ~Leads(y, q) => Tied(k.repeats, q)
         /\ Def[Last(x)].compact =>
              /\ \A a \in Known(K, k.repeats) : ~Under(x, a) /\ ~Leads(y, a)
              /\ k.repeats = {r \in m.repeats : ~Leads(y, r.path)}
         /\ ~Def[Last(x)].compact => k = m
         /\ Route(K, x) /\ Tied(k.repeats, x) /\ y \in Path
         /\ k.currentPath = m.currentPath /\ k.status = m.status
<1> DEFINE k == Retained(m, x)
           J == CompletedPaths(m)
           K == CompletedPaths(k)
           n == RepeatAt(m, x).iteration
           y == Append(x, n)
<1>1. /\ RepeatAt(m, x) \in RepeatState /\ n \in Nat /\ J \in SUBSET Path
      /\ m.repeats \in SUBSET RepeatState
  <2>1. RepeatAt(m, x) \in RepeatState BY RepeatAtType
  <2> QED BY <2>1, PathsType DEF RepeatState, RunState
<1>2. y \in Path /\ ~Leads(y, x) /\ Under(x, y)
  <2>1. Append(x, n) \in Path BY <1>1, AppendKey
  <2> QED BY <2>1, PathOrder
<1>3. CASE ~Def[Last(x)].compact
  <2>1. k = m BY <1>3 DEF Retained
  <2> HIDE DEF k, y
  <2> QED BY <1>1, <1>2, <1>3, <2>1 DEF y, k
<1>4. CASE Def[Last(x)].compact
  <2>1. k = Compact(m, y) BY <1>4 DEF Retained
  <2>2. k \in RunState BY <2>1, CompactType
  <2>3. /\ K \in SUBSET J /\ \A a \in J \ K : IsPrefix(y, a)
        /\ k.status = m.status /\ k.currentPath = m.currentPath
    BY <2>1, CompactPaths
  <2>4. (\A a \in K : ~Leads(y, a)) /\ k.repeats = {r \in m.repeats : ~Leads(y, r.path)}
    BY <1>2, <2>1, CompactForgets
  <2>5. RepeatAt(k, x) = RepeatAt(m, x)
    <3>1. ~IsPrefix(y, x) BY <1>2, PrefixLeads
    <3> QED BY <2>1, <3>1, CompactRepeats
  <2>6. \A a \in J \ K : Leads(y, a) BY <1>1, <1>2, <2>3, PrefixLeads
  <2> HIDE DEF k, J, K, y
  <2>7. Kempt(K, k.repeats)
        /\ \A q \in Path : Tied(m.repeats, q) /\ ~Leads(y, q) => Tied(k.repeats, q)
    BY <1>1, <1>2, <2>3, <2>4, LessKempt DEF Tidy, J
  <2>8. \A a \in Known(K, k.repeats) : ~Leads(y, a) BY <2>4 DEF Known
  <2>9. \A r \in k.repeats : r.path = x => r.iteration = n
    <3> HIDE DEF n
    <3>1. ASSUME NEW r \in k.repeats, r.path = x PROVE r.iteration = n
      <4>1. RepeatAt(k, x) = r BY <2>7, <3>1, StateRead
      <4> QED BY <2>5, <4>1 DEF n
    <3> QED BY <3>1
  <2>10. K \in SUBSET Path /\ k.repeats \in SUBSET RepeatState BY <1>1, <2>3, <2>4
  <2>11. \A a \in Known(K, k.repeats) : ~Under(x, a)
    <3> HIDE DEF n
    <3> QED BY <1>2, <1>4, <2>7, <2>8, <2>9, <2>10, KemptLess DEF y
  <2>12. Route(K, x)
    <3>1. ASSUME NEW a \in J \ K PROVE Len(x) < Len(a)
      <4>1. a \in Path /\ Leads(y, a) BY <1>1, <2>6, <3>1
      <4>2. Under(x, a) BY <1>2, <4>1, PathOrder
      <4> QED BY <4>2 DEF Under
    <3> QED BY <1>1, <2>3, <3>1, RouteLess DEF J
  <2>13. Tied(k.repeats, x) BY <1>2, <2>7
  <2> QED BY <1>2, <1>4, <2>2, <2>3, <2>4, <2>5, <2>6, <2>7, <2>8, <2>11, <2>12, <2>13
          DEF Tidy, k, J, K, y
<1> QED BY <1>3, <1>4

\* The condition of a repeat is known.
LEMMA UntilTidy ==
  ASSUME NEW q \in Call, NEW n \in Call, Placed(q), TidyCall(q),
         UntilDone(q, n) \/ UntilMore(q, n) \/ UntilFails(q, n)
  PROVE  TidyCall(n)
<1> DEFINE f == q.stack[1]
           x == Place(q)
           J == CompletedPaths(q.mem)
           R == q.mem.repeats
           r == RepeatAt(q.mem, x)
           k == Retained(q.mem, x)
           K == CompletedPaths(k)
           y == Append(x, r.iteration)
<1>1. At(q, "until") BY DEF UntilDone, UntilMore, UntilFails
<1>2. /\ q.mem \in RunState /\ R \in SUBSET RepeatState /\ J \in SUBSET Path
      /\ q.stack \in Seq(Frame) /\ q.stack # <<>> /\ f \in Frame
      /\ x \in Path /\ x # <<>> /\ Odd(Len(x)) /\ Def[Last(x)] = DefAt(q) /\ Route(J, x)
      /\ Kempt(J, R) /\ Tied(R, x) /\ Tied(R, f.base) /\ Going("until", q.mem, f)
      /\ Framed(f) /\ f.i \in DOMAIN f.steps
  BY <1>1, AtTidy DEF Forward
<1>3. Def[Last(x)].kind = "repeat" BY <1>2 DEF Going, Asking, DefAt
<1>4. r \in RepeatState /\ r.path = x /\ r.iteration \in Nat
  <2>1. r \in RepeatState /\ r.path = x BY <1>2, RepeatAtType
  <2> HIDE DEF r
  <2> QED BY <2>1 DEF RepeatState
<1>5. /\ k \in RunState /\ Tidy(k) /\ K \in SUBSET J /\ RepeatAt(k, x) = r
      /\ \A p \in Path : Tied(R, p) /\ ~Leads(y, p) => Tied(k.repeats, p)
      /\ Def[Last(x)].compact => \A a \in Known(K, k.repeats) : ~Under(x, a)
      /\ Route(K, x) /\ Tied(k.repeats, x) /\ y \in Path
  BY <1>2, <1>3, RetainedIs DEF Tidy
<1>6. f.base \in Path /\ Leads(f.base, x) BY <1>2, StepAtIs DEF Frame, Place, Here
<1> HIDE DEF x, r, k, K, y, J, R
<1>7. K \in SUBSET Path /\ k.repeats \in SUBSET RepeatState /\ Kempt(K, k.repeats)
  BY <1>2, <1>5 DEF RunState, Tidy, K
<1>8. \A t \in k.repeats : t.path = x => t = r
  <2>1. ASSUME NEW t \in k.repeats, t.path = x PROVE t = r
    <3>1. RepeatAt(k, t.path) = t BY <1>7, <2>1, StateRead
    <3> QED BY <1>5, <2>1, <3>1
  <2> QED BY <2>1
<1>9. ASSUME NEW s \in RepeatState, s.path = x, NEW S, S = SetRepeat(k, s).repeats,
             s.iteration = r.iteration \/ s.iteration = r.iteration + 1
      PROVE  /\ Kempt(K, S) /\ Tied(S, x) /\ s \in S /\ S \in SUBSET RepeatState
             /\ Def[Last(x)].compact => \A a \in Known(K, S) : ~Under(x, a)
             /\ Tied(k.repeats, f.base) => Tied(S, f.base)
  <2>0. S = Replaced(k.repeats, s) BY <1>5, <1>9 DEF SetRepeat, RunState, Replaced
  <2>1. S = {t \in k.repeats : t.path # x} \cup {s} BY <1>9, <2>0 DEF Replaced
  <2>2. /\ Kempt(K, S)
        /\ \A p \in Path : Tied(k.repeats, p) /\ ~Under(x, p) => Tied(S, p)
    <3> DEFINE R2 == k.repeats
    <3>1. /\ R2 \in SUBSET RepeatState /\ Kempt(K, R2) /\ Tied(R2, x) /\ S = Replaced(R2, s)
          /\ Def[Last(x)].compact => \A a \in Known(K, R2) : ~Under(x, a)
      BY <1>5, <1>7, <2>0
    <3> HIDE DEF R2
    <3>2. Spares(K, R2, s) BY <1>9, <3>1 DEF Spares
    <3>3. Kempt(K, Replaced(R2, s)) BY <1>2, <1>3, <1>5, <1>7, <1>9, <3>1, <3>2, SetKempt
    <3>4. ASSUME NEW p \in Path, Tied(R2, p), ~Under(x, p) PROVE Tied(Replaced(R2, s), p)
      <4>1. Agrees(R2, s, p) BY <1>9, <3>4 DEF Agrees
      <4> QED BY <1>9, <3>1, <3>4, <4>1, SetTied
    <3> QED BY <3>1, <3>3, <3>4 DEF R2
  <2>3. ~Under(x, x) /\ ~Under(x, f.base)
    <3>1. Leads(x, f.base) /\ Leads(f.base, x) => Under(x, x) \/ x = f.base BY <1>2, <1>6, PathOrder
    <3>2. Under(x, f.base) => Under(x, x) BY <1>2, <1>6, PathOrder
    <3> QED BY <1>2, <3>2, PathOrder
  <2>4. Def[Last(x)].compact => \A a \in Known(K, S) : ~Under(x, a)
    BY <1>5, <1>9, <2>1, <2>3 DEF Known
  <2> QED BY <1>2, <1>5, <1>6, <1>7, <2>1, <2>2, <2>3, <2>4
<1>10. CASE UntilDone(q, n)
  <2> DEFINE s == [r EXCEPT !.awaiting = FALSE, !.startedAt = NoTime]
             S == SetRepeat(k, s).repeats
  <2>1. /\ n.stack = Onward(q.stack) /\ CompletedPaths(n.mem) = K \cup {x} /\ n.mem.repeats = S
        /\ n.mem.currentPath = x /\ Heading(n) = "steps"
    BY <1>10 DEF UntilDone, x, r, k, K
  <2>2. s \in RepeatState /\ s.path = x /\ s.iteration = r.iteration
    BY <1>4 DEF RepeatState, Time
  <2> HIDE DEF s
  <2>3. /\ Kempt(K, S) /\ Tied(S, x) /\ s \in S /\ S \in SUBSET RepeatState
        /\ Def[Last(x)].compact => \A a \in Known(K, S) : ~Under(x, a)
    BY <1>9, <2>2
  <2> HIDE DEF S
  <2>4. Kempt(K \cup {x}, S) BY <1>2, <1>5, <1>7, <2>2, <2>3, RecordKempt
  <2>5. n.stack[1].base = f.base BY <1>2, <2>1, OnwardBase
  <2>6. Tied(S, f.base) BY <1>2, <1>6, <2>3, TiedBack
  <2> QED BY <2>1, <2>3, <2>4, <2>5, <2>6 DEF TidyCall, Tidy
<1>11. CASE UntilMore(q, n)
  <2> DEFINE s == [r EXCEPT !.awaiting = FALSE, !.iteration = @ + 1]
             S == SetRepeat(k, s).repeats
  <2>1. /\ CompletedPaths(n.mem) = K /\ n.mem.repeats = S
        /\ n.mem.currentPath = Append(x, r.iteration + 1) /\ Heading(n) = "return"
    BY <1>11 DEF UntilMore, x, r, k, K
  <2>2. r.iteration + 1 \in Nat BY <1>4
  <2>3. s \in RepeatState /\ s.path = x /\ s.iteration = r.iteration + 1
    BY <1>4, <2>2 DEF RepeatState
  <2> HIDE DEF s
  <2>4. Kempt(K, S) /\ Tied(S, x) /\ s \in S
    BY <1>9, <2>3
  <2> HIDE DEF S
  <2>5. Append(x, r.iteration + 1) \in Path BY <1>2, <2>2, AppendKey
  <2>6. Tied(S, n.mem.currentPath) BY <1>2, <2>1, <2>3, <2>4, <2>5, TiedDown
  <2> QED BY <2>1, <2>4, <2>6 DEF TidyCall, Tidy, Forward
<1>12. CASE UntilFails(q, n)
  <2>1. n.pc = "raise" /\ n.err.kind = "step" /\ n.mem = k BY <1>12 DEF UntilFails, x, k
  <2>2. ~Firm(n) /\ Heading(n) \notin Forward /\ Heading(n) # "repeatStart"
    BY <2>1 DEF Firm, Heading, Forward
  <2> QED BY <1>5, <2>1, <2>2 DEF TidyCall
<1> QED BY <1>10, <1>11, <1>12

\* Every move of a call keeps what it knows.
LEMMA TracksTidy ==
  ASSUME NEW q \in Call, NEW n \in Call, Placed(q), TidyCall(q), Tracks(q, n)
  PROVE  TidyCall(n)
BY PassTidy, RiseTidy, BeginTidy, DoneStepTidy, UntilTidy DEF Tracks

\* At first nothing is known.
LEMMA InitTidiness == Init => Tidiness
<1>1. CompletedPaths(NewRun) = {} /\ NewRun.repeats = {} /\ NewRun.currentPath = <<>>
  BY DEF CompletedPaths, NewRun
<1>2. Tidy(NewRun) /\ Tied(NewRun.repeats, NewRun.currentPath)
  BY <1>1 DEF Tidy, Kempt, Known, Tied
<1>3. NoCall.mem = NewRun /\ NoCall.pc = "idle" /\ Heading(NoCall) = "idle"
  BY DEF NoCall, Heading
<1>4. TidyCall(NoCall) BY <1>2, <1>3 DEF TidyCall, Firm, Forward
<1> QED BY <1>2, <1>4 DEF Init, Tidiness

\* Every step leaves the durable state and every call tidy.
LEMMA StepKeepsTidiness ==
  ASSUME TypeOK, TypeOK', ~CallerSaves, Position, Tidiness, [Next]_vars
  PROVE  Tidiness'
<1>1. Saved /\ \A w \in Worker : Moved(w) BY StepMoves
<1>2. \A w \in Worker : /\ proc[w] \in Call /\ proc'[w] \in Call
                        /\ Placed(proc[w]) /\ TidyCall(proc[w])
  BY DEF TypeOK, Position, Tidiness
<1>3. TidyCall(NoCall)
  <2>1. NoCall.mem = NewRun /\ NoCall.pc = "idle" /\ Heading(NoCall) = "idle"
    BY DEF NoCall, Heading
  <2>2. CompletedPaths(NewRun) = {} /\ NewRun.repeats = {} BY DEF CompletedPaths, NewRun
  <2> QED BY <2>1, <2>2 DEF TidyCall, Firm, Forward, Tidy, Kempt, Known
<1>4. TidyCall(Loaded)
  <2>1. Loaded.mem = store /\ Loaded.pc = "start" /\ Heading(Loaded) = "start"
    BY DEF Loaded, NoCall, Heading
  <2> QED BY <2>1 DEF TidyCall, Firm, Forward, Tidiness
<1>5. ASSUME NEW w \in Worker PROVE TidyCall(proc'[w])
  <2>1. CASE Tracks(proc[w], proc'[w]) BY <1>2, <2>1, TracksTidy
  <2> QED BY <1>1, <1>2, <1>3, <1>4, <2>1 DEF Moved
<1>6. Tidy(store') /\ (GoesForward(store') => Tied(store'.repeats, store'.currentPath))
  <2>1. CASE store' = store BY <2>1 DEF Tidiness
  <2>2. ASSUME NEW w \in Worker, proc[w].pc = "snapshot", store' = Written(proc[w].mem)
        PROVE  Tidy(store') /\ (GoesForward(store') => Tied(store'.repeats, store'.currentPath))
    <3> DEFINE m == proc[w].mem
    <3>1. m \in RunState BY <1>2 DEF Call
    <3>2. /\ store'.completed = m.completed /\ store'.repeats = m.repeats
          /\ store'.status = m.status /\ store'.currentPath = m.currentPath
      BY <2>2, <3>1 DEF Written, RunState
    <3>3. Tidy(store') BY <1>2, <3>2, TidySame DEF TidyCall, SameTrack
    <3>4. GoesForward(store') => Firm(proc[w]) BY <2>2, <3>2 DEF Firm, GoesForward
    <3> QED BY <1>2, <3>2, <3>3, <3>4 DEF TidyCall
  <2> QED BY <1>1, <2>1, <2>2 DEF Saved
<1> QED BY <1>5, <1>6 DEF Tidiness

\* A repeat that keeps no history keeps none: whatever was interrupted and resumed, the
\* durable state holds of it what its iteration in progress did and no more, at any depth,
\* and nothing once it has completed, as long as the snapshots alone make the run durable.
THEOREM HistoryCompactedHolds ==
  ASSUME ~CallerSaves
  PROVE  Spec => []HistoryCompacted
<1>1. TypeOK /\ TypeOK' /\ Position /\ Tidiness /\ [Next]_vars => Tidiness'
  BY StepKeepsTidiness
<1>2. TypeOK /\ Tidiness => HistoryCompacted
  <2> SUFFICES ASSUME TypeOK, Tidiness, NEW r \in store.repeats, Def[Last(r.path)].compact,
                      NEW path \in CompletedPaths(store) \cup {q.path : q \in store.repeats},
                      IsStrictPrefix(r.path, path)
               PROVE  path[Len(r.path) + 1] = r.iteration /\ r.path \notin CompletedPaths(store)
    BY DEF HistoryCompacted
  <2>1. store \in RunState BY DEF TypeOK
  <2>2. CompletedPaths(store) \in SUBSET Path /\ store.repeats \in SUBSET RepeatState
    BY <2>1, PathsType DEF RunState
  <2>3. r.path \in Path /\ path \in Path BY <2>2 DEF RepeatState
  <2>4. Under(r.path, path) BY <2>3, PrefixLeads
  <2>5. Kempt(CompletedPaths(store), store.repeats) BY DEF Tidiness, Tidy
  <2> QED BY <2>4, <2>5 DEF Kempt, Known
<1>3. QED
  BY <1>1, <1>2, InitTidiness, PositionHolds, TypeCorrect, PTL DEF Spec

-----------------------------------------------------------------------------
(* What a completed run leaves behind.                                     *)

\* The scope at a base path is completed.
Full(J, base, steps) == \A i \in DOMAIN steps : Append(base, steps[i]) \in J

\* One path of the branch at b is completed.
Chosen(J, b) == \E c \in DOMAIN Def[Last(b)].paths : Full(J, Append(b, c), Def[Last(b)].paths[c])

\* The completed branches whose path is not completed are those on the way to q.
Branches(J, q) == \A b \in J : Def[Last(b)].kind = "branch" => Chosen(J, b) \/ Under(b, q)

\* Of a repeat that keeps its history, the iterations before the last one are completed, and
\* the last one too when the condition of the repeat is due or the repeat is completed;
\* when the condition is due, no branch below the repeat is half done.
RoundOf(J, t) ==
  /\ ~Def[Last(t.path)].compact =>
       \A n \in 0..t.iteration : n < t.iteration \/ t.awaiting \/ t.path \in J =>
         Full(J, Append(t.path, n), Def[Last(t.path)].body)
  /\ t.awaiting =>
       \A b \in J : Under(t.path, b) /\ Def[Last(b)].kind = "branch" => Chosen(J, b)

\* The rounds of every repeat are as RoundOf says.
Rounds(J, R) == \A t \in R : RoundOf(J, t)

\* A run that has completed has completed its top level, and every branch.
Whole(m) ==
  m.status = "completed" => Full(CompletedPaths(m), <<>>, Root) /\ Branches(CompletedPaths(m), <<>>)

\* The frame f resumes on the way to the path cp.
Resuming(f, cp) == f.i \in DOMAIN f.steps /\ f.i = f.start /\ Leads(Here(f), cp)

\* Where a call at l with the innermost frame f is going.
Whither(l, m, f) ==
  IF l = "until" THEN Here(f)
  ELSE IF l = "steps" /\ ~Resuming(f, m.currentPath) THEN f.base ELSE m.currentPath

\* What the call p has completed.
Filled(p) ==
  /\ Rounds(CompletedPaths(p.mem), p.mem.repeats) /\ Whole(p.mem)
  /\ Firm(p) /\ p.pc \notin Forward => Branches(CompletedPaths(p.mem), p.mem.currentPath)
  /\ Heading(p) \in Forward =>
       /\ Branches(CompletedPaths(p.mem), Whither(Heading(p), p.mem, p.stack[1]))
       /\ p.stack[Len(p.stack)].base = <<>>
  /\ Heading(p) = "until" => RepeatAt(p.mem, Here(p.stack[1])).awaiting

\* What the durable state and every call have completed.
Fill ==
  /\ Rounds(CompletedPaths(store), store.repeats) /\ Whole(store)
  /\ GoesForward(store) => Branches(CompletedPaths(store), store.currentPath)
  /\ \A w \in Worker : Filled(proc[w])

\* What is completed stays so as the journal grows.
LEMMA FullGrows ==
  ASSUME NEW J, NEW K, J \subseteq K
  PROVE  /\ \A base, steps : Full(J, base, steps) => Full(K, base, steps)
         /\ \A b : Chosen(J, b) => Chosen(K, b)
<1>1. \A base, steps : Full(J, base, steps) => Full(K, base, steps) BY DEF Full
<1> QED BY <1>1 DEF Chosen

\* What is half done on the way to q is on the way to what q leads to.
LEMMA BranchesOn ==
  ASSUME NEW J \in SUBSET Path, NEW q \in Path, NEW p \in Path, Branches(J, q), Leads(q, p)
  PROVE  Branches(J, p)
<1>1. \A b \in J : Under(b, q) => Under(b, p) BY PathOrder
<1> QED BY <1>1 DEF Branches

\* A branch on the way to a step is on the way to its scope.
LEMMA BranchesUp ==
  ASSUME NEW J \in SUBSET Path, \A a \in J : Odd(Len(a)),
         NEW f \in Frame, Framed(f), f.i \in DOMAIN f.steps
  PROVE  \A b \in J : Under(b, Here(f)) => Under(b, f.base)
<1> DEFINE x == Here(f)
           l == Len(f.base)
<1>1. /\ x \in Path /\ Len(x) = l + 1 /\ Odd(Len(x)) /\ l \in Nat
      /\ \A e \in 1..l : x[e] = f.base[e]
  BY StepAtIs DEF Here
<1>2. ~Odd(l) BY <1>1, Parity
<1> HIDE DEF x, l
<1>3. ASSUME NEW b \in J, Under(b, x) PROVE Under(b, f.base)
  <2>1. Len(b) \in Nat /\ Odd(Len(b)) BY DEF Path
  <2>2. Len(b) # l BY <1>2, <2>1
  <2>3. Len(b) < l BY <1>1, <1>3, <2>1, <2>2 DEF Under
  <2>4. \A e \in 1..Len(b) : e \in 1..l BY <1>1, <2>1, <2>3
  <2>5. \A e \in 1..Len(b) : b[e] = f.base[e] BY <1>1, <1>3, <2>4 DEF Under, Agree
  <2> QED BY <2>3, <2>5 DEF Under, Agree, l
<1> QED BY <1>3 DEF x

\* A scope that the frame f has passed through is completed.
LEMMA ScopeFull ==
  ASSUME NEW J \in SUBSET Path, NEW cp, NEW f \in Frame, Framed(f), Stands(J, cp, f),
         f.i \notin DOMAIN f.steps
  PROVE  Full(J, f.base, f.steps)
<1>1. /\ f.steps \in Seq(Step) /\ DOMAIN f.steps = 1..Len(f.steps) /\ Len(f.steps) \in Nat
      /\ f.i \in Nat \ {0} /\ f.base \in Path
  BY DEF Frame
<1> SUFFICES ASSUME NEW j \in DOMAIN f.steps PROVE Append(f.base, f.steps[j]) \in J
  BY DEF Full
<1>2. j < f.i BY <1>1
<1> DEFINE x == StepAt(f, j)
           d == Len(f.base) + 1
<1>3. x \in Path /\ Len(x) = d /\ x[d] = f.steps[j] /\ Leads(f.base, x) BY StepAtIs
<1>4. Listed(J, x, d, f.steps[j]) BY <1>2 DEF Stands
<1>5. x # <<>>
  <2>1. Len(f.base) \in Nat BY <1>1 DEF Path
  <2> HIDE DEF x
  <2> QED BY <1>3, <2>1
<1>6. x \in J
  <2> HIDE DEF x
  <2> QED BY <1>3, <1>4, <1>5, ListedIs
<1> QED BY <1>6 DEF StepAt

\* A scope that resumes goes where the run has been.
LEMMA ResumeFilled ==
  ASSUME NEW J \in SUBSET Path, NEW cp \in Path, Route(J, cp), Branches(J, cp),
         NEW g, Resumes(g, cp), NEW m, m.currentPath = cp
  PROVE  Branches(J, Whither("steps", m, g))
<1>1. /\ g \in Frame /\ Framed(g) /\ Leads(g.base, cp)
      /\ g.i = g.start /\ g.i = ResumeIndex(g.steps, cp, Len(g.base) + 1)
  BY DEF Resumes
<1>2. g.base \in Path /\ Len(g.base) \in Nat /\ Len(cp) \in Nat BY <1>1 DEF Frame, Path
<1>3. CASE Len(g.base) < Len(cp)
  <2>1. g.i \in DOMAIN g.steps /\ Leads(Here(g), cp) BY <1>1, <1>3, ResumeLeads
  <2>2. Whither("steps", m, g) = cp BY <1>1, <2>1 DEF Whither, Resuming
  <2> QED BY <2>2
<1>4. CASE ~(Len(g.base) < Len(cp))
  <2>1. Len(cp) <= Len(g.base) BY <1>2, <1>4
  <2>2. cp = g.base BY <1>1, <1>2, <2>1, PathOrder
  <2> QED BY <2>2 DEF Whither
<1> QED BY <1>3, <1>4

\* The outermost frame stays as scopes begin and end.
LEMMA BottomKept ==
  ASSUME NEW st \in Seq(Frame), st # <<>>, st[Len(st)].base = <<>>
  PROVE  /\ Onward(st)[Len(Onward(st))].base = <<>>
         /\ Len(st) > 1 => Tail(st)[Len(Tail(st))].base = <<>>
         /\ \A g : (<<g>> \o st)[Len(<<g>> \o st)].base = <<>>
<1>1. Len(st) \in Nat /\ DOMAIN st = 1..Len(st) /\ Len(st) >= 1 OBVIOUS
<1>2. Onward(st)[Len(Onward(st))].base = <<>>
  <2> DEFINE o == Onward(st)
  <2>1. o \in Seq(Frame) /\ Len(o) = Len(st) /\ \A k \in 1..Len(st) : k # 1 => o[k] = st[k]
    <3> DEFINE h == [st[1] EXCEPT !.i = @ + 1]
    <3>1. st[1] \in Frame BY <1>1
    <3>0. st[1].i + 1 \in Nat \ {0} BY <3>1 DEF Frame
    <3>2. h \in Frame BY <3>0, <3>1 DEF Frame
    <3>3. o = [st EXCEPT ![1] = h] BY DEF Onward
    <3> HIDE DEF h, o
    <3> QED BY <1>1, <3>2, <3>3
  <2>2. o[1].base = st[1].base BY OnwardBase
  <2> HIDE DEF o
  <2>3. o[Len(o)].base = <<>> BY <1>1, <2>1, <2>2
  <2> QED BY <2>3 DEF o
<1>3. ASSUME Len(st) > 1 PROVE Tail(st)[Len(Tail(st))].base = <<>>
  <2>1. Len(Tail(st)) = Len(st) - 1 /\ Len(Tail(st)) >= 1 BY <1>1, <1>3
  <2>2. \A k \in 1..(Len(st) - 1) : Tail(st)[k] = st[k + 1] BY <1>1
  <2> QED BY <1>1, <2>1, <2>2
<1>4. ASSUME NEW g PROVE (<<g>> \o st)[Len(<<g>> \o st)].base = <<>>
  <2>1. Len(<<g>> \o st) = 1 + Len(st) BY <1>1
  <2>2. \A k \in 1..Len(st) : (<<g>> \o st)[1 + k] = st[k] BY <1>1
  <2> QED BY <1>1, <2>1, <2>2
<1> QED BY <1>2, <1>3, <1>4

\* What the call at a step has completed.
LEMMA AtFilled ==
  ASSUME NEW q \in Call, Placed(q), TidyCall(q), Filled(q), NEW l \in Forward, At(q, l)
  PROVE  LET f == q.stack[1]
             J == CompletedPaths(q.mem)
             cp == q.mem.currentPath
         IN
         /\ Heading(q) = l /\ q.pc = l /\ q.mem.status = "running"
         /\ J \in SUBSET Path /\ \A a \in J : Odd(Len(a))
         /\ Rounds(J, q.mem.repeats) /\ Branches(J, Whither(l, q.mem, f))
         /\ q.stack[Len(q.stack)].base = <<>>
         /\ cp \in Path /\ f.base \in Path /\ Place(q) = Here(f) /\ Leads(f.base, Place(q))
         /\ Resumable(J, cp) /\ Route(J, cp)
         /\ l # "steps" => Leads(Place(q), cp)
         /\ \A b \in J : Under(b, Place(q)) => Under(b, f.base)
<1> DEFINE f == q.stack[1]
           J == CompletedPaths(q.mem)
           cp == q.mem.currentPath
<1>1. /\ q.pc = l /\ q.mem.status = "running" /\ f \in Frame /\ Framed(f) /\ f.i \in DOMAIN f.steps
      /\ J \in SUBSET Path /\ cp \in Path /\ Resumable(J, cp)
      /\ l # "steps" => Leads(Here(f), cp)
  BY AtPlaced
<1>2. Kempt(J, q.mem.repeats) /\ Heading(q) = l BY AtTidy
<1>3. \A a \in J : Odd(Len(a)) BY <1>2 DEF Kempt
<1>4. /\ Rounds(J, q.mem.repeats) /\ Branches(J, Whither(l, q.mem, f))
      /\ q.stack[Len(q.stack)].base = <<>>
  BY <1>2 DEF Filled
<1>5. f.base \in Path /\ Leads(f.base, Here(f)) BY <1>1, StepAtIs DEF Here
<1>6. \A b \in J : Under(b, Here(f)) => Under(b, f.base) BY <1>1, <1>3, BranchesUp
<1>7. Route(J, cp) BY <1>1 DEF Resumable
<1> HIDE DEF f, J, cp
<1> QED BY <1>1, <1>2, <1>3, <1>4, <1>5, <1>6, <1>7 DEF Place, f, J, cp

\* The call stays at its step, or leaves the forward path.
LEMMA PassFilled ==
  ASSUME NEW q \in Call, NEW n \in Call, Placed(q), Filled(q), Passes(q, n)
  PROVE  Filled(n)
<1> DEFINE J == CompletedPaths(q.mem)
           cp == q.mem.currentPath
           f == q.stack[1]
<1>0. J \in SUBSET Path /\ cp \in Path
  <2>1. q.mem \in RunState BY DEF Call
  <2> QED BY <2>1, PathsType
<1>1. /\ CompletedPaths(n.mem) = J /\ n.mem.repeats = q.mem.repeats
      /\ n.mem.status = "completed" => q.mem.status = "completed"
      /\ Firm(n) => Firm(q) /\ n.mem.currentPath = cp
      /\ Firm(n) /\ n.pc \notin Forward => q.pc # "steps"
      /\ Heading(n) \in Forward =>
           /\ n.stack = q.stack /\ n.mem.currentPath = cp
           /\ \/ Heading(n) = Heading(q)
              \/ Heading(n) \in InStep /\ Heading(q) \in InStep
  BY DEF Passes, SameTrack, CompletedPaths
<1>2. Rounds(CompletedPaths(n.mem), n.mem.repeats) /\ Whole(n.mem)
  BY <1>1 DEF Filled, Whole
<1>3. ASSUME Firm(n), n.pc \notin Forward PROVE Branches(J, cp)
  <2>1. Firm(q) /\ q.pc # "steps" BY <1>1, <1>3
  <2>2. CASE q.pc \notin Forward BY <2>1, <2>2 DEF Filled
  <2>3. CASE q.pc \in Forward
    <3>1. Heading(q) = q.pc /\ Heading(q) \in Forward BY <2>3 DEF Heading, Forward
    <3>2. Branches(J, Whither(q.pc, q.mem, f)) BY <3>1 DEF Filled
    <3>3. CASE q.pc = "until"
      <4>1. Chained(q.stack, q.mem) /\ Going("until", q.mem, f) BY <3>1, <3>3 DEF Placed
      <4>2. q.stack \in Seq(Frame) /\ q.stack # <<>> BY <4>1 DEF Chained, Call
      <4>3. f \in Frame /\ Framed(f) BY <4>1, <4>2 DEF Chained
      <4>4. Leads(Here(f), cp) /\ f.i \in DOMAIN f.steps BY <4>1 DEF Going, Asking
      <4>5. Here(f) \in Path BY <4>3, <4>4, HereIs
      <4>6. Branches(J, Here(f)) BY <3>2, <3>3 DEF Whither
      <4> HIDE DEF J, cp, f
      <4> QED BY <1>0, <4>4, <4>5, <4>6, BranchesOn
    <3>4. CASE q.pc # "until" BY <2>1, <3>2, <3>4 DEF Whither
    <3> QED BY <3>3, <3>4
  <2> QED BY <2>2, <2>3
<1>4. ASSUME Heading(n) \in Forward
      PROVE  /\ Branches(J, Whither(Heading(n), n.mem, n.stack[1]))
             /\ n.stack[Len(n.stack)].base = <<>>
             /\ Heading(n) = "until" => RepeatAt(n.mem, Here(n.stack[1])).awaiting
  <2>1. n.stack = q.stack /\ n.mem.currentPath = cp BY <1>1, <1>4
  <2>2. RepeatAt(n.mem, Here(f)) = RepeatAt(q.mem, Here(f)) BY <1>1 DEF RepeatAt
  <2>3. CASE Heading(n) = Heading(q)
    BY <1>4, <2>1, <2>2, <2>3 DEF Filled, Whither
  <2>4. CASE Heading(n) \in InStep /\ Heading(q) \in InStep
    <3>1. Heading(q) \in Forward /\ Heading(q) \notin {"steps", "until"}
          /\ Heading(n) \notin {"steps", "until"}
      BY <2>4 DEF InStep, Forward
    <3> QED BY <2>1, <3>1 DEF Filled, Whither
  <2> QED BY <1>1, <1>4, <2>3, <2>4
<1> HIDE DEF J, cp, f
<1>5. Firm(n) /\ n.pc \notin Forward => Branches(CompletedPaths(n.mem), n.mem.currentPath)
  BY <1>1, <1>3
<1>6. "until" \in Forward BY DEF Forward
<1> QED BY <1>1, <1>2, <1>4, <1>5, <1>6 DEF Filled

\* The top level begins or is resumed.
LEMMA SetOutFilled ==
  ASSUME NEW q \in Call, NEW n \in Call, Placed(q), Filled(q), SetsOut(q, n)
  PROVE  Filled(n)
<1> DEFINE J == CompletedPaths(q.mem)
           cp == q.mem.currentPath
<1>0. J \in SUBSET Path /\ cp \in Path
  <2>1. q.mem \in RunState BY DEF Call
  <2> QED BY <2>1, PathsType
<1>1. /\ CompletedPaths(n.mem) = J /\ n.mem.repeats = q.mem.repeats /\ n.mem.currentPath = cp
      /\ q.pc = "start" /\ n.pc = "snapshot" /\ Heading(n) = "steps"
      /\ GoesForward(q.mem) /\ n.mem.status = "running"
  BY DEF SetsOut, SameTrack, CompletedPaths
<1>2. PICK g : n.stack = <<g>> /\ g.base = <<>> /\ Resumes(g, cp) BY DEF SetsOut
<1>3. Firm(q) /\ q.pc \notin Forward BY <1>1 DEF Firm, Forward
<1>4. Branches(J, cp) /\ Rounds(J, q.mem.repeats) BY <1>3 DEF Filled
<1>5. Route(J, cp)
  <2>1. Sound(q.mem) BY <1>1 DEF Placed
  <2> QED BY <1>1, <2>1 DEF Sound, Resumable
<1>6. n.stack[1] = g /\ n.stack[Len(n.stack)].base = <<>> BY <1>2
<1>7. Branches(J, Whither("steps", n.mem, g))
  <2> HIDE DEF J, cp
  <2> QED BY <1>0, <1>1, <1>2, <1>4, <1>5, ResumeFilled
<1> QED BY <1>1, <1>4, <1>6, <1>7 DEF Filled, Whole

\* The loop over a scope goes on, or enters a step.
LEMMA LoopFilled ==
  ASSUME NEW q \in Call, NEW n \in Call, Placed(q), TidyCall(q), Filled(q),
         Skips(q, n) \/ Enters(q, n)
  PROVE  Filled(n)
<1> DEFINE J == CompletedPaths(q.mem)
           cp == q.mem.currentPath
           f == q.stack[1]
           x == Place(q)
<1>1. At(q, "steps") BY DEF Skips, Enters
<1>2. /\ q.stack \in Seq(Frame) /\ q.stack # <<>> /\ f \in Frame /\ Framed(f)
      /\ f.i \in DOMAIN f.steps /\ x \in Path /\ Going("steps", q.mem, f)
  BY <1>1, AtTidy DEF Forward
<1>3. /\ q.mem.status = "running" /\ J \in SUBSET Path /\ Heading(q) = "steps"
      /\ Rounds(J, q.mem.repeats) /\ Branches(J, Whither("steps", q.mem, f))
      /\ q.stack[Len(q.stack)].base = <<>>
      /\ cp \in Path /\ f.base \in Path /\ x = Here(f) /\ Leads(f.base, x)
      /\ \A b \in J : Under(b, x) => Under(b, f.base)
  BY <1>1, AtFilled DEF Forward
<1>4. CASE Skips(q, n)
  <2>1. /\ n.pc = "steps" /\ n.mem = q.mem /\ n.stack = Onward(q.stack) /\ f.i = f.start /\ x = cp
    BY <1>4 DEF Skips
  <2>2. Leads(x, cp) BY <1>2, <2>1, PathOrder
  <2>3. Branches(J, x) BY <1>2, <1>3, <2>1, <2>2 DEF Whither, Resuming
  <2>4. Branches(J, f.base) BY <1>3, <2>3 DEF Branches
  <2>5. /\ n.stack[1].base = f.base /\ n.stack[1].i = f.i + 1 /\ n.stack[1].start = f.start
        /\ n.stack[Len(n.stack)].base = <<>>
    BY <1>2, <1>3, <2>1, OnwardBase, BottomKept
  <2>6. n.stack[1].i # n.stack[1].start
    <3>1. f.i \in Nat BY <1>2 DEF Frame
    <3> QED BY <2>1, <2>5, <3>1
  <2>7. Whither("steps", n.mem, n.stack[1]) = f.base BY <2>5, <2>6 DEF Whither, Resuming
  <2>8. Heading(n) = "steps" /\ n.pc \in Forward BY <2>1 DEF Heading, Forward
  <2> HIDE DEF J, f
  <2> QED BY <1>3, <2>1, <2>4, <2>5, <2>7, <2>8 DEF Filled, Whole, J
<1>5. CASE Enters(q, n)
  <2>1. /\ n.pc \in InStep /\ n.stack = q.stack /\ CompletedPaths(n.mem) = J
        /\ n.mem.repeats = q.mem.repeats /\ n.mem.status = "running"
        /\ n.mem.currentPath = Entering(f)
    BY <1>3, <1>5 DEF Enters, SameTrack, CompletedPaths
  <2>2. f.i = f.start => f.resume = cp BY <1>2 DEF Going, Stands
  <2>3. Branches(J, Entering(f))
    <3>1. CASE Resuming(f, cp)
      <4>1. Branches(J, cp) BY <1>3, <3>1 DEF Whither
      <4>2. f.i = f.start /\ Leads(x, cp) BY <1>3, <3>1 DEF Resuming
      <4>3. cp = x \/ Under(x, cp) BY <1>2, <1>3, <4>2, PathOrder
      <4>4. Entering(f) = cp BY <1>3, <2>2, <4>2, <4>3 DEF Entering
      <4> QED BY <4>1, <4>4
    <3>2. CASE ~Resuming(f, cp)
      <4>1. Branches(J, f.base) BY <1>3, <3>2 DEF Whither
      <4>2. Branches(J, x)
        <5> HIDE DEF J, x, f
        <5> QED BY <1>2, <1>3, <4>1, BranchesOn
      <4>3. Under(x, cp) => Leads(x, cp) BY <1>2, <1>3, PathOrder
      <4>4. ~(f.i = f.start /\ Under(x, cp)) BY <1>2, <1>3, <3>2, <4>3 DEF Resuming
      <4>5. Entering(f) = x BY <1>3, <2>2, <4>4 DEF Entering
      <4> QED BY <4>2, <4>5
    <3> QED BY <3>1, <3>2
  <2>4. Heading(n) = n.pc /\ n.pc \in Forward /\ n.pc \notin {"steps", "until"}
    BY <2>1 DEF InStep, Heading, Forward
  <2>5. Whither(Heading(n), n.mem, n.stack[1]) = Entering(f) BY <2>1, <2>4 DEF Whither
  <2> HIDE DEF J, f
  <2> QED BY <1>3, <2>1, <2>3, <2>4, <2>5 DEF Filled, Whole
<1> QED BY <1>4, <1>5

\* The top level is done.
LEMMA EndFilled ==
  ASSUME NEW q \in Call, NEW n \in Call, Placed(q), Filled(q), Ends(q, n)
  PROVE  Filled(n)
<1> DEFINE J == CompletedPaths(q.mem)
           f == q.stack[1]
<1>1. /\ CompletedPaths(n.mem) = J /\ n.mem.repeats = q.mem.repeats
      /\ n.pc = "snapshot" /\ Heading(n) = "return" /\ n.mem.status = "completed"
      /\ q.pc = "steps" /\ Len(q.stack) = 1 /\ f.i \notin DOMAIN f.steps
  BY DEF Ends, SameTrack, CompletedPaths
<1>2. Heading(q) = "steps" /\ "steps" \in Forward BY <1>1 DEF Heading, Forward
<1>3. Chained(q.stack, q.mem) /\ Going("steps", q.mem, f) BY <1>2 DEF Placed
<1>4. q.stack \in Seq(Frame) /\ q.stack # <<>> BY <1>3 DEF Chained, Call
<1>5. f \in Frame /\ Framed(f) /\ Stands(J, q.mem.currentPath, f)
  BY <1>3, <1>4 DEF Chained, Going
<1>6. J \in SUBSET Path
  <2>1. q.mem \in RunState BY DEF Call
  <2> QED BY <2>1, PathsType
<1>7. Rounds(J, q.mem.repeats) /\ Branches(J, Whither("steps", q.mem, f)) /\ f.base = <<>>
  BY <1>1, <1>2 DEF Filled
<1>8. Branches(J, <<>>) BY <1>1, <1>7 DEF Whither, Resuming
<1>9. f.steps = Root BY <1>5, <1>7 DEF Framed, ScopeAt
<1>10. Full(J, <<>>, Root)
  <2> HIDE DEF J, f
  <2>1. Full(J, f.base, f.steps) BY <1>1, <1>5, <1>6, ScopeFull
  <2> QED BY <1>7, <1>9, <2>1
<1>11. ~Firm(n) /\ Heading(n) \notin Forward /\ Heading(n) # "until"
  BY <1>1 DEF Firm, GoesForward, Forward
<1> HIDE DEF J
<1> QED BY <1>1, <1>7, <1>8, <1>10, <1>11 DEF Filled, Whole

\* The state of a repeat is set to one that says the truth.
LEMMA SetRounds ==
  ASSUME NEW J, NEW R, Rounds(J, R), NEW s, RoundOf(J, s)
  PROVE  Rounds(J, Replaced(R, s))
<1>1. \A t \in Replaced(R, s) : t = s \/ t \in R BY DEF Replaced
<1> QED BY <1>1 DEF Rounds

\* A state with the same iteration, at the same point of it, says the same.
LEMMA SameRound ==
  ASSUME NEW m \in RunState, NEW J, J = CompletedPaths(m), Kempt(J, m.repeats),
         Rounds(J, m.repeats),
         NEW x \in Path, x # <<>>, Odd(Len(x)), Def[Last(x)].kind = "repeat",
         NEW s \in RepeatState, s.path = x, s.iteration = RepeatAt(m, x).iteration,
         s.awaiting = RepeatAt(m, x).awaiting
  PROVE  RoundOf(J, s)
<1>1. J \in SUBSET Path /\ m.repeats \in SUBSET RepeatState BY PathsType DEF RunState
<1>2. CASE \E r \in m.repeats : r.path = x
  <2>1. PICK r \in m.repeats : r.path = x BY <1>2
  <2>2. RepeatAt(m, x) = r BY <2>1, StateRead
  <2>3. RoundOf(J, r) BY DEF Rounds
  <2> QED BY <2>1, <2>2, <2>3 DEF RoundOf
<1>3. CASE ~\E r \in m.repeats : r.path = x
  <2>1. x \notin J
    <3>1. Leads(x, x) BY PathOrder
    <3>2. x \in J => x \in Known(J, m.repeats) BY DEF Known
    <3> QED BY <1>1, <1>3, <3>1, <3>2, KemptAt
  <2>2. s.iteration = 0 /\ s.awaiting = FALSE BY <1>3 DEF RepeatAt
  <2> QED BY <2>1, <2>2 DEF RoundOf
<1> QED BY <1>2, <1>3

\* The scope that is done, and the step it belongs to.
LEMMA DoneFilled ==
  ASSUME NEW q \in Call, Placed(q), TidyCall(q), Filled(q), q.pc = "steps", Len(q.stack) > 1,
         q.stack[1].i \notin DOMAIN q.stack[1].steps
  PROVE  LET f == q.stack[1]
             u == q.stack[2]
             c == Last(f.base)
             x == Here(u)
             J == CompletedPaths(q.mem)
         IN
         /\ q.mem.status = "running"
         /\ Rounds(J, q.mem.repeats) /\ Branches(J, f.base) /\ Full(J, f.base, f.steps)
         /\ f.base = Append(x, c) /\ Leads(x, f.base)
         /\ \A b \in J : Under(b, f.base) => b = x \/ Under(b, x)
         /\ \A b \in J : Under(b, x) => Under(b, u.base)
         /\ Def[Last(x)].kind = "branch" =>
               c \in DOMAIN Def[Last(x)].paths /\ f.steps = Def[Last(x)].paths[c]
         /\ Def[Last(x)].kind = "repeat" =>
              /\ c = RepeatAt(q.mem, x).iteration /\ f.steps = Def[Last(x)].body
              /\ \E r \in q.mem.repeats : r.path = x /\ r.iteration = c
         /\ Tail(q.stack)[Len(Tail(q.stack))].base = <<>>
<1> DEFINE f == q.stack[1]
           u == q.stack[2]
           c == Last(f.base)
           x == Here(u)
           J == CompletedPaths(q.mem)
           cp == q.mem.currentPath
           R == q.mem.repeats
<1>1. /\ q.mem \in RunState /\ R \in SUBSET RepeatState /\ J \in SUBSET Path
      /\ cp \in Path /\ f \in Frame /\ Framed(f) /\ u \in Frame /\ Framed(u)
      /\ u.i \in DOMAIN u.steps /\ f.base = Append(x, c)
      /\ Joined(f, u, q.mem) /\ Stands(J, cp, f)
      /\ x \in Path /\ x # <<>> /\ Odd(Len(x)) /\ Last(x) = u.steps[u.i] /\ f.base \in Path
      /\ Under(x, f.base) /\ Kempt(J, R) /\ Tied(R, f.base)
  BY DoneTidy
<1>2. Heading(q) = "steps" /\ "steps" \in Forward BY DEF Heading, Forward
<1>3. Going("steps", q.mem, f) /\ q.mem.status = "running" BY <1>2 DEF Placed, Going
<1>4. /\ Rounds(J, R) /\ Branches(J, Whither("steps", q.mem, f))
      /\ q.stack[Len(q.stack)].base = <<>>
  BY <1>2 DEF Filled
<1>5. Branches(J, f.base) BY <1>4 DEF Whither, Resuming
<1>6. Full(J, f.base, f.steps)
  <2> HIDE DEF J, f, cp
  <2>1. f.i \notin DOMAIN f.steps BY DEF f
  <2> QED BY <1>1, <2>1, ScopeFull
<1>7. \A a \in J : Odd(Len(a)) BY <1>1 DEF Kempt
<1>8. \A b \in J : Under(b, x) => Under(b, u.base)
  <2> HIDE DEF J
  <2> QED BY <1>1, <1>7, BranchesUp
<1>9. Leads(x, f.base)
  <2> HIDE DEF x, f
  <2> QED BY <1>1, PathOrder
<1>10. \A b \in J : Under(b, f.base) => b = x \/ Under(b, x)
  <2> HIDE DEF x, f, J, c
  <2>1. ASSUME NEW b \in J, Under(b, f.base) PROVE b = x \/ Under(b, x)
    <3>1. b \in Path /\ Len(b) \in Nat /\ Len(x) \in Nat /\ Len(f.base) = Len(x) + 1
          /\ \A e \in 1..Len(x) : f.base[e] = x[e]
      BY <1>1 DEF Path
    <3>2. Len(b) <= Len(x) BY <2>1, <3>1 DEF Under
    <3>3. \A e \in 1..Len(b) : e \in 1..Len(x) BY <3>1, <3>2
    <3>4. Leads(b, x) BY <2>1, <3>1, <3>2, <3>3 DEF Under, Leads, Agree
    <3> QED BY <1>1, <3>1, <3>4, PathOrder
  <2> QED BY <2>1
<1>11. f.steps = IF Def[Last(x)].kind = "branch" THEN Def[Last(x)].paths[c] ELSE Def[Last(x)].body
  <2> HIDE DEF x, f, c
  <2>1. f.steps = ScopeAt(f.base) BY <1>1 DEF Framed
  <2>2. /\ f.base # <<>> /\ Len(f.base) = Len(x) + 1 /\ Len(x) \in Nat /\ Len(x) >= 1
        /\ f.base[Len(x) + 1] = c /\ f.base[Len(x)] = x[Len(x)] /\ Last(x) = x[Len(x)]
    BY <1>1 DEF Path, Last
  <2>3. Last(f.base) = c /\ f.base[Len(f.base) - 1] = Last(x) BY <2>2 DEF Last
  <2> QED BY <2>1, <2>2, <2>3 DEF ScopeAt
<1>12. Def[Last(x)].kind = "branch" => c \in DOMAIN Def[Last(x)].paths
  <2>1. Route(J, f.base) BY <1>1 DEF Stands
  <2> HIDE DEF J, x, f, c
  <2>2. f.base[Len(x) + 1] = c BY <1>1 DEF Path
  <2> QED BY <1>1, <2>1, <2>2, Along
<1>13. ASSUME Def[Last(x)].kind = "repeat"
       PROVE  c = RepeatAt(q.mem, x).iteration /\ \E r \in R : r.path = x /\ r.iteration = c
  <2>1. c = RepeatAt(q.mem, x).iteration BY <1>1, <1>13 DEF Joined
  <2> HIDE DEF x, c, R
  <2>2. f.base[Len(x) + 1] = c BY <1>1 DEF Path
  <2> DEFINE y == f.base
  <2>3. y \in Path /\ Tied(R, y) /\ Under(x, y) /\ y[Len(x) + 1] = c BY <1>1, <2>2
  <2> HIDE DEF y
  <2>4. \E r \in R : r.path = x /\ r.iteration = y[Len(x) + 1] BY <1>1, <1>13, <2>3, TiedAt
  <2> QED BY <2>1, <2>3, <2>4
<1>14. Tail(q.stack)[Len(Tail(q.stack))].base = <<>>
  <2>1. q.stack \in Seq(Frame) /\ q.stack # <<>> BY DEF Call
  <2> QED BY <1>4, <2>1, BottomKept
<1> HIDE DEF f, u, c, x, J, cp, R
<1> QED BY <1>1, <1>3, <1>4, <1>5, <1>6, <1>8, <1>9, <1>10, <1>11, <1>12, <1>13, <1>14
        DEF f, u, c, x, J, cp, R

\* The path that a branch has chosen is done, or the body of a repeat.
LEMMA RiseFilled ==
  ASSUME NEW q \in Call, NEW n \in Call, Placed(q), TidyCall(q), Filled(q),
         Rises(q, n) \/ Closes(q, n)
  PROVE  Filled(n)
<1> DEFINE f == q.stack[1]
           u == q.stack[2]
           c == Last(f.base)
           x == Here(u)
           J == CompletedPaths(q.mem)
           R == q.mem.repeats
           st == Tail(q.stack)
<1>1. q.pc = "steps" /\ Len(q.stack) > 1 /\ f.i \notin DOMAIN f.steps BY DEF Rises, Closes
<1>2. /\ q.mem \in RunState /\ R \in SUBSET RepeatState /\ J \in SUBSET Path
      /\ u \in Frame /\ Framed(u) /\ u.i \in DOMAIN u.steps
      /\ st \in Seq(Frame) /\ st # <<>> /\ st[1] = u
      /\ x \in Path /\ x # <<>> /\ Odd(Len(x)) /\ Last(x) = u.steps[u.i]
      /\ f.base \in Path /\ Kempt(J, R)
  BY <1>1, DoneTidy
<1>3. /\ q.mem.status = "running"
      /\ Rounds(J, R) /\ Branches(J, f.base) /\ Full(J, f.base, f.steps)
      /\ f.base = Append(x, c)
      /\ \A b \in J : Under(b, f.base) => b = x \/ Under(b, x)
      /\ \A b \in J : Under(b, x) => Under(b, u.base)
      /\ Def[Last(x)].kind = "branch" =>
            c \in DOMAIN Def[Last(x)].paths /\ f.steps = Def[Last(x)].paths[c]
      /\ Def[Last(x)].kind = "repeat" =>
           /\ c = RepeatAt(q.mem, x).iteration /\ f.steps = Def[Last(x)].body
           /\ \E r \in R : r.path = x /\ r.iteration = c
      /\ st[Len(st)].base = <<>>
  BY <1>1, DoneFilled
<1>4. "steps" \in Forward /\ "until" \in Forward BY DEF Forward
<1>5. CASE Rises(q, n)
  <2>1. n.pc = "steps" /\ Heading(n) = "steps" /\ n.mem = q.mem /\ n.stack = Onward(st)
        /\ Def[Last(x)].kind = "branch"
    BY <1>2, <1>5 DEF Rises, Heading
  <2>2. /\ n.stack[1].base = u.base /\ n.stack[1].i = u.i + 1 /\ n.stack[1].start = u.start
        /\ n.stack[Len(n.stack)].base = <<>>
    BY <1>2, <1>3, <2>1, OnwardBase, BottomKept
  <2>3. n.stack[1].i # n.stack[1].start
    <3>1. u.i \in Nat /\ u.start \in Nat /\ u.start <= u.i BY <1>2 DEF Frame, Framed
    <3> QED BY <2>2, <3>1
  <2>4. Whither("steps", n.mem, n.stack[1]) = u.base BY <2>2, <2>3 DEF Whither, Resuming
  <2>5. Chosen(J, x) BY <1>3, <2>1 DEF Chosen
  <2>6. Branches(J, u.base) BY <1>3, <2>5 DEF Branches
  <2> HIDE DEF J, R
  <2> QED BY <1>3, <1>4, <2>1, <2>2, <2>4, <2>6 DEF Filled, Whole, J, R
<1>6. CASE Closes(q, n)
  <2> DEFINE r == RepeatAt(q.mem, x)
             s == [r EXCEPT !.awaiting = TRUE]
  <2>1. n.mem = SetRepeat(q.mem, s) /\ n.stack = st /\ n.pc = "until" /\ Heading(n) = "until"
        /\ Def[Last(x)].kind = "repeat"
    BY <1>2, <1>6 DEF Closes, Heading
  <2>2. r \in RepeatState /\ r.path = x BY <1>2, RepeatAtType
  <2>3. s \in RepeatState /\ s.path = x /\ s.iteration = r.iteration /\ s.awaiting = TRUE
    BY <2>2 DEF RepeatState
  <2> HIDE DEF s, r
  <2>4. /\ CompletedPaths(n.mem) = J /\ n.mem.repeats = Replaced(R, s)
        /\ n.mem.status = "running" /\ RepeatAt(n.mem, x) = s
    <3>1. RepeatAt(n.mem, s.path) = s /\ n.mem.completed = q.mem.completed
          /\ n.mem.status = q.mem.status
      BY <1>2, <2>1, <2>3, SetRepeatIs
    <3>2. n.mem.repeats = Replaced(R, s) BY <1>2, <2>1 DEF SetRepeat, Replaced, RunState
    <3> QED BY <1>3, <2>3, <3>1, <3>2 DEF CompletedPaths
  <2>5. r \in R
    <3>1. PICK t \in R : t.path = x BY <1>3, <2>1
    <3> QED BY <1>2, <3>1, StateRead DEF r
  <2>6. \A b \in J : Def[Last(b)].kind = "branch" => Chosen(J, b) \/ Under(b, x)
    BY <1>3, <2>1 DEF Branches
  <2>7. RoundOf(J, s)
    <3>1. ASSUME ~Def[Last(x)].compact, NEW k \in 0..s.iteration
          PROVE  Full(J, Append(x, k), Def[Last(x)].body)
      <4>1. s.iteration \in Nat BY <2>3 DEF RepeatState
      <4>2. CASE k < s.iteration
        <5>1. RoundOf(J, r) BY <1>3, <2>5 DEF Rounds
        <5>2. k \in 0..r.iteration /\ k < r.iteration BY <2>3, <4>2
        <5> QED BY <2>2, <3>1, <5>1, <5>2 DEF RoundOf
      <4>3. CASE k = s.iteration
        <5>1. Append(x, k) = f.base BY <1>3, <2>1, <2>3, <4>3 DEF r
        <5> QED BY <1>3, <2>1, <5>1
      <4> QED BY <4>1, <4>2, <4>3
    <3>2. ASSUME NEW b \in J, Under(x, b), Def[Last(b)].kind = "branch" PROVE Chosen(J, b)
      <4>1. ~Under(b, x)
        <5>1. Len(b) \in Nat /\ Len(x) \in Nat BY <1>2 DEF Path
        <5> QED BY <3>2, <5>1 DEF Under
      <4> QED BY <2>6, <3>2, <4>1
    <3> QED BY <2>3, <3>1, <3>2 DEF RoundOf
  <2>8. Rounds(J, Replaced(R, s)) BY <1>3, <2>7, SetRounds
  <2>9. Branches(J, x) BY <2>6 DEF Branches
  <2>10. Whither("until", n.mem, n.stack[1]) = x /\ Here(n.stack[1]) = x BY <1>2, <2>1 DEF Whither
  <2> HIDE DEF J, R, x, st
  <2> QED BY <1>3, <1>4, <2>1, <2>3, <2>4, <2>8, <2>9, <2>10 DEF Filled, Whole
<1> QED BY <1>5, <1>6

\* Of two paths on the way to a third, one leads to the other.
LEMMA Fork ==
  ASSUME NEW q \in Path, NEW r \in Path, NEW a \in Path, Leads(q, a), Leads(r, a)
  PROVE  q = r \/ Under(q, r) \/ Under(r, q)
<1>1. Len(q) \in Nat /\ Len(r) \in Nat BY DEF Path
<1>2. /\ \A e \in 1..Len(q) : q[e] = a[e]
      /\ \A e \in 1..Len(r) : r[e] = a[e]
  BY DEF Leads, Agree
<1>3. CASE Len(q) < Len(r)
  <2>1. \A e \in 1..Len(q) : e \in 1..Len(r) BY <1>1, <1>3
  <2> QED BY <1>2, <1>3, <2>1 DEF Under, Agree
<1>4. CASE Len(r) < Len(q)
  <2>1. \A e \in 1..Len(r) : e \in 1..Len(q) BY <1>1, <1>4
  <2> QED BY <1>2, <1>4, <2>1 DEF Under, Agree
<1>5. CASE Len(q) = Len(r)
  <2>1. Leads(q, r) /\ Len(r) <= Len(q) BY <1>1, <1>2, <1>5 DEF Leads, Agree
  <2> QED BY <2>1, PathOrder
<1> QED BY <1>1, <1>3, <1>4, <1>5

\* The clock of a repeat starts.
LEMMA ClockFilled ==
  ASSUME NEW q \in Call, NEW n \in Call, Placed(q), TidyCall(q), Filled(q), Clocks(q, n)
  PROVE  Filled(n)
<1> DEFINE x == Place(q)
           J == CompletedPaths(q.mem)
           R == q.mem.repeats
           cp == q.mem.currentPath
           r == RepeatAt(q.mem, x)
           s == [r EXCEPT !.startedAt = now]
<1>1. At(q, "repeatStart") /\ "repeatStart" \in Forward BY DEF Clocks, Forward
<1>2. /\ q.mem \in RunState /\ J \in SUBSET Path /\ Heading(q) = "repeatStart"
      /\ x \in Path /\ x # <<>> /\ Odd(Len(x)) /\ Def[Last(x)] = DefAt(q) /\ Kempt(J, R)
  BY <1>1, AtTidy
<1>3. /\ q.mem.status = "running" /\ Rounds(J, R)
      /\ Branches(J, Whither("repeatStart", q.mem, q.stack[1]))
      /\ q.stack[Len(q.stack)].base = <<>>
  BY <1>1, AtFilled
<1>4. Branches(J, cp) BY <1>3 DEF Whither
<1>5. Def[Last(x)].kind = "repeat" BY <1>2 DEF TidyCall
<1>6. /\ n.mem = SetRepeat(q.mem, s) /\ n.stack = q.stack /\ n.pc = "snapshot"
      /\ Heading(n) = "repeatCheck"
  BY DEF Clocks
<1>7. r \in RepeatState /\ r.path = x BY <1>2, RepeatAtType
<1>8. s.path = x /\ s.iteration = r.iteration /\ s.awaiting = r.awaiting BY <1>7 DEF RepeatState
<1>9. n.mem.repeats = Replaced(R, s) BY <1>2, <1>6 DEF SetRepeat, RunState, Replaced
<1>10. s \in RepeatState
  <2>1. s \in n.mem.repeats BY <1>9 DEF Replaced
  <2>2. n.mem \in RunState BY DEF Call
  <2> QED BY <2>1, <2>2 DEF RunState
<1> HIDE DEF s, r, x, J, R
<1>11. /\ CompletedPaths(n.mem) = J /\ n.mem.status = "running" /\ n.mem.currentPath = cp
  BY <1>2, <1>3, <1>6, <1>10, SetRepeatIs DEF CompletedPaths, J
<1>12. RoundOf(J, s)
  <2> DEFINE m == q.mem
  <2>1. /\ m \in RunState /\ J = CompletedPaths(m) /\ Kempt(J, m.repeats) /\ Rounds(J, m.repeats)
        /\ s.iteration = RepeatAt(m, x).iteration /\ s.awaiting = RepeatAt(m, x).awaiting
    BY <1>2, <1>3, <1>8 DEF J, R, r
  <2> HIDE DEF m
  <2> QED BY <1>2, <1>5, <1>8, <1>10, <2>1, SameRound
<1>13. Rounds(J, Replaced(R, s)) BY <1>3, <1>12, SetRounds
<1>14. Whither("repeatCheck", n.mem, n.stack[1]) = cp BY <1>11 DEF Whither
<1> QED BY <1>3, <1>4, <1>6, <1>9, <1>11, <1>13, <1>14 DEF Filled, Whole

\* An iteration of a repeat begins or is resumed.
LEMMA BeginFilled ==
  ASSUME NEW q \in Call, NEW n \in Call, Placed(q), TidyCall(q), Filled(q), Begins(q, n)
  PROVE  Filled(n)
<1> DEFINE x == Place(q)
           J == CompletedPaths(q.mem)
           R == q.mem.repeats
           cp == q.mem.currentPath
           r == RepeatAt(q.mem, x)
<1>1. At(q, "call") /\ "call" \in Forward BY DEF Begins, Forward
<1>2. /\ q.mem \in RunState /\ J \in SUBSET Path /\ cp \in Path /\ R \in SUBSET RepeatState
      /\ x \in Path /\ x # <<>> /\ Odd(Len(x)) /\ Def[Last(x)] = DefAt(q) /\ Kempt(J, R)
      /\ Tied(R, cp) /\ q.stack \in Seq(Frame) /\ q.stack # <<>>
  BY <1>1, AtTidy
<1>3. /\ q.mem.status = "running" /\ Rounds(J, R) /\ Branches(J, Whither("call", q.mem, q.stack[1]))
      /\ q.stack[Len(q.stack)].base = <<>> /\ Leads(x, cp) /\ Route(J, cp) /\ x = Here(q.stack[1])
  BY <1>1, AtFilled
<1>4. Branches(J, cp) BY <1>3 DEF Whither
<1>5. Def[Last(x)].kind = "repeat" BY <1>2 DEF Begins
<1>7. r \in RepeatState /\ r.path = x BY <1>2, RepeatAtType
<1>6. PICK it \in Nat :
        /\ \/ cp = x /\ it = r.iteration
           \/ Under(x, cp) /\ it = cp[Len(x) + 1]
        /\ n.mem = SetRepeat(q.mem, [r EXCEPT !.iteration = it])
        /\ \/ r.awaiting /\ n.pc = "until" /\ n.stack = q.stack
           \/ /\ ~r.awaiting /\ n.pc = "steps"
              /\ \E g : /\ g.base = Append(x, it) /\ n.stack = <<g>> \o q.stack
                        /\ g \in Frame /\ Framed(g)
                        /\ Under(x, cp) => Resumes(g, cp)
  BY DEF Begins
<1> DEFINE s == [r EXCEPT !.iteration = it]
<1>8. s \in RepeatState /\ s.path = x /\ s.iteration = it /\ s.awaiting = r.awaiting
  BY <1>7 DEF RepeatState
<1>9. r.iteration = it
  <2> HIDE DEF x, r, R, J, cp
  <2>1. CASE Under(x, cp)
    <3>1. ~(cp = x) BY <1>2, <2>1, PathOrder
    <3>2. PICK t \in R : t.path = x /\ t.iteration = it
      BY <1>2, <1>5, <1>6, <2>1, <3>1, TiedAt
    <3> QED BY <1>2, <3>2, StateRead DEF r, R, J
  <2> QED BY <1>6, <2>1
<1> HIDE DEF s, r, x, J, R
<1>10. n.mem = SetRepeat(q.mem, s) BY <1>6 DEF s
<1>11. n.mem.repeats = Replaced(R, s) BY <1>2, <1>10 DEF SetRepeat, RunState, Replaced, R
<1>12. /\ CompletedPaths(n.mem) = J /\ n.mem.status = "running" /\ n.mem.currentPath = cp
       /\ RepeatAt(n.mem, x) = s
  BY <1>2, <1>3, <1>8, <1>10, SetRepeatIs DEF CompletedPaths, J
<1>13. RoundOf(J, s)
  <2> DEFINE m == q.mem
  <2>1. /\ m \in RunState /\ J = CompletedPaths(m) /\ Kempt(J, m.repeats) /\ Rounds(J, m.repeats)
        /\ s.iteration = RepeatAt(m, x).iteration /\ s.awaiting = RepeatAt(m, x).awaiting
    BY <1>2, <1>3, <1>8, <1>9 DEF J, R, r
  <2> HIDE DEF m
  <2> QED BY <1>2, <1>5, <1>8, <2>1, SameRound
<1>14. Rounds(J, Replaced(R, s)) BY <1>3, <1>13, SetRounds
<1>15. CASE r.awaiting /\ n.pc = "until" /\ n.stack = q.stack
  <2>1. r \in R
    <3>1. \E t \in R : t.path = x BY <1>15 DEF r, R, RepeatAt
    <3>2. PICK t \in R : t.path = x BY <3>1
    <3> QED BY <1>2, <3>2, StateRead DEF r, R
  <2>2. \A b \in J : Under(x, b) /\ Def[Last(b)].kind = "branch" => Chosen(J, b)
    BY <1>3, <1>7, <1>15, <2>1 DEF Rounds, RoundOf
  <2>3. ASSUME NEW b \in J, Def[Last(b)].kind = "branch", ~Chosen(J, b) PROVE Under(b, x)
    <3>1. b \in Path /\ Under(b, cp) BY <1>2, <1>4, <2>3 DEF Branches
    <3>2. Leads(b, cp) BY <1>2, <3>1, PathOrder
    <3>3. b = x \/ Under(b, x) \/ Under(x, b) BY <1>2, <1>3, <3>1, <3>2, Fork
    <3> QED BY <1>5, <2>2, <2>3, <3>3
  <2>4. Branches(J, x) BY <2>3 DEF Branches
  <2>5. Heading(n) = "until" /\ n.pc \in Forward BY <1>15 DEF Heading, Forward
  <2>6. Whither("until", n.mem, n.stack[1]) = x BY <1>3, <1>15 DEF Whither
  <2>7. RepeatAt(n.mem, Here(n.stack[1])).awaiting BY <1>3, <1>8, <1>12, <1>15
  <2> QED BY <1>3, <1>11, <1>12, <1>14, <1>15, <2>4, <2>5, <2>6, <2>7 DEF Filled, Whole
<1>16. CASE ~r.awaiting /\ n.pc = "steps"
  <2>1. PICK g : /\ g.base = Append(x, it) /\ n.stack = <<g>> \o q.stack
                 /\ g \in Frame /\ Framed(g)
                 /\ Under(x, cp) => Resumes(g, cp)
    BY <1>6, <1>16
  <2>2. Heading(n) = "steps" /\ n.pc \in Forward BY <1>16 DEF Heading, Forward
  <2>3. n.stack[1] = g BY <1>2, <2>1
  <2>4. n.stack[Len(n.stack)].base = <<>> BY <1>2, <1>3, <2>1, BottomKept
  <2>5. Branches(J, Whither("steps", n.mem, g))
    <3>1. CASE Under(x, cp)
      BY <1>2, <1>3, <1>4, <1>12, <2>1, <3>1, ResumeFilled
    <3>2. CASE cp = x
      <4>1. g.base \in Path /\ Append(x, it) \in Path BY <2>1 DEF Frame
      <4>2. Leads(x, g.base) BY <1>2, <2>1, <4>1, PathOrder
      <4>3. Branches(J, g.base) BY <1>2, <1>4, <3>2, <4>1, <4>2, BranchesOn
      <4> QED BY <1>4, <1>12, <4>3 DEF Whither
    <3> QED BY <1>6, <3>1, <3>2
  <2> QED BY <1>3, <1>11, <1>12, <1>14, <1>16, <2>2, <2>3, <2>4, <2>5 DEF Filled, Whole
<1> QED BY <1>6, <1>15, <1>16

\* A step that is no repeat is completed: of the repeats that wait for their condition,
\* those above it have no branch half done.
LEMMA RoundsGrow ==
  ASSUME NEW J, NEW R, Rounds(J, R), NEW x, NEW K, K = J \cup {x},
         \A t \in R : t.path # x,
         \A t \in R : t.awaiting /\ Under(t.path, x) /\ Def[Last(x)].kind = "branch" => Chosen(K, x)
  PROVE  Rounds(K, R)
<1> SUFFICES ASSUME NEW t \in R PROVE RoundOf(K, t) BY DEF Rounds
<1>1. RoundOf(J, t) BY DEF Rounds
<1>2. /\ \A base, steps : Full(J, base, steps) => Full(K, base, steps)
      /\ \A b : Chosen(J, b) => Chosen(K, b)
  BY FullGrows
<1>3. t.path \in K => t.path \in J OBVIOUS
<1>4. ASSUME ~Def[Last(t.path)].compact, NEW n \in 0..t.iteration,
             n < t.iteration \/ t.awaiting \/ t.path \in K
      PROVE  Full(K, Append(t.path, n), Def[Last(t.path)].body)
  BY <1>1, <1>2, <1>3, <1>4 DEF RoundOf
<1>5. ASSUME t.awaiting, NEW b \in K, Under(t.path, b), Def[Last(b)].kind = "branch"
      PROVE  Chosen(K, b)
  <2>1. CASE b \in J BY <1>1, <1>2, <1>5, <2>1 DEF RoundOf
  <2>2. CASE b = x BY <1>5, <2>2
  <2> QED BY <2>1, <2>2
<1> QED BY <1>4, <1>5 DEF RoundOf

\* A step is completed, or a branch chooses a path or is resumed.
LEMMA DoneStepFilled ==
  ASSUME NEW q \in Call, NEW n \in Call, Placed(q), TidyCall(q), Windowed(q), Filled(q),
         Records(q, n) \/ Decides(q, n) \/ GoesDown(q, n)
  PROVE  Filled(n)
<1> DEFINE f == q.stack[1]
           x == Place(q)
           J == CompletedPaths(q.mem)
           R == q.mem.repeats
           cp == q.mem.currentPath
           K == J \cup {x}
<1>1. At(q, "call") /\ "call" \in Forward /\ "steps" \in Forward
  BY DEF Records, Decides, GoesDown, Forward
<1>2. /\ q.mem \in RunState /\ J \in SUBSET Path /\ cp \in Path /\ f \in Frame /\ Framed(f)
      /\ f.i \in DOMAIN f.steps
      /\ x \in Path /\ x # <<>> /\ Odd(Len(x)) /\ Def[Last(x)] = DefAt(q) /\ Kempt(J, R)
      /\ q.stack \in Seq(Frame) /\ q.stack # <<>>
  BY <1>1, AtTidy
<1>3. /\ q.mem.status = "running" /\ Rounds(J, R) /\ Branches(J, Whither("call", q.mem, f))
      /\ q.stack[Len(q.stack)].base = <<>> /\ Leads(x, cp) /\ Route(J, cp) /\ x = Here(f)
      /\ \A b \in J : Under(b, x) => Under(b, f.base)
  BY <1>1, AtFilled
<1>4. Branches(J, cp) BY <1>3 DEF Whither
<1>5. \A b : Chosen(J, b) => Chosen(K, b) BY FullGrows
<1>6. ASSUME DefAt(q).kind # "repeat" PROVE \A t \in R : t.path # x
  <2> HIDE DEF x, R, J
  <2> QED BY <1>2, <1>6 DEF Kempt
<1> HIDE DEF x, J, R, K
<1>7. CASE Records(q, n)
  <2>1. /\ n.pc = "snapshot" /\ Heading(n) = "steps" /\ n.stack = Onward(q.stack)
        /\ DefAt(q).kind # "repeat" /\ cp = x /\ n.mem.currentPath = x
        /\ DefAt(q).kind = "branch" => \E k \in DOMAIN DefAt(q).paths : DefAt(q).paths[k] = <<>>
        /\ CompletedPaths(n.mem) = K /\ n.mem.repeats = R /\ n.mem.status = "running"
    BY <1>7 DEF Records, x, J, R, K
  <2>2. Def[Last(x)].kind = "branch" => Chosen(K, x)
    <3>1. \A base : Full(K, base, <<>>) BY DEF Full
    <3> QED BY <1>2, <2>1, <3>1 DEF Chosen
  <2>3. Rounds(K, R) BY <1>3, <1>6, <2>1, <2>2, RoundsGrow DEF K
  <2>4. Branches(K, x) BY <1>4, <1>5, <2>1, <2>2 DEF Branches, K
  <2>5. Branches(K, f.base) BY <1>3, <1>4, <1>5, <2>1, <2>2 DEF Branches, K
  <2>6. /\ n.stack[1].base = f.base /\ n.stack[1].i = f.i + 1 /\ n.stack[1].start = f.start
        /\ n.stack[Len(n.stack)].base = <<>>
    BY <1>2, <1>3, <2>1, OnwardBase, BottomKept
  <2>7. n.stack[1].i # n.stack[1].start
    <3>1. f.i \in Nat /\ f.start \in Nat /\ f.start <= f.i BY <1>2 DEF Frame, Framed
    <3> QED BY <2>6, <3>1
  <2>8. Whither("steps", n.mem, n.stack[1]) = f.base BY <2>6, <2>7 DEF Whither, Resuming
  <2> HIDE DEF f
  <2> QED BY <2>1, <2>3, <2>4, <2>5, <2>6, <2>8 DEF Filled, Whole
<1>8. CASE Decides(q, n)
  <2>1. /\ n.pc = "snapshot" /\ Heading(n) = "steps" /\ DefAt(q).kind = "branch" /\ cp = x
        /\ CompletedPaths(n.mem) = K /\ n.mem.repeats = R /\ n.mem.status = "running"
    BY <1>8 DEF Decides, x, J, R, K
  <2>2. PICK key, g : /\ g.base = Append(x, key) /\ g.base \in Path
                      /\ n.mem.currentPath = g.base /\ n.stack = <<g>> \o q.stack
    BY <1>8 DEF Decides, x
  <2>3. ASSUME NEW t \in R, t.awaiting, Under(t.path, x) PROVE FALSE
    <3>1. Awake(q.mem, f.base) BY <1>1, AtWindowed DEF Descends
    <3>2. Awake(q.mem, x) BY <1>2, <1>3, <3>1, AwakeHere
    <3>3. Odd(Len(t.path)) /\ Def[Last(t.path)].kind = "repeat" BY <1>2 DEF Kempt
    <3> QED BY <2>3, <3>2, <3>3 DEF Awake, R
  <2>4. Rounds(K, R) BY <1>3, <1>6, <2>1, <2>3, RoundsGrow DEF K
  <2>5. Leads(x, g.base) /\ Under(x, g.base) BY <1>2, <2>2, PathOrder
  <2>6. Branches(K, g.base)
    <3>1. Branches(J, g.base) BY <1>2, <1>4, <2>1, <2>2, <2>5, BranchesOn
    <3> QED BY <1>5, <2>5, <3>1 DEF Branches, K
  <2>7. n.stack[1] = g BY <1>2, <2>2
  <2>8. n.stack[Len(n.stack)].base = <<>> BY <1>2, <1>3, <2>2, BottomKept
  <2>9. Whither("steps", n.mem, g) = g.base BY <2>2 DEF Whither
  <2> QED BY <2>1, <2>2, <2>4, <2>6, <2>7, <2>8, <2>9 DEF Filled, Whole
<1>9. CASE GoesDown(q, n)
  <2>1. n.pc = "steps" /\ Heading(n) = "steps" /\ n.mem = q.mem
    BY <1>9 DEF GoesDown, Heading
  <2>2. PICK g : n.stack = <<g>> \o q.stack /\ Resumes(g, cp) BY <1>9 DEF GoesDown
  <2>3. n.stack[1] = g
    <3>1. g \in Frame BY <2>2 DEF Resumes
    <3> QED BY <1>2, <2>2, <3>1
  <2>4. n.stack[Len(n.stack)].base = <<>> BY <1>2, <1>3, <2>2, BottomKept
  <2>5. Branches(J, Whither("steps", n.mem, g))
    BY <1>2, <1>3, <1>4, <2>1, <2>2, ResumeFilled
  <2> QED BY <1>1, <1>3, <2>1, <2>3, <2>4, <2>5 DEF Filled, Whole, J, R
<1> QED BY <1>7, <1>8, <1>9

\* What is forgotten below the even path y takes nothing from a scope that does not lie
\* below y.
LEMMA ScopeKept ==
  ASSUME NEW J \in SUBSET Path, NEW K, NEW y \in Path, ~Odd(Len(y)), \A a \in J \ K : Leads(y, a),
         NEW b \in Path, Odd(Len(b)), ~Leads(y, b), NEW c, NEW z, z = Append(b, c), y # z,
         NEW steps, Full(J, z, steps)
  PROVE  Full(K, z, steps)
<1> SUFFICES ASSUME NEW i \in DOMAIN steps, Append(z, steps[i]) \notin K PROVE FALSE
  BY DEF Full
<1> DEFINE a == Append(z, steps[i])
           l == Len(b)
<1>1. a \in J /\ a \in Path BY DEF Full
<1>0. z \in Path
  <2> DEFINE S == Segment \cup {c, steps[i]}
  <2>1. b \in Seq(Segment) /\ Segment \subseteq S /\ c \in S /\ steps[i] \in S BY DEF Path
  <2> HIDE DEF S
  <2>2. b \in Seq(S) BY <2>1
  <2>3. z \in Seq(S) /\ Len(z) = l + 1 /\ z[l + 1] = c /\ l \in Nat BY <2>1, <2>2
  <2>4. a[l + 1] = c /\ Len(a) = l + 2 BY <2>1, <2>3
  <2>5. a \in Seq(Segment) BY <1>1 DEF Path
  <2>6. c \in Segment
    <3> HIDE DEF a, l
    <3> QED BY <2>3, <2>4, <2>5
  <2>7. z \in Seq(Segment) BY <2>1, <2>6
  <2> QED BY <2>7 DEF Path
<1>2. Leads(y, a) BY <1>1
<1>3. /\ l \in Nat /\ Len(y) \in Nat /\ Len(z) = l + 1 /\ Len(a) = l + 2
      /\ \A e \in 1..(l + 1) : a[e] = z[e]
      /\ \A e \in 1..l : z[e] = b[e]
  BY <1>0 DEF Path
<1> HIDE DEF a, l
<1>4. ~Odd(l + 1) /\ Odd(l + 2)
  <2>1. Odd(l) BY DEF l
  <2>2. Odd(l + 1) <=> ~Odd(l) BY <1>3, Parity
  <2>3. l + 1 \in Nat /\ (l + 1) + 1 = l + 2 BY <1>3
  <2>4. Odd((l + 1) + 1) <=> ~Odd(l + 1) BY <2>3, Parity
  <2> QED BY <2>1, <2>2, <2>3, <2>4
<1>5. Len(y) # l + 2 BY <1>4
<1>6. Len(y) <= l + 1 /\ \A e \in 1..Len(y) : y[e] = a[e] BY <1>2, <1>3, <1>5 DEF Leads, Agree
<1>7. \A e \in 1..Len(y) : e \in 1..(l + 1) BY <1>3, <1>6
<1>8. Leads(y, z) BY <1>3, <1>6, <1>7 DEF Leads, Agree
<1>9. CASE Len(y) = l + 1
  <2>1. Len(z) <= Len(y) BY <1>3, <1>9
  <2>2. z = y BY <1>0, <1>8, <2>1, PathOrder
  <2> QED BY <2>2
<1>10. CASE Len(y) <= l
  <2>1. \A e \in 1..Len(y) : e \in 1..l BY <1>3, <1>10
  <2>2. Leads(y, b) BY <1>3, <1>6, <1>7, <1>10, <2>1 DEF Leads, Agree, l
  <2> QED BY <2>2
<1> QED BY <1>3, <1>6, <1>9, <1>10

\* What is retained of the last iteration of the repeat at x keeps what is completed.
LEMMA RetainedFilled ==
  ASSUME NEW m \in RunState, Tidy(m), NEW x \in Path, x # <<>>, Odd(Len(x)),
         Def[Last(x)].kind = "repeat", Route(CompletedPaths(m), x), Tied(m.repeats, x),
         Rounds(CompletedPaths(m), m.repeats), Branches(CompletedPaths(m), x)
  PROVE  LET k == Retained(m, x)
             K == CompletedPaths(k)
         IN
         /\ Rounds(K, k.repeats) /\ Branches(K, x)
<1> DEFINE k == Retained(m, x)
           J == CompletedPaths(m)
           R == m.repeats
           K == CompletedPaths(k)
           n == RepeatAt(m, x).iteration
           y == Append(x, n)
<1>1. J \in SUBSET Path /\ R \in SUBSET RepeatState BY PathsType DEF RunState
<1>2. /\ Tidy(k) /\ K \in SUBSET J
      /\ \A a \in J \ K : Leads(y, a)
      /\ Def[Last(x)].compact =>
           /\ \A a \in Known(K, k.repeats) : ~Under(x, a) /\ ~Leads(y, a)
           /\ k.repeats = {r \in R : ~Leads(y, r.path)}
      /\ ~Def[Last(x)].compact => k = m
      /\ y \in Path
  BY RetainedIs
<1>3. Len(y) = Len(x) + 1 /\ Len(x) \in Nat BY DEF Path
<1>4. ~Odd(Len(y)) BY <1>3, Parity
<1>5. \A b, c : Append(b, c) = y /\ b \in Path => b = x
  <2>1. ASSUME NEW b \in Path, NEW c, Append(b, c) = Append(x, n) PROVE b = x
    <3>0. b \in Seq(Segment \cup {c}) /\ x \in Seq(Segment \cup {n}) BY DEF Path
    <3>1. /\ Len(b) \in Nat /\ Len(x) \in Nat
          /\ Len(Append(b, c)) = Len(b) + 1 /\ Len(Append(x, n)) = Len(x) + 1
          /\ \A e \in 1..Len(b) : Append(b, c)[e] = b[e]
          /\ \A e \in 1..Len(x) : Append(x, n)[e] = x[e]
      <4> HIDE DEF n
      <4> QED BY <3>0
    <3>2. Len(b) = Len(x) BY <2>1, <3>1
    <3>3. Leads(b, x) BY <2>1, <3>1, <3>2 DEF Leads, Agree
    <3> QED BY <3>1, <3>2, <3>3, PathOrder
  <2> QED BY <2>1
<1>6. CASE ~Def[Last(x)].compact
  <2>1. k = m BY <1>2, <1>6
  <2> HIDE DEF k
  <2> QED BY <2>1 DEF k
<1>7. CASE Def[Last(x)].compact
  <2> HIDE DEF k, n, y, K, J, R
  <2>1. /\ k.repeats \in SUBSET R /\ \A r \in k.repeats : ~Leads(y, r.path)
        /\ \A a \in K : ~Leads(y, a) /\ ~Under(x, a)
    BY <1>2, <1>7 DEF Known
  <2>2. \A a \in J : Odd(Len(a)) BY DEF Tidy, Kempt, J
  <2>3. ASSUME NEW b \in Path, Odd(Len(b)), ~Leads(y, b), b # x, NEW c,
               NEW steps, Full(J, Append(b, c), steps)
        PROVE  Full(K, Append(b, c), steps)
    <3>1. y # Append(b, c) BY <1>5, <2>3
    <3> DEFINE z == Append(b, c)
    <3>2. z = Append(b, c) /\ y # z /\ Full(J, z, steps) BY <2>3, <3>1
    <3> HIDE DEF z
    <3>3. Full(K, z, steps) BY <1>1, <1>2, <1>4, <2>3, <3>2, ScopeKept
    <3> QED BY <3>2, <3>3
  <2>4. ASSUME NEW b \in K, Def[Last(b)].kind = "branch", Chosen(J, b) PROVE Chosen(K, b)
    <3>1. PICK c \in DOMAIN Def[Last(b)].paths : Full(J, Append(b, c), Def[Last(b)].paths[c])
      BY <2>4 DEF Chosen
    <3>2. b \in Path /\ Odd(Len(b)) /\ ~Leads(y, b) /\ b # x
      BY <1>1, <1>2, <2>1, <2>2, <2>4
    <3>4. Full(K, Append(b, c), Def[Last(b)].paths[c]) BY <2>3, <3>1, <3>2
    <3> QED BY <3>1, <3>4 DEF Chosen
  <2>5. ASSUME NEW t \in k.repeats PROVE RoundOf(K, t)
    <3>1. /\ t \in R /\ t \in RepeatState /\ t.path \in Path /\ ~Leads(y, t.path)
          /\ t.iteration \in Nat
      BY <1>1, <2>1, <2>5 DEF RepeatState
    <3>2. RoundOf(J, t) BY <3>1 DEF Rounds, J, R
    <3>3. Odd(Len(t.path)) BY <3>1 DEF Tidy, Kempt, R
    <3>4. t.awaiting => \A b \in K : Under(t.path, b) /\ Def[Last(b)].kind = "branch" =>
             Chosen(K, b)
      BY <1>2, <2>4, <3>2 DEF RoundOf
    <3>5. ASSUME ~Def[Last(t.path)].compact, NEW i \in 0..t.iteration,
                 i < t.iteration \/ t.awaiting \/ t.path \in K
          PROVE  Full(K, Append(t.path, i), Def[Last(t.path)].body)
      <4>1. Full(J, Append(t.path, i), Def[Last(t.path)].body)
        BY <1>2, <3>2, <3>5 DEF RoundOf
      <4>2. t.path # x BY <1>7, <3>5
      <4> QED BY <2>3, <3>1, <3>3, <4>1, <4>2
    <3> QED BY <3>4, <3>5 DEF RoundOf
  <2>6. Rounds(K, k.repeats) BY <2>5 DEF Rounds
  <2>7. Branches(K, x)
    <3>1. Branches(J, x) BY DEF J
    <3>2. K \in SUBSET J BY <1>2
    <3> QED BY <2>4, <3>1, <3>2 DEF Branches
  <2> QED BY <2>6, <2>7 DEF k, K
<1> QED BY <1>6, <1>7

\* The condition of a repeat is known.
LEMMA UntilFilled ==
  ASSUME NEW q \in Call, NEW n \in Call, Placed(q), TidyCall(q), Filled(q),
         UntilDone(q, n) \/ UntilMore(q, n) \/ UntilFails(q, n)
  PROVE  Filled(n)
<1> DEFINE f == q.stack[1]
           x == Place(q)
           J == CompletedPaths(q.mem)
           R == q.mem.repeats
           r == RepeatAt(q.mem, x)
           k == Retained(q.mem, x)
           K == CompletedPaths(k)
           y == Append(x, r.iteration)
<1>1. At(q, "until") /\ "until" \in Forward /\ "steps" \in Forward
  BY DEF UntilDone, UntilMore, UntilFails, Forward
<1>2. /\ q.mem \in RunState /\ R \in SUBSET RepeatState /\ J \in SUBSET Path
      /\ q.stack \in Seq(Frame) /\ q.stack # <<>> /\ f \in Frame
      /\ x \in Path /\ x # <<>> /\ Odd(Len(x)) /\ Def[Last(x)] = DefAt(q) /\ Route(J, x)
      /\ Kempt(J, R) /\ Tied(R, x) /\ Going("until", q.mem, f) /\ Heading(q) = "until"
      /\ Framed(f) /\ f.i \in DOMAIN f.steps
  BY <1>1, AtTidy
<1>3. /\ q.mem.status = "running" /\ Rounds(J, R) /\ Branches(J, Whither("until", q.mem, f))
      /\ q.stack[Len(q.stack)].base = <<>> /\ x = Here(f)
      /\ \A b \in J : Under(b, x) => Under(b, f.base)
  BY <1>1, AtFilled
<1>4. Def[Last(x)].kind = "repeat" /\ x \notin J BY <1>2, <1>3 DEF Going, Asking, DefAt
<1>5. Branches(J, x) BY <1>3 DEF Whither
<1>6. r \in RepeatState /\ r.path = x /\ r.iteration \in Nat
  <2>1. r \in RepeatState /\ r.path = x BY <1>2, RepeatAtType
  <2> HIDE DEF r
  <2> QED BY <2>1 DEF RepeatState
<1>7. r.awaiting BY <1>1, <1>2, <1>3 DEF Filled
<1>8. r \in R
  <2>1. \E t \in R : t.path = x BY <1>7 DEF RepeatAt
  <2>2. PICK t \in R : t.path = x BY <2>1
  <2> QED BY <1>2, <2>2, StateRead
<1>9. /\ k \in RunState /\ Tidy(k) /\ K \in SUBSET J /\ RepeatAt(k, x) = r
      /\ ~Def[Last(x)].compact => k = q.mem
  BY <1>2, <1>4, RetainedIs DEF Tidy
<1>10. Rounds(K, k.repeats) /\ Branches(K, x)
  BY <1>2, <1>3, <1>4, <1>5, RetainedFilled DEF Tidy
<1>11. ~Def[Last(x)].compact =>
         K = J /\ \A i \in 0..r.iteration : Full(J, Append(x, i), Def[Last(x)].body)
  <2>1. RoundOf(J, r) BY <1>3, <1>8 DEF Rounds
  <2> HIDE DEF r, x, J, k
  <2> QED BY <1>6, <1>7, <1>9, <2>1 DEF RoundOf, J
<1> HIDE DEF x, r, k, K, y, J, R
<1>12. K \in SUBSET Path BY <1>2, <1>9
<1> DEFINE R2 == {t \in k.repeats : t.path # x}
<1>13. Rounds(K, R2) /\ Rounds(K \cup {x}, R2)
  <2>1. Rounds(K, R2) BY <1>10 DEF Rounds
  <2>2. \A t \in R2 : t.path # x OBVIOUS
  <2> HIDE DEF R2
  <2> QED BY <1>4, <2>1, <2>2, RoundsGrow
<1>14. \A s : s.path = x => SetRepeat(k, s).repeats = R2 \cup {s}
  BY <1>9 DEF SetRepeat, RunState
<1> HIDE DEF R2
<1>15. CASE UntilDone(q, n)
  <2> DEFINE s == [r EXCEPT !.awaiting = FALSE, !.startedAt = NoTime]
  <2>1. /\ n.stack = Onward(q.stack) /\ CompletedPaths(n.mem) = K \cup {x}
        /\ n.mem.repeats = SetRepeat(k, s).repeats
        /\ n.mem.currentPath = x /\ Heading(n) = "steps"
         /\ n.pc = "snapshot" /\ n.mem.status = "running"
    BY <1>15 DEF UntilDone, x, r, k, K
  <2>2. s.path = x /\ s.iteration = r.iteration /\ s.awaiting = FALSE
    BY <1>6 DEF RepeatState
  <2> HIDE DEF s
  <2>3. n.mem.repeats = R2 \cup {s} BY <1>14, <2>1, <2>2
  <2>4. \A base, steps : Full(K, base, steps) => Full(K \cup {x}, base, steps) BY FullGrows
  <2>5. RoundOf(K \cup {x}, s) BY <1>11, <2>2, <2>4 DEF RoundOf
  <2>6. Rounds(K \cup {x}, R2 \cup {s}) BY <1>13, <2>5 DEF Rounds
  <2>7. \A b : Chosen(K, b) => Chosen(K \cup {x}, b) BY FullGrows
  <2>8. Branches(K \cup {x}, x) BY <1>4, <1>10, <2>7 DEF Branches
  <2>9. Branches(K \cup {x}, f.base) BY <1>3, <1>4, <1>9, <1>10, <2>7 DEF Branches
  <2>10. /\ n.stack[1].base = f.base /\ n.stack[1].i = f.i + 1 /\ n.stack[1].start = f.start
         /\ n.stack[Len(n.stack)].base = <<>>
    BY <1>2, <1>3, <2>1, OnwardBase, BottomKept
  <2>11. n.stack[1].i # n.stack[1].start
    <3>1. f.i \in Nat /\ f.start \in Nat /\ f.start <= f.i BY <1>2 DEF Frame, Framed
    <3> QED BY <2>10, <3>1
  <2>12. Whither("steps", n.mem, n.stack[1]) = f.base BY <2>10, <2>11 DEF Whither, Resuming
  <2> HIDE DEF f
  <2> QED BY <2>1, <2>3, <2>6, <2>8, <2>9, <2>10, <2>12 DEF Filled, Whole
<1>16. CASE UntilMore(q, n)
  <2> DEFINE s == [r EXCEPT !.awaiting = FALSE, !.iteration = @ + 1]
             z == Append(x, r.iteration + 1)
  <2>1. /\ CompletedPaths(n.mem) = K /\ n.mem.repeats = SetRepeat(k, s).repeats
        /\ n.mem.currentPath = z /\ Heading(n) = "return" /\ n.mem.status = "running"
    BY <1>16 DEF UntilMore, x, r, k, K
  <2>2. s.path = x /\ s.iteration = r.iteration + 1 /\ s.awaiting = FALSE
    BY <1>6 DEF RepeatState
  <2> HIDE DEF s
  <2>3. n.mem.repeats = R2 \cup {s} BY <1>14, <2>1, <2>2
  <2>4. RoundOf(K, s)
    <3>1. ASSUME NEW i \in 0..s.iteration, i < s.iteration PROVE i \in 0..r.iteration
      BY <1>6, <2>2, <3>1
    <3> QED BY <1>4, <1>9, <1>11, <2>2, <3>1 DEF RoundOf
  <2>5. Rounds(K, R2 \cup {s}) BY <1>13, <2>4 DEF Rounds
  <2>6. z \in Path /\ Leads(x, z)
    <3>1. r.iteration + 1 \in Nat BY <1>6
    <3>2. z \in Path BY <1>2, <3>1, AppendKey
    <3> QED BY <1>2, <3>2, PathOrder
  <2> HIDE DEF z
  <2>7. Branches(K, z) BY <1>2, <1>10, <1>12, <2>6, BranchesOn
  <2> QED BY <2>1, <2>3, <2>5, <2>7 DEF Filled, Whole, Forward
<1>17. CASE UntilFails(q, n)
  <2>1. n.pc = "raise" /\ n.err.kind = "step" /\ n.mem = k BY <1>17 DEF UntilFails, x, k
  <2>2. ~Firm(n) /\ Heading(n) \notin Forward /\ Heading(n) # "until"
    BY <2>1 DEF Firm, Heading, Forward
  <2>3. k.status = "running" BY <1>2, <1>3, <1>4, RetainedIs DEF Tidy, k, J, R
  <2> QED BY <1>10, <2>1, <2>2, <2>3 DEF Filled, Whole, K
<1> QED BY <1>15, <1>16, <1>17

\* Every move of a call completes what it leaves behind.
LEMMA TracksFilled ==
  ASSUME NEW q \in Call, NEW n \in Call, Placed(q), TidyCall(q), Windowed(q), Filled(q),
         Tracks(q, n)
  PROVE  Filled(n)
BY PassFilled, SetOutFilled, LoopFilled, EndFilled, RiseFilled, ClockFilled, BeginFilled,
   DoneStepFilled, UntilFilled
   DEF Tracks

\* A new run has nothing to complete yet.
LEMMA FilledNoCall == Filled(NoCall)
<1>1. NoCall.mem = NewRun /\ NoCall.pc = "idle" /\ Heading(NoCall) = "idle"
  BY DEF NoCall, Heading
<1>2. CompletedPaths(NewRun) = {} /\ NewRun.repeats = {} /\ NewRun.status = "new"
  BY DEF CompletedPaths, NewRun
<1> QED BY <1>1, <1>2 DEF Filled, Firm, Forward, Rounds, Whole

\* At first nothing is completed, and nothing need be.
LEMMA InitFill == Init => Fill
<1>1. /\ CompletedPaths(NewRun) = {} /\ NewRun.repeats = {} /\ NewRun.currentPath = <<>>
      /\ NewRun.status = "new"
  BY DEF CompletedPaths, NewRun
<1>2. Rounds({}, {}) /\ Branches({}, <<>>) BY DEF Rounds, Branches
<1> QED BY <1>1, <1>2, FilledNoCall DEF Init, Fill, Whole

\* Every step of the executor completes what it leaves behind.
LEMMA StepKeepsFill ==
  ASSUME TypeOK, TypeOK', ~CallerSaves, Position, Windows, Tidiness, Fill, [Next]_vars
  PROVE  Fill'
<1>1. Saved /\ \A w \in Worker : Moved(w) BY StepMoves
<1>2. \A w \in Worker : /\ proc[w] \in Call /\ proc'[w] \in Call
                        /\ Placed(proc[w]) /\ Windowed(proc[w]) /\ TidyCall(proc[w])
                        /\ Filled(proc[w])
  BY DEF TypeOK, Position, Windows, Tidiness, Fill
<1>3. Filled(Loaded)
  <2>1. Loaded.mem = store /\ Loaded.pc = "start" /\ Heading(Loaded) = "start"
    BY DEF Loaded, NoCall, Heading
  <2> QED BY <2>1 DEF Filled, Firm, Forward, Fill
<1>4. ASSUME NEW w \in Worker PROVE Filled(proc'[w])
  <2>1. CASE Tracks(proc[w], proc'[w]) BY <1>2, <2>1, TracksFilled
  <2> QED BY <1>1, <1>2, <1>3, <2>1, FilledNoCall DEF Moved
<1>5. /\ Rounds(CompletedPaths(store'), store'.repeats) /\ Whole(store')
      /\ GoesForward(store') => Branches(CompletedPaths(store'), store'.currentPath)
  <2>1. CASE store' = store BY <2>1 DEF Fill
  <2>2. ASSUME NEW w \in Worker, proc[w].pc = "snapshot", store' = Written(proc[w].mem)
        PROVE  /\ Rounds(CompletedPaths(store'), store'.repeats) /\ Whole(store')
               /\ GoesForward(store') => Branches(CompletedPaths(store'), store'.currentPath)
    <3> DEFINE m == proc[w].mem
    <3>1. m \in RunState BY <1>2 DEF Call
    <3>2. /\ store'.completed = m.completed /\ store'.repeats = m.repeats
          /\ store'.status = m.status /\ store'.currentPath = m.currentPath
      BY <2>2, <3>1 DEF Written, RunState
    <3>3. CompletedPaths(store') = CompletedPaths(m) BY <3>2 DEF CompletedPaths
    <3>4. GoesForward(store') => Firm(proc[w]) /\ proc[w].pc \notin Forward
      BY <2>2, <3>2 DEF Firm, GoesForward, Forward
    <3>5. Filled(proc[w]) BY <1>2
    <3> QED BY <3>2, <3>3, <3>4, <3>5 DEF Filled, Whole
  <2> QED BY <1>1, <2>1, <2>2 DEF Saved
<1> QED BY <1>4, <1>5 DEF Fill

\* A completed run has skipped nothing, however often it was interrupted and resumed: its
\* journal holds every step of the top level, of one path of every branch, and of every
\* iteration of every repeat whose history is kept, at any depth, as long as the snapshots
\* alone make the run durable.
THEOREM NothingSkippedHolds ==
  ASSUME ~CallerSaves
  PROVE  Spec => []NothingSkipped
<1>1. TypeOK /\ TypeOK' /\ Position /\ Tidiness /\ [Next]_vars => Tidiness'
  BY StepKeepsTidiness
<1>2. TypeOK /\ Position /\ Windows /\ [Next]_vars => Windows'
  BY StepKeepsWindows
<1>3. TypeOK /\ TypeOK' /\ Position /\ Windows /\ Tidiness /\ Fill /\ [Next]_vars => Fill'
  BY StepKeepsFill
<1>4. TypeOK /\ Tidiness /\ Fill => NothingSkipped
  <2> SUFFICES ASSUME TypeOK, Tidiness, Fill, store.status = "completed" PROVE NothingSkipped
    BY DEF NothingSkipped
  <2> DEFINE J == CompletedPaths(store)
             R == store.repeats
  <2>1. J \in SUBSET Path /\ R \in SUBSET RepeatState
    <3>1. store \in RunState BY DEF TypeOK
    <3> QED BY <3>1, PathsType DEF RunState
  <2>2. Kempt(J, R) /\ Rounds(J, R) /\ Full(J, <<>>, Root) /\ Branches(J, <<>>)
    BY DEF Tidiness, Tidy, Fill, Whole
  <2>3. \A base, steps : Full(J, base, steps) => ScopeComplete(base, steps)
    BY DEF Full, ScopeComplete, Range
  <2>4. ASSUME NEW path \in J, Def[Last(path)].kind = "branch"
        PROVE  \E c \in DOMAIN Def[Last(path)].paths :
                 ScopeComplete(Append(path, c), Def[Last(path)].paths[c])
    <3>1. ~Under(path, <<>>)
      <4>1. Len(path) \in Nat /\ Len(<<>>) = 0 BY <2>1 DEF Path
      <4> QED BY <4>1 DEF Under
    <3>2. Chosen(J, path) BY <2>2, <2>4, <3>1 DEF Branches
    <3> QED BY <2>3, <3>2 DEF Chosen
  <2>5. ASSUME NEW path \in J, Def[Last(path)].kind = "repeat", ~Def[Last(path)].compact,
               NEW n \in 0..RepeatAt(store, path).iteration
        PROVE  ScopeComplete(Append(path, n), Def[Last(path)].body)
    <3>1. path \in Path /\ Odd(Len(path)) /\ path \in Known(J, R) BY <2>1, <2>2 DEF Kempt, Known
    <3>2. path # <<>> /\ Leads(path, path)
      <4>1. Len(<<>>) = 0 OBVIOUS
      <4> QED BY <3>1, <4>1, Parity, PathOrder
    <3> HIDE DEF J, R
    <3>3. PICK t \in R : t.path = path BY <2>1, <2>2, <2>5, <3>1, <3>2, KemptAt
    <3>4. RepeatAt(store, path) = t BY <2>2, <3>3, StateRead DEF R
    <3>5. RoundOf(J, t) BY <2>2, <3>3 DEF Rounds
    <3>6. Full(J, Append(path, n), Def[Last(path)].body)
      BY <2>5, <3>3, <3>4, <3>5 DEF RoundOf
    <3> QED BY <2>3, <3>6
  <2>6. ScopeComplete(<<>>, Root) BY <2>2, <2>3
  <2> HIDE DEF J
  <2> QED BY <2>4, <2>5, <2>6 DEF NothingSkipped, J
<1>5. QED
  BY <1>1, <1>2, <1>3, <1>4, InitTidiness, InitWindows, InitFill, PositionHolds, TypeCorrect, PTL
     DEF Spec

-----------------------------------------------------------------------------
(* The clocks of repeats.                                                  *)

\* A repeat with compact history, whose state is in R, lies above the path a.
Above(R, a) == \E q \in R : Def[Last(q.path)].compact /\ Under(q.path, a)

\* The journal K holds what J held, but what compaction may have forgotten.
Outlives(J, K, S) == \A a \in J : a \in K \/ Above(S, a)

\* The clock of a repeat in the state r goes on in the states S, unless the repeat is in
\* the journal K, or compaction may have forgotten it.
GoesOn(r, K, S) ==
  \/ Above(S, r.path)
  \/ \E q \in S : q.path = r.path
                  /\ (r.startedAt # NoTime => q.startedAt = r.startedAt \/ r.path \in K)

\* What the journal J and the states R hold is carried over to K and S.
Carried(J, R, K, S) == Outlives(J, K, S) /\ \A r \in R : GoesOn(r, K, S)

\* What is carried over to itself, or to a longer journal.
LEMMA CarriedGrows ==
  ASSUME NEW J, NEW R, NEW K, J \subseteq K
  PROVE  Carried(J, R, K, R)
BY DEF Carried, Outlives, GoesOn

\* What lies below a compact repeat stays below one.
LEMMA AboveCarried ==
  ASSUME NEW J \in SUBSET Path, NEW R \in SUBSET RepeatState,
         NEW K \in SUBSET Path, NEW S \in SUBSET RepeatState,
         Carried(J, R, K, S), NEW a \in Path, Above(R, a)
  PROVE  Above(S, a)
<1>1. PICK q \in R : Def[Last(q.path)].compact /\ Under(q.path, a) BY DEF Above
<1>2. q.path \in Path BY DEF RepeatState
<1>3. GoesOn(q, K, S) BY DEF Carried
<1>4. CASE Above(S, q.path)
  <2>1. PICK t \in S : Def[Last(t.path)].compact /\ Under(t.path, q.path) BY <1>4 DEF Above
  <2>2. t.path \in Path BY DEF RepeatState
  <2>3. Leads(q.path, a) BY <1>1, <1>2, PathOrder
  <2>4. Under(t.path, a) BY <1>2, <2>1, <2>2, <2>3, PathOrder
  <2> QED BY <2>1, <2>4 DEF Above
<1>5. CASE \E t \in S : t.path = q.path BY <1>1, <1>5 DEF Above
<1> QED BY <1>3, <1>4, <1>5 DEF GoesOn

\* What is carried over twice is carried over.
LEMMA CarriedOn ==
  ASSUME NEW J \in SUBSET Path, NEW R \in SUBSET RepeatState,
         NEW K \in SUBSET Path, NEW S \in SUBSET RepeatState,
         NEW L \in SUBSET Path, NEW T \in SUBSET RepeatState,
         Carried(J, R, K, S), Carried(K, S, L, T)
  PROVE  Carried(J, R, L, T)
<1>1. ASSUME NEW a \in J PROVE a \in L \/ Above(T, a)
  <2>1. CASE a \in K BY <2>1 DEF Carried, Outlives
  <2>2. CASE Above(S, a) BY <2>2, AboveCarried
  <2> QED BY <2>1, <2>2 DEF Carried, Outlives
<1>2. ASSUME NEW r \in R PROVE GoesOn(r, L, T)
  <2>1. r.path \in Path BY DEF RepeatState
  <2>2. CASE Above(S, r.path)
    <3>1. Above(T, r.path) BY <2>1, <2>2, AboveCarried
    <3> QED BY <3>1 DEF GoesOn
  <2>3. ASSUME NEW q \in S, q.path = r.path,
               r.startedAt # NoTime => q.startedAt = r.startedAt \/ r.path \in K
        PROVE  GoesOn(r, L, T)
    <3>1. GoesOn(q, L, T) BY DEF Carried
    <3>2. CASE Above(T, q.path) BY <2>3, <3>2 DEF GoesOn
    <3>3. ASSUME NEW t \in T, t.path = q.path,
                 q.startedAt # NoTime => t.startedAt = q.startedAt \/ q.path \in L
          PROVE  GoesOn(r, L, T)
      <4>1. CASE r.startedAt # NoTime /\ r.path \in K
        <5>1. r.path \in L \/ Above(T, r.path) BY <4>1 DEF Carried, Outlives
        <5> QED BY <2>3, <3>3, <5>1 DEF GoesOn
      <4>2. CASE r.startedAt # NoTime => q.startedAt = r.startedAt
        BY <2>3, <3>3, <4>2 DEF GoesOn
      <4> QED BY <2>3, <4>1, <4>2
    <3> QED BY <3>1, <3>2, <3>3 DEF GoesOn
  <2>4. GoesOn(r, K, S) BY DEF Carried
  <2> QED BY <2>2, <2>3, <2>4 DEF GoesOn
<1> QED BY <1>1, <1>2 DEF Carried, Outlives

\* The state of a repeat is set, with its clock as it was or for good reason.
LEMMA CarriedSet ==
  ASSUME NEW J, NEW R, NEW K, J \subseteq K, NEW s,
         \A r \in R : r.path = s.path /\ r.startedAt # NoTime =>
           s.startedAt = r.startedAt \/ s.path \in K
  PROVE  Carried(J, R, K, Replaced(R, s))
<1> DEFINE S == Replaced(R, s)
<1>1. s \in S /\ \A r \in R : r.path # s.path => r \in S BY DEF Replaced
<1> HIDE DEF S
<1>2. ASSUME NEW r \in R PROVE GoesOn(r, K, S)
  <2>1. CASE r.path = s.path BY <1>1, <2>1 DEF GoesOn
  <2>2. CASE r.path # s.path BY <1>1, <2>2 DEF GoesOn
  <2> QED BY <2>1, <2>2
<1> QED BY <1>2 DEF Carried, Outlives, S

\* Compaction forgets only what is below the repeat.
LEMMA CarriedRetained ==
  ASSUME NEW m \in RunState, Tidy(m), NEW x \in Path, x # <<>>, Odd(Len(x)),
         Def[Last(x)].kind = "repeat", Route(CompletedPaths(m), x), Tied(m.repeats, x)
  PROVE  LET k == Retained(m, x)
         IN  Carried(CompletedPaths(m), m.repeats, CompletedPaths(k), k.repeats)
<1> DEFINE k == Retained(m, x)
           J == CompletedPaths(m)
           R == m.repeats
           K == CompletedPaths(k)
           S == k.repeats
           y == Append(x, RepeatAt(m, x).iteration)
<1>1. /\ \A a \in J \ K : Leads(y, a)
      /\ Def[Last(x)].compact => S = {r \in R : ~Leads(y, r.path)}
      /\ ~Def[Last(x)].compact => k = m
      /\ y \in Path
  BY RetainedIs
<1>2. J \in SUBSET Path /\ R \in SUBSET RepeatState /\ Kempt(J, R)
  BY PathsType DEF RunState, Tidy
<1>3. y \in Path => ~Leads(y, x) /\ Under(x, y) BY PathOrder
<1>4. CASE ~Def[Last(x)].compact
  <2>1. K = J /\ S = R BY <1>1, <1>4
  <2> HIDE DEF K, J, S, R, k
  <2>2. Carried(J, R, K, S) BY <2>1, CarriedGrows
  <2> QED BY <2>2 DEF K, J, S, R, k
<1>5. CASE Def[Last(x)].compact
  <2> HIDE DEF K, J, S, R, k, y
  <2>1. ASSUME NEW a \in Known(J, R), a \in Path, Leads(y, a) PROVE Above(S, a)
    <3>1. Under(x, a) /\ Leads(x, a) BY <1>1, <1>3, <2>1, PathOrder
    <3>2. PICK r \in R : r.path = x BY <1>2, <2>1, <3>1, KemptAt
    <3>3. r \in S BY <1>1, <1>3, <1>5, <3>2
    <3> QED BY <1>5, <3>1, <3>2, <3>3 DEF Above
  <2>2. Outlives(J, K, S) BY <1>1, <1>2, <2>1 DEF Outlives, Known
  <2>3. ASSUME NEW r \in R PROVE GoesOn(r, K, S)
    <3>1. r.path \in Path /\ r.path \in Known(J, R) BY <1>2 DEF RepeatState, Known
    <3>2. CASE Leads(y, r.path) BY <2>1, <3>1, <3>2 DEF GoesOn
    <3>3. CASE ~Leads(y, r.path) BY <1>1, <1>5, <3>3 DEF GoesOn
    <3> QED BY <3>2, <3>3
  <2>4. Carried(J, R, K, S) BY <2>2, <2>3 DEF Carried
  <2> QED BY <2>4 DEF K, J, S, R, k
<1> QED BY <1>4, <1>5

\* What the call q holds is carried over to what n holds.
CarriedCall(q, n) ==
  Carried(CompletedPaths(q.mem), q.mem.repeats, CompletedPaths(n.mem), n.mem.repeats)

\* The state of a repeat is set, with its clock as it was read or not yet started.
LEMMA CarriedRead ==
  ASSUME NEW m \in RunState, Tidy(m), NEW K, CompletedPaths(m) \subseteq K,
         NEW s, NEW n, n.repeats = SetRepeat(m, s).repeats, CompletedPaths(n) = K,
         LET r == RepeatAt(m, s.path)
         IN  r.startedAt # NoTime => s.startedAt = r.startedAt \/ s.path \in K
  PROVE  Carried(CompletedPaths(m), m.repeats, K, n.repeats)
<1> DEFINE R == m.repeats
<1>1. n.repeats = Replaced(R, s) BY DEF SetRepeat, RunState, Replaced
<1>2. ASSUME NEW r \in R, r.path = s.path, r.startedAt # NoTime
      PROVE  s.startedAt = r.startedAt \/ s.path \in K
  <2>1. RepeatAt(m, r.path) = r BY StateRead DEF Tidy
  <2> QED BY <1>2, <2>1
<1> HIDE DEF R
<1>3. Carried(CompletedPaths(m), R, K, Replaced(R, s)) BY <1>2, CarriedSet
<1> QED BY <1>1, <1>3 DEF R

\* A move that touches no state of a repeat.
LEMMA PassCarried ==
  ASSUME NEW q, NEW n,
         \/ Passes(q, n) \/ SetsOut(q, n) \/ Skips(q, n) \/ Enters(q, n) \/ Ends(q, n)
         \/ Rises(q, n) \/ GoesDown(q, n) \/ Records(q, n) \/ Decides(q, n)
  PROVE  CarriedCall(q, n)
<1>1. n.mem.repeats = q.mem.repeats /\ CompletedPaths(q.mem) \subseteq CompletedPaths(n.mem)
  BY DEF Passes, SetsOut, Skips, Enters, Ends, Rises, GoesDown, Records, Decides, SameTrack,
     CompletedPaths
<1> QED BY <1>1, CarriedGrows DEF CarriedCall

\* A body is done, a clock starts, or an iteration begins.
LEMMA BeginCarried ==
  ASSUME NEW q \in Call, NEW n \in Call, Placed(q), TidyCall(q),
         Closes(q, n) \/ Clocks(q, n) \/ Begins(q, n)
  PROVE  CarriedCall(q, n)
<1> DEFINE J == CompletedPaths(q.mem)
<1>1. q.mem \in RunState /\ Tidy(q.mem) BY DEF Call, TidyCall
<1>2. ASSUME NEW x \in Path, NEW s, s.path = x, n.mem = SetRepeat(q.mem, s),
             LET r == RepeatAt(q.mem, x) IN r.startedAt # NoTime => s.startedAt = r.startedAt
      PROVE  CarriedCall(q, n)
  <2>1. CompletedPaths(n.mem) = J BY <1>1, <1>2 DEF SetRepeat, RunState, CompletedPaths
  <2> QED BY <1>1, <1>2, <2>1, CarriedRead DEF CarriedCall
<1>3. \A x \in Path : RepeatAt(q.mem, x) \in RepeatState /\ RepeatAt(q.mem, x).path = x
  BY <1>1, RepeatAtType
<1>4. CASE Closes(q, n)
  <2> DEFINE x == Here(q.stack[2])
             r == RepeatAt(q.mem, x)
             s == [r EXCEPT !.awaiting = TRUE]
  <2>1. q.pc = "steps" /\ Len(q.stack) > 1 /\ n.mem = SetRepeat(q.mem, s) BY <1>4 DEF Closes
  <2>2. x \in Path BY <2>1, DoneTidy
  <2>3. r \in RepeatState /\ r.path = x BY <1>3, <2>2
  <2>4. s.path = x /\ s.startedAt = r.startedAt BY <2>3 DEF RepeatState
  <2> HIDE DEF x, s
  <2> QED BY <1>2, <2>1, <2>2, <2>4
<1>5. CASE Clocks(q, n)
  <2> DEFINE x == Place(q)
             r == RepeatAt(q.mem, x)
             s == [r EXCEPT !.startedAt = now]
  <2>1. At(q, "repeatStart") /\ r.startedAt = NoTime /\ n.mem = SetRepeat(q.mem, s)
    BY <1>5 DEF Clocks
  <2>2. x \in Path BY <2>1, AtTidy DEF Forward
  <2>3. r \in RepeatState /\ r.path = x BY <1>3, <2>2
  <2>4. s.path = x BY <2>3 DEF RepeatState
  <2> HIDE DEF x, s
  <2> QED BY <1>2, <2>1, <2>2, <2>4
<1>6. CASE Begins(q, n)
  <2> DEFINE x == Place(q)
             r == RepeatAt(q.mem, x)
  <2>1. At(q, "call") BY <1>6 DEF Begins
  <2>2. x \in Path BY <2>1, AtTidy DEF Forward
  <2>3. r \in RepeatState /\ r.path = x BY <1>3, <2>2
  <2>4. PICK it \in Nat : n.mem = SetRepeat(q.mem, [r EXCEPT !.iteration = it])
    BY <1>6 DEF Begins
  <2> DEFINE s == [r EXCEPT !.iteration = it]
  <2>5. s.path = x /\ s.startedAt = r.startedAt /\ n.mem = SetRepeat(q.mem, s)
    BY <2>3, <2>4 DEF RepeatState
  <2> HIDE DEF x, s
  <2> QED BY <1>2, <2>2, <2>5
<1> QED BY <1>4, <1>5, <1>6

\* The condition of a repeat is known.
LEMMA UntilCarried ==
  ASSUME NEW q \in Call, NEW n \in Call, Placed(q), TidyCall(q),
         UntilDone(q, n) \/ UntilMore(q, n) \/ UntilFails(q, n)
  PROVE  CarriedCall(q, n)
<1> DEFINE x == Place(q)
           J == CompletedPaths(q.mem)
           r == RepeatAt(q.mem, x)
           k == Retained(q.mem, x)
           K == CompletedPaths(k)
<1>1. At(q, "until") BY DEF UntilDone, UntilMore, UntilFails
<1>2. /\ q.mem \in RunState /\ q.mem.repeats \in SUBSET RepeatState /\ J \in SUBSET Path
      /\ x \in Path /\ x # <<>> /\ Odd(Len(x)) /\ Def[Last(x)] = DefAt(q) /\ Route(J, x)
      /\ Kempt(J, q.mem.repeats) /\ Tied(q.mem.repeats, x) /\ Going("until", q.mem, q.stack[1])
  BY <1>1, AtTidy DEF Forward
<1>3. Def[Last(x)].kind = "repeat" BY <1>2 DEF Going, Asking, DefAt
<1>4. r \in RepeatState /\ r.path = x BY <1>2, RepeatAtType
<1>5. k \in RunState /\ Tidy(k) /\ RepeatAt(k, x) = r
  BY <1>2, <1>3, RetainedIs DEF Tidy
<1>6. Carried(J, q.mem.repeats, K, k.repeats) BY <1>2, <1>3, CarriedRetained DEF Tidy
<1>7. /\ K \in SUBSET Path /\ k.repeats \in SUBSET RepeatState
      /\ CompletedPaths(n.mem) \in SUBSET Path /\ n.mem.repeats \in SUBSET RepeatState
  BY <1>5, PathsType DEF RunState, Call
<1> HIDE DEF x, r, k, J, K
<1>8. ASSUME NEW s, s.path = x, n.mem.repeats = SetRepeat(k, s).repeats,
             K \subseteq CompletedPaths(n.mem),
             s.startedAt = r.startedAt \/ x \in CompletedPaths(n.mem)
      PROVE  CarriedCall(q, n)
  <2>1. Carried(K, k.repeats, CompletedPaths(n.mem), n.mem.repeats)
    BY <1>5, <1>8, CarriedRead DEF K
  <2> QED BY <1>2, <1>6, <1>7, <2>1, CarriedOn DEF CarriedCall, J
<1>9. CASE UntilDone(q, n)
  <2> DEFINE s == [r EXCEPT !.awaiting = FALSE, !.startedAt = NoTime]
  <2>1. CompletedPaths(n.mem) = K \cup {x} /\ n.mem.repeats = SetRepeat(k, s).repeats
    BY <1>9 DEF UntilDone, x, r, k, K
  <2>2. s.path = x BY <1>4 DEF RepeatState
  <2> HIDE DEF s
  <2> QED BY <1>8, <2>1, <2>2
<1>10. CASE UntilMore(q, n)
  <2> DEFINE s == [r EXCEPT !.awaiting = FALSE, !.iteration = @ + 1]
  <2>1. CompletedPaths(n.mem) = K /\ n.mem.repeats = SetRepeat(k, s).repeats
    BY <1>10 DEF UntilMore, x, r, k, K
  <2>2. s.path = x /\ s.startedAt = r.startedAt BY <1>4 DEF RepeatState
  <2> HIDE DEF s
  <2> QED BY <1>8, <2>1, <2>2
<1>11. CASE UntilFails(q, n)
  <2>1. n.mem = k BY <1>11 DEF UntilFails, x, k
  <2> QED BY <1>6, <2>1 DEF CarriedCall, J, K
<1> QED BY <1>9, <1>10, <1>11

\* Every move of a call carries over what it holds.
LEMMA TracksCarried ==
  ASSUME NEW q \in Call, NEW n \in Call, Placed(q), TidyCall(q), Tracks(q, n)
  PROVE  CarriedCall(q, n)
BY PassCarried, BeginCarried, UntilCarried DEF Tracks

-----------------------------------------------------------------------------
(* The window of a poll, in memory.                                        *)

\* The window and the path of the run are the same in m and in n.
SameWatch(m, n) == n.pollStartedAt = m.pollStartedAt /\ n.currentPath = m.currentPath

\* The call p raises the error of the poll at the path x, whose window it has shut.
Raises(p, x) ==
  /\ p.pc = "raise" /\ p.mem.status = "running"
  /\ p.err.path = x /\ Here(p.stack[1]) = x

\* The call p keeps the window that was open in m: it holds it as it was, or has shut it as it
\* writes that the poll is completed or has failed, or as it raises its error; or it ends.
Watches(m, p) ==
  \/ p.pc \in {"idle", "return"} \/ (p.pc = "raise" /\ p.cancelled)
  \/ SameWatch(m, p.mem)
  \/ /\ p.mem.pollStartedAt = NoTime
     /\ \/ /\ p.pc = "snapshot"
           /\ m.currentPath \in CompletedPaths(p.mem) \/ p.mem.failedStepPath = m.currentPath
        \/ Raises(p, m.currentPath)

\* What the operators on states leave alone.
LEMMA WatchIs ==
  ASSUME NEW m \in RunState
  PROVE  /\ SameWatch(m, m)
         /\ \A r : SameWatch(m, SetRepeat(m, r))
         /\ \A path, compensator : SameWatch(m, Complete(m, path, compensator))
         /\ \A s : SameWatch(m, [m EXCEPT !.status = s])
         /\ \A i : SameWatch(m, [m EXCEPT !.compensationIndex = i])
         /\ \A s, i : SameWatch(m, [m EXCEPT !.status = s, !.compensationIndex = i])
         /\ m.pollStartedAt # NoTime => Opened(m) = m
BY DEF SameWatch, Complete, SetRepeat, Opened, RunState

\* The calls that what the callbacks and the loops lead to.
LEMMA WatchCalls ==
  ASSUME NEW q \in Call, NEW m, SameWatch(q.mem, m)
  PROVE  /\ \A l : Watches(q.mem, Persist(q, m, l))
         /\ \A kind, path : Watches(q.mem, Fail(q, kind, path))
         /\ \A l : Watches(q.mem, [q EXCEPT !.pc = l])
         /\ \A p \in Call : Watches(q.mem, PersistThen(p, m))
<1>1. SameWatch(q.mem, q.mem) BY DEF SameWatch
<1>2. \A l : Watches(q.mem, Persist(q, m, l))
  <2>1. ASSUME NEW l PROVE Watches(q.mem, Persist(q, m, l))
    <3>1. Persist(q, m, l).mem = m BY PersistIs
    <3> QED BY <3>1 DEF Watches
  <2> QED BY <2>1
<1>3. \A kind, path : Watches(q.mem, Fail(q, kind, path))
  <2>1. ASSUME NEW kind, NEW path PROVE Watches(q.mem, Fail(q, kind, path))
    <3>1. Fail(q, kind, path).mem = q.mem BY FailIs
    <3> QED BY <1>1, <3>1 DEF Watches
  <2> QED BY <2>1
<1>4. \A l : Watches(q.mem, [q EXCEPT !.pc = l])
  <2>1. ASSUME NEW l PROVE Watches(q.mem, [q EXCEPT !.pc = l])
    <3>1. [q EXCEPT !.pc = l].mem = q.mem BY GotoIs
    <3> QED BY <1>1, <3>1 DEF Watches
  <2> QED BY <2>1
<1>5. ASSUME NEW p \in Call PROVE Watches(q.mem, PersistThen(p, m))
  <2>1. PersistThen(p, m).mem = m BY PersistThenIs
  <2> QED BY <2>1 DEF Watches
<1> QED BY <1>2, <1>3, <1>4, <1>5

\* The innermost scope of a call that is cut off returns.
LEMMA UnwindWatches ==
  ASSUME NEW m, NEW p \in Call, p.cancelled
  PROVE  Watches(m, Unwind(p))
<1>1. Unwind(p).pc \in {"raise", "return"} /\ Unwind(p).cancelled = p.cancelled BY UnwindIs
<1> QED BY <1>1 DEF Watches

\* The start of Run.
LEMMA StartWatches ==
  ASSUME TypeOK, NEW w \in Worker, Start(w)
  PROVE  Watches(proc[w].mem, proc'[w])
<1> DEFINE q == proc[w]
           cp == q.mem.currentPath
           start == ResumeIndex(Root, cp, 1)
           f == NewFrame(<<>>, Root, start, cp)
           m == [q.mem EXCEPT !.status = "running"]
<1>1. q \in Call /\ q.mem \in RunState /\ proc \in [Worker -> Call]
  BY MemType DEF TypeOK
<1>2. cp \in Path /\ start \in Nat \ {0}
  BY <1>1, PathsType, ResumeIndexType, DefinitionAssumption
<1>3. \/ proc'[w] = [q EXCEPT !.pc = "return"]
      \/ proc'[w] = Persist(q, q.mem, "compensate")
      \/ proc'[w] = PersistThen(Push(q, f), m)
  BY <1>1 DEF Start, Local, Set
<1> HIDE DEF start
<1>4. f \in Frame BY <1>2, ScopeTop
<1> HIDE DEF f
<1>5. Push(q, f) \in Call BY <1>1, <1>4, PushType
<1>6. SameWatch(q.mem, q.mem) /\ SameWatch(q.mem, m) BY <1>1, WatchIs
<1> QED BY <1>1, <1>3, <1>5, <1>6, WatchCalls

\* The loop over a scope: while the window is open, it goes down to the poll.
LEMMA StepsWatch ==
  ASSUME TypeOK, NEW w \in Worker, Placed(proc[w]), Windowed(proc[w]),
         proc[w].mem.pollStartedAt # NoTime, SkipCompleted(w) \/ StopCancelled(w) \/ EnterStep(w)
  PROVE  Watches(proc[w].mem, proc'[w])
<1> DEFINE q == proc[w]
           m == q.mem
           f == q.stack[1]
           cp == m.currentPath
<1>1. q \in Call /\ proc \in [Worker -> Call] BY DEF TypeOK
<1>2. At(q, "steps") BY DEF SkipCompleted, StopCancelled, EnterStep
<1>3. /\ m \in RunState /\ f \in Frame /\ Framed(f) /\ f.i \in DOMAIN f.steps
      /\ Top(q) = f /\ StepPath(q) = Here(f) /\ Here(f) \in Path /\ cp \in Path
      /\ Going("steps", m, f)
  BY <1>1, <1>2, AtPlaced DEF Forward
<1>4. Descends("steps", m, f) BY <1>1, <1>2, AtWindowed DEF Forward
<1>5. CASE SkipCompleted(w)
  <2>1. proc'[w] = Advance(q) BY <1>1, <1>5 DEF SkipCompleted, Local, Set
  <2>2. proc'[w].mem = m BY <1>1, <2>1, AdvanceIs
  <2> QED BY <2>2 DEF Watches, SameWatch
<1>6. CASE StopCancelled(w)
  <2> DEFINE p == [q EXCEPT !.mem.currentPath = StepPath(q),
                            !.err = [kind |-> "context", path |-> <<>>]]
  <2>1. proc'[w] = Unwind(p) /\ q.cancelled BY <1>1, <1>6 DEF StopCancelled, Local, Set
  <2>2. p \in Call BY <1>1, <1>3, ContextType
  <2>3. p.cancelled BY <1>1, <2>1 DEF Call
  <2> HIDE DEF p
  <2> QED BY <2>1, <2>2, <2>3, UnwindWatches
<1>7. CASE EnterStep(w)
  <2> DEFINE deeper == Top(q).i = Top(q).start /\ IsStrictPrefix(StepPath(q), Top(q).resume)
             path == IF deeper THEN Top(q).resume ELSE StepPath(q)
             n == [q EXCEPT !.mem.currentPath = path, !.attempt = 0, !.pc = Prologue(StepOf(q))]
  <2>1. proc'[w] = n BY <1>1, <1>7 DEF EnterStep, Local, Set
  <2>2. path = cp
    <3>1. f.i = f.start /\ Leads(Here(f), cp) /\ f.resume = cp
      BY <1>3, <1>4 DEF Descends, Going, Stands
    <3>2. cp = Here(f) \/ Under(Here(f), cp) BY <1>3, <3>1, PathOrder
    <3>3. IsStrictPrefix(Here(f), cp) <=> Under(Here(f), cp) BY <1>3, PrefixLeads
    <3> QED BY <1>3, <3>1, <3>2, <3>3
  <2> HIDE DEF path
  <2>3. n.mem.currentPath = path /\ n.mem.pollStartedAt = m.pollStartedAt
    BY <1>1, <1>3 DEF Call, RunState
  <2> HIDE DEF n
  <2> QED BY <2>1, <2>2, <2>3 DEF Watches, SameWatch
<1> QED BY <1>5, <1>6, <1>7

\* The end of a scope.
LEMMA ScopeWatches ==
  ASSUME TypeOK, NEW w \in Worker, ScopeDone(w)
  PROVE  Watches(proc[w].mem, proc'[w])
<1> DEFINE q == proc[w]
           up == [q EXCEPT !.stack = Tail(@)]
           r == RepeatAt(q.mem, StepPath(up))
           m == SetRepeat(q.mem, [r EXCEPT !.awaiting = TRUE])
           top == [q EXCEPT !.stack = <<>>]
           k == [q.mem EXCEPT !.status = "completed"]
<1>1. q \in Call /\ q.mem \in RunState /\ proc \in [Worker -> Call]
  BY MemType DEF TypeOK
<1>2. \/ proc'[w] = Persist(top, k, "return")
      \/ proc'[w] = Advance(up)
      \/ proc'[w] = [up EXCEPT !.mem = m, !.pc = "until"]
  BY <1>1 DEF ScopeDone, Local, Set
<1>3. Persist(top, k, "return").mem = k BY <1>1 DEF Persist, Call
<1>4. Advance(up).mem = q.mem BY <1>1 DEF Advance, Call
<1>5. [up EXCEPT !.mem = m, !.pc = "until"].mem = m BY <1>1 DEF Call
<1>6. SameWatch(q.mem, q.mem) /\ SameWatch(q.mem, k) /\ SameWatch(q.mem, m) BY <1>1, WatchIs
<1> HIDE DEF m, k, top, up
<1> QED BY <1>2, <1>3, <1>4, <1>5, <1>6 DEF Watches

\* The clock of a repeat and the hook.
LEMMA PrologueWatches ==
  ASSUME TypeOK, NEW w \in Worker,
         \/ EnsureRepeatStarted(w) \/ CheckRepeatTimeout(w)
         \/ \E o \in Outcome : OnEnter(w, o)
  PROVE  Watches(proc[w].mem, proc'[w])
<1> DEFINE q == proc[w]
           r == RepeatAt(q.mem, StepPath(q))
           m == SetRepeat(q.mem, [r EXCEPT !.startedAt = now])
<1>1. q \in Call /\ q.mem \in RunState /\ proc \in [Worker -> Call]
  BY MemType DEF TypeOK
<1>2. \/ proc'[w] = Persist(q, m, "repeatCheck")
      \/ proc'[w] = Persist(q, q.mem, "return")
      \/ \E l : proc'[w] = [q EXCEPT !.pc = l]
      \/ \E kind : proc'[w] = Fail(q, kind, StepPath(q))
  <2>1. CASE EnsureRepeatStarted(w)
    BY <1>1, <2>1 DEF EnsureRepeatStarted, Local, Set
  <2>2. CASE CheckRepeatTimeout(w)
    BY <1>1, <2>2 DEF CheckRepeatTimeout, Local, Set
  <2>3. ASSUME NEW o \in Outcome, OnEnter(w, o) PROVE <1>2!:
    BY <1>1, <2>3 DEF OnEnter, Local, Set
  <2> QED BY <2>1, <2>2, <2>3
<1>3. SameWatch(q.mem, q.mem) /\ SameWatch(q.mem, m) BY <1>1, WatchIs
<1> HIDE DEF m
<1> QED BY <1>1, <1>2, <1>3, WatchCalls

\* An action, and the wait between its attempts.
LEMMA ActionWatches ==
  ASSUME TypeOK, NEW w \in Worker, (\E o \in Outcome : Do(w, o)) \/ Sleep(w)
  PROVE  Watches(proc[w].mem, proc'[w])
<1> DEFINE q == proc[w]
           m == Complete(q.mem, StepPath(q), Def[StepOf(q)].compensate)
           p == [Advance(q) EXCEPT !.pc = "steps"]
           again == [q EXCEPT !.attempt = @ + 1, !.pc = "sleep"]
<1>1. q \in Call /\ q.mem \in RunState /\ proc \in [Worker -> Call]
  BY MemType DEF TypeOK
<1>2. \/ proc'[w] = PersistThen(p, m)
      \/ proc'[w] = Persist(q, q.mem, "return")
      \/ proc'[w] = again
      \/ proc'[w] = [q EXCEPT !.pc = "call"]
      \/ \E kind : proc'[w] = Fail(q, kind, StepPath(q))
  <2>1. ASSUME NEW o \in Outcome, Do(w, o) PROVE <1>2!:
    BY <1>1, <2>1 DEF Do, Set
  <2>2. CASE Sleep(w) BY <1>1, <2>2 DEF Sleep, Local, Set
  <2> QED BY <2>1, <2>2
<1>3. SameWatch(q.mem, q.mem) /\ SameWatch(q.mem, m) BY <1>1, WatchIs
<1>4. PersistThen(p, m).mem = m BY <1>1 DEF PersistThen, Advance, Call
<1>5. again.mem = q.mem BY <1>1 DEF Call
<1> HIDE DEF m, p, again
<1>6. Watches(q.mem, PersistThen(p, m)) /\ Watches(q.mem, again) BY <1>3, <1>4, <1>5 DEF Watches
<1> QED BY <1>1, <1>2, <1>3, <1>6, WatchCalls

\* A poll: it leaves its window open, or shuts it as it completes or fails.
LEMMA PollWatches ==
  ASSUME TypeOK, NEW w \in Worker, Placed(proc[w]), proc[w].mem.pollStartedAt # NoTime,
         PollTimeout(w) \/ \E o \in Outcome \cup {"pending"} : Check(w, o)
  PROVE  Watches(proc[w].mem, proc'[w])
<1> DEFINE q == proc[w]
           f == q.stack[1]
           x == Here(f)
           m == Opened(q.mem)
           closed == [m EXCEPT !.pollStartedAt = NoTime]
           back == [closed EXCEPT !.status = "running"]
           k == Complete(back, StepPath(q), FALSE)
           on == [Advance(q) EXCEPT !.pc = "steps"]
           waiting == [m EXCEPT !.status = "polling"]
<1>1. q \in Call /\ proc \in [Worker -> Call] BY DEF TypeOK
<1>2. At(q, "call") /\ Def[StepOf(q)].kind = "poll" BY DEF PollTimeout, Check
<1>3. /\ q.mem \in RunState /\ q.stack # <<>> /\ f \in Frame /\ Framed(f)
      /\ f.i \in DOMAIN f.steps /\ StepPath(q) = x /\ x \in Path /\ StepOf(q) = f.steps[f.i]
      /\ q.mem.currentPath \in Path
      /\ CompletedPaths(q.mem) \in SUBSET Path /\ q.mem.status = "running"
      /\ Leads(x, q.mem.currentPath) /\ Route(CompletedPaths(q.mem), q.mem.currentPath)
  BY <1>1, <1>2, AtPlaced DEF Forward, Resumable
<1>4. x # <<>> /\ Odd(Len(x)) /\ Last(x) = f.steps[f.i] BY <1>3, HereIs
<1>5. q.mem.currentPath = x BY <1>2, <1>3, <1>4, LeafPath
<1>6. m = q.mem BY <1>3, WatchIs
<1>7. \/ proc'[w] = PersistThen(on, k)
      \/ proc'[w] = Persist(q, waiting, "return")
      \/ \E kind : \/ proc'[w] = Fail([q EXCEPT !.mem = m], kind, StepPath(q))
                   \/ proc'[w] = Fail([q EXCEPT !.mem = closed], kind, StepPath(q))
  <2>1. CASE PollTimeout(w)
    BY <1>1, <2>1 DEF PollTimeout, Local, Set, m, closed
  <2>2. ASSUME NEW o \in Outcome \cup {"pending"}, Check(w, o) PROVE <1>7!:
    BY <1>1, <2>2 DEF Check, Local, Set, m, closed, waiting, back
  <2> QED BY <2>1, <2>2
<1> HIDE DEF m
<1>8. SameWatch(q.mem, waiting) /\ SameWatch(q.mem, m)
  BY <1>3, <1>6 DEF RunState, SameWatch
<1>9. /\ closed \in RunState /\ closed.pollStartedAt = NoTime /\ closed.status = "running"
  BY <1>3, <1>6 DEF RunState, Time
<1> HIDE DEF waiting, closed
<1>10. back \in RunState /\ back.pollStartedAt = NoTime BY <1>9 DEF RunState, Status
<1> HIDE DEF back
<1>11. k.pollStartedAt = NoTime /\ x \in CompletedPaths(k)
  <2>1. k.pollStartedAt = NoTime BY <1>10 DEF RunState, Complete
  <2>2. CompletedPaths(k) = CompletedPaths(back) \cup {x} BY <1>3, <1>10, CompletePaths
  <2> QED BY <2>1, <2>2
<1> HIDE DEF k, x
<1>12. Watches(q.mem, PersistThen(on, k))
  <2>1. on \in Call BY <1>1, <1>3, AdvanceType, GotoType DEF Label
  <2>2. PersistThen(on, k).pc = "snapshot" /\ PersistThen(on, k).mem = k BY <2>1, PersistThenIs
  <2> HIDE DEF on
  <2> QED BY <1>5, <1>11, <2>2 DEF Watches
<1>13. Watches(q.mem, Persist(q, waiting, "return")) BY <1>1, <1>8, WatchCalls
<1>14. ASSUME NEW kind PROVE Watches(q.mem, Fail([q EXCEPT !.mem = m], kind, StepPath(q)))
  <2> DEFINE p == [q EXCEPT !.mem = m]
  <2>1. p \in Call /\ p.mem = m BY <1>1, <1>3, <1>6, MemType, WithMemIs
  <2> HIDE DEF p
  <2>2. Fail(p, kind, StepPath(q)).mem = m BY <2>1, FailIs
  <2>3. Watches(q.mem, Fail(p, kind, StepPath(q))) BY <1>8, <2>2 DEF Watches
  <2> QED BY <2>3 DEF p
<1>15. ASSUME NEW kind PROVE Watches(q.mem, Fail([q EXCEPT !.mem = closed], kind, StepPath(q)))
  <2> DEFINE p == [q EXCEPT !.mem = closed]
             n == Fail(p, kind, StepPath(q))
  <2>1. p \in Call /\ p.mem = closed /\ p.stack = q.stack BY <1>1, <1>9, MemType, WithMemIs
  <2> HIDE DEF p
  <2>2. n.pc = "raise" /\ n.mem = closed /\ n.err.path = x /\ n.stack = q.stack
    BY <1>3, <2>1, FailIs
  <2> HIDE DEF n
  <2>3. Raises(n, x) BY <1>9, <2>2 DEF Raises, x
  <2>4. Watches(q.mem, n) BY <1>5, <1>9, <2>2, <2>3 DEF Watches
  <2> QED BY <2>4 DEF n, p
<1> QED BY <1>7, <1>12, <1>13, <1>14, <1>15

\* A branch: while a window is open, its path is decided.
LEMMA BranchWatches ==
  ASSUME TypeOK, NEW w \in Worker, Placed(proc[w]), Windowed(proc[w]),
         proc[w].mem.pollStartedAt # NoTime,
         \/ ResumeBranch(w) \/ \E key \in Key : Decide(w, key)
         \/ \E o \in Outcome : DecideFailed(w, o)
  PROVE  Watches(proc[w].mem, proc'[w])
<1> DEFINE q == proc[w]
           f == q.stack[1]
           x == Here(f)
           cp == q.mem.currentPath
           def == Def[StepOf(q)]
<1>1. q \in Call /\ proc \in [Worker -> Call] BY DEF TypeOK
<1>2. At(q, "call") /\ def.kind = "branch" BY DEF ResumeBranch, Decide, DecideFailed
<1>3. /\ q.mem \in RunState /\ f \in Frame /\ Framed(f) /\ f.i \in DOMAIN f.steps
      /\ StepPath(q) = x /\ x \in Path /\ StepOf(q) = f.steps[f.i] /\ cp \in Path
      /\ q.mem.status = "running" /\ Leads(x, cp)
  BY <1>1, <1>2, AtPlaced DEF Forward
<1>4. Attends(q.mem) BY <1>1, <1>2, AtWindowed DEF Forward
<1>5. Last(x) = f.steps[f.i] BY <1>3, HereIs
<1>6. SameWatch(q.mem, q.mem) BY <1>3, WatchIs
<1>7. CASE ResumeBranch(w)
  <2>1. \E g : proc'[w] = Push(q, g) BY <1>1, <1>7 DEF ResumeBranch, Local, Set
  <2>2. \A g : Push(q, g).mem = q.mem BY <1>1, PushIs
  <2> QED BY <1>6, <2>1, <2>2 DEF Watches
<1>8. ASSUME NEW key \in Key, Decide(w, key) PROVE Watches(q.mem, proc'[w])
  <2>1. Len(cp) <= Len(x) BY <1>3, <1>8 DEF Decide
  <2>2. cp = x BY <1>3, <2>1, PathOrder
  <2>3. def = Def[Last(cp)] BY <1>3, <1>5, <2>2
  <2> QED BY <1>2, <1>3, <1>4, <2>3, ShutElsewhere
<1>9. ASSUME NEW o \in Outcome, DecideFailed(w, o) PROVE Watches(q.mem, proc'[w])
  <2>1. \/ proc'[w] = Persist(q, q.mem, "return")
        \/ proc'[w] = Fail(q, KindOf(o), StepPath(q))
    BY <1>1, <1>9 DEF DecideFailed, Local, Set
  <2> QED BY <1>1, <1>6, <2>1, WatchCalls
<1> QED BY <1>7, <1>8, <1>9

\* A repeat: while a window is open, it does not ask for its condition.
LEMMA RepeatWatches ==
  ASSUME TypeOK, NEW w \in Worker, Windowed(proc[w]), proc[w].mem.pollStartedAt # NoTime,
         \/ BeginIteration(w) \/ UntilTimeout(w)
         \/ \E o \in Outcome \cup {"more"} : Until(w, o)
  PROVE  Watches(proc[w].mem, proc'[w])
<1> DEFINE q == proc[w]
<1>1. q \in Call /\ q.mem \in RunState /\ proc \in [Worker -> Call]
  BY MemType DEF TypeOK
<1>2. ~At(q, "until") BY <1>1, AtWindowed DEF Forward, Descends
<1>3. BeginIteration(w) BY <1>2 DEF UntilTimeout, Until
<1> DEFINE m(r) == SetRepeat(q.mem, r)
           until(r) == [q EXCEPT !.mem = m(r), !.pc = "until"]
           down(r, g) == Push([q EXCEPT !.mem = m(r)], g)
<1>4. \E r, g : proc'[w] = until(r) \/ proc'[w] = down(r, g)
  BY <1>1, <1>3 DEF BeginIteration, Local, Set
<1>5. \A r : SameWatch(q.mem, m(r)) BY <1>1, WatchIs
<1>6. \A r, g : until(r).mem = m(r) /\ down(r, g).mem = m(r) BY <1>1 DEF Push, Call
<1> HIDE DEF m, until, down
<1> QED BY <1>4, <1>5, <1>6 DEF Watches

\* The error path: the error of a poll that has shut its window is recorded as it is raised.
LEMMA RaiseWatches ==
  ASSUME TypeOK, NEW w \in Worker, NEW s, Watches(s, proc[w]),
         RaiseCancelled(w) \/ Propagate(w) \/ RaiseNoCompensate(w) \/ RaiseFailure(w)
  PROVE  Watches(s, proc'[w])
<1> DEFINE q == proc[w]
<1>1. q \in Call /\ q.mem \in RunState /\ proc \in [Worker -> Call]
  BY MemType DEF TypeOK
<1>2. At(q, "raise") BY DEF RaiseCancelled, Propagate, RaiseNoCompensate, RaiseFailure
<1>3. /\ q.pc = "raise" /\ StepPath(q) \in Path /\ StepPath(q) = Here(q.stack[1])
  <2>1. q.pc = "raise" /\ StepPath(q) \in Path BY <1>1, <1>2, AtType DEF At
  <2>2. q.stack \in Seq(Frame) /\ q.stack # <<>> BY <1>1, <1>2 DEF At, Call
  <2>3. Top(q) = q.stack[1] BY <2>2 DEF Top
  <2> QED BY <2>1, <2>3 DEF StepPath, StepOf, Here, StepAt
<1>4. CASE RaiseCancelled(w)
  <2> DEFINE p == [q EXCEPT !.mem.currentPath = StepPath(q),
                            !.err = [kind |-> "context", path |-> <<>>]]
  <2>1. proc'[w] = Unwind(p) /\ q.cancelled BY <1>1, <1>4 DEF RaiseCancelled, Local, Set
  <2>2. p \in Call BY <1>1, <1>3, ContextType
  <2>3. p.cancelled BY <1>1, <2>1 DEF Call
  <2> HIDE DEF p
  <2> QED BY <2>1, <2>2, <2>3, UnwindWatches
<1>5. ~q.cancelled =>
        \/ SameWatch(s, q.mem)
        \/ q.mem.pollStartedAt = NoTime /\ Raises(q, s.currentPath)
  BY <1>3 DEF Watches
<1>6. CASE Propagate(w)
  <2>1. proc'[w] = Unwind(q) /\ ~q.cancelled /\ HandledBelow(q)
    BY <1>1, <1>6 DEF Propagate, Local, Set
  <2>2. Unwind(q).mem = q.mem BY <1>1, UnwindIs
  <2>3. ~Raises(q, s.currentPath)
    <3>1. SUFFICES ASSUME Raises(q, s.currentPath) PROVE FALSE OBVIOUS
    <3>2. q.err.path = StepPath(q) /\ q.mem.status = "running" BY <1>3, <3>1 DEF Raises
    <3>3. Len(StepPath(q)) \in Nat BY <1>3 DEF Path
    <3> QED BY <2>1, <3>2, <3>3 DEF HandledBelow
  <2>4. SameWatch(s, q.mem) BY <1>5, <2>1, <2>3
  <2> QED BY <2>1, <2>2, <2>4 DEF Watches
<1>7. ASSUME NEW n, ~q.cancelled, n.pc = "snapshot", n.mem.failedStepPath = StepPath(q),
             n.mem.pollStartedAt = q.mem.pollStartedAt, n.mem.currentPath = q.mem.currentPath
      PROVE  Watches(s, n)
  BY <1>3, <1>5, <1>7 DEF Watches, SameWatch, Raises
<1>8. CASE RaiseNoCompensate(w)
  <2> DEFINE m == [q.mem EXCEPT !.failedStepPath = StepPath(q)]
             u == Unwind(q)
             n == PersistThen(u, m)
  <2>1. proc'[w] = n /\ ~q.cancelled BY <1>1, <1>8 DEF RaiseNoCompensate, Local, Set
  <2>2. /\ m.failedStepPath = StepPath(q) /\ m.pollStartedAt = q.mem.pollStartedAt
        /\ m.currentPath = q.mem.currentPath
    BY <1>1 DEF RunState
  <2>3. u \in Call BY <1>1, UnwindType
  <2> HIDE DEF m, u
  <2>4. n.pc = "snapshot" /\ n.mem = m BY <2>3, PersistThenIs
  <2> HIDE DEF n
  <2> QED BY <1>7, <2>1, <2>2, <2>4
<1>9. CASE RaiseFailure(w)
  <2> DEFINE m == [q.mem EXCEPT !.failedStepPath = StepPath(q),
                                !.status = "compensating",
                                !.compensationIndex = Len(q.mem.completed) - 1,
                                !.repeatTimeout = @ \/ q.err.kind = "timeout"]
             n == Persist(q, m, "compensate")
  <2>1. proc'[w] = n /\ ~q.cancelled BY <1>1, <1>9 DEF RaiseFailure, Local, Set
  <2>2. /\ m.failedStepPath = StepPath(q) /\ m.pollStartedAt = q.mem.pollStartedAt
        /\ m.currentPath = q.mem.currentPath
    BY <1>1 DEF RunState
  <2> HIDE DEF m
  <2>3. n.pc = "snapshot" /\ n.mem = m BY <1>1, PersistIs
  <2> HIDE DEF n
  <2> QED BY <1>7, <2>1, <2>2, <2>3
<1> QED BY <1>4, <1>6, <1>8, <1>9

\* The compensation does not touch the window.
LEMMA CompensationWatches ==
  ASSUME TypeOK, NEW w \in Worker,
         \/ SkipCompensation(w) \/ CompensationCancelled(w) \/ CompensationDone(w)
         \/ \E o \in {"ok", "error", "retryafter", "context"} : Compensate(w, o)
  PROVE  Watches(proc[w].mem, proc'[w])
<1> DEFINE q == proc[w]
           down == [q.mem EXCEPT !.compensationIndex = @ - 1]
           over == [q.mem EXCEPT !.status = "failed", !.compensationIndex = -1]
           p(e) == [q EXCEPT !.err = e]
           c == [q EXCEPT !.cancelled = TRUE, !.err = [kind |-> "context", path |-> <<>>]]
           top == [q EXCEPT !.stack = <<>>]
<1>1. q \in Call /\ q.mem \in RunState /\ proc \in [Worker -> Call]
  BY MemType DEF TypeOK
<1>2. \/ proc'[w] = [q EXCEPT !.mem.compensationIndex = @ - 1]
      \/ \E e : proc'[w] = Unwind(p(e)) \/ proc'[w] = PersistThen(Unwind(p(e)), q.mem)
      \/ proc'[w] = Unwind(c)
      \/ proc'[w] = Persist(q, down, "compensate")
      \/ proc'[w] = Persist(q, q.mem, "return")
      \/ proc'[w] = Persist(top, over, "return")
  <2>1. CASE SkipCompensation(w) BY <1>1, <2>1 DEF SkipCompensation, Local, Set
  <2>2. CASE CompensationCancelled(w) BY <1>1, <2>2 DEF CompensationCancelled, Local, Set
  <2>3. CASE CompensationDone(w) BY <1>1, <2>3 DEF CompensationDone, Local, Set
  <2>4. ASSUME NEW o \in {"ok", "error", "retryafter", "context"}, Compensate(w, o) PROVE <1>2!:
    BY <1>1, <2>4 DEF Compensate, Set
  <2> QED BY <2>1, <2>2, <2>3, <2>4
<1>3. [q EXCEPT !.mem.compensationIndex = @ - 1].mem = down BY <1>1 DEF Call
<1>4. \A e : /\ Unwind(p(e)).mem = q.mem
             /\ PersistThen(Unwind(p(e)), q.mem).mem = q.mem
  BY <1>1 DEF Unwind, PersistThen, Call
<1>5. Unwind(c).mem = q.mem BY <1>1 DEF Unwind, Call
<1>6. Persist(top, over, "return").mem = over BY <1>1 DEF Persist, Call
<1>7. SameWatch(q.mem, q.mem) /\ SameWatch(q.mem, down) /\ SameWatch(q.mem, over)
  BY <1>1 DEF SameWatch, RunState
<1> HIDE DEF down, over, p, c, top
<1>8. \A n : SameWatch(q.mem, n.mem) => Watches(q.mem, n) BY DEF Watches
<1>9. Watches(q.mem, Persist(q, down, "compensate")) /\ Watches(q.mem, Persist(q, q.mem, "return"))
  BY <1>1, <1>7, WatchCalls
<1> QED BY <1>2, <1>3, <1>4, <1>5, <1>6, <1>7, <1>8, <1>9

-----------------------------------------------------------------------------
(* The durable state and the calls that may write it.                      *)

\* The call p keeps the window of a poll that is open in s.
PollKept(s, p) == s.pollStartedAt # NoTime => Watches(s, p)

\* What s holds is carried over to what the call p holds.
CarriedTo(s, p) == Carried(CompletedPaths(s), s.repeats, CompletedPaths(p.mem), p.mem.repeats)

\* A call that may write the durable state keeps the clocks and the window in it.
Deadlines ==
  Mode # "none" =>
    \A w \in Worker :
      proc[w].pc # "idle" /\ Fresh(w) => CarriedTo(store, proc[w]) /\ PollKept(store, proc[w])

\* The call of w moves and writes nothing: whoever kept the window still does.
Relays(w) ==
  /\ store' = store /\ \A v \in Worker \ {w} : proc'[v] = proc[v]
  /\ proc[w].pc \notin {"idle", "snapshot"}
  /\ proc'[w].pc # "idle" => proc'[w].mem.revision = proc[w].mem.revision
  /\ \A s : PollKept(s, proc[w]) => PollKept(s, proc'[w])

\* The call of w fails or ends, begins, or goes on as it was.
Restarts(w) ==
  /\ store' = store /\ \A v \in Worker \ {w} : proc'[v] = proc[v]
  /\ \/ proc'[w].pc = "idle" \/ proc'[w] = Loaded
     \/ /\ proc[w].pc # "idle" /\ proc'[w].pc = proc[w].pc /\ proc'[w].mem = proc[w].mem
        /\ \A s : PollKept(s, proc[w]) => PollKept(s, proc'[w])

\* The call of w writes its state, and goes on from it or ends.
Writes(w) ==
  /\ proc[w].pc = "snapshot" /\ Accepts(proc[w].mem) /\ store' = Written(proc[w].mem)
  /\ \A v \in Worker \ {w} : proc'[v] = proc[v]
  /\ proc'[w].pc = "idle" \/ proc'[w].mem = store'

\* A move away from the error path and a snapshot keeps an open window as the call did.
LEMMA WatchesOn ==
  ASSUME NEW q, NEW n, q.pc \notin {"idle", "return", "raise", "snapshot"},
         q.mem.pollStartedAt # NoTime => Watches(q.mem, n)
  PROVE  \A s : PollKept(s, q) => PollKept(s, n)
<1> SUFFICES ASSUME NEW s, s.pollStartedAt # NoTime, Watches(s, q) PROVE Watches(s, n)
  BY DEF PollKept
<1>1. SameWatch(s, q.mem) BY DEF Watches, Raises
<1>2. Watches(q.mem, n) BY <1>1 DEF SameWatch
<1> QED BY <1>1, <1>2 DEF Watches, SameWatch, Raises

\* The steps that write nothing.
LEMMA CallRelays ==
  ASSUME TypeOK, Position, Windows, Lineage, NEW w \in Worker, WorkerStep(w),
         ~SnapshotOK(w), ~SnapshotFailed(w), ~Return(w)
  PROVE  Relays(w)
<1> DEFINE q == proc[w]
<1>1. proc \in [Worker -> Call] /\ Placed(q) /\ Windowed(q)
  BY DEF TypeOK, Position, Windows
<1>2. ASSUME Moves(q, proc'[w]), q.pc \notin {"idle", "snapshot"}, store' = store,
             \E n : Set(w, n), \A s : PollKept(s, q) => PollKept(s, proc'[w])
      PROVE  Relays(w)
  <2>1. \A v \in Worker \ {w} : proc'[v] = proc[v] BY <1>1, <1>2 DEF Set
  <2>2. proc'[w].pc # "idle" => proc'[w].mem.revision = q.mem.revision
    BY <1>2 DEF Moves, Lineage
  <2> QED BY <1>2, <2>1, <2>2 DEF Relays
<1>3. ASSUME Moves(q, proc'[w]), q.pc \notin {"idle", "return", "raise", "snapshot"},
             store' = store, \E n : Set(w, n),
             q.mem.pollStartedAt # NoTime => Watches(q.mem, proc'[w])
      PROVE  Relays(w)
  BY <1>2, <1>3, WatchesOn
<1>4. ASSUME Ahead(q, proc'[w]), store' = store, \E n : Set(w, n),
             q.mem.pollStartedAt # NoTime => Watches(q.mem, proc'[w])
      PROVE  Relays(w)
  <2>1. q.pc \in Forward BY <1>4 DEF Ahead
  <2> QED BY <1>3, <1>4, <2>1, AheadMoves DEF Forward
<1>5. CASE Start(w)
  BY <1>3, <1>5, StartMoves, StartWatches DEF Start, Local
<1>6. CASE SkipCompleted(w) \/ StopCancelled(w) \/ EnterStep(w) \/ ScopeDone(w)
  BY <1>1, <1>4, <1>6, StepsAhead, StepsWatch, ScopeWatches
     DEF SkipCompleted, StopCancelled, EnterStep, ScopeDone, Local
<1>7. CASE \/ EnsureRepeatStarted(w) \/ CheckRepeatTimeout(w)
           \/ \E o \in Outcome : OnEnter(w, o)
  BY <1>4, <1>7, PrologueAhead, PrologueWatches
     DEF EnsureRepeatStarted, CheckRepeatTimeout, OnEnter, Local
<1>8. CASE (\E o \in Outcome : Do(w, o)) \/ Sleep(w)
  BY <1>4, <1>8, ActionAhead, ActionWatches DEF Do, Sleep, Local
<1>9. CASE PollTimeout(w) \/ \E o \in Outcome \cup {"pending"} : Check(w, o)
  BY <1>1, <1>4, <1>9, PollAhead, PollWatches DEF PollTimeout, Check, Local
<1>10. CASE \/ ResumeBranch(w) \/ \E key \in Key : Decide(w, key)
            \/ \E o \in Outcome : DecideFailed(w, o)
  BY <1>1, <1>4, <1>10, BranchAhead, BranchWatches DEF ResumeBranch, Decide, DecideFailed, Local
<1>11. CASE \/ BeginIteration(w) \/ UntilTimeout(w)
            \/ \E o \in Outcome \cup {"more"} : Until(w, o)
  BY <1>1, <1>4, <1>11, RepeatAhead, RepeatWatches DEF BeginIteration, UntilTimeout, Until, Local
<1>12. CASE RaiseCancelled(w) \/ Propagate(w) \/ RaiseNoCompensate(w) \/ RaiseFailure(w)
  <2>1. q.pc = "raise" /\ store' = store /\ \E n : Set(w, n)
    BY <1>12 DEF RaiseCancelled, Propagate, RaiseNoCompensate, RaiseFailure, Local, At
  <2>2. \A s : PollKept(s, q) => PollKept(s, proc'[w]) BY <1>12, RaiseWatches DEF PollKept
  <2> QED BY <1>2, <1>12, <2>1, <2>2, RaiseMoves
<1>13. CASE \/ SkipCompensation(w) \/ CompensationCancelled(w) \/ CompensationDone(w)
            \/ \E o \in {"ok", "error", "retryafter", "context"} : Compensate(w, o)
  <2>1. q.pc = "compensate" /\ store' = store /\ \E n : Set(w, n)
    BY <1>13 DEF SkipCompensation, CompensationCancelled, CompensationDone, Compensate, Local,
       AtCompletion
  <2> QED BY <1>3, <1>13, <2>1, CompensationMoves, CompensationWatches
<1> QED BY <1>5, <1>6, <1>7, <1>8, <1>9, <1>10, <1>11, <1>12, <1>13 DEF WorkerStep

\* The write of a snapshot, and the beginning and the end of a call.
LEMMA EndRelays ==
  ASSUME TypeOK, ~CallerSaves, Mode # "none", NEW w \in Worker,
         \/ SnapshotOK(w) \/ SnapshotFailed(w) \/ SnapshotAckLost(w)
         \/ Load(w) \/ Return(w) \/ Crash(w) \/ Cancel(w)
  PROVE  Restarts(w) \/ Writes(w)
<1> DEFINE q == proc[w]
           m == Written(q.mem)
           n == [q EXCEPT !.pc = q.next, !.mem = m]
           c == [q EXCEPT !.cancelled = TRUE]
<1>1. q \in Call /\ proc \in [Worker -> Call] /\ NoCall.pc = "idle" BY DEF TypeOK, NoCall
<1>2. \A v \in Worker \ {w} : proc'[v] = proc[v]
  BY <1>1 DEF SnapshotOK, SnapshotFailed, SnapshotAckLost, Load, Return, Crash, Cancel, Local, Set
<1>3. CASE SnapshotOK(w) \/ SnapshotAckLost(w)
  <2>1. /\ q.pc = "snapshot" /\ Accepts(q.mem) /\ store' = m
        /\ proc'[w] = n \/ proc'[w] = NoCall
    BY <1>1, <1>3 DEF SnapshotOK, SnapshotAckLost, Set
  <2>2. n.mem = m BY <1>1 DEF Call
  <2> HIDE DEF m, n
  <2>3. proc'[w].pc = "idle" \/ proc'[w].mem = store' BY <1>1, <2>1, <2>2
  <2> QED BY <1>2, <2>1, <2>3 DEF Writes, m
<1>4. CASE SnapshotFailed(w) \/ Return(w) \/ Crash(w)
  <2>1. proc'[w] = NoCall /\ store' = store
    BY <1>1, <1>4 DEF SnapshotFailed, Return, Crash, Local, Set
  <2> QED BY <1>1, <1>2, <2>1 DEF Restarts
<1>5. CASE Load(w)
  <2>1. proc'[w] = Loaded /\ store' = store BY <1>1, <1>5 DEF Load, Set, Loaded
  <2> QED BY <1>2, <2>1 DEF Restarts
<1>6. CASE Cancel(w)
  <2>1. proc'[w] = c /\ store' = store /\ q.pc # "idle"
    BY <1>1, <1>6 DEF Cancel, Local, Set
  <2>2. /\ c.pc = q.pc /\ c.mem = q.mem /\ c.stack = q.stack /\ c.err = q.err /\ c.cancelled
    BY <1>1 DEF Call
  <2> HIDE DEF c
  <2>3. \A s : PollKept(s, q) => PollKept(s, c)
    BY <2>2 DEF PollKept, Watches, Raises, SameWatch
  <2> QED BY <1>2, <2>1, <2>2, <2>3 DEF Restarts
<1> QED BY <1>3, <1>4, <1>5, <1>6

\* What a step does, as far as the clocks and the windows go.
LEMMA StepRelays ==
  ASSUME TypeOK, ~CallerSaves, Mode # "none", Position, Windows, Lineage, [Next]_vars
  PROVE  \/ store' = store /\ proc' = proc
         \/ \E w \in Worker : Relays(w) \/ Restarts(w) \/ Writes(w)
<1>1. ASSUME NEW w \in Worker, WorkerStep(w) PROVE Relays(w) \/ Restarts(w) \/ Writes(w)
  BY <1>1, CallRelays, EndRelays
<1>2. ASSUME NEW w \in Worker, Load(w) \/ SnapshotAckLost(w) \/ Crash(w) \/ Cancel(w)
      PROVE  Restarts(w) \/ Writes(w)
  BY <1>2, EndRelays
<1>3. CASE Tick \/ UNCHANGED vars BY <1>3 DEF Tick, vars
<1> QED BY <1>1, <1>2, <1>3 DEF Next, Terminated

\* Initially there are no calls.
LEMMA InitDeadlines == Init => Deadlines
BY DEF Init, Deadlines, NoCall

\* A call that holds the durable state keeps it.
LEMMA KeptSame ==
  ASSUME NEW s, NEW p, p.mem = s
  PROVE  CarriedTo(s, p) /\ PollKept(s, p)
<1>1. CarriedTo(s, p) BY CarriedGrows DEF CarriedTo
<1> QED BY <1>1 DEF PollKept, Watches, SameWatch

\* The writer is a call that nobody has overtaken.
LEMMA WriterFresh ==
  ASSUME Guarded, NEW w \in Worker, Writes(w)
  PROVE  Fresh(w)
BY DEF Guarded, Writes, Accepts, Fresh

\* Every step leaves the clocks and the windows to the calls that may write.
LEMMA StepKeepsDeadlines ==
  ASSUME Guarded, ~CallerSaves, TypeOK, TypeOK', Position, Windows, Tidiness, Lineage, Deadlines,
         [Next]_vars
  PROVE  Deadlines'
<1> SUFFICES ASSUME Mode # "none", NEW v \in Worker, proc'[v].pc # "idle", Fresh(v)'
             PROVE  CarriedTo(store', proc'[v]) /\ PollKept(store', proc'[v])
  BY DEF Deadlines
<1>1. /\ Alone \/ (Mode = "cas" /\ proc'[v].mem.revision = store'.revision)
      /\ Mode # "none"
  BY DEF Fresh
<1>2. Fresh(v) /\ proc[v].pc # "idle" => CarriedTo(store, proc[v]) /\ PollKept(store, proc[v])
  BY DEF Deadlines
<1>3. Moved(v) BY StepMoves
<1>4. /\ proc[v] \in Call /\ proc'[v] \in Call /\ Placed(proc[v]) /\ TidyCall(proc[v])
  BY DEF TypeOK, Position, Tidiness
<1>5. Loaded.mem = store BY DEF Loaded, NoCall
<1>6. ASSUME store' = store, proc'[v] = proc[v]
      PROVE  CarriedTo(store', proc'[v]) /\ PollKept(store', proc'[v])
  BY <1>1, <1>2, <1>6 DEF Fresh
<1>7. ASSUME NEW w \in Worker, Relays(w)
      PROVE  CarriedTo(store', proc'[v]) /\ PollKept(store', proc'[v])
  <2>1. CASE v # w BY <1>6, <1>7, <2>1 DEF Relays
  <2>2. CASE v = w
    <3>1. proc[v].pc # "idle" /\ store' = store /\ proc'[v].mem.revision = proc[v].mem.revision
      BY <1>7, <2>2 DEF Relays
    <3>2. Fresh(v) BY <1>1, <3>1 DEF Fresh
    <3>3. CarriedTo(store, proc[v]) /\ PollKept(store, proc[v]) BY <1>2, <3>1, <3>2
    <3>4. PollKept(store', proc'[v]) BY <1>7, <2>2, <3>1, <3>3 DEF Relays
    <3>5. CarriedTo(store', proc'[v])
      <4>1. CASE Tracks(proc[v], proc'[v])
        <5>1. CarriedCall(proc[v], proc'[v]) BY <1>4, <4>1, TracksCarried
        <5>2. /\ store \in RunState /\ proc[v].mem \in RunState /\ proc'[v].mem \in RunState
          BY <1>4 DEF TypeOK, Call
        <5>3. \A m \in RunState :
                CompletedPaths(m) \in SUBSET Path /\ m.repeats \in SUBSET RepeatState
          BY PathsType DEF RunState
        <5> QED BY <3>1, <3>3, <5>1, <5>2, <5>3, CarriedOn DEF CarriedCall, CarriedTo
      <4>2. CASE proc'[v] = proc[v] BY <3>1, <3>3, <4>2
      <4>3. CASE proc'[v] = NoCall BY <4>3 DEF NoCall
      <4>4. CASE proc'[v] = Loaded BY <1>5, <3>1, <4>4, KeptSame
      <4> QED BY <1>3, <4>1, <4>2, <4>3, <4>4 DEF Moved
    <3> QED BY <3>4, <3>5
  <2> QED BY <2>1, <2>2
<1>8. ASSUME NEW w \in Worker, Restarts(w)
      PROVE  CarriedTo(store', proc'[v]) /\ PollKept(store', proc'[v])
  <2>1. CASE v # w BY <1>6, <1>8, <2>1 DEF Restarts
  <2>2. CASE v = w /\ proc'[w] = Loaded
    <3>1. store' = store /\ proc'[v].mem = store BY <1>5, <1>8, <2>2 DEF Restarts
    <3> QED BY <3>1, KeptSame
  <2>3. CASE v = w /\ proc[w].pc # "idle" /\ proc'[w].mem = proc[w].mem
             /\ \A s : PollKept(s, proc[w]) => PollKept(s, proc'[w])
    <3>1. store' = store BY <1>8 DEF Restarts
    <3>2. Fresh(v) BY <1>1, <2>3, <3>1 DEF Fresh
    <3>3. CarriedTo(store, proc[v]) /\ PollKept(store, proc[v]) BY <1>2, <2>3, <3>2
    <3> QED BY <2>3, <3>1, <3>3 DEF CarriedTo
  <2> QED BY <1>8, <2>1, <2>2, <2>3 DEF Restarts
<1>9. ASSUME NEW w \in Worker, Writes(w)
      PROVE  CarriedTo(store', proc'[v]) /\ PollKept(store', proc'[v])
  <2>1. CASE v = w
    <3>1. proc'[v].mem = store' BY <1>9, <2>1 DEF Writes
    <3> QED BY <3>1, KeptSame
  <2>2. CASE v # w
    <3>1. proc'[v] = proc[v] /\ ~Alone /\ Mode = "cas" BY <1>9, <2>2 DEF Writes, Guarded, Alone
    <3>2. store.revision = proc[w].mem.revision /\ store' = Written(proc[w].mem)
      BY <1>9, <3>1 DEF Writes, Accepts
    <3>3. proc[w].mem \in RunState /\ proc[v].mem \in RunState BY <1>4 DEF TypeOK, Call
    <3>4. /\ proc[w].mem.revision \in Nat /\ proc[v].mem.revision \in Nat
          /\ store'.revision = proc[w].mem.revision + 1
      BY <3>2, <3>3 DEF Written, RunState
    <3>5. proc[v].mem.revision <= store.revision BY <3>1 DEF Lineage
    <3>6. proc[v].mem.revision = store'.revision BY <1>1, <3>1
    <3>7. FALSE BY <3>2, <3>4, <3>5, <3>6
    <3> QED BY <3>7
  <2> QED BY <2>1, <2>2
<1> QED BY <1>6, <1>7, <1>8, <1>9, StepRelays

\* The call that writes the durable state keeps the clocks and the window in it.
LEMMA WriteKeeps ==
  ASSUME Guarded, ~CallerSaves, TypeOK, Position, Windows, Lineage, Deadlines, [Next]_vars
  PROVE  \/ store' = store
         \/ \E w \in Worker : /\ proc[w].pc = "snapshot" /\ store' = Written(proc[w].mem)
                              /\ CarriedTo(store, proc[w]) /\ PollKept(store, proc[w])
<1>1. CASE Mode = "none" BY <1>1, WhoWrites DEF SnapshotAckLost
<1>2. CASE Mode # "none"
  <2>1. \/ store' = store \/ \E w \in Worker : Writes(w)
    BY <1>2, StepRelays DEF Relays, Restarts
  <2>2. ASSUME NEW w \in Worker, Writes(w)
        PROVE  /\ proc[w].pc = "snapshot" /\ store' = Written(proc[w].mem)
               /\ CarriedTo(store, proc[w]) /\ PollKept(store, proc[w])
    <3>1. proc[w].pc = "snapshot" /\ store' = Written(proc[w].mem) BY <2>2 DEF Writes
    <3>2. Fresh(w) BY <2>2, WriterFresh
    <3> QED BY <1>2, <3>1, <3>2 DEF Deadlines
  <2> QED BY <2>1, <2>2
<1> QED BY <1>1, <1>2

\* The clock of a repeat in the state r goes on in n.
Ticks(r, n) ==
  \/ r.path \in CompletedPaths(n)
  \/ \E q \in n.repeats : q.path = r.path /\ q.startedAt = r.startedAt
  \/ \E q \in n.repeats : IsStrictPrefix(q.path, r.path) /\ Def[Last(q.path)].compact

\* The window that is open in m stays in n, or the poll is over.
StaysOpen(m, n) ==
  \/ n.pollStartedAt = m.pollStartedAt
  \/ /\ n.pollStartedAt = NoTime
     /\ m.currentPath \in CompletedPaths(n) \/ n.failedStepPath = m.currentPath

\* The calls that may write keep the clocks and the windows, when writes are guarded and the
\* snapshots alone make the run durable.
THEOREM DeadlinesHold ==
  ASSUME Guarded, ~CallerSaves
  PROVE  Spec => []Deadlines
<1>1. TypeOK /\ TypeOK' /\ Position /\ Tidiness /\ [Next]_vars => Tidiness'
  BY StepKeepsTidiness
<1>2. TypeOK /\ Position /\ Windows /\ [Next]_vars => Windows'
  BY StepKeepsWindows
<1>3. /\ TypeOK /\ TypeOK' /\ Position /\ Windows /\ Tidiness /\ Lineage /\ Deadlines /\ [Next]_vars
      => Deadlines'
  BY StepKeepsDeadlines
<1>4. QED
  BY <1>1, <1>2, <1>3, InitTidiness, InitWindows, InitDeadlines, PositionHolds, LineageHolds,
     TypeCorrect, PTL DEF Spec

\* The window of a timed repeat spans restarts: whatever was interrupted, retried or lost, no
\* later write moves the clock of a repeat that goes on.
THEOREM RepeatDeadlineHolds ==
  ASSUME Guarded, ~CallerSaves
  PROVE  Spec => RepeatDeadlineFixed
<1>1. ASSUME TypeOK, Position, Windows, Lineage, Deadlines, [Next]_vars,
             NEW r \in store.repeats, r.startedAt # NoTime
      PROVE  Ticks(r, store')
  <2>1. CASE store' = store BY <1>1, <2>1 DEF Ticks
  <2>2. ASSUME NEW w \in Worker, store' = Written(proc[w].mem), CarriedTo(store, proc[w])
        PROVE  Ticks(r, store')
    <3> DEFINE m == proc[w].mem
    <3>1. m \in RunState /\ store \in RunState BY <1>1 DEF TypeOK, Call
    <3>2. store'.completed = m.completed /\ store'.repeats = m.repeats
      BY <2>2, <3>1 DEF Written, RunState
    <3>3. CompletedPaths(store') = CompletedPaths(m) BY <3>2 DEF CompletedPaths
    <3>4. r.path \in Path /\ \A q \in m.repeats : q.path \in Path
      BY <3>1 DEF RunState, RepeatState
    <3>5. GoesOn(r, CompletedPaths(m), m.repeats) BY <2>2 DEF CarriedTo, Carried
    <3>6. CASE Above(m.repeats, r.path)
      <4>1. PICK q \in m.repeats : Def[Last(q.path)].compact /\ Under(q.path, r.path)
        BY <3>6 DEF Above
      <4>2. IsStrictPrefix(q.path, r.path) BY <3>4, <4>1, PrefixLeads
      <4> QED BY <3>2, <4>1, <4>2 DEF Ticks
    <3>7. CASE \E q \in m.repeats : q.path = r.path
                 /\ (q.startedAt = r.startedAt \/ r.path \in CompletedPaths(m))
      BY <3>2, <3>3, <3>7 DEF Ticks
    <3> QED BY <1>1, <3>5, <3>6, <3>7 DEF GoesOn
  <2> QED BY <1>1, <2>1, <2>2, WriteKeeps
<1>2. TypeOK /\ Position /\ Windows /\ Lineage /\ Deadlines /\ [Next]_vars =>
        \A r \in store.repeats :
          r.startedAt # NoTime =>
            \/ r.path \in CompletedPaths(store')
            \/ \E q \in store'.repeats : q.path = r.path /\ q.startedAt = r.startedAt
            \/ \E q \in store'.repeats : /\ IsStrictPrefix(q.path, r.path)
                                         /\ Def[Last(q.path)].compact
  BY <1>1 DEF Ticks
<1>3. TypeOK /\ Position /\ Windows /\ [Next]_vars => Windows'
  BY StepKeepsWindows
<1>4. QED
  BY <1>2, <1>3, InitWindows, DeadlinesHold, PositionHolds, LineageHolds, TypeCorrect, PTL
     DEF Spec, RepeatDeadlineFixed

\* The window of a poll spans restarts: it stays where it is until the poll is durably
\* completed or durably recorded as failed, though memory has shut it before.
THEOREM PollDeadlineHolds ==
  ASSUME Guarded, ~CallerSaves
  PROVE  Spec => PollDeadlineFixed
<1>1. ASSUME TypeOK, Position, Windows, Lineage, Deadlines, [Next]_vars,
             store.pollStartedAt # NoTime
      PROVE  StaysOpen(store, store')
  <2>1. CASE store' = store BY <2>1 DEF StaysOpen
  <2>2. ASSUME NEW w \in Worker, proc[w].pc = "snapshot", store' = Written(proc[w].mem),
               PollKept(store, proc[w])
        PROVE  StaysOpen(store, store')
    <3> DEFINE m == proc[w].mem
    <3>1. m \in RunState BY <1>1 DEF TypeOK, Call
    <3>2. /\ store'.completed = m.completed /\ store'.pollStartedAt = m.pollStartedAt
          /\ store'.failedStepPath = m.failedStepPath
      BY <2>2, <3>1 DEF Written, RunState
    <3>3. CompletedPaths(store') = CompletedPaths(m) BY <3>2 DEF CompletedPaths
    <3>4. Watches(store, proc[w]) BY <1>1, <2>2 DEF PollKept
    <3>5. \/ m.pollStartedAt = store.pollStartedAt
          \/ /\ m.pollStartedAt = NoTime
             /\ store.currentPath \in CompletedPaths(m) \/ m.failedStepPath = store.currentPath
      BY <2>2, <3>4 DEF Watches, Raises, SameWatch
    <3> QED BY <3>2, <3>3, <3>5 DEF StaysOpen
  <2> QED BY <1>1, <2>1, <2>2, WriteKeeps
<1>2. TypeOK /\ Position /\ Windows /\ Lineage /\ Deadlines /\ [Next]_vars =>
        (store.pollStartedAt # NoTime =>
           \/ store'.pollStartedAt = store.pollStartedAt
           \/ /\ store'.pollStartedAt = NoTime
              /\ \/ store.currentPath \in CompletedPaths(store')
                 \/ store'.failedStepPath = store.currentPath)
  BY <1>1 DEF StaysOpen
<1>3. TypeOK /\ Position /\ Windows /\ [Next]_vars => Windows'
  BY StepKeepsWindows
<1>4. QED
  BY <1>2, <1>3, InitWindows, DeadlinesHold, PositionHolds, LineageHolds, TypeCorrect, PTL
     DEF Spec, PollDeadlineFixed
=============================================================================
