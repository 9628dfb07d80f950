------------------------------ MODULE MigrationProofs ------------------------------
(***************************************************************************)
(* Proofs about runs whose definition changes, for any workers, releases,  *)
(* definitions and number of faults.                                       *)
(***************************************************************************)
EXTENDS MigrationProperties, TLAPS

\* The variables have their types.
TypeOK ==
  /\ store \in RunState
  /\ proc \in [Worker -> Call]
  /\ release \in [Worker -> Release]
  /\ undone \subseteq Operation
  /\ budget \in 0..MaxFaults

\* The journal b records first what a records.
Continues(a, b) ==
  /\ Len(a) <= Len(b)
  /\ \A k \in 1..Len(a) : a[k].does = b[k].does

\* The state n may follow m.
Follows(m, n) == m.version <= n.version /\ Continues(m.completed, n.completed)

\* Where a call may be, given the state it works on: one that is over is not worked
\* on, and is written only on the way to where the call ends.
Sound(p) ==
  /\ p.pc = "start" => ~IsTerminal(p.mem) /\ (p.mem.status = "new" => p.mem.version = 0)
  /\ p.pc \in {"resume", "steps", "compensate"} => ~IsTerminal(p.mem)
  /\ p.pc \in {"steps", "compensate"} => p.mem.status # "new"
  /\ p.pc = "snapshot" =>
       /\ p.mem.status # "new"
       /\ p.next \in {"check", "steps", "compensate", "return"}
       /\ IsTerminal(p.mem) => p.next \in {"check", "return"}

\* The call p and the durable state s: if nobody has written s since p read or wrote
\* it, the state of p may follow it, and if s is over, so is the work of p.
Linked(s, p) ==
  /\ p.mem.revision <= s.revision
  /\ p.mem.revision = s.revision =>
       /\ Follows(s, p.mem)
       /\ IsTerminal(s) => IsTerminal(p.mem) /\ p.pc \in {"check", "return"}

Inv ==
  /\ TypeOK
  /\ store.status = "new" => store.version = 0
  /\ \A w \in Worker : proc[w].pc # "idle" => Sound(proc[w]) /\ Linked(store, proc[w])

-----------------------------------------------------------------------------
(* The data.                                                               *)

LEMMA StepsTyped ==
  ASSUME NEW v \in Release
  PROVE  Def[v].steps \in Seq(StepDef) /\ v \in Nat
BY ReleaseAssumption DEF ReleaseDef

\* A state may follow itself, and what follows a state's successor follows it.
LEMMA FollowsOrder ==
  ASSUME NEW m \in RunState, NEW n \in RunState, NEW o \in RunState
  PROVE  /\ Follows(m, m)
         /\ Follows(m, n) /\ Follows(n, o) => Follows(m, o)
<1>1. /\ m.version \in Nat /\ n.version \in Nat /\ o.version \in Nat
      /\ Len(m.completed) \in Nat /\ Len(n.completed) \in Nat /\ Len(o.completed) \in Nat
  BY DEF RunState
<1> QED BY <1>1 DEF Follows, Continues

\* The writing of a snapshot.
LEMMA PersistTyped ==
  ASSUME NEW p \in Call, NEW m \in RunState, NEW l \in Label
  PROVE  /\ Persist(p, m, l) \in Call
         /\ Persist(p, m, l).mem = m /\ Persist(p, m, l).pc = "snapshot"
         /\ Persist(p, m, l).next = l
BY DEF Persist, Call, Label

LEMMA NoCallTyped == NoCall \in Call /\ NoCall.pc = "idle"
<1>1. <<>> \in Seq(Completion) OBVIOUS
<1> QED BY <1>1 DEF NoCall, NewRun, Call, Label, RunState, Status

\* What the migrator makes of a state is a state that may follow it.
LEMMA MigratedFollows ==
  ASSUME NEW m \in RunState, NEW v \in Release, m.version < v
  PROVE  /\ Migrated(m, v) \in RunState
         /\ Follows(m, Migrated(m, v))
         /\ Migrated(m, v).status = m.status
         /\ Migrated(m, v).revision = m.revision
<1> DEFINE R(name) == Renamed(m.version, v, name)
           completed == RenamedJournal(m.version, v, m.completed)
<1>1. ASSUME NEW name PROVE R(name) = name \/ R(name) \in Name
  <2>1. CASE \E i \in DOMAIN Def[m.version].steps, j \in DOMAIN Def[v].steps :
               Def[m.version].steps[i].name = name /\ Def[v].steps[j].does = Def[m.version].steps[i].does
    <3> DEFINE j == CHOOSE j \in DOMAIN Def[v].steps :
                      \E i \in DOMAIN Def[m.version].steps :
                        /\ Def[m.version].steps[i].name = name
                        /\ Def[v].steps[j].does = Def[m.version].steps[i].does
    <3>1. j \in DOMAIN Def[v].steps BY <2>1
    <3>2. Def[v].steps[j] \in StepDef
      <4> HIDE DEF j
      <4> QED BY <3>1, StepsTyped
    <3>3. Def[v].steps[j].name \in Name BY <3>2 DEF StepDef
    <3>4. R(name) = Def[v].steps[j].name BY <2>1 DEF Renamed
    <3> QED BY <3>3, <3>4
  <2> QED BY <2>1 DEF Renamed
<1>2. completed \in Seq(Completion) /\ Len(completed) = Len(m.completed)
  <2>1. m.completed \in Seq(Completion) BY DEF RunState
  <2>2. \A k \in 1..Len(m.completed) : completed[k] \in Completion
    <3> SUFFICES ASSUME NEW k \in 1..Len(m.completed) PROVE completed[k] \in Completion
      OBVIOUS
    <3>1. m.completed[k] \in Completion BY <2>1
    <3>2. Renamed(m.version, v, m.completed[k].step) \in Name
      BY <1>1, <3>1 DEF Completion
    <3>3. completed[k] = [m.completed[k] EXCEPT !.step = Renamed(m.version, v, m.completed[k].step)]
      BY <2>1 DEF RenamedJournal
    <3> HIDE DEF completed
    <3> QED BY <3>1, <3>2, <3>3 DEF Completion
  <2>3. completed = [k \in 1..Len(m.completed) |-> completed[k]] BY <2>1 DEF RenamedJournal
  <2>4. Len(m.completed) \in Nat BY <2>1
  <2> HIDE DEF completed
  <2> QED BY <2>2, <2>3, <2>4
<1>3. \A k \in 1..Len(m.completed) : completed[k].does = m.completed[k].does
  <2>1. m.completed \in Seq(Completion) BY DEF RunState
  <2> QED BY <2>1 DEF Completion, RenamedJournal
<1>4. R(m.path) \in Name \cup {NoName} BY <1>1 DEF RunState
<1>5. /\ Migrated(m, v) = [m EXCEPT !.version = v, !.path = R(m.path), !.completed = completed]
  BY DEF Migrated, RunState
<1> HIDE DEF completed, R
<1>6. v \in Nat BY StepsTyped
<1>7. Migrated(m, v) \in RunState BY <1>2, <1>4, <1>5, <1>6 DEF RunState
<1>8. /\ Migrated(m, v).version = v /\ Migrated(m, v).completed = completed
      /\ Migrated(m, v).status = m.status /\ Migrated(m, v).revision = m.revision
  BY <1>5 DEF RunState
<1>9. m.version <= v BY <1>6 DEF RunState
<1> QED BY <1>2, <1>3, <1>7, <1>8, <1>9 DEF Follows, Continues, RunState

-----------------------------------------------------------------------------
(* How an action changes a call and the durable state.                     *)

\* A call that returns, crashes, or goes on without writing.
LEMMA LocalKeeps ==
  ASSUME Inv, NEW w \in Worker, NEW p \in Call, Local(w, p), budget' \in 0..MaxFaults,
         \/ p.pc = "idle"
         \/ Sound(p) /\ Linked(store, p)
  PROVE  Inv'
<1>1. TypeOK' BY DEF Inv, TypeOK, Local, Set
<1>2. ASSUME NEW v \in Worker, proc'[v].pc # "idle"
      PROVE  Sound(proc'[v]) /\ Linked(store', proc'[v])
  BY <1>2 DEF Inv, TypeOK, Local, Set
<1>3. (store.status = "new" => store.version = 0)' BY DEF Inv, Local
<1> QED BY <1>1, <1>2, <1>3 DEF Inv, Sound, Linked, Follows, Continues, IsTerminal

\* A call that goes on with a state that may follow the one it had.
LEMMA GoesOn ==
  ASSUME Inv, NEW w \in Worker, proc[w].pc # "idle", NEW p \in Call,
         p.mem.revision = proc[w].mem.revision, Follows(proc[w].mem, p.mem),
         IsTerminal(proc[w].mem) => IsTerminal(p.mem),
         proc[w].pc \in {"check", "return"} /\ IsTerminal(proc[w].mem) =>
           p.pc \in {"check", "return"}
  PROVE  Linked(store, p)
<1>1. proc[w] \in Call /\ proc[w].mem \in RunState /\ p.mem \in RunState /\ store \in RunState
  BY DEF Inv, TypeOK, Call
<1>2. Linked(store, proc[w]) BY DEF Inv
<1>3. Follows(store, proc[w].mem) => Follows(store, p.mem) BY <1>1, FollowsOrder
<1> QED BY <1>2, <1>3 DEF Linked

LEMMA LocalStep ==
  ASSUME Inv, NEW w \in Worker, proc[w].pc # "idle", NEW p \in Call,
         Local(w, p), UNCHANGED budget \/ Adverse,
         p.mem.revision = proc[w].mem.revision, Follows(proc[w].mem, p.mem),
         IsTerminal(proc[w].mem) => IsTerminal(p.mem),
         proc[w].pc \in {"check", "return"} /\ IsTerminal(proc[w].mem) =>
           p.pc \in {"check", "return"},
         Sound(p)
  PROVE  Inv'
<1>1. budget' \in 0..MaxFaults BY ReleaseAssumption DEF Inv, TypeOK, Adverse
<1>2. Linked(store, p) BY GoesOn
<1> QED BY <1>1, <1>2, LocalKeeps

LEMMA Drops ==
  ASSUME Inv, NEW w \in Worker, Local(w, NoCall), UNCHANGED budget \/ Adverse
  PROVE  Inv'
<1>1. budget' \in 0..MaxFaults BY ReleaseAssumption DEF Inv, TypeOK, Adverse
<1> QED BY <1>1, NoCallTyped, LocalKeeps

\* A call that works on: what it has, and what it may go on with.
LEMMA InCall ==
  ASSUME Inv, NEW w \in Worker
  PROVE  /\ proc[w] \in Call /\ proc[w].mem \in RunState /\ store \in RunState
         /\ proc[w].pc # "idle" => Sound(proc[w]) /\ Linked(store, proc[w])
         /\ release[w] \in Release /\ release[w] \in Nat
         /\ Steps(w) \in Seq(StepDef)
BY StepsTyped DEF Inv, TypeOK, Call, Steps

\* To write a snapshot of a state that may follow.
LEMMA Persists ==
  ASSUME Inv, NEW w \in Worker, proc[w].pc \notin {"idle", "check", "return"},
         NEW p \in Call, NEW m \in RunState, NEW l \in {"check", "steps", "compensate", "return"},
         Local(w, Persist(p, m, l)), UNCHANGED budget \/ Adverse,
         m.revision = proc[w].mem.revision, Follows(proc[w].mem, m),
         m.status # "new", IsTerminal(proc[w].mem) => IsTerminal(m),
         IsTerminal(m) => l \in {"check", "return"}
  PROVE  Inv'
<1> DEFINE q == Persist(p, m, l)
<1>1. q \in Call /\ q.mem = m /\ q.pc = "snapshot" /\ q.next = l
  <2>1. l \in Label BY DEF Label
  <2> QED BY <2>1, PersistTyped
<1>2. Sound(q) BY <1>1 DEF Sound
<1>3. Local(w, q) OBVIOUS
<1> HIDE DEF q
<1> QED BY <1>1, <1>2, <1>3, LocalStep

-----------------------------------------------------------------------------
(* The queue and the environment.                                          *)

LEMMA LoadKeeps ==
  ASSUME Inv, NEW w \in Worker, Load(w)
  PROVE  Inv'
<1> DEFINE p == [NoCall EXCEPT !.pc = "start", !.mem = store]
<1>1. store \in RunState /\ ~IsTerminal(store) /\ Local(w, p)
  BY DEF Inv, TypeOK, Load
<1>2. p \in Call /\ p.pc = "start" /\ p.mem = store
  BY <1>1, NoCallTyped DEF Call, Label
<1>3. budget' \in 0..MaxFaults BY ReleaseAssumption DEF Inv, TypeOK, Load, Adverse
<1> HIDE DEF p
<1>4. Sound(p) BY <1>1, <1>2 DEF Inv, Sound
<1>5. Linked(store, p) BY <1>1, <1>2, FollowsOrder DEF Linked, RunState
<1> QED BY <1>1, <1>2, <1>3, <1>4, <1>5, LocalKeeps

LEMMA DeployKeeps ==
  ASSUME Inv, NEW w \in Worker, Deploy(w)
  PROVE  Inv'
<1>1. TypeOK' BY DEF Inv, TypeOK, Deploy
<1> QED BY <1>1 DEF Deploy, Inv, Sound, Linked, Follows, Continues, IsTerminal

LEMMA CancelKeeps ==
  ASSUME Inv, NEW w \in Worker, Cancel(w)
  PROVE  Inv'
<1> DEFINE p == [proc[w] EXCEPT !.cancelled = TRUE]
<1>1. Local(w, p) /\ Adverse /\ proc[w].pc # "idle" BY DEF Cancel
<1>2. /\ p \in Call /\ p.pc = proc[w].pc /\ p.mem = proc[w].mem /\ p.next = proc[w].next
  BY InCall DEF Call
<1> HIDE DEF p
<1>3. Sound(p) BY <1>1, <1>2, InCall DEF Sound
<1>4. Follows(proc[w].mem, p.mem) BY <1>2, InCall, FollowsOrder
<1> QED BY <1>1, <1>2, <1>3, <1>4, LocalStep

-----------------------------------------------------------------------------
(* The beginning of Run.                                                   *)

LEMMA ReturnsKeep ==
  ASSUME Inv, NEW w \in Worker,
         Refuse(w) \/ MigrateFailed(w) \/ CompensationCancelled(w)
  PROVE  Inv'
<1> DEFINE p == [proc[w] EXCEPT !.pc = "return"]
<1>1. Local(w, p) /\ (UNCHANGED budget \/ Adverse) /\ proc[w].pc # "idle"
  BY DEF Refuse, MigrateFailed, CompensationCancelled, Starting, AtCompletion
<1>2. p \in Call /\ p.pc = "return" /\ p.mem = proc[w].mem
  BY InCall DEF Call, Label
<1> HIDE DEF p
<1>3. Sound(p) BY <1>2 DEF Sound
<1>4. Follows(proc[w].mem, p.mem) BY <1>2, InCall, FollowsOrder
<1> QED BY <1>1, <1>2, <1>3, <1>4, LocalStep

LEMMA BeginKeeps ==
  ASSUME Inv, NEW w \in Worker, Begin(w)
  PROVE  Inv'
<1> DEFINE version == IF proc[w].mem.status = "new" THEN release[w] ELSE proc[w].mem.version
           m == [proc[w].mem EXCEPT !.version = version]
           p == [proc[w] EXCEPT !.pc = "check", !.mem = m]
<1>1. /\ Local(w, p) /\ UNCHANGED budget
      /\ proc[w].pc = "start"
  BY InCall DEF Begin, Starting, Call, RunState
<1>2. version \in Nat /\ proc[w].mem.version <= version
  <2>1. proc[w].mem.status = "new" => proc[w].mem.version = 0 BY <1>1, InCall DEF Sound
  <2> QED BY <2>1, InCall DEF RunState
<1> HIDE DEF version
<1>3. /\ m \in RunState /\ m.version = version /\ m.revision = proc[w].mem.revision
      /\ m.status = proc[w].mem.status /\ m.completed = proc[w].mem.completed
  BY <1>2, InCall DEF RunState
<1> HIDE DEF m
<1>4. p \in Call /\ p.pc = "check" /\ p.mem = m BY <1>3, InCall DEF Call, Label
<1> HIDE DEF p
<1>5. Follows(proc[w].mem, p.mem)
  BY <1>2, <1>3, <1>4, InCall, FollowsOrder DEF Follows, Continues
<1>6. Sound(p) BY <1>4 DEF Sound
<1> QED BY <1>1, <1>3, <1>4, <1>5, <1>6, LocalStep DEF IsTerminal

LEMMA MigrateKeeps ==
  ASSUME Inv, NEW w \in Worker, Migrate(w)
  PROVE  Inv'
<1> DEFINE m == Migrated(proc[w].mem, release[w])
           n == [m EXCEPT !.status = "completed"]
<1>1. /\ proc[w].pc = "start" /\ proc[w].mem.status # "new"
      /\ proc[w].mem.version < release[w]
      /\ \/ Local(w, Persist(proc[w], m, "check")) /\ UNCHANGED budget
         \/ Local(w, Persist(proc[w], n, "check")) /\ Adverse
  BY DEF Migrate, Starting, Migrates
<1>2. /\ m \in RunState /\ Follows(proc[w].mem, m)
      /\ m.status = proc[w].mem.status /\ m.revision = proc[w].mem.revision
  BY <1>1, InCall, MigratedFollows
<1> HIDE DEF m
<1>3. /\ n \in RunState /\ Follows(proc[w].mem, n)
      /\ n.status = "completed" /\ n.revision = proc[w].mem.revision
  <2>1. /\ n \in RunState /\ n.status = "completed" /\ n.revision = m.revision
        /\ n.version = m.version /\ n.completed = m.completed
    BY <1>2 DEF RunState, Status, Terminal
  <2> QED BY <1>2, <2>1 DEF Follows, Continues
<1> HIDE DEF n
<1>4. CASE Local(w, Persist(proc[w], m, "check")) /\ UNCHANGED budget
  BY <1>1, <1>2, <1>4, InCall, Persists DEF IsTerminal
<1>5. CASE Local(w, Persist(proc[w], n, "check")) /\ Adverse
  <2>1. IsTerminal(n) BY <1>3 DEF IsTerminal, Terminal
  <2> QED BY <1>1, <1>3, <1>5, <2>1, InCall, Persists DEF Terminal
<1> QED BY <1>1, <1>4, <1>5

LEMMA CheckVersionKeeps ==
  ASSUME Inv, NEW w \in Worker, CheckVersion(w)
  PROVE  Inv'
<1> DEFINE l == IF Acceptable(w) /\ ~IsTerminal(proc[w].mem) THEN "resume" ELSE "return"
           p == [proc[w] EXCEPT !.pc = l]
<1>1. Local(w, p) /\ UNCHANGED budget /\ proc[w].pc = "check" BY DEF CheckVersion
<1>2. l \in {"resume", "return"} /\ (l = "resume" => ~IsTerminal(proc[w].mem)) OBVIOUS
<1> HIDE DEF l
<1>3. p \in Call /\ p.pc = l /\ p.mem = proc[w].mem BY <1>2, InCall DEF Call, Label
<1> HIDE DEF p
<1>4. Sound(p) BY <1>2, <1>3 DEF Sound
<1>5. Follows(proc[w].mem, p.mem) BY <1>3, InCall, FollowsOrder
<1> QED BY <1>1, <1>2, <1>3, <1>4, <1>5, LocalStep

-----------------------------------------------------------------------------
(* Snapshots.                                                              *)

\* The write of w: for every other worker the state is no longer the one it read.
LEMMA WriteKeeps ==
  ASSUME Inv, NEW w \in Worker, proc[w].pc = "snapshot", Accepts(proc[w].mem),
         NEW p \in Call, store' = Written(proc[w].mem), Set(w, p),
         UNCHANGED <<release, undone>>, UNCHANGED budget \/ Adverse,
         \/ p.pc = "idle"
         \/ Sound(p) /\ p.mem = Written(proc[w].mem)
             /\ (IsTerminal(proc[w].mem) => p.pc \in {"check", "return"})
  PROVE  Inv'
<1> DEFINE m == proc[w].mem
           n == Written(m)
<1>1. /\ m \in RunState /\ Sound(proc[w]) /\ m.revision = store.revision
  BY InCall DEF Accepts
<1>2. /\ n \in RunState /\ n.revision = m.revision + 1 /\ n.status = m.status
      /\ n.version = m.version /\ n.completed = m.completed
  BY <1>1 DEF Written, RunState
<1>3. m.revision \in Nat BY <1>1 DEF RunState
<1> HIDE DEF m, n
<1>4. store' = n BY DEF m, n
<1>5. TypeOK'
  <2>1. budget' \in 0..MaxFaults BY ReleaseAssumption DEF Inv, TypeOK, Adverse
  <2> QED BY <1>2, <1>4, <2>1 DEF Inv, TypeOK, Set
<1>6. n.status # "new" BY <1>1, <1>2 DEF Sound, m
<1>7. ASSUME NEW v \in Worker, proc'[v].pc # "idle"
      PROVE  Sound(proc'[v]) /\ Linked(n, proc'[v])
  <2>1. CASE v = w
    <3>1. proc'[v] = p /\ p.pc # "idle" BY <1>7, <2>1 DEF Inv, TypeOK, Set
    <3>2. Sound(p) /\ p.mem = n BY <3>1 DEF m, n
    <3>3. Follows(n, n) BY <1>2, FollowsOrder
    <3>4. IsTerminal(n) => p.pc \in {"check", "return"} BY <1>2, <3>1 DEF IsTerminal, m
    <3>5. Linked(n, p) BY <1>2, <1>3, <3>2, <3>3, <3>4 DEF Linked
    <3> QED BY <3>1, <3>2, <3>5
  <2>2. CASE v # w
    <3>1. proc'[v] = proc[v] BY <2>2 DEF Inv, TypeOK, Set
    <3>2. proc[v].mem.revision \in Nat /\ Sound(proc[v]) /\ Linked(store, proc[v])
      BY <1>7, <3>1, InCall DEF RunState
    <3>3. proc[v].mem.revision < n.revision
      BY <1>1, <1>2, <1>3, <3>2 DEF Linked
    <3>4. Linked(n, proc[v]) BY <1>2, <1>3, <3>2, <3>3 DEF Linked
    <3> QED BY <3>1, <3>2, <3>4
  <2> QED BY <2>1, <2>2
<1> QED BY <1>4, <1>5, <1>6, <1>7 DEF Inv, Sound, Linked, Follows, Continues, IsTerminal

LEMMA SnapshotKeeps ==
  ASSUME Inv, NEW w \in Worker, SnapshotOK(w) \/ SnapshotAckLost(w)
  PROVE  Inv'
<1> DEFINE p == [proc[w] EXCEPT !.pc = proc[w].next, !.mem = Written(proc[w].mem)]
<1>1. /\ proc[w].pc = "snapshot" /\ Accepts(proc[w].mem) /\ store' = Written(proc[w].mem)
      /\ UNCHANGED <<release, undone>> /\ (UNCHANGED budget \/ Adverse)
      /\ Set(w, p) \/ Set(w, NoCall)
  BY DEF SnapshotOK, SnapshotAckLost
<1>2. CASE Set(w, NoCall) BY <1>1, <1>2, NoCallTyped, WriteKeeps
<1>3. CASE Set(w, p)
  <2>1. /\ Written(proc[w].mem) \in RunState
        /\ Written(proc[w].mem).status = proc[w].mem.status
    <3>1. proc[w].mem \in RunState BY InCall
    <3> QED BY <3>1 DEF Written, RunState
  <2>2. p \in Call /\ p.pc = proc[w].next /\ p.mem = Written(proc[w].mem)
    BY <2>1, InCall DEF Call
  <2> HIDE DEF p
  <2>3. /\ p.pc \in {"check", "steps", "compensate", "return"}
        /\ IsTerminal(proc[w].mem) => p.pc \in {"check", "return"}
        /\ p.mem.status = proc[w].mem.status /\ p.mem.status # "new"
    BY <1>1, <2>1, <2>2, InCall DEF Sound
  <2>4. Sound(p) BY <2>3 DEF Sound, IsTerminal
  <2> QED BY <1>1, <1>3, <2>2, <2>3, <2>4, WriteKeeps
<1> QED BY <1>1, <1>2, <1>3

LEMMA DropsKeep ==
  ASSUME Inv, NEW w \in Worker, SnapshotFailed(w) \/ Return(w) \/ Crash(w)
  PROVE  Inv'
BY Drops DEF SnapshotFailed, Return, Crash

-----------------------------------------------------------------------------
(* The steps and the rollback.                                             *)

LEMMA ResumeKeeps ==
  ASSUME Inv, NEW w \in Worker, Resume(w)
  PROVE  Inv'
<1> DEFINE j == TopLevelIndex(Steps(w), proc[w].mem.path)
           p == [proc[w] EXCEPT !.pc = "return"]
           q == [proc[w] EXCEPT !.first = j, !.i = j]
           m == [proc[w].mem EXCEPT !.status = "running"]
<1>1. /\ proc[w].pc = "resume" /\ UNCHANGED budget
      /\ \/ Local(w, p)
         \/ /\ proc[w].mem.status = "compensating"
            /\ Local(w, Persist(proc[w], proc[w].mem, "compensate"))
         \/ Local(w, Persist(q, m, "steps"))
  BY DEF Resume
<1>2. j \in Nat
  <2>1. Steps(w) \in Seq(StepDef) BY InCall
  <2>2. CASE \E k \in DOMAIN Steps(w) : Steps(w)[k].name = proc[w].mem.path
    <3>1. j \in DOMAIN Steps(w) BY <2>2 DEF TopLevelIndex
    <3> HIDE DEF j
    <3> QED BY <2>1, <3>1
  <2> QED BY <2>2 DEF TopLevelIndex
<1> HIDE DEF j
<1>3. q \in Call BY <1>2, InCall DEF Call
<1>4. /\ m \in RunState /\ m.status = "running" /\ m.revision = proc[w].mem.revision
      /\ m.version = proc[w].mem.version /\ m.completed = proc[w].mem.completed
  BY InCall DEF RunState, Status
<1>5. Follows(proc[w].mem, proc[w].mem) BY InCall, FollowsOrder
<1>6. ~IsTerminal(proc[w].mem) BY <1>1, InCall DEF Sound
<1>7. CASE Local(w, p)
  <2>1. p \in Call /\ p.pc = "return" /\ p.mem = proc[w].mem BY InCall DEF Call, Label
  <2> HIDE DEF p
  <2>2. Sound(p) BY <2>1 DEF Sound
  <2> QED BY <1>1, <1>5, <1>7, <2>1, <2>2, LocalStep
<1>8. CASE /\ proc[w].mem.status = "compensating"
           /\ Local(w, Persist(proc[w], proc[w].mem, "compensate"))
  BY <1>1, <1>5, <1>6, <1>8, InCall, Persists
<1>9. CASE Local(w, Persist(q, m, "steps"))
  <2> HIDE DEF m, q
  <2>1. Follows(proc[w].mem, m) BY <1>4, <1>5 DEF Follows, Continues
  <2>2. ~IsTerminal(m) BY <1>4 DEF IsTerminal, Terminal
  <2> QED BY <1>1, <1>3, <1>4, <1>6, <1>9, <2>1, <2>2, InCall, Persists
<1> QED BY <1>1, <1>7, <1>8, <1>9

LEMMA SkipCompletedKeeps ==
  ASSUME Inv, NEW w \in Worker, SkipCompleted(w)
  PROVE  Inv'
<1> DEFINE p == [proc[w] EXCEPT !.i = proc[w].i + 1]
<1>1. Local(w, p) /\ UNCHANGED budget /\ proc[w].pc = "steps" BY InCall DEF SkipCompleted, AtStep, Call
<1>2. p \in Call /\ p.pc = "steps" /\ p.mem = proc[w].mem BY <1>1, InCall DEF Call
<1> HIDE DEF p
<1>3. Sound(p) BY <1>1, <1>2, InCall DEF Sound
<1>4. Follows(proc[w].mem, p.mem) BY <1>2, InCall, FollowsOrder
<1> QED BY <1>1, <1>2, <1>3, <1>4, LocalStep

\* The step at which w stands.
LEMMA AtStepTyped ==
  ASSUME Inv, NEW w \in Worker, AtStep(w)
  PROVE  /\ Steps(w)[proc[w].i] \in StepDef /\ proc[w].pc = "steps"
         /\ ~IsTerminal(proc[w].mem) /\ proc[w].mem.status # "new"
         /\ Follows(proc[w].mem, proc[w].mem)
BY InCall, FollowsOrder DEF AtStep, Sound

LEMMA StopsKeep ==
  ASSUME Inv, NEW w \in Worker, StopCancelled(w) \/ DoCancelled(w)
  PROVE  Inv'
<1> DEFINE m == [proc[w].mem EXCEPT !.path = Steps(w)[proc[w].i].name]
           p == [proc[w] EXCEPT !.mem = m, !.pc = "return"]
           q == [proc[w] EXCEPT !.mem = m, !.cancelled = TRUE, !.pc = "return"]
<1>1. /\ AtStep(w)
      /\ \/ Local(w, p) /\ UNCHANGED budget
         \/ Local(w, q) /\ Adverse
  BY InCall DEF StopCancelled, DoCancelled, Calling, Call, RunState
<1>2. /\ m \in RunState /\ m.status = proc[w].mem.status /\ m.revision = proc[w].mem.revision
      /\ m.version = proc[w].mem.version /\ m.completed = proc[w].mem.completed
  BY <1>1, AtStepTyped, InCall DEF RunState, StepDef
<1> HIDE DEF m
<1>3. p \in Call /\ p.mem = m /\ p.pc = "return" BY <1>2, InCall DEF Call, Label
<1>4. q \in Call /\ q.mem = m /\ q.pc = "return" BY <1>2, InCall DEF Call, Label
<1> HIDE DEF p, q
<1>5. Follows(proc[w].mem, m) BY <1>1, <1>2, AtStepTyped DEF Follows, Continues
<1>6. Sound(p) /\ Sound(q) BY <1>3, <1>4 DEF Sound
<1> QED BY <1>1, <1>2, <1>3, <1>4, <1>5, <1>6, AtStepTyped, LocalStep

\* A completion is appended.
LEMMA Appended ==
  ASSUME NEW S \in Seq(Completion), NEW e \in Completion
  PROVE  LET s == Append(S, e) IN
         /\ s \in Seq(Completion) /\ Len(S) \in Nat /\ DOMAIN s = 1..Len(S) + 1
         /\ Len(s) = Len(S) + 1 /\ s[Len(S) + 1] = e
         /\ \A k \in 1..Len(S) : s[k] = S[k] /\ k \in DOMAIN S
         /\ Continues(S, s)
<1> DEFINE s == Append(S, e)
<1>1. /\ s \in Seq(Completion) /\ Len(S) \in Nat /\ DOMAIN s = 1..Len(S) + 1
      /\ Len(s) = Len(S) + 1 /\ s[Len(S) + 1] = e
      /\ \A k \in 1..Len(S) : s[k] = S[k] /\ k \in DOMAIN S
  OBVIOUS
<1> HIDE DEF s
<1>2. Continues(S, s) BY <1>1 DEF Continues
<1> QED BY <1>1, <1>2 DEF s

LEMMA DoKeeps ==
  ASSUME Inv, NEW w \in Worker, Do(w)
  PROVE  Inv'
<1> DEFINE s == Steps(w)[proc[w].i]
           entry == [step |-> s.name, compensator |-> s.compensates, does |-> s.does]
           completed == Append(proc[w].mem.completed, entry)
           m == [proc[w].mem EXCEPT !.path = s.name, !.completed = completed]
           p == [proc[w] EXCEPT !.i = proc[w].i + 1]
<1>1. AtStep(w) /\ Local(w, Persist(p, m, "steps")) /\ UNCHANGED budget
  BY InCall DEF Do, Calling, Call, RunState
<1>2. s \in StepDef BY <1>1, AtStepTyped
<1> HIDE DEF s
<1>3. entry \in Completion BY <1>2 DEF StepDef, Completion
<1> HIDE DEF entry
<1>4. /\ completed \in Seq(Completion)
      /\ Continues(proc[w].mem.completed, completed)
  <2>1. proc[w].mem.completed \in Seq(Completion) BY InCall DEF RunState
  <2> QED BY <1>3, <2>1, Appended
<1> HIDE DEF completed
<1>5. /\ m \in RunState /\ m.status = proc[w].mem.status /\ m.revision = proc[w].mem.revision
      /\ m.version = proc[w].mem.version /\ m.completed = completed
  BY <1>2, <1>4, InCall DEF RunState, StepDef
<1>6. p \in Call BY InCall DEF Call
<1> HIDE DEF m, p
<1>7. Follows(proc[w].mem, m) BY <1>1, <1>4, <1>5, AtStepTyped DEF Follows
<1>8. ~IsTerminal(m) BY <1>1, <1>5, AtStepTyped DEF IsTerminal
<1>9. m.status # "new" BY <1>1, <1>5, AtStepTyped
<1> QED BY <1>1, <1>5, <1>6, <1>7, <1>8, <1>9, AtStepTyped, Persists

\* A snapshot that changes the status, the path and the index alone.
LEMMA Turns ==
  ASSUME NEW m \in RunState, NEW status \in Status, NEW path \in Name \cup {NoName},
         NEW index \in Int
  PROVE  LET n == [m EXCEPT !.status = status, !.path = path, !.index = index]
         IN /\ n \in RunState /\ Follows(m, n) /\ n.revision = m.revision
            /\ n.status = status
<1> DEFINE n == [m EXCEPT !.status = status, !.path = path, !.index = index]
<1>1. /\ n \in RunState /\ n.revision = m.revision /\ n.status = status
      /\ n.version = m.version /\ n.completed = m.completed
  BY DEF RunState
<1> HIDE DEF n
<1>2. Follows(m, n) BY <1>1, FollowsOrder DEF Follows, Continues
<1> QED BY <1>1, <1>2 DEF n

\* A run state with another index is one.
LEMMA Reindexed ==
  ASSUME NEW m \in RunState, NEW k \in Int
  PROVE  LET n == [m EXCEPT !.index = k] IN
         /\ n \in RunState /\ n.status = m.status /\ n.revision = m.revision
         /\ n.version = m.version /\ n.completed = m.completed
BY DEF RunState

LEMMA DoFailedKeeps ==
  ASSUME Inv, NEW w \in Worker, DoFailed(w)
  PROVE  Inv'
<1> DEFINE path == Steps(w)[proc[w].i].name
           index == Len(proc[w].mem.completed) - 1
           m == [proc[w].mem EXCEPT !.status = "compensating", !.path = path, !.index = index]
<1>1. AtStep(w) /\ UNCHANGED budget BY DEF DoFailed, Calling
<1>2. Local(w, Persist(proc[w], m, "compensate"))
  <2>1. m = [proc[w].mem EXCEPT !.path = path, !.status = "compensating", !.index = index]
    BY InCall DEF RunState
  <2> QED BY <2>1 DEF DoFailed
<1>3. path \in Name /\ index \in Int
  BY <1>1, AtStepTyped, InCall DEF StepDef, RunState
<1> HIDE DEF path, index
<1>4. m \in RunState /\ Follows(proc[w].mem, m) /\ m.revision = proc[w].mem.revision
      /\ m.status = "compensating"
  <2>1. proc[w].mem \in RunState BY InCall
  <2>2. "compensating" \in Status BY DEF Status
  <2> DEFINE before == proc[w].mem
             n == [before EXCEPT !.status = "compensating", !.path = path, !.index = index]
  <2>3. before \in RunState /\ path \in Name \cup {NoName} BY <1>3, <2>1
  <2> HIDE DEF before
  <2>4. n \in RunState /\ Follows(before, n) /\ n.revision = before.revision
        /\ n.status = "compensating"
    BY ONLY <1>3, <2>2, <2>3, Turns
  <2> QED BY <2>4 DEF before
<1> HIDE DEF m
<1> QED BY <1>1, <1>2, <1>4, AtStepTyped, InCall, Persists DEF IsTerminal, Terminal

LEMMA StepsDoneKeeps ==
  ASSUME Inv, NEW w \in Worker, StepsDone(w)
  PROVE  Inv'
<1> DEFINE m == [proc[w].mem EXCEPT !.status = "completed"]
<1>1. proc[w].pc = "steps" /\ UNCHANGED budget /\ Local(w, Persist(proc[w], m, "return"))
  BY DEF StepsDone
<1>2. /\ m \in RunState /\ m.status = "completed" /\ m.revision = proc[w].mem.revision
      /\ m.version = proc[w].mem.version /\ m.completed = proc[w].mem.completed
  BY InCall DEF RunState, Status, Terminal
<1> HIDE DEF m
<1>3. Follows(proc[w].mem, m) BY <1>2, InCall, FollowsOrder DEF Follows, Continues
<1>4. m.status # "new" /\ IsTerminal(m) BY <1>2 DEF IsTerminal, Terminal
<1> QED BY <1>1, <1>2, <1>3, <1>4, InCall, Persists

LEMMA SkipCompensationKeeps ==
  ASSUME Inv, NEW w \in Worker, SkipCompensation(w)
  PROVE  Inv'
<1> DEFINE m == [proc[w].mem EXCEPT !.index = proc[w].mem.index - 1]
           p == [proc[w] EXCEPT !.mem = m]
<1>1. proc[w].pc = "compensate" /\ UNCHANGED budget /\ Local(w, p)
  BY InCall DEF SkipCompensation, AtCompletion, Call, RunState
<1>2. /\ m \in RunState /\ m.status = proc[w].mem.status /\ m.revision = proc[w].mem.revision
      /\ m.version = proc[w].mem.version /\ m.completed = proc[w].mem.completed
  <2>1. proc[w].mem \in RunState /\ proc[w].mem.index - 1 \in Int BY InCall DEF RunState
  <2> QED BY <2>1, Reindexed
<1> HIDE DEF m
<1>3. p \in Call /\ p.mem = m /\ p.pc = proc[w].pc BY <1>2, InCall DEF Call
<1> HIDE DEF p
<1>4. Follows(proc[w].mem, m) BY <1>2, InCall, FollowsOrder DEF Follows, Continues
<1>5. Sound(p)
  <2>1. Sound(proc[w]) BY <1>1, InCall
  <2> QED BY <1>1, <1>2, <1>3, <2>1 DEF Sound, IsTerminal
<1> QED BY <1>1, <1>2, <1>3, <1>4, <1>5, LocalStep DEF IsTerminal

LEMMA CompensateFailedKeeps ==
  ASSUME Inv, NEW w \in Worker, CompensateFailed(w)
  PROVE  Inv'
<1>1. /\ proc[w].pc = "compensate" /\ Adverse
      /\ Local(w, Persist(proc[w], proc[w].mem, "return"))
  BY DEF CompensateFailed, AtCompletion
<1>2. /\ ~IsTerminal(proc[w].mem) /\ proc[w].mem.status # "new"
      /\ Follows(proc[w].mem, proc[w].mem)
  BY <1>1, InCall, FollowsOrder DEF Sound
<1> QED BY <1>1, <1>2, InCall, Persists

LEMMA CompensationDoneKeeps ==
  ASSUME Inv, NEW w \in Worker, CompensationDone(w)
  PROVE  Inv'
<1> DEFINE before == -1
           ended == [proc[w].mem EXCEPT !.status = "failed"]
           m == [ended EXCEPT !.index = before]
<1>1. proc[w].pc = "compensate" /\ UNCHANGED budget /\ Local(w, Persist(proc[w], m, "return"))
  <2>1. m = [proc[w].mem EXCEPT !.status = "failed", !.index = -1] BY InCall DEF RunState
  <2> QED BY <2>1 DEF CompensationDone
<1>2. /\ m \in RunState /\ m.status = "failed" /\ m.revision = proc[w].mem.revision
      /\ m.version = proc[w].mem.version /\ m.completed = proc[w].mem.completed
  <2>1. /\ ended \in RunState /\ ended.status = "failed" /\ ended.revision = proc[w].mem.revision
        /\ ended.version = proc[w].mem.version /\ ended.completed = proc[w].mem.completed
    BY InCall DEF RunState, Status, Terminal
  <2>2. before \in Int OBVIOUS
  <2> HIDE DEF before, ended
  <2> QED BY <2>1, <2>2, Reindexed
<1> HIDE DEF m
<1>3. Follows(proc[w].mem, m) BY <1>2, InCall, FollowsOrder DEF Follows, Continues
<1>4. m.status # "new" /\ IsTerminal(m) BY <1>2 DEF IsTerminal, Terminal
<1> QED BY <1>1, <1>2, <1>3, <1>4, InCall, Persists

LEMMA CompensateKeeps ==
  ASSUME Inv, NEW w \in Worker, Compensate(w)
  PROVE  Inv'
<1> DEFINE m == [proc[w].mem EXCEPT !.index = proc[w].mem.index - 1]
           p == Persist(proc[w], m, "compensate")
<1>1. /\ proc[w].pc = "compensate" /\ Set(w, p) /\ UNCHANGED <<store, release, budget>>
      /\ \E s \in Compensators(w) : undone' = undone \cup {s.does}
  BY InCall DEF Compensate, AtCompletion, RunState
<1>2. /\ m \in RunState /\ m.status = proc[w].mem.status /\ m.revision = proc[w].mem.revision
      /\ m.version = proc[w].mem.version /\ m.completed = proc[w].mem.completed
  <2>1. proc[w].mem \in RunState /\ proc[w].mem.index - 1 \in Int BY InCall DEF RunState
  <2> QED BY <2>1, Reindexed
<1> HIDE DEF m
<1>3. p \in Call /\ p.mem = m /\ p.pc = "snapshot" /\ p.next = "compensate"
  <2>1. "compensate" \in Label BY DEF Label
  <2> QED BY <1>2, <2>1, InCall, PersistTyped
<1> HIDE DEF p
<1>4. Sound(proc[w]) /\ Follows(proc[w].mem, m)
  BY <1>1, <1>2, InCall, FollowsOrder DEF Follows, Continues
<1>5. Sound(p) BY <1>1, <1>2, <1>3, <1>4 DEF Sound, IsTerminal
<1>6. Linked(store, p) BY <1>1, <1>2, <1>3, <1>4, GoesOn DEF IsTerminal
<1>7. undone' \subseteq Operation
  <2>1. \A s \in Compensators(w) : s \in StepDef
    <3>1. Steps(w) \in Seq(StepDef) BY InCall
    <3> QED BY <3>1 DEF Compensators, Range
  <2> QED BY <1>1, <2>1 DEF Inv, TypeOK, StepDef
<1>8. TypeOK' BY <1>1, <1>3, <1>7 DEF Inv, TypeOK, Set
<1>9. ASSUME NEW v \in Worker, proc'[v].pc # "idle"
      PROVE  Sound(proc'[v]) /\ Linked(store', proc'[v])
  BY <1>1, <1>5, <1>6, <1>9 DEF Inv, TypeOK, Set
<1>10. (store.status = "new" => store.version = 0)' BY <1>1 DEF Inv
<1> QED BY <1>8, <1>9, <1>10 DEF Inv, Sound, Linked, Follows, Continues, IsTerminal

-----------------------------------------------------------------------------
(* The theorems.                                                           *)

LEMMA Initially == Init => Inv
<1> SUFFICES ASSUME Init PROVE Inv OBVIOUS
<1>1. NewRun \in RunState /\ NewRun.version = 0
  <2>1. <<>> \in Seq(Completion) OBVIOUS
  <2> QED BY <2>1 DEF NewRun, RunState, Status
<1>2. TypeOK BY <1>1, NoCallTyped, ReleaseAssumption DEF Init, TypeOK
<1> QED BY <1>1, <1>2, NoCallTyped DEF Init, Inv

LEMMA StepKeeps == Inv /\ [Next]_vars => Inv'
<1> SUFFICES ASSUME Inv, [Next]_vars PROVE Inv' OBVIOUS
<1>1. ASSUME NEW w \in Worker, WorkerStep(w) PROVE Inv'
  BY <1>1, ReturnsKeep, BeginKeeps, MigrateKeeps, CheckVersionKeeps, ResumeKeeps,
     SnapshotKeeps, DropsKeep, SkipCompletedKeeps, StopsKeep, StepsDoneKeeps, DoKeeps,
     DoFailedKeeps, SkipCompensationKeeps, CompensationDoneKeeps, CompensateKeeps,
     CompensateFailedKeeps
     DEF WorkerStep
<1>2. ASSUME NEW w \in Worker, Load(w) \/ SnapshotAckLost(w) \/ Crash(w) \/ Cancel(w) \/ Deploy(w)
      PROVE  Inv'
  BY <1>2, LoadKeeps, SnapshotKeeps, DropsKeep, CancelKeeps, DeployKeeps
<1>3. CASE UNCHANGED vars
  BY <1>3 DEF vars, Inv, TypeOK, Sound, Linked, Follows, Continues, IsTerminal
<1> QED BY <1>1, <1>2, <1>3 DEF Next, Terminated

LEMMA Invariant == Spec => []Inv
<1>1. Init => Inv BY Initially
<1>2. Inv /\ [Next]_vars => Inv' BY StepKeeps
<1> QED BY <1>1, <1>2, PTL DEF Spec

\* The variables of a run whose definition changes have their types.
THEOREM MigrationTypeCorrect == Spec => []TypeOK
<1>1. Inv => TypeOK BY DEF Inv
<1> QED BY <1>1, Invariant, PTL

\* The step condition of NoWayBack.
Forward ==
  /\ store'.version >= store.version
  /\ IsPrefix([k \in DOMAIN store.completed |-> store.completed[k].does],
              [k \in DOMAIN store'.completed |-> store'.completed[k].does])
  /\ IsTerminal(store) => store' = store

LEMMA ContinuesIsPrefix ==
  ASSUME NEW a \in Seq(Completion), NEW b \in Seq(Completion), Continues(a, b)
  PROVE  IsPrefix([k \in DOMAIN a |-> a[k].does], [k \in DOMAIN b |-> b[k].does])
<1> DEFINE d(s) == [k \in DOMAIN s |-> s[k].does]
<1>0. ASSUME NEW s \in Seq(Completion)
      PROVE  d(s) \in Seq(Operation) /\ Len(d(s)) = Len(s)
  <2>1. Len(s) \in Nat /\ DOMAIN s = 1..Len(s) OBVIOUS
  <2>2. \A k \in 1..Len(s) : s[k].does \in Operation
    <3>1. \A k \in 1..Len(s) : s[k] \in Completion OBVIOUS
    <3> QED BY <3>1 DEF Completion
  <2>3. d(s) = [k \in 1..Len(s) |-> s[k].does] BY <2>1
  <2> QED BY <2>1, <2>2, <2>3
<1>1. d(a) \in Seq(Operation) /\ Len(d(a)) = Len(a) BY <1>0
<1>2. d(b) \in Seq(Operation) /\ Len(d(b)) = Len(b) BY <1>0
<1>3. Len(a) <= Len(b) /\ Len(a) \in Nat /\ Len(b) \in Nat
      /\ \A k \in 1..Len(a) : d(a)[k] = d(b)[k]
  BY DEF Continues
<1> HIDE DEF d
<1>4. SubSeq(d(a), 1, Len(a)) = SubSeq(d(b), 1, Len(a)) BY <1>1, <1>2, <1>3
<1> QED BY <1>1, <1>2, <1>3, <1>4 DEF IsPrefix, d

LEMMA MovesForward == Inv /\ [Next]_vars => Forward \/ UNCHANGED vars
<1> SUFFICES ASSUME Inv, Next PROVE Forward OBVIOUS
<1>1. store \in RunState /\ store.completed \in Seq(Completion) BY DEF Inv, TypeOK, RunState
<1>2. CASE store' = store
  <2>1. Continues(store.completed, store.completed) /\ store.version <= store.version
    BY <1>1, FollowsOrder DEF Follows
  <2> QED BY <1>1, <1>2, <2>1, ContinuesIsPrefix DEF Forward
<1>3. ASSUME NEW w \in Worker, SnapshotOK(w) \/ SnapshotAckLost(w) PROVE Forward
  <2>1. /\ proc[w].pc = "snapshot" /\ proc[w].mem.revision = store.revision
        /\ store' = Written(proc[w].mem)
    BY <1>3 DEF SnapshotOK, SnapshotAckLost, Accepts
  <2>2. proc[w].mem \in RunState /\ Linked(store, proc[w]) BY <2>1, InCall
  <2>3. Follows(store, proc[w].mem) /\ ~IsTerminal(store) BY <2>1, <2>2 DEF Linked
  <2>4. store'.version = proc[w].mem.version /\ store'.completed = proc[w].mem.completed
    BY <2>1, <2>2 DEF Written, RunState
  <2>5. store'.completed \in Seq(Completion) BY <2>2, <2>4 DEF RunState
  <2>6. store'.version >= store.version /\ Continues(store.completed, store'.completed)
    BY <1>1, <2>2, <2>3, <2>4 DEF Follows, RunState
  <2> QED BY <1>1, <2>3, <2>5, <2>6, ContinuesIsPrefix DEF Forward
<1>4. ASSUME NEW w \in Worker, WorkerStep(w), ~SnapshotOK(w) PROVE store' = store
  BY <1>4 DEF WorkerStep, Refuse, Begin, Migrate, MigrateFailed, CheckVersion, Resume,
     SnapshotFailed, SkipCompleted, StopCancelled, StepsDone, Do, DoFailed, DoCancelled,
     SkipCompensation, CompensationCancelled, CompensationDone, Compensate,
     CompensateFailed, Return, Local
<1>5. ASSUME NEW w \in Worker, Load(w) \/ Crash(w) \/ Cancel(w) \/ Deploy(w) PROVE store' = store
  BY <1>5 DEF Load, Crash, Cancel, Deploy, Local
<1>6. Terminated => store' = store BY DEF Terminated, vars
<1> QED BY <1>2, <1>3, <1>4, <1>5, <1>6 DEF Next

\* For any releases and definitions, any workers, faults and deployments: no worker
\* takes a run back to an older version, takes an entry from its journal, or works
\* on it when it is over.
THEOREM NoWayBackHolds == Spec => NoWayBack
<1>1. Inv /\ [Next]_vars => [Forward]_vars
  BY MovesForward
<1> QED BY <1>1, Invariant, PTL DEF Spec, NoWayBack, Forward

-----------------------------------------------------------------------------
(* The release of a state knows what the state records: what is done is not *)
(* done again, and what is to be undone is undone.                          *)

\* The entry records the step s.
Is(s, entry) ==
  /\ s.name = entry.step /\ s.does = entry.does
  /\ entry.compensator => s.compensates

\* The state m stands at a step of its release and records steps up to that one.
Known(m) ==
  /\ m.status = "new" => m.path = NoName
  /\ m.status # "new" => m.version \in Release
  /\ IF m.path = NoName
       THEN m.completed = <<>>
       ELSE \E p \in DOMAIN Def[m.version].steps :
              /\ Def[m.version].steps[p].name = m.path
              /\ \A k \in DOMAIN m.completed : \E j \in 1..p :
                   Is(Def[m.version].steps[j], m.completed[k])

\* If the operations u are undone, m may stand where it stands in its rollback.
Undone(m, u) ==
  \A k \in DOMAIN m.completed :
    /\ m.completed[k].compensator
    /\ m.status = "failed" \/ (m.status = "compensating" /\ k - 1 > m.index)
    => m.completed[k].does \in u

\* Where the call p is, or will be when its snapshot is written.
Heads(p) == IF p.pc = "snapshot" THEN p.next ELSE p.pc

\* The steps that m records come before step i, or m stands at step i, where the
\* run has resumed.
Passed(m, steps, i, first) ==
  \A k \in DOMAIN m.completed : \E j \in DOMAIN steps :
    /\ Is(steps[j], m.completed[k])
    /\ j < i \/ (j = i /\ i = first /\ steps[j].name = m.path)

\* What holds of the call p of a worker of release v.
Aware(p, v, u) ==
  /\ p.pc \notin {"idle", "return"} => Known(p.mem) /\ Undone(p.mem, u)
  /\ Heads(p) = "check" =>
       /\ p.mem.version \in Release /\ p.mem.version <= v
       /\ p.mem.version < v => ~Def[v].migrator
  /\ Heads(p) \in {"resume", "steps", "compensate"} =>
       p.mem.version \in Release /\ Def[v].steps = Def[p.mem.version].steps
  /\ Heads(p) = "steps" =>
       /\ p.mem.status = "running"
       /\ p.i \in Nat \ {0} /\ Passed(p.mem, Def[v].steps, p.i, p.first)
  /\ Heads(p) = "compensate" => p.mem.status = "compensating"

Awareness ==
  /\ Known(store) /\ Undone(store, undone)
  /\ \A w \in Worker : Aware(proc[w], release[w], undone)

\* What has been undone stays undone.
LEMMA UndoneGrows ==
  ASSUME NEW u, NEW v, u \subseteq v
  PROVE  /\ \A m : Undone(m, u) => Undone(m, v)
         /\ \A p, r : Aware(p, r, u) => Aware(p, r, v)
<1>1. ASSUME NEW m, Undone(m, u) PROVE Undone(m, v) BY <1>1 DEF Undone
<1>2. ASSUME NEW p, NEW r, Aware(p, r, u) PROVE Aware(p, r, v)
  BY <1>1, <1>2 DEF Aware
<1> QED BY <1>1, <1>2

\* A call that is idle or returns holds nothing.
LEMMA AwareOut ==
  ASSUME NEW p, p.pc \in {"idle", "return"}
  PROVE  \A v, u : Aware(p, v, u)
BY DEF Aware, Heads

\* What a step of w must do.
\* Awareness of the next state, spelled out.
LEMMA AwareNext ==
  ASSUME Known(store'), Undone(store', undone'),
         \A v \in Worker : Aware(proc'[v], release'[v], undone')
  PROVE  Awareness'
BY DEF Awareness, Known, Undone, Aware, Heads, Passed, Is

LEMMA KeepsAwareness ==
  ASSUME Inv, Awareness, NEW w \in Worker, NEW p, Set(w, p), UNCHANGED release,
         undone \subseteq undone', Aware(p, release[w], undone'),
         store' = store \/ (Known(store') /\ Undone(store', undone'))
  PROVE  Awareness'
<1>1. Known(store') /\ Undone(store', undone') BY UndoneGrows DEF Awareness
<1>2. ASSUME NEW v \in Worker PROVE Aware(proc'[v], release'[v], undone')
  <2>1. CASE v = w BY <2>1 DEF Inv, TypeOK, Set
  <2>2. CASE v # w
    <3>1. proc'[v] = proc[v] BY <2>2 DEF Inv, TypeOK, Set
    <3> QED BY <3>1, UndoneGrows DEF Awareness
  <2> QED BY <2>1, <2>2
<1> QED BY <1>1, <1>2, AwareNext

LEMMA LocalAwareness ==
  ASSUME Inv, Awareness, NEW w \in Worker, NEW p, Local(w, p), Aware(p, release[w], undone)
  PROVE  Awareness'
<1>1. Set(w, p) /\ UNCHANGED release /\ undone' = undone /\ store' = store BY DEF Local
<1> QED BY <1>1, KeepsAwareness

-----------------------------------------------------------------------------
(* What happens to the data.                                               *)

\* The names and the operations of a release.
LEMMA Distinct ==
  ASSUME NEW v \in Release, NEW i \in DOMAIN Def[v].steps, NEW j \in DOMAIN Def[v].steps,
         \/ Def[v].steps[i].name = Def[v].steps[j].name
         \/ Def[v].steps[i].does = Def[v].steps[j].does
  PROVE  i = j
BY ReleaseAssumption, CompatibilityAssumption

\* Only the status, the index, the version before there is a journal, and the
\* revision change.
LEMMA StaysKnown ==
  ASSUME NEW m, NEW n, Known(m), n.path = m.path, n.completed = m.completed,
         n.status = "new" => m.status = "new",
         n.status # "new" => n.version \in Release,
         m.path # NoName => n.version = m.version
  PROVE  Known(n)
BY DEF Known

\* The name that the migrator gives to a step is that of the step which does the
\* same.
LEMMA RenamedIs ==
  ASSUME NEW u \in Release, NEW v \in Release,
         NEW i \in DOMAIN Def[u].steps, NEW j \in DOMAIN Def[v].steps,
         Def[v].steps[j].does = Def[u].steps[i].does
  PROVE  Renamed(u, v, Def[u].steps[i].name) = Def[v].steps[j].name
<1> DEFINE name == Def[u].steps[i].name
           P(l) == \E k \in DOMAIN Def[u].steps :
                     /\ Def[u].steps[k].name = name
                     /\ Def[v].steps[l].does = Def[u].steps[k].does
           c == CHOOSE l \in DOMAIN Def[v].steps : P(l)
<1>1. P(j) OBVIOUS
<1>2. \A l \in DOMAIN Def[v].steps : P(l) => l = j
  <2> SUFFICES ASSUME NEW l \in DOMAIN Def[v].steps, NEW k \in DOMAIN Def[u].steps,
                      Def[u].steps[k].name = name,
                      Def[v].steps[l].does = Def[u].steps[k].does
               PROVE  l = j
    OBVIOUS
  <2>1. k = i BY Distinct
  <2> QED BY <2>1, Distinct
<1>3. c = j
  <2> HIDE DEF P
  <2> QED BY <1>1, <1>2
<1>4. Renamed(u, v, name) = Def[v].steps[c].name BY <1>1 DEF Renamed
<1> HIDE DEF c, name
<1> QED BY <1>3, <1>4 DEF name

\* The release that a state is migrated to knows it too.
LEMMA MigratedKnown ==
  ASSUME NEW m \in RunState, NEW v \in Release, m.version < v, Def[v].migrator,
         m.status # "new", Known(m)
  PROVE  Known(Migrated(m, v))
<1> DEFINE u == m.version
           n == Migrated(m, v)
<1>1. /\ n.status = m.status /\ n.version = v /\ n.path = Renamed(u, v, m.path)
      /\ n.completed = RenamedJournal(u, v, m.completed)
  BY DEF Migrated, RunState
<1>2. u \in Release /\ u < v BY DEF Known
<1>3. m.completed \in Seq(Completion) BY DEF RunState
<1>4. /\ DOMAIN n.completed = DOMAIN m.completed
      /\ \A k \in DOMAIN m.completed :
           /\ n.completed[k].step = Renamed(u, v, m.completed[k].step)
           /\ n.completed[k].does = m.completed[k].does
           /\ n.completed[k].compensator = m.completed[k].compensator
  <2>1. \A k \in DOMAIN m.completed : m.completed[k] \in Completion BY <1>3
  <2> QED BY <1>1, <2>1 DEF RenamedJournal, Completion
<1> HIDE DEF u, n
<1>5. CASE m.path = NoName
  <2>1. \A i \in DOMAIN Def[u].steps : Def[u].steps[i].name # NoName
    <3> SUFFICES ASSUME NEW i \in DOMAIN Def[u].steps PROVE Def[u].steps[i].name # NoName
      OBVIOUS
    <3>1. Def[u].steps[i] \in StepDef BY <1>2, StepsTyped
    <3> QED BY <3>1, ReleaseAssumption DEF StepDef
  <2>2. Renamed(u, v, NoName) = NoName BY <2>1 DEF Renamed
  <2>3. m.completed = <<>> BY <1>5 DEF Known
  <2>4. n.completed = <<>> BY <1>1, <2>3 DEF RenamedJournal
  <2> QED BY <1>1, <1>5, <2>2, <2>4 DEF Known, n
<1>6. CASE m.path # NoName
  <2>1. PICK p \in DOMAIN Def[u].steps :
          /\ Def[u].steps[p].name = m.path
          /\ \A k \in DOMAIN m.completed : \E j \in 1..p :
               Is(Def[u].steps[j], m.completed[k])
    BY <1>6 DEF Known, u
  <2>2. Def[u].steps \in Seq(StepDef) /\ Def[v].steps \in Seq(StepDef) BY <1>2, StepsTyped
  <2>3. PICK q \in DOMAIN Def[v].steps : Def[v].steps[q].does = Def[u].steps[p].does
    <3>1. p <= p BY <2>2
    <3> QED BY <1>2, <3>1, CompatibilityAssumption
  <2>4. n.path = Def[v].steps[q].name BY <1>1, <1>2, <2>1, <2>3, RenamedIs
  <2>5. n.path # NoName
    <3>1. Def[v].steps[q] \in StepDef BY <2>2
    <3> QED BY <2>4, <3>1, ReleaseAssumption DEF StepDef
  <2>6. ASSUME NEW k \in DOMAIN m.completed
        PROVE  \E j \in 1..q : Is(Def[v].steps[j], n.completed[k])
    <3>1. PICK i \in 1..p : Is(Def[u].steps[i], m.completed[k]) BY <2>1
    <3>2. i \in DOMAIN Def[u].steps /\ i <= p BY <2>2
    <3>3. PICK j \in DOMAIN Def[v].steps, l \in DOMAIN Def[v].steps :
            /\ j <= l
            /\ Def[v].steps[j].does = Def[u].steps[i].does
            /\ Def[v].steps[l].does = Def[u].steps[p].does
            /\ Def[u].steps[i].compensates => Def[v].steps[j].compensates
      BY <1>2, <3>2, CompatibilityAssumption
    <3>4. l = q BY <2>3, <3>3, Distinct
    <3>5. j \in 1..q BY <2>2, <3>3, <3>4
    <3>6. Renamed(u, v, Def[u].steps[i].name) = Def[v].steps[j].name
      BY <1>2, <3>2, <3>3, RenamedIs
    <3>7. Is(Def[v].steps[j], n.completed[k]) BY <1>4, <3>1, <3>3, <3>6 DEF Is
    <3> QED BY <3>5, <3>7
  <2> QED BY <1>1, <1>2, <1>4, <2>4, <2>5, <2>6 DEF Known, n
<1> QED BY <1>5, <1>6

LEMMA MigratedUndone ==
  ASSUME NEW m \in RunState, NEW v \in Release, NEW u, Undone(m, u)
  PROVE  Undone(Migrated(m, v), u)
<1> DEFINE n == Migrated(m, v)
<1>1. /\ n.status = m.status /\ n.index = m.index
      /\ n.completed = RenamedJournal(m.version, v, m.completed)
  BY DEF Migrated, RunState
<1>2. \A k \in DOMAIN m.completed : m.completed[k] \in Completion
  <2>1. m.completed \in Seq(Completion) BY DEF RunState
  <2> QED BY <2>1
<1>3. /\ DOMAIN n.completed = DOMAIN m.completed
      /\ \A k \in DOMAIN m.completed :
           /\ n.completed[k].does = m.completed[k].does
           /\ n.completed[k].compensator = m.completed[k].compensator
  BY <1>1, <1>2 DEF RenamedJournal, Completion
<1> HIDE DEF n
<1> QED BY <1>1, <1>3 DEF Undone, n

\* A snapshot that is written is as good as the state in memory.
LEMMA WrittenKnown ==
  ASSUME NEW m \in RunState
  PROVE  /\ Known(m) => Known(Written(m))
         /\ \A u : Undone(m, u) => Undone(Written(m), u)
         /\ Written(m).version = m.version /\ Written(m).completed = m.completed
         /\ Written(m).path = m.path /\ Written(m).status = m.status
<1> DEFINE n == Written(m)
<1>1. /\ n.status = m.status /\ n.path = m.path /\ n.version = m.version
      /\ n.completed = m.completed /\ n.index = m.index
  BY DEF Written, RunState
<1> HIDE DEF n
<1>2. Known(m) => Known(n) BY <1>1 DEF Known
<1>3. \A u : Undone(m, u) => Undone(n, u) BY <1>1 DEF Undone
<1> QED BY <1>1, <1>2, <1>3 DEF n

\* A call whose snapshot is to be written is where it goes on afterwards.
LEMMA AwareSnapshot ==
  ASSUME NEW p \in Call, NEW m \in RunState, NEW l \in Label, NEW v, NEW u,
         Known(m), Undone(m, u),
         l = "check" =>
           m.version \in Release /\ m.version <= v /\ (m.version < v => ~Def[v].migrator),
         l \in {"resume", "steps", "compensate"} =>
           m.version \in Release /\ Def[v].steps = Def[m.version].steps,
         l = "steps" => m.status = "running" /\ p.i \in Nat \ {0} /\ Passed(m, Def[v].steps, p.i, p.first),
         l = "compensate" => m.status = "compensating"
  PROVE  Aware(Persist(p, m, l), v, u)
<1> DEFINE q == Persist(p, m, l)
<1>1. q.pc = "snapshot" /\ q.next = l /\ q.mem = m /\ q.i = p.i /\ q.first = p.first
  BY DEF Persist, Call
<1> HIDE DEF q
<1>2. Heads(q) = l BY <1>1 DEF Heads
<1>3. Aware(q, v, u) BY <1>1, <1>2 DEF Aware
<1> QED BY <1>3 DEF q


-----------------------------------------------------------------------------
(* What each action does to it.                                            *)

LEMMA LoadAware ==
  ASSUME Inv, Awareness, NEW w \in Worker, Load(w)
  PROVE  Awareness'
<1> DEFINE p == [NoCall EXCEPT !.pc = "start", !.mem = store]
<1>1. Local(w, p) BY DEF Load
<1>2. p.pc = "start" /\ p.mem = store BY DEF NoCall
<1> HIDE DEF p
<1>3. Aware(p, release[w], undone) BY <1>2 DEF Awareness, Aware, Heads
<1> QED BY <1>1, <1>3, LocalAwareness

LEMMA DeployAware ==
  ASSUME Inv, Awareness, NEW w \in Worker, Deploy(w)
  PROVE  Awareness'
<1>1. /\ proc[w].pc = "idle" /\ UNCHANGED <<store, proc, undone>>
      /\ \A v \in Worker : v # w => release'[v] = release[v]
  BY DEF Deploy, Inv, TypeOK
<1>2. ASSUME NEW v \in Worker PROVE Aware(proc[v], release'[v], undone)
  <2>1. CASE v = w BY <1>1, <2>1, AwareOut
  <2>2. CASE v # w BY <1>1, <2>2 DEF Awareness
  <2> QED BY <2>1, <2>2
<1>3. Known(store) /\ Undone(store, undone) BY DEF Awareness
<1> QED BY <1>1, <1>2, <1>3, AwareNext

\* A call that ends: it returns, crashes, or gives up.
LEMMA EndsAware ==
  ASSUME Inv, Awareness, NEW w \in Worker,
         \/ Refuse(w) \/ MigrateFailed(w) \/ StopCancelled(w) \/ DoCancelled(w)
         \/ CompensationCancelled(w) \/ SnapshotFailed(w) \/ Return(w) \/ Crash(w)
  PROVE  Awareness'
<1>1. PICK p : Local(w, p) /\ p.pc \in {"idle", "return"}
  <2>1. proc[w] \in Call BY InCall
  <2>2. CASE Refuse(w) \/ MigrateFailed(w) \/ CompensationCancelled(w)
    <3>1. Local(w, [proc[w] EXCEPT !.pc = "return"])
      BY <2>2 DEF Refuse, MigrateFailed, CompensationCancelled
    <3> QED BY <2>1, <3>1 DEF Call
  <2>3. CASE StopCancelled(w) \/ DoCancelled(w)
    <3> DEFINE m == [proc[w].mem EXCEPT !.path = Steps(w)[proc[w].i].name]
               p == [proc[w] EXCEPT !.mem = m, !.pc = "return"]
               q == [proc[w] EXCEPT !.mem = m, !.cancelled = TRUE, !.pc = "return"]
    <3>1. Local(w, p) \/ Local(w, q)
      BY <2>1, <2>3, InCall DEF StopCancelled, DoCancelled, Call, RunState
    <3> HIDE DEF m
    <3>2. p.pc = "return" /\ q.pc = "return" BY <2>1 DEF Call
    <3> HIDE DEF p, q
    <3> QED BY <3>1, <3>2
  <2>4. CASE SnapshotFailed(w) \/ Return(w) \/ Crash(w)
    BY <2>4, NoCallTyped DEF SnapshotFailed, Return, Crash
  <2> QED BY <2>2, <2>3, <2>4
<1> QED BY <1>1, AwareOut, LocalAwareness

\* A cancellation, and the passing over of the step at which the run has resumed.
LEMMA CancelAware ==
  ASSUME Inv, Awareness, NEW w \in Worker, Cancel(w)
  PROVE  Awareness'
<1> DEFINE p == [proc[w] EXCEPT !.cancelled = TRUE]
<1>1. Local(w, p) BY DEF Cancel
<1>2. /\ p.pc = proc[w].pc /\ p.mem = proc[w].mem /\ p.next = proc[w].next
      /\ p.i = proc[w].i /\ p.first = proc[w].first
  BY InCall DEF Call
<1> HIDE DEF p
<1>3. Aware(p, release[w], undone) BY <1>2 DEF Awareness, Aware, Heads
<1> QED BY <1>1, <1>3, LocalAwareness

LEMMA SkipCompletedAware ==
  ASSUME Inv, Awareness, NEW w \in Worker, SkipCompleted(w)
  PROVE  Awareness'
<1> DEFINE p == [proc[w] EXCEPT !.i = proc[w].i + 1]
<1>1. Local(w, p) /\ proc[w].pc = "steps" BY InCall DEF SkipCompleted, AtStep, Call
<1>2. /\ p.pc = proc[w].pc /\ p.mem = proc[w].mem
      /\ p.i = proc[w].i + 1 /\ p.first = proc[w].first
  BY InCall DEF Call
<1> HIDE DEF p
<1>3. Aware(proc[w], release[w], undone) BY DEF Awareness
<1>4. Passed(proc[w].mem, Steps(w), proc[w].i, proc[w].first) /\ proc[w].i \in Nat \ {0}
  BY <1>1, <1>3 DEF Aware, Heads, Steps
<1>5. DOMAIN Steps(w) \subseteq Nat
  <2>1. Steps(w) \in Seq(StepDef) BY InCall
  <2> QED BY <2>1
<1>6. Passed(p.mem, Steps(w), p.i, p.first) BY <1>2, <1>4, <1>5 DEF Passed
<1>7. Aware(p, release[w], undone) BY <1>1, <1>2, <1>3, <1>4, <1>6 DEF Aware, Heads, Steps
<1> QED BY <1>1, <1>7, LocalAwareness

LEMMA BeginAware ==
  ASSUME Inv, Awareness, NEW w \in Worker, Begin(w)
  PROVE  Awareness'
<1> DEFINE version == IF proc[w].mem.status = "new" THEN release[w] ELSE proc[w].mem.version
           m == [proc[w].mem EXCEPT !.version = version]
           p == [proc[w] EXCEPT !.pc = "check", !.mem = m]
<1>1. /\ Local(w, p) /\ proc[w].pc = "start"
      /\ proc[w].mem.status # "new" =>
           /\ proc[w].mem.version <= release[w]
           /\ proc[w].mem.version < release[w] => ~Def[release[w]].migrator
  BY InCall DEF Begin, Starting, Migrates, Call, RunState
<1>2. Known(proc[w].mem) /\ Undone(proc[w].mem, undone) BY <1>1 DEF Awareness, Aware
<1>3. /\ version \in Release /\ version <= release[w]
      /\ version < release[w] => ~Def[release[w]].migrator
  BY <1>1, <1>2, InCall DEF Known
<1>4. proc[w].mem.path # NoName => version = proc[w].mem.version
  BY <1>2 DEF Known
<1> HIDE DEF version
<1>5. /\ m.version = version /\ m.path = proc[w].mem.path /\ m.completed = proc[w].mem.completed
      /\ m.status = proc[w].mem.status /\ m.index = proc[w].mem.index
  BY InCall DEF RunState
<1> HIDE DEF m
<1>6. p.pc = "check" /\ p.mem = m BY InCall DEF Call
<1> HIDE DEF p
<1>7. Known(m) BY <1>2, <1>3, <1>4, <1>5, StaysKnown
<1>8. Undone(m, undone) BY <1>2, <1>5 DEF Undone
<1>9. Aware(p, release[w], undone) BY <1>3, <1>5, <1>6, <1>7, <1>8 DEF Aware, Heads
<1> QED BY <1>1, <1>9, LocalAwareness

LEMMA MigrateAware ==
  ASSUME Inv, Awareness, NEW w \in Worker, Migrate(w)
  PROVE  Awareness'
<1> DEFINE m == Migrated(proc[w].mem, release[w])
           n == [m EXCEPT !.status = "completed"]
<1>1. /\ proc[w].pc = "start" /\ proc[w].mem.status # "new"
      /\ proc[w].mem.version < release[w] /\ Def[release[w]].migrator
      /\ \/ Local(w, Persist(proc[w], m, "check"))
         \/ Local(w, Persist(proc[w], n, "check"))
  BY DEF Migrate, Starting, Migrates
<1>2. proc[w] \in Call /\ proc[w].mem \in RunState /\ release[w] \in Release BY InCall
<1>3. Known(proc[w].mem) /\ Undone(proc[w].mem, undone) BY <1>1 DEF Awareness, Aware
<1>4. Known(m) /\ Undone(m, undone) BY <1>1, <1>2, <1>3, MigratedKnown, MigratedUndone
<1>5. m \in RunState BY <1>1, <1>2, MigratedFollows
<1>6. m.version = release[w] BY <1>2 DEF Migrated, RunState
<1> HIDE DEF m
<1>7. /\ n \in RunState /\ n.status = "completed" /\ n.version = release[w]
      /\ n.path = m.path /\ n.completed = m.completed
  BY <1>5, <1>6 DEF RunState, Status, Terminal
<1> HIDE DEF n
<1>8. Known(n) BY <1>2, <1>4, <1>6, <1>7, StaysKnown
<1>9. Undone(n, undone) BY <1>7 DEF Undone
<1>10. release[w] \in Nat /\ "check" \in Label BY InCall DEF Label
<1>11. Aware(Persist(proc[w], m, "check"), release[w], undone)
  BY <1>2, <1>4, <1>5, <1>6, <1>10, AwareSnapshot
<1>12. Aware(Persist(proc[w], n, "check"), release[w], undone)
  BY <1>2, <1>7, <1>8, <1>9, <1>10, AwareSnapshot
<1> QED BY <1>1, <1>11, <1>12, LocalAwareness

\* A release that accepts a state as it is has the steps of the state's.
LEMMA CheckVersionAware ==
  ASSUME Inv, Awareness, NEW w \in Worker, CheckVersion(w)
  PROVE  Awareness'
<1> DEFINE l == IF Acceptable(w) /\ ~IsTerminal(proc[w].mem) THEN "resume" ELSE "return"
           p == [proc[w] EXCEPT !.pc = l]
<1>1. Local(w, p) /\ proc[w].pc = "check" BY DEF CheckVersion
<1>2. l \in {"resume", "return"} /\ (l = "resume" => Acceptable(w)) OBVIOUS
<1> HIDE DEF l
<1>3. p.pc = l /\ p.mem = proc[w].mem BY InCall DEF Call
<1> HIDE DEF p
<1>4. Aware(proc[w], release[w], undone) BY DEF Awareness
<1>5. /\ Known(p.mem) /\ Undone(p.mem, undone)
      /\ p.mem.version \in Release /\ p.mem.version <= release[w]
      /\ p.mem.version < release[w] => ~Def[release[w]].migrator
  BY <1>1, <1>3, <1>4 DEF Aware, Heads
<1>6. l = "resume" => Def[release[w]].steps = Def[p.mem.version].steps
  <2>1. CASE p.mem.version < release[w]
    <3>1. l = "resume" => Def[release[w]].minResume <= p.mem.version
      BY <1>2, <1>3 DEF Acceptable
    <3> QED BY <1>5, <2>1, <3>1, InCall, CompatibilityAssumption
  <2>2. CASE p.mem.version = release[w] BY <2>2
  <2>3. p.mem.version \in Nat /\ release[w] \in Nat BY <1>5, InCall, StepsTyped
  <2> QED BY <1>5, <2>1, <2>2, <2>3
<1>7. Aware(p, release[w], undone) BY <1>2, <1>3, <1>5, <1>6 DEF Aware, Heads
<1> QED BY <1>1, <1>7, LocalAwareness


\* Where a run resumes: at the step to which its path points.
LEMMA ResumesAt ==
  ASSUME NEW v \in Release, NEW m \in RunState, NEW j, Known(m),
         Def[v].steps = Def[m.version].steps, j = TopLevelIndex(Def[v].steps, m.path)
  PROVE  j \in Nat \ {0} /\ Passed(m, Def[v].steps, j, j)
<1> DEFINE steps == Def[v].steps
<1>1. steps \in Seq(StepDef) BY StepsTyped
<1>2. CASE m.path = NoName
  <2>1. ~\E i \in DOMAIN steps : steps[i].name = m.path
    <3> SUFFICES ASSUME NEW i \in DOMAIN steps PROVE steps[i].name # NoName BY <1>2
    <3>1. steps[i] \in StepDef BY <1>1
    <3> QED BY <3>1, ReleaseAssumption DEF StepDef
  <2>2. j = 1 BY <2>1 DEF TopLevelIndex
  <2>3. m.completed = <<>> BY <1>2 DEF Known
  <2> QED BY <2>2, <2>3 DEF Passed
<1>3. CASE m.path # NoName
  <2>1. PICK p \in DOMAIN steps :
          /\ steps[p].name = m.path
          /\ \A k \in DOMAIN m.completed : \E i \in 1..p : Is(steps[i], m.completed[k])
    BY <1>3 DEF Known
  <2>2. j \in DOMAIN steps /\ steps[j].name = m.path BY <2>1 DEF TopLevelIndex
  <2> HIDE DEF steps
  <2>3. j = p BY <2>1, <2>2, Distinct DEF steps
  <2>4. \A i \in 1..p : i \in DOMAIN steps /\ (i < j \/ i = j) BY <1>1, <2>3
  <2>5. Passed(m, steps, j, j) BY <2>1, <2>2, <2>4 DEF Passed
  <2> QED BY <1>1, <2>2, <2>5 DEF steps
<1> QED BY <1>2, <1>3

LEMMA ResumeAware ==
  ASSUME Inv, Awareness, NEW w \in Worker, Resume(w)
  PROVE  Awareness'
<1> DEFINE j == TopLevelIndex(Steps(w), proc[w].mem.path)
           p == [proc[w] EXCEPT !.pc = "return"]
           q == [proc[w] EXCEPT !.first = j, !.i = j]
           m == [proc[w].mem EXCEPT !.status = "running"]
<1>1. /\ proc[w].pc = "resume"
      /\ \/ Local(w, p)
         \/ /\ proc[w].mem.status = "compensating"
            /\ Local(w, Persist(proc[w], proc[w].mem, "compensate"))
         \/ Local(w, Persist(q, m, "steps"))
  BY DEF Resume
<1>2. Aware(proc[w], release[w], undone) BY DEF Awareness
<1>3. /\ Known(proc[w].mem) /\ Undone(proc[w].mem, undone)
      /\ proc[w].mem.version \in Release
      /\ Steps(w) = Def[proc[w].mem.version].steps
  BY <1>1, <1>2 DEF Aware, Heads, Steps
<1>4. j \in Nat \ {0} /\ Passed(proc[w].mem, Steps(w), j, j)
  BY <1>3, InCall, ResumesAt DEF Steps
<1> HIDE DEF j
<1>5. proc[w] \in Call /\ proc[w].mem \in RunState BY InCall
<1>6. q \in Call /\ q.i = j /\ q.first = j BY <1>4, <1>5 DEF Call
<1>7. /\ m \in RunState /\ m.status = "running" /\ m.version = proc[w].mem.version
      /\ m.path = proc[w].mem.path /\ m.completed = proc[w].mem.completed
  BY <1>5 DEF RunState, Status
<1> HIDE DEF q, m
<1>8. CASE Local(w, p)
  <2>1. p.pc = "return" BY <1>5 DEF Call
  <2> HIDE DEF p
  <2> QED BY <1>8, <2>1, AwareOut, LocalAwareness
<1>9. CASE /\ proc[w].mem.status = "compensating"
           /\ Local(w, Persist(proc[w], proc[w].mem, "compensate"))
  <2>1. "compensate" \in Label BY DEF Label
  <2>2. Aware(Persist(proc[w], proc[w].mem, "compensate"), release[w], undone)
    BY <1>3, <1>5, <1>9, <2>1, AwareSnapshot DEF Steps
  <2> QED BY <1>9, <2>2, LocalAwareness
<1>10. CASE Local(w, Persist(q, m, "steps"))
  <2>1. Known(m) BY <1>3, <1>7, StaysKnown
  <2>2. Undone(m, undone) BY <1>7 DEF Undone
  <2>3. Passed(m, Steps(w), q.i, q.first) BY <1>4, <1>6, <1>7 DEF Passed
  <2>4. "steps" \in Label BY DEF Label
  <2>5. Aware(Persist(q, m, "steps"), release[w], undone)
    BY <1>3, <1>4, <1>6, <1>7, <2>1, <2>2, <2>3, <2>4, AwareSnapshot DEF Steps
  <2> QED BY <1>10, <2>5, LocalAwareness
<1> QED BY <1>1, <1>8, <1>9, <1>10

LEMMA SnapshotAware ==
  ASSUME Inv, Awareness, NEW w \in Worker, SnapshotOK(w) \/ SnapshotAckLost(w)
  PROVE  Awareness'
<1> DEFINE m == Written(proc[w].mem)
           p == [proc[w] EXCEPT !.pc = proc[w].next, !.mem = m]
<1>1. /\ proc[w].pc = "snapshot" /\ store' = m
      /\ UNCHANGED <<release, undone>>
      /\ Set(w, p) \/ Set(w, NoCall)
  BY DEF SnapshotOK, SnapshotAckLost
<1>2. Aware(proc[w], release[w], undone) BY DEF Awareness
<1>3. Known(proc[w].mem) /\ Undone(proc[w].mem, undone) BY <1>1, <1>2 DEF Aware
<1>4. /\ Known(m) /\ Undone(m, undone)
      /\ m.version = proc[w].mem.version /\ m.completed = proc[w].mem.completed
      /\ m.path = proc[w].mem.path /\ m.status = proc[w].mem.status
  BY <1>3, InCall, WrittenKnown
<1> HIDE DEF m
<1>5. /\ p.pc = proc[w].next /\ p.next = proc[w].next /\ p.mem = m
      /\ p.i = proc[w].i /\ p.first = proc[w].first
  BY InCall DEF Call
<1> HIDE DEF p
<1>6. Heads(proc[w]) = proc[w].next BY <1>1 DEF Heads
<1>7. Heads(p) = proc[w].next BY <1>5 DEF Heads
<1>8. Passed(proc[w].mem, Steps(w), p.i, p.first) => Passed(m, Steps(w), p.i, p.first)
  BY <1>4 DEF Passed
<1>9. Aware(p, release[w], undone)
  BY <1>2, <1>4, <1>5, <1>6, <1>7, <1>8 DEF Aware, Steps
<1>10. Aware(NoCall, release[w], undone) BY NoCallTyped, AwareOut
<1> QED BY <1>1, <1>4, <1>9, <1>10, KeepsAwareness


\* A worker about to call a step: everything that its state records comes before.
LEMMA CallingAware ==
  ASSUME Inv, Awareness, NEW w \in Worker, Calling(w)
  PROVE  /\ proc[w].i \in DOMAIN Steps(w)
         /\ proc[w].mem.version \in Release /\ Steps(w) = Def[proc[w].mem.version].steps
         /\ \A k \in DOMAIN proc[w].mem.completed : \E j \in DOMAIN Steps(w) :
              Is(Steps(w)[j], proc[w].mem.completed[k]) /\ j < proc[w].i
<1> DEFINE m == proc[w].mem
           i == proc[w].i
<1>1. proc[w].pc = "steps" /\ i \in DOMAIN Steps(w) /\ ~Resumed(w) BY DEF Calling, AtStep
<1>2. Aware(proc[w], release[w], undone) BY DEF Awareness
<1>3. /\ m.version \in Release /\ Steps(w) = Def[m.version].steps
      /\ Passed(m, Steps(w), i, proc[w].first)
  BY <1>1, <1>2 DEF Aware, Heads, Steps
<1>4. ASSUME NEW k \in DOMAIN m.completed
      PROVE  \E j \in DOMAIN Steps(w) : Is(Steps(w)[j], m.completed[k]) /\ j < i
  <2>1. PICK j \in DOMAIN Steps(w) :
          /\ Is(Steps(w)[j], m.completed[k])
          /\ j < i \/ (j = i /\ i = proc[w].first /\ Steps(w)[j].name = m.path)
    BY <1>3 DEF Passed
  <2>2. ~(j = i /\ i = proc[w].first /\ Steps(w)[j].name = m.path)
    BY <1>1, <2>1 DEF Resumed, Completed, Is
  <2> QED BY <2>1, <2>2
<1> QED BY <1>1, <1>3, <1>4

\* The state with the path of that step knows what it records.
LEMMA AtStepKnown ==
  ASSUME Inv, Awareness, NEW w \in Worker, Calling(w),
         NEW m, m.status # "new", m.version = proc[w].mem.version,
         m.path = Steps(w)[proc[w].i].name,
         \A k \in DOMAIN m.completed :
           \E j \in DOMAIN Steps(w) : Is(Steps(w)[j], m.completed[k]) /\ j <= proc[w].i
  PROVE  Known(m)
<1>1. Steps(w) \in Seq(StepDef) /\ proc[w].i \in DOMAIN Steps(w) BY InCall, CallingAware
<1>2. Steps(w)[proc[w].i] \in StepDef BY <1>1
<1>3. m.path # NoName BY <1>2, ReleaseAssumption DEF StepDef
<1>4. m.version \in Release /\ Steps(w) = Def[m.version].steps BY CallingAware
<1>5. \A j \in DOMAIN Steps(w) : j <= proc[w].i => j \in 1..proc[w].i BY <1>1
<1> QED BY <1>1, <1>3, <1>4, <1>5 DEF Known

LEMMA DoAware ==
  ASSUME Inv, Awareness, NEW w \in Worker, Do(w)
  PROVE  Awareness'
<1> DEFINE s == Steps(w)[proc[w].i]
           entry == [step |-> s.name, compensator |-> s.compensates, does |-> s.does]
           completed == Append(proc[w].mem.completed, entry)
           m == [proc[w].mem EXCEPT !.path = s.name, !.completed = completed]
           p == [proc[w] EXCEPT !.i = proc[w].i + 1]
           i == proc[w].i
<1>1. Calling(w) /\ Local(w, Persist(p, m, "steps"))
  BY InCall DEF Do, Calling, Call, RunState
<1>2. /\ proc[w] \in Call /\ proc[w].mem \in RunState /\ proc[w].pc = "steps"
      /\ i \in DOMAIN Steps(w) /\ s \in StepDef
      /\ DOMAIN Steps(w) \subseteq Nat \ {0}
  <2>1. Steps(w) \in Seq(StepDef) BY InCall
  <2> QED BY <1>1, <2>1, InCall, AtStepTyped DEF Calling, AtStep
<1>3. Is(s, entry) BY <1>2 DEF Is, StepDef
<1>4. entry \in Completion BY <1>2 DEF StepDef, Completion
<1>5. s.name \in Name BY <1>2 DEF StepDef
<1>6. Aware(proc[w], release[w], undone) BY DEF Awareness
<1>7. /\ Known(proc[w].mem) /\ Undone(proc[w].mem, undone)
      /\ proc[w].mem.version \in Release /\ Steps(w) = Def[proc[w].mem.version].steps
  BY <1>2, <1>6 DEF Aware, Heads, Steps
<1>8. proc[w].mem.status = "running" BY <1>2, <1>6 DEF Aware, Heads
<1>9. p \in Call /\ p.i = i + 1 /\ p.first = proc[w].first BY <1>2 DEF Call
<1> HIDE DEF entry, p
<1>10. /\ completed \in Seq(Completion)
       /\ DOMAIN completed = 1..Len(proc[w].mem.completed) + 1
       /\ Len(proc[w].mem.completed) \in Nat
       /\ completed[Len(proc[w].mem.completed) + 1] = entry
       /\ \A k \in 1..Len(proc[w].mem.completed) :
            completed[k] = proc[w].mem.completed[k] /\ k \in DOMAIN proc[w].mem.completed
  <2>1. proc[w].mem.completed \in Seq(Completion) BY <1>2 DEF RunState
  <2> QED BY <1>4, <2>1, Appended
<1> HIDE DEF completed
<1>11. /\ m \in RunState /\ m.status = proc[w].mem.status /\ m.version = proc[w].mem.version
       /\ m.path = s.name /\ m.completed = completed /\ m.index = proc[w].mem.index
  BY <1>2, <1>5, <1>10 DEF RunState
<1> HIDE DEF m
<1>12. ASSUME NEW k \in DOMAIN completed
       PROVE  \E j \in DOMAIN Steps(w) : Is(Steps(w)[j], completed[k]) /\ j <= i
  <2>1. CASE k \in 1..Len(proc[w].mem.completed)
    <3>1. PICK j \in DOMAIN Steps(w) : Is(Steps(w)[j], proc[w].mem.completed[k]) /\ j < i
      BY <1>1, <1>10, <2>1, CallingAware
    <3> QED BY <1>2, <1>10, <2>1, <3>1
  <2>2. CASE k = Len(proc[w].mem.completed) + 1
    BY <1>2, <1>3, <1>10, <2>2
  <2> DEFINE l == Len(proc[w].mem.completed)
  <2>3. k \in 1..l + 1 /\ l \in Nat BY <1>10
  <2> HIDE DEF l
  <2>4. k \in 1..l \/ k = l + 1 BY <2>3
  <2> QED BY <2>1, <2>2, <2>4 DEF l
<1>13. Known(m) BY <1>1, <1>8, <1>11, <1>12, AtStepKnown
<1>14. Undone(m, undone) BY <1>8, <1>11 DEF Undone
<1>15. Passed(m, Steps(w), p.i, p.first)
  <2>1. \A j \in DOMAIN Steps(w) : j <= i => j < p.i BY <1>2, <1>9
  <2> QED BY <1>11, <1>12, <2>1 DEF Passed
<1>16. "steps" \in Label /\ p.i \in Nat \ {0} BY <1>2, <1>9 DEF Label
<1>17. Aware(Persist(p, m, "steps"), release[w], undone)
  BY <1>7, <1>9, <1>11, <1>13, <1>14, <1>15, <1>8, <1>16, AwareSnapshot DEF Steps
<1> QED BY <1>1, <1>17, LocalAwareness


LEMMA DoFailedAware ==
  ASSUME Inv, Awareness, NEW w \in Worker, DoFailed(w)
  PROVE  Awareness'
<1> DEFINE path == Steps(w)[proc[w].i].name
           index == Len(proc[w].mem.completed) - 1
           m == [proc[w].mem EXCEPT !.status = "compensating", !.path = path, !.index = index]
<1>1. Calling(w) BY DEF DoFailed
<1>2. Local(w, Persist(proc[w], m, "compensate"))
  <2>1. m = [proc[w].mem EXCEPT !.path = path, !.status = "compensating", !.index = index]
    BY InCall DEF RunState
  <2> QED BY <2>1 DEF DoFailed
<1>3. path \in Name /\ index \in Int /\ path = Steps(w)[proc[w].i].name
  BY <1>1, AtStepTyped, InCall DEF Calling, StepDef, RunState
<1>4. \A k \in DOMAIN proc[w].mem.completed : ~(k - 1 > index)
  <2>1. proc[w].mem.completed \in Seq(Completion) BY InCall DEF RunState
  <2> QED BY <2>1
<1> HIDE DEF path, index
<1>5. proc[w] \in Call /\ proc[w].mem \in RunState BY InCall
<1>6. /\ m \in RunState /\ m.status = "compensating" /\ m.path = path /\ m.index = index
      /\ m.version = proc[w].mem.version /\ m.completed = proc[w].mem.completed
  <2>1. m \in RunState BY <1>3, <1>5, Turns DEF Status
  <2> QED BY <1>5, <2>1 DEF RunState
<1> HIDE DEF m
<1>7. \A k \in DOMAIN m.completed :
        \E j \in DOMAIN Steps(w) : Is(Steps(w)[j], m.completed[k]) /\ j <= proc[w].i
  <2>1. \A i, j \in DOMAIN Steps(w) : j < i => j <= i
    <3>1. Steps(w) \in Seq(StepDef) BY InCall
    <3> QED BY <3>1
  <2> QED BY <1>1, <1>6, <2>1, CallingAware
<1>8. Known(m) BY <1>1, <1>3, <1>6, <1>7, AtStepKnown
<1>9. Undone(m, undone) BY <1>4, <1>6 DEF Undone
<1>10. m.version \in Release /\ Steps(w) = Def[m.version].steps
  BY <1>1, <1>6, CallingAware
<1>11. "compensate" \in Label BY DEF Label
<1>12. Aware(Persist(proc[w], m, "compensate"), release[w], undone)
  BY <1>5, <1>6, <1>8, <1>9, <1>10, <1>11, AwareSnapshot DEF Steps
<1> QED BY <1>2, <1>12, LocalAwareness

LEMMA StepsDoneAware ==
  ASSUME Inv, Awareness, NEW w \in Worker, StepsDone(w)
  PROVE  Awareness'
<1> DEFINE m == [proc[w].mem EXCEPT !.status = "completed"]
<1>1. proc[w].pc = "steps" /\ Local(w, Persist(proc[w], m, "return")) BY DEF StepsDone
<1>2. proc[w] \in Call /\ proc[w].mem \in RunState BY InCall
<1>3. Aware(proc[w], release[w], undone) BY DEF Awareness
<1>4. Known(proc[w].mem) /\ proc[w].mem.version \in Release
  BY <1>1, <1>3 DEF Aware, Heads
<1>5. /\ m \in RunState /\ m.status = "completed" /\ m.path = proc[w].mem.path
      /\ m.version = proc[w].mem.version /\ m.completed = proc[w].mem.completed
  BY <1>2 DEF RunState, Status, Terminal
<1> HIDE DEF m
<1>6. Known(m) BY <1>4, <1>5, StaysKnown
<1>7. Undone(m, undone) BY <1>5 DEF Undone
<1>8. "return" \in Label BY DEF Label
<1>9. Aware(Persist(proc[w], m, "return"), release[w], undone)
  BY <1>2, <1>5, <1>6, <1>7, <1>8, AwareSnapshot
<1> QED BY <1>1, <1>9, LocalAwareness

\* A worker that rolls back.
LEMMA RollingAware ==
  ASSUME Inv, Awareness, NEW w \in Worker, proc[w].pc = "compensate"
  PROVE  /\ Known(proc[w].mem) /\ Undone(proc[w].mem, undone)
         /\ proc[w].mem.version \in Release /\ Steps(w) = Def[proc[w].mem.version].steps
         /\ proc[w].mem.status = "compensating"
<1>1. Aware(proc[w], release[w], undone) BY DEF Awareness
<1> QED BY <1>1 DEF Aware, Heads, Steps

\* The entry that is due has a step, which is the only one of its name.
LEMMA DueIs ==
  ASSUME Inv, Awareness, NEW w \in Worker, AtCompletion(w)
  PROVE  \E s \in Range(Steps(w)) :
           /\ Is(s, Due(w))
           /\ \A t \in Compensators(w) : t = s
<1> DEFINE m == proc[w].mem
           k == m.index + 1
           steps == Steps(w)
<1>1. proc[w].pc = "compensate" /\ k \in DOMAIN m.completed /\ Due(w) = m.completed[k]
  BY DEF AtCompletion, Due
<1>2. Known(m) /\ Steps(w) = Def[m.version].steps BY <1>1, RollingAware
<1>3. m.path # NoName
  <2>1. DOMAIN <<>> = {} OBVIOUS
  <2> QED BY <1>1, <1>2, <2>1 DEF Known
<1>4. PICK p \in DOMAIN steps : \E j \in 1..p : Is(steps[j], m.completed[k])
  BY <1>1, <1>2, <1>3 DEF Known
<1>5. steps \in Seq(StepDef) BY InCall
<1>6. PICK j \in DOMAIN steps : Is(steps[j], m.completed[k])
  <2>1. \A j \in 1..p : j \in DOMAIN steps BY <1>5
  <2> QED BY <1>4, <2>1
<1>7. ASSUME NEW t \in Compensators(w) PROVE t = steps[j]
  <2>1. PICK i \in DOMAIN steps : t = steps[i] BY DEF Compensators, Range
  <2>2. steps[i].name = steps[j].name BY <1>1, <1>6, <2>1 DEF Compensators, Is
  <2>3. i = j BY <2>2, InCall, Distinct DEF Steps
  <2> QED BY <2>1, <2>3
<1>8. steps[j] \in Range(steps) BY DEF Range
<1> QED BY <1>1, <1>6, <1>7, <1>8

\* The index passes an entry that is undone, or has nothing to undo.
LEMMA PassedOver ==
  ASSUME NEW m \in RunState, NEW n \in RunState, NEW u, NEW v, u \subseteq v,
         Undone(m, u), m.status = "compensating", n.status = m.status,
         n.completed = m.completed, n.index = m.index - 1,
         m.index + 1 \in DOMAIN m.completed /\ m.completed[m.index + 1].compensator =>
           m.completed[m.index + 1].does \in v
  PROVE  Undone(n, v)
<1> SUFFICES ASSUME NEW k \in DOMAIN m.completed, m.completed[k].compensator,
                    k - 1 > n.index
             PROVE  m.completed[k].does \in v
  BY DEF Undone
<1>1. k \in Int /\ m.index \in Int
  <2>1. m.completed \in Seq(Completion) BY DEF RunState
  <2> QED BY <2>1 DEF RunState
<1>2. k - 1 > m.index \/ k = m.index + 1 BY <1>1
<1> QED BY <1>2 DEF Undone

LEMMA SkipCompensationAware ==
  ASSUME Inv, Awareness, NEW w \in Worker, SkipCompensation(w)
  PROVE  Awareness'
<1> DEFINE m == [proc[w].mem EXCEPT !.index = proc[w].mem.index - 1]
           p == [proc[w] EXCEPT !.mem = m]
<1>1. /\ AtCompletion(w) /\ Local(w, p) /\ proc[w].pc = "compensate"
      /\ ~Due(w).compensator \/ Compensators(w) = {}
  BY InCall DEF SkipCompensation, AtCompletion, Call, RunState
<1>2. proc[w] \in Call /\ proc[w].mem \in RunState BY InCall
<1>3. ~Due(w).compensator
  <2>1. PICK s \in Range(Steps(w)) : Is(s, Due(w)) BY <1>1, DueIs
  <2> QED BY <1>1, <2>1 DEF Compensators, Is
<1>4. /\ m \in RunState /\ m.status = proc[w].mem.status /\ m.path = proc[w].mem.path
      /\ m.version = proc[w].mem.version /\ m.completed = proc[w].mem.completed
      /\ m.index = proc[w].mem.index - 1
  BY <1>2 DEF RunState
<1> HIDE DEF m
<1>5. p.pc = "compensate" /\ p.mem = m BY <1>1, <1>2 DEF Call
<1> HIDE DEF p
<1>6. Known(m) BY <1>1, <1>4, RollingAware, StaysKnown
<1>7. Undone(m, undone)
  BY <1>1, <1>2, <1>3, <1>4, RollingAware, PassedOver DEF Due
<1>8. Aware(p, release[w], undone)
  BY <1>1, <1>4, <1>5, <1>6, <1>7, RollingAware DEF Aware, Heads, Steps
<1> QED BY <1>1, <1>8, LocalAwareness

LEMMA CompensateAware ==
  ASSUME Inv, Awareness, NEW w \in Worker, Compensate(w)
  PROVE  Awareness'
<1> DEFINE m == [proc[w].mem EXCEPT !.index = proc[w].mem.index - 1]
           p == Persist(proc[w], m, "compensate")
<1>1. /\ AtCompletion(w) /\ proc[w].pc = "compensate"
      /\ Set(w, p) /\ UNCHANGED <<store, release>>
      /\ \E s \in Compensators(w) : undone' = undone \cup {s.does}
  BY InCall DEF Compensate, AtCompletion, RunState
<1>2. proc[w] \in Call /\ proc[w].mem \in RunState BY InCall
<1>3. undone' = undone \cup {Due(w).does} BY <1>1, DueIs DEF Is
<1>4. /\ m \in RunState /\ m.status = proc[w].mem.status /\ m.path = proc[w].mem.path
      /\ m.version = proc[w].mem.version /\ m.completed = proc[w].mem.completed
      /\ m.index = proc[w].mem.index - 1
  BY <1>2 DEF RunState
<1> HIDE DEF m
<1>5. Known(m) BY <1>1, <1>4, RollingAware, StaysKnown
<1>6. Undone(m, undone')
  BY <1>1, <1>2, <1>3, <1>4, RollingAware, PassedOver DEF Due
<1>7. "compensate" \in Label BY DEF Label
<1>8. Aware(p, release[w], undone')
  BY <1>1, <1>2, <1>4, <1>5, <1>6, <1>7, RollingAware, AwareSnapshot DEF Steps
<1> HIDE DEF p
<1> QED BY <1>1, <1>3, <1>8, KeepsAwareness

LEMMA CompensateFailedAware ==
  ASSUME Inv, Awareness, NEW w \in Worker, CompensateFailed(w)
  PROVE  Awareness'
<1>1. proc[w].pc = "compensate" /\ Local(w, Persist(proc[w], proc[w].mem, "return"))
  BY DEF CompensateFailed, AtCompletion
<1>2. "return" \in Label BY DEF Label
<1>3. Aware(Persist(proc[w], proc[w].mem, "return"), release[w], undone)
  BY <1>1, <1>2, InCall, RollingAware, AwareSnapshot
<1> QED BY <1>1, <1>3, LocalAwareness

LEMMA CompensationDoneAware ==
  ASSUME Inv, Awareness, NEW w \in Worker, CompensationDone(w)
  PROVE  Awareness'
<1> DEFINE before == -1
           ended == [proc[w].mem EXCEPT !.status = "failed"]
           m == [ended EXCEPT !.index = before]
<1>1. proc[w].pc = "compensate" /\ Local(w, Persist(proc[w], m, "return"))
  <2>1. m = [proc[w].mem EXCEPT !.status = "failed", !.index = -1] BY InCall DEF RunState
  <2> QED BY <2>1 DEF CompensationDone
<1>2. proc[w] \in Call /\ proc[w].mem \in RunState BY InCall
<1>3. before \in Int OBVIOUS
<1> HIDE DEF before
<1>4. /\ m \in RunState /\ m.status = "failed" /\ m.path = proc[w].mem.path
      /\ m.version = proc[w].mem.version /\ m.completed = proc[w].mem.completed
  BY <1>2, <1>3 DEF RunState, Status, Terminal
<1> HIDE DEF m, ended
<1>5. Known(m) BY <1>1, <1>4, RollingAware, StaysKnown
<1>6. Undone(m, undone)
  <2>1. proc[w].mem.index < 0 /\ proc[w].mem.index \in Int
    BY <1>2 DEF CompensationDone, RunState
  <2>2. \A k \in DOMAIN proc[w].mem.completed : k - 1 > proc[w].mem.index
    <3>1. proc[w].mem.completed \in Seq(Completion) BY <1>2 DEF RunState
    <3> QED BY <2>1, <3>1
  <2> QED BY <1>1, <1>4, <2>2, RollingAware DEF Undone
<1>7. "return" \in Label BY DEF Label
<1>8. Aware(Persist(proc[w], m, "return"), release[w], undone)
  BY <1>2, <1>4, <1>5, <1>6, <1>7, AwareSnapshot
<1> QED BY <1>1, <1>8, LocalAwareness

-----------------------------------------------------------------------------

LEMMA StepKeepsAwareness == Inv /\ Awareness /\ [Next]_vars => Awareness'
<1> SUFFICES ASSUME Inv, Awareness, [Next]_vars PROVE Awareness' OBVIOUS
<1>1. ASSUME NEW w \in Worker, WorkerStep(w) PROVE Awareness'
  BY <1>1, EndsAware, BeginAware, MigrateAware, CheckVersionAware, ResumeAware,
     SnapshotAware, SkipCompletedAware, StepsDoneAware, DoAware, DoFailedAware,
     SkipCompensationAware, CompensationDoneAware, CompensateAware, CompensateFailedAware
     DEF WorkerStep
<1>2. ASSUME NEW w \in Worker, Load(w) \/ SnapshotAckLost(w) \/ Crash(w) \/ Cancel(w) \/ Deploy(w)
      PROVE  Awareness'
  BY <1>2, LoadAware, SnapshotAware, EndsAware, CancelAware, DeployAware
<1>3. CASE UNCHANGED vars
  BY <1>3, AwareNext DEF vars, Awareness
<1> QED BY <1>1, <1>2, <1>3 DEF Next, Terminated

LEMMA AwarenessHolds == Spec => []Awareness
<1>1. Init => Awareness
  <2> SUFFICES ASSUME Init PROVE Awareness OBVIOUS
  <2>1. Known(store) /\ Undone(store, undone) BY DEF Init, NewRun, Known, Undone
  <2> QED BY <2>1, NoCallTyped, AwareOut DEF Init, Awareness
<1> QED BY <1>1, Invariant, StepKeepsAwareness, PTL DEF Spec

\* For any releases that keep what CompatibilityAssumption asks of them: no worker
\* does again what the state that it works on has recorded, whichever release did
\* it and whatever it was called there.
THEOREM NeverRepeatedHolds == Spec => []NeverRepeated
<1>1. Inv /\ Awareness => NeverRepeated
  <2> SUFFICES ASSUME Inv, Awareness, NEW w \in Worker, Calling(w),
                      NEW k \in DOMAIN proc[w].mem.completed,
                      Steps(w)[proc[w].i].does = proc[w].mem.completed[k].does
               PROVE  FALSE
    BY DEF NeverRepeated, Recorded
  <2>1. proc[w].i \in DOMAIN Steps(w) /\ Steps(w) \in Seq(StepDef) BY CallingAware, InCall
  <2>2. PICK j \in DOMAIN Steps(w) : Is(Steps(w)[j], proc[w].mem.completed[k]) /\ j < proc[w].i
    BY CallingAware
  <2>3. j = proc[w].i BY <2>1, <2>2, InCall, Distinct DEF Steps, Is
  <2> QED BY <2>1, <2>2, <2>3
<1> QED BY <1>1, Invariant, AwarenessHolds, PTL

\* For any such releases: a rollback undoes what was done, whichever release did it
\* and whichever rolls it back.
THEOREM RollbackUndoesHolds == Spec => []RollbackUndoes
<1>1. Awareness => RollbackUndoes
  BY DEF Awareness, Undone, RollbackUndoes, ToBeUndone
<1> QED BY <1>1, AwarenessHolds, PTL
==============================================================================
