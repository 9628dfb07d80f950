------------------------------ MODULE Diagnostics ------------------------------
(***************************************************************************)
(* The diagnostics of a pipeline's steps: how the executor records them    *)
(* (record* in pipeline/executor.go), the keys they are kept under         *)
(* (StepPathKey), and how a compact repeat merges those of an iteration    *)
(* that is over into its aggregates (pipeline/compact.go).                 *)
(*                                                                         *)
(* PipelineExecutor keeps paths as sequences and has no diagnostics.  Here *)
(* a path is what the code has: a list of strings, which a key joins into  *)
(* one.  A string is a sequence of characters, as in the code, because     *)
(* escaping is what the keys depend on.  The run is that of one pipeline,  *)
(* a repeat "loop" over an action or poll "work" and a repeat "inner" over *)
(* an action or poll "leaf".  Its steps have any of the given names, and   *)
(* either repeat may be compact.                                           *)
(*                                                                         *)
(* Left out: the events for observers, and the errors of a rollback (a     *)
(* compact repeat has nothing to roll back).                               *)
(***************************************************************************)
EXTENDS Integers, Sequences, FiniteSets, SequencesExt, TLC

CONSTANTS
  Naming,         \* the names the four steps may have
  MaxIterations,  \* RepeatConfig.MaxIterations of both repeats
  MaxFaults,      \* bound: errors, deferrals and snoozes of "work" and "leaf"
  MaxTime,        \* bound: ticks of the clock
  None            \* a time or an error that is absent

Role == {"loop", "work", "inner", "leaf"}

ASSUME DiagnosticsAssumption ==
  /\ \A name \in Naming : DOMAIN name = Role /\ name["work"] # name["inner"]
  /\ MaxIterations \in Nat \ {0} /\ MaxFaults \in Nat /\ MaxTime \in Nat
  /\ None \notin Nat

VARIABLES
  name,         \* the names of the steps
  compact,      \* whether the history of a repeat is compact
  diagnostics,  \* RunState.StepDiagnostics: key -> record
  role,         \* the step that is next, or running
  iteration,    \* RepeatState.Iteration of the two repeats
  pc,           \* "idle", "busy", "walk", "decide" or "ended"
  walk,         \* the keys that the loop over the map has yet to visit
  now,          \* the clock
  faults,       \* bound: counts the faults
  log,          \* history: everything that was recorded, under the full path
  merged        \* history: the iterations that were compacted

vars == <<name, compact, diagnostics, role, iteration, pc, walk, now, faults,
          log, merged>>

-----------------------------------------------------------------------------
(* Strings.                                                                *)

\* strings.ReplaceAll: from left to right, the old strings do not overlap.
Replaced(s, old, new) ==
  LET Here(i) == SubSeq(s, i, i + Len(old) - 1) = old
      from[i \in 1..Len(s) + Len(old)] ==
        IF i > Len(s) THEN <<>>
        ELSE IF i + Len(old) <= Len(s) + 1 /\ Here(i) THEN new \o from[i + Len(old)]
        ELSE <<s[i]>> \o from[i + 1]
  IN from[1]

\* strings.Split at a slash.
Split(s) ==
  LET Slash == {0, Len(s) + 1} \cup {i \in DOMAIN s : s[i] = "/"}
      After(i) == CHOOSE j \in Slash : j > i /\ \A k \in Slash : k > i => j <= k
  IN [n \in 1..Cardinality(Slash) - 1 |->
        LET i == CHOOSE i \in Slash : Cardinality({j \in Slash : j < i}) = n - 1
        IN SubSeq(s, i + 1, After(i) - 1)]

\* strconv.Itoa, for one digit.
Itoa(n) == <<ToString(n)>>

Escaped(part) == Replaced(Replaced(part, <<"~">>, <<"~", "0">>), <<"/">>, <<"~", "1">>)

\* Mutation of Unescaped: in the other order, "~01" becomes a slash.
UnescapedTildeFirst(part) ==
  Replaced(Replaced(part, <<"~", "0">>, <<"~">>), <<"~", "1">>, <<"/">>)

Unescaped(part) == Replaced(Replaced(part, <<"~", "1">>, <<"/">>), <<"~", "0">>, <<"~">>)

StepPathKey(path) == FlattenSeq([n \in DOMAIN path |-> <<"/">> \o Escaped(path[n])])

StepPathFromKey(key) ==
  IF key = <<>> THEN <<>>
  ELSE LET parts == Split(Tail(key)) IN [n \in DOMAIN parts |-> Unescaped(parts[n])]

-----------------------------------------------------------------------------
(* Records and their merge.                                                *)

NoDiagnostic ==
  [attempts |-> 0, first |-> None, last |-> None, completed |-> None,
   error |-> None, next |-> None]

EarlierTime(left, right) ==
  IF left = None THEN right ELSE IF right = None \/ left < right THEN left ELSE right

LaterTime(left, right) == left # None /\ (right = None \/ left >= right)

\* Mutation of Merge: the attempts of the iteration replace those of the aggregate.
MergeLast(aggregate, current) ==
  [aggregate EXCEPT
     !.attempts = current.attempts,
     !.first = EarlierTime(aggregate.first, current.first),
     !.last = current.last, !.next = current.next,
     !.error = IF current.error # None THEN current.error ELSE @,
     !.completed = IF LaterTime(current.completed, @) THEN current.completed ELSE @]

\* mergeDiagnostics
Merge(aggregate, current) ==
  LET later == LaterTime(current.last, aggregate.last)
  IN [attempts  |-> aggregate.attempts + current.attempts,
      first     |-> EarlierTime(aggregate.first, current.first),
      last      |-> IF later THEN current.last ELSE aggregate.last,
      next      |-> IF later THEN current.next ELSE aggregate.next,
      error     |-> IF later /\ current.error # None THEN current.error ELSE aggregate.error,
      completed |-> IF LaterTime(current.completed, aggregate.completed)
                      THEN current.completed ELSE aggregate.completed]

\* What a map holds under a key, and the map with it set.
At(map, key) == IF key \in DOMAIN map THEN map[key] ELSE NoDiagnostic
Set(map, key, d) == [k \in DOMAIN map \cup {key} |-> IF k = key THEN d ELSE map[k]]
Without(map, key) == [k \in DOMAIN map \ {key} |-> map[k]]

-----------------------------------------------------------------------------
(* Paths.                                                                  *)

\* The step below which a step is, and the first step below a repeat.
Parent(r) == IF r = "leaf" THEN "inner" ELSE "loop"
FirstChild(r) == IF r = "loop" THEN "work" ELSE "leaf"

IsRepeat(r) == r \in {"loop", "inner"}

LoopPath == <<name["loop"]>>
StepPath(r) ==
  LET below == LoopPath \o <<Itoa(iteration["loop"])>>
  IN CASE r = "loop" -> LoopPath
       [] r \in {"work", "inner"} -> Append(below, name[r])
       [] r = "leaf" ->
            below \o <<name["inner"], Itoa(iteration["inner"]), name["leaf"]>>

IterationPath(r) == Append(StepPath(r), Itoa(iteration[r]))

\* hasPathPrefix, of the path of a key.
Within(key, prefix) == IsPrefix(prefix, StepPathFromKey(key))

-----------------------------------------------------------------------------
(* What is recorded for the step r: the field that changes, and the log.   *)

Key(r) == StepPathKey(StepPath(r))

Entry(r, what, value) == [path |-> StepPath(r), what |-> what, value |-> value, at |-> now]

Record(r, d, entries) ==
  /\ diagnostics' = Set(diagnostics, Key(r), d)
  /\ log' = log \o entries

\* recordAttemptData
Attempted(d) ==
  [d EXCEPT !.first = IF @ = None THEN now ELSE @, !.last = now, !.next = None,
            !.attempts = @ + 1]

\* recordError
Errored(d, error) == [d EXCEPT !.error = error]

\* recordCompleted
Completed(d) == [d EXCEPT !.completed = now, !.next = None]

\* recordNextRun, without and with a cause.
Planned(d, delay) == [d EXCEPT !.next = now + delay]
PlannedAfter(d, delay, cause) == Errored(Planned(d, delay), cause)
-----------------------------------------------------------------------------
Init ==
  /\ name \in Naming
  /\ compact \in [{"loop", "inner"} -> BOOLEAN]
  /\ diagnostics = <<>>
  /\ role = "work"
  /\ iteration = [r \in {"loop", "inner"} |-> 0]
  /\ pc = "idle"
  /\ walk = {}
  /\ now = 0
  /\ faults = 0
  /\ log = <<>>
  /\ merged = {}

\* The callback of a step begins: Do, Check or Until.
Begin ==
  /\ pc = "idle"
  /\ Record(role, Attempted(At(diagnostics, Key(role))), <<Entry(role, "attempt", None)>>)
  /\ pc' = "busy"
  /\ UNCHANGED <<name, compact, role, iteration, walk, now, faults, merged>>

\* The callback of "work" or "leaf" does not succeed: its action is retried in
\* the process, it is put off with RetryAfter, or a poll snoozes.
Unsuccessful ==
  /\ pc = "busy" /\ ~IsRepeat(role)
  /\ faults < MaxFaults
  /\ faults' = faults + 1
  /\ LET d == diagnostics[Key(role)]
         error == Entry(role, "error", faults)
         next == Entry(role, "next", now + 1)
     IN \/ Record(role, Errored(d, faults), <<error>>)
        \/ Record(role, PlannedAfter(Errored(d, faults), 1, faults), <<error, next>>)
        \/ Record(role, Planned(d, 1), <<next>>)
  /\ pc' = "idle"
  /\ UNCHANGED <<name, compact, role, iteration, walk, now, merged>>

Complete ==
  /\ pc = "busy" /\ ~IsRepeat(role)
  /\ Record(role, Completed(diagnostics[Key(role)]), <<Entry(role, "completed", now)>>)
  /\ role' = IF role = "work" THEN "leaf" ELSE "inner"
  /\ pc' = "idle"
  /\ UNCHANGED <<name, compact, iteration, walk, now, faults, merged>>

\* Until has answered; a compact repeat walks over the map.
UntilReturns ==
  /\ pc = "busy" /\ IsRepeat(role)
  /\ IF compact[role]
       THEN /\ walk' = {key \in DOMAIN diagnostics : Within(key, IterationPath(role))}
            /\ pc' = "walk"
       ELSE walk' = {} /\ pc' = "decide"
  /\ UNCHANGED <<name, compact, diagnostics, role, iteration, now, faults, log, merged>>

\* The loop over the map visits a key of the iteration, in any order; the others
\* it passes over.  An aggregate that it inserts it may visit, or not.
Visit(key) ==
  /\ pc = "walk" /\ key \in walk
  /\ LET path == StepPathFromKey(key)
         prefix == IterationPath(role)
         aggregateKey ==
           StepPathKey(StepPath(role) \o SubSeq(path, Len(prefix) + 1, Len(path)))
         map == Without(diagnostics, key)
     IN /\ diagnostics' =
             Set(map, aggregateKey, Merge(At(map, aggregateKey), diagnostics[key]))
        /\ \/ walk' = walk \ {key}
           \/ /\ aggregateKey \notin DOMAIN map
              /\ Within(aggregateKey, prefix)
              /\ walk' = (walk \ {key}) \cup {aggregateKey}
  /\ UNCHANGED <<name, compact, role, iteration, pc, now, faults, log, merged>>

Compacted ==
  /\ pc = "walk" /\ walk = {}
  /\ merged' = merged \cup {IterationPath(role)}
  /\ pc' = "decide"
  /\ UNCHANGED <<name, compact, diagnostics, role, iteration, walk, now, faults, log>>

\* The repeat is done.  The inner one is the last step of the loop's body.
RepeatDone ==
  /\ pc = "decide"
  /\ Record(role, Completed(diagnostics[Key(role)]), <<Entry(role, "completed", now)>>)
  /\ role' = "loop"
  /\ pc' = IF role = "loop" THEN "ended" ELSE "idle"
  /\ UNCHANGED <<name, compact, iteration, walk, now, faults, merged>>

\* It is not, and the next iteration is due; a repeat inside it begins anew.
RepeatGoesOn ==
  /\ pc = "decide" /\ iteration[role] + 1 < MaxIterations
  /\ Record(role, Planned(diagnostics[Key(role)], 1), <<Entry(role, "next", now + 1)>>)
  /\ iteration' = IF role = "loop"
                    THEN [loop |-> iteration["loop"] + 1, inner |-> 0]
                    ELSE [iteration EXCEPT !["inner"] = @ + 1]
  /\ role' = FirstChild(role)
  /\ pc' = "idle"
  /\ UNCHANGED <<name, compact, walk, now, faults, merged>>

\* It is not, and there is no iteration left: the run fails.
RepeatLimit ==
  /\ pc = "decide" /\ iteration[role] + 1 >= MaxIterations
  /\ Record(role, Errored(diagnostics[Key(role)], "limit"), <<Entry(role, "error", "limit")>>)
  /\ pc' = "ended"
  /\ UNCHANGED <<name, compact, role, iteration, walk, now, faults, merged>>

\* Time passes while a callback runs.
Tick ==
  /\ now < MaxTime /\ pc = "busy"
  /\ now' = now + 1
  /\ UNCHANGED <<name, compact, diagnostics, role, iteration, pc, walk, faults, log, merged>>

Ended == pc = "ended" /\ UNCHANGED vars

Next ==
  \/ Begin \/ Unsuccessful \/ Complete
  \/ UntilReturns \/ (\E key \in walk : Visit(key)) \/ Compacted
  \/ RepeatDone \/ RepeatGoesOn \/ RepeatLimit
  \/ Tick \/ Ended

Spec == Init /\ [][Next]_vars
=============================================================================
