------------------------- MODULE DiagnosticsProperties -------------------------
(***************************************************************************)
(* What the diagnostics of a run promise, against the log of all that was  *)
(* recorded.                                                               *)
(***************************************************************************)
EXTENDS Diagnostics

\* The path without the numbers of the iterations that were compacted.
Displayed(path) ==
  LET kept == {k \in DOMAIN path : SubSeq(path, 1, k) \notin merged}
  IN [n \in 1..Cardinality(kept) |->
        path[CHOOSE k \in kept : Cardinality({j \in kept : j <= k}) = n]]

Paths == {Displayed(log[n].path) : n \in DOMAIN log}

\* The entries for what is displayed as the path, and the value of the last one.
Entries(path, what) ==
  {n \in DOMAIN log : Displayed(log[n].path) = path /\ log[n].what \in what}

First(S) == CHOOSE n \in S : \A m \in S : n <= m
Latest(S) == CHOOSE n \in S : \A m \in S : m <= n

ValueOf(S) == IF S = {} THEN None ELSE log[Latest(S)].value

\* The record that the log gives for the path.
Expected(path) ==
  LET attempts == Entries(path, {"attempt"})
      planned == Entries(path, {"attempt", "completed", "next"})
  IN [attempts  |-> Cardinality(attempts),
      first     |-> log[First(attempts)].at,
      last      |-> log[Latest(attempts)].at,
      completed |-> ValueOf(Entries(path, {"completed"})),
      error     |-> ValueOf(Entries(path, {"error"})),
      next      |-> IF log[Latest(planned)].what = "next" THEN ValueOf(planned) ELSE None]

\* A step in the body of a compact repeat is named like the number of an iteration.
Numeral ==
  \E r \in Role \ {"loop"} :
    compact[Parent(r)] /\ \E n \in 0..MaxIterations : name[r] = Itoa(n)

\* The diagnostics have one record for each path, whatever characters its names
\* are made of, and it says of the path what happened: "aggregate metadata:
\* attempt count, first/last start, completion, last error, and next scheduled
\* run" (pipeline/README.md).  A step named like a number can be taken for an
\* iteration, and is excluded.
DiagnosticsTrue ==
  pc # "walk" /\ ~Numeral =>
    /\ {StepPathFromKey(key) : key \in DOMAIN diagnostics} = Paths
    /\ \A path \in Paths : diagnostics[StepPathKey(path)] = Expected(path)

\* Compaction moves attempts from one record to another.  It counts none twice and
\* loses none, in whatever order it walks over the map and whether or not it meets
\* what it inserts there, also with names for which it mistakes a step for an
\* iteration.
AttemptsConserved ==
  MapThenSumSet(LAMBDA key : diagnostics[key].attempts, DOMAIN diagnostics) =
    Cardinality({n \in DOMAIN log : log[n].what = "attempt"})
=============================================================================
