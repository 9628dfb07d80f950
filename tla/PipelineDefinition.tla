--------------------------- MODULE PipelineDefinition ---------------------------
(***************************************************************************)
(* The immutable definition of a pipeline (pipeline/pipeline.go,           *)
(* pipeline/helpers.go): a tree of named steps, and the paths that address *)
(* the nodes of that tree.                                                 *)
(*                                                                         *)
(* The tree is flattened.  A step is a member of Step, Def[s] is its       *)
(* record, and a scope (the top level, a branch path, a repeat body) is a  *)
(* sequence of steps.  A step occurs in one scope only, so a step name is  *)
(* unique in the whole tree; the code asks that of one scope only, and     *)
(* tells equal names in two scopes apart by their paths, as we do.         *)
(*                                                                         *)
(* A path alternates steps with the choice made below each of them: the    *)
(* key of a branch path, or the number of a repeat's iteration.  The code  *)
(* writes that number in decimal; here it stays a number.                  *)
(***************************************************************************)
EXTENDS Integers, Sequences, FiniteSets, SequencesExt

CONSTANTS
  Step,   \* the steps of the pipeline
  Key,    \* the names of branch paths
  Root,   \* the top-level scope
  Def     \* Def[s]: what the step s is

Kind == {"action", "poll", "branch", "repeat"}

Segment == Step \cup Key \cup Nat
Path == Seq(Segment)

-----------------------------------------------------------------------------
(* The constructors of helpers.go, with every option explicit.             *)

NoStep == [kind          |-> "action",
           onEnter       |-> FALSE,   \* has an OnEnter hook
           compensate    |-> FALSE,   \* has a Compensate callback
           attempts      |-> 1,       \* RetryConfig.MaxAttempts
           maxDuration   |-> 0,       \* of a poll or a repeat; 0 is no limit
           paths         |-> <<>>,    \* of a branch: key -> scope
           body          |-> <<>>,    \* of a repeat: one scope
           maxIterations |-> 0,       \* of a repeat; 0 is no limit
           compact       |-> FALSE]   \* of a repeat: RepeatHistoryCompact

Action(compensate, attempts) ==
  [NoStep EXCEPT !.compensate = compensate, !.attempts = attempts]

Poll(maxDuration) ==
  [NoStep EXCEPT !.kind = "poll", !.maxDuration = maxDuration]

Branch(paths) ==
  [NoStep EXCEPT !.kind = "branch", !.paths = paths]

Repeat(body, maxIterations, maxDuration, compact) ==
  [NoStep EXCEPT !.kind = "repeat", !.body = body,
                 !.maxIterations = maxIterations,
                 !.maxDuration = maxDuration, !.compact = compact]

WithOnEnter(def) == [def EXCEPT !.onEnter = TRUE]

-----------------------------------------------------------------------------
(* validateSteps and findCompensatorPath.                                  *)

\* The steps directly below s.
Children(s) ==
  Range(Def[s].body) \cup UNION {Range(Def[s].paths[k]) : k \in DOMAIN Def[s].paths}

\* All steps below s: the least set that holds its children and theirs.
Below(s) ==
  {t \in Step : \A C \in SUBSET Step :
      Children(s) \subseteq C /\ (\A u \in C : Children(u) \subseteq C) => t \in C}

ScopeOK(steps) == \A i, j \in DOMAIN steps : steps[i] = steps[j] => i = j

StepOK(d) ==
  /\ d.kind \in Kind
  /\ d.onEnter \in BOOLEAN /\ d.compensate \in BOOLEAN /\ d.compact \in BOOLEAN
  /\ d.attempts \in Nat \ {0}
  /\ d.maxDuration \in Nat /\ d.maxIterations \in Nat
  /\ d.body \in Seq(Step) /\ ScopeOK(d.body)
  /\ DOMAIN d.paths \subseteq Key
  /\ \A k \in DOMAIN d.paths : d.paths[k] \in Seq(Step) /\ ScopeOK(d.paths[k])
  /\ (d.kind = "branch") <=> (DOMAIN d.paths # {})

\* A repeat with compact history discards the journal of its iterations, so
\* nothing below it may have a compensator.
CompactOK(s) ==
  Def[s].compact => \A t \in Below(s) : ~Def[t].compensate

ASSUME DefinitionAssumption ==
  /\ Root \in Seq(Step) /\ Root # <<>> /\ ScopeOK(Root)
  /\ \A s \in Step : StepOK(Def[s]) /\ CompactOK(s)

-----------------------------------------------------------------------------
(* Helpers on scopes and on journals.                                      *)

\* Mutations of ResumeIndex: starting the scope over, and going on after the step
\* that the path names.
ResumeIndexFirst(steps, path, d) == 1

ResumeIndexNext(steps, path, d) ==
  IF d <= Len(path) /\ (\E j \in DOMAIN steps : steps[j] = path[d])
    THEN 1 + CHOOSE j \in DOMAIN steps : steps[j] = path[d]
    ELSE 1

\* The position at which a scope resumes: that of the step the path names at
\* depth d, the first one if it names none (findTopLevelIndex and the loops
\* over the children in executeBranch and executeRepeat).
ResumeIndex(steps, path, d) ==
  IF d <= Len(path) /\ (\E j \in DOMAIN steps : steps[j] = path[d])
    THEN CHOOSE j \in DOMAIN steps : steps[j] = path[d]
    ELSE 1

\* The k-th smallest member of a set of positions, and the subsequence of s at
\* the positions K.  (SelectSeq is recursive, which the proofs cannot unfold.)
Nth(K, k) == CHOOSE i \in K : Cardinality({j \in K : j <= i}) = k

Subsequence(s, K) == [k \in 1..Cardinality(K) |-> s[Nth(K, k)]]
=============================================================================
