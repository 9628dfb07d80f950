------------------------------- MODULE MCPipeline -------------------------------
(***************************************************************************)
(* Small pipelines for TLC.  Each stands for a class of definitions and is *)
(* named in the configuration that checks it.                              *)
(***************************************************************************)
EXTENDS PipelineProperties

CONSTANTS
  sa, sb, sc, sd, se, sf, sg, sh, si,   \* steps
  x, y,                                 \* path keys
  w1, w2                                \* workers

\* A branch in a branch, and paths without steps.
BranchRoot == <<sa, sb, sf>>
BranchDef ==
  sa :> Action(TRUE, 1)
  @@ sb :> Branch(x :> <<sc, sd>> @@ y :> <<>>)
  @@ sc :> Action(TRUE, 1)
  @@ sd :> WithOnEnter(Branch(x :> <<se>>))
  @@ se :> Action(TRUE, 1)
  @@ sf :> Action(FALSE, 1)
BranchSteps == DOMAIN BranchDef

\* A repeat of two compensable actions, then one with compact history, below a
\* branch and around a branch and another repeat.
RepeatRoot == <<sa, sd>>
RepeatDef ==
  sa :> Repeat(<<sb, sc>>, 2, 0, FALSE)
  @@ sb :> Action(TRUE, 1)
  @@ sc :> Action(TRUE, 1)
  @@ sd :> Branch(x :> <<se>>)
  @@ se :> Repeat(<<sf, sh>>, 2, 0, TRUE)
  @@ sf :> Branch(x :> <<sg>> @@ y :> <<>>)
  @@ sg :> Action(FALSE, 1)
  @@ sh :> Repeat(<<si>>, 2, 0, FALSE)
  @@ si :> Action(FALSE, 1)
RepeatSteps == DOMAIN RepeatDef

\* A repeat with a deadline and a hook, around a poll with a deadline and an
\* action that is retried.
TimedRoot == <<sa, sb>>
TimedDef ==
  sa :> Action(TRUE, 1)
  @@ sb :> WithOnEnter(Repeat(<<sc, sd>>, 3, 3, FALSE))
  @@ sc :> Poll(2)
  @@ sd :> Action(TRUE, 2)
TimedSteps == DOMAIN TimedDef
=============================================================================
