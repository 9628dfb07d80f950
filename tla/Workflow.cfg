CONSTANTS
  Instance = {w1, w2}
  Stage = {"main", "empty", "undo"}
  Step <- MCStep
  Stages <- MCStages
  StepsOf <- MCStepsOf
  MaxRetries <- MCMaxRetries
  FinishWorkflow = {"send"}
  ControlFlow <- MCControlFlow
  Jumps <- MCJumps
  Suspends = {"make"}
  CompensationStage = "undo"
  CompensationStep = "revert"
  None = None
  HooksFail = TRUE
  MaxRuns = 3
SYMMETRY Symmetric
SPECIFICATION Spec
INVARIANTS CompletedOnce NothingForgotten
PROPERTIES CompensationFirst
