CONSTANTS
  Instance = {w1}
  Stage = {"main", "empty", "undo"}
  Step <- MCStep
  Stages <- MCStages
  StepsOf <- MCStepsOf
  MaxRetries <- MCMaxRetries
  FinishWorkflow = {"send"}
  ControlFlow <- MCControlFlow
  Jumps <- NoJumps
  Suspends = {}
  CompensationStage = "undo"
  CompensationStep = "revert"
  None = None
  HooksFail = FALSE
  MaxRuns = 3
SPECIFICATION Spec
PROPERTIES ResumesWhereItStopped
