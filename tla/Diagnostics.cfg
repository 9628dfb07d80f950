CONSTANTS
  Naming <- Names
  MaxIterations = 2
  MaxFaults = 1
  MaxTime = 1
  None = None
SPECIFICATION Spec
INVARIANTS DiagnosticsTrue AttemptsConserved
