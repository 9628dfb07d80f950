CONSTANTS
  c1 = c1  c2 = c2  c3 = c3  c4 = c4
  Client = {c1, c2, c3, c4}
  Program <- ShutdownProgram
  Ticker = ticker
  Leading = TRUE
  MaxFinishing = 2
SPECIFICATION FairSpec
INVARIANTS NoOverlap QuietAfterWait NoMisuse
PROPERTIES WaitReturns
