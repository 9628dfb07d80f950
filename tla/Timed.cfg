CONSTANTS
  sa = sa  sb = sb  sc = sc  sd = sd  se = se
  sf = sf  sg = sg  sh = sh  si = si
  x = x  y = y
  w1 = w1  w2 = w2
  Step <- TimedSteps
  Root <- TimedRoot
  Def <- TimedDef
  Key = {x, y}
  Worker = {w1}
  Mode = "plain"
  CallerSaves = FALSE
  MaxFaults = 2
  MaxTime = 4
SPECIFICATION FairSpec
INVARIANTS PollWindowOwned
PROPERTIES NoForwardAfterRollback ImplementsSaga RepeatDeadlineFixed PollDeadlineFixed Termination
