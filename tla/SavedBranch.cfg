CONSTANTS
  sa = sa  sb = sb  sc = sc  sd = sd  se = se
  sf = sf  sg = sg  sh = sh  si = si
  x = x  y = y
  w1 = w1  w2 = w2
  Step <- BranchSteps
  Root <- BranchRoot
  Def <- BranchDef
  Key = {x, y}
  Worker = {w1}
  Mode = "plain"
  CallerSaves = TRUE
  MaxFaults = 1
  MaxTime = 0
SPECIFICATION Spec
INVARIANT NothingSkipped
