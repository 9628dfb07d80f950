CONSTANTS
  sa = sa  sb = sb  sc = sc  sd = sd  se = se
  sf = sf  sg = sg  sh = sh  si = si
  x = x  y = y
  w1 = w1  w2 = w2
  Step <- BranchSteps
  Root <- BranchRoot
  Def <- BranchDef
  Key = {x, y}
  Worker = {w1, w2}
  Mode = "cas"
  CallerSaves = FALSE
  MaxFaults = 2
  MaxTime = 0
SPECIFICATION FairSpec
INVARIANTS Lineage AtMostOneOrphan
PROPERTIES ImplementsSaga RollbackIsFinal
