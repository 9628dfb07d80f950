CONSTANTS
  sa = sa  sb = sb  sc = sc  sd = sd  se = se
  sf = sf  sg = sg  sh = sh  si = si
  x = x  y = y
  w1 = w1  w2 = w2
  Step <- RepeatSteps
  Root <- RepeatRoot
  Def <- RepeatDef
  Key = {x, y}
  Worker = {w1}
  Mode = "plain"
  CallerSaves = FALSE
  MaxFaults = 2
  MaxTime = 0
SPECIFICATION Spec
INVARIANTS EffectsFollowJournal AtMostOneOrphan NeverReexecuted NothingSkipped JournalOrdered HistoryCompacted Attribution
PROPERTIES FailureKeepsItsPath
