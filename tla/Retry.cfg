CONSTANTS
  Width = 6
  Second = 4
  Delay <- Delays
  MaxDelay <- Caps
  Limit <- Limits
SPECIFICATION FairSpec
INVARIANTS  CancelStops
PROPERTIES LoopReturns
