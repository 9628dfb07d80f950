CONSTANTS
  charge = charge  check = check  deliver = deliver  ship = ship
  audit = audit  pay = pay  send = send
  Worker = {w1, w2}
  Release = {1, 2, 3}
  Def <- Definitions
  Name = {charge, check, deliver, ship}
  Operation = {audit, pay, send}
  NoName = none
  MaxFaults = 3
SPECIFICATION FairSpec
INVARIANTS NeverRepeated RollbackUndoes
PROPERTIES NoWayBack RunEnds
