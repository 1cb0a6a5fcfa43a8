CONSTANTS
  MaxEvents = 4
  MaxBuffer = 2
  MaxPending = 2
  MaxPoison = 3
  Throws = {2, 3}
  ThrowsLate = {4}
  MaxFaults = 2
  MaxRestarts = 1
SPECIFICATION Spec
INVARIANTS
  TypeOK
  ShowsPrefixOfOneServer
  NothingMissed
  NeverStranded
PROPERTY
  CatchesUp
CHECK_DEADLOCK FALSE
