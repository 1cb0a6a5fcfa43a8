CONSTANTS
  MaxEvents = 3
  MaxBuffer = 2
  MaxPending = 2
  MaxPoison = 3
  Throws = {}
  ThrowsLate = {}
  MaxFaults = 0
  MaxRestarts = 1
SPECIFICATION Spec
INVARIANT
  ShowsPrefix
CHECK_DEADLOCK FALSE
