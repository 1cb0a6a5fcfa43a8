CONSTANTS
  a1 = a1
  a2 = a2
  s1 = s1
  t1 = t1
  Delivery = {a1, s1}
  Thread = {t1}
  ThreadOf <- Home
  CreatedAt <- Stamp
  Steer = {s1}
  MaxAttempts = 2
  StartSlots = 1
  SteerSlots = 1
  MaxStops = 0
  MaxRestarts = 1
  MaxRetries = 1
  MaxFaults = 0
SPECIFICATION Spec
INVARIANTS
  TypeOK
  AtMostOnce
  UnsentMeansUnsent
PROPERTIES
  ImplementsContract
CHECK_DEADLOCK FALSE
