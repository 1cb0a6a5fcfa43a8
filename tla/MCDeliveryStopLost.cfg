CONSTANTS
  a1 = a1
  a2 = a2
  s1 = s1
  t1 = t1
  Delivery = {a1}
  Thread = {t1}
  ThreadOf <- Home
  CreatedAt <- Stamp
  Steer = {}
  MaxAttempts = 2
  StartSlots = 1
  SteerSlots = 1
  MaxStops = 1
  MaxRestarts = 1
  MaxRetries = 0
  MaxFaults = 0
SPECIFICATION Spec
PROPERTY
  StoppedStaysStopped
CHECK_DEADLOCK FALSE
