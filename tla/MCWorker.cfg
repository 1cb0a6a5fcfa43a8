CONSTANTS
  k1 = k1
  k2 = k2
  b1 = b1
  n1 = n1
  c1 = c1
  big = big
  ka = ka
  kb = kb
  NoKey = NoKey
  None = None
  Request = {k1, k2, b1, n1, c1, big}
  Offer = {k1}
  SelfNotify = {n1}
  ControlRequest = {c1}
  Key = {ka, kb}
  KeyOf <- MCKeyOf
  RevisionOf <- MCRevisionOf
  SizeOf <- MCSizeOf
  Drainer = {"drain", "close"}
  Closer = {"close"}
  MaxEntries = 2
  MaxBytes = 2
  ControlEntries = 1
  RejectWhenFull = FALSE
SPECIFICATION Spec
INVARIANTS
  TypeOK
  AccountingExact
  NothingLost
  DrainIsComplete
PROPERTIES
  EveryoneReturns
CHECK_DEADLOCK FALSE
