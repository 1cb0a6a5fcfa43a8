CONSTANTS
  o1 = o1
  o2 = o2
  o3 = o3
  c1 = c1
  c2 = c2
  NoOwner = NoOwner
  Item <- MCItem
  Control <- MCControl
  Bytes <- MCBytes
  OrdinaryEntries = 2
  OrdinaryBytes = 2
  ControlEntries = 1
SPECIFICATION Spec
INVARIANTS
  TypeOK
  Bounded
  AccountingExact
  NoLostWakeup
PROPERTIES
  ControlsAreTaken
CHECK_DEADLOCK FALSE
