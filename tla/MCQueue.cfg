CONSTANTS
  a = a
  b = b
  NoItem = NoItem
  Item = {a, b}
  IntentsOf <- Intents
  MaxAttempts = 2
  MaxCommands = 2
  MaxInterrupts = 1
  MaxDisturbances = 2
SPECIFICATION Spec
INVARIANTS
  TypeOK
  SentOnce
  LedgerTells
  PauseLetsOneGo
  SendOutlivesInterrupt
CHECK_DEADLOCK FALSE
