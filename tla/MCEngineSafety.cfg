CONSTANTS
  s1 = s1
  e1 = e1
  e2 = e2
  x1 = x1
  x2 = x2
  a1 = a1
  nx1 = nx1
  nx2 = nx2
  na1 = na1
  cs = cs
  cx = cx
  ca = ca
  cnx1 = cnx1
  cnx2 = cnx2
  cna1 = cna1
  t1 = t1
  t2 = t2
  NoRequest = NoRequest
  Request = {e1, e2, s1, x1, nx1}
  Command = {cs, cx, cnx1}
  Thread = {t1, t2}
  CommandOf <- MCCommandOf
  AggregateOf <- TwoThreads
  KindOf <- MCKindOf
  NoticeOf <- MCNoticeOf
  ShutdownWork = {e2}
  MaxFailures = 1
  MaxForeigners = 0
SPECIFICATION Spec
INVARIANTS
  TypeOK
  CommittedOnce
  ReadModelKeepsUp
  NotSentIsNotSent
  NoSlotLeaks
  AnswersTellTheTruth
PROPERTIES
  StopSupersedes
CHECK_DEADLOCK FALSE
