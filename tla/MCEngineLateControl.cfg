CONSTANTS
  s1 = s1
  e1 = e1
  e2 = e2
  x1 = x1
  x2 = x2
  a1 = a1
  nx1 = nx1
  nx2 = nx2
  na1 = na1
  cs = cs
  cx = cx
  ca = ca
  cnx1 = cnx1
  cnx2 = cnx2
  cna1 = cna1
  t1 = t1
  t2 = t2
  NoRequest = NoRequest
  Request = {x1, x2, nx1, nx2}
  Command = {cx, cnx1, cnx2}
  Thread = {t1, t2}
  CommandOf <- MCCommandOf
  AggregateOf <- OneThread
  KindOf <- MCKindOf
  NoticeOf <- MCNoticeOf
  ShutdownWork = {}
  MaxFailures = 0
  MaxForeigners = 0
SPECIFICATION Spec
INVARIANTS
  NotSentIsNotSent
CHECK_DEADLOCK FALSE
