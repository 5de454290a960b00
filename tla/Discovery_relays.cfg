SPECIFICATION Spec
CONSTANTS
  p1 = p1
  r1 = r1
  r2 = r2
  Provider = {p1, p2}
  Request = {a1, a2}
  By <- Servers
  Relays <- RelayOrder
  Stray <- StrayEvents
  Foreign = {a2}
  MaxTime = 1
  MaxTerms = 1
CHECK_DEADLOCK FALSE
INVARIANTS
  NewestIsKept
  AcceptedIsFound
  ShownWasAnnounced
