SPECIFICATION FairSpec
CONSTANTS
  p1 = p1
  p2 = p2
  p3 = p3
  c1 = c1
  c2 = c2
  b1 = b1
  b2 = b2
  NoNote = NoNote
  Payment <- Payments3
  Claim <- Claims2
  Backup = {b1, b2}
  Note <- Notes
  Hashless = {p2}
  RandomId = {x1, x2}
  MaxEvents = 2
CHECK_DEADLOCK FALSE
INVARIANTS
  RecordedOnce
  RecordsAreReceived
  ClaimsMatchRecords
  LossHasCause
PROPERTIES
  QueuedIsRecorded
