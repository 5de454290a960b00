SPECIFICATION Spec
CONSTANTS
  c1 = c1
  c2 = c2
  c3 = c3
  f1 = f1
  f2 = f2
  f3 = f3
  b1 = b1
  b2 = b2
  Backup = {b1, b2}
  File = {f1, f2, f3}
  Command = {c1, c2, c3}
  FileOf <- Files
  IdOf <- Ids
  Opaque = {c3}
  Verifier = {w1}
  MaxEdits = 1
  Slots = 2
  Kills = TRUE
CHECK_DEADLOCK FALSE
INVARIANTS
  EntryDescribesItsUpload
  FailureHasCause
  RestoreMatchesLedger
  LostOnlyToOverlap
