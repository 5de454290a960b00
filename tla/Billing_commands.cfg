SPECIFICATION FairSpec
CONSTANTS
  Client = {"w1", "w2"}
  RealPayment = {"w1"}
  BackupOf <- OneBackup
  RoundId <- RoundNames
  Backup = {"b1"}
  NoNote = NoNote
  RandomId = {x1, x2}
  MaxEvents = 1
  MaxRounds = 2
INVARIANTS RevenueIsProved SaidMatchesProvider
PROPERTIES WatchEventIsRecorded
CHECK_DEADLOCK FALSE
