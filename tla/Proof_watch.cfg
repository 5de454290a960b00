SPECIFICATION CoreSpec
CONSTANTS
  Byte = {0, 1}
  MaxLen = 3
  MaxRange = 2
  NRanges = 2
  Rounds = 2
  OtherRanges <- OddRanges
  MiB = 2
  Prices = {1, 5}
  Word = 8192
  File = {"state", "note"}
  Lookalike = {"note"}
  Pass = {"pw1", "pw2"}
  NoPass = "nopass"
  Salt = {1, 2}
  MaxSeals = 2
  Trackers <- TrackerLists
  PieceLength = 2
CHECK_DEADLOCK FALSE
INVARIANTS
  RangesInFile
  PaidOnlyIfStored
  PaymentCoversPrice
  RestoreUndoesBackup
  SamePassphraseSucceeds
  MetainfoDescribesFile
