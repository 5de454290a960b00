SPECIFICATION FairListSpec
CONSTANTS
  s1 = s1
  s2 = s2
  Upload = {u1, u2}
  Series = {s1, s2}
  IdOrder <- TwoIds
  NameOrder <- TwoNames
  Reader = {}
  NoBytes = NoBytes
  MaxVersion = 2
  Backend = "vss"
  Faults = TRUE
  Lister = {r1}
  PageSize = 2
  MaxTime = 2
INVARIANTS QuiescentSeriesIsWritable ListingIsComplete ListedByNewestUpload
PROPERTIES ConflictMeansAnotherWon ListingEnds
CHECK_DEADLOCK FALSE
