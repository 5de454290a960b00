SPECIFICATION Spec
CONSTANTS
  u1 = u1
  u2 = u2
  u3 = u3
  s1 = s1
  s2 = s2
  Upload <- Uploads3
  Series = {s1, s2}
  Reader = {r1}
  NoBytes = NoBytes
  MaxVersion = 3
  Backend = "vss"
  Faults = TRUE
SYMMETRY Symmetry3
INVARIANTS
  VersionsIntact
  ListedIsSeedable
  ManifestWriteNeverConflicts
  ChallengeAnswersListedBytes
PROPERTIES
  ImplementsArchive
