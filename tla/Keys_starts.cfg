SPECIFICATION Spec
CONSTANTS
  Process = {s1, s2, s3}
  Secrets <- ServerSecrets
  Configured = {"nostr.key"}
  Hex = {"vss.key", "nostr.key"}
  Binds = TRUE
INVARIANTS OneIdentity StartFailureHasCause
PROPERTIES SettledSecretsStay
CHECK_DEADLOCK FALSE
