SPECIFICATION Spec
CONSTANTS
  q1 = q1
  q2 = q2
  q3 = q3
  bad = bad
  price = price
  period = period
  listen = listen
  Patch <- Patches4
  Field = {price, period, listen}
  Sets <- PatchSets
  Invalid = {bad}
  Overridden = {listen}
  Workers = 1
  Faults = TRUE
INVARIANTS
  ConfigFileWhole
  SavedSurvives
  AnsweredIsInEffect
