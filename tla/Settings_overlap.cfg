SPECIFICATION Spec
CONSTANTS
  q1 = q1
  q2 = q2
  q3 = q3
  bad = bad
  price = price
  period = period
  listen = listen
  Patch <- Patches2
  Field = {price, period}
  Sets <- PatchSets
  Invalid = {}
  Overridden = {}
  Workers = 2
  Faults = FALSE
CHECK_DEADLOCK FALSE
INVARIANTS
  SavedSurvives
