SPECIFICATION Spec
CONSTANTS
  Upload = {u1, u2, u3, u4}
  BasePort = 1
  MaxPort = 2
  MaxStarts = 2
CHECK_DEADLOCK FALSE
INVARIANTS
  PortsDifferUnlessRaced
  PanicsOnlyAtPortLimit
  OneStatusPerSeed
