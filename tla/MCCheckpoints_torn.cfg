SPECIFICATION Spec
CONSTANTS
  Proc = {p1}
  None = None
  Takeovers = {}
  MaxEvents = 2
  MaxFaults = 2
INVARIANT PointerWhole
CHECK_DEADLOCK FALSE
