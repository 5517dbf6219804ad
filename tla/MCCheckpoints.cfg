SPECIFICATION Spec
CONSTANTS
  Proc = {p1, p2}
  None = None
  Takeovers = {3}
  MaxEvents = 3
  MaxFaults = 2
SYMMETRY Symmetry
INVARIANT AlarmsJustified
INVARIANT PointerResolves
PROPERTY RecoveredIsJournal
CHECK_DEADLOCK FALSE
