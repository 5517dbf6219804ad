CONSTANTS
  p1 = p1
  p2 = p2
  d1 = d1
  d2 = d2
  d3 = d3
  Proc = {p1}
  Draft = {d1, d2, d3}
  SegmentCap = 3
  MaxFaults = 4
  PowerLoss = TRUE
SPECIFICATION Spec
SYMMETRY Perms
INVARIANTS AckedReplayable
CHECK_DEADLOCK FALSE
