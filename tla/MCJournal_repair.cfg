CONSTANTS
  p1 = p1
  p2 = p2
  d1 = d1
  d2 = d2
  d3 = d3
  Proc = {p1, p2}
  Draft = {d1, d2, d3}
  SegmentCap = 1
  MaxFaults = 2
  PowerLoss = FALSE
SPECIFICATION Spec
SYMMETRY Perms
INVARIANTS AckedSurvives
CHECK_DEADLOCK FALSE
