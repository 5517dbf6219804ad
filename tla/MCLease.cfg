CONSTANTS
  c1 = c1
  c2 = c2
  Coord = {c1, c2}
  TTL = 5
  Skew = 1
  Drift = 1
  MaxToken = 3
  ProbeErrs = FALSE
  LossReports = FALSE
SPECIFICATION LiveSpec
INVARIANTS EffectsExclusive
PROPERTIES TakenOver
CHECK_DEADLOCK FALSE
