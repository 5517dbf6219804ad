CONSTANTS
  c1 = c1
  c2 = c2
  Coord = {c1, c2}
  TTL = 5
  Skew = 1
  Drift = 1
  MaxToken = 3
  ProbeErrs = TRUE
  LossReports = TRUE
SPECIFICATION Spec
SYMMETRY Perms
INVARIANTS Fenced TokensDistinct
PROPERTIES AdmittedUnsuperseded
CHECK_DEADLOCK FALSE
