CONSTANTS
  p1 = p1
  p2 = p2
  d1 = d1
  d2 = d2
  d3 = d3
  Proc = {p1, p2}
  Draft = {d1, d2}
  SegmentCap = 1
  MaxFaults = 3
  PowerLoss = FALSE
SPECIFICATION LiveSpec
INVARIANTS AckedKept OneChain AppendedOnce HeadsOnChain
PROPERTIES ImplementsContract SealedUntouched EventuallyJournaled
CHECK_DEADLOCK FALSE
