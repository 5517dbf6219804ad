CONSTANTS
  s1 = s1
  s2 = s2
  c1 = c1
  c2 = c2
  None = None
  SendOps = {s1, s2}
  CancelOps = {c1}
  MaxFaults = 2
SPECIFICATION LiveSpec
INVARIANTS PromptedOnce AnswersTrue
PROPERTIES EndedTurnKnown
CHECK_DEADLOCK FALSE
