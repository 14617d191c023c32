SPECIFICATION Spec
CONSTANTS
  Children = {c1, c2}
  Jobs = {j1}
  Kids <- OneJob
  Terms <- Same
  Workers = {w1}
  Answers = {}
  MaxAttempts = 2
  MaxFaults = 2
  Lateness = {FALSE}
  CountRequests = TRUE
  MaxRequests = 2
  None = None
  c1 = c1
  c2 = c2
  j1 = j1
  j2 = j2
INVARIANTS
  ConfirmedOwn
CHECK_DEADLOCK FALSE
