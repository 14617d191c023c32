SPECIFICATION Spec
CONSTANTS
  Children = {c1, c2}
  Jobs = {j1}
  Kids <- OneJob
  Terms <- Different
  Workers = {w1, w2}
  Answers = {"conflict"}
  MaxAttempts = 1
  MaxFaults = 1
  Lateness = {FALSE}
  CountRequests = TRUE
  MaxRequests = 2
  None = None
  c1 = c1
  c2 = c2
  j1 = j1
  j2 = j2
INVARIANTS
  OneSend
  SendsTraceable
  ConfirmedOwn
  FailedIsFinal
SYMMETRY AnyWorker
CHECK_DEADLOCK FALSE
