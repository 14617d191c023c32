SPECIFICATION FairSpec
CONSTANTS
  Children = {c1}
  Jobs = {j1}
  Kids <- OneKid
  Terms <- Different
  Workers = {w1}
  Answers = {"unavailable", "rejected", "conflict"}
  MaxAttempts = 2
  MaxFaults = 2
  Lateness = {TRUE, FALSE}
  CountRequests = FALSE
  MaxRequests = 0
  None = None
  c1 = c1
  c2 = c2
  j1 = j1
  j2 = j2
PROPERTIES
  RevokedStaysUnsent
  OutcomeFound
CHECK_DEADLOCK FALSE
