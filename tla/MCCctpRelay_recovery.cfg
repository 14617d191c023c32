SPECIFICATION FairSpec
CONSTANTS
  Execs = {e1, e2}
  Domains = {"base"}
  Hashes = {b1, b2}
  Digests = {d1}
  Callers = {c1}
  Sweepers = {s2}
  Procs = {p1, p2}
  Messages = {m1}
  Attestations = {a1}
  CountFaults = TRUE
  MaxFaults = 1
  ProcOf <- SlotsOf
  None = None
  p1 = p1
  p2 = p2
  c1 = c1
  c2 = c2
  s1 = s1
  s2 = s2
PROPERTIES
  RowsSettle
