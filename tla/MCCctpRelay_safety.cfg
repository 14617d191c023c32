SPECIFICATION Spec
CONSTANTS
  Execs = {e1, e2}
  Domains = {"stellar"}
  Hashes = {b1}
  Digests = {d1, d2}
  Callers = {c1, c2}
  Sweepers = {s1, s2}
  Procs = {p1, p2}
  Messages = {m1, m2}
  Attestations = {a1, a2}
  CountFaults = FALSE
  MaxFaults = 0
  ProcOf <- SlotsOf
  None = None
  p1 = p1
  p2 = p2
  c1 = c1
  c2 = c2
  s1 = s1
  s2 = s2
SYMMETRY Interchangeable
INVARIANTS
  AtMostOneSubmission
  CanonicalRecords
  VerdictsTrue
  DepositsBacked
  SubmittedEvidenceKept
PROPERTIES
  TerminalStable
  ImplementsLedger
