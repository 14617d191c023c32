SPECIFICATION Spec
CONSTANTS
  Mandates = {m1, m2, m3}
  Procs = {p1}
  None = None
  Concurrency = 1
  MaxPending = 1
  MaxFaults = 1
  MaxExpired = 1
SYMMETRY Interchangeable
INVARIANTS
  ActivatedAtMostOnce
  TablesAgree
  PendingTracked
PROPERTIES
  NeverResurrected
