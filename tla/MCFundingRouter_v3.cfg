SPECIFICATION Spec
CONSTANTS
  Owners = {o1}
  Salts = {s1, s2}
  Execs = {e1, e2}
  Tokens = {"usdc"}
  Targets = {"vault", "messenger"}
  Routes = {"base"}
  NoRoute = NoRoute
  None = None
  Inits <- MCVaultInits
  Amounts = {1, 2}
  Budgets = {1, 2}
  Expiries = {2}
  InitialBalance = 3
  Unlimited = 100
  Quotes = {1}
  LedgerSecs = 2
  CloseTimes = {1, 2}
  MaxAhead = 2
  ApproveTtl = 1
  TtlBuffer = 1
  MaxTtl = 6
  ExitSalts = {}
  MaxSweep = 0
  MaxSeq = 2
SYMMETRY MCSymmetry
INVARIANTS
  TypeOK
  BudgetBound
  CeilingBound
  RunsBoundSpend
  AllowanceOutlastsScope
PROPERTIES
  PermissionMonotone
CHECK_DEADLOCK FALSE
