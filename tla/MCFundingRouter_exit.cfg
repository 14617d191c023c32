SPECIFICATION Spec
CONSTANTS
  Owners = {o1, o2}
  Salts = {s1}
  Execs = {e1}
  Tokens = {"usdc"}
  Targets = {"vault", "messenger"}
  Routes = {"base"}
  NoRoute = NoRoute
  None = None
  Inits <- MCTwoKinds
  Amounts = {1}
  Budgets = {1}
  Expiries = {1}
  InitialBalance = 1
  Unlimited = 100
  Quotes = {1, 2}
  LedgerSecs = 1
  CloseTimes = {1}
  MaxAhead = 0
  ApproveTtl = 1
  TtlBuffer = 1
  MaxTtl = 6
  ExitSalts = {s1}
  MaxSweep = 2
  MaxSeq = 1
SYMMETRY MCSymmetry
INVARIANTS
  OwnerConservation
  SweptStaysEmpty
PROPERTIES
  RevokedAgentInert
