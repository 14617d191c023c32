SPECIFICATION Spec
CONSTANTS
  Holders = {h1}
  Strategies = {s1, s2}
  Vault = Vault
  Keepers = {k1}
  Authorities = {a1}
  Hashes = {x1, x2}
  Amounts = {1, 2, 3}
  PoolModes = {"open", "on_ice", "frozen", "broken"}
  Cooldowns = {0}
  MoveBps = {10000}
  MinOuts = {1}
  Emissions = {0, 2}
  Proceeds = {0, 1}
  Scalar = 2
  Rates = {0, 2, 3}
  InitialBalance = 3
  DeadShares = 1
  MinFirstDeposit = 2
  MaxStrategies = 2
  TimelockDelay = 1
  DefaultCooldown = 0
  DefaultMoveBps = 5000
  DefaultCompoundCooldown = 0
  MaxYield = 1
  MaxLost = 1
  MaxNow = 1
  None = None
SYMMETRY MCSymmetry
CONSTRAINT Corners
INVARIANTS
  DeadSharesLocked
  TokensConserved
  ExitsStayOpen
PROPERTIES
  NoDilution
  RescueHolds
  UpgradeAnnounced
CHECK_DEADLOCK FALSE
