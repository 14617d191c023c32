SPECIFICATION FairKeeperSpec
CONSTANTS
  Holders = {h1}
  Strategies = {s1, s2}
  Vault = Vault
  Keepers = {k1}
  Authorities = {a1}
  Hashes = {}
  Amounts = {2}
  PoolModes = {"open", "frozen"}
  Cooldowns = {}
  MoveBps = {}
  MinOuts = {0}
  Emissions = {0}
  Proceeds = {0}
  InitialBalance = 2
  DeadShares = 1
  MinFirstDeposit = 2
  MaxStrategies = 2
  TimelockDelay = 1
  DefaultCooldown = 0
  DefaultMoveBps = 5000
  DefaultCompoundCooldown = 0
  Scalar = 1
  Rates = {}
  MaxYield = 0
  MaxLost = 0
  MaxNow = 0
  None = None
  Utils = {"low", "high"}
  Divs = {None}
  Liquidities = {None}
  Fickle = {s1}
  DropEngage = 3000
  AllClear = 2
CHECK_DEADLOCK FALSE
PROPERTIES
  TimelyTurns
  DangerRescued
