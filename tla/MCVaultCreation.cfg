SPECIFICATION CreationSpec
CONSTANTS
  alice = alice
  bob = bob
  admin = admin
  c1 = c1
  c2 = c2
  s1 = s1
  s2 = s2
  s3 = s3
  s4 = s4
  USDC = USDC
  SOL = SOL
  NoKey = NoKey
  Users = {alice, bob}
  Admins = {admin, bob}
  Configs = {c1, c2}
  Strategies = {s1, s2, s3, s4}
  Mints = {USDC, SOL}
  CreatorOf <- MCCreatorOf
  ConfigOf <- MCConfigOf
  LegMint <- MCLegMint
  ProtocolFees = {0, 1, 2}
  PerformanceFees = {0, 2}
  Percentages = {1, 3, 4, 6, 10}
  CreateAmounts = {0, 1, 2}
  Prices = {1}
  Ranges = {"inside"}
  InitialWallet <- MCInitialWallet
  HIGH_FEES = 1
  U64_MAX = 120
  MAX_NUM_STRATEGIES = 2
  MAX_SWAP_TO_RATIO = 2
  MIN_PERCENTAGE = 3
  MAX_PERCENTAGE = 10
  MIN_PERFORMANCE_FEE = 1
  MAX_PERFORMANCE_FEE = 10
  MIN_REMOVE_PERCENTAGE = 1
  MAX_REMOVE_PERCENTAGE = 10
  DENOMINATOR_MULTIPLIER = 100
INVARIANTS
  CreationTypeOK
  AllocationBounded
  ActiveFullyAllocated
  RegistryAgrees
  InvestmentDivides
PROPERTIES
  ActiveConfigFrozen
