SPECIFICATION Spec
CONSTANTS
  alice = alice
  bob = bob
  c1 = c1
  s1 = s1
  s2 = s2
  USDC = USDC
  SOL = SOL
  NoKey = NoKey
  Users = {alice, bob}
  Admins = {alice}
  Configs = {c1}
  Mints = {USDC, SOL}
  CreatorOf <- MCCreatorOf
  ConfigOf <- MCConfigOf
  LegMint <- MCLegMint
  InitialWallet <- MCInitialWallet
  ProtocolFees = {1}
  HIGH_FEES = 1
  MIN_PERCENTAGE = 1
  MAX_PERCENTAGE = 10
  MIN_PERFORMANCE_FEE = 1
  MAX_PERFORMANCE_FEE = 10
  MIN_REMOVE_PERCENTAGE = 1
  MAX_REMOVE_PERCENTAGE = 10
  DENOMINATOR_MULTIPLIER = 100
  Strategies = {s1}
  MAX_NUM_STRATEGIES = 2
  MAX_SWAP_TO_RATIO = 2
  Percentages = {10}
  PerformanceFees = {3}
  CreateAmounts = {3}
  Prices = {1}
  Ranges = {"inside"}
  CreatorWallet = 3
  InvestorWallet = 8
  U64_MAX = 1000
  Amounts = {4}
  RemovePercentages = {5, 10}
  Splits = {50}
  Slippages = {0}
  Fees = {}
  FeeAccruals <- MCFeeAccruals
  MaxFees = 0
INVARIANTS
  ActiveConfigCanPause
