SPECIFICATION ClientSpec
CONSTANTS
  alice = alice
  bob = bob
  c1 = c1
  s1 = s1
  s2 = s2
  USDC = USDC
  A = A
  B = B
  NoKey = NoKey
  Users = {alice, bob}
  Admins = {alice}
  Configs = {c1}
  Mints = {USDC, A, B}
  CreatorOf <- MCCreatorOf
  ConfigOf <- MCConfigOf
  LegMint <- MCLegMint
  InitialWallet <- MCInitialWallet
  ProtocolFees = {1}
  HIGH_FEES = 1
  MIN_PERCENTAGE = 1
  MAX_PERCENTAGE = 10
  MIN_PERFORMANCE_FEE = 1
  MAX_PERFORMANCE_FEE = 10
  MIN_REMOVE_PERCENTAGE = 10
  MAX_REMOVE_PERCENTAGE = 20
  DENOMINATOR_MULTIPLIER = 10
  Strategies = {s1, s2}
  MAX_NUM_STRATEGIES = 2
  MAX_SWAP_TO_RATIO = 2
  Percentages = {5}
  PerformanceFees = {3}
  CreateAmounts = {1}
  Prices = {1}
  Ranges = {"inside"}
  CreatorWallet = 0
  InvestorWallet = 8
  U64_MAX = 1000
  Amounts = {2}
  RemovePercentages = {2}
  Splits = {50}
  Slippages = {0}
  FeeAccruals <- MCFeeAccruals
  MaxFees = 1
  UsdcMint = USDC
  Token0Mint = B
  Token1Mint = A
  MintOrder <- MCMintOrder
  DEFAULT_TICK_LOWER <- MCDefaultTickLower
  DEFAULT_TICK_UPPER = 6
  TICKS_PER_ARRAY = 4
  LAMPORTS_PER_USDC = 2
  StrategyId <- MCStrategyId
  TickRanges <- MCTickRanges
  MAX_SESSIONS = 2
  IdlIsCommitted = FALSE
  TOTAL_RESERVED_AMOUNT = 10
  CLIENT_MAX_PERCENTAGE = 10
INVARIANTS
  NoSwapBetweenTransactions
  DerivedAccountsDistinct
  ClientAgreesWithIdl
  DefaultRangeServiceable
PROPERTIES
  LedgerSpec
  EscrowMovesAsAsked
