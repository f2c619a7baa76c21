SPECIFICATION PositionSpec
CONSTANTS
  Q64 = 4
  TickPrice <- MCTickPrice
  U128_SPAN = 16
  U64_MAX = 2000
  tick_lower = 1
  tick_upper = 2
  Ticks = {0, 1, 2}
  Amounts = {1, 2, 4}
  Growths = {0, 1, 3}
  MAX_GROWTH = 5
  MAX_LIQUIDITY = 10
  USDC_AMOUNT = 20
  RATIO_SCALE = 100
  UsdPrices = {0, 1, 9, 35, 250}
  UsdInfos <- MCUsdInfos
  LowestExpo = 2
  TokenDecimals = {0, 1, 2}
  UsdDecimals = 1
INVARIANTS
  RatioFollowsValue
