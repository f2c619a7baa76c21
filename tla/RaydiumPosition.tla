---------------------------- MODULE RaydiumPosition ----------------------------
(***************************************************************************)
(* The position that one strategy holds in a Raydium pool, with the        *)
(* numbers that TokenizedVaults leaves open: what liquidity a deposit buys,*)
(* what the position is worth when USDC is split for it, and which fees    *)
(* are shared out when a removal collects them.  The pool is external: it  *)
(* moves its price, grows its counter of fees, flips a tick's counter when *)
(* the price crosses it, and settles fees and liquidity.  The program      *)
(* reads the same accounts and estimates what the pool will do.            *)
(***************************************************************************)
EXTENDS FeeGrowth

CONSTANTS
  tick_lower, tick_upper,   \* the ends of the position
  Ticks,                    \* ticks that the pool's price may be in
  Amounts,                  \* token amounts of a deposit
  Growths,                  \* how much the counter of fees grows at once
  MAX_GROWTH,               \* bound of the counter
  MAX_LIQUIDITY,            \* bound of the position's liquidity
  USDC_AMOUNT,              \* USDC that is split by the position's ratio
  RATIO_SCALE,              \* one, in the fixed point of the ratio
  UsdInfos,                 \* prices with their exponents that the feeds may give
  LowestExpo,               \* no exponent is below its negation
  TokenDecimals,            \* decimals of a token
  UsdDecimals               \* decimals of USD

ASSUME RaydiumPositionAssumption ==
  /\ DOMAIN TickPrice \subseteq Int
  /\ tick_lower \in DOMAIN TickPrice /\ tick_upper \in DOMAIN TickPrice
  /\ tick_lower < tick_upper
  /\ Ticks \subseteq DOMAIN TickPrice
  /\ \A t \in Ticks : t + 1 \in DOMAIN TickPrice
  /\ Amounts \subseteq Nat /\ Growths \subseteq Nat
  /\ MAX_GROWTH \in Nat /\ MAX_LIQUIDITY \in Nat
  /\ 2 * MAX_GROWTH < U128_SPAN

ASSUME UsdAssumption ==
  /\ UsdInfos \subseteq [price : Int, expo : Int]
  /\ LowestExpo \in Nat /\ \A info \in UsdInfos : info.expo + LowestExpo >= 0
  /\ TokenDecimals \subseteq Nat /\ UsdDecimals \in Nat

Usd == INSTANCE UsdValuation

VARIABLES
  tick, price,   \* where the pool is; price is TickPrice[tick] or above it
  growth,        \* fees per liquidity since the pool began
  outside,       \* end of the position -> its counter; NoTick before its first use
  position,      \* the personal position: liquidity, inside_last, fees_owed
  unshared       \* fees collected less fees shared out

positionVars == <<tick, price, growth, outside, position, unshared>>

Ends == {tick_lower, tick_upper}
NoTick == -1
NoPosition == [liquidity |-> -1, inside_last |-> 0, fees_owed |-> 0]
IsOpen == position # NoPosition
Tick(t) == [tick |-> t, outside |-> outside[t]]

-----------------------------------------------------------------------------
(* The pool.                                                               *)

PoolInit ==
  /\ tick \in Ticks
  /\ price = TickPrice[tick]
  /\ growth = 0
  /\ outside = [t \in Ends |-> NoTick]
  /\ position = NoPosition
  /\ unshared = 0

\* The counter of a tick that is used for the first time, by anyone.
FirstOutside(t) ==
  IF outside[t] # NoTick THEN outside[t] ELSE IF t <= tick THEN growth ELSE 0

\* Another holder's position uses an end of this one first.
UseTick(t) ==
  /\ outside[t] = NoTick
  /\ outside' = [outside EXCEPT ![t] = FirstOutside(t)]
  /\ UNCHANGED <<tick, price, growth, position, unshared>>

\* A swap pays fees and moves the price within its tick, ...
SwapWithin(p, g) ==
  /\ growth + g <= MAX_GROWTH
  /\ p # price \/ g > 0
  /\ price' = p
  /\ growth' = growth + g
  /\ UNCHANGED <<tick, outside, position, unshared>>

Crossed(t) ==
  [outside EXCEPT ![t] = IF @ = NoTick THEN NoTick ELSE growth - @]
CrossedAny(t) == IF t \in Ends THEN Crossed(t) ELSE outside

\* ... or crosses into the next tick: upwards at the start of that tick, ...
SwapUp ==
  /\ tick + 1 \in Ticks
  /\ tick' = tick + 1
  /\ price' = TickPrice[tick + 1]
  /\ outside' = CrossedAny(tick + 1)
  /\ UNCHANGED <<growth, position, unshared>>

\* ... downwards with the price left at the start of the tick it came from.
SwapDown ==
  /\ tick - 1 \in Ticks
  /\ tick' = tick - 1
  /\ price' = TickPrice[tick]
  /\ outside' = CrossedAny(tick)
  /\ UNCHANGED <<growth, position, unshared>>

\* What the pool itself takes the growth inside of the position for.
PoolInside(out) ==
  LET below == IF tick >= tick_lower THEN out[tick_lower] ELSE growth - out[tick_lower]
      above == IF tick < tick_upper THEN out[tick_upper] ELSE growth - out[tick_upper]
  IN  (((growth - below) % U128_SPAN) - above) % U128_SPAN

\* What the pool owes the position once it settles its fees.
PoolFees ==
  position.fees_owed
    + ((((PoolInside(outside) - position.inside_last) % U128_SPAN) * position.liquidity)
         \div Q64)

\* What the pool charges for liquidity.
PoolCharge(l) == GetDeltaAmountsSigned(tick, price, tick_lower, tick_upper, l)

-----------------------------------------------------------------------------
(* The instructions.                                                       *)

LiquidityFor(a) ==
  GetLiquidityFromAmounts(price, TickPrice[tick_lower], TickPrice[tick_upper], a[1], a[2])

\* The pool takes the amounts only when they are within the given maxima.
CanCharge(a) ==
  /\ LiquidityFor(a) > 0
  /\ PoolCharge(LiquidityFor(a))[1] <= a[1]
  /\ PoolCharge(LiquidityFor(a))[2] <= a[2]

\* create_raydium_vault_strategy opens the position, which uses its ticks.
OpenPosition(a, l) ==
  /\ ~IsOpen
  /\ CanCharge(a)
  /\ l = LiquidityFor(a)
  /\ outside' = [t \in Ends |-> FirstOutside(t)]
  /\ position' = [liquidity   |-> l,
                  inside_last |-> PoolInside(outside'),
                  fees_owed   |-> 0]
  /\ UNCHANGED <<tick, price, growth, unshared>>

\* add_liquidity adds what was swapped; the pool settles the fees first.
AddLiquidity(a, l) ==
  /\ IsOpen
  /\ CanCharge(a)
  /\ l = LiquidityFor(a)
  /\ position.liquidity + l <= MAX_LIQUIDITY
  /\ position' = [liquidity   |-> position.liquidity + l,
                  inside_last |-> PoolInside(outside),
                  fees_owed   |-> PoolFees]
  /\ UNCHANGED <<tick, price, growth, outside, unshared>>

\* The estimate of get_owed_fees, from the accounts as they are.
OwedFees ==
  GetRaydiumOwedFees(Tick(tick_lower), Tick(tick_upper), position, tick, growth)

\* Mutant: more than the position can be removed.
RemoveUnchecked(l) ==
  /\ IsOpen
  /\ position' = [liquidity   |-> position.liquidity - l,
                  inside_last |-> PoolInside(outside),
                  fees_owed   |-> 0]
  /\ unshared' = unshared + PoolFees - OwedFees
  /\ UNCHANGED <<tick, price, growth, outside>>

\* remove_liquidity estimates the fees, lets the pool pay them out, takes out
\* some of the liquidity, and shares out the estimate.
RemoveLiquidity(l) ==
  /\ IsOpen
  /\ l <= position.liquidity
  /\ InsideDefined(Tick(tick_lower), Tick(tick_upper), tick, growth)
  /\ position' = [liquidity   |-> position.liquidity - l,
                  inside_last |-> PoolInside(outside),
                  fees_owed   |-> 0]
  /\ unshared' = unshared + PoolFees - OwedFees
  /\ UNCHANGED <<tick, price, growth, outside>>

AmountPairs == Amounts \X Amounts

PositionNext ==
  \/ \E t \in Ends : UseTick(t)
  \/ \E p \in TickPrice[tick]..TickPrice[tick + 1], g \in Growths : SwapWithin(p, g)
  \/ SwapUp
  \/ SwapDown
  \/ \E a \in AmountPairs, l \in 1..MAX_LIQUIDITY : OpenPosition(a, l) \/ AddLiquidity(a, l)
  \/ \E l \in 1..MAX_LIQUIDITY : RemoveLiquidity(l)

PositionSpec == PoolInit /\ [][PositionNext]_positionVars

-----------------------------------------------------------------------------
(* How swap_to_ratio splits USDC, by the value of the position's tokens.   *)

PositionAmounts ==
  GetDeltaAmountsSigned(tick, price, tick_lower, tick_upper, -position.liquidity)

\* The code divides the amount of token 0 by the square of the price, over the
\* decimals of the mints, which are taken to be the same here.
WeightOfToken0 == PositionAmounts[1] * Q64 * Q64
WeightOfToken1 == PositionAmounts[2] * price * price
Ratio(w0, w1) == IF w0 + w1 = 0 THEN 0 ELSE (w0 * RATIO_SCALE) \div (w0 + w1)

CalcRatioAmounts ==
  LET amount_0 == (USDC_AMOUNT * Ratio(WeightOfToken0, WeightOfToken1)) \div RATIO_SCALE
  IN  <<amount_0, USDC_AMOUNT - amount_0>>

-----------------------------------------------------------------------------
(* Properties.                                                             *)

PositionTypeOK ==
  /\ tick \in Ticks
  /\ price \in TickPrice[tick]..TickPrice[tick + 1]
  /\ growth \in 0..MAX_GROWTH
  /\ outside \in [Ends -> {NoTick} \cup 0..MAX_GROWTH]
  /\ position = NoPosition
     \/ position \in [liquidity : 0..MAX_LIQUIDITY, inside_last : 0..U128_SPAN - 1,
                      fees_owed : Nat]
  /\ unshared \in Int

\* The counter of growth inside a range starts below zero when its upper end
\* was used before its lower end; it is then close to U128_SPAN.
Signed(x) == IF 2 * x >= U128_SPAN THEN x - U128_SPAN ELSE x

\* The holders never share more fees than the pool paid out: the estimate is
\* made before the pool settles, and the escrow it is paid from also holds what
\* other strategies of the config and earlier removals left there.
FeesBacked == unshared >= 0

\* A removal never aborts in the estimate, so that fees and liquidity can
\* always be taken out (the unwraps of checked_sub in get_fee_growth_inside).
EstimateNeverAborts ==
  IsOpen => InsideDefined(Tick(tick_lower), Tick(tick_upper), tick, growth)

\* Why it does not: a counter counts part of the pool's growth, and a position
\* is open only where both its ends are in use.
OutsideWithinGrowth ==
  \A t \in Ends : outside[t] <= growth /\ (IsOpen => outside[t] # NoTick)

\* The estimate is what the pool pays, but for the time when the counter of
\* growth inside passes from below zero to above it: then the comparison of
\* raydium_helpers.rs takes it for one that went back, and the removal leaves
\* its new fees in the escrow.
EstimateExactUnlessPastZero ==
  [][unshared' # unshared =>
       Signed(position.inside_last) < 0 /\ Signed(PoolInside(outside)) >= 0]_positionVars

\* No deposit is turned down for rounding: the liquidity that is asked for
\* costs no more of either token than was swapped, wherever the price is, so
\* that the pool's limits (amount_0_max, amount_1_max) never fail.
DepositsWithinMaxima ==
  \A a \in AmountPairs :
    /\ PoolCharge(LiquidityFor(a))[1] <= a[1]
    /\ PoolCharge(LiquidityFor(a))[2] <= a[2]

\* The position's tokens follow from the price alone, although the code picks
\* the side of the range by the pool's tick, which is one lower than the
\* price's own tick after a fall that stopped at the start of a tick.
AmountsFollowPrice ==
  LET a == TickPrice[tick_lower]
      b == TickPrice[tick_upper]
      p == IF price < a THEN a ELSE IF price > b THEN b ELSE price
  IN  IsOpen => PositionAmounts = <<GetDeltaAmount0(p, b, position.liquidity, FALSE),
                                    GetDeltaAmount1(a, p, position.liquidity, FALSE)>>

\* calc_ratio_amounts_for_usdc splits the USDC as the value of the position is
\* split: it takes the square of the price for what token 1 costs in token 0
\* and its inverse for "the price of token0 in terms of token1".  By the
\* formulas of liquidity_math.rs the square is the price of token 0 in token 1.
RatioFollowsValue ==
  LET value_0 == PositionAmounts[1] * price * price
      value_1 == PositionAmounts[2] * Q64 * Q64
      exact_0 == USDC_AMOUNT * Ratio(value_0, value_1)
  IN  IsOpen /\ position.liquidity > 0 =>
        /\ CalcRatioAmounts[1] * RATIO_SCALE <= exact_0 + RATIO_SCALE
        /\ exact_0 <= CalcRatioAmounts[1] * RATIO_SCALE + RATIO_SCALE

\* An amount's exact value and what its valuation may lose of it, both times
\* 10^LowestExpo * 10^decimals * 10^UsdDecimals: the amount and the price are cut
\* to the decimals of USD, and their product once more.
ExactValue(amount, info) ==
  amount * info.price * 10^(LowestExpo + info.expo) * 10^(2 * UsdDecimals)
LargestLoss(amount, decimals, info) ==
  (Usd!NormalizeTokenAmount(amount, decimals, UsdDecimals)
     + Usd!NormalizedPrice(info, UsdDecimals) + 10^UsdDecimals) * 10^(LowestExpo + decimals)

\* The amounts that a creator opens a position with are credited at no more
\* than they are worth at the update's price, and at less only by the rounding
\* of convert_amounts_to_usd, unless the price does not fit in a u64.
CreditWithinRounding ==
  \A a \in AmountPairs, info \in UsdInfos, decimals \in TokenDecimals, k \in {1, 2} :
    ~IsOpen /\ CanCharge(a) /\ Usd!CanConvert(a[k], decimals, info, UsdDecimals) =>
      LET credit == Usd!ConvertToUsd(a[k], decimals, info, UsdDecimals)
                      * 10^(LowestExpo + decimals + UsdDecimals)
      IN  /\ credit <= ExactValue(a[k], info)
          /\ Usd!NormalizedPrice(info, UsdDecimals) > 0 =>
               ExactValue(a[k], info) <= credit + LargestLoss(a[k], decimals, info)
==============================================================================
