----------------------------- MODULE LiquidityMath -----------------------------
(***************************************************************************)
(* The formulas of liquidity_math.rs that the instructions use, with a     *)
(* fixed point Q64 and a table of the ticks' prices as parameters.  A      *)
(* price is a square root times Q64.  The products are exact: they are     *)
(* taken at twice the width of their factors in the code.                  *)
(***************************************************************************)
EXTENDS Integers

CONSTANTS
  Q64,         \* one, as a fixed point number
  TickPrice    \* tick -> get_sqrt_price_at_tick

ASSUME LiquidityMathAssumption ==
  /\ Q64 \in Nat \ {0}
  /\ TickPrice \in [DOMAIN TickPrice -> Nat \ {0}]
  /\ \A t, u \in DOMAIN TickPrice : t < u => TickPrice[t] < TickPrice[u]

MulDivFloor(val, num, denom) == (val * num) \div denom
MulDivCeil(val, num, denom) == (val * num + denom - 1) \div denom

\* Every formula swaps the two ends of a range that are in the wrong order.
Lesser(a, b) == IF a > b THEN b ELSE a
Greater(a, b) == IF a > b THEN a ELSE b

-----------------------------------------------------------------------------
(* The liquidity that amounts buy.                                         *)

GetLiquidityFromAmount0(sqrt_a, sqrt_b, amount_0) ==
  MulDivFloor(amount_0, MulDivFloor(sqrt_a, sqrt_b, Q64),
              Greater(sqrt_a, sqrt_b) - Lesser(sqrt_a, sqrt_b))

GetLiquidityFromAmount1(sqrt_a, sqrt_b, amount_1) ==
  MulDivFloor(amount_1, Q64, Greater(sqrt_a, sqrt_b) - Lesser(sqrt_a, sqrt_b))

\* Mutant: the more plentiful of the two tokens decides.
LiquidityOfPlenty(sqrt_price, sqrt_a, sqrt_b, amount_0, amount_1) ==
  LET a == Lesser(sqrt_a, sqrt_b)
      b == Greater(sqrt_a, sqrt_b)
  IN  IF sqrt_price <= a THEN GetLiquidityFromAmount0(a, b, amount_0)
      ELSE IF sqrt_price < b
      THEN Greater(GetLiquidityFromAmount0(sqrt_price, b, amount_0),
                   GetLiquidityFromAmount1(a, sqrt_price, amount_1))
      ELSE GetLiquidityFromAmount1(a, b, amount_1)

GetLiquidityFromAmounts(sqrt_price, sqrt_a, sqrt_b, amount_0, amount_1) ==
  LET a == Lesser(sqrt_a, sqrt_b)
      b == Greater(sqrt_a, sqrt_b)
  IN  IF sqrt_price <= a THEN GetLiquidityFromAmount0(a, b, amount_0)
      ELSE IF sqrt_price < b
      THEN Lesser(GetLiquidityFromAmount0(sqrt_price, b, amount_0),
                  GetLiquidityFromAmount1(a, sqrt_price, amount_1))
      ELSE GetLiquidityFromAmount1(a, b, amount_1)

-----------------------------------------------------------------------------
(* The amounts that liquidity stands for, rounded up when it is added and  *)
(* down when it is taken out.                                              *)

GetDeltaAmount0(sqrt_a, sqrt_b, liquidity, round_up) ==
  LET a == Lesser(sqrt_a, sqrt_b)
      b == Greater(sqrt_a, sqrt_b)
  IN  IF round_up
      THEN MulDivCeil(MulDivCeil(liquidity * Q64, b - a, b), 1, a)
      ELSE MulDivFloor(liquidity * Q64, b - a, b) \div a

GetDeltaAmount1(sqrt_a, sqrt_b, liquidity, round_up) ==
  LET width == Greater(sqrt_a, sqrt_b) - Lesser(sqrt_a, sqrt_b)
  IN  IF round_up THEN MulDivCeil(liquidity, width, Q64)
                  ELSE MulDivFloor(liquidity, width, Q64)

\* Mutant: the first tick of the range counts as below it.
DeltaAmountsBelow(tick, sqrt_price, lower, upper, delta) ==
  LET l  == IF delta < 0 THEN -delta ELSE delta
      up == delta >= 0
      a  == TickPrice[lower]
      b  == TickPrice[upper]
  IN  IF tick <= lower THEN <<GetDeltaAmount0(a, b, l, up), 0>>
      ELSE IF tick < upper
      THEN <<GetDeltaAmount0(sqrt_price, b, l, up), GetDeltaAmount1(a, sqrt_price, l, up)>>
      ELSE <<0, GetDeltaAmount1(a, b, l, up)>>

\* The pair of amounts of a change of liquidity.  The tick decides which side
\* of the range the pool is on, the price how far into it.
GetDeltaAmountsSigned(tick, sqrt_price, lower, upper, delta) ==
  LET l  == IF delta < 0 THEN -delta ELSE delta
      up == delta >= 0
      a  == TickPrice[lower]
      b  == TickPrice[upper]
  IN  IF tick < lower THEN <<GetDeltaAmount0(a, b, l, up), 0>>
      ELSE IF tick < upper
      THEN <<GetDeltaAmount0(sqrt_price, b, l, up), GetDeltaAmount1(a, sqrt_price, l, up)>>
      ELSE <<0, GetDeltaAmount1(a, b, l, up)>>
==============================================================================
