------------------------------- MODULE FeeGrowth -------------------------------
(***************************************************************************)
(* The program's estimate of the fees a Raydium position is owed, from the *)
(* pool's counter of fee growth and the two ticks of the position.  The    *)
(* two tokens are treated alike: one of them is modelled.                  *)
(***************************************************************************)
EXTENDS LiquidityMath

CONSTANTS
  U128_SPAN,   \* the counters of growth are kept modulo this number
  U64_MAX

ASSUME FeeGrowthAssumption == U128_SPAN \in Nat \ {0} /\ U64_MAX \in Nat

WrappingSub(a, b) == (a - b) % U128_SPAN

ToUnderflowU64(x) == IF x < U64_MAX THEN x ELSE 0

\* A tick is a record [tick, outside]: the growth on the side of the tick that
\* the price is not on.
\* Mutant: the lower tick itself counts as outside of the range.
FeeGrowthBelowStrict(lower, tick_current, growth) ==
  IF tick_current > lower.tick THEN lower.outside ELSE growth - lower.outside

FeeGrowthBelow(lower, tick_current, growth) ==
  IF tick_current >= lower.tick THEN lower.outside ELSE growth - lower.outside
FeeGrowthAbove(upper, tick_current, growth) ==
  IF tick_current < upper.tick THEN upper.outside ELSE growth - upper.outside

\* Mutant: the last subtractions are checked as the first ones are.
InsideDefinedChecked(lower, upper, tick_current, growth) ==
  growth >= FeeGrowthBelow(lower, tick_current, growth)
            + FeeGrowthAbove(upper, tick_current, growth)

\* The subtractions of the outside counters are checked and abort the
\* instruction when they go below zero; those that follow wrap.
InsideDefined(lower, upper, tick_current, growth) ==
  /\ tick_current < lower.tick => growth >= lower.outside
  /\ tick_current >= upper.tick => growth >= upper.outside

GetFeeGrowthInside(lower, upper, tick_current, growth) ==
  WrappingSub(WrappingSub(growth, FeeGrowthBelow(lower, tick_current, growth)),
              FeeGrowthAbove(upper, tick_current, growth))

\* Mutant: fees settled by an earlier deposit are forgotten.
LatestFeesOnly(last_total_fees, inside_last, inside_latest, liquidity) ==
  IF inside_latest <= inside_last \/ liquidity = 0 THEN 0
  ELSE ToUnderflowU64(MulDivFloor(WrappingSub(inside_latest, inside_last), liquidity, Q64))

CalculateRaydiumLatestFees(last_total_fees, inside_last, inside_latest, liquidity) ==
  IF inside_latest <= inside_last \/ liquidity = 0 THEN last_total_fees
  ELSE last_total_fees
         + ToUnderflowU64(MulDivFloor(WrappingSub(inside_latest, inside_last), liquidity, Q64))

GetRaydiumOwedFees(lower, upper, position, tick_current, growth) ==
  CalculateRaydiumLatestFees(position.fees_owed, position.inside_last,
                             GetFeeGrowthInside(lower, upper, tick_current, growth),
                             position.liquidity)
==============================================================================
