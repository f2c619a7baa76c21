------------------------ MODULE RaydiumPosition_proofs ------------------------
(***************************************************************************)
(* Proofs about RaydiumPosition for every pool, range, width: its types,   *)
(* that the estimate of the fees never aborts and never exceeds what the   *)
(* pool pays, the amounts of a deposit and of a position, and that the     *)
(* estimate equals what the pool pays but for the removal at which the     *)
(* counter of growth inside passes zero.  Last, what the valuation of a    *)
(* creator's tokens loses.                                                 *)
(***************************************************************************)
EXTENDS RaydiumPosition, TLAPS

PositionInv == PositionTypeOK /\ OutsideWithinGrowth /\ FeesBacked

-----------------------------------------------------------------------------
(* Arithmetic.                                                             *)

LEMMA QuotientNat ==
  ASSUME NEW a \in Nat, NEW b \in Nat \ {0}
  PROVE  a \div b \in Nat
  OBVIOUS

LEMMA RemainderType ==
  ASSUME NEW a \in Int, NEW b \in Nat \ {0}
  PROVE  a % b \in 0..b - 1
  OBVIOUS

LEMMA Span == U128_SPAN \in Nat \ {0} /\ Q64 \in Nat \ {0} /\ U64_MAX \in Nat
  BY FeeGrowthAssumption, LiquidityMathAssumption

-----------------------------------------------------------------------------
(* The counter of growth inside, and the fees.                             *)

\* The counter inside the range fits its width.
LEMMA InsideType ==
  ASSUME growth \in Int, NEW out \in [Ends -> Int]
  PROVE  PoolInside(out) \in 0..U128_SPAN - 1
<1>. DEFINE below == IF tick >= tick_lower THEN out[tick_lower] ELSE growth - out[tick_lower]
            above == IF tick < tick_upper THEN out[tick_upper] ELSE growth - out[tick_upper]
<1>1. below \in Int /\ above \in Int
  BY DEF Ends
<1>2. (growth - below) % U128_SPAN \in Int
  <2>1. growth - below \in Int
    BY <1>1
  <2>. QED
    BY <2>1, Span, RemainderType
<1>3. ((growth - below) % U128_SPAN) - above \in Int
  BY <1>1, <1>2
<1>4. (((growth - below) % U128_SPAN) - above) % U128_SPAN \in 0..U128_SPAN - 1
  BY <1>3, Span, RemainderType
<1>. QED
  BY <1>4 DEF PoolInside

\* The program computes the same counter from the same accounts.
LEMMA SameInside ==
  GetFeeGrowthInside(Tick(tick_lower), Tick(tick_upper), tick, growth) = PoolInside(outside)
  BY DEF GetFeeGrowthInside, PoolInside, WrappingSub, FeeGrowthBelow, FeeGrowthAbove, Tick

\* Of an open position, the fees owed are a natural number, and the estimate is
\* at most as much: it either leaves the new fees out or computes the same.
LEMMA EstimateBounded ==
  ASSUME PositionTypeOK, IsOpen
  PROVE  PoolFees \in Nat /\ OwedFees \in Int /\ OwedFees <= PoolFees
<1>. DEFINE delta == (PoolInside(outside) - position.inside_last) % U128_SPAN
            fees  == (delta * position.liquidity) \div Q64
<1>1. /\ position.liquidity \in Nat
      /\ position.inside_last \in Int
      /\ position.fees_owed \in Nat
  BY Span DEF PositionTypeOK, IsOpen
<1>2. growth \in Int /\ outside \in [Ends -> Int]
  BY DEF PositionTypeOK, NoTick
<1>3. PoolInside(outside) \in Int
  BY <1>2, InsideType
<1>4. delta \in Nat
  BY <1>1, <1>3, Span, RemainderType
<1>5. delta * position.liquidity \in Nat
  BY <1>1, <1>4
<1>6. fees \in Nat
  BY <1>5, Span, QuotientNat
<1>7. PoolFees = position.fees_owed + fees
  BY DEF PoolFees
<1>8. OwedFees = position.fees_owed \/ OwedFees = position.fees_owed + ToUnderflowU64(fees)
  BY SameInside
  DEF OwedFees, GetRaydiumOwedFees, CalculateRaydiumLatestFees, WrappingSub, MulDivFloor
<1>9. ToUnderflowU64(fees) \in Nat /\ ToUnderflowU64(fees) <= fees
  BY <1>6 DEF ToUnderflowU64
<1>. QED
  BY <1>1, <1>6, <1>7, <1>8, <1>9

-----------------------------------------------------------------------------
(* The invariant.                                                          *)

LEMMA InitPositionInv == PoolInit => PositionInv
<1>. SUFFICES ASSUME PoolInit PROVE PositionInv
  OBVIOUS
<1>1. price \in TickPrice[tick]..TickPrice[tick + 1]
  <2>1. tick \in DOMAIN TickPrice /\ tick + 1 \in DOMAIN TickPrice /\ tick \in Int
    BY RaydiumPositionAssumption DEF PoolInit
  <2>2. TickPrice[tick] \in Nat /\ TickPrice[tick + 1] \in Nat
    BY <2>1, LiquidityMathAssumption
  <2>3. TickPrice[tick] < TickPrice[tick + 1]
    BY <2>1, LiquidityMathAssumption
  <2>. QED
    BY <2>2, <2>3 DEF PoolInit
<1>2. PositionTypeOK
  BY <1>1, RaydiumPositionAssumption DEF PoolInit, PositionTypeOK
<1>3. OutsideWithinGrowth
  BY DEF PoolInit, OutsideWithinGrowth, IsOpen, NoTick
<1>. QED
  BY <1>2, <1>3 DEF PositionInv, FeesBacked, PoolInit

\* A tick's price range, of a tick the pool may be in.
LEMMA PriceRange ==
  ASSUME NEW t \in Ticks
  PROVE  /\ t \in Int
         /\ TickPrice[t] \in Nat /\ TickPrice[t + 1] \in Nat
         /\ TickPrice[t] < TickPrice[t + 1]
<1>1. t \in DOMAIN TickPrice /\ t + 1 \in DOMAIN TickPrice /\ t \in Int
  BY RaydiumPositionAssumption
<1>. QED
  BY <1>1, LiquidityMathAssumption

\* The first value of a counter, and the value of one that is crossed, count
\* part of the growth.
LEMMA FirstOutsideType ==
  ASSUME PositionInv, NEW t \in Ends
  PROVE  /\ FirstOutside(t) \in 0..MAX_GROWTH
         /\ FirstOutside(t) <= growth
<1>1. growth \in Nat /\ growth <= MAX_GROWTH /\ MAX_GROWTH \in Nat
  BY RaydiumPositionAssumption DEF PositionInv, PositionTypeOK
<1>2. outside[t] \in {NoTick} \cup 0..MAX_GROWTH /\ outside[t] <= growth
  BY DEF PositionInv, PositionTypeOK, OutsideWithinGrowth
<1>. QED
  BY <1>1, <1>2 DEF FirstOutside

LEMMA CrossedType ==
  ASSUME PositionInv, NEW u
  PROVE  /\ CrossedAny(u) \in [Ends -> {NoTick} \cup 0..MAX_GROWTH]
         /\ \A t \in Ends : /\ CrossedAny(u)[t] <= growth
                            /\ IsOpen => CrossedAny(u)[t] # NoTick
<1>1. growth \in Nat /\ growth <= MAX_GROWTH /\ MAX_GROWTH \in Nat
  BY RaydiumPositionAssumption DEF PositionInv, PositionTypeOK
<1>2. /\ outside \in [Ends -> {NoTick} \cup 0..MAX_GROWTH]
      /\ \A t \in Ends : outside[t] <= growth /\ (IsOpen => outside[t] # NoTick)
  BY DEF PositionInv, PositionTypeOK, OutsideWithinGrowth
<1>3. CASE u \notin Ends
  BY <1>2, <1>3 DEF CrossedAny
<1>4. CASE u \in Ends
  <2>. DEFINE c == IF outside[u] = NoTick THEN NoTick ELSE growth - outside[u]
  <2>1. CrossedAny(u) = [outside EXCEPT ![u] = c]
    BY <1>4 DEF CrossedAny, Crossed
  <2>2. /\ c \in {NoTick} \cup 0..MAX_GROWTH
        /\ c <= growth
        /\ IsOpen => c # NoTick
    BY <1>1, <1>2, <1>4 DEF NoTick
  <2>. HIDE DEF c
  <2>. QED
    BY <1>2, <1>4, <2>1, <2>2
<1>. QED
  BY <1>3, <1>4

-----------------------------------------------------------------------------

LEMMA UseTickKeeps ==
  ASSUME PositionInv, NEW t \in Ends, UseTick(t)
  PROVE  PositionInv'
<1>1. outside' = [outside EXCEPT ![t] = FirstOutside(t)]
  BY DEF UseTick
<1>2. FirstOutside(t) \in 0..MAX_GROWTH /\ FirstOutside(t) <= growth
  BY FirstOutsideType
<1>. USE DEF PositionInv
<1>3. PositionTypeOK'
  BY <1>1, <1>2 DEF UseTick, PositionTypeOK
<1>4. OutsideWithinGrowth'
  BY <1>1, <1>2 DEF UseTick, PositionTypeOK, OutsideWithinGrowth, IsOpen, NoTick
<1>. QED
  BY <1>3, <1>4 DEF UseTick, FeesBacked

LEMMA SwapWithinKeeps ==
  ASSUME PositionInv, NEW p \in TickPrice[tick]..TickPrice[tick + 1], NEW g \in Growths,
         SwapWithin(p, g)
  PROVE  PositionInv'
<1>. USE DEF PositionInv
<1>1. g \in Nat /\ growth \in Nat /\ growth' = growth + g /\ growth' <= MAX_GROWTH
  BY RaydiumPositionAssumption DEF SwapWithin, PositionTypeOK
<1>2. PositionTypeOK'
  BY <1>1, RaydiumPositionAssumption DEF SwapWithin, PositionTypeOK
<1>3. OutsideWithinGrowth'
  BY <1>1 DEF SwapWithin, PositionTypeOK, OutsideWithinGrowth, IsOpen, NoTick
<1>. QED
  BY <1>2, <1>3 DEF SwapWithin, FeesBacked

LEMMA CrossKeeps ==
  ASSUME PositionInv, SwapUp \/ SwapDown
  PROVE  PositionInv'
<1>. USE DEF PositionInv
<1>1. PICK u : outside' = CrossedAny(u)
  BY DEF SwapUp, SwapDown
<1>2. /\ CrossedAny(u) \in [Ends -> {NoTick} \cup 0..MAX_GROWTH]
      /\ \A t \in Ends : CrossedAny(u)[t] <= growth /\ (IsOpen => CrossedAny(u)[t] # NoTick)
  BY CrossedType
<1>3. UNCHANGED <<growth, position, unshared>>
  BY DEF SwapUp, SwapDown
<1>4. tick' \in Ticks /\ price' \in TickPrice[tick']..TickPrice[tick' + 1]
  <2>1. CASE SwapUp
    BY <2>1, PriceRange DEF SwapUp
  <2>2. CASE SwapDown
    <3>1. tick \in Ticks /\ tick \in Int /\ tick - 1 \in Ticks
      BY <2>2, RaydiumPositionAssumption DEF SwapDown, PositionTypeOK
    <3>2. (tick - 1) + 1 = tick
      BY <3>1
    <3>3. TickPrice[tick] \in TickPrice[tick - 1]..TickPrice[(tick - 1) + 1]
      BY <3>1, <3>2, PriceRange
    <3>. QED
      BY <2>2, <3>1, <3>3 DEF SwapDown
  <2>. QED
    BY <2>1, <2>2
<1>5. PositionTypeOK'
  BY <1>1, <1>2, <1>3, <1>4 DEF PositionTypeOK
<1>6. OutsideWithinGrowth'
  BY <1>1, <1>2, <1>3 DEF OutsideWithinGrowth, IsOpen
<1>. QED
  BY <1>3, <1>5, <1>6 DEF FeesBacked

LEMMA OpenKeeps ==
  ASSUME PositionInv, NEW a, NEW l \in 1..MAX_LIQUIDITY, OpenPosition(a, l)
  PROVE  PositionInv'
<1>. USE DEF PositionInv
<1>1. outside' = [t \in Ends |-> FirstOutside(t)]
  BY DEF OpenPosition
<1>2. \A t \in Ends : FirstOutside(t) \in 0..MAX_GROWTH /\ FirstOutside(t) <= growth
  BY FirstOutsideType
<1>3. growth \in Int /\ outside' \in [Ends -> Int]
  BY <1>1, <1>2 DEF PositionTypeOK
<1>4. PoolInside(outside') \in 0..U128_SPAN - 1
  BY <1>3, InsideType
<1>5. position' \in [liquidity : 0..MAX_LIQUIDITY, inside_last : 0..U128_SPAN - 1,
                     fees_owed : Nat]
  BY <1>4, RaydiumPositionAssumption DEF OpenPosition
<1>6. PositionTypeOK'
  BY <1>1, <1>2, <1>5 DEF OpenPosition, PositionTypeOK
<1>7. OutsideWithinGrowth'
  BY <1>1, <1>2 DEF OpenPosition, OutsideWithinGrowth, NoTick
<1>. QED
  BY <1>6, <1>7 DEF OpenPosition, FeesBacked

\* Deposits and removals settle the fees and leave the pool as it is.
LEMMA SettledType ==
  ASSUME PositionInv, NEW l, IsOpen, UNCHANGED <<tick, price, growth, outside>>,
         l \in 0..MAX_LIQUIDITY, NEW fees \in Nat, unshared' \in Nat,
         position' = [liquidity   |-> l,
                      inside_last |-> PoolInside(outside),
                      fees_owed   |-> fees]
  PROVE  PositionInv'
<1>. USE DEF PositionInv
<1>1. growth \in Int /\ outside \in [Ends -> Int]
  BY DEF PositionTypeOK, NoTick
<1>2. PoolInside(outside) \in 0..U128_SPAN - 1
  BY <1>1, InsideType
<1>3. position' \in [liquidity : 0..MAX_LIQUIDITY, inside_last : 0..U128_SPAN - 1,
                     fees_owed : Nat]
  BY <1>2
<1>4. PositionTypeOK'
  BY <1>3 DEF PositionTypeOK
<1>5. OutsideWithinGrowth'
  BY DEF OutsideWithinGrowth
<1>. QED
  BY <1>4, <1>5 DEF FeesBacked

LEMMA AddKeeps ==
  ASSUME PositionInv, NEW a, NEW l \in 1..MAX_LIQUIDITY, AddLiquidity(a, l)
  PROVE  PositionInv'
<1>1. IsOpen /\ UNCHANGED <<tick, price, growth, outside, unshared>>
  BY DEF AddLiquidity
<1>2. unshared' \in Nat
  BY <1>1 DEF PositionInv, PositionTypeOK, FeesBacked
<1>3. position.liquidity \in Nat
  BY <1>1 DEF PositionInv, PositionTypeOK, IsOpen
<1>4. position.liquidity + l \in 0..MAX_LIQUIDITY
  BY <1>3, RaydiumPositionAssumption DEF AddLiquidity
<1>5. PoolFees \in Nat
  BY <1>1, EstimateBounded DEF PositionInv
<1>. QED
  BY <1>1, <1>2, <1>4, <1>5, SettledType DEF AddLiquidity

LEMMA RemoveKeeps ==
  ASSUME PositionInv, NEW l \in 1..MAX_LIQUIDITY, RemoveLiquidity(l)
  PROVE  PositionInv'
<1>1. IsOpen /\ UNCHANGED <<tick, price, growth, outside>>
  BY DEF RemoveLiquidity
<1>2. PoolFees \in Nat /\ OwedFees \in Int /\ OwedFees <= PoolFees
  BY <1>1, EstimateBounded DEF PositionInv
<1>3. unshared' \in Nat
  <2>1. unshared \in Nat
    BY DEF PositionInv, PositionTypeOK, FeesBacked
  <2>. QED
    BY <1>2, <2>1 DEF RemoveLiquidity
<1>4. position.liquidity \in 0..MAX_LIQUIDITY
  BY <1>1 DEF PositionInv, PositionTypeOK, IsOpen
<1>5. position.liquidity - l \in 0..MAX_LIQUIDITY
  BY <1>4, RaydiumPositionAssumption DEF RemoveLiquidity
<1>. QED
  BY <1>1, <1>3, <1>5, SettledType DEF RemoveLiquidity

LEMMA NextPositionInv == PositionInv /\ [PositionNext]_positionVars => PositionInv'
<1>. SUFFICES ASSUME PositionInv, [PositionNext]_positionVars PROVE PositionInv'
  OBVIOUS
<1>1. ASSUME NEW t \in Ends, UseTick(t) PROVE PositionInv'
  BY <1>1, UseTickKeeps
<1>2. ASSUME NEW p \in TickPrice[tick]..TickPrice[tick + 1], NEW g \in Growths,
             SwapWithin(p, g)
      PROVE  PositionInv'
  BY <1>2, SwapWithinKeeps
<1>3. CASE SwapUp \/ SwapDown
  BY <1>3, CrossKeeps
<1>4. ASSUME NEW a \in AmountPairs, NEW l \in 1..MAX_LIQUIDITY,
             OpenPosition(a, l) \/ AddLiquidity(a, l)
      PROVE  PositionInv'
  BY <1>4, OpenKeeps, AddKeeps
<1>5. ASSUME NEW l \in 1..MAX_LIQUIDITY, RemoveLiquidity(l) PROVE PositionInv'
  BY <1>5, RemoveKeeps
<1>6. CASE UNCHANGED positionVars
  BY <1>6 DEF positionVars, PositionInv, PositionTypeOK, OutsideWithinGrowth, FeesBacked,
              IsOpen
<1>. QED
  BY <1>1, <1>2, <1>3, <1>4, <1>5, <1>6 DEF PositionNext

-----------------------------------------------------------------------------
(* The theorems.                                                           *)

\* PositionInv holds of every pool and position.
THEOREM PositionInvariant == PositionSpec => []PositionInv
BY InitPositionInv, NextPositionInv, PTL DEF PositionSpec

\* The accounts that remove_liquidity reads and writes keep their types.
THEOREM PositionTypeCorrect == PositionSpec => []PositionTypeOK
<1>1. PositionInv => PositionTypeOK
  BY DEF PositionInv
<1>. QED
  BY <1>1, PositionInvariant, PTL

\* What removals share out as fees never exceeds what the pool paid, so that
\* one strategy's estimate never spends another's fees (get_owed_fees).
THEOREM FeesAreBacked == PositionSpec => []FeesBacked
<1>1. PositionInv => FeesBacked
  BY DEF PositionInv
<1>. QED
  BY <1>1, PositionInvariant, PTL

\* No removal aborts in the checked subtractions of get_fee_growth_inside.
THEOREM EstimatesNeverAbort == PositionSpec => []EstimateNeverAborts
<1>1. PositionInv => EstimateNeverAborts
  BY DEF PositionInv, PositionTypeOK, OutsideWithinGrowth, EstimateNeverAborts,
         InsideDefined, Tick, Ends
<1>. QED
  BY <1>1, PositionInvariant, PTL
-----------------------------------------------------------------------------
(* The amounts of a deposit and of a position: quotients.                  *)

\* A product grows with its factor.
LEMMA ProductMonotone ==
  ASSUME NEW a \in Nat, NEW b \in Nat, NEW c \in Nat, a <= b
  PROVE  a * c <= b * c /\ c * a <= c * b
<1>1. PICK d \in Nat : b = a + d
  <2>. WITNESS b - a \in Nat
  <2>. QED
    OBVIOUS
<1>2. b * c = a * c + d * c /\ d * c \in Nat
  BY <1>1
<1>3. c * b = c * a + c * d /\ c * d \in Nat
  BY <1>1
<1>. QED
  BY <1>2, <1>3

\* What a quotient stands for, within one divisor.
LEMMA QuotientBounds ==
  ASSUME NEW a \in Nat, NEW b \in Nat \ {0}
  PROVE  /\ a \div b \in Nat
         /\ (a \div b) * b <= a
         /\ a < (a \div b) * b + b
  OBVIOUS

\* A quotient rounded down is at most what the dividend is at most.
LEMMA FloorAtMost ==
  ASSUME NEW a \in Nat, NEW b \in Nat \ {0}, NEW c \in Nat, a < c * b + b
  PROVE  a \div b <= c
<1>1. a \div b \in Nat /\ (a \div b) * b <= a
  BY QuotientBounds
<1>2. SUFFICES ASSUME c + 1 <= a \div b PROVE FALSE
  BY <1>1
<1>3. (c + 1) * b <= (a \div b) * b
  BY <1>1, <1>2, ProductMonotone
<1>4. (c + 1) * b = c * b + b
  OBVIOUS
<1>. QED
  BY <1>1, <1>3, <1>4

\* The same of one that is rounded up.
LEMMA CeilAtMost ==
  ASSUME NEW a \in Nat, NEW b \in Nat \ {0}, NEW c \in Nat, a <= c * b
  PROVE  /\ (a + b - 1) \div b \in Nat
         /\ (a + b - 1) \div b <= c
<1>1. a + b - 1 \in Nat /\ c * b \in Nat /\ a + b - 1 < c * b + b
  OBVIOUS
<1>. QED
  BY <1>1, FloorAtMost, QuotientBounds

-----------------------------------------------------------------------------
(* What liquidity costs.                                                   *)

Prices == Nat \ {0}

\* Between equal prices there is nothing of either token.
LEMMA NothingBetween ==
  ASSUME NEW p \in Prices, NEW l \in Nat, NEW up \in BOOLEAN
  PROVE  GetDeltaAmount0(p, p, l, up) = 0 /\ GetDeltaAmount1(p, p, l, up) = 0
<1>1. Q64 \in Nat \ {0}
  BY Span
<1>2. /\ (l * Q64) * 0 = 0 /\ l * 0 = 0 /\ p - p = 0
      /\ Lesser(p, p) = p /\ Greater(p, p) = p
  BY <1>1 DEF Prices, Lesser, Greater
<1>3. \A d \in Nat \ {0} : (0 + d - 1) \div d = 0 /\ 0 \div d = 0
  <2>. SUFFICES ASSUME NEW d \in Nat \ {0}
                PROVE  (0 + d - 1) \div d = 0 /\ 0 \div d = 0
    OBVIOUS
  <2>1. (0 + d - 1) \div d \in Nat /\ (0 + d - 1) \div d <= 0
    BY CeilAtMost
  <2>2. 0 \div d \in Nat /\ 0 \div d <= 0
    BY FloorAtMost, QuotientBounds
  <2>. QED
    BY <2>1, <2>2
<1>4. MulDivCeil(l * Q64, 0, p) = 0 /\ MulDivFloor(l * Q64, 0, p) = 0
  BY <1>2, <1>3 DEF MulDivCeil, MulDivFloor, Prices
<1>5. MulDivCeil(0, 1, p) = 0
  <2>1. 0 * 1 = 0
    OBVIOUS
  <2>. QED
    BY <1>3, <2>1 DEF MulDivCeil, Prices
<1>6. MulDivCeil(l, 0, Q64) = 0 /\ MulDivFloor(l, 0, Q64) = 0
  BY <1>1, <1>2, <1>3 DEF MulDivCeil, MulDivFloor
<1>7. GetDeltaAmount0(p, p, l, up) = 0
  BY <1>2, <1>3, <1>4, <1>5 DEF GetDeltaAmount0, Prices
<1>8. GetDeltaAmount1(p, p, l, up) = 0
  BY <1>2, <1>6 DEF GetDeltaAmount1
<1>. QED
  BY <1>7, <1>8

\* Liquidity that an amount of token 1 buys costs no more than the amount.
LEMMA Cost1 ==
  ASSUME NEW a \in Prices, NEW b \in Prices, a < b, NEW amount \in Nat, NEW l \in Nat,
         l <= GetLiquidityFromAmount1(a, b, amount)
  PROVE  GetDeltaAmount1(a, b, l, TRUE) <= amount
<1>. DEFINE w == b - a
<1>1. w \in Nat \ {0} /\ Q64 \in Nat \ {0} /\ Lesser(a, b) = a /\ Greater(a, b) = b
  BY Span DEF Prices, Lesser, Greater
<1>2. amount * Q64 \in Nat
  BY <1>1
<1>3. l <= (amount * Q64) \div w
  BY <1>1 DEF GetLiquidityFromAmount1, MulDivFloor
<1>4. GetDeltaAmount1(a, b, l, TRUE) = (l * w + Q64 - 1) \div Q64
  BY <1>1 DEF GetDeltaAmount1, MulDivCeil
<1>. HIDE DEF w
<1>5. ((amount * Q64) \div w) * w <= amount * Q64 /\ (amount * Q64) \div w \in Nat
  BY <1>1, <1>2, QuotientBounds
<1>6. l * w <= ((amount * Q64) \div w) * w
  BY <1>1, <1>3, <1>5, ProductMonotone
<1>7. l * w \in Nat /\ ((amount * Q64) \div w) * w \in Nat
  BY <1>1, <1>5
<1>8. l * w <= amount * Q64
  BY <1>2, <1>5, <1>6, <1>7
<1>. QED
  BY <1>1, <1>4, <1>7, <1>8, CeilAtMost

\* The same of token 0, where both the liquidity and the cost are rounded twice.
LEMMA Cost0 ==
  ASSUME NEW a \in Prices, NEW b \in Prices, a < b, NEW amount \in Nat, NEW l \in Nat,
         l <= GetLiquidityFromAmount0(a, b, amount)
  PROVE  GetDeltaAmount0(a, b, l, TRUE) <= amount
<1>. DEFINE w == b - a
            m == (a * b) \div Q64
            c == (l * Q64 * w + b - 1) \div b
<1>1. /\ a \in Nat \ {0} /\ b \in Nat \ {0} /\ w \in Nat \ {0} /\ Q64 \in Nat \ {0}
      /\ Lesser(a, b) = a /\ Greater(a, b) = b
  BY Span DEF Prices, Lesser, Greater
<1>2. a * b \in Nat
  BY <1>1
<1>3. m \in Nat /\ m * Q64 <= a * b
  BY <1>1, <1>2, QuotientBounds
<1>4. l <= (amount * m) \div w
  BY <1>1 DEF GetLiquidityFromAmount0, MulDivFloor
<1>5. GetDeltaAmount0(a, b, l, TRUE) = (c * 1 + a - 1) \div a
  BY <1>1 DEF GetDeltaAmount0, MulDivCeil
<1>. HIDE DEF w, m
<1>6. l * w <= amount * m
  <2>1. amount * m \in Nat
    BY <1>3
  <2>2. ((amount * m) \div w) * w <= amount * m /\ (amount * m) \div w \in Nat
    BY <1>1, <2>1, QuotientBounds
  <2>3. l * w <= ((amount * m) \div w) * w
    BY <1>1, <1>4, <2>2, ProductMonotone
  <2>4. l * w \in Nat /\ ((amount * m) \div w) * w \in Nat
    BY <1>1, <2>2
  <2>. QED
    BY <2>1, <2>2, <2>3, <2>4
<1>7. (l * Q64) * w <= (amount * a) * b
  <2>1. /\ l * w \in Nat /\ amount * m \in Nat /\ m * Q64 \in Nat
    BY <1>1, <1>3
  <2>2. (l * w) * Q64 <= (amount * m) * Q64
    BY <1>1, <1>6, <2>1, ProductMonotone
  <2>3. amount * (m * Q64) <= amount * (a * b)
    BY <1>2, <1>3, <2>1, ProductMonotone
  <2>4. (l * Q64) * w = (l * w) * Q64 /\ (l * w) * Q64 \in Nat
    BY <1>1
  <2>5. (amount * m) * Q64 = amount * (m * Q64) /\ amount * (m * Q64) \in Nat
    BY <1>1, <1>3
  <2>6. amount * (a * b) = (amount * a) * b /\ amount * (a * b) \in Nat
    BY <1>1
  <2>. QED
    BY <2>2, <2>3, <2>4, <2>5, <2>6
<1>8. c \in Nat /\ c <= amount * a
  <2>1. (l * Q64) * w \in Nat /\ amount * a \in Nat
    BY <1>1
  <2>. QED
    BY <1>1, <1>7, <2>1, CeilAtMost
<1>. HIDE DEF c
<1>9. (c + a - 1) \div a <= amount
  BY <1>1, <1>8, CeilAtMost
<1>10. c * 1 = c
  BY <1>8
<1>. QED
  BY <1>5, <1>9, <1>10

-----------------------------------------------------------------------------
(* Where the price is.                                                     *)

PriceLower == TickPrice[tick_lower]
PriceUpper == TickPrice[tick_upper]

\* The tick and the price agree on the side of the range, but for a price at
\* an end of it.
LEMMA PriceSide ==
  ASSUME PositionTypeOK
  PROVE  /\ price \in Prices /\ PriceLower \in Prices /\ PriceUpper \in Prices
         /\ PriceLower < PriceUpper
         /\ IF tick < tick_lower THEN price <= PriceLower ELSE PriceLower <= price
         /\ IF tick < tick_upper THEN price <= PriceUpper ELSE PriceUpper <= price
<1>1. /\ tick \in Int /\ tick_lower \in Int /\ tick_upper \in Int
      /\ tick \in DOMAIN TickPrice /\ tick + 1 \in DOMAIN TickPrice
      /\ tick_lower \in DOMAIN TickPrice /\ tick_upper \in DOMAIN TickPrice
      /\ tick_lower < tick_upper
  BY RaydiumPositionAssumption DEF PositionTypeOK
<1>2. \A t \in DOMAIN TickPrice : TickPrice[t] \in Nat \ {0}
  BY LiquidityMathAssumption
<1>3. ASSUME NEW t \in DOMAIN TickPrice, NEW u \in DOMAIN TickPrice, t <= u
      PROVE  TickPrice[t] <= TickPrice[u]
  <2>1. t \in Int /\ u \in Int /\ TickPrice[t] \in Nat /\ TickPrice[u] \in Nat
    BY <1>2, RaydiumPositionAssumption
  <2>2. CASE t = u
    BY <2>1, <2>2
  <2>3. CASE t < u
    BY <2>1, <2>3, LiquidityMathAssumption
  <2>. QED
    BY <1>3, <2>1, <2>2, <2>3
<1>4. TickPrice[tick] <= price /\ price <= TickPrice[tick + 1] /\ price \in Nat \ {0}
  BY <1>1, <1>2 DEF PositionTypeOK
<1>5. \A t \in {tick_lower, tick_upper} :
        IF tick < t THEN price <= TickPrice[t] ELSE TickPrice[t] <= price
  <2>. TAKE t \in {tick_lower, tick_upper}
  <2>1. t \in DOMAIN TickPrice /\ t \in Int
    BY <1>1
  <2>2. CASE tick < t
    <3>1. TickPrice[tick + 1] <= TickPrice[t]
      BY <1>1, <1>3, <2>1, <2>2
    <3>. QED
      BY <1>1, <1>2, <1>4, <2>1, <2>2, <3>1
  <2>3. CASE t <= tick
    <3>1. TickPrice[t] <= TickPrice[tick]
      BY <1>1, <1>3, <2>1, <2>3
    <3>. QED
      BY <1>1, <1>2, <1>4, <2>1, <2>3, <3>1
  <2>. QED
    BY <1>1, <2>1, <2>2, <2>3
<1>6. PriceLower < PriceUpper
  BY <1>1, LiquidityMathAssumption DEF PriceLower, PriceUpper
<1>. QED
  BY <1>1, <1>2, <1>4, <1>5, <1>6 DEF Prices, PriceLower, PriceUpper

-----------------------------------------------------------------------------
(* Deposits.                                                               *)

\* An amount of either token buys a natural number of liquidity.
LEMMA BoughtType ==
  ASSUME NEW a \in Prices, NEW b \in Prices, a < b, NEW amount \in Nat
  PROVE  /\ GetLiquidityFromAmount0(a, b, amount) \in Nat
         /\ GetLiquidityFromAmount1(a, b, amount) \in Nat
<1>1. /\ b - a \in Nat \ {0} /\ Q64 \in Nat \ {0} /\ a * b \in Nat
      /\ Lesser(a, b) = a /\ Greater(a, b) = b
  BY Span DEF Prices, Lesser, Greater
<1>2. (a * b) \div Q64 \in Nat
  BY <1>1, QuotientBounds
<1>3. amount * ((a * b) \div Q64) \in Nat /\ amount * Q64 \in Nat
  BY <1>1, <1>2
<1>. QED
  BY <1>1, <1>3, QuotientBounds
  DEF GetLiquidityFromAmount0, GetLiquidityFromAmount1, MulDivFloor

\* What the pool charges, by the side of the range that the tick is on.
LEMMA Charge ==
  ASSUME NEW l \in Nat
  PROVE  /\ tick < tick_lower =>
              /\ PoolCharge(l)[1] = GetDeltaAmount0(PriceLower, PriceUpper, l, TRUE)
              /\ PoolCharge(l)[2] = 0
         /\ ~(tick < tick_lower) /\ tick < tick_upper =>
              /\ PoolCharge(l)[1] = GetDeltaAmount0(price, PriceUpper, l, TRUE)
              /\ PoolCharge(l)[2] = GetDeltaAmount1(PriceLower, price, l, TRUE)
         /\ ~(tick < tick_lower) /\ ~(tick < tick_upper) =>
              /\ PoolCharge(l)[1] = 0
              /\ PoolCharge(l)[2] = GetDeltaAmount1(PriceLower, PriceUpper, l, TRUE)
<1>1. ~(l < 0) /\ (l >= 0) = TRUE
  OBVIOUS
<1>2. PoolCharge(l) =
        IF tick < tick_lower THEN <<GetDeltaAmount0(PriceLower, PriceUpper, l, TRUE), 0>>
        ELSE IF tick < tick_upper
        THEN <<GetDeltaAmount0(price, PriceUpper, l, TRUE),
               GetDeltaAmount1(PriceLower, price, l, TRUE)>>
        ELSE <<0, GetDeltaAmount1(PriceLower, PriceUpper, l, TRUE)>>
  BY <1>1, Zenon DEF PoolCharge, GetDeltaAmountsSigned, PriceLower, PriceUpper
<1>3. CASE tick < tick_lower
  <2>1. PoolCharge(l) = <<GetDeltaAmount0(PriceLower, PriceUpper, l, TRUE), 0>>
    BY <1>2, <1>3, Zenon
  <2>2. /\ PoolCharge(l)[1] = GetDeltaAmount0(PriceLower, PriceUpper, l, TRUE)
        /\ PoolCharge(l)[2] = 0
    BY <2>1
  <2>. QED
    BY <1>3, <2>2, Zenon
<1>4. CASE ~(tick < tick_lower) /\ tick < tick_upper
  <2>1. PoolCharge(l) = <<GetDeltaAmount0(price, PriceUpper, l, TRUE),
                          GetDeltaAmount1(PriceLower, price, l, TRUE)>>
    BY <1>2, <1>4, Zenon
  <2>2. /\ PoolCharge(l)[1] = GetDeltaAmount0(price, PriceUpper, l, TRUE)
        /\ PoolCharge(l)[2] = GetDeltaAmount1(PriceLower, price, l, TRUE)
    BY <2>1
  <2>. QED
    BY <1>4, <2>2, Zenon
<1>5. CASE ~(tick < tick_lower) /\ ~(tick < tick_upper)
  <2>1. PoolCharge(l) = <<0, GetDeltaAmount1(PriceLower, PriceUpper, l, TRUE)>>
    BY <1>2, <1>5, Zenon
  <2>2. /\ PoolCharge(l)[1] = 0
        /\ PoolCharge(l)[2] = GetDeltaAmount1(PriceLower, PriceUpper, l, TRUE)
    BY <2>1
  <2>. QED
    BY <1>5, <2>2, Zenon
<1>. QED
  BY <1>3, <1>4, <1>5, Zenon

\* The price against the range, and the tick against it.
LEMMA Sides ==
  ASSUME PositionTypeOK
  PROVE  /\ price <= PriceLower \/ (PriceLower < price /\ price < PriceUpper)
              \/ (PriceLower < price /\ PriceUpper <= price)
         /\ price <= PriceLower =>
              /\ tick < tick_upper
              /\ tick < tick_lower \/ (~(tick < tick_lower) /\ price = PriceLower)
         /\ PriceLower < price => ~(tick < tick_lower)
         /\ price < PriceUpper => tick < tick_upper
         /\ PriceUpper <= price => ~(tick < tick_upper) \/ price = PriceUpper
<1>1. tick \in Int /\ tick_lower \in Int /\ tick_upper \in Int /\ tick_lower < tick_upper
  BY RaydiumPositionAssumption DEF PositionTypeOK
<1>2. price \in Nat /\ PriceLower \in Nat /\ PriceUpper \in Nat
  BY PriceSide DEF Prices
<1>3. /\ PriceLower < PriceUpper
      /\ IF tick < tick_lower THEN price <= PriceLower ELSE PriceLower <= price
      /\ IF tick < tick_upper THEN price <= PriceUpper ELSE PriceUpper <= price
  BY PriceSide
<1>. QED
  BY <1>1, <1>2, <1>3

\* Which liquidity a deposit is given, by the side of the range of the price.
LEMMA Bought ==
  ASSUME PositionTypeOK, NEW a
  PROVE  /\ price <= PriceLower =>
              LiquidityFor(a) = GetLiquidityFromAmount0(PriceLower, PriceUpper, a[1])
         /\ PriceLower < price /\ price < PriceUpper =>
              LiquidityFor(a) = Lesser(GetLiquidityFromAmount0(price, PriceUpper, a[1]),
                                       GetLiquidityFromAmount1(PriceLower, price, a[2]))
         /\ PriceLower < price /\ PriceUpper <= price =>
              LiquidityFor(a) = GetLiquidityFromAmount1(PriceLower, PriceUpper, a[2])
<1>1. price \in Nat /\ PriceLower \in Nat /\ PriceUpper \in Nat /\ PriceLower < PriceUpper
  BY PriceSide DEF Prices
<1>2. /\ Lesser(PriceLower, PriceUpper) = PriceLower
      /\ Greater(PriceLower, PriceUpper) = PriceUpper
  BY <1>1 DEF Lesser, Greater
<1>3. LiquidityFor(a) =
        IF price <= PriceLower THEN GetLiquidityFromAmount0(PriceLower, PriceUpper, a[1])
        ELSE IF price < PriceUpper
        THEN Lesser(GetLiquidityFromAmount0(price, PriceUpper, a[1]),
                    GetLiquidityFromAmount1(PriceLower, price, a[2]))
        ELSE GetLiquidityFromAmount1(PriceLower, PriceUpper, a[2])
  <2>. DEFINE lo == PriceLower
              up == PriceUpper
  <2>1. LiquidityFor(a) = GetLiquidityFromAmounts(price, lo, up, a[1], a[2])
    BY DEF LiquidityFor, PriceLower, PriceUpper
  <2>2. Lesser(lo, up) = lo /\ Greater(lo, up) = up
    BY <1>2
  <2>. HIDE DEF lo, up
  <2>3. LiquidityFor(a) =
          IF price <= lo THEN GetLiquidityFromAmount0(lo, up, a[1])
          ELSE IF price < up
          THEN Lesser(GetLiquidityFromAmount0(price, up, a[1]),
                      GetLiquidityFromAmount1(lo, price, a[2]))
          ELSE GetLiquidityFromAmount1(lo, up, a[2])
    BY <2>1, <2>2, Zenon DEF GetLiquidityFromAmounts
  <2>. QED
    BY <2>3 DEF lo, up
<1>4. /\ PriceLower < price => ~(price <= PriceLower)
      /\ PriceUpper <= price => ~(price < PriceUpper)
  BY <1>1
<1>. QED
  BY <1>3, <1>4, Zenon

\* The pool never charges a deposit more than it was given.
LEMMA DepositFits ==
  ASSUME PositionTypeOK, NEW a \in AmountPairs
  PROVE  /\ PoolCharge(LiquidityFor(a))[1] <= a[1]
         /\ PoolCharge(LiquidityFor(a))[2] <= a[2]
<1>. DEFINE l == LiquidityFor(a)
<1>1. a[1] \in Nat /\ a[2] \in Nat
  BY RaydiumPositionAssumption DEF AmountPairs
<1>2. 0 <= a[1] /\ 0 <= a[2]
  BY <1>1
<1>3. /\ price \in Prices /\ PriceLower \in Prices /\ PriceUpper \in Prices
      /\ PriceLower < PriceUpper
  BY PriceSide
<1>4. SUFFICES PoolCharge(l)[1] <= a[1] /\ PoolCharge(l)[2] <= a[2]
  OBVIOUS
<1>5. CASE price <= PriceLower
  <2>1. l = GetLiquidityFromAmount0(PriceLower, PriceUpper, a[1])
    BY <1>5, Bought, Zenon
  <2>2. l \in Nat /\ l <= GetLiquidityFromAmount0(PriceLower, PriceUpper, a[1])
    <3>1. GetLiquidityFromAmount0(PriceLower, PriceUpper, a[1]) \in Nat
      BY <1>1, <1>3, BoughtType
    <3>. QED
      BY <2>1, <3>1
  <2>. HIDE DEF l
  <2>3. GetDeltaAmount0(PriceLower, PriceUpper, l, TRUE) <= a[1]
    BY <1>1, <1>3, <2>2, Cost0
  <2>4. CASE tick < tick_lower
    BY <1>2, <2>2, <2>3, <2>4, Charge, Zenon
  <2>5. CASE ~(tick < tick_lower) /\ price = PriceLower
    <3>1. GetDeltaAmount1(PriceLower, price, l, TRUE) = 0
      BY <1>3, <2>2, <2>5, NothingBetween
    <3>2. tick < tick_upper
      BY <1>5, Sides, Zenon
    <3>. QED
      BY <1>2, <2>2, <2>3, <2>5, <3>1, <3>2, Charge, Zenon
  <2>. QED
    BY <1>5, <2>4, <2>5, Sides, Zenon
<1>6. CASE PriceLower < price /\ price < PriceUpper
  <2>. DEFINE bought0 == GetLiquidityFromAmount0(price, PriceUpper, a[1])
              bought1 == GetLiquidityFromAmount1(PriceLower, price, a[2])
  <2>1. l = Lesser(bought0, bought1)
    BY <1>6, Bought, Zenon
  <2>2. bought0 \in Nat /\ bought1 \in Nat
    BY <1>1, <1>3, <1>6, BoughtType
  <2>3. l \in Nat /\ l <= bought0 /\ l <= bought1
    <3>. HIDE DEF bought0, bought1, l
    <3>. QED
      BY <2>1, <2>2 DEF Lesser
  <2>. HIDE DEF l
  <2>4. GetDeltaAmount0(price, PriceUpper, l, TRUE) <= a[1]
    BY <1>1, <1>3, <1>6, <2>3, Cost0
  <2>5. GetDeltaAmount1(PriceLower, price, l, TRUE) <= a[2]
    BY <1>1, <1>3, <1>6, <2>3, Cost1
  <2>6. tick < tick_upper /\ ~(tick < tick_lower)
    BY <1>6, Sides, Zenon
  <2>. QED
    BY <2>3, <2>4, <2>5, <2>6, Charge, Zenon
<1>7. CASE PriceLower < price /\ PriceUpper <= price
  <2>1. l = GetLiquidityFromAmount1(PriceLower, PriceUpper, a[2])
    BY <1>7, Bought, Zenon
  <2>2. l \in Nat /\ l <= GetLiquidityFromAmount1(PriceLower, PriceUpper, a[2])
    <3>1. GetLiquidityFromAmount1(PriceLower, PriceUpper, a[2]) \in Nat
      BY <1>1, <1>3, BoughtType
    <3>. QED
      BY <2>1, <3>1
  <2>. HIDE DEF l
  <2>3. GetDeltaAmount1(PriceLower, PriceUpper, l, TRUE) <= a[2]
    BY <1>1, <1>3, <2>2, Cost1
  <2>4. ~(tick < tick_lower)
    BY <1>7, Sides, Zenon
  <2>5. CASE ~(tick < tick_upper)
    BY <1>2, <2>2, <2>3, <2>4, <2>5, Charge, Zenon
  <2>6. CASE tick < tick_upper /\ price = PriceUpper
    <3>1. GetDeltaAmount0(price, PriceUpper, l, TRUE) = 0
      BY <1>3, <2>2, <2>6, NothingBetween
    <3>. QED
      BY <1>2, <2>2, <2>3, <2>4, <2>6, <3>1, Charge, Zenon
  <2>. QED
    BY <1>7, <2>5, <2>6, Sides, Zenon
<1>. QED
  BY <1>5, <1>6, <1>7, Sides, Zenon

\* No deposit is turned down for rounding: the liquidity that the program asks
\* for never costs more than the maxima it gives the pool.
THEOREM DepositsFit == PositionSpec => []DepositsWithinMaxima
<1>1. PositionTypeOK => DepositsWithinMaxima
  BY DepositFits DEF DepositsWithinMaxima
<1>. QED
  BY <1>1, PositionTypeCorrect, PTL

-----------------------------------------------------------------------------
(* The tokens of a position.                                               *)

\* No liquidity is worth nothing, however it is rounded.
LEMMA NothingHeld ==
  ASSUME NEW a \in Prices, NEW b \in Prices, a <= b, NEW up \in BOOLEAN
  PROVE  GetDeltaAmount0(a, b, 0, up) = 0 /\ GetDeltaAmount1(a, b, 0, up) = 0
<1>1. /\ Q64 \in Nat \ {0} /\ b - a \in Nat /\ b \in Nat \ {0} /\ a \in Nat \ {0}
      /\ Lesser(a, b) = a /\ Greater(a, b) = b
  BY Span DEF Prices, Lesser, Greater
<1>2. \A d \in Nat \ {0} : (0 + d - 1) \div d = 0 /\ 0 \div d = 0
  <2>. SUFFICES ASSUME NEW d \in Nat \ {0}
                PROVE  (0 + d - 1) \div d = 0 /\ 0 \div d = 0
    OBVIOUS
  <2>1. (0 + d - 1) \div d \in Nat /\ (0 + d - 1) \div d <= 0
    BY CeilAtMost
  <2>2. 0 \div d \in Nat /\ 0 \div d <= 0
    BY FloorAtMost, QuotientBounds
  <2>. QED
    BY <2>1, <2>2
<1>3. 0 * Q64 = 0 /\ 0 * (b - a) = 0 /\ 0 * 1 = 0
  BY <1>1
<1>4. /\ MulDivCeil(0, b - a, b) = 0 /\ MulDivFloor(0, b - a, b) = 0
      /\ MulDivCeil(0, b - a, Q64) = 0 /\ MulDivFloor(0, b - a, Q64) = 0
      /\ MulDivCeil(0, 1, a) = 0
  BY <1>1, <1>2, <1>3 DEF MulDivCeil, MulDivFloor
<1>5. 0 \div a = 0
  BY <1>1, <1>2
<1>6. GetDeltaAmount0(a, b, 0, up) = 0
  BY <1>1, <1>3, <1>4, <1>5, Zenon DEF GetDeltaAmount0
<1>7. GetDeltaAmount1(a, b, 0, up) = 0
  BY <1>1, <1>4, Zenon DEF GetDeltaAmount1
<1>. QED
  BY <1>6, <1>7

\* What the position holds, by the side of the range that the tick is on.
LEMMA Held ==
  ASSUME PositionTypeOK, IsOpen, NEW L, L = position.liquidity
  PROVE  PositionAmounts =
           IF tick < tick_lower THEN <<GetDeltaAmount0(PriceLower, PriceUpper, L, FALSE), 0>>
           ELSE IF tick < tick_upper
           THEN <<GetDeltaAmount0(price, PriceUpper, L, FALSE),
                  GetDeltaAmount1(PriceLower, price, L, FALSE)>>
           ELSE <<0, GetDeltaAmount1(PriceLower, PriceUpper, L, FALSE)>>
<1>1. L \in Nat
  BY DEF PositionTypeOK, IsOpen
<1>. DEFINE Side(l, up) ==
              IF tick < tick_lower THEN <<GetDeltaAmount0(PriceLower, PriceUpper, l, up), 0>>
              ELSE IF tick < tick_upper
              THEN <<GetDeltaAmount0(price, PriceUpper, l, up),
                     GetDeltaAmount1(PriceLower, price, l, up)>>
              ELSE <<0, GetDeltaAmount1(PriceLower, PriceUpper, l, up)>>
<1>2. PositionAmounts = Side(IF -L < 0 THEN -(-L) ELSE -L, -L >= 0)
  BY Zenon DEF PositionAmounts, GetDeltaAmountsSigned, PriceLower, PriceUpper
<1>3. CASE L > 0
  <2>1. -L < 0 /\ -(-L) = L /\ (-L >= 0) = FALSE
    BY <1>1, <1>3
  <2>. QED
    BY <1>2, <2>1, Zenon
<1>4. CASE L = 0
  <2>1. ~(-L < 0) /\ -L = 0 /\ (-L >= 0) = TRUE
    <3>1. -L = 0
      <4>1. \A n \in Int : n <= 0 /\ n >= 0 => -n = 0
        OBVIOUS
      <4>2. L \in Int /\ L <= 0 /\ L >= 0
        BY <1>1, <1>4
      <4>. QED
        BY <4>1, <4>2, Zenon
    <3>2. ~(-L < 0)
      BY <1>1, <1>4
    <3>3. -L >= 0
      BY <1>1, <1>4
    <3>. QED
      BY <3>1, <3>2, <3>3, Zenon
  <2>2. PositionAmounts = Side(0, TRUE)
    BY <1>2, <2>1, Zenon
  <2>3. /\ price \in Prices /\ PriceLower \in Prices /\ PriceUpper \in Prices
        /\ PriceLower <= PriceUpper
        /\ ~(tick < tick_lower) => PriceLower <= price
        /\ tick < tick_upper => price <= PriceUpper
    <3>1. /\ price \in Nat \ {0} /\ PriceLower \in Nat \ {0} /\ PriceUpper \in Nat \ {0}
          /\ PriceLower < PriceUpper
      BY PriceSide DEF Prices
    <3>2. PriceLower <= PriceUpper
      BY <3>1
    <3>. QED
      BY <3>2, PriceSide, Zenon
  <2>4. \A up \in BOOLEAN : Side(0, up) = <<0, 0>>
    <3>. SUFFICES ASSUME NEW up \in BOOLEAN PROVE Side(0, up) = <<0, 0>>
      OBVIOUS
    <3>1. GetDeltaAmount0(PriceLower, PriceUpper, 0, up) = 0
          /\ GetDeltaAmount1(PriceLower, PriceUpper, 0, up) = 0
      BY <2>3, NothingHeld
    <3>2. tick < tick_upper => GetDeltaAmount0(price, PriceUpper, 0, up) = 0
      BY <2>3, NothingHeld
    <3>3. ~(tick < tick_lower) => GetDeltaAmount1(PriceLower, price, 0, up) = 0
      BY <2>3, NothingHeld
    <3>. QED
      BY <3>1, <3>2, <3>3, Zenon
  <2>5. Side(0, TRUE) = Side(0, FALSE)
    BY <2>4, Zenon
  <2>. QED
    BY <1>4, <2>2, <2>5, Zenon
<1>5. L > 0 \/ L = 0
  BY <1>1
<1>. QED
  BY <1>3, <1>4, <1>5, Zenon

\* A price at an end of the range may go with a tick on either side of it: the
\* amounts are the same.
LEMMA TickOrPrice ==
  ASSUME PositionTypeOK
  PROVE  AmountsFollowPrice
<1>. DEFINE L == position.liquidity
            p == IF price < PriceLower THEN PriceLower
                 ELSE IF price > PriceUpper THEN PriceUpper ELSE price
<1>1. SUFFICES ASSUME IsOpen
               PROVE  PositionAmounts = <<GetDeltaAmount0(p, PriceUpper, L, FALSE),
                                          GetDeltaAmount1(PriceLower, p, L, FALSE)>>
  BY Zenon DEF AmountsFollowPrice, PriceLower, PriceUpper
<1>2. /\ price \in Prices /\ PriceLower \in Prices /\ PriceUpper \in Prices
      /\ PriceLower < PriceUpper
  BY PriceSide
<1>3. L \in Nat
  BY <1>1 DEF PositionTypeOK, IsOpen
<1>4. /\ GetDeltaAmount0(PriceUpper, PriceUpper, L, FALSE) = 0
      /\ GetDeltaAmount1(PriceLower, PriceLower, L, FALSE) = 0
  BY <1>2, <1>3, NothingBetween
<1>5. /\ price <= PriceLower => p = PriceLower
      /\ PriceLower < price /\ price < PriceUpper => p = price
      /\ PriceLower < price /\ PriceUpper <= price => p = PriceUpper
  BY <1>2 DEF Prices
<1>. HIDE DEF L, p
<1>6. PositionAmounts =
        IF tick < tick_lower THEN <<GetDeltaAmount0(PriceLower, PriceUpper, L, FALSE), 0>>
        ELSE IF tick < tick_upper
        THEN <<GetDeltaAmount0(price, PriceUpper, L, FALSE),
               GetDeltaAmount1(PriceLower, price, L, FALSE)>>
        ELSE <<0, GetDeltaAmount1(PriceLower, PriceUpper, L, FALSE)>>
  BY <1>1, Held, Zenon DEF L
<1>7. CASE price <= PriceLower
  BY <1>4, <1>5, <1>6, <1>7, Sides, Zenon
<1>8. CASE PriceLower < price /\ price < PriceUpper
  BY <1>5, <1>6, <1>8, Sides, Zenon
<1>9. CASE PriceLower < price /\ PriceUpper <= price
  BY <1>4, <1>5, <1>6, <1>9, Sides, Zenon
<1>. QED
  BY <1>7, <1>8, <1>9, Sides, Zenon

\* The tokens that get_delta_amounts_signed finds in a position follow from the
\* price alone, wherever the pool has left its tick.
THEOREM PositionFollowsPrice == PositionSpec => []AmountsFollowPrice
<1>1. PositionTypeOK => AmountsFollowPrice
  BY TickOrPrice
<1>. QED
  BY <1>1, PositionTypeCorrect, PTL
-----------------------------------------------------------------------------
(* The exact fees.                                                         *)

\* The fees of all the growth fit in the program's u64.
FeesFit == MAX_GROWTH * MAX_LIQUIDITY < U64_MAX * Q64

\* The growth inside the range as a number below or above zero.
Below(out) == IF tick >= tick_lower THEN out[tick_lower] ELSE growth - out[tick_lower]
Above(out) == IF tick < tick_upper THEN out[tick_upper] ELSE growth - out[tick_upper]
Inner(out) == (growth - Below(out)) - Above(out)

\* The growth inside the range never falls, so that since the position was last
\* settled it has stayed or risen.
InsideGrows ==
  IsOpen => /\ -growth <= Signed(position.inside_last)
            /\ Signed(position.inside_last) <= Inner(outside)

FeesInv == PositionInv /\ InsideGrows

-----------------------------------------------------------------------------
(* The counter at its width.                                               *)

LEMMA RemainderSmall ==
  ASSUME NEW n \in Nat \ {0}, NEW x \in Int
  PROVE  /\ 0 <= x /\ x < n => x % n = x
         /\ -n <= x /\ x < 0 => x % n = x + n
<1>1. PICK q \in Int : q = x \div n
  <2>. WITNESS x \div n \in Int
  <2>. QED
    OBVIOUS
<1>2. x % n \in 0..n - 1 /\ x = q * n + (x % n)
  BY <1>1
<1>3. q <= -2 => q * n <= (-2) * n
  <2>. SUFFICES ASSUME q <= -2 PROVE q * n <= (-2) * n
    OBVIOUS
  <2>1. 2 * n <= (-q) * n
    BY ProductMonotone
  <2>. QED
    BY <2>1
<1>4. q >= 1 => 1 * n <= q * n
  BY ProductMonotone
<1>5. q <= -1 => q * n <= (-1) * n
  <2>. SUFFICES ASSUME q <= -1 PROVE q * n <= (-1) * n
    OBVIOUS
  <2>1. 1 * n <= (-q) * n
    BY ProductMonotone
  <2>. QED
    BY <2>1
<1>6. q >= 0 => 0 * n <= q * n
  BY ProductMonotone
<1>7. ASSUME 0 <= x, x < n PROVE x % n = x
  <2>1. q = 0
    BY <1>2, <1>4, <1>5, <1>7
  <2>. QED
    BY <1>2, <2>1
<1>8. ASSUME -n <= x, x < 0 PROVE x % n = x + n
  <2>1. q = -1
    BY <1>2, <1>3, <1>6, <1>8
  <2>. QED
    BY <1>2, <2>1
<1>. QED
  BY <1>7, <1>8

\* What the program and the pool read from the counters of the two ends.
LEMMA SignedInside ==
  ASSUME growth \in 0..MAX_GROWTH, NEW out, out[tick_lower] \in 0..growth,
         out[tick_upper] \in 0..growth
  PROVE  /\ Inner(out) \in -growth..growth
         /\ PoolInside(out) = IF Inner(out) < 0 THEN Inner(out) + U128_SPAN ELSE Inner(out)
         /\ Signed(PoolInside(out)) = Inner(out)
<1>1. /\ MAX_GROWTH \in Nat /\ U128_SPAN \in Nat \ {0} /\ growth \in Nat
      /\ 2 * growth < U128_SPAN
  BY Span, RaydiumPositionAssumption
<1>. DEFINE b == Below(out)
            a == Above(out)
            i == Inner(out)
<1>2. b \in 0..growth /\ a \in 0..growth
  BY <1>1 DEF Below, Above
<1>3. PoolInside(out) = (((growth - b) % U128_SPAN) - a) % U128_SPAN
  BY Zenon DEF PoolInside, Below, Above
<1>4. i = (growth - b) - a
  BY DEF Inner
<1>. HIDE DEF a, b, i
<1>5. i \in Int /\ -growth <= i /\ i <= growth
  BY <1>1, <1>2, <1>4
<1>6. growth - b \in Int /\ 0 <= growth - b /\ growth - b < U128_SPAN
  BY <1>1, <1>2
<1>7. (growth - b) % U128_SPAN = growth - b
  BY <1>1, <1>6, RemainderSmall
<1>8. PoolInside(out) = i % U128_SPAN
  BY <1>3, <1>4, <1>7
<1>9. PoolInside(out) = IF i < 0 THEN i + U128_SPAN ELSE i
  <2>1. CASE i < 0
    <3>1. -U128_SPAN <= i
      BY <1>1, <1>5
    <3>. QED
      BY <1>1, <1>5, <1>8, <2>1, <3>1, RemainderSmall
  <2>2. CASE 0 <= i
    <3>1. i < U128_SPAN
      BY <1>1, <1>5
    <3>. QED
      BY <1>1, <1>5, <1>8, <2>2, <3>1, RemainderSmall
  <2>. QED
    BY <1>5, <2>1, <2>2
<1>10. Signed(PoolInside(out)) = i
  BY <1>1, <1>5, <1>9 DEF Signed
<1>. QED
  BY <1>1, <1>5, <1>9, <1>10 DEF i

-----------------------------------------------------------------------------
(* The invariant.                                                          *)

\* The counters of an open position's ends are in use.
LEMMA EndsInUse ==
  ASSUME PositionInv, IsOpen
  PROVE  /\ tick \in Int /\ tick_lower \in Int /\ tick_upper \in Int
         /\ tick_lower < tick_upper
         /\ growth \in 0..MAX_GROWTH /\ growth \in Nat
         /\ outside[tick_lower] \in 0..growth /\ outside[tick_upper] \in 0..growth
<1>1. growth \in 0..MAX_GROWTH /\ growth \in Nat
  BY RaydiumPositionAssumption DEF PositionInv, PositionTypeOK
<1>2. \A t \in Ends : outside[t] \in 0..MAX_GROWTH /\ outside[t] <= growth
  BY DEF PositionInv, PositionTypeOK, OutsideWithinGrowth
<1>3. \A t \in Ends : outside[t] \in 0..growth
  BY <1>1, <1>2
<1>. QED
  BY <1>1, <1>3, RaydiumPositionAssumption DEF PositionInv, PositionTypeOK, Ends

LEMMA SwapWithinGrows ==
  ASSUME FeesInv, NEW p, NEW g \in Growths, SwapWithin(p, g)
  PROVE  InsideGrows'
<1>. SUFFICES ASSUME IsOpen' PROVE InsideGrows'
  BY DEF InsideGrows
<1>1. IsOpen /\ position' = position /\ tick' = tick /\ outside' = outside
  BY DEF IsOpen, SwapWithin
<1>2. g \in Nat /\ growth' = growth + g
  BY RaydiumPositionAssumption DEF SwapWithin
<1>. DEFINE l == outside[tick_lower]
            u == outside[tick_upper]
            s == Signed(position.inside_last)
<1>3. /\ tick \in Int /\ tick_lower \in Int /\ tick_upper \in Int /\ tick_lower < tick_upper
      /\ growth \in Nat /\ l \in 0..growth /\ u \in 0..growth
  BY <1>1, EndsInUse DEF FeesInv
<1>4. -growth <= s /\ s <= Inner(outside) /\ s \in Int
  BY <1>1, Span DEF FeesInv, InsideGrows, PositionInv, PositionTypeOK, IsOpen, Signed
<1>5. Inner(outside) \in Int /\ Inner(outside)' \in Int /\ Inner(outside) <= Inner(outside)'
  BY <1>1, <1>2, <1>3 DEF Inner, Below, Above
<1>. HIDE DEF s
<1>6. -(growth') <= s /\ s <= Inner(outside)'
  BY <1>2, <1>3, <1>4, <1>5
<1>7. s' = s
  BY <1>1 DEF s, Signed
<1>. QED
  BY <1>6, <1>7 DEF InsideGrows, s

\* A tick that is crossed flips its counter, which keeps the growth inside.
LEMMA CrossGrows ==
  ASSUME FeesInv, SwapUp \/ SwapDown
  PROVE  InsideGrows'
<1>. SUFFICES ASSUME IsOpen' PROVE InsideGrows'
  BY DEF InsideGrows
<1>1. IsOpen /\ position' = position /\ growth' = growth
  BY DEF IsOpen, SwapUp, SwapDown
<1>2. /\ tick \in Int /\ tick_lower \in Int /\ tick_upper \in Int /\ tick_lower < tick_upper
      /\ growth \in Nat
      /\ outside[tick_lower] \in 0..growth /\ outside[tick_upper] \in 0..growth
  BY <1>1, EndsInUse DEF FeesInv
<1>3. outside \in [Ends -> {NoTick} \cup 0..MAX_GROWTH]
  BY DEF FeesInv, PositionInv, PositionTypeOK
<1>4. ASSUME NEW t, outside' = CrossedAny(t)
      PROVE  /\ outside'[tick_lower] = IF t = tick_lower THEN growth - outside[tick_lower]
                                       ELSE outside[tick_lower]
             /\ outside'[tick_upper] = IF t = tick_upper THEN growth - outside[tick_upper]
                                       ELSE outside[tick_upper]
  <2>1. outside[tick_lower] # NoTick /\ outside[tick_upper] # NoTick
    BY <1>2 DEF NoTick
  <2>. QED
    BY <1>2, <1>3, <1>4, <2>1 DEF CrossedAny, Crossed, Ends
<1>5. Inner(outside)' = Inner(outside)
  <2>1. CASE SwapUp
    <3>1. tick' = tick + 1 /\ outside' = CrossedAny(tick + 1)
      BY <2>1 DEF SwapUp
    <3>. QED
      BY <1>1, <1>2, <1>4, <3>1 DEF Inner, Below, Above
  <2>2. CASE SwapDown
    <3>1. tick' = tick - 1 /\ outside' = CrossedAny(tick)
      BY <2>2 DEF SwapDown
    <3>. QED
      BY <1>1, <1>2, <1>4, <3>1 DEF Inner, Below, Above
  <2>. QED
    BY <2>1, <2>2
<1>. QED
  BY <1>1, <1>5 DEF FeesInv, InsideGrows, Signed

\* A position that was just settled has seen no growth since.
LEMMA SettledGrows ==
  ASSUME growth \in 0..MAX_GROWTH, growth' = growth, tick' = tick,
         outside'[tick_lower] \in 0..growth, outside'[tick_upper] \in 0..growth,
         position'.inside_last = PoolInside(outside')
  PROVE  InsideGrows'
<1>1. /\ Inner(outside') \in -growth..growth
      /\ Signed(PoolInside(outside')) = Inner(outside')
  BY SignedInside
<1>2. growth \in Nat
  BY RaydiumPositionAssumption
<1>3. Inner(outside)' = Inner(outside')
  BY DEF Inner, Below, Above
<1>4. Signed(position.inside_last)' = Signed(PoolInside(outside'))
  BY DEF Signed
<1>. QED
  BY <1>1, <1>2, <1>3, <1>4 DEF InsideGrows

LEMMA OpenGrows ==
  ASSUME FeesInv, NEW a, NEW l, OpenPosition(a, l)
  PROVE  InsideGrows'
<1>1. growth \in 0..MAX_GROWTH /\ growth' = growth /\ tick' = tick
  BY DEF FeesInv, PositionInv, PositionTypeOK, OpenPosition
<1>2. \A t \in Ends : FirstOutside(t) \in 0..growth
  BY FirstOutsideType, <1>1, RaydiumPositionAssumption DEF FeesInv
<1>3. outside'[tick_lower] \in 0..growth /\ outside'[tick_upper] \in 0..growth
  BY <1>2 DEF OpenPosition, Ends
<1>4. position'.inside_last = PoolInside(outside')
  BY DEF OpenPosition
<1>. QED
  BY <1>1, <1>3, <1>4, SettledGrows

LEMMA AddOrRemoveGrows ==
  ASSUME FeesInv, NEW l,
         (\E a \in AmountPairs : AddLiquidity(a, l)) \/ RemoveLiquidity(l)
  PROVE  InsideGrows'
<1>1. IsOpen /\ growth' = growth /\ tick' = tick /\ outside' = outside
  BY DEF AddLiquidity, RemoveLiquidity
<1>2. position'.inside_last = PoolInside(outside')
  BY <1>1 DEF AddLiquidity, RemoveLiquidity
<1>3. /\ growth \in 0..MAX_GROWTH
      /\ outside'[tick_lower] \in 0..growth /\ outside'[tick_upper] \in 0..growth
  BY <1>1, EndsInUse DEF FeesInv
<1>. QED
  BY <1>1, <1>2, <1>3, SettledGrows

LEMMA NextFeesInv == FeesInv /\ [PositionNext]_positionVars => FeesInv'
<1>. SUFFICES ASSUME FeesInv, [PositionNext]_positionVars PROVE FeesInv'
  OBVIOUS
<1>1. SUFFICES InsideGrows'
  BY NextPositionInv DEF FeesInv
<1>2. ASSUME NEW t \in Ends, UseTick(t) PROVE InsideGrows'
  <2>1. ~IsOpen /\ position' = position
    BY <1>2 DEF UseTick, FeesInv, PositionInv, OutsideWithinGrowth
  <2>. QED
    BY <2>1 DEF InsideGrows, IsOpen
<1>3. ASSUME NEW p \in TickPrice[tick]..TickPrice[tick + 1], NEW g \in Growths,
             SwapWithin(p, g)
      PROVE  InsideGrows'
  BY <1>3, SwapWithinGrows
<1>4. CASE SwapUp \/ SwapDown
  BY <1>4, CrossGrows
<1>5. ASSUME NEW a \in AmountPairs, NEW l \in 1..MAX_LIQUIDITY,
             OpenPosition(a, l) \/ AddLiquidity(a, l)
      PROVE  InsideGrows'
  BY <1>5, OpenGrows, AddOrRemoveGrows
<1>6. ASSUME NEW l \in 1..MAX_LIQUIDITY, RemoveLiquidity(l) PROVE InsideGrows'
  BY <1>6, AddOrRemoveGrows
<1>7. CASE UNCHANGED positionVars
  BY <1>7 DEF positionVars, FeesInv, InsideGrows, IsOpen, Signed, Inner, Below, Above
<1>. QED
  BY <1>2, <1>3, <1>4, <1>5, <1>6, <1>7 DEF PositionNext

-----------------------------------------------------------------------------
(* The estimate.                                                           *)

\* Where the counter has not passed zero, comparing the counters as they are
\* stored finds the growth since the last settlement.
LEMMA ExactEstimate ==
  ASSUME FeesFit, FeesInv, IsOpen,
         ~(Signed(position.inside_last) < 0 /\ Signed(PoolInside(outside)) >= 0)
  PROVE  OwedFees = PoolFees
<1>. DEFINE last == position.inside_last
            now  == PoolInside(outside)
            s    == Signed(position.inside_last)
            i    == Inner(outside)
            L    == position.liquidity
            fees == (((now - last) % U128_SPAN) * L) \div Q64
<1>1. /\ U128_SPAN \in Nat \ {0} /\ Q64 \in Nat \ {0} /\ U64_MAX \in Nat
      /\ MAX_GROWTH \in Nat /\ MAX_LIQUIDITY \in Nat /\ 2 * MAX_GROWTH < U128_SPAN
  BY Span, RaydiumPositionAssumption
<1>2. last \in 0..U128_SPAN - 1 /\ L \in 0..MAX_LIQUIDITY /\ position.fees_owed \in Nat
  BY DEF FeesInv, PositionInv, PositionTypeOK, IsOpen
<1>3. growth \in 0..MAX_GROWTH /\ -growth <= s /\ s <= i
  BY EndsInUse DEF FeesInv, InsideGrows
<1>4. i \in -growth..growth /\ now = (IF i < 0 THEN i + U128_SPAN ELSE i) /\ Signed(now) = i
  BY EndsInUse, SignedInside DEF FeesInv
<1>5. /\ s \in Int
      /\ s < 0 => last = s + U128_SPAN
      /\ s >= 0 => last = s
  BY <1>1, <1>2 DEF Signed
<1>6. ~(s < 0 /\ i >= 0)
  BY <1>4
<1>7. PoolFees = position.fees_owed + fees
  BY DEF PoolFees
<1>8. OwedFees = IF now <= last \/ L = 0 THEN position.fees_owed
                 ELSE position.fees_owed + ToUnderflowU64(fees)
  BY SameInside, Zenon
  DEF OwedFees, GetRaydiumOwedFees, CalculateRaydiumLatestFees, WrappingSub, MulDivFloor
<1>. HIDE DEF last, now, s, i, L
<1>9. growth \in Int /\ i \in Int /\ growth <= MAX_GROWTH
  BY <1>1, <1>3, <1>4
<1>10. last \in Int /\ now \in Int /\ 0 <= now - last /\ now - last <= MAX_GROWTH
       /\ now - last < U128_SPAN
  BY <1>1, <1>2, <1>3, <1>4, <1>5, <1>6, <1>9
<1>11. (now - last) % U128_SPAN = now - last
  BY <1>1, <1>10, RemainderSmall
<1>12. L \in Nat /\ now - last \in Nat
  BY <1>1, <1>2, <1>10
<1>13. fees = ((now - last) * L) \div Q64
  BY <1>11
<1>. HIDE DEF fees
<1>14. CASE now <= last \/ L = 0
  <2>1. (now - last) * L = 0
    <3>1. CASE L = 0
      BY <1>12, <3>1
    <3>2. CASE now <= last
      <4>1. now - last = 0
        BY <1>10, <3>2
      <4>. QED
        BY <1>12, <4>1
    <3>. QED
      BY <1>14, <3>1, <3>2
  <2>2. fees = 0
    <3>1. 0 \div Q64 \in Nat /\ 0 \div Q64 <= 0
      BY <1>1, FloorAtMost, QuotientBounds
    <3>. QED
      BY <1>13, <2>1, <3>1
  <2>. QED
    BY <1>2, <1>7, <1>8, <1>14, <2>2
<1>15. CASE ~(now <= last \/ L = 0)
  <2>1. (now - last) * L \in Nat /\ MAX_GROWTH * L \in Nat /\ MAX_GROWTH * MAX_LIQUIDITY \in Nat
    BY <1>1, <1>12
  <2>2. (now - last) * L <= MAX_GROWTH * L
    BY <1>1, <1>10, <1>12, ProductMonotone
  <2>3. MAX_GROWTH * L <= MAX_GROWTH * MAX_LIQUIDITY
    BY <1>1, <1>2, <1>12, ProductMonotone
  <2>4. (now - last) * L < U64_MAX * Q64
    BY <1>1, <2>1, <2>2, <2>3 DEF FeesFit
  <2>5. fees \in Nat /\ fees * Q64 <= (now - last) * L
    BY <1>1, <1>13, <2>1, QuotientBounds
  <2>6. fees < U64_MAX
    <3>1. SUFFICES ASSUME U64_MAX <= fees PROVE FALSE
      BY <1>1, <2>5
    <3>2. U64_MAX * Q64 <= fees * Q64
      BY <1>1, <2>5, <3>1, ProductMonotone
    <3>3. U64_MAX * Q64 \in Nat /\ fees * Q64 \in Nat
      BY <1>1, <2>5
    <3>. QED
      BY <2>1, <2>4, <2>5, <3>2, <3>3
  <2>7. ToUnderflowU64(fees) = fees
    BY <2>6, Zenon DEF ToUnderflowU64
  <2>. QED
    BY <1>7, <1>8, <1>15, <2>7, Zenon
<1>. QED
  BY <1>14, <1>15

LEMMA StepExact ==
  ASSUME FeesFit, FeesInv, [PositionNext]_positionVars, unshared' # unshared
  PROVE  Signed(position.inside_last) < 0 /\ Signed(PoolInside(outside)) >= 0
<1>1. PICK l \in 1..MAX_LIQUIDITY : RemoveLiquidity(l)
  BY DEF PositionNext, positionVars, UseTick, SwapWithin, SwapUp, SwapDown, OpenPosition,
         AddLiquidity
<1>2. IsOpen /\ unshared' = unshared + PoolFees - OwedFees
  BY <1>1 DEF RemoveLiquidity
<1>3. unshared \in Int /\ PoolFees \in Int
  BY <1>2, EstimateBounded DEF FeesInv, PositionInv, PositionTypeOK
<1>4. OwedFees # PoolFees
  BY <1>2, <1>3
<1>. QED
  BY <1>2, <1>4, ExactEstimate, Zenon

\* While its fees fit in a u64, a removal shares out exactly what the pool pays
\* (get_owed_fees), but for one at which the growth inside passes zero.
THEOREM EstimateExact ==
  ASSUME FeesFit
  PROVE  PositionSpec => EstimateExactUnlessPastZero
<1>1. PoolInit => FeesInv
  BY InitPositionInv DEF FeesInv, InsideGrows, PoolInit, IsOpen
<1>2. FeesInv /\ [PositionNext]_positionVars =>
        [unshared' # unshared =>
           Signed(position.inside_last) < 0 /\ Signed(PoolInside(outside)) >= 0]_positionVars
  BY StepExact
<1>. QED
  BY <1>1, <1>2, NextFeesInv, PTL DEF PositionSpec, EstimateExactUnlessPastZero

-----------------------------------------------------------------------------
(* The valuation.                                                          *)

\* Powers of ten are positive, and add their exponents.  The provers know
\* nothing of the operator, and deriving this is an induction.
PowersOfTen ==
  /\ \A n \in Nat : 10^n \in Nat \ {0}
  /\ \A m, n \in Nat : 10^(m + n) = 10^m * 10^n

LEMMA NormalizedAmount ==
  ASSUME PowersOfTen, NEW amount \in Nat, NEW from \in Nat, NEW to \in Nat
  PROVE  LET n == Usd!NormalizeTokenAmount(amount, from, to) IN
         /\ n \in Nat
         /\ n * 10^from <= amount * 10^to /\ amount * 10^to <= (n + 1) * 10^from
<1>. DEFINE n == Usd!NormalizeTokenAmount(amount, from, to)
<1>0. 10^from \in Nat \ {0} /\ 10^to \in Nat \ {0}
  BY DEF PowersOfTen
<1>1. CASE from < to
  <2>1. to - from \in Nat /\ to = from + (to - from)
    BY <1>1
  <2>2. PICK p \in Nat \ {0} : p = 10^(to - from) /\ 10^to = 10^from * p
    BY <2>1 DEF PowersOfTen
  <2>3. n = amount * p
    BY <1>1, <2>2 DEF Usd!NormalizeTokenAmount
  <2>4. PICK f \in Nat \ {0} : f = 10^from
    BY <1>0
  <2>5. (amount * p) * f = amount * (f * p) /\ (amount * p + 1) * f = (amount * p) * f + f
        /\ amount * p \in Nat /\ (amount * p) * f \in Nat
    OBVIOUS
  <2>. QED  BY <2>2, <2>3, <2>4, <2>5
<1>2. CASE from >= to
  <2>1. from - to \in Nat /\ from = to + (from - to)
    BY <1>2
  <2>2. PICK p \in Nat \ {0} : p = 10^(from - to) /\ 10^from = 10^to * p
    BY <2>1 DEF PowersOfTen
  <2>3. n = amount \div p
    BY <1>2, <2>2 DEF Usd!NormalizeTokenAmount
  <2>4. PICK t \in Nat \ {0} : t = 10^to
    BY <1>0
  <2>5. n \in Nat /\ n * p <= amount /\ amount <= (n + 1) * p
    BY <2>3
  <2>6. n * (t * p) = (n * p) * t /\ (n + 1) * (t * p) = ((n + 1) * p) * t
    BY <2>5
  <2>7. (n * p) * t <= amount * t /\ amount * t <= ((n + 1) * p) * t
    <3>1. n * p \in Nat /\ (n + 1) * p \in Nat
      BY <2>5
    <3>. HIDE DEF n
    <3>. QED  BY <2>5, <3>1, ProductMonotone
  <2>. QED  BY <2>2, <2>4, <2>5, <2>6, <2>7
<1>. QED  BY <1>1, <1>2

LEMMA NormalizedPrices ==
  ASSUME PowersOfTen, NEW info, info.price \in Nat, info.expo \in Int, NEW decimals \in Nat,
         NEW lowest \in Nat, info.expo + lowest >= 0
  PROVE  LET q == Usd!NormalizedPrice(info, decimals)
             y == info.price * 10^(lowest + info.expo) * 10^decimals
         IN  /\ q \in Nat /\ q * 10^lowest <= y
             /\ q > 0 => y <= (q + 1) * 10^lowest
<1>. DEFINE q == Usd!NormalizedPrice(info, decimals)
            diff == decimals + info.expo
            y == info.price * 10^(lowest + info.expo) * 10^decimals
<1>1. PICK c \in Nat, l \in Nat \ {0}, d \in Nat \ {0}, e \in Nat \ {0} :
        c = info.price /\ l = 10^lowest /\ d = 10^decimals /\ e = 10^(lowest + info.expo)
  <2>1. lowest + info.expo \in Nat
    OBVIOUS
  <2>. QED  BY <2>1 DEF PowersOfTen
<1>2. /\ lowest + info.expo \in Nat /\ diff \in Int /\ lowest + diff \in Nat
      /\ (lowest + info.expo) + decimals = lowest + diff
  OBVIOUS
<1>3. PICK r \in Nat \ {0} : r = 10^(lowest + diff) /\ r = e * d
  BY <1>1, <1>2 DEF PowersOfTen
<1>4. y = c * r
  <2>1. (c * e) * d = c * (e * d)
    OBVIOUS
  <2>. QED  BY <1>1, <1>3, <2>1
<1>. HIDE DEF y
<1>5. CASE diff < 0
  <2>1. PICK m \in Nat, n \in Nat : m = -diff /\ n = lowest + diff /\ lowest = m + n
    BY <1>2, <1>5
  <2>2. PICK p \in Nat \ {0} : p = 10^(-diff) /\ l = p * r
    <3>1. 10^(m + n) = 10^m * 10^n /\ 10^m \in Nat \ {0}
      BY DEF PowersOfTen
    <3>. QED  BY <1>1, <1>3, <2>1, <3>1
  <2>3. q = c \div p
    BY <1>1, <1>5, <2>2 DEF Usd!NormalizedPrice
  <2>4. q \in Nat /\ q * p <= c /\ c <= (q + 1) * p
    BY <2>3
  <2>. HIDE DEF q
  <2>5. (q * p) * r <= c * r /\ c * r <= ((q + 1) * p) * r
    <3>1. q * p \in Nat /\ (q + 1) * p \in Nat
      BY <2>4
    <3>. QED  BY <2>4, <3>1, ProductMonotone
  <2>6. q * (p * r) = (q * p) * r /\ (q + 1) * (p * r) = ((q + 1) * p) * r
    BY <2>4
  <2>. QED  BY <1>1, <1>4, <2>2, <2>4, <2>5, <2>6 DEF q, y
<1>6. CASE diff >= 0
  <2>1. PICK m \in Nat : m = diff
    BY <1>2, <1>6
  <2>2. PICK p \in Nat \ {0} : p = 10^diff /\ r = l * p
    <3>1. 10^(lowest + m) = 10^lowest * 10^m /\ 10^m \in Nat \ {0}
      BY DEF PowersOfTen
    <3>. QED  BY <1>1, <1>3, <2>1, <3>1
  <2>3. q = 0 \/ q = c * p
    BY <1>1, <1>6, <2>2 DEF Usd!NormalizedPrice
  <2>. HIDE DEF q
  <2>4. CASE q = 0
    BY <1>1, <1>4, <2>4 DEF q, y
  <2>5. CASE q = c * p
    <3>1. (c * p) * l = c * (l * p) /\ (c * p + 1) * l = (c * p) * l + l
          /\ c * p \in Nat /\ (c * p) * l \in Nat
      OBVIOUS
    <3>. QED  BY <1>1, <1>4, <2>2, <2>5, <3>1 DEF q, y
  <2>. QED  BY <2>3, <2>4, <2>5
<1>. QED  BY <1>2, <1>5, <1>6

\* An amount and a price that are cut to n and q, and their product once more.
LEMMA ValuationBounds ==
  ASSUME NEW n \in Nat, NEW q \in Nat, NEW x \in Nat, NEW y \in Nat,
         NEW t \in Nat \ {0}, NEW l \in Nat \ {0}, NEW d \in Nat \ {0},
         n * t <= x, x <= (n + 1) * t, q * l <= y
  PROVE  LET credit == ((n * q) \div d) * ((l * t) * d) IN
         /\ credit <= x * y
         /\ y <= (q + 1) * l => x * y <= credit + (n + q + d) * (l * t)
<1>. DEFINE k == (n * q) \div d
            u == l * t
<1>1. n * q \in Nat /\ u \in Nat
  OBVIOUS
<1>2. k \in Nat /\ k * d <= n * q /\ n * q < k * d + d
  <2>. DEFINE m == n * q
  <2>. HIDE DEF m
  <2>1. m \in Nat => m \div d \in Nat /\ (m \div d) * d <= m /\ m < (m \div d) * d + d
    BY QuotientBounds
  <2>. QED  BY <1>1, <2>1 DEF m
<1>. HIDE DEF k
<1>3. (k * d) * u = k * (u * d) /\ (n * q) * u = (n * t) * (q * l)
  BY <1>1, <1>2
<1>4. n * t \in Nat /\ q * l \in Nat /\ (n + 1) * t \in Nat /\ (q + 1) * l \in Nat
      /\ k * d \in Nat /\ x * y \in Nat
  BY <1>2
<1>5. k * (u * d) <= x * y
  <2>1. (k * d) * u <= (n * q) * u
    BY <1>1, <1>2, <1>4, ProductMonotone
  <2>2. (n * t) * (q * l) <= x * (q * l)
    BY <1>4, ProductMonotone
  <2>3. (q * l) * x <= y * x
    BY <1>4, ProductMonotone
  <2>4. x * (q * l) = (q * l) * x /\ y * x = x * y
    BY <1>4
  <2>5. (k * d) * u \in Int /\ (n * q) * u \in Int /\ x * (q * l) \in Int
    BY <1>1, <1>2, <1>4
  <2>. HIDE DEF u
  <2>. QED  BY <1>3, <1>4, <2>1, <2>2, <2>3, <2>4, <2>5
<1>6. ASSUME y <= (q + 1) * l
      PROVE  x * y <= k * (u * d) + (n + q + d) * u
  <2>1. x * y <= ((n + 1) * t) * y
    BY <1>4, ProductMonotone
  <2>2. y * ((n + 1) * t) <= ((q + 1) * l) * ((n + 1) * t)
    BY <1>4, <1>6, ProductMonotone
  <2>3. /\ ((n + 1) * t) * y = y * ((n + 1) * t)
        /\ ((q + 1) * l) * ((n + 1) * t) = (n * q + n + q + 1) * u
    OBVIOUS
  <2>4. n * q + n + q + 1 <= k * d + (n + q + d) /\ n * q + n + q + 1 \in Nat
        /\ k * d + (n + q + d) \in Nat
    BY <1>1, <1>2, <1>4
  <2>5. (n * q + n + q + 1) * u <= (k * d + (n + q + d)) * u
    BY <1>1, <2>4, ProductMonotone
  <2>6. (k * d + (n + q + d)) * u = (k * d) * u + (n + q + d) * u
    BY <1>1, <1>2, <1>4
  <2>7. /\ x * y \in Int /\ ((n + 1) * t) * y \in Int /\ (n * q + n + q + 1) * u \in Int
        /\ (k * d) * u \in Int /\ (n + q + d) * u \in Int
    BY <1>1, <1>4, <2>4
  <2>. HIDE DEF u
  <2>. QED  BY <1>3, <2>1, <2>2, <2>3, <2>5, <2>6, <2>7
<1>. QED  BY <1>5, <1>6 DEF k

\* A creator is credited with no more than the tokens are worth, and with less
\* only by the roundings of convert_amounts_to_usd, for any decimals, prices,
\* exponents and amounts.
THEOREM CreditTheorem == ASSUME PowersOfTen PROVE PositionSpec => []CreditWithinRounding
<1>1. ASSUME NEW a \in AmountPairs, NEW info \in UsdInfos, NEW decimals \in TokenDecimals,
             NEW k \in {1, 2}, Usd!CanConvert(a[k], decimals, info, UsdDecimals)
      PROVE  LET credit == Usd!ConvertToUsd(a[k], decimals, info, UsdDecimals)
                             * 10^(LowestExpo + decimals + UsdDecimals)
             IN  /\ credit <= ExactValue(a[k], info)
                 /\ Usd!NormalizedPrice(info, UsdDecimals) > 0 =>
                      ExactValue(a[k], info) <= credit + LargestLoss(a[k], decimals, info)
  <2>1. /\ a[k] \in Nat /\ decimals \in Nat /\ UsdDecimals \in Nat /\ LowestExpo \in Nat
        /\ info.price \in Int /\ info.expo \in Int /\ info.expo + LowestExpo >= 0
    BY RaydiumPositionAssumption, UsdAssumption DEF AmountPairs
  <2>2. info.price \in Nat
    BY <1>1, <2>1 DEF Usd!CanConvert
  <2>. DEFINE e == LowestExpo + info.expo
  <2>3. PICK n, q, x, y, t, l, d, w :
          /\ n = Usd!NormalizeTokenAmount(a[k], decimals, UsdDecimals)
          /\ q = Usd!NormalizedPrice(info, UsdDecimals)
          /\ x = a[k] * 10^UsdDecimals /\ y = info.price * 10^e * 10^UsdDecimals
          /\ t = 10^decimals /\ l = 10^LowestExpo /\ d = 10^UsdDecimals /\ w = 10^e
    OBVIOUS
  <2>4. /\ t \in Nat \ {0} /\ l \in Nat \ {0} /\ d \in Nat \ {0} /\ w \in Nat \ {0}
    BY <2>1, <2>3 DEF PowersOfTen
  <2>5. n \in Nat /\ n * t <= x /\ x <= (n + 1) * t
    BY <2>1, <2>3, NormalizedAmount
  <2>6. q \in Nat /\ q * l <= y /\ (q > 0 => y <= (q + 1) * l)
    BY <2>1, <2>2, <2>3, NormalizedPrices
  <2>7. x \in Nat /\ y \in Nat
    BY <2>1, <2>2, <2>3, <2>4
  <2>8. /\ 10^(LowestExpo + decimals) = l * t
        /\ 10^(LowestExpo + decimals + UsdDecimals) = (l * t) * d
        /\ 10^(2 * UsdDecimals) = d * d
    <3>1. LowestExpo + decimals \in Nat /\ 2 * UsdDecimals = UsdDecimals + UsdDecimals
      BY <2>1
    <3>. QED  BY <2>1, <2>3, <3>1 DEF PowersOfTen
  <2>9. ExactValue(a[k], info) = x * y
    <3>1. ExactValue(a[k], info) = a[k] * info.price * w * (d * d)
      BY <2>3, <2>8 DEF ExactValue
    <3>2. a[k] * info.price * w * (d * d) = (a[k] * d) * (info.price * w * d)
      BY <2>1, <2>2, <2>4
    <3>. QED  BY <2>3, <3>1, <3>2
  <2>10. LargestLoss(a[k], decimals, info) = (n + q + d) * (l * t)
    BY <2>3, <2>8 DEF LargestLoss
  <2>11. Usd!ConvertToUsd(a[k], decimals, info, UsdDecimals) = (n * q) \div d
    BY <2>3 DEF Usd!ConvertToUsd
  <2>12. /\ ((n * q) \div d) * ((l * t) * d) <= x * y
         /\ q > 0 => x * y <= ((n * q) \div d) * ((l * t) * d) + (n + q + d) * (l * t)
    BY <2>4, <2>5, <2>6, <2>7, ValuationBounds
  <2>. QED  BY <2>3, <2>8, <2>9, <2>10, <2>11, <2>12
<1>2. CreditWithinRounding
  BY <1>1 DEF CreditWithinRounding
<1>. QED  BY <1>2, PTL
===============================================================================
