------------------------ MODULE VaultAccountsTheorems ------------------------
(***************************************************************************)
(* The laws of SumOver, proved from the laws of finite cardinalities, and  *)
(* facts about the operators of VaultAccounts that the proofs about the    *)
(* instructions cite.                                                      *)
(***************************************************************************)
EXTENDS VaultAccounts, FiniteSetTheorems, WellFoundedInduction, TLAPS

-----------------------------------------------------------------------------
(* Sums.                                                                   *)

\* An index contributes exactly f[x] units.
LEMMA UnitsAtCardinality ==
  ASSUME NEW x, NEW n \in Nat
  PROVE  /\ IsFiniteSet(UnitsAt(x, n))
         /\ Cardinality(UnitsAt(x, n)) = n
<1>1. IsFiniteSet({x}) /\ Cardinality({x}) = 1
  BY FS_Singleton
<1>2. IsFiniteSet(1..n) /\ Cardinality(1..n) = n
  BY FS_Interval
<1>3. /\ IsFiniteSet({x} \X (1..n))
      /\ Cardinality({x} \X (1..n)) = Cardinality({x}) * Cardinality(1..n)
  BY <1>1, <1>2, FS_Product
<1>. QED
  BY <1>1, <1>2, <1>3 DEF UnitsAt

\* A sum over a finite set of natural numbers is a natural number.
LEMMA SumType ==
  ASSUME NEW S, IsFiniteSet(S), NEW f, \A x \in S : f[x] \in Nat
  PROVE  /\ IsFiniteSet(Units(S, f))
         /\ SumOver(S, f) \in Nat
<1>. DEFINE Parts == {UnitsAt(x, f[x]) : x \in S}
<1>1. IsFiniteSet(Parts)
  <2>. DEFINE part == [x \in S |-> UnitsAt(x, f[x])]
  <2>1. part \in Surjection(S, Parts)
    BY DEF Surjection
  <2>. QED
    BY <2>1, FS_Surjection
<1>2. \A P \in Parts : IsFiniteSet(P)
  BY UnitsAtCardinality
<1>3. IsFiniteSet(UNION Parts)
  BY <1>1, <1>2, FS_UNION
<1>. QED
  BY <1>3, FS_CardinalityType DEF Units, SumOver

\* Two functions that agree on the index set have the same sum.
LEMMA SumCongruent ==
  ASSUME NEW S, NEW f, NEW g, \A x \in S : f[x] = g[x]
  PROVE  SumOver(S, f) = SumOver(S, g)
<1>1. {UnitsAt(x, f[x]) : x \in S} = {UnitsAt(x, g[x]) : x \in S}
  OBVIOUS
<1>. QED
  BY <1>1 DEF SumOver, Units

\* The sum over no index is zero.
LEMMA SumEmpty ==
  ASSUME NEW f
  PROVE  SumOver({}, f) = 0
<1>1. Units({}, f) = {}
  BY DEF Units
<1>. QED
  BY <1>1, FS_EmptySet DEF SumOver

\* One index can be split off a sum.
LEMMA SumSplit ==
  ASSUME NEW S, IsFiniteSet(S), NEW f, \A y \in S : f[y] \in Nat, NEW x \in S
  PROVE  SumOver(S, f) = SumOver(S \ {x}, f) + f[x]
<1>. DEFINE Rest == Units(S \ {x}, f)
            Own  == UnitsAt(x, f[x])
<1>1. IsFiniteSet(S \ {x})
  BY FS_RemoveElement
<1>2. IsFiniteSet(Rest) /\ Cardinality(Rest) \in Nat
  BY <1>1, SumType DEF SumOver
<1>3. IsFiniteSet(Own) /\ Cardinality(Own) = f[x]
  BY UnitsAtCardinality
<1>4. Units(S, f) = Rest \cup Own
  BY DEF Units
<1>5. Rest \cap Own = {}
  <2>1. ASSUME NEW u \in Rest, u \in Own PROVE FALSE
    <3>1. PICK y \in S \ {x} : u \in UnitsAt(y, f[y])
      BY <2>1 DEF Units
    <3>2. u[1] = y
      BY <3>1 DEF UnitsAt
    <3>3. u[1] = x
      BY <2>1 DEF UnitsAt
    <3>. QED
      BY <3>1, <3>2, <3>3
  <2>. QED
    BY <2>1
<1>6. Cardinality(Rest \cup Own)
        = Cardinality(Rest) + Cardinality(Own) - Cardinality(Rest \cap Own)
  BY <1>2, <1>3, FS_Union
<1>7. Cardinality(Rest \cap Own) = 0
  BY <1>5, FS_EmptySet
<1>. QED
  BY <1>2, <1>3, <1>4, <1>6, <1>7 DEF SumOver

\* Changing one index changes the sum by the change at that index.
LEMMA SumUpdate ==
  ASSUME NEW S, IsFiniteSet(S), NEW x \in S,
         NEW f, \A y \in S : f[y] \in Nat,
         NEW g, \A y \in S : g[y] \in Nat,
         \A y \in S \ {x} : g[y] = f[y]
  PROVE  /\ SumOver(S, f) \in Nat
         /\ SumOver(S, g) = SumOver(S, f) - f[x] + g[x]
<1>1. SumOver(S, f) = SumOver(S \ {x}, f) + f[x]
  BY SumSplit
<1>2. SumOver(S, g) = SumOver(S \ {x}, g) + g[x]
  BY SumSplit
<1>3. SumOver(S \ {x}, g) = SumOver(S \ {x}, f)
  BY SumCongruent
<1>4. SumOver(S \ {x}, f) \in Nat
  BY FS_RemoveElement, SumType
<1>. QED
  BY <1>1, <1>2, <1>3, <1>4

\* Every index contributes at most the whole sum.
LEMMA SumMember ==
  ASSUME NEW S, IsFiniteSet(S), NEW f, \A y \in S : f[y] \in Nat, NEW x \in S
  PROVE  f[x] <= SumOver(S, f)
<1>1. SumOver(S, f) = SumOver(S \ {x}, f) + f[x]
  BY SumSplit
<1>2. SumOver(S \ {x}, f) \in Nat
  BY FS_RemoveElement, SumType
<1>. QED
  BY <1>1, <1>2

\* A sum of zeros is zero.
LEMMA SumZero ==
  ASSUME NEW S, NEW f, \A x \in S : f[x] = 0
  PROVE  SumOver(S, f) = 0
<1>1. \A x \in S : UnitsAt(x, f[x]) = {}
  BY DEF UnitsAt
<1>2. Units(S, f) = {}
  BY <1>1 DEF Units
<1>. QED
  BY <1>2, FS_EmptySet DEF SumOver

-----------------------------------------------------------------------------
(* u64 arithmetic.                                                         *)

\* A quotient of naturals is a natural no larger than the dividend.
LEMMA QuotientType ==
  ASSUME NEW a \in Nat, NEW b \in Nat \ {0}
  PROVE  a \div b \in Nat /\ a \div b <= a
  OBVIOUS

\* Saturating and truncating operations return a u64.
LEMMA U64Type ==
  ASSUME NEW a \in Nat, NEW b \in Nat
  PROVE  /\ SatAdd(a, b) \in U64
         /\ SatMul(a, b) \in U64
         /\ AsU64(a) \in U64
         /\ U64 \subseteq Nat
<1>1. U64_MAX \in Nat /\ U64_MAX > 0
  BY ScaleAssumption
<1>2. SatAdd(a, b) \in U64
  BY <1>1 DEF SatAdd, U64
<1>3. SatMul(a, b) \in U64
  <2>1. a * b \in Nat
    OBVIOUS
  <2>. QED  BY <1>1, <2>1 DEF SatMul, U64
<1>4. AsU64(a) \in U64
  BY <1>1 DEF AsU64, U64
<1>5. U64 \subseteq Nat
  BY <1>1 DEF U64
<1>. QED  BY <1>2, <1>3, <1>4, <1>5

\* A saturating difference is a u64, and no larger than what it starts from.
LEMMA SatSubType ==
  ASSUME NEW a \in U64, NEW b \in Nat
  PROVE  /\ SatSub(a, b) \in U64
         /\ SatSub(a, b) <= a
  BY ScaleAssumption DEF SatSub, U64

-----------------------------------------------------------------------------
(* Positions and vaults keep their types.                                  *)

\* Shares for assets are natural numbers: the divisor is never zero.
LEMMA SharesType ==
  ASSUME NEW assets \in Nat, NEW total_assets \in U64, NEW total_shares \in U64
  PROVE  /\ SharesFor(assets, total_assets, total_shares) \in Nat
         /\ ConvertAssetsToShares(assets, total_assets, total_shares) \in U64
<1>1. /\ SatAdd(total_shares, VIRTUAL) \in Nat
      /\ SatAdd(total_assets, VIRTUAL) \in Nat \ {0}
  BY ScaleAssumption DEF SatAdd, U64, VIRTUAL
<1>2. assets * SatAdd(total_shares, VIRTUAL) \in Nat
  BY <1>1
<1>3. SharesFor(assets, total_assets, total_shares) \in Nat
  BY <1>1, <1>2, QuotientType DEF SharesFor
<1>. QED  BY <1>3, U64Type DEF ConvertAssetsToShares

-----------------------------------------------------------------------------
(* The sum of a list of percentages.                                       *)

\* The sum of a list of natural numbers exists.
LEMMA SumOfList ==
  ASSUME NEW q \in Seq(Nat)
  PROVE  /\ IsFiniteSet(DOMAIN q)
         /\ SumOver(DOMAIN q, q) \in Nat
<1>1. DOMAIN q = 1..Len(q) /\ Len(q) \in Nat
  OBVIOUS
<1>2. IsFiniteSet(DOMAIN q)
  BY <1>1, FS_Interval
<1>3. \A n \in DOMAIN q : q[n] \in Nat
  BY <1>1
<1>. QED  BY <1>2, <1>3, SumType

\* Appending an element adds it to the sum.
LEMMA SumOfAppend ==
  ASSUME NEW q \in Seq(Nat), NEW p \in Nat
  PROVE  SumOver(DOMAIN Append(q, p), Append(q, p)) = SumOver(DOMAIN q, q) + p
<1>. DEFINE r == Append(q, p)
            n == Len(q) + 1
<1>1. /\ r \in Seq(Nat) /\ Len(r) = n /\ r[n] = p
      /\ \A m \in 1..Len(q) : r[m] = q[m]
      /\ Len(q) \in Nat /\ DOMAIN q = 1..Len(q)
  OBVIOUS
<1>2. IsFiniteSet(DOMAIN r) /\ \A m \in DOMAIN r : r[m] \in Nat
  <2>. HIDE DEF r, n
  <2>. QED  BY <1>1, SumOfList
<1>3. n \in DOMAIN r /\ DOMAIN r \ {n} = DOMAIN q
  <2>1. DOMAIN r = 1..n
    BY <1>1
  <2>. QED  BY <1>1, <2>1
<1>. HIDE DEF r, n
<1>4. SumOver(DOMAIN r, r) = SumOver(DOMAIN r \ {n}, r) + r[n]
  BY <1>2, <1>3, SumSplit
<1>5. SumOver(DOMAIN q, r) = SumOver(DOMAIN q, q)
  BY <1>1, SumCongruent
<1>6. SumOver(DOMAIN r, r) = SumOver(DOMAIN q, q) + p
  BY <1>1, <1>3, <1>4, <1>5
<1>. QED  BY <1>6 DEF r

-----------------------------------------------------------------------------
(* The first entry of a list of swaps.                                     *)

\* A non-empty set of naturals has a least element, because < is well-founded.
LEMMA LeastElement ==
  ASSUME NEW S \in SUBSET Nat, S # {}
  PROVE  \E n \in S : \A m \in S : n <= m
<1>. DEFINE R == {ss \in Nat \X Nat : ss[1] < ss[2]}
<1>1. IsWellFoundedOn(R, Nat)
  BY NatLessThanWellFounded, Zenon DEF OpToRel
<1>2. \A a, b \in Nat : a < b => <<a, b>> \in R
  OBVIOUS
<1>. HIDE DEF R
<1>3. PICK n \in S : \A m \in S : ~(<<m, n>> \in R)
  BY <1>1, WFMin
<1>4. ASSUME NEW m \in S PROVE n <= m
  <2>1. m \in Nat /\ n \in Nat /\ ~(m < n)
    BY <1>2, <1>3
  <2>. QED  BY <2>1
<1>. QED  BY <1>4

\* The first place of a set of places is one of them.
LEMMA FirstIsMember ==
  ASSUME NEW S \in SUBSET Nat, S # {}
  PROVE  First(S) \in S
  BY LeastElement DEF First

-----------------------------------------------------------------------------
(* Parts of a whole.                                                       *)

\* Products are monotone in a factor.
LEMMA ProductMonotone ==
  ASSUME NEW a \in Nat, NEW b \in Nat, NEW c \in Nat, a <= b
  PROVE  /\ a * c \in Nat /\ b * c \in Nat /\ a * c <= b * c
         /\ c * a = a * c
  OBVIOUS

\* A quotient is within a bound of its dividend.
LEMMA QuotientBound ==
  ASSUME NEW a \in Nat, NEW b \in Nat \ {0}, NEW c \in Nat, a <= c * b
  PROVE  a \div b <= c
<1>. DEFINE q == a \div b
<1>1. q \in Nat /\ b * q <= a
  OBVIOUS
<1>. HIDE DEF q
<1>2. CASE q <= c
  BY <1>2 DEF q
<1>3. CASE c + 1 <= q
  <2>1. (c + 1) * b <= q * b /\ q * b = b * q
    BY <1>1, <1>3, ProductMonotone
  <2>2. (c + 1) * b = c * b + b
    OBVIOUS
  <2>3. c * b \in Nat /\ b * q \in Nat
    BY <1>1
  <2>. QED  BY <1>1, <2>1, <2>2, <2>3
<1>. QED  BY <1>1, <1>2, <1>3

\* A fraction part/whole of an amount, rounded down, is at most the amount.
LEMMA FractionBound ==
  ASSUME NEW part \in Nat, NEW whole \in Nat \ {0}, NEW amount \in Nat,
         part <= whole
  PROVE  /\ (part * amount) \div whole \in Nat
         /\ (part * amount) \div whole <= amount
<1>1. part * amount \in Nat /\ part * amount <= amount * whole
  BY ProductMonotone
<1>. QED  BY <1>1, QuotientBound, QuotientType

\* The cast to u64 leaves a u64 alone.
LEMMA AsU64OfU64 ==
  ASSUME NEW n \in U64
  PROVE  AsU64(n) = n
  BY ScaleAssumption DEF AsU64, U64

\* The cast to u64 never raises a number.
LEMMA AsU64Bound ==
  ASSUME NEW n \in Nat
  PROVE  AsU64(n) \in Nat /\ AsU64(n) <= n
<1>1. U64_MAX + 1 \in Nat \ {0}
  BY ScaleAssumption
<1>. QED  BY <1>1 DEF AsU64

\* An investor stands for at most the whole vault if it holds at most all
\* shares.
LEMMA PartBound ==
  ASSUME NEW pos, pos.shares \in Nat, NEW total \in Nat, pos.shares <= total
  PROVE  /\ ConvertSharesToPercentage(pos, total) \in Nat
         /\ ConvertSharesToPercentage(pos, total) <= DENOMINATOR_MULTIPLIER
<1>. DEFINE part == (pos.shares * DENOMINATOR_MULTIPLIER) \div total
<1>1. DENOMINATOR_MULTIPLIER \in Nat
  BY ScaleAssumption
<1>2. CASE total = 0
  BY <1>1, <1>2 DEF ConvertSharesToPercentage
<1>3. CASE total # 0
  <2>1. part \in Nat /\ part <= DENOMINATOR_MULTIPLIER
    BY <1>1, <1>3, FractionBound
  <2>. HIDE DEF part
  <2>2. AsU64(part) \in Nat /\ AsU64(part) <= DENOMINATOR_MULTIPLIER
    BY <1>1, <2>1, AsU64Bound
  <2>. QED  BY <1>3, <2>2 DEF ConvertSharesToPercentage, part
<1>. QED  BY <1>2, <1>3

\* A removal burns no more shares than the position holds, and all of them when
\* all is removed.
LEMMA BurnBound ==
  ASSUME NEW pos, pos.shares \in U64, NEW percentage \in Nat,
         percentage <= MAX_REMOVE_PERCENTAGE
  PROVE  /\ SharesToBurn(pos, percentage) \in U64
         /\ SharesToBurn(pos, percentage) <= pos.shares
         /\ SharesToBurn(pos, MAX_REMOVE_PERCENTAGE) = pos.shares
<1>. DEFINE burn == (percentage * pos.shares) \div MAX_REMOVE_PERCENTAGE
<1>1. MAX_REMOVE_PERCENTAGE \in Nat \ {0} /\ pos.shares \in Nat
  BY ScaleAssumption, U64Type
<1>2. burn \in Nat /\ burn <= pos.shares
  BY <1>1, FractionBound
<1>3. (MAX_REMOVE_PERCENTAGE * pos.shares) \div MAX_REMOVE_PERCENTAGE = pos.shares
  <2>. DEFINE q == (MAX_REMOVE_PERCENTAGE * pos.shares) \div MAX_REMOVE_PERCENTAGE
  <2>1. q \in Nat /\ q <= pos.shares
    BY <1>1, FractionBound
  <2>2. MAX_REMOVE_PERCENTAGE * pos.shares < MAX_REMOVE_PERCENTAGE * (q + 1)
    BY <1>1
  <2>. HIDE DEF q
  <2>3. CASE q + 1 <= pos.shares
    <3>1. MAX_REMOVE_PERCENTAGE * (q + 1) <= MAX_REMOVE_PERCENTAGE * pos.shares
      BY <1>1, <2>1, <2>3, ProductMonotone
    <3>. QED  BY <1>1, <2>1, <2>2, <3>1
  <2>4. CASE ~(q + 1 <= pos.shares)
    BY <1>1, <2>1, <2>4 DEF q
  <2>. QED  BY <2>3, <2>4
<1>. HIDE DEF burn
<1>4. burn \in U64
  BY <1>1, <1>2, ScaleAssumption DEF U64
<1>5. AsU64(burn) = burn /\ AsU64(pos.shares) = pos.shares
  BY <1>4, AsU64OfU64
<1>. QED  BY <1>2, <1>3, <1>4, <1>5 DEF SharesToBurn, burn

\* A removal takes no more liquidity than there is.
LEMMA WithdrawnBound ==
  ASSUME NEW percentage \in Nat, percentage <= MAX_REMOVE_PERCENTAGE,
         NEW part \in Nat, part <= DENOMINATOR_MULTIPLIER, NEW liq \in Nat
  PROVE  /\ LiquidityToRemove(percentage, part, liq) \in Nat
         /\ LiquidityToRemove(percentage, part, liq) <= liq
<1>. DEFINE removed == (part * percentage) \div MAX_REMOVE_PERCENTAGE
<1>1. /\ MAX_REMOVE_PERCENTAGE \in Nat \ {0}
      /\ DENOMINATOR_MULTIPLIER \in Nat \ {0}
  BY ScaleAssumption
<1>2. part * percentage = percentage * part
  OBVIOUS
<1>3. removed \in Nat /\ removed <= part
  BY <1>1, <1>2, FractionBound
<1>. HIDE DEF removed
<1>4. removed <= DENOMINATOR_MULTIPLIER
  BY <1>1, <1>3
<1>. QED  BY <1>1, <1>3, <1>4, FractionBound DEF LiquidityToRemove, removed

\* What the investor and the creator receive is what was collected for the
\* investor's part, at most all of it, and neither share is negative.
LEMMA FeesBound ==
  ASSUME NEW part \in Nat, part <= DENOMINATOR_MULTIPLIER,
         NEW collected \in Nat,
         NEW fee \in Nat, fee <= MAX_PERFORMANCE_FEE
  PROVE  /\ InvestorFees(part, collected, fee) \in Nat
         /\ CreatorFees(part, collected, fee) \in Nat
         /\ InvestorFees(part, collected, fee) + CreatorFees(part, collected, fee)
              <= collected
<1>. DEFINE gross == GrossFees(part, collected)
            creator == CreatorFees(part, collected, fee)
<1>1. /\ MAX_PERFORMANCE_FEE \in Nat \ {0}
      /\ DENOMINATOR_MULTIPLIER \in Nat \ {0}
  BY ScaleAssumption
<1>2. gross \in Nat /\ gross <= collected
  <2>. DEFINE q == (part * collected) \div DENOMINATOR_MULTIPLIER
  <2>1. q \in Nat /\ q <= collected
    BY <1>1, FractionBound
  <2>. HIDE DEF q
  <2>2. AsU64(q) \in Nat /\ AsU64(q) <= collected
    BY <2>1, AsU64Bound
  <2>. QED  BY <2>2 DEF GrossFees, q
<1>. HIDE DEF gross
<1>3. creator \in Nat /\ creator <= gross
  <2>. DEFINE q == (gross * fee) \div MAX_PERFORMANCE_FEE
  <2>1. gross * fee = fee * gross
    BY <1>2
  <2>2. q \in Nat /\ q <= gross
    BY <1>1, <1>2, <2>1, FractionBound
  <2>. HIDE DEF q
  <2>3. AsU64(q) \in Nat /\ AsU64(q) <= gross
    BY <1>2, <2>2, AsU64Bound
  <2>. QED  BY <2>3 DEF CreatorFees, q, gross
<1>. HIDE DEF creator
<1>4. InvestorFees(part, collected, fee) = gross - creator
  BY DEF InvestorFees, gross, creator
<1>5. gross - creator \in Nat /\ (gross - creator) + creator <= collected
  BY <1>2, <1>3
<1>. QED  BY <1>3, <1>4, <1>5 DEF creator
==============================================================================
