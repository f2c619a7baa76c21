------------------------ MODULE TokenizedVaults_proofs ------------------------
(***************************************************************************)
(* Proofs about the whole program: types and balances, the solvency of the *)
(* shared USDC escrow, that a swap is credited once, and that a strategy   *)
(* without liquidity stays without.                                        *)
(***************************************************************************)
EXTENDS TokenizedVaults, VaultCreation_proofs, SequenceTheorems

-----------------------------------------------------------------------------
(* Reserves.                                                               *)

\* USDC of reserve r that may still be swapped.
UnspentOf(r) == r.reserved_amount - SwappedAmount(r)

\* Amounts of a reserve are natural numbers, and their sum exists.
LEMMA ReserveFacts ==
  ASSUME NEW r \in ReserveType
  PROVE  /\ r.swap_to_ratio_vaults \in Seq(SwapType)
         /\ AmountsIn(r) \in Seq(Nat)
         /\ DOMAIN AmountsIn(r) = DOMAIN r.swap_to_ratio_vaults
         /\ SwappedAmount(r) \in Nat
         /\ UnspentOf(r) \in Int
<1>1. r.swap_to_ratio_vaults \in Seq(SwapType) /\ r.reserved_amount \in Nat
  BY DEF ReserveType
<1>2. \A n \in DOMAIN r.swap_to_ratio_vaults :
        r.swap_to_ratio_vaults[n].amount_in \in Nat
  <2>. TAKE n \in DOMAIN r.swap_to_ratio_vaults
  <2>1. r.swap_to_ratio_vaults[n] \in SwapType
    BY <1>1
  <2>. QED  BY <2>1 DEF SwapType
<1>3. AmountsIn(r) \in Seq(Nat)
  BY <1>1, <1>2 DEF AmountsIn
<1>4. DOMAIN AmountsIn(r) = DOMAIN r.swap_to_ratio_vaults
  BY DEF AmountsIn
<1>5. SwappedAmount(r) \in Nat
  BY <1>3, <1>4, SumOfList DEF SwappedAmount
<1>. QED  BY <1>1, <1>3, <1>4, <1>5 DEF UnspentOf

\* A reserve without swaps may still spend all of its amount.
LEMMA FreshReserve ==
  ASSUME NEW amount \in Nat
  PROVE  /\ InitializeReserve(amount) \in ReserveType
         /\ UnspentOf(InitializeReserve(amount)) = amount
         /\ NoReserve \in ReserveType
         /\ UnspentOf(NoReserve) = 0
<1>1. <<>> \in Seq(SwapType) /\ 0 \in Nat /\ DOMAIN <<>> = {}
  OBVIOUS
<1>2. ASSUME NEW r, r.swap_to_ratio_vaults = <<>>
      PROVE  SwappedAmount(r) = 0
  BY <1>1, <1>2, SumEmpty DEF SwappedAmount
<1>3. SwappedAmount(InitializeReserve(amount)) = 0 /\ SwappedAmount(NoReserve) = 0
  BY <1>2 DEF InitializeReserve, NoReserve
<1>. QED  BY <1>1, <1>3 DEF InitializeReserve, NoReserve, ReserveType, UnspentOf

\* Recording a swap spends its amount.
LEMMA AddSwapEffect ==
  ASSUME NEW r \in ReserveType, NEW entry \in SwapType
  PROVE  /\ AddSwapToRatioVault(r, entry) \in ReserveType
         /\ UnspentOf(AddSwapToRatioVault(r, entry)) = UnspentOf(r) - entry.amount_in
<1>. DEFINE q   == r.swap_to_ratio_vaults
            new == AddSwapToRatioVault(r, entry)
<1>1. /\ q \in Seq(SwapType) /\ AmountsIn(r) \in Seq(Nat)
      /\ SwappedAmount(r) \in Nat /\ r.reserved_amount \in Nat
      /\ entry.amount_in \in Nat
  BY ReserveFacts DEF ReserveType, SwapType
<1>2. /\ new \in ReserveType /\ new.reserved_amount = r.reserved_amount
      /\ new.swap_to_ratio_vaults = Append(q, entry)
  <2>1. Append(q, entry) \in Seq(SwapType)
    BY <1>1
  <2>. QED  BY <2>1 DEF AddSwapToRatioVault, ReserveType
<1>3. AmountsIn(new) = Append(AmountsIn(r), entry.amount_in)
  <2>1. /\ Len(Append(q, entry)) = Len(q) + 1 /\ Len(q) \in Nat
        /\ DOMAIN Append(q, entry) = 1..(Len(q) + 1)
        /\ \A n \in 1..Len(q) : Append(q, entry)[n] = q[n]
        /\ Append(q, entry)[Len(q) + 1] = entry
    BY <1>1
  <2>2. /\ Len(AmountsIn(r)) = Len(q)
        /\ \A n \in 1..Len(q) : AmountsIn(r)[n] = q[n].amount_in
    BY <1>1 DEF AmountsIn
  <2>. DEFINE a == AmountsIn(new)
              b == Append(AmountsIn(r), entry.amount_in)
  <2>3. /\ a \in Seq(Nat) /\ Len(a) = Len(q) + 1
        /\ \A n \in 1..(Len(q) + 1) : a[n] = Append(q, entry)[n].amount_in
    <3>1. a = [n \in DOMAIN Append(q, entry) |-> Append(q, entry)[n].amount_in]
      BY <1>2 DEF AmountsIn
    <3>2. a \in Seq(Nat)
      BY <1>2, ReserveFacts
    <3>. HIDE DEF a
    <3>. QED  BY <2>1, <3>1, <3>2
  <2>4. /\ b \in Seq(Nat) /\ Len(b) = Len(q) + 1
        /\ b[Len(q) + 1] = entry.amount_in
        /\ \A n \in 1..Len(q) : b[n] = q[n].amount_in
    BY <1>1, <2>2
  <2>. HIDE DEF a, b
  <2>5. \A n \in 1..Len(a) : a[n] = b[n]
    <3>. TAKE n \in 1..Len(a)
    <3>1. CASE n = Len(q) + 1
      BY <2>1, <2>3, <2>4, <3>1
    <3>2. CASE n \in 1..Len(q)
      BY <2>1, <2>3, <2>4, <3>2
    <3>. QED  BY <2>1, <2>3, <3>1, <3>2
  <2>6. a = b
    BY <2>3, <2>4, <2>5, SeqEqual
  <2>. QED  BY <2>6 DEF a, b
<1>. HIDE DEF new
<1>4. SwappedAmount(new) = SwappedAmount(r) + entry.amount_in
  <2>1. /\ DOMAIN AmountsIn(r) = DOMAIN q
        /\ DOMAIN AmountsIn(new) = DOMAIN new.swap_to_ratio_vaults
    BY <1>2, ReserveFacts
  <2>. QED  BY <1>1, <1>3, <2>1, SumOfAppend DEF SwappedAmount
<1>. QED  BY <1>1, <1>2, <1>4 DEF UnspentOf, new

\* Marking a swap executed changes no amount.
LEMMA SetExecutedEffect ==
  ASSUME NEW r \in ReserveType, NEW s, EntriesOf(r, s) # {}
  PROVE  /\ SetSwapToRatioExecuted(r, s) \in ReserveType
         /\ UnspentOf(SetSwapToRatioExecuted(r, s)) = UnspentOf(r)
<1>. DEFINE q   == r.swap_to_ratio_vaults
            i   == First(EntriesOf(r, s))
            new == SetSwapToRatioExecuted(r, s)
            e   == [q[i] EXCEPT !.executed = TRUE]
<1>1. q \in Seq(SwapType) /\ r.reserved_amount \in Nat
  BY DEF ReserveType
<1>2. i \in DOMAIN q /\ DOMAIN q = 1..Len(q)
  <2>1. DOMAIN q = 1..Len(q) /\ DOMAIN q \subseteq Nat
    BY <1>1
  <2>2. EntriesOf(r, s) \in SUBSET Nat /\ EntriesOf(r, s) \subseteq DOMAIN q
    BY <2>1 DEF EntriesOf
  <2>. QED  BY <2>1, <2>2, FirstIsMember
<1>. HIDE DEF i
<1>3. e \in SwapType /\ e.amount_in = q[i].amount_in
  <2>1. q[i] \in SwapType
    BY <1>1, <1>2
  <2>. QED  BY <2>1 DEF SwapType
<1>. HIDE DEF e
<1>4. /\ [q EXCEPT ![i] = e] \in Seq(SwapType)
      /\ DOMAIN [q EXCEPT ![i] = e] = DOMAIN q
      /\ \A n \in DOMAIN q : [q EXCEPT ![i] = e][n].amount_in = q[n].amount_in
  BY <1>1, <1>2, <1>3
<1>5. /\ new.swap_to_ratio_vaults = [q EXCEPT ![i] = e]
      /\ new.reserved_amount = r.reserved_amount
      /\ new \in ReserveType
  BY <1>1, <1>4 DEF SetSwapToRatioExecuted, ReserveType, i, e
<1>. HIDE DEF new
<1>6. AmountsIn(new) = AmountsIn(r)
  BY <1>4, <1>5 DEF AmountsIn
<1>7. SwappedAmount(new) = SwappedAmount(r)
  BY <1>4, <1>5, <1>6 DEF SwappedAmount
<1>. QED  BY <1>5, <1>7 DEF UnspentOf, new

-----------------------------------------------------------------------------
(* Types of what a removal computes.                                       *)

\* The percentage that stands for a position's part of the vault.
LEMMA PartType ==
  ASSUME NEW pos, pos.shares \in U64, NEW total \in U64
  PROVE  ConvertSharesToPercentage(pos, total) \in Nat
<1>1. pos.shares \in Nat /\ total \in Nat /\ DENOMINATOR_MULTIPLIER \in Nat
  BY U64Type, ScaleAssumption
<1>2. CASE total = 0
  BY <1>2 DEF ConvertSharesToPercentage
<1>3. CASE total # 0
  <2>1. pos.shares * DENOMINATOR_MULTIPLIER \in Nat
    BY <1>1
  <2>2. (pos.shares * DENOMINATOR_MULTIPLIER) \div total \in Nat
    BY <1>1, <1>3, <2>1, QuotientType
  <2>. QED  BY <1>3, <2>2, AsU64Bound DEF ConvertSharesToPercentage
<1>. QED  BY <1>2, <1>3

\* The liquidity a removal takes.
LEMMA RemovedType ==
  ASSUME NEW percentage \in Nat, NEW part \in Nat, NEW liq \in Nat
  PROVE  LiquidityToRemove(percentage, part, liq) \in Nat
<1>1. MAX_REMOVE_PERCENTAGE \in Nat \ {0} /\ DENOMINATOR_MULTIPLIER \in Nat \ {0}
  BY ScaleAssumption
<1>2. part * percentage \in Nat
  OBVIOUS
<1>. DEFINE q == (part * percentage) \div MAX_REMOVE_PERCENTAGE
<1>3. q \in Nat
  BY <1>1, <1>2, QuotientType
<1>. HIDE DEF q
<1>4. q * liq \in Nat
  BY <1>3
<1>5. (q * liq) \div DENOMINATOR_MULTIPLIER \in Nat
  BY <1>1, <1>4, QuotientType
<1>. QED  BY <1>5 DEF LiquidityToRemove, q

\* The performance fee a removal takes, whatever the vault's counters say.
LEMMA CreatorFeesType ==
  ASSUME NEW part \in Nat, NEW collected \in Nat, NEW fee \in Nat
  PROVE  CreatorFees(part, collected, fee) \in Nat
<1>1. MAX_PERFORMANCE_FEE \in Nat \ {0} /\ DENOMINATOR_MULTIPLIER \in Nat \ {0}
  BY ScaleAssumption
<1>. DEFINE g == GrossFees(part, collected)
<1>2. g \in Nat
  <2>1. part * collected \in Nat
    OBVIOUS
  <2>2. (part * collected) \div DENOMINATOR_MULTIPLIER \in Nat
    BY <1>1, <2>1, QuotientType
  <2>. QED  BY <2>2, AsU64Bound DEF GrossFees
<1>. HIDE DEF g
<1>3. g * fee \in Nat
  BY <1>2
<1>4. (g * fee) \div MAX_PERFORMANCE_FEE \in Nat
  BY <1>1, <1>3, QuotientType
<1>. QED  BY <1>4, AsU64Bound DEF CreatorFees, g

\* A vault from which assets and shares are taken.
LEMMA RemoveAssetsType ==
  ASSUME NEW v \in VaultType, NEW assets \in Nat, NEW shares \in Nat
  PROVE  RemoveShares(RemoveAssets(v, assets), shares) \in VaultType
<1>1. /\ SatSub(v.total_assets, assets) \in U64
      /\ SatSub(v.total_shares, shares) \in U64
  BY SatSubType DEF VaultType
<1>. QED  BY <1>1 DEF RemoveShares, RemoveAssets, VaultType

-----------------------------------------------------------------------------
(* Types: each investor's instruction preserves TypeOK, for amounts and    *)
(* percentages of any size.                                                *)

LEMMA AmountType == Amounts \subseteq Nat
BY InvestAssumption, U64Type

\* Moving USDC between an investor's account and escrow keeps the types.
LEMMA DepositToEscrowType ==
  ASSUME TypeOK, NEW u \in Users, NEW amount \in Nat,
         DepositToEscrow(u, amount) \/ WithdrawFromEscrow(u, amount)
  PROVE  TypeOK'
<1>1. amount \in Nat /\ USDC \in Mints
  BY InvestAssumption
<1>2. /\ wallet[u] \in [Mints -> Nat] /\ wallet[u][USDC] \in Nat /\ escrow[u] \in Nat
      /\ wallet \in [Users -> [Mints -> Nat]] /\ escrow \in [Users -> Nat]
  BY <1>1 DEF TypeOK, CreationTypeOK
<1>3. ASSUME NEW b \in Nat
      PROVE  [wallet[u] EXCEPT ![USDC] = b] \in [Mints -> Nat]
  BY <1>2
<1>4. wallet' \in [Users -> [Mints -> Nat]] /\ escrow' \in [Users -> Nat]
  <2>1. CASE DepositToEscrow(u, amount)
    <3>1. wallet[u][USDC] - amount \in Nat /\ escrow[u] + amount \in Nat
      BY <1>1, <1>2, <2>1 DEF DepositToEscrow
    <3>2. [wallet[u] EXCEPT ![USDC] = wallet[u][USDC] - amount] \in [Mints -> Nat]
      BY <1>3, <3>1
    <3>. DEFINE w == [wallet[u] EXCEPT ![USDC] = wallet[u][USDC] - amount]
                e == escrow[u] + amount
    <3>3. wallet' = [wallet EXCEPT ![u] = w] /\ escrow' = [escrow EXCEPT ![u] = e]
      BY <2>1 DEF DepositToEscrow
    <3>4. w \in [Mints -> Nat] /\ e \in Nat
      BY <3>1, <3>2
    <3>. HIDE DEF w, e
    <3>. QED  BY <1>2, <3>3, <3>4
  <2>2. CASE WithdrawFromEscrow(u, amount)
    <3>1. wallet[u][USDC] + amount \in Nat /\ escrow[u] - amount \in Nat
      BY <1>1, <1>2, <2>2 DEF WithdrawFromEscrow
    <3>2. [wallet[u] EXCEPT ![USDC] = wallet[u][USDC] + amount] \in [Mints -> Nat]
      BY <1>3, <3>1
    <3>. DEFINE w == [wallet[u] EXCEPT ![USDC] = wallet[u][USDC] + amount]
                e == escrow[u] - amount
    <3>3. wallet' = [wallet EXCEPT ![u] = w] /\ escrow' = [escrow EXCEPT ![u] = e]
      BY <2>2 DEF WithdrawFromEscrow
    <3>4. w \in [Mints -> Nat] /\ e \in Nat
      BY <3>1, <3>2
    <3>. HIDE DEF w, e
    <3>. QED  BY <1>2, <3>3, <3>4
  <2>. QED  BY <2>1, <2>2
<1>5. UNCHANGED <<protocol_config, vault_strategy_config, vault_strategy,
                  investor_strategy_position, liquidity, usdc_escrow,
                  mint_escrow, reserve, fees_owed, fees_escrow, perf_escrow>>
  BY DEF DepositToEscrow, WithdrawFromEscrow
<1>. QED  BY <1>4, <1>5 DEF TypeOK, CreationTypeOK

\* A state function over all accounts of a user is updated in one place.
LEMMA ReserveUpdate ==
  ASSUME TypeOK, NEW u \in Users, NEW c \in Configs, NEW r \in ReserveType,
         reserve' = [reserve EXCEPT ![u][c] = r]
  PROVE  /\ reserve' \in [Users -> [Configs -> ReserveType]]
         /\ reserve'[u][c] = r
         /\ \A w \in Users, d \in Configs :
              ~(w = u /\ d = c) => reserve'[w][d] = reserve[w][d]
  BY DEF TypeOK

\* What invest_reserve does to the reserve and the shared escrow.
LEMMA InvestReserveEffect ==
  ASSUME TypeOK, NEW u \in Users, NEW c \in Configs, NEW amount \in Nat,
         InvestReserve(u, c, amount)
  PROVE  /\ TypeOK'
         /\ reserve' = [reserve EXCEPT
                          ![u][c] = InitializeReserve(amount)]
         /\ usdc_escrow' = [usdc_escrow EXCEPT ![c] = usdc_escrow[c] + amount]
         /\ amount \in Nat
<1>1. amount \in Nat
  OBVIOUS
<1>2. InitializeReserve(amount) \in ReserveType
  BY <1>1, FreshReserve
<1>3. reserve' \in [Users -> [Configs -> ReserveType]]
  BY <1>2, ReserveUpdate DEF InvestReserve
<1>4. escrow' \in [Users -> Nat]
  <2>1. escrow[u] - amount \in Nat
    BY <1>1 DEF InvestReserve, TypeOK
  <2>. QED  BY <2>1 DEF InvestReserve, TypeOK
<1>5. usdc_escrow' \in [Configs -> Nat]
  BY <1>1 DEF InvestReserve, TypeOK
<1>6. TypeOK'
  BY <1>3, <1>4, <1>5 DEF InvestReserve, TypeOK, CreationTypeOK, creationVars
<1>. QED  BY <1>1, <1>6 DEF InvestReserve

\* The amounts of the two legs of a swap.
LEMMA RatioType ==
  ASSUME NEW s, NEW usdc_amount \in Nat, NEW range, NEW split \in Splits
  PROVE  RatioAmounts(s, usdc_amount, range, split) \in [Legs -> Nat]
<1>1. split \in Nat /\ split <= 100
  BY InvestAssumption
<1>2. /\ (usdc_amount * split) \div 100 \in Nat
      /\ (usdc_amount * split) \div 100 <= usdc_amount
  <2>1. usdc_amount * split = split * usdc_amount
    BY <1>1
  <2>. QED  BY <1>1, <2>1, FractionBound
<1>. DEFINE leg0 == IF liquidity[s] = 0 \/ range = "above" THEN 0
                    ELSE IF range = "below" THEN usdc_amount
                    ELSE (usdc_amount * split) \div 100
<1>3. leg0 \in Nat /\ leg0 <= usdc_amount
  BY <1>2
<1>. HIDE DEF leg0
<1>4. usdc_amount - leg0 \in Nat
  BY <1>3
<1>. QED  BY <1>3, <1>4 DEF RatioAmounts, leg0

\* A swap is recorded for the USDC it takes out of the shared escrow.
LEMMA SwapToRatioEffect ==
  ASSUME TypeOK, NEW u \in Users, NEW s \in Strategies, NEW range \in Ranges,
         NEW split \in Splits, NEW slippage \in Slippages,
         SwapToRatio(u, s, range, split, slippage)
  PROVE  LET c == ConfigOf[s] IN
         /\ TypeOK'
         /\ c \in Configs
         /\ \E entry \in SwapType :
              /\ entry.amount_in <= usdc_escrow[c]
              /\ entry.amount_in <= UnspentOf(reserve[u][c])
              /\ reserve' = [reserve EXCEPT
                    ![u][c] = AddSwapToRatioVault(reserve[u][c], entry)]
              /\ usdc_escrow' = [usdc_escrow EXCEPT
                                   ![c] = usdc_escrow[c] - entry.amount_in]
<1>. DEFINE c == ConfigOf[s]
            r == reserve[u][c]
            usdc_amount == UsdcAmount(r.reserved_amount, vault_strategy[s].percentage)
            in == RatioAmounts(s, usdc_amount, range, split)
            out == [k \in Legs |-> SwapLeg(c, k, in[k], slippage)]
            entry == SwapToRatioVault(s, usdc_amount, out)
<1>1. c \in Configs /\ slippage \in Nat /\ LegMint[c] \in [Legs -> Mints]
  BY CreationAssumption, InvestAssumption
<1>2. /\ r \in ReserveType /\ r.reserved_amount \in Nat
      /\ vault_strategy[s].percentage \in Nat
      /\ usdc_escrow[c] \in Nat /\ mint_escrow[c] \in [Legs -> Nat]
  BY <1>1 DEF TypeOK, CreationTypeOK, ReserveType, VaultType
<1>3. usdc_amount \in Nat
  <2>1. SatMul(r.reserved_amount, vault_strategy[s].percentage) \in Nat
    BY <1>2, U64Type
  <2>. QED  BY <2>1, QuotientType, ScaleAssumption DEF UsdcAmount
<1>. HIDE DEF usdc_amount
<1>4. in \in [Legs -> Nat]
  BY <1>3, RatioType
<1>. HIDE DEF in
<1>5. out \in [Legs -> Nat]
  <2>. SUFFICES ASSUME NEW k \in Legs
                PROVE  SwapLeg(c, k, in[k], slippage) \in Nat
    OBVIOUS
  <2>. QED  BY <1>1, <1>4 DEF SwapLeg, SatSub
<1>. HIDE DEF out
<1>6. entry \in SwapType /\ entry.amount_in = usdc_amount
  BY <1>3, <1>5 DEF SwapToRatioVault, SwapType
<1>. HIDE DEF entry, c, r
<1>7. /\ usdc_escrow[c] >= usdc_amount
      /\ CanAddSwapToRatioVault(r, entry)
      /\ usdc_escrow' = [usdc_escrow EXCEPT ![c] = usdc_escrow[c] - usdc_amount]
      /\ mint_escrow' = [mint_escrow EXCEPT
                           ![c] = [k \in Legs |-> mint_escrow[c][k] + out[k]]]
      /\ reserve' = [reserve EXCEPT
                       ![u][c] = AddSwapToRatioVault(r, entry)]
      /\ UNCHANGED <<creationVars, escrow, fees_owed, fees_escrow, perf_escrow>>
  BY DEF SwapToRatio, c, r, usdc_amount, in, out, entry
<1>8. usdc_amount <= UnspentOf(r)
  <2>1. SwappedAmount(r) \in Nat
    BY <1>2, ReserveFacts
  <2>2. SwappedAmount(r) + usdc_amount <= r.reserved_amount
    BY <1>6, <1>7 DEF CanAddSwapToRatioVault
  <2>. QED  BY <1>2, <1>3, <2>1, <2>2 DEF UnspentOf
<1>9. TypeOK'
  <2>1. reserve' \in [Users -> [Configs -> ReserveType]]
    BY <1>1, <1>2, <1>6, <1>7, AddSwapEffect, ReserveUpdate
  <2>2. usdc_escrow' \in [Configs -> Nat]
    <3>1. usdc_escrow[c] - usdc_amount \in Nat
      BY <1>2, <1>3, <1>7
    <3>. QED  BY <1>7, <3>1 DEF TypeOK
  <2>3. mint_escrow' \in [Configs -> [Legs -> Nat]]
    <3>1. [k \in Legs |-> mint_escrow[c][k] + out[k]] \in [Legs -> Nat]
      BY <1>2, <1>5
    <3>. QED  BY <1>7, <3>1 DEF TypeOK
  <2>. QED  BY <1>7, <2>1, <2>2, <2>3 DEF TypeOK, CreationTypeOK, creationVars
<1>. QED  BY <1>1, <1>6, <1>7, <1>8, <1>9 DEF c, r

\* What add_liquidity does to the reserve, the position and the vault.
LEMMA AddLiquidityEffect ==
  ASSUME TypeOK, NEW u \in Users, NEW s \in Strategies, NEW range \in Ranges,
         AddLiquidity(u, s, range)
  PROVE  LET c   == ConfigOf[s]
             v   == vault_strategy[s]
             pos == investor_strategy_position[u][s]
         IN
         /\ TypeOK'
         /\ c \in Configs
         /\ UNCHANGED <<vault_strategy_config, usdc_escrow, fees_owed, fees_escrow>>
         /\ \E r \in ReserveType :
              /\ reserve' = [reserve EXCEPT ![u][c] = r]
              /\ UnspentOf(r) = UnspentOf(reserve[u][c]) \/ UnspentOf(r) = 0
         /\ \E newPos \in PositionType, amount \in Nat :
              /\ newPos = Deposit(pos, amount, v.total_assets, v.total_shares)
              /\ investor_strategy_position' =
                   [investor_strategy_position EXCEPT ![u][s] = newPos]
              /\ vault_strategy' =
                   [vault_strategy EXCEPT
                      ![s] = AddShares(AddAssets(v, amount), newPos.shares)]
         /\ \E liq \in Nat \ {0} : liquidity' = [liquidity EXCEPT ![s] = liquidity[s] + liq]
<1>. DEFINE c == ConfigOf[s]
            r == reserve[u][c]
            pending == PendingEntries(r, s)
            entry == r.swap_to_ratio_vaults[First(pending)]
            liq == LiquidityFromAmounts(range, entry.token_amount)
            tokens == TokensOf(range, liq)
            v == vault_strategy[s]
            pos == investor_strategy_position[u][s]
            newPos == Deposit(pos, entry.amount_in, v.total_assets, v.total_shares)
            newVault == AddShares(AddAssets(v, entry.amount_in), newPos.shares)
            newReserve == IF IsLastStrategy(c, s) THEN CleanUp(r)
                                                  ELSE SetSwapToRatioExecuted(r, s)
<1>1. c \in Configs
  BY CreationAssumption
<1>2. /\ r \in ReserveType /\ v \in VaultType /\ pos \in PositionType
      /\ mint_escrow[c] \in [Legs -> Nat] /\ liquidity[s] \in Nat
  BY <1>1 DEF TypeOK, CreationTypeOK
<1>3. pending # {} /\ EntriesOf(r, s) # {}
  BY DEF AddLiquidity, PendingEntries
<1>4. entry \in SwapType
  <2>1. /\ r.swap_to_ratio_vaults \in Seq(SwapType)
        /\ DOMAIN r.swap_to_ratio_vaults \subseteq Nat
    BY <1>2, ReserveFacts
  <2>2. pending \in SUBSET Nat /\ pending \subseteq DOMAIN r.swap_to_ratio_vaults
    BY <2>1 DEF PendingEntries, EntriesOf
  <2>3. First(pending) \in DOMAIN r.swap_to_ratio_vaults
    BY <1>3, <2>2, FirstIsMember
  <2>. QED  BY <2>1, <2>3
<1>5. entry.amount_in \in Nat /\ entry.token_amount \in [Legs -> Nat]
  BY <1>4 DEF SwapType
<1>. HIDE DEF entry, pending
<1>6. liq \in Nat /\ tokens \in [Legs -> Nat]
  BY <1>5, LiquidityType
<1>. HIDE DEF liq, tokens
<1>7. newPos \in PositionType /\ newPos.shares \in Nat
  <2>1. v.total_assets \in U64 /\ v.total_shares \in U64
    BY <1>2 DEF VaultType
  <2>2. newPos \in PositionType
    BY <1>2, <1>5, <2>1, DepositType
  <2>. QED  BY <2>2, U64Type DEF PositionType
<1>. HIDE DEF newPos
<1>8. newVault \in VaultType
  <2>1. AddAssets(v, entry.amount_in) \in VaultType
    BY <1>2, <1>5, AddAssetsType
  <2>. QED  BY <1>7, <2>1, AddAssetsType
<1>9. /\ newReserve \in ReserveType
      /\ UnspentOf(newReserve) = UnspentOf(r) \/ UnspentOf(newReserve) = 0
  <2>1. CASE IsLastStrategy(c, s)
    BY <2>1, FreshReserve DEF CleanUp
  <2>2. CASE ~IsLastStrategy(c, s)
    BY <1>2, <1>3, <2>2, SetExecutedEffect
  <2>. QED  BY <2>1, <2>2
<1>. HIDE DEF newVault, newReserve, r, c, v, pos
<1>10. /\ \A k \in Legs : mint_escrow[c][k] >= tokens[k]
       /\ liq > 0
       /\ mint_escrow' = [mint_escrow EXCEPT
                            ![c] = [k \in Legs |-> mint_escrow[c][k] - tokens[k]]]
       /\ liquidity' = [liquidity EXCEPT ![s] = liquidity[s] + liq]
       /\ reserve' = [reserve EXCEPT ![u][c] = newReserve]
       /\ investor_strategy_position' =
            [investor_strategy_position EXCEPT ![u][s] = newPos]
       /\ vault_strategy' = [vault_strategy EXCEPT ![s] = newVault]
       /\ UNCHANGED <<protocol_config, vault_strategy_config, wallet, escrow,
                      usdc_escrow, fees_owed, fees_escrow, perf_escrow>>
  BY DEF AddLiquidity, newVault, newReserve, newPos, pos, v, tokens, liq, entry,
         pending, r, c
<1>11. TypeOK'
  <2>1. reserve' \in [Users -> [Configs -> ReserveType]]
    BY <1>1, <1>9, <1>10, ReserveUpdate
  <2>2. mint_escrow' \in [Configs -> [Legs -> Nat]]
    <3>1. [k \in Legs |-> mint_escrow[c][k] - tokens[k]] \in [Legs -> Nat]
      <4>. SUFFICES ASSUME NEW k \in Legs PROVE mint_escrow[c][k] - tokens[k] \in Nat
        OBVIOUS
      <4>. QED  BY <1>2, <1>6, <1>10
    <3>. QED  BY <1>10, <3>1 DEF TypeOK
  <2>3. liquidity' \in [Strategies -> Nat]
    BY <1>2, <1>6, <1>10 DEF TypeOK, CreationTypeOK
  <2>4. investor_strategy_position' \in [Users -> [Strategies -> PositionType]]
    BY <1>7, <1>10 DEF TypeOK, CreationTypeOK
  <2>5. vault_strategy' \in [Strategies -> VaultType]
    BY <1>8, <1>10 DEF TypeOK, CreationTypeOK
  <2>. QED  BY <1>10, <2>1, <2>2, <2>3, <2>4, <2>5 DEF TypeOK, CreationTypeOK
<1>12. \E x \in ReserveType :
         /\ reserve' = [reserve EXCEPT ![u][c] = x]
         /\ UnspentOf(x) = UnspentOf(r) \/ UnspentOf(x) = 0
  BY <1>9, <1>10
<1>13. \E p \in PositionType, amount \in Nat :
         /\ p = Deposit(pos, amount, v.total_assets, v.total_shares)
         /\ investor_strategy_position' = [investor_strategy_position EXCEPT ![u][s] = p]
         /\ vault_strategy' = [vault_strategy EXCEPT
                                 ![s] = AddShares(AddAssets(v, amount), p.shares)]
  <2>1. newPos = Deposit(pos, entry.amount_in, v.total_assets, v.total_shares)
    BY DEF newPos
  <2>2. newVault = AddShares(AddAssets(v, entry.amount_in), newPos.shares)
    BY DEF newVault
  <2>. QED  BY <1>5, <1>7, <1>10, <2>1, <2>2
<1>14. \E n \in Nat \ {0} : liquidity' = [liquidity EXCEPT ![s] = liquidity[s] + n]
  <2>1. liq \in Nat \ {0}
    BY <1>6, <1>10
  <2>. QED  BY <1>10, <2>1
<1>. QED  BY <1>1, <1>10, <1>11, <1>12, <1>13, <1>14 DEF c, r, v, pos
\* What remove_liquidity does to the position and the vault.  RemovalPayable,
\* what Raydium and the token program demand, keeps every balance natural.
LEMMA RemoveLiquidityEffect ==
  ASSUME TypeOK, NEW u \in Users, NEW s \in Strategies,
         NEW percentage, NEW range \in Ranges,
         RemoveLiquidity(u, s, percentage, range)
  PROVE  LET v   == vault_strategy[s]
             pos == investor_strategy_position[u][s]
         IN
         /\ TypeOK'
         /\ UNCHANGED <<vault_strategy_config, usdc_escrow, reserve>>
         /\ \E burn \in U64, assets \in Nat :
              /\ burn = SharesToBurn(pos, percentage) /\ burn <= pos.shares
              /\ investor_strategy_position' =
                   [investor_strategy_position EXCEPT
                      ![u][s] = [initialized |-> pos.initialized,
                                 shares |-> pos.shares - burn,
                                 assets |-> SatSub(pos.assets, assets)]]
              /\ vault_strategy' =
                   [vault_strategy EXCEPT
                      ![s] = RemoveShares(RemoveAssets(v, assets), burn)]
<1>. DEFINE c == ConfigOf[s]
            v == vault_strategy[s]
            pos == investor_strategy_position[u][s]
            burn == SharesToBurn(pos, percentage)
            assets == ConvertSharesToAssets(burn, v.total_assets, v.total_shares)
            withdrawn == Withdrawn(u, s, percentage)
            investor == [k \in Legs |-> InvestorFeesOf(u, s, k)]
            creator == [k \in Legs |-> CreatorFeesOf(u, s, k)]
            paid == [k \in Legs |-> TokensOf(range, withdrawn)[k] + InvestorFeesOf(u, s, k)]
            newPos == [initialized |-> pos.initialized, shares |-> pos.shares - burn,
                       assets |-> SatSub(pos.assets, assets)]
            newVault == RemoveShares(RemoveAssets(v, assets), burn)
<1>1. /\ c \in Configs /\ percentage \in Nat /\ percentage <= MAX_REMOVE_PERCENTAGE
  BY CreationAssumption, ScaleAssumption DEF RemoveLiquidity
<1>2. /\ v \in VaultType /\ pos \in PositionType /\ liquidity[s] \in Nat
      /\ fees_owed[s] \in [Legs -> Nat] /\ fees_escrow[c] \in [Legs -> Nat]
      /\ perf_escrow[c] \in [Legs -> Nat] /\ wallet[u] \in [Mints -> Nat]
      /\ vault_strategy_config[c].performance_fee \in Nat
  BY <1>1 DEF TypeOK, CreationTypeOK, ConfigType
<1>3. /\ v.total_assets \in U64 /\ v.total_shares \in U64
      /\ pos.shares \in U64 /\ pos.assets \in U64
  BY <1>2 DEF VaultType, PositionType
<1>4. burn \in U64 /\ burn <= pos.shares /\ burn \in Nat
  BY <1>1, <1>3, BurnBound, U64Type
<1>5. /\ withdrawn <= liquidity[s] /\ v.total_shares > 0
      /\ \A k \in Legs :
           /\ InvestorFeesOf(u, s, k) \in Nat
           /\ InvestorFeesOf(u, s, k) + CreatorFeesOf(u, s, k)
                <= fees_escrow[c][k] + fees_owed[s][k]
  BY DEF RemoveLiquidity, RemovalPayable
<1>6. assets \in Nat
  <2>1. v.total_assets \in Nat /\ v.total_shares \in Nat \ {0}
    <3>1. v.total_assets \in Nat /\ v.total_shares \in Nat
      BY <1>3, U64Type
    <3>. QED  BY <1>5, <3>1
  <2>2. burn * v.total_assets \in Nat
    BY <1>4, <2>1
  <2>3. (burn * v.total_assets) \div v.total_shares \in Nat
    BY <2>1, <2>2, QuotientType
  <2>. QED  BY <2>3, AsU64Bound DEF ConvertSharesToAssets
<1>7. withdrawn \in Nat
  <2>1. PartOf(u, s) \in Nat
    BY <1>2, <1>3, PartType DEF PartOf
  <2>. QED  BY <1>1, <1>2, <2>1, RemovedType DEF Withdrawn
<1>8. \A k \in Legs : CreatorFeesOf(u, s, k) \in Nat
  <2>. TAKE k \in Legs
  <2>1. PartOf(u, s) \in Nat /\ fees_owed[s][k] \in Nat
    BY <1>2, <1>3, PartType DEF PartOf
  <2>. QED  BY <1>2, <2>1, CreatorFeesType DEF CreatorFeesOf
<1>9. paid \in [Legs -> Nat]
  BY <1>5, <1>7 DEF TokensOf
<1>10. Credit(wallet[u], c, paid) \in [Mints -> Nat]
  BY <1>1, <1>2, <1>9, CreditType
<1>11. /\ newPos \in PositionType
       /\ BurnShares(pos, burn, v.total_assets, v.total_shares) = newPos
  <2>1. pos.shares - burn \in U64 /\ SatSub(pos.shares, burn) = pos.shares - burn
    BY <1>3, <1>4, SatSubType, U64Type DEF SatSub
  <2>2. SatSub(pos.assets, assets) \in U64
    BY <1>3, <1>6, SatSubType
  <2>. HIDE DEF burn, assets
  <2>3. newPos \in PositionType
    BY <1>2, <2>1, <2>2 DEF PositionType
  <2>4. BurnShares(pos, burn, v.total_assets, v.total_shares)
          = [pos EXCEPT !.assets = SatSub(pos.assets, assets),
                        !.shares = pos.shares - burn]
    BY <1>2, <2>1 DEF BurnShares, assets, PositionType
  <2>. QED  BY <1>2, <2>3, <2>4 DEF PositionType
<1>12. newVault \in VaultType
  BY <1>2, <1>4, <1>6, RemoveAssetsType
<1>. DEFINE escrowed == [k \in Legs |-> fees_escrow[c][k] + fees_owed[s][k]
                                     - InvestorFeesOf(u, s, k) - CreatorFeesOf(u, s, k)]
            perf == [k \in Legs |-> perf_escrow[c][k] + CreatorFeesOf(u, s, k)]
<1>13. escrowed \in [Legs -> Nat] /\ perf \in [Legs -> Nat]
  <2>1. ASSUME NEW k \in Legs
        PROVE  /\ fees_escrow[c][k] + fees_owed[s][k]
                    - InvestorFeesOf(u, s, k) - CreatorFeesOf(u, s, k) \in Nat
               /\ perf_escrow[c][k] + CreatorFeesOf(u, s, k) \in Nat
    <3>1. /\ fees_escrow[c][k] \in Nat /\ fees_owed[s][k] \in Nat
          /\ perf_escrow[c][k] \in Nat
      BY <1>2
    <3>. QED  BY <1>5, <1>8, <3>1
  <2>. QED  BY <2>1
<1>14. NoTokens \in [Legs -> Nat]
  BY DEF NoTokens
<1>. HIDE DEF newVault, newPos, escrowed, perf, paid, withdrawn, burn, assets, pos, v, c
<1>15. /\ liquidity' = [liquidity EXCEPT ![s] = liquidity[s] - withdrawn]
       /\ fees_owed' = [fees_owed EXCEPT ![s] = NoTokens]
       /\ fees_escrow' = [fees_escrow EXCEPT ![c] = escrowed]
       /\ perf_escrow' = [perf_escrow EXCEPT ![c] = perf]
       /\ wallet' = [wallet EXCEPT ![u] = Credit(wallet[u], c, paid)]
       /\ vault_strategy' = [vault_strategy EXCEPT ![s] = newVault]
       /\ UNCHANGED <<protocol_config, vault_strategy_config, escrow, usdc_escrow,
                      mint_escrow, reserve>>
  BY DEF RemoveLiquidity, newVault, escrowed, perf, paid, withdrawn, burn, assets,
         pos, v, c
<1>16. investor_strategy_position' =
         [investor_strategy_position EXCEPT ![u][s] = newPos]
  BY <1>11 DEF RemoveLiquidity, pos, v, burn
<1>17. TypeOK'
  <2>1. liquidity' \in [Strategies -> Nat]
    <3>1. liquidity[s] - withdrawn \in Nat
      BY <1>2, <1>5, <1>7
    <3>. QED  BY <1>15, <3>1 DEF TypeOK, CreationTypeOK
  <2>2. fees_owed' \in [Strategies -> [Legs -> Nat]]
    BY <1>14, <1>15 DEF TypeOK
  <2>3. /\ fees_escrow' \in [Configs -> [Legs -> Nat]]
        /\ perf_escrow' \in [Configs -> [Legs -> Nat]]
    BY <1>13, <1>15 DEF TypeOK
  <2>4. wallet' \in [Users -> [Mints -> Nat]]
    BY <1>10, <1>15 DEF TypeOK, CreationTypeOK
  <2>5. vault_strategy' \in [Strategies -> VaultType]
    BY <1>12, <1>15 DEF TypeOK, CreationTypeOK
  <2>6. investor_strategy_position' \in [Users -> [Strategies -> PositionType]]
    BY <1>11, <1>16 DEF TypeOK, CreationTypeOK
  <2>. QED  BY <1>15, <2>1, <2>2, <2>3, <2>4, <2>5, <2>6 DEF TypeOK, CreationTypeOK
<1>18. \E b \in U64, a \in Nat :
         /\ b = SharesToBurn(pos, percentage) /\ b <= pos.shares
         /\ investor_strategy_position' =
              [investor_strategy_position EXCEPT
                 ![u][s] = [initialized |-> pos.initialized,
                            shares |-> pos.shares - b,
                            assets |-> SatSub(pos.assets, a)]]
         /\ vault_strategy' =
              [vault_strategy EXCEPT ![s] = RemoveShares(RemoveAssets(v, a), b)]
  BY <1>4, <1>6, <1>15, <1>16 DEF newPos, newVault, burn
<1>. QED  BY <1>15, <1>17, <1>18 DEF v, pos

\* Raydium's fees accrue within the bound.
LEMMA AccrueFeesType ==
  ASSUME TypeOK, NEW s \in Strategies, NEW fees \in FeeAccruals, AccrueFees(s, fees)
  PROVE  TypeOK'
<1>1. fees \in [Legs -> Nat] /\ fees_owed[s] \in [Legs -> Nat]
  BY InvestAssumption DEF TypeOK
<1>2. [k \in Legs |-> fees_owed[s][k] + fees[k]] \in [Legs -> Nat]
  BY <1>1
<1>3. fees_owed' \in [Strategies -> [Legs -> Nat]]
  BY <1>2 DEF AccrueFees, TypeOK
<1>. QED  BY <1>3 DEF AccrueFees, TypeOK, CreationTypeOK, creationVars
-----------------------------------------------------------------------------
(* The invariant of the whole program, and its steps.                      *)

\* What the creators' instructions rely on stays true while investors act.
Inv == TypeOK /\ CreationInv

\* An investor's instruction leaves the registry as it is.
LEMMA CreationInvKept ==
  ASSUME CreationInv, CreationTypeOK',
         UNCHANGED vault_strategy_config,
         \A s \in Strategies :
           /\ vault_strategy'[s].initialized = vault_strategy[s].initialized
           /\ vault_strategy'[s].percentage = vault_strategy[s].percentage
  PROVE  CreationInv'
<1>1. UnknownIsEmpty'
  BY DEF CreationInv, UnknownIsEmpty
<1>2. AllocationBounded'
  BY DEF CreationInv, AllocationBounded
<1>3. ActiveFullyAllocated'
  BY DEF CreationInv, ActiveFullyAllocated
<1>4. RegistryAgrees'
  BY RegistryKept DEF CreationInv
<1>. QED  BY <1>1, <1>2, <1>3, <1>4 DEF CreationInv

\* A vault's totals are updated, not what makes it a strategy.
LEMMA VaultUpdate ==
  ASSUME TypeOK, NEW s \in Strategies, NEW v,
         vault_strategy' = [vault_strategy EXCEPT ![s] = v],
         v.initialized = vault_strategy[s].initialized,
         v.percentage = vault_strategy[s].percentage
  PROVE  \A t \in Strategies :
           /\ vault_strategy'[t].initialized = vault_strategy[t].initialized
           /\ vault_strategy'[t].percentage = vault_strategy[t].percentage
  BY DEF TypeOK, CreationTypeOK

\* The initial state satisfies the invariant.
LEMMA InitInv ==
  ASSUME Init
  PROVE  Inv
<1>1. CreationInv
  BY CreationInitInv DEF Init
<1>2. NoReserve \in ReserveType /\ NoTokens \in [Legs -> Nat]
  BY FreshReserve DEF NoTokens
<1>3. TypeOK
  BY <1>1, <1>2 DEF Init, CreationInv, TypeOK
<1>. QED  BY <1>1, <1>3 DEF Inv

\* The effects of the investors' and the pool's steps on the invariant.
LEMMA InvestorStep ==
  ASSUME Inv, InvestorNext \/ PoolNext
  PROVE  Inv'
<1>. USE DEF Inv
<1>1. ASSUME NEW u \in Users, NEW amount \in Amounts,
             DepositToEscrow(u, amount) \/ WithdrawFromEscrow(u, amount)
      PROVE  Inv'
  <2>1. TypeOK'
    BY <1>1, AmountType, DepositToEscrowType
  <2>. QED  BY <1>1, <2>1, CreationInvKept DEF DepositToEscrow, WithdrawFromEscrow, TypeOK
<1>2. ASSUME NEW u \in Users, NEW amount \in Amounts, NEW c \in Configs,
             InvestReserve(u, c, amount)
      PROVE  Inv'
  <2>1. TypeOK'
    BY <1>2, AmountType, InvestReserveEffect
  <2>. QED  BY <1>2, <2>1, CreationInvKept DEF InvestReserve, creationVars, TypeOK
<1>3. ASSUME NEW u \in Users, NEW s \in Strategies, NEW range \in Ranges,
             NEW split \in Splits, NEW slippage \in Slippages,
             SwapToRatio(u, s, range, split, slippage)
      PROVE  Inv'
  <2>1. TypeOK'
    BY <1>3, SwapToRatioEffect
  <2>2. UNCHANGED <<vault_strategy_config, vault_strategy>>
    BY <1>3 DEF SwapToRatio, creationVars
  <2>. QED  BY <2>1, <2>2, CreationInvKept DEF TypeOK
<1>4. ASSUME NEW u \in Users, NEW s \in Strategies, NEW range \in Ranges,
             AddLiquidity(u, s, range)
      PROVE  Inv'
  <2>1. TypeOK' /\ UNCHANGED vault_strategy_config
    BY <1>4, AddLiquidityEffect
  <2>2. PICK newPos \in PositionType, amount \in Nat :
          vault_strategy' = [vault_strategy EXCEPT
             ![s] = AddShares(AddAssets(vault_strategy[s], amount), newPos.shares)]
    BY <1>4, AddLiquidityEffect
  <2>. DEFINE v == AddShares(AddAssets(vault_strategy[s], amount), newPos.shares)
  <2>3. vault_strategy[s] \in VaultType
    BY DEF TypeOK, CreationTypeOK
  <2>4. /\ v.initialized = vault_strategy[s].initialized
        /\ v.percentage = vault_strategy[s].percentage
    BY <2>3 DEF AddShares, AddAssets, VaultType
  <2>. HIDE DEF v
  <2>5. vault_strategy' = [vault_strategy EXCEPT ![s] = v]
    BY <2>2 DEF v
  <2>. QED  BY <2>1, <2>4, <2>5, VaultUpdate, CreationInvKept DEF TypeOK
<1>5. ASSUME NEW u \in Users, NEW s \in Strategies,
             NEW percentage \in RemovePercentages, NEW range \in Ranges,
             RemoveLiquidity(u, s, percentage, range)
      PROVE  Inv'
  <2>1. TypeOK' /\ UNCHANGED vault_strategy_config
    BY <1>5, RemoveLiquidityEffect
  <2>2. PICK burn \in U64, assets \in Nat :
          vault_strategy' = [vault_strategy EXCEPT
             ![s] = RemoveShares(RemoveAssets(vault_strategy[s], assets), burn)]
    BY <1>5, RemoveLiquidityEffect
  <2>. DEFINE v == RemoveShares(RemoveAssets(vault_strategy[s], assets), burn)
  <2>3. vault_strategy[s] \in VaultType
    BY DEF TypeOK, CreationTypeOK
  <2>4. /\ v.initialized = vault_strategy[s].initialized
        /\ v.percentage = vault_strategy[s].percentage
    BY <2>3 DEF RemoveShares, RemoveAssets, VaultType
  <2>. HIDE DEF v
  <2>5. vault_strategy' = [vault_strategy EXCEPT ![s] = v]
    BY <2>2 DEF v
  <2>. QED  BY <2>1, <2>4, <2>5, VaultUpdate, CreationInvKept DEF TypeOK
<1>6. ASSUME NEW s \in Strategies, NEW fees \in FeeAccruals, AccrueFees(s, fees)
      PROVE  Inv'
  <2>1. TypeOK'
    BY <1>6, AccrueFeesType
  <2>. QED  BY <1>6, <2>1, CreationInvKept DEF AccrueFees, creationVars, TypeOK
<1>. QED  BY <1>1, <1>2, <1>3, <1>4, <1>5, <1>6 DEF InvestorNext, PoolNext

\* Every step of the program preserves the invariant.
LEMMA InvStep ==
  ASSUME Inv, [Next]_vars
  PROVE  Inv'
<1>. USE DEF Inv
<1>1. CASE CreationNext /\ UNCHANGED investVars
  <2>1. CreationInv'
    BY <1>1, CreationStep
  <2>. QED  BY <1>1, <2>1 DEF TypeOK, CreationInv, investVars
<1>2. CASE InvestorNext \/ PoolNext
  BY <1>2, InvestorStep
<1>3. CASE UNCHANGED vars
  <2>1. CreationInv'
    BY <1>3, CreationStutter DEF vars
  <2>. QED  BY <1>3, <2>1 DEF TypeOK, CreationInv, vars, investVars
<1>. QED  BY <1>1, <1>2, <1>3 DEF Next

\* The invariant of the creators' instructions and the types hold in every
\* reachable state of the whole program.
THEOREM Invariant == Spec => []Inv
<1>1. Init => Inv
  BY InitInv
<1>2. Inv /\ [Next]_vars => Inv'
  BY InvStep
<1>. QED  BY <1>1, <1>2, PTL DEF Spec

\* Every account and every balance of the program keeps its type: in particular
\* no instruction, in any order, takes a token balance below zero.
THEOREM TypeCorrect == Spec => []TypeOK
<1>1. Inv => TypeOK
  BY DEF Inv
<1>. QED  BY <1>1, Invariant, PTL

-----------------------------------------------------------------------------
(* The shared USDC escrow.                                                 *)

\* One investor's reserve changes, and the escrow by at least as much as what
\* that reserve may still spend.
LEMMA SolventStep ==
  ASSUME TypeOK, TypeOK', ReservesSolvent,
         NEW u \in Users, NEW c \in Configs, NEW r \in ReserveType,
         reserve' = [reserve EXCEPT ![u][c] = r],
         UnspentOf(r) >= 0,
         UnspentOf(r) - UnspentOf(reserve[u][c]) <= usdc_escrow'[c] - usdc_escrow[c],
         \A d \in Configs \ {c} : usdc_escrow'[d] = usdc_escrow[d]
  PROVE  ReservesSolvent'
<1>. DEFINE f(d) == [w \in Users |-> Unspent(w, d)]
            g(d) == [w \in Users |-> UnspentOf(reserve'[w][d])]
<1>1. /\ \A w \in Users, d \in Configs : ~(w = u /\ d = c) => reserve'[w][d] = reserve[w][d]
      /\ reserve'[u][c] = r
  BY ReserveUpdate
<1>2. \A w \in Users, d \in Configs :
        f(d)[w] \in Nat /\ f(d)[w] = UnspentOf(reserve[w][d])
  <2>. TAKE w \in Users, d \in Configs
  <2>1. reserve[w][d] \in ReserveType
    BY DEF TypeOK
  <2>2. UnspentOf(reserve[w][d]) \in Int
    BY <2>1, ReserveFacts
  <2>3. Unspent(w, d) = UnspentOf(reserve[w][d])
    BY DEF Unspent, UnspentOf
  <2>. QED  BY <2>2, <2>3 DEF ReservesSolvent
<1>3. UnspentOf(r) \in Nat
  <2>1. UnspentOf(r) \in Int
    BY ReserveFacts
  <2>. QED  BY <2>1
<1>4. \A w \in Users, d \in Configs : g(d)[w] \in Nat
  <2>. TAKE w \in Users, d \in Configs
  <2>1. CASE w = u /\ d = c
    BY <1>1, <1>3, <2>1
  <2>2. CASE ~(w = u /\ d = c)
    BY <1>1, <1>2, <2>2
  <2>. QED  BY <2>1, <2>2
<1>5. \A w \in Users, d \in Configs : Unspent(w, d)' = g(d)[w]
  BY DEF Unspent, UnspentOf
<1>6. ASSUME NEW d \in Configs
      PROVE  SumOver(Users, g(d)) <= usdc_escrow'[d]
  <2>1. SumOver(Users, f(d)) <= usdc_escrow[d]
    BY DEF ReservesSolvent
  <2>2. CASE d = c
    <3>. DEFINE a == f(c)
                b == g(c)
    <3>1. IsFiniteSet(Users)
      BY InvestAssumption
    <3>2. /\ \A w \in Users : a[w] \in Nat
          /\ \A w \in Users : b[w] \in Nat
          /\ \A w \in Users \ {u} : b[w] = a[w]
          /\ a[u] = UnspentOf(reserve[u][c]) /\ b[u] = UnspentOf(r)
      BY <1>1, <1>2, <1>4
    <3>3. SumOver(Users, a) <= usdc_escrow[c]
      BY <2>1, <2>2
    <3>. HIDE DEF a, b
    <3>4. /\ SumOver(Users, a) \in Nat
          /\ SumOver(Users, b) = SumOver(Users, a) - a[u] + b[u]
      BY <3>1, <3>2, SumUpdate
    <3>5. usdc_escrow[c] \in Nat /\ usdc_escrow'[c] \in Nat
      BY DEF TypeOK
    <3>6. a[u] \in Nat /\ b[u] \in Nat /\ b[u] - a[u] <= usdc_escrow'[c] - usdc_escrow[c]
      BY <3>2
    <3>7. SumOver(Users, b) <= usdc_escrow'[c]
      BY <3>3, <3>4, <3>5, <3>6
    <3>. QED  BY <2>2, <3>7 DEF b
  <2>3. CASE d # c
    <3>1. \A w \in Users : g(d)[w] = f(d)[w]
      BY <1>1, <1>2, <2>3
    <3>2. SumOver(Users, g(d)) = SumOver(Users, f(d))
      BY <3>1, SumCongruent
    <3>3. usdc_escrow'[d] = usdc_escrow[d]
      BY <2>3
    <3>. QED  BY <2>1, <3>2, <3>3
  <2>. QED  BY <2>2, <2>3
<1>7. \A d \in Configs : SumOver(Users, [w \in Users |-> Unspent(w, d)])' = SumOver(Users, g(d))
  BY DEF Unspent, UnspentOf
<1>8. \A w \in Users, d \in Configs : Unspent(w, d)' >= 0
  BY <1>4, <1>5
<1>. HIDE DEF f, g
<1>. QED  BY <1>6, <1>7, <1>8 DEF ReservesSolvent
\* Steps that touch neither a reserve nor the USDC escrow.
LEMMA SolventKept ==
  ASSUME ReservesSolvent, UNCHANGED <<reserve, usdc_escrow>>
  PROVE  ReservesSolvent'
  BY DEF ReservesSolvent, Unspent

\* Nothing is reserved at first.
LEMMA SolventInit ==
  ASSUME Init
  PROVE  ReservesSolvent
<1>1. 0 \in Nat /\ UnspentOf(NoReserve) = 0
  BY FreshReserve
<1>2. \A u \in Users, c \in Configs : Unspent(u, c) = 0
  BY <1>1 DEF Init, Unspent, UnspentOf
<1>3. \A c \in Configs : SumOver(Users, [u \in Users |-> Unspent(u, c)]) = 0
  BY <1>2, SumZero
<1>. QED  BY <1>2, <1>3 DEF ReservesSolvent, Init

\* Every step keeps the shared escrow solvent.
LEMMA SolventNext ==
  ASSUME Inv, Inv', ReservesSolvent, [Next]_vars
  PROVE  ReservesSolvent'
<1>. USE DEF Inv
<1>1. CASE UNCHANGED vars \/ (CreationNext /\ UNCHANGED investVars)
  BY <1>1, SolventKept DEF vars, investVars
<1>2. ASSUME NEW u \in Users, NEW amount \in Amounts,
             DepositToEscrow(u, amount) \/ WithdrawFromEscrow(u, amount)
      PROVE  ReservesSolvent'
  BY <1>2, SolventKept DEF DepositToEscrow, WithdrawFromEscrow
<1>3. ASSUME NEW u \in Users, NEW amount \in Amounts, NEW c \in Configs,
             InvestReserve(u, c, amount)
      PROVE  ReservesSolvent'
  <2>. DEFINE r == InitializeReserve(amount)
  <2>1. /\ amount \in Nat
        /\ reserve' = [reserve EXCEPT ![u][c] = r]
        /\ usdc_escrow' = [usdc_escrow EXCEPT ![c] = usdc_escrow[c] + amount]
    BY <1>3, AmountType, InvestReserveEffect
  <2>2. r \in ReserveType /\ UnspentOf(r) = amount
    BY <2>1, FreshReserve
  <2>. HIDE DEF r
  <2>3. /\ usdc_escrow[c] \in Nat /\ usdc_escrow'[c] = usdc_escrow[c] + amount
        /\ \A d \in Configs \ {c} : usdc_escrow'[d] = usdc_escrow[d]
    BY <2>1 DEF TypeOK
  <2>4. UnspentOf(reserve[u][c]) >= 0 /\ UnspentOf(reserve[u][c]) \in Int
    <3>1. reserve[u][c] \in ReserveType
      BY DEF TypeOK
    <3>. QED  BY <3>1, ReserveFacts DEF ReservesSolvent, Unspent, UnspentOf
  <2>5. /\ UnspentOf(r) >= 0
        /\ UnspentOf(r) - UnspentOf(reserve[u][c]) <= usdc_escrow'[c] - usdc_escrow[c]
    BY <2>1, <2>2, <2>3, <2>4
  <2>. QED  BY <2>1, <2>2, <2>3, <2>5, SolventStep
<1>4. ASSUME NEW u \in Users, NEW s \in Strategies, NEW range \in Ranges,
             NEW split \in Splits, NEW slippage \in Slippages,
             SwapToRatio(u, s, range, split, slippage)
      PROVE  ReservesSolvent'
  <2>. DEFINE c == ConfigOf[s]
  <2>1. c \in Configs
    BY CreationAssumption
  <2>2. PICK entry \in SwapType :
          /\ entry.amount_in <= usdc_escrow[c]
          /\ entry.amount_in <= UnspentOf(reserve[u][c])
          /\ reserve' = [reserve EXCEPT
                ![u][c] = AddSwapToRatioVault(reserve[u][c], entry)]
          /\ usdc_escrow' = [usdc_escrow EXCEPT
                               ![c] = usdc_escrow[c] - entry.amount_in]
    BY <1>4, SwapToRatioEffect
  <2>. HIDE DEF c
  <2>. DEFINE r == AddSwapToRatioVault(reserve[u][c], entry)
  <2>3. reserve[u][c] \in ReserveType /\ entry.amount_in \in Nat /\ usdc_escrow[c] \in Nat
    BY <2>1 DEF TypeOK, SwapType
  <2>4. /\ r \in ReserveType /\ UnspentOf(reserve[u][c]) \in Int
        /\ UnspentOf(r) = UnspentOf(reserve[u][c]) - entry.amount_in
    BY <2>3, AddSwapEffect, ReserveFacts
  <2>. HIDE DEF r
  <2>5. /\ usdc_escrow'[c] = usdc_escrow[c] - entry.amount_in
        /\ \A d \in Configs \ {c} : usdc_escrow'[d] = usdc_escrow[d]
    BY <2>1, <2>2 DEF TypeOK
  <2>6. /\ UnspentOf(r) >= 0
        /\ UnspentOf(r) - UnspentOf(reserve[u][c]) <= usdc_escrow'[c] - usdc_escrow[c]
    BY <2>2, <2>3, <2>4, <2>5
  <2>7. reserve' = [reserve EXCEPT ![u][c] = r]
    BY <2>2 DEF r
  <2>. QED  BY <2>1, <2>4, <2>5, <2>6, <2>7, SolventStep
<1>5. ASSUME NEW u \in Users, NEW s \in Strategies, NEW range \in Ranges,
             AddLiquidity(u, s, range)
      PROVE  ReservesSolvent'
  <2>. DEFINE c == ConfigOf[s]
  <2>1. c \in Configs
    BY CreationAssumption
  <2>2. PICK r \in ReserveType :
          /\ reserve' = [reserve EXCEPT ![u][c] = r]
          /\ UnspentOf(r) = UnspentOf(reserve[u][c]) \/ UnspentOf(r) = 0
    BY <1>5, AddLiquidityEffect
  <2>3. UNCHANGED usdc_escrow
    BY <1>5, AddLiquidityEffect
  <2>. HIDE DEF c
  <2>4. UnspentOf(reserve[u][c]) \in Int /\ UnspentOf(reserve[u][c]) >= 0
    <3>1. reserve[u][c] \in ReserveType
      BY <2>1 DEF TypeOK
    <3>. QED  BY <2>1, <3>1, ReserveFacts DEF ReservesSolvent, Unspent, UnspentOf
  <2>5. usdc_escrow[c] \in Nat
    BY <2>1 DEF TypeOK
  <2>6. /\ UnspentOf(r) >= 0
        /\ UnspentOf(r) - UnspentOf(reserve[u][c]) <= usdc_escrow'[c] - usdc_escrow[c]
    BY <2>2, <2>3, <2>4, <2>5
  <2>. QED  BY <2>1, <2>2, <2>3, <2>6, SolventStep
<1>6. ASSUME NEW u \in Users, NEW s \in Strategies,
             NEW percentage \in RemovePercentages, NEW range \in Ranges,
             RemoveLiquidity(u, s, percentage, range)
      PROVE  ReservesSolvent'
  BY <1>6, SolventKept DEF RemoveLiquidity
<1>7. ASSUME NEW s \in Strategies, NEW fees \in FeeAccruals, AccrueFees(s, fees)
      PROVE  ReservesSolvent'
  BY <1>7, SolventKept DEF AccrueFees
<1>. QED  BY <1>1, <1>2, <1>3, <1>4, <1>5, <1>6, <1>7
          DEF Next, InvestorNext, PoolNext

\* The USDC escrow of a config covers what all its investors may still swap,
\* for any number of investors and whatever they overwrite or clean up.
THEOREM SolvencyTheorem == Spec => []ReservesSolvent
<1>1. Init => ReservesSolvent
  BY SolventInit
<1>2. Inv /\ Inv' /\ ReservesSolvent /\ [Next]_vars => ReservesSolvent'
  BY SolventNext
<1>. QED  BY <1>1, <1>2, Invariant, PTL DEF Spec

-----------------------------------------------------------------------------
(* The swaps a reserve lists: what a swap without liquidity, and a deposit *)
(* of the only swap of a strategy, leave behind.                           *)

\* A reserve that is set up or cleaned up lists nothing.
LEMMA NoEntries ==
  ASSUME NEW amount, NEW t
  PROVE  EntriesOf(InitializeReserve(amount), t) = {} /\ EntriesOf(NoReserve, t) = {}
<1>1. DOMAIN <<>> = {}
  OBVIOUS
<1>. QED  BY <1>1 DEF EntriesOf, InitializeReserve, NoReserve

\* A swap adds a place of its own strategy only.
LEMMA EntriesAfterSwap ==
  ASSUME NEW r \in ReserveType, NEW entry \in SwapType,
         NEW t, entry.vault_strategy_key # t
  PROVE  EntriesOf(AddSwapToRatioVault(r, entry), t) = EntriesOf(r, t)
<1>. DEFINE q == r.swap_to_ratio_vaults
<1>1. q \in Seq(SwapType)
  BY DEF ReserveType
<1>2. AddSwapToRatioVault(r, entry).swap_to_ratio_vaults = Append(q, entry)
  BY DEF AddSwapToRatioVault, ReserveType
<1>3. /\ Len(q) \in Nat /\ DOMAIN q = 1..Len(q)
      /\ DOMAIN Append(q, entry) = 1..(Len(q) + 1)
      /\ \A n \in 1..Len(q) : Append(q, entry)[n] = q[n]
      /\ Append(q, entry)[Len(q) + 1] = entry
  BY <1>1
<1>4. \A n \in 1..(Len(q) + 1) : n \in 1..Len(q) \/ n = Len(q) + 1
  BY <1>3
<1>. HIDE DEF q
<1>. QED  BY <1>2, <1>3, <1>4 DEF EntriesOf, q

\* Marking a swap executed moves no place, and marks the first of the strategy.
LEMMA EntriesAfterExecuted ==
  ASSUME NEW r \in ReserveType, NEW s, EntriesOf(r, s) # {}
  PROVE  /\ \A t : EntriesOf(SetSwapToRatioExecuted(r, s), t) = EntriesOf(r, t)
         /\ First(EntriesOf(r, s))
              \notin PendingEntries(SetSwapToRatioExecuted(r, s), s)
<1>. DEFINE q   == r.swap_to_ratio_vaults
            i   == First(EntriesOf(r, s))
            e   == [q[i] EXCEPT !.executed = TRUE]
            new == SetSwapToRatioExecuted(r, s)
<1>1. q \in Seq(SwapType)
  BY DEF ReserveType
<1>2. i \in DOMAIN q
  <2>1. DOMAIN q = 1..Len(q) /\ DOMAIN q \subseteq Nat
    BY <1>1
  <2>2. EntriesOf(r, s) \in SUBSET Nat /\ EntriesOf(r, s) \subseteq DOMAIN q
    BY <2>1 DEF EntriesOf
  <2>. QED  BY <2>2, FirstIsMember
<1>3. e.vault_strategy_key = q[i].vault_strategy_key /\ e.executed
  <2>1. q[i] \in SwapType
    BY <1>1, <1>2
  <2>. HIDE DEF i, q
  <2>. QED  BY <2>1 DEF SwapType
<1>4. new.swap_to_ratio_vaults = [q EXCEPT ![i] = e]
  BY DEF SetSwapToRatioExecuted, ReserveType
<1>. HIDE DEF e, i, new
<1>5. /\ DOMAIN new.swap_to_ratio_vaults = DOMAIN q
      /\ new.swap_to_ratio_vaults[i] = e
      /\ \A n \in DOMAIN q : n # i => new.swap_to_ratio_vaults[n] = q[n]
  BY <1>1, <1>2, <1>4
<1>. HIDE DEF q
<1>6. \A t : EntriesOf(new, t) = EntriesOf(r, t)
  BY <1>3, <1>5 DEF EntriesOf, q
<1>7. i \notin PendingEntries(new, s)
  BY <1>3, <1>5 DEF PendingEntries
<1>. QED  BY <1>6, <1>7 DEF new, i

\* A strategy whose position is empty and whose token 0 is not USDC has nothing
\* to swap into leg 0.
LEMMA SwapNeedsLiquidity ==
  ASSUME NEW u \in Users, NEW s \in Strategies, NEW range, NEW split, NEW slippage,
         SwapToRatio(u, s, range, split, slippage)
  PROVE  liquidity[s] # 0 \/ LegMint[ConfigOf[s]][0] = USDC
<1>. DEFINE c == ConfigOf[s]
            in == RatioAmounts(s, UsdcAmount(reserve[u][c].reserved_amount,
                                             vault_strategy[s].percentage), range, split)
<1>1. CanSwapLeg(c, 0, in[0])
  BY DEF SwapToRatio, Legs
<1>2. liquidity[s] = 0 => in[0] = 0
  BY DEF RatioAmounts, Legs
<1>. HIDE DEF in
<1>. QED  BY <1>1, <1>2 DEF CanSwapLeg

\* The entry that a swap records is one of its own strategy.
LEMMA SwapEntry ==
  ASSUME TypeOK, NEW u \in Users, NEW s \in Strategies, NEW range \in Ranges,
         NEW split \in Splits, NEW slippage \in Slippages,
         SwapToRatio(u, s, range, split, slippage)
  PROVE  \E entry \in SwapType :
           /\ entry.vault_strategy_key = s
           /\ reserve' = [reserve EXCEPT
                ![u][ConfigOf[s]] = AddSwapToRatioVault(reserve[u][ConfigOf[s]], entry)]
<1>. DEFINE c == ConfigOf[s]
            r == reserve[u][c]
            usdc_amount == UsdcAmount(r.reserved_amount, vault_strategy[s].percentage)
            in == RatioAmounts(s, usdc_amount, range, split)
            out == [k \in Legs |-> SwapLeg(c, k, in[k], slippage)]
            entry == SwapToRatioVault(s, usdc_amount, out)
<1>1. c \in Configs /\ slippage \in Nat
  BY CreationAssumption, InvestAssumption
<1>2. /\ r.reserved_amount \in Nat /\ vault_strategy[s].percentage \in Nat
      /\ MAX_PERCENTAGE \in Nat \ {0}
  BY <1>1, ScaleAssumption DEF TypeOK, CreationTypeOK, ReserveType, VaultType
<1>3. usdc_amount \in Nat
  <2>1. SatMul(r.reserved_amount, vault_strategy[s].percentage) \in Nat
    BY <1>2, U64Type
  <2>. QED  BY <1>2, <2>1, QuotientType DEF UsdcAmount
<1>4. in \in [Legs -> Nat]
  BY <1>3, RatioType
<1>. HIDE DEF usdc_amount, in, c
<1>5. out \in [Legs -> Nat]
  BY <1>1, <1>4 DEF SwapLeg, SatSub
<1>. HIDE DEF out
<1>6. entry \in SwapType /\ entry.vault_strategy_key = s
  BY <1>3, <1>5 DEF SwapToRatioVault, SwapType
<1>7. reserve' = [reserve EXCEPT ![u][c] = AddSwapToRatioVault(r, entry)]
  BY DEF SwapToRatio, c, in, out, usdc_amount
<1>. HIDE DEF entry
<1>. QED  BY <1>6, <1>7 DEF c

\* A reserve lists a strategy that it did not list only after a swap, which
\* needs the strategy and something for leg 0.
LEMMA EntriesStep ==
  ASSUME TypeOK, [Next]_vars, NEW w \in Users, NEW t \in Strategies,
         EntriesOf(reserve[w][ConfigOf[t]], t) = {},
         EntriesOf(reserve'[w][ConfigOf[t]], t) # {}
  PROVE  /\ vault_strategy[t].initialized
         /\ liquidity[t] # 0 \/ LegMint[ConfigOf[t]][0] = USDC
<1>. DEFINE d == ConfigOf[t]
<1>0. d \in Configs /\ \A s \in Strategies : ConfigOf[s] \in Configs
  BY CreationAssumption
<1>. HIDE DEF d
<1>1. ASSUME UNCHANGED reserve PROVE FALSE
  BY <1>1
<1>2. ASSUME NEW u \in Users, NEW c \in Configs, NEW r,
             reserve' = [reserve EXCEPT ![u][c] = r],
             EntriesOf(r, t) = {} \/ (c = d => EntriesOf(r, t) = EntriesOf(reserve[u][c], t))
      PROVE  FALSE
  BY <1>0, <1>2 DEF TypeOK, d
<1>3. ASSUME NEW u \in Users, NEW amount \in Amounts, NEW c \in Configs,
             InvestReserve(u, c, amount)
      PROVE  FALSE
  <2>1. reserve' = [reserve EXCEPT ![u][c] = InitializeReserve(amount)]
    BY <1>3 DEF InvestReserve
  <2>2. EntriesOf(InitializeReserve(amount), t) = {}
    BY NoEntries
  <2>. QED  BY <1>2, <2>1, <2>2
<1>4. ASSUME NEW u \in Users, NEW s \in Strategies, NEW range \in Ranges,
             NEW split \in Splits, NEW slippage \in Slippages,
             SwapToRatio(u, s, range, split, slippage)
      PROVE  /\ vault_strategy[t].initialized
             /\ liquidity[t] # 0 \/ LegMint[ConfigOf[t]][0] = USDC
  <2>1. CASE s = t
    <3>1. vault_strategy[s].initialized
      BY <1>4 DEF SwapToRatio
    <3>2. liquidity[s] # 0 \/ LegMint[ConfigOf[s]][0] = USDC
      BY <1>4, SwapNeedsLiquidity
    <3>. QED  BY <2>1, <3>1, <3>2
  <2>2. CASE s # t
    <3>. DEFINE c == ConfigOf[s]
    <3>1. PICK entry \in SwapType :
            /\ entry.vault_strategy_key = s
            /\ reserve' = [reserve EXCEPT ![u][c] = AddSwapToRatioVault(reserve[u][c], entry)]
      BY <1>4, SwapEntry
    <3>2. c \in Configs /\ reserve[u][c] \in ReserveType
      BY <1>0 DEF TypeOK
    <3>3. EntriesOf(AddSwapToRatioVault(reserve[u][c], entry), t) = EntriesOf(reserve[u][c], t)
      BY <2>2, <3>1, <3>2, EntriesAfterSwap
    <3>. HIDE DEF c
    <3>. QED  BY <1>2, <3>1, <3>2, <3>3
  <2>. QED  BY <2>1, <2>2
<1>5. ASSUME NEW u \in Users, NEW s \in Strategies, NEW range \in Ranges,
             AddLiquidity(u, s, range)
      PROVE  FALSE
  <2>. DEFINE c == ConfigOf[s]
              r == reserve[u][c]
              new == IF IsLastStrategy(c, s) THEN CleanUp(r) ELSE SetSwapToRatioExecuted(r, s)
  <2>1. /\ reserve' = [reserve EXCEPT ![u][c] = new]
        /\ EntriesOf(r, s) # {}
    BY <1>5 DEF AddLiquidity, PendingEntries
  <2>2. c \in Configs /\ r \in ReserveType
    BY <1>0 DEF TypeOK
  <2>3. EntriesOf(new, t) = {} \/ EntriesOf(new, t) = EntriesOf(r, t)
    BY <2>1, <2>2, NoEntries, EntriesAfterExecuted DEF CleanUp
  <2>. HIDE DEF c, new
  <2>. QED  BY <1>2, <2>1, <2>2, <2>3
<1>6. ASSUME NEW u \in Users, NEW amount \in Amounts,
             DepositToEscrow(u, amount) \/ WithdrawFromEscrow(u, amount)
      PROVE  FALSE
  BY <1>1, <1>6 DEF DepositToEscrow, WithdrawFromEscrow
<1>7. ASSUME NEW u \in Users, NEW s \in Strategies,
             NEW percentage \in RemovePercentages, NEW range \in Ranges,
             RemoveLiquidity(u, s, percentage, range)
      PROVE  FALSE
  BY <1>1, <1>7 DEF RemoveLiquidity
<1>8. ASSUME NEW s \in Strategies, NEW fees \in FeeAccruals, AccrueFees(s, fees)
      PROVE  FALSE
  BY <1>1, <1>8 DEF AccrueFees
<1>9. ASSUME UNCHANGED vars \/ (CreationNext /\ UNCHANGED investVars)
      PROVE  FALSE
  BY <1>1, <1>9 DEF vars, investVars
<1>. QED  BY <1>3, <1>4, <1>5, <1>6, <1>7, <1>8, <1>9 DEF Next, InvestorNext, PoolNext

\* What is removed from a position without liquidity is nothing.
LEMMA NothingToRemove ==
  ASSUME TypeOK, NEW u \in Users, NEW s \in Strategies,
         NEW percentage \in RemovePercentages, liquidity[s] = 0
  PROVE  Withdrawn(u, s, percentage) = 0
<1>1. /\ investor_strategy_position[u][s].shares \in U64
      /\ vault_strategy[s].total_shares \in U64
  BY DEF TypeOK, CreationTypeOK, PositionType, VaultType
<1>2. PartOf(u, s) \in Nat /\ percentage \in Nat
  BY <1>1, PartType, InvestAssumption DEF PartOf
<1>3. MAX_REMOVE_PERCENTAGE \in Nat \ {0} /\ DENOMINATOR_MULTIPLIER \in Nat \ {0}
  BY ScaleAssumption
<1>. DEFINE q == (PartOf(u, s) * percentage) \div MAX_REMOVE_PERCENTAGE
<1>4. q \in Nat
  <2>1. PartOf(u, s) * percentage \in Nat
    BY <1>2
  <2>. QED  BY <1>3, <2>1, QuotientType
<1>. HIDE DEF q
<1>5. q * 0 = 0 /\ 0 \div DENOMINATOR_MULTIPLIER = 0
  BY <1>3, <1>4
<1>. QED  BY <1>5 DEF Withdrawn, LiquidityToRemove, q

\* Without liquidity and without a swap on the way, liquidity does not return.
LEMMA DrainedLiquidity ==
  ASSUME TypeOK, [Next]_vars, NEW t \in Strategies,
         vault_strategy[t].initialized, liquidity[t] = 0,
         \A w \in Users : EntriesOf(reserve[w][ConfigOf[t]], t) = {}
  PROVE  liquidity'[t] = 0
<1>0. liquidity \in [Strategies -> Nat]
  BY DEF TypeOK, CreationTypeOK
<1>1. ASSUME NEW s \in Strategies, s # t, NEW l,
             liquidity' = [liquidity EXCEPT ![s] = l]
      PROVE  liquidity'[t] = 0
  BY <1>0, <1>1
<1>2. CASE UNCHANGED liquidity
  BY <1>2
<1>3. ASSUME NEW u \in Users, NEW s \in Strategies, NEW range \in Ranges,
             AddLiquidity(u, s, range)
      PROVE  liquidity'[t] = 0
  <2>1. s # t
    BY <1>3 DEF AddLiquidity, PendingEntries
  <2>2. PICK liq : liquidity' = [liquidity EXCEPT ![s] = liquidity[s] + liq]
    BY <1>3, AddLiquidityEffect
  <2>. QED  BY <1>1, <2>1, <2>2
<1>4. ASSUME NEW u \in Users, NEW s \in Strategies,
             NEW percentage \in RemovePercentages, NEW range \in Ranges,
             RemoveLiquidity(u, s, percentage, range)
      PROVE  liquidity'[t] = 0
  <2>1. liquidity' = [liquidity EXCEPT ![s] = liquidity[s] - Withdrawn(u, s, percentage)]
    BY <1>4 DEF RemoveLiquidity
  <2>2. CASE s = t
    <3>1. Withdrawn(u, t, percentage) = 0
      BY NothingToRemove
    <3>. QED  BY <1>0, <2>1, <2>2, <3>1
  <2>. QED  BY <1>1, <2>1, <2>2
<1>5. CASE CreationNext
  <2>1. ASSUME NEW s \in Strategies, NEW percentage, NEW amount_max, NEW price, NEW range,
               CreateRaydiumVaultStrategy(s, percentage, amount_max, price, range)
        PROVE  liquidity'[t] = 0
    <3>1. s # t
      BY <2>1 DEF CreateRaydiumVaultStrategy, CanInitializeVault
    <3>2. liquidity' = [liquidity EXCEPT
                          ![s] = liquidity[s] + LiquidityFromAmounts(range, amount_max)]
      BY <2>1 DEF CreateRaydiumVaultStrategy
    <3>. QED  BY <1>1, <3>1, <3>2
  <2>. QED  BY <1>2, <1>5, <2>1
            DEF CreationNext, AdminNext, CreatorNext, InitProtocolConfig, PauseProtocol,
                UnpauseProtocol, SwitchProtocol, InitVaultStrategyConfig,
                ActivateVaultStrategyConfig
<1>6. ASSUME NEW u \in Users, NEW amount \in Amounts,
             DepositToEscrow(u, amount) \/ WithdrawFromEscrow(u, amount)
      PROVE  liquidity'[t] = 0
  BY <1>2, <1>6 DEF DepositToEscrow, WithdrawFromEscrow
<1>7. ASSUME NEW u \in Users, NEW amount \in Amounts, NEW c \in Configs,
             InvestReserve(u, c, amount)
      PROVE  liquidity'[t] = 0
  BY <1>2, <1>7 DEF InvestReserve, creationVars
<1>8. ASSUME NEW u \in Users, NEW s \in Strategies, NEW range \in Ranges,
             NEW split \in Splits, NEW slippage \in Slippages,
             SwapToRatio(u, s, range, split, slippage)
      PROVE  liquidity'[t] = 0
  BY <1>2, <1>8 DEF SwapToRatio, creationVars
<1>9. ASSUME NEW s \in Strategies, NEW fees \in FeeAccruals, AccrueFees(s, fees)
      PROVE  liquidity'[t] = 0
  BY <1>2, <1>9 DEF AccrueFees, creationVars
<1>10. CASE UNCHANGED vars
  BY <1>2, <1>10 DEF vars, creationVars
<1>. QED  BY <1>3, <1>4, <1>5, <1>6, <1>7, <1>8, <1>9, <1>10
          DEF Next, InvestorNext, PoolNext

\* A strategy whose token 0 is not USDC (calc_ratio_amounts_for_usdc gives it
\* nothing for leg 0) never comes back from an empty position, whoever invests
\* and in whatever order.
THEOREM DrainedTheorem == Spec => DrainedStaysDrained
<1>1. Inv /\ [Next]_vars => [\A s \in Strategies :
       /\ vault_strategy[s].initialized
       /\ liquidity[s] = 0
       /\ \A u \in Users : EntriesOf(reserve[u][ConfigOf[s]], s) = {}
       /\ LegMint[ConfigOf[s]][0] # USDC
       => \A u \in Users :
            /\ EntriesOf(reserve'[u][ConfigOf[s]], s) = {}
            /\ liquidity'[s] = 0]_vars
  <2>1. ASSUME Inv, [Next]_vars, NEW s \in Strategies,
               vault_strategy[s].initialized, liquidity[s] = 0,
               \A u \in Users : EntriesOf(reserve[u][ConfigOf[s]], s) = {},
               LegMint[ConfigOf[s]][0] # USDC, NEW u \in Users
        PROVE  EntriesOf(reserve'[u][ConfigOf[s]], s) = {} /\ liquidity'[s] = 0
    BY <2>1, EntriesStep, DrainedLiquidity DEF Inv
  <2>. QED  BY <2>1
<1>. QED  BY <1>1, Invariant, PTL DEF Spec, DrainedStaysDrained

\* No investor has swapped for a strategy that is not created yet.
SwapsOfCreated ==
  \A u \in Users, s \in Strategies :
    EntriesOf(reserve[u][ConfigOf[s]], s) # {} => vault_strategy[s].initialized

\* A strategy that was created stays so.
LEMMA CreatedStays ==
  ASSUME Inv, Inv', [Next]_vars, NEW s \in Strategies, vault_strategy[s].initialized
  PROVE  vault_strategy'[s].initialized
<1>0. TypeOK /\ vault_strategy \in [Strategies -> VaultType]
  BY DEF Inv, TypeOK, CreationTypeOK
<1>1. ASSUME NEW t \in Strategies, NEW v,
             vault_strategy' = [vault_strategy EXCEPT ![t] = v],
             v.initialized = vault_strategy[t].initialized \/ v.initialized
      PROVE  vault_strategy'[s].initialized
  BY <1>0, <1>1
<1>2. CASE UNCHANGED vault_strategy
  BY <1>2
<1>3. ASSUME NEW u \in Users, NEW t \in Strategies, NEW range \in Ranges,
             AddLiquidity(u, t, range)
      PROVE  vault_strategy'[s].initialized
  <2>1. PICK newPos \in PositionType, amount \in Nat :
          vault_strategy' = [vault_strategy EXCEPT
             ![t] = AddShares(AddAssets(vault_strategy[t], amount), newPos.shares)]
    BY <1>0, <1>3, AddLiquidityEffect
  <2>2. AddShares(AddAssets(vault_strategy[t], amount), newPos.shares).initialized
          = vault_strategy[t].initialized
    <3>1. vault_strategy[t] \in VaultType
      BY <1>0
    <3>. QED  BY <3>1 DEF AddShares, AddAssets, VaultType
  <2>. QED  BY <1>1, <2>1, <2>2
<1>4. ASSUME NEW u \in Users, NEW t \in Strategies,
             NEW percentage \in RemovePercentages, NEW range \in Ranges,
             RemoveLiquidity(u, t, percentage, range)
      PROVE  vault_strategy'[s].initialized
  <2>1. PICK burn \in U64, assets \in Nat :
          vault_strategy' = [vault_strategy EXCEPT
             ![t] = RemoveShares(RemoveAssets(vault_strategy[t], assets), burn)]
    BY <1>0, <1>4, RemoveLiquidityEffect
  <2>2. RemoveShares(RemoveAssets(vault_strategy[t], assets), burn).initialized
          = vault_strategy[t].initialized
    <3>1. vault_strategy[t] \in VaultType
      BY <1>0
    <3>. QED  BY <3>1 DEF RemoveShares, RemoveAssets, VaultType
  <2>. QED  BY <1>1, <2>1, <2>2
<1>5. CASE CreationNext
  <2>1. ASSUME NEW t \in Strategies, NEW percentage \in Percentages,
               NEW amount_max \in [Legs -> CreateAmounts],
               NEW price \in [Legs -> Prices], NEW range \in Ranges,
               CreateRaydiumVaultStrategy(t, percentage, amount_max, price, range)
        PROVE  vault_strategy'[s].initialized
    <3>1. /\ ~vault_strategy[t].initialized
          /\ \A d \in Strategies \ {t} : vault_strategy'[d] = vault_strategy[d]
      BY <1>0, <2>1, CreateEffect DEF TypeOK
    <3>2. s # t
      BY <3>1, Zenon
    <3>3. vault_strategy'[s] = vault_strategy[s]
      BY <3>1, <3>2
    <3>. QED  BY <3>3
  <2>. QED  BY <1>2, <1>5, <2>1
            DEF CreationNext, AdminNext, CreatorNext, InitProtocolConfig, PauseProtocol,
                UnpauseProtocol, SwitchProtocol, InitVaultStrategyConfig,
                ActivateVaultStrategyConfig
<1>6. ASSUME NEW u \in Users, NEW amount \in Amounts,
             \/ DepositToEscrow(u, amount) \/ WithdrawFromEscrow(u, amount)
             \/ \E c \in Configs : InvestReserve(u, c, amount)
      PROVE  vault_strategy'[s].initialized
  BY <1>2, <1>6 DEF DepositToEscrow, WithdrawFromEscrow, InvestReserve, creationVars
<1>7. ASSUME NEW u \in Users, NEW t \in Strategies, NEW range \in Ranges,
             NEW split \in Splits, NEW slippage \in Slippages,
             SwapToRatio(u, t, range, split, slippage)
      PROVE  vault_strategy'[s].initialized
  BY <1>2, <1>7 DEF SwapToRatio, creationVars
<1>8. ASSUME NEW t \in Strategies, NEW fees \in FeeAccruals, AccrueFees(t, fees)
      PROVE  vault_strategy'[s].initialized
  BY <1>2, <1>8 DEF AccrueFees, creationVars
<1>9. CASE UNCHANGED vars
  BY <1>2, <1>9 DEF vars, creationVars
<1>. QED  BY <1>3, <1>4, <1>5, <1>6, <1>7, <1>8, <1>9
          DEF Next, InvestorNext, PoolNext

\* Swaps are made for strategies that exist, in every reachable state.
LEMMA SwapsFollowCreation == Spec => []SwapsOfCreated
<1>1. ASSUME Init PROVE SwapsOfCreated
  <2>1. \A s \in Strategies : ConfigOf[s] \in Configs /\ EntriesOf(NoReserve, s) = {}
    BY CreationAssumption, NoEntries
  <2>2. \A u \in Users, s \in Strategies : reserve[u][ConfigOf[s]] = NoReserve
    BY <1>1, <2>1 DEF Init
  <2>. QED  BY <2>1, <2>2 DEF SwapsOfCreated
<1>2. ASSUME Inv, Inv', SwapsOfCreated, [Next]_vars PROVE SwapsOfCreated'
  <2>1. ASSUME NEW u \in Users, NEW s \in Strategies,
               EntriesOf(reserve'[u][ConfigOf[s]], s) # {}
        PROVE  vault_strategy'[s].initialized
    <3>1. vault_strategy[s].initialized
      BY <1>2, <2>1, EntriesStep DEF Inv, SwapsOfCreated
    <3>. QED  BY <1>2, <3>1, CreatedStays
  <2>. QED  BY <2>1 DEF SwapsOfCreated
<1>. QED  BY <1>1, <1>2, Invariant, PTL DEF Spec

\* The only swap of a strategy is used up by the deposit that marks it.
LEMMA OnlySwapUsed ==
  ASSUME NEW r \in ReserveType, NEW s, Cardinality(EntriesOf(r, s)) = 1
  PROVE  /\ EntriesOf(r, s) # {}
         /\ PendingEntries(SetSwapToRatioExecuted(r, s), s) = {}
         /\ PendingEntries(CleanUp(r), s) = {}
<1>. DEFINE places == EntriesOf(r, s)
<1>1. r.swap_to_ratio_vaults \in Seq(SwapType)
  BY DEF ReserveType
<1>2. /\ IsFiniteSet(1..Len(r.swap_to_ratio_vaults))
      /\ places \in SUBSET (1..Len(r.swap_to_ratio_vaults))
  <2>1. Len(r.swap_to_ratio_vaults) \in Int
    BY <1>1
  <2>. QED  BY <1>1, <2>1, FS_Interval DEF EntriesOf
<1>3. PICK n : places = {n}
  <2>1. IsFiniteSet(places)
    BY <1>2, FS_Subset
  <2>. HIDE DEF places
  <2>2. Cardinality(places) = 1 => \E x : places = {x}
    BY <2>1, FS_Singleton
  <2>. QED  BY <2>2 DEF places
<1>4. n \in Nat
  BY <1>2, <1>3
<1>5. First(places) = n
  <2>1. places \in SUBSET Nat /\ places # {}
    BY <1>3, <1>4
  <2>2. First(places) \in places
    BY <2>1, FirstIsMember
  <2>. QED  BY <1>3, <2>2
<1>6. /\ EntriesOf(SetSwapToRatioExecuted(r, s), s) = {n}
      /\ n \notin PendingEntries(SetSwapToRatioExecuted(r, s), s)
  BY <1>3, <1>5, EntriesAfterExecuted
<1>7. PendingEntries(SetSwapToRatioExecuted(r, s), s) = {}
  BY <1>6 DEF PendingEntries
<1>8. PendingEntries(CleanUp(r), s) = {}
  BY NoEntries DEF CleanUp, PendingEntries
<1>. QED  BY <1>3, <1>7, <1>8

\* No deposit can use the tokens of a swap twice (set_swap_to_ratio_executed and
\* clean_up), in whatever order investors and creators call.
THEOREM CreditedOnceTheorem == Spec => SwapCreditedOnce
<1>1. ASSUME Inv, SwapsOfCreated, [Next]_vars, NEW u \in Users, NEW s \in Strategies,
             investor_strategy_position'[u][s].assets
               > investor_strategy_position[u][s].assets,
             Cardinality(EntriesOf(reserve[u][ConfigOf[s]], s)) = 1
      PROVE  PendingEntries(reserve'[u][ConfigOf[s]], s) = {}
  <2>. DEFINE c == ConfigOf[s]
              r == reserve[u][c]
  <2>1. TypeOK /\ CreationTypeOK
    BY <1>1 DEF Inv, TypeOK
  <2>2. c \in Configs /\ r \in ReserveType /\ EntriesOf(r, s) # {}
    BY <1>1, <2>1, OnlySwapUsed, CreationAssumption DEF TypeOK
  <2>3. investor_strategy_position[u][s].assets \in Nat
    BY <2>1, U64Type DEF CreationTypeOK, PositionType, U64
  <2>4. CASE UNCHANGED investor_strategy_position
    BY <1>1, <2>3, <2>4
  <2>5. ASSUME NEW w \in Users, NEW t \in Strategies, NEW p,
               investor_strategy_position' = [investor_strategy_position EXCEPT ![w][t] = p]
        PROVE  w = u /\ t = s /\ p.assets > investor_strategy_position[u][s].assets
    <3>1. ~(w = u /\ t = s) => investor_strategy_position'[u][s] = investor_strategy_position[u][s]
      BY <2>1, <2>5 DEF CreationTypeOK
    <3>2. w = u /\ t = s
      BY <1>1, <2>3, <3>1
    <3>3. investor_strategy_position'[u][s] = p
      BY <2>1, <2>5, <3>2 DEF CreationTypeOK
    <3>. QED  BY <1>1, <3>2, <3>3
  <2>6. ASSUME NEW w \in Users, NEW t \in Strategies, NEW range \in Ranges,
               AddLiquidity(w, t, range)
        PROVE  PendingEntries(reserve'[u][c], s) = {}
    <3>0. PICK p : investor_strategy_position'
                     = [investor_strategy_position EXCEPT ![w][t] = p]
      BY <2>1, <2>6, AddLiquidityEffect
    <3>1. w = u /\ t = s
      BY <2>5, <3>0
    <3>2. reserve' = [reserve EXCEPT ![u][c] =
                        IF IsLastStrategy(c, s) THEN CleanUp(r)
                                                ELSE SetSwapToRatioExecuted(r, s)]
      BY <2>6, <3>1 DEF AddLiquidity
    <3>3. reserve'[u][c] = CleanUp(r) \/ reserve'[u][c] = SetSwapToRatioExecuted(r, s)
      BY <2>1, <2>2, <3>2 DEF TypeOK
    <3>. QED  BY <1>1, <2>2, <3>3, OnlySwapUsed
  <2>7. ASSUME NEW w \in Users, NEW t \in Strategies,
               NEW percentage \in RemovePercentages, NEW range \in Ranges,
               RemoveLiquidity(w, t, percentage, range)
        PROVE  FALSE
    <3>. DEFINE pos == investor_strategy_position[w][t]
    <3>0. PICK burn \in U64, assets \in Nat :
            investor_strategy_position'
              = [investor_strategy_position EXCEPT
                   ![w][t] = [initialized |-> pos.initialized, shares |-> pos.shares - burn,
                              assets |-> SatSub(pos.assets, assets)]]
      BY <2>1, <2>7, RemoveLiquidityEffect
    <3>. DEFINE p == [initialized |-> pos.initialized, shares |-> pos.shares - burn,
                      assets |-> SatSub(pos.assets, assets)]
    <3>1. /\ investor_strategy_position'
               = [investor_strategy_position EXCEPT ![w][t] = p]
          /\ p.assets = SatSub(pos.assets, assets)
      BY <3>0
    <3>. HIDE DEF p
    <3>2. w = u /\ t = s /\ p.assets > investor_strategy_position[u][s].assets
      BY <2>5, <3>1
    <3>. QED  BY <2>3, <3>1, <3>2 DEF SatSub
  <2>8. ASSUME NEW t \in Strategies, NEW percentage \in Percentages,
               NEW amount_max \in [Legs -> CreateAmounts],
               NEW price \in [Legs -> Prices], NEW range \in Ranges,
               CreateRaydiumVaultStrategy(t, percentage, amount_max, price, range)
        PROVE  FALSE
    <3>1. /\ ~vault_strategy[t].initialized
          /\ \E w \in Users, p \in PositionType :
               investor_strategy_position'
                 = [investor_strategy_position EXCEPT ![w][t] = p]
      BY <2>1, <2>8, CreateEffect
    <3>2. t = s
      BY <2>5, <3>1
    <3>3. vault_strategy[s].initialized
      BY <1>1, <2>2 DEF SwapsOfCreated
    <3>. QED  BY <3>1, <3>2, <3>3, Zenon
  <2>9. CASE CreationNext
    BY <2>4, <2>8, <2>9
    DEF CreationNext, AdminNext, CreatorNext, InitProtocolConfig, PauseProtocol,
        UnpauseProtocol, SwitchProtocol, InitVaultStrategyConfig, ActivateVaultStrategyConfig
  <2>10. ASSUME NEW w \in Users, NEW amount \in Amounts,
                \/ DepositToEscrow(w, amount) \/ WithdrawFromEscrow(w, amount)
                \/ \E d \in Configs : InvestReserve(w, d, amount)
         PROVE  PendingEntries(reserve'[u][c], s) = {}
    BY <2>4, <2>10 DEF DepositToEscrow, WithdrawFromEscrow, InvestReserve, creationVars
  <2>11. ASSUME NEW w \in Users, NEW t \in Strategies, NEW range \in Ranges,
                NEW split \in Splits, NEW slippage \in Slippages,
                SwapToRatio(w, t, range, split, slippage)
         PROVE  PendingEntries(reserve'[u][c], s) = {}
    BY <2>4, <2>11 DEF SwapToRatio, creationVars
  <2>12. CASE PoolNext \/ UNCHANGED vars
    BY <2>4, <2>12 DEF PoolNext, AccrueFees, vars, creationVars
  <2>13. CASE InvestorNext
    BY <2>6, <2>7, <2>10, <2>11, <2>13 DEF InvestorNext
  <2>14. InvestorNext \/ CreationNext \/ PoolNext \/ UNCHANGED vars
    BY <1>1 DEF Next
  <2>. QED  BY <2>9, <2>12, <2>13, <2>14
<1>2. Inv /\ SwapsOfCreated /\ [Next]_vars => [\A u \in Users, s \in Strategies :
        LET r == reserve[u][ConfigOf[s]] IN
        /\ investor_strategy_position'[u][s].assets
             > investor_strategy_position[u][s].assets
        /\ Cardinality(EntriesOf(r, s)) = 1
        => PendingEntries(reserve'[u][ConfigOf[s]], s) = {}]_vars
  BY <1>1
<1>. QED  BY <1>2, Invariant, SwapsFollowCreation, PTL DEF Spec, SwapCreditedOnce

==============================================================================

