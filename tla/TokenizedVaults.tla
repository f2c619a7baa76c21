--------------------------- MODULE TokenizedVaults ---------------------------
(***************************************************************************)
(* The whole program: the instructions of VaultCreation together with the  *)
(* investors' instructions (instructions/investor), over one token ledger. *)
(*                                                                         *)
(* An investment takes three instructions, invest_reserve, swap_to_ratio   *)
(* and add_liquidity, once per strategy for the last two.  Each is atomic, *)
(* and between them other users, the creator and the admin may act; what   *)
(* one instruction leaves for the next is kept in the investor's reserve.  *)
(*                                                                         *)
(* Raydium is external: a swap returns what it is given less a slippage,   *)
(* the price is inside, below or above a position's range as it likes at   *)
(* each instruction, and the fees the pool owes a position grow at any     *)
(* time.                                                                   *)
(***************************************************************************)
EXTENDS VaultCreation

CONSTANTS
  USDC,               \* the mint of the investors' deposits
  Amounts,            \* amounts that occur as arguments of investors
  RemovePercentages,  \* percentages that occur as arguments
  Splits,             \* percent of a swap that goes to leg 0, by pool ratio
  Slippages,          \* what a swap may return less than it was given
  FeeAccruals,        \* fees of both legs a pool may add to a position at once
  MaxFees             \* bound on the fees of a leg that wait to be paid out

ASSUME InvestAssumption ==
  /\ IsFiniteSet(Users)
  /\ USDC \in Mints
  /\ Amounts \subseteq U64 /\ RemovePercentages \subseteq Nat
  /\ Splits \subseteq 0..100 /\ Slippages \subseteq Nat
  /\ FeeAccruals \subseteq [Legs -> Nat] /\ MaxFees \in Nat

VARIABLES
  escrow,         \* user -> USDC in the user's escrow vault
  usdc_escrow,    \* config -> USDC reserved by investors, not yet swapped
  mint_escrow,    \* config -> leg -> tokens swapped, not yet in the pool
  reserve,        \* user -> config -> InvestReserveVault account
  fees_owed,      \* strategy -> leg -> fees the pool owes the position
  fees_escrow,    \* config -> leg -> fees collected, not yet paid out
  perf_escrow     \* config -> leg -> performance fees of the creator

investVars == <<escrow, usdc_escrow, mint_escrow, reserve,
                fees_owed, fees_escrow, perf_escrow>>
vars == <<creationVars, investVars>>

NoTokens == [k \in Legs |-> 0]

Init ==
  /\ CreationInit
  /\ escrow = [u \in Users |-> 0]
  /\ usdc_escrow = [c \in Configs |-> 0]
  /\ mint_escrow = [c \in Configs |-> NoTokens]
  /\ reserve = [u \in Users |-> [c \in Configs |-> NoReserve]]
  /\ fees_owed = [s \in Strategies |-> NoTokens]
  /\ fees_escrow = [c \in Configs |-> NoTokens]
  /\ perf_escrow = [c \in Configs |-> NoTokens]

-----------------------------------------------------------------------------
(* deposit_to_escrow, withdraw_from_escrow: between the investor's own     *)
(* token account and the escrow the program keeps for the investor.        *)

DepositToEscrow(u, amount) ==
  /\ wallet[u][USDC] >= amount
  /\ wallet' = [wallet EXCEPT ![u][USDC] = @ - amount]
  /\ escrow' = [escrow EXCEPT ![u] = @ + amount]
  /\ UNCHANGED <<protocol_config, vault_strategy_config, vault_strategy,
                 investor_strategy_position, liquidity, usdc_escrow,
                 mint_escrow, reserve, fees_owed, fees_escrow, perf_escrow>>

\* Mutant: the escrow is not checked to hold the amount.
WithdrawUnchecked(u, amount) ==
  /\ escrow' = [escrow EXCEPT ![u] = @ - amount]
  /\ wallet' = [wallet EXCEPT ![u][USDC] = @ + amount]
  /\ UNCHANGED <<protocol_config, vault_strategy_config, vault_strategy,
                 investor_strategy_position, liquidity, usdc_escrow,
                 mint_escrow, reserve, fees_owed, fees_escrow, perf_escrow>>

WithdrawFromEscrow(u, amount) ==
  /\ escrow[u] >= amount
  /\ escrow' = [escrow EXCEPT ![u] = @ - amount]
  /\ wallet' = [wallet EXCEPT ![u][USDC] = @ + amount]
  /\ UNCHANGED <<protocol_config, vault_strategy_config, vault_strategy,
                 investor_strategy_position, liquidity, usdc_escrow,
                 mint_escrow, reserve, fees_owed, fees_escrow, perf_escrow>>

-----------------------------------------------------------------------------
(* invest_reserve: moves USDC to the config's escrow and overwrites the    *)
(* investor's reserve.  The test that the config is Active is commented    *)
(* out in the code; the config account only has to exist.                  *)

InvestReserve(u, c, amount) ==
  /\ vault_strategy_config[c].status # "Unknown"
  /\ amount > 0
  /\ escrow[u] >= amount
  /\ escrow' = [escrow EXCEPT ![u] = @ - amount]
  /\ usdc_escrow' = [usdc_escrow EXCEPT ![c] = @ + amount]
  /\ reserve' =
       [reserve EXCEPT ![u][c] = InitializeReserve(amount)]
  /\ UNCHANGED <<creationVars, mint_escrow, fees_owed, fees_escrow, perf_escrow>>

-----------------------------------------------------------------------------
(* swap_to_ratio: spends the strategy's percentage of the reserve on the   *)
(* two legs, in the ratio of the Raydium position, and records the result. *)

\* Mutant: a position without liquidity has the ratio of the pool.
RatioOfPool(s, usdc_amount, range, split) ==
  LET leg0 == IF range = "above" THEN 0
              ELSE IF range = "below" THEN usdc_amount
              ELSE (usdc_amount * split) \div 100
  IN  [k \in Legs |-> IF k = 0 THEN leg0 ELSE usdc_amount - leg0]

\* calc_ratio_amounts_for_usdc.  A position without liquidity has no ratio:
\* 0/0 is NaN, which the cast to an integer turns into zero.
RatioAmounts(s, usdc_amount, range, split) ==
  LET leg0 == IF liquidity[s] = 0 \/ range = "above" THEN 0
              ELSE IF range = "below" THEN usdc_amount
              ELSE (usdc_amount * split) \div 100
  IN  [k \in Legs |-> IF k = 0 THEN leg0 ELSE usdc_amount - leg0]

\* One leg: USDC itself is transferred; another token is swapped for, which
\* Raydium refuses for an amount of zero.
CanSwapLeg(c, k, amount_in) == LegMint[c][k] = USDC \/ amount_in > 0
SwapLeg(c, k, amount_in, slippage) ==
  IF LegMint[c][k] = USDC THEN amount_in ELSE SatSub(amount_in, slippage)

SwapToRatio(u, s, range, split, slippage) ==
  LET c           == ConfigOf[s]
      r           == reserve[u][c]
      usdc_amount == UsdcAmount(r.reserved_amount, vault_strategy[s].percentage)
      in          == RatioAmounts(s, usdc_amount, range, split)
      out         == [k \in Legs |-> SwapLeg(c, k, in[k], slippage)]
      entry       == SwapToRatioVault(s, usdc_amount, out)
  IN
  /\ vault_strategy[s].initialized
  /\ usdc_amount > 0
  /\ \A k \in Legs : CanSwapLeg(c, k, in[k])
  /\ usdc_escrow[c] >= usdc_amount
  /\ CanAddSwapToRatioVault(r, entry)
  /\ usdc_escrow' = [usdc_escrow EXCEPT ![c] = @ - usdc_amount]
  /\ mint_escrow' =
       [mint_escrow EXCEPT ![c] = [k \in Legs |-> @[k] + out[k]]]
  /\ reserve' =
       [reserve EXCEPT ![u][c] = AddSwapToRatioVault(r, entry)]
  /\ UNCHANGED <<creationVars, escrow, fees_owed, fees_escrow, perf_escrow>>

-----------------------------------------------------------------------------
(* add_liquidity: puts the tokens of the first pending entry into the      *)
(* pool, then updates the reserve, the position and the vault, in this     *)
(* order.                                                                  *)

IsLastStrategy(c, s) ==
  LET strategies == vault_strategy_config[c].strategies
  IN  strategies # <<>> /\ strategies[Len(strategies)] = s

AddLiquidity(u, s, range) ==
  LET c       == ConfigOf[s]
      r       == reserve[u][c]
      pending == PendingEntries(r, s)
      entry   == r.swap_to_ratio_vaults[First(pending)]
      liq     == LiquidityFromAmounts(range, entry.token_amount)
      tokens  == TokensOf(range, liq)
      v       == vault_strategy[s]
      pos     == investor_strategy_position[u][s]
      newPos  == Deposit(pos, entry.amount_in, v.total_assets, v.total_shares)
  IN
  /\ vault_strategy[s].initialized
  /\ pending # {}
  /\ \E k \in Legs : entry.token_amount[k] > 0
  /\ liq > 0
  /\ \A k \in Legs : mint_escrow[c][k] >= tokens[k]
  /\ CanDeposit(pos, entry.amount_in, v.total_assets, v.total_shares)
  /\ CanAddAssets(v, entry.amount_in)
  /\ CanAddShares(v, newPos.shares)
  /\ mint_escrow' =
       [mint_escrow EXCEPT ![c] = [k \in Legs |-> @[k] - tokens[k]]]
  /\ liquidity' = [liquidity EXCEPT ![s] = @ + liq]
  /\ reserve' =
       [reserve EXCEPT ![u][c] =
          IF IsLastStrategy(c, s) THEN CleanUp(r)
                                  ELSE SetSwapToRatioExecuted(r, s)]
  /\ investor_strategy_position' =
       [investor_strategy_position EXCEPT ![u][s] = newPos]
  /\ vault_strategy' =
       [vault_strategy EXCEPT
          ![s] = AddShares(AddAssets(v, entry.amount_in), newPos.shares)]
  /\ UNCHANGED <<protocol_config, vault_strategy_config, wallet, escrow,
                 usdc_escrow, fees_owed, fees_escrow, perf_escrow>>

-----------------------------------------------------------------------------
(* remove_liquidity: collects the position's fees into the config's fees   *)
(* escrow, pays the investor a part of the liquidity and of these fees,    *)
(* and burns the shares.                                                   *)

\* The investor's part of the vault, and what a removal takes from the pool.
PartOf(u, s) ==
  ConvertSharesToPercentage(investor_strategy_position[u][s],
                            vault_strategy[s].total_shares)
Withdrawn(u, s, percentage) ==
  LiquidityToRemove(percentage, PartOf(u, s), liquidity[s])

InvestorFeesOf(u, s, k) ==
  InvestorFees(PartOf(u, s), fees_owed[s][k],
               vault_strategy_config[ConfigOf[s]].performance_fee)
CreatorFeesOf(u, s, k) ==
  CreatorFees(PartOf(u, s), fees_owed[s][k],
              vault_strategy_config[ConfigOf[s]].performance_fee)

\* What Raydium and the token program demand of the amounts of a removal.
RemovalPayable(u, s, percentage) ==
  /\ Withdrawn(u, s, percentage) <= liquidity[s]
  /\ \A k \in Legs :
       /\ InvestorFeesOf(u, s, k) \in Nat
       /\ InvestorFeesOf(u, s, k) + CreatorFeesOf(u, s, k)
            <= fees_escrow[ConfigOf[s]][k] + fees_owed[s][k]
  /\ vault_strategy[s].total_shares > 0

RemoveLiquidity(u, s, percentage, range) ==
  LET c         == ConfigOf[s]
      v         == vault_strategy[s]
      pos       == investor_strategy_position[u][s]
      burn      == SharesToBurn(pos, percentage)
      burnAssets == ConvertSharesToAssets(burn, v.total_assets, v.total_shares)
      withdrawn == Withdrawn(u, s, percentage)
  IN
  /\ percentage \in MIN_REMOVE_PERCENTAGE..MAX_REMOVE_PERCENTAGE
  /\ burn > 0
  /\ RemovalPayable(u, s, percentage)
  /\ liquidity' = [liquidity EXCEPT ![s] = @ - withdrawn]
  /\ fees_owed' = [fees_owed EXCEPT ![s] = NoTokens]
  /\ fees_escrow' = [fees_escrow EXCEPT ![c] =
       [k \in Legs |-> @[k] + fees_owed[s][k]
                       - InvestorFeesOf(u, s, k) - CreatorFeesOf(u, s, k)]]
  /\ perf_escrow' = [perf_escrow EXCEPT ![c] =
       [k \in Legs |-> @[k] + CreatorFeesOf(u, s, k)]]
  /\ wallet' = [wallet EXCEPT ![u] = Credit(@, c,
       [k \in Legs |-> TokensOf(range, withdrawn)[k] + InvestorFeesOf(u, s, k)])]
  /\ investor_strategy_position' =
       [investor_strategy_position EXCEPT
          ![u][s] = BurnShares(pos, burn, v.total_assets, v.total_shares)]
  /\ vault_strategy' =
       [vault_strategy EXCEPT ![s] = RemoveShares(RemoveAssets(v, burnAssets), burn)]
  /\ UNCHANGED <<protocol_config, vault_strategy_config, escrow, usdc_escrow,
                 mint_escrow, reserve>>

-----------------------------------------------------------------------------
\* Raydium, external: trades in the pool earn the position fees.  MaxFees
\* bounds the fees in the pool and in the program's escrows together.
AccrueFees(s, fees) ==
  /\ liquidity[s] > 0
  /\ \A k \in Legs :
       fees_owed[s][k] + fees_escrow[ConfigOf[s]][k] + perf_escrow[ConfigOf[s]][k]
         + fees[k] <= MaxFees
  /\ fees_owed' =
       [fees_owed EXCEPT ![s] = [k \in Legs |-> @[k] + fees[k]]]
  /\ UNCHANGED <<creationVars, escrow, usdc_escrow, mint_escrow, reserve,
                 fees_escrow, perf_escrow>>

InvestorNext ==
  \E u \in Users :
    \/ \E amount \in Amounts :
         \/ DepositToEscrow(u, amount)
         \/ WithdrawFromEscrow(u, amount)
         \/ \E c \in Configs : InvestReserve(u, c, amount)
    \/ \E s \in Strategies :
         \/ \E range \in Ranges, split \in Splits, slippage \in Slippages :
              SwapToRatio(u, s, range, split, slippage)
         \/ \E range \in Ranges : AddLiquidity(u, s, range)
         \/ \E percentage \in RemovePercentages, range \in Ranges :
              RemoveLiquidity(u, s, percentage, range)

PoolNext ==
  \E s \in Strategies, fees \in FeeAccruals : AccrueFees(s, fees)

Next == (CreationNext /\ UNCHANGED investVars) \/ InvestorNext \/ PoolNext

Spec == Init /\ [][Next]_vars

-----------------------------------------------------------------------------
SwapType == [vault_strategy_key : Strategies, amount_in : Nat,
             token_amount : [Legs -> Nat], executed : BOOLEAN]
ReserveType == [reserved_amount : Nat, swap_to_ratio_vaults : Seq(SwapType)]

\* Every account and every token balance holds a value of its Rust type; in
\* particular no transfer takes a balance below zero.
TypeOK ==
  /\ CreationTypeOK
  /\ escrow \in [Users -> Nat]
  /\ usdc_escrow \in [Configs -> Nat]
  /\ mint_escrow \in [Configs -> [Legs -> Nat]]
  /\ reserve \in [Users -> [Configs -> ReserveType]]
  /\ fees_owed \in [Strategies -> [Legs -> Nat]]
  /\ fees_escrow \in [Configs -> [Legs -> Nat]]
  /\ perf_escrow \in [Configs -> [Legs -> Nat]]

\* USDC of the reserve of u in c that swap_to_ratio may still spend.
Unspent(u, c) == reserve[u][c].reserved_amount - SwappedAmount(reserve[u][c])

\* All investors of a config share one USDC escrow.  It covers what every one
\* of them may still spend at the same time, however their invest_reserve and
\* swap_to_ratio calls interleave and however often a reserve is overwritten
\* or cleaned up, and no reserve is overspent: no swap can fail for want of
\* money that another investor's swap has taken.
ReservesSolvent ==
  /\ \A u \in Users, c \in Configs : Unspent(u, c) >= 0
  /\ \A c \in Configs :
       SumOver(Users, [u \in Users |-> Unspent(u, c)]) <= usdc_escrow[c]

\* Shares of strategy s in the positions of all users, and their assets.
OutstandingShares(s) ==
  SumOver(Users, [u \in Users |-> investor_strategy_position[u][s].shares])
BookedAssets(s) ==
  SumOver(Users, [u \in Users |-> investor_strategy_position[u][s].assets])

\* The vault's share counter never falls below the shares its positions hold
\* (add_liquidity adds the whole position's shares on every deposit, removals
\* subtract the burned ones), and its asset counter never exceeds the assets
\* booked on its positions.
SharesBacked ==
  \A s \in Strategies :
    /\ OutstandingShares(s) <= vault_strategy[s].total_shares
    /\ vault_strategy[s].total_assets <= BookedAssets(s)

\* A position can always be closed: whatever happened to the vault before, the
\* liquidity and the fees that a full removal computes from two share counters
\* exist in the pool and in the fees escrow, so that neither Raydium nor the
\* token program rejects it.
ExitServiceable ==
  \A u \in Users, s \in Strategies :
    investor_strategy_position[u][s].shares > 0 =>
      /\ SharesToBurn(investor_strategy_position[u][s], MAX_REMOVE_PERCENTAGE) > 0
      /\ RemovalPayable(u, s, MAX_REMOVE_PERCENTAGE)

\* As long as anybody holds shares of a strategy, its Raydium position holds
\* liquidity: rounding never lets earlier leavers drain the pool.
SharesHaveLiquidity ==
  \A s \in Strategies :
    vault_strategy[s].total_shares > 0 => liquidity[s] > 0

\* A removal does not dilute those who stay by more than the rounding of one
\* share: the liquidity it takes is at most that of the shares it burns plus
\* one, at the ratio of liquidity to shares before the removal.
RemovalRoundingBounded ==
  [][\A s \in Strategies :
       vault_strategy'[s].total_shares < vault_strategy[s].total_shares =>
         (liquidity[s] - liquidity'[s]) * vault_strategy[s].total_shares
           <= liquidity[s] * (vault_strategy[s].total_shares
                              - vault_strategy'[s].total_shares + 1)]_vars

\* The fees that a removal leaves in the fees escrow stay there: a removal pays
\* the investor and the creator out of the fees it has just collected, never
\* out of those collected before, because no position ever stands for more
\* than the whole vault.
EarlierFeesUntouched ==
  [][\A c \in Configs, k \in Legs : fees_escrow'[c][k] >= fees_escrow[c][k]]_vars

\* The tokens of one swap are credited to a position once: when a deposit
\* raises a position, the swap it used is no longer pending, provided the
\* strategy has a single entry in the reserve.
SwapCreditedOnce ==
  [][\A u \in Users, s \in Strategies :
       LET r == reserve[u][ConfigOf[s]] IN
       /\ investor_strategy_position'[u][s].assets
            > investor_strategy_position[u][s].assets
       /\ Cardinality(EntriesOf(r, s)) = 1
       => PendingEntries(reserve'[u][ConfigOf[s]], s) = {}]_vars

\* A strategy whose liquidity was withdrawn to the last unit is out of use for
\* good when its token 0 is not USDC: the ratio of an empty position sends
\* nothing to leg 0, which Raydium does not swap.
DrainedStaysDrained ==
  [][\A s \in Strategies :
       /\ vault_strategy[s].initialized
       /\ liquidity[s] = 0
       /\ \A u \in Users : EntriesOf(reserve[u][ConfigOf[s]], s) = {}
       /\ LegMint[ConfigOf[s]][0] # USDC
       => \A u \in Users :
            /\ EntriesOf(reserve'[u][ConfigOf[s]], s) = {}
            /\ liquidity'[s] = 0]_vars
==============================================================================
