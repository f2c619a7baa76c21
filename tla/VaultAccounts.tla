---------------------------- MODULE VaultAccounts ----------------------------
(***************************************************************************)
(* The program's account types (src/programs/.../state) as records, and    *)
(* the methods of those types as pure operators.  A method that can return *)
(* an error is split in two: Can<Method>, the conjunction of its require!  *)
(* conditions, and <Method>, the account it leaves when they hold.  The    *)
(* instruction modules conjoin the first and assign the second; Solana     *)
(* rolls a failed transaction back, so an error leaves no trace.           *)
(*                                                                         *)
(* The numeric constants of constants.rs are CONSTANTS, so that TLC can    *)
(* use small scales.  Integers that the code keeps in a u64 saturate or    *)
(* wrap at U64_MAX exactly where the code saturates or casts.              *)
(***************************************************************************)
EXTENDS Integers, Sequences, UnitSum

CONSTANTS
  U64_MAX,                 \* largest u64
  MAX_NUM_STRATEGIES,      \* strategies per config, 3 in the code
  MIN_PERCENTAGE, MAX_PERCENTAGE,
  MIN_PERFORMANCE_FEE, MAX_PERFORMANCE_FEE,
  MIN_REMOVE_PERCENTAGE, MAX_REMOVE_PERCENTAGE,
  DENOMINATOR_MULTIPLIER,  \* scale of a share percentage, 1e9 in the code
  MAX_SWAP_TO_RATIO        \* entries per reserve, the literal 3 in the code

\* What the proofs need of the constants of constants.rs.
ASSUME ScaleAssumption ==
  /\ U64_MAX \in Nat \ {0}
  /\ MAX_NUM_STRATEGIES \in Nat
  /\ MAX_SWAP_TO_RATIO \in Nat
  /\ MIN_PERCENTAGE \in Nat \ {0} /\ MAX_PERCENTAGE \in Nat \ {0}
  /\ MIN_PERFORMANCE_FEE \in Nat /\ MAX_PERFORMANCE_FEE \in Nat \ {0}
  /\ MIN_REMOVE_PERCENTAGE \in Nat /\ MAX_REMOVE_PERCENTAGE \in Nat \ {0}
  /\ DENOMINATOR_MULTIPLIER \in Nat \ {0}
  /\ MAX_PERCENTAGE <= U64_MAX

U64 == 0..U64_MAX

-----------------------------------------------------------------------------
(* u64 arithmetic.                                                         *)

SatAdd(a, b) == IF a + b <= U64_MAX THEN a + b ELSE U64_MAX
SatSub(a, b) == IF b <= a THEN a - b ELSE 0
SatMul(a, b) == IF a * b <= U64_MAX THEN a * b ELSE U64_MAX
AsU64(n)     == n % (U64_MAX + 1)

-----------------------------------------------------------------------------
(* VaultStrategyConfig: the creator's plan, and the list of strategies     *)
(* with the share of an investment each of them takes.  The creator and    *)
(* the name are the account's address, so they are not fields here.        *)

VaultStrategyStatus == {"Unknown", "Draft", "Active", "Paused", "Closed"}

NoConfig == [status |-> "Unknown", performance_fee |-> 0,
             strategies |-> <<>>, percentages |-> <<>>]

TotalPercentage(cfg) == SumOver(DOMAIN cfg.percentages, cfg.percentages)

CheckPerformanceFee(fee) == fee \in MIN_PERFORMANCE_FEE..MAX_PERFORMANCE_FEE
CheckPercentage(p)       == p \in MIN_PERCENTAGE..MAX_PERCENTAGE

\* Mutant: a config can be initialized again.
CanReinitializeConfig(cfg, fee) == CheckPerformanceFee(fee)

CanInitializeConfig(cfg, fee) ==
  cfg.status = "Unknown" /\ CheckPerformanceFee(fee)

InitializeConfig(cfg, fee) ==
  [cfg EXCEPT !.status = "Draft", !.performance_fee = fee, !.strategies = <<>>]

\* Mutant: the sum that is checked leaves the new percentage out.
CanAddStrategyToFull(cfg, p) ==
  /\ Len(cfg.strategies) < MAX_NUM_STRATEGIES
  /\ TotalPercentage(cfg) <= MAX_PERCENTAGE
  /\ CheckPercentage(p)

CanAddStrategy(cfg, p) ==
  /\ Len(cfg.strategies) < MAX_NUM_STRATEGIES
  /\ TotalPercentage(cfg) + p <= MAX_PERCENTAGE
  /\ CheckPercentage(p)

\* Mutant: the two lists grow at opposite ends.
AddStrategyMisaligned(cfg, s, p) ==
  [cfg EXCEPT !.strategies = Append(@, s), !.percentages = <<p>> \o @]

AddStrategy(cfg, s, p) ==
  [cfg EXCEPT !.strategies = Append(@, s), !.percentages = Append(@, p)]

-----------------------------------------------------------------------------
(* VaultStrategy: the totals of one strategy.  initialized stands for      *)
(* dex_nft_mint # default, the test the code makes.                        *)

NoVault == [initialized |-> FALSE, percentage |-> 0,
            total_assets |-> 0, total_shares |-> 0]

CanAddAssets(v, n) == SatAdd(v.total_assets, n) > 0
AddAssets(v, n)    == [v EXCEPT !.total_assets = SatAdd(@, n)]
\* Mutant: the counter is overwritten with the depositor's shares.
SetShares(v, n)    == [v EXCEPT !.total_shares = n]
CanAddShares(v, n) == SatAdd(v.total_shares, n) > 0
AddShares(v, n)    == [v EXCEPT !.total_shares = SatAdd(@, n)]
RemoveAssets(v, n) == [v EXCEPT !.total_assets = SatSub(@, n)]
RemoveShares(v, n) == [v EXCEPT !.total_shares = SatSub(@, n)]

CanInitializeVault(v, assets, shares, p) ==
  /\ ~v.initialized
  /\ CheckPercentage(p)
  /\ CanAddAssets(v, assets)
  /\ CanAddShares(v, shares)

InitializeVault(v, assets, shares, p) ==
  [AddShares(AddAssets(v, assets), shares)
     EXCEPT !.initialized = TRUE, !.percentage = p]

-----------------------------------------------------------------------------
(* InvestorStrategyPosition: one investor's shares of one strategy.        *)
(* initialized stands for vault_strategy_key # default.                    *)

NoPosition == [initialized |-> FALSE, shares |-> 0, assets |-> 0]

\* VIRTUAL_ASSETS and VIRTUAL_SHARES, both 1: the share price of an empty
\* vault is one, and the divisor is never zero.
VIRTUAL == 1

\* The u128 quotient, before the cast: assets at the price of the vault.
SharesFor(assets, total_assets, total_shares) ==
  (assets * SatAdd(total_shares, VIRTUAL)) \div SatAdd(total_assets, VIRTUAL)

ConvertAssetsToShares(assets, total_assets, total_shares) ==
  AsU64(SharesFor(assets, total_assets, total_shares))

ConvertSharesToAssets(shares, total_assets, total_shares) ==
  AsU64((shares * total_assets) \div total_shares)

ConvertSharesToPercentage(pos, total_shares) ==
  IF total_shares = 0
    THEN 0
    ELSE AsU64((pos.shares * DENOMINATOR_MULTIPLIER) \div total_shares)

CanDeposit(pos, assets, total_assets, total_shares) ==
  /\ SharesFor(assets, total_assets, total_shares) > 0
  /\ SatAdd(pos.shares,
            ConvertAssetsToShares(assets, total_assets, total_shares)) > 0
  /\ SatAdd(pos.assets, assets) > 0

\* initialize (first deposit) and deposit_assets leave the same account.
Deposit(pos, assets, total_assets, total_shares) ==
  [initialized |-> TRUE,
   shares |-> SatAdd(pos.shares,
                     ConvertAssetsToShares(assets, total_assets, total_shares)),
   assets |-> SatAdd(pos.assets, assets)]

BurnShares(pos, shares, total_assets, total_shares) ==
  [pos EXCEPT
     !.assets = SatSub(@, ConvertSharesToAssets(shares, total_assets, total_shares)),
     !.shares = SatSub(@, shares)]

-----------------------------------------------------------------------------
(* InvestReserveVault: USDC one investor has set aside in one config, and  *)
(* the swaps made from it.  A missing account is one that reserves nothing.*)

NoReserve == [reserved_amount |-> 0, swap_to_ratio_vaults |-> <<>>]

\* initialize does not look at what the account held.
InitializeReserve(amount) ==
  [reserved_amount |-> amount, swap_to_ratio_vaults |-> <<>>]

AmountsIn(r) ==
  [n \in DOMAIN r.swap_to_ratio_vaults |-> r.swap_to_ratio_vaults[n].amount_in]

\* USDC of the reserve that has been swapped already.
SwappedAmount(r) == SumOver(DOMAIN r.swap_to_ratio_vaults, AmountsIn(r))

SwapToRatioVault(s, amount_in, out) ==
  [vault_strategy_key |-> s, amount_in |-> amount_in,
   token_amount |-> out, executed |-> FALSE]

\* Mutant: the sum of the swaps is not checked against the reserve.
CanAddSwapUnchecked(r, entry) ==
  /\ Len(r.swap_to_ratio_vaults) < MAX_SWAP_TO_RATIO
  /\ entry.amount_in > 0
  /\ \A n \in DOMAIN r.swap_to_ratio_vaults : r.swap_to_ratio_vaults[n] # entry

CanAddSwapToRatioVault(r, entry) ==
  /\ Len(r.swap_to_ratio_vaults) < MAX_SWAP_TO_RATIO
  /\ entry.amount_in > 0
  /\ \A n \in DOMAIN r.swap_to_ratio_vaults : r.swap_to_ratio_vaults[n] # entry
  /\ SwappedAmount(r) + entry.amount_in <= r.reserved_amount

AddSwapToRatioVault(r, entry) ==
  [r EXCEPT !.swap_to_ratio_vaults = Append(@, entry)]

\* Places of strategy s in the list of swaps, and the least of a set of them.
EntriesOf(r, s) ==
  {n \in DOMAIN r.swap_to_ratio_vaults :
     r.swap_to_ratio_vaults[n].vault_strategy_key = s}
First(places) == CHOOSE n \in places : \A m \in places : n <= m

\* The entry add_liquidity will use: the first of s that is not executed.
PendingEntries(r, s) ==
  {n \in EntriesOf(r, s) : ~r.swap_to_ratio_vaults[n].executed}

\* Mutant: nothing is marked.
SetNothingExecuted(r, s) == r

\* Marks the first entry of s, whether or not it is the one that was used.
SetSwapToRatioExecuted(r, s) ==
  [r EXCEPT !.swap_to_ratio_vaults[First(EntriesOf(r, s))].executed = TRUE]

CleanUp(r) == NoReserve

-----------------------------------------------------------------------------
(* Quantities the instructions compute.                                    *)

\* Mutant: parts are rounded up.
UsdcAmountUp(reserved, p) ==
  (SatMul(reserved, p) + MAX_PERCENTAGE - 1) \div MAX_PERCENTAGE

\* swap_to_ratio: the part of a reserve that goes to a strategy.
UsdcAmount(reserved, p) == SatMul(reserved, p) \div MAX_PERCENTAGE

\* Mutant: half of the shares are burned.
SharesToBurnHalf(pos, percentage) ==
  AsU64((percentage * pos.shares) \div (2 * MAX_REMOVE_PERCENTAGE))

\* remove_liquidity: shares burned when percentage of a position is removed.
SharesToBurn(pos, percentage) ==
  AsU64((percentage * pos.shares) \div MAX_REMOVE_PERCENTAGE)

\* Mutant: the percentage is taken of the vault, not of the position.
LiquidityOfVault(percentage, part, liquidity) ==
  (percentage * liquidity) \div MAX_REMOVE_PERCENTAGE

\* liquidity_to_remove, for a position worth `part` of the vault.
LiquidityToRemove(percentage, part, liquidity) ==
  (((part * percentage) \div MAX_REMOVE_PERCENTAGE) * liquidity)
    \div DENOMINATOR_MULTIPLIER

\* split_fees: an investor's part of the fees collected in one leg, and the
\* performance fee the creator takes out of it.
GrossFees(part, collected) == AsU64((part * collected) \div DENOMINATOR_MULTIPLIER)
CreatorFees(part, collected, performance_fee) ==
  AsU64((GrossFees(part, collected) * performance_fee) \div MAX_PERFORMANCE_FEE)
\* Mutant: the performance fee is paid on top.
InvestorFeesGross(part, collected, performance_fee) == GrossFees(part, collected)

InvestorFees(part, collected, performance_fee) ==
  GrossFees(part, collected) - CreatorFees(part, collected, performance_fee)
==============================================================================
