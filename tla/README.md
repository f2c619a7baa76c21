# TLA+ models and proofs for tokenized-vaults-program

The program is a Solana (Anchor) program in which a *creator* assembles a vault out of one to
three Raydium CLMM positions ("strategies") and *investors* put USDC into it. Around it are a
TypeScript client that builds the transactions and scripts that prepare a cluster for the tests.
This directory holds TLA+ modules of all three, TLC runs on small instances, and theorems that
TLAPS checks for every value of the constants. Below, `P` is
`src/programs/tokenized-vaults-program/src`.

## The system

| Component | State | Operations | Modelled |
|---|---|---|---|
| Protocol switch (`P/state/protocol_config.rs`, `P/instructions/admin`) | one `ProtocolConfig`: status, authority, fees | init, pause, unpause | `VaultCreation` |
| Vault pause (`pause_vault.rs`, `unpause_vault.rs`) | status of a config | pause, unpause | `VaultCreation`, `DocumentedClaims` |
| Vault configuration (`P/state/vault_strategy_config.rs`, `P/instructions/creator`) | one `VaultStrategyConfig` per creator and name: status, fee, parallel lists of strategies and percentages | init, activate | `VaultAccounts`, `VaultCreation` |
| Strategy (`P/state/vault_strategy.rs`, `create_raydium_vault_strategy.rs`) | `total_assets`, `total_shares`, percentage; a Raydium position | create | `VaultAccounts`, `VaultCreation` |
| Investor escrow (`deposit_to_escrow.rs`, `withdraw_from_escrow.rs`) | one USDC token account per investor | deposit, withdraw | `TokenizedVaults` |
| Reserve (`P/state/invest_reserve_vault.rs`, `invest_reserve.rs`) | per investor and config: amount reserved, up to three swaps; one USDC escrow per config | reserve | `VaultAccounts`, `TokenizedVaults` |
| Swap to ratio | tokens of both legs in two escrows per config | swap | `TokenizedVaults` |
| Add and remove liquidity | `InvestorStrategyPosition` per investor and strategy; fees escrows and performance-fee escrows per config | add, remove | `VaultAccounts`, `TokenizedVaults` |
| USD valuation (`P/utils.rs`) | none | pure functions | `UsdValuation` |
| Liquidity and tick mathematics (`P/libraries`) | none | pure functions | `LiquidityMath`, prices of ticks as a table |
| Fee growth (`raydium_helpers.rs`, `raydium_tick_array.rs`) | none | the estimate of the fees a position is owed | `FeeGrowth`, `RaydiumPosition` |
| Raydium CLMM, SPL token, Pyth | pools, positions, balances, prices | called by the program | external: as the program uses them; one pool in `RaydiumPosition` |
| Instruction dispatch (`P/lib.rs`) | none | one byte selects the handler | `TokenizedVaultsIdl`, `ClientTransactions` |
| Interface description (`src/app/web/idl`) | none | accounts, seeds and arguments of every instruction | `TokenizedVaultsIdl` |
| Client library (`src/app/web`, `src/app/protocol-pdas.ts`, `src/app/raydium-helpers.ts`) | one NFT key pair per process; lookup tables on the chain | builds transactions | `ClientAddresses`, `ClientTransactions`, `ClientCalls` |
| Set-up scripts (`setup.ts`, `generateFees.ts` and what they call) | mints, pools and positions of the test cluster | run, die, are run again | `TestEnvironment` |
| `P/state/investor_escrow.rs`, `src/migrations/deploy.ts` | an unused account type; an empty migration | none is called | no |

On the chain, components interact only through accounts. The addresses are derived from keys, so that an
account is a function of the keys in its seeds. An instruction is atomic: it commits all its
writes or none. Between two instructions anybody else may act. What is hard is in
these gaps:

* **An investment takes 1 + 2n transactions** (`invest_reserve`, then `swap_to_ratio` and
  `add_liquidity` for each of n strategies), with its progress in the investor's reserve. The
  reserve can be overwritten, cleaned up early, or hold two swaps of one strategy; all investors
  of a config share one USDC escrow and one escrow per leg.
* **Two share counters.** `add_liquidity` adds the *whole* position's shares to the vault's
  `total_shares` on every deposit, removals subtract the burned ones. Liquidity and fees are
  paid by the quotient of the two counters, so whether a holder can leave depends on how they
  drift.
* **Fees are collected for everybody when anybody leaves**, and only the leaver's part is paid.
* **Rounding, saturation and casts**: each part of an investment is rounded down by itself, a
  removal rounds liquidity twice and shares once, totals saturate, `u128` quotients are cast, and
  the ratio of an empty position is NaN.
* **Status checks that are missing**: no investor instruction reads the status of the protocol
  or of the config.

Nothing runs concurrently inside an instruction: the interleavings on the chain are those of
whole instructions, and a transaction that fails or never arrives is an action not taken.

Off the chain three more things are hard:

* **The client computes what the program checks.** It derives the addresses of some thirty accounts by
  hand and others through a generated description of the program, numbers its instructions by that
  description, and rebuilds the accounts of a Raydium position from default ticks.
* **Its calls overlap.** Every function awaits answers of an RPC node that may fail, be late or be
  about a transaction that lands after it was given up; calls of one slot share a lookup table.
* **The scripts die halfway** and are run again over what they left.

### What makes each component correct

* Configuration: lists aligned and bounded; Active means exactly 100 %; an Active config never
  changes; both copies of a strategy's percentage agree; an investment divides.
* Reserves: the shared USDC escrow covers all reserves; a swap is credited once.
* Shares: the vault's counter is never below the outstanding shares; everyone can leave; nobody
  leaves with more than his shares stand for, up to rounding; there is liquidity while there are
  shares.
* Fees: paid out of what has just been collected, never out of earlier leftovers.
* Ledger: no balance goes below zero.
* Position: the fees shared out were paid by the pool; the estimate never aborts a removal; what
  a deposit asks for never costs more than was given; amounts follow the price.
* Valuation: never above the worth, and below it only by rounding.
* Client: between its transactions an investment is one step; it reaches the accounts it means;
  each call returns a transaction whose lookups resolve, or throws, while the network is alive.
* Set-up: running it again gets the cluster ready.

## Modules

| Module | Content |
|---|---|
| `UnitSum` | The sum of a function with natural values over a finite set, as the cardinality of a set of units. No recursion is needed, so that it can be reasoned about by proof; `MCVaultCreation` checks it against `MapThenSumSet`. |
| `VaultAccounts` | The account types as records and their methods as pure operators. A method that may return an error is `Can<Method>` (the `require!`s) and `<Method>` (the account it leaves). u64 arithmetic saturates or wraps where the code's does. |
| `VaultCreation` | State machine of the admin and creator instructions (`CreationSpec`). |
| `TokenizedVaults` | The whole program: `VaultCreation` composed with the investor instructions and with Raydium's fee accrual (`Spec`). |
| `LiquidityMath`, `FeeGrowth`, `UsdValuation` | The pure functions of the program with their roundings, wraps, checked subtractions and casts; the fixed point `Q64`, the span of a counter and the prices of ticks are CONSTANTS. |
| `RaydiumPosition` | One pool and the position of one strategy in it (`PositionSpec`): the numbers that `TokenizedVaults` leaves open, and the USD valuation of what a position is opened with. |
| `TokenizedVaultsIdl` | The interface description: accounts in order with their seeds, arguments, discriminators; what Anchor resolves from it, and what the program accepts. |
| `ClientAddresses` | The addresses that the client derives by hand, of the vaults and of Raydium. |
| `InvestmentLedger` | Abstract specification of what an investor may expect of the client: an investment is one step. |
| `ClientTransactions` | `TokenizedVaults` reached through the client (`ClientSpec`): transactions of several instructions that are executed one by one, fail or are dropped as a whole, and restarts of the process. It implements `InvestmentLedger`. |
| `ClientCalls` | The awaits of the client's functions, with the lookup tables they make and share (`CallsSpec`). |
| `TestEnvironment` | The set-up scripts as processes that may die at any step (`EnvSpec`). |
| `DocumentedClaims`, `DocumentedClient`, `DocumentedCalls`, `DocumentedEnvironment` | What README, comments, error texts and tests say and the code does not do. |
| `MCVaultCreation`, `MCTokenizedVaults`, `MCRaydiumPosition`, `MCClient`, `MCClientCalls` | Instances for TLC. |
| `VaultAccountsTheorems` | Lemmas on sums, lists, rounding and quotients. |
| `VaultCreation_proofs`, `TokenizedVaults_proofs`, `ShareAccounting_proofs`, `RaydiumPosition_proofs`, `ClientTransactions_proofs`, `ClientCalls_proofs`, `TestEnvironment_proofs` | The theorems. |

One action is one instruction. Its guard is the conjunction of the `require!`s, the account
constraints, and the conditions under which the called program (Raydium, SPL token) fails the
transaction. Action names are those of the code's accounts structs (`InvestReserve`,
`SwapToRatio`, `AddLiquidity`, ...), variables those of its accounts:

| Variable | Account |
|---|---|
| `protocol_config`, `vault_strategy_config`, `vault_strategy`, `investor_strategy_position` | the accounts of these names |
| `reserve` | `invest_reserve_vault` |
| `wallet`, `escrow` | the user's token accounts; the user's `escrow_vault` |
| `usdc_escrow`, `mint_escrow` | `vault_strategy_cfg_usdc_escrow`; `vault_strategy_cfg_mint_0_escrow` and `_1_` |
| `fees_escrow`, `perf_escrow` | `vault_strategy_cfg_mint_*_fees_escrow`; `..._perf_fees_escrow` |
| `liquidity`, `fees_owed` | of the strategy's Raydium position |

In `RaydiumPosition` the variables are fields of Raydium's accounts (`tick_current`,
`sqrt_price_x64`, `fee_growth_global`, the ticks' `fee_growth_outside`, the personal position) for
one of the two tokens, which are treated alike, and `unshared`, what the pool has paid less what
the program has shared out. In `ClientTransactions`, `tx` is the transaction under way with the
state to return to when it fails; in `ClientCalls`, `pc` is the await a call is at. Actions there
have the names of the TypeScript functions and of what the network does.

`PauseVault` and `UnpauseVault` are written as the code is, with the seeds it uses; no config has
that address, so that they are never enabled and `Next` leaves them out.
Other guards that the code misses are missing here too: the checks commented out in
`invest_reserve.rs:70`, `swap_to_ratio_raydium_vault_strategy.rs:210` and
`invest_reserve_vault.rs:33` are not part of the actions.

### What is abstracted

* Names, types, bumps, lookup tables, events and logging are left out; the address of a config
  stands for its creator and name, the address of a strategy for its config and id.
* In `VaultCreation` and `TokenizedVaults` Raydium's price is only *below*, *inside* or *above* the
  range of the position, chosen anew at each instruction, and liquidity is counted in tokens of a
  leg at price one. This keeps which leg is used, the minimum of both, and the tokens that are
  left over. The ratio inside the range is a percentage out of `Splits`; a swap returns its input
  less a slippage out of `Slippages` (the minimal amounts the client may give only make it fail).
  The fees that `get_raydium_owed_fees` estimates are taken equal to those that Raydium pays.
* `RaydiumPosition` has these numbers: real prices, liquidity, growth of fees, estimate and payment
  side by side. It shows what the other modules assume: the estimate is never too high
  (`FeesBacked`), and too low only in the case that `EstimateExactUnlessPastZero` names, in which
  fees stay in the fees escrow. It leaves the shares out; a removal takes any amount of liquidity.
* The price of a tick is looked up in a table that rises with the tick, which is all that the
  formulas need; `tick_math.rs` computes it by repeated multiplication. Products are exact: the
  code takes them at twice the width of their factors. The `f64` ratio of `swap_to_ratio` is taken
  exactly and both mints have the same decimals. A tick once used stays in use, and deposits that
  buy no liquidity, to which Raydium gives a meaning of its own, are left out.
* In `VaultCreation` the USD valuation is amount times price with the code's overflow check;
  `UsdValuation` has the decimals and exponents. The code looks at neither age nor confidence of
  a price.
* Account constraints that make two accounts belong together are taken to hold in
  `TokenizedVaults`; in `ClientTransactions` they are the addresses of the description and of
  Raydium, and a call that names another account fails. There an address is the tuple of its seeds,
  so that two addresses are equal when all their seeds are, and hashing is left out.
* In `ClientCalls` a transaction of a table that has landed is also final: the blocks in between are
  left out, and giving up in between is `ConfirmTable`'s third case. The countdown to the last block
  (`blocks_left`) stands for the block height, and a transaction that was sent may land at
  any later time, even after the one blockhash it names is spent.
* The scripts' amounts, SOL and what is only printed are left out; an answer is right, an error,
  or an error about something that has happened all the same.

## Runs

| Run | Properties | Instance and bounds |
|---|---|---|
| `creation` | `CreationTypeOK`, `AllocationBounded`, `ActiveFullyAllocated`, `RegistryAgrees`, `InvestmentDivides`, `ActiveConfigFrozen` | two creators with a config each, four strategies (three of one config, which takes two), two admins, percentages 1, 3, 4, 6, 10 with limits 3 and 10; a "u64" of 120, so that the product of `InvestmentDivides` saturates for the larger amounts |
| `shares` | `TypeOK`, `SharesBacked`, `ExitServiceable`, `SharesHaveLiquidity`, `RemovalRoundingBounded` | creator and one investor in one strategy, deposits of 4 repeated up to the wallets' contents, removals of 50 % and 100 % |
| `fees` | `ExitServiceable`, `SharesHaveLiquidity`, `EarlierFeesUntouched`, `DrainedStaysDrained` | one strategy, the price below, inside and above its range, slippage 1, fees of 4 that accrue twice, full removals |
| `reserves` | `ReservesSolvent`, `SwapCreditedOnce` | two investors, two strategies with percentages that may be 1/3 and 2/3 or end below all, reserves of 6 opened twice, up to three swaps |
| `position` | `PositionTypeOK`, `FeesBacked`, `EstimateNeverAborts`, `DepositsWithinMaxima`, `AmountsFollowPrice`, `CreditWithinRounding`, `EstimateExactUnlessPastZero` | a pool of three ticks, the middle one being the position's range; `Q64` = 4, prices 2 to 10, counters modulo 16, growth up to 5 in steps of 1 and 3, deposits of 1, 2 and 4, liquidity up to 10; USD prices, one of them negative, with three exponents and token decimals 0, 1, 2 against 1 of USD |
| `client` | `NoSwapBetweenTransactions`, `DerivedAccountsDistinct`, `ClientAgreesWithIdl`, `DefaultRangeServiceable`, `LedgerSpec`, `EscrowMovesAsAsked` | a creator and an investor, two strategies of half each, the default range and one below it, two processes, deposits up to 8 USDC; the description of the program as it is (`IdlIsCommitted` = FALSE) |
| `client_calls` | `LookupsResolve`, `AllAccountsLookedUp`, `EveryCallEnds` | a create, an add and a remove at once, for one owner; two slots in which a table can be made (a call in any later slot shares the second), so that two calls share one or do not; tables of five entries, which two calls fill; either token account may be missing; blockhashes that one block outlives (`BLOCKHASH_LIFE` = 1), so that giving up and landing may come in either order; a node that goes down at any time, as often as it likes |
| `test_environment` | `DoneMeansFunded`, `EventuallyReady` | both networks, both scripts, any number of runs of them, three failures |
| `doc_shares`, `doc_fees`, `doc_idl`, `doc_ratio` | one claim each | the instances above, or smaller ones with the counterexample |

What bounds a run of investors is the
money: wallets are finite, each deposit moves `Amounts`, and no instruction creates tokens but
`AccrueFees`, which `MaxFees` bounds over the pool and all fee escrows together. Deposits,
swaps and removals may be repeated as long as there is money, so that the counters drift apart
(two or three deposits by one holder, with removals between), reserves are overwritten and hold
two swaps of a strategy, and the last strategy is added to first. `RemovePercentages` = {} in
`reserves` because removals touch no reserve. Two users are enough for
every shared account to be contested; the theorems are for any number.
`DENOMINATOR_MULTIPLIER` is 100 and the largest removal 10 units in these runs, small enough for
every rounding of the code to lose something, and `U64_MAX` = 1000 there is never reached.
`SwapCreditedOnce` is stated for a strategy with a single entry in the reserve: of two entries
`set_swap_to_ratio_executed` marks the first one twice, and the second stays pending after both deposits.

In `position` the two ends of the range may be first used in either order, before, between or by
the position, and the price may cross both ends any number of times, so that the counter of growth
inside starts below zero (15, 14, ... of 16) and passes it. `MAX_GROWTH` is less than half the
span, as it is in the program, where a counter of 128 bits never comes near its end.

Deadlock is checked in every run. In `client_calls` that says nothing, because the node can always go
down or come back; that no call is stuck there is `EveryCallEnds`.

### Liveness and fairness

The program schedules nothing: every instruction is sent at a user's will, so that no fairness is
assumed of it and nothing must eventually happen on the chain. Off the chain two things must:

* `EveryCallEnds`: a call returns or throws, as long as the network is alive. Four things are assumed,
  each by a name of its own in `ClientCalls`, and the property fails without any one of them:
  * `RequestsSettled`, `WF(Answered(c) \/ Fail(c))` for each call: Node's event loop resumes an await
    that is settled, and each single request to the RPC node is answered or rejected.
  * `ConfirmationPolled`, `SF(node_up /\ ConfirmTable(c))` for each call: `confirmTransaction`
    (`utils.ts:173`) asks every second and passes over requests that fail. So its wait ends neither
    by a failure nor while the node is down, but it meets a node that answers time and again. Weak
    fairness would not do: the node may go down between any two answers.
  * `ChainGoesOn`, `WF(NextBlock)`: blocks go on being made. The wait gives up only when the
    chain has passed the last block for the blockhash that `AskExpiry` fetched.
  * `NodeComesBack`, `WF(NodeUp)`: a node that is down comes back.

  The last two are about the network and not guaranteed by the code: on a chain that has stopped, or
  with a node that is gone for good, a call that waits for a confirmation waits for ever; the
  client sets no limit of its own. No transaction need land. A confirmation that
  waited for an outcome alone, without giving up, breaks the property.
* `EventuallyReady`: the pools exist and have positions in the end, and for good. Assumed are `WF(Step)`
  (a script that lives goes on) and `SF(RunSetup /\ ~Ready)` (a developer whose cluster is not
  ready runs setup again some time, although the other script may run first). Failures are
  bounded by `MAX_FAULTS`, which stands for their ending. A `createPool` that did not catch the
  error of a pool that exists would end every later run there and breaks the property.

### Refinement

`LedgerSpec` says that `ClientSpec` implements `InvestmentLedger`. The mapping takes an investor's
escrow and assets and the config's USDC as they were before the transaction under way
(`Committed...`), because others see nothing of it until it commits. Under it the steps of the program inside a
transaction are stutters and the commit is one step, `Invest`: the amount leaves the escrow, part of it is booked,
and the rest stays in the config. The program alone does not
implement the ledger: an `invest_reserve` without the rest is a state in between. The run
therefore depends on the client sending all three instructions at once, as its mutant shows.

### What the runs with a violation show

* `doc_shares`: a second deposit counts the first one's shares again in `total_shares`
  (`add_liquidity_raydium_vault_strategy.rs:235`), so the counter is not the sum of the positions.
  It errs on the safe side (`SharesBacked`), but holders' parts shrink with each deposit.
* `doc_fees`: fees collected with another holder's removal are never paid to those who stay.
* `doc_idl`: the committed description has no `activate_vault_strategy_config`, so that every
  instruction from `create_raydium_vault_strategy` on is sent with a number one too low, and a
  `withdrawFromEscrow` arrives as `deposit_to_escrow`.
* `doc_ratio`: USDC is split between the legs by the inverse of the price
  (`swap_to_ratio_raydium_vault_strategy.rs:500`), so that the legs are not bought in the ratio of
  the position's value; the two agree only at price one or when one leg is empty.

More claims are refuted by configurations of their own, each with one property, run by hand as
shown under *Running*:

| Configuration, module | Property | Claim and what the code does |
|---|---|---|
| `MCDocDraft`, `MCTokenizedVaults` | `InvestOnlyInActive` | `src/README.md:128` activation enables investors; `invest_reserve.rs:70` does not look at the status |
| `MCDocReserve`, same | `ReserveOpenedOnce` | `error.rs:137` "InvestReserveVault already initialized"; `invest_reserve_vault.rs:33` the check is commented out |
| `MCDocSwap`, same | `SwapUsedOnce` | `error.rs:119` "SwapToRatioVault already exists"; whole entries are compared, so that a strategy gets a second one, which `add_liquidity` leaves pending |
| `MCDocPauseVault`, same | `ActiveConfigCanPause` | `pause_vault.rs:7`; its seeds match no config |
| `MCDocPause`, same | `PauseStopsInvesting` | `src/README.md:121` emergency controls; no investor instruction reads the protocol's status |
| `MCDocTicks`, `MCClient` | `StrategiesServiceable` | `src/README.md:134` add liquidity to the chosen strategy; a strategy with another range than the default has other accounts than the client names |
| `MCDocEstimate`, `MCClient` | `EstimatesWhatIsSwapped` | `add-liquidity-raydium-strategy.ts:308` "not arbitrary amounts"; they are halves of a constant |
| `MCDocAccount`, `MCClientCalls` | `SecondReadSucceeds` | `tokens/index.ts:90` "this should always succeed"; the instruction was built, not sent |
| `MCDocGenerate`, `DocumentedEnvironment` | `GeneratesFees` | `src/README.md:206`; the loop of swaps in `generateFees.ts:57` is never entered |
| `MCDocRetry`, same | `RetriesFailedPosition` | `create-position.ts:122` "retrying..."; the call is commented out |
| `MCDocBalance`, same | `BalanceOfTokenAccount` | `utils.ts:456`; the owner's address is asked, not the token account |

## Proofs

The theorems on the program hold for any finite set of users, any sets of configs, strategies and
admins, and any constants that satisfy `ScaleAssumption`, `CreationAssumption` and
`InvestAssumption`.

* **Creation** (`VaultCreation_proofs`). `CreationInv` joins the types, the aligned and bounded
  lists, full allocation of Active configs and the exact registry, which are inductive only
  together: that a strategy is listed once needs that a listed strategy is initialized and the
  guard `~v.initialized`; that the lists stay aligned is needed for the sum of the percentages.
  From it follow `CreationTypeCorrect`, `AllocationTheorem`, `FullAllocationTheorem`,
  `RegistryTheorem`, and the action property `FrozenTheorem`. `DivisionTheorem`, that the parts of
  an investment add up to it but for rounding, compares a sum of floors with the floor of a sum:
  `SumsCompare` takes the smallest set of strategies for which the comparison would fail, which
  stands in for an induction over the set.
* **Whole program** (`TokenizedVaults_proofs`). `Inv == TypeOK /\ CreationInv`: the investors'
  instructions keep the invariant of creation because they change a vault only in its totals.
  `TypeCorrect` says that no transfer takes a balance below zero. `SolvencyTheorem` adds `ReservesSolvent`: each step
  changes the unspent part of at most one reserve, and moves the escrow by at least as much in
  the right direction (`SumUpdate` of `VaultAccountsTheorems`). `CreditedOnceTheorem` needs one more
  invariant, `SwapsOfCreated`, that no reserve lists a strategy which is not created yet: else the
  creator's own first deposit would raise a position and leave a swap pending. `DrainedTheorem`
  joins two facts: only a swap makes a reserve list a strategy, and it needs something for leg 0;
  and only a listed swap brings liquidity back.
* **Shares and fees** (`ShareAccounting_proofs`). Assumption: `[]NoSaturation`, that no vault's
  `total_shares` is at `U64_MAX`. It is needed: once the counter saturates, removals subtract
  from a number that is too small, and at the real width hundreds of repeated deposits by one
  holder reach it, because each counts all earlier ones again. `ShareInv` adds to `Inv` that
  outstanding shares are at most `total_shares`, that `total_assets` is at most the booked assets
  and that a config's fee is at most the whole. From it follow `SharesBackedTheorem`,
  `ExitTheorem` (the part of a position is at most the whole, hence liquidity and fees suffice),
  `EarlierFeesTheorem` and `LiquidityTheorem` (a removal takes all the liquidity only when it
  burns all the shares). `DilutionTheorem` bounds what a removal takes from those who stay: its
  liquidity and its burn are both rounded from a part that is rounded itself, and the three
  roundings together come to no more than one share.
* **Position** (`RaydiumPosition_proofs`). For any ticks, prices, widths and amounts that satisfy
  `LiquidityMathAssumption`, `FeeGrowthAssumption` and `RaydiumPositionAssumption`. `PositionInv`
  joins the types, `FeesBacked`, and `OutsideWithinGrowth`: a tick's counter is at most the
  pool's growth, and both ends of an open position are in use. The last is what makes
  the checked subtractions safe (`EstimatesNeverAbort`), and it is inductive because crossing a tick
  turns its counter into the growth less itself. `FeesAreBacked` needs that program and pool
  compute the same counter inside, and that whenever the program compares two counters and
  returns only the old fees the pool pays at least those. `PositionTypeCorrect` says in particular
  that the position's liquidity is never negative.
* **Amounts** (same module). `DepositsFit`: the liquidity asked for, rounded down in
  two quotients, costs no more than the maxima, although the pool rounds the cost up in three;
  below, within and above the range. `PositionFollowsPrice` needs only that `PositionTypeOK` knows
  the tick to be the price's own or, at the start of a tick, the one below.
* **Exact fees** (same module). `EstimateExact`, under `FeesFit`: the fees of all the
  growth of the pool fit a u64 (without it the estimate counts a product beyond it as 0, and the
  model's pool pays it). `FeesInv` adds to `PositionInv` that the growth inside, read as a signed
  number, has not fallen since the position was last updated; crossing a tick keeps that number.

* **Valuation** (same module). `CreditTheorem`: the amount and the price are each cut to within one
  unit (`NormalizedAmount`, `NormalizedPrices`), and so is their product (`ValuationBounds`). It has
  the hypothesis `PowersOfTen`, that powers of ten are positive and add their exponents: the provers
  have no rule for `^`, and to derive the law is an induction over the exponent, which they cannot
  do. `UsdAssumption` says that prices and exponents are integers, the latter bounded below.
* **Client** (`ClientTransactions_proofs`). For any keys, ids, ticks, amounts and order of the mints
  that satisfy `ClientAddressAssumption` and `ClientAssumption`: ids are bytes and unique within a
  config, a key is not both of a config and of a strategy, the two mints of the pool differ, and the
  default range is not empty. All theorems have the hypothesis `~IdlIsCommitted`, a description that
  numbers the instructions as the program does; under the committed one they are false, as `doc_idl`
  shows. Two invariants carry them.
  * `BuiltInv`: what is in a transaction while it waits. Each function of the client is followed through
    Anchor's resolver to the accounts its instruction ends up with, one lemma for each instruction.
    From it follow `ClientAgreesTheorem`, `DerivedAccountsTheorem` and `DefaultRangeTheorem`. The
    last needs the mints sorted, which opening a position in the client's pool implies.
  * `ClientInv`: how far a transaction is. A transaction of one instruction is `Alone`; an investment is
    `Whole`, `Reserved` or `Swapped`, and each stage gives the escrow, the config's USDC, the reserve
    and the positions in terms of those at the start (`tx.before`): at `Reserved` the whole amount
    is in the config and the reserve is new and empty; at `Swapped` the reserve has exactly one entry,
    of the strategy meant, with a part of the amount. It joins `TypeOK`, that no reserve at rest has a
    swap waiting (`Settled`), and that nobody holds assets in a strategy not created (`Unopened`).
    For each instruction a lemma says what its handler does to these when it is reached with the
    accounts that were put in.

  `NoSwapTheorem` follows at once. `Seen` then says of each step what others see of it: nothing, a move of
  one escrow by a call that moves escrows, one position, or a whole investment. `EscrowTheorem` and the
  refinement are read off it. `LedgerTheorem` maps the initial states and each step to
  `InvestmentLedger`, with the hypothesis `[]AssetsCounted`, that no position's assets have reached the
  largest u64: there they saturate, and what is invested is no longer booked.
* **Overlapping calls** (`ClientCalls_proofs`). `CallsInv` follows a call through sending, confirming
  and fetching: a transaction that landed has put its accounts into its table; a call past the confirmation
  has one that landed; past the fetch it holds a copy with all its accounts; and each copy is a
  beginning of the table on the chain (`FetchedBegin`), because tables only grow, whoever extends
  them. The last is what makes `LookupsResolveTheorem` hold after a message was compiled, and the others
  give `AllAccountsLookedUpTheorem`. Both hold for any calls, slots and accounts that satisfy
  `ClientCallsAssumption`.
* **Set-up** (`TestEnvironment_proofs`). `EnvInv`: a setup that is past a minting has made it
  (`MintedSoFar`), whatever failed and whoever ran before; `DoneMeansFundedTheorem` is its last place.

`VaultAccountsTheorems` holds the arithmetic: a floor quotient is at most its bound, products are
monotone, the part, burn, withdrawal and fees of a position are bounded by what they are parts of,
and how a sum over users changes with one of them.

So every safety property that the passing runs check, and the refinement, is proved. Only
model-checked are `EveryCallEnds` and `EventuallyReady`, which are liveness under fairness, and the
violations.

## Not modelled

* `P/state/investor_escrow.rs` and the functions of `P/libraries` that no instruction calls
  (`sqrt_price_math.rs`, the single-sided variants of `liquidity_math.rs`): dead code.
* `tick_math.rs`, the price of a tick by repeated multiplication at 128 bits: TLC cannot compute at
  that width, and at a smaller one its constants mean nothing. The table of prices assumes what the rest
  relies on, that it rises.
* The lists of names, errors and types of the interface description, its devnet copy (which
  differs by addresses), and the texts of `error.rs`.
* Helpers of `src/app/utils.ts` that nothing calls, `src/migrations/deploy.ts`, which is empty,
  and the tests, whose expectations are quoted by the claims.

## Plan

1. Done: the on-chain program with its proofs; the numbers of a position with theirs; the client,
   its calls, the refinement to `InvestmentLedger`; the scripts.
2. Done: proofs of all of these but for what the provers cannot do (see *Proofs*).
3. Left: `TokenizedVaults` composed with `RaydiumPosition`, so that shares are paid out of real
   liquidity, with the invariants of both carried over to the composition.

## Running

    tlc -config MCShares.cfg MCTokenizedVaults.tla
    tlc -config MCDocPauseVault.cfg MCTokenizedVaults.tla
    tlapm ShareAccounting_proofs.tla
