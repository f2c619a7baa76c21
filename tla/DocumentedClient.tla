--------------------------- MODULE DocumentedClient ---------------------------
(***************************************************************************)
(* What README, comments and tests say of the client and the code does not *)
(* do.  Each definition has a configuration, MCDoc*.cfg, that refutes it.  *)
(***************************************************************************)
EXTENDS ClientTransactions

CONSTANTS
  TOTAL_RESERVED_AMOUNT,   \* 10_000_000 in add-liquidity-raydium-strategy.ts
  CLIENT_MAX_PERCENTAGE    \* 10_000 there, 1_000_000 in the program

\* Whatever range a creator chose, an investor can add to the strategy and
\* withdraw from it: the client's calls name the accounts of its position.
StrategiesServiceable ==
  \A u \in Users, s \in Strategies :
    vault_strategy[s].initialized =>
      FitsRaydium(LiquidityGiven(u, s), s, raydium_position[s])

\* getObservationsAndRemainingAccounts: the USDC of each leg for which the
\* client looks up the tick arrays, half of the strategy's part.
EstimatedLegAmount(s) ==
  ((TOTAL_RESERVED_AMOUNT * vault_strategy[s].percentage) \div CLIENT_MAX_PERCENTAGE) \div 2

\* The client looks up the tick arrays of the amounts that will be swapped.
EstimatesWhatIsSwapped ==
  (tx # NoTx /\ tx.call = "addLiquidityRaydiumStrategyTx" /\ Len(tx.queue) = 2) =>
    LET amount == reserve[tx.user][ConfigOf[tx.about]].reserved_amount
        part   == UsdcAmount(amount, vault_strategy[tx.about].percentage)
    IN \E split \in Splits :
         EstimatedLegAmount(tx.about)
           = RatioAmounts(tx.about, part, "inside", split)[0]
==============================================================================
