--------------------------- MODULE DocumentedClaims ---------------------------
(***************************************************************************)
(* What the repository says of the program in its README, error messages,  *)
(* comments and tests, and what the code does not do.  Each claim is the   *)
(* property of one configuration, MCDoc*.cfg, whose counterexample shows   *)
(* the disagreement.                                                       *)
(***************************************************************************)
EXTENDS TokenizedVaults

\* A vault's total_shares is the sum of its positions' shares: the test of
\* add_liquidity expects both counters to be the same after a deposit.  The
\* code adds the whole position's shares on every deposit, not the new ones.
TotalSharesAddUp ==
  \A s \in Strategies : vault_strategy[s].total_shares = OutstandingShares(s)

\* Activation is what enables strategies for investors (README), so that no
\* investor's USDC enters a config that is still a draft.
InvestOnlyInActive ==
  [][\A c \in Configs :
       usdc_escrow'[c] > usdc_escrow[c] =>
         vault_strategy_config[c].status = "Active"]_vars

\* A reserve is initialized only when no earlier one is open (the error
\* "InvestReserveVault already initialized"; the check is commented out).
ReserveOpenedOnce ==
  [][\A c \in Configs :
       usdc_escrow'[c] > usdc_escrow[c] =>
         \A u \in Users :
           reserve'[u][c] # reserve[u][c] => reserve[u][c] = NoReserve]_vars

\* A swap is recorded once per strategy (the error "SwapToRatioVault already
\* exists") and marked executed when it is added to the pool, so that every
\* deposit uses up one of the pending swaps.
SwapUsedOnce ==
  [][\A u \in Users, s \in Strategies :
       investor_strategy_position'[u][s].assets
         > investor_strategy_position[u][s].assets
       /\ PendingEntries(reserve[u][ConfigOf[s]], s) # {}
       => Cardinality(PendingEntries(reserve'[u][ConfigOf[s]], s))
            < Cardinality(PendingEntries(reserve[u][ConfigOf[s]], s))]_vars

\* Whoever runs an Active config can pause it with pause_vault.
ActiveConfigCanPause ==
  \A c \in Configs :
    vault_strategy_config[c].status = "Active" => ENABLED PauseVault(c)

\* Pausing the protocol is the emergency control of its operations: no money
\* enters a config's escrow or a pool while it is paused.
PauseStopsInvesting ==
  [][protocol_config.status = "Paused" =>
       \A s \in Strategies :
         /\ usdc_escrow'[ConfigOf[s]] <= usdc_escrow[ConfigOf[s]]
         /\ liquidity'[s] <= liquidity[s]]_vars

\* Removing liquidity collects the rewards: once nobody holds shares of a
\* config's strategies, the fees were paid out but for the rounding of a token
\* per investor.
RewardsCollected ==
  \A c \in Configs :
    (\A s \in Strategies : ConfigOf[s] = c =>
       OutstandingShares(s) = 0 /\ fees_owed[s] = NoTokens)
      => \A k \in Legs : fees_escrow[c][k] <= Cardinality(Users)
==============================================================================
