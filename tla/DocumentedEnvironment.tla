------------------------- MODULE DocumentedEnvironment -------------------------
(***************************************************************************)
(* What README, comments and messages say of the scripts and the code does *)
(* not do.  Each definition has a configuration that refutes it.           *)
(***************************************************************************)
EXTENDS TestEnvironment

\* make generate-fees generates fees: when it is done, the pools have traded.
GeneratesFees == "fees" \in done => traded

\* "failed to open clmm position, retrying...": an opening that failed has been
\* tried a second time by the time the script is done.
RetriesFailedPosition ==
  At("done") => \A p \in unopened : attempts[p] > 1

\* The balance that the tests print is that of the owner's token account.
BalanceOfTokenAccount ==
  \A w \in Wallets, mint \in {"mint0", "mint1"} :
    getTokenBalanceForOwner(mint, w) = BalanceAt(TokenAccount(w, mint))
==============================================================================
