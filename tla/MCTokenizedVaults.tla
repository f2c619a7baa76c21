-------------------------- MODULE MCTokenizedVaults --------------------------
(***************************************************************************)
(* TokenizedVaults with one config of alice, invested in by alice herself  *)
(* and by bob.  The runs differ in the number of strategies, the arguments *)
(* that occur and the width of the u64.                                    *)
(***************************************************************************)
EXTENDS DocumentedClaims, TLC

CONSTANTS
  alice, bob, c1, s1, s2, SOL,
  CreatorWallet, InvestorWallet,   \* USDC of alice and of bob at first
  Fees                             \* fees of token 0 a pool pays at once

MCCreatorOf == c1 :> alice
MCConfigOf == [s \in Strategies |-> c1]
MCInitialWallet ==
  alice :> (USDC :> CreatorWallet @@ SOL :> 10) @@ bob :> (USDC :> InvestorWallet @@ SOL :> 0)
MCFeeAccruals == {0 :> fees @@ 1 :> 0 : fees \in Fees}
MCLegMint == c1 :> (0 :> SOL @@ 1 :> USDC)
==============================================================================
