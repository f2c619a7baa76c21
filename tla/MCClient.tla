------------------------------- MODULE MCClient -------------------------------
(***************************************************************************)
(* The client used by alice, who creates, and by bob.  The strategies' legs *)
(* are the tokens A and B; the client gives them in the order B, A.         *)
(***************************************************************************)
EXTENDS DocumentedClient

CONSTANTS
  alice, bob, c1, s1, s2, A, B,
  CreatorWallet, InvestorWallet   \* USDC of alice and of bob at first

MCCreatorOf == c1 :> alice
MCConfigOf == [s \in Strategies |-> c1]
MCInitialWallet ==
  alice :> (USDC :> CreatorWallet @@ A :> 3 @@ B :> 3)
  @@ bob :> (USDC :> InvestorWallet @@ A :> 0 @@ B :> 0)
MCLegMint == c1 :> (0 :> A @@ 1 :> B)
MCMintOrder == USDC :> 2 @@ A :> 1 @@ B :> 3
MCStrategyId == [s \in Strategies |-> IF s = s1 THEN 0 ELSE 1]
\* The default range of the client, and one as wide below it.
MCDefaultTickLower == -5
MCTickRanges == {<<-5, 6>>, <<-9, 2>>}
MCFeeAccruals == {[k \in Legs |-> 1]}
==============================================================================
