--------------------------- MODULE MCVaultCreation ---------------------------
(***************************************************************************)
(* VaultCreation on two creators: alice's config may list two of her three *)
(* strategies, bob's config has one.                                       *)
(***************************************************************************)
EXTENDS VaultCreation, TLC

LOCAL INSTANCE FiniteSetsExt

CONSTANTS alice, bob, admin, c1, c2, s1, s2, s3, s4, USDC, SOL

MCCreatorOf == c1 :> alice @@ c2 :> bob
MCConfigOf == s1 :> c1 @@ s2 :> c1 @@ s3 :> c1 @@ s4 :> c2
MCInitialWallet == [u \in Users |-> [m \in Mints |-> 3]]
MCLegMint == [c \in Configs |-> 0 :> SOL @@ 1 :> USDC]

\* The sum by units agrees with the fold of the community modules.
ASSUME SumAgrees ==
  \A f \in [1..3 -> 0..3] : SumOver(1..3, f) = MapThenSumSet(LAMBDA n : f[n], 1..3)
==============================================================================
