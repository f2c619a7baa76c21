--------------------------- MODULE InvestmentLedger ---------------------------
(***************************************************************************)
(* What an investor may expect of the client, whatever transactions it     *)
(* sends: USDC leaves the investor's escrow for a strategy in one step, in *)
(* which a part of it is booked as assets of the investor in the strategy; *)
(* what is not booked stays in the config for good, and there is nothing   *)
(* in between.  Nobody else's books change in that step.                   *)
(***************************************************************************)
EXTENDS Integers

CONSTANTS Users, Configs, Strategies, ConfigOf

VARIABLES
  escrow,   \* user -> USDC that the user may invest or take back
  left,     \* config -> USDC paid in and booked for nobody
  assets    \* user -> strategy -> assets booked for the user

ledgerVars == <<escrow, left, assets>>

LedgerInit ==
  /\ escrow = [u \in Users |-> 0]
  /\ left = [c \in Configs |-> 0]
  /\ assets = [u \in Users |-> [s \in Strategies |-> 0]]

\* A deposit to the escrow, or a withdrawal from it.
Move(u) ==
  /\ escrow'[u] \in Nat
  /\ escrow' = [escrow EXCEPT ![u] = escrow'[u]]
  /\ UNCHANGED <<left, assets>>

Invest(u, s) ==
  \E amount \in 1..escrow[u] : \E part \in 1..amount :
    /\ escrow' = [escrow EXCEPT ![u] = @ - amount]
    /\ assets' = [assets EXCEPT ![u][s] = @ + part]
    /\ left' = [left EXCEPT ![ConfigOf[s]] = @ + amount - part]

\* The creator opens a strategy with tokens of its own, or a holder leaves.
Rebook(u, s) ==
  /\ assets'[u][s] \in Nat
  /\ assets[u][s] > 0 => assets'[u][s] <= assets[u][s]
  /\ assets' = [assets EXCEPT ![u][s] = assets'[u][s]]
  /\ UNCHANGED <<escrow, left>>

LedgerNext ==
  \E u \in Users :
    \/ Move(u)
    \/ \E s \in Strategies : Invest(u, s) \/ Rebook(u, s)

LedgerSpec == LedgerInit /\ [][LedgerNext]_ledgerVars
==============================================================================
