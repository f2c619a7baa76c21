--------------------------- MODULE MCRaydiumPosition ---------------------------
(***************************************************************************)
(* A pool of three ticks, one of them the position's range, where one is   *)
(* the fixed point number 4 and prices go from a half to two and a half.   *)
(* The amounts of a creation are also valued in USD.                       *)
(***************************************************************************)
EXTENDS RaydiumPosition, TLC

CONSTANTS
  UsdPrices    \* prices of the feeds, each with any of three exponents

MCTickPrice == 0 :> 2 @@ 1 :> 4 @@ 2 :> 7 @@ 3 :> 10

\* A price below zero is one that the program refuses.
MCUsdInfos == [price : UsdPrices \cup {-1}, expo : {-2, -1, 0}]
==============================================================================
