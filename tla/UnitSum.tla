------------------------------- MODULE UnitSum -------------------------------
(***************************************************************************)
(* Sums of natural numbers over a finite index set, defined by counting    *)
(* units instead of by recursion or by a fold: SumOver(S, f) is the number *)
(* of pairs <<x, n>> with x in S and 1 <= n <= f[x].  TLC evaluates it,    *)
(* and the laws of finite cardinalities give its laws without induction    *)
(* (module UnitSumTheorems).  MCVaultCreation checks that it agrees with   *)
(* the fold of the community modules on a small domain.                    *)
(***************************************************************************)
EXTENDS Naturals, FiniteSets

\* The units that index x contributes, tagged with x so that they are
\* distinct from those of every other index.
UnitsAt(x, n) == {x} \X (1..n)

Units(S, f) == UNION {UnitsAt(x, f[x]) : x \in S}

\* Sum of f[x] for x in S.
SumOver(S, f) == Cardinality(Units(S, f))
==============================================================================
