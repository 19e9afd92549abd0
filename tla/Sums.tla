-------------------------------- MODULE Sums ---------------------------------
(***************************************************************************)
(* The sum of a function of natural numbers over a set, as the number of   *)
(* its units: the laws of sums are then those of cardinalities.            *)
(***************************************************************************)
EXTENDS Integers, FiniteSets

Units(S, f) == UNION {{i} \X (1 .. f[i]) : i \in S}
SumOver(S, f) == Cardinality(Units(S, f))
=============================================================================
