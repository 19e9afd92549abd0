-------------------------- MODULE MCPortfolioCaps ---------------------------
EXTENDS PortfolioCaps, TLC
CONSTANTS r1, r2, r3, r4, r5, k1, k2, k3, k4, x, y, z

(* Two rows of one contract, in a cluster with a third row, and two more   *)
(* clusters of one row.                                                    *)
ContractRows == r1 :> k1 @@ r2 :> k1 @@ r3 :> k2 @@ r4 :> k3 @@ r5 :> k4
ClusterRows == r1 :> x @@ r2 :> x @@ r3 :> x @@ r4 :> y @@ r5 :> z

(* Some exceed the cap of a contract: build_paper_decision_candidates      *)
(* hands over none of these, and the first pass would have nothing to do.  *)
StakeRange == {0, 4 * 9, 4 * 11, 4 * 20, 4 * 37}
=============================================================================
