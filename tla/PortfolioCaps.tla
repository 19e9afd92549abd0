---------------------------- MODULE PortfolioCaps ----------------------------
(***************************************************************************)
(* The portfolio caps of the paper decisions: the three passes that bring  *)
(* the stakes of a basket of rows within the cap of a contract and within  *)
(* the share a cluster of correlated rows may have of the whole.           *)
(*                                                                         *)
(* A unit is the billionth of a dollar by which the search for a basket    *)
(* that fits may miss; a stake is a multiple of Grain, the millionth it is *)
(* rounded to.  A row is usable while its stake is positive: what blocks a *)
(* row zeroes its stake.                                                   *)
(***************************************************************************)
EXTENDS Sums

CONSTANTS
  Basket,                  \* rows
  Contracts, Clusters,
  ContractOf, ClusterOf,   \* the contract and the cluster of a row
  Stakes,                  \* the stakes a row may come with
  MaxContract,             \* max_contract_stake
  ShareNum, ShareDen,      \* max_cluster_share, as a fraction
  Kept, Whole,             \* PORTFOLIO_CAP_CLIP_BUFFER, as a fraction
  Grain,                   \* units in the last digit of a stake
  Precision                \* ten to the digits of a share

ASSUME BasketAssumption ==
  /\ IsFiniteSet(Basket) /\ IsFiniteSet(Clusters)
  /\ ContractOf \in [Basket -> Contracts] /\ ClusterOf \in [Basket -> Clusters]
ASSUME PortfolioAssumption ==
  /\ {MaxContract, ShareNum, ShareDen, Kept, Whole, Grain, Precision} \subseteq Nat \ {0}
  /\ ShareNum <= ShareDen /\ Kept <= Whole
  /\ Stakes \subseteq Nat /\ \A s \in Stakes : s % Grain = 0

VARIABLES
  pass,    \* where enforce_paper_portfolio_caps is
  stake,   \* paper_stake
  asked,   \* the stake a row came with
  lo, hi   \* the totals the search is between

capVars == <<pass, stake, asked, lo, hi>>

-----------------------------------------------------------------------------
(* round(a / b), half to even, and the same to the last digit of a stake.  *)
Nearest(a, b) ==
  LET q == a \div b  r == a % b
  IN  IF 2 * r > b \/ (2 * r = b /\ q % 2 = 1) THEN q + 1 ELSE q
Rounded(a, b) == Grain * Nearest(a, b * Grain)

OfContract(c) == {r \in Basket : ContractOf[r] = c}
OfCluster(k) == {r \in Basket : ClusterOf[r] = k}
Exposure(S) == SumOver(S, stake)

(* Mutant: a row is compared with the cap by itself.                       *)
RowOverContract(c) == \E r \in OfContract(c) : stake[r] > MaxContract

OverContract(c) == Exposure(OfContract(c)) > MaxContract
OverShare(k) ==
  /\ Exposure(Basket) > 0
  /\ Nearest(Exposure(OfCluster(k)) * Precision, Exposure(Basket)) * ShareDen
       > ShareNum * Precision

(* ceil(1 / max_cluster_share): with fewer clusters one exceeds its share. *)
RequiredClusters == (ShareDen + ShareNum - 1) \div ShareNum
Infeasible == Cardinality({k \in Clusters : Exposure(OfCluster(k)) > 0}) < RequiredClusters

(* In a basket of t, the clusters that have more than their share give     *)
(* that, and the others all they have.  The basket fills if this comes to  *)
(* t, or a unit less.                                                      *)
Exceeding(t) == {k \in Clusters : Exposure(OfCluster(k)) * ShareDen > ShareNum * t}
Untouched(t) == {r \in Basket : ClusterOf[r] \notin Exceeding(t)}
Fills(t) ==
  ShareDen * Exposure(Untouched(t)) + Cardinality(Exceeding(t)) * (ShareNum * t) + ShareDen
    >= ShareDen * t

-----------------------------------------------------------------------------
CapsInit ==
  /\ stake \in [Basket -> Stakes]
  /\ asked = stake
  /\ pass = "contracts"
  /\ lo = 0 /\ hi = 0

(* Each row is compared with the cap of its contract by itself.            *)
Capped(s) == IF s > MaxContract THEN Rounded(MaxContract, 1) ELSE s
ContractPass ==
  /\ pass = "contracts"
  /\ pass' = "clusters"
  /\ stake' = [r \in Basket |-> Capped(stake[r])]
  /\ UNCHANGED <<asked, lo, hi>>

BlockInfeasible ==
  /\ pass = "clusters" /\ Infeasible
  /\ pass' = "residual"
  /\ stake' = [r \in Basket |-> 0]
  /\ UNCHANGED <<asked, lo, hi>>

(* The search for the largest basket that fills: bisection.                *)
StartSearch ==
  /\ pass = "clusters" /\ ~Infeasible
  /\ pass' = "search"
  /\ lo' = 0 /\ hi' = Exposure(Basket)
  /\ UNCHANGED <<stake, asked>>

Middle == (lo + hi) \div 2
Halve ==
  /\ pass = "search" /\ hi - lo > 1
  /\ IF Fills(Middle) THEN lo' = Middle /\ hi' = hi ELSE lo' = lo /\ hi' = Middle
  /\ UNCHANGED <<pass, stake, asked>>

(* Mutant: the share is taken of the basket as it came.                    *)
WholeBasket == Exposure(Basket)

(* After eighty halves of a float, both are the number between them; one   *)
(* that was never lowered is met by the other.                             *)
Found == IF Fills(hi) THEN hi ELSE lo

(* A cluster over its share is scaled down to the buffered share, every    *)
(* row by the same ratio.  What rounds to zero is blocked.                 *)
Scaled(r, t) ==
  Rounded(stake[r] * (ShareNum * t * Kept), Exposure(OfCluster(ClusterOf[r])) * (ShareDen * Whole))
ClipPass ==
  /\ pass = "search" /\ hi - lo <= 1
  /\ pass' = "residual"
  /\ LET t == Found IN
     stake' = [r \in Basket |-> IF ClusterOf[r] \in Exceeding(t) THEN Scaled(r, t) ELSE stake[r]]
  /\ UNCHANGED <<asked, lo, hi>>

(* What still breaches a cap is blocked, once: the shares of the others    *)
(* are not computed again, and one of them can be over its cap after it.   *)
ResidualPass ==
  /\ pass = "residual"
  /\ pass' = "done"
  /\ stake' = [r \in Basket |->
       IF OverContract(ContractOf[r]) \/ OverShare(ClusterOf[r]) THEN 0 ELSE stake[r]]
  /\ UNCHANGED <<asked, lo, hi>>

Done == pass = "done" /\ UNCHANGED capVars

CapsNext ==
  ContractPass \/ BlockInfeasible \/ StartSearch \/ Halve \/ ClipPass \/ ResidualPass \/ Done
CapsSpec == CapsInit /\ [][CapsNext]_capVars

-----------------------------------------------------------------------------
(* Rows of a contract that are each within its cap can exceed it together; *)
(* whatever the passes in between make of them, no contract is over its    *)
(* cap when enforce_paper_portfolio_caps returns.                          *)
NoContractOver ==
  pass = "done" => \A c \in Contracts : Exposure(OfContract(c)) <= MaxContract

(* The clip leaves no cluster more over its share of the clipped basket    *)
(* than the buffer takes off the whole and the rounding of each row can    *)
(* add; and it takes no more than that below the share from a cluster it   *)
(* scales (_enforce_cluster_share_caps).                                   *)
Allowance ==
  (Whole - Kept) * SumOver(Basket, asked) + Whole * (1 + Cardinality(Basket) * Grain)
NearTheCap ==
  pass = "residual" =>
    \A k \in Clusters :
      LET has == ShareDen * Exposure(OfCluster(k))  may == ShareNum * Exposure(Basket)
      IN  /\ Whole * has <= Whole * may + ShareDen * Allowance
          /\ (\E r \in OfCluster(k) : stake[r] < Capped(asked[r])) =>
               Whole * may <= Whole * has + ShareDen * Allowance
=============================================================================
