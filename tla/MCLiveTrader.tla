---------------------------- MODULE MCLiveTrader ----------------------------
(* Signals on different contracts of one event: same family, same cluster. *)
EXTENDS LiveTraderLedger, TLC

CONSTANTS c1, c2, c3

MCContractOf == (c1 :> "K1") @@ (c2 :> "K2") @@ (c3 :> "K3")
MCFamilyOf   == [c \in Candidates |-> "F"]
MCClusterOf  == [c \in Candidates |-> "E"]
StakeTwo     == [c \in Candidates |-> 2]
StakeTwoOne  == [c \in Candidates |-> IF c = c1 THEN 2 ELSE 1]

(* Only equality of contracts, families and clusters is ever tested, and   *)
(* with equal stakes permuting the candidates changes none of them.        *)
Swap == Permutations(Candidates)
=============================================================================
