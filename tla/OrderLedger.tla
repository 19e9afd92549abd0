---------------------------- MODULE OrderLedger -----------------------------
(***************************************************************************)
(* What the live engine promises about its record of its own orders: an    *)
(* order reaches the market only after the intention is on record; the     *)
(* record of an order lags behind the market but never contradicts it; and *)
(* what it says of the end of an order is final.  On a fragile host the    *)
(* record can be lost, but only all of it at once.                         *)
(***************************************************************************)
EXTENDS Integers

CONSTANTS
  Ids,      \* client order ids
  Fragile   \* whether the host may lose the record

VARIABLES
  intended,    \* ids whose intention is on record
  market,      \* the truth about each order
  ledger       \* the record of each order

vars == <<intended, market, ledger>>

None == [status |-> "none", filled |-> 0]

Init ==
  /\ intended = {}
  /\ market = [id \in Ids |-> None]
  /\ ledger = [id \in Ids |-> None]

Intend(id) ==
  /\ intended' = intended \cup {id}
  /\ UNCHANGED <<market, ledger>>

(* The market entry of id changes, and no other.                           *)
MarketSets(id) ==
  /\ market' = [market EXCEPT ![id] = market'[id]]
  /\ market'[id].status \in {"open", "filled", "canceled"}
  /\ market'[id].filled \in Nat

Place(id) ==
  /\ id \in intended /\ market[id].status = "none"
  /\ MarketSets(id)
  /\ UNCHANGED <<intended, ledger>>

Trade(id) ==
  /\ market[id].status = "open"
  /\ MarketSets(id)
  /\ market'[id].filled >= market[id].filled
  /\ UNCHANGED <<intended, ledger>>

(* The record of an order that is not closed yet catches up, perhaps not   *)
(* all the way, with an order the market knows.  It is closed only when    *)
(* the order is; of one that was canceled it may say that it was filled,   *)
(* as far as it was.                                                       *)
Observe(id) ==
  /\ market[id].status # "none"
  /\ ledger[id].status \in {"none", "open"}
  /\ ledger' = [ledger EXCEPT ![id] = ledger'[id]]
  /\ \/ ledger'[id].status \in {"open", market[id].status}
     \/ ledger'[id].status = "filled" /\ market[id].status = "canceled"
  /\ ledger'[id].filled \in 0 .. market[id].filled
  /\ UNCHANGED <<intended, market>>

(* Intentions and records go together, and the market does not notice.     *)
Lose ==
  /\ Fragile
  /\ intended' = {}
  /\ ledger' = [id \in Ids |-> None]
  /\ UNCHANGED market

Next ==
  \/ \E id \in Ids : Intend(id) \/ Place(id) \/ Trade(id) \/ Observe(id)
  \/ Lose

Spec == Init /\ [][Next]_vars
=============================================================================
