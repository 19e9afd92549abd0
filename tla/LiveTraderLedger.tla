-------------------------- MODULE LiveTraderLedger --------------------------
(* The live engine implements OrderLedger: the state file is the ledger,   *)
(* the exchange is the market.                                             *)
EXTENDS LiveTrader

AbstractStatus(s) ==
  CASE s \in {"none", "NONE"} -> "none"
    [] s \in OpenRow \cup {"resting"} -> "open"
    [] s \in {"FILLED", "executed"} -> "filled"
    [] s \in {"CANCELED", "canceled"} -> "canceled"

AbstractOrder(o) == [status |-> AbstractStatus(o.status), filled |-> o.filled]

Ledger == INSTANCE OrderLedger WITH
  Ids      <- OrderIds,
  Fragile  <- "torn" \in Faults,
  intended <- intents,
  market   <- [id \in OrderIds |-> AbstractOrder(exch[id])],
  ledger   <- [id \in OrderIds |-> AbstractOrder(orders[id])]

(* Every behaviour of the engine, whatever fails, is a behaviour of the    *)
(* ledger it promises: write-ahead intentions, a record that never         *)
(* contradicts the exchange, final terminal rows, and a loss, if a write   *)
(* of the state file is torn, of everything and not of a part.             *)
ImplementsLedger == Ledger!Spec
=============================================================================
