------------------------------ MODULE LiveRisk ------------------------------
(***************************************************************************)
(* The pure arithmetic of predmarket/kalshi_live_engine.py: which stored   *)
(* orders count as open exposure, which of them are stale, when the risk   *)
(* snapshot trips a kill switch, and how many contracts a candidate may    *)
(* buy under the caps.                                                     *)
(*                                                                         *)
(* Dollars are integers and a price is a whole number of dollars per       *)
(* contract: the code's floats matter here only through the floor division *)
(* of live_order_size and the comparisons with the limits.                 *)
(***************************************************************************)
EXTENDS Integers, FiniteSets, FiniteSetsExt

CONSTANTS
  Candidates,    \* rows of the paper decision report (one signal each)
  ContractOf,    \* contract_ticker of a candidate
  FamilyOf,      \* family_id of a candidate
  ClusterOf,     \* cluster_key of a candidate
  PaperStake,    \* paper_stake of a candidate, in dollars
  MaxCount,      \* no paper stake is above it
  Prices,        \* limit prices the execution plan can produce
  MaxOpen,       \* LiveRiskLimits.max_open_exposure_usd
  MaxContract,   \* LiveRiskLimits.max_per_contract_usd
  MaxFamily,     \* LiveRiskLimits.max_per_family_usd
  MaxCluster,    \* LiveRiskLimits.max_per_cluster_usd
  MaxDaily,      \* LiveRiskLimits.max_daily_gross_buy_usd
  MaxLoss,       \* LiveRiskLimits.max_daily_loss_usd
  Timeout,       \* LiveRiskLimits.unreconciled_order_timeout_seconds
  DayLength      \* 86400 seconds, in ticks of the model's clock

ASSUME RiskConstants ==
  /\ IsFiniteSet(Candidates) /\ IsFiniteSet(Prices)
  /\ PaperStake \in [Candidates -> Nat]
  /\ MaxCount \in Nat /\ \A c \in Candidates : PaperStake[c] <= MaxCount
  /\ Prices \subseteq Nat \ {0}
  /\ MaxOpen \in Nat /\ MaxContract \in Nat /\ MaxFamily \in Nat
  /\ MaxCluster \in Nat /\ MaxDaily \in Nat /\ MaxLoss \in Nat /\ Timeout \in Nat
  /\ DayLength \in Nat \ {0}

(* No order can be for more contracts than its paper stake buys at a price *)
(* of one, so this range cuts nothing off.                                 *)
Counts == 1 .. MaxCount

(* client_order_id is a uuid5 of signal, ticker, side, price, count and    *)
(* close time: two decisions share an id exactly when candidate, price and *)
(* count agree.  No time and no sequence number enters it.                 *)
OrderIds == [cand : Candidates, price : Prices, count : Counts]

Notional(id) == id.price * id.count

(* TERMINAL_ORDER_STATUSES; CANCELED stands for every terminal status the  *)
(* exchange can report other than a complete fill.                         *)
TerminalRow == {"FILLED", "CANCELED"}
OpenRow     == {"SUBMITTED", "RESTING", "PARTIAL"}

(* The rows of the state file that are not in a terminal status.           *)
OpenOrders(rows) == {id \in OrderIds : rows[id].status \in OpenRow}

(* The dollars of a set of orders, one by one, and how many they are.      *)
Dollars(ids)  == UNION {{id} \X (1 .. Notional(id)) : id \in ids}
Exposure(ids) == Cardinality(Dollars(ids))

InContract(ids, c) == {id \in ids : ContractOf[id.cand] = ContractOf[c]}
InFamily(ids, c)   == {id \in ids : FamilyOf[id.cand] = FamilyOf[c]}
InCluster(ids, c)  == {id \in ids : ClusterOf[id.cand] = ClusterOf[c]}

(* Rows created since the start of the current day, terminal ones too.     *)
DayStart(t) == t - (t % DayLength)
BoughtToday(rows, t) ==
  {id \in OrderIds : rows[id].status # "NONE" /\ rows[id].created >= DayStart(t)}
DailyGross(rows, t) == Exposure(BoughtToday(rows, t))

(* The age test reads created_ts only: a row that was reconciled a moment  *)
(* ago is as stale as one that was never answered.                         *)
StaleOrders(rows, t) == {id \in OpenOrders(rows) : t - rows[id].created > Timeout}

(* state.get("daily_loss_usd") or 0.0: no code of the repository writes    *)
(* that key of the state file, so the read always takes the default.       *)
StoredDailyLoss == 0

KillSwitchReasons(rows, t) ==
  {r \in {"stale", "open", "daily", "loss"} :
     \/ r = "stale" /\ StaleOrders(rows, t) # {}
     \/ r = "open"  /\ Exposure(OpenOrders(rows)) > MaxOpen
     \/ r = "daily" /\ DailyGross(rows, t) > MaxDaily
     \/ r = "loss"  /\ StoredDailyLoss > MaxLoss}

(* Mutant of RemainingCap: the cluster cap is forgotten.                   *)
RemainingCapNoCluster(c, rows, t, balance) ==
  LET open == OpenOrders(rows) IN
  Max({0, Min({MaxOpen     - Exposure(open),
               MaxDaily    - DailyGross(rows, t),
               MaxFamily   - Exposure(InFamily(open, c)),
               MaxContract - Exposure(InContract(open, c)),
               balance})})

(* live_remaining_cap, against the snapshot of build_live_risk_snapshot.   *)
RemainingCap(c, rows, t, balance) ==
  LET open == OpenOrders(rows) IN
  Max({0, Min({MaxOpen     - Exposure(open),
               MaxDaily    - DailyGross(rows, t),
               MaxFamily   - Exposure(InFamily(open, c)),
               MaxCluster  - Exposure(InCluster(open, c)),
               MaxContract - Exposure(InContract(open, c)),
               balance})})

OrderCount(c, price, rows, t, balance) ==
  Min({PaperStake[c], RemainingCap(c, rows, t, balance)}) \div price

(* The decisions that carry no blocker: quote[c] is the limit price of the *)
(* execution plan, or 0 when the candidate, its market or its plan is      *)
(* blocked; every decision is sized against the SAME snapshot.             *)
EligibleOrders(quote, rows, t, balance) ==
  {id \in OrderIds :
     /\ KillSwitchReasons(rows, t) = {}
     /\ quote[id.cand] = id.price
     /\ id.count = OrderCount(id.cand, id.price, rows, t, balance)}
=============================================================================
