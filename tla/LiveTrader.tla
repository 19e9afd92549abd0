----------------------------- MODULE LiveTrader -----------------------------
(***************************************************************************)
(* The live engine (predmarket/kalshi_live_engine.py) run as one process   *)
(* at a time: a pass of kalshi_live_trader.py (run_live_trader_once) or of *)
(* kalshi_live_reconcile.py (reconcile_live_orders) over the JSON state    *)
(* file, against an exchange that answers, refuses, times out or answers   *)
(* garbage, and a host on which the process can die between two steps or   *)
(* inside a write of the state file.                                       *)
(*                                                                         *)
(* orders, intents, fills and kills are the sections of                    *)
(* kalshi-live-state.json.  exch is the exchange (outside the repository). *)
(* A process keeps its locals in pc, mode, todo, batch, cur and reply.     *)
(***************************************************************************)
EXTENDS LiveRisk

CONSTANTS
  MaxOrdersPerRun,  \* LiveRiskLimits.max_orders_per_run
  Balances,         \* account balances get_balance can report
  MaxTime,          \* bound on the model's clock
  MaxFills,         \* bound: contracts counted in the fills of one order
  Commands,         \* which of CommandKinds the operator runs
  Faults,           \* which failures the environment produces
  NoOrder           \* value of cur between iterations

FaultKinds ==
  {"api_error",  \* a status >= 400, the request had no effect
   "ambiguous",  \* a status >= 400 although the order was accepted
   "timeout",    \* the requester raises something else: the run dies
   "malformed",  \* a 200 whose body is not the documented JSON
   "crash",      \* the process dies between two steps
   "torn",       \* the process dies inside a write of the state file
   "slow"}       \* the clock moves while a pass is under way

CommandKinds ==
  {"trade",      \* a trader pass, execution_strategy maker_first (the default)
   "take",       \* a trader pass, execution_strategy taker_cross
   "dry_run",    \* a trader pass with --dry-run
   "reconcile"}  \* kalshi_live_reconcile.py

ASSUME TraderConstants ==
  /\ MaxOrdersPerRun \in Nat /\ MaxTime \in Nat
  /\ MaxFills \in Nat /\ MaxFills >= MaxCount
  /\ Balances \subseteq Nat
  /\ Faults \subseteq FaultKinds
  /\ Commands \subseteq CommandKinds
  /\ NoOrder \notin OrderIds

VARIABLES
  orders,   \* section "orders" of the state file, by client_order_id
  intents,  \* section "intents": ids with an INTENDED row
  fills,    \* section "fills": sum of fill_count over the rows of an id
  kills,    \* section "kill_switch_events" is not empty
  erased,   \* history: orders sent whose intent was in a file that was torn
  exch,     \* the exchange's own record of each client_order_id
  now,      \* time.time()
  pc, mode, \* where the process is; which command it runs
  todo,     \* open orders the reconcile loop has still to ask about
  batch,    \* eligible decisions the submit loop has still to send
  cur,      \* order of the current iteration
  reply     \* what the exchange answered about cur

store   == <<orders, intents, fills, kills, erased>>
locals  == <<mode, todo, batch, cur, reply>>
vars    == <<orders, intents, fills, kills, erased, exch, now, pc, mode, todo, batch, cur, reply>>

NoRow   == [status |-> "NONE", filled |-> 0, created |-> 0, known |-> FALSE]
Row     == [status : {"NONE"} \cup OpenRow \cup TerminalRow, filled : Nat,
            created : Nat, known : BOOLEAN]
ExchStatus == {"none", "resting", "executed", "canceled"}
ExchOrder  == [status : ExchStatus, filled : Nat]
(* done: remaining_count is 0.  An answer that cannot be read has none.    *)
NoReply    == [filled |-> 0, done |-> FALSE, known |-> FALSE, parsed |-> FALSE]
Reply      == [filled : Nat, done : BOOLEAN, known : BOOLEAN, parsed : BOOLEAN]

(* What load makes of no file, of an empty one and of one cut short.       *)
NoRows  == [id \in OrderIds |-> NoRow]
NoFills == [id \in OrderIds |-> 0]
EmptyStore == orders = NoRows /\ intents = {} /\ fills = NoFills /\ kills = FALSE

Init ==
  /\ EmptyStore /\ erased = {}
  /\ exch = [id \in OrderIds |-> [status |-> "none", filled |-> 0]]
  /\ now = 0
  /\ pc = "idle" /\ mode = "trade"
  /\ todo = {} /\ batch = {} /\ cur = NoOrder /\ reply = NoReply

-----------------------------------------------------------------------------
(* Nothing the process still needs is in its locals.                       *)
Leave(where) ==
  /\ pc' = where
  /\ mode' = "trade"
  /\ todo' = {} /\ batch' = {} /\ cur' = NoOrder /\ reply' = NoReply

(* The process ends.                                                       *)
EndRun == Leave("idle")

(* Load the state and collect its open orders.  An unarmed trader pass     *)
(* never gets a client and touches nothing, so it is no step at all.       *)
StartRun(m) ==
  /\ pc = "idle"
  /\ pc' = "reconcile" /\ mode' = m
  /\ todo' = OpenOrders(orders)
  /\ UNCHANGED <<store, exch, now, batch, cur, reply>>

SkipUnidentified(id) ==
  /\ pc = "reconcile" /\ id \in todo /\ ~orders[id].known
  /\ todo' = todo \ {id}
  /\ UNCHANGED <<store, exch, now, pc, mode, batch, cur, reply>>

(* Mutants of Reconciled: the last contract is taken as filled; an answer  *)
(* without a status is taken as the end of the order.                      *)
ReconciledEarly(row, id, answer) ==
  [row EXCEPT !.filled = answer.filled,
              !.status = IF answer.filled + 1 >= id.count THEN "FILLED" ELSE @]
ReconciledUnreadable(row, id, answer) ==
  [row EXCEPT !.filled = answer.filled,
              !.status = IF answer.parsed THEN @ ELSE "CANCELED"]

(* Mutant: an order that was canceled stays as it was.                     *)
ReconciledFillsOnly(row, id, answer) ==
  [row EXCEPT !.filled = answer.filled,
              !.status = IF answer.filled = id.count THEN "FILLED" ELSE @]

(* reconcile_order_record: the status a reply turns a row into.  That      *)
(* nothing remains counts before the status the exchange gives.            *)
Reconciled(row, id, answer) ==
  LET status ==
        IF answer.done THEN "FILLED"
        ELSE IF ~answer.parsed THEN row.status
        ELSE IF exch[id].status = "canceled" THEN "CANCELED"
        ELSE IF answer.filled > 0 THEN "PARTIAL"
        ELSE "RESTING"
  IN [status |-> status, filled |-> answer.filled,
      created |-> row.created, known |-> row.known]

(* Whether the exchange reports a remaining_count of 0: when all contracts *)
(* are filled, and perhaps when the rest was canceled, for nothing remains *)
(* to be filled then.                                                      *)
Done(id, order) ==
  IF order.filled = id.count THEN {TRUE}
  ELSE IF order.status = "canceled" THEN BOOLEAN ELSE {FALSE}

Answers(id, order) ==
  [filled : {order.filled}, done : Done(id, order), known : {TRUE}, parsed : {TRUE}]
    \cup IF "malformed" \in Faults THEN {NoReply} ELSE {}

(* get_order answers: merge the row and upsert it.                         *)
ReconcileOrder(id) ==
  /\ pc = "reconcile" /\ id \in todo /\ orders[id].known
  /\ \E answer \in Answers(id, exch[id]) :
       /\ orders' = [orders EXCEPT ![id] = Reconciled(orders[id], id, answer)]
       /\ reply' = answer
  /\ todo' = todo \ {id} /\ cur' = id
  /\ pc' = "reconcile_fill"
  /\ UNCHANGED <<intents, fills, kills, erased, exch, now, mode, batch>>

(* get_order raises KalshiAPIError: append an event, go on to the next.    *)
ReconcileError(id) ==
  /\ "api_error" \in Faults
  /\ pc = "reconcile" /\ id \in todo /\ orders[id].known
  /\ kills' = TRUE
  /\ todo' = todo \ {id}
  /\ UNCHANGED <<orders, intents, fills, erased, exch, now, pc, mode, batch, cur, reply>>

(* An order can be counted again and again, as RecordFill says.            *)
Counted(n) == IF n > MaxFills THEN MaxFills ELSE n

(* Mutant of RecordFill: only submit_live_orders records fills.            *)
RecordFillOnSubmit ==
  /\ pc \in {"reconcile_fill", "submit_fill"}
  /\ fills' = IF pc = "submit_fill" THEN [fills EXCEPT ![cur] = Counted(@ + reply.filled)]
                       ELSE fills
  /\ pc' = IF pc = "reconcile_fill" THEN "reconcile" ELSE "submit"
  /\ cur' = NoOrder /\ reply' = NoReply
  /\ UNCHANGED <<orders, intents, kills, erased, exch, now, mode, todo, batch>>

(* maybe_record_fill.  The fill_id hashes the row, whose last_reconciled_ts *)
(* is new each time, so append_unique never finds the row there already.   *)
RecordFill ==
  /\ pc \in {"reconcile_fill", "submit_fill"}
  /\ fills' = [fills EXCEPT ![cur] = Counted(@ + reply.filled)]
  /\ pc' = IF pc = "reconcile_fill" THEN "reconcile" ELSE "submit"
  /\ cur' = NoOrder /\ reply' = NoReply
  /\ UNCHANGED <<orders, intents, kills, erased, exch, now, mode, todo, batch>>

FinishReconcile ==
  /\ pc = "reconcile" /\ todo = {}
  /\ IF mode = "reconcile"
       THEN EndRun
       ELSE pc' = "report" /\ UNCHANGED <<mode, todo, batch, cur, reply>>
  /\ UNCHANGED <<store, exch, now>>

(* Reload, take balance and markets, and size every candidate against one  *)
(* risk snapshot; a dry run stops after the report.                        *)
BuildReport ==
  /\ pc = "report"
  /\ \E quote \in [Candidates -> Prices \cup {0}], balance \in Balances :
     LET eligible == EligibleOrders(quote, orders, now, balance) IN
     \E ranked \in SUBSET eligible :
       /\ Cardinality(ranked) = Min({Cardinality(eligible), MaxOrdersPerRun})
       /\ IF mode = "dry_run"
            THEN EndRun
            ELSE /\ batch' = ranked /\ pc' = "submit"
                 /\ UNCHANGED <<mode, todo, cur, reply>>
  /\ UNCHANGED <<store, exch, now>>

(* get_balance, get_market or get_order raises what the caller does not    *)
(* catch: the process ends without having written anything in this step.   *)
AbortRun ==
  /\ \/ pc = "report" /\ Faults \cap {"api_error", "timeout"} # {}
     \/ pc = "reconcile" /\ todo # {} /\ "timeout" \in Faults
  /\ EndRun
  /\ UNCHANGED <<store, exch, now>>

-----------------------------------------------------------------------------
(* Mutant of WriteIntent: the intent is kept in memory only.               *)
WriteIntentInMemory(id) ==
  /\ pc = "submit" /\ id \in batch
  /\ cur' = id
  /\ pc' = "create"
  /\ UNCHANGED <<store, exch, now, mode, todo, batch, reply>>

(* submit_live_orders: the intent row is on disk before the request leaves. *)
WriteIntent(id) ==
  /\ pc = "submit" /\ id \in batch
  /\ intents' = intents \cup {id}
  /\ cur' = id
  /\ pc' = "create"
  /\ UNCHANGED <<orders, fills, kills, erased, exch, now, mode, todo, batch, reply>>

(* The exchange accepts a client_order_id once.  A maker's post-only order *)
(* rests; a taker's immediate-or-cancel order fills for what it can and is *)
(* gone.                                                                   *)
Accepted(id, n) ==
  /\ exch[id].status = "none"
  /\ mode # "take" => n = 0
  /\ exch' = [exch EXCEPT ![id] =
        [status |-> IF n = id.count THEN "executed"
                    ELSE IF mode # "take" THEN "resting" ELSE "canceled",
         filled |-> n]]

(* create_order returns a 200: the answer is about the order as it is now. *)
CreateOrder ==
  /\ pc = "create"
  /\ \E n \in 0 .. cur.count : Accepted(cur, n)
  /\ reply' \in Answers(cur, exch'[cur])
  /\ pc' = "record"
  /\ UNCHANGED <<store, now, mode, todo, batch, cur>>

(* create_order raises KalshiAPIError, as it does for an id the exchange   *)
(* has already: the loop is left ...                                       *)
CreateError ==
  /\ pc = "create"
  /\ \/ ("api_error" \in Faults \/ exch[cur].status # "none") /\ UNCHANGED exch
     \/ "ambiguous" \in Faults /\ \E n \in 0 .. cur.count : Accepted(cur, n)
  /\ Leave("blocked")
  /\ UNCHANGED <<store, now>>

(* ... once an event is appended.                                          *)
RecordKill ==
  /\ pc = "blocked"
  /\ kills' = TRUE
  /\ EndRun
  /\ UNCHANGED <<orders, intents, fills, erased, exch, now>>

(* create_order raises anything else (a timeout, a refused connection):    *)
(* nothing catches it.  The order may have been accepted.                  *)
CreateTimeout ==
  /\ pc = "create" /\ "timeout" \in Faults
  /\ UNCHANGED exch \/ \E n \in 0 .. cur.count : Accepted(cur, n)
  /\ EndRun
  /\ UNCHANGED <<store, now>>

(* live_order_record: the row of an accepted order.                        *)
Recorded(id, answer) ==
  [status  |-> IF answer.done THEN "FILLED"
               ELSE IF answer.filled > 0 THEN "PARTIAL" ELSE "SUBMITTED",
   filled  |-> answer.filled, created |-> now, known |-> answer.known]

RecordOrder ==
  /\ pc = "record"
  /\ orders' = [orders EXCEPT ![cur] = Recorded(cur, reply)]
  /\ batch' = batch \ {cur}
  /\ pc' = "submit_fill"
  /\ UNCHANGED <<intents, fills, kills, erased, exch, now, mode, todo, cur, reply>>

FinishRun ==
  /\ pc = "submit" /\ batch = {}
  /\ EndRun
  /\ UNCHANGED <<store, exch, now>>

-----------------------------------------------------------------------------
(* The process dies between two steps.                                     *)
Crash ==
  /\ "crash" \in Faults /\ pc # "idle"
  /\ EndRun
  /\ UNCHANGED <<store, exch, now>>

(* What a pass writes next: an intent, an order's row, a fill, an event.   *)
Writing ==
  \/ pc = "submit" /\ batch # {}
  \/ pc \in {"record", "blocked"}
  \/ pc = "reconcile" /\ \E id \in todo : orders[id].known
  \/ pc \in {"reconcile_fill", "submit_fill"} /\ reply.filled > 0

(* LiveStateStore.write truncates the file and then writes it: a process   *)
(* that dies in between leaves an empty file or one cut short, and either  *)
(* is loaded as an empty state.                                            *)
DieWriting ==
  /\ "torn" \in Faults /\ Writing
  /\ orders' = NoRows /\ intents' = {} /\ fills' = NoFills /\ kills' = FALSE
  /\ erased' = erased \cup {id \in intents : exch[id].status # "none"}
  /\ EndRun
  /\ UNCHANGED <<exch, now>>

(* The exchange: a resting order trades, or is canceled (it expires, the   *)
(* market pauses or closes).                                               *)
ExchangeFill(id) ==
  /\ exch[id].status = "resting"
  /\ \E n \in (exch[id].filled + 1) .. id.count :
       exch' = [exch EXCEPT ![id] =
         [status |-> IF n = id.count THEN "executed" ELSE "resting", filled |-> n]]
  /\ UNCHANGED <<store, now, pc, locals>>

ExchangeCancel(id) ==
  /\ exch[id].status = "resting"
  /\ exch' = [exch EXCEPT ![id].status = "canceled"]
  /\ UNCHANGED <<store, now, pc, locals>>

(* A pass takes seconds against timeouts of minutes: unless "slow" is among *)
(* the faults, time passes between passes only.                            *)
Tick ==
  /\ now < MaxTime
  /\ pc = "idle" \/ "slow" \in Faults
  /\ now' = now + 1
  /\ UNCHANGED <<store, exch, pc, locals>>

-----------------------------------------------------------------------------
Engine ==
  \/ \E m \in Commands : StartRun(m)
  \/ \E id \in OrderIds : \/ SkipUnidentified(id)
                          \/ ReconcileOrder(id)
                          \/ ReconcileError(id)
                          \/ WriteIntent(id)
  \/ RecordFill \/ FinishReconcile \/ BuildReport \/ AbortRun
  \/ CreateOrder \/ CreateError \/ CreateTimeout \/ RecordKill
  \/ RecordOrder \/ FinishRun

Exchange == \E id \in OrderIds : ExchangeFill(id) \/ ExchangeCancel(id)

Next == Engine \/ Exchange \/ Crash \/ DieWriting \/ Tick

Spec == Init /\ [][Next]_vars

(* The trader is scheduled again and again, a pass that can go on does, an *)
(* order that keeps being asked about is answered sometime so that it can  *)
(* be read, and a resting order reaches its order_expiration_time.         *)
Fairness ==
  /\ WF_vars(StartRun("trade"))
  /\ WF_vars(pc # "idle" /\ Engine)
  /\ \A id \in OrderIds : /\ SF_vars(ReconcileOrder(id) /\ reply'.parsed)
                          /\ WF_vars(ExchangeCancel(id))

FairSpec == Spec /\ Fairness

-----------------------------------------------------------------------------
(* Every variable has its type; cur is an order exactly inside an          *)
(* iteration of one of the two loops (reconcile_live_orders and            *)
(* submit_live_orders).                                                    *)
InIteration == {"reconcile_fill", "create", "record", "submit_fill"}
TypeOK ==
  /\ orders \in [OrderIds -> Row]
  /\ intents \subseteq OrderIds
  /\ fills \in [OrderIds -> Nat]
  /\ kills \in BOOLEAN /\ erased \subseteq OrderIds
  /\ exch \in [OrderIds -> ExchOrder]
  /\ now \in Nat
  /\ pc \in {"idle", "reconcile", "report", "submit", "blocked"} \cup InIteration
  /\ mode \in CommandKinds
  /\ todo \subseteq OrderIds /\ batch \subseteq OrderIds
  /\ cur \in OrderIds \cup {NoOrder} /\ reply \in Reply
  /\ pc \in InIteration => cur \in OrderIds

(* Write-ahead intent: whatever happens to a pass after the request left   *)
(* (submit_live_orders), an order the exchange holds has an intent row in  *)
(* the state file from which it could be found again, unless the process   *)
(* died inside a later write of that file (LiveStateStore.write).          *)
OrderHasDurableIntent ==
  \A id \in OrderIds : exch[id].status # "none" => id \in intents \cup erased

(* The rows live_order_record and reconcile_order_record leave behind      *)
(* never claim more than the exchange did: no row for an order that was    *)
(* not accepted, no more fills than it has, and a terminal status only for *)
(* an order that is really over.  CANCELED says how it ended; FILLED does  *)
(* not, for it is also what becomes of a canceled order of which nothing   *)
(* remains.                                                                *)
RowFaithful ==
  \A id \in OrderIds :
    LET row == orders[id] IN
    /\ row.status # "NONE" => exch[id].status # "none"
    /\ row.filled <= exch[id].filled
    /\ row.status = "FILLED" => exch[id].status \in {"executed", "canceled"}
    /\ row.status = "CANCELED" => exch[id].status = "canceled"

(* A row with a terminal status is never rewritten: neither a later        *)
(* reconcile pass nor a resubmission of the same decision, which gets the  *)
(* same client_order_id, may replace it.  It goes only together with the   *)
(* whole state, when a process dies inside LiveStateStore.write.           *)
TerminalRowFinal ==
  [][\A id \in OrderIds :
       orders[id].status \in TerminalRow
         => orders'[id] = orders[id] \/ ("torn" \in Faults /\ EmptyStore')]_vars

(* The contracts a row says are filled are in the fills section once the   *)
(* pass that saw them is over.  maybe_record_fill runs after the upsert    *)
(* and a terminal row is never asked about again, so this holds as long as *)
(* no pass dies between the two writes, and no longer.                     *)
FilledRowHasFills ==
  pc = "idle" => \A id \in OrderIds : fills[id] >= orders[id].filled

(* The orders of one pass are sized against one snapshot, so together they *)
(* can exceed a cap.  But a pass starts from the exposure on file, so what *)
(* rests at the exchange or is open on file never exceeds one cap per      *)
(* order of a pass; and one more for each order that was accepted and has  *)
(* no row (its answer was lost, the process died, or the state file was    *)
(* torn), which no pass counts and each of which was sized to fit a cap.   *)
Resting == {id \in OrderIds : exch[id].status = "resting"}
Forgotten == {id \in Resting : orders[id].status = "NONE" /\ ~(pc = "record" /\ cur = id)}
OvershootBounded ==
  LET held == Resting \cup OpenOrders(orders)
      Most(forgotten, cap) == (MaxOrdersPerRun + Cardinality(forgotten)) * cap IN
  /\ Exposure(held) <= Most(Forgotten, MaxOpen)
  /\ DailyGross(orders, now) <= MaxOrdersPerRun * MaxDaily
  /\ \A c \in Candidates :
       /\ Exposure(InContract(held, c)) <= Most(InContract(Forgotten, c), MaxContract)
       /\ Exposure(InFamily(held, c)) <= Most(InFamily(Forgotten, c), MaxFamily)
       /\ Exposure(InCluster(held, c)) <= Most(InCluster(Forgotten, c), MaxCluster)

(* Every order with a row that is open and names the exchange's order      *)
(* reaches a terminal row: repeated passes of reconcile_live_orders find   *)
(* out how it ended, whatever fails and whenever the process dies, and the *)
(* stale order that blocks new buys does not block them for ever.  Only a  *)
(* death inside LiveStateStore.write ends the row's story early, and with  *)
(* it that of every other row.                                             *)
TrackedOrderCloses ==
  \A id \in OrderIds :
    orders[id].status \in OpenRow /\ orders[id].known
      ~> orders[id].status \in TerminalRow \/ ("torn" \in Faults /\ orders[id].status = "NONE")

-----------------------------------------------------------------------------
(* What the repository says of the engine and the code does not do.        *)

(* "restart-safe order reconciliation" of LiveStateStore: when the pass    *)
(* after a restart has reconciled, every order resting at the exchange has *)
(* a row.                                                                  *)
ReconcileFindsOrders ==
  pc = "report" =>
    \A id \in OrderIds : exch[id].status = "resting" => orders[id].status # "NONE"
=============================================================================
