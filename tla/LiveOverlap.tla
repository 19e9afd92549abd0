---------------------------- MODULE LiveOverlap -----------------------------
(***************************************************************************)
(* Several commands of the live engine on one kalshi-live-state.json: the  *)
(* trader and the reconciliation have the same default state directory,    *)
(* and LiveStateStore takes no lock.  Every upsert and append loads the    *)
(* whole file, truncates it and writes it; those are steps of their own    *)
(* here.  LiveTrader is about one command at a time, and about what this   *)
(* module leaves out: sizing, unreadable or lost answers, and all sections *)
(* but "orders".  Writing another section still rewrites the orders.       *)
(***************************************************************************)
EXTENDS Integers, Sequences, FiniteSets

CONSTANTS
  Processes,   \* commands that may be under way at once
  Traders,     \* those of them that are passes of the trader at times
  Orders,      \* client_order_ids
  Count,       \* contracts of an order
  Spent,       \* whether the exchange reports a remaining_count of 0 of an
               \* order that was canceled: always, never, or now and then
  PerRun,      \* LiveRiskLimits.max_orders_per_run
  MaxTrades,   \* bound: passes of the trader
  MaxFaults    \* bound: processes that die, calls that raise KalshiAPIError

ASSUME OverlapAssumption ==
  /\ Traders \subseteq Processes
  /\ Count \in Nat \ {0} /\ PerRun \in Nat
  /\ Spent \subseteq BOOLEAN /\ Spent # {}
  /\ MaxTrades \in Nat /\ MaxFaults \in Nat

VARIABLES
  file,      \* the rows of the orders one would load now
  exch,      \* the exchange's own record
  proc,      \* the locals of the commands
  recorded,  \* history: orders whose row some command has written
  clashed,   \* history: a file was written from a copy that was out of date,
             \* or its writer died
  trades, faults

overlapVars == <<file, exch, proc, recorded, clashed, trades, faults>>

Terminal == {"FILLED", "CANCELED"}
Row      == [status : {"NONE", "OPEN"} \cup Terminal, filled : 0 .. Count]
NoRow    == [status |-> "NONE", filled |-> 0]

(* No file, an empty one and one that is no JSON all load as no rows.      *)
Nothing  == [id \in Orders |-> NoRow]

(* What an upsert or append does to the rows it has loaded.                *)
Rewrite == {}
Upsert(id, row) == {[id |-> id, row |-> row]}

Idle == [pc |-> "idle", mode |-> "reconcile", todo |-> {}, batch |-> {},
         jobs |-> <<>>, then |-> "idle", copy |-> Nothing, view |-> "fresh"]

OverlapInit ==
  /\ file = Nothing
  /\ exch = [id \in Orders |-> [status |-> "none", filled |-> 0]]
  /\ proc = [p \in Processes |-> Idle]
  /\ recorded = {} /\ clashed = FALSE
  /\ trades = 0 /\ faults = 0

Becomes(p, new) == proc' = [proc EXCEPT ![p] = new]

Open(rows) == {id \in Orders : rows[id].status = "OPEN"}

-----------------------------------------------------------------------------
(* Mutant of StartRun: only a partial fill is worth a question.            *)
StartRunPartial(p, m) ==
  /\ proc[p].pc = "idle"
  /\ m = "trade" => p \in Traders /\ trades < MaxTrades
  /\ trades' = IF m = "trade" THEN trades + 1 ELSE trades
  /\ Becomes(p, [Idle EXCEPT !.pc = "ask", !.mode = m,
                             !.todo = {id \in Open(file) : file[id].filled > 0}])
  /\ UNCHANGED <<file, exch, recorded, clashed, faults>>

(* A command loads the state and collects the open rows.                   *)
StartRun(p, m) ==
  /\ proc[p].pc = "idle"
  /\ m = "trade" => p \in Traders /\ trades < MaxTrades
  /\ trades' = IF m = "trade" THEN trades + 1 ELSE trades
  /\ Becomes(p, [Idle EXCEPT !.pc = "ask", !.mode = m, !.todo = Open(file)])
  /\ UNCHANGED <<file, exch, recorded, clashed, faults>>

(* The row is upserted, and a fill, if there is one, appended.             *)
Writes(id, row) ==
  IF row.filled > 0 THEN <<Upsert(id, row), Rewrite>> ELSE <<Upsert(id, row)>>

(* Whether the exchange reports that nothing remains: when all is filled,  *)
(* and perhaps of an order that was canceled.                              *)
Done(order) ==
  IF order.filled = Count THEN {TRUE}
  ELSE IF order.status = "canceled" THEN Spent ELSE {FALSE}

(* Mutant: an answer without a remaining_count is taken as filled.         *)
ReconciledGone(order, done) ==
  [status |-> IF done \/ order.status = "resting" THEN "FILLED" ELSE "CANCELED",
   filled |-> order.filled]

(* reconcile_order_record: that nothing remains counts before the status.  *)
Reconciled(order, done) ==
  [status |-> IF done THEN "FILLED"
              ELSE IF order.status = "canceled" THEN "CANCELED" ELSE "OPEN",
   filled |-> order.filled]

(* get_order answers.                                                      *)
Ask(p, id) ==
  /\ proc[p].pc = "ask" /\ id \in proc[p].todo
  /\ \E done \in Done(exch[id]) :
       Becomes(p, [proc[p] EXCEPT !.todo = @ \ {id}, !.then = "ask", !.pc = "load",
                                  !.jobs = Writes(id, Reconciled(exch[id], done))])
  /\ UNCHANGED <<file, exch, recorded, clashed, trades, faults>>

(* It raises KalshiAPIError: an event is appended.                         *)
AskFails(p, id) ==
  /\ proc[p].pc = "ask" /\ id \in proc[p].todo /\ faults < MaxFaults
  /\ faults' = faults + 1
  /\ Becomes(p, [proc[p] EXCEPT !.todo = @ \ {id}, !.then = "ask", !.pc = "load",
                                !.jobs = <<Rewrite>>])
  /\ UNCHANGED <<file, exch, recorded, clashed, trades>>

(* The reconciliation is over; the trader goes on to size its candidates.  *)
(* The caps are left out, so a batch is any set of a size it may have.     *)
FinishAsking(p) ==
  /\ proc[p].pc = "ask" /\ proc[p].todo = {}
  /\ IF proc[p].mode = "reconcile"
       THEN Becomes(p, Idle)
       ELSE \E batch \in SUBSET Orders :
              /\ Cardinality(batch) <= PerRun
              /\ Becomes(p, [proc[p] EXCEPT !.pc = "submit", !.batch = batch])
  /\ UNCHANGED <<file, exch, recorded, clashed, trades, faults>>

(* The intent is upserted before the request leaves.                       *)
Intend(p, id) ==
  /\ proc[p].pc = "submit" /\ id \in proc[p].batch
  /\ Becomes(p, [proc[p] EXCEPT !.todo = {id}, !.batch = @ \ {id}, !.pc = "load",
                                !.then = "create", !.jobs = <<Rewrite>>])
  /\ UNCHANGED <<file, exch, recorded, clashed, trades, faults>>

(* live_order_record.                                                      *)
Recorded(order, done) ==
  [status |-> IF done THEN "FILLED" ELSE "OPEN", filled |-> order.filled]

(* The exchange accepts an id once; what is not filled rests, or was       *)
(* immediate-or-cancel and is gone.                                        *)
Create(p, id) ==
  /\ proc[p].pc = "create" /\ proc[p].todo = {id} /\ exch[id].status = "none"
  /\ \E n \in 0 .. Count, s \in {"resting", "canceled"} :
       LET order == [status |-> IF n = Count THEN "executed" ELSE s, filled |-> n] IN
       /\ exch' = [exch EXCEPT ![id] = order]
       /\ \E done \in Done(order) :
            Becomes(p, [proc[p] EXCEPT !.todo = {}, !.then = "submit", !.pc = "load",
                                       !.jobs = Writes(id, Recorded(order, done))])
  /\ UNCHANGED <<file, recorded, clashed, trades, faults>>

(* It refuses an id it has, or any; an event is appended and the loop left. *)
CreateFails(p, id) ==
  /\ proc[p].pc = "create" /\ proc[p].todo = {id}
  /\ \/ exch[id].status # "none" /\ UNCHANGED faults
     \/ faults < MaxFaults /\ faults' = faults + 1
  /\ Becomes(p, [proc[p] EXCEPT !.todo = {}, !.batch = {}, !.then = "submit", !.pc = "load",
                                !.jobs = <<Rewrite>>])
  /\ UNCHANGED <<file, exch, recorded, clashed, trades>>

FinishSubmitting(p) ==
  /\ proc[p].pc = "submit" /\ proc[p].batch = {}
  /\ Becomes(p, Idle)
  /\ UNCHANGED <<file, exch, recorded, clashed, trades, faults>>

-----------------------------------------------------------------------------
(* A load in the gap of another's write finds nothing.                     *)
InGap(p) == \E q \in Processes \ {p} : proc[q].pc = "write"

Load(p) ==
  /\ proc[p].pc = "load"
  /\ Becomes(p, [proc[p] EXCEPT !.pc = "truncate", !.copy = file,
                                !.view = IF InGap(p) THEN "stale" ELSE "fresh"])
  /\ UNCHANGED <<file, exch, recorded, clashed, trades, faults>>

(* What truncating or writing by p does to the copies of the others; two   *)
(* that are both past the truncation write over one another.               *)
Outdated(p, what) ==
  [q \in Processes |->
     IF q # p /\ proc[q].pc \in {"truncate", "write"}
       THEN [proc[q] EXCEPT !.view =
               IF what = "write" /\ proc[q].pc = "write" THEN "mixed"
               ELSE IF @ = "mixed" THEN @ ELSE "stale"]
       ELSE proc[q]]

(* write_text opens the file, which empties it ...                         *)
Truncate(p) ==
  /\ proc[p].pc = "truncate"
  /\ file' = Nothing
  /\ proc' = [Outdated(p, "truncate") EXCEPT ![p].pc = "write"]
  /\ UNCHANGED <<exch, recorded, clashed, trades, faults>>

(* Mutant of Applied: the upsert keeps no row but its own.                 *)
AppliedAlone(job, rows) ==
  [id \in Orders |-> IF \E u \in job : u.id = id THEN (CHOOSE u \in job : u.id = id).row
                     ELSE NoRow]

Applied(job, rows) ==
  [id \in Orders |-> IF \E u \in job : u.id = id THEN (CHOOSE u \in job : u.id = id).row
                     ELSE rows[id]]

(* ... and writes the text at once.  Over a longer text of another writer  *)
(* the end of that one stays, and the file is no JSON any more.            *)
Write(p) ==
  LET job  == Head(proc[p].jobs)
      rest == Tail(proc[p].jobs) IN
  /\ proc[p].pc = "write"
  /\ \/ file' = Applied(job, proc[p].copy)
     \/ proc[p].view = "mixed" /\ file' = Nothing
  /\ recorded' = recorded \cup {u.id : u \in job}
  /\ clashed' = (clashed \/ proc[p].view # "fresh")
  /\ proc' = [Outdated(p, "write") EXCEPT
       ![p] = [proc[p] EXCEPT !.jobs = rest, !.copy = Nothing, !.view = "fresh",
                              !.pc = IF rest = <<>> THEN proc[p].then ELSE "load"]]
  /\ UNCHANGED <<exch, trades, faults>>

(* A command dies; in the gap of its write it leaves an empty file.        *)
Crash(p) ==
  /\ proc[p].pc # "idle" /\ faults < MaxFaults
  /\ faults' = faults + 1
  /\ clashed' = (clashed \/ proc[p].pc = "write")
  /\ Becomes(p, Idle)
  /\ UNCHANGED <<file, exch, recorded, trades>>

(* The exchange: a resting order trades, or ends.                          *)
ExchangeFill(id) ==
  /\ exch[id].status = "resting"
  /\ \E n \in (exch[id].filled + 1) .. Count :
       exch' = [exch EXCEPT ![id] =
         [status |-> IF n = Count THEN "executed" ELSE "resting", filled |-> n]]
  /\ UNCHANGED <<file, proc, recorded, clashed, trades, faults>>

ExchangeCancel(id) ==
  /\ exch[id].status = "resting"
  /\ exch' = [exch EXCEPT ![id].status = "canceled"]
  /\ UNCHANGED <<file, proc, recorded, clashed, trades, faults>>

Step(p) ==
  \/ \E id \in Orders : \/ Ask(p, id) \/ AskFails(p, id) \/ Intend(p, id)
                        \/ Create(p, id) \/ CreateFails(p, id)
  \/ FinishAsking(p) \/ FinishSubmitting(p)
  \/ Load(p) \/ Truncate(p) \/ Write(p)

OverlapNext ==
  \/ \E p \in Processes : \/ \E m \in {"trade", "reconcile"} : StartRun(p, m)
                          \/ Step(p) \/ Crash(p)
  \/ \E id \in Orders : ExchangeFill(id) \/ ExchangeCancel(id)

OverlapSpec == OverlapInit /\ [][OverlapNext]_overlapVars

(* Commands go on and are started again, and resting orders expire.        *)
Fairness ==
  /\ \A p \in Processes : WF_overlapVars(Step(p)) /\ WF_overlapVars(StartRun(p, "reconcile"))
  /\ \A id \in Orders : WF_overlapVars(ExchangeCancel(id))

FairSpec == OverlapSpec /\ Fairness

-----------------------------------------------------------------------------
(* A row claims no more than an order of the exchange did.                 *)
Behind(row, e) ==
  /\ row.status # "NONE" => e.status # "none"
  /\ row.filled <= e.filled
  /\ row.status = "FILLED" => e.status \in {"executed", "canceled"}
  /\ row.status = "CANCELED" => e.status = "canceled"

(* Whatever commands overwrite one another, tear the file or die, no row   *)
(* one would load (LiveStateStore.load) claims more than the exchange did: *)
(* an old row is only behind.                                              *)
RowsBehindExchange == \A id \in Orders : Behind(file[id], exch[id])

(* Commands may overlap as they like: as long as no load-and-write of one  *)
(* (upsert, append_unique) falls into that of another and none dies in its *)
(* own, no row that was written is lost.                                   *)
DisjointWritesKeepRows ==
  ~clashed /\ (\A p \in Processes : proc[p].pc # "write")
    => \A id \in recorded : file[id].status # "NONE"

(* A row that was reopened by a write from an old copy is closed again by  *)
(* a later reconciliation (reconcile_live_orders).  Two that overlap again *)
(* and again may undo each other's work for ever; but if commands overlap  *)
(* no more, every row that is left becomes terminal and stays so.          *)
Busy  == {p \in Processes : proc[p].pc # "idle"}
Heals ==
  <>[](Cardinality(Busy) <= 1)
    => <>[](\A id \in Orders : file[id].status \in Terminal \cup {"NONE"})
=============================================================================
