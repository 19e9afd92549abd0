----------------------------- MODULE Execution ------------------------------
(***************************************************************************)
(* The order router with its audit trail, as two processes use it: the     *)
(* platform loop, which executes or stages a recommendation every pass     *)
(* (main.platform_loop), and the dashboard, where an operator approves     *)
(* staged rows (dashboard.data.approve_staged_order_db).  Both call        *)
(* ExecutionManager.execute_order, each with an AuditLogger of its own on  *)
(* the same database and journal file.                                     *)
(*                                                                         *)
(* One step is one SQL statement with its commit, one append to the        *)
(* journal, or one call of the venue.  A locked database fails a statement *)
(* before it changes anything.                                             *)
(***************************************************************************)
EXTENDS AuditChain, FiniteSets

CONSTANTS
  Contracts,
  Loop,          \* the task of the platform process
  Approvals,     \* approval requests, tasks of the dashboard process, numbered
                 \* as they arrive
  Ids,           \* bound: ids that are approved
  RetryLimit,    \* api_retry_limit
  Faults,        \* what may go wrong
  MaxBusy,       \* bound: tasks that are under way at once
  MaxPasses,     \* bound: passes of the loop that recommend an order
  MaxFaults      \* bound: failures of the database, the disk and processes

ASSUME TasksAssumption == Approvals \subseteq Nat \ {0} /\ Loop \notin Approvals
ASSUME RetryAssumption == RetryLimit \in Nat \ {0}
ASSUME FaultsAssumption ==
  Faults \subseteq {"locked", "disk", "refuse", "ambiguous", "crash"}
ASSUME BoundsAssumption ==
  MaxBusy \in Nat /\ MaxPasses \in Nat /\ MaxFaults \in Nat

VARIABLES
  trail,     \* rows of audit_trail by id
  journal,   \* hashes of the lines of audit_log.jsonl
  task,      \* local state of each task
  orders,    \* orders the venue accepted, per contract
  passes, faults

vars == <<trail, journal, task, orders, passes, faults>>

Tasks == {Loop} \cup Approvals
NoTask == 0

Events == {"TRADE_INTENT", "TRADE_COMPLETED", "TRADE_FAILED"}
Statuses == {"STAGED", "EXECUTING", "FILLED", "FAILED", "INFO"}

(* The contract is the one an event is about: a system event has it in its *)
(* details at most.  The time stamp tells the entries of tasks apart, as   *)
(* the last hash does those of one task.  The details are those that were  *)
(* logged, or what an approval has put in their place.                     *)
Content == [event: Events, contract: Contracts, status: Statuses,
            stamp: {NoTask} \cup Tasks, details: {"logged", "result"}]

NoContract == "none"
NoContent  == [event |-> "none", contract |-> NoContract, status |-> "none",
               stamp |-> NoTask, details |-> "logged"]

IdleTask ==
  [pc |-> "idle", contract |-> NoContract, row |-> 0, entry |-> NoContent,
   prev |-> SeedHash, retries |-> 0, result |-> "none"]

Init ==
  /\ trail = <<>>
  /\ journal = {}
  /\ task = [t \in Tasks |-> IdleTask]
  /\ orders = [c \in Contracts |-> 0]
  /\ passes = 0 /\ faults = 0

Fault(kind) ==
  /\ kind \in Faults /\ faults < MaxFaults
  /\ faults' = faults + 1

---------------------------------------------------------------------------
(* What execute_order does next, as functions of the state of its task.    *)

LogEntry(r, event, status) ==
  [r EXCEPT !.pc = "hash",
            !.entry = [event |-> event, contract |-> r.contract,
                       status |-> status, stamp |-> NoTask, details |-> "logged"]]

(* Mutant: no handler around the approval.                                 *)
ReturnUncaught(r, result) ==
  CASE r.row = 0 -> IdleTask
    [] r.row # 0 /\ result = "raised" -> [IdleTask EXCEPT !.pc = "done"]
    [] OTHER -> [r EXCEPT !.pc = "settle", !.result = result]

(* An approval goes on to its own row, the loop to its next recommendation.*)
Return(r, result) ==
  IF r.row = 0 THEN IdleTask ELSE [r EXCEPT !.pc = "settle", !.result = result]

FailedAttempt(r) ==
  LET next == [r EXCEPT !.retries = @ + 1]
  IN IF next.retries < RetryLimit
       THEN [next EXCEPT !.pc = "submit"]
       ELSE LogEntry(next, "TRADE_FAILED", "INFO")

(* Mutant: the order goes out before its intent is logged.                 *)
ExecuteOrderUnaudited(r, execution) ==
  IF execution THEN [r EXCEPT !.pc = "submit"]
  ELSE LogEntry(r, "TRADE_INTENT", "STAGED")

ExecuteOrder(r, execution) ==
  LogEntry(r, "TRADE_INTENT", IF execution THEN "EXECUTING" ELSE "STAGED")

(* _record_failed_order: a venue that is not Kalshi.                       *)
Reject(r) == LogEntry(r, "TRADE_INTENT", "FAILED")

AfterLog(r) ==
  CASE r.entry.status = "EXECUTING" -> [r EXCEPT !.pc = "submit"]
    [] r.entry.status = "STAGED" -> Return(r, "STAGED")
    [] r.entry.event = "TRADE_COMPLETED" -> Return(r, "FILLED")
    [] r.entry.event = "TRADE_FAILED" \/ r.entry.status = "FAILED" -> Return(r, "FAILED")

(* TRADE_COMPLETED is logged inside the try block of the retry loop.       *)
AfterRaise(r) ==
  IF r.entry.event = "TRADE_COMPLETED" THEN FailedAttempt(r)
  ELSE Return(r, "raised")

---------------------------------------------------------------------------
Busy == {t \in Tasks : task[t].pc \notin {"idle", "done", "lost"}}

(* A pass of the loop recommends a contract.  The platform may have been   *)
(* started again before it, with another configuration.                    *)
StartPass(c) ==
  /\ task[Loop].pc = "idle" /\ passes < MaxPasses /\ Cardinality(Busy) < MaxBusy
  /\ passes' = passes + 1
  /\ \E execution \in BOOLEAN :
       task' = [task EXCEPT ![Loop] = ExecuteOrder([IdleTask EXCEPT !.contract = c], execution)]
  /\ UNCHANGED <<trail, journal, orders, faults>>

Update(i, status, details) ==
  trail' = [trail EXCEPT ![i].content.status = status, ![i].content.details = details]

(* A system event names no venue, nor does what is logged when it is       *)
(* approved all the same.                                                  *)
HasVenue(row) == WrittenAs(row).status \in {"STAGED", "EXECUTING"}

(* Any id will do: the dashboard lists staged rows, but nothing looks at   *)
(* the status of the one that is approved.  The configuration is loaded    *)
(* anew for every approval.                                                *)
Approve(a, i) ==
  /\ task[a].pc = "idle" /\ \A b \in Approvals : b < a => task[b].pc # "idle"
  /\ Cardinality(Busy) < MaxBusy
  /\ i \in DOMAIN trail \cap Ids
  /\ Update(i, "EXECUTING", trail[i].content.details)
  /\ LET request == [IdleTask EXCEPT !.contract = trail[i].content.contract, !.row = i] IN
     \/ /\ HasVenue(trail[i])
        /\ \E execution \in BOOLEAN :
             task' = [task EXCEPT ![a] = ExecuteOrder(request, execution)]
     \/ ~HasVenue(trail[i]) /\ task' = [task EXCEPT ![a] = Reject(request)]
  /\ UNCHANGED <<journal, orders, passes, faults>>

(* log_trade_intent and log_system_event: the time stamp and the last      *)
(* hash, ...                                                               *)
ReadHash(t) ==
  /\ task[t].pc = "hash"
  /\ task' = [task EXCEPT ![t].pc = "insert",
                          ![t].entry.stamp = t,
                          ![t].prev = GetLastHash(trail)]
  /\ UNCHANGED <<trail, journal, orders, passes, faults>>

(* ... the row, in another hold of the lock, ...                           *)
InsertRow(t) ==
  /\ task[t].pc = "insert"
  /\ trail' = Append(trail, AuditRow(task[t].entry, task[t].prev))
  /\ task' = [task EXCEPT ![t].pc = "append"]
  /\ UNCHANGED <<journal, orders, passes, faults>>

(* Mutant: the journal line is linked to whatever is last by now.          *)
AppendJsonlRelinked(t) ==
  /\ task[t].pc = "append"
  /\ journal' = journal \cup {ComputeHash(task[t].entry, GetLastHash(trail))}
  /\ task' = [task EXCEPT ![t] = AfterLog(task[t])]
  /\ UNCHANGED <<trail, orders, passes, faults>>

(* ... and the line of the journal.                                        *)
AppendJsonl(t) ==
  /\ task[t].pc = "append"
  /\ journal' = journal \cup {ComputeHash(task[t].entry, task[t].prev)}
  /\ task' = [task EXCEPT ![t] = AfterLog(task[t])]
  /\ UNCHANGED <<trail, orders, passes, faults>>

LogRaises(t) ==
  /\ \/ task[t].pc \in {"hash", "insert"} /\ Fault("locked")
     \/ task[t].pc = "append" /\ Fault("disk")
  /\ task' = [task EXCEPT ![t] = AfterRaise(task[t])]
  /\ UNCHANGED <<trail, journal, orders, passes>>

Accepts(c) == orders' = [orders EXCEPT ![c] = @ + 1]

CreateOrder(t) ==
  /\ task[t].pc = "submit"
  /\ Accepts(task[t].contract)
  /\ task' = [task EXCEPT ![t] = LogEntry(task[t], "TRADE_COMPLETED", "INFO")]
  /\ UNCHANGED <<trail, journal, passes, faults>>

(* The call raises; in the ambiguous case the venue has the order.         *)
CreateRaises(t) ==
  /\ task[t].pc = "submit"
  /\ \/ Fault("refuse") /\ UNCHANGED orders
     \/ Fault("ambiguous") /\ Accepts(task[t].contract)
  /\ task' = [task EXCEPT ![t] = FailedAttempt(task[t])]
  /\ UNCHANGED <<trail, journal, passes>>

(* A request that ended before it wrote the outcome of its row. *)
Lost(r) == [IdleTask EXCEPT !.pc = "lost", !.row = r.row]

Done(a) == task' = [task EXCEPT ![a] = [IdleTask EXCEPT !.pc = "done"]]

(* What an approval writes at its end: an order id or an exception goes    *)
(* into the details, an order that only failed leaves them.                *)
Details(r) ==
  IF r.result \in {"FILLED", "raised"} THEN "result" ELSE trail[r.row].content.details

(* Mutants: whatever did not raise is called filled; a row whose order     *)
(* failed goes back to the queue.                                          *)
SettleUnchecked(a) ==
  /\ task[a].pc = "settle"
  /\ Update(task[a].row, IF task[a].result # "raised" THEN "FILLED" ELSE "FAILED",
            Details(task[a]))
  /\ Done(a)
  /\ UNCHANGED <<journal, orders, passes, faults>>

SettleRequeue(a) ==
  /\ task[a].pc = "settle"
  /\ Update(task[a].row, IF task[a].result = "FILLED" THEN "FILLED" ELSE "STAGED",
            Details(task[a]))
  /\ Done(a)
  /\ UNCHANGED <<journal, orders, passes, faults>>

(* The approval writes what became of the order into the row.              *)
Settle(a) ==
  /\ task[a].pc = "settle"
  /\ Update(task[a].row, IF task[a].result = "FILLED" THEN "FILLED" ELSE "FAILED",
            Details(task[a]))
  /\ Done(a)
  /\ UNCHANGED <<journal, orders, passes, faults>>

(* The first UPDATE is inside the try block, the one of its handler is not.*)
SettleRaises(a) ==
  /\ task[a].pc = "settle" /\ Fault("locked")
  /\ task' = IF task[a].result = "raised" THEN [task EXCEPT ![a] = Lost(task[a])]
             ELSE [task EXCEPT ![a].result = "raised"]
  /\ UNCHANGED <<trail, journal, orders, passes>>

CrashPlatform ==
  /\ task[Loop].pc # "idle" /\ Fault("crash")
  /\ task' = [task EXCEPT ![Loop] = IdleTask]
  /\ UNCHANGED <<trail, journal, orders, passes>>

(* Requests the dashboard had not received are not lost with it.           *)
CrashDashboard ==
  /\ \E a \in Approvals : task[a].pc \notin {"idle", "done", "lost"}
  /\ Fault("crash")
  /\ task' = [t \in Tasks |-> IF t = Loop \/ task[t].pc \in {"idle", "done", "lost"}
                              THEN task[t] ELSE Lost(task[t])]
  /\ UNCHANGED <<trail, journal, orders, passes>>

Proceed(t) ==
  \/ ReadHash(t) \/ InsertRow(t) \/ AppendJsonl(t) \/ LogRaises(t)
  \/ CreateOrder(t) \/ CreateRaises(t)

Next ==
  \/ \E c \in Contracts : StartPass(c)
  \/ \E a \in Approvals : \E i \in DOMAIN trail : Approve(a, i)
  \/ \E t \in Tasks : Proceed(t)
  \/ \E a \in Approvals : Settle(a) \/ SettleRaises(a)
  \/ CrashPlatform
  \/ CrashDashboard

Spec == Init /\ [][Next]_vars

(* A task that was started is run on; nobody has to recommend or approve.  *)
Fairness ==
  /\ \A t \in Tasks : WF_vars(Proceed(t))
  /\ \A a \in Approvals : WF_vars(Settle(a) \/ SettleRaises(a))

FairSpec == Spec /\ Fairness

---------------------------------------------------------------------------
TaskState ==
  [pc: {"idle", "hash", "insert", "append", "submit", "settle", "done", "lost"},
   contract: Contracts \cup {NoContract}, row: Nat,
   entry: Content \cup {NoContent}, prev: Seq(Content), retries: 0 .. RetryLimit,
   result: {"none", "STAGED", "FILLED", "FAILED", "raised"}]

(* Types of the variables; an approval that runs has a row of its own, and *)
(* only an approval has.                                                   *)
TypeOK ==
  /\ trail \in Seq([content: Content, prev: Seq(Content), hash: Seq(Content)])
  /\ journal \subseteq Seq(Content)
  /\ task \in [Tasks -> TaskState]
  /\ orders \in [Contracts -> Nat]
  /\ passes \in 0 .. MaxPasses /\ faults \in 0 .. MaxFaults
  /\ task[Loop].row = 0
  /\ \A a \in Approvals :
       task[a].pc \notin {"idle", "done"} => task[a].row \in DOMAIN trail

RowsWritten(c, event, status) ==
  {i \in DOMAIN trail :
     LET w == WrittenAs(trail[i])
     IN w.contract = c /\ w.event = event /\ w.status = status}

RowsSaying(c, status) ==
  {i \in DOMAIN trail : trail[i].content.contract = c /\ trail[i].content.status = status}

(* Retries, repeated approvals and crashes notwithstanding, the venue      *)
(* never holds an order that no intent row announced, and at most          *)
(* RetryLimit of them per row: execute_order logs the intent PRIOR to      *)
(* execution.                                                              *)
SubmissionsAudited ==
  \A c \in Contracts :
    orders[c] <= RetryLimit * Cardinality(RowsWritten(c, "TRADE_INTENT", "EXECUTING"))

(* A completion row stands for an order of its own, and a staged row is    *)
(* called filled only if a completion of its own is in the trail.          *)
FilledBacked ==
  \A c \in Contracts :
    LET completed == Cardinality(RowsWritten(c, "TRADE_COMPLETED", "INFO"))
    IN completed <= orders[c] /\ Cardinality(RowsSaying(c, "FILLED")) <= completed

Hashes == {trail[i].hash : i \in DOMAIN trail}
Unwritten ==
  {ComputeHash(task[t].entry, task[t].prev) : t \in {u \in Tasks : task[u].pc = "append"}}

(* The journal has no line without its row in the database; and as long as *)
(* nothing failed, it lacks only the lines being written right now.        *)
JournalFaithful ==
  /\ journal \subseteq Hashes
  /\ faults = 0 => Hashes = journal \cup Unwritten

(* While the platform process is the only one that wrote, the chain        *)
(* verifies, through every retry, failure and restart.                     *)
SoleWriterVerifies ==
  (\A a \in Approvals : task[a].pc = "idle") => VerifyAuditChain(trail)

(* What is wrong with a row of the trail stays wrong: a broken link always, *)
(* and a content that is not the hashed one (approve_staged_order_db       *)
(* writes into hashed columns) with one exception.  An approval sets only  *)
(* the status, to EXECUTING first and to FAILED at its end; a row that was *)
(* logged with one of these and has its logged details can be made to      *)
(* verify again by another approval.  A staged row never can, nor one      *)
(* whose order was filled.                                                 *)
Restorable(row) ==
  /\ WrittenAs(row).status \in {"EXECUTING", "FAILED"}
  /\ row.content.details = "logged"
DamageShows ==
  [][\A i \in DOMAIN trail :
       RowVerifies(trail', i)
         => RowVerifies(trail, i) \/ (Linked(trail, i) /\ Restorable(trail[i]))]_vars

(* A row that was not logged as EXECUTING and says so has been approved.   *)
Approved(i) ==
  WrittenAs(trail[i]).status # "EXECUTING" /\ trail[i].content.status = "EXECUTING"

(* An approved row does not stay EXECUTING for good, where the dashboard   *)
(* lists it no more: a request is at work on it (approve_staged_order_db), *)
(* and in the end every request that came has written the outcome of the   *)
(* order into its row, unless it died or could not write even its          *)
(* handler's FAILED.                                                       *)
ApprovalSettles ==
  /\ [](\A i \in DOMAIN trail :
         Approved(i) => \E a \in Approvals : task[a].row = i)
  /\ \A a \in Approvals : <>[](task[a].row = 0 \/ task[a].pc = "lost")
=============================================================================
