-------------------------- MODULE ExecutionProofs ---------------------------
(* The audit trail, its journal and the orders they account for, for any   *)
(* contracts, approvals, retries and faults.                               *)
EXTENDS Execution, FiniteSetTheorems, TLAPS

Rows == [content: Content, prev: Seq(Content), hash: Seq(Content)]

Logging == {"hash", "insert", "append"}
Kinds == {<<"TRADE_INTENT", "EXECUTING">>, <<"TRADE_INTENT", "STAGED">>,
          <<"TRADE_INTENT", "FAILED">>,
          <<"TRADE_COMPLETED", "INFO">>, <<"TRADE_FAILED", "INFO">>}

(* What a task logs. *)
Logged(e) == e \in Content /\ e.details = "logged" /\ <<e.event, e.status>> \in Kinds

(* A row is linked by the hash it was written with, and only its status    *)
(* and its details are ever written again.                                 *)
RowOK(row) ==
  /\ row \in Rows
  /\ Logged(WrittenAs(row)) /\ row.hash = Append(row.prev, WrittenAs(row))
  /\ row.content = [WrittenAs(row) EXCEPT !.status = row.content.status,
                                          !.details = row.content.details]

Completing(r) == r.pc \in Logging /\ r.entry.event = "TRADE_COMPLETED"

(* What a task is about, and the attempts it has left. *)
TaskOK(r) ==
  /\ r \in TaskState
  /\ r.pc \notin {"idle", "done", "lost"} => r.contract \in Contracts
  /\ r.pc \in Logging => Logged(r.entry) /\ r.entry.contract = r.contract
  /\ r.pc = "submit" \/ Completing(r) => r.retries < RetryLimit
  /\ r.pc \in Logging /\ r.entry.event = "TRADE_INTENT" => r.retries = 0
  /\ r.pc = "settle" => r.row # 0

(* The row an approval works for. *)
ForRow(rows, r) ==
  /\ r.row \in DOMAIN rows
  /\ r.pc # "lost" => rows[r.row].content.contract = r.contract

TrailOK(rows) == rows \in Seq(Rows) /\ \A i \in DOMAIN rows : RowOK(rows[i])

Scalars ==
  /\ journal \subseteq Seq(Content)
  /\ orders \in [Contracts -> Nat]
  /\ passes \in 0 .. MaxPasses /\ faults \in 0 .. MaxFaults

LoopOK(r) == r.row = 0 /\ r.pc \notin {"done", "lost", "settle"}
ApprovalOK(rows, r) == r.pc \notin {"idle", "done"} => ForRow(rows, r)

Basic ==
  /\ TrailOK(trail) /\ Scalars
  /\ task \in [Tasks -> TaskState] /\ \A t \in Tasks : TaskOK(task[t])
  /\ LoopOK(task[Loop])
  /\ \A a \in Approvals : ApprovalOK(trail, task[a])

-----------------------------------------------------------------------------
(* The helpers, field by field. *)

LEMMA LogEntryIs ==
  ASSUME NEW r \in TaskState, r.contract \in Contracts, NEW e \in Events, NEW s \in Statuses
  PROVE  /\ LogEntry(r, e, s) \in TaskState
         /\ LogEntry(r, e, s).pc = "hash" /\ LogEntry(r, e, s).contract = r.contract
         /\ LogEntry(r, e, s).row = r.row /\ LogEntry(r, e, s).retries = r.retries
         /\ LogEntry(r, e, s).entry \in Content /\ LogEntry(r, e, s).entry.details = "logged"
         /\ LogEntry(r, e, s).entry.contract = r.contract
         /\ LogEntry(r, e, s).entry.event = e /\ LogEntry(r, e, s).entry.status = s
<1>. DEFINE entry == [event |-> e, contract |-> r.contract, status |-> s, stamp |-> NoTask,
                      details |-> "logged"]
<1>1. entry \in Content /\ entry.contract = r.contract /\ entry.event = e /\ entry.status = s
      /\ entry.details = "logged"
  BY DEF Content
<1>. HIDE DEF entry
<1>2. [r EXCEPT !.pc = "hash", !.entry = entry] \in TaskState
  BY <1>1 DEF TaskState
<1>3. LogEntry(r, e, s) = [r EXCEPT !.pc = "hash", !.entry = entry]
  BY DEF LogEntry, entry
<1>. QED
  BY <1>1, <1>2, <1>3 DEF TaskState

LEMMA ReturnIs ==
  ASSUME NEW r \in TaskState, NEW x \in {"STAGED", "FILLED", "FAILED", "raised"}
  PROVE  /\ r.row = 0 => Return(r, x) = IdleTask
         /\ r.row # 0 => /\ Return(r, x) \in TaskState
                         /\ Return(r, x).pc = "settle" /\ Return(r, x).result = x
                         /\ Return(r, x).contract = r.contract /\ Return(r, x).row = r.row
BY DEF TaskState, Return

LEMMA IdleIs ==
  /\ IdleTask \in TaskState /\ IdleTask.pc = "idle" /\ IdleTask.row = 0
  /\ TaskOK(IdleTask) /\ ~Completing(IdleTask)
<1>1. 0 \in 0 .. RetryLimit /\ <<>> \in Seq(Content)
  BY RetryAssumption
<1>. QED
  BY <1>1 DEF IdleTask, TaskState, TaskOK, Completing, Logging, SeedHash

LEMMA FailedIs ==
  ASSUME NEW r \in TaskState, r.contract \in Contracts, r.retries < RetryLimit
  PROVE  LET k == FailedAttempt(r)
         IN  /\ k \in TaskState /\ k.contract = r.contract /\ k.row = r.row
             /\ k.retries = r.retries + 1
             /\ \/ k.pc = "submit" /\ k.retries < RetryLimit
                \/ /\ k.pc = "hash" /\ Logged(k.entry) /\ k.entry.contract = r.contract
                   /\ k.entry.event = "TRADE_FAILED" /\ k.entry.status = "INFO"
<1>. DEFINE next == [r EXCEPT !.retries = @ + 1]
<1>1. r.retries + 1 \in 0 .. RetryLimit
  BY RetryAssumption DEF TaskState
<1>2. next \in TaskState /\ next.contract = r.contract /\ next.row = r.row
      /\ next.retries = r.retries + 1
  BY <1>1 DEF TaskState
<1>3. [next EXCEPT !.pc = "submit"] \in TaskState
      /\ [next EXCEPT !.pc = "submit"].contract = r.contract
      /\ [next EXCEPT !.pc = "submit"].row = r.row
      /\ [next EXCEPT !.pc = "submit"].pc = "submit"
      /\ [next EXCEPT !.pc = "submit"].retries = r.retries + 1
  BY <1>2 DEF TaskState
<1>4. FailedAttempt(r) = IF next.retries < RetryLimit
                           THEN [next EXCEPT !.pc = "submit"]
                           ELSE LogEntry(next, "TRADE_FAILED", "INFO")
  BY DEF FailedAttempt
<1>. HIDE DEF next
<1>. QED
  BY <1>2, <1>3, <1>4, LogEntryIs DEF Events, Statuses, Logged, Kinds

(* A step of a task, and what its new state must satisfy. *)

Grows(rows, new) ==
  /\ TrailOK(new) /\ DOMAIN rows \subseteq DOMAIN new
  /\ \A i \in DOMAIN rows : /\ new[i].hash = rows[i].hash /\ new[i].prev = rows[i].prev
                            /\ new[i].content.contract = rows[i].content.contract

LEMMA GrowsKeeps ==
  ASSUME NEW rows, NEW new, NEW r, Grows(rows, new), ApprovalOK(rows, r)
  PROVE  ApprovalOK(new, r)
BY DEF Grows, ApprovalOK, ForRow, WrittenAs

LEMMA TaskStep ==
  ASSUME Basic, Grows(trail, trail'), Scalars', NEW t \in Tasks, NEW k,
         task' = [task EXCEPT ![t] = k], TaskOK(k),
         t = Loop => LoopOK(k),
         t \in Approvals => ApprovalOK(trail', k)
  PROVE  Basic'
<1>1. TrailOK(trail')
  BY DEF Grows
<1>2. k \in TaskState
  BY DEF TaskOK
<1>3. task' \in [Tasks -> TaskState] /\ \A u \in Tasks : task'[u] = IF u = t THEN k ELSE task[u]
  BY <1>2 DEF Basic
<1>4. LoopOK(task'[Loop]) /\ \A u \in Tasks : TaskOK(task'[u])
  BY <1>3 DEF Basic, Tasks
<1>5. \A a \in Approvals : ApprovalOK(trail', task'[a])
  BY <1>3, GrowsKeeps DEF Basic, Tasks
<1>. QED
  BY <1>1, <1>3, <1>4, <1>5 DEF Basic

LEMMA SameGrows ==
  ASSUME Basic
  PROVE  Grows(trail, trail)
BY DEF Grows, Basic

(* A task that runs goes on with what it has, or ends if it has no row.    *)
Goes(r, k) ==
  /\ TaskOK(k)
  /\ \/ r.row = 0 /\ k = IdleTask
     \/ /\ k.row = r.row /\ k.contract = r.contract
        /\ k.pc \in {"hash", "insert", "append", "submit"} \/ (k.pc = "settle" /\ r.row # 0)

Runs(r) == r.pc \in {"hash", "insert", "append", "submit", "settle"}

Moved(t) ==
  /\ Runs(task[t]) /\ Goes(task[t], task'[t])
  /\ \A u \in Tasks \ {t} : task'[u] = task[u]

LEMMA GoStep ==
  ASSUME Basic, Grows(trail, trail'), Scalars', NEW t \in Tasks, NEW k,
         task' = [task EXCEPT ![t] = k], Runs(task[t]), Goes(task[t], k)
  PROVE  Basic' /\ Moved(t)
<1>0. Moved(t)
  BY DEF Moved, Basic
<1>1. TaskOK(k)
  BY DEF Goes
<1>2. CASE t = Loop
  <2>1. LoopOK(k) /\ t \notin Approvals
    BY <1>2, IdleIs, TasksAssumption DEF Goes, Basic, LoopOK
  <2>. QED
    BY <1>0, <1>1, <1>2, <2>1, TaskStep
<1>3. CASE t \in Approvals
  <2>1. ForRow(trail, task[t]) /\ t # Loop
    BY <1>3, TasksAssumption DEF Basic, ApprovalOK, Runs
  <2>2. task[t].row # 0
    BY <2>1 DEF ForRow, Basic, TrailOK
  <2>3. ForRow(trail, k)
    BY <2>1, <2>2 DEF Goes, ForRow, Runs
  <2>4. ApprovalOK(trail', k)
    BY <2>3, GrowsKeeps DEF ApprovalOK
  <2>. QED
    BY <1>0, <1>1, <1>3, <2>1, <2>4, TaskStep
<1>. QED
  BY <1>0, <1>2, <1>3 DEF Tasks

LEMMA ReturnGoes ==
  ASSUME NEW r, TaskOK(r), NEW x \in {"STAGED", "FILLED", "FAILED", "raised"}, Runs(r)
  PROVE  Goes(r, Return(r, x))
<1>1. CASE r.row = 0
  BY <1>1, ReturnIs, IdleIs DEF TaskOK, Goes
<1>2. CASE r.row # 0
  BY <1>2, ReturnIs DEF TaskOK, Goes, Logging, Runs, Completing
<1>. QED
  BY <1>1, <1>2

LEMMA FailedGoes ==
  ASSUME NEW r, TaskOK(r), Runs(r), r.retries < RetryLimit
  PROVE  Goes(r, FailedAttempt(r))
<1>1. r \in TaskState /\ r.contract \in Contracts
  BY DEF TaskOK, Runs
<1>. QED
  BY <1>1, FailedIs DEF TaskOK, Goes, Logging, Kinds, Completing

LEMMA AfterLogGoes ==
  ASSUME NEW r, TaskOK(r), r.pc = "append"
  PROVE  Goes(r, AfterLog(r))
<1>1. /\ r \in TaskState /\ r.contract \in Contracts /\ Runs(r)
      /\ <<r.entry.event, r.entry.status>> \in Kinds
  BY DEF TaskOK, Logging, Runs, Logged
<1>2. CASE r.entry.event = "TRADE_INTENT" /\ r.entry.status = "EXECUTING"
  <2>1. AfterLog(r) = [r EXCEPT !.pc = "submit"]
    BY <1>2 DEF AfterLog
  <2>2. r.retries = 0 /\ r.retries < RetryLimit
    BY <1>2, RetryAssumption DEF TaskOK, Logging
  <2>3. /\ [r EXCEPT !.pc = "submit"] \in TaskState
        /\ [r EXCEPT !.pc = "submit"].pc = "submit"
        /\ [r EXCEPT !.pc = "submit"].row = r.row
        /\ [r EXCEPT !.pc = "submit"].contract = r.contract
        /\ [r EXCEPT !.pc = "submit"].retries = r.retries
    BY <1>1 DEF TaskState
  <2>. QED
    BY <1>1, <2>1, <2>2, <2>3 DEF Goes, TaskOK, Logging, Completing
<1>3. CASE r.entry.event = "TRADE_INTENT" /\ r.entry.status = "STAGED"
  <2>1. AfterLog(r) = Return(r, "STAGED")
    BY <1>3 DEF AfterLog
  <2>. QED
    BY <1>1, <2>1, ReturnGoes
<1>4. CASE r.entry.event = "TRADE_COMPLETED" /\ r.entry.status = "INFO"
  <2>1. AfterLog(r) = Return(r, "FILLED")
    BY <1>4 DEF AfterLog
  <2>. QED
    BY <1>1, <2>1, ReturnGoes
<1>5. CASE <<r.entry.event, r.entry.status>> \in {<<"TRADE_FAILED", "INFO">>, <<"TRADE_INTENT", "FAILED">>}
  <2>1. AfterLog(r) = Return(r, "FAILED")
    BY <1>5 DEF AfterLog
  <2>. QED
    BY <1>1, <2>1, ReturnGoes
<1>. QED
  BY <1>1, <1>2, <1>3, <1>4, <1>5 DEF Kinds

LEMMA AfterRaiseGoes ==
  ASSUME NEW r, TaskOK(r), r.pc \in Logging
  PROVE  Goes(r, AfterRaise(r))
BY FailedGoes, ReturnGoes DEF AfterRaise, TaskOK, Completing, Logging, Runs

-----------------------------------------------------------------------------
(* The two ways a trail changes. *)

LEMMA LastOf ==
  ASSUME NEW q \in Seq(Content), NEW w
  PROVE  Append(q, w)[Len(Append(q, w))] = w
OBVIOUS

Updated(i, status, details) ==
  [trail EXCEPT ![i].content.status = status, ![i].content.details = details]

LEMMA UpdateGrows ==
  ASSUME TrailOK(trail), NEW i \in DOMAIN trail, NEW s \in Statuses, NEW d \in {"logged", "result"}
  PROVE  LET new == Updated(i, s, d)
         IN  /\ Grows(trail, new) /\ DOMAIN new = DOMAIN trail
             /\ \A j \in DOMAIN trail : j # i => new[j] = trail[j]
             /\ new[i].content.status = s /\ new[i].content.details = d
<1>. DEFINE new == Updated(i, s, d)
            content == [trail[i].content EXCEPT !.status = s, !.details = d]
            row == [trail[i] EXCEPT !.content = content]
<1>1. trail \in Seq(Rows) /\ RowOK(trail[i]) /\ trail[i] \in Rows /\ trail[i].content \in Content
  BY DEF TrailOK, RowOK, Rows
<1>2. /\ content \in Content /\ content.status = s /\ content.details = d
      /\ content.contract = trail[i].content.contract
  BY <1>1 DEF Content
<1>3. content = [WrittenAs(trail[i]) EXCEPT !.status = s, !.details = d]
  BY <1>1 DEF RowOK, Logged, Content
<1>. HIDE DEF content
<1>4. row.hash = trail[i].hash /\ row.prev = trail[i].prev /\ row.content = content /\ row \in Rows
  BY <1>1, <1>2 DEF Rows
<1>5. /\ new \in Seq(Rows) /\ DOMAIN new = DOMAIN trail
      /\ \A j \in DOMAIN trail : new[j] = IF j = i THEN row ELSE trail[j]
  <2>1. new = [trail EXCEPT ![i] = row]
    BY <1>1 DEF Updated, content, Rows
  <2>. HIDE DEF new, row
  <2>. QED
    BY <1>1, <1>4, <2>1
<1>. HIDE DEF new, row
<1>6. WrittenAs(row) = WrittenAs(trail[i])
  BY <1>4 DEF WrittenAs
<1>7. RowOK(row)
  BY <1>1, <1>2, <1>3, <1>4, <1>6 DEF RowOK
<1>. QED
  BY <1>2, <1>4, <1>5, <1>7 DEF Grows, TrailOK, new

LEMMA AppendGrows ==
  ASSUME TrailOK(trail), NEW entry, Logged(entry), NEW prev \in Seq(Content)
  PROVE  /\ Grows(trail, Append(trail, AuditRow(entry, prev)))
         /\ WrittenAs(AuditRow(entry, prev)) = entry
<1>. DEFINE row == AuditRow(entry, prev)
            new == Append(trail, row)
<1>1. /\ row.content = entry /\ row.prev = prev /\ row.hash = Append(prev, entry)
      /\ row \in Rows
  BY DEF AuditRow, ComputeHash, Rows, Logged
<1>2. WrittenAs(row) = entry
  BY <1>1, LastOf DEF WrittenAs, Logged
<1>3. RowOK(row)
  BY <1>1, <1>2 DEF RowOK, Content, Logged
<1>. HIDE DEF row
<1>4. /\ new \in Seq(Rows) /\ DOMAIN trail \subseteq DOMAIN new
      /\ \A j \in DOMAIN new : (j \in DOMAIN trail /\ new[j] = trail[j]) \/ new[j] = row
      /\ \A j \in DOMAIN trail : new[j] = trail[j]
  BY <1>1 DEF TrailOK
<1>. QED
  BY <1>2, <1>3, <1>4 DEF Grows, TrailOK, row

-----------------------------------------------------------------------------
(* Every action keeps the basic facts. *)

(* What execute_order does first: an intent to execute, to stage, or a     *)
(* rejection.                                                              *)
Started(r) == {ExecuteOrder(r, TRUE), ExecuteOrder(r, FALSE), Reject(r)}

LEMMA StartGoes ==
  ASSUME NEW r \in TaskState, r.contract \in Contracts, r.retries = 0, NEW k \in Started(r)
  PROVE  /\ TaskOK(k) /\ k.pc = "hash" /\ k.row = r.row /\ k.contract = r.contract
         /\ k.entry.event = "TRADE_INTENT"
<1>1. PICK status \in {"EXECUTING", "STAGED", "FAILED"} : k = LogEntry(r, "TRADE_INTENT", status)
  BY DEF Started, ExecuteOrder, Reject
<1>2. status \in Statuses /\ <<"TRADE_INTENT", status>> \in Kinds /\ "TRADE_INTENT" \in Events
  BY DEF Statuses, Events, Kinds
<1>3. /\ k \in TaskState /\ k.pc = "hash" /\ k.contract = r.contract
      /\ k.row = r.row /\ k.retries = 0 /\ k.entry \in Content /\ k.entry.details = "logged"
      /\ k.entry.contract = r.contract
      /\ k.entry.event = "TRADE_INTENT" /\ k.entry.status = status
  BY <1>1, <1>2, LogEntryIs
<1>4. TaskOK(k)
  BY <1>2, <1>3 DEF TaskOK, Logging, Completing, Logged
<1>. QED
  BY <1>3, <1>4

LEMMA FreshIs ==
  ASSUME NEW c \in Contracts, NEW i \in Nat
  PROVE  /\ [IdleTask EXCEPT !.contract = c] \in TaskState
         /\ [IdleTask EXCEPT !.contract = c].contract = c
         /\ [IdleTask EXCEPT !.contract = c].row = 0
         /\ [IdleTask EXCEPT !.contract = c].retries = 0
         /\ [IdleTask EXCEPT !.contract = c, !.row = i] \in TaskState
         /\ [IdleTask EXCEPT !.contract = c, !.row = i].contract = c
         /\ [IdleTask EXCEPT !.contract = c, !.row = i].row = i
         /\ [IdleTask EXCEPT !.contract = c, !.row = i].retries = 0
<1>1. 0 \in 0 .. RetryLimit /\ <<>> \in Seq(Content)
  BY RetryAssumption
<1>. QED
  BY <1>1 DEF IdleTask, TaskState, SeedHash

LEMMA LoopStarts ==
  ASSUME NEW c \in Contracts, StartPass(c)
  PROVE  \E k : /\ task' = [task EXCEPT ![Loop] = k]
                /\ TaskOK(k) /\ k.pc = "hash" /\ k.row = 0 /\ k.entry.event = "TRADE_INTENT"
<1>. DEFINE r == [IdleTask EXCEPT !.contract = c]
<1>1. PICK execution \in BOOLEAN : task' = [task EXCEPT ![Loop] = ExecuteOrder(r, execution)]
  BY DEF StartPass
<1>2. r \in TaskState /\ r.contract \in Contracts /\ r.retries = 0 /\ r.row = 0
  BY FreshIs
<1>3. ExecuteOrder(r, execution) \in Started(r)
  BY DEF Started
<1>. HIDE DEF r
<1>4. PICK k \in Started(r) : k = ExecuteOrder(r, execution)
  BY <1>3
<1>. QED
  BY <1>1, <1>2, <1>4, StartGoes

LEMMA BasicStart ==
  ASSUME Basic, NEW c \in Contracts, StartPass(c)
  PROVE  Basic'
<1>1. PICK k : task' = [task EXCEPT ![Loop] = k] /\ TaskOK(k) /\ k.pc = "hash" /\ k.row = 0
  BY LoopStarts
<1>2. Scalars' /\ trail' = trail
  BY BoundsAssumption DEF StartPass, Basic, Scalars
<1>. QED
  BY <1>1, <1>2, TaskStep, SameGrows, TasksAssumption DEF LoopOK, Tasks

(* An approval is received: its row is updated, and its order begins.      *)
LEMMA Received ==
  ASSUME Basic, NEW a \in Approvals, NEW i \in DOMAIN trail, Approve(a, i)
  PROVE  /\ trail[i].content.details \in {"logged", "result"} /\ trail[i].content.contract \in Contracts
         /\ trail' = Updated(i, "EXECUTING", trail[i].content.details)
         /\ task[a].pc = "idle" /\ journal' = journal /\ orders' = orders /\ faults' = faults
         /\ \E k : /\ task' = [task EXCEPT ![a] = k]
                   /\ TaskOK(k) /\ k.pc = "hash" /\ k.row = i /\ k.entry.event = "TRADE_INTENT"
                   /\ k.contract = trail[i].content.contract
<1>1. i \in Nat /\ trail[i].content.contract \in Contracts
      /\ trail[i].content.details \in {"logged", "result"}
  <2>1. i \in Nat /\ RowOK(trail[i])
    BY DEF Basic, TrailOK
  <2>2. trail[i].content \in Content
    BY <2>1 DEF RowOK, Rows
  <2>. QED
    BY <2>1, <2>2 DEF Content
<1>. DEFINE c == trail[i].content.contract
            r == [IdleTask EXCEPT !.contract = c, !.row = i]
<1>2. \E k \in Started(r) : task' = [task EXCEPT ![a] = k]
  <2>1. PICK execution \in BOOLEAN : \/ task' = [task EXCEPT ![a] = ExecuteOrder(r, execution)]
                                    \/ task' = [task EXCEPT ![a] = Reject(r)]
    BY DEF Approve
  <2>2. ExecuteOrder(r, execution) \in Started(r) /\ Reject(r) \in Started(r)
    BY DEF Started
  <2>. HIDE DEF r
  <2>. QED
    BY <2>1, <2>2
<1>3. c \in Contracts
  BY <1>1
<1>. HIDE DEF c
<1>4. r \in TaskState /\ r.contract = c /\ r.row = i /\ r.retries = 0
  BY <1>1, <1>3, FreshIs
<1>. HIDE DEF r
<1>5. \E k : /\ task' = [task EXCEPT ![a] = k]
             /\ TaskOK(k) /\ k.pc = "hash" /\ k.row = i /\ k.entry.event = "TRADE_INTENT"
             /\ k.contract = c
  <2>1. PICK k \in Started(r) : task' = [task EXCEPT ![a] = k]
    BY <1>2
  <2>2. TaskOK(k) /\ k.pc = "hash" /\ k.row = i /\ k.entry.event = "TRADE_INTENT" /\ k.contract = c
    BY <1>3, <1>4, StartGoes
  <2>. QED
    BY <2>1, <2>2
<1>. QED
  BY <1>1, <1>5 DEF Approve, Update, Updated, c

LEMMA BasicApprove ==
  ASSUME Basic, NEW a \in Approvals, NEW i \in DOMAIN trail, Approve(a, i)
  PROVE  Basic' /\ Grows(trail, trail') /\ task'[a].pc # "idle"
<1>1. PICK k : /\ task' = [task EXCEPT ![a] = k]
               /\ TaskOK(k) /\ k.pc = "hash" /\ k.row = i
               /\ k.contract = trail[i].content.contract
  BY Received
<1>2. Grows(trail, trail')
  <2>1. /\ trail' = Updated(i, "EXECUTING", trail[i].content.details) /\ TrailOK(trail)
        /\ trail[i].content.details \in {"logged", "result"} /\ "EXECUTING" \in Statuses
    BY Received DEF Basic, Statuses
  <2>. QED
    BY <2>1, UpdateGrows
<1>3. ForRow(trail, k)
  BY <1>1 DEF ForRow
<1>4. ApprovalOK(trail', k)
  BY <1>2, <1>3, GrowsKeeps DEF ApprovalOK
<1>5. Scalars' /\ a \in Tasks /\ a # Loop
  BY TasksAssumption DEF Approve, Basic, Scalars, Tasks
<1>6. Basic'
  BY <1>1, <1>2, <1>4, <1>5, TaskStep
<1>. QED
  BY <1>1, <1>2, <1>5, <1>6 DEF Basic

LEMMA BasicReadHash ==
  ASSUME Basic, NEW t \in Tasks, ReadHash(t)
  PROVE  /\ Basic' /\ Moved(t) /\ task'[t].prev = GetLastHash(trail) /\ task'[t].pc = "insert"
         /\ task'[t].contract = task[t].contract /\ task'[t].retries = task[t].retries
         /\ task'[t].entry.event = task[t].entry.event
<1>. DEFINE r == task[t]
            k == [r EXCEPT !.pc = "insert", !.entry.stamp = t, !.prev = GetLastHash(trail)]
<1>1. TaskOK(r) /\ r \in TaskState /\ r.entry \in Content
  BY DEF Basic, ReadHash, TaskOK, Logging, Logged
<1>2. GetLastHash(trail) \in Seq(Content)
  <2>1. trail \in Seq(Rows)
    BY DEF Basic, TrailOK
  <2>2. trail # <<>> => trail[Len(trail)] \in Rows
    BY <2>1
  <2>. QED
    BY <2>1, <2>2 DEF GetLastHash, SeedHash, Rows
<1>. DEFINE e == [r.entry EXCEPT !.stamp = t]
<1>3. /\ e \in Content /\ e.event = r.entry.event /\ e.status = r.entry.status
      /\ e.contract = r.entry.contract /\ e.details = r.entry.details
  BY <1>1 DEF Content
<1>4. /\ k \in TaskState /\ k.pc = "insert" /\ k.entry = e /\ k.contract = r.contract
      /\ k.row = r.row /\ k.retries = r.retries /\ k.prev = GetLastHash(trail)
  BY <1>1, <1>2, <1>3 DEF TaskState
<1>5. TaskOK(k) /\ Goes(r, k) /\ Runs(r)
  BY <1>1, <1>3, <1>4 DEF ReadHash, TaskOK, Logging, Goes, Completing, Runs, Logged
<1>6. task' = [task EXCEPT ![t] = k] /\ trail' = trail /\ Scalars'
  <2>1. UNCHANGED <<trail, journal, orders, passes, faults>>
    BY DEF ReadHash
  <2>2. Scalars'
    BY <2>1 DEF Basic, Scalars
  <2>3. task' = [task EXCEPT ![t] = k]
    BY DEF ReadHash, Basic
  <2>. QED
    BY <2>1, <2>2, <2>3
<1>. HIDE DEF k, r, e
<1>7. Basic' /\ Moved(t)
  BY <1>5, <1>6, GoStep, SameGrows DEF r
<1>. QED
  BY <1>3, <1>4, <1>6, <1>7 DEF Basic, r

LEMMA BasicInsert ==
  ASSUME Basic, NEW t \in Tasks, InsertRow(t)
  PROVE  /\ Basic' /\ Moved(t) /\ Grows(trail, trail') /\ task'[t].pc = "append"
         /\ Logged(task[t].entry) /\ task[t].prev \in Seq(Content)
<1>. DEFINE r == task[t]
            k == [r EXCEPT !.pc = "append"]
<1>1. /\ TaskOK(r) /\ r \in TaskState /\ Logged(r.entry) /\ r.entry \in Content
      /\ r.prev \in Seq(Content)
  BY DEF Basic, InsertRow, TaskOK, Logging, TaskState, Logged
<1>2. /\ k \in TaskState /\ k.pc = "append" /\ k.entry = r.entry /\ k.contract = r.contract
      /\ k.row = r.row /\ k.retries = r.retries
  BY <1>1 DEF TaskState
<1>3. Goes(r, k) /\ Runs(r)
  BY <1>1, <1>2 DEF InsertRow, TaskOK, Logging, Goes, Completing, Runs
<1>4. task' = [task EXCEPT ![t] = k] /\ Grows(trail, trail') /\ Scalars'
  BY <1>1, AppendGrows DEF InsertRow, Basic, Scalars
<1>. HIDE DEF k, r
<1>5. Basic' /\ Moved(t)
  BY <1>3, <1>4, GoStep DEF r
<1>. QED
  BY <1>1, <1>2, <1>4, <1>5 DEF Basic, r

LEMMA BasicAppend ==
  ASSUME Basic, NEW t \in Tasks, AppendJsonl(t)
  PROVE  Basic' /\ Moved(t)
<1>1. TaskOK(task[t]) /\ task[t].entry \in Content /\ task[t].prev \in Seq(Content) /\ Runs(task[t])
  BY DEF Basic, AppendJsonl, TaskOK, Logging, TaskState, Runs, Logged
<1>2. Goes(task[t], AfterLog(task[t]))
  BY <1>1, AfterLogGoes DEF AppendJsonl
<1>3. ComputeHash(task[t].entry, task[t].prev) \in Seq(Content)
  BY <1>1 DEF ComputeHash
<1>4. Scalars' /\ trail' = trail /\ task' = [task EXCEPT ![t] = AfterLog(task[t])]
  BY <1>3 DEF AppendJsonl, Basic, Scalars
<1>. QED
  BY <1>1, <1>2, <1>4, GoStep, SameGrows

LEMMA FaultCounts ==
  ASSUME Scalars, NEW kind, Fault(kind)
  PROVE  faults' \in 0 .. MaxFaults /\ faults' # 0
BY BoundsAssumption DEF Scalars, Fault

LEMMA BasicLogRaises ==
  ASSUME Basic, NEW t \in Tasks, LogRaises(t)
  PROVE  Basic' /\ Moved(t) /\ faults' # 0
<1>1. TaskOK(task[t]) /\ task[t].pc \in Logging /\ Runs(task[t])
  BY DEF Basic, LogRaises, Logging, Runs
<1>2. faults' \in 0 .. MaxFaults /\ faults' # 0
  BY FaultCounts DEF LogRaises, Basic
<1>3. Scalars' /\ trail' = trail /\ task' = [task EXCEPT ![t] = AfterRaise(task[t])]
  BY <1>2 DEF LogRaises, Basic, Scalars
<1>. QED
  BY <1>1, <1>2, <1>3, AfterRaiseGoes, GoStep, SameGrows

LEMMA BasicCreate ==
  ASSUME Basic, NEW t \in Tasks, CreateOrder(t)
  PROVE  Basic' /\ Moved(t)
<1>. DEFINE k == LogEntry(task[t], "TRADE_COMPLETED", "INFO")
<1>1. TaskOK(task[t]) /\ Runs(task[t]) /\ task[t] \in TaskState /\ task[t].contract \in Contracts
      /\ task[t].retries < RetryLimit
  BY DEF Basic, CreateOrder, TaskOK, Runs
<1>2. Goes(task[t], k)
  BY <1>1, LogEntryIs DEF Events, Statuses, Goes, TaskOK, Logging, Logged, Kinds, Completing
<1>3. Scalars' /\ trail' = trail /\ task' = [task EXCEPT ![t] = k]
  BY <1>1 DEF CreateOrder, Accepts, Basic, Scalars
<1>. QED
  BY <1>1, <1>2, <1>3, GoStep, SameGrows

LEMMA BasicCreateRaises ==
  ASSUME Basic, NEW t \in Tasks, CreateRaises(t)
  PROVE  Basic' /\ Moved(t) /\ faults' # 0
<1>1. TaskOK(task[t]) /\ Runs(task[t]) /\ task[t].contract \in Contracts
      /\ task[t].retries < RetryLimit
  BY DEF Basic, CreateRaises, TaskOK, Runs
<1>2. faults' \in 0 .. MaxFaults /\ faults' # 0
  BY FaultCounts DEF CreateRaises, Basic
<1>3. Scalars' /\ trail' = trail /\ task' = [task EXCEPT ![t] = FailedAttempt(task[t])]
  BY <1>1, <1>2 DEF CreateRaises, Accepts, Basic, Scalars
<1>. QED
  BY <1>1, <1>2, <1>3, FailedGoes, GoStep, SameGrows

LEMMA EndedIs ==
  ASSUME NEW r \in TaskState, NEW pc \in {"done", "lost"}, NEW row \in Nat
  PROVE  /\ LET k == [IdleTask EXCEPT !.pc = pc, !.row = row]
            IN  TaskOK(k) /\ k.pc = pc /\ k.row = row
         /\ TaskOK([IdleTask EXCEPT !.pc = "done"]) /\ [IdleTask EXCEPT !.pc = "done"].pc = "done"
<1>1. 0 \in 0 .. RetryLimit /\ <<>> \in Seq(Content)
  BY RetryAssumption
<1>. QED
  BY <1>1 DEF IdleTask, TaskState, TaskOK, Completing, Logging, SeedHash

(* An approval ends: its row is updated with the outcome.                  *)
LEMMA Ends ==
  ASSUME Basic, NEW a \in Approvals, Settle(a)
  PROVE  LET s == IF task[a].result = "FILLED" THEN "FILLED" ELSE "FAILED"
         IN  /\ a \in Tasks /\ a # Loop /\ task[a] \in TaskState /\ ForRow(trail, task[a])
             /\ task[a].pc = "settle" /\ s \in Statuses
             /\ Details(task[a]) \in {"logged", "result"}
             /\ trail' = Updated(task[a].row, s, Details(task[a]))
             /\ task' = [task EXCEPT ![a] = [IdleTask EXCEPT !.pc = "done"]]
             /\ journal' = journal /\ orders' = orders /\ faults' = faults
<1>1. a \in Tasks /\ a # Loop /\ task[a] \in TaskState /\ ForRow(trail, task[a])
      /\ task[a].pc = "settle"
  BY TasksAssumption DEF Tasks, Basic, Settle, ApprovalOK
<1>2. RowOK(trail[task[a].row])
  BY <1>1 DEF ForRow, Basic, TrailOK
<1>3. trail[task[a].row].content.details \in {"logged", "result"}
  BY <1>2 DEF RowOK, Rows, Content
<1>4. Details(task[a]) \in {"logged", "result"}
  BY <1>3 DEF Details
<1>. QED
  BY <1>1, <1>4 DEF Settle, Done, Update, Updated, Statuses

LEMMA BasicSettle ==
  ASSUME Basic, NEW a \in Approvals, Settle(a)
  PROVE  Basic' /\ Grows(trail, trail')
<1>. DEFINE k == [IdleTask EXCEPT !.pc = "done"]
<1>1. a \in Tasks /\ a # Loop /\ task[a] \in TaskState /\ ForRow(trail, task[a])
  BY Ends
<1>3. TaskOK(k) /\ k.pc = "done"
  BY <1>1, EndedIs
<1>4. Grows(trail, trail')
  BY Ends, UpdateGrows DEF ForRow, Basic
<1>5. Scalars' /\ task' = [task EXCEPT ![a] = k]
  BY DEF Settle, Done, Basic, Scalars
<1>. QED
  BY <1>1, <1>3, <1>4, <1>5, TaskStep DEF ApprovalOK

LEMMA BasicSettleRaises ==
  ASSUME Basic, NEW a \in Approvals, SettleRaises(a)
  PROVE  Basic' /\ faults' # 0
<1>1. a \in Tasks /\ a # Loop /\ task[a] \in TaskState /\ ForRow(trail, task[a])
      /\ TaskOK(task[a]) /\ task[a].row \in Nat /\ Runs(task[a])
  BY TasksAssumption DEF Tasks, Basic, SettleRaises, ApprovalOK, TaskState, Runs
<1>2. faults' \in 0 .. MaxFaults /\ faults' # 0
  BY FaultCounts DEF SettleRaises, Basic
<1>3. Scalars' /\ trail' = trail
  BY <1>2 DEF SettleRaises, Basic, Scalars
<1>4. CASE task' = [task EXCEPT ![a] = Lost(task[a])]
  <2>1. /\ TaskOK(Lost(task[a])) /\ Lost(task[a]).pc = "lost" /\ Lost(task[a]).row = task[a].row
    BY <1>1, EndedIs DEF Lost
  <2>2. ForRow(trail, Lost(task[a]))
    BY <1>1, <2>1 DEF ForRow
  <2>. QED
    BY <1>1, <1>2, <1>3, <1>4, <2>1, <2>2, TaskStep, SameGrows DEF ApprovalOK
<1>5. CASE task' = [task EXCEPT ![a].result = "raised"]
  <2>. DEFINE k == [task[a] EXCEPT !.result = "raised"]
  <2>1. /\ k \in TaskState /\ k.pc = "settle" /\ k.row = task[a].row /\ k.contract = task[a].contract
        /\ task[a].pc = "settle"
    BY <1>1 DEF TaskState, SettleRaises
  <2>2. Goes(task[a], k)
    BY <1>1, <2>1 DEF Goes, TaskOK, Logging, Completing
  <2>3. task' = [task EXCEPT ![a] = k]
    BY <1>5
  <2>. QED
    BY <1>1, <1>2, <1>3, <2>2, <2>3, GoStep, SameGrows
<1>. QED
  BY <1>4, <1>5 DEF SettleRaises

LEMMA BasicCrashPlatform ==
  ASSUME Basic, CrashPlatform
  PROVE  Basic' /\ faults' # 0
<1>1. faults' \in 0 .. MaxFaults /\ faults' # 0
  BY FaultCounts DEF CrashPlatform, Basic
<1>2. Scalars' /\ trail' = trail /\ task' = [task EXCEPT ![Loop] = IdleTask]
  BY <1>1 DEF CrashPlatform, Basic, Scalars
<1>. QED
  BY <1>1, <1>2, TaskStep, SameGrows, IdleIs, TasksAssumption DEF LoopOK, Tasks

LEMMA BasicCrashDashboard ==
  ASSUME Basic, CrashDashboard
  PROVE  Basic' /\ faults' # 0
<1>1. faults' \in 0 .. MaxFaults /\ faults' # 0
  BY FaultCounts DEF CrashDashboard, Basic
<1>2. Scalars' /\ trail' = trail
  BY <1>1 DEF CrashDashboard, Basic, Scalars
<1>3. \A t \in Tasks : task'[t] = task[t] \/ (t \in Approvals /\ Runs(task[t]) /\ task'[t] = Lost(task[t]))
  BY TasksAssumption DEF CrashDashboard, Tasks, Runs, Basic, TaskState
<1>4. DOMAIN task' = Tasks /\ task' = [t \in Tasks |-> task'[t]]
  BY DEF CrashDashboard
<1>5. ASSUME NEW t \in Tasks, task'[t] = Lost(task[t]), t \in Approvals, Runs(task[t])
      PROVE  TaskOK(task'[t]) /\ ApprovalOK(trail, task'[t])
  <2>1. ForRow(trail, task[t]) /\ task[t] \in TaskState /\ task[t].row \in Nat
    BY <1>5 DEF Basic, ApprovalOK, Runs, TaskState
  <2>2. TaskOK(Lost(task[t])) /\ Lost(task[t]).pc = "lost" /\ Lost(task[t]).row = task[t].row
    BY <2>1, EndedIs DEF Lost
  <2>. QED
    BY <1>5, <2>1, <2>2 DEF ApprovalOK, ForRow
<1>6. \A t \in Tasks : TaskOK(task'[t])
  BY <1>3, <1>5 DEF Basic
<1>7. task' \in [Tasks -> TaskState]
  BY <1>4, <1>6 DEF TaskOK
<1>8. LoopOK(task'[Loop]) /\ \A a \in Approvals : ApprovalOK(trail, task'[a])
  BY <1>3, <1>5, TasksAssumption DEF Basic, Tasks
<1>. QED
  BY <1>1, <1>2, <1>6, <1>7, <1>8 DEF Basic

LEMMA BasicInit == Init => Basic
<1>. SUFFICES ASSUME Init PROVE Basic
  OBVIOUS
<1>1. TrailOK(trail)
  BY DEF Init, TrailOK
<1>2. Scalars
  BY BoundsAssumption DEF Init, Scalars
<1>3. \A t \in Tasks : task[t] = IdleTask
  BY DEF Init
<1>4. task \in [Tasks -> TaskState] /\ \A t \in Tasks : TaskOK(task[t])
  BY <1>3, IdleIs DEF Init
<1>5. LoopOK(task[Loop]) /\ \A a \in Approvals : ApprovalOK(trail, task[a])
  BY <1>3, IdleIs DEF LoopOK, ApprovalOK, Tasks
<1>. QED
  BY <1>1, <1>2, <1>4, <1>5 DEF Basic

LEMMA BasicNext ==
  ASSUME Basic, [Next]_vars
  PROVE  Basic'
<1>1. CASE UNCHANGED vars
  BY <1>1 DEF vars, Basic, Scalars
<1>. QED
  BY <1>1, BasicStart, BasicApprove, BasicReadHash, BasicInsert, BasicAppend, BasicLogRaises,
     BasicCreate, BasicCreateRaises, BasicSettle, BasicSettleRaises, BasicCrashPlatform,
     BasicCrashDashboard DEF Next, Proceed

-----------------------------------------------------------------------------
(* The chain of the trail. *)

LEMMA AppendVerifies ==
  ASSUME NEW q \in Seq(Rows), NEW row
  PROVE  VerifyAuditChain(Append(q, row)) <=>
           /\ VerifyAuditChain(q)
           /\ row.prev = GetLastHash(q) /\ row.hash = ComputeHash(row.content, row.prev)
<1>. DEFINE new == Append(q, row)
<1>1. /\ Len(q) \in Nat /\ DOMAIN q = 1 .. Len(q) /\ DOMAIN new = 1 .. Len(q) + 1
      /\ \A i \in 1 .. Len(q) : new[i] = q[i]
      /\ new[Len(q) + 1] = row
  OBVIOUS
<1>2. \A i \in 1 .. Len(q) : Link(new, i) = Link(q, i)
  BY <1>1 DEF Link
<1>3. Link(new, Len(q) + 1) = GetLastHash(q)
  <2>1. CASE q = <<>>
    BY <1>1, <2>1 DEF Link, GetLastHash
  <2>2. CASE q # <<>>
    <3>1. Len(q) \in 1 .. Len(q) /\ Len(q) + 1 # 1 /\ (Len(q) + 1) - 1 = Len(q)
      BY <1>1, <2>2
    <3>. QED
      BY <1>1, <2>2, <3>1 DEF Link, GetLastHash
  <2>. QED
    BY <2>1, <2>2
<1>4. \A i : i \in 1 .. Len(q) + 1 <=> i \in 1 .. Len(q) \/ i = Len(q) + 1
  BY <1>1
<1>. QED
  BY <1>1, <1>2, <1>3, <1>4 DEF VerifyAuditChain, RowVerifies, Linked

(* The third way: what an approval makes of a row.                         *)
Amends(i, s, d) ==
  /\ trail' = Updated(i, s, d) /\ s \in Statuses /\ d \in {"logged", "result"}
  /\ \/ d = "result"
     \/ d = trail[i].content.details /\ s \in {"EXECUTING", "FAILED"}

LEMMA TrailChange ==
  ASSUME Basic, [Next]_vars
  PROVE  \/ trail' = trail
         \/ \E t \in Tasks : InsertRow(t)
         \/ \E i \in DOMAIN trail : \E s, d : Amends(i, s, d)
<1>1. ASSUME NEW a \in Approvals, NEW i \in DOMAIN trail, Approve(a, i)
      PROVE  Amends(i, "EXECUTING", trail[i].content.details)
  BY <1>1, Received DEF Amends, Statuses
<1>2. ASSUME NEW a \in Approvals, Settle(a)
      PROVE  \E i \in DOMAIN trail : \E s, d : Amends(i, s, d)
  <2>. DEFINE s == IF task[a].result = "FILLED" THEN "FILLED" ELSE "FAILED"
  <2>1. task[a].row \in DOMAIN trail
    BY <1>2, Ends DEF ForRow
  <2>2. Amends(task[a].row, s, Details(task[a]))
    BY <1>2, Ends DEF Amends, Details
  <2>. QED
    BY <2>1, <2>2
<1>3. ASSUME NEW t \in Tasks, Proceed(t), ~InsertRow(t) PROVE trail' = trail
  BY <1>3 DEF Proceed, ReadHash, AppendJsonl, LogRaises, CreateOrder, CreateRaises
<1>. QED
  BY <1>1, <1>2, <1>3, ZenonT(30)
  DEF Next, vars, StartPass, SettleRaises, CrashPlatform, CrashDashboard

(* An approval that was received never is as if it was not. *)
LEMMA NeverIdle ==
  ASSUME Basic, [Next]_vars, NEW a \in Approvals, task[a].pc # "idle"
  PROVE  task'[a].pc # "idle"
<1>0. a \in Tasks /\ a # Loop /\ Loop \in Tasks
  BY TasksAssumption DEF Tasks
<1>1. ASSUME NEW t \in Tasks, Moved(t) PROVE task'[a].pc # "idle"
  <2>1. CASE a = t
    <3>1. ForRow(trail, task[a])
      BY <1>1, <2>1 DEF Moved, Runs, Basic, ApprovalOK
    <3>2. task[a].row # 0
      BY <3>1 DEF ForRow, Basic, TrailOK
    <3>. QED
      BY <1>1, <2>1, <3>2 DEF Moved, Goes
  <2>2. CASE a # t
    BY <1>0, <1>1, <2>2 DEF Moved
  <2>. QED
    BY <2>1, <2>2
<1>2. ASSUME NEW t \in Tasks, Proceed(t) PROVE task'[a].pc # "idle"
  BY <1>1, <1>2, BasicReadHash, BasicInsert, BasicAppend, BasicLogRaises, BasicCreate,
     BasicCreateRaises DEF Proceed
<1>3. ASSUME NEW b \in Approvals, NEW i \in DOMAIN trail, Approve(b, i) PROVE task'[a].pc # "idle"
  <2>1. CASE a = b
    BY <1>3, <2>1, BasicApprove
  <2>2. CASE a # b
    <3>1. PICK k : task' = [task EXCEPT ![b] = k]
      BY <1>3, Received
    <3>. QED
      BY <1>0, <2>2, <3>1 DEF Basic
  <2>. QED
    BY <2>1, <2>2
<1>4. ASSUME NEW b \in Approvals, Settle(b) PROVE task'[a].pc # "idle"
  <2>1. task'[a] = IF a = b THEN [IdleTask EXCEPT !.pc = "done"] ELSE task[a]
    BY <1>0, <1>4 DEF Settle, Done, Basic
  <2>. QED
    BY <2>1 DEF IdleTask
<1>5. ASSUME NEW b \in Approvals, SettleRaises(b) PROVE task'[a].pc # "idle"
  <2>1. task'[a].pc \in {"lost", task[a].pc}
    BY <1>0, <1>5 DEF SettleRaises, Basic, Lost, IdleTask, TaskState
  <2>. QED
    BY <2>1
<1>6. CASE CrashDashboard
  <2>1. task'[a] = task[a] \/ task'[a] = Lost(task[a])
    BY <1>0, <1>6 DEF CrashDashboard
  <2>. QED
    BY <2>1 DEF Lost, IdleTask
<1>7. ASSUME NEW c \in Contracts, StartPass(c) PROVE task'[a].pc # "idle"
  BY <1>0, <1>7 DEF StartPass, Basic
<1>8. CASE CrashPlatform
  BY <1>0, <1>8 DEF CrashPlatform, Basic
<1>9. CASE UNCHANGED vars
  BY <1>9 DEF vars
<1>. QED
  BY <1>2, <1>3, <1>4, <1>5, <1>6, <1>7, <1>8, <1>9 DEF Next

LEMMA NoInsert ==
  ASSUME Basic, NEW t \in Tasks,
         AppendJsonl(t) \/ LogRaises(t) \/ CreateOrder(t) \/ CreateRaises(t)
  PROVE  task'[t].pc \notin {"insert", "append"}
<1>. DEFINE r == task[t]
<1>1. TaskOK(r) /\ r \in TaskState /\ r.contract \in Contracts /\ task \in [Tasks -> TaskState]
  BY DEF Basic, TaskOK, AppendJsonl, LogRaises, CreateOrder, CreateRaises
<1>2. \A x \in {"STAGED", "FILLED", "FAILED", "raised"} : Return(r, x).pc \notin {"insert", "append"}
  BY <1>1, ReturnIs, IdleIs DEF TaskState
<1>3. CASE AppendJsonl(t)
  <2>1. <<r.entry.event, r.entry.status>> \in Kinds
    BY <1>1, <1>3 DEF AppendJsonl, TaskOK, Logging, Logged
  <2>2. [r EXCEPT !.pc = "submit"].pc \notin {"insert", "append"}
    BY <1>1 DEF TaskState
  <2>3. AfterLog(r).pc \notin {"insert", "append"}
    BY <1>2, <2>1, <2>2 DEF AfterLog, Kinds
  <2>. QED
    BY <1>1, <1>3, <2>3 DEF AppendJsonl
<1>4. CASE LogRaises(t)
  <2>1. r.entry.event = "TRADE_COMPLETED" => FailedAttempt(r).pc \notin {"insert", "append"}
    BY <1>1, <1>4, FailedIs DEF LogRaises, TaskOK, Completing, Logging
  <2>2. AfterRaise(r).pc \notin {"insert", "append"}
    BY <1>2, <2>1 DEF AfterRaise
  <2>. QED
    BY <1>1, <1>4, <2>2 DEF LogRaises
<1>5. CASE CreateOrder(t)
  BY <1>1, <1>5, LogEntryIs DEF CreateOrder, Events, Statuses
<1>6. CASE CreateRaises(t)
  <2>1. FailedAttempt(r).pc \notin {"insert", "append"}
    BY <1>1, <1>6, FailedIs DEF CreateRaises, TaskOK
  <2>. QED
    BY <1>1, <1>6, <2>1 DEF CreateRaises
<1>. QED
  BY <1>3, <1>4, <1>5, <1>6

(* As long as no approval came, the chain verifies and the loop links to   *)
(* its end.                                                                *)
Chained ==
  (\A a \in Approvals : task[a].pc = "idle") =>
    /\ VerifyAuditChain(trail)
    /\ task[Loop].pc = "insert" => task[Loop].prev = GetLastHash(trail)

LEMMA ChainedNext ==
  ASSUME Basic, Chained, [Next]_vars
  PROVE  Chained'
<1>. SUFFICES ASSUME \A a \in Approvals : task'[a].pc = "idle"
     PROVE  /\ VerifyAuditChain(trail')
            /\ task'[Loop].pc = "insert" => task'[Loop].prev = GetLastHash(trail')
  BY DEF Chained
<1>1. \A a \in Approvals : task[a].pc = "idle"
  BY NeverIdle
<1>2. /\ VerifyAuditChain(trail)
      /\ task[Loop].pc = "insert" => task[Loop].prev = GetLastHash(trail)
  BY <1>1 DEF Chained
<1>3. Loop \in Tasks /\ trail \in Seq(Rows)
  BY DEF Tasks, Basic, TrailOK
<1>4. ASSUME NEW t \in Tasks, Proceed(t) PROVE t = Loop
  BY <1>1, <1>4 DEF Proceed, ReadHash, InsertRow, AppendJsonl, LogRaises, CreateOrder,
     CreateRaises, Tasks
<1>5. CASE InsertRow(Loop)
  <2>1. task'[Loop].pc = "append"
    BY <1>3, <1>5, BasicInsert
  <2>2. VerifyAuditChain(trail')
    BY <1>2, <1>3, <1>5, AppendVerifies DEF InsertRow, AuditRow
  <2>. QED
    BY <2>1, <2>2
<1>6. CASE trail' = trail
  <2>1. CASE ReadHash(Loop)
    BY <1>2, <1>3, <1>6, <2>1, BasicReadHash
  <2>2. CASE task'[Loop] = task[Loop]
    BY <1>2, <1>6, <2>2
  <2>3. CASE task'[Loop].pc # "insert"
    BY <1>2, <1>6, <2>3
  <2>5. ASSUME NEW c \in Contracts, StartPass(c) PROVE task'[Loop].pc # "insert"
    <3>1. PICK k : task' = [task EXCEPT ![Loop] = k] /\ k.pc = "hash"
      BY <2>5, LoopStarts
    <3>. QED
      BY <1>3, <3>1 DEF Basic
  <2>6. ASSUME CrashPlatform PROVE task'[Loop].pc # "insert"
    BY <1>3, <2>6 DEF CrashPlatform, Basic, IdleTask
  <2>7. ASSUME NEW a \in Approvals, Settle(a) \/ SettleRaises(a) \/ \E i \in DOMAIN trail : Approve(a, i)
        PROVE  task'[Loop] = task[Loop]
    <3>1. PICK k : task' = [task EXCEPT ![a] = k]
      BY <2>7, Received DEF Settle, Done, SettleRaises
    <3>. QED
      BY <1>3, <3>1, TasksAssumption DEF Basic
  <2>8. ASSUME CrashDashboard PROVE task'[Loop] = task[Loop]
    BY <1>3, <2>8 DEF CrashDashboard
  <2>9. ASSUME AppendJsonl(Loop) \/ LogRaises(Loop) \/ CreateOrder(Loop) \/ CreateRaises(Loop)
        PROVE  task'[Loop].pc # "insert"
    BY <1>3, <2>9, NoInsert
  <2>. QED
    BY <1>4, <1>5, <2>1, <2>2, <2>3, <2>5, <2>6, <2>7, <2>8, <2>9, <1>2, <1>6 DEF Next, Proceed, vars, InsertRow
<1>7. ASSUME NEW t \in Tasks, InsertRow(t) PROVE InsertRow(Loop)
  BY <1>4, <1>7 DEF Proceed
<1>8. ASSUME NEW a \in Approvals, Settle(a) \/ \E i \in DOMAIN trail : Approve(a, i) PROVE FALSE
  <2>1. ~ Settle(a)
    BY <1>1 DEF Settle
  <2>. QED
    BY <1>8, <2>1, BasicApprove
<1>9. trail' = trail \/ InsertRow(Loop)
  BY <1>7, <1>8, ZenonT(30) DEF Next, Proceed, ReadHash, AppendJsonl, LogRaises, CreateOrder,
     CreateRaises, vars, StartPass, SettleRaises, CrashPlatform, CrashDashboard
<1>. QED
  BY <1>5, <1>6, <1>9

(* An amended row verifies only if it could be restored.                   *)
LEMMA AmendedRow ==
  ASSUME Basic, NEW i \in DOMAIN trail, NEW s, NEW d, Amends(i, s, d), RowVerifies(trail', i)
  PROVE  Restorable(trail[i])
<1>. DEFINE w == WrittenAs(trail[i])
<1>1. RowOK(trail[i]) /\ TrailOK(trail)
  BY DEF Basic, TrailOK
<1>2. /\ trail[i].prev \in Seq(Content) /\ trail[i].hash = Append(trail[i].prev, w) /\ Logged(w)
  BY <1>1 DEF RowOK, Rows
<1>3. /\ trail'[i].hash = trail[i].hash /\ trail'[i].prev = trail[i].prev
      /\ trail'[i].content.status = s /\ trail'[i].content.details = d
  BY <1>1, UpdateGrows DEF Amends, Grows
<1>4. trail'[i].hash = Append(trail'[i].prev, trail'[i].content)
  BY DEF RowVerifies, ComputeHash
<1>. HIDE DEF w
<1>5. trail'[i].content = w
  <2>1. Append(trail[i].prev, trail'[i].content) = Append(trail[i].prev, w)
    BY <1>2, <1>3, <1>4
  <2>. QED
    BY <1>2, <2>1, LastOf
<1>6. s = w.status /\ d = "logged"
  BY <1>2, <1>3, <1>5 DEF Logged
<1>. QED
  BY <1>6 DEF Amends, Restorable, w

LEMMA DamageStep ==
  ASSUME Basic, [Next]_vars, NEW i \in DOMAIN trail, RowVerifies(trail', i)
  PROVE  RowVerifies(trail, i) \/ (Linked(trail, i) /\ Restorable(trail[i]))
<1>1. TrailOK(trail) /\ trail \in Seq(Rows) /\ RowOK(trail[i])
  BY DEF Basic, TrailOK
<1>2. i \in 1 .. Len(trail) /\ DOMAIN trail = 1 .. Len(trail) /\ Len(trail) \in Nat
  BY <1>1
<1>3. ASSUME Grows(trail, trail') PROVE Linked(trail, i)
  <2>1. i # 1 => i - 1 \in DOMAIN trail
    BY <1>2
  <2>. QED
    BY <1>3, <2>1 DEF Grows, Linked, Link, RowVerifies
<1>4. ASSUME Grows(trail, trail'), trail'[i] = trail[i] PROVE RowVerifies(trail, i)
  BY <1>3, <1>4 DEF RowVerifies
<1>5. CASE trail' = trail
  BY <1>5
<1>6. ASSUME NEW t \in Tasks, InsertRow(t) PROVE RowVerifies(trail, i)
  <2>1. Grows(trail, trail')
    BY <1>6, BasicInsert
  <2>2. trail'[i] = trail[i]
    BY <1>1, <1>2, <1>6 DEF InsertRow
  <2>. QED
    BY <1>4, <2>1, <2>2
<1>7. ASSUME NEW j \in DOMAIN trail, NEW s, NEW d, Amends(j, s, d)
      PROVE  RowVerifies(trail, i) \/ (Linked(trail, i) /\ Restorable(trail[i]))
  <2>1. /\ Grows(trail, trail')
        /\ i # j => trail'[i] = trail[i]
    BY <1>1, <1>7, UpdateGrows DEF Amends
  <2>2. CASE i = j
    BY <1>3, <1>7, <2>1, <2>2, AmendedRow
  <2>3. CASE i # j
    BY <1>4, <2>1, <2>3
  <2>. QED
    BY <2>2, <2>3
<1>. QED
  BY <1>5, <1>6, <1>7, TrailChange

-----------------------------------------------------------------------------
(* Every line of the journal has its row, and unless something failed only *)
(* the lines of rows just inserted are missing.                            *)
Journalled ==
  /\ journal \cup Unwritten \subseteq Hashes
  /\ faults = 0 => Hashes \subseteq journal \cup Unwritten

LEMMA SameHashes ==
  ASSUME Basic, NEW i \in DOMAIN trail, NEW s \in Statuses, NEW d \in {"logged", "result"},
         trail' = Updated(i, s, d)
  PROVE  Hashes' = Hashes
<1>1. DOMAIN trail' = DOMAIN trail /\ Grows(trail, trail')
  BY UpdateGrows DEF Basic
<1>. QED
  BY <1>1 DEF Hashes, Grows

LEMMA SameUnwritten ==
  ASSUME \A t \in Tasks : task'[t].pc = "append" => task[t] = task'[t],
         \A t \in Tasks : task[t].pc = "append" => task[t] = task'[t]
  PROVE  Unwritten' = Unwritten
BY DEF Unwritten

LEMMA LessUnwritten ==
  ASSUME \A t \in Tasks : task'[t].pc = "append" => task[t] = task'[t]
  PROVE  Unwritten' \subseteq Unwritten
BY DEF Unwritten

LEMMA JournalKept ==
  ASSUME Journalled, Hashes' = Hashes, journal' = journal, Unwritten' \subseteq Unwritten,
         (Unwritten' = Unwritten /\ faults' = faults) \/ faults' # 0
  PROVE  Journalled'
BY DEF Journalled

(* The steps that touch neither a row being written nor the journal. *)
LEMMA JournalIdles ==
  ASSUME Journalled, Hashes' = Hashes, journal' = journal,
         \A t \in Tasks : task'[t].pc = "append" => task[t] = task'[t],
         \/ faults' # 0
         \/ faults' = faults /\ \A t \in Tasks : task[t].pc = "append" => task[t] = task'[t]
  PROVE  Journalled'
BY JournalKept, LessUnwritten, SameUnwritten

LEMMA JournalProceeds ==
  ASSUME Basic, Journalled, NEW t \in Tasks, Proceed(t)
  PROVE  Journalled'
<1>1. CASE ReadHash(t)
  <2>1. Moved(t) /\ task'[t].pc = "insert"
    BY <1>1, BasicReadHash
  <2>2. /\ Hashes' = Hashes /\ journal' = journal /\ faults' = faults /\ task[t].pc = "hash"
    BY <1>1 DEF ReadHash, Hashes
  <2>. QED
    BY <2>1, <2>2, JournalIdles DEF Moved
<1>2. CASE InsertRow(t)
  <2>. DEFINE h == ComputeHash(task[t].entry, task[t].prev)
              row == AuditRow(task[t].entry, task[t].prev)
  <2>1. Moved(t) /\ task'[t].pc = "append" /\ task[t].pc = "insert" /\ task \in [Tasks -> TaskState]
    BY <1>2, BasicInsert DEF InsertRow, Basic
  <2>2. task'[t].entry = task[t].entry /\ task'[t].prev = task[t].prev
    BY <1>2, <2>1 DEF InsertRow, TaskState
  <2>3. Unwritten' = Unwritten \cup {h}
    BY <2>1, <2>2 DEF Unwritten, Moved
  <2>4. row.hash = h /\ trail' = Append(trail, row) /\ trail \in Seq(Rows)
        /\ journal' = journal /\ faults' = faults
    BY <1>2 DEF InsertRow, AuditRow, Basic, TrailOK
  <2>. HIDE DEF h, row
  <2>5. /\ DOMAIN trail' = DOMAIN trail \cup {Len(trail) + 1}
        /\ \A i \in DOMAIN trail : trail'[i] = trail[i]
        /\ trail'[Len(trail) + 1] = row
    BY <2>4
  <2>6. Hashes' = Hashes \cup {h}
    BY <2>4, <2>5 DEF Hashes
  <2>. QED
    BY <2>3, <2>4, <2>6 DEF Journalled
<1>3. CASE AppendJsonl(t)
  <2>. DEFINE h == ComputeHash(task[t].entry, task[t].prev)
  <2>1. Moved(t) /\ task'[t].pc # "append" /\ task[t].pc = "append"
    BY <1>3, BasicAppend, NoInsert DEF AppendJsonl
  <2>2. journal' = journal \cup {h} /\ Hashes' = Hashes /\ faults' = faults
    BY <1>3 DEF AppendJsonl, Hashes
  <2>3. h \in Unwritten /\ Unwritten' \subseteq Unwritten /\ Unwritten \subseteq Unwritten' \cup {h}
    BY <2>1 DEF Unwritten, Moved
  <2>. QED
    BY <2>2, <2>3 DEF Journalled
<1>4. CASE LogRaises(t) \/ CreateOrder(t) \/ CreateRaises(t)
  <2>1. Moved(t) /\ task'[t].pc # "append"
    BY <1>4, BasicLogRaises, BasicCreate, BasicCreateRaises, NoInsert
  <2>2. Hashes' = Hashes /\ journal' = journal
    BY <1>4 DEF LogRaises, CreateOrder, CreateRaises, Hashes
  <2>3. faults' # 0 \/ (faults' = faults /\ task[t].pc = "submit")
    BY <1>4, BasicLogRaises, BasicCreateRaises DEF CreateOrder
  <2>. QED
    BY <2>1, <2>2, <2>3, JournalIdles DEF Moved
<1>. QED
  BY <1>1, <1>2, <1>3, <1>4 DEF Proceed

LEMMA JournalledNext ==
  ASSUME Basic, Journalled, [Next]_vars
  PROVE  Journalled'
<1>0. task \in [Tasks -> TaskState] /\ Loop \in Tasks /\ Approvals \subseteq Tasks
  BY DEF Basic, Tasks
<1>1. ASSUME NEW c \in Contracts, StartPass(c) PROVE Journalled'
  <2>1. PICK k : task' = [task EXCEPT ![Loop] = k] /\ k.pc = "hash"
    BY <1>1, LoopStarts
  <2>2. task[Loop].pc = "idle" /\ Hashes' = Hashes /\ journal' = journal /\ faults' = faults
    BY <1>1 DEF StartPass, Hashes
  <2>. QED
    BY <1>0, <2>1, <2>2, JournalIdles
<1>2. ASSUME NEW a \in Approvals, NEW i \in DOMAIN trail, Approve(a, i) PROVE Journalled'
  <2>1. PICK k : task' = [task EXCEPT ![a] = k] /\ k.pc = "hash"
    BY <1>2, Received
  <2>2. task[a].pc = "idle" /\ journal' = journal /\ faults' = faults
    BY <1>2, Received
  <2>3. Hashes' = Hashes
    BY <1>2, Received, SameHashes DEF Statuses
  <2>. QED
    BY <1>0, <2>1, <2>2, <2>3, JournalIdles
<1>3. ASSUME NEW t \in Tasks, Proceed(t) PROVE Journalled'
  BY <1>3, JournalProceeds
<1>4. ASSUME NEW a \in Approvals, Settle(a) PROVE Journalled'
  <2>1. [IdleTask EXCEPT !.pc = "done"].pc = "done"
    BY DEF IdleTask
  <2>2. task' = [task EXCEPT ![a] = [IdleTask EXCEPT !.pc = "done"]] /\ task[a].pc = "settle"
        /\ journal' = journal /\ faults' = faults
    BY <1>4 DEF Settle, Done
  <2>3. Hashes' = Hashes
    BY <1>4, Ends, SameHashes DEF ForRow
  <2>. QED
    BY <1>0, <2>1, <2>2, <2>3, JournalIdles
<1>5. ASSUME NEW a \in Approvals, SettleRaises(a) PROVE Journalled'
  <2>1. \A t \in Tasks : task'[t] = task[t] \/ task'[t].pc \in {"lost", "settle"}
    BY <1>0, <1>5 DEF SettleRaises, Lost, IdleTask, TaskState
  <2>2. Hashes' = Hashes /\ journal' = journal /\ faults' # 0
    BY <1>5, BasicSettleRaises DEF SettleRaises, Hashes
  <2>. QED
    BY <2>1, <2>2, JournalIdles
<1>6. CASE CrashPlatform
  <2>1. \A t \in Tasks : task'[t] = task[t] \/ task'[t].pc = "idle"
    BY <1>0, <1>6 DEF CrashPlatform, IdleTask
  <2>2. Hashes' = Hashes /\ journal' = journal /\ faults' # 0
    BY <1>6, BasicCrashPlatform DEF CrashPlatform, Hashes
  <2>. QED
    BY <2>1, <2>2, JournalIdles
<1>7. CASE CrashDashboard
  <2>1. \A t \in Tasks : task'[t] = task[t] \/ task'[t] = Lost(task[t])
    BY <1>0, <1>7 DEF CrashDashboard
  <2>2. \A t \in Tasks : Lost(task[t]).pc = "lost"
    BY DEF Lost, IdleTask
  <2>3. Hashes' = Hashes /\ journal' = journal /\ faults' # 0
    BY <1>7, BasicCrashDashboard DEF CrashDashboard, Hashes
  <2>. QED
    BY <2>1, <2>2, <2>3, JournalIdles
<1>8. CASE UNCHANGED vars
  BY <1>8, JournalIdles DEF vars, Hashes
<1>. QED
  BY <1>1, <1>2, <1>3, <1>4, <1>5, <1>6, <1>7, <1>8 DEF Next

-----------------------------------------------------------------------------
(* The attempts a task has left, the completion it has yet to record, and  *)
(* the FILLED it has yet to write: each is paid for beforehand.            *)
Attempts(r) ==
  CASE r.pc = "submit" -> r.retries .. RetryLimit - 1
    [] r.pc = "append" /\ r.entry.status = "EXECUTING" -> r.retries .. RetryLimit - 1
    [] Completing(r) -> r.retries + 1 .. RetryLimit - 1
    [] OTHER -> {}
Records(r) == r.pc \in {"hash", "insert"} /\ r.entry.event = "TRADE_COMPLETED"
Fills(r) == \/ r.pc = "append" /\ r.entry.event = "TRADE_COMPLETED"
            \/ r.pc = "settle" /\ r.result = "FILLED"

AttemptsLeft(c) ==
  {p \in Tasks \X (0 .. RetryLimit) : task[p[1]].contract = c /\ p[2] \in Attempts(task[p[1]])}
ToRecord(c) == {t \in Tasks : task[t].contract = c /\ Records(task[t])}
ToFill(c) == {t \in Tasks : task[t].contract = c /\ Fills(task[t])}

Announced(c) == RowsWritten(c, "TRADE_INTENT", "EXECUTING")
Completed(c) == RowsWritten(c, "TRADE_COMPLETED", "INFO")
Filled(c) == RowsSaying(c, "FILLED")

(* Announced attempts pay for orders, orders for completions, completions  *)
(* for rows that say FILLED.                                               *)
Account(c) ==
  /\ IsFiniteSet(AttemptsLeft(c)) /\ IsFiniteSet(ToRecord(c)) /\ IsFiniteSet(ToFill(c))
  /\ orders[c] + Cardinality(AttemptsLeft(c)) <= RetryLimit * Cardinality(Announced(c))
  /\ Cardinality(Completed(c)) + Cardinality(ToRecord(c)) <= orders[c]
  /\ Cardinality(Filled(c)) + Cardinality(ToFill(c)) <= Cardinality(Completed(c))

Accounts == \A c \in Contracts : Account(c)

(* A task that is owed nothing, and a step of a task that asks no more.    *)
Even(r) == Attempts(r) = {} /\ ~Records(r) /\ ~Fills(r)

Calm(r, k) ==
  \/ Even(k)
  \/ /\ k.contract = r.contract /\ Attempts(k) \subseteq Attempts(r)
     /\ Records(k) => Records(r)
     /\ Fills(k) => Fills(r)

LEMMA EvenIs ==
  ASSUME NEW r, \/ r.pc \in {"idle", "done", "lost"}
                \/ r.pc = "settle" /\ r.result # "FILLED"
                \/ r.pc = "hash" /\ r.entry.event # "TRADE_COMPLETED"
  PROVE  Even(r)
BY DEF Even, Attempts, Completing, Logging, Records, Fills

LEMMA ReturnEven ==
  ASSUME NEW r \in TaskState, NEW x \in {"STAGED", "FAILED", "raised"}
  PROVE  Even(Return(r, x))
BY ReturnIs, IdleIs, EvenIs, SMTT(30) DEF TaskState

LEMMA AfterLogCalm ==
  ASSUME NEW r, TaskOK(r), r.pc = "append"
  PROVE  Calm(r, AfterLog(r))
<1>1. r \in TaskState /\ <<r.entry.event, r.entry.status>> \in Kinds
  BY DEF TaskOK, Logging, Logged
<1>2. CASE r.entry.event = "TRADE_INTENT" /\ r.entry.status = "EXECUTING"
  <2>. DEFINE k == [r EXCEPT !.pc = "submit"]
  <2>1. AfterLog(r) = k
    BY <1>2 DEF AfterLog
  <2>2. k.pc = "submit" /\ k.contract = r.contract /\ k.retries = r.retries
    BY <1>1 DEF TaskState
  <2>. HIDE DEF k
  <2>3. Attempts(k) = k.retries .. RetryLimit - 1 /\ ~Records(k) /\ ~Fills(k)
    BY <2>2 DEF Attempts, Completing, Logging, Records, Fills
  <2>4. Attempts(r) = r.retries .. RetryLimit - 1
    BY <1>2 DEF Attempts, Completing
  <2>. QED
    BY <2>1, <2>2, <2>3, <2>4 DEF Calm
<1>3. CASE r.entry.event = "TRADE_INTENT" /\ r.entry.status = "STAGED"
  <2>1. AfterLog(r) = Return(r, "STAGED")
    BY <1>3 DEF AfterLog
  <2>. QED
    BY <1>1, <2>1, ReturnEven DEF Calm
<1>4. CASE r.entry.event = "TRADE_COMPLETED" /\ r.entry.status = "INFO"
  <2>. DEFINE k == Return(r, "FILLED")
  <2>1. AfterLog(r) = k
    BY <1>4 DEF AfterLog
  <2>2. CASE r.row = 0
    BY <1>1, <2>1, <2>2, ReturnIs, IdleIs, EvenIs DEF Calm
  <2>3. CASE r.row # 0
    <3>1. k.pc = "settle" /\ k.contract = r.contract
      BY <1>1, <2>3, ReturnIs
    <3>. HIDE DEF k
    <3>2. Attempts(k) = {} /\ ~Records(k) /\ Fills(r)
      BY <1>4, <3>1 DEF Attempts, Completing, Logging, Records, Fills
    <3>. QED
      BY <2>1, <3>1, <3>2 DEF Calm
  <2>. QED
    BY <2>2, <2>3
<1>5. CASE <<r.entry.event, r.entry.status>> \in {<<"TRADE_FAILED", "INFO">>, <<"TRADE_INTENT", "FAILED">>}
  <2>1. AfterLog(r) = Return(r, "FAILED")
    BY <1>5 DEF AfterLog
  <2>. QED
    BY <1>1, <2>1, ReturnEven DEF Calm
<1>. QED
  BY <1>1, <1>2, <1>3, <1>4, <1>5 DEF Kinds

LEMMA FailedSpends ==
  ASSUME NEW r, TaskOK(r), Runs(r), r.retries < RetryLimit
  PROVE  LET k == FailedAttempt(r)
         IN  /\ k.contract = r.contract /\ ~Records(k) /\ ~Fills(k)
             /\ Attempts(k) \subseteq r.retries + 1 .. RetryLimit - 1
<1>. DEFINE k == FailedAttempt(r)
<1>1. r \in TaskState /\ r.contract \in Contracts
  BY DEF TaskOK, Runs
<1>2. /\ k.contract = r.contract /\ k.retries = r.retries + 1
      /\ k.pc = "submit" \/ (k.pc = "hash" /\ k.entry.event = "TRADE_FAILED")
  BY <1>1, FailedIs
<1>. HIDE DEF k
<1>. QED
  BY <1>2 DEF Attempts, Completing, Logging, Records, Fills, k

LEMMA AfterRaiseCalm ==
  ASSUME NEW r, TaskOK(r), r.pc \in Logging
  PROVE  Calm(r, AfterRaise(r))
<1>1. r \in TaskState /\ <<r.entry.event, r.entry.status>> \in Kinds /\ Runs(r)
  BY DEF TaskOK, Logging, Runs, Logged
<1>2. CASE r.entry.event = "TRADE_COMPLETED"
  <2>1. r.retries < RetryLimit
    BY <1>2 DEF TaskOK, Completing
  <2>2. Attempts(r) = r.retries + 1 .. RetryLimit - 1
    BY <1>1, <1>2 DEF Attempts, Completing, Kinds, Logging
  <2>. QED
    BY <1>1, <1>2, <2>1, <2>2, FailedSpends DEF AfterRaise, Calm
<1>3. CASE r.entry.event # "TRADE_COMPLETED"
  BY <1>1, <1>3, ReturnEven DEF AfterRaise, Calm
<1>. QED
  BY <1>2, <1>3

LEMMA ReadHashCalm ==
  ASSUME NEW r \in TaskState, NEW k \in TaskState, r.pc = "hash", k.pc = "insert",
         k.contract = r.contract, k.retries = r.retries, k.entry.event = r.entry.event
  PROVE  Calm(r, k)
BY DEF Calm, Attempts, Completing, Logging, Records, Fills

LEMMA Smaller ==
  ASSUME NEW A, NEW B, IsFiniteSet(A), B \subseteq A
  PROVE  /\ IsFiniteSet(B) /\ Cardinality(A) \in Nat /\ Cardinality(B) \in Nat
         /\ Cardinality(B) <= Cardinality(A)
BY FS_Subset, FS_CardinalityType

LEMMA OneMore ==
  ASSUME NEW A, NEW B, NEW x, IsFiniteSet(A), B \subseteq A \cup {x}
  PROVE  /\ IsFiniteSet(B) /\ Cardinality(A) \in Nat /\ Cardinality(B) \in Nat
         /\ Cardinality(B) <= Cardinality(A) + 1
<1>1. /\ IsFiniteSet(A \cup {x}) /\ Cardinality(A \cup {x}) <= Cardinality(A) + 1
      /\ Cardinality(A) \in Nat
  BY FS_AddElement, FS_CardinalityType, SMTT(30)
<1>2. /\ IsFiniteSet(B) /\ Cardinality(B) <= Cardinality(A \cup {x})
      /\ Cardinality(B) \in Nat /\ Cardinality(A \cup {x}) \in Nat
  BY <1>1, Smaller
<1>. QED
  BY <1>1, <1>2

LEMMA OneLess ==
  ASSUME NEW A, NEW B, NEW x \in A, IsFiniteSet(A), B \subseteq A \ {x}
  PROVE  /\ IsFiniteSet(B) /\ Cardinality(A) \in Nat /\ Cardinality(B) \in Nat
         /\ Cardinality(B) + 1 <= Cardinality(A)
<1>1. /\ IsFiniteSet(A \ {x}) /\ Cardinality(A \ {x}) = Cardinality(A) - 1
      /\ Cardinality(A) \in Nat
  BY FS_RemoveElement, FS_CardinalityType
<1>2. /\ IsFiniteSet(B) /\ Cardinality(B) <= Cardinality(A \ {x})
      /\ Cardinality(B) \in Nat /\ Cardinality(A \ {x}) \in Nat
  BY <1>1, Smaller
<1>. QED
  BY <1>1, <1>2

(* An intent row pays for RetryLimit attempts. *)
LEMMA IntentPays ==
  ASSUME NEW A, NEW B, NEW t, IsFiniteSet(A), B \subseteq A \cup ({t} \X (0 .. RetryLimit - 1))
  PROVE  /\ IsFiniteSet(B) /\ Cardinality(A) \in Nat /\ Cardinality(B) \in Nat
         /\ Cardinality(B) <= Cardinality(A) + RetryLimit
<1>. DEFINE New == {t} \X (0 .. RetryLimit - 1)
<1>1. IsFiniteSet(0 .. RetryLimit - 1) /\ Cardinality(0 .. RetryLimit - 1) = RetryLimit
  BY FS_Interval, RetryAssumption
<1>2. IsFiniteSet({t}) /\ Cardinality({t}) = 1
  BY FS_Singleton
<1>3. IsFiniteSet(New) /\ Cardinality(New) = RetryLimit
  <2>1. IsFiniteSet(New) /\ Cardinality(New) = 1 * Cardinality(0 .. RetryLimit - 1)
    BY <1>1, <1>2, FS_Product
  <2>. QED
    BY <1>1, <2>1, RetryAssumption
<1>. HIDE DEF New
<1>4. /\ IsFiniteSet(A \cup New) /\ Cardinality(A) \in Nat /\ Cardinality(A \cap New) \in Nat
      /\ Cardinality(A \cup New) = Cardinality(A) + RetryLimit - Cardinality(A \cap New)
  BY <1>3, FS_Union, FS_CardinalityType, FS_Subset
<1>5. /\ IsFiniteSet(B) /\ Cardinality(B) <= Cardinality(A \cup New)
      /\ Cardinality(B) \in Nat /\ Cardinality(A \cup New) \in Nat
  BY <1>4, Smaller DEF New
<1>. QED
  BY <1>4, <1>5, RetryAssumption

LEMMA FiniteRows ==
  ASSUME Basic, NEW c
  PROVE  /\ IsFiniteSet(Announced(c)) /\ IsFiniteSet(Completed(c)) /\ IsFiniteSet(Filled(c))
         /\ Cardinality(Announced(c)) \in Nat /\ Cardinality(Completed(c)) \in Nat
         /\ Cardinality(Filled(c)) \in Nat
<1>1. Len(trail) \in Nat /\ DOMAIN trail = 1 .. Len(trail)
  BY DEF Basic, TrailOK
<1>2. IsFiniteSet(DOMAIN trail)
  BY <1>1, FS_Interval
<1>3. /\ Announced(c) \subseteq DOMAIN trail /\ Completed(c) \subseteq DOMAIN trail
      /\ Filled(c) \subseteq DOMAIN trail
  BY DEF Announced, Completed, Filled, RowsWritten, RowsSaying
<1>. QED
  BY <1>2, <1>3, Smaller

(* Nobody asks for more, and no row is added. *)
LEMMA AccountKept ==
  ASSUME Basic, NEW c \in Contracts, Account(c), orders'[c] = orders[c],
         AttemptsLeft(c)' \subseteq AttemptsLeft(c), ToRecord(c)' \subseteq ToRecord(c),
         ToFill(c)' \subseteq ToFill(c),
         Announced(c)' = Announced(c), Completed(c)' = Completed(c), Filled(c)' \subseteq Filled(c)
  PROVE  Account(c)'
<1>1. /\ IsFiniteSet(AttemptsLeft(c)') /\ Cardinality(AttemptsLeft(c)') <= Cardinality(AttemptsLeft(c))
      /\ Cardinality(AttemptsLeft(c)') \in Nat /\ Cardinality(AttemptsLeft(c)) \in Nat
  BY Smaller DEF Account
<1>2. /\ IsFiniteSet(ToRecord(c)') /\ Cardinality(ToRecord(c)') <= Cardinality(ToRecord(c))
      /\ Cardinality(ToRecord(c)') \in Nat /\ Cardinality(ToRecord(c)) \in Nat
  BY Smaller DEF Account
<1>3. /\ IsFiniteSet(ToFill(c)') /\ Cardinality(ToFill(c)') <= Cardinality(ToFill(c))
      /\ Cardinality(ToFill(c)') \in Nat /\ Cardinality(ToFill(c)) \in Nat
  BY Smaller DEF Account
<1>4. /\ Cardinality(Filled(c)') <= Cardinality(Filled(c)) /\ Cardinality(Filled(c)') \in Nat
      /\ Cardinality(Filled(c)) \in Nat /\ Cardinality(Completed(c)) \in Nat
      /\ Cardinality(Announced(c)) \in Nat
  BY FiniteRows, Smaller
<1>5. orders[c] \in Nat /\ RetryLimit \in Nat
  BY RetryAssumption DEF Basic, Scalars
<1>6. /\ orders'[c] + Cardinality(AttemptsLeft(c)') <= RetryLimit * Cardinality(Announced(c))
      /\ Cardinality(Completed(c)) + Cardinality(ToRecord(c)') <= orders'[c]
      /\ Cardinality(Filled(c)') + Cardinality(ToFill(c)') <= Cardinality(Completed(c))
  <2>. DEFINE limit == RetryLimit * Cardinality(Announced(c))
  <2>1. orders[c] + Cardinality(AttemptsLeft(c)) <= limit /\ limit \in Int
    BY <1>4, <1>5 DEF Account
  <2>. HIDE DEF limit
  <2>2. orders'[c] + Cardinality(AttemptsLeft(c)') <= limit
    BY <1>1, <1>5, <2>1
  <2>3. /\ Cardinality(Completed(c)) + Cardinality(ToRecord(c)) <= orders[c]
        /\ Cardinality(Filled(c)) + Cardinality(ToFill(c)) <= Cardinality(Completed(c))
    BY DEF Account
  <2>. QED
    BY <1>2, <1>3, <1>4, <1>5, <2>2, <2>3 DEF limit
<1>. QED
  BY <1>1, <1>2, <1>3, <1>6 DEF Account

LEMMA CalmSets ==
  ASSUME NEW c \in Contracts, \A t \in Tasks : Calm(task[t], task'[t])
  PROVE  /\ AttemptsLeft(c)' \subseteq AttemptsLeft(c) /\ ToRecord(c)' \subseteq ToRecord(c)
         /\ ToFill(c)' \subseteq ToFill(c)
<1>1. AttemptsLeft(c)' \subseteq AttemptsLeft(c)
  BY DEF Calm, Even, AttemptsLeft
<1>. QED
  BY <1>1 DEF Calm, Even, ToRecord, ToFill

LEMMA SameRows ==
  ASSUME NEW c, trail' = trail
  PROVE  Announced(c)' = Announced(c) /\ Completed(c)' = Completed(c) /\ Filled(c)' = Filled(c)
BY DEF Announced, Completed, Filled, RowsWritten, RowsSaying

LEMMA CalmAccounts ==
  ASSUME Basic, Accounts, orders' = orders, trail' = trail,
         \A t \in Tasks : Calm(task[t], task'[t])
  PROVE  Accounts'
BY CalmSets, SameRows, AccountKept DEF Accounts

(* An attempt is spent: at most one order comes of it, and at most one     *)
(* completion is owed for it, and that only if there was an order.         *)
LEMMA Spent ==
  ASSUME Basic, Accounts, NEW t \in Tasks, NEW d \in {0, 1}, task[t].pc = "submit", Moved(t),
         trail' = trail, task'[t].contract = task[t].contract,
         Attempts(task'[t]) \subseteq task[t].retries + 1 .. RetryLimit - 1,
         ~Fills(task'[t]), Records(task'[t]) => d = 1,
         orders' = [orders EXCEPT ![task[t].contract] = @ + d]
  PROVE  Accounts'
<1>. SUFFICES ASSUME NEW c \in Contracts PROVE Account(c)'
  BY DEF Accounts
<1>0. /\ TaskOK(task[t]) /\ task[t].contract \in Contracts /\ task[t].retries \in 0 .. RetryLimit - 1
      /\ orders \in [Contracts -> Nat] /\ RetryLimit \in Nat \ {0}
  BY RetryAssumption DEF Basic, TaskOK, TaskState, Scalars
<1>1. Attempts(task[t]) = task[t].retries .. RetryLimit - 1
  BY DEF Attempts, Completing, Logging
<1>2. \A u \in Tasks \ {t} : task'[u] = task[u]
  BY DEF Moved
<1>3. /\ Announced(c)' = Announced(c) /\ Completed(c)' = Completed(c) /\ Filled(c)' = Filled(c)
      /\ ToFill(c)' \subseteq ToFill(c)
  BY <1>2, SameRows DEF ToFill
<1>4. CASE c # task[t].contract
  <2>1. /\ AttemptsLeft(c)' \subseteq AttemptsLeft(c) /\ ToRecord(c)' \subseteq ToRecord(c)
        /\ orders'[c] = orders[c]
    BY <1>0, <1>2, <1>4 DEF AttemptsLeft, ToRecord
  <2>. QED
    BY <1>3, <2>1, AccountKept DEF Accounts
<1>5. CASE c = task[t].contract
  <2>. DEFINE p == <<t, task[t].retries>>
  <2>1. Attempts(task'[t]) \subseteq Attempts(task[t]) \ {task[t].retries}
    BY <1>0, <1>1
  <2>2. p \in AttemptsLeft(c)
    BY <1>0, <1>1, <1>5 DEF AttemptsLeft
  <2>3. AttemptsLeft(c)' \subseteq AttemptsLeft(c) \ {p}
    BY <1>2, <1>5, <2>1 DEF AttemptsLeft
  <2>4. /\ IsFiniteSet(AttemptsLeft(c)') /\ Cardinality(AttemptsLeft(c)') + 1 <= Cardinality(AttemptsLeft(c))
        /\ Cardinality(AttemptsLeft(c)') \in Nat /\ Cardinality(AttemptsLeft(c)) \in Nat
    <3>1. IsFiniteSet(AttemptsLeft(c))
      BY DEF Accounts, Account
    <3>. HIDE DEF p
    <3>. QED
      BY <2>2, <2>3, <3>1, OneLess
  <2>5. /\ IsFiniteSet(ToRecord(c)') /\ Cardinality(ToRecord(c)') <= Cardinality(ToRecord(c)) + d
        /\ Cardinality(ToRecord(c)') \in Nat /\ Cardinality(ToRecord(c)) \in Nat
    <3>1. CASE d = 1
      <4>1. ToRecord(c)' \subseteq ToRecord(c) \cup {t}
        BY <1>2 DEF ToRecord
      <4>. QED
        BY <3>1, <4>1, OneMore DEF Accounts, Account
    <3>2. CASE d = 0
      <4>1. ToRecord(c)' \subseteq ToRecord(c)
        BY <1>2, <3>2 DEF ToRecord
      <4>. QED
        BY <3>2, <4>1, Smaller DEF Accounts, Account
    <3>. QED
      BY <3>1, <3>2
  <2>6. /\ IsFiniteSet(ToFill(c)') /\ Cardinality(ToFill(c)') <= Cardinality(ToFill(c))
        /\ Cardinality(ToFill(c)') \in Nat /\ Cardinality(ToFill(c)) \in Nat
    BY <1>3, Smaller DEF Accounts, Account
  <2>7. orders'[c] = orders[c] + d /\ orders[c] \in Nat
    BY <1>0, <1>5
  <2>8. /\ Cardinality(Announced(c)) \in Nat /\ Cardinality(Completed(c)) \in Nat
        /\ Cardinality(Filled(c)) \in Nat
    BY FiniteRows
  <2>9. /\ orders'[c] + Cardinality(AttemptsLeft(c)') <= RetryLimit * Cardinality(Announced(c))
        /\ Cardinality(Completed(c)) + Cardinality(ToRecord(c)') <= orders'[c]
        /\ Cardinality(Filled(c)) + Cardinality(ToFill(c)') <= Cardinality(Completed(c))
    <3>. DEFINE limit == RetryLimit * Cardinality(Announced(c))
    <3>1. orders[c] + Cardinality(AttemptsLeft(c)) <= limit /\ limit \in Int
      BY <1>0, <2>8 DEF Accounts, Account
    <3>. HIDE DEF limit
    <3>2. orders'[c] + Cardinality(AttemptsLeft(c)') <= limit
      BY <2>4, <2>7, <3>1
    <3>3. /\ Cardinality(Completed(c)) + Cardinality(ToRecord(c)) <= orders[c]
          /\ Cardinality(Filled(c)) + Cardinality(ToFill(c)) <= Cardinality(Completed(c))
      BY DEF Accounts, Account
    <3>. QED
      BY <2>5, <2>6, <2>7, <2>8, <3>2, <3>3 DEF limit
  <2>. QED
    BY <1>3, <2>4, <2>5, <2>6, <2>9 DEF Account
<1>. QED
  BY <1>4, <1>5

LEMMA Times == ASSUME NEW n \in Nat PROVE RetryLimit * (n + 1) = RetryLimit * n + RetryLimit
BY RetryAssumption

(* A row is written: an intent brings attempts, a completion is recorded.  *)
LEMMA InsertRows ==
  ASSUME Basic, NEW t \in Tasks, InsertRow(t), NEW c \in Contracts
  PROVE  LET e == task[t].entry
             new(event, status) == IF <<e.contract, e.event, e.status>> = <<c, event, status>>
                                     THEN {Len(trail) + 1} ELSE {}
         IN  /\ Announced(c)' = Announced(c) \cup new("TRADE_INTENT", "EXECUTING")
             /\ Completed(c)' = Completed(c) \cup new("TRADE_COMPLETED", "INFO")
             /\ Filled(c)' = Filled(c)
             /\ Len(trail) + 1 \notin Announced(c) /\ Len(trail) + 1 \notin Completed(c)
<1>. DEFINE e == task[t].entry
            row == AuditRow(e, task[t].prev)
<1>1. TaskOK(task[t]) /\ task[t].pc = "insert" /\ Logged(e) /\ task[t].prev \in Seq(Content)
  BY DEF Basic, InsertRow, TaskOK, Logging, TaskState
<1>2. WrittenAs(row) = e /\ row.content = e
  BY <1>1, AppendGrows DEF Basic, AuditRow
<1>3. <<e.event, e.status>> \in Kinds
  BY <1>1 DEF Logged
<1>4. trail' = Append(trail, row) /\ trail \in Seq(Rows)
  BY DEF InsertRow, Basic, TrailOK
<1>. HIDE DEF e, row
<1>5. /\ DOMAIN trail' = DOMAIN trail \cup {Len(trail) + 1} /\ Len(trail) + 1 \notin DOMAIN trail
      /\ \A i \in DOMAIN trail : trail'[i] = trail[i]
      /\ trail'[Len(trail) + 1] = row
  BY <1>4
<1>6. Filled(c)' = Filled(c)
  BY <1>2, <1>3, <1>5 DEF Filled, RowsSaying, Kinds
<1>7. ASSUME NEW event, NEW status
      PROVE  RowsWritten(c, event, status)' = RowsWritten(c, event, status) \cup
               (IF <<e.contract, e.event, e.status>> = <<c, event, status>>
                  THEN {Len(trail) + 1} ELSE {})
  BY <1>2, <1>5 DEF RowsWritten
<1>. QED
  BY <1>5, <1>6, <1>7, SMTT(30) DEF Announced, Completed, RowsWritten, e

LEMMA InsertAsks ==
  ASSUME Basic, NEW t \in Tasks, InsertRow(t)
  PROVE  /\ Moved(t) /\ task'[t].pc = "append" /\ task[t].pc = "insert" /\ TaskOK(task[t])
         /\ task[t].contract \in Contracts /\ task[t].entry.contract = task[t].contract
         /\ <<task[t].entry.event, task[t].entry.status>> \in Kinds
         /\ task'[t].entry = task[t].entry /\ task'[t].contract = task[t].contract
         /\ task'[t].retries = task[t].retries /\ orders' = orders
         /\ task[t].entry.event = "TRADE_INTENT" => task[t].retries = 0
<1>1. Moved(t) /\ task'[t].pc = "append" /\ TaskOK(task[t]) /\ task[t].pc = "insert"
      /\ task[t] \in TaskState /\ task \in [Tasks -> TaskState]
  BY BasicInsert DEF Basic, InsertRow
<1>2. /\ task'[t].entry = task[t].entry /\ task'[t].contract = task[t].contract
      /\ task'[t].retries = task[t].retries
  BY <1>1 DEF InsertRow, TaskState
<1>. QED
  BY <1>1, <1>2 DEF TaskOK, Logging, InsertRow, Logged

LEMMA Written ==
  ASSUME Basic, Accounts, NEW t \in Tasks, InsertRow(t)
  PROVE  Accounts'
<1>. SUFFICES ASSUME NEW c \in Contracts PROVE Account(c)'
  BY DEF Accounts
<1>. DEFINE e == task[t].entry
            n == Len(trail) + 1
<1>1. \A u \in Tasks \ {t} : task'[u] = task[u]
  BY InsertAsks DEF Moved
<1>2. Filled(c)' = Filled(c) /\ orders' = orders /\ e.contract = task[t].contract
  BY InsertRows, InsertAsks
<1>3. CASE c # task[t].contract
  <2>1. Announced(c)' = Announced(c) /\ Completed(c)' = Completed(c)
    BY <1>2, <1>3, InsertRows
  <2>2. task'[t].contract = task[t].contract
    BY InsertAsks
  <2>3. /\ AttemptsLeft(c)' \subseteq AttemptsLeft(c) /\ ToRecord(c)' \subseteq ToRecord(c)
        /\ ToFill(c)' \subseteq ToFill(c)
    BY <1>1, <1>3, <2>2 DEF AttemptsLeft, ToRecord, ToFill
  <2>. QED
    BY <1>2, <2>1, <2>3, AccountKept DEF Accounts
<1>4. CASE c = task[t].contract /\ <<e.event, e.status>> \in
             {<<"TRADE_INTENT", "STAGED">>, <<"TRADE_INTENT", "FAILED">>, <<"TRADE_FAILED", "INFO">>}
  <2>1. Announced(c)' = Announced(c) /\ Completed(c)' = Completed(c)
    BY <1>4, InsertRows
  <2>2. Even(task'[t])
    BY <1>4, InsertAsks DEF Even, Attempts, Completing, Logging, Records, Fills
  <2>3. \A u \in Tasks : Calm(task[u], task'[u])
    BY <1>1, <2>2 DEF Calm
  <2>. QED
    BY <1>2, <2>1, <2>3, AccountKept, CalmSets DEF Accounts
<1>5. CASE c = task[t].contract /\ e.event = "TRADE_INTENT" /\ e.status = "EXECUTING"
  <2>1. Announced(c)' = Announced(c) \cup {n} /\ Completed(c)' = Completed(c) /\ n \notin Announced(c)
    BY <1>2, <1>5, InsertRows
  <2>2. /\ Attempts(task'[t]) = 0 .. RetryLimit - 1 /\ ~Records(task'[t]) /\ ~Fills(task'[t])
    BY <1>5, InsertAsks DEF Attempts, Completing, Logging, Records, Fills
  <2>3. /\ AttemptsLeft(c)' \subseteq AttemptsLeft(c) \cup ({t} \X (0 .. RetryLimit - 1))
        /\ ToRecord(c)' \subseteq ToRecord(c) /\ ToFill(c)' \subseteq ToFill(c)
    BY <1>1, <2>2 DEF AttemptsLeft, ToRecord, ToFill
  <2>4. /\ IsFiniteSet(AttemptsLeft(c)')
        /\ Cardinality(AttemptsLeft(c)') <= Cardinality(AttemptsLeft(c)) + RetryLimit
        /\ Cardinality(AttemptsLeft(c)') \in Nat /\ Cardinality(AttemptsLeft(c)) \in Nat
    <3>1. IsFiniteSet(AttemptsLeft(c))
      BY DEF Accounts, Account
    <3>. QED
      BY <2>3, <3>1, IntentPays
  <2>5. /\ IsFiniteSet(ToRecord(c)') /\ Cardinality(ToRecord(c)') <= Cardinality(ToRecord(c))
        /\ Cardinality(ToRecord(c)') \in Nat /\ Cardinality(ToRecord(c)) \in Nat
    BY <2>3, Smaller DEF Accounts, Account
  <2>6. /\ IsFiniteSet(ToFill(c)') /\ Cardinality(ToFill(c)') <= Cardinality(ToFill(c))
        /\ Cardinality(ToFill(c)') \in Nat /\ Cardinality(ToFill(c)) \in Nat
    BY <2>3, Smaller DEF Accounts, Account
  <2>7. /\ Cardinality(Announced(c)) \in Nat /\ Cardinality(Completed(c)) \in Nat
        /\ Cardinality(Filled(c)) \in Nat /\ orders[c] \in Nat /\ RetryLimit \in Nat
    BY FiniteRows, RetryAssumption DEF Basic, Scalars
  <2>8. Cardinality(Announced(c)') = Cardinality(Announced(c)) + 1
    BY <2>1, FiniteRows, FS_AddElement
  <2>9. /\ orders'[c] + Cardinality(AttemptsLeft(c)') <= RetryLimit * Cardinality(Announced(c)')
        /\ Cardinality(Completed(c)) + Cardinality(ToRecord(c)') <= orders'[c]
        /\ Cardinality(Filled(c)) + Cardinality(ToFill(c)') <= Cardinality(Completed(c))
    <3>. DEFINE limit == RetryLimit * Cardinality(Announced(c))
    <3>1. orders[c] + Cardinality(AttemptsLeft(c)) <= limit /\ limit \in Int
      BY <2>7 DEF Accounts, Account
    <3>2. RetryLimit * Cardinality(Announced(c)') = limit + RetryLimit
      BY <2>7, <2>8, Times
    <3>. HIDE DEF limit
    <3>3. orders'[c] + Cardinality(AttemptsLeft(c)') <= limit + RetryLimit
      BY <1>2, <2>4, <2>7, <3>1
    <3>4. /\ Cardinality(Completed(c)) + Cardinality(ToRecord(c)) <= orders[c]
          /\ Cardinality(Filled(c)) + Cardinality(ToFill(c)) <= Cardinality(Completed(c))
      BY DEF Accounts, Account
    <3>. QED
      BY <1>2, <2>5, <2>6, <2>7, <3>2, <3>3, <3>4
  <2>. QED
    BY <1>2, <2>1, <2>4, <2>5, <2>6, <2>9 DEF Account
<1>6. CASE c = task[t].contract /\ e.event = "TRADE_COMPLETED" /\ e.status = "INFO"
  <2>1. Announced(c)' = Announced(c) /\ Completed(c)' = Completed(c) \cup {n} /\ n \notin Completed(c)
    BY <1>2, <1>6, InsertRows
  <2>2. /\ Attempts(task'[t]) = Attempts(task[t]) /\ ~Records(task'[t]) /\ Records(task[t])
    BY <1>6, InsertAsks DEF Attempts, Completing, Logging, Records
  <2>3. /\ AttemptsLeft(c)' \subseteq AttemptsLeft(c) /\ t \in ToRecord(c)
        /\ ToRecord(c)' \subseteq ToRecord(c) \ {t} /\ ToFill(c)' \subseteq ToFill(c) \cup {t}
    BY <1>1, <1>6, <2>2 DEF AttemptsLeft, ToRecord, ToFill
  <2>4. /\ IsFiniteSet(AttemptsLeft(c)')
        /\ Cardinality(AttemptsLeft(c)') <= Cardinality(AttemptsLeft(c))
        /\ Cardinality(AttemptsLeft(c)') \in Nat /\ Cardinality(AttemptsLeft(c)) \in Nat
    BY <2>3, Smaller DEF Accounts, Account
  <2>5. /\ IsFiniteSet(ToRecord(c)') /\ Cardinality(ToRecord(c)') + 1 <= Cardinality(ToRecord(c))
        /\ Cardinality(ToRecord(c)') \in Nat /\ Cardinality(ToRecord(c)) \in Nat
    BY <2>3, OneLess DEF Accounts, Account
  <2>6. /\ IsFiniteSet(ToFill(c)') /\ Cardinality(ToFill(c)') <= Cardinality(ToFill(c)) + 1
        /\ Cardinality(ToFill(c)') \in Nat /\ Cardinality(ToFill(c)) \in Nat
    BY <2>3, OneMore DEF Accounts, Account
  <2>7. /\ Cardinality(Announced(c)) \in Nat /\ Cardinality(Completed(c)) \in Nat
        /\ Cardinality(Filled(c)) \in Nat /\ orders[c] \in Nat /\ RetryLimit \in Nat
    BY FiniteRows, RetryAssumption DEF Basic, Scalars
  <2>8. Cardinality(Completed(c)') = Cardinality(Completed(c)) + 1
    BY <2>1, FiniteRows, FS_AddElement
  <2>9. /\ orders'[c] + Cardinality(AttemptsLeft(c)') <= RetryLimit * Cardinality(Announced(c))
        /\ Cardinality(Completed(c)') + Cardinality(ToRecord(c)') <= orders'[c]
        /\ Cardinality(Filled(c)) + Cardinality(ToFill(c)') <= Cardinality(Completed(c)')
    <3>. DEFINE limit == RetryLimit * Cardinality(Announced(c))
    <3>1. orders[c] + Cardinality(AttemptsLeft(c)) <= limit /\ limit \in Int
      BY <2>7 DEF Accounts, Account
    <3>. HIDE DEF limit
    <3>3. orders'[c] + Cardinality(AttemptsLeft(c)') <= limit
      BY <1>2, <2>4, <2>7, <3>1
    <3>4. /\ Cardinality(Completed(c)) + Cardinality(ToRecord(c)) <= orders[c]
          /\ Cardinality(Filled(c)) + Cardinality(ToFill(c)) <= Cardinality(Completed(c))
      BY DEF Accounts, Account
    <3>. QED
      BY <1>2, <2>5, <2>6, <2>7, <2>8, <3>3, <3>4 DEF limit
  <2>. QED
    BY <1>2, <2>1, <2>4, <2>5, <2>6, <2>9 DEF Account
<1>. QED
  BY <1>3, <1>4, <1>5, <1>6, InsertAsks DEF Kinds

LEMMA UpdateRows ==
  ASSUME Basic, NEW i \in DOMAIN trail, NEW s \in Statuses, NEW d \in {"logged", "result"}, NEW c,
         trail' = Updated(i, s, d)
  PROVE  /\ Announced(c)' = Announced(c) /\ Completed(c)' = Completed(c)
         /\ Filled(c)' \subseteq Filled(c) \cup
              (IF s = "FILLED" /\ trail[i].content.contract = c THEN {i} ELSE {})
<1>1. /\ Grows(trail, trail') /\ DOMAIN trail' = DOMAIN trail
      /\ \A j \in DOMAIN trail : j # i => trail'[j] = trail[j]
      /\ trail'[i].content.status = s
  BY UpdateGrows DEF Basic
<1>2. \A j \in DOMAIN trail : /\ WrittenAs(trail'[j]) = WrittenAs(trail[j])
                              /\ trail'[j].content.contract = trail[j].content.contract
  BY <1>1 DEF Grows, WrittenAs
<1>3. Announced(c)' = Announced(c) /\ Completed(c)' = Completed(c)
  BY <1>1, <1>2 DEF Announced, Completed, RowsWritten
<1>. QED
  BY <1>1, <1>2, <1>3 DEF Filled, RowsSaying

(* The FILLED of a row was owed. *)
LEMMA Settled ==
  ASSUME Basic, Accounts, NEW a \in Approvals, Settle(a)
  PROVE  Accounts'
<1>. DEFINE i == task[a].row
            s == IF task[a].result = "FILLED" THEN "FILLED" ELSE "FAILED"
<1>1. a \in Tasks /\ i \in DOMAIN trail /\ trail[i].content.contract = task[a].contract
      /\ task[a].pc = "settle" /\ task \in [Tasks -> TaskState]
  BY DEF Tasks, Basic, Settle, ApprovalOK, ForRow
<1>2. trail' = Updated(i, s, Details(task[a])) /\ s \in Statuses /\ orders' = orders
      /\ Details(task[a]) \in {"logged", "result"}
  BY Ends
<1>3. /\ \A u \in Tasks \ {a} : task'[u] = task[u]
      /\ task'[a] = [IdleTask EXCEPT !.pc = "done"]
  BY <1>1 DEF Settle, Done
<1>4. Even(task'[a]) /\ \A u \in Tasks : Calm(task[u], task'[u])
  <2>1. [IdleTask EXCEPT !.pc = "done"].pc = "done"
    BY DEF IdleTask
  <2>. QED
    BY <1>3, <2>1, EvenIs DEF Calm
<1>. SUFFICES ASSUME NEW c \in Contracts PROVE Account(c)'
  BY DEF Accounts
<1>5. /\ Announced(c)' = Announced(c) /\ Completed(c)' = Completed(c)
      /\ Filled(c)' \subseteq Filled(c) \cup
           (IF s = "FILLED" /\ trail[i].content.contract = c THEN {i} ELSE {})
  BY <1>1, <1>2, UpdateRows
<1>6. /\ AttemptsLeft(c)' \subseteq AttemptsLeft(c) /\ ToRecord(c)' \subseteq ToRecord(c)
      /\ ToFill(c)' \subseteq ToFill(c)
  BY <1>4, CalmSets
<1>7. CASE Filled(c)' \subseteq Filled(c)
  BY <1>2, <1>5, <1>6, <1>7, AccountKept DEF Accounts
<1>8. CASE s = "FILLED" /\ task[a].contract = c
  <2>1. a \in ToFill(c) /\ ToFill(c)' \subseteq ToFill(c) \ {a}
    BY <1>1, <1>3, <1>4, <1>6, <1>8 DEF ToFill, Fills, Even
  <2>2. Filled(c)' \subseteq Filled(c) \cup {i}
    BY <1>5
  <2>3. /\ IsFiniteSet(ToFill(c)') /\ Cardinality(ToFill(c)') + 1 <= Cardinality(ToFill(c))
        /\ Cardinality(ToFill(c)') \in Nat /\ Cardinality(ToFill(c)) \in Nat
    BY <2>1, OneLess, ZenonT(30) DEF Accounts, Account
  <2>4. /\ Cardinality(Filled(c)') <= Cardinality(Filled(c)) + 1
        /\ Cardinality(Filled(c)') \in Nat /\ Cardinality(Filled(c)) \in Nat
        /\ Cardinality(Completed(c)) \in Nat
    BY <2>2, FiniteRows, OneMore
  <2>5. Cardinality(Filled(c)') + Cardinality(ToFill(c)') <= Cardinality(Completed(c))
    <3>1. Cardinality(Filled(c)) + Cardinality(ToFill(c)) <= Cardinality(Completed(c))
      BY DEF Accounts, Account
    <3>. QED
      BY <2>3, <2>4, <3>1
  <2>6. /\ IsFiniteSet(AttemptsLeft(c)')
        /\ Cardinality(AttemptsLeft(c)') <= Cardinality(AttemptsLeft(c))
        /\ Cardinality(AttemptsLeft(c)') \in Nat /\ Cardinality(AttemptsLeft(c)) \in Nat
    BY <1>6, Smaller DEF Accounts, Account
  <2>7. /\ IsFiniteSet(ToRecord(c)') /\ Cardinality(ToRecord(c)') <= Cardinality(ToRecord(c))
        /\ Cardinality(ToRecord(c)') \in Nat /\ Cardinality(ToRecord(c)) \in Nat
    BY <1>6, Smaller DEF Accounts, Account
  <2>8. /\ orders[c] \in Nat /\ RetryLimit \in Nat /\ Cardinality(Announced(c)) \in Nat
    BY FiniteRows, RetryAssumption DEF Basic, Scalars
  <2>9. /\ orders'[c] + Cardinality(AttemptsLeft(c)') <= RetryLimit * Cardinality(Announced(c))
        /\ Cardinality(Completed(c)) + Cardinality(ToRecord(c)') <= orders'[c]
    <3>. DEFINE limit == RetryLimit * Cardinality(Announced(c))
    <3>1. orders[c] + Cardinality(AttemptsLeft(c)) <= limit /\ limit \in Int
      BY <2>8 DEF Accounts, Account
    <3>. HIDE DEF limit
    <3>2. orders'[c] + Cardinality(AttemptsLeft(c)') <= limit
      BY <1>2, <2>6, <2>8, <3>1
    <3>3. Cardinality(Completed(c)) + Cardinality(ToRecord(c)) <= orders[c]
      BY DEF Accounts, Account
    <3>. QED
      BY <1>2, <2>4, <2>7, <2>8, <3>2, <3>3 DEF limit
  <2>. QED
    BY <1>5, <2>3, <2>5, <2>6, <2>7, <2>9 DEF Account
<1>. QED
  BY <1>1, <1>5, <1>7, <1>8

LEMMA AccountsProceed ==
  ASSUME Basic, Accounts, NEW t \in Tasks, Proceed(t)
  PROVE  Accounts'
<1>. DEFINE r == task[t]
<1>0. TaskOK(r) /\ r \in TaskState /\ task \in [Tasks -> TaskState] /\ orders \in [Contracts -> Nat]
  BY DEF Basic, TaskOK, Scalars
<1>1. ASSUME Moved(t), Calm(task[t], task'[t]), orders' = orders, trail' = trail PROVE Accounts'
  <2>1. \A u \in Tasks : Calm(u, u) /\ Calm(task[u], task[u])
    BY DEF Calm
  <2>2. \A u \in Tasks : Calm(task[u], task'[u])
    BY <1>1, <2>1 DEF Moved
  <2>. QED
    BY <1>1, <2>2, CalmAccounts
<1>2. CASE ReadHash(t)
  <2>1. Basic'
    BY <1>2, BasicReadHash
  <2>2. task'[t] \in TaskState /\ r.pc = "hash" /\ orders' = orders /\ trail' = trail
    BY <1>2, <2>1 DEF Basic, ReadHash
  <2>. QED
    BY <1>0, <1>1, <1>2, <2>2, BasicReadHash, ReadHashCalm
<1>3. CASE InsertRow(t)
  BY <1>3, Written
<1>4. CASE AppendJsonl(t)
  <2>1. task'[t] = AfterLog(r) /\ r.pc = "append" /\ orders' = orders /\ trail' = trail
    BY <1>0, <1>4 DEF AppendJsonl
  <2>. QED
    BY <1>0, <1>1, <1>4, <2>1, BasicAppend, AfterLogCalm
<1>5. CASE LogRaises(t)
  <2>1. task'[t] = AfterRaise(r) /\ r.pc \in Logging /\ orders' = orders /\ trail' = trail
    BY <1>0, <1>5 DEF LogRaises, Logging
  <2>. QED
    BY <1>0, <1>1, <1>5, <2>1, BasicLogRaises, AfterRaiseCalm
<1>6. CASE CreateOrder(t)
  <2>. DEFINE k == LogEntry(r, "TRADE_COMPLETED", "INFO")
  <2>1. r.contract \in Contracts /\ r.pc = "submit"
    BY <1>0, <1>6 DEF CreateOrder, TaskOK
  <2>2. k.pc = "hash" /\ k.entry.event = "TRADE_COMPLETED" /\ k.contract = r.contract
        /\ k.retries = r.retries /\ k.entry.status = "INFO"
    BY <1>0, <2>1, LogEntryIs DEF Events, Statuses
  <2>3. task'[t] = k /\ trail' = trail /\ orders' = [orders EXCEPT ![r.contract] = @ + 1]
    BY <1>0, <1>6 DEF CreateOrder, Accepts
  <2>. HIDE DEF k
  <2>4. Attempts(k) = r.retries + 1 .. RetryLimit - 1 /\ ~Fills(k)
    BY <2>2 DEF Attempts, Completing, Logging, Fills
  <2>5. Moved(t)
    BY <1>6, BasicCreate
  <2>. QED
    BY <2>1, <2>2, <2>3, <2>4, <2>5, Spent
<1>7. CASE CreateRaises(t)
  <2>. DEFINE k == FailedAttempt(r)
  <2>1. r.contract \in Contracts /\ r.pc = "submit" /\ r.retries < RetryLimit /\ Runs(r)
    BY <1>0, <1>7 DEF CreateRaises, TaskOK, Runs
  <2>2. /\ k.contract = r.contract /\ ~Records(k) /\ ~Fills(k)
        /\ Attempts(k) \subseteq r.retries + 1 .. RetryLimit - 1
    BY <1>0, <2>1, FailedSpends
  <2>3. task'[t] = k /\ trail' = trail
    BY <1>0, <1>7 DEF CreateRaises
  <2>4. \E d \in {0, 1} : orders' = [orders EXCEPT ![r.contract] = @ + d]
    <3>1. [orders EXCEPT ![r.contract] = @ + 0] = orders
      BY <1>0, <2>1
    <3>. QED
      BY <1>7, <3>1 DEF CreateRaises, Accepts
  <2>5. Moved(t)
    BY <1>7, BasicCreateRaises
  <2>. HIDE DEF k
  <2>. QED
    BY <2>1, <2>2, <2>3, <2>4, <2>5, Spent
<1>. QED
  BY <1>2, <1>3, <1>4, <1>5, <1>6, <1>7 DEF Proceed

LEMMA AccountsNext ==
  ASSUME Basic, Accounts, [Next]_vars
  PROVE  Accounts'
<1>0. task \in [Tasks -> TaskState] /\ Loop \in Tasks /\ Approvals \subseteq Tasks
  BY DEF Basic, Tasks
<1>1. ASSUME \A t \in Tasks : task'[t] = task[t] \/ Even(task'[t]), orders' = orders, trail' = trail
      PROVE  Accounts'
  BY <1>1, CalmAccounts DEF Calm
<1>2. ASSUME NEW c \in Contracts, StartPass(c) PROVE Accounts'
  <2>1. PICK k : /\ task' = [task EXCEPT ![Loop] = k]
                 /\ k.pc = "hash" /\ k.entry.event = "TRADE_INTENT"
    BY <1>2, LoopStarts
  <2>2. orders' = orders /\ trail' = trail
    BY <1>2 DEF StartPass
  <2>3. Even(k)
    BY <2>1, EvenIs
  <2>. QED
    BY <1>0, <1>1, <2>1, <2>2, <2>3
<1>3. ASSUME NEW a \in Approvals, NEW i \in DOMAIN trail, Approve(a, i) PROVE Accounts'
  <2>1. PICK k : /\ task' = [task EXCEPT ![a] = k]
                 /\ k.pc = "hash" /\ k.entry.event = "TRADE_INTENT"
    BY <1>3, Received
  <2>2. \A t \in Tasks : Calm(task[t], task'[t])
    BY <1>0, <2>1, EvenIs DEF Calm
  <2>3. /\ trail' = Updated(i, "EXECUTING", trail[i].content.details) /\ orders' = orders
        /\ trail[i].content.details \in {"logged", "result"} /\ "EXECUTING" \in Statuses
    BY <1>3, Received DEF Statuses
  <2>4. ASSUME NEW c \in Contracts
        PROVE  /\ Announced(c)' = Announced(c) /\ Completed(c)' = Completed(c)
               /\ Filled(c)' \subseteq Filled(c)
    BY <2>3, UpdateRows
  <2>. QED
    BY <2>2, <2>3, <2>4, CalmSets, AccountKept DEF Accounts
<1>4. ASSUME NEW t \in Tasks, Proceed(t) PROVE Accounts'
  BY <1>4, AccountsProceed
<1>5. ASSUME NEW a \in Approvals, Settle(a) PROVE Accounts'
  BY <1>5, Settled
<1>6. ASSUME NEW a \in Approvals, SettleRaises(a) PROVE Accounts'
  <2>1. orders' = orders /\ trail' = trail /\ task[a].pc = "settle"
    BY <1>6 DEF SettleRaises
  <2>2. \A t \in Tasks : task'[t] = task[t] \/ task'[t].pc = "lost"
                        \/ (task'[t].pc = "settle" /\ task'[t].result = "raised")
    BY <1>0, <1>6 DEF SettleRaises, Lost, IdleTask, TaskState
  <2>. QED
    BY <1>1, <2>1, <2>2, EvenIs
<1>7. CASE CrashPlatform
  <2>1. orders' = orders /\ trail' = trail /\ \A t \in Tasks : task'[t] = task[t] \/ task'[t].pc = "idle"
    BY <1>0, <1>7 DEF CrashPlatform, IdleTask
  <2>. QED
    BY <1>1, <2>1, EvenIs
<1>8. CASE CrashDashboard
  <2>1. orders' = orders /\ trail' = trail /\ \A t \in Tasks : task'[t] = task[t] \/ task'[t] = Lost(task[t])
    BY <1>8 DEF CrashDashboard
  <2>2. \A t \in Tasks : Lost(task[t]).pc = "lost"
    BY DEF Lost, IdleTask
  <2>. QED
    BY <1>1, <2>1, <2>2, EvenIs
<1>9. CASE UNCHANGED vars
  BY <1>1, <1>9 DEF vars
<1>. QED
  BY <1>2, <1>3, <1>4, <1>5, <1>6, <1>7, <1>8, <1>9 DEF Next

LEMMA AccountsInit == Init => Accounts
<1>. SUFFICES ASSUME Init, NEW c \in Contracts PROVE Account(c)
  BY DEF Accounts
<1>1. trail = <<>> /\ orders[c] = 0 /\ \A t \in Tasks : task[t] = IdleTask
  BY DEF Init
<1>2. Even(IdleTask)
  BY IdleIs, EvenIs
<1>3. AttemptsLeft(c) = {} /\ ToRecord(c) = {} /\ ToFill(c) = {}
  BY <1>1, <1>2 DEF AttemptsLeft, ToRecord, ToFill, Even
<1>4. Announced(c) = {} /\ Completed(c) = {} /\ Filled(c) = {}
  BY <1>1 DEF Announced, Completed, Filled, RowsWritten, RowsSaying
<1>5. IsFiniteSet({}) /\ Cardinality({}) = 0
  BY FS_EmptySet
<1>6. RetryLimit * 0 = 0
  BY RetryAssumption
<1>. QED
  BY <1>1, <1>3, <1>4, <1>5, <1>6 DEF Account

-----------------------------------------------------------------------------
IInv == Basic /\ Chained /\ Journalled /\ Accounts

LEMMA IInvHolds == Spec => []IInv
<1>1. Init => IInv
  <2>. SUFFICES ASSUME Init PROVE IInv
    OBVIOUS
  <2>1. trail = <<>> /\ journal = {} /\ \A t \in Tasks : task[t].pc = "idle"
    BY DEF Init, IdleTask
  <2>2. Loop \in Tasks
    BY DEF Tasks
  <2>3. Chained
    BY <2>1, <2>2 DEF Chained, VerifyAuditChain
  <2>4. Journalled
    BY <2>1 DEF Journalled, Hashes, Unwritten
  <2>. QED
    BY <2>3, <2>4, BasicInit, AccountsInit DEF IInv
<1>2. IInv /\ [Next]_vars => IInv'
  BY BasicNext, ChainedNext, JournalledNext, AccountsNext DEF IInv
<1>. QED
  BY <1>1, <1>2, PTL DEF Spec

(* The types of the trail, the journal and the tasks, and that a running   *)
(* approval has a row of its own (TypeOK): for any contracts, approvals    *)
(* and faults.                                                             *)
THEOREM TypeCorrect == Spec => []TypeOK
<1>1. Basic => TypeOK
  <2>. SUFFICES ASSUME Basic PROVE TypeOK
    OBVIOUS
  <2>1. trail \in Seq(Rows) /\ Scalars /\ task \in [Tasks -> TaskState] /\ task[Loop].row = 0
    BY DEF Basic, TrailOK, LoopOK
  <2>2. \A a \in Approvals : task[a].pc \notin {"idle", "done"} => task[a].row \in DOMAIN trail
    BY DEF Basic, ApprovalOK, ForRow
  <2>. QED
    BY <2>1, <2>2 DEF TypeOK, Scalars, Rows
<1>. QED
  BY <1>1, IInvHolds, PTL DEF IInv

(* The venue never holds more orders for a contract than the intent rows   *)
(* before them allow (SubmissionsAudited, for execute_order): for any      *)
(* retry limit, any number of requests and any faults.                     *)
THEOREM OrdersAnnounced == Spec => []SubmissionsAudited
<1>1. IInv => SubmissionsAudited
  <2>. SUFFICES ASSUME IInv, NEW c \in Contracts
                PROVE  orders[c] <= RetryLimit * Cardinality(Announced(c))
    BY DEF SubmissionsAudited, Announced
  <2>1. Cardinality(AttemptsLeft(c)) \in Nat /\ Cardinality(Announced(c)) \in Nat
    BY FiniteRows, FS_CardinalityType DEF IInv, Accounts, Account
  <2>2. orders[c] \in Nat /\ RetryLimit \in Nat
    BY RetryAssumption DEF IInv, Basic, Scalars
  <2>. DEFINE limit == RetryLimit * Cardinality(Announced(c))
  <2>3. limit \in Int /\ orders[c] + Cardinality(AttemptsLeft(c)) <= limit
    BY <2>1, <2>2 DEF IInv, Accounts, Account
  <2>. HIDE DEF limit
  <2>4. orders[c] <= limit
    BY <2>1, <2>2, <2>3
  <2>. QED
    BY <2>4 DEF limit
<1>. QED
  BY <1>1, IInvHolds, PTL

(* A FILLED row has a completion of its own, and a completion an order     *)
(* (FilledBacked, for approve_staged_order_db).                            *)
THEOREM FilledHasOrder == Spec => []FilledBacked
<1>1. IInv => FilledBacked
  <2>. SUFFICES ASSUME IInv, NEW c \in Contracts
                PROVE  /\ Cardinality(Completed(c)) <= orders[c]
                       /\ Cardinality(Filled(c)) <= Cardinality(Completed(c))
    BY DEF FilledBacked, Completed, Filled
  <2>1. Cardinality(Completed(c)) \in Nat /\ Cardinality(Filled(c)) \in Nat
    BY FiniteRows DEF IInv
  <2>2. Cardinality(ToRecord(c)) \in Nat /\ Cardinality(ToFill(c)) \in Nat
    BY FS_CardinalityType DEF IInv, Accounts, Account
  <2>3. orders[c] \in Nat
    BY DEF IInv, Basic, Scalars
  <2>4. /\ Cardinality(Completed(c)) + Cardinality(ToRecord(c)) <= orders[c]
        /\ Cardinality(Filled(c)) + Cardinality(ToFill(c)) <= Cardinality(Completed(c))
    BY DEF IInv, Accounts, Account
  <2>. QED
    BY <2>1, <2>2, <2>3, <2>4
<1>. QED
  BY <1>1, IInvHolds, PTL

(* The journal never has a line without its row, and without a fault lacks *)
(* only the lines being written (JournalFaithful, for AuditLogger).        *)
THEOREM JournalHolds == Spec => []JournalFaithful
<1>1. IInv => JournalFaithful
  BY DEF IInv, Journalled, JournalFaithful
<1>. QED
  BY <1>1, IInvHolds, PTL

(* The trail verifies as long as the platform is its only writer           *)
(* (SoleWriterVerifies, for verify_audit_chain).                           *)
THEOREM LoneTrailVerifies == Spec => []SoleWriterVerifies
<1>1. IInv => SoleWriterVerifies
  BY DEF IInv, Chained, SoleWriterVerifies
<1>. QED
  BY <1>1, IInvHolds, PTL

(* What is wrong with a row of the trail stays wrong, unless an approval   *)
(* may write again what was logged (DamageShows, for                       *)
(* approve_staged_order_db and verify_audit_chain): for any number of      *)
(* approvals, of any rows.                                                 *)
THEOREM DamageStays == Spec => DamageShows
<1>. DEFINE Damage == \A i \in DOMAIN trail :
                        RowVerifies(trail', i)
                          => RowVerifies(trail, i) \/ (Linked(trail, i) /\ Restorable(trail[i]))
<1>1. IInv /\ [Next]_vars => [Damage]_vars
  BY DamageStep DEF IInv
<1>. QED
  BY <1>1, IInvHolds, PTL DEF Spec, DamageShows
=============================================================================
