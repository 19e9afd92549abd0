----------------------------- MODULE QuotaBudget -----------------------------
(***************************************************************************)
(* The credit budget of the paid odds provider.  A command that captures   *)
(* the consensus takes a credit from a ledger file before each request it  *)
(* sends, under an exclusive lock of the file, and the ledger refuses what *)
(* would exceed the budget of the run, of the UTC day or of the tranche.   *)
(* (Not every command that pays does so: see Collector.)                   *)
(*                                                                         *)
(* The ledger keeps one day, one tranche and one run: to consume under     *)
(* another one starts its count again.  It is rewritten in place, and what *)
(* cannot be parsed counts as nothing used.                                *)
(***************************************************************************)
EXTENDS Integers, FiniteSets

CONSTANTS
  Runs,                        \* capture commands, each with a run id of its own
  Tranches, TrancheOf,         \* the tranche a command is started under
  Requests,                    \* sport keys each command asks for
  Tolerant,                    \* the commands that go on with the next one after an error
  MaxRun, MaxDay, MaxTranche,  \* the budgets
  Days,                        \* bound on the days
  MaxCrashes,                  \* bound on commands that die
  None

ASSUME RunAssumption ==
  /\ TrancheOf \in [Runs -> Tranches] /\ Requests \in [Runs -> Nat] /\ Tolerant \subseteq Runs
  /\ None \notin Runs \cup Tranches
ASSUME BudgetAssumption ==
  /\ {MaxRun, MaxDay, MaxTranche, MaxCrashes} \subseteq Nat
  /\ Days \in Nat \ {0}

VARIABLES
  today,
  ledger,     \* the file: what was used of which run, day and tranche
  lock,       \* the command that holds the lock, or None
  pc,         \* where a command is
  stamp,      \* day_utc of its request, read before the lock is taken
  text,       \* the ledger it is about to write
  left,       \* its requests still to send
  sent,       \* history: the requests sent, each <<command, number, day of its stamp>>
  crashes,
  tears,      \* history: ledgers lost by a command that died while it wrote
  late,       \* history: credits taken with the stamp of a day that was over
  turns       \* history: credits taken under another run, or tranche, than the last

quota == <<today, ledger, lock, pc, stamp, text, left, sent, crashes, tears, late, turns>>

-----------------------------------------------------------------------------
(* The ledger. *)

Blank == [day |-> 0, dayUsed |-> 0, tranche |-> None, trancheUsed |-> 0, run |-> None, runUsed |-> 0]

RunUsed(r) == IF ledger.run = r THEN ledger.runUsed ELSE 0
DayUsed(d) == IF ledger.day = d THEN ledger.dayUsed ELSE 0
TrancheUsed(t) == IF ledger.tranche = t THEN ledger.trancheUsed ELSE 0

(* Mutants: the credit asked for is not counted; no budget of a run. *)
CheckBefore(r) ==
  /\ RunUsed(r) <= MaxRun /\ DayUsed(stamp[r]) <= MaxDay
  /\ TrancheUsed(TrancheOf[r]) <= MaxTranche
CheckDayAndTranche(r) ==
  /\ DayUsed(stamp[r]) + 1 <= MaxDay
  /\ TrancheUsed(TrancheOf[r]) + 1 <= MaxTranche
Check(r) ==
  /\ RunUsed(r) + 1 <= MaxRun
  /\ DayUsed(stamp[r]) + 1 <= MaxDay
  /\ TrancheUsed(TrancheOf[r]) + 1 <= MaxTranche

Persisted(r) ==
  [day |-> stamp[r], dayUsed |-> DayUsed(stamp[r]) + 1,
   tranche |-> TrancheOf[r], trancheUsed |-> TrancheUsed(TrancheOf[r]) + 1,
   run |-> r, runUsed |-> RunUsed(r) + 1]

-----------------------------------------------------------------------------
(* A command. *)

States == {"off", "stamp", "wait", "write", "send", "answered", "rewrite", "done", "failed"}
Ended(r) == pc[r] \in {"done", "failed"}

Init ==
  /\ today = 1
  /\ ledger = Blank
  /\ lock = None
  /\ pc = [r \in Runs |-> "off"]
  /\ stamp = [r \in Runs |-> 0]
  /\ text = [r \in Runs |-> Blank]
  /\ left = Requests
  /\ sent = {}
  /\ crashes = 0 /\ tears = 0 /\ late = 0
  /\ turns = [run |-> 0, tranche |-> 0]

history == <<crashes, tears, late, turns>>

Start(r) ==
  /\ pc[r] = "off"
  /\ pc' = [pc EXCEPT ![r] = IF left[r] = 0 THEN "done" ELSE "stamp"]
  /\ UNCHANGED <<today, ledger, lock, stamp, text, left, sent, history>>

ReadClock(r) ==
  /\ pc[r] = "stamp"
  /\ stamp' = [stamp EXCEPT ![r] = today]
  /\ pc' = [pc EXCEPT ![r] = "wait"]
  /\ UNCHANGED <<today, ledger, lock, text, left, sent, history>>

(* The file is truncated before the new ledger is written. *)
Truncate(r, new) ==
  /\ lock = None
  /\ lock' = r
  /\ ledger' = Blank
  /\ text' = [text EXCEPT ![r] = new]

Write(r) ==
  /\ ledger' = text[r]
  /\ text' = [text EXCEPT ![r] = Blank]
  /\ lock' = None

Turn(last, own) == IF last \in {None, own} THEN 0 ELSE 1

Consume(r) ==
  /\ pc[r] = "wait" /\ Check(r)
  /\ Truncate(r, Persisted(r))
  /\ late' = IF stamp[r] < today THEN late + 1 ELSE late
  /\ turns' = [run |-> turns.run + Turn(ledger.run, r),
               tranche |-> turns.tranche + Turn(ledger.tranche, TrancheOf[r])]
  /\ pc' = [pc EXCEPT ![r] = "write"]
  /\ UNCHANGED <<today, stamp, left, sent, crashes, tears>>

(* A request that raises ends the command, with an exit code that says so, *)
(* or only the sport key it is for.                                        *)
GiveUp(r) ==
  /\ stamp' = [stamp EXCEPT ![r] = 0]
  /\ left' = [left EXCEPT ![r] = IF r \in Tolerant THEN @ - 1 ELSE 0]
  /\ pc' = [pc EXCEPT ![r] = IF r \notin Tolerant THEN "failed"
                             ELSE IF left[r] = 1 THEN "done" ELSE "stamp"]

(* Mutant: the exception that is caught leaves the file open. *)
RefuseHolds(r) ==
  /\ pc[r] = "wait" /\ lock = None /\ ~Check(r)
  /\ GiveUp(r)
  /\ lock' = IF r \in Tolerant /\ left[r] > 1 THEN r ELSE None
  /\ UNCHANGED <<today, ledger, text, sent, history>>

(* Closing the file gives the lock back. *)
Refuse(r) ==
  /\ pc[r] = "wait" /\ lock = None /\ ~Check(r)
  /\ GiveUp(r)
  /\ UNCHANGED <<today, ledger, lock, text, sent, history>>

Persist(r) ==
  /\ pc[r] = "write"
  /\ Write(r)
  /\ pc' = [pc EXCEPT ![r] = "send"]
  /\ UNCHANGED <<today, stamp, left, sent, history>>

(* The request of a command that has its credit; left counts them down.    *)
Request(r) == <<r, left[r], stamp[r]>>

(* The request is sent; no answer raises. *)
Send(r) ==
  /\ pc[r] = "send"
  /\ sent' = sent \cup {Request(r)}
  /\ \/ /\ pc' = [pc EXCEPT ![r] = "answered"]
        /\ stamp' = [stamp EXCEPT ![r] = 0] /\ left' = [left EXCEPT ![r] = @ - 1]
     \/ GiveUp(r)
  /\ UNCHANGED <<today, ledger, lock, text, history>>

NextRequest(r) == IF left[r] = 0 THEN "done" ELSE "stamp"

(* Mutant: what the provider says replaces what was counted. *)
ReconcileOnly(r) ==
  /\ pc[r] = "answered"
  /\ Truncate(r, Blank)
  /\ pc' = [pc EXCEPT ![r] = "rewrite"]
  /\ UNCHANGED <<today, stamp, left, sent, history>>

(* The counts of the provider go into the ledger, if the answer has them.  *)
Reconcile(r) ==
  /\ pc[r] = "answered"
  /\ Truncate(r, ledger)
  /\ pc' = [pc EXCEPT ![r] = "rewrite"]
  /\ UNCHANGED <<today, stamp, left, sent, history>>

NoHeaders(r) ==
  /\ pc[r] = "answered"
  /\ pc' = [pc EXCEPT ![r] = NextRequest(r)]
  /\ UNCHANGED <<today, ledger, lock, stamp, text, left, sent, history>>

Rewrite(r) ==
  /\ pc[r] = "rewrite"
  /\ Write(r)
  /\ pc' = [pc EXCEPT ![r] = NextRequest(r)]
  /\ UNCHANGED <<today, stamp, left, sent, history>>

(* A command dies, and with it its lock. *)
Crash(r) ==
  /\ pc[r] # "off" /\ ~Ended(r) /\ crashes < MaxCrashes
  /\ crashes' = crashes + 1
  /\ tears' = IF lock = r THEN tears + 1 ELSE tears
  /\ lock' = IF lock = r THEN None ELSE lock
  /\ pc' = [pc EXCEPT ![r] = "failed"]
  /\ stamp' = [stamp EXCEPT ![r] = 0]
  /\ text' = [text EXCEPT ![r] = Blank]
  /\ left' = [left EXCEPT ![r] = 0]
  /\ UNCHANGED <<today, ledger, sent, late, turns>>

Midnight ==
  /\ today < Days
  /\ today' = today + 1
  /\ UNCHANGED <<ledger, lock, pc, stamp, text, left, sent, history>>

Work(r) ==
  \/ ReadClock(r) \/ Consume(r) \/ Refuse(r) \/ Persist(r) \/ Send(r)
  \/ Reconcile(r) \/ NoHeaders(r) \/ Rewrite(r)

Next == (\E r \in Runs : Start(r) \/ Work(r) \/ Crash(r)) \/ Midnight
Spec == Init /\ [][Next]_quota

-----------------------------------------------------------------------------
(* Properties. *)

Ledgers ==
  [day : 0 .. Days, dayUsed : Nat, tranche : Tranches \cup {None}, trancheUsed : Nat,
   run : Runs \cup {None}, runUsed : Nat]

TypeOK ==
  /\ today \in 1 .. Days
  /\ ledger \in Ledgers /\ text \in [Runs -> Ledgers]
  /\ lock \in Runs \cup {None}
  /\ pc \in [Runs -> States]
  /\ stamp \in [Runs -> 0 .. Days] /\ left \in [Runs -> Nat]
  /\ sent \subseteq Runs \X Nat \X (1 .. Days) /\ IsFiniteSet(sent)
  /\ {crashes, tears, late} \subseteq Nat /\ turns \in [run : Nat, tranche : Nat]

SentBy(r) == {q \in sent : q[1] = r}
SentOn(d) == {q \in sent : q[3] = d}
SentUnder(t) == {q \in sent : TrancheOf[q[1]] = t}

(* No more is sent on a day than its budget, once more for every ledger    *)
(* that a crash empties and for every credit that is taken with the stamp  *)
(* of a day already over: two commands at midnight can forget a day.       *)
DayCap == \A d \in 1 .. Days : Cardinality(SentOn(d)) <= MaxDay * (1 + tears + late)

(* The budgets of runs and tranches hold while one run and one tranche at  *)
(* a time take credits: each turn to another can start a count again.      *)
RunCap == \A r \in Runs : Cardinality(SentBy(r)) <= MaxRun * (1 + tears + turns.run)
TrancheCap == \A t \in Tranches : Cardinality(SentUnder(t)) <= MaxTranche * (1 + tears + turns.tranche)

(* Every count that QuotaBudget.consume loses forgives one budget, and no  *)
(* more than one, to the requests that take a credit.                      *)
BudgetsHold == DayCap /\ RunCap /\ TrancheCap
=============================================================================
