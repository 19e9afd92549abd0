------------------------------ MODULE Collector ------------------------------
(***************************************************************************)
(* The paid captures of odds as the always-on collector runs them.  Its    *)
(* loop starts make for one target after another and waits for it.  The    *)
(* target line_moves sends paid requests without asking QuotaBudget.  The  *)
(* target sports_consensus is a make inside a make, that runs capture      *)
(* commands, each with credits of its own, until one fails.                *)
(*                                                                         *)
(* When the loop has waited too long it kills the make it started, and     *)
(* nothing below it: the logger, or the make inside and all the captures   *)
(* it has still to run, go on beside what the loop starts next.  Other     *)
(* captures are started by hand, at any time.                              *)
(***************************************************************************)
EXTENDS QuotaBudget, Sequences

CONSTANTS
  ByHand,      \* the commands an operator starts
  Jobs,        \* how many targets the loop runs, one after another
  Recipe,      \* the commands of a job, in the order make runs them
  Lines        \* the requests of a job that take no credit

ASSUME HandAssumption ==
  /\ ByHand \subseteq Runs /\ Jobs \in Nat
  /\ Recipe \in [1 .. Jobs -> Seq(Runs \ ByHand)] /\ Lines \in [1 .. Jobs -> Nat]

VARIABLES
  launched,    \* jobs the loop has started
  waits,       \* whether it waits for the last of them
  todo,        \* the commands of a job that have not ended well, in their order
  lines,       \* its requests without a credit that are still to send
  abandoned    \* history: the jobs it stopped waiting for

daemon == <<launched, waits, todo, lines, abandoned>>
vars == <<quota, daemon>>

CInit ==
  /\ Init
  /\ launched = 0 /\ waits = FALSE /\ abandoned = {}
  /\ todo = Recipe /\ lines = Lines

Over(j) == todo[j] = <<>> /\ lines[j] = 0

-----------------------------------------------------------------------------
(* The loop. *)

Launch ==
  /\ ~waits /\ launched < Jobs
  /\ launched' = launched + 1 /\ waits' = TRUE
  /\ UNCHANGED <<quota, todo, lines, abandoned>>

(* make has ended, whatever its exit code: the cycle goes on. *)
Reap ==
  /\ waits /\ Over(launched)
  /\ waits' = FALSE
  /\ UNCHANGED <<quota, launched, todo, lines, abandoned>>

TimeOut ==
  /\ waits /\ ~Over(launched)
  /\ waits' = FALSE
  /\ abandoned' = abandoned \cup {launched}
  /\ UNCHANGED <<quota, launched, todo, lines>>

-----------------------------------------------------------------------------
(* What runs below make, for the loop or after it.                         *)

(* The logger sends a request for a sport key, or for its fallback.        *)
LineMove(j) ==
  /\ j <= launched /\ lines[j] > 0
  /\ lines' = [lines EXCEPT ![j] = @ - 1]
  /\ UNCHANGED <<quota, launched, waits, todo, abandoned>>

Capture(j) ==
  /\ j <= launched /\ todo[j] # <<>>
  /\ Start(Head(todo[j]))
  /\ UNCHANGED daemon

(* make goes on with the next command, and stops at one that failed.  What *)
(* an abandoned one prints has no reader, and it can fail for that.        *)
Proceed(j) ==
  /\ j <= launched /\ todo[j] # <<>> /\ Ended(Head(todo[j]))
  /\ \/ /\ pc[Head(todo[j])] = "done"
        /\ todo' = [todo EXCEPT ![j] = Tail(@)]
     \/ /\ pc[Head(todo[j])] = "failed" \/ j \in abandoned
        /\ todo' = [todo EXCEPT ![j] = <<>>]
  /\ UNCHANGED <<quota, launched, waits, lines, abandoned>>

Below(j) == LineMove(j) \/ Capture(j) \/ Proceed(j)

Alone ==
  \/ \E r \in Runs : (r \in ByHand /\ Start(r)) \/ Work(r) \/ Crash(r)
  \/ Midnight

CNext ==
  \/ Launch \/ Reap \/ TimeOut
  \/ \E j \in 1 .. Jobs : Below(j)
  \/ Alone /\ UNCHANGED daemon

Locking(r) == Consume(r) \/ Refuse(r) \/ Reconcile(r) \/ NoHeaders(r)

(* What was started goes on, and the kernel serves who waits for a lock.   *)
CSpec ==
  /\ CInit /\ [][CNext]_vars
  /\ \A j \in 1 .. Jobs : WF_vars(Below(j))
  /\ \A r \in Runs : WF_vars(Work(r) /\ UNCHANGED daemon)
                  /\ SF_vars(Locking(r) /\ UNCHANGED daemon)

-----------------------------------------------------------------------------
(* Properties. *)

HandStarted == \E r \in ByHand : pc[r] # "off"

(* What the captures of sports_consensus send, in cycles none of which was *)
(* abandoned or killed while it wrote, and with none started by hand,      *)
(* keeps every budget to the credit, over midnight too.  What line_moves   *)
(* sends comes on top of it, whatever the budgets are.                     *)
LoopKeepsBudgets ==
  tears = 0 /\ abandoned = {} /\ ~HandStarted =>
    /\ \A r \in Runs : Cardinality(SentBy(r)) <= MaxRun
    /\ \A d \in 1 .. Days : Cardinality(SentOn(d)) <= MaxDay
    /\ (\A r, s \in Runs \ ByHand : TrancheOf[r] = TrancheOf[s]) =>
         \A t \in Tranches : Cardinality(SentUnder(t)) <= MaxTranche

(* Whatever was started ends, the captures and all that a job has below    *)
(* it, abandoned or not: nobody keeps the lock while it waits for anything.*)
CapturesEnd ==
  <>[](/\ \A r \in Runs : pc[r] = "off" \/ Ended(r)
       /\ \A j \in 1 .. launched : Over(j))
=============================================================================
