---------------------------- MODULE TokenBucket -----------------------------
(***************************************************************************)
(* The token bucket the REST clients share between their callers, on one   *)
(* of its two paths: threads call consume_sync, tasks of an event loop     *)
(* await consume.  A bucket is used on one path (KalshiTradingClient on    *)
(* the first, the dataset loader on the second).                           *)
(*                                                                         *)
(* Time and tokens have one unit: a tick refills a unit, and a request     *)
(* costs Cost of them.  A sleep may last longer than it was asked to.      *)
(***************************************************************************)
EXTENDS Integers, Sequences, FiniteSets

CONSTANTS
  Callers,
  Burst, Cost,
  MaxTime        \* bound on the clock

ASSUME BucketAssumption == Cost \in Nat \ {0} /\ Burst \in Nat /\ Burst >= Cost
ASSUME CallersAssumption == IsFiniteSet(Callers)
ASSUME TimeAssumption == MaxTime \in Nat

VARIABLES
  path,       \* the path this bucket is used on
  tokens,     \* _tokens: negative when it is in debt
  last,       \* _last_refill, 0 before the first call
  now,        \* time.monotonic(), which is not 0
  until,      \* when the sleep of a caller ends, 0 if it does not sleep
  queue,      \* tasks at the asyncio lock; the first one holds it
  spent,      \* what the bucket let through so far
  mark        \* a moment somebody began to watch: the time, and spent then

vars == <<path, tokens, last, now, until, queue, spent, mark>>

Init ==
  /\ path \in {"sync", "async"}
  /\ tokens = Burst /\ last = 0 /\ now = 1
  /\ until = [c \in Callers |-> 0]
  /\ queue = <<>>
  /\ spent = 0
  /\ mark = [time |-> 1, spent |-> 0]

Least(a, b) == IF a <= b THEN a ELSE b

(* _refill, the first of which only sets the clock.                        *)
Refilled == IF last = 0 THEN tokens ELSE Least(Burst, tokens + (now - last))

Asleep(c) == until[c] # 0
Waiting(c) == Asleep(c) \/ \E i \in DOMAIN queue : queue[i] = c

(* Mutant: a grant does not stamp the refill.                              *)
GrantedUnstamped(balance) ==
  /\ tokens' = balance - Cost
  /\ spent' = spent + Cost
  /\ UNCHANGED last

Granted(balance) ==
  /\ tokens' = balance - Cost
  /\ spent' = spent + Cost
  /\ last' = now

(* Enough tokens: the caller goes on.  Otherwise it sleeps as long as the  *)
(* deficit takes to refill.                                                *)
TakeNow(c) ==
  /\ Refilled >= Cost
  /\ Granted(Refilled)
  /\ UNCHANGED until

(* Mutant: every deficit is waited for twice.                              *)
SleepTwice(c) ==
  /\ Refilled < Cost
  /\ tokens' = Refilled /\ last' = now
  /\ until' = [until EXCEPT ![c] = now + 2 * (Cost - Refilled)]
  /\ UNCHANGED spent

Sleep(c) ==
  /\ Refilled < Cost
  /\ tokens' = Refilled /\ last' = now
  /\ until' = [until EXCEPT ![c] = now + (Cost - Refilled)]
  /\ UNCHANGED spent

(* After the sleep a surplus is dropped and a debt is made, if need be.    *)
Wake(c) ==
  /\ Asleep(c) /\ now >= until[c]
  /\ Granted(Least(Refilled, Cost))
  /\ until' = [until EXCEPT ![c] = 0]

---------------------------------------------------------------------------
(* consume_sync releases the lock before it sleeps.                        *)
ConsumeSync(c) ==
  /\ path = "sync" /\ ~Asleep(c)
  /\ TakeNow(c) \/ Sleep(c)
  /\ UNCHANGED <<path, now, queue, mark>>

(* With wait=False a call that finds too few tokens raises.                *)
RateLimitExceeded(c) ==
  /\ path = "sync" /\ ~Asleep(c)
  /\ Refilled < Cost
  /\ tokens' = Refilled /\ last' = now
  /\ UNCHANGED <<path, now, until, queue, spent, mark>>

WakeSync(c) ==
  /\ path = "sync" /\ Wake(c)
  /\ UNCHANGED <<path, now, queue, mark>>

(* consume holds the lock of the event loop, first come first served,      *)
(* while it sleeps.                                                        *)
Acquire(c) ==
  /\ path = "async" /\ ~Waiting(c)
  /\ queue' = Append(queue, c)
  /\ UNCHANGED <<path, tokens, last, now, until, spent, mark>>

(* Mutant: the lock is not waited for.                                     *)
HoldsNoLock(c) == Waiting(c)

HoldsLock(c) == queue # <<>> /\ Head(queue) = c

Consume(c) ==
  /\ path = "async" /\ HoldsLock(c) /\ ~Asleep(c)
  /\ \/ TakeNow(c) /\ queue' = Tail(queue)
     \/ Sleep(c) /\ UNCHANGED queue
  /\ UNCHANGED <<path, now, mark>>

WakeAsync(c) ==
  /\ path = "async" /\ HoldsLock(c) /\ Wake(c)
  /\ queue' = Tail(queue)
  /\ UNCHANGED <<path, now, mark>>

(* The task is cancelled at the lock or in its sleep, and leaves the queue.*)
CancelTask(c) ==
  /\ path = "async"
  /\ \E i \in DOMAIN queue :
       /\ queue[i] = c
       /\ queue' = [j \in 1 .. Len(queue) - 1 |-> queue[IF j < i THEN j ELSE j + 1]]
  /\ until' = [until EXCEPT ![c] = 0]
  /\ UNCHANGED <<path, tokens, last, now, spent, mark>>

Tick ==
  /\ now < MaxTime
  /\ now' = now + 1
  /\ UNCHANGED <<path, tokens, last, until, queue, spent, mark>>

(* Somebody begins to watch.                                               *)
Watch ==
  /\ mark' = [time |-> now, spent |-> spent]
  /\ UNCHANGED <<path, tokens, last, now, until, queue, spent>>

Call(c) ==
  \/ ConsumeSync(c) \/ RateLimitExceeded(c) \/ WakeSync(c)
  \/ Acquire(c) \/ Consume(c) \/ WakeAsync(c) \/ CancelTask(c)

Next == (\E c \in Callers : Call(c)) \/ Tick \/ Watch

Spec == Init /\ [][Next]_vars

---------------------------------------------------------------------------
(* Types of the variables; the bucket never holds more than a burst.       *)
TypeOK ==
  /\ path \in {"sync", "async"}
  /\ tokens \in Int /\ tokens <= Burst
  /\ now \in Nat \ {0} /\ last \in 0 .. now
  /\ until \in [Callers -> Nat]
  /\ queue \in Seq(Callers)
  /\ spent \in Nat
  /\ mark \in [time: 1 .. now, spent: 0 .. spent]

(* What passes in a window of time, whenever it begins.                    *)
Passed == spent - mark.spent
Allowed == Burst + (now - mark.time)

(* Tasks that await consume keep the rate in every window: at most a burst *)
(* and what was refilled meanwhile, though the wake-ups come late and      *)
(* waiters are cancelled.                                                  *)
AsyncKeepsRate == path = "async" => Passed <= Allowed

(* Threads in consume_sync overtake each other between the two holds of    *)
(* the lock, and each of them is let through after its sleep whatever is   *)
(* in the bucket: all but one of them can come on top, and no more, since  *)
(* the debt is paid before the next one passes.                            *)
SyncOvershoot ==
  path = "sync" => Passed <= Allowed + (Cardinality(Callers) - 1) * Cost

(* The debt does not build up: nobody is told to sleep longer than it      *)
(* takes to refill one request per caller.                                 *)
SleepBounded ==
  \A c \in Callers : Asleep(c) => until[c] - now <= Cardinality(Callers) * Cost
=============================================================================
