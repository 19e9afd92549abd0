--------------------------- MODULE SharingProofs ----------------------------
(***************************************************************************)
(* Theorems about what several callers or commands of the live stack       *)
(* share.  First the token bucket of a REST client (TokenBucket): what     *)
(* passes it in a window of time on either of its paths, and how long a    *)
(* caller is told to sleep, for every rate, burst and set of callers.      *)
(* Then the state file of the live engine (LiveOverlap): what a row claims *)
(* and which rows are kept, for any number of commands.                    *)
(***************************************************************************)
EXTENDS TokenBucket, LiveOverlap, FiniteSetTheorems, TLAPS

Types ==
  /\ path \in {"sync", "async"}
  /\ tokens \in Int /\ tokens <= Burst
  /\ now \in Nat \ {0} /\ last \in Nat /\ last <= now
  /\ until \in [Callers -> Nat]
  /\ queue \in Seq(Callers)
  /\ spent \in Nat
  /\ mark.time \in Nat \ {0} /\ mark.spent \in Nat
  /\ mark.time <= now /\ mark.spent <= spent
  /\ mark = [time |-> mark.time, spent |-> mark.spent]

(* What passed in the window and what is in the bucket came from the burst *)
(* the window began with, or was refilled in it.                           *)
Conserved == Passed + Refilled <= Allowed

(* Only the holder of the lock sleeps, and its sleep is long enough.       *)
SleepPays ==
  path = "async" =>
    /\ tokens >= 0
    /\ \A c \in Callers : Asleep(c) =>
         /\ HoldsLock(c)
         /\ last # 0 /\ tokens + (until[c] - last) >= Cost

RateInv == Types /\ Conserved /\ SleepPays

LEMMA LeastIs ==
  ASSUME NEW a \in Int, NEW b \in Int
  PROVE  Least(a, b) \in Int /\ Least(a, b) <= a /\ Least(a, b) <= b
         /\ (Least(a, b) = a \/ Least(a, b) = b)
BY DEF Least

LEMMA RefilledIs ==
  ASSUME Types
  PROVE  /\ Refilled \in Int /\ tokens <= Refilled /\ Refilled <= Burst
         /\ last # 0 => (Refilled = Burst \/ Refilled = tokens + (now - last))
BY BucketAssumption, LeastIs DEF Types, Refilled, Least

(* What is added to both sides of an account, or taken from one to the     *)
(* other.                                                                  *)
LEMMA Account ==
  ASSUME NEW p \in Int, NEW r \in Int, NEW a \in Int, NEW d \in Int, NEW e \in Int,
         NEW q \in Int, p + r <= a, q <= r - d + e
  PROVE  (p + d) + q <= a + e
OBVIOUS

LEMMA RateInit == Init => RateInv
BY BucketAssumption DEF Init, RateInv, Types, Conserved, SleepPays, Passed, Allowed,
   Refilled, Asleep

(* Granting no more than what is in the bucket keeps the account.          *)
LEMMA GrantKeeps ==
  ASSUME Types, Conserved, NEW b \in Int, b <= Refilled, Granted(b),
         UNCHANGED <<now, mark>>
  PROVE  /\ tokens' \in Int /\ tokens' <= Burst /\ tokens' = b - Cost
         /\ last' = now /\ spent' \in Nat /\ mark.spent <= spent'
         /\ Conserved'
<1>1. tokens' = b - Cost /\ spent' = spent + Cost /\ last' = now /\ now' = now /\ mark' = mark
  BY DEF Granted
<1>2. Refilled \in Int /\ Refilled <= Burst
  BY RefilledIs
<1>3. Refilled' <= tokens' /\ Refilled' \in Int
  BY <1>1, BucketAssumption DEF Types, Refilled, Least
<1>4. /\ Passed' = Passed + Cost /\ Allowed' = Allowed
      /\ Passed \in Int /\ Allowed \in Int /\ Cost \in Int
  BY <1>1, BucketAssumption DEF Types, Passed, Allowed
<1>5. Passed + Refilled <= Allowed
  BY DEF Conserved
<1>6. Refilled' <= Refilled - Cost + 0
  BY <1>1, <1>2, <1>3, <1>4
<1>7. 0 \in Int
  OBVIOUS
<1>8. (Passed + Cost) + Refilled' <= Allowed + 0
  BY <1>2, <1>3, <1>4, <1>5, <1>6, <1>7, Account, Zenon
<1>9. Allowed + 0 = Allowed
  BY <1>4
<1>10. Passed' + Refilled' <= Allowed'
  BY <1>4, <1>8, <1>9, Zenon
<1> QED
  BY <1>1, <1>2, <1>10, BucketAssumption DEF Types, Conserved

(* Stamping the refill without a grant changes nothing in the account.     *)
LEMMA StampKeeps ==
  ASSUME Types, Conserved, tokens' = Refilled, last' = now,
         UNCHANGED <<now, spent, mark>>
  PROVE  /\ tokens' \in Int /\ tokens' <= Burst /\ last' = now
         /\ Conserved'
<1>1. Refilled \in Int /\ Refilled <= Burst
  BY RefilledIs
<1>2. Refilled' = Refilled
  BY <1>1, BucketAssumption DEF Types, Refilled, Least
<1> QED
  BY <1>1, <1>2, BucketAssumption DEF Types, Conserved, Passed, Allowed

LEMMA ConsumeSyncKeeps ==
  ASSUME RateInv, NEW c \in Callers, ConsumeSync(c) \/ RateLimitExceeded(c) \/ WakeSync(c)
  PROVE  RateInv'
<1>1. path = "sync" /\ UNCHANGED <<path, now, queue, mark>>
  BY DEF ConsumeSync, RateLimitExceeded, WakeSync
<1>2. Refilled \in Int
  BY RefilledIs DEF RateInv
<1>3. CASE Refilled >= Cost /\ Granted(Refilled) /\ UNCHANGED until
  BY <1>1, <1>2, <1>3, GrantKeeps DEF RateInv, Types, SleepPays
<1>4. CASE Refilled < Cost /\ tokens' = Refilled /\ last' = now /\ UNCHANGED <<spent, until>>
  BY <1>1, <1>2, <1>4, StampKeeps DEF RateInv, Types, SleepPays
<1>5. CASE Sleep(c)
  <2>1. tokens' = Refilled /\ last' = now /\ UNCHANGED spent
        /\ until' \in [Callers -> Nat]
    BY <1>2, <1>5, BucketAssumption DEF Sleep, RateInv, Types
  <2> QED
    BY <1>1, <1>2, <2>1, StampKeeps DEF RateInv, Types, SleepPays
<1>6. CASE Wake(c)
  <2>1. Least(Refilled, Cost) \in Int /\ Least(Refilled, Cost) <= Refilled
    BY <1>2, BucketAssumption, LeastIs
  <2>2. Granted(Least(Refilled, Cost)) /\ until' \in [Callers -> Nat]
    BY <1>6 DEF Wake, RateInv, Types
  <2> QED
    BY <1>1, <2>1, <2>2, GrantKeeps DEF RateInv, Types, SleepPays
<1> QED
  BY <1>3, <1>4, <1>5, <1>6 DEF ConsumeSync, RateLimitExceeded, WakeSync, TakeNow

LEMMA ConsumeKeeps ==
  ASSUME RateInv, NEW c \in Callers, Consume(c)
  PROVE  RateInv'
<1>1. path = "async" /\ HoldsLock(c) /\ ~Asleep(c) /\ UNCHANGED <<path, now, mark>>
  BY DEF Consume
<1>2. Refilled \in Int /\ tokens <= Refilled /\ tokens >= 0
  BY <1>1, RefilledIs DEF RateInv, SleepPays
<1>3. \A d \in Callers : ~Asleep(d)
  BY <1>1 DEF RateInv, SleepPays, HoldsLock
<1>4. CASE TakeNow(c) /\ queue' = Tail(queue)
  <2>1. Refilled >= Cost /\ Granted(Refilled) /\ UNCHANGED until
    BY <1>4 DEF TakeNow
  <2>2. queue' \in Seq(Callers)
    BY <1>1, <1>4 DEF HoldsLock, RateInv, Types
  <2>3. Types' /\ Conserved'
    BY <1>1, <1>2, <2>1, <2>2, GrantKeeps DEF RateInv, Types
  <2>4. tokens' >= 0
    BY <1>1, <1>2, <2>1, GrantKeeps, BucketAssumption DEF RateInv
  <2> QED
    BY <1>3, <2>1, <2>3, <2>4 DEF RateInv, SleepPays, Asleep
<1>5. CASE Sleep(c) /\ UNCHANGED queue
  <2>1. /\ Refilled < Cost /\ tokens' = Refilled /\ last' = now /\ UNCHANGED spent
        /\ until' = [until EXCEPT ![c] = now + (Cost - Refilled)]
    BY <1>5 DEF Sleep
  <2>2. until' \in [Callers -> Nat]
    BY <1>2, <2>1, BucketAssumption DEF RateInv, Types
  <2>3. Types' /\ Conserved'
    BY <1>1, <1>2, <1>5, <2>1, <2>2, StampKeeps DEF RateInv, Types
  <2>4. ASSUME NEW d \in Callers, Asleep(d)'
        PROVE  HoldsLock(d)' /\ last' # 0 /\ tokens' + (until'[d] - last') >= Cost
    <3>1. d = c
      BY <1>3, <2>1, <2>4 DEF Asleep, RateInv, Types
    <3> QED
      BY <1>1, <1>2, <1>5, <2>1, <3>1, BucketAssumption DEF RateInv, Types, HoldsLock
  <2>5. tokens' >= 0
    BY <1>2, <2>1 DEF RateInv, Types
  <2> QED
    BY <2>3, <2>4, <2>5 DEF RateInv, SleepPays
<1> QED
  BY <1>4, <1>5 DEF Consume

LEMMA WakeAsyncKeeps ==
  ASSUME RateInv, NEW c \in Callers, WakeAsync(c)
  PROVE  RateInv'
<1>1. /\ path = "async" /\ HoldsLock(c) /\ Asleep(c) /\ now >= until[c]
      /\ UNCHANGED <<path, now, mark>>
      /\ queue' = Tail(queue) /\ until' = [until EXCEPT ![c] = 0]
      /\ Granted(Least(Refilled, Cost))
  BY DEF WakeAsync, Wake
<1>2. /\ tokens >= 0 /\ last # 0 /\ tokens + (until[c] - last) >= Cost
  BY <1>1 DEF RateInv, SleepPays
<1>3. Refilled \in Int /\ Refilled >= Cost
  BY <1>1, <1>2, RefilledIs, BucketAssumption, SMTT(30) DEF RateInv, Types
<1>4. Least(Refilled, Cost) = Cost
  BY <1>3, BucketAssumption DEF Least
<1>5. queue' \in Seq(Callers) /\ until' \in [Callers -> Nat]
  BY <1>1 DEF HoldsLock, RateInv, Types
<1>6. Types' /\ Conserved' /\ tokens' = 0
  BY <1>1, <1>3, <1>4, <1>5, GrantKeeps, BucketAssumption, SMTT(30) DEF RateInv, Types
<1>7. \A d \in Callers : ~Asleep(d)'
  BY <1>1 DEF RateInv, SleepPays, HoldsLock, Asleep, Types
<1> QED
  BY <1>6, <1>7 DEF RateInv, SleepPays

LEMMA QueueKeeps ==
  ASSUME RateInv, NEW c \in Callers, Acquire(c) \/ CancelTask(c)
  PROVE  RateInv'
<1>1. path = "async" /\ UNCHANGED <<path, tokens, last, now, spent, mark>>
  BY DEF Acquire, CancelTask
<1>2. CASE Acquire(c)
  <2>1. queue' = Append(queue, c) /\ queue' \in Seq(Callers) /\ UNCHANGED until
    BY <1>2 DEF Acquire, RateInv, Types
  <2>2. ASSUME NEW d \in Callers, HoldsLock(d)
        PROVE  HoldsLock(d)'
    <3>1. queue \in Seq(Callers) /\ Len(queue) > 0 /\ queue[1] = d
      BY <2>2 DEF HoldsLock, RateInv, Types
    <3>2. Len(queue') = Len(queue) + 1 /\ queue'[1] = d
      BY <2>1, <3>1
    <3> QED
      BY <2>1, <3>1, <3>2 DEF HoldsLock
  <2> QED
    BY <1>1, <2>1, <2>2 DEF RateInv, Types, Conserved, Passed, Allowed, Refilled, Least,
       SleepPays, Asleep
<1>3. CASE CancelTask(c)
  <2>1. PICK i \in DOMAIN queue :
          /\ queue[i] = c
          /\ queue' = [j \in 1 .. Len(queue) - 1 |-> queue[IF j < i THEN j ELSE j + 1]]
    BY <1>3 DEF CancelTask
  <2>2. until' = [until EXCEPT ![c] = 0]
    BY <1>3 DEF CancelTask
  <2>3. queue' \in Seq(Callers) /\ Len(queue') = Len(queue) - 1
    BY <2>1, SMTT(30) DEF RateInv, Types
  <2>4. ASSUME NEW d \in Callers, d # c, HoldsLock(d)
        PROVE  HoldsLock(d)'
    <3>1. queue[1] = d /\ i # 1 /\ Len(queue) > 1
      BY <2>1, <2>4 DEF HoldsLock, RateInv, Types
    <3>2. 1 \in 1 .. Len(queue) - 1 /\ 1 < i
      BY <2>1, <3>1 DEF RateInv, Types
    <3>3. queue'[1] = queue[IF 1 < i THEN 1 ELSE 2]
      BY <2>1, <3>2
    <3>4. queue'[1] = d
      BY <3>1, <3>2, <3>3
    <3>5. Len(queue') > 0
      BY <2>1, <2>3, <3>1 DEF RateInv, Types
    <3> QED
      BY <2>3, <3>4, <3>5 DEF HoldsLock
  <2>5. \A d \in Callers : Asleep(d)' => Asleep(d) /\ d # c /\ until'[d] = until[d]
    BY <2>2 DEF Asleep, RateInv, Types
  <2>6. Types' /\ Conserved'
    BY <1>1, <2>2, <2>3 DEF RateInv, Types, Conserved, Passed, Allowed, Refilled, Least
  <2> QED
    BY <1>1, <2>4, <2>5, <2>6 DEF RateInv, SleepPays
<1> QED
  BY <1>2, <1>3

(* The clock refills a unit per tick, and a new window begins with at most *)
(* a burst.                                                                *)
LEMMA ClockKeeps ==
  ASSUME RateInv, Tick \/ Watch
  PROVE  RateInv'
<1>1. Refilled \in Int /\ Refilled <= Burst
  BY RefilledIs DEF RateInv
<1>2. CASE Tick
  <2>1. now' = now + 1 /\ UNCHANGED <<path, tokens, last, until, queue, spent, mark>>
    BY <1>2 DEF Tick
  <2>2. Refilled' <= Refilled + 1 /\ Refilled' \in Int
    BY <2>1, BucketAssumption, SMTT(30) DEF RateInv, Types, Refilled, Least
  <2>3. Types'
    BY <2>1 DEF RateInv, Types
  <2>4. /\ Passed' = Passed /\ Allowed' = Allowed + 1
        /\ Passed \in Int /\ Allowed \in Int
    BY <2>1, BucketAssumption DEF RateInv, Types, Passed, Allowed
  <2>5. Refilled' <= Refilled - 0 + 1
    BY <1>1, <2>2
  <2>6. 0 \in Int /\ 1 \in Int /\ Passed + Refilled <= Allowed
    BY DEF RateInv, Conserved
  <2>7. (Passed + 0) + Refilled' <= Allowed + 1
    BY <1>1, <2>2, <2>4, <2>5, <2>6, Account, Zenon
  <2>8. Passed + 0 = Passed
    BY <2>4
  <2>9. Conserved'
    BY <2>4, <2>7, <2>8, Zenon DEF Conserved
  <2> QED
    BY <2>1, <2>3, <2>9 DEF RateInv, SleepPays, Asleep, HoldsLock
<1>3. CASE Watch
  <2>1. mark' = [time |-> now, spent |-> spent]
        /\ UNCHANGED <<path, tokens, last, now, until, queue, spent>>
    BY <1>3 DEF Watch
  <2>2. Refilled' = Refilled
    BY <2>1 DEF Refilled, Least
  <2>3. mark'.time = now /\ mark'.spent = spent
    BY <2>1
  <2>4. Passed' = 0 /\ Allowed' = Burst
    BY <2>1, <2>3, BucketAssumption DEF RateInv, Types, Passed, Allowed
  <2>5. Conserved'
    BY <1>1, <2>2, <2>4, BucketAssumption DEF Conserved
  <2>6. Types'
    BY <2>1, <2>3 DEF RateInv, Types
  <2> QED
    BY <2>1, <2>5, <2>6 DEF RateInv, SleepPays, Asleep, HoldsLock
<1> QED
  BY <1>2, <1>3

LEMMA RateNext == RateInv /\ [Next]_vars => RateInv'
<1> SUFFICES ASSUME RateInv, [Next]_vars
             PROVE  RateInv'
  OBVIOUS
<1>1. CASE \E c \in Callers : Call(c)
  BY <1>1, ConsumeSyncKeeps, ConsumeKeeps, WakeAsyncKeeps, QueueKeeps DEF Call
<1>2. CASE Tick \/ Watch
  BY <1>2, ClockKeeps
<1>3. CASE UNCHANGED vars
  BY <1>3 DEF vars, RateInv, Types, Conserved, Passed, Allowed, Refilled, Least, SleepPays,
     Asleep, HoldsLock
<1> QED
  BY <1>1, <1>2, <1>3 DEF Next

LEMMA RateInvariant == Spec => []RateInv
BY RateInit, RateNext, PTL DEF Spec

(* The types of the bucket (TokenBucket in resilience.py): it never holds  *)
(* more than a burst.                                                      *)
THEOREM TypeCorrect == Spec => []TypeOK
<1>1. RateInv => TypeOK
  BY DEF RateInv, Types, TypeOK
<1> QED
  BY <1>1, RateInvariant, PTL

(* consume keeps the rate in every window of time, however late sleepers   *)
(* wake and whoever is cancelled.                                          *)
THEOREM AsyncRate == Spec => []AsyncKeepsRate
<1>1. RateInv => AsyncKeepsRate
  <2> SUFFICES ASSUME RateInv, path = "async" PROVE Passed <= Allowed
    BY DEF AsyncKeepsRate
  <2>1. Refilled >= 0 /\ Refilled \in Int
    BY RefilledIs DEF RateInv, SleepPays, Types
  <2> QED
    BY <2>1, BucketAssumption DEF RateInv, Types, Conserved, Passed, Allowed
<1> QED
  BY <1>1, RateInvariant, PTL

-----------------------------------------------------------------------------
(* The debt of the synchronous path. *)

Sleepers == {c \in Callers : Asleep(c)}

(* What the bucket has to hold once the sleepers of a set may wake, if     *)
(* every other caller has been let through meanwhile.                      *)
Needs(S) == Cost * (Cardinality(S) + 1 - Cardinality(Callers))

(* When all of a set of sleepers may wake, no more than one request of     *)
(* every caller outside the set is missing from what they sleep for.       *)
DebtPaid ==
  path = "sync" =>
    \A S \in SUBSET Sleepers : \A m \in Nat :
      (\A c \in S : until[c] - now <= m) => Refilled + m >= Needs(S)

Fresh == last = 0 => tokens = Burst

DebtInv == RateInv /\ DebtPaid /\ Fresh /\ SleepBounded

LEMMA CostTimes ==
  ASSUME NEW k \in Int
  PROVE  /\ Cost * k \in Int /\ Cost * (k + 1) = Cost * k + Cost
         /\ k <= 0 => Cost * k <= 0
         /\ Cost - Cost * (1 - k) = k * Cost
         /\ Cost * (1 - k) = 0 - (k - 1) * Cost
         /\ k >= 1 => Cost <= k * Cost
BY BucketAssumption

LEMMA NeedsIs ==
  ASSUME NEW S \in SUBSET Callers
  PROVE  /\ Needs(S) \in Int /\ Needs(S) <= Cost
         /\ \A c \in Callers \ S : Needs(S) <= 0 /\ Needs(S \cup {c}) = Needs(S) + Cost
<1>. DEFINE N == Cardinality(Callers)
            k == Cardinality(S) - N
<1>1. N \in Nat /\ Cardinality(S) \in Nat /\ Cardinality(S) <= N /\ IsFiniteSet(S)
  BY CallersAssumption, FS_Subset, FS_CardinalityType
<1>2. k \in Int /\ k <= 0 /\ Cardinality(S) + 1 - N = k + 1
  BY <1>1
<1>3. Needs(S) = Cost * (k + 1)
  BY <1>2 DEF Needs
<1>4. Needs(S) \in Int /\ Needs(S) <= Cost
  <2>. HIDE DEF k
  <2>. QED
    BY <1>2, <1>3, CostTimes, BucketAssumption
<1>5. ASSUME NEW c \in Callers \ S
      PROVE  Needs(S) <= 0 /\ Needs(S \cup {c}) = Needs(S) + Cost
  <2>1. Cardinality(S \cup {c}) = Cardinality(S) + 1 /\ Cardinality(S \cup {c}) <= N
    BY <1>1, <1>5, CallersAssumption, FS_AddElement, FS_Subset
  <2>2. k + 1 \in Int /\ k + 1 <= 0 /\ Cardinality(S \cup {c}) + 1 - N = (k + 1) + 1
    BY <1>1, <1>2, <2>1
  <2>3. Needs(S \cup {c}) = Cost * ((k + 1) + 1)
    BY <2>2 DEF Needs
  <2>. HIDE DEF k
  <2>. QED
    BY <1>3, <2>2, <2>3, CostTimes
<1>. QED
  BY <1>4, <1>5

(* A caller that is told to sleep is so for one request per caller.        *)
LEMMA SleepIsShort ==
  ASSUME DebtInv, NEW c \in Callers
  PROVE  Cost - Refilled <= Cardinality(Callers) * Cost
<1>. DEFINE N == Cardinality(Callers)
<1>1. N \in Nat /\ N >= 1
  <2>1. Cardinality(Callers) # 0 /\ Cardinality(Callers) \in Nat
    BY CallersAssumption, FS_EmptySet, FS_CardinalityType
  <2>. QED
    BY <2>1
<1>. HIDE DEF N
<1>2. Refilled \in Int /\ Cost \in Nat
  BY RefilledIs, BucketAssumption DEF DebtInv, RateInv
<1>3. CASE path = "sync"
  <2>1. {} \in SUBSET Sleepers /\ 0 \in Nat /\ Cardinality({}) = 0
    BY FS_EmptySet
  <2>2. Refilled + 0 >= Needs({})
    BY <1>3, <2>1 DEF DebtInv, DebtPaid
  <2>3. Needs({}) = Cost * (1 - N)
    BY <1>1, <2>1 DEF Needs, N
  <2>. QED
    BY <1>1, <1>2, <2>2, <2>3, CostTimes DEF N
<1>4. CASE path = "async"
  <2>1. Refilled >= 0
    BY <1>2, <1>4, RefilledIs DEF DebtInv, RateInv, SleepPays, Types
  <2>2. Cost <= N * Cost
    BY <1>1, CostTimes
  <2>. QED
    BY <1>1, <1>2, <2>1, <2>2, CostTimes DEF N
<1>. QED
  BY <1>3, <1>4 DEF DebtInv, RateInv, Types

(* A stamped balance is what the bucket has in that moment.                *)
LEMMA StampedIs ==
  ASSUME Types, NEW b \in Int, b <= Burst, tokens' = b, last' = now, now' = now
  PROVE  Refilled' = b /\ Fresh'
BY BucketAssumption DEF Types, Refilled, Least, Fresh

LEMMA DebtInit == Init => DebtInv
<1> SUFFICES ASSUME Init PROVE DebtInv
  OBVIOUS
<1>1. \A c \in Callers : ~Asleep(c)
  BY DEF Init, Asleep
<1>2. RateInv /\ Fresh /\ SleepBounded
  BY <1>1, RateInit DEF Init, Fresh, SleepBounded
<1>3. Sleepers = {} /\ Refilled = Burst
  BY <1>1 DEF Sleepers, Init, Refilled
<1>4. Needs({}) \in Int /\ Needs({}) <= Cost
  BY NeedsIs
<1>5. DebtPaid
  BY <1>3, <1>4, BucketAssumption DEF DebtPaid
<1> QED
  BY <1>2, <1>5 DEF DebtInv

(* A grant to a caller that does not sleep, and a stamp without a grant.   *)
LEMMA AwakeKeepsDebt ==
  ASSUME DebtInv, NEW c \in Callers, ~Asleep(c), UNCHANGED <<path, now, until>>,
         path = "sync",
         \/ Refilled >= Cost /\ Granted(Refilled)
         \/ tokens' = Refilled /\ last' = now
  PROVE  DebtPaid' /\ Fresh' /\ SleepBounded'
<1>1. Types /\ Refilled \in Int /\ Refilled <= Burst /\ Cost \in Nat
  BY RefilledIs, BucketAssumption DEF DebtInv, RateInv
<1>2. SleepBounded' /\ Sleepers' = Sleepers
  BY DEF DebtInv, SleepBounded, Asleep, Sleepers
<1>3. CASE Refilled >= Cost /\ Granted(Refilled)
  <2>1. Refilled - Cost \in Int /\ Refilled - Cost <= Burst /\ tokens' = Refilled - Cost
        /\ last' = now
    BY <1>1, <1>3, BucketAssumption DEF Granted
  <2>2. Refilled' = Refilled - Cost /\ Fresh'
    BY <1>1, <2>1, StampedIs
  <2>3. ASSUME NEW S \in SUBSET Sleepers, NEW m \in Nat
        PROVE  Refilled' + m >= Needs(S)
    <3>1. S \in SUBSET Callers /\ c \in Callers \ S
      BY DEF Sleepers
    <3>2. Needs(S) \in Int /\ Needs(S) <= 0
      BY <3>1, NeedsIs
    <3> QED
      BY <1>1, <1>3, <2>2, <3>2
  <2>4. DebtPaid'
    BY <1>2, <2>3 DEF DebtPaid, Needs
  <2> QED
    BY <1>2, <2>2, <2>4
<1>4. CASE tokens' = Refilled /\ last' = now
  <2>1. Refilled' = Refilled /\ Fresh'
    BY <1>1, <1>4, StampedIs
  <2>2. DebtPaid'
    BY <1>2, <2>1 DEF DebtInv, DebtPaid, Needs
  <2> QED
    BY <1>2, <2>1, <2>2
<1> QED
  BY <1>3, <1>4

(* A caller lies down for what is missing.                                 *)
LEMMA SleepKeepsDebt ==
  ASSUME DebtInv, NEW c \in Callers, ~Asleep(c), UNCHANGED <<path, now>>, Sleep(c)
  PROVE  DebtPaid' /\ Fresh' /\ SleepBounded'
<1>1. Types /\ Refilled \in Int /\ Refilled <= Burst /\ Cost \in Nat /\ now \in Nat
  BY RefilledIs, BucketAssumption DEF DebtInv, RateInv, Types
<1>2. /\ Refilled < Cost /\ tokens' = Refilled /\ last' = now
      /\ until' = [until EXCEPT ![c] = now + (Cost - Refilled)]
      /\ until \in [Callers -> Nat]
  BY DEF Sleep, DebtInv, RateInv, Types
<1>3. Refilled' = Refilled /\ Fresh'
  BY <1>1, <1>2, StampedIs
<1>4. \A d \in Callers : d # c => until'[d] = until[d]
  BY <1>2
<1>5. until'[c] = now + (Cost - Refilled)
  BY <1>2
<1>6. SleepBounded'
  <2>1. Cost - Refilled <= Cardinality(Callers) * Cost
    BY SleepIsShort
  <2>2. \A d \in Callers : d # c /\ Asleep(d)' =>
          until'[d] - now' <= Cardinality(Callers) * Cost
    BY <1>4 DEF DebtInv, SleepBounded, Asleep
  <2>3. until'[c] - now' <= Cardinality(Callers) * Cost
    <3>1. until'[c] - now' = Cost - Refilled
      BY <1>1, <1>5
    <3> QED
      BY <2>1, <3>1
  <2> QED
    BY <2>2, <2>3 DEF SleepBounded
<1>7. ASSUME path = "sync", NEW S \in SUBSET Sleepers', NEW m \in Nat,
             \A d \in S : until'[d] - now' <= m
      PROVE  Refilled' + m >= Needs(S)
  <2>1. S \in SUBSET Callers
    BY DEF Sleepers
  <2>2. Needs(S) \in Int /\ Needs(S) <= Cost
    BY <2>1, NeedsIs
  <2>3. CASE c \in S
    <3>1. Cost - Refilled <= m
      BY <1>1, <1>5, <1>7, <2>3
    <3> QED
      BY <1>1, <1>3, <2>2, <3>1
  <2>4. CASE c \notin S
    <3>1. S \in SUBSET Sleepers /\ \A d \in S : until[d] - now <= m
      BY <1>4, <1>7, <2>1, <2>4 DEF Sleepers, Asleep
    <3> QED
      BY <1>3, <1>7, <3>1 DEF DebtInv, DebtPaid
  <2> QED
    BY <2>3, <2>4
<1>8. DebtPaid'
  BY <1>7 DEF DebtPaid, Needs
<1> QED
  BY <1>3, <1>6, <1>8

(* A sleeper goes on, with what it slept for or on debt.                   *)
LEMMA WakeKeepsDebt ==
  ASSUME DebtInv, NEW c \in Callers, UNCHANGED <<path, now>>, Wake(c)
  PROVE  DebtPaid' /\ Fresh' /\ SleepBounded'
<1>1. Types /\ Refilled \in Int /\ Refilled <= Burst /\ Cost \in Nat /\ now \in Nat
  BY RefilledIs, BucketAssumption DEF DebtInv, RateInv, Types
<1>2. /\ Asleep(c) /\ now >= until[c] /\ Granted(Least(Refilled, Cost))
      /\ until' = [until EXCEPT ![c] = 0]
      /\ until \in [Callers -> Nat]
  BY DEF Wake, DebtInv, RateInv, Types
<1>3. \A d \in Callers : Asleep(d)' => d # c /\ Asleep(d) /\ until'[d] = until[d]
  BY <1>2 DEF Asleep
<1>4. SleepBounded'
  BY <1>3 DEF DebtInv, SleepBounded
<1>. DEFINE b == Least(Refilled, Cost) - Cost
<1>5. /\ Least(Refilled, Cost) \in Int /\ Least(Refilled, Cost) <= Refilled
      /\ Least(Refilled, Cost) = Refilled \/ Least(Refilled, Cost) = Cost
  BY <1>1, LeastIs
<1>6. b \in Int /\ b <= Burst /\ tokens' = b /\ last' = now
      /\ (b = 0 \/ b = Refilled - Cost)
  BY <1>1, <1>2, <1>5, BucketAssumption DEF Granted
<1>. HIDE DEF b
<1>7. Refilled' = b /\ Fresh'
  BY <1>1, <1>6, StampedIs
<1>8. ASSUME path = "sync", NEW S \in SUBSET Sleepers', NEW m \in Nat,
             \A d \in S : until'[d] - now' <= m
      PROVE  Refilled' + m >= Needs(S)
  <2>1. S \in SUBSET Callers /\ c \in Callers \ S /\ S \cup {c} \in SUBSET Sleepers
    BY <1>2, <1>3 DEF Sleepers
  <2>2. /\ Needs(S) \in Int /\ Needs(S) <= 0
        /\ Needs(S \cup {c}) = Needs(S) + Cost
    BY <2>1, NeedsIs
  <2>3. \A d \in S \cup {c} : until[d] - now <= m
    <3>1. until[c] \in Nat /\ until[c] - now <= m
      BY <1>1, <1>2
    <3>2. \A d \in S : until[d] - now <= m
      BY <1>3, <1>8 DEF Sleepers
    <3> QED
      BY <3>1, <3>2
  <2>4. Refilled + m >= Needs(S) + Cost
    BY <1>8, <2>1, <2>2, <2>3 DEF DebtInv, DebtPaid
  <2> QED
    BY <1>1, <1>6, <1>7, <2>2, <2>4
<1>9. DebtPaid'
  BY <1>8 DEF DebtPaid, Needs
<1> QED
  BY <1>4, <1>7, <1>9

(* A tick pays a unit of what is missing, unless the bucket is full.       *)
LEMMA TickKeepsDebt ==
  ASSUME DebtInv, Tick
  PROVE  DebtPaid' /\ Fresh' /\ SleepBounded'
<1>1. /\ now' = now + 1 /\ UNCHANGED <<path, tokens, last, until>>
      /\ Types /\ Refilled \in Int /\ Refilled <= Burst /\ Cost \in Nat /\ now \in Nat
  BY RefilledIs, BucketAssumption DEF Tick, DebtInv, RateInv, Types
<1>2. Fresh' /\ Sleepers' = Sleepers /\ until \in [Callers -> Nat]
  BY <1>1 DEF DebtInv, Fresh, Sleepers, Asleep, Types
<1>3. SleepBounded'
  <2>1. ASSUME NEW d \in Callers, Asleep(d)
        PROVE  until[d] - now' <= Cardinality(Callers) * Cost
    <3>1. until[d] - now <= Cardinality(Callers) * Cost
      BY <2>1 DEF DebtInv, SleepBounded
    <3>2. Cardinality(Callers) * Cost \in Int
      BY <1>1, CallersAssumption, FS_CardinalityType
    <3>3. until[d] - now' <= until[d] - now /\ until[d] - now' \in Int /\ until[d] - now \in Int
      BY <1>1, <1>2
    <3>. DEFINE bound == Cardinality(Callers) * Cost
    <3>. HIDE DEF bound
    <3> QED
      BY <3>1, <3>2, <3>3 DEF bound
  <2> QED
    BY <1>1, <2>1 DEF SleepBounded, Asleep
<1>4. Refilled' = Burst \/ Refilled' = Refilled + 1
  BY <1>1, BucketAssumption DEF DebtInv, Fresh, Types, Refilled, Least
<1>5. ASSUME path = "sync", NEW S \in SUBSET Sleepers, NEW m \in Nat,
             \A d \in S : until[d] - now' <= m
      PROVE  Refilled' + m >= Needs(S)
  <2>1. S \in SUBSET Callers
    BY DEF Sleepers
  <2>2. Needs(S) \in Int /\ Needs(S) <= Cost
    BY <2>1, NeedsIs
  <2>3. CASE Refilled' = Burst
    BY <2>2, <2>3, BucketAssumption
  <2>4. CASE Refilled' = Refilled + 1
    <3>1. m + 1 \in Nat /\ \A d \in S : until[d] - now <= m + 1
      BY <1>1, <1>2, <1>5, <2>1
    <3>2. Refilled + (m + 1) >= Needs(S)
      BY <1>5, <3>1 DEF DebtInv, DebtPaid
    <3> QED
      BY <1>1, <2>2, <2>4, <3>2
  <2> QED
    BY <1>4, <2>3, <2>4
<1>6. DebtPaid'
  BY <1>1, <1>2, <1>5 DEF DebtPaid, Needs
<1> QED
  BY <1>2, <1>3, <1>6

LEMMA SameSleeps ==
  ASSUME SleepBounded, now' = now,
         \A d \in Callers : Asleep(d)' => Asleep(d) /\ until'[d] = until[d]
  PROVE  SleepBounded'
BY DEF SleepBounded

(* On the path of the event loop there is no debt to pay.                  *)
LEMMA AsyncKeepsDebt ==
  ASSUME DebtInv, NEW c \in Callers,
         Acquire(c) \/ Consume(c) \/ WakeAsync(c) \/ CancelTask(c)
  PROVE  DebtPaid' /\ Fresh' /\ SleepBounded'
<1>1. path = "async" /\ UNCHANGED <<path, now>>
  BY DEF Acquire, Consume, WakeAsync, CancelTask
<1>2. DebtPaid'
  BY <1>1 DEF DebtPaid
<1>3. CASE Acquire(c)
  <2>1. UNCHANGED <<tokens, last, until>>
    BY <1>3 DEF Acquire
  <2>2. Fresh'
    BY <2>1 DEF DebtInv, Fresh
  <2>3. SleepBounded'
    BY <1>1, <2>1, SameSleeps DEF DebtInv, Asleep
  <2> QED
    BY <1>2, <2>2, <2>3
<1>4. CASE CancelTask(c)
  <2>1. /\ until' = [until EXCEPT ![c] = 0] /\ until \in [Callers -> Nat]
        /\ UNCHANGED <<tokens, last>>
    BY <1>4 DEF CancelTask, DebtInv, RateInv, Types
  <2>2. \A d \in Callers : Asleep(d)' => Asleep(d) /\ until'[d] = until[d]
    BY <2>1 DEF Asleep
  <2>3. Fresh'
    BY <2>1 DEF DebtInv, Fresh
  <2>4. SleepBounded'
    BY <1>1, <2>2, SameSleeps DEF DebtInv
  <2> QED
    BY <1>2, <2>3, <2>4
<1>5. CASE Consume(c)
  <2>1. ~Asleep(c)
    BY <1>5 DEF Consume
  <2>2. CASE Sleep(c)
    BY <1>1, <2>1, <2>2, SleepKeepsDebt
  <2>3. CASE TakeNow(c)
    <3>1. last' = now /\ UNCHANGED until /\ now \in Nat \ {0}
      BY <2>3 DEF TakeNow, Granted, DebtInv, RateInv, Types
    <3>2. Fresh'
      BY <3>1 DEF Fresh
    <3>3. SleepBounded'
      BY <1>1, <3>1, SameSleeps DEF DebtInv, Asleep
    <3> QED
      BY <1>2, <3>2, <3>3
  <2> QED
    BY <1>2, <1>5, <2>2, <2>3 DEF Consume
<1>6. CASE WakeAsync(c)
  BY <1>1, <1>6, WakeKeepsDebt DEF WakeAsync
<1> QED
  BY <1>2, <1>3, <1>4, <1>5, <1>6

LEMMA DebtNext == DebtInv /\ [Next]_vars => DebtInv'
<1> SUFFICES ASSUME DebtInv, [Next]_vars
             PROVE  DebtPaid' /\ Fresh' /\ SleepBounded'
  BY RateNext DEF DebtInv
<1>1. ASSUME NEW c \in Callers, ConsumeSync(c)
      PROVE  DebtPaid' /\ Fresh' /\ SleepBounded'
  <2>1. path = "sync" /\ ~Asleep(c) /\ UNCHANGED <<path, now>>
    BY <1>1 DEF ConsumeSync
  <2>2. CASE TakeNow(c)
    BY <2>1, <2>2, AwakeKeepsDebt DEF TakeNow
  <2>3. CASE Sleep(c)
    BY <2>1, <2>3, SleepKeepsDebt
  <2> QED
    BY <1>1, <2>2, <2>3 DEF ConsumeSync
<1>2. ASSUME NEW c \in Callers, RateLimitExceeded(c)
      PROVE  DebtPaid' /\ Fresh' /\ SleepBounded'
  BY <1>2, AwakeKeepsDebt DEF RateLimitExceeded
<1>3. ASSUME NEW c \in Callers, WakeSync(c)
      PROVE  DebtPaid' /\ Fresh' /\ SleepBounded'
  BY <1>3, WakeKeepsDebt DEF WakeSync
<1>4. CASE \E c \in Callers : Call(c)
  BY <1>1, <1>2, <1>3, <1>4, AsyncKeepsDebt DEF Call
<1>5. CASE Tick
  BY <1>5, TickKeepsDebt
<1>6. CASE Watch \/ UNCHANGED vars
  BY <1>6 DEF Watch, vars, DebtInv, DebtPaid, Fresh, SleepBounded, Sleepers, Asleep,
     Refilled, Least, Needs
<1> QED
  BY <1>4, <1>5, <1>6 DEF Next

LEMMA DebtInvariant == Spec => []DebtInv
BY DebtInit, DebtNext, PTL DEF Spec

(* Threads in consume_sync go over the rate by one request for all of them *)
(* but one, in every window of time, however they overtake each other.     *)
THEOREM SyncBound == Spec => []SyncOvershoot
<1>1. DebtInv => SyncOvershoot
  <2> SUFFICES ASSUME DebtInv, path = "sync"
               PROVE  Passed <= Allowed + (Cardinality(Callers) - 1) * Cost
    BY DEF SyncOvershoot
  <2>1. {} \in SUBSET Sleepers /\ 0 \in Nat /\ Cardinality({}) = 0
    BY FS_EmptySet
  <2>2. Refilled + 0 >= Needs({})
    BY <2>1 DEF DebtInv, DebtPaid
  <2>. DEFINE N == Cardinality(Callers)
  <2>3. N \in Nat /\ Needs({}) = Cost * (1 - N)
    BY <2>1, CallersAssumption, FS_CardinalityType DEF Needs
  <2>. HIDE DEF N
  <2>. DEFINE over == (N - 1) * Cost
  <2>4. N - 1 \in Int /\ over \in Int /\ Needs({}) = 0 - over
    BY <2>3, CostTimes, BucketAssumption
  <2>. HIDE DEF over
  <2>5. Passed \in Int /\ Allowed \in Int /\ Refilled \in Int /\ Passed + Refilled <= Allowed
    BY RefilledIs, BucketAssumption, SMTT(30) DEF DebtInv, RateInv, Conserved, Passed, Allowed, Types
  <2>6. Passed <= Allowed + over
    BY <2>2, <2>4, <2>5
  <2> QED
    BY <2>6 DEF over, N
<1> QED
  BY <1>1, DebtInvariant, PTL

(* Nobody is told to sleep for longer than one request per caller takes to *)
(* refill, on either path: the debt does not build up.                     *)
THEOREM SleepsShort == Spec => []SleepBounded
<1>1. DebtInv => SleepBounded
  BY DEF DebtInv
<1> QED
  BY <1>1, DebtInvariant, PTL

-----------------------------------------------------------------------------
(* The state file.                                                         *)
Job == SUBSET [id : Orders, row : Row]
SharedLocals ==
  [pc : {"idle", "ask", "submit", "create", "load", "truncate", "write"},
   mode : {"trade", "reconcile"}, todo : SUBSET Orders, batch : SUBSET Orders,
   jobs : Seq(Job), then : {"idle", "ask", "submit", "create"},
   copy : [Orders -> Row], view : {"fresh", "stale", "mixed"}]
SharedTypes ==
  /\ file \in [Orders -> Row]
  /\ exch \in [Orders -> [status : {"none", "resting", "executed", "canceled"},
                          filled : 0 .. Count]]
  /\ proc \in [Processes -> SharedLocals]

(* Rows a command has loaded or is about to write.                         *)
HeldSound == \A id \in Orders : exch[id].filled = Count => exch[id].status = "executed"
CopiesBehind ==
  \A p \in Processes, id \in Orders : Behind(proc[p].copy[id], exch[id])
JobBehind(job) == \A u \in job : Behind(u.row, exch[u.id])
JobBehindOf(job, e) == \A u \in job : Behind(u.row, e[u.id])
JobsBehind ==
  \A p \in Processes : \A i \in 1 .. Len(proc[p].jobs) : JobBehind(proc[p].jobs[i])
(* What a reconciliation has still to ask about was accepted once.         *)
Asking(k) == k.pc = "ask" \/ (k.pc \in {"load", "truncate", "write"} /\ k.then = "ask")
TodoAccepted(k) == Asking(k) => \A id \in k.todo : exch[id].status # "none"
Writing(k) == k.pc \in {"load", "truncate", "write"}
HasJob == \A p \in Processes : Writing(proc[p]) => proc[p].jobs # <<>>
AskedAccepted == \A p \in Processes : TodoAccepted(proc[p])
NewEmpty == \A id \in Orders : exch[id].status = "none" => exch[id].filled = 0
SharedInv ==
  /\ SharedTypes /\ HeldSound /\ NewEmpty /\ HasJob /\ AskedAccepted
  /\ RowsBehindExchange /\ CopiesBehind /\ JobsBehind

(* An order only ever goes forward at the exchange.                        *)
Grown ==
  \A id \in Orders :
    /\ exch[id].status \notin {"none", "resting"} => exch'[id] = exch[id]
    /\ exch[id].status = "resting" => exch'[id].status # "none"
    /\ exch'[id].filled >= exch[id].filled

LEMMA BehindGrown ==
  ASSUME SharedTypes, SharedTypes', Grown, NEW id \in Orders, NEW row \in Row,
         Behind(row, exch[id])
  PROVE  Behind(row, exch[id])'
BY DEF SharedTypes, Grown, Behind, Row, Terminal

LEMMA BehindLater ==
  ASSUME SharedTypes, Grown, NEW id \in Orders, NEW row \in Row,
         exch' \in [Orders -> [status : {"none", "resting", "executed", "canceled"},
                               filled : 0 .. Count]],
         Behind(row, exch[id])
  PROVE  Behind(row, exch'[id])
BY DEF SharedTypes, Grown, Behind, Row, Terminal

LEMMA FileGrown ==
  ASSUME SharedTypes, Grown, RowsBehindExchange, UNCHANGED file,
         exch' \in [Orders -> [status : {"none", "resting", "executed", "canceled"},
                               filled : 0 .. Count]]
  PROVE  RowsBehindExchange'
<1>1. \A id \in Orders : Behind(file[id], exch'[id])
  <2> SUFFICES ASSUME NEW id \in Orders PROVE Behind(file[id], exch'[id])
    OBVIOUS
  <2>1. file[id] \in Row /\ Behind(file[id], exch[id])
    BY DEF SharedTypes, RowsBehindExchange
  <2>2. QED
    BY <2>1, BehindLater
<1>2. QED
  BY <1>1 DEF RowsBehindExchange, Behind

LEMMA NoRowBehind ==
  ASSUME SharedTypes, NEW id \in Orders
  PROVE  NoRow \in Row /\ Behind(NoRow, exch[id])
BY OverlapAssumption DEF SharedTypes, NoRow, Row, Behind, Terminal

LEMMA NothingBehind ==
  ASSUME SharedTypes
  PROVE  /\ Nothing \in [Orders -> Row]
         /\ \A id \in Orders : Behind(Nothing[id], exch[id])
BY NoRowBehind DEF Nothing

LEMMA IdleTyped ==
  ASSUME SharedTypes
  PROVE  Idle \in SharedLocals
BY NothingBehind DEF Idle, SharedLocals

LEMMA SharedInit == OverlapInit => SharedInv
<1> SUFFICES ASSUME OverlapInit PROVE SharedInv
  OBVIOUS
<1>1. SharedTypes
  <2>1. NoRow \in Row /\ Nothing \in [Orders -> Row]
    BY OverlapAssumption DEF NoRow, Row, Terminal, Nothing
  <2>2. Idle \in SharedLocals
    BY <2>1 DEF Idle, SharedLocals
  <2>3. QED
    BY <2>1, <2>2, OverlapAssumption DEF OverlapInit, SharedTypes
<1>2. HeldSound /\ NewEmpty
  BY OverlapAssumption DEF OverlapInit, HeldSound, NewEmpty
<1>3. RowsBehindExchange /\ CopiesBehind
  BY <1>1, NothingBehind DEF OverlapInit, RowsBehindExchange, CopiesBehind, Idle
<1>4. JobsBehind
  BY DEF OverlapInit, JobsBehind, Idle
<1>5. AskedAccepted /\ HasJob
  BY DEF OverlapInit, AskedAccepted, TodoAccepted, Asking, Idle, HasJob, Writing
<1>6. QED
  BY <1>1, <1>2, <1>3, <1>4, <1>5 DEF SharedInv

(* A command gives itself new locals, and no other its own.                *)
LEMMA BecomesTyped ==
  ASSUME SharedTypes, NEW p \in Processes, NEW new \in SharedLocals,
         proc' = [proc EXCEPT ![p] = new]
  PROVE  /\ proc' \in [Processes -> SharedLocals]
         /\ proc'[p] = new
         /\ \A q \in Processes : q # p => proc'[q] = proc[q]
BY DEF SharedTypes

(* The step of a command that leaves the file alone keeps the invariant if *)
(* its new copy and jobs are behind.                                       *)
LEMMA LocalStep ==
  ASSUME SharedInv, NEW p \in Processes, NEW new \in SharedLocals,
         proc' = [proc EXCEPT ![p] = new], UNCHANGED file,
         exch' \in [Orders -> [status : {"none", "resting", "executed", "canceled"},
                               filled : 0 .. Count]],
         Grown, HeldSound', NewEmpty',
         \A id \in Orders : Behind(new.copy[id], exch'[id]),
         \A i \in 1 .. Len(new.jobs) : \A u \in new.jobs[i] : Behind(u.row, exch'[u.id]),
         Asking(new) => \A id \in new.todo : exch'[id].status # "none",
         Writing(new) => new.jobs # <<>>
  PROVE  SharedInv'
<1> USE DEF SharedInv
<1>1. /\ proc' \in [Processes -> SharedLocals]
      /\ proc'[p] = new
      /\ \A q \in Processes : q # p => proc'[q] = proc[q]
  BY BecomesTyped
<1>2. SharedTypes'
  BY <1>1 DEF SharedTypes
<1>3. RowsBehindExchange'
  <2> SUFFICES ASSUME NEW id \in Orders PROVE Behind(file[id], exch[id])'
    BY DEF RowsBehindExchange
  <2>1. file[id] \in Row /\ Behind(file[id], exch[id])
    BY DEF SharedTypes, RowsBehindExchange
  <2>2. QED
    BY <1>2, <2>1, BehindGrown DEF Behind
<1>4. CopiesBehind'
  <2> SUFFICES ASSUME NEW q \in Processes, NEW id \in Orders
               PROVE  Behind(proc'[q].copy[id], exch'[id])
    BY DEF CopiesBehind, Behind
  <2>1. CASE q = p
    BY <1>1, <2>1
  <2>2. CASE q # p
    <3>1. /\ proc[q].copy[id] \in Row
          /\ Behind(proc[q].copy[id], exch[id])
          /\ proc'[q] = proc[q]
      BY <1>1, <2>2 DEF CopiesBehind, SharedTypes, SharedLocals
    <3>2. QED
      BY <1>2, <3>1, BehindGrown DEF Behind
  <2>3. QED
    BY <2>1, <2>2
<1>5. JobsBehind'
  <2> SUFFICES ASSUME NEW q \in Processes, NEW i \in 1 .. Len(proc'[q].jobs),
                      NEW u \in proc'[q].jobs[i]
               PROVE  Behind(u.row, exch'[u.id])
    BY DEF JobsBehind, JobBehind, Behind
  <2>1. CASE q = p
    BY <1>1, <2>1
  <2>2. CASE q # p
    <3>1. proc'[q] = proc[q] /\ proc[q].jobs \in Seq(Job)
      BY <1>1, <2>2 DEF SharedTypes, SharedLocals
    <3>2. u \in proc[q].jobs[i] /\ proc[q].jobs[i] \in Job
      BY <3>1
    <3>3. u.row \in Row /\ u.id \in Orders /\ Behind(u.row, exch[u.id])
      BY <3>1, <3>2 DEF JobsBehind, JobBehind, Job
    <3>4. QED
      BY <1>2, <3>3, BehindGrown DEF Behind
  <2>3. QED
    BY <2>1, <2>2
<1>6. AskedAccepted'
  <2> SUFFICES ASSUME NEW q \in Processes PROVE TodoAccepted(proc[q])'
    BY DEF AskedAccepted
  <2>1. CASE q = p
    BY <1>1, <2>1 DEF TodoAccepted
  <2>2. CASE q # p
    <3>1. proc'[q] = proc[q] /\ TodoAccepted(proc[q]) /\ proc[q].todo \subseteq Orders
      BY <1>1, <2>2 DEF AskedAccepted, SharedTypes, SharedLocals
    <3>2. \A id \in Orders : exch[id].status # "none" => exch'[id].status # "none"
      BY DEF Grown, SharedTypes
    <3>3. QED
      BY <3>1, <3>2 DEF TodoAccepted, Asking
  <2>3. QED
    BY <2>1, <2>2
<1>7. HasJob'
  BY <1>1 DEF HasJob, Writing
<1>8. QED
  BY <1>2, <1>3, <1>4, <1>5, <1>6, <1>7

LEMMA SameGrown ==
  ASSUME SharedInv, UNCHANGED exch
  PROVE  /\ exch' \in [Orders -> [status : {"none", "resting", "executed", "canceled"},
                                  filled : 0 .. Count]]
         /\ Grown /\ HeldSound' /\ NewEmpty'
BY DEF SharedInv, SharedTypes, HeldSound, NewEmpty, Grown

(* The jobs Writes makes of a row that is behind.                          *)
LEMMA WritesBehind ==
  ASSUME NEW id \in Orders, NEW row \in Row, NEW e, Behind(row, e[id])
  PROVE  /\ Writes(id, row) \in Seq(Job) /\ Writes(id, row) # <<>>
         /\ \A i \in 1 .. Len(Writes(id, row)) :
              \A u \in Writes(id, row)[i] : Behind(u.row, e[u.id])
<1>1. Upsert(id, row) \in Job /\ Rewrite \in Job
  BY DEF Upsert, Rewrite, Job
<1>2. \A u \in Upsert(id, row) : Behind(u.row, e[u.id])
  BY DEF Upsert
<1>3. \A u \in Rewrite : Behind(u.row, e[u.id])
  BY DEF Rewrite
<1>4. CASE row.filled > 0
  <2>1. Writes(id, row) = <<Upsert(id, row), Rewrite>>
    BY <1>4 DEF Writes
  <2>2. QED
    BY <1>1, <1>2, <1>3, <2>1
<1>5. CASE ~(row.filled > 0)
  <2>1. Writes(id, row) = <<Upsert(id, row)>>
    BY <1>5 DEF Writes
  <2>2. QED
    BY <1>1, <1>2, <2>1
<1>6. QED
  BY <1>4, <1>5

LEMMA RewriteBehind ==
  ASSUME NEW e
  PROVE  /\ <<Rewrite>> \in Seq(Job)
         /\ \A i \in 1 .. Len(<<Rewrite>>) :
              \A u \in <<Rewrite>>[i] : Behind(u.row, e[u.id])
BY DEF Rewrite, Job

-----------------------------------------------------------------------------
(* The exchange reports no remainder of orders that have ended only.       *)
LEMMA DoneEnded ==
  ASSUME NEW order, order.filled = Count => order.status = "executed",
         NEW done \in Done(order), done
  PROVE  order.status \in {"executed", "canceled"}
BY DEF Done

LEMMA AskStep ==
  ASSUME SharedInv, NEW p \in Processes, NEW id \in Orders, Ask(p, id)
  PROVE  SharedInv'
<1> PICK done \in Done(exch[id]) :
      Becomes(p, [proc[p] EXCEPT !.todo = @ \ {id}, !.then = "ask", !.pc = "load",
                                 !.jobs = Writes(id, Reconciled(exch[id], done))])
  BY DEF Ask
<1> DEFINE row == Reconciled(exch[id], done)
           new == [proc[p] EXCEPT !.todo = @ \ {id}, !.then = "ask", !.pc = "load",
                                  !.jobs = Writes(id, row)]
<1>1. /\ proc[p] \in SharedLocals /\ proc[p].pc = "ask" /\ id \in proc[p].todo
      /\ proc' = [proc EXCEPT ![p] = new] /\ UNCHANGED <<file, exch>>
  BY DEF Ask, Becomes, SharedInv, SharedTypes
<1>2. exch[id].status # "none" /\ \A x \in proc[p].todo : exch[x].status # "none"
  BY <1>1 DEF SharedInv, AskedAccepted, TodoAccepted, Asking
<1>3. row \in Row /\ Behind(row, exch[id])
  <2>1. done => exch[id].status \in {"executed", "canceled"}
    BY DoneEnded DEF SharedInv, HeldSound
  <2>2. QED
    BY <1>2, <2>1 DEF SharedInv, SharedTypes, Reconciled, Row, Terminal, Behind
<1>4. /\ Writes(id, row) \in Seq(Job) /\ Writes(id, row) # <<>>
      /\ \A i \in 1 .. Len(Writes(id, row)) :
           \A u \in Writes(id, row)[i] : Behind(u.row, exch[u.id])
  <2> HIDE DEF row
  <2>1. QED
    BY <1>3, WritesBehind
<1>5. /\ new \in SharedLocals /\ new.copy = proc[p].copy
      /\ new.jobs = Writes(id, row) /\ new.todo \subseteq proc[p].todo
  <2> HIDE DEF row
  <2>1. QED
    BY <1>1, <1>4 DEF SharedLocals
<1>6. \A x \in Orders : Behind(new.copy[x], exch[x])
  BY <1>5 DEF SharedInv, CopiesBehind
<1> HIDE DEF new
<1>7. /\ \A x \in Orders : Behind(new.copy[x], exch'[x])
      /\ \A i \in 1 .. Len(new.jobs) :
           \A u \in new.jobs[i] : Behind(u.row, exch'[u.id])
      /\ \A x \in new.todo : exch'[x].status # "none"
  BY <1>1, <1>2, <1>4, <1>5, <1>6
<1>8. new.jobs # <<>>
  BY <1>4, <1>5
<1>9. QED
  BY <1>1, <1>5, <1>7, <1>8, SameGrown, LocalStep

(* A command that is about to append, or goes on without a job.            *)
LEMMA PlainStep ==
  ASSUME SharedInv, NEW p \in Processes, NEW new \in SharedLocals,
         proc' = [proc EXCEPT ![p] = new], UNCHANGED <<file, exch>>,
         new.copy = proc[p].copy,
         new.jobs \in {proc[p].jobs, <<Rewrite>>},
         Writing(new) => new.jobs # <<>>,
         Asking(new) => \A id \in new.todo : exch[id].status # "none"
  PROVE  SharedInv'
<1>1. \A id \in Orders : Behind(new.copy[id], exch'[id])
  BY DEF SharedInv, CopiesBehind
<1>2. \A i \in 1 .. Len(new.jobs) : \A u \in new.jobs[i] : Behind(u.row, exch'[u.id])
  <2>1. CASE new.jobs = proc[p].jobs
    BY <2>1 DEF SharedInv, JobsBehind, JobBehind
  <2>2. CASE new.jobs = <<Rewrite>>
    BY <2>2, RewriteBehind
  <2>3. QED
    BY <2>1, <2>2
<1>3. QED
  BY <1>1, <1>2, SameGrown, LocalStep

LEMMA AppendSteps ==
  ASSUME SharedInv, NEW p \in Processes, NEW id \in Orders,
         AskFails(p, id) \/ Intend(p, id) \/ CreateFails(p, id)
  PROVE  SharedInv'
<1>1. /\ proc[p] \in SharedLocals /\ UNCHANGED <<file, exch>>
      /\ <<Rewrite>> \in Seq(Job)
  BY RewriteBehind DEF AskFails, Intend, CreateFails, SharedInv, SharedTypes
<1>2. CASE AskFails(p, id)
  <2> DEFINE new == [proc[p] EXCEPT !.todo = @ \ {id}, !.then = "ask", !.pc = "load",
                                    !.jobs = <<Rewrite>>]
  <2>1. /\ proc' = [proc EXCEPT ![p] = new]
        /\ \A x \in proc[p].todo : exch[x].status # "none"
    BY <1>2 DEF AskFails, Becomes, SharedInv, AskedAccepted, TodoAccepted, Asking
  <2>2. /\ new \in SharedLocals /\ new.copy = proc[p].copy
        /\ new.jobs = <<Rewrite>> /\ new.jobs # <<>> /\ new.todo \subseteq proc[p].todo
    BY <1>1 DEF SharedLocals
  <2> HIDE DEF new
  <2>3. QED
    BY <1>1, <2>1, <2>2, PlainStep
<1>3. CASE Intend(p, id)
  <2> DEFINE new == [proc[p] EXCEPT !.todo = {id}, !.batch = @ \ {id}, !.pc = "load",
                                    !.then = "create", !.jobs = <<Rewrite>>]
  <2>1. proc' = [proc EXCEPT ![p] = new]
    BY <1>3 DEF Intend, Becomes
  <2>2. /\ new \in SharedLocals /\ new.copy = proc[p].copy
        /\ new.jobs = <<Rewrite>> /\ new.jobs # <<>> /\ ~Asking(new)
    BY <1>1 DEF SharedLocals, Asking
  <2> HIDE DEF new
  <2>3. QED
    BY <1>1, <2>1, <2>2, PlainStep
<1>4. CASE CreateFails(p, id)
  <2> DEFINE new == [proc[p] EXCEPT !.todo = {}, !.batch = {}, !.then = "submit",
                                    !.pc = "load", !.jobs = <<Rewrite>>]
  <2>1. proc' = [proc EXCEPT ![p] = new]
    BY <1>4 DEF CreateFails, Becomes
  <2>2. /\ new \in SharedLocals /\ new.copy = proc[p].copy
        /\ new.jobs = <<Rewrite>> /\ new.jobs # <<>> /\ new.todo = {}
    BY <1>1 DEF SharedLocals
  <2> HIDE DEF new
  <2>3. QED
    BY <1>1, <2>1, <2>2, PlainStep
<1>5. QED
  BY <1>2, <1>3, <1>4

LEMMA IdleStep ==
  ASSUME SharedInv, NEW p \in Processes,
         NEW new \in SharedLocals, proc' = [proc EXCEPT ![p] = new],
         UNCHANGED <<file, exch>>, new.copy = Nothing, new.jobs = <<>>, ~Writing(new),
         Asking(new) => \A id \in new.todo : exch[id].status # "none"
  PROVE  SharedInv'
<1>1. \A id \in Orders : Behind(new.copy[id], exch'[id])
  BY NothingBehind DEF SharedInv
<1>2. \A i \in 1 .. Len(new.jobs) : \A u \in new.jobs[i] : Behind(u.row, exch'[u.id])
  OBVIOUS
<1>3. QED
  BY <1>1, <1>2, SameGrown, LocalStep

LEMMA RunSteps ==
  ASSUME SharedInv, NEW p \in Processes,
         \/ \E m \in {"trade", "reconcile"} : StartRun(p, m)
         \/ FinishAsking(p) \/ FinishSubmitting(p) \/ Crash(p)
  PROVE  SharedInv'
<1>1. /\ proc[p] \in SharedLocals /\ UNCHANGED <<file, exch>> /\ Idle \in SharedLocals
  BY IdleTyped DEF StartRun, FinishAsking, FinishSubmitting, Crash,
         SharedInv, SharedTypes
<1>2. ASSUME NEW m \in {"trade", "reconcile"}, StartRun(p, m) PROVE SharedInv'
  <2> DEFINE new == [Idle EXCEPT !.pc = "ask", !.mode = m, !.todo = Open(file)]
  <2>1. proc' = [proc EXCEPT ![p] = new]
    BY <1>2 DEF StartRun, Becomes
  <2>2. /\ new \in SharedLocals /\ new.copy = Nothing
        /\ new.jobs = <<>> /\ new.todo = Open(file) /\ ~Writing(new)
    BY <1>1 DEF SharedLocals, Open, Idle, Writing
  <2>3. \A id \in Open(file) : exch[id].status # "none"
    BY DEF Open, SharedInv, RowsBehindExchange, Behind
  <2> HIDE DEF new
  <2>4. QED
    BY <1>1, <2>1, <2>2, <2>3, IdleStep
<1>3. CASE proc' = [proc EXCEPT ![p] = Idle]
  <2>1. /\ Idle.copy = Nothing /\ Idle.jobs = <<>>
        /\ ~Asking(Idle) /\ ~Writing(Idle)
    BY DEF Idle, Asking, Writing
  <2>2. QED
    BY <1>1, <1>3, <2>1, IdleStep
<1>4. ASSUME NEW b \in SUBSET Orders,
             proc' = [proc EXCEPT ![p] = [proc[p] EXCEPT !.pc = "submit", !.batch = b]]
      PROVE  SharedInv'
  <2> DEFINE new == [proc[p] EXCEPT !.pc = "submit", !.batch = b]
  <2>1. /\ new \in SharedLocals /\ new.copy = proc[p].copy
        /\ new.jobs = proc[p].jobs /\ ~Asking(new) /\ ~Writing(new)
    BY <1>1 DEF SharedLocals, Asking, Writing
  <2>2. proc' = [proc EXCEPT ![p] = new]
    BY <1>4
  <2> HIDE DEF new
  <2>3. QED
    BY <1>1, <2>1, <2>2, PlainStep
<1>5. QED
  BY <1>2, <1>3, <1>4 DEF FinishAsking, FinishSubmitting, Crash, Becomes

LEMMA CreateStep ==
  ASSUME SharedInv, NEW p \in Processes, NEW id \in Orders, Create(p, id)
  PROVE  SharedInv'
<1>a. PICK n \in 0 .. Count, s \in {"resting", "canceled"} :
        LET order == [status |-> IF n = Count THEN "executed" ELSE s, filled |-> n] IN
        /\ exch' = [exch EXCEPT ![id] = order]
        /\ \E done \in Done(order) :
             Becomes(p, [proc[p] EXCEPT !.todo = {}, !.then = "submit", !.pc = "load",
                                        !.jobs = Writes(id, Recorded(order, done))])
  BY DEF Create
<1> DEFINE order == [status |-> IF n = Count THEN "executed" ELSE s, filled |-> n]
<1>b. PICK done \in Done(order) :
        Becomes(p, [proc[p] EXCEPT !.todo = {}, !.then = "submit", !.pc = "load",
                                   !.jobs = Writes(id, Recorded(order, done))])
  BY <1>a
<1>c. done => order.status \in {"executed", "canceled"}
  BY <1>b, DoneEnded
<1>1. /\ exch' = [exch EXCEPT ![id] = order]
      /\ proc' = [proc EXCEPT ![p] =
             [proc[p] EXCEPT !.todo = {}, !.then = "submit", !.pc = "load",
                             !.jobs = Writes(id, Recorded(order, done))]]
  BY <1>a, <1>b DEF Becomes
<1> DEFINE row == Recorded(order, done)
           new == [proc[p] EXCEPT !.todo = {}, !.then = "submit", !.pc = "load",
                                  !.jobs = Writes(id, row)]
<1>2. /\ proc[p] \in SharedLocals /\ UNCHANGED file /\ exch[id].status = "none"
      /\ exch' \in [Orders -> [status : {"none", "resting", "executed", "canceled"},
                               filled : 0 .. Count]]
  BY <1>1 DEF Create, SharedInv, SharedTypes
<1>3. HeldSound' /\ NewEmpty'
  BY <1>1 DEF SharedInv, SharedTypes, HeldSound, NewEmpty
<1>4. exch[id].filled = 0
  BY <1>2 DEF SharedInv, NewEmpty
<1>5. Grown
  BY <1>1, <1>2, <1>4 DEF SharedInv, SharedTypes, Grown
<1>6. row \in Row /\ Behind(row, exch'[id])
  BY <1>c, <1>1, <1>2 DEF SharedInv, SharedTypes, Recorded, Row, Terminal,
                          Behind
<1>7. /\ Writes(id, row) \in Seq(Job) /\ Writes(id, row) # <<>>
      /\ \A i \in 1 .. Len(Writes(id, row)) :
           \A u \in Writes(id, row)[i] : Behind(u.row, exch'[u.id])
  <2> HIDE DEF row
  <2>1. QED
    BY <1>6, WritesBehind
<1>8. /\ new \in SharedLocals /\ new.copy = proc[p].copy
      /\ new.jobs = Writes(id, row) /\ new.todo = {}
  <2> HIDE DEF row
  <2>1. QED
    BY <1>2, <1>7 DEF SharedLocals
<1>9. \A x \in Orders : Behind(proc[p].copy[x], exch'[x])
  <2> SUFFICES ASSUME NEW x \in Orders PROVE Behind(proc[p].copy[x], exch'[x])
    OBVIOUS
  <2>1. proc[p].copy[x] \in Row /\ Behind(proc[p].copy[x], exch[x])
    BY <1>2 DEF SharedInv, CopiesBehind, SharedLocals
  <2>2. SharedTypes /\ exch'[x].filled >= exch[x].filled
    BY <1>5 DEF SharedInv, Grown
  <2>3. QED
    BY <1>2, <1>5, <2>1, <2>2 DEF Behind, Row, Terminal, SharedTypes, Grown
<1>10. proc' = [proc EXCEPT ![p] = new]
  BY <1>1
<1> HIDE DEF new, row
<1>11. QED
  BY <1>2, <1>3, <1>5, <1>7, <1>8, <1>9, <1>10, LocalStep

LEMMA ExchangeSteps ==
  ASSUME SharedInv, NEW id \in Orders,
         ExchangeFill(id) \/ ExchangeCancel(id)
  PROVE  SharedInv'
<1>1. UNCHANGED <<file, proc>> /\ exch[id].status = "resting"
  BY DEF ExchangeFill, ExchangeCancel
<1>2. /\ exch' \in [Orders -> [status : {"none", "resting", "executed", "canceled"},
                               filled : 0 .. Count]]
      /\ Grown /\ HeldSound' /\ NewEmpty'
  <2>1. CASE ExchangeFill(id)
    <3>1. PICK n \in (exch[id].filled + 1) .. Count :
            exch' = [exch EXCEPT ![id] =
              [status |-> IF n = Count THEN "executed" ELSE "resting", filled |-> n]]
      BY <2>1 DEF ExchangeFill
    <3>2. n \in 0 .. Count /\ n >= exch[id].filled
      BY DEF SharedInv, SharedTypes
    <3>3. QED
      BY <1>1, <3>1, <3>2 DEF SharedInv, SharedTypes, Grown, HeldSound, NewEmpty
  <2>2. CASE ExchangeCancel(id)
    <3>1. exch' = [exch EXCEPT ![id] = [exch[id] EXCEPT !.status = "canceled"]]
      BY <2>2 DEF ExchangeCancel
    <3>2. [exch[id] EXCEPT !.status = "canceled"]
            = [status |-> "canceled", filled |-> exch[id].filled]
      BY DEF SharedInv, SharedTypes
    <3>3. QED
      BY <1>1, <3>1, <3>2 DEF SharedInv, SharedTypes, Grown, HeldSound, NewEmpty
  <2>3. QED
    BY <2>1, <2>2
<1>3. CASE Processes = {}
  BY <1>1, <1>2, <1>3, FileGrown DEF SharedInv, SharedTypes, CopiesBehind, JobsBehind, AskedAccepted, HasJob
<1>4. ASSUME NEW p \in Processes PROVE SharedInv'
  <2> DEFINE new == proc[p]
  <2>1. new \in SharedLocals /\ proc' = [proc EXCEPT ![p] = new]
    BY <1>1 DEF SharedInv, SharedTypes
  <2>2. \A x \in Orders : Behind(new.copy[x], exch'[x])
    <3> SUFFICES ASSUME NEW x \in Orders PROVE Behind(new.copy[x], exch'[x])
      OBVIOUS
    <3>1. new.copy[x] \in Row /\ Behind(new.copy[x], exch[x])
      BY <2>1 DEF SharedInv, CopiesBehind, SharedLocals
    <3>2. QED
      BY <1>2, <3>1, BehindLater DEF SharedInv
  <2>3. \A i \in 1 .. Len(new.jobs) : \A u \in new.jobs[i] : Behind(u.row, exch'[u.id])
    <3> SUFFICES ASSUME NEW i \in 1 .. Len(new.jobs), NEW u \in new.jobs[i]
                 PROVE  Behind(u.row, exch'[u.id])
      OBVIOUS
    <3>1. new.jobs \in Seq(Job) /\ new.jobs[i] \in Job
      BY <2>1 DEF SharedLocals
    <3>2. u.row \in Row /\ u.id \in Orders /\ Behind(u.row, exch[u.id])
      BY <3>1 DEF SharedInv, JobsBehind, JobBehind, Job
    <3>3. QED
      BY <1>2, <3>2, BehindLater DEF SharedInv
  <2>4. Asking(new) => \A x \in new.todo : exch'[x].status # "none"
    <3>1. new.todo \subseteq Orders
      BY <2>1 DEF SharedLocals
    <3>2. \A x \in Orders : exch[x].status # "none" => exch'[x].status # "none"
      BY <1>2 DEF SharedInv, SharedTypes, Grown
    <3>3. QED
      BY <3>1, <3>2 DEF SharedInv, AskedAccepted, TodoAccepted
  <2>5. Writing(new) => new.jobs # <<>>
    BY DEF SharedInv, HasJob
  <2> HIDE DEF new
  <2>6. QED
    BY <1>1, <1>2, <2>1, <2>2, <2>3, <2>4, <2>5, LocalStep
<1>5. QED
  BY <1>3, <1>4

-----------------------------------------------------------------------------
LEMMA LoadStep ==
  ASSUME SharedInv, NEW p \in Processes, Load(p)
  PROVE  SharedInv'
<1> DEFINE seen == IF InGap(p) THEN "stale" ELSE "fresh"
           new == [proc[p] EXCEPT !.pc = "truncate", !.copy = file, !.view = seen]
<1>1. /\ proc[p] \in SharedLocals /\ file \in [Orders -> Row]
      /\ proc[p].pc = "load" /\ UNCHANGED <<file, exch>>
      /\ proc' = [proc EXCEPT ![p] = new]
  BY DEF Load, Becomes, SharedInv, SharedTypes
<1>2. /\ new \in SharedLocals /\ new.copy = file /\ new.jobs = proc[p].jobs
      /\ new.todo = proc[p].todo
      /\ Asking(new) => Asking(proc[p])
      /\ Writing(proc[p])
  BY <1>1 DEF SharedLocals, Asking, Writing
<1> HIDE DEF new
<1>3. \A id \in Orders : Behind(new.copy[id], exch'[id])
  BY <1>1, <1>2 DEF SharedInv, RowsBehindExchange
<1>4. \A i \in 1 .. Len(new.jobs) : \A u \in new.jobs[i] : Behind(u.row, exch'[u.id])
  BY <1>1, <1>2 DEF SharedInv, JobsBehind, JobBehind
<1>5. /\ Asking(new) => \A id \in new.todo : exch'[id].status # "none"
      /\ new.jobs # <<>>
  BY <1>1, <1>2 DEF SharedInv, AskedAccepted, TodoAccepted, HasJob
<1>6. QED
  BY <1>1, <1>2, <1>3, <1>4, <1>5, SameGrown, LocalStep

(* What a writer does to the views of the others changes nothing else.     *)
SameBut(k, l) ==
  /\ l.pc = k.pc /\ l.then = k.then /\ l.todo = k.todo
  /\ l.copy = k.copy /\ l.jobs = k.jobs
LEMMA OutdatedSame ==
  ASSUME SharedTypes, NEW p \in Processes, NEW what \in {"truncate", "write"}
  PROVE  /\ Outdated(p, what) \in [Processes -> SharedLocals]
         /\ \A q \in Processes : SameBut(proc[q], Outdated(p, what)[q])
<1> SUFFICES ASSUME NEW q \in Processes
             PROVE  /\ Outdated(p, what)[q] \in SharedLocals
                    /\ SameBut(proc[q], Outdated(p, what)[q])
  BY DEF Outdated
<1>1. proc[q] \in SharedLocals
  BY DEF SharedTypes
<1>2. PICK v \in {"fresh", "stale", "mixed"} :
        Outdated(p, what)[q] \in {proc[q], [proc[q] EXCEPT !.view = v]}
  BY <1>1 DEF Outdated, SharedLocals
<1>3. QED
  BY <1>1, <1>2 DEF SharedLocals, SameBut

(* A step that changes the file: p has new locals, the others new views.   *)
LEMMA FileStep ==
  ASSUME SharedInv, NEW p \in Processes, NEW new \in SharedLocals,
         NEW what \in {"truncate", "write"}, UNCHANGED exch,
         proc' = [Outdated(p, what) EXCEPT ![p] = new],
         file' \in [Orders -> Row],
         \A id \in Orders : Behind(file'[id], exch[id]),
         \A id \in Orders : Behind(new.copy[id], exch[id]),
         \A i \in 1 .. Len(new.jobs) : \A u \in new.jobs[i] : Behind(u.row, exch[u.id]),
         Asking(new) => \A id \in new.todo : exch[id].status # "none",
         Writing(new) => new.jobs # <<>>
  PROVE  SharedInv'
<1>1. /\ proc' \in [Processes -> SharedLocals]
      /\ proc'[p] = new
      /\ \A q \in Processes : q # p => SameBut(proc[q], proc'[q])
  <2>1. SharedTypes
    BY DEF SharedInv
  <2>2. QED
    BY <2>1, OutdatedSame
<1>2. SharedTypes' /\ HeldSound' /\ NewEmpty'
  BY <1>1 DEF SharedInv, SharedTypes, HeldSound, NewEmpty
<1>3. RowsBehindExchange'
  BY DEF RowsBehindExchange, Behind
<1>4. \A q \in Processes, id \in Orders : Behind(proc'[q].copy[id], exch[id])
  <2> SUFFICES ASSUME NEW q \in Processes, NEW id \in Orders
               PROVE  Behind(proc'[q].copy[id], exch[id])
    OBVIOUS
  <2>1. CASE q = p
    BY <1>1, <2>1
  <2>2. CASE q # p
    BY <1>1, <2>2 DEF SharedInv, CopiesBehind, SameBut
  <2>3. QED
    BY <2>1, <2>2
<1>5. \A q \in Processes : \A i \in 1 .. Len(proc'[q].jobs) :
        \A u \in proc'[q].jobs[i] : Behind(u.row, exch[u.id])
  <2> SUFFICES ASSUME NEW q \in Processes, NEW i \in 1 .. Len(proc'[q].jobs),
                      NEW u \in proc'[q].jobs[i]
               PROVE  Behind(u.row, exch[u.id])
    OBVIOUS
  <2>1. CASE q = p
    BY <1>1, <2>1
  <2>2. CASE q # p
    BY <1>1, <2>2 DEF SharedInv, JobsBehind, JobBehind, SameBut
  <2>3. QED
    BY <2>1, <2>2
<1>6. CopiesBehind' /\ JobsBehind'
  BY <1>4, <1>5 DEF CopiesBehind, JobsBehind, JobBehind, Behind
<1>7. AskedAccepted' /\ HasJob'
  <2> SUFFICES ASSUME NEW q \in Processes
               PROVE  TodoAccepted(proc[q])' /\ (Writing(proc'[q]) => proc'[q].jobs # <<>>)
    BY DEF AskedAccepted, HasJob, Writing
  <2>1. CASE q = p
    BY <1>1, <2>1 DEF TodoAccepted, Asking, Writing
  <2>2. CASE q # p
    BY <1>1, <2>2 DEF SharedInv, AskedAccepted, HasJob, TodoAccepted, Asking, Writing, SameBut
  <2>3. QED
    BY <2>1, <2>2
<1>8. QED
  BY <1>2, <1>3, <1>6, <1>7 DEF SharedInv

LEMMA TruncateStep ==
  ASSUME SharedInv, NEW p \in Processes, Truncate(p)
  PROVE  SharedInv'
<1> DEFINE old == Outdated(p, "truncate")[p]
           new == [old EXCEPT !.pc = "write"]
<1>1. /\ proc[p].pc = "truncate" /\ file' = Nothing /\ UNCHANGED exch
      /\ proc' = [Outdated(p, "truncate") EXCEPT ![p] = new]
  BY DEF Truncate
<1>2. old \in SharedLocals /\ SameBut(proc[p], old)
  BY OutdatedSame DEF SharedInv
<1>3. /\ new \in SharedLocals /\ new.copy = proc[p].copy /\ new.jobs = proc[p].jobs
      /\ new.todo = proc[p].todo /\ Writing(proc[p])
      /\ Asking(new) => Asking(proc[p])
  BY <1>1, <1>2 DEF SharedLocals, SameBut, Asking, Writing
<1> HIDE DEF new, old
<1>4. /\ file' \in [Orders -> Row]
      /\ \A id \in Orders : Behind(file'[id], exch[id])
  BY <1>1, NothingBehind DEF SharedInv
<1>5. /\ \A id \in Orders : Behind(new.copy[id], exch[id])
      /\ \A i \in 1 .. Len(new.jobs) : \A u \in new.jobs[i] : Behind(u.row, exch[u.id])
      /\ Asking(new) => \A id \in new.todo : exch[id].status # "none"
      /\ new.jobs # <<>>
  BY <1>3 DEF SharedInv, CopiesBehind, JobsBehind, JobBehind, AskedAccepted, TodoAccepted, HasJob
<1>6. QED
  BY <1>1, <1>3, <1>4, <1>5, FileStep

LEMMA AppliedBehind ==
  ASSUME NEW job \in Job, NEW rows \in [Orders -> Row], NEW e,
         JobBehindOf(job, e), \A id \in Orders : Behind(rows[id], e[id])
  PROVE  /\ Applied(job, rows) \in [Orders -> Row]
         /\ \A id \in Orders : Behind(Applied(job, rows)[id], e[id])
<1> SUFFICES ASSUME NEW id \in Orders
             PROVE  /\ Applied(job, rows)[id] \in Row
                    /\ Behind(Applied(job, rows)[id], e[id])
  BY DEF Applied
<1>1. CASE \E u \in job : u.id = id
  <2>1. PICK u \in job : u.id = id /\ u = CHOOSE v \in job : v.id = id
    BY <1>1
  <2>2. Applied(job, rows)[id] = u.row
    BY <1>1, <2>1 DEF Applied
  <2>3. u.row \in Row
    BY <2>1 DEF Job
  <2>4. QED
    BY <2>1, <2>2, <2>3 DEF JobBehindOf
<1>2. CASE ~\E u \in job : u.id = id
  BY <1>2 DEF Applied
<1>3. QED
  BY <1>1, <1>2

LEMMA WriteStep ==
  ASSUME SharedInv, NEW p \in Processes, Write(p)
  PROVE  SharedInv'
<1> DEFINE job  == Head(proc[p].jobs)
           rest == Tail(proc[p].jobs)
           new  == [proc[p] EXCEPT !.jobs = rest, !.copy = Nothing, !.view = "fresh",
                                   !.pc = IF rest = <<>> THEN proc[p].then ELSE "load"]
<1>1. /\ proc[p].pc = "write" /\ UNCHANGED exch
      /\ file' = Applied(job, proc[p].copy) \/ file' = Nothing
      /\ proc' = [Outdated(p, "write") EXCEPT ![p] = new]
  BY DEF Write
<1>2. /\ proc[p] \in SharedLocals /\ proc[p].jobs \in Seq(Job) /\ proc[p].jobs # <<>>
      /\ proc[p].copy \in [Orders -> Row]
  BY <1>1 DEF SharedInv, SharedTypes, SharedLocals, HasJob, Writing
<1>3. /\ job \in Job /\ rest \in Seq(Job) /\ job = proc[p].jobs[1]
      /\ 1 \in 1 .. Len(proc[p].jobs)
      /\ \A i \in 1 .. Len(rest) : i + 1 \in 1 .. Len(proc[p].jobs) /\ rest[i] = proc[p].jobs[i + 1]
  BY <1>2
<1>4. /\ JobBehindOf(job, exch)
      /\ \A i \in 1 .. Len(rest) : \A u \in rest[i] : Behind(u.row, exch[u.id])
  <2>1. \A i \in 1 .. Len(proc[p].jobs) : JobBehindOf(proc[p].jobs[i], exch)
    BY DEF SharedInv, JobsBehind, JobBehind, JobBehindOf
  <2>2. JobBehindOf(job, exch)
    BY <1>3, <2>1
  <2>3. \A i \in 1 .. Len(rest) : JobBehindOf(rest[i], exch)
    BY <1>3, <2>1
  <2>4. QED
    BY <2>2, <2>3 DEF JobBehindOf
<1>5. /\ file' \in [Orders -> Row]
      /\ \A id \in Orders : Behind(file'[id], exch[id])
  <2>1. \A id \in Orders : Behind(proc[p].copy[id], exch[id])
    BY DEF SharedInv, CopiesBehind
  <2> HIDE DEF job
  <2>2. QED
    BY <1>1, <1>2, <1>3, <1>4, <2>1, AppliedBehind, NothingBehind DEF SharedInv
<1>6. /\ new \in SharedLocals /\ new.copy = Nothing /\ new.jobs = rest
      /\ new.todo = proc[p].todo
      /\ Asking(new) => Asking(proc[p])
      /\ Writing(new) => rest # <<>>
  <2>1. Nothing \in [Orders -> Row]
    BY NothingBehind DEF SharedInv
  <2> HIDE DEF rest
  <2>2. QED
    BY <1>1, <1>2, <1>3, <2>1 DEF SharedLocals, Asking, Writing
<1> HIDE DEF new, rest, job
<1>7. /\ \A id \in Orders : Behind(new.copy[id], exch[id])
      /\ Asking(new) => \A id \in new.todo : exch[id].status # "none"
  BY <1>6, NothingBehind DEF SharedInv, AskedAccepted, TodoAccepted
<1>8. QED
  BY <1>1, <1>4, <1>5, <1>6, <1>7, FileStep

LEMMA SharedStutter == SharedInv /\ UNCHANGED overlapVars => SharedInv'
BY DEF SharedInv, SharedTypes, HeldSound, NewEmpty, HasJob, AskedAccepted, TodoAccepted,
       Asking, Writing, RowsBehindExchange, CopiesBehind, JobsBehind, JobBehind,
       Behind, overlapVars

LEMMA SharedInvariant == OverlapSpec => []SharedInv
<1>1. OverlapInit => SharedInv
  BY SharedInit
<1>2. SharedInv /\ [OverlapNext]_(overlapVars) => SharedInv'
  <2> SUFFICES ASSUME SharedInv, [OverlapNext]_(overlapVars) PROVE SharedInv'
    OBVIOUS
  <2>1. ASSUME NEW p \in Processes, Step(p) PROVE SharedInv'
    BY <2>1, AskStep, AppendSteps, CreateStep, RunSteps, LoadStep, TruncateStep, WriteStep
       DEF Step
  <2>2. ASSUME NEW p \in Processes,
               Crash(p) \/ \E m \in {"trade", "reconcile"} : StartRun(p, m)
        PROVE  SharedInv'
    BY <2>2, RunSteps
  <2>3. ASSUME NEW id \in Orders, ExchangeFill(id) \/ ExchangeCancel(id)
        PROVE  SharedInv'
    BY <2>3, ExchangeSteps
  <2>4. QED
    BY <2>1, <2>2, <2>3, SharedStutter DEF OverlapNext
<1>3. QED
  BY <1>1, <1>2, PTL DEF OverlapSpec

(* Any number of commands on one state file: whatever they overwrite, no   *)
(* row that is loaded claims more than the exchange did                    *)
(* (LiveStateStore.upsert, live_order_record, reconcile_order_record).     *)
THEOREM RowsBehind == OverlapSpec => []RowsBehindExchange
<1>1. SharedInv => RowsBehindExchange
  BY DEF SharedInv
<1>2. QED
  BY <1>1, SharedInvariant, PTL

-----------------------------------------------------------------------------
(* What DisjointWritesKeepRows rests on: a command whose copy is up to     *)
(* date has every row that was written, no other is in the gap of its      *)
(* write then, and what is about to be upserted is a row.                  *)
Current(k) == k.pc \in {"truncate", "write"} /\ k.view = "fresh"
Keeps(rows) == \A id \in recorded : rows[id].status # "NONE"
RealJobs(jobs) == \A i \in 1 .. Len(jobs) : \A u \in jobs[i] : u.row.status # "NONE"
NoWriter == \A p \in Processes : proc[p].pc # "write"
Intact ==
  /\ \A p, q \in Processes : Current(proc[p]) /\ p # q => proc[q].pc # "write"
  /\ \A p \in Processes : Current(proc[p]) => Keeps(proc[p].copy)
  /\ NoWriter => Keeps(file)
KeepInv ==
  /\ recorded \subseteq Orders
  /\ \A p \in Processes : RealJobs(proc[p].jobs)
  /\ ~clashed => Intact

(* A command that is not at a file gives itself new locals, and does not   *)
(* come to one.                                                            *)
LEMMA KeepQuiet ==
  ASSUME SharedInv, KeepInv, NEW p \in Processes, NEW new,
         proc' = [proc EXCEPT ![p] = new], UNCHANGED <<file, recorded>>,
         ~clashed' => ~clashed, proc[p].pc # "write" \/ clashed',
         new.pc \notin {"truncate", "write"}, RealJobs(new.jobs)
  PROVE  KeepInv'
<1>1. /\ proc'[p] = new
      /\ \A q \in Processes : q # p => proc'[q] = proc[q]
  BY DEF SharedInv, SharedTypes
<1>2. recorded' \subseteq Orders /\ \A q \in Processes : RealJobs(proc'[q].jobs)
  BY <1>1 DEF KeepInv
<1>3. ASSUME ~clashed' PROVE Intact'
  <2>1. Intact /\ proc[p].pc # "write"
    BY <1>3 DEF KeepInv
  <2>2. ~Current(proc'[p]) /\ proc'[p].pc # "write"
    BY <1>1 DEF Current
  <2>3. NoWriter' => NoWriter
    BY <1>1, <2>1 DEF NoWriter
  <2>4. /\ \A q \in Processes : Current(proc'[q]) => q # p /\ proc'[q] = proc[q]
        /\ \A q \in Processes : proc'[q].pc = "write" => q # p /\ proc'[q] = proc[q]
    BY <1>1, <2>2
  <2>5. QED
    BY <2>1, <2>3, <2>4 DEF Intact, Keeps, Current
<1>4. QED
  BY <1>2, <1>3 DEF KeepInv, RealJobs

LEMMA RealWrites ==
  ASSUME NEW id, NEW row, row.status # "NONE"
  PROVE  RealJobs(Writes(id, row)) /\ RealJobs(<<Rewrite>>) /\ RealJobs(<<>>)
<1>1. /\ \A u \in Upsert(id, row) : u.row.status # "NONE"
      /\ \A u \in Rewrite : u.row.status # "NONE"
  BY DEF Upsert, Rewrite
<1>2. RealJobs(<<Rewrite>>) /\ RealJobs(<<>>)
  BY <1>1 DEF RealJobs
<1>3. CASE row.filled > 0
  <2>1. Writes(id, row) = <<Upsert(id, row), Rewrite>>
    BY <1>3 DEF Writes
  <2>2. QED
    BY <1>1, <1>2, <2>1 DEF RealJobs
<1>4. CASE ~(row.filled > 0)
  <2>1. Writes(id, row) = <<Upsert(id, row)>>
    BY <1>4 DEF Writes
  <2>2. QED
    BY <1>1, <1>2, <2>1 DEF RealJobs
<1>5. QED
  BY <1>3, <1>4

LEMMA KeepCalls ==
  ASSUME SharedInv, KeepInv, NEW p \in Processes, NEW id \in Orders,
         Ask(p, id) \/ AskFails(p, id) \/ Intend(p, id) \/ Create(p, id) \/ CreateFails(p, id)
  PROVE  KeepInv'
<1>1. proc[p] \in SharedLocals
  BY DEF SharedInv, SharedTypes
<1>2. \A row : row.status # "NONE" => RealJobs(Writes(id, row))
  BY RealWrites
<1>3. RealJobs(<<Rewrite>>)
  BY DEF RealJobs, Rewrite
<1>4. \A order, done : /\ Reconciled(order, done).status # "NONE"
                       /\ Recorded(order, done).status # "NONE"
  BY DEF Reconciled, Recorded
<1>5. \E jobs, todo, batch, then :
        /\ proc' = [proc EXCEPT ![p] = [proc[p] EXCEPT !.todo = todo, !.batch = batch,
                                          !.pc = "load", !.then = then, !.jobs = jobs]]
        /\ RealJobs(jobs) /\ UNCHANGED <<file, recorded, clashed>> /\ proc[p].pc # "write"
  <2>1. CASE Ask(p, id)
    <3>0. PICK done :
            proc' = [proc EXCEPT ![p] = [proc[p] EXCEPT !.todo = @ \ {id}, !.then = "ask",
                       !.pc = "load", !.jobs = Writes(id, Reconciled(exch[id], done))]]
      BY <2>1 DEF Ask, Becomes
    <3>1. proc' = [proc EXCEPT ![p] = [proc[p] EXCEPT !.todo = proc[p].todo \ {id},
              !.batch = proc[p].batch, !.pc = "load", !.then = "ask",
              !.jobs = Writes(id, Reconciled(exch[id], done))]]
      BY <1>1, <3>0 DEF SharedLocals
    <3>2. RealJobs(Writes(id, Reconciled(exch[id], done)))
      BY <1>2, <1>4
    <3>3. UNCHANGED <<file, recorded, clashed>> /\ proc[p].pc # "write"
      BY <2>1 DEF Ask
    <3>4. QED
      BY <3>1, <3>2, <3>3
  <2>2. CASE AskFails(p, id)
    <3>1. proc' = [proc EXCEPT ![p] = [proc[p] EXCEPT !.todo = proc[p].todo \ {id},
              !.batch = proc[p].batch, !.pc = "load", !.then = "ask", !.jobs = <<Rewrite>>]]
      BY <1>1, <2>2 DEF AskFails, Becomes, SharedLocals
    <3>2. UNCHANGED <<file, recorded, clashed>> /\ proc[p].pc # "write"
      BY <2>2 DEF AskFails
    <3>3. QED
      BY <1>3, <3>1, <3>2
  <2>3. CASE Intend(p, id)
    <3>1. proc' = [proc EXCEPT ![p] = [proc[p] EXCEPT !.todo = {id},
              !.batch = proc[p].batch \ {id}, !.pc = "load", !.then = "create",
              !.jobs = <<Rewrite>>]]
      BY <1>1, <2>3 DEF Intend, Becomes, SharedLocals
    <3>2. UNCHANGED <<file, recorded, clashed>> /\ proc[p].pc # "write"
      BY <2>3 DEF Intend
    <3>3. QED
      BY <1>3, <3>1, <3>2
  <2>4. CASE Create(p, id)
    <3>1. PICK order, done :
            proc' = [proc EXCEPT ![p] = [proc[p] EXCEPT !.todo = {}, !.then = "submit",
                       !.pc = "load", !.jobs = Writes(id, Recorded(order, done))]]
      BY <2>4 DEF Create, Becomes
    <3>2. proc' = [proc EXCEPT ![p] = [proc[p] EXCEPT !.todo = {},
              !.batch = proc[p].batch, !.pc = "load", !.then = "submit",
              !.jobs = Writes(id, Recorded(order, done))]]
      BY <1>1, <3>1 DEF SharedLocals
    <3>3. RealJobs(Writes(id, Recorded(order, done)))
      BY <1>2, <1>4
    <3>4. UNCHANGED <<file, recorded, clashed>> /\ proc[p].pc # "write"
      BY <2>4 DEF Create
    <3>5. QED
      BY <3>2, <3>3, <3>4
  <2>5. CASE CreateFails(p, id)
    <3>1. proc' = [proc EXCEPT ![p] = [proc[p] EXCEPT !.todo = {}, !.batch = {},
              !.pc = "load", !.then = "submit", !.jobs = <<Rewrite>>]]
      BY <1>1, <2>5 DEF CreateFails, Becomes, SharedLocals
    <3>2. UNCHANGED <<file, recorded, clashed>> /\ proc[p].pc # "write"
      BY <2>5 DEF CreateFails
    <3>3. QED
      BY <1>3, <3>1, <3>2
  <2>6. QED
    BY <2>1, <2>2, <2>3, <2>4, <2>5
<1>6. PICK jobs, todo, batch, then :
        /\ proc' = [proc EXCEPT ![p] = [proc[p] EXCEPT !.todo = todo, !.batch = batch,
                                          !.pc = "load", !.then = then, !.jobs = jobs]]
        /\ RealJobs(jobs) /\ UNCHANGED <<file, recorded, clashed>> /\ proc[p].pc # "write"
  BY <1>5
<1> DEFINE new == [proc[p] EXCEPT !.todo = todo, !.batch = batch,
                                  !.pc = "load", !.then = then, !.jobs = jobs]
<1>7. new.pc = "load" /\ new.jobs = jobs
  BY <1>1 DEF SharedLocals
<1> HIDE DEF new
<1>8. proc' = [proc EXCEPT ![p] = new]
  BY <1>6 DEF new
<1>9. QED
  BY <1>6, <1>7, <1>8, KeepQuiet

LEMMA KeepRuns ==
  ASSUME SharedInv, KeepInv, NEW p \in Processes,
         \/ \E m \in {"trade", "reconcile"} : StartRun(p, m)
         \/ FinishAsking(p) \/ FinishSubmitting(p) \/ Crash(p)
  PROVE  KeepInv'
<1>1. proc[p] \in SharedLocals /\ RealJobs(proc[p].jobs) /\ RealJobs(<<>>)
  BY DEF SharedInv, SharedTypes, KeepInv, RealJobs
<1>2. /\ UNCHANGED <<file, recorded>>
      /\ ~clashed' => ~clashed
      /\ proc[p].pc # "write" \/ clashed'
  <2>1. CASE Crash(p)
    BY <2>1, Zenon DEF Crash
  <2>2. CASE \E m \in {"trade", "reconcile"} : StartRun(p, m)
    <3>1. proc[p].pc = "idle" /\ UNCHANGED <<file, recorded, clashed>>
      BY <2>2, Zenon DEF StartRun
    <3>2. QED
      BY <3>1
  <2>3. CASE FinishAsking(p)
    <3>1. proc[p].pc = "ask" /\ UNCHANGED <<file, recorded, clashed>>
      BY <2>3 DEF FinishAsking
    <3>2. QED
      BY <3>1
  <2>4. CASE FinishSubmitting(p)
    <3>1. proc[p].pc = "submit" /\ UNCHANGED <<file, recorded, clashed>>
      BY <2>4 DEF FinishSubmitting
    <3>2. QED
      BY <3>1
  <2>5. QED
    BY <2>1, <2>2, <2>3, <2>4
<1>3. ASSUME NEW m, NEW todo, proc' = [proc EXCEPT ![p] = [Idle EXCEPT !.pc = "ask", !.mode = m, !.todo = todo]]
      PROVE  KeepInv'
  <2> DEFINE new == [Idle EXCEPT !.pc = "ask", !.mode = m, !.todo = todo]
  <2>1. new.pc = "ask" /\ new.jobs = <<>>
    BY DEF Idle
  <2>2. proc' = [proc EXCEPT ![p] = new]
    BY <1>3
  <2> HIDE DEF new
  <2>3. QED
    BY <1>1, <1>2, <2>1, <2>2, KeepQuiet
<1>4. CASE proc' = [proc EXCEPT ![p] = Idle]
  <2>1. Idle.pc = "idle" /\ Idle.jobs = <<>>
    BY DEF Idle
  <2>2. QED
    BY <1>1, <1>2, <1>4, <2>1, KeepQuiet
<1>5. ASSUME NEW b, proc' = [proc EXCEPT ![p] = [proc[p] EXCEPT !.pc = "submit", !.batch = b]]
      PROVE  KeepInv'
  <2> DEFINE new == [proc[p] EXCEPT !.pc = "submit", !.batch = b]
  <2>1. new.pc = "submit" /\ new.jobs = proc[p].jobs
    BY <1>1 DEF SharedLocals
  <2>2. proc' = [proc EXCEPT ![p] = new]
    BY <1>5
  <2> HIDE DEF new
  <2>3. QED
    BY <1>1, <1>2, <2>1, <2>2, KeepQuiet
<1>6. QED
  BY <1>3, <1>4, <1>5 DEF StartRun, FinishAsking, FinishSubmitting, Crash, Becomes

LEMMA KeepLoad ==
  ASSUME SharedInv, KeepInv, NEW p \in Processes, Load(p)
  PROVE  KeepInv'
<1> DEFINE seen == IF InGap(p) THEN "stale" ELSE "fresh"
           new == [proc[p] EXCEPT !.pc = "truncate", !.copy = file, !.view = seen]
<1>1. /\ proc[p].pc = "load" /\ proc' = [proc EXCEPT ![p] = new]
      /\ UNCHANGED <<file, recorded, clashed>>
  BY DEF Load, Becomes
<1>2. /\ new.pc = "truncate" /\ new.copy = file /\ new.view = seen
      /\ new.jobs = proc[p].jobs
  BY DEF SharedInv, SharedTypes, SharedLocals
<1> HIDE DEF new
<1>3. /\ proc'[p] = new
      /\ \A q \in Processes : q # p => proc'[q] = proc[q]
  BY <1>1 DEF SharedInv, SharedTypes
<1>4. recorded' \subseteq Orders /\ \A q \in Processes : RealJobs(proc'[q].jobs)
  BY <1>1, <1>2, <1>3 DEF KeepInv
<1>5. ASSUME ~clashed' PROVE Intact'
  <2>1. Intact
    BY <1>1, <1>5 DEF KeepInv
  <2>2. NoWriter' <=> NoWriter
    BY <1>1, <1>2, <1>3 DEF NoWriter
  <2>3. Current(new) => NoWriter
    BY <1>1, <1>2 DEF Current, InGap, NoWriter
  <2>4. /\ \A q \in Processes : proc'[q].pc = "write" => q # p /\ proc[q].pc = "write"
        /\ \A q \in Processes : q # p => proc'[q] = proc[q]
    BY <1>2, <1>3
  <2>5. \A x, y \in Processes : Current(proc'[x]) /\ x # y => proc'[y].pc # "write"
    <3> SUFFICES ASSUME NEW x \in Processes, NEW y \in Processes, Current(proc'[x]), x # y,
                        proc'[y].pc = "write"
                 PROVE  FALSE
      OBVIOUS
    <3>1. y # p /\ proc[y].pc = "write"
      BY <2>4
    <3>2. CASE x = p
      BY <1>3, <2>3, <3>1, <3>2 DEF NoWriter
    <3>3. CASE x # p
      BY <2>1, <2>4, <3>1, <3>3 DEF Intact
    <3>4. QED
      BY <3>2, <3>3
  <2>6. \A x \in Processes : Current(proc'[x]) => Keeps(proc'[x].copy)
    BY <1>2, <1>3, <2>1, <2>3 DEF Intact
  <2>7. QED
    BY <1>1, <2>1, <2>2, <2>5, <2>6 DEF Intact, Keeps, Current
<1>6. QED
  BY <1>4, <1>5 DEF KeepInv, RealJobs

(* Whoever truncates or writes puts the copies of the others out of date.  *)
LEMMA OthersOutdated ==
  ASSUME SharedTypes, NEW p \in Processes, NEW what \in {"truncate", "write"},
         NEW q \in Processes, q # p
  PROVE  ~Current(Outdated(p, what)[q])
<1>1. proc[q] \in SharedLocals
  BY DEF SharedTypes
<1>2. CASE proc[q].pc \in {"truncate", "write"}
  <2>1. PICK v \in {"mixed", "stale"} : Outdated(p, what)[q] = [proc[q] EXCEPT !.view = v]
    BY <1>1, <1>2 DEF Outdated, SharedLocals
  <2>2. QED
    BY <1>1, <2>1 DEF Current, SharedLocals
<1>3. CASE proc[q].pc \notin {"truncate", "write"}
  BY <1>3 DEF Outdated, Current
<1>4. QED
  BY <1>2, <1>3

(* A step at the file, after which no copy but p's can be up to date.      *)
LEMMA KeepFile ==
  ASSUME SharedInv, KeepInv, NEW p \in Processes, NEW new, NEW what \in {"truncate", "write"},
         proc' = [Outdated(p, what) EXCEPT ![p] = new], recorded' \subseteq Orders,
         RealJobs(new.jobs),
         ~clashed' =>
           /\ Current(new) => \A id \in recorded' : new.copy[id].status # "NONE"
           /\ Current(new) => \A q \in Processes \ {p} : proc[q].pc # "write"
           /\ NoWriter' => Keeps(file)'
  PROVE  KeepInv'
<1>1. /\ proc'[p] = new
      /\ \A q \in Processes : q # p => SameBut(proc[q], proc'[q]) /\ ~Current(proc'[q])
  <2>1. SharedTypes
    BY DEF SharedInv
  <2>2. Outdated(p, what) \in [Processes -> SharedLocals]
    BY <2>1, OutdatedSame
  <2>3. \A q \in Processes : q # p => SameBut(proc[q], Outdated(p, what)[q])
    BY <2>1, OutdatedSame
  <2>4. QED
    BY <2>1, <2>2, <2>3, OthersOutdated
<1>2. \A q \in Processes : RealJobs(proc'[q].jobs)
  <2> SUFFICES ASSUME NEW q \in Processes PROVE RealJobs(proc'[q].jobs)
    OBVIOUS
  <2>1. CASE q = p
    BY <1>1, <2>1
  <2>2. CASE q # p
    BY <1>1, <2>2 DEF KeepInv, SameBut
  <2>3. QED
    BY <2>1, <2>2
<1>3. ASSUME ~clashed' PROVE Intact'
  <2>1. \A q \in Processes : Current(proc'[q]) => q = p
    BY <1>1
  <2>2. ASSUME NEW q \in Processes, q # p, Current(new) PROVE proc'[q].pc # "write"
    BY <1>1, <1>3, <2>2 DEF SameBut
  <2>3. Current(new) => \A id \in recorded' : proc'[p].copy[id].status # "NONE"
    BY <1>1, <1>3
  <2>4. QED
    BY <1>1, <1>3, <2>1, <2>2, <2>3 DEF Intact, Keeps, Current
<1>4. QED
  BY <1>2, <1>3 DEF KeepInv, RealJobs

LEMMA KeepTruncate ==
  ASSUME SharedInv, KeepInv, NEW p \in Processes, Truncate(p)
  PROVE  KeepInv'
<1> DEFINE old == Outdated(p, "truncate")[p]
           new == [old EXCEPT !.pc = "write"]
<1>1. /\ proc[p].pc = "truncate" /\ UNCHANGED <<recorded, clashed>>
      /\ proc' = [Outdated(p, "truncate") EXCEPT ![p] = new]
  BY DEF Truncate
<1>2. old = proc[p] /\ proc[p] \in SharedLocals
  BY DEF Outdated, SharedInv, SharedTypes
<1>3. /\ new.pc = "write" /\ new.copy = proc[p].copy /\ new.view = proc[p].view
      /\ new.jobs = proc[p].jobs /\ new \in SharedLocals
  BY <1>2 DEF SharedLocals
<1> HIDE DEF new, old
<1>4. proc'[p] = new
  BY <1>1, OutdatedSame DEF SharedInv
<1>5. ~NoWriter'
  BY <1>3, <1>4 DEF NoWriter
<1>6. Current(new) => Current(proc[p])
  BY <1>1, <1>3 DEF Current
<1>7. ~clashed' =>
        /\ Current(new) => \A id \in recorded' : new.copy[id].status # "NONE"
        /\ Current(new) => \A q \in Processes \ {p} : proc[q].pc # "write"
  BY <1>1, <1>3, <1>6 DEF KeepInv, Intact, Keeps
<1>8. QED
  <2>1. RealJobs(new.jobs) /\ recorded' \subseteq Orders
    BY <1>1, <1>3 DEF KeepInv
  <2>2. QED
    BY <1>1, <1>5, <1>7, <2>1, KeepFile

LEMMA KeepWrite ==
  ASSUME SharedInv, KeepInv, NEW p \in Processes, Write(p)
  PROVE  KeepInv'
<1> DEFINE job  == Head(proc[p].jobs)
           rest == Tail(proc[p].jobs)
           new  == [proc[p] EXCEPT !.jobs = rest, !.copy = Nothing, !.view = "fresh",
                                   !.pc = IF rest = <<>> THEN proc[p].then ELSE "load"]
<1>1. /\ proc[p].pc = "write"
      /\ file' = Applied(job, proc[p].copy) \/ proc[p].view = "mixed"
      /\ recorded' = recorded \cup {u.id : u \in job}
      /\ clashed' = (clashed \/ proc[p].view # "fresh")
      /\ proc' = [Outdated(p, "write") EXCEPT ![p] = new]
  BY DEF Write
<1>2. /\ proc[p] \in SharedLocals /\ proc[p].jobs \in Seq(Job) /\ proc[p].jobs # <<>>
      /\ proc[p].copy \in [Orders -> Row]
  BY <1>1 DEF SharedInv, SharedTypes, SharedLocals, HasJob, Writing
<1>3. /\ job \in Job /\ rest \in Seq(Job) /\ job = proc[p].jobs[1]
      /\ 1 \in 1 .. Len(proc[p].jobs)
      /\ \A i \in 1 .. Len(rest) : i + 1 \in 1 .. Len(proc[p].jobs) /\ rest[i] = proc[p].jobs[i + 1]
  BY <1>2
<1>4. RealJobs(proc[p].jobs)
  BY DEF KeepInv
<1>5. (\A u \in job : u.row.status # "NONE") /\ RealJobs(rest)
  BY <1>3, <1>4 DEF RealJobs
<1>6. /\ new.jobs = rest /\ new.pc \notin {"truncate", "write"} /\ ~Current(new)
  <2> HIDE DEF rest
  <2>1. QED
    BY <1>2 DEF SharedLocals, Current
<1>7. recorded' \subseteq Orders
  BY <1>1, <1>3 DEF KeepInv, Job
<1> HIDE DEF new, rest
<1>8. ~clashed' => Keeps(file)'
  <2> SUFFICES ASSUME ~clashed' PROVE \A id \in recorded' : file'[id].status # "NONE"
    BY DEF Keeps
  <2>1. ~clashed /\ proc[p].view = "fresh" /\ file' = Applied(job, proc[p].copy)
    BY <1>1
  <2>2. Keeps(proc[p].copy)
    BY <1>1, <2>1 DEF KeepInv, Intact, Current
  <2> SUFFICES ASSUME NEW id \in recorded' PROVE Applied(job, proc[p].copy)[id].status # "NONE"
    BY <2>1
  <2>3. id \in Orders
    BY <1>7
  <2> HIDE DEF job
  <2>4. CASE \E u \in job : u.id = id
    <3>1. PICK u \in job : u.id = id /\ u = CHOOSE v \in job : v.id = id
      BY <2>4
    <3>2. Applied(job, proc[p].copy)[id] = u.row
      BY <2>3, <3>1 DEF Applied
    <3>3. QED
      BY <1>5, <3>1, <3>2
  <2>5. CASE ~\E u \in job : u.id = id
    <3>1. id \in recorded
      BY <1>1, <2>5
    <3>2. Applied(job, proc[p].copy)[id] = proc[p].copy[id]
      BY <2>3, <2>5 DEF Applied
    <3>3. QED
      BY <2>2, <3>1, <3>2 DEF Keeps
  <2>6. QED
    BY <2>4, <2>5
<1>9. QED
  BY <1>1, <1>5, <1>6, <1>7, <1>8, KeepFile

LEMMA KeepSame ==
  KeepInv /\ UNCHANGED <<file, proc, recorded, clashed>> => KeepInv'
BY DEF KeepInv, RealJobs, Intact, Current, Keeps, NoWriter

LEMMA KeepStep == SharedInv /\ KeepInv /\ [OverlapNext]_overlapVars => KeepInv'
<1> SUFFICES ASSUME SharedInv, KeepInv, [OverlapNext]_overlapVars PROVE KeepInv'
  OBVIOUS
<1>1. ASSUME NEW p \in Processes, Step(p) PROVE KeepInv'
  BY <1>1, KeepCalls, KeepRuns, KeepLoad, KeepTruncate, KeepWrite DEF Step
<1>2. ASSUME NEW p \in Processes,
             Crash(p) \/ \E m \in {"trade", "reconcile"} : StartRun(p, m)
      PROVE  KeepInv'
  BY <1>2, KeepRuns
<1>3. ASSUME NEW id \in Orders, ExchangeFill(id) \/ ExchangeCancel(id) PROVE KeepInv'
  BY <1>3, KeepSame DEF ExchangeFill, ExchangeCancel
<1>4. QED
  BY <1>1, <1>2, <1>3, KeepSame DEF OverlapNext, overlapVars

(* Commands may overlap as they like: as long as no load-and-write of one  *)
(* (LiveStateStore.upsert, append_unique) falls into that of another, and  *)
(* none dies in the gap of its own, every row that was written is there.   *)
THEOREM RowsKept == OverlapSpec => []DisjointWritesKeepRows
<1>1. OverlapInit => KeepInv
  BY DEF OverlapInit, KeepInv, Intact, Current, Keeps, RealJobs, Idle
<1>2. SharedInv /\ KeepInv /\ [OverlapNext]_overlapVars => KeepInv'
  BY KeepStep
<1>3. KeepInv => DisjointWritesKeepRows
  BY DEF KeepInv, Intact, NoWriter, Keeps, DisjointWritesKeepRows
<1>4. QED
  BY <1>1, <1>2, <1>3, SharedInvariant, PTL DEF OverlapSpec
=============================================================================
