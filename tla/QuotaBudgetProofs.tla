------------------------- MODULE QuotaBudgetProofs --------------------------
(***************************************************************************)
(* The budgets of QuotaBudget for any commands, budgets and days, and      *)
(* therefore for the commands of Collector.                                *)
(*                                                                         *)
(* The argument is about the credits granted, sent or not, and the ledger  *)
(* in effect: the file, or what the holder of the lock is about to write.  *)
(* A run has no more than the ledger says of it, and a budget more for     *)
(* every time its count was lost: to a crash, or to the turn of another.   *)
(***************************************************************************)
EXTENDS Collector, FiniteSetTheorems, SequenceTheorems, TLAPS

Effective == IF lock = None THEN ledger ELSE text[lock]
Asking == {r \in Runs : pc[r] \in {"write", "send"}}
Granted == sent \cup {Request(r) : r \in Asking}

By(r) == {q \in Granted : q[1] = r}
On(d) == {q \in Granted : q[3] = d}
Under(t) == {q \in Granted : TrancheOf[q[1]] = t}

(* The lock is held exactly by the command that writes, and the file is    *)
(* empty while it is.                                                      *)
Locked ==
  /\ lock # None => pc[lock] \in {"write", "rewrite"} /\ ledger = Blank
  /\ \A r \in Runs : pc[r] \in {"write", "rewrite"} => lock = r

Dated ==
  /\ \A r \in Runs : stamp[r] <= today
  /\ \A r \in Runs : pc[r] \in {"wait", "write", "send"} => stamp[r] >= 1
  /\ Effective.day <= today

Pending == \A r \in Runs : pc[r] \in {"stamp", "wait", "write", "send"} => left[r] > 0

WithinBudget ==
  /\ Effective.runUsed <= MaxRun
  /\ Effective.dayUsed <= MaxDay
  /\ Effective.trancheUsed <= MaxTranche

UsedBy(r) == IF Effective.run = r THEN Effective.runUsed ELSE 0
UsedUnder(t) == IF Effective.tranche = t THEN Effective.trancheUsed ELSE 0
UsedOn(d) ==
  IF Effective.day = d THEN Effective.dayUsed ELSE IF d < today THEN MaxDay ELSE 0

Counted ==
  /\ IsFiniteSet(Granted)
  /\ \A r \in Runs : Cardinality(By(r)) <= UsedBy(r) + MaxRun * (tears + turns.run)
  /\ \A t \in Tranches :
       Cardinality(Under(t)) <= UsedUnder(t) + MaxTranche * (tears + turns.tranche)
  /\ \A d \in 1 .. Days : Cardinality(On(d)) <= UsedOn(d) + MaxDay * (tears + late)

Inv == TypeOK /\ Locked /\ Dated /\ Pending /\ WithinBudget /\ Counted

-----------------------------------------------------------------------------
(* Arithmetic and cardinalities. *)

LEMMA Spend ==
  ASSUME NEW c \in Nat, NEW n \in Nat, NEW u \in Nat, NEW m \in Nat, NEW x \in Nat,
         c <= u + m * x, n <= c + 1
  PROVE  n <= u + 1 + m * x
OBVIOUS

(* A count that is lost is worth a budget. *)
LEMMA Forget ==
  ASSUME NEW c \in Nat, NEW n \in Nat, NEW u \in Nat, NEW m \in Nat, NEW x \in Nat,
         NEW v \in Nat, c <= u + m * x, u <= m, n <= c
  PROVE  n <= v + m * (x + 1)
OBVIOUS

(* A bound that does not get tighter. *)
LEMMA Wider ==
  ASSUME NEW c \in Nat, NEW n \in Nat, NEW u \in Nat, NEW m \in Nat, NEW x \in Nat,
         NEW v \in Nat, NEW y \in Nat, c <= u + m * x, u <= v, x <= y, n <= c
  PROVE  n <= v + m * y
<1>1. m * x <= m * y /\ m * x \in Nat /\ m * y \in Nat
  <2>1. PICK z \in Nat : y = x + z
    BY y - x \in Nat
  <2>2. m * y = m * x + m * z /\ m * z \in Nat /\ m * x \in Nat
    BY <2>1
  <2>. QED
    BY <2>2
<1>. QED
  BY <1>1

LEMMA Fewer ==
  ASSUME NEW S, NEW T, IsFiniteSet(S), T \subseteq S
  PROVE  /\ IsFiniteSet(T) /\ Cardinality(T) <= Cardinality(S)
         /\ Cardinality(T) \in Nat /\ Cardinality(S) \in Nat
BY FS_Subset, FS_CardinalityType

LEMMA OneMore ==
  ASSUME NEW S, NEW T, NEW x, IsFiniteSet(S), T \subseteq S \cup {x}
  PROVE  /\ IsFiniteSet(T) /\ Cardinality(T) <= Cardinality(S) + 1
         /\ Cardinality(T) \in Nat /\ Cardinality(S) \in Nat
<1>1. Cardinality(S) \in Nat
  BY FS_CardinalityType
<1>2. /\ IsFiniteSet(S \cup {x})
      /\ Cardinality(S \cup {x}) \in {Cardinality(S), Cardinality(S) + 1}
  BY FS_AddElement
<1>3. /\ IsFiniteSet(T) /\ Cardinality(T) \in Nat
      /\ Cardinality(T) <= Cardinality(S \cup {x})
  BY <1>2, Fewer
<1>. QED
  BY <1>1, <1>2, <1>3

-----------------------------------------------------------------------------
(* What an action leaves as it was, or keeps. *)

LEMMA InitInv == Init => Inv
<1>. SUFFICES ASSUME Init PROVE Inv
  OBVIOUS
<1>. USE RunAssumption, BudgetAssumption DEF Init
<1>1. Granted = {}
  BY DEF Granted, Asking
<1>2. TypeOK
  BY FS_EmptySet DEF TypeOK, Ledgers, Blank, States
<1>3. Locked /\ Dated /\ Pending /\ WithinBudget
  BY DEF Locked, Dated, Pending, WithinBudget, Effective, Blank
<1>4. Counted
  <2>1. /\ IsFiniteSet(Granted)
        /\ \A r : By(r) = {} /\ Under(r) = {} /\ On(r) = {}
    BY <1>1, FS_EmptySet DEF By, Under, On
  <2>2. Cardinality({}) = 0
    BY FS_EmptySet
  <2>3. \A k : UsedBy(k) = 0 /\ UsedUnder(k) = 0
    BY DEF UsedBy, UsedUnder, Effective, Blank
  <2>4. \A d \in 1 .. Days : UsedOn(d) = 0
    BY DEF UsedOn, Effective, Blank
  <2>5. tears = 0 /\ late = 0 /\ turns.run = 0 /\ turns.tranche = 0
    OBVIOUS
  <2>6. \A m \in Nat : 0 <= 0 + m * (0 + 0)
    OBVIOUS
  <2>. QED
    BY <2>1, <2>2, <2>3, <2>4, <2>5, <2>6 DEF Counted
<1>. QED
  BY <1>2, <1>3, <1>4 DEF Inv

(* Types are preserved. *)
LEMMA TypePreserved ==
  ASSUME Inv, [Next]_quota
  PROVE  TypeOK'
<1>. USE RunAssumption, BudgetAssumption DEF Inv, quota, history, TypeOK, States, Ledgers, Blank, Request, Pending, Dated
<1>1. ASSUME NEW r \in Runs, Start(r) PROVE TypeOK'
  BY <1>1 DEF Start
<1>2. ASSUME NEW r \in Runs, ReadClock(r) PROVE TypeOK'
  BY <1>2 DEF ReadClock
<1>3. ASSUME NEW r \in Runs, Consume(r) PROVE TypeOK'
  <2>1. Persisted(r) \in Ledgers
    BY <1>3 DEF Persisted, RunUsed, DayUsed, TrancheUsed
  <2>2. text' \in [Runs -> Ledgers] /\ ledger' \in Ledgers /\ lock' = r
    BY <1>3, <2>1 DEF Consume, Truncate
  <2>3. late' \in Nat /\ turns' \in [run : Nat, tranche : Nat] /\ tears' \in Nat /\ crashes' \in Nat
    BY <1>3 DEF Consume, Turn
  <2>4. pc' \in [Runs -> States] /\ UNCHANGED <<today, stamp, left, sent>>
    BY <1>3 DEF Consume
  <2>. QED
    BY <2>2, <2>3, <2>4
<1>4. ASSUME NEW r \in Runs, Refuse(r) PROVE TypeOK'
  BY <1>4 DEF Refuse, GiveUp
<1>5. ASSUME NEW r \in Runs, Persist(r) PROVE TypeOK'
  BY <1>5 DEF Persist, Write
<1>6. ASSUME NEW r \in Runs, Send(r) PROVE TypeOK'
  <2>1. Request(r) \in Runs \X Nat \X (1 .. Days)
    BY <1>6 DEF Send, GiveUp
  <2>2. sent' \subseteq Runs \X Nat \X (1 .. Days) /\ IsFiniteSet(sent')
    BY <1>6, <2>1, FS_AddElement DEF Send, GiveUp
  <2>3. /\ left' \in [Runs -> Nat] /\ stamp' \in [Runs -> 0 .. Days]
        /\ pc' \in [Runs -> States]
    BY <1>6 DEF Send, GiveUp
  <2>4. UNCHANGED <<today, ledger, lock, text, history>>
    BY <1>6 DEF Send, GiveUp
  <2>. QED
    BY <2>2, <2>3, <2>4
<1>7. ASSUME NEW r \in Runs, Reconcile(r) PROVE TypeOK'
  BY <1>7 DEF Reconcile, Truncate
<1>8. ASSUME NEW r \in Runs, NoHeaders(r) PROVE TypeOK'
  BY <1>8 DEF NoHeaders, NextRequest
<1>9. ASSUME NEW r \in Runs, Rewrite(r) PROVE TypeOK'
  BY <1>9 DEF Rewrite, Write, NextRequest
<1>10. ASSUME NEW r \in Runs, Crash(r) PROVE TypeOK'
  BY <1>10 DEF Crash, Ended
<1>11. CASE Midnight
  BY <1>11 DEF Midnight
<1>12. CASE UNCHANGED quota
  BY <1>12
<1>. QED
  BY <1>1, <1>2, <1>3, <1>4, <1>5, <1>6, <1>7, <1>8, <1>9, <1>10, <1>11, <1>12 DEF Next, Work

(* Nobody takes the lock of another, or writes without it. *)
LEMMA LockedPreserved ==
  ASSUME Inv, [Next]_quota
  PROVE  Locked'
<1>. USE RunAssumption, BudgetAssumption DEF Inv, quota, history, TypeOK, States, Locked
<1>1. ASSUME NEW r \in Runs, Start(r) PROVE Locked'
  BY <1>1 DEF Start
<1>2. ASSUME NEW r \in Runs, ReadClock(r) PROVE Locked'
  BY <1>2 DEF ReadClock
<1>3. ASSUME NEW r \in Runs, Consume(r) PROVE Locked'
  BY <1>3 DEF Consume, Truncate, Persisted
<1>4. ASSUME NEW r \in Runs, Refuse(r) PROVE Locked'
  BY <1>4 DEF Refuse, GiveUp
<1>5. ASSUME NEW r \in Runs, Persist(r) PROVE Locked'
  BY <1>5 DEF Persist, Write
<1>6. ASSUME NEW r \in Runs, Send(r) PROVE Locked'
  BY <1>6 DEF Send, GiveUp
<1>7. ASSUME NEW r \in Runs, Reconcile(r) PROVE Locked'
  BY <1>7 DEF Reconcile, Truncate
<1>8. ASSUME NEW r \in Runs, NoHeaders(r) PROVE Locked'
  BY <1>8 DEF NoHeaders, NextRequest
<1>9. ASSUME NEW r \in Runs, Rewrite(r) PROVE Locked'
  BY <1>9 DEF Rewrite, Write, NextRequest
<1>10. ASSUME NEW r \in Runs, Crash(r) PROVE Locked'
  BY <1>10 DEF Crash, Ended
<1>11. CASE Midnight
  BY <1>11 DEF Midnight
<1>12. CASE UNCHANGED quota
  BY <1>12
<1>. QED
  BY <1>1, <1>2, <1>3, <1>4, <1>5, <1>6, <1>7, <1>8, <1>9, <1>10, <1>11, <1>12 DEF Next, Work

(* Who asks for a credit has a request to send. *)
LEMMA PendingPreserved ==
  ASSUME Inv, [Next]_quota
  PROVE  Pending'
<1>. USE RunAssumption, BudgetAssumption DEF Inv, quota, history, TypeOK, States, Pending
<1>1. ASSUME NEW r \in Runs, Start(r) PROVE Pending'
  BY <1>1 DEF Start
<1>2. ASSUME NEW r \in Runs, ReadClock(r) PROVE Pending'
  BY <1>2 DEF ReadClock
<1>3. ASSUME NEW r \in Runs, Consume(r) PROVE Pending'
  BY <1>3 DEF Consume, Truncate, Persisted
<1>4. ASSUME NEW r \in Runs, Refuse(r) PROVE Pending'
  BY <1>4 DEF Refuse, GiveUp
<1>5. ASSUME NEW r \in Runs, Persist(r) PROVE Pending'
  BY <1>5 DEF Persist, Write
<1>6. ASSUME NEW r \in Runs, Send(r) PROVE Pending'
  BY <1>6 DEF Send, GiveUp
<1>7. ASSUME NEW r \in Runs, Reconcile(r) PROVE Pending'
  BY <1>7 DEF Reconcile, Truncate
<1>8. ASSUME NEW r \in Runs, NoHeaders(r) PROVE Pending'
  BY <1>8 DEF NoHeaders, NextRequest
<1>9. ASSUME NEW r \in Runs, Rewrite(r) PROVE Pending'
  BY <1>9 DEF Rewrite, Write, NextRequest
<1>10. ASSUME NEW r \in Runs, Crash(r) PROVE Pending'
  BY <1>10 DEF Crash, Ended
<1>11. CASE Midnight
  BY <1>11 DEF Midnight
<1>12. CASE UNCHANGED quota
  BY <1>12
<1>. QED
  BY <1>1, <1>2, <1>3, <1>4, <1>5, <1>6, <1>7, <1>8, <1>9, <1>10, <1>11, <1>12 DEF Next, Work

(* No day is in the future. *)
LEMMA DatedPreserved ==
  ASSUME Inv, [Next]_quota
  PROVE  Dated'
<1>. USE RunAssumption, BudgetAssumption DEF Inv, quota, history, TypeOK, States, Ledgers, Blank, Locked, Dated, Effective
<1>1. ASSUME NEW r \in Runs, Start(r) PROVE Dated'
  BY <1>1 DEF Start
<1>2. ASSUME NEW r \in Runs, ReadClock(r) PROVE Dated'
  BY <1>2 DEF ReadClock
<1>3. ASSUME NEW r \in Runs, Consume(r) PROVE Dated'
  BY <1>3 DEF Consume, Truncate, Persisted
<1>4. ASSUME NEW r \in Runs, Refuse(r) PROVE Dated'
  BY <1>4 DEF Refuse, GiveUp
<1>5. ASSUME NEW r \in Runs, Persist(r) PROVE Dated'
  BY <1>5 DEF Persist, Write
<1>6. ASSUME NEW r \in Runs, Send(r) PROVE Dated'
  BY <1>6 DEF Send, GiveUp
<1>7. ASSUME NEW r \in Runs, Reconcile(r) PROVE Dated'
  BY <1>7 DEF Reconcile, Truncate
<1>8. ASSUME NEW r \in Runs, NoHeaders(r) PROVE Dated'
  BY <1>8 DEF NoHeaders, NextRequest
<1>9. ASSUME NEW r \in Runs, Rewrite(r) PROVE Dated'
  BY <1>9 DEF Rewrite, Write, NextRequest
<1>10. ASSUME NEW r \in Runs, Crash(r) PROVE Dated'
  BY <1>10 DEF Crash, Ended
<1>11. CASE Midnight
  BY <1>11 DEF Midnight
<1>12. CASE UNCHANGED quota
  BY <1>12
<1>. QED
  BY <1>1, <1>2, <1>3, <1>4, <1>5, <1>6, <1>7, <1>8, <1>9, <1>10, <1>11, <1>12 DEF Next, Work

(* A ledger over budget is never written. *)
LEMMA BudgetPreserved ==
  ASSUME Inv, [Next]_quota
  PROVE  WithinBudget'
<1>. USE RunAssumption, BudgetAssumption DEF Inv, quota, history, TypeOK, States, Ledgers, Blank, Locked, WithinBudget, Effective, Check, RunUsed, DayUsed, TrancheUsed
<1>1. ASSUME NEW r \in Runs, Start(r) PROVE WithinBudget'
  BY <1>1 DEF Start
<1>2. ASSUME NEW r \in Runs, ReadClock(r) PROVE WithinBudget'
  BY <1>2 DEF ReadClock
<1>3. ASSUME NEW r \in Runs, Consume(r) PROVE WithinBudget'
  BY <1>3 DEF Consume, Truncate, Persisted
<1>4. ASSUME NEW r \in Runs, Refuse(r) PROVE WithinBudget'
  BY <1>4 DEF Refuse, GiveUp
<1>5. ASSUME NEW r \in Runs, Persist(r) PROVE WithinBudget'
  BY <1>5 DEF Persist, Write
<1>6. ASSUME NEW r \in Runs, Send(r) PROVE WithinBudget'
  BY <1>6 DEF Send, GiveUp
<1>7. ASSUME NEW r \in Runs, Reconcile(r) PROVE WithinBudget'
  BY <1>7 DEF Reconcile, Truncate
<1>8. ASSUME NEW r \in Runs, NoHeaders(r) PROVE WithinBudget'
  BY <1>8 DEF NoHeaders, NextRequest
<1>9. ASSUME NEW r \in Runs, Rewrite(r) PROVE WithinBudget'
  BY <1>9 DEF Rewrite, Write, NextRequest
<1>10. ASSUME NEW r \in Runs, Crash(r) PROVE WithinBudget'
  BY <1>10 DEF Crash, Ended
<1>11. CASE Midnight
  BY <1>11 DEF Midnight
<1>12. CASE UNCHANGED quota
  BY <1>12
<1>. QED
  BY <1>1, <1>2, <1>3, <1>4, <1>5, <1>6, <1>7, <1>8, <1>9, <1>10, <1>11, <1>12 DEF Next, Work

-----------------------------------------------------------------------------
(* The three ways the counts change. *)

Quiet ==
  /\ Granted' \subseteq Granted /\ Effective' = Effective
  /\ UNCHANGED <<tears, late, turns>> /\ today <= today'

Torn ==
  /\ Granted' \subseteq Granted /\ Effective' = Blank
  /\ tears' = tears + 1
  /\ UNCHANGED <<late, turns, today>>

LEMMA ThreeWays ==
  ASSUME Inv, [Next]_quota
  PROVE  Quiet \/ Torn \/ \E r \in Runs : Consume(r)
<1>. USE RunAssumption, BudgetAssumption
     DEF Inv, quota, history, TypeOK, States, Locked, Effective, Granted, Asking, Request, Quiet
<1>1. ASSUME NEW r \in Runs, Start(r) PROVE Quiet
  BY <1>1 DEF Start
<1>2. ASSUME NEW r \in Runs, ReadClock(r) PROVE Quiet
  BY <1>2 DEF ReadClock
<1>3. ASSUME NEW r \in Runs, Refuse(r) PROVE Quiet
  BY <1>3 DEF Refuse, GiveUp
<1>4. ASSUME NEW r \in Runs, Persist(r) PROVE Quiet
  BY <1>4 DEF Persist, Write
<1>5. ASSUME NEW r \in Runs, Send(r) PROVE Quiet
  BY <1>5 DEF Send, GiveUp
<1>6. ASSUME NEW r \in Runs, Reconcile(r) PROVE Quiet
  BY <1>6 DEF Reconcile, Truncate
<1>7. ASSUME NEW r \in Runs, NoHeaders(r) PROVE Quiet
  BY <1>7 DEF NoHeaders, NextRequest
<1>8. ASSUME NEW r \in Runs, Rewrite(r) PROVE Quiet
  BY <1>8 DEF Rewrite, Write, NextRequest
<1>9. ASSUME NEW r \in Runs, Crash(r) PROVE Quiet \/ Torn
  <2>1. CASE lock = r
    BY <1>9, <2>1 DEF Crash, Ended, Torn
  <2>2. CASE lock # r
    BY <1>9, <2>2 DEF Crash, Ended
  <2>. QED
    BY <2>1, <2>2
<1>10. CASE Midnight
  BY <1>10 DEF Midnight
<1>11. CASE UNCHANGED quota
  BY <1>11
<1>. QED
  BY <1>1, <1>2, <1>3, <1>4, <1>5, <1>6, <1>7, <1>8, <1>9, <1>10, <1>11 DEF Next, Work

(* The numbers of the counts. *)
LEMMA Numbers ==
  ASSUME Inv
  PROVE  /\ tears \in Nat /\ late \in Nat /\ turns.run \in Nat /\ turns.tranche \in Nat
         /\ MaxRun \in Nat /\ MaxDay \in Nat /\ MaxTranche \in Nat
         /\ Effective \in Ledgers
         /\ \A r \in Runs : UsedBy(r) \in Nat /\ UsedBy(r) <= MaxRun
         /\ \A t \in Tranches : UsedUnder(t) \in Nat /\ UsedUnder(t) <= MaxTranche
         /\ \A d \in 1 .. Days : UsedOn(d) \in Nat /\ UsedOn(d) <= MaxDay
         /\ \A k : /\ IsFiniteSet(By(k)) /\ IsFiniteSet(Under(k)) /\ IsFiniteSet(On(k))
                   /\ Cardinality(By(k)) \in Nat /\ Cardinality(Under(k)) \in Nat
                   /\ Cardinality(On(k)) \in Nat
<1>1. Effective \in Ledgers
  BY DEF Inv, TypeOK, Effective
<1>2. /\ tears \in Nat /\ late \in Nat /\ turns.run \in Nat /\ turns.tranche \in Nat
      /\ MaxRun \in Nat /\ MaxDay \in Nat /\ MaxTranche \in Nat
  BY BudgetAssumption DEF Inv, TypeOK
<1>3. /\ \A r \in Runs : UsedBy(r) \in Nat /\ UsedBy(r) <= MaxRun
      /\ \A t \in Tranches : UsedUnder(t) \in Nat /\ UsedUnder(t) <= MaxTranche
      /\ \A d \in 1 .. Days : UsedOn(d) \in Nat /\ UsedOn(d) <= MaxDay
  BY <1>1, <1>2 DEF Inv, WithinBudget, UsedBy, UsedUnder, UsedOn, Ledgers
<1>4. IsFiniteSet(Granted)
  BY DEF Inv, Counted
<1>5. ASSUME NEW k
      PROVE  By(k) \subseteq Granted /\ Under(k) \subseteq Granted /\ On(k) \subseteq Granted
  BY DEF By, Under, On
<1>. QED
  BY <1>1, <1>2, <1>3, <1>4, <1>5, Fewer

LEMMA QuietCounts ==
  ASSUME Inv, TypeOK', WithinBudget', Quiet
  PROVE  Counted'
<1>1. IsFiniteSet(Granted') /\ \A k : By(k)' \subseteq By(k) /\ Under(k)' \subseteq Under(k) /\ On(k)' \subseteq On(k)
  BY Fewer DEF Quiet, Inv, Counted, By, Under, On
<1>2. \A k : /\ Cardinality(By(k)') <= Cardinality(By(k)) /\ Cardinality(By(k)') \in Nat
             /\ Cardinality(Under(k)') <= Cardinality(Under(k)) /\ Cardinality(Under(k)') \in Nat
             /\ Cardinality(On(k)') <= Cardinality(On(k)) /\ Cardinality(On(k)') \in Nat
  BY <1>1, Numbers, Fewer
<1>3. ASSUME NEW r \in Runs
      PROVE  Cardinality(By(r)') <= UsedBy(r)' + MaxRun * (tears' + turns'.run)
  <2>1. UsedBy(r)' = UsedBy(r) /\ tears' + turns'.run = tears + turns.run /\ tears + turns.run \in Nat
    BY Numbers DEF Quiet, UsedBy
  <2>2. Cardinality(By(r)) <= UsedBy(r) + MaxRun * (tears + turns.run)
    BY DEF Inv, Counted
  <2>3. Cardinality(By(r)') <= UsedBy(r) + MaxRun * (tears + turns.run)
    BY <1>2, <2>1, <2>2, Numbers, Wider
  <2>. QED
    BY <2>1, <2>3
<1>4. ASSUME NEW t \in Tranches
      PROVE  Cardinality(Under(t)') <= UsedUnder(t)' + MaxTranche * (tears' + turns'.tranche)
  <2>1. UsedUnder(t)' = UsedUnder(t) /\ tears' + turns'.tranche = tears + turns.tranche /\ tears + turns.tranche \in Nat
    BY Numbers DEF Quiet, UsedUnder
  <2>2. Cardinality(Under(t)) <= UsedUnder(t) + MaxTranche * (tears + turns.tranche)
    BY DEF Inv, Counted
  <2>3. Cardinality(Under(t)') <= UsedUnder(t) + MaxTranche * (tears + turns.tranche)
    BY <1>2, <2>1, <2>2, Numbers, Wider
  <2>. QED
    BY <2>1, <2>3
<1>5. ASSUME NEW d \in 1 .. Days
      PROVE  Cardinality(On(d)') <= UsedOn(d)' + MaxDay * (tears' + late')
  <2>1. UsedOn(d) <= UsedOn(d)' /\ UsedOn(d)' \in Nat /\ tears' + late' = tears + late /\ tears + late \in Nat
    BY Numbers DEF Quiet, UsedOn, Ledgers, Inv, TypeOK, WithinBudget
  <2>2. Cardinality(On(d)) <= UsedOn(d) + MaxDay * (tears + late)
    BY DEF Inv, Counted
  <2>3. Cardinality(On(d)') <= UsedOn(d)' + MaxDay * (tears + late)
    BY <1>2, <2>1, <2>2, Numbers, Wider
  <2>. QED
    BY <2>1, <2>3
<1>. QED
  BY <1>1, <1>3, <1>4, <1>5 DEF Counted

LEMMA TornCounts ==
  ASSUME Inv, TypeOK', Torn
  PROVE  Counted'
<1>1. IsFiniteSet(Granted') /\ \A k : By(k)' \subseteq By(k) /\ Under(k)' \subseteq Under(k) /\ On(k)' \subseteq On(k)
  BY Fewer DEF Torn, Inv, Counted, By, Under, On
<1>2. \A k : /\ Cardinality(By(k)') <= Cardinality(By(k)) /\ Cardinality(By(k)') \in Nat
             /\ Cardinality(Under(k)') <= Cardinality(Under(k)) /\ Cardinality(Under(k)') \in Nat
             /\ Cardinality(On(k)') <= Cardinality(On(k)) /\ Cardinality(On(k)') \in Nat
  BY <1>1, Numbers, Fewer
<1>3. ASSUME NEW r \in Runs
      PROVE  Cardinality(By(r)') <= UsedBy(r)' + MaxRun * (tears' + turns'.run)
  <2>1. UsedBy(r)' \in Nat /\ tears' + turns'.run = (tears + turns.run) + 1 /\ tears + turns.run \in Nat
    BY Numbers DEF Torn, UsedBy, Blank
  <2>2. Cardinality(By(r)) <= UsedBy(r) + MaxRun * (tears + turns.run)
    BY DEF Inv, Counted
  <2>3. Cardinality(By(r)') <= UsedBy(r)' + MaxRun * ((tears + turns.run) + 1)
    BY <1>2, <2>1, <2>2, Numbers, Forget
  <2>. QED
    BY <2>1, <2>3
<1>4. ASSUME NEW t \in Tranches
      PROVE  Cardinality(Under(t)') <= UsedUnder(t)' + MaxTranche * (tears' + turns'.tranche)
  <2>1. UsedUnder(t)' \in Nat /\ tears' + turns'.tranche = (tears + turns.tranche) + 1 /\ tears + turns.tranche \in Nat
    BY Numbers DEF Torn, UsedUnder, Blank
  <2>2. Cardinality(Under(t)) <= UsedUnder(t) + MaxTranche * (tears + turns.tranche)
    BY DEF Inv, Counted
  <2>3. Cardinality(Under(t)') <= UsedUnder(t)' + MaxTranche * ((tears + turns.tranche) + 1)
    BY <1>2, <2>1, <2>2, Numbers, Forget
  <2>. QED
    BY <2>1, <2>3
<1>5. ASSUME NEW d \in 1 .. Days
      PROVE  Cardinality(On(d)') <= UsedOn(d)' + MaxDay * (tears' + late')
  <2>1. UsedOn(d)' \in Nat /\ tears' + late' = (tears + late) + 1 /\ tears + late \in Nat
    BY Numbers DEF Torn, UsedOn, Blank
  <2>2. Cardinality(On(d)) <= UsedOn(d) + MaxDay * (tears + late)
    BY DEF Inv, Counted
  <2>3. Cardinality(On(d)') <= UsedOn(d)' + MaxDay * ((tears + late) + 1)
    BY <1>2, <2>1, <2>2, Numbers, Forget
  <2>. QED
    BY <2>1, <2>3
<1>. QED
  BY <1>1, <1>3, <1>4, <1>5 DEF Counted

(* What a credit that is taken changes. *)
LEMMA Taken ==
  ASSUME Inv, NEW r \in Runs, Consume(r)
  PROVE  /\ Effective = ledger /\ Effective' = Persisted(r)
         /\ ledger.day <= today /\ stamp[r] \in 1 .. Days /\ stamp[r] <= today
         /\ TrancheOf[r] \in Tranches /\ tears' = tears /\ today' = today
         /\ IsFiniteSet(Granted')
         /\ \A k : /\ Cardinality(By(k)') <= Cardinality(By(k)) + 1 /\ Cardinality(By(k)') \in Nat
                   /\ Cardinality(Under(k)') <= Cardinality(Under(k)) + 1 /\ Cardinality(Under(k)') \in Nat
                   /\ Cardinality(On(k)') <= Cardinality(On(k)) + 1 /\ Cardinality(On(k)') \in Nat
         /\ \A k : /\ k # r => Cardinality(By(k)') <= Cardinality(By(k))
                   /\ k # TrancheOf[r] => Cardinality(Under(k)') <= Cardinality(Under(k))
                   /\ k # stamp[r] => Cardinality(On(k)') <= Cardinality(On(k))
<1>. DEFINE t0 == TrancheOf[r]
            d0 == stamp[r]
<1>1. /\ Effective = ledger /\ Effective' = Persisted(r)
      /\ ledger.day <= today /\ d0 \in 1 .. Days /\ d0 <= today /\ t0 \in Tranches
      /\ tears' = tears /\ today' = today
  <2>1. lock = None /\ lock' = r /\ text' = [text EXCEPT ![r] = Persisted(r)] /\ r # None
    BY RunAssumption DEF Consume, Truncate
  <2>2. Effective = ledger /\ Effective' = Persisted(r)
    BY <2>1 DEF Effective, Inv, TypeOK
  <2>3. d0 \in 1 .. Days /\ d0 <= today /\ ledger.day <= today
    BY <2>2 DEF Consume, Inv, TypeOK, Dated
  <2>. QED
    BY <2>2, <2>3, RunAssumption DEF Consume
<1>2. Granted' \subseteq Granted \cup {Request(r)}
  BY DEF Inv, TypeOK, Consume, Granted, Asking, Request
<1>3. Request(r)[1] = r /\ Request(r)[3] = d0
  BY DEF Request
<1>4. \A k : /\ By(k)' \subseteq By(k) \cup {Request(r)}
             /\ Under(k)' \subseteq Under(k) \cup {Request(r)}
             /\ On(k)' \subseteq On(k) \cup {Request(r)}
  BY <1>2 DEF By, Under, On
<1>5. \A k : /\ k # r => By(k)' \subseteq By(k)
             /\ k # t0 => Under(k)' \subseteq Under(k)
             /\ k # d0 => On(k)' \subseteq On(k)
  BY <1>2, <1>3 DEF By, Under, On
<1>6. IsFiniteSet(Granted')
  BY <1>2, OneMore DEF Inv, Counted
<1>7. \A k : /\ Cardinality(By(k)') <= Cardinality(By(k)) + 1 /\ Cardinality(By(k)') \in Nat
             /\ Cardinality(Under(k)') <= Cardinality(Under(k)) + 1 /\ Cardinality(Under(k)') \in Nat
             /\ Cardinality(On(k)') <= Cardinality(On(k)) + 1 /\ Cardinality(On(k)') \in Nat
  BY <1>4, Numbers, OneMore
<1>8. \A k : /\ k # r => Cardinality(By(k)') <= Cardinality(By(k))
             /\ k # t0 => Cardinality(Under(k)') <= Cardinality(Under(k))
             /\ k # d0 => Cardinality(On(k)') <= Cardinality(On(k))
  BY <1>5, Numbers, Fewer
<1>. QED
  BY <1>1, <1>6, <1>7, <1>8

(* The credit that is taken is in the new ledger; whose count the ledger   *)
(* loses had no more than a budget in it.                                  *)
LEMMA ConsumeCounts ==
  ASSUME Inv, TypeOK', NEW r \in Runs, Consume(r)
  PROVE  Counted'
<1>. DEFINE t0 == TrancheOf[r]
            d0 == stamp[r]
<1>1. /\ Effective = ledger /\ Effective' = Persisted(r)
      /\ ledger.day <= today /\ d0 \in 1 .. Days /\ d0 <= today /\ t0 \in Tranches
      /\ tears' = tears /\ today' = today
  BY Taken
<1>6. IsFiniteSet(Granted')
  BY Taken
<1>7. \A k : /\ Cardinality(By(k)') <= Cardinality(By(k)) + 1 /\ Cardinality(By(k)') \in Nat
             /\ Cardinality(Under(k)') <= Cardinality(Under(k)) + 1 /\ Cardinality(Under(k)') \in Nat
             /\ Cardinality(On(k)') <= Cardinality(On(k)) + 1 /\ Cardinality(On(k)') \in Nat
  BY Taken
<1>8. \A k : /\ k # r => Cardinality(By(k)') <= Cardinality(By(k))
             /\ k # t0 => Cardinality(Under(k)') <= Cardinality(Under(k))
             /\ k # d0 => Cardinality(On(k)') <= Cardinality(On(k))
  BY Taken
<1>9. ASSUME NEW s \in Runs
      PROVE  Cardinality(By(s)') <= UsedBy(s)' + MaxRun * (tears' + turns'.run)
  <2>. DEFINE x == tears + turns.run
  <2>1. x \in Nat /\ tears' + turns'.run \in {x, x + 1}
    BY Numbers, <1>1 DEF Consume, Turn, Inv, TypeOK
  <2>2. Cardinality(By(s)) <= UsedBy(s) + MaxRun * x
    BY DEF Inv, Counted
  <2>3. CASE s = r
    <3>1. UsedBy(s)' = UsedBy(s) + 1
      BY <1>1, <2>3 DEF UsedBy, Persisted, RunUsed
    <3>2. Cardinality(By(s)') <= (UsedBy(s) + 1) + MaxRun * x
      BY <1>7, <2>1, <2>2, Numbers, Spend
    <3>3. Cardinality(By(s)') <= (UsedBy(s) + 1) + MaxRun * (tears' + turns'.run)
      BY <1>7, <2>1, <3>2, Numbers, Wider
    <3>. QED
      BY <3>1, <3>3
  <2>4. CASE s # r /\ ledger.run = s
    <3>1. tears' + turns'.run = x + 1
      BY <1>1, <2>4, Numbers, RunAssumption DEF Consume, Turn, Inv, TypeOK
    <3>2. UsedBy(s)' = 0
      BY <1>1, <2>4 DEF UsedBy, Persisted
    <3>3. Cardinality(By(s)') <= 0 + MaxRun * (x + 1)
      BY <1>7, <1>8, <2>1, <2>2, <2>4, Numbers, Forget
    <3>. QED
      BY <3>1, <3>2, <3>3
  <2>5. CASE s # r /\ ledger.run # s
    <3>1. UsedBy(s)' = 0 /\ UsedBy(s) = 0
      BY <1>1, <2>5 DEF UsedBy, Persisted
    <3>2. Cardinality(By(s)') <= 0 + MaxRun * (tears' + turns'.run)
      BY <1>7, <1>8, <2>1, <2>2, <2>5, <3>1, Numbers, Wider
    <3>. QED
      BY <3>1, <3>2
  <2>. QED
    BY <2>3, <2>4, <2>5
<1>10. ASSUME NEW t \in Tranches
      PROVE  Cardinality(Under(t)') <= UsedUnder(t)' + MaxTranche * (tears' + turns'.tranche)
  <2>. DEFINE x == tears + turns.tranche
  <2>1. x \in Nat /\ tears' + turns'.tranche \in {x, x + 1}
    BY Numbers, <1>1 DEF Consume, Turn, Inv, TypeOK
  <2>2. Cardinality(Under(t)) <= UsedUnder(t) + MaxTranche * x
    BY DEF Inv, Counted
  <2>3. CASE t = t0
    <3>1. UsedUnder(t)' = UsedUnder(t) + 1
      BY <1>1, <2>3 DEF UsedUnder, Persisted, TrancheUsed
    <3>2. Cardinality(Under(t)') <= (UsedUnder(t) + 1) + MaxTranche * x
      BY <1>7, <2>1, <2>2, Numbers, Spend
    <3>3. Cardinality(Under(t)') <= (UsedUnder(t) + 1) + MaxTranche * (tears' + turns'.tranche)
      BY <1>7, <2>1, <3>2, Numbers, Wider
    <3>. QED
      BY <3>1, <3>3
  <2>4. CASE t # t0 /\ ledger.tranche = t
    <3>1. tears' + turns'.tranche = x + 1
      BY <1>1, <2>4, Numbers, RunAssumption DEF Consume, Turn, Inv, TypeOK
    <3>2. UsedUnder(t)' = 0
      BY <1>1, <2>4 DEF UsedUnder, Persisted
    <3>3. Cardinality(Under(t)') <= 0 + MaxTranche * (x + 1)
      BY <1>7, <1>8, <2>1, <2>2, <2>4, Numbers, Forget
    <3>. QED
      BY <3>1, <3>2, <3>3
  <2>5. CASE t # t0 /\ ledger.tranche # t
    <3>1. UsedUnder(t)' = 0 /\ UsedUnder(t) = 0
      BY <1>1, <2>5 DEF UsedUnder, Persisted
    <3>2. Cardinality(Under(t)') <= 0 + MaxTranche * (tears' + turns'.tranche)
      <4>1. tears' + turns'.tranche \in Nat /\ x <= tears' + turns'.tranche
        BY <2>1
      <4>2. Cardinality(Under(t)') <= Cardinality(Under(t))
        BY <1>8, <2>5
      <4>. QED
        BY <1>7, <2>1, <2>2, <3>1, <4>1, <4>2, Numbers, Wider
    <3>. QED
      BY <3>1, <3>2
  <2>. QED
    BY <2>3, <2>4, <2>5
<1>11. ASSUME NEW d \in 1 .. Days
      PROVE  Cardinality(On(d)') <= UsedOn(d)' + MaxDay * (tears' + late')
  <2>. DEFINE x == tears + late
  <2>1. x \in Nat /\ tears' + late' \in {x, x + 1} /\ today \in Nat
    BY Numbers, <1>1 DEF Consume, Inv, TypeOK
  <2>2. Cardinality(On(d)) <= UsedOn(d) + MaxDay * x
    BY DEF Inv, Counted
  <2>3. CASE d = d0 /\ ledger.day = d
    <3>1. UsedOn(d)' = UsedOn(d) + 1
      BY <1>1, <2>3 DEF UsedOn, Persisted, DayUsed
    <3>2. Cardinality(On(d)') <= (UsedOn(d) + 1) + MaxDay * x
      BY <1>7, <2>1, <2>2, Numbers, Spend
    <3>3. Cardinality(On(d)') <= (UsedOn(d) + 1) + MaxDay * (tears' + late')
      BY <1>7, <2>1, <3>2, Numbers, Wider
    <3>. QED
      BY <3>1, <3>3
  <2>4. CASE d = d0 /\ ledger.day # d /\ d = today
    <3>1. UsedOn(d)' = 1 /\ UsedOn(d) = 0 /\ tears' + late' = x
      BY <1>1, <2>1, <2>4, Numbers DEF UsedOn, Persisted, DayUsed, Consume
    <3>2. Cardinality(On(d)') <= (0 + 1) + MaxDay * x
      BY <1>7, <2>1, <2>2, <3>1, Numbers, Spend
    <3>. QED
      BY <3>1, <3>2
  <2>5. CASE d = d0 /\ ledger.day # d /\ d # today
    <3>1. UsedOn(d)' = 1 /\ UsedOn(d) = MaxDay /\ tears' + late' = x + 1
      BY <1>1, <2>1, <2>5, Numbers DEF UsedOn, Persisted, DayUsed, Consume
    <3>2. Cardinality(On(d)) <= 0 + MaxDay * (x + 1)
      BY <2>1, <2>2, <3>1, Numbers, Forget
    <3>3. Cardinality(On(d)') <= (0 + 1) + MaxDay * (x + 1)
      BY <1>7, <2>1, <3>2, Numbers, Spend
    <3>. QED
      BY <3>1, <3>3
  <2>6. CASE d # d0 /\ ledger.day = d /\ d0 < today
    <3>1. tears' + late' = x + 1
      BY <2>6, <1>1, Numbers DEF Consume
    <3>2. UsedOn(d)' \in Nat
      BY <1>1, <2>6, Numbers DEF UsedOn, Persisted
    <3>3. Cardinality(On(d)') <= UsedOn(d)' + MaxDay * (x + 1)
      BY <1>7, <1>8, <2>1, <2>2, <2>6, <3>2, Numbers, Forget
    <3>. QED
      BY <3>1, <3>3
  <2>7. CASE d # d0 /\ ~(ledger.day = d /\ d0 < today)
    <3>1. UsedOn(d)' \in Nat /\ UsedOn(d) <= UsedOn(d)'
      BY <1>1, <2>1, <2>7, Numbers DEF UsedOn, Persisted, Inv, WithinBudget
    <3>2. Cardinality(On(d)') <= UsedOn(d)' + MaxDay * (tears' + late')
      BY <1>7, <1>8, <2>1, <2>2, <2>7, <3>1, Numbers, Wider
    <3>. QED
      BY <3>2
  <2>. QED
    BY <2>3, <2>4, <2>5, <2>6, <2>7, <1>1, <2>1
<1>. QED
  BY <1>6, <1>9, <1>10, <1>11 DEF Counted

-----------------------------------------------------------------------------
LEMMA NextInv ==
  ASSUME Inv, [Next]_quota
  PROVE  Inv'
<1>1. TypeOK' /\ Locked' /\ Dated' /\ Pending' /\ WithinBudget'
  BY TypePreserved, LockedPreserved, DatedPreserved, PendingPreserved, BudgetPreserved
<1>2. Counted'
  BY <1>1, ThreeWays, QuietCounts, TornCounts, ConsumeCounts
<1>. QED
  BY <1>1, <1>2 DEF Inv

(* What is sent was granted, and no ledger holds more than a budget. *)
LEMMA InvCaps ==
  ASSUME Inv
  PROVE  DayCap /\ RunCap /\ TrancheCap
<1>1. \A k : SentBy(k) \subseteq By(k) /\ SentUnder(k) \subseteq Under(k) /\ SentOn(k) \subseteq On(k)
  BY DEF SentBy, SentUnder, SentOn, By, Under, On, Granted
<1>2. \A k : /\ Cardinality(SentBy(k)) <= Cardinality(By(k)) /\ Cardinality(SentBy(k)) \in Nat
             /\ Cardinality(SentUnder(k)) <= Cardinality(Under(k)) /\ Cardinality(SentUnder(k)) \in Nat
             /\ Cardinality(SentOn(k)) <= Cardinality(On(k)) /\ Cardinality(SentOn(k)) \in Nat
  BY <1>1, Numbers, Fewer
<1>3. \A x, y \in Nat : x + y \in Nat /\ 1 + x + y = (x + y) + 1
  OBVIOUS
<1>4. ASSUME NEW r \in Runs
      PROVE  Cardinality(SentBy(r)) <= 0 + MaxRun * ((tears + turns.run) + 1)
  BY <1>2, <1>3, Numbers, Forget DEF Inv, Counted
<1>5. ASSUME NEW t \in Tranches
      PROVE  Cardinality(SentUnder(t)) <= 0 + MaxTranche * ((tears + turns.tranche) + 1)
  BY <1>2, <1>3, Numbers, Forget DEF Inv, Counted
<1>6. ASSUME NEW d \in 1 .. Days
      PROVE  Cardinality(SentOn(d)) <= 0 + MaxDay * ((tears + late) + 1)
  BY <1>2, <1>3, Numbers, Forget DEF Inv, Counted
<1>7. \A m, x \in Nat : 0 + m * x = m * x
  OBVIOUS
<1>. QED
  BY <1>3, <1>4, <1>5, <1>6, <1>7, Numbers DEF DayCap, RunCap, TrancheCap

(* What make still has to run are commands of the loop.                    *)
DaemonOK ==
  /\ launched \in 0 .. Jobs /\ waits \in BOOLEAN
  /\ todo \in [1 .. Jobs -> Seq(Runs \ ByHand)]

(* The steps of the collector are steps of its captures, or leave them     *)
(* alone.                                                                  *)
LEMMA CollectorSteps ==
  ASSUME DaemonOK, [CNext]_vars
  PROVE  [Next]_quota /\ DaemonOK'
<1>. USE HandAssumption DEF DaemonOK
<1>1. CASE Launch \/ Reap \/ TimeOut
  <2>1. launched' \in 0 .. Jobs
    BY <1>1 DEF Launch, Reap, TimeOut
  <2>2. waits' \in BOOLEAN /\ UNCHANGED <<quota, todo>>
    BY <1>1 DEF Launch, Reap, TimeOut
  <2>. QED
    BY <2>1, <2>2
<1>2. ASSUME NEW j \in 1 .. Jobs, LineMove(j)
      PROVE  UNCHANGED quota /\ DaemonOK'
  BY <1>2 DEF LineMove
<1>3. ASSUME NEW j \in 1 .. Jobs, Capture(j)
      PROVE  Next /\ DaemonOK'
  <2>1. Head(todo[j]) \in Runs \ ByHand
    BY <1>3, HeadTailProperties DEF Capture
  <2>. QED
    BY <1>3, <2>1 DEF Capture, Next, daemon
<1>4. ASSUME NEW j \in 1 .. Jobs, Proceed(j)
      PROVE  UNCHANGED quota /\ DaemonOK'
  <2>1. Tail(todo[j]) \in Seq(Runs \ ByHand) /\ <<>> \in Seq(Runs \ ByHand)
    BY <1>4, HeadTailProperties, EmptySeq DEF Proceed
  <2>. QED
    BY <1>4, <2>1 DEF Proceed
<1>5. CASE Alone /\ UNCHANGED daemon
  BY <1>5 DEF Alone, Next, daemon
<1>6. CASE UNCHANGED vars
  BY <1>6 DEF vars, daemon
<1>. QED
  BY <1>1, <1>2, <1>3, <1>4, <1>5, <1>6 DEF CNext, Below

LEMMA CollectorInit == CInit => Init /\ DaemonOK
<1>1. 0 \in 0 .. Jobs /\ FALSE \in BOOLEAN
  BY HandAssumption
<1>. QED
  BY <1>1, HandAssumption DEF CInit, DaemonOK

(* No ledger is written that exceeds a budget, and nobody writes the file  *)
(* without its lock, whoever starts captures and whoever dies.             *)
THEOREM LedgerSafe == Spec => [](Locked /\ WithinBudget)
<1>. QED
  BY InitInv, NextInv, PTL DEF Spec, Inv

(* No more requests are sent on a day, by a run or under a tranche than    *)
(* its budget, once more for every time its count was lost.                *)
THEOREM BudgetsKept == Spec => []BudgetsHold
<1>. QED
  BY InitInv, NextInv, InvCaps, PTL DEF Spec, BudgetsHold

(* The captures of the always-on collector, the abandoned ones and those   *)
(* by hand, keep the same budgets, but for the counts that are lost.       *)
THEOREM CollectorBudgetsKept == CSpec => []BudgetsHold
<1>. QED
  BY InitInv, NextInv, InvCaps, CollectorInit, CollectorSteps, PTL DEF CSpec, BudgetsHold

-----------------------------------------------------------------------------
(* The loop on its own.  It waits for the one job that is not over, and    *)
(* that job for the one capture that is alive, so runs take their credits  *)
(* one after another, days come in order, and no count is lost that is     *)
(* needed again.                                                           *)

Undisturbed == tears = 0 /\ abandoned = {} /\ ~HandStarted
OneTranche == \A r, s \in Runs \ ByHand : TrancheOf[r] = TrancheOf[s]

Current(j) == waits /\ j = launched

OneJob == \A j \in 1 .. launched : ~Current(j) => todo[j] = <<>>

OneAlive ==
  \A r \in Runs : pc[r] # "off" /\ ~Ended(r) =>
    \E j \in 1 .. launched : Current(j) /\ todo[j] # <<>> /\ r = Head(todo[j])

Serial == OneJob /\ OneAlive

InOrder ==
  /\ \A r \in Runs : pc[r] = "wait" => Effective.day <= stamp[r]
  /\ Effective.run # None => pc[Effective.run] # "off"
  /\ Effective.tranche # None => \E r \in Runs \ ByHand : TrancheOf[r] = Effective.tranche

ByLoop(r) ==
  IF Effective.run = r THEN Effective.runUsed ELSE IF Ended(r) THEN MaxRun ELSE 0
OnLoop(d) ==
  IF Effective.day = d THEN Effective.dayUsed ELSE IF d < Effective.day THEN MaxDay ELSE 0

LoopCounted ==
  /\ \A r \in Runs : Cardinality(By(r)) <= ByLoop(r)
  /\ \A d \in 1 .. Days : Cardinality(On(d)) <= OnLoop(d)
  /\ OneTranche => \A t \in Tranches : Cardinality(Under(t)) <= UsedUnder(t)

LoopInv == Undisturbed => Serial /\ InOrder /\ LoopCounted

(* A command that has begun, or ended, has done so for good.               *)
Forward ==
  \A r \in Runs : /\ Ended(r) => Ended(r)'
                  /\ pc[r] # "off" => pc'[r] # "off"

LEMMA GoesForward ==
  ASSUME TypeOK, [Next]_quota
  PROVE  Forward
<1>. USE DEF TypeOK, States, Forward, Ended
<1>1. ASSUME NEW r \in Runs, Start(r) \/ ReadClock(r) \/ Consume(r) \/ Refuse(r)
      PROVE  Forward
  BY <1>1 DEF Start, ReadClock, Consume, Refuse, GiveUp
<1>2. ASSUME NEW r \in Runs, Persist(r) \/ Send(r) \/ Reconcile(r)
      PROVE  Forward
  BY <1>2 DEF Persist, Send, Reconcile, GiveUp
<1>3. ASSUME NEW r \in Runs, NoHeaders(r) \/ Rewrite(r) \/ Crash(r)
      PROVE  Forward
  BY <1>3 DEF NoHeaders, Rewrite, Crash, NextRequest
<1>4. CASE Midnight \/ UNCHANGED quota
  BY <1>4 DEF Midnight, quota
<1>. QED
  BY <1>1, <1>2, <1>3, <1>4 DEF Next, Work

(* A loop that is undisturbed was so before. *)
LEMMA WasUndisturbed ==
  ASSUME Inv, DaemonOK, [CNext]_vars, Undisturbed'
  PROVE  Undisturbed /\ abandoned' = abandoned /\ tears' = tears
<1>1. [Next]_quota
  BY CollectorSteps
<1>2. tears' = tears
  <2>1. tears' = tears \/ tears' = tears + 1
    BY <1>1, ThreeWays, RunAssumption DEF Quiet, Torn, Consume
  <2>. QED
    BY <2>1 DEF Undisturbed, Inv, TypeOK
<1>3. abandoned' = abandoned
  BY DEF CNext, Launch, Reap, TimeOut, Below, LineMove, Capture, Proceed, vars, daemon, Undisturbed
<1>4. ~HandStarted
  BY <1>1, GoesForward, HandAssumption DEF Inv, Undisturbed, HandStarted, Forward
<1>. QED
  BY <1>2, <1>3, <1>4 DEF Undisturbed

(* A job that is not the current one has nothing left to start, and the    *)
(* current one starts a capture when the one before it has ended.          *)
LEMMA SerialStep ==
  ASSUME Inv, DaemonOK, Serial, [CNext]_vars, Undisturbed'
  PROVE  Serial'
<1>. USE HandAssumption DEF Inv, TypeOK, DaemonOK, Serial, OneJob, Current, OneAlive, Ended
<1>1. CASE Launch
  <2>1. OneJob'
    BY <1>1 DEF Launch
  <2>2. \A r \in Runs : pc[r] = "off" \/ Ended(r)
    BY <1>1 DEF Launch
  <2>. QED
    BY <1>1, <2>1, <2>2 DEF Launch, quota
<1>2. CASE Reap
  <2>1. OneJob'
    BY <1>2 DEF Reap, Over
  <2>2. \A r \in Runs : pc[r] = "off" \/ Ended(r)
    BY <1>2 DEF Reap, Over
  <2>. QED
    BY <1>2, <2>1, <2>2 DEF Reap, quota
<1>3. CASE TimeOut
  BY <1>3 DEF TimeOut, Undisturbed
<1>4. ASSUME NEW j \in 1 .. Jobs, LineMove(j)
      PROVE  Serial'
  BY <1>4 DEF LineMove, quota
<1>5. ASSUME NEW j \in 1 .. Jobs, Capture(j)
      PROVE  Serial'
  <2>. DEFINE h == Head(todo[j])
  <2>1. Current(j) /\ j \in 1 .. launched /\ todo[j] # <<>> /\ pc[h] = "off"
    BY <1>5 DEF Capture, Start
  <2>2. \A r \in Runs : pc[r] = "off" \/ Ended(r)
    BY <2>1
  <2>3. UNCHANGED daemon /\ \A r \in Runs : r # h => pc'[r] = pc[r]
    BY <1>5 DEF Capture, Start
  <2>. QED
    BY <2>1, <2>2, <2>3 DEF daemon
<1>6. ASSUME NEW j \in 1 .. Jobs, Proceed(j)
      PROVE  Serial'
  <2>1. Current(j) /\ j \in 1 .. launched /\ Ended(Head(todo[j]))
    BY <1>6 DEF Proceed
  <2>2. \A r \in Runs : pc[r] = "off" \/ Ended(r)
    BY <2>1
  <2>3. UNCHANGED <<quota, launched, waits>> /\ \A k \in 1 .. Jobs : k # j => todo'[k] = todo[k]
    BY <1>6 DEF Proceed
  <2>4. ASSUME NEW k \in 1 .. launched, ~Current(k)'
        PROVE  todo'[k] = <<>>
    <3>1. k # j /\ k \in 1 .. Jobs
      BY <2>1, <2>3, <2>4
    <3>2. ~Current(k)
      BY <2>3, <2>4
    <3>. QED
      BY <2>3, <3>1, <3>2
  <2>5. OneAlive'
    BY <2>2, <2>3 DEF quota
  <2>. QED
    BY <2>3, <2>4, <2>5
<1>7. ASSUME NEW r \in Runs, Work(r) \/ Crash(r), UNCHANGED daemon
      PROVE  Serial'
  <2>1. pc[r] # "off" /\ ~Ended(r) /\ \A s \in Runs : s # r => pc'[s] = pc[s]
    BY <1>7 DEF Work, ReadClock, Consume, Refuse, Persist, Send, GiveUp, Reconcile, NoHeaders,
                Rewrite, Crash
  <2>. QED
    BY <1>7, <2>1 DEF daemon
<1>8. ASSUME NEW r \in ByHand, Start(r)
      PROVE  FALSE
  <2>1. pc'[r] # "off"
    BY <1>8 DEF Start
  <2>. QED
    BY <2>1 DEF Undisturbed, HandStarted
<1>9. CASE Midnight /\ UNCHANGED daemon
  BY <1>9 DEF Midnight, daemon
<1>10. CASE UNCHANGED vars
  BY <1>10 DEF vars, quota, daemon
<1>. QED
  BY <1>1, <1>2, <1>3, <1>4, <1>5, <1>6, <1>7, <1>8, <1>9, <1>10 DEF CNext, Below, Alone

(* Whoever else has begun when a capture is alive has ended.               *)
LEMMA AloneAlive ==
  ASSUME Serial, NEW r \in Runs, pc[r] # "off", ~Ended(r)
  PROVE  \A s \in Runs : s # r /\ pc[s] # "off" => Ended(s)
BY DEF Serial, OneAlive, Current

(* Who comes to wait for the lock has read a clock that no ledger is ahead *)
(* of.                                                                     *)
LEMMA OrderQuiet ==
  ASSUME Inv, InOrder, [Next]_quota, Quiet
  PROVE  InOrder'
<1>1. Forward /\ Effective' = Effective /\ Effective \in Ledgers
  BY GoesForward, Numbers DEF Quiet, Inv
<1>2. ASSUME NEW r \in Runs, pc'[r] = "wait"
      PROVE  (pc[r] = "wait" /\ stamp'[r] = stamp[r]) \/ stamp'[r] = today
  <2>. USE <1>2 DEF Inv, TypeOK, States
  <2>1. ASSUME NEW s \in Runs, Start(s) \/ Consume(s) \/ Refuse(s)
        PROVE  pc[r] = "wait" /\ stamp'[r] = stamp[r]
    BY <2>1 DEF Start, Consume, Refuse, GiveUp
  <2>2. ASSUME NEW s \in Runs, ReadClock(s)
        PROVE  (pc[r] = "wait" /\ stamp'[r] = stamp[r]) \/ stamp'[r] = today
    BY <2>2 DEF ReadClock
  <2>3. ASSUME NEW s \in Runs, Persist(s) \/ Send(s) \/ Reconcile(s)
        PROVE  pc[r] = "wait" /\ stamp'[r] = stamp[r]
    BY <2>3 DEF Persist, Send, Reconcile, GiveUp
  <2>4. ASSUME NEW s \in Runs, NoHeaders(s) \/ Rewrite(s) \/ Crash(s)
        PROVE  pc[r] = "wait" /\ stamp'[r] = stamp[r]
    BY <2>4 DEF NoHeaders, Rewrite, Crash, NextRequest
  <2>5. CASE Midnight \/ UNCHANGED quota
    BY <2>5 DEF Midnight, quota
  <2>. QED
    BY <2>1, <2>2, <2>3, <2>4, <2>5 DEF Next, Work
<1>3. \A r \in Runs : pc'[r] = "wait" => Effective.day <= stamp'[r]
  BY <1>2 DEF InOrder, Inv, Dated
<1>4. Effective.run # None => Effective.run \in Runs /\ pc'[Effective.run] # "off"
  BY <1>1 DEF InOrder, Forward, Ledgers
<1>. QED
  BY <1>1, <1>3, <1>4 DEF InOrder

LEMMA OrderConsume ==
  ASSUME Inv, Serial, ~HandStarted, NEW r \in Runs, Consume(r)
  PROVE  InOrder'
<1>1. /\ pc[r] = "wait" /\ pc' = [pc EXCEPT ![r] = "write"] /\ Effective' = Persisted(r)
      /\ UNCHANGED stamp
  BY Taken DEF Consume
<1>2. r \notin ByHand
  BY <1>1 DEF HandStarted
<1>3. \A s \in Runs : pc'[s] # "wait"
  BY <1>1, AloneAlive DEF Ended, Inv, TypeOK
<1>4. Effective'.run = r /\ Effective'.tranche = TrancheOf[r] /\ pc'[r] = "write"
  BY <1>1 DEF Persisted, Inv, TypeOK
<1>. QED
  BY <1>2, <1>3, <1>4 DEF InOrder

LEMMA CountedQuiet ==
  ASSUME Inv, LoopCounted, [Next]_quota, Quiet
  PROVE  LoopCounted'
<1>1. Forward /\ Effective' = Effective /\ MaxRun \in Nat /\ Effective \in Ledgers
  BY GoesForward, Numbers DEF Quiet, Inv
<1>2. \A k : By(k)' \subseteq By(k) /\ Under(k)' \subseteq Under(k) /\ On(k)' \subseteq On(k)
  BY DEF Quiet, By, Under, On
<1>3. \A k : /\ Cardinality(By(k)') <= Cardinality(By(k)) /\ Cardinality(By(k)') \in Nat
             /\ Cardinality(Under(k)') <= Cardinality(Under(k)) /\ Cardinality(Under(k)') \in Nat
             /\ Cardinality(On(k)') <= Cardinality(On(k)) /\ Cardinality(On(k)') \in Nat
             /\ Cardinality(By(k)) \in Nat /\ Cardinality(Under(k)) \in Nat
             /\ Cardinality(On(k)) \in Nat
  BY <1>2, Numbers, Fewer
<1>4. \A r \in Runs : ByLoop(r) \in Nat /\ ByLoop(r)' \in Nat /\ ByLoop(r) <= ByLoop(r)'
  BY <1>1 DEF ByLoop, Forward, Ledgers
<1>5. \A r \in Runs : Cardinality(By(r)') <= ByLoop(r)'
  BY <1>3, <1>4 DEF LoopCounted
<1>6. \A d \in 1 .. Days : OnLoop(d)' = OnLoop(d) /\ OnLoop(d) \in Nat
  BY <1>1, Numbers DEF OnLoop, Ledgers
<1>7. \A d \in 1 .. Days : Cardinality(On(d)') <= OnLoop(d)'
  BY <1>3, <1>6 DEF LoopCounted
<1>8. \A t \in Tranches : UsedUnder(t)' = UsedUnder(t) /\ UsedUnder(t) \in Nat
  BY <1>1, Numbers DEF UsedUnder
<1>9. OneTranche => \A t \in Tranches : Cardinality(Under(t)') <= UsedUnder(t)'
  BY <1>3, <1>8 DEF LoopCounted
<1>. QED
  BY <1>5, <1>7, <1>9 DEF LoopCounted, OneTranche

(* The run that takes the credit is the one that is alive; whose count the *)
(* ledger loses has ended.                                                 *)
LEMMA CountedConsume ==
  ASSUME Inv, Serial, InOrder, LoopCounted, ~HandStarted, NEW r \in Runs, Consume(r)
  PROVE  LoopCounted'
<1>. DEFINE t0 == TrancheOf[r]
            d0 == stamp[r]
<1>1. /\ pc[r] = "wait" /\ pc' = [pc EXCEPT ![r] = "write"]
      /\ Effective = ledger /\ Effective' = Persisted(r) /\ ledger \in Ledgers
      /\ d0 \in 1 .. Days /\ ledger.day <= d0
      /\ r \notin ByHand
  BY Taken, Numbers DEF Consume, InOrder, HandStarted
<1>2. \A k : /\ Cardinality(By(k)) \in Nat /\ Cardinality(By(k)') \in Nat
             /\ Cardinality(Under(k)) \in Nat /\ Cardinality(Under(k)') \in Nat
             /\ Cardinality(On(k)) \in Nat /\ Cardinality(On(k)') \in Nat
  BY Taken, Numbers
<1>3. ASSUME NEW s \in Runs
      PROVE  Cardinality(By(s)') <= ByLoop(s)'
  <2>0. Cardinality(By(s)) <= ByLoop(s)
    BY DEF LoopCounted
  <2>1. CASE s = r
    <3>1. ByLoop(s) = RunUsed(r) /\ ByLoop(s)' = RunUsed(r) + 1 /\ RunUsed(r) \in Nat
      BY <1>1, <2>1 DEF ByLoop, Ended, RunUsed, Persisted, Ledgers
    <3>2. Cardinality(By(s)') <= Cardinality(By(s)) + 1
      BY Taken
    <3>. QED
      BY <1>2, <2>0, <3>1, <3>2
  <2>2. CASE s # r
    <3>1. Cardinality(By(s)') <= Cardinality(By(s))
      BY <2>2, Taken
    <3>2. pc'[s] = pc[s] /\ Effective'.run = r
      BY <1>1, <2>2 DEF Inv, TypeOK, Persisted
    <3>3. ByLoop(s)' = IF Ended(s) THEN MaxRun ELSE 0
      BY <2>2, <3>2 DEF ByLoop, Ended
    <3>4. CASE ledger.run = s
      <4>1. Ended(s)
        BY <1>1, <2>2, <3>4, RunAssumption, AloneAlive DEF InOrder, Ended
      <4>2. ByLoop(s) <= MaxRun /\ ByLoop(s) \in Nat /\ MaxRun \in Nat
        BY <1>1, <3>4, BudgetAssumption DEF ByLoop, Inv, WithinBudget, Ledgers
      <4>. QED
        BY <1>2, <2>0, <3>1, <3>3, <4>1, <4>2
    <3>5. CASE ledger.run # s
      <4>1. ByLoop(s)' = ByLoop(s) /\ ByLoop(s) \in Nat
        BY <1>1, <3>3, <3>5, BudgetAssumption DEF ByLoop
      <4>. QED
        BY <1>2, <2>0, <3>1, <4>1
    <3>. QED
      BY <3>4, <3>5
  <2>. QED
    BY <2>1, <2>2
<1>4. ASSUME NEW d \in 1 .. Days
      PROVE  Cardinality(On(d)') <= OnLoop(d)'
  <2>0. /\ Cardinality(On(d)) <= OnLoop(d) /\ MaxDay \in Nat /\ ledger.dayUsed <= MaxDay
        /\ ledger.dayUsed \in Nat /\ ledger.day \in Nat /\ d0 \in Nat
        /\ Effective'.day = d0
    BY <1>1, BudgetAssumption DEF LoopCounted, Inv, WithinBudget, Ledgers, Persisted
  <2>1. CASE d = d0
    <3>1. OnLoop(d) = DayUsed(d0) /\ OnLoop(d)' = DayUsed(d0) + 1 /\ DayUsed(d0) \in Nat
      BY <1>1, <2>0, <2>1 DEF OnLoop, DayUsed, Persisted
    <3>2. Cardinality(On(d)') <= Cardinality(On(d)) + 1
      BY Taken
    <3>. QED
      BY <1>2, <2>0, <3>1, <3>2
  <2>2. CASE d # d0
    <3>1. Cardinality(On(d)') <= Cardinality(On(d))
      BY <2>2, Taken
    <3>2. OnLoop(d) <= OnLoop(d)' /\ OnLoop(d) \in Nat /\ OnLoop(d)' \in Nat
      BY <1>1, <2>0, <2>2 DEF OnLoop
    <3>. QED
      BY <1>2, <2>0, <3>1, <3>2
  <2>. QED
    BY <2>1, <2>2
<1>5. ASSUME OneTranche, NEW t \in Tranches
      PROVE  Cardinality(Under(t)') <= UsedUnder(t)'
  <2>0. Cardinality(Under(t)) <= UsedUnder(t) /\ Effective'.tranche = t0
    BY <1>1, <1>5 DEF LoopCounted, Persisted
  <2>1. CASE t = t0
    <3>1. UsedUnder(t) = TrancheUsed(t0) /\ UsedUnder(t)' = TrancheUsed(t0) + 1 /\ TrancheUsed(t0) \in Nat
      BY <1>1, <2>1 DEF UsedUnder, TrancheUsed, Persisted, Ledgers
    <3>2. Cardinality(Under(t)') <= Cardinality(Under(t)) + 1
      BY Taken
    <3>. QED
      BY <1>2, <2>0, <3>1, <3>2
  <2>2. CASE t # t0
    <3>1. Cardinality(Under(t)') <= Cardinality(Under(t))
      BY <2>2, Taken
    <3>2. ledger.tranche # t /\ t # None
      BY <1>1, <1>5, <2>2, RunAssumption DEF InOrder, OneTranche
    <3>3. UsedUnder(t) = 0 /\ UsedUnder(t)' = 0
      BY <1>1, <2>0, <2>2, <3>2 DEF UsedUnder
    <3>. QED
      BY <1>2, <2>0, <3>1, <3>3
  <2>. QED
    BY <2>1, <2>2
<1>. QED
  BY <1>3, <1>4, <1>5 DEF LoopCounted, OneTranche

LEMMA LoopStep == Inv /\ DaemonOK /\ LoopInv /\ [CNext]_vars => LoopInv'
<1>1. SUFFICES ASSUME Inv, DaemonOK, LoopInv, [CNext]_vars, Undisturbed'
               PROVE  Serial' /\ InOrder' /\ LoopCounted'
  BY DEF LoopInv
<1>2. [Next]_quota
  BY <1>1, CollectorSteps
<1>3. Serial /\ InOrder /\ LoopCounted /\ ~HandStarted /\ tears' = tears
  BY <1>1, WasUndisturbed DEF LoopInv, Undisturbed
<1>4. Quiet \/ \E r \in Runs : Consume(r)
  <2>1. tears \in Nat
    BY <1>1 DEF Inv, TypeOK
  <2>. QED
    BY <1>1, <1>2, <1>3, <2>1, ThreeWays DEF Torn
<1>. QED
  BY <1>1, <1>2, <1>3, <1>4, SerialStep, OrderQuiet, OrderConsume, CountedQuiet, CountedConsume

LEMMA LoopInit == CInit => LoopInv
<1>1. SUFFICES ASSUME CInit PROVE Serial /\ InOrder /\ LoopCounted
  BY DEF LoopInv
<1>2. Init /\ Effective = Blank
  BY <1>1 DEF CInit, Init, Effective
<1>3. \A k : By(k) = {} /\ Under(k) = {} /\ On(k) = {}
  BY <1>2 DEF Init, Granted, Asking, By, Under, On
<1>4. /\ \A r \in Runs : ByLoop(r) = 0
      /\ \A d \in 1 .. Days : OnLoop(d) = 0
      /\ \A t \in Tranches : UsedUnder(t) = 0
  BY <1>2, RunAssumption DEF Init, ByLoop, Ended, OnLoop, UsedUnder, Blank
<1>5. Serial /\ InOrder
  BY <1>1, <1>2 DEF Init, CInit, Serial, OneJob, OneAlive, InOrder, Blank
<1>. QED
  BY <1>3, <1>4, <1>5, FS_EmptySet DEF LoopCounted

(* What the captures of sports_consensus send, started by the loop of the  *)
(* always-on collector, keeps every budget to the credit, over midnight    *)
(* too, as long as it abandons no job (make killed by its timeout), none   *)
(* is started by hand and none dies while it writes.  The requests of      *)
(* line_moves, which take no credit, are not counted by any budget.        *)
THEOREM LoopBudgetsKept == CSpec => []LoopKeepsBudgets
<1>1. ASSUME Inv, LoopInv PROVE LoopKeepsBudgets
  <2>1. SUFFICES ASSUME Undisturbed PROVE
          /\ \A r \in Runs : Cardinality(SentBy(r)) <= MaxRun
          /\ \A d \in 1 .. Days : Cardinality(SentOn(d)) <= MaxDay
          /\ OneTranche => \A t \in Tranches : Cardinality(SentUnder(t)) <= MaxTranche
    BY DEF LoopKeepsBudgets, Undisturbed, OneTranche
  <2>2. LoopCounted
    BY <1>1, <2>1 DEF LoopInv
  <2>3. \A k : SentBy(k) \subseteq By(k) /\ SentUnder(k) \subseteq Under(k) /\ SentOn(k) \subseteq On(k)
    BY DEF SentBy, SentUnder, SentOn, By, Under, On, Granted
  <2>4. \A k : /\ Cardinality(SentBy(k)) <= Cardinality(By(k)) /\ Cardinality(SentBy(k)) \in Nat
               /\ Cardinality(SentUnder(k)) <= Cardinality(Under(k)) /\ Cardinality(SentUnder(k)) \in Nat
               /\ Cardinality(SentOn(k)) <= Cardinality(On(k)) /\ Cardinality(SentOn(k)) \in Nat
               /\ Cardinality(By(k)) \in Nat /\ Cardinality(Under(k)) \in Nat
               /\ Cardinality(On(k)) \in Nat
    BY <1>1, <2>3, Numbers, Fewer
  <2>5. /\ \A r \in Runs : ByLoop(r) \in Nat /\ ByLoop(r) <= MaxRun
        /\ \A d \in 1 .. Days : OnLoop(d) \in Nat /\ OnLoop(d) <= MaxDay
        /\ \A t \in Tranches : UsedUnder(t) \in Nat /\ UsedUnder(t) <= MaxTranche
        /\ {MaxRun, MaxDay, MaxTranche} \subseteq Nat
    BY <1>1, Numbers DEF ByLoop, OnLoop, Inv, WithinBudget, Ledgers
  <2>. QED
    BY <2>2, <2>4, <2>5 DEF LoopCounted
<1>. QED
  BY <1>1, InitInv, NextInv, CollectorInit, CollectorSteps, LoopInit, LoopStep, PTL DEF CSpec
=============================================================================
