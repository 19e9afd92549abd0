-------------------------- MODULE LiveTraderProofs --------------------------
(***************************************************************************)
(* Theorems about LiveTrader, for every set of candidates, prices and      *)
(* limits and every combination of failures: type correctness, faithful    *)
(* rows, write-ahead intents, final terminal rows, recorded fills, caps    *)
(* that are overshot by so much and no more, and the implementation of     *)
(* OrderLedger.                                                            *)
(***************************************************************************)
EXTENDS LiveTraderLedger, FiniteSetTheorems, TLAPS

(* What the exchange keeps of an order agrees with itself: no fills before *)
(* the order, none beyond it, and all of them only if it executed.         *)
ExchangeSound ==
  \A id \in OrderIds :
    /\ exch[id].status = "none" => exch[id].filled = 0
    /\ exch[id].filled <= id.count
    /\ exch[id].filled = id.count => exch[id].status = "executed"

(* The reply a pass holds while it writes a new row: the order was         *)
(* accepted, has no row yet, has filled at least what the reply says, and  *)
(* is over if nothing remains of it.                                       *)
ReplySound ==
  pc = "record" =>
    /\ orders[cur].status = "NONE"
    /\ exch[cur].status # "none"
    /\ reply.filled <= exch[cur].filled
    /\ reply.done => exch[cur].status \in {"executed", "canceled"}

(* The reconcile loop only ever holds orders whose row is open.            *)
TodoOpen == \A id \in todo : orders[id].status \in OpenRow

RowInv == TypeOK /\ ExchangeSound /\ ReplySound /\ TodoOpen /\ RowFaithful

LEMMA CountPositive == \A id \in OrderIds : id.count \in Nat /\ id.count >= 1
BY RiskConstants DEF OrderIds, Counts

(* What an answer about an order can be.                                   *)
LEMMA AnswerSound ==
  ASSUME NEW id, NEW order \in ExchOrder, NEW answer \in Answers(id, order)
  PROVE  /\ answer \in Reply /\ answer.filled \in {0, order.filled}
         /\ answer.done => \/ answer.filled = id.count /\ order.filled = id.count
                           \/ order.status = "canceled"
<1> USE DEF Reply, NoReply, ExchOrder
<1>1. CASE answer = NoReply
  BY <1>1
<1>2. CASE answer \in [filled : {order.filled}, done : Done(id, order),
                       known : {TRUE}, parsed : {TRUE}]
  BY <1>2 DEF Done
<1>3. QED
  BY <1>1, <1>2 DEF Answers

(* A torn write leaves a state without rows, and the pass is over.         *)
LEMMA TornAway ==
  ASSUME DieWriting
  PROVE  /\ orders' = [id \in OrderIds |-> NoRow] /\ intents' = {}
         /\ fills' = [id \in OrderIds |-> 0] /\ kills' = FALSE /\ EmptyStore'
         /\ erased' = erased \cup {id \in intents : exch[id].status # "none"}
         /\ EndRun /\ UNCHANGED <<exch, now>> /\ "torn" \in Faults
BY DEF DieWriting, EmptyStore, NoRows, NoFills

-----------------------------------------------------------------------------
LEMMA RowInit == Init => RowInv
<1> SUFFICES ASSUME Init PROVE RowInv
  OBVIOUS
<1>1. NoRow \in Row /\ NoReply \in Reply
  BY DEF NoRow, Row, OpenRow, TerminalRow, NoReply, Reply
<1>2. TypeOK
  BY <1>1 DEF Init, EmptyStore, NoRows, NoFills, TypeOK, ExchOrder, ExchStatus, InIteration,
              CommandKinds
<1>3. ExchangeSound /\ ReplySound /\ TodoOpen
  BY CountPositive DEF Init, ExchangeSound, ReplySound, TodoOpen
<1>4. RowFaithful
  BY DEF Init, EmptyStore, NoRows, NoRow, RowFaithful
<1>5. QED
  BY <1>2, <1>3, <1>4 DEF RowInv

LEMMA RowStep == RowInv /\ [Next]_vars => RowInv'
<1> SUFFICES ASSUME RowInv, [Next]_vars PROVE RowInv'
  OBVIOUS
<1> USE CountPositive, TraderConstants
<1> USE DEF RowInv, TypeOK, Row, ExchOrder, ExchStatus, Reply, NoReply,
            OpenRow, TerminalRow, InIteration, CommandKinds, store, locals
<1>1. ASSUME NEW m \in Commands, StartRun(m) PROVE RowInv'
  BY <1>1 DEF StartRun, OpenOrders, ExchangeSound, ReplySound, TodoOpen, RowFaithful
<1>2. ASSUME NEW id \in OrderIds, SkipUnidentified(id) PROVE RowInv'
  BY <1>2 DEF SkipUnidentified, ExchangeSound, ReplySound, TodoOpen, RowFaithful
<1>3. ASSUME NEW id \in OrderIds, ReconcileOrder(id) PROVE RowInv'
  <2>1. PICK answer \in Answers(id, exch[id]) :
          /\ orders' = [orders EXCEPT ![id] = Reconciled(orders[id], id, answer)]
          /\ reply' = answer
    BY <1>3 DEF ReconcileOrder
  <2>2. /\ answer \in Reply /\ answer.filled <= exch[id].filled
        /\ answer.done => exch[id].status \in {"executed", "canceled"}
    <3>1. exch[id] \in ExchOrder
      OBVIOUS
    <3>2. /\ answer \in Reply /\ answer.filled \in {0, exch[id].filled}
          /\ answer.done => exch[id].filled = id.count \/ exch[id].status = "canceled"
      BY <2>1, <3>1, AnswerSound
    <3>3. exch[id].filled = id.count => exch[id].status = "executed"
      BY DEF ExchangeSound
    <3>4. QED
      BY <3>1, <3>2, <3>3
  <2>3. orders[id].status \in OpenRow /\ exch[id].status # "none"
    BY <1>3 DEF ReconcileOrder, TodoOpen, RowFaithful
  <2>4. Reconciled(orders[id], id, answer) \in Row
    BY <2>2, <2>3 DEF Reconciled
  <2>5. TypeOK'
    BY <1>3, <2>1, <2>2, <2>4 DEF ReconcileOrder
  <2>6. ExchangeSound' /\ ReplySound' /\ TodoOpen'
    BY <1>3, <2>1 DEF ReconcileOrder, ExchangeSound, ReplySound, TodoOpen
  <2>7. RowFaithful'
    <3> DEFINE row == Reconciled(orders[id], id, answer)
    <3>1. /\ row.status # "NONE" => exch[id].status # "none"
          /\ row.filled <= exch[id].filled
          /\ row.status = "FILLED" => exch[id].status \in {"executed", "canceled"}
          /\ row.status = "CANCELED" => exch[id].status = "canceled"
      BY <2>2, <2>3 DEF Reconciled
    <3> HIDE DEF row
    <3>2. orders' = [orders EXCEPT ![id] = row] /\ exch' = exch
      BY <1>3, <2>1 DEF ReconcileOrder, row
    <3>3. QED
      BY <3>1, <3>2 DEF RowFaithful
  <2>8. QED
    BY <2>5, <2>6, <2>7
<1>4. ASSUME NEW id \in OrderIds, ReconcileError(id) PROVE RowInv'
  BY <1>4 DEF ReconcileError, ExchangeSound, ReplySound, TodoOpen, RowFaithful
<1>5. ASSUME NEW id \in OrderIds, WriteIntent(id) PROVE RowInv'
  BY <1>5 DEF WriteIntent, ExchangeSound, ReplySound, TodoOpen, RowFaithful
<1>6. CASE RecordFill
  <2>1. \A n \in Nat : Counted(n) \in Nat
    BY DEF Counted
  <2>2. cur \in OrderIds => fills[cur] + reply.filled \in Nat
    OBVIOUS
  <2>3. fills' \in [OrderIds -> Nat]
    BY <1>6, <2>1, <2>2 DEF RecordFill
  <2>4. QED
    BY <1>6, <2>3 DEF RecordFill, ExchangeSound, ReplySound, TodoOpen, RowFaithful
<1>7. CASE FinishReconcile
  <2>1. CASE mode = "reconcile"
    <3>1. EndRun /\ UNCHANGED <<store, exch, now>>
      BY <1>7, <2>1 DEF FinishReconcile
    <3>2. QED
      BY <3>1 DEF EndRun, Leave, ExchangeSound, ReplySound, TodoOpen, RowFaithful
  <2>2. CASE mode # "reconcile"
    BY <1>7, <2>2
       DEF FinishReconcile, ExchangeSound, ReplySound, TodoOpen, RowFaithful
  <2>3. QED
    BY <2>1, <2>2
<1>8. CASE BuildReport
  <2>1. /\ batch' \subseteq OrderIds /\ pc' \in {"idle", "submit"}
        /\ todo' \subseteq todo /\ cur' \in OrderIds \cup {NoOrder}
        /\ reply' \in Reply /\ mode' \in CommandKinds
    <3>1. CASE mode = "dry_run"
      <4>1. EndRun
        BY <1>8, <3>1 DEF BuildReport
      <4>2. QED
        BY <4>1 DEF EndRun, Leave
    <3>2. CASE mode # "dry_run"
      BY <1>8, <3>2 DEF BuildReport, EligibleOrders
    <3>3. QED
      BY <3>1, <3>2
  <2>2. QED
    BY <1>8, <2>1
       DEF BuildReport, ExchangeSound, ReplySound, TodoOpen, RowFaithful
<1>9. CASE AbortRun
  BY <1>9 DEF AbortRun, EndRun, Leave, ExchangeSound, ReplySound, TodoOpen, RowFaithful
<1>10. ASSUME NEW n \in 0 .. cur.count, Accepted(cur, n), cur \in OrderIds
       PROVE /\ exch' \in [OrderIds -> ExchOrder]
             /\ ExchangeSound'
             /\ orders[cur].status = "NONE"
             /\ exch'[cur].status # "none" /\ exch'[cur].filled = n
             /\ orders' = orders => RowFaithful'
  <2>1. n \in Nat /\ exch[cur].status = "none"
    BY <1>10 DEF Accepted
  <2>2. PICK s \in {"executed", "resting", "canceled"} :
          /\ exch' = [exch EXCEPT ![cur] = [status |-> s, filled |-> n]]
          /\ n = cur.count => s = "executed"
    BY <1>10 DEF Accepted
  <2>3. orders[cur].status = "NONE" /\ orders[cur].filled <= 0
    BY <1>10, <2>1 DEF RowFaithful, ExchangeSound
  <2>4. QED
    BY <1>10, <2>1, <2>2, <2>3 DEF ExchangeSound, RowFaithful
<1>11. CASE CreateOrder
  <2>1. PICK n \in 0 .. cur.count : Accepted(cur, n)
    BY <1>11 DEF CreateOrder
  <2>2. cur \in OrderIds /\ reply' \in Answers(cur, exch'[cur])
    BY <1>11 DEF CreateOrder
  <2>3. /\ exch' \in [OrderIds -> ExchOrder] /\ ExchangeSound'
        /\ orders[cur].status = "NONE" /\ exch'[cur].status # "none"
        /\ orders' = orders => RowFaithful'
    BY <1>10, <2>1, <2>2
  <2>4. /\ reply' \in Reply /\ reply'.filled \in {0, exch'[cur].filled}
        /\ reply'.done => exch'[cur].filled = cur.count \/ exch'[cur].status = "canceled"
    <3>1. exch'[cur] \in ExchOrder
      BY <2>2, <2>3
    <3>2. QED
      BY <2>2, <3>1, AnswerSound
  <2>5. /\ reply'.filled <= exch'[cur].filled
        /\ reply'.done => exch'[cur].status \in {"executed", "canceled"}
    BY <2>2, <2>3, <2>4 DEF ExchangeSound
  <2>6. QED
    BY <1>11, <2>2, <2>3, <2>4, <2>5 DEF CreateOrder, ReplySound, TodoOpen
<1>12. CASE CreateError
  <2>1. CASE UNCHANGED exch
    BY <1>12, <2>1
       DEF CreateError, Leave, ExchangeSound, ReplySound, TodoOpen, RowFaithful
  <2>2. CASE \E n \in 0 .. cur.count : Accepted(cur, n)
    BY <1>10, <1>12, <2>2 DEF CreateError, Leave, ReplySound, TodoOpen
  <2>3. QED
    BY <1>12, <2>1, <2>2 DEF CreateError
<1>13. CASE CreateTimeout
  <2>1. CASE UNCHANGED exch
    BY <1>13, <2>1
       DEF CreateTimeout, EndRun, Leave, ExchangeSound, ReplySound, TodoOpen, RowFaithful
  <2>2. CASE \E n \in 0 .. cur.count : Accepted(cur, n)
    BY <1>10, <1>13, <2>2 DEF CreateTimeout, EndRun, Leave, ReplySound, TodoOpen
  <2>3. QED
    BY <1>13, <2>1, <2>2 DEF CreateTimeout
<1>14. CASE RecordOrder
  <2>1. /\ cur \in OrderIds /\ orders[cur].status = "NONE"
        /\ exch[cur].status # "none" /\ reply.filled <= exch[cur].filled
    BY <1>14 DEF RecordOrder, ReplySound
  <2>2. reply.done => exch[cur].status \in {"executed", "canceled"}
    BY <1>14 DEF RecordOrder, ReplySound
  <2>3. QED
    BY <1>14, <2>1, <2>2
       DEF RecordOrder, Recorded, ExchangeSound, ReplySound, TodoOpen, RowFaithful
<1>15. CASE FinishRun
  BY <1>15 DEF FinishRun, EndRun, Leave, ExchangeSound, ReplySound, TodoOpen, RowFaithful
<1>16. CASE Crash
  BY <1>16 DEF Crash, EndRun, Leave, ExchangeSound, ReplySound, TodoOpen, RowFaithful
<1>17. ASSUME NEW id \in OrderIds, ExchangeFill(id) PROVE RowInv'
  BY <1>17 DEF ExchangeFill, ExchangeSound, ReplySound, TodoOpen, RowFaithful
<1>18. ASSUME NEW id \in OrderIds, ExchangeCancel(id) PROVE RowInv'
  BY <1>18 DEF ExchangeCancel, ExchangeSound, ReplySound, TodoOpen, RowFaithful
<1>19. CASE Tick
  BY <1>19 DEF Tick, ExchangeSound, ReplySound, TodoOpen, RowFaithful
<1>20. CASE UNCHANGED vars
  BY <1>20 DEF vars, ExchangeSound, ReplySound, TodoOpen, RowFaithful
<1>21. CASE RecordKill
  BY <1>21 DEF RecordKill, EndRun, Leave, ExchangeSound, ReplySound, TodoOpen, RowFaithful
<1>22. CASE DieWriting
  <2>1. NoRow \in Row /\ NoRow.status = "NONE" /\ NoRow.filled = 0
    BY DEF NoRow
  <2>2. /\ orders' = [id \in OrderIds |-> NoRow] /\ pc' = "idle"
        /\ todo' = {} /\ exch' = exch
    BY <1>22, TornAway DEF EndRun, Leave
  <2>3. TypeOK'
    <3>1. orders' \in [OrderIds -> Row]
      BY <2>1, <2>2, ZenonT(30)
    <3>2. fills' \in [OrderIds -> Nat] /\ intents' \subseteq OrderIds /\ kills' \in BOOLEAN
      BY <1>22, TornAway, SMTT(30)
    <3>3. erased' \subseteq OrderIds
      BY <1>22, TornAway
    <3>4. UNCHANGED <<exch, now>> /\ EndRun
      BY <1>22, TornAway
    <3>5. QED
      BY <3>1, <3>2, <3>3, <3>4 DEF EndRun, Leave
  <2>4. ExchangeSound' /\ ReplySound' /\ TodoOpen' /\ RowFaithful'
    BY <2>1, <2>2 DEF ExchangeSound, ReplySound, TodoOpen, RowFaithful
  <2>5. QED
    BY <2>3, <2>4
<1>23. QED
  BY <1>1, <1>2, <1>3, <1>4, <1>5, <1>6, <1>7, <1>8, <1>9, <1>11, <1>12, <1>13,
     <1>14, <1>15, <1>16, <1>17, <1>18, <1>19, <1>20, <1>21, <1>22
     DEF Next, Engine, Exchange

-----------------------------------------------------------------------------
LEMMA RowInvariant == Spec => []RowInv
<1>1. Init => RowInv
  BY RowInit
<1>2. RowInv /\ [Next]_vars => RowInv'
  BY RowStep
<1>3. QED
  BY <1>1, <1>2, PTL DEF Spec

(* The variables of the live engine keep their types.                      *)
THEOREM TypeCorrect == Spec => []TypeOK
<1>1. RowInv => TypeOK
  BY DEF RowInv
<1>2. QED
  BY <1>1, RowInvariant, PTL

(* No row of the state file ever claims more than the exchange did: what   *)
(* live_order_record and reconcile_order_record write is borne out by it.  *)
THEOREM RowsFaithful == Spec => []RowFaithful
<1>1. RowInv => RowFaithful
  BY DEF RowInv
<1>2. QED
  BY <1>1, RowInvariant, PTL

-----------------------------------------------------------------------------
(* What is needed beside OrderHasDurableIntent: the intent of the request  *)
(* under way is on file.                                                   *)
DurableInv ==
  /\ OrderHasDurableIntent
  /\ pc = "create" => cur \in intents

LEMMA DurableStep == RowInv /\ DurableInv /\ [Next]_vars => DurableInv'
<1> SUFFICES ASSUME RowInv, DurableInv, [Next]_vars PROVE DurableInv'
  OBVIOUS
<1> USE DEF DurableInv, OrderHasDurableIntent, store, locals, Leave
<1>1. ASSUME NEW n \in 0 .. cur.count, Accepted(cur, n), cur \in intents,
             UNCHANGED <<intents, erased>>, pc' # "create"
      PROVE DurableInv'
  BY <1>1 DEF Accepted, RowInv, TypeOK, ExchOrder
<1>2. CASE Engine
  <2>1. ASSUME NEW m \in Commands, StartRun(m) PROVE DurableInv'
    BY <2>1 DEF StartRun
  <2>2. ASSUME NEW id \in OrderIds,
               \/ SkipUnidentified(id) \/ ReconcileOrder(id)
               \/ ReconcileError(id)   \/ WriteIntent(id)
        PROVE DurableInv'
    BY <2>2 DEF SkipUnidentified, ReconcileOrder, ReconcileError, WriteIntent
  <2>3. CASE RecordFill \/ RecordOrder
    BY <2>3 DEF RecordFill, RecordOrder
  <2>4. CASE FinishReconcile
    BY <2>4 DEF FinishReconcile, EndRun, Leave
  <2>5. CASE BuildReport
    BY <2>5 DEF BuildReport, EndRun, Leave
  <2>6. CASE AbortRun \/ FinishRun
    BY <2>6 DEF AbortRun, FinishRun, EndRun, Leave
  <2>7. CASE CreateOrder
    BY <1>1, <2>7 DEF CreateOrder
  <2>8. CASE CreateError
    BY <1>1, <2>8 DEF CreateError, Leave
  <2>9. CASE CreateTimeout
    BY <1>1, <2>9 DEF CreateTimeout, EndRun, Leave
  <2>10. CASE RecordKill
    BY <2>10 DEF RecordKill, EndRun, Leave
  <2>11. QED
    BY <1>2, <2>1, <2>2, <2>3, <2>4, <2>5, <2>6, <2>7, <2>8, <2>9, <2>10 DEF Engine
<1>3. CASE Exchange
  BY <1>3 DEF Exchange, ExchangeFill, ExchangeCancel, RowInv, TypeOK, ExchOrder
<1>4. CASE Crash \/ Tick
  BY <1>4 DEF Crash, Tick, EndRun, Leave
<1>5. CASE UNCHANGED vars
  BY <1>5 DEF vars
<1>6. CASE DieWriting
  BY <1>6, TornAway DEF EndRun, Leave
<1>7. QED
  BY <1>2, <1>3, <1>4, <1>5, <1>6 DEF Next

(* Every order the exchange holds has an intent row: submit_live_orders    *)
(* writes it before the request leaves, and nothing removes it but a death *)
(* inside a later write of the whole state file.                           *)
THEOREM IntentsDurable == Spec => []OrderHasDurableIntent
<1>1. Init => DurableInv
  BY DEF Init, DurableInv, OrderHasDurableIntent
<1>2. RowInv /\ DurableInv /\ [Next]_vars => DurableInv'
  BY DurableStep
<1>3. DurableInv => OrderHasDurableIntent
  BY DEF DurableInv
<1>4. QED
  BY <1>1, <1>2, <1>3, RowInvariant, PTL DEF Spec

-----------------------------------------------------------------------------
(* The state file changes its rows in two places only, and neither is      *)
(* reached for a row that is terminal; or it is torn, and has none.        *)
RowChange ==
  \/ orders' = orders
  \/ "torn" \in Faults /\ EmptyStore'
  \/ \E id \in OrderIds :
       /\ orders[id].status \in OpenRow \cup {"NONE"}
       /\ orders' = [orders EXCEPT ![id] = orders'[id]]

LEMMA RowsChange == RowInv /\ [Next]_vars => RowChange
<1> SUFFICES ASSUME RowInv, [Next]_vars PROVE RowChange
  OBVIOUS
<1>1. ASSUME NEW id \in OrderIds, ReconcileOrder(id) PROVE RowChange
  <2>1. PICK row : orders' = [orders EXCEPT ![id] = row]
    BY <1>1 DEF ReconcileOrder
  <2>2. orders[id].status \in OpenRow
    BY <1>1 DEF ReconcileOrder, RowInv, TodoOpen
  <2>3. QED
    BY <2>1, <2>2 DEF RowInv, TypeOK, RowChange
<1>2. CASE RecordOrder
  <2>1. PICK row : orders' = [orders EXCEPT ![cur] = row]
    BY <1>2 DEF RecordOrder
  <2>2. cur \in OrderIds /\ orders[cur].status = "NONE"
    BY <1>2 DEF RecordOrder, RowInv, TypeOK, ReplySound, InIteration
  <2>3. QED
    BY <2>1, <2>2 DEF RowInv, TypeOK, RowChange
<1>3. ASSUME NEW id \in OrderIds,
             \/ SkipUnidentified(id) \/ ReconcileError(id) \/ WriteIntent(id)
             \/ ExchangeFill(id) \/ ExchangeCancel(id)
      PROVE orders' = orders
  BY <1>3 DEF SkipUnidentified, ReconcileError, WriteIntent, ExchangeFill,
              ExchangeCancel, store
<1>4. ASSUME NEW m \in Commands, StartRun(m) PROVE orders' = orders
  BY <1>4 DEF StartRun, store
<1>5. CASE \/ RecordFill \/ FinishReconcile \/ BuildReport \/ AbortRun
           \/ CreateOrder \/ CreateError \/ CreateTimeout \/ RecordKill \/ FinishRun
           \/ Crash \/ Tick \/ UNCHANGED vars
  BY <1>5 DEF RecordFill, FinishReconcile, BuildReport, AbortRun, CreateOrder,
              CreateError, CreateTimeout, RecordKill, FinishRun, Crash, Tick, store, vars,
              RowChange
<1>6. CASE DieWriting
  BY <1>6, TornAway DEF RowChange
<1>7. QED
  BY <1>1, <1>2, <1>3, <1>4, <1>5, <1>6 DEF Next, Engine, Exchange, RowChange

(* A row in a terminal status is never rewritten, whatever is reconciled   *)
(* or resubmitted later, and goes only with the whole state, by a death    *)
(* inside a write.                                                         *)
THEOREM TerminalRowsFinal == Spec => TerminalRowFinal
<1> DEFINE Kept ==
      \A id \in OrderIds :
        orders[id].status \in TerminalRow
          => orders'[id] = orders[id] \/ ("torn" \in Faults /\ EmptyStore')
<1>1. RowInv /\ [Next]_vars => [Kept]_vars
  <2> SUFFICES ASSUME RowInv, [Next]_vars PROVE Kept
    OBVIOUS
  <2>1. RowChange
    BY RowsChange
  <2>2. \A s \in TerminalRow : s \notin OpenRow \cup {"NONE"}
    BY DEF TerminalRow, OpenRow
  <2>3. CASE "torn" \in Faults /\ EmptyStore'
    BY <2>3
  <2>4. CASE ~("torn" \in Faults /\ EmptyStore')
    BY <2>1, <2>2, <2>4 DEF RowChange, RowInv, TypeOK
  <2>5. QED
    BY <2>3, <2>4
<1>2. QED
  BY <1>1, RowInvariant, PTL DEF Spec, TerminalRowFinal
-----------------------------------------------------------------------------
(* The contracts a row says are filled are in the fills section, or the    *)
(* pass that wrote the row is about to put them there.                     *)
FillDue(id) ==
  pc \in {"reconcile_fill", "submit_fill"} /\ cur = id /\ reply.filled = orders[id].filled
FillInv == \A id \in OrderIds : fills[id] >= orders[id].filled \/ FillDue(id)

LEMMA FillStep ==
  ASSUME "crash" \notin Faults, RowInv, FillInv, [Next]_vars
  PROVE  FillInv'
<1> USE DEF RowInv, TypeOK, FillInv, FillDue
<1>1. ASSUME UNCHANGED <<orders, fills>>, pc \notin {"reconcile_fill", "submit_fill"}
      PROVE  FillInv'
  BY <1>1
<1>2. ASSUME NEW id \in OrderIds, ReconcileOrder(id) PROVE FillInv'
  <2>1. PICK answer \in Answers(id, exch[id]) :
          /\ orders' = [orders EXCEPT ![id] = Reconciled(orders[id], id, answer)]
          /\ reply' = answer
    BY <1>2 DEF ReconcileOrder
  <2>2. /\ pc = "reconcile" /\ pc' = "reconcile_fill" /\ cur' = id /\ fills' = fills
    BY <1>2 DEF ReconcileOrder
  <2>3. Reconciled(orders[id], id, answer).filled = answer.filled
    BY DEF Reconciled
  <2>4. QED
    BY <2>1, <2>2, <2>3
<1>3. CASE RecordOrder
  <2>1. /\ pc = "record" /\ pc' = "submit_fill" /\ cur' = cur /\ reply' = reply
        /\ fills' = fills /\ orders' = [orders EXCEPT ![cur] = Recorded(cur, reply)]
    BY <1>3 DEF RecordOrder
  <2>2. Recorded(cur, reply).filled = reply.filled
    BY DEF Recorded
  <2>3. QED
    BY <2>1, <2>2
<1>4. CASE RecordFill
  <2>1. /\ cur \in OrderIds /\ reply.filled \in Nat /\ UNCHANGED orders
        /\ fills' = [fills EXCEPT ![cur] = Counted(fills[cur] + reply.filled)]
    BY <1>4 DEF RecordFill, InIteration, Reply
  <2>2. ASSUME NEW id \in OrderIds
        PROVE  fills'[id] >= orders[id].filled
    <3>1. /\ orders[id].filled \in Nat /\ orders[id].filled <= MaxFills /\ MaxFills \in Nat
          /\ fills[id] \in Nat
      <4>1. id.count \in 1 .. MaxCount
        BY DEF OrderIds, Counts
      <4>2. MaxCount \in Nat /\ MaxFills \in Nat /\ MaxCount <= MaxFills
        BY TraderConstants, RiskConstants
      <4>3. orders[id].filled \in Nat /\ exch[id].filled \in Nat
        BY DEF Row, ExchOrder
      <4>4. orders[id].filled <= exch[id].filled /\ exch[id].filled <= id.count
        BY DEF RowFaithful, ExchangeSound
      <4>5. QED
        BY <4>1, <4>2, <4>3, <4>4
    <3>2. CASE id # cur
      BY <1>4, <2>1, <2>2, <3>2 DEF RecordFill
    <3>3. CASE id = cur
      <4>1. fills'[id] = Counted(fills[id] + reply.filled)
        BY <2>1, <3>3
      <4>2. fills[id] >= orders[id].filled \/ reply.filled = orders[id].filled
        BY <1>4, <2>2
      <4>3. QED
        BY <2>1, <3>1, <4>1, <4>2 DEF Counted
    <3>4. QED
      BY <3>2, <3>3
  <2>3. QED
    BY <2>1, <2>2
<1>5. ASSUME NEW id \in OrderIds,
             SkipUnidentified(id) \/ ReconcileError(id) \/ WriteIntent(id)
      PROVE  FillInv'
  BY <1>1, <1>5 DEF SkipUnidentified, ReconcileError, WriteIntent, store
<1>6. ASSUME NEW m \in Commands, StartRun(m) PROVE FillInv'
  BY <1>1, <1>6 DEF StartRun, store
<1>7. CASE \/ FinishReconcile \/ BuildReport \/ AbortRun \/ CreateOrder \/ CreateError
           \/ CreateTimeout \/ RecordKill \/ FinishRun
  BY <1>1, <1>7 DEF FinishReconcile, BuildReport, AbortRun, CreateOrder, CreateError,
                    CreateTimeout, RecordKill, FinishRun, store
<1>8. CASE Exchange \/ Tick \/ UNCHANGED vars
  <2>1. UNCHANGED <<orders, fills, pc, cur, reply>>
    BY <1>8 DEF Exchange, ExchangeFill, ExchangeCancel, Tick, store, locals, vars
  <2>2. QED
    BY <2>1
<1>9. ~Crash
  BY DEF Crash
<1>10. CASE DieWriting
  BY <1>10, TornAway DEF NoRow
<1>11. QED
  BY <1>2, <1>3, <1>4, <1>5, <1>6, <1>7, <1>8, <1>9, <1>10 DEF Next, Engine

(* As long as no pass dies between the upsert of a row and                 *)
(* maybe_record_fill, the fills section has the contracts every row says   *)
(* are filled when the pass is over, whatever else fails.                  *)
THEOREM FillsRecorded ==
  ASSUME "crash" \notin Faults
  PROVE  Spec => []FilledRowHasFills
<1>1. Init => FillInv
  BY DEF Init, EmptyStore, NoRows, NoFills, NoRow, FillInv
<1>2. RowInv /\ FillInv /\ [Next]_vars => FillInv'
  BY FillStep
<1>3. FillInv => FilledRowHasFills
  BY DEF FillInv, FillDue, FilledRowHasFills
<1>4. QED
  BY <1>1, <1>2, <1>3, RowInvariant, PTL DEF Spec

-----------------------------------------------------------------------------
LEMMA OrdersFinite == IsFiniteSet(OrderIds)
<1> DEFINE Triples == (Candidates \X Prices) \X Counts
           Key == [id \in OrderIds |-> <<<<id.cand, id.price>>, id.count>>]
<1>1. IsFiniteSet(Counts)
  BY RiskConstants, FS_Interval DEF Counts
<1>2. IsFiniteSet(Triples)
  <2>1. IsFiniteSet(Candidates \X Prices)
    BY RiskConstants, FS_Product
  <2>2. QED
    BY <1>1, <2>1, FS_Product
<1>3. Key \in Injection(OrderIds, Triples)
  <2>1. Key \in [OrderIds -> Triples]
    BY DEF OrderIds
  <2>2. ASSUME NEW a \in OrderIds, NEW b \in OrderIds, Key[a] = Key[b] PROVE a = b
    BY <2>2 DEF OrderIds
  <2> HIDE DEF Triples, Key
  <2>3. QED
    BY <2>1, <2>2 DEF Injection, IsInjective
<1> HIDE DEF Triples, Key
<1>4. QED
  BY <1>2, <1>3, FS_Injection

LEMMA NotionalNat == \A id \in OrderIds : Notional(id) \in Nat \ {0}
<1> SUFFICES ASSUME NEW id \in OrderIds PROVE Notional(id) \in Nat \ {0}
  OBVIOUS
<1>1. id.price \in Nat \ {0}
  BY RiskConstants DEF OrderIds
<1>2. id.count \in Nat \ {0}
  BY CountPositive
<1>3. \A a, b \in Nat \ {0} : a * b \in Nat \ {0}
  OBVIOUS
<1>4. QED
  BY <1>1, <1>2, <1>3 DEF Notional

(* The dollars of a set of orders are finitely many.                       *)
LEMMA DollarsFinite ==
  ASSUME NEW S \in SUBSET OrderIds
  PROVE  IsFiniteSet(Dollars(S)) /\ Exposure(S) \in Nat
<1> DEFINE Of == [id \in S |-> {id} \X (1 .. Notional(id))]
<1>1. IsFiniteSet(S)
  BY OrdersFinite, FS_Subset
<1>2. \A id \in S : IsFiniteSet(Of[id])
  <2> SUFFICES ASSUME NEW id \in S PROVE IsFiniteSet({id} \X (1 .. Notional(id)))
    OBVIOUS
  <2>1. Notional(id) \in Int
    BY NotionalNat
  <2>2. IsFiniteSet(1 .. Notional(id))
    BY <2>1, FS_Interval
  <2>3. IsFiniteSet({id})
    BY FS_Singleton
  <2>4. QED
    BY <2>2, <2>3, FS_Product
<1> DEFINE Sets == {Of[id] : id \in S}
<1>3. IsFiniteSet(Sets)
  <2>1. Of \in Surjection(S, Sets)
    BY DEF Surjection
  <2> HIDE DEF Of, Sets
  <2>2. QED
    BY <1>1, <2>1, FS_Surjection
<1>4. Dollars(S) = UNION Sets
  BY DEF Dollars
<1>5. IsFiniteSet(UNION Sets)
  <2>1. \A T \in Sets : IsFiniteSet(T)
    BY <1>2
  <2> HIDE DEF Sets
  <2>2. QED
    BY <1>3, <2>1, FS_UNION
<1>6. QED
  BY <1>4, <1>5, FS_CardinalityType DEF Exposure

LEMMA ExposureMonotone ==
  ASSUME NEW T \in SUBSET OrderIds, NEW S \in SUBSET T
  PROVE  Exposure(S) <= Exposure(T)
<1>1. Dollars(S) \subseteq Dollars(T)
  BY DEF Dollars
<1>2. IsFiniteSet(Dollars(T))
  BY DollarsFinite
<1>3. QED
  BY <1>1, <1>2, FS_Subset DEF Exposure

LEMMA ExposureUnion ==
  ASSUME NEW S \in SUBSET OrderIds, NEW T \in SUBSET OrderIds
  PROVE  Exposure(S \cup T) <= Exposure(S) + Exposure(T)
<1> DEFINE A == Dollars(S)
           B == Dollars(T)
<1>1. Dollars(S \cup T) = A \cup B
  BY DEF Dollars
<1>2. IsFiniteSet(A) /\ IsFiniteSet(B)
  BY DollarsFinite
<1> HIDE DEF A, B
<1>3. /\ Cardinality(A \cup B) = Cardinality(A) + Cardinality(B) - Cardinality(A \cap B)
      /\ IsFiniteSet(A \cap B)
  BY <1>2, FS_Union, FS_Intersection
<1>4. Cardinality(A) \in Nat /\ Cardinality(B) \in Nat /\ Cardinality(A \cap B) \in Nat
  BY <1>2, <1>3, FS_CardinalityType
<1>5. Cardinality(A \cup B) <= Cardinality(A) + Cardinality(B)
  BY <1>3, <1>4
<1>6. QED
  BY <1>1, <1>5 DEF Exposure, A, B

(* Orders of at most most dollars each.                                    *)
LEMMA ExposureAtMost ==
  ASSUME NEW T \in SUBSET OrderIds, NEW most \in Nat,
         \A id \in T : Notional(id) <= most
  PROVE  Exposure(T) <= Cardinality(T) * most
<1>1. IsFiniteSet(T) /\ IsFiniteSet(1 .. most)
  BY OrdersFinite, FS_Subset, FS_Interval
<1>2. Cardinality(1 .. most) = most
  BY FS_Interval
<1>3. /\ IsFiniteSet(T \X (1 .. most))
      /\ Cardinality(T \X (1 .. most)) = Cardinality(T) * most
  BY <1>1, <1>2, FS_Product
<1>4. Dollars(T) \subseteq T \X (1 .. most)
  BY NotionalNat DEF Dollars
<1>5. QED
  BY <1>3, <1>4, FS_Subset DEF Exposure

(* Orders that would each fit into what a cap leaves, sized against the    *)
(* same exposure: together they stay within one cap for each of them.      *)
LEMMA Overshoot ==
  ASSUME NEW S \in SUBSET OrderIds, NEW T \in SUBSET OrderIds, NEW cap \in Nat,
         NEW most \in Nat, Cardinality(T) <= most,
         Exposure(S) <= most * cap,
         \A id \in T : Notional(id) <= cap - Exposure(S)
  PROVE  Exposure(S \cup T) <= most * cap
<1>1. CASE T = {}
  <2>1. S \cup T = S
    BY <1>1
  <2>2. QED
    BY <2>1
<1>2. CASE T # {}
  <2> DEFINE n == Cardinality(T)
             used == Exposure(S)
             left == cap - used
  <2>1. n \in Nat /\ n # 0 /\ used \in Nat
    BY <1>2, OrdersFinite, DollarsFinite, FS_Subset, FS_CardinalityType, FS_EmptySet
  <2>2. left \in Nat
    BY <1>2, <2>1, NotionalNat
  <2>3. Exposure(T) <= n * left
    BY <2>2, ExposureAtMost
  <2>4. Exposure(S \cup T) <= used + Exposure(T)
    BY ExposureUnion
  <2>5. Exposure(T) \in Nat /\ Exposure(S \cup T) \in Nat
    <3>1. S \cup T \in SUBSET OrderIds
      OBVIOUS
    <3>2. QED
      BY <3>1, DollarsFinite
  <2>6. used + n * left <= n * cap
    <3> HIDE DEF n, used
    <3>1. PICK k \in Nat : n = k + 1
      BY <2>1
    <3>2. n * left = k * left + left /\ n * cap = k * cap + cap
      BY <2>1, <2>2, <3>1
    <3>3. k * left <= k * cap
      <4>1. \A a, b, j \in Nat : a <= b => j * a <= j * b
        OBVIOUS
      <4>2. left <= cap
        BY <2>1, <2>2
      <4>3. QED
        BY <2>2, <3>1, <4>1, <4>2
    <3>4. k * left \in Nat /\ k * cap \in Nat
      BY <2>2, <3>1
    <3>5. used + left = cap
      BY <2>1
    <3> HIDE DEF left
    <3>6. QED
      BY <2>1, <2>2, <3>2, <3>3, <3>4, <3>5
  <2>7. n * cap <= most * cap
    <3>1. \A a, b, j \in Nat : a <= b => a * j <= b * j
      OBVIOUS
    <3> HIDE DEF n
    <3>2. QED
      BY <2>1, <3>1 DEF n
  <2>8. n * left \in Nat /\ n * cap \in Nat /\ most * cap \in Nat
    BY <2>1, <2>2
  <2> HIDE DEF n, used, left
  <2>9. QED
    BY <2>1, <2>3, <2>4, <2>5, <2>6, <2>7, <2>8
<1>3. QED
  BY <1>1, <1>2

-----------------------------------------------------------------------------
LEMMA LeastAdd ==
  ASSUME NEW S \in SUBSET Int, NEW x \in Int, \E m \in S : \A y \in S : m <= y
  PROVE  \E m \in S \cup {x} : \A y \in S \cup {x} : m <= y
<1>1. PICK m \in S : \A y \in S : m <= y
  OBVIOUS
<1>2. CASE m <= x
  BY <1>1, <1>2
<1>3. CASE ~(m <= x)
  BY <1>1, <1>3
<1>4. QED
  BY <1>2, <1>3

LEMMA LeastOfTwo ==
  ASSUME NEW a \in Int, NEW b \in Int
  PROVE  Min({a, b}) \in {a, b} /\ Min({a, b}) <= a /\ Min({a, b}) <= b
<1>1. \E m \in {a, b} : \A y \in {a, b} : m <= y
  OBVIOUS
<1>2. QED
  BY <1>1 DEF Min

LEMMA LeastOfSix ==
  ASSUME NEW a \in Int, NEW b \in Int, NEW c \in Int,
         NEW d \in Int, NEW e \in Int, NEW f \in Int,
         NEW L, L = {a, b, c, d, e, f}
  PROVE  Min(L) \in L /\ \A y \in L : Min(L) <= y
<1> DEFINE L2 == {a} \cup {b}
           L3 == L2 \cup {c}
           L4 == L3 \cup {d}
           L5 == L4 \cup {e}
           L6 == L5 \cup {f}
<1>1. \E m \in {a} : \A y \in {a} : m <= y
  OBVIOUS
<1>2. \E m \in L2 : \A y \in L2 : m <= y
  BY <1>1, LeastAdd
<1>3. \E m \in L3 : \A y \in L3 : m <= y
  <2>1. L2 \in SUBSET Int
    OBVIOUS
  <2> HIDE DEF L2
  <2>2. QED
    BY <1>2, <2>1, LeastAdd
<1>4. \E m \in L4 : \A y \in L4 : m <= y
  <2>1. L3 \in SUBSET Int
    OBVIOUS
  <2> HIDE DEF L3
  <2>2. QED
    BY <1>3, <2>1, LeastAdd
<1>5. \E m \in L5 : \A y \in L5 : m <= y
  <2>1. L4 \in SUBSET Int
    OBVIOUS
  <2> HIDE DEF L4
  <2>2. QED
    BY <1>4, <2>1, LeastAdd
<1>6. \E m \in L6 : \A y \in L6 : m <= y
  <2>1. L5 \in SUBSET Int
    OBVIOUS
  <2> HIDE DEF L5
  <2>2. QED
    BY <1>5, <2>1, LeastAdd
<1>7. L6 = L
  OBVIOUS
<1> HIDE DEF L6
<1>8. QED
  BY <1>6, <1>7 DEF Min

LEMMA GreatestWithZero ==
  ASSUME NEW m \in Int
  PROVE  Max({0, m}) \in Nat /\ (Max({0, m}) # 0 => Max({0, m}) = m)
<1>1. \E x \in {0, m} : \A y \in {0, m} : x >= y
  OBVIOUS
<1>2. QED
  BY <1>1 DEF Max

(* An order without a blocker fits into what every cap leaves.             *)
LEMMA EligibleFits ==
  ASSUME NEW quote, NEW rows \in [OrderIds -> Row], NEW t \in Nat, NEW balance \in Nat,
         NEW id \in EligibleOrders(quote, rows, t, balance)
  PROVE  LET open == OpenOrders(rows)
             c == id.cand IN
         /\ id \in OrderIds
         /\ Notional(id) <= MaxOpen - Exposure(open)
         /\ Notional(id) <= MaxDaily - DailyGross(rows, t)
         /\ Notional(id) <= MaxFamily - Exposure(InFamily(open, c))
         /\ Notional(id) <= MaxCluster - Exposure(InCluster(open, c))
         /\ Notional(id) <= MaxContract - Exposure(InContract(open, c))
<1> DEFINE open == OpenOrders(rows)
           c == id.cand
           L == {MaxOpen     - Exposure(open),
                 MaxDaily    - DailyGross(rows, t),
                 MaxFamily   - Exposure(InFamily(open, c)),
                 MaxCluster  - Exposure(InCluster(open, c)),
                 MaxContract - Exposure(InContract(open, c)),
                 balance}
           least == Min(L)
           room == Max({0, least})
           stake == PaperStake[c]
<1>1. /\ id \in OrderIds /\ c \in Candidates
      /\ id.count = OrderCount(c, id.price, rows, t, balance)
  BY DEF EligibleOrders, OrderIds
<1>2. /\ Exposure(open) \in Nat /\ DailyGross(rows, t) \in Nat
      /\ Exposure(InFamily(open, c)) \in Nat /\ Exposure(InCluster(open, c)) \in Nat
      /\ Exposure(InContract(open, c)) \in Nat
  <2>1. /\ open \in SUBSET OrderIds /\ BoughtToday(rows, t) \in SUBSET OrderIds
        /\ InFamily(open, c) \in SUBSET OrderIds /\ InCluster(open, c) \in SUBSET OrderIds
        /\ InContract(open, c) \in SUBSET OrderIds
    BY DEF OpenOrders, BoughtToday, InFamily, InCluster, InContract
  <2> HIDE DEF open, c
  <2>2. QED
    BY <2>1, DollarsFinite DEF DailyGross
<1>3. least \in L /\ least \in Int /\ \A y \in L : least <= y
  <2>1. /\ MaxOpen \in Nat /\ MaxDaily \in Nat /\ MaxFamily \in Nat
        /\ MaxCluster \in Nat /\ MaxContract \in Nat
    BY RiskConstants
  <2> HIDE DEF open, c
  <2>2. /\ MaxOpen - Exposure(open) \in Int /\ MaxDaily - DailyGross(rows, t) \in Int
        /\ MaxFamily - Exposure(InFamily(open, c)) \in Int
        /\ MaxCluster - Exposure(InCluster(open, c)) \in Int
        /\ MaxContract - Exposure(InContract(open, c)) \in Int /\ balance \in Int
    BY <1>2, <2>1
  <2>3. Min(L) \in L /\ \A y \in L : Min(L) <= y
    BY <2>2, LeastOfSix, ZenonT(30)
  <2>4. L \subseteq Int
    BY <2>2
  <2>5. QED
    BY <2>3, <2>4
<1>4. RemainingCap(c, rows, t, balance) = room
  BY DEF RemainingCap
<1>5. stake \in Nat /\ id.price \in Nat \ {0} /\ id.count \in Nat \ {0}
  <2>1. id.price \in Nat \ {0}
    BY <1>1, RiskConstants DEF OrderIds
  <2>2. id.count \in Nat \ {0}
    BY <1>1, CountPositive
  <2>3. stake \in Nat
    BY <1>1, RiskConstants
  <2>4. QED
    BY <2>1, <2>2, <2>3
<1> HIDE DEF L, stake, least
<1>6. room \in Nat /\ (room # 0 => room = least)
  BY <1>3, GreatestWithZero
<1> HIDE DEF room
<1> DEFINE n == Min({stake, room})
<1>7. n \in Nat /\ n <= room
  <2>1. stake \in Int /\ room \in Int
    BY <1>5, <1>6
  <2>2. n \in {stake, room} /\ n <= room
    BY <2>1, LeastOfTwo
  <2>3. QED
    BY <1>5, <1>6, <2>2
<1>8. id.count = n \div id.price
  BY <1>1, <1>4 DEF OrderCount, stake
<1>9. id.price * id.count <= n
  <2>1. \A k \in Nat, d \in Nat \ {0} : d * (k \div d) <= k
    OBVIOUS
  <2> HIDE DEF n
  <2>2. QED
    BY <1>5, <1>7, <1>8, <2>1
<1>10. Notional(id) \in Nat \ {0} /\ Notional(id) <= n
  BY <1>1, <1>9, NotionalNat DEF Notional
<1>11. Notional(id) <= least
  <2> HIDE DEF n
  <2>1. QED
    BY <1>3, <1>6, <1>7, <1>10
<1>12. \A y \in L : y \in Int /\ Notional(id) <= y
  <2>1. \A y \in L : y \in Int
    BY <1>2, RiskConstants DEF L
  <2>2. QED
    BY <1>3, <1>10, <1>11, <2>1
<1>13. QED
  BY <1>1, <1>12 DEF L

-----------------------------------------------------------------------------
(* What is needed beside OvershootBounded: the orders a pass has still to  *)
(* send count as if they had a row, and each order that was ever sent was  *)
(* sized to fit every cap.                                                 *)
BatchLive ==
  /\ batch # {} => pc \in {"submit", "create", "record", "submit_fill"}
  /\ pc \in {"create", "record"} => cur \in batch
Fits(id) ==
  /\ Notional(id) <= MaxOpen
  /\ Notional(id) <= MaxContract
  /\ Notional(id) <= MaxFamily
  /\ Notional(id) <= MaxCluster
Sized == \A id \in OrderIds : id \in batch \/ exch[id].status # "none" => Fits(id)
Held   == OpenOrders(orders) \cup batch
Bought == BoughtToday(orders, now) \cup batch
Within(ids, bought) ==
  /\ Exposure(ids) <= MaxOrdersPerRun * MaxOpen
  /\ Exposure(bought) <= MaxOrdersPerRun * MaxDaily
  /\ \A c \in Candidates :
       /\ Exposure(InContract(ids, c)) <= MaxOrdersPerRun * MaxContract
       /\ Exposure(InFamily(ids, c)) <= MaxOrdersPerRun * MaxFamily
       /\ Exposure(InCluster(ids, c)) <= MaxOrdersPerRun * MaxCluster
CapsInv == BatchLive /\ Sized /\ Within(Held, Bought)

LEMMA LimitsNat ==
  /\ MaxOrdersPerRun * MaxOpen \in Nat /\ MaxOrdersPerRun * MaxDaily \in Nat
  /\ MaxOrdersPerRun * MaxContract \in Nat /\ MaxOrdersPerRun * MaxFamily \in Nat
  /\ MaxOrdersPerRun * MaxCluster \in Nat
<1>1. \A a, b \in Nat : a * b \in Nat
  OBVIOUS
<1>2. QED
  BY <1>1, RiskConstants, TraderConstants

LEMMA FewerExposed ==
  ASSUME NEW T \in SUBSET OrderIds, NEW S \in SUBSET T, NEW most \in Nat,
         Exposure(T) <= most
  PROVE  Exposure(S) <= most
<1>1. Exposure(S) <= Exposure(T) /\ Exposure(S) \in Nat /\ Exposure(T) \in Nat
  <2>1. S \in SUBSET OrderIds
    OBVIOUS
  <2>2. QED
    BY <2>1, ExposureMonotone, DollarsFinite
<1>2. QED
  BY <1>1

LEMMA WithinLess ==
  ASSUME NEW H \in SUBSET OrderIds, NEW B \in SUBSET OrderIds,
         NEW h \in SUBSET H, NEW b \in SUBSET B, Within(H, B)
  PROVE  Within(h, b)
<1>1. /\ Exposure(h) <= MaxOrdersPerRun * MaxOpen
      /\ Exposure(b) <= MaxOrdersPerRun * MaxDaily
  BY FewerExposed, LimitsNat DEF Within
<1>2. ASSUME NEW c \in Candidates
      PROVE  /\ Exposure(InContract(h, c)) <= MaxOrdersPerRun * MaxContract
             /\ Exposure(InFamily(h, c)) <= MaxOrdersPerRun * MaxFamily
             /\ Exposure(InCluster(h, c)) <= MaxOrdersPerRun * MaxCluster
  <2>1. /\ InContract(H, c) \in SUBSET OrderIds /\ InContract(h, c) \in SUBSET InContract(H, c)
        /\ InFamily(H, c) \in SUBSET OrderIds /\ InFamily(h, c) \in SUBSET InFamily(H, c)
        /\ InCluster(H, c) \in SUBSET OrderIds /\ InCluster(h, c) \in SUBSET InCluster(H, c)
    BY DEF InContract, InFamily, InCluster
  <2>2. /\ Exposure(InContract(H, c)) <= MaxOrdersPerRun * MaxContract
        /\ Exposure(InFamily(H, c)) <= MaxOrdersPerRun * MaxFamily
        /\ Exposure(InCluster(H, c)) <= MaxOrdersPerRun * MaxCluster
    BY DEF Within
  <2>3. QED
    BY <2>1, <2>2, FewerExposed, LimitsNat
<1>3. QED
  BY <1>1, <1>2 DEF Within

(* A pass sizes its orders: each fits, and there are few of them.          *)
LEMMA WithinMore ==
  ASSUME NEW rows \in [OrderIds -> Row], NEW t \in Nat, NEW balance \in Nat, NEW quote,
         NEW ranked \in SUBSET EligibleOrders(quote, rows, t, balance),
         Cardinality(ranked) <= MaxOrdersPerRun,
         Within(OpenOrders(rows), BoughtToday(rows, t))
  PROVE  Within(OpenOrders(rows) \cup ranked, BoughtToday(rows, t) \cup ranked)
<1> DEFINE open == OpenOrders(rows)
           today == BoughtToday(rows, t)
<1>1. /\ open \in SUBSET OrderIds /\ today \in SUBSET OrderIds /\ ranked \in SUBSET OrderIds
      /\ MaxOrdersPerRun \in Nat
  BY TraderConstants DEF OpenOrders, BoughtToday, EligibleOrders
<1>2. \A id \in ranked :
        /\ id.cand \in Candidates
        /\ Notional(id) <= MaxOpen - Exposure(open)
        /\ Notional(id) <= MaxDaily - Exposure(today)
        /\ Notional(id) <= MaxFamily - Exposure(InFamily(open, id.cand))
        /\ Notional(id) <= MaxCluster - Exposure(InCluster(open, id.cand))
        /\ Notional(id) <= MaxContract - Exposure(InContract(open, id.cand))
  BY <1>1, EligibleFits DEF DailyGross, OrderIds
<1>3. Exposure(open \cup ranked) <= MaxOrdersPerRun * MaxOpen
  <2>1. MaxOpen \in Nat /\ Exposure(open) <= MaxOrdersPerRun * MaxOpen
    BY RiskConstants DEF Within
  <2> HIDE DEF open
  <2>2. QED
    BY <1>1, <1>2, <2>1, Overshoot
<1>4. Exposure(today \cup ranked) <= MaxOrdersPerRun * MaxDaily
  <2>1. MaxDaily \in Nat /\ Exposure(today) <= MaxOrdersPerRun * MaxDaily
    BY RiskConstants DEF Within
  <2> HIDE DEF today
  <2>2. QED
    BY <1>1, <1>2, <2>1, Overshoot
<1>5. ASSUME NEW c \in Candidates
      PROVE  /\ Exposure(InContract(open \cup ranked, c)) <= MaxOrdersPerRun * MaxContract
             /\ Exposure(InFamily(open \cup ranked, c)) <= MaxOrdersPerRun * MaxFamily
             /\ Exposure(InCluster(open \cup ranked, c)) <= MaxOrdersPerRun * MaxCluster
  <2>1. ASSUME NEW S \in SUBSET open, NEW T \in SUBSET ranked, NEW cap \in Nat,
               Exposure(S) <= MaxOrdersPerRun * cap,
               \A id \in T : Notional(id) <= cap - Exposure(S)
        PROVE  Exposure(S \cup T) <= MaxOrdersPerRun * cap
    <3>1. Cardinality(T) <= MaxOrdersPerRun
      <4>1. IsFiniteSet(ranked)
        BY <1>1, OrdersFinite, FS_Subset
      <4>2. Cardinality(T) <= Cardinality(ranked) /\ IsFiniteSet(T)
        BY <4>1, FS_Subset
      <4>3. Cardinality(T) \in Nat /\ Cardinality(ranked) \in Nat
        BY <4>1, <4>2, FS_CardinalityType
      <4>4. QED
        BY <1>1, <4>2, <4>3
    <3>2. S \in SUBSET OrderIds /\ T \in SUBSET OrderIds
      BY <1>1
    <3> HIDE DEF open
    <3>3. QED
      BY <1>1, <2>1, <3>1, <3>2, Overshoot
  <2>2. MaxContract \in Nat /\ MaxFamily \in Nat /\ MaxCluster \in Nat
    BY RiskConstants
  <2>3. /\ Exposure(InContract(open, c)) <= MaxOrdersPerRun * MaxContract
        /\ Exposure(InFamily(open, c)) <= MaxOrdersPerRun * MaxFamily
        /\ Exposure(InCluster(open, c)) <= MaxOrdersPerRun * MaxCluster
    BY DEF Within
  <2> HIDE DEF open
  <2>4. Exposure(InContract(open \cup ranked, c)) <= MaxOrdersPerRun * MaxContract
    <3>1. /\ InContract(open, c) \in SUBSET open /\ InContract(ranked, c) \in SUBSET ranked
          /\ InContract(open \cup ranked, c) = InContract(open, c) \cup InContract(ranked, c)
          /\ \A id \in InContract(ranked, c) : InContract(open, id.cand) = InContract(open, c)
      BY DEF InContract
    <3>2. \A id \in InContract(ranked, c) :
            Notional(id) <= MaxContract - Exposure(InContract(open, c))
      BY <1>2, <3>1
    <3>3. QED
      BY <2>1, <2>2, <2>3, <3>1, <3>2
  <2>5. Exposure(InFamily(open \cup ranked, c)) <= MaxOrdersPerRun * MaxFamily
    <3>1. /\ InFamily(open, c) \in SUBSET open /\ InFamily(ranked, c) \in SUBSET ranked
          /\ InFamily(open \cup ranked, c) = InFamily(open, c) \cup InFamily(ranked, c)
          /\ \A id \in InFamily(ranked, c) : InFamily(open, id.cand) = InFamily(open, c)
      BY DEF InFamily
    <3>2. \A id \in InFamily(ranked, c) :
            Notional(id) <= MaxFamily - Exposure(InFamily(open, c))
      BY <1>2, <3>1
    <3>3. QED
      BY <2>1, <2>2, <2>3, <3>1, <3>2
  <2>6. Exposure(InCluster(open \cup ranked, c)) <= MaxOrdersPerRun * MaxCluster
    <3>1. /\ InCluster(open, c) \in SUBSET open /\ InCluster(ranked, c) \in SUBSET ranked
          /\ InCluster(open \cup ranked, c) = InCluster(open, c) \cup InCluster(ranked, c)
          /\ \A id \in InCluster(ranked, c) : InCluster(open, id.cand) = InCluster(open, c)
      BY DEF InCluster
    <3>2. \A id \in InCluster(ranked, c) :
            Notional(id) <= MaxCluster - Exposure(InCluster(open, c))
      BY <1>2, <3>1
    <3>3. QED
      BY <2>1, <2>2, <2>3, <3>1, <3>2
  <2>7. QED
    BY <2>4, <2>5, <2>6
<1>6. QED
  BY <1>3, <1>4, <1>5 DEF Within

(* The day never starts earlier than it did.                               *)
LEMMA DayGoesOn == \A t \in Nat : DayStart(t) <= DayStart(t + 1)
<1> SUFFICES ASSUME NEW t \in Nat PROVE DayStart(t) <= DayStart(t + 1)
  OBVIOUS
<1> DEFINE D == DayLength
           q == t \div D
           p == (t + 1) \div D
<1>1. D \in Nat \ {0}
  BY RiskConstants
<1>2. \A n \in Nat, d \in Nat \ {0} :
        /\ n \div d \in Nat /\ n % d \in 0 .. (d - 1) /\ n = d * (n \div d) + (n % d)
  OBVIOUS
<1>3. /\ q \in Nat /\ t % D \in 0 .. (D - 1) /\ t = D * q + (t % D)
      /\ p \in Nat /\ (t + 1) % D \in 0 .. (D - 1) /\ t + 1 = D * p + ((t + 1) % D)
  <2>1. t + 1 \in Nat
    OBVIOUS
  <2> HIDE DEF D
  <2>2. QED
    BY <1>1, <1>2, <2>1
<1> DEFINE r == t % D
           s == (t + 1) % D
           Dq == D * q
           Dp == D * p
<1> HIDE DEF q, p, r, s, D
<1>4. Dq <= Dp
  <2> SUFFICES ASSUME p < q PROVE FALSE
    <3>1. \A a, b, d \in Nat : a <= b => d * a <= d * b
      OBVIOUS
    <3>2. QED
      BY <1>1, <1>3, <3>1
  <2>1. \A a, b, d \in Nat : a < b => d * a + d <= d * b
    <3> SUFFICES ASSUME NEW a \in Nat, NEW b \in Nat, NEW d \in Nat, a < b
                 PROVE  d * a + d <= d * b
      OBVIOUS
    <3>1. PICK k \in Nat : b = a + 1 + k
      BY b - a - 1 \in Nat
    <3>2. d * b = d * a + d + d * k /\ d * k \in Nat /\ d * a \in Nat
      BY <3>1
    <3>3. QED
      BY <3>2
  <2>2. Dp + D <= Dq
    BY <1>1, <1>3, <2>1
  <2>3. Dp \in Nat /\ Dq \in Nat
    BY <1>1, <1>3
  <2> HIDE DEF Dp, Dq
  <2>4. r \in 0 .. (D - 1) /\ s \in 0 .. (D - 1) /\ t = Dq + r /\ t + 1 = Dp + s
    BY <1>3 DEF r, s, Dp, Dq
  <2>5. QED
    BY <1>1, <2>2, <2>3, <2>4
<1>5. Dp \in Nat /\ Dq \in Nat
  BY <1>1, <1>3
<1> HIDE DEF Dp, Dq
<1>6. DayStart(t) = Dq /\ DayStart(t + 1) = Dp
  BY <1>1, <1>3, <1>5 DEF DayStart, r, s, Dp, Dq, D
<1>7. QED
  BY <1>4, <1>6

-----------------------------------------------------------------------------
(* A step that holds or has bought no order it did not count already.      *)
LEMMA CapsKept ==
  ASSUME RowInv, CapsInv, Held' \subseteq Held, Bought' \subseteq Bought,
         BatchLive', Sized'
  PROVE  CapsInv'
<1>1. Held \in SUBSET OrderIds /\ Bought \in SUBSET OrderIds
  BY DEF Held, Bought, OpenOrders, BoughtToday, RowInv, TypeOK
<1>2. Within(Held', Bought')
  BY <1>1, WithinLess DEF CapsInv
<1>3. QED
  BY <1>2 DEF CapsInv, Within

(* The exchange changes its mind about an order it has, or gets one of the *)
(* orders a pass had to send; the pass goes on, or ends.                   *)
LEMMA CapsSame ==
  ASSUME RowInv, CapsInv, UNCHANGED <<orders, now>>, batch' \subseteq batch, BatchLive',
         \A id \in OrderIds :
           exch'[id].status # "none" => exch[id].status # "none" \/ id \in batch
  PROVE  CapsInv'
<1>1. Held' \subseteq Held /\ Bought' \subseteq Bought
  BY DEF Held, Bought, OpenOrders, BoughtToday
<1>2. Sized'
  BY DEF CapsInv, Sized, Fits
<1>3. QED
  BY <1>1, <1>2, CapsKept

LEMMA ReconcileCaps ==
  ASSUME RowInv, CapsInv, NEW id \in OrderIds, ReconcileOrder(id)
  PROVE  CapsInv'
<1> USE DEF RowInv, TypeOK
<1>1. PICK answer \in Answers(id, exch[id]) :
        orders' = [orders EXCEPT ![id] = Reconciled(orders[id], id, answer)]
  BY DEF ReconcileOrder
<1>2. /\ pc = "reconcile" /\ pc' = "reconcile_fill" /\ UNCHANGED <<exch, now, batch>>
      /\ orders[id].status \in OpenRow /\ batch = {}
  BY DEF ReconcileOrder, TodoOpen, CapsInv, BatchLive
<1> DEFINE row == Reconciled(orders[id], id, answer)
<1>3. row.created = orders[id].created
  BY DEF Reconciled
<1> HIDE DEF row
<1>4. orders' = [orders EXCEPT ![id] = row]
  BY <1>1 DEF row
<1>5. Held' \subseteq Held /\ Bought' \subseteq Bought
  BY <1>2, <1>3, <1>4 DEF Held, Bought, OpenOrders, BoughtToday, OpenRow
<1>6. Sized' /\ BatchLive'
  BY <1>2 DEF CapsInv, Sized, Fits, BatchLive
<1>7. QED
  BY <1>5, <1>6, CapsKept

LEMMA EligibleSized ==
  ASSUME NEW quote, NEW rows \in [OrderIds -> Row], NEW t \in Nat, NEW balance \in Nat,
         NEW id \in EligibleOrders(quote, rows, t, balance)
  PROVE  Fits(id)
<1> DEFINE open == OpenOrders(rows)
           c == id.cand
<1>1. /\ id \in OrderIds
      /\ Notional(id) <= MaxOpen - Exposure(open)
      /\ Notional(id) <= MaxFamily - Exposure(InFamily(open, c))
      /\ Notional(id) <= MaxCluster - Exposure(InCluster(open, c))
      /\ Notional(id) <= MaxContract - Exposure(InContract(open, c))
  BY EligibleFits
<1>2. /\ open \in SUBSET OrderIds /\ InFamily(open, c) \in SUBSET OrderIds
      /\ InCluster(open, c) \in SUBSET OrderIds /\ InContract(open, c) \in SUBSET OrderIds
  BY DEF OpenOrders, InFamily, InCluster, InContract
<1> HIDE DEF open, c
<1>3. /\ Exposure(open) \in Nat /\ Exposure(InFamily(open, c)) \in Nat
      /\ Exposure(InCluster(open, c)) \in Nat /\ Exposure(InContract(open, c)) \in Nat
  BY <1>2, DollarsFinite
<1>4. Notional(id) \in Nat
  BY <1>1, NotionalNat
<1>5. MaxOpen \in Nat /\ MaxContract \in Nat /\ MaxFamily \in Nat /\ MaxCluster \in Nat
  BY RiskConstants
<1>6. QED
  BY <1>1, <1>3, <1>4, <1>5 DEF Fits

LEMMA ReportCaps ==
  ASSUME RowInv, CapsInv, BuildReport
  PROVE  CapsInv'
<1> USE DEF RowInv, TypeOK
<1>1. PICK quote \in [Candidates -> Prices \cup {0}], balance \in Balances :
        LET eligible == EligibleOrders(quote, orders, now, balance) IN
        \E ranked \in SUBSET eligible :
          /\ Cardinality(ranked) = Min({Cardinality(eligible), MaxOrdersPerRun})
          /\ IF mode = "dry_run" THEN EndRun
             ELSE batch' = ranked /\ pc' = "submit" /\ UNCHANGED <<mode, todo, cur, reply>>
  BY DEF BuildReport
<1> DEFINE eligible == EligibleOrders(quote, orders, now, balance)
<1>2. PICK ranked \in SUBSET eligible :
          /\ Cardinality(ranked) = Min({Cardinality(eligible), MaxOrdersPerRun})
          /\ IF mode = "dry_run" THEN EndRun
             ELSE batch' = ranked /\ pc' = "submit" /\ UNCHANGED <<mode, todo, cur, reply>>
  BY <1>1
<1>3. pc = "report" /\ UNCHANGED <<orders, exch, now>> /\ batch = {}
  BY DEF BuildReport, store, CapsInv, BatchLive
<1>4. CASE mode = "dry_run"
  <2>1. pc' = "idle" /\ batch' = {}
    BY <1>2, <1>4 DEF EndRun, Leave
  <2>2. QED
    BY <1>3, <2>1, CapsSame DEF BatchLive
<1>5. CASE mode # "dry_run"
  <2>1. batch' = ranked /\ pc' = "submit"
    BY <1>2, <1>5
  <2>2. Cardinality(ranked) <= MaxOrdersPerRun
    <3>1. eligible \in SUBSET OrderIds
      BY DEF EligibleOrders
    <3>2. IsFiniteSet(eligible)
      BY <3>1, OrdersFinite, FS_Subset
    <3> HIDE DEF eligible
    <3>3. Cardinality(eligible) \in Int /\ MaxOrdersPerRun \in Int
      BY <3>2, FS_CardinalityType, TraderConstants
    <3>4. QED
      BY <1>2, <3>3, LeastOfTwo
  <2>3. Held = OpenOrders(orders) /\ Bought = BoughtToday(orders, now)
    BY <1>3 DEF Held, Bought
  <2>4. Held' = OpenOrders(orders) \cup ranked /\ Bought' = BoughtToday(orders, now) \cup ranked
    BY <1>3, <2>1 DEF Held, Bought, OpenOrders, BoughtToday
  <2>5. Within(OpenOrders(orders), BoughtToday(orders, now))
    BY <2>3 DEF CapsInv
  <2>6. balance \in Nat
    BY TraderConstants
  <2>7. Within(Held', Bought')
    BY <2>2, <2>4, <2>5, <2>6, WithinMore
  <2>8. \A id \in ranked : Fits(id)
    BY <2>6, EligibleSized
  <2>9. BatchLive' /\ Sized'
    BY <1>3, <2>1, <2>8 DEF CapsInv, BatchLive, Sized, Fits
  <2>10. QED
    BY <2>7, <2>9 DEF CapsInv, Within
<1>6. QED
  BY <1>4, <1>5

LEMMA RecordCaps ==
  ASSUME RowInv, CapsInv, RecordOrder
  PROVE  CapsInv'
<1> USE DEF RowInv, TypeOK
<1>1. /\ pc = "record" /\ pc' = "submit_fill" /\ UNCHANGED <<exch, now, cur>>
      /\ cur \in batch /\ cur \in OrderIds /\ batch' = batch \ {cur}
      /\ orders' = [orders EXCEPT ![cur] = Recorded(cur, reply)]
  BY DEF RecordOrder, CapsInv, BatchLive
<1> DEFINE row == Recorded(cur, reply)
<1> HIDE DEF row
<1>2. orders' = [orders EXCEPT ![cur] = row]
  BY <1>1 DEF row
<1>3. Held' \subseteq Held /\ Bought' \subseteq Bought
  BY <1>1, <1>2 DEF Held, Bought, OpenOrders, BoughtToday
<1>4. Sized' /\ BatchLive'
  BY <1>1 DEF CapsInv, Sized, Fits, BatchLive
<1>5. QED
  BY <1>3, <1>4, CapsKept

LEMMA ElsewhereCaps ==
  ASSUME RowInv, CapsInv, Exchange \/ Tick \/ UNCHANGED vars
  PROVE  CapsInv'
<1> USE DEF RowInv, TypeOK
<1>1. CASE Exchange
  <2>1. PICK id \in OrderIds : ExchangeFill(id) \/ ExchangeCancel(id)
    BY <1>1 DEF Exchange
  <2>2. /\ exch[id].status = "resting" /\ UNCHANGED <<orders, now, pc, cur, batch>>
        /\ \E e : exch' = [exch EXCEPT ![id] = e]
    BY <2>1 DEF ExchangeFill, ExchangeCancel, store, locals
  <2>3. BatchLive'
    BY <2>2 DEF CapsInv, BatchLive
  <2>4. QED
    BY <2>2, <2>3, CapsSame
<1>2. CASE Tick
  <2>1. now' = now + 1 /\ UNCHANGED <<orders, exch, pc, cur, batch>>
    BY <1>2 DEF Tick, store, locals
  <2>2. BoughtToday(orders', now') \subseteq BoughtToday(orders, now)
    <3> SUFFICES ASSUME NEW id \in OrderIds, orders[id].created >= DayStart(now + 1)
                 PROVE  orders[id].created >= DayStart(now)
      BY <2>1 DEF BoughtToday
    <3>1. DayStart(now) <= DayStart(now + 1)
      BY DayGoesOn
    <3>2. now \in Nat /\ DayStart(now) \in Int /\ DayStart(now + 1) \in Int
      BY RiskConstants DEF DayStart
    <3>3. orders[id].created \in Nat
      BY DEF Row
    <3>4. QED
      BY <3>1, <3>2, <3>3
  <2>3. Held' \subseteq Held /\ Bought' \subseteq Bought
    BY <2>1, <2>2 DEF Held, Bought, OpenOrders
  <2>4. Sized' /\ BatchLive'
    BY <2>1 DEF CapsInv, Sized, Fits, BatchLive
  <2>5. QED
    BY <2>3, <2>4, CapsKept
<1>3. CASE UNCHANGED vars
  <2>1. UNCHANGED <<orders, exch, now, pc, cur, batch>>
    BY <1>3 DEF vars
  <2>2. BatchLive'
    BY <2>1 DEF CapsInv, BatchLive
  <2>3. QED
    BY <2>1, <2>2, CapsSame
<1>4. QED
  BY <1>1, <1>2, <1>3

(* A step that writes no row of orders and sends nothing; and one that     *)
(* changes at the exchange the order a pass is about to send.              *)
LEMMA QuietCaps ==
  ASSUME RowInv, CapsInv, UNCHANGED <<orders, exch, now>>, batch' \subseteq batch, BatchLive'
  PROVE  CapsInv'
BY CapsSame

LEMMA SentCaps ==
  ASSUME RowInv, CapsInv, UNCHANGED <<orders, now>>, batch' \subseteq batch, BatchLive',
         cur \in batch, NEW e, exch' = [exch EXCEPT ![cur] = e]
  PROVE  CapsInv'
<1>1. \A id \in OrderIds :
        exch'[id].status # "none" => exch[id].status # "none" \/ id \in batch
  BY DEF RowInv, TypeOK
<1>2. QED
  BY <1>1, CapsSame

LEMMA CapsStep ==
  ASSUME RowInv, CapsInv, [Next]_vars
  PROVE  CapsInv'
<1>0. BatchLive
  BY DEF CapsInv
<1>1. ASSUME EndRun PROVE batch' \subseteq batch /\ BatchLive'
  BY <1>1 DEF EndRun, Leave, BatchLive
<1>2. ASSUME NEW m \in Commands, StartRun(m) PROVE CapsInv'
  <2>1. UNCHANGED <<orders, exch, now, batch>> /\ pc = "idle" /\ pc' = "reconcile"
    BY <1>2 DEF StartRun, store
  <2>2. BatchLive'
    BY <1>0, <2>1 DEF BatchLive
  <2>3. QED
    BY <2>1, <2>2, QuietCaps
<1>3. ASSUME NEW id \in OrderIds, SkipUnidentified(id) \/ ReconcileError(id) PROVE CapsInv'
  <2>1. UNCHANGED <<orders, exch, now, batch, pc, cur>>
    BY <1>3 DEF SkipUnidentified, ReconcileError, store
  <2>2. BatchLive'
    BY <1>0, <2>1 DEF BatchLive
  <2>3. QED
    BY <2>1, <2>2, QuietCaps
<1>4. ASSUME NEW id \in OrderIds, WriteIntent(id) PROVE CapsInv'
  <2>1. /\ UNCHANGED <<orders, exch, now, batch>> /\ pc' = "create"
        /\ cur' = id /\ id \in batch
    BY <1>4 DEF WriteIntent
  <2>2. BatchLive'
    BY <2>1 DEF BatchLive
  <2>3. QED
    BY <2>1, <2>2, QuietCaps
<1>5. CASE RecordFill
  <2>1. /\ UNCHANGED <<orders, exch, now, batch>>
        /\ \/ pc = "reconcile_fill" /\ pc' = "reconcile"
           \/ pc = "submit_fill" /\ pc' = "submit"
    BY <1>5 DEF RecordFill
  <2>2. BatchLive'
    BY <1>0, <2>1 DEF BatchLive
  <2>3. QED
    BY <2>1, <2>2, QuietCaps
<1>6. CASE FinishReconcile \/ AbortRun \/ FinishRun \/ Crash
  <2>1. UNCHANGED <<orders, exch, now>>
    BY <1>6 DEF FinishReconcile, AbortRun, FinishRun, Crash, store
  <2>2. EndRun \/ (pc = "reconcile" /\ pc' = "report" /\ batch' = batch)
    BY <1>6 DEF FinishReconcile, AbortRun, FinishRun, Crash
  <2>3. batch' \subseteq batch /\ BatchLive'
    BY <1>0, <1>1, <2>2 DEF BatchLive
  <2>4. QED
    BY <2>1, <2>3, QuietCaps
<1>7. CASE CreateOrder
  <2>1. /\ pc = "create" /\ pc' = "record" /\ UNCHANGED <<orders, now, batch, cur>>
        /\ \E e : exch' = [exch EXCEPT ![cur] = e]
    BY <1>7 DEF CreateOrder, Accepted, store
  <2>2. PICK e : exch' = [exch EXCEPT ![cur] = e]
    BY <2>1
  <2>3. cur \in batch /\ BatchLive'
    BY <1>0, <2>1 DEF BatchLive
  <2>4. QED
    BY <2>1, <2>2, <2>3, SentCaps
<1>8. CASE CreateError \/ CreateTimeout
  <2>1. /\ UNCHANGED <<orders, now>> /\ pc = "create" /\ batch' = {}
        /\ pc' \notin {"create", "record"}
        /\ UNCHANGED exch \/ \E e : exch' = [exch EXCEPT ![cur] = e]
    BY <1>8 DEF CreateError, CreateTimeout, Accepted, EndRun, Leave, store
  <2>2. cur \in batch /\ batch' \subseteq batch /\ BatchLive'
    BY <1>0, <2>1 DEF BatchLive
  <2>3. CASE UNCHANGED exch
    BY <2>1, <2>2, <2>3, QuietCaps
  <2>4. CASE \E e : exch' = [exch EXCEPT ![cur] = e]
    <3>1. PICK e : exch' = [exch EXCEPT ![cur] = e]
      BY <2>4
    <3>2. QED
      BY <2>1, <2>2, <3>1, SentCaps
  <2>5. QED
    BY <2>1, <2>3, <2>4
<1>9. CASE RecordKill
  <2>1. UNCHANGED <<orders, exch, now>> /\ EndRun
    BY <1>9 DEF RecordKill
  <2>2. batch' \subseteq batch /\ BatchLive'
    BY <1>1, <2>1
  <2>3. QED
    BY <2>1, <2>2, QuietCaps
<1>10. CASE DieWriting
  <2>1. OpenOrders(orders)' = {}
    BY <1>10, TornAway DEF OpenOrders, OpenRow, NoRow
  <2>2. BoughtToday(orders, now)' = {}
    BY <1>10, TornAway DEF BoughtToday, NoRow
  <2>3. EndRun /\ UNCHANGED exch
    BY <1>10, TornAway
  <2>4. batch' = {}
    BY <2>3 DEF EndRun, Leave
  <2>5. Held' = {} /\ Bought' = {}
    BY <2>1, <2>2, <2>4 DEF Held, Bought
  <2>6. BatchLive' /\ Sized'
    BY <1>1, <2>3, <2>4 DEF CapsInv, Sized, Fits
  <2>7. QED
    BY <2>5, <2>6, CapsKept
<1>11. QED
  BY <1>2, <1>3, <1>4, <1>5, <1>6, <1>7, <1>8, <1>9, <1>10,
     ReconcileCaps, ReportCaps, RecordCaps, ElsewhereCaps DEF Next, Engine

LEMMA CapsStart == Init => CapsInv
<1> SUFFICES ASSUME Init PROVE CapsInv
  OBVIOUS
<1>1. BatchLive /\ Sized /\ Held = {} /\ Bought = {}
  BY DEF Init, EmptyStore, NoRows, NoRow, BatchLive, Sized, Held, Bought,
         OpenOrders, BoughtToday, OpenRow
<1>2. Dollars({}) = {} /\ Exposure({}) = 0
  BY FS_EmptySet DEF Dollars, Exposure
<1>3. \A c \in Candidates :
        InContract({}, c) = {} /\ InFamily({}, c) = {} /\ InCluster({}, c) = {}
  BY DEF InContract, InFamily, InCluster
<1>4. Within({}, {})
  BY <1>2, <1>3, LimitsNat DEF Within
<1>5. QED
  BY <1>1, <1>4 DEF CapsInv

(* An order that rests is open on file, about to be recorded (and then in  *)
(* the batch), or forgotten.                                               *)
LEMMA RestingIsHeld ==
  ASSUME RowInv, CapsInv
  PROVE  Resting \cup OpenOrders(orders) \subseteq Held \cup Forgotten
<1>1. ASSUME NEW id \in Resting PROVE id \in Held \cup Forgotten
  <2>1. id \in OrderIds /\ exch[id].status = "resting"
    BY DEF Resting
  <2>2. orders[id].status \in OpenRow \cup {"NONE"}
    BY <2>1 DEF RowInv, TypeOK, Row, RowFaithful, TerminalRow
  <2>3. QED
    BY <1>1, <2>1, <2>2 DEF Forgotten, Held, OpenOrders, CapsInv, BatchLive
<1>2. QED
  BY <1>1 DEF Held

(* With so much counted, what is not counted adds a cap for each order.    *)
LEMMA OneMoreEach ==
  ASSUME NEW S \in SUBSET OrderIds, NEW H \in SUBSET OrderIds, NEW F \in SUBSET OrderIds,
         S \subseteq H \cup F, NEW cap \in Nat, Exposure(H) <= MaxOrdersPerRun * cap,
         \A id \in F : Notional(id) <= cap
  PROVE  Exposure(S) <= (MaxOrdersPerRun + Cardinality(F)) * cap
<1> DEFINE n == Cardinality(F)
           most == MaxOrdersPerRun
<1>1. n \in Nat /\ most \in Nat
  BY OrdersFinite, FS_Subset, FS_CardinalityType, TraderConstants
<1>2. Exposure(F) <= n * cap
  BY ExposureAtMost
<1>3. Exposure(S) <= Exposure(H \cup F) /\ Exposure(H \cup F) <= Exposure(H) + Exposure(F)
  <2>1. H \cup F \in SUBSET OrderIds /\ S \in SUBSET (H \cup F)
    OBVIOUS
  <2>2. QED
    BY <2>1, ExposureMonotone, ExposureUnion
<1>4. /\ Exposure(S) \in Nat /\ Exposure(H) \in Nat /\ Exposure(F) \in Nat
      /\ Exposure(H \cup F) \in Nat
  <2>1. H \cup F \in SUBSET OrderIds
    OBVIOUS
  <2>2. QED
    BY <2>1, DollarsFinite
<1> HIDE DEF n, most
<1>5. (most + n) * cap = most * cap + n * cap /\ most * cap \in Nat /\ n * cap \in Nat
  BY <1>1
<1>6. Exposure(H) <= most * cap
  BY DEF most
<1>7. Exposure(S) <= (most + n) * cap
  BY <1>2, <1>3, <1>4, <1>5, <1>6
<1>8. QED
  BY <1>7 DEF n, most

LEMMA CapsBound ==
  ASSUME RowInv, CapsInv
  PROVE  OvershootBounded
<1> DEFINE held == Resting \cup OpenOrders(orders)
           Most(F, cap) == (MaxOrdersPerRun + Cardinality(F)) * cap
<1>1. /\ held \in SUBSET OrderIds /\ Held \in SUBSET OrderIds /\ Forgotten \in SUBSET OrderIds
      /\ Bought \in SUBSET OrderIds /\ BoughtToday(orders, now) \in SUBSET Bought
      /\ held \subseteq Held \cup Forgotten
  BY RestingIsHeld DEF Held, Bought, Resting, Forgotten, OpenOrders, BoughtToday, RowInv, TypeOK
<1>2. \A id \in Forgotten : Fits(id)
  BY DEF CapsInv, Sized, Forgotten, Resting
<1>3. MaxOpen \in Nat /\ MaxContract \in Nat /\ MaxFamily \in Nat /\ MaxCluster \in Nat
  BY RiskConstants
<1> HIDE DEF held
<1>4. Exposure(held) <= Most(Forgotten, MaxOpen)
  <2>1. Exposure(Held) <= MaxOrdersPerRun * MaxOpen
    BY DEF CapsInv, Within
  <2>2. \A id \in Forgotten : Notional(id) <= MaxOpen
    BY <1>2 DEF Fits
  <2>3. QED
    BY <1>1, <1>3, <2>1, <2>2, OneMoreEach
<1>5. DailyGross(orders, now) <= MaxOrdersPerRun * MaxDaily
  <2>1. Exposure(Bought) <= MaxOrdersPerRun * MaxDaily
    BY DEF CapsInv, Within
  <2>2. QED
    BY <1>1, <2>1, FewerExposed, LimitsNat DEF DailyGross
<1>6. ASSUME NEW c \in Candidates
      PROVE  /\ Exposure(InContract(held, c)) <= Most(InContract(Forgotten, c), MaxContract)
             /\ Exposure(InFamily(held, c)) <= Most(InFamily(Forgotten, c), MaxFamily)
             /\ Exposure(InCluster(held, c)) <= Most(InCluster(Forgotten, c), MaxCluster)
  <2>1. /\ Exposure(InContract(Held, c)) <= MaxOrdersPerRun * MaxContract
        /\ Exposure(InFamily(Held, c)) <= MaxOrdersPerRun * MaxFamily
        /\ Exposure(InCluster(Held, c)) <= MaxOrdersPerRun * MaxCluster
    BY DEF CapsInv, Within
  <2>2. Exposure(InContract(held, c)) <= Most(InContract(Forgotten, c), MaxContract)
    <3> DEFINE S == InContract(held, c)  H == InContract(Held, c)  F == InContract(Forgotten, c)
    <3>1. /\ S \in SUBSET OrderIds /\ H \in SUBSET OrderIds /\ F \in SUBSET OrderIds
          /\ S \subseteq H \cup F /\ \A id \in F : Notional(id) <= MaxContract
      BY <1>1, <1>2 DEF InContract, Fits
    <3>2. Exposure(H) <= MaxOrdersPerRun * MaxContract
      BY <2>1
    <3> HIDE DEF S, H, F
    <3>3. Exposure(S) <= Most(F, MaxContract)
      BY <1>3, <3>1, <3>2, OneMoreEach
    <3>4. QED
      BY <3>3 DEF S, F
  <2>3. Exposure(InFamily(held, c)) <= Most(InFamily(Forgotten, c), MaxFamily)
    <3> DEFINE S == InFamily(held, c)  H == InFamily(Held, c)  F == InFamily(Forgotten, c)
    <3>1. /\ S \in SUBSET OrderIds /\ H \in SUBSET OrderIds /\ F \in SUBSET OrderIds
          /\ S \subseteq H \cup F /\ \A id \in F : Notional(id) <= MaxFamily
      BY <1>1, <1>2 DEF InFamily, Fits
    <3>2. Exposure(H) <= MaxOrdersPerRun * MaxFamily
      BY <2>1
    <3> HIDE DEF S, H, F
    <3>3. Exposure(S) <= Most(F, MaxFamily)
      BY <1>3, <3>1, <3>2, OneMoreEach
    <3>4. QED
      BY <3>3 DEF S, F
  <2>4. Exposure(InCluster(held, c)) <= Most(InCluster(Forgotten, c), MaxCluster)
    <3> DEFINE S == InCluster(held, c)  H == InCluster(Held, c)  F == InCluster(Forgotten, c)
    <3>1. /\ S \in SUBSET OrderIds /\ H \in SUBSET OrderIds /\ F \in SUBSET OrderIds
          /\ S \subseteq H \cup F /\ \A id \in F : Notional(id) <= MaxCluster
      BY <1>1, <1>2 DEF InCluster, Fits
    <3>2. Exposure(H) <= MaxOrdersPerRun * MaxCluster
      BY <2>1
    <3> HIDE DEF S, H, F
    <3>3. Exposure(S) <= Most(F, MaxCluster)
      BY <1>3, <3>1, <3>2, OneMoreEach
    <3>4. QED
      BY <3>3 DEF S, F
  <2>5. QED
    BY <2>2, <2>3, <2>4
<1>7. QED
  BY <1>4, <1>5, <1>6 DEF OvershootBounded, held

(* What is open stays within one cap for each order of a pass and one for  *)
(* each order whose row was never written, whatever the market does,       *)
(* however often passes run, and whatever fails.                           *)
THEOREM CapsOvershoot == Spec => []OvershootBounded
<1>1. RowInv /\ CapsInv /\ [Next]_vars => CapsInv'
  BY CapsStep
<1>2. RowInv /\ CapsInv => OvershootBounded
  BY CapsBound
<1>3. QED
  BY CapsStart, <1>1, <1>2, RowInvariant, PTL DEF Spec

(* What loses sight of an order that was accepted, or of its row.          *)
Losing == {"ambiguous", "timeout", "crash", "torn"}

LEMMA ForgottenStep ==
  ASSUME Faults \cap Losing = {}, RowInv, Forgotten = {}, [Next]_vars
  PROVE  Forgotten' = {}
<1> USE DEF RowInv, TypeOK
<1>1. ASSUME \A id \in OrderIds : exch'[id].status = "resting" => exch[id].status = "resting",
             \A id \in OrderIds : orders[id].status # "NONE" => orders'[id].status # "NONE",
             pc # "record"
      PROVE  Forgotten' = {}
  BY <1>1 DEF Forgotten, Resting
<1>2. CASE /\ UNCHANGED <<orders, exch>>
           /\ pc # "record" \/ UNCHANGED <<pc, cur>>
  BY <1>2 DEF Forgotten, Resting
<1>3. ASSUME NEW m \in Commands, StartRun(m) PROVE Forgotten' = {}
  BY <1>2, <1>3 DEF StartRun, store
<1>4. ASSUME NEW id \in OrderIds, SkipUnidentified(id) \/ ReconcileError(id) \/ WriteIntent(id)
      PROVE  Forgotten' = {}
  BY <1>2, <1>4 DEF SkipUnidentified, ReconcileError, WriteIntent, store
<1>5. CASE RecordFill \/ FinishReconcile \/ BuildReport \/ AbortRun \/ RecordKill \/ FinishRun
  BY <1>2, <1>5
     DEF RecordFill, FinishReconcile, BuildReport, AbortRun, RecordKill, FinishRun, store
<1>6. ASSUME NEW id \in OrderIds, ReconcileOrder(id) PROVE Forgotten' = {}
  <2>1. PICK answer : orders' = [orders EXCEPT ![id] = Reconciled(orders[id], id, answer)]
    BY <1>6 DEF ReconcileOrder
  <2>2. pc = "reconcile" /\ exch' = exch /\ orders[id].status \in OpenRow
    BY <1>6 DEF ReconcileOrder, TodoOpen
  <2>3. Reconciled(orders[id], id, answer).status # "NONE"
    BY <2>2 DEF Reconciled, OpenRow
  <2> DEFINE row == Reconciled(orders[id], id, answer)
  <2> HIDE DEF row
  <2>4. orders' = [orders EXCEPT ![id] = row] /\ row.status # "NONE"
    BY <2>1, <2>3 DEF row
  <2>5. QED
    BY <1>1, <2>2, <2>4
<1>7. CASE CreateOrder
  <2>1. /\ pc = "create" /\ pc' = "record" /\ UNCHANGED <<orders, cur>> /\ cur \in OrderIds
        /\ \E e : exch' = [exch EXCEPT ![cur] = e]
    BY <1>7 DEF CreateOrder, Accepted, store, InIteration
  <2>2. QED
    BY <2>1 DEF Forgotten, Resting
<1>8. CASE RecordOrder
  <2>1. /\ pc = "record" /\ cur \in OrderIds /\ exch' = exch
        /\ orders' = [orders EXCEPT ![cur] = Recorded(cur, reply)]
    BY <1>8 DEF RecordOrder, InIteration
  <2>2. Recorded(cur, reply).status # "NONE"
    BY DEF Recorded
  <2> DEFINE row == Recorded(cur, reply)
  <2> HIDE DEF row
  <2>3. orders' = [orders EXCEPT ![cur] = row] /\ row.status # "NONE"
    BY <2>1, <2>2 DEF row
  <2>4. QED
    BY <2>1, <2>3 DEF Forgotten, Resting
<1>9. CASE CreateError \/ CreateTimeout
  <2>1. UNCHANGED <<orders, exch>> /\ pc = "create"
    BY <1>9 DEF CreateError, CreateTimeout, store, Losing
  <2>2. QED
    BY <1>2, <2>1
<1>10. ~Crash /\ ~DieWriting
  BY DEF Crash, DieWriting, Losing
<1>11. CASE Exchange
  <2>1. PICK id \in OrderIds : ExchangeFill(id) \/ ExchangeCancel(id)
    BY <1>11 DEF Exchange
  <2>2. /\ exch[id].status = "resting" /\ UNCHANGED <<orders, pc, cur>>
        /\ \E e : exch' = [exch EXCEPT ![id] = e]
    BY <2>1 DEF ExchangeFill, ExchangeCancel, store, locals
  <2>3. QED
    BY <2>2 DEF Forgotten, Resting
<1>12. CASE Tick \/ UNCHANGED vars
  BY <1>2, <1>12 DEF Tick, store, locals, vars
<1>13. QED
  BY <1>3, <1>4, <1>5, <1>6, <1>7, <1>8, <1>9, <1>10, <1>11, <1>12 DEF Next, Engine

(* No order is forgotten unless an answer is lost (a request times out or  *)
(* is refused although it took effect) or the process dies: without that   *)
(* the caps are overshot by the orders of one pass alone.                  *)
THEOREM NothingForgotten ==
  ASSUME Faults \cap Losing = {}
  PROVE  Spec => [](Forgotten = {})
<1>1. Init => Forgotten = {}
  BY DEF Init, Forgotten, Resting
<1>2. RowInv /\ Forgotten = {} /\ [Next]_vars => (Forgotten = {})'
  BY ForgottenStep
<1>3. QED
  BY <1>1, <1>2, RowInvariant, PTL DEF Spec

-----------------------------------------------------------------------------
(* The refinement: the exchange is the market, the state file the ledger.  *)
Market == [id \in OrderIds |-> AbstractOrder(exch[id])]
Book   == [id \in OrderIds |-> AbstractOrder(orders[id])]

LEMMA AbstractStatuses ==
  /\ AbstractStatus("none") = "none" /\ AbstractStatus("NONE") = "none"
  /\ AbstractStatus("resting") = "open" /\ AbstractStatus("SUBMITTED") = "open"
  /\ AbstractStatus("RESTING") = "open" /\ AbstractStatus("PARTIAL") = "open"
  /\ AbstractStatus("executed") = "filled" /\ AbstractStatus("FILLED") = "filled"
  /\ AbstractStatus("CANCELED") = "canceled" /\ AbstractStatus("canceled") = "canceled"
BY DEF AbstractStatus, OpenRow

LEMMA MarketChange ==
  ASSUME TypeOK, NEW id \in OrderIds, NEW e \in ExchOrder,
         exch' = [exch EXCEPT ![id] = e]
  PROVE  /\ Market' = [Market EXCEPT ![id] = AbstractOrder(e)]
         /\ Market'[id] = AbstractOrder(e)
BY DEF TypeOK, Market

(* A row that is written is a row the ledger may show.                     *)
LEMMA ObserveStep ==
  ASSUME RowInv, RowInv', NEW id \in OrderIds,
         UNCHANGED <<intents, exch>>,
         orders[id].status \in OpenRow \cup {"NONE"},
         orders'[id].status # "NONE",
         orders' = [orders EXCEPT ![id] = orders'[id]]
  PROVE  Ledger!Observe(id)
<1> USE DEF RowInv, TypeOK, Row, ExchOrder, ExchStatus, OpenRow, TerminalRow
<1>1. /\ Market[id] = AbstractOrder(exch[id])
      /\ Book[id] = AbstractOrder(orders[id]) /\ Book'[id] = AbstractOrder(orders'[id])
      /\ Book' = [Book EXCEPT ![id] = Book'[id]] /\ Market' = Market
  BY DEF Market, Book
<1>2. exch[id].status # "none" /\ Market[id].status # "none"
  <2>1. exch[id].status \in {"resting", "executed", "canceled"}
    BY DEF RowFaithful
  <2>2. QED
    BY <1>1, <2>1, AbstractStatuses DEF AbstractOrder
<1>3. Book[id].status \in {"none", "open"}
  BY <1>1, AbstractStatuses DEF AbstractOrder
<1>4. \/ Book'[id].status \in {"open", Market[id].status}
      \/ Book'[id].status = "filled" /\ Market[id].status = "canceled"
  <2>1. /\ orders'[id].status = "FILLED" => exch[id].status \in {"executed", "canceled"}
        /\ orders'[id].status = "CANCELED" => exch[id].status = "canceled"
    BY DEF RowFaithful
  <2>2. orders'[id].status \in {"SUBMITTED", "RESTING", "PARTIAL", "FILLED", "CANCELED"}
    OBVIOUS
  <2>3. QED
    BY <1>1, <2>1, <2>2, AbstractStatuses DEF AbstractOrder
<1>5. Book'[id].filled \in 0 .. Market[id].filled
  BY <1>1 DEF RowFaithful, AbstractOrder
<1>6. QED
  BY <1>1, <1>2, <1>3, <1>4, <1>5 DEF Ledger!Observe, Market, Book

LEMMA PlaceStep ==
  ASSUME RowInv, cur \in OrderIds, cur \in intents, UNCHANGED <<intents, orders>>,
         NEW n \in 0 .. cur.count, Accepted(cur, n)
  PROVE  Ledger!Place(cur)
<1>1. n \in Nat
  BY CountPositive
<1>2. PICK e \in ExchOrder : /\ exch' = [exch EXCEPT ![cur] = e]
                             /\ e.status \in {"executed", "resting", "canceled"}
  <2>1. PICK s \in {"executed", "resting", "canceled"} :
          exch' = [exch EXCEPT ![cur] = [status |-> s, filled |-> n]]
    BY DEF Accepted
  <2>2. [status |-> s, filled |-> n] \in ExchOrder
    BY <1>1 DEF ExchOrder, ExchStatus
  <2>3. QED
    BY <2>1, <2>2
<1>3. Market' = [Market EXCEPT ![cur] = AbstractOrder(e)] /\ Market'[cur] = AbstractOrder(e)
  BY <1>2, MarketChange DEF RowInv
<1>4. Market'[cur].status \in {"open", "filled", "canceled"} /\ Market'[cur].filled \in Nat
  BY <1>2, <1>3, AbstractStatuses DEF AbstractOrder, ExchOrder
<1>5. Market[cur].status = "none"
  BY AbstractStatuses DEF Accepted, Market, AbstractOrder
<1>6. Book' = Book
  BY DEF Book
<1>7. QED
  BY <1>3, <1>4, <1>5, <1>6 DEF Ledger!Place, Ledger!MarketSets, Market, Book

(* A resting order trades or ends.                                         *)
LEMMA TradeStep ==
  ASSUME RowInv, NEW id \in OrderIds, NEW e \in ExchOrder,
         UNCHANGED <<intents, orders>>,
         exch[id].status = "resting", exch' = [exch EXCEPT ![id] = e],
         e.status \in {"executed", "resting", "canceled"}, e.filled >= exch[id].filled
  PROVE  Ledger!Trade(id)
<1>1. Market' = [Market EXCEPT ![id] = AbstractOrder(e)] /\ Market'[id] = AbstractOrder(e)
  BY MarketChange DEF RowInv
<1>2. Market'[id].status \in {"open", "filled", "canceled"} /\ Market'[id].filled \in Nat
  BY <1>1, AbstractStatuses DEF AbstractOrder, ExchOrder
<1>3. Market[id].status = "open" /\ Market'[id].filled >= Market[id].filled
  BY <1>1, AbstractStatuses DEF Market, AbstractOrder
<1>4. Book' = Book
  BY DEF Book
<1>5. QED
  BY <1>1, <1>2, <1>3, <1>4 DEF Ledger!Trade, Ledger!MarketSets, Market, Book

LEMMA LedgerStep ==
  RowInv /\ RowInv' /\ DurableInv /\ [Next]_vars => [Ledger!Next]_(Ledger!vars)
<1> SUFFICES ASSUME RowInv, RowInv', DurableInv, [Next]_vars
             PROVE  [Ledger!Next]_(Ledger!vars)
  OBVIOUS
<1> DEFINE Same == /\ UNCHANGED <<intents, orders>>
                   /\ Market' = Market
<1>1. ASSUME Same PROVE UNCHANGED Ledger!vars
  BY <1>1 DEF Ledger!vars, Market
<1>2. ASSUME UNCHANGED <<intents, orders, exch>> PROVE Same
  BY <1>2 DEF Market
<1>3. ASSUME NEW id \in OrderIds, ReconcileOrder(id) PROVE Ledger!Observe(id)
  <2>1. PICK answer : orders' = [orders EXCEPT ![id] = Reconciled(orders[id], id, answer)]
    BY <1>3 DEF ReconcileOrder
  <2>2. orders[id].status \in OpenRow /\ UNCHANGED <<intents, exch>>
    BY <1>3 DEF ReconcileOrder, RowInv, TodoOpen
  <2>3. orders'[id] = Reconciled(orders[id], id, answer)
    BY <2>1 DEF RowInv, TypeOK
  <2>4. orders'[id].status # "NONE"
    BY <2>2, <2>3 DEF Reconciled, OpenRow
  <2>5. QED
    BY <2>1, <2>2, <2>3, <2>4, ObserveStep
<1>4. CASE RecordOrder
  <2>1. /\ orders' = [orders EXCEPT ![cur] = Recorded(cur, reply)]
        /\ UNCHANGED <<intents, exch>>
    BY <1>4 DEF RecordOrder
  <2>2. cur \in OrderIds /\ orders[cur].status = "NONE"
    BY <1>4 DEF RecordOrder, RowInv, TypeOK, ReplySound, InIteration
  <2>3. orders'[cur] = Recorded(cur, reply)
    BY <2>1, <2>2 DEF RowInv, TypeOK
  <2>4. orders'[cur].status # "NONE"
    BY <2>3 DEF Recorded
  <2>5. Ledger!Observe(cur)
    BY <2>1, <2>2, <2>3, <2>4, ObserveStep
  <2>6. QED
    BY <2>2, <2>5 DEF Ledger!Next
<1>5. ASSUME NEW id \in OrderIds, WriteIntent(id) PROVE Ledger!Intend(id)
  BY <1>5 DEF WriteIntent, Ledger!Intend
<1>6. ASSUME pc = "create", UNCHANGED <<intents, orders>>,
             NEW n \in 0 .. cur.count, Accepted(cur, n)
      PROVE  Ledger!Next
  <2>1. cur \in OrderIds /\ cur \in intents
    BY <1>6 DEF DurableInv, RowInv, TypeOK, InIteration
  <2>2. Ledger!Place(cur)
    BY <1>6, <2>1, PlaceStep
  <2>3. QED
    BY <2>1, <2>2 DEF Ledger!Next
<1>7. CASE CreateOrder
  BY <1>6, <1>7 DEF CreateOrder, store
<1>8. CASE CreateError \/ CreateTimeout
  <2>1. UNCHANGED <<intents, orders>> /\ pc = "create"
    BY <1>8 DEF CreateError, CreateTimeout, store
  <2>2. UNCHANGED exch \/ \E n \in 0 .. cur.count : Accepted(cur, n)
    BY <1>8 DEF CreateError, CreateTimeout
  <2>3. QED
    BY <1>1, <1>2, <1>6, <2>1, <2>2
<1>9. ASSUME NEW id \in OrderIds, ExchangeFill(id) PROVE Ledger!Trade(id)
  <2>1. PICK n \in (exch[id].filled + 1) .. id.count :
          exch' = [exch EXCEPT ![id] =
            [status |-> IF n = id.count THEN "executed" ELSE "resting", filled |-> n]]
    BY <1>9 DEF ExchangeFill
  <2>2. exch[id].filled \in Nat /\ n \in Nat /\ n >= exch[id].filled
    BY CountPositive DEF RowInv, TypeOK, ExchOrder
  <2>3. PICK s \in {"executed", "resting"} :
          exch' = [exch EXCEPT ![id] = [status |-> s, filled |-> n]]
    BY <2>1
  <2>4. [status |-> s, filled |-> n] \in ExchOrder
    BY <2>2 DEF ExchOrder, ExchStatus
  <2>5. exch[id].status = "resting" /\ UNCHANGED <<intents, orders>>
    BY <1>9 DEF ExchangeFill, store
  <2>6. QED
    BY <2>2, <2>3, <2>4, <2>5, TradeStep
<1>10. ASSUME NEW id \in OrderIds, ExchangeCancel(id) PROVE Ledger!Trade(id)
  <2>1. exch[id] \in ExchOrder
    BY DEF RowInv, TypeOK
  <2>2. exch' = [exch EXCEPT ![id] = [status |-> "canceled", filled |-> exch[id].filled]]
    <3>1. [exch[id] EXCEPT !.status = "canceled"]
            = [status |-> "canceled", filled |-> exch[id].filled]
      BY <2>1 DEF ExchOrder
    <3>2. exch' = [exch EXCEPT ![id] = [exch[id] EXCEPT !.status = "canceled"]]
      BY <1>10 DEF ExchangeCancel
    <3>3. QED
      BY <3>1, <3>2
  <2>3. [status |-> "canceled", filled |-> exch[id].filled] \in ExchOrder
    BY <2>1 DEF ExchOrder, ExchStatus
  <2>4. exch[id].status = "resting" /\ UNCHANGED <<intents, orders>>
    BY <1>10 DEF ExchangeCancel, store
  <2>5. exch[id].filled >= exch[id].filled
    BY <2>1 DEF ExchOrder
  <2>6. QED
    BY <2>2, <2>3, <2>4, <2>5, TradeStep
<1>11. ASSUME NEW m \in Commands, StartRun(m) PROVE Same
  BY <1>2, <1>11 DEF StartRun, store
<1>12. ASSUME NEW id \in OrderIds, SkipUnidentified(id) \/ ReconcileError(id)
       PROVE Same
  BY <1>2, <1>12 DEF SkipUnidentified, ReconcileError, store
<1>13. CASE \/ RecordFill \/ FinishReconcile \/ BuildReport \/ AbortRun
            \/ RecordKill \/ FinishRun \/ Crash \/ Tick \/ UNCHANGED vars
  <2>1. UNCHANGED <<intents, orders, exch>>
    BY <1>13 DEF RecordFill, FinishReconcile, BuildReport, AbortRun, RecordKill, FinishRun,
                 Crash, Tick, store, vars
  <2>2. QED
    BY <1>1, <1>2, <2>1
<1>14. ASSUME DieWriting PROVE Ledger!Lose
  <2>1. /\ orders' = [id \in OrderIds |-> NoRow] /\ intents' = {} /\ exch' = exch
        /\ "torn" \in Faults
    BY <1>14, TornAway
  <2>2. AbstractOrder(NoRow) = Ledger!None
    BY AbstractStatuses DEF AbstractOrder, NoRow, Ledger!None
  <2>3. Book' = [id \in OrderIds |-> Ledger!None]
    BY <2>1, <2>2 DEF Book
  <2>4. Market' = Market
    BY <2>1 DEF Market
  <2>5. QED
    BY <2>1, <2>3, <2>4 DEF Ledger!Lose, Market, Book
<1> HIDE DEF Same
<1>15. QED
  BY <1>1, <1>3, <1>4, <1>5, <1>7, <1>8, <1>9, <1>10, <1>11, <1>12, <1>13, <1>14
     DEF Next, Engine, Exchange, Ledger!Next

(* The engine with its exchange implements the order ledger, whatever      *)
(* fails and whenever the process dies: a ledger that may lose all it has  *)
(* on a host that tears writes, and one that never forgets on any other.   *)
THEOREM Implements == Spec => ImplementsLedger
<1>1. Init => Ledger!Init
  BY AbstractStatuses
     DEF Init, EmptyStore, NoRows, NoRow, AbstractOrder, Ledger!Init, Ledger!None
<1>2. Init => DurableInv
  BY DEF Init, DurableInv, OrderHasDurableIntent
<1>3. RowInv /\ DurableInv /\ [Next]_vars => DurableInv'
  BY DurableStep
<1>4. RowInv /\ RowInv' /\ DurableInv /\ [Next]_vars => [Ledger!Next]_(Ledger!vars)
  BY LedgerStep
<1>5. QED
  BY <1>1, <1>2, <1>3, <1>4, RowInvariant, PTL DEF Spec, ImplementsLedger, Ledger!Spec
=============================================================================
