------------------------ MODULE WebSocketPoolProofs -------------------------
(* The pool of connections and the subscriptions of its clients, for any   *)
(* clients, tickers, channels and size of the pool.  The pool is exact     *)
(* where a client has one task, as in the tick recorder: nobody closes the *)
(* client under the consumer that dials.  The recorder inherits all of it, *)
(* since all it does to its client are operations of the pool.             *)
EXTENDS TickRecorder, FiniteSetTheorems, TLAPS

ClientStates ==
  [state: {"UNBORN", "INITIAL", "CONNECTING", "CONNECTED", "RECONNECTING",
           "DISCONNECTED", "CLOSED"},
   ws: {"none", "open", "lost"}, closed: BOOLEAN,
   tickers: SUBSET Tickers, channels: SUBSET Channels,
   subs: SUBSET (Tickers \X Channels),
   pc: {"off", "first", "recv", "backoff", "redial"},
   attempt: 0 .. MaxAttempts - 1, releasing: Nat]

(* What is subscribed to on a connection is all that was asked for.        *)
Served == \A c \in Clients : client[c].ws = "open" => Wanted(client[c]) \subseteq client[c].subs

(* A closed client has no task and no connection, and closes once; one     *)
(* whose reconnections ran out has none either.                            *)
Settled(k) ==
  /\ k.state = "UNBORN" => ~k.closed /\ k.ws = "none" /\ k.pc = "off"
  /\ k.closed => k.state = "CLOSED" /\ k.pc = "off" /\ k.ws = "none" /\ k.releasing <= 1
  /\ ~k.closed => k.state # "CLOSED" /\ k.releasing = 0
  /\ k.state = "DISCONNECTED" => k.ws = "none" /\ k.pc = "off"

Orderly == \A c \in Clients : Settled(client[c])

Holds(k) == k.state # "UNBORN" /\ (~k.closed \/ k.releasing > 0)
Holders == {c \in Clients : Holds(client[c])}

HoldersCounted == count = Cardinality(Holders)

PoolInv == TypeOK /\ Orderly /\ IsFiniteSet(Holders) /\ HoldersCounted

-----------------------------------------------------------------------------
(* The clients after the helpers. *)

LEMMA Attempts ==
  /\ 0 \in 0 .. MaxAttempts - 1
  /\ \A n \in 0 .. MaxAttempts - 1 : n + 1 # MaxAttempts => n + 1 \in 0 .. MaxAttempts - 1
BY PoolAssumption

LEMMA ResumedTyped ==
  ASSUME NEW k \in ClientStates PROVE Resumed(k) \in ClientStates
BY DEF ClientStates, Resumed

LEMMA SendTyped ==
  ASSUME NEW k \in ClientStates PROVE SendSubscribe(k) \in ClientStates
BY DEF ClientStates, SendSubscribe, Wanted

LEMMA ReconnectTyped ==
  ASSUME NEW k \in ClientStates PROVE Reconnect(k) \in ClientStates
BY Attempts DEF ClientStates, Reconnect

LEMMA NextTyped ==
  ASSUME NEW k \in ClientStates PROVE NextAttempt(k) \in ClientStates
<1>1. CASE k.attempt + 1 = MaxAttempts
  BY <1>1, Attempts DEF ClientStates, NextAttempt
<1>2. CASE k.attempt + 1 # MaxAttempts
  <2>1. k.attempt + 1 \in 0 .. MaxAttempts - 1
    BY <1>2, Attempts DEF ClientStates
  <2>. QED
    BY <1>2, <2>1 DEF ClientStates, NextAttempt
<1>. QED
  BY <1>1, <1>2

(* Replacing one client. *)
LEMMA BecomesTyped ==
  ASSUME TypeOK, NEW c \in Clients, NEW k \in ClientStates, Becomes(c, k),
         count' \in 0 .. MaxConnections, drops' \in 0 .. MaxDrops
  PROVE  TypeOK'
BY DEF TypeOK, Becomes, ClientStates

LEMMA BecomesServed ==
  ASSUME TypeOK, Served, NEW c \in Clients, NEW k, Becomes(c, k),
         k.ws = "open" => Wanted(k) \subseteq k.subs
  PROVE  Served'
BY DEF TypeOK, Served, Becomes

LEMMA BecomesSettled ==
  ASSUME TypeOK, Orderly, NEW c \in Clients, NEW k, Settled(k), Becomes(c, k)
  PROVE  Orderly'
BY DEF TypeOK, Orderly, Becomes

(* Types are preserved. *)
LEMMA TypePreserved ==
  ASSUME TypeOK, [Next]_vars
  PROVE  TypeOK'
<1>. USE PoolAssumption
<1>0. \A c \in Clients : client[c] \in ClientStates
  BY DEF TypeOK, ClientStates
<1>1. ASSUME NEW c \in Clients, Construct(c) PROVE TypeOK'
  <2>1. [NewClient EXCEPT !.state = "INITIAL"] \in ClientStates
    BY ChannelsAssumption, Attempts DEF NewClient, ClientStates
  <2>2. count' \in 0 .. MaxConnections
    BY <1>1 DEF Construct, TypeOK
  <2>. QED
    BY <1>1, <2>1, <2>2, BecomesTyped DEF Construct, TypeOK
<1>2. ASSUME NEW c \in Clients, NEW t \in Tickers, NEW ch \in Channels, Subscribe(c, t, ch) PROVE TypeOK'
  <2>1. [client[c] EXCEPT !.tickers = @ \cup {t}, !.channels = @ \cup {ch}] \in ClientStates
    BY <1>0, ZenonT(30) DEF ClientStates
  <2>. QED
    BY <1>2, <2>1, SendTyped, BecomesTyped DEF Subscribe, TypeOK
<1>3. ASSUME NEW c \in Clients, NEW t \in Tickers, Unsubscribe(c, t) PROVE TypeOK'
  <2>1. [client[c] EXCEPT !.tickers = @ \ {t}, !.subs = @ \ {<<t, "ticker">>}] \in ClientStates
    BY <1>0, ZenonT(30) DEF ClientStates
  <2>. QED
    BY <1>3, <2>1, BecomesTyped DEF Unsubscribe, TypeOK
<1>4. ASSUME NEW c \in Clients, Iterate(c) PROVE TypeOK'
  <2>1. /\ [client[c] EXCEPT !.state = "CONNECTING", !.pc = "first"] \in ClientStates
        /\ [client[c] EXCEPT !.pc = "recv"] \in ClientStates
    BY <1>0, ZenonT(30) DEF ClientStates
  <2>. QED
    BY <1>4, <2>1, BecomesTyped DEF Iterate, TypeOK
<1>5. ASSUME NEW c \in Clients, DialSucceeds(c) PROVE TypeOK'
  <2>1. [client[c] EXCEPT !.ws = "open", !.state = "CONNECTED", !.subs = {}] \in ClientStates
    BY <1>0, ZenonT(30) DEF ClientStates
  <2>. QED
    BY <1>5, <2>1, SendTyped, ResumedTyped, BecomesTyped DEF DialSucceeds, TypeOK
<1>6. ASSUME NEW c \in Clients, DialSucceedsThenDrops(c) PROVE TypeOK'
  <2>. DEFINE up == [client[c] EXCEPT !.ws = "lost", !.state = "CONNECTED", !.subs = {}]
  <2>1. up \in ClientStates /\ [up EXCEPT !.pc = "off"] \in ClientStates
    BY <1>0, ZenonT(30) DEF ClientStates
  <2>2. drops' \in 0 .. MaxDrops /\ count' \in 0 .. MaxConnections
    BY <1>6 DEF DialSucceedsThenDrops, TypeOK
  <2>3. Becomes(c, Resumed(up)) \/ Becomes(c, [up EXCEPT !.pc = "off"])
    BY <1>6 DEF DialSucceedsThenDrops
  <2>. QED
    BY <2>1, <2>2, <2>3, ResumedTyped, BecomesTyped
<1>7. ASSUME NEW c \in Clients, DialFails(c) PROVE TypeOK'
  BY <1>0, <1>7, ReconnectTyped, NextTyped, BecomesTyped DEF DialFails, TypeOK
<1>8. ASSUME NEW c \in Clients, DialRejected(c) PROVE TypeOK'
  <2>1. [client[c] EXCEPT !.pc = "off"] \in ClientStates
    BY <1>0 DEF ClientStates
  <2>. QED
    BY <1>8, <2>1, BecomesTyped DEF DialRejected, TypeOK
<1>9. ASSUME NEW c \in Clients, BackoffEnds(c) PROVE TypeOK'
  <2>1. [client[c] EXCEPT !.pc = "redial"] \in ClientStates
    BY <1>0 DEF ClientStates
  <2>. QED
    BY <1>9, <2>1, BecomesTyped DEF BackoffEnds, TypeOK
<1>10. ASSUME NEW c \in Clients, RecvClosed(c) PROVE TypeOK'
  <2>1. [client[c] EXCEPT !.ws = "none"] \in ClientStates
    BY <1>0 DEF ClientStates
  <2>. QED
    BY <1>10, <2>1, ReconnectTyped, BecomesTyped DEF RecvClosed, TypeOK
<1>11. ASSUME NEW c \in Clients, Drop(c) PROVE TypeOK'
  <2>1. [client[c] EXCEPT !.ws = "lost", !.subs = {}] \in ClientStates
    BY <1>0, ZenonT(30) DEF ClientStates
  <2>2. drops' \in 0 .. MaxDrops /\ count' \in 0 .. MaxConnections
    BY <1>11 DEF Drop, TypeOK
  <2>. QED
    BY <1>11, <2>1, <2>2, BecomesTyped DEF Drop
<1>12. ASSUME NEW c \in Clients, Cancel(c) PROVE TypeOK'
  <2>1. [client[c] EXCEPT !.pc = "off"] \in ClientStates
    BY <1>0 DEF ClientStates
  <2>. QED
    BY <1>12, <2>1, BecomesTyped DEF Cancel, TypeOK
<1>13. ASSUME NEW c \in Clients, Disconnect(c) PROVE TypeOK'
  <2>. DEFINE k == [client[c] EXCEPT !.closed = TRUE, !.state = "CLOSED", !.ws = "none", !.subs = {}]
  <2>1. k \in ClientStates
    BY <1>0, ZenonT(30) DEF ClientStates
  <2>2. client[c].releasing + 1 \in Nat
    BY <1>0 DEF ClientStates
  <2>3. [k EXCEPT !.releasing = @ + 1] \in ClientStates
    BY <2>1, <2>2 DEF ClientStates
  <2>4. count' \in 0 .. MaxConnections /\ drops' \in 0 .. MaxDrops
    BY <1>13 DEF Disconnect, Released, TypeOK
  <2>5. Becomes(c, k) \/ Becomes(c, [k EXCEPT !.releasing = @ + 1])
    BY <1>13 DEF Disconnect
  <2>. QED
    BY <2>1, <2>3, <2>4, <2>5, BecomesTyped
<1>14. ASSUME NEW c \in Clients, Release(c) PROVE TypeOK'
  <2>1. client[c].releasing - 1 \in Nat
    BY <1>0, <1>14 DEF Release, ClientStates
  <2>2. [client[c] EXCEPT !.releasing = @ - 1] \in ClientStates
    BY <1>0, <2>1 DEF ClientStates
  <2>3. count' \in 0 .. MaxConnections /\ drops' \in 0 .. MaxDrops
    BY <1>14 DEF Release, Released, TypeOK
  <2>. QED
    BY <1>14, <2>2, <2>3, BecomesTyped DEF Release
<1>15. CASE UNCHANGED vars
  BY <1>15 DEF vars, TypeOK
<1>. QED
  BY <1>1, <1>2, <1>3, <1>4, <1>5, <1>6, <1>7, <1>8, <1>9, <1>10, <1>11, <1>12, <1>13, <1>14, <1>15 DEF Next, Life, Consume

-----------------------------------------------------------------------------
(* Subscriptions. *)

LEMMA SendServes ==
  ASSUME NEW k \in ClientStates, NEW j, j = SendSubscribe(k) \/ j = Resumed(SendSubscribe(k))
  PROVE  j.ws = "open" => Wanted(j) \subseteq j.subs
<1>1. /\ SendSubscribe(k).tickers = k.tickers /\ SendSubscribe(k).channels = k.channels
      /\ SendSubscribe(k).ws = k.ws
      /\ k.ws = "open" => Wanted(k) \subseteq SendSubscribe(k).subs
  BY DEF ClientStates, SendSubscribe
<1>2. \A i \in ClientStates : /\ Resumed(i).tickers = i.tickers /\ Resumed(i).channels = i.channels
                              /\ Resumed(i).ws = i.ws /\ Resumed(i).subs = i.subs
  BY DEF ClientStates, Resumed
<1>. QED
  BY <1>1, <1>2, SendTyped DEF Wanted

(* A connection comes up with the subscriptions, and they stay. *)
LEMMA ServedPreserved ==
  ASSUME TypeOK, Served, [Next]_vars
  PROVE  Served'
<1>0. \A c \in Clients : client[c] \in ClientStates
  BY DEF TypeOK, ClientStates
<1>1. ASSUME NEW c \in Clients, Construct(c) PROVE Served'
  <2>1. ([NewClient EXCEPT !.state = "INITIAL"]).ws # "open"
    BY DEF NewClient
  <2>. QED
    BY <1>1, <2>1, BecomesServed DEF Construct
<1>2. ASSUME NEW c \in Clients, NEW t \in Tickers, NEW ch \in Channels, Subscribe(c, t, ch) PROVE Served'
  <2>. DEFINE k == [client[c] EXCEPT !.tickers = @ \cup {t}, !.channels = @ \cup {ch}]
  <2>1. k \in ClientStates
    BY <1>0, ZenonT(30) DEF ClientStates
  <2>. QED
    BY <1>2, <2>1, SendServes, BecomesServed DEF Subscribe
<1>3. ASSUME NEW c \in Clients, NEW t \in Tickers, Unsubscribe(c, t) PROVE Served'
  <2>. DEFINE k == [client[c] EXCEPT !.tickers = @ \ {t}, !.subs = @ \ {<<t, "ticker">>}]
  <2>1. /\ k.ws = client[c].ws /\ k.subs = client[c].subs \ {<<t, "ticker">>}
        /\ k.tickers = client[c].tickers \ {t} /\ k.channels = client[c].channels
    BY <1>0 DEF ClientStates
  <2>2. k.ws = "open" => Wanted(k) \subseteq k.subs
    BY <2>1 DEF Served, Wanted
  <2>. QED
    BY <1>3, <2>2, BecomesServed DEF Unsubscribe
<1>4. ASSUME NEW c \in Clients, Iterate(c) PROVE Served'
  <2>1. CASE Becomes(c, [client[c] EXCEPT !.state = "CONNECTING", !.pc = "first"])
    <3>. DEFINE k == [client[c] EXCEPT !.state = "CONNECTING", !.pc = "first"]
    <3>1. /\ k.ws = client[c].ws /\ k.subs = client[c].subs
          /\ k.tickers = client[c].tickers /\ k.channels = client[c].channels
      BY <1>0 DEF ClientStates
    <3>2. k.ws = "open" => Wanted(k) \subseteq k.subs
      BY <3>1 DEF Served, Wanted
    <3>. QED
      BY <2>1, <3>2, BecomesServed DEF Iterate
  <2>2. CASE Becomes(c, [client[c] EXCEPT !.pc = "recv"])
    <3>. DEFINE k == [client[c] EXCEPT !.pc = "recv"]
    <3>1. /\ k.ws = client[c].ws /\ k.subs = client[c].subs
          /\ k.tickers = client[c].tickers /\ k.channels = client[c].channels
      BY <1>0 DEF ClientStates
    <3>2. k.ws = "open" => Wanted(k) \subseteq k.subs
      BY <3>1 DEF Served, Wanted
    <3>. QED
      BY <2>2, <3>2, BecomesServed DEF Iterate
  <2>. QED
    BY <1>4, <2>1, <2>2 DEF Iterate
<1>5. ASSUME NEW c \in Clients, DialSucceeds(c) PROVE Served'
  <2>. DEFINE k == [client[c] EXCEPT !.ws = "open", !.state = "CONNECTED", !.subs = {}]
  <2>1. k \in ClientStates
    BY <1>0, ZenonT(30) DEF ClientStates
  <2>. QED
    BY <1>5, <2>1, SendServes, BecomesServed DEF DialSucceeds
<1>6. ASSUME NEW c \in Clients, DialSucceedsThenDrops(c) PROVE Served'
  <2>. DEFINE up == [client[c] EXCEPT !.ws = "lost", !.state = "CONNECTED", !.subs = {}]
  <2>1. up.ws # "open" /\ [up EXCEPT !.pc = "off"].ws # "open" /\ Resumed(up).ws # "open"
    BY <1>0 DEF ClientStates, Resumed
  <2>2. Becomes(c, Resumed(up)) \/ Becomes(c, [up EXCEPT !.pc = "off"])
    BY <1>6 DEF DialSucceedsThenDrops
  <2>. QED
    BY <2>1, <2>2, BecomesServed
<1>7. ASSUME NEW c \in Clients, DialFails(c) PROVE Served'
  <2>1. ASSUME NEW k, k = Reconnect(client[c]) \/ k = NextAttempt(client[c])
        PROVE  k.ws = "open" => Wanted(k) \subseteq k.subs
    <3>1. k.ws = "open" => /\ client[c].ws = "open" /\ k.subs = client[c].subs
                          /\ k.tickers = client[c].tickers /\ k.channels = client[c].channels
      BY <1>0, <2>1 DEF ClientStates, Reconnect, NextAttempt
    <3>. QED
      BY <3>1 DEF Served, Wanted
  <2>. QED
    BY <1>7, <2>1, BecomesServed DEF DialFails
<1>8. ASSUME NEW c \in Clients, DialRejected(c) PROVE Served'
  <2>. DEFINE k == [client[c] EXCEPT !.pc = "off"]
  <2>1. /\ k.ws = client[c].ws /\ k.subs = client[c].subs
        /\ k.tickers = client[c].tickers /\ k.channels = client[c].channels
    BY <1>0 DEF ClientStates
  <2>2. k.ws = "open" => Wanted(k) \subseteq k.subs
    BY <2>1 DEF Served, Wanted
  <2>. QED
    BY <1>8, <2>2, BecomesServed DEF DialRejected
<1>9. ASSUME NEW c \in Clients, BackoffEnds(c) PROVE Served'
  <2>. DEFINE k == [client[c] EXCEPT !.pc = "redial"]
  <2>1. /\ k.ws = client[c].ws /\ k.subs = client[c].subs
        /\ k.tickers = client[c].tickers /\ k.channels = client[c].channels
    BY <1>0 DEF ClientStates
  <2>2. k.ws = "open" => Wanted(k) \subseteq k.subs
    BY <2>1 DEF Served, Wanted
  <2>. QED
    BY <1>9, <2>2, BecomesServed DEF BackoffEnds
<1>10. ASSUME NEW c \in Clients, RecvClosed(c) PROVE Served'
  <2>1. (Reconnect([client[c] EXCEPT !.ws = "none"])).ws # "open"
    BY <1>0 DEF ClientStates, Reconnect
  <2>. QED
    BY <1>10, <2>1, BecomesServed DEF RecvClosed
<1>11. ASSUME NEW c \in Clients, Drop(c) PROVE Served'
  <2>1. ([client[c] EXCEPT !.ws = "lost", !.subs = {}]).ws # "open"
    BY <1>0 DEF ClientStates
  <2>. QED
    BY <1>11, <2>1, BecomesServed DEF Drop
<1>12. ASSUME NEW c \in Clients, Cancel(c) PROVE Served'
  <2>. DEFINE k == [client[c] EXCEPT !.pc = "off"]
  <2>1. /\ k.ws = client[c].ws /\ k.subs = client[c].subs
        /\ k.tickers = client[c].tickers /\ k.channels = client[c].channels
    BY <1>0 DEF ClientStates
  <2>2. k.ws = "open" => Wanted(k) \subseteq k.subs
    BY <2>1 DEF Served, Wanted
  <2>. QED
    BY <1>12, <2>2, BecomesServed DEF Cancel
<1>13. ASSUME NEW c \in Clients, Disconnect(c) PROVE Served'
  <2>. DEFINE k == [client[c] EXCEPT !.closed = TRUE, !.state = "CLOSED", !.ws = "none", !.subs = {}]
  <2>1. k.ws # "open" /\ [k EXCEPT !.releasing = @ + 1].ws # "open"
    BY <1>0 DEF ClientStates
  <2>2. Becomes(c, k) \/ Becomes(c, [k EXCEPT !.releasing = @ + 1])
    BY <1>13 DEF Disconnect
  <2>. QED
    BY <2>1, <2>2, BecomesServed
<1>14. ASSUME NEW c \in Clients, Release(c) PROVE Served'
  <2>. DEFINE k == [client[c] EXCEPT !.releasing = @ - 1]
  <2>1. /\ k.ws = client[c].ws /\ k.subs = client[c].subs
        /\ k.tickers = client[c].tickers /\ k.channels = client[c].channels
    BY <1>0 DEF ClientStates
  <2>2. k.ws = "open" => Wanted(k) \subseteq k.subs
    BY <2>1 DEF Served, Wanted
  <2>. QED
    BY <1>14, <2>2, BecomesServed DEF Release
<1>15. CASE UNCHANGED vars
  BY <1>15 DEF vars, Served
<1>. QED
  BY <1>1, <1>2, <1>3, <1>4, <1>5, <1>6, <1>7, <1>8, <1>9, <1>10, <1>11, <1>12, <1>13, <1>14, <1>15 DEF Next, Life, Consume

-----------------------------------------------------------------------------
(* Slots. *)

(* A step of a client that keeps its slot, or stays without.               *)
Kept == Orderly' /\ Holders' = Holders /\ UNCHANGED count

LEMMA BecomesKept ==
  ASSUME TypeOK, Orderly, NEW c \in Clients, NEW k, Becomes(c, k),
         Settled(k), Holds(k) <=> Holds(client[c]), UNCHANGED count
  PROVE  Kept
<1>1. Holders' = Holders
  BY DEF TypeOK, Holders, Becomes
<1>. QED
  BY <1>1, BecomesSettled DEF Kept

(* All but three operations keep the slots. *)
LEMMA MostKept ==
  ASSUME TypeOK, OneTask, Orderly, [Next]_vars
  PROVE  (\E c \in Clients : Construct(c) \/ Disconnect(c) \/ Release(c)) \/ Kept
<1>0. \A c \in Clients : client[c] \in ClientStates /\ Settled(client[c])
  BY DEF TypeOK, ClientStates, Orderly
<1>1. ASSUME NEW c \in Clients, NEW t \in Tickers, NEW ch \in Channels, Subscribe(c, t, ch) PROVE Kept
  <2>. DEFINE k == SendSubscribe([client[c] EXCEPT !.tickers = @ \cup {t}, !.channels = @ \cup {ch}])
  <2>1. Settled(k) /\ (Holds(k) <=> Holds(client[c]))
    BY <1>0, <1>1 DEF Subscribe, Settled, Holds, ClientStates, SendSubscribe
  <2>. QED
    BY <1>1, <2>1, BecomesKept DEF Subscribe
<1>2. ASSUME NEW c \in Clients, NEW t \in Tickers, Unsubscribe(c, t) PROVE Kept
  <2>. DEFINE k == [client[c] EXCEPT !.tickers = @ \ {t}, !.subs = @ \ {<<t, "ticker">>}]
  <2>1. Settled(k) /\ (Holds(k) <=> Holds(client[c]))
    BY <1>0, <1>2 DEF Unsubscribe, Settled, Holds, ClientStates
  <2>. QED
    BY <1>2, <2>1, BecomesKept DEF Unsubscribe
<1>3. ASSUME NEW c \in Clients, Iterate(c) PROVE Kept
  <2>. DEFINE dial == [client[c] EXCEPT !.state = "CONNECTING", !.pc = "first"]
              wait == [client[c] EXCEPT !.pc = "recv"]
  <2>1. CASE client[c].state = "INITIAL" /\ Becomes(c, dial)
    <3>1. Settled(dial) /\ (Holds(dial) <=> Holds(client[c]))
      BY <1>0, <1>3, <2>1 DEF Iterate, Settled, Holds, ClientStates
    <3>. QED
      BY <1>3, <2>1, <3>1, BecomesKept DEF Iterate
  <2>2. CASE client[c].ws # "none" /\ Becomes(c, wait)
    <3>1. Settled(wait) /\ (Holds(wait) <=> Holds(client[c]))
      BY <1>0, <1>3, <2>2 DEF Iterate, Settled, Holds, ClientStates
    <3>. QED
      BY <1>3, <2>2, <3>1, BecomesKept DEF Iterate
  <2>. QED
    BY <1>3, <2>1, <2>2 DEF Iterate
<1>4. ASSUME NEW c \in Clients, DialSucceeds(c) PROVE Kept
  <2>. DEFINE k == Resumed(SendSubscribe([client[c] EXCEPT !.ws = "open", !.state = "CONNECTED", !.subs = {}]))
  <2>1. Settled(k) /\ (Holds(k) <=> Holds(client[c]))
    BY <1>0, <1>4 DEF DialSucceeds, Settled, Holds, ClientStates, SendSubscribe, Resumed, Dialing
  <2>. QED
    BY <1>4, <2>1, BecomesKept DEF DialSucceeds
<1>5. ASSUME NEW c \in Clients, DialSucceedsThenDrops(c) PROVE Kept
  <2>. DEFINE up == [client[c] EXCEPT !.ws = "lost", !.state = "CONNECTED", !.subs = {}]
  <2>1. ASSUME NEW k, k = Resumed(up) \/ k = [up EXCEPT !.pc = "off"]
        PROVE  Settled(k) /\ (Holds(k) <=> Holds(client[c]))
    <3>1. client[c].pc # "off" /\ ~client[c].closed /\ client[c].releasing = 0
      BY <1>0, <1>5 DEF DialSucceedsThenDrops, Dialing, Settled, ClientStates
    <3>2. /\ up.state = "CONNECTED" /\ up.ws = "lost" /\ ~up.closed /\ up.releasing = 0
          /\ up \in ClientStates
      BY <1>0, <3>1, ZenonT(30) DEF ClientStates
    <3>3. k.state = "CONNECTED" /\ ~k.closed /\ k.releasing = 0
      BY <2>1, <3>2 DEF ClientStates, Resumed
    <3>4. client[c].state # "UNBORN"
      BY <1>0, <3>1 DEF Settled
    <3>. QED
      BY <3>1, <3>3, <3>4 DEF Settled, Holds
  <2>2. (Becomes(c, Resumed(up)) \/ Becomes(c, [up EXCEPT !.pc = "off"])) /\ UNCHANGED count
    BY <1>5 DEF DialSucceedsThenDrops
  <2>. QED
    BY <2>1, <2>2, BecomesKept
<1>6. ASSUME NEW c \in Clients, DialFails(c) PROVE Kept
  <2>1. ASSUME NEW k, k = Reconnect(client[c]) \/ k = NextAttempt(client[c])
        PROVE  Settled(k) /\ (Holds(k) <=> Holds(client[c]))
    BY <1>0, <1>6, <2>1, ZenonT(30) DEF DialFails, Settled, Holds, ClientStates, Reconnect, NextAttempt
  <2>. QED
    BY <1>6, <2>1, BecomesKept DEF DialFails
<1>7. ASSUME NEW c \in Clients, DialRejected(c) PROVE Kept
  <2>. DEFINE k == [client[c] EXCEPT !.pc = "off"]
  <2>1. Settled(k) /\ (Holds(k) <=> Holds(client[c]))
    BY <1>0, <1>7 DEF DialRejected, Settled, Holds, ClientStates, Dialing
  <2>. QED
    BY <1>7, <2>1, BecomesKept DEF DialRejected
<1>8. ASSUME NEW c \in Clients, BackoffEnds(c) PROVE Kept
  <2>. DEFINE k == [client[c] EXCEPT !.pc = "redial"]
  <2>1. Settled(k) /\ (Holds(k) <=> Holds(client[c]))
    BY <1>0, <1>8 DEF BackoffEnds, Settled, Holds, ClientStates
  <2>. QED
    BY <1>8, <2>1, BecomesKept DEF BackoffEnds
<1>9. ASSUME NEW c \in Clients, RecvClosed(c) PROVE Kept
  <2>. DEFINE k == Reconnect([client[c] EXCEPT !.ws = "none"])
  <2>1. Settled(k) /\ (Holds(k) <=> Holds(client[c]))
    BY <1>0, <1>9 DEF RecvClosed, Settled, Holds, ClientStates, Reconnect
  <2>. QED
    BY <1>9, <2>1, BecomesKept DEF RecvClosed
<1>10. ASSUME NEW c \in Clients, Drop(c) PROVE Kept
  <2>. DEFINE k == [client[c] EXCEPT !.ws = "lost", !.subs = {}]
  <2>1. Settled(k) /\ (Holds(k) <=> Holds(client[c]))
    BY <1>0, <1>10 DEF Drop, Settled, Holds, ClientStates
  <2>. QED
    BY <1>10, <2>1, BecomesKept DEF Drop
<1>11. ASSUME NEW c \in Clients, Cancel(c) PROVE Kept
  <2>. DEFINE k == [client[c] EXCEPT !.pc = "off"]
  <2>1. Settled(k) /\ (Holds(k) <=> Holds(client[c]))
    BY <1>0, <1>11 DEF Cancel, Settled, Holds, ClientStates
  <2>. QED
    BY <1>11, <2>1, BecomesKept DEF Cancel
<1>12. CASE UNCHANGED vars
  BY <1>12 DEF vars, Kept, Orderly, Holders
<1>. QED
  BY <1>1, <1>2, <1>3, <1>4, <1>5, <1>6, <1>7, <1>8, <1>9, <1>10, <1>11, <1>12 DEF Next, Life, Consume

LEMMA ConstructSlots ==
  ASSUME PoolInv, NEW c \in Clients, Construct(c)
  PROVE  Orderly' /\ Holders' = Holders \cup {c} /\ c \notin Holders /\ count' = count + 1
<1>. DEFINE k == [NewClient EXCEPT !.state = "INITIAL"]
<1>1. Settled(k) /\ Holds(k) /\ ~Holds(client[c])
  BY DEF Construct, NewClient, Settled, Holds
<1>2. Holders' = Holders \cup {c}
  BY <1>1 DEF Construct, Becomes, Holders, PoolInv, TypeOK
<1>. QED
  BY <1>1, <1>2, BecomesSettled DEF Construct, Holders, PoolInv

(* disconnect gives the slot back at once, or when the connection closed.  *)
LEMMA DisconnectSlots ==
  ASSUME PoolInv, OneTask, NEW c \in Clients, Disconnect(c)
  PROVE  /\ Orderly' /\ c \in Holders
         /\ \/ Holders' = Holders /\ count' = count
            \/ Holders' = Holders \ {c} /\ count' = Released
<1>. DEFINE k == [client[c] EXCEPT !.closed = TRUE, !.state = "CLOSED", !.ws = "none", !.subs = {}]
<1>0. client[c] \in ClientStates /\ Settled(client[c])
  BY DEF PoolInv, TypeOK, ClientStates, Orderly
<1>1. Settled(k) /\ ~Holds(k) /\ Holds(client[c])
  BY <1>0 DEF Disconnect, Settled, Holds, ClientStates
<1>2. Settled([k EXCEPT !.releasing = @ + 1]) /\ Holds([k EXCEPT !.releasing = @ + 1])
  BY <1>0 DEF Disconnect, Settled, Holds, ClientStates
<1>3. CASE Becomes(c, k) /\ count' = Released
  <2>1. Holders' = Holders \ {c}
    BY <1>1, <1>3 DEF Becomes, Holders, PoolInv, TypeOK
  <2>. QED
    BY <1>1, <1>3, <2>1, BecomesSettled DEF Holders, PoolInv
<1>4. CASE Becomes(c, [k EXCEPT !.releasing = @ + 1]) /\ UNCHANGED count
  <2>1. Holders' = Holders
    BY <1>1, <1>2, <1>4 DEF Becomes, Holders, PoolInv, TypeOK
  <2>. QED
    BY <1>1, <1>2, <1>4, <2>1, BecomesSettled DEF Holders, PoolInv
<1>. QED
  BY <1>3, <1>4 DEF Disconnect

LEMMA ReleaseSlots ==
  ASSUME PoolInv, NEW c \in Clients, Release(c)
  PROVE  Orderly' /\ Holders' = Holders \ {c} /\ c \in Holders /\ count' = Released
<1>. DEFINE k == [client[c] EXCEPT !.releasing = @ - 1]
<1>0. client[c] \in ClientStates /\ Settled(client[c])
  BY DEF PoolInv, TypeOK, ClientStates, Orderly
<1>1. Settled(k) /\ ~Holds(k) /\ Holds(client[c])
  BY <1>0 DEF Release, Settled, Holds, ClientStates
<1>2. Holders' = Holders \ {c}
  BY <1>1 DEF Release, Becomes, Holders, PoolInv, TypeOK
<1>. QED
  BY <1>1, <1>2, BecomesSettled DEF Release, Holders, PoolInv

LEMMA PoolInit == Init => PoolInv /\ Served
<1>. SUFFICES ASSUME Init PROVE PoolInv /\ Served
  OBVIOUS
<1>1. NewClient \in ClientStates /\ Settled(NewClient) /\ ~Holds(NewClient) /\ NewClient.ws # "open"
  BY ChannelsAssumption, Attempts DEF NewClient, ClientStates, Settled, Holds
<1>2. TypeOK
  BY <1>1, PoolAssumption DEF Init, TypeOK, ClientStates
<1>3. Orderly /\ Served /\ Holders = {}
  BY <1>1 DEF Init, Orderly, Served, Holders
<1>. QED
  BY <1>2, <1>3, FS_EmptySet DEF PoolInv, Init, HoldersCounted

LEMMA PoolNext ==
  ASSUME OneTask, PoolInv, [Next]_vars
  PROVE  PoolInv'
<1>1. TypeOK'
  BY TypePreserved DEF PoolInv
<1>2. count = Cardinality(Holders) /\ IsFiniteSet(Holders) /\ Cardinality(Holders) \in Nat
  BY FS_CardinalityType DEF PoolInv, HoldersCounted
<1>3. HoldersCounted' <=> count' = Cardinality(Holders')
  BY DEF HoldersCounted
<1>4. CASE Kept
  BY <1>1, <1>2, <1>3, <1>4 DEF PoolInv, Kept
<1>5. ASSUME NEW c \in Clients, Construct(c) PROVE PoolInv'
  BY <1>1, <1>2, <1>3, <1>5, ConstructSlots, FS_AddElement DEF PoolInv
<1>6. ASSUME NEW c \in Holders, Orderly', Holders' = Holders \ {c}, count' = Released
      PROVE  PoolInv'
  <2>1. Cardinality(Holders) # 0
    BY <1>2, <1>6, FS_EmptySet
  <2>2. count' = count - 1
    BY <1>2, <1>6, <2>1 DEF Released
  <2>. QED
    BY <1>1, <1>2, <1>3, <1>6, <2>2, FS_RemoveElement DEF PoolInv
<1>7. ASSUME NEW c \in Clients, Disconnect(c) PROVE PoolInv'
  BY <1>1, <1>2, <1>3, <1>6, <1>7, DisconnectSlots DEF PoolInv
<1>8. ASSUME NEW c \in Clients, Release(c) PROVE PoolInv'
  BY <1>6, <1>8, ReleaseSlots
<1>. QED
  BY <1>4, <1>5, <1>7, <1>8, MostKept DEF PoolInv

(* Who holds a slot uses it or has lost it, and a live connection is one   *)
(* in use.                                                                 *)
LEMMA PoolBounds ==
  ASSUME PoolInv
  PROVE  SlotAccounting
<1>. DEFINE open == {c \in Clients : client[c].ws = "open"}
<1>1. open \subseteq InUse /\ Holders = InUse \cup Leaked /\ InUse \cap Leaked = {}
  <2>1. \A c \in Clients : Settled(client[c])
    BY DEF PoolInv, Orderly
  <2>2. open \subseteq InUse /\ InUse \cap Leaked = {}
    BY <2>1 DEF Settled, InUse, Leaked
  <2>3. \A c \in Clients : c \in Holders <=> c \in InUse \/ c \in Leaked
    BY <2>1 DEF Settled, Holders, Holds, InUse, Leaked
  <2>. QED
    BY <2>2, <2>3 DEF Holders, InUse, Leaked
<1>2. /\ IsFiniteSet(InUse) /\ IsFiniteSet(Leaked) /\ InUse \cap Leaked = {}
      /\ count = Cardinality(InUse \cup Leaked)
  BY <1>1, FS_Subset DEF PoolInv, HoldersCounted
<1>3. /\ Cardinality(InUse \cup Leaked) = Cardinality(InUse) + Cardinality(Leaked)
      /\ Cardinality(InUse) \in Nat /\ Cardinality(Leaked) \in Nat
  <2>1. Cardinality(InUse \cup Leaked)
          = Cardinality(InUse) + Cardinality(Leaked) - Cardinality(InUse \cap Leaked)
    BY <1>2, FS_Union
  <2>2. Cardinality(InUse \cap Leaked) = 0
    BY <1>2, FS_EmptySet
  <2>. QED
    BY <1>2, <2>1, <2>2, FS_CardinalityType
<1>4. Cardinality(open) <= Cardinality(InUse) /\ Cardinality(open) \in Nat
  BY <1>1, <1>2, FS_Subset, FS_CardinalityType
<1>5. count \in 0 .. MaxConnections
  BY DEF PoolInv, TypeOK
<1>6. Cardinality(open) <= MaxConnections - Cardinality(Leaked)
  BY <1>2, <1>3, <1>4, <1>5, PoolAssumption
<1>. QED
  BY <1>2, <1>3, <1>6 DEF SlotAccounting, SlotsCounted, OpenWithinPool

-----------------------------------------------------------------------------
(* The variables keep their types, whoever disconnects.                    *)
THEOREM TypeCorrect == Spec => []TypeOK
<1>1. Init => TypeOK
  BY PoolInit DEF PoolInv
<1>. QED
  BY <1>1, TypePreserved, PTL DEF Spec

(* No subscription is missed on a live connection, whoever disconnects.    *)
THEOREM Subscribed == Spec => []NoMissedSubscription
<1>1. Init => TypeOK /\ Served
  BY PoolInit DEF PoolInv
<1>2. Served => NoMissedSubscription
  BY DEF Served, NoMissedSubscription
<1>. QED
  BY <1>1, <1>2, TypePreserved, ServedPreserved, PTL DEF Spec

(* With one task per client, the count of the slots taken is that of the   *)
(* clients in use and of those whose slot is lost, and no more connections *)
(* are open than there are slots left (_acquire_pool_slot,                 *)
(* _release_pool_slot).                                                    *)
THEOREM SlotsExact ==
  ASSUME OneTask
  PROVE  Spec => []SlotAccounting
<1>1. PoolInv => SlotAccounting
  BY PoolBounds
<1>. QED
  BY <1>1, PoolInit, PoolNext, PTL DEF Spec

-----------------------------------------------------------------------------
(* The recorder. *)

(* While it waits, the recorder has waited since the last line or since it *)
(* began, and not for longer than Quiet; so each line is in time.          *)
LastLine == IF stats.previous < 0 THEN 0 ELSE stats.previous

RecTypes ==
  /\ now \in 0 .. Duration
  /\ rec \in [pc : {"start", "wait", "leave", "ended"}, since : 0 .. Duration,
              outcome : {"none", "ready", "raised", "stopped", "refused"}]
  /\ stats \in [line_count : Nat, first : Int, previous : Int, gap_count : Nat, max_gap : Nat]

InTime ==
  /\ stats.first <= Quiet /\ stats.max_gap <= Quiet /\ stats.previous <= now
  /\ stats.first < 0 <=> stats.previous < 0
  /\ MaxGap >= Quiet => stats.gap_count = 0
  /\ rec.pc \in {"start", "wait"} =>
       rec.outcome # "ready" /\ rec.since = LastLine /\ now - rec.since <= Quiet
  /\ rec.outcome = "ready" => Duration - LastLine <= Quiet

RecInv == RecTypes /\ InTime

(* Before it begins, the client of the recorder is not there.              *)
Unborn == rec.pc = "start" => client[Feed].state = "UNBORN"

BegunClient == [NewClient EXCEPT !.state = "CONNECTING", !.pc = "first",
                                 !.tickers = Tickers, !.channels = Channels]

LEMMA ToldClient == BegunClient \in ClientStates /\ Settled(BegunClient) /\ Holds(BegunClient)
                     /\ BegunClient.ws = "none" /\ BegunClient.state = "CONNECTING"
BY ChannelsAssumption, Attempts DEF BegunClient, NewClient, ClientStates, Settled, Holds

(* But for its beginning, the recorder does to the pool what clients may.  *)
LEMMA PoolStep ==
  ASSUME [RNext]_rvars
  PROVE  [Next]_vars \/ Begin
<1>1. CASE Refused \/ Tick
  BY <1>1 DEF Refused, Tick, vars
<1>2. CASE ClientStep
  BY <1>2, RecorderAssumption DEF ClientStep, Next, Life
<1>3. CASE Timeout
  BY <1>3, RecorderAssumption DEF Timeout, Next, Life
<1>4. CASE Message
  <2>1. (UNCHANGED client \/ Becomes(Feed, [client[Feed] EXCEPT !.pc = "off"]))
        /\ UNCHANGED <<count, drops>> /\ client[Feed].pc = "recv"
    BY <1>4 DEF Message
  <2>2. UNCHANGED vars \/ Cancel(Feed)
    BY <2>1 DEF Cancel, vars
  <2>. QED
    BY <2>2, RecorderAssumption DEF Next, Life
<1>5. CASE Leave
  BY <1>5, RecorderAssumption DEF Leave, Next, Life, vars
<1>6. CASE Closed
  BY <1>6, RecorderAssumption DEF Closed, Next, Life
<1>7. CASE Others
  BY <1>7 DEF Others, Next
<1>8. CASE UNCHANGED rvars
  BY <1>8 DEF rvars, vars
<1>. QED
  BY <1>1, <1>2, <1>3, <1>4, <1>5, <1>6, <1>7, <1>8 DEF RNext

(* Another client's life leaves that of the recorder alone. *)
LEMMA OthersApart ==
  ASSUME TypeOK, Others PROVE client'[Feed] = client[Feed]
<1>1. PICK c \in Clients \ {Feed} : Life(c)
  BY DEF Others
<1>2. ASSUME NEW k, Becomes(c, k) PROVE client'[Feed] = client[Feed]
  BY <1>1, <1>2, RecorderAssumption DEF Becomes, TypeOK
<1>3. \E k : Becomes(c, k)
  <2>1. CASE Construct(c) \/ Iterate(c) \/ Drop(c) \/ Cancel(c) \/ Release(c)
    BY <2>1 DEF Construct, Iterate, Drop, Cancel, Release
  <2>2. CASE Disconnect(c)
    BY <2>2 DEF Disconnect
  <2>3. CASE \/ \E t \in Tickers, ch \in Channels : Subscribe(c, t, ch)
             \/ \E t \in Tickers : Unsubscribe(c, t)
    BY <2>3 DEF Subscribe, Unsubscribe
  <2>4. CASE DialSucceeds(c) \/ DialFails(c) \/ DialRejected(c) \/ BackoffEnds(c) \/ RecvClosed(c)
    BY <2>4 DEF DialSucceeds, DialFails, DialRejected, BackoffEnds, RecvClosed
  <2>5. CASE DialSucceedsThenDrops(c)
    BY <2>5 DEF DialSucceedsThenDrops
  <2>. QED
    BY <1>1, <2>1, <2>2, <2>3, <2>4, <2>5 DEF Life, Consume
<1>. QED
  BY <1>2, <1>3

LEMMA UnbornStep ==
  ASSUME TypeOK, RecTypes, Unborn, [RNext]_rvars
  PROVE  Unborn'
<1>1. CASE Others
  BY <1>1, OthersApart DEF Others, Unborn
<1>2. CASE Closed
  <2>1. client'[Feed].state = client[Feed].state
    BY <1>2, RecorderAssumption DEF Closed, Release, Becomes, TypeOK
  <2>. QED
    BY <1>2, <2>1 DEF Closed, Unborn
<1>3. CASE Begin \/ Refused \/ Tick \/ Leave
  BY <1>3 DEF Begin, Refused, Tick, Leave, Unborn, RecTypes
<1>4. CASE ClientStep \/ Timeout \/ Message
  BY <1>4 DEF ClientStep, Timeout, Message, Again, Unborn, RecTypes
<1>5. CASE UNCHANGED rvars
  BY <1>5 DEF rvars, Unborn
<1>. QED
  BY <1>1, <1>2, <1>3, <1>4, <1>5 DEF RNext

LEMMA BeginKeeps ==
  ASSUME TypeOK, Served, Unborn, Begin
  PROVE  TypeOK' /\ Served' /\ (PoolInv => PoolInv')
<1>1. /\ Becomes(Feed, BegunClient) /\ client[Feed].state = "UNBORN"
      /\ count' = count + 1 /\ count < MaxConnections /\ UNCHANGED drops /\ Feed \in Clients
  BY RecorderAssumption DEF Begin, BegunClient, Unborn
<1>2. TypeOK'
  <2>1. count' \in 0 .. MaxConnections /\ drops' \in 0 .. MaxDrops
    BY <1>1, PoolAssumption DEF TypeOK
  <2>. QED
    BY <1>1, <2>1, ToldClient, BecomesTyped
<1>3. Served'
  BY <1>1, ToldClient, BecomesServed
<1>4. ASSUME PoolInv PROVE PoolInv'
  <2>1. Orderly'
    BY <1>1, <1>4, ToldClient, BecomesSettled DEF PoolInv
  <2>2. Holders' = Holders \cup {Feed} /\ Feed \notin Holders
    BY <1>1, ToldClient DEF Becomes, Holders, Holds, TypeOK
  <2>3. count = Cardinality(Holders)
    BY <1>4 DEF PoolInv, HoldersCounted
  <2>4. HoldersCounted' <=> count' = Cardinality(Holders')
    BY DEF HoldersCounted
  <2>. QED
    BY <1>1, <1>2, <1>4, <2>1, <2>2, <2>3, <2>4, FS_AddElement DEF PoolInv
<1>. QED
  BY <1>2, <1>3, <1>4

LEMMA RecorderPool ==
  ASSUME TypeOK, RecTypes, Served, Unborn, [RNext]_rvars
  PROVE  TypeOK' /\ Served' /\ Unborn' /\ (OneTask /\ PoolInv => PoolInv')
<1>1. CASE [Next]_vars
  BY <1>1, TypePreserved, ServedPreserved, UnbornStep, PoolNext
<1>2. CASE Begin
  BY <1>2, BeginKeeps, UnbornStep
<1>. QED
  BY <1>1, <1>2, PoolStep

LEMMA RecorderStart == RInit => PoolInv /\ Served /\ Unborn
<1>1. RInit => Unborn
  BY RecorderAssumption DEF RInit, Init, Unborn, NewClient
<1>. QED
  BY <1>1, PoolInit DEF RInit

LEMMA MessageInTime == ASSUME RecInv, Message PROVE RecInv'
<1>. USE RecorderAssumption DEF RecInv, RecTypes, InTime
<1>1. Gap \in Nat /\ Gap <= Quiet /\ now' = now
  BY DEF Message, Gap, LastLine
<1>2. stats'.previous = now /\ LastLine' = now
  BY DEF Message, LastLine
<1>3. /\ stats' \in [line_count : Nat, first : Int, previous : Int, gap_count : Nat, max_gap : Nat]
      /\ 0 <= stats'.first /\ stats'.first <= Quiet /\ stats'.max_gap <= Quiet
      /\ MaxGap >= Quiet => stats'.gap_count = 0
  <2>1. stats.previous < 0 => now <= Quiet
    BY DEF Message, LastLine
  <2>2. stats.first < 0 => now <= Quiet
    BY <2>1
  <2>. QED
    BY <1>1, <2>1, <2>2 DEF Message
<1>4. /\ rec' \in [pc : {"start", "wait", "leave", "ended"}, since : 0 .. Duration,
                   outcome : {"none", "ready", "raised", "stopped", "refused"}]
      /\ rec'.pc = "wait" => rec'.since = now /\ rec'.outcome # "ready"
      /\ rec'.pc # "start"
      /\ rec'.outcome = "ready" => now = Duration
  <2>1. CASE now < Duration
    BY <2>1 DEF Message, Again
  <2>2. CASE now = Duration
    BY <2>2 DEF Message, Again
  <2>. QED
    BY <2>1, <2>2
<1>. QED
  BY <1>1, <1>2, <1>3, <1>4

LEMMA RecStep == RecInv /\ [RNext]_rvars => RecInv'
<1>. SUFFICES ASSUME RecInv, [RNext]_rvars PROVE RecInv'
  OBVIOUS
<1>. USE RecorderAssumption DEF RecInv, RecTypes, InTime, LastLine
<1>1. CASE Begin
  BY <1>1 DEF Begin
<1>2. CASE Refused
  BY <1>2 DEF Refused
<1>3. CASE ClientStep
  BY <1>3 DEF ClientStep
<1>4. CASE Timeout
  <2>1. CASE now < Duration
    BY <1>4, <2>1 DEF Timeout
  <2>2. CASE now = Duration
    BY <1>4, <2>2 DEF Timeout, Again
  <2>. QED
    BY <2>1, <2>2
<1>5. CASE Tick
  BY <1>5 DEF Tick, Expired
<1>6. CASE Leave
  BY <1>6 DEF Leave
<1>7. CASE Closed \/ Others \/ UNCHANGED rvars
  BY <1>7 DEF Closed, Others, rvars
<1>8. CASE Message
  BY <1>8, MessageInTime
<1>. QED
  BY <1>1, <1>2, <1>3, <1>4, <1>5, <1>6, <1>7, <1>8 DEF RNext

LEMMA RecStart == RInit => RecInv
BY RecorderAssumption DEF RInit, RecInv, RecTypes, InTime, LastLine

(* A recording that is called ready has no hole, and a limit for gaps that *)
(* is not shorter than the wait counts none, for any durations             *)
(* (drain_messages, append_message).                                       *)
THEOREM NoHole == RSpec => []ReadyHasNoHole
<1>1. RecInv => ReadyHasNoHole
  BY RecorderAssumption DEF RecInv, RecTypes, InTime, LastLine, ReadyHasNoHole
<1>. QED
  BY <1>1, RecStart, RecStep, PTL DEF RSpec

(* The recorder misses no message of what it was told to record, however   *)
(* often its connection is lost (drain_messages over raw_messages).        *)
THEOREM RecorderSubscribed == RSpec => []NoMissedSubscription
<1>1. RInit => TypeOK /\ Served /\ Unborn
  BY RecorderStart DEF PoolInv
<1>2. RecInv /\ TypeOK /\ Served /\ Unborn /\ [RNext]_rvars => (TypeOK /\ Served /\ Unborn)'
  BY RecorderPool DEF RecInv
<1>3. Served => NoMissedSubscription
  BY DEF Served, NoMissedSubscription
<1>. QED
  BY <1>1, <1>2, <1>3, RecStart, RecStep, PTL DEF RSpec

(* The recorder and its competitors, each with one task, take and give     *)
(* back the slots of the pool exactly, but for those of clients whose      *)
(* reconnections ran out (KalshiWebSocketClient.__aexit__).                *)
THEOREM RecorderSlots ==
  ASSUME OneTask
  PROVE  RSpec => []SlotAccounting
<1>1. RInit => PoolInv /\ Served /\ Unborn
  BY RecorderStart
<1>2. RecInv /\ PoolInv /\ Served /\ Unborn /\ [RNext]_rvars => (PoolInv /\ Served /\ Unborn)'
  BY RecorderPool DEF PoolInv, RecInv
<1>3. PoolInv => SlotAccounting
  BY PoolBounds
<1>. QED
  BY <1>1, <1>2, <1>3, RecStart, RecStep, PTL DEF RSpec
=============================================================================
