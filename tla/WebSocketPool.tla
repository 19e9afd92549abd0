--------------------------- MODULE WebSocketPool ----------------------------
(***************************************************************************)
(* The clients of the market data feed (KalshiWebSocketClient) in one      *)
(* asyncio process, with the pool of connections they share.  A client has *)
(* a consumer, the task that iterates over raw_messages(), and is used by  *)
(* others through subscribe, unsubscribe and disconnect.  Tasks change     *)
(* over where the code awaits: in the handshake of _connect, in the sleep  *)
(* of _reconnect, in recv, and in ws.close.  A send hands its frame over   *)
(* before it awaits anything.                                              *)
(***************************************************************************)
EXTENDS Integers, FiniteSets

CONSTANTS
  Clients, Tickers,
  Channels,        \* read-only channels; "ticker" is the default one
  MaxConnections,  \* MAX_CONNECTIONS
  MaxAttempts,     \* MAX_RECONNECT_ATTEMPTS
  OneTask,         \* the consumer's task is also the one that disconnects
  MaxDrops         \* bound: connections lost in a behaviour

ASSUME ChannelsAssumption == "ticker" \in Channels
ASSUME PoolAssumption ==
  /\ MaxConnections \in Nat \ {0} /\ MaxAttempts \in Nat \ {0}
  /\ OneTask \in BOOLEAN /\ MaxDrops \in Nat

VARIABLES
  count,     \* _connection_count
  client,    \* the client objects
  drops

vars == <<count, client, drops>>

NewClient ==
  [state |-> "UNBORN", ws |-> "none", closed |-> FALSE,
   tickers |-> {}, channels |-> {"ticker"},
   subs |-> {},         \* what the server streams on the current connection
   pc |-> "off",        \* where the consumer waits
   attempt |-> 0,
   releasing |-> 0]     \* calls of disconnect waiting for ws.close

Init ==
  /\ count = 0
  /\ client = [c \in Clients |-> NewClient]
  /\ drops = 0

Becomes(c, new) == client' = [client EXCEPT ![c] = new]

---------------------------------------------------------------------------
(* Mutant: the limit is tested after the slot is taken.                    *)
ConstructOneMore(c) ==
  /\ client[c].state = "UNBORN" /\ count <= MaxConnections
  /\ count' = count + 1
  /\ Becomes(c, [NewClient EXCEPT !.state = "INITIAL"])
  /\ UNCHANGED drops

(* __init__ takes a slot, or raises.                                       *)
Construct(c) ==
  /\ client[c].state = "UNBORN" /\ count < MaxConnections
  /\ count' = count + 1
  /\ Becomes(c, [NewClient EXCEPT !.state = "INITIAL"])
  /\ UNCHANGED drops

(* What a subscribe command asks of the server.                            *)
Wanted(k) == k.tickers \X k.channels

(* Mutant: the channels of earlier calls are forgotten.                    *)
SendSubscribeTicker(k) ==
  IF k.ws = "open" THEN [k EXCEPT !.subs = @ \cup k.tickers \X {"ticker"}] ELSE k

SendSubscribe(k) ==
  IF k.ws = "open" THEN [k EXCEPT !.subs = @ \cup Wanted(k)] ELSE k

Subscribe(c, t, ch) ==
  /\ client[c].state \notin {"UNBORN", "CLOSED", "DISCONNECTED"}
  /\ t \notin client[c].tickers \/ ch \notin client[c].channels
  /\ Becomes(c, SendSubscribe([client[c] EXCEPT !.tickers = @ \cup {t},
                                                !.channels = @ \cup {ch}]))
  /\ UNCHANGED <<count, drops>>

(* Only the channel "ticker" is named in the command.                      *)
Unsubscribe(c, t) ==
  /\ client[c].state \notin {"UNBORN", "CLOSED"}
  /\ t \in client[c].tickers
  /\ Becomes(c, [client[c] EXCEPT !.tickers = @ \ {t}, !.subs = @ \ {<<t, "ticker">>}])
  /\ UNCHANGED <<count, drops>>

---------------------------------------------------------------------------
(* The consumer after the connection is up again: on to recv, unless       *)
(* disconnect was called meanwhile.                                        *)
Resumed(k) == [k EXCEPT !.pc = IF k.closed THEN "off" ELSE "recv"]

(* Entering _reconnect, which first of all sets the state.                 *)
Reconnect(k) ==
  [k EXCEPT !.state = "RECONNECTING", !.attempt = 0,
            !.pc = IF k.closed THEN "off" ELSE "backoff"]

(* raw_messages() is iterated (again).  In every other state it ends or    *)
(* raises at once.                                                         *)
Iterate(c) ==
  /\ client[c].pc = "off" /\ ~client[c].closed
  /\ \/ client[c].state = "INITIAL"
        /\ Becomes(c, [client[c] EXCEPT !.state = "CONNECTING", !.pc = "first"])
     \/ client[c].ws # "none"
        /\ Becomes(c, [client[c] EXCEPT !.pc = "recv"])
  /\ UNCHANGED <<count, drops>>

Dialing(c) == client[c].pc \in {"first", "redial"}

(* The handshake succeeds, and the subscriptions are issued.               *)
DialSucceeds(c) ==
  /\ Dialing(c)
  /\ Becomes(c, Resumed(SendSubscribe(
       [client[c] EXCEPT !.ws = "open", !.state = "CONNECTED", !.subs = {}])))
  /\ UNCHANGED <<count, drops>>

(* The connection is gone before the subscriptions are: the first time the *)
(* exception leaves raw_messages, in _reconnect it is swallowed.           *)
DialSucceedsThenDrops(c) ==
  /\ Dialing(c) /\ drops < MaxDrops
  /\ drops' = drops + 1
  /\ LET up == [client[c] EXCEPT !.ws = "lost", !.state = "CONNECTED", !.subs = {}]
     IN \/ client[c].tickers = {} /\ Becomes(c, Resumed(up))
        \/ client[c].tickers # {} /\ client[c].pc = "first" /\ Becomes(c, [up EXCEPT !.pc = "off"])
        \/ client[c].tickers # {} /\ client[c].pc = "redial" /\ Becomes(c, Resumed(up))
  /\ UNCHANGED count

(* Mutant: attempts are not counted.                                       *)
NextAttemptUncounted(k) == [k EXCEPT !.pc = IF k.closed THEN "off" ELSE "backoff"]

NextAttempt(k) ==
  IF k.attempt + 1 = MaxAttempts
    THEN [k EXCEPT !.state = "DISCONNECTED", !.ws = "none", !.attempt = 0, !.pc = "off"]
    ELSE [k EXCEPT !.attempt = @ + 1, !.pc = IF k.closed THEN "off" ELSE "backoff"]

(* OSError: the first connection turns to _reconnect, which counts.        *)
DialFails(c) ==
  /\ \/ client[c].pc = "first" /\ Becomes(c, Reconnect(client[c]))
     \/ client[c].pc = "redial" /\ Becomes(c, NextAttempt(client[c]))
  /\ UNCHANGED <<count, drops>>

(* The server answers the handshake with an HTTP error: no OSError, so the *)
(* exception leaves raw_messages and the state stays as it is.             *)
DialRejected(c) ==
  /\ Dialing(c)
  /\ Becomes(c, [client[c] EXCEPT !.pc = "off"])
  /\ UNCHANGED <<count, drops>>

(* closed is not looked at between the sleep and the handshake.            *)
BackoffEnds(c) ==
  /\ client[c].pc = "backoff"
  /\ Becomes(c, [client[c] EXCEPT !.pc = "redial"])
  /\ UNCHANGED <<count, drops>>

Drop(c) ==
  /\ client[c].ws = "open" /\ drops < MaxDrops
  /\ drops' = drops + 1
  /\ Becomes(c, [client[c] EXCEPT !.ws = "lost", !.subs = {}])
  /\ UNCHANGED count

(* recv raises ConnectionClosed: the connection was lost, or disconnect    *)
(* has closed it under the consumer.                                       *)
RecvClosed(c) ==
  /\ client[c].pc = "recv" /\ client[c].ws # "open"
  /\ Becomes(c, Reconnect([client[c] EXCEPT !.ws = "none"]))
  /\ UNCHANGED <<count, drops>>

(* The consumer is cancelled where it waits, as the tick recorder does     *)
(* after five quiet seconds.                                               *)
Cancel(c) ==
  /\ client[c].pc # "off"
  /\ Becomes(c, [client[c] EXCEPT !.pc = "off"])
  /\ UNCHANGED <<count, drops>>

---------------------------------------------------------------------------
Released == IF count > 0 THEN count - 1 ELSE count

(* Mutant: disconnect does not ask whether it was called before.           *)
DisconnectAgain(c) ==
  /\ client[c].state \notin {"UNBORN", "DISCONNECTED"}
  /\ OneTask => client[c].pc = "off"
  /\ LET k == [client[c] EXCEPT !.closed = TRUE, !.state = "CLOSED", !.ws = "none", !.subs = {}]
     IN IF client[c].ws = "none"
          THEN Becomes(c, k) /\ count' = Released
          ELSE Becomes(c, [k EXCEPT !.releasing = @ + 1]) /\ UNCHANGED count
  /\ UNCHANGED drops

Disconnect(c) ==
  /\ client[c].state \notin {"UNBORN", "CLOSED", "DISCONNECTED"}
  /\ OneTask => client[c].pc = "off"
  /\ LET k == [client[c] EXCEPT !.closed = TRUE, !.state = "CLOSED", !.ws = "none", !.subs = {}]
     IN IF client[c].ws = "none"
          THEN Becomes(c, k) /\ count' = Released
          ELSE Becomes(c, [k EXCEPT !.releasing = @ + 1]) /\ UNCHANGED count
  /\ UNCHANGED drops

(* ws.close has returned or raised.                                        *)
Release(c) ==
  /\ client[c].releasing > 0
  /\ Becomes(c, [client[c] EXCEPT !.releasing = @ - 1])
  /\ count' = Released
  /\ UNCHANGED drops

Consume(c) ==
  \/ DialSucceeds(c) \/ DialSucceedsThenDrops(c) \/ DialFails(c) \/ DialRejected(c)
  \/ BackoffEnds(c) \/ RecvClosed(c)

Life(c) ==
  \/ Construct(c)
  \/ \E t \in Tickers, ch \in Channels : Subscribe(c, t, ch)
  \/ \E t \in Tickers : Unsubscribe(c, t)
  \/ Iterate(c) \/ Consume(c) \/ Drop(c) \/ Cancel(c)
  \/ Disconnect(c) \/ Release(c)

Next == \E c \in Clients : Life(c)

Spec == Init /\ [][Next]_vars

---------------------------------------------------------------------------
(* Types of the variables; no attempt is made after the last one.          *)
TypeOK ==
  /\ count \in 0 .. MaxConnections
  /\ drops \in 0 .. MaxDrops
  /\ client \in [Clients ->
       [state: {"UNBORN", "INITIAL", "CONNECTING", "CONNECTED", "RECONNECTING",
                "DISCONNECTED", "CLOSED"},
        ws: {"none", "open", "lost"}, closed: BOOLEAN,
        tickers: SUBSET Tickers, channels: SUBSET Channels,
        subs: SUBSET (Tickers \X Channels),
        pc: {"off", "first", "recv", "backoff", "redial"},
        attempt: 0 .. MaxAttempts - 1, releasing: Nat]]

(* A consumer that waits for messages on a live connection gets all that   *)
(* was subscribed to, before, during or after any number of reconnections: *)
(* subscribe only records what it cannot send, and _reconnect sends it.    *)
NoMissedSubscription ==
  \A c \in Clients :
    client[c].pc = "recv" /\ client[c].ws = "open" => Wanted(client[c]) \subseteq client[c].subs

(* Clients that were constructed and have not given back their slot; and   *)
(* those whose reconnections ran out, for which disconnect returns at once *)
(* and which keep it for the life of the process.                          *)
InUse ==
  {c \in Clients : /\ client[c].state \notin {"UNBORN", "DISCONNECTED"}
                   /\ ~client[c].closed \/ client[c].releasing > 0}
Leaked == {c \in Clients : client[c].state = "DISCONNECTED"}

(* _connection_count counts the clients in use and, though disconnect is   *)
(* to release the resources of the pool, those that can be used no more:   *)
(* these slots and no others are lost.                                     *)
SlotsCounted == count = Cardinality(InUse) + Cardinality(Leaked)

(* The process never holds more connections than the pool admits (capped   *)
(* at 5 per account) less what it has lost.                                *)
OpenWithinPool ==
  Cardinality({c \in Clients : client[c].ws = "open"}) <= MaxConnections - Cardinality(Leaked)

(* The two records of a slot agree: _connection_count with the clients,    *)
(* and the clients' sockets with what is left of the pool.                 *)
SlotAccounting == SlotsCounted /\ OpenWithinPool

(* A consumer that lost its connection is served again, or told: by an     *)
(* exception, which ends it, and after the last attempt by the terminal    *)
(* state.                                                                  *)
ReconnectEnds ==
  \A c \in Clients :
    client[c].pc = "recv" /\ client[c].ws = "lost"
      ~> \/ client[c].pc = "recv" /\ client[c].ws = "open"
         \/ client[c].pc = "off"
=============================================================================
