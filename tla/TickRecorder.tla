---------------------------- MODULE TickRecorder ----------------------------
(***************************************************************************)
(* scripts/kalshi_tick_recorder.py: one task that reads the messages of a  *)
(* client of WebSocketPool for Duration seconds and appends them to files. *)
(* It waits for each message under a time limit (wait_for), which cancels  *)
(* the generator raw_messages() where that waits: a cancelled generator    *)
(* has ended, and to ask it for another message raises StopAsyncIteration. *)
(* The event loop is taken to run on time.  Other clients of the process   *)
(* live as they please beside the recorder's.                              *)
(***************************************************************************)
EXTENDS WebSocketPool

CONSTANTS
  Feed,         \* the client of the recorder
  Duration,     \* --duration-seconds
  Quiet,        \* the longest wait for one message (five seconds)
  MaxGap,       \* --max-gap-seconds
  MaxLines      \* bound: lines recorded in a behaviour

ASSUME RecorderAssumption ==
  /\ Feed \in Clients
  /\ Duration \in Nat \ {0} /\ Quiet \in Nat \ {0} /\ MaxGap \in Nat
  /\ MaxLines \in Nat

VARIABLES
  now,    \* seconds since the recorder began
  rec,    \* where it is, since when it waits, and how it ended
  stats   \* RecorderStats

rvars == <<count, client, drops, now, rec, stats>>

RInit ==
  /\ Init
  /\ now = 0
  /\ rec = [pc |-> "start", since |-> 0, outcome |-> "none"]
  /\ stats = [line_count |-> 0, first |-> -1, previous |-> -1,
              gap_count |-> 0, max_gap |-> 0]

(* The client is made and told its tickers; the first wait connects it.    *)
Begin ==
  /\ rec.pc = "start" /\ count < MaxConnections
  /\ count' = count + 1
  /\ Becomes(Feed, [NewClient EXCEPT !.state = "CONNECTING", !.pc = "first",
                                     !.tickers = Tickers, !.channels = Channels])
  /\ rec' = [rec EXCEPT !.pc = "wait"]
  /\ UNCHANGED <<drops, now, stats>>

(* The pool is full: ConnectionLimitExceeded is caught nowhere.            *)
Refused ==
  /\ rec.pc = "start" /\ count >= MaxConnections
  /\ rec' = [rec EXCEPT !.pc = "ended", !.outcome = "refused"]
  /\ UNCHANGED <<count, client, drops, now, stats>>

(* An exception of the client leaves the loop.                             *)
ClientStep ==
  /\ rec.pc = "wait"
  /\ Consume(Feed) \/ Drop(Feed)
  /\ rec' = IF client'[Feed].pc = "off" THEN [rec EXCEPT !.pc = "leave", !.outcome = "raised"]
                                        ELSE rec
  /\ UNCHANGED <<now, stats>>

(* The loop looks at the clock before it waits again.                      *)
Again(r) ==
  IF now < Duration THEN [r EXCEPT !.since = now]
                    ELSE [r EXCEPT !.pc = "leave", !.outcome = "ready"]

Gap == IF stats.previous < 0 THEN 0 ELSE now - stats.previous

(* A message is there in time: append_message.                             *)
Message ==
  /\ rec.pc = "wait" /\ client[Feed].pc = "recv" /\ client[Feed].ws = "open"
  /\ stats.line_count < MaxLines
  /\ stats' = [line_count |-> stats.line_count + 1,
               first |-> IF stats.first < 0 THEN now ELSE stats.first, previous |-> now,
               gap_count |-> stats.gap_count + (IF Gap > MaxGap THEN 1 ELSE 0),
               max_gap |-> IF Gap > stats.max_gap THEN Gap ELSE stats.max_gap]
  /\ rec' = Again(rec)
  /\ IF now < Duration THEN UNCHANGED client
     ELSE Becomes(Feed, [client[Feed] EXCEPT !.pc = "off"])
  /\ UNCHANGED <<count, drops, now>>

Expired == now - rec.since >= Quiet \/ now >= Duration

(* Mutant of Timeout: the generator outlives the wait.                     *)
TimeoutKeeps ==
  /\ rec.pc = "wait" /\ Expired
  /\ rec' = Again(rec)
  /\ IF now < Duration THEN UNCHANGED client
     ELSE Becomes(Feed, [client[Feed] EXCEPT !.pc = "off"])
  /\ UNCHANGED <<count, drops, now, stats>>

(* The wait is over and the generator cancelled with it; if there is time  *)
(* left, the next wait raises StopAsyncIteration at once.                  *)
Timeout ==
  /\ rec.pc = "wait" /\ Expired
  /\ Cancel(Feed)
  /\ rec' = IF now < Duration THEN [rec EXCEPT !.pc = "leave", !.outcome = "stopped"]
                              ELSE Again(rec)
  /\ UNCHANGED <<now, stats>>

Tick ==
  /\ rec.pc = "wait" /\ ~Expired
  /\ now' = now + 1
  /\ UNCHANGED <<count, client, drops, rec, stats>>

(* __aexit__ disconnects, which does nothing for a client that has given   *)
(* up; the report tells the outcome (both "raised" and "stopped" are       *)
(* kalshi_tick_recorder_failed_runtime_error).                             *)
Leave ==
  /\ rec.pc = "leave"
  /\ rec' = [rec EXCEPT !.pc = "ended"]
  /\ \/ Disconnect(Feed)
     \/ client[Feed].state = "DISCONNECTED" /\ UNCHANGED <<count, client, drops>>
  /\ UNCHANGED <<now, stats>>

Closed ==
  /\ Release(Feed)
  /\ UNCHANGED <<now, rec, stats>>

Others ==
  /\ \E c \in Clients \ {Feed} : Life(c)
  /\ UNCHANGED <<now, rec, stats>>

RNext ==
  \/ Begin \/ Refused \/ ClientStep \/ Timeout \/ Tick \/ Leave \/ Closed \/ Others
  \/ Message

(* Handshakes, sleeps and closes come to an end, and a lost connection is  *)
(* noticed: the ping that goes out every ten seconds times out after five. *)
RFairness ==
  /\ WF_rvars(ClientStep) /\ WF_rvars(Closed)
  /\ \A c \in Clients \ {Feed} :
       WF_rvars((Consume(c) \/ Release(c)) /\ UNCHANGED <<now, rec, stats>>)

RSpec == RInit /\ [][RNext]_rvars /\ RFairness

---------------------------------------------------------------------------
(* A recording that is called ready has no hole: from its beginning to its *)
(* end there is no stretch of more than Quiet seconds without a line       *)
(* (drain_messages), whatever happened to the connection meanwhile.  A     *)
(* limit for gaps that is not shorter than this never counts one, though   *)
(* the default of --max-gap-seconds is such a limit.                       *)
ReadyHasNoHole ==
  /\ rec.outcome = "ready" =>
       /\ stats.first <= Quiet /\ stats.max_gap <= Quiet
       /\ IF stats.previous < 0 THEN Duration <= Quiet ELSE Duration - stats.previous <= Quiet
  /\ MaxGap >= Quiet => stats.gap_count = 0
=============================================================================
