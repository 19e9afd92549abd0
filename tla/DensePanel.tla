----------------------------- MODULE DensePanel -----------------------------
(***************************************************************************)
(* The dense order book panel of the MLB study.  A capture lists the open  *)
(* games, asks for the books of those whose decision clock is near, and    *)
(* appends what it saw to one raw file.  The cron entry starts one every   *)
(* minute, and its flock keeps them apart.  Games are postponed under the  *)
(* same ticker: the file then holds rows of several schedules.             *)
(***************************************************************************)
EXTENDS Integers, FiniteSets

CONSTANTS
  Events,      \* games, each one market
  Starts,      \* times a game may start
  Lead,        \* CONFIRMATION_CLOCK_SECONDS
  Stale,       \* CONFIRMATION_STALENESS_SECONDS
  Deadline,    \* MAX_CAPTURE_DEADLINE_SECONDS
  MaxTime, MaxMoves, MaxCrashes  \* bounds

ASSUME PanelAssumption ==
  /\ Starts \subseteq Nat /\ {Lead, Stale, Deadline, MaxTime} \subseteq Nat
  /\ {MaxMoves, MaxCrashes} \subseteq Nat

VARIABLES
  now,        \* minutes
  listed,     \* the exchange: the start of each game
  raw,        \* the parsed lines of the raw file
  ending,     \* its shape: "whole", "torn" (the last line is cut), or
              \* "broken" (some line inside does not parse)
  cap,        \* the capture: its steps, and what it has in memory
  heard,      \* history: the start of each known game in the last listing
              \* that was appended, None before
  last,       \* the minute of the last pass
  moves, crashes   \* counters of the bounds

panel == <<now, listed, raw, ending, cap, heard, last, moves, crashes>>

None == -1
Off  == [pc |-> "idle"]

Init ==
  /\ now = 0
  /\ listed \in [Events -> {s \in Starts : \A t \in Starts : s <= t}]
  /\ raw = {} /\ ending = "whole"
  /\ cap = Off
  /\ heard = [e \in Events |-> None]
  /\ last = None /\ moves = 0 /\ crashes = 0

-----------------------------------------------------------------------------
(* latest_observed_event_schedule.  At one time stamp a marker comes last: *)
(* "schedule-revision" sorts after "dense".                                *)
RowsOf(e) == {row \in raw : row.event = e}

Later(a, b) == a.seen > b.seen \/ (a.seen = b.seen /\ (a.marker \/ ~b.marker))

EffectiveStart(e) ==
  IF RowsOf(e) = {} THEN None
  ELSE (CHOOSE row \in RowsOf(e) : \A other \in RowsOf(e) : Later(row, other)).start

Clock(start) == start - Lead

(* eligible_capture_clocks, for the clock of the confirmation. *)
Open(start, t) == t <= Clock(start) /\ Clock(start) - t <= Stale

(* build_schedule_revision_rows: a row for every known game that is listed *)
(* with another start.                                                     *)
Moved == {e \in Events : EffectiveStart(e) \notin {None, listed[e]}}

Marker(e) ==
  [event |-> e, seen |-> cap.begun, start |-> listed[e],
   quoted |-> cap.begun, marker |-> TRUE]

-----------------------------------------------------------------------------
(* A pass begins: it takes its deadline and its stamp.  The PID file of a   *)
(* process that died names nobody who lives, and does not stop it.         *)
Begin ==
  /\ cap = Off /\ last < now
  /\ cap' = [pc |-> "list", begun |-> now]
  /\ last' = now
  /\ UNCHANGED <<now, listed, raw, ending, heard, moves, crashes>>

(* The windows are chosen as of the stamp of the pass, before the listing. *)
Listed(markers) ==
  [pc |-> "fetch", begun |-> cap.begun, listing |-> listed, listedAt |-> now,
   lines |-> markers, todo |-> {e \in Events : Open(listed[e], cap.begun)}]

(* Mutant: no row tells that a game has moved. *)
ListGamesUnmarked ==
  /\ cap.pc = "list"
  /\ cap' = Listed({})
  /\ UNCHANGED <<now, listed, raw, ending, heard, last, moves, crashes>>

(* cmd_capture: list the open games, load the file, note what has moved and *)
(* choose the games whose books are asked for.                             *)
ListGames ==
  /\ cap.pc = "list"
  /\ cap' = Listed({Marker(e) : e \in Moved})
  /\ UNCHANGED <<now, listed, raw, ending, heard, last, moves, crashes>>

(* Before every request, and as the time a request may take. *)
InTime == now <= cap.begun + Deadline

Book(e, stamp) ==
  [event |-> e, seen |-> stamp, start |-> cap.listing[e],
   quoted |-> cap.listedAt, marker |-> FALSE]

(* Mutant: the row carries the stamp of the pass. *)
FetchBookEarlyStamp(e) ==
  /\ cap.pc = "fetch" /\ e \in cap.todo /\ InTime
  /\ cap' = [cap EXCEPT !.todo = @ \ {e}, !.lines = @ \cup {Book(e, cap.begun)}]
  /\ UNCHANGED <<now, listed, raw, ending, heard, last, moves, crashes>>

(* capture_rows: one game.  Its row is stamped when the answer is there,   *)
(* but its prices are those of the listing wherever the listing had any.   *)
FetchBook(e) ==
  /\ cap.pc = "fetch" /\ e \in cap.todo /\ InTime
  /\ cap' = [cap EXCEPT !.todo = @ \ {e}, !.lines = @ \cup {Book(e, now)}]
  /\ UNCHANGED <<now, listed, raw, ending, heard, last, moves, crashes>>

(* The deadline ends the loop. *)
GiveUp ==
  /\ cap.pc = "fetch" /\ cap.todo # {} /\ now >= cap.begun + Deadline
  /\ cap' = [cap EXCEPT !.todo = {}]
  /\ UNCHANGED <<now, listed, raw, ending, heard, last, moves, crashes>>

-----------------------------------------------------------------------------
(* append_raw_snapshot_jsonl.  Every pass has stamps of its own, so no row  *)
(* is there already.  The first line that is written behind a torn one     *)
(* continues it, and neither parses any more.                              *)
Parsed(written, first) == IF ending = "torn" THEN written \ {first} ELSE written

(* Markers are written before books. *)
First(written, line) == line \in written /\ ((\E w \in written : w.marker) => line.marker)

Hearing(known) == [e \in Events |-> IF e \in known THEN cap.listing[e] ELSE heard[e]]

EventsOf(rows) == {row.event : row \in rows}

Append ==
  /\ cap.pc = "fetch" /\ cap.todo = {}
  /\ IF cap.lines = {} THEN UNCHANGED <<raw, ending>>
     ELSE /\ \E line \in cap.lines : First(cap.lines, line) /\ raw' = raw \cup Parsed(cap.lines, line)
          /\ ending' = IF ending = "torn" THEN "broken" ELSE ending
  /\ heard' = Hearing(EventsOf(raw'))
  /\ cap' = Off
  /\ UNCHANGED <<now, listed, last, moves, crashes>>

(* The listing fails: the command ends and gives the PID file back. *)
NoListing ==
  /\ cap.pc = "list"
  /\ cap' = Off
  /\ UNCHANGED <<now, listed, raw, ending, heard, last, moves, crashes>>

(* The process dies and its PID file names nobody who lives. *)
Dies ==
  /\ cap # Off /\ crashes < MaxCrashes
  /\ crashes' = crashes + 1
  /\ cap' = Off
  /\ UNCHANGED <<now, listed, last, moves>>

Crash == Dies /\ UNCHANGED <<raw, ending, heard>>

(* It dies while it appends: some lines are there, the last perhaps cut. *)
TornAppend ==
  /\ cap.pc = "fetch" /\ cap.todo = {}
  /\ Dies
  /\ \E written \in SUBSET cap.lines, cut \in BOOLEAN :
       /\ written # {} \/ cut
       /\ written # cap.lines
       /\ (\E w \in written : ~w.marker) => \A l \in cap.lines : l.marker => l \in written
       /\ IF written = {} THEN UNCHANGED raw
          ELSE \E line \in written : First(written, line)
                 /\ raw' = raw \cup Parsed(written, line)
       /\ ending' = IF cut THEN "torn"
                    ELSE IF ending = "torn" THEN "broken" ELSE ending
       /\ heard' = Hearing(EventsOf(written))

-----------------------------------------------------------------------------
(* The exchange moves a game that has not started to another start. *)
Postpone(e) ==
  /\ moves < MaxMoves /\ now < listed[e]
  /\ \E s \in Starts \ {listed[e]} : s > now /\ listed' = [listed EXCEPT ![e] = s]
  /\ moves' = moves + 1
  /\ UNCHANGED <<now, raw, ending, cap, heard, last, crashes>>

Tick ==
  /\ now < MaxTime
  /\ now' = now + 1
  /\ UNCHANGED <<listed, raw, ending, cap, heard, last, moves, crashes>>

Capture ==
  \/ Begin \/ ListGames \/ NoListing \/ GiveUp \/ Append \/ Crash \/ TornAppend
  \/ \E e \in Events : FetchBook(e)

PanelNext == Capture \/ (\E e \in Events : Postpone(e)) \/ Tick
=============================================================================
