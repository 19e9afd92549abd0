---------------------------- MODULE PaperLedger -----------------------------
(***************************************************************************)
(* The paper ledger and the research cycles that write it.  A cycle is a   *)
(* process: it connects to the store, turns ranked opportunities into      *)
(* intents within the stake caps, writes them, settles the open intents    *)
(* whose market has an outcome, reports and exits.  Every row and every    *)
(* event is a commit of its own.                                           *)
(*                                                                         *)
(* The store is a DuckDB file, which one process at a time can open, and a *)
(* process that cannot open it works on a SQLite file instead, which any   *)
(* number of processes share.                                              *)
(*                                                                         *)
(* An intent the policy blocks changes nothing, so that an opportunity     *)
(* stands here for one that passes; its weight is the multiplier of its    *)
(* stake, in halves.                                                       *)
(***************************************************************************)
EXTENDS Sums, Sequences, FiniteSetsExt

CONSTANTS
  Cycles,           \* processes of kalshi_research_cycle
  Markets, Events,
  EventOf,          \* the event of a market
  Resolved,         \* the markets with an outcome, imported or not
  Sides,
  Reports,          \* rank reports: sequences of opportunities
  MaxStake, MaxTotal, MaxEvent, MinStake,
  MaxRows,          \* bound on the intents ever made
  MaxCrashes        \* bound on processes that die

Stores == {"duckdb", "sqlite"}

(* The process that imports resolved markets opens the store as a cycle.   *)
Ingest == "ingest"
Processes == Cycles \cup {Ingest}

Opportunity == [market : Markets, side : Sides, weight : 1 .. 2]

ASSUME MarketAssumption ==
  EventOf \in [Markets -> Events] /\ IsFiniteSet(Events) /\ Resolved \subseteq Markets
ASSUME CycleAssumption == IsFiniteSet(Cycles) /\ Ingest \notin Cycles
ASSUME StakeAssumption ==
  /\ {MaxStake, MaxTotal, MaxEvent, MinStake} \subseteq Nat \ {0}
  /\ Reports \subseteq Seq(Opportunity)
ASSUME BoundAssumption == MaxRows \in Nat /\ MaxCrashes \in Nat

VARIABLES
  installed,  \* whether import duckdb works
  conn,       \* the store a process is connected to, or "none"
  pc,         \* where a cycle is
  rank,       \* the opportunities of its report it has not considered yet
  pairs,      \* open_pairs: markets and sides with an open intent, in its count
  spent,      \* event_stakes
  drafts,     \* the intents it made and has not written
  todo,       \* the rows it has to settle, and the one whose event is due
  rows,       \* kalshi_paper_intents, in the order of their insertion
  logged,     \* kalshi_paper_events: how many of each type, by row
  known,      \* kalshi_resolved_rows, by store
  crashes

local == <<pc, rank, pairs, spent, drafts, todo>>
tables == <<rows, logged, known>>
vars == <<installed, conn, local, tables, crashes>>

Nothing == [e \in Events |-> 0]

Init ==
  /\ installed \in BOOLEAN
  /\ conn = [p \in Processes |-> "none"]
  /\ pc = [c \in Cycles |-> "start"]
  /\ rank = [c \in Cycles |-> <<>>]
  /\ pairs = [c \in Cycles |-> {}]
  /\ spent = [c \in Cycles |-> Nothing]
  /\ drafts = [c \in Cycles |-> <<>>]
  /\ todo = [c \in Cycles |-> <<>>]
  /\ rows = <<>>
  /\ logged = <<>>
  /\ known = [d \in Stores |-> {}]
  /\ crashes = 0

-----------------------------------------------------------------------------
Free == \A p \in Processes : conn[p] # "duckdb"

(* Mutant: DuckDB lets a second process in.                                *)
StoreForAll == IF installed THEN "duckdb" ELSE "sqlite"

(* The constructor of the store: any failure to open DuckDB means SQLite.  *)
StoreFor == IF installed /\ Free THEN "duckdb" ELSE "sqlite"

Open(d) ==
  {i \in DOMAIN rows : rows[i].store = d /\ rows[i].status = "PAPER_INTENDED"}
OfEvent(S, e) == {i \in S : EventOf[rows[i].market] = e}

Staked(S) == SumOver(S, [i \in DOMAIN rows |-> rows[i].stake])

Connect(c) ==
  /\ pc[c] = "start"
  /\ conn' = [conn EXCEPT ![c] = StoreFor]
  /\ pc' = [pc EXCEPT ![c] = "rank"]
  /\ UNCHANGED <<installed, rank, pairs, spent, drafts, todo, tables, crashes>>

(* The open intents are counted once, when the report is ranked.           *)
LoadOpen(c) ==
  /\ pc[c] = "rank"
  /\ \E report \in Reports : rank' = [rank EXCEPT ![c] = report]
  /\ pairs' = [pairs EXCEPT ![c] =
       {<<rows[i].market, rows[i].side>> : i \in Open(conn[c])}]
  /\ spent' = [spent EXCEPT ![c] =
       [e \in Events |-> Staked(OfEvent(Open(conn[c]), e))]]
  /\ pc' = [pc EXCEPT ![c] = "build"]
  /\ UNCHANGED <<installed, conn, drafts, todo, tables, crashes>>

Total(exposure) == SumOver(Events, exposure)
Left(cap, used) == Max({cap - used, 0})

(* Mutant: the event has no cap of its own.                                *)
StakeOfTotal(c, o) ==
  (Min({MaxStake, Left(MaxTotal, Total(spent[c]))}) * o.weight + 1) \div 2

(* What the caps leave, times the weight, rounded to the nearest unit.     *)
(* MaxStake stands for the smaller of the stake limit and the fraction of  *)
(* the bankroll.                                                           *)
StakeFor(c, o) ==
  (Min({MaxStake, Left(MaxTotal, Total(spent[c])),
        Left(MaxEvent, spent[c][EventOf[o.market]])}) * o.weight + 1) \div 2

Drafted == MapThenSumSet(LAMBDA c : Len(drafts[c]), Cycles)

Passes(c, o) ==
  /\ <<o.market, o.side>> \notin pairs[c]
  /\ StakeFor(c, o) >= MinStake
  /\ Len(rows) + Drafted < MaxRows

Draft(c, o) ==
  /\ pairs' = [pairs EXCEPT ![c] = @ \cup {<<o.market, o.side>>}]
  /\ spent' = [spent EXCEPT ![c][EventOf[o.market]] = @ + StakeFor(c, o)]
  /\ drafts' = [drafts EXCEPT ![c] =
       Append(@, [status |-> "PAPER_INTENDED", store |-> conn[c], market |-> o.market,
                  side |-> o.side, stake |-> StakeFor(c, o)])]

(* The next opportunity of the rank report becomes an intent, or is blocked. *)
Consider(c) ==
  /\ pc[c] = "build"
  /\ rank[c] # <<>>
  /\ rank' = [rank EXCEPT ![c] = Tail(@)]
  /\ IF Passes(c, Head(rank[c])) THEN Draft(c, Head(rank[c]))
                                 ELSE UNCHANGED <<pairs, spent, drafts>>
  /\ UNCHANGED <<installed, conn, pc, todo, tables, crashes>>

(* The counts of build_paper_intents are local to it.                      *)
EndOfReport(c) ==
  /\ pc[c] = "build"
  /\ rank[c] = <<>>
  /\ pc' = [pc EXCEPT ![c] = "intend"]
  /\ pairs' = [pairs EXCEPT ![c] = {}]
  /\ spent' = [spent EXCEPT ![c] = Nothing]
  /\ UNCHANGED <<installed, conn, rank, drafts, todo, tables, crashes>>

WriteIntent(c) ==
  /\ pc[c] = "intend"
  /\ drafts[c] # <<>>
  /\ rows' = Append(rows, Head(drafts[c]))
  /\ logged' = Append(logged, [PAPER_INTENDED |-> 0, SETTLED |-> 0])
  /\ drafts' = [drafts EXCEPT ![c] = Tail(@)]
  /\ todo' = [todo EXCEPT ![c] = <<Len(rows) + 1>>]
  /\ pc' = [pc EXCEPT ![c] = "intend event"]
  /\ UNCHANGED <<installed, conn, rank, pairs, spent, known, crashes>>

(* Mutant: settling an intent leaves no event.                             *)
WriteIntendedEvent(c) ==
  /\ pc[c] \in {"intend event", "settle event"}
  /\ logged' = IF pc[c] = "intend event"
                 THEN [logged EXCEPT ![Head(todo[c])].PAPER_INTENDED = @ + 1] ELSE logged
  /\ todo' = [todo EXCEPT ![c] = Tail(@)]
  /\ pc' = [pc EXCEPT ![c] = IF @ = "intend event" THEN "intend" ELSE "settle"]
  /\ UNCHANGED <<installed, conn, rank, pairs, spent, drafts, rows, known, crashes>>

EventType(c) == IF pc[c] = "intend event" THEN "PAPER_INTENDED" ELSE "SETTLED"

(* The id of an event hashes its type and settled_ts: a settlement repeated *)
(* by another cycle is one event more.                                     *)
WriteEvent(c) ==
  /\ pc[c] \in {"intend event", "settle event"}
  /\ logged' = [logged EXCEPT ![Head(todo[c])][EventType(c)] = @ + 1]
  /\ todo' = [todo EXCEPT ![c] = Tail(@)]
  /\ pc' = [pc EXCEPT ![c] = IF @ = "intend event" THEN "intend" ELSE "settle"]
  /\ UNCHANGED <<installed, conn, rank, pairs, spent, drafts, rows, known, crashes>>

(* Mutants: the whole ledger is settled again; only the outcomes on the    *)
(* command line count.                                                     *)
SettleableRows(c, outcomes) ==
  {i \in DOMAIN rows : /\ rows[i].store = conn[c]
                       /\ rows[i].market \in known[conn[c]] \cup outcomes}
SettleableByHand(c, outcomes) == {i \in Open(conn[c]) : rows[i].market \in outcomes}

Settleable(c, outcomes) ==
  {i \in Open(conn[c]) : rows[i].market \in known[conn[c]] \cup outcomes}

InOrder(S) ==
  {s \in [1 .. Cardinality(S) -> S] : \A i, j \in DOMAIN s : i < j => s[i] < s[j]}

(* settle_paper_intents: outcomes are those of --outcomes-json.            *)
Settle(c) ==
  /\ pc[c] = "intend"
  /\ drafts[c] = <<>>
  /\ \E outcomes \in {{}, Resolved} :
       \E order \in InOrder(Settleable(c, outcomes)) :
         todo' = [todo EXCEPT ![c] = order]
  /\ pc' = [pc EXCEPT ![c] = "settle"]
  /\ UNCHANGED <<installed, conn, rank, pairs, spent, drafts, tables, crashes>>

(* INSERT OR REPLACE of the row that was loaded, settled.                  *)
WriteSettled(c) ==
  /\ pc[c] = "settle"
  /\ todo[c] # <<>>
  /\ rows' = [rows EXCEPT ![Head(todo[c])].status = "SETTLED"]
  /\ pc' = [pc EXCEPT ![c] = "settle event"]
  /\ UNCHANGED <<installed, conn, rank, pairs, spent, drafts, todo, logged, known, crashes>>

(* The connection is closed, or dropped when the process dies.             *)
Exit(c) ==
  /\ conn' = [conn EXCEPT ![c] = "none"]
  /\ pc' = [pc EXCEPT ![c] = "start"]
  /\ rank' = [rank EXCEPT ![c] = <<>>]
  /\ pairs' = [pairs EXCEPT ![c] = {}]
  /\ spent' = [spent EXCEPT ![c] = Nothing]
  /\ drafts' = [drafts EXCEPT ![c] = <<>>]
  /\ todo' = [todo EXCEPT ![c] = <<>>]
  /\ UNCHANGED <<installed, tables>>

Report(c) ==
  /\ pc[c] = "settle"
  /\ todo[c] = <<>>
  /\ Exit(c)
  /\ UNCHANGED crashes

Crash(c) ==
  /\ pc[c] # "start"
  /\ crashes < MaxCrashes
  /\ crashes' = crashes + 1
  /\ Exit(c)

(* The import of the markets that were resolved meanwhile.                 *)
StartIngest ==
  /\ conn[Ingest] = "none"
  /\ known["duckdb"] # Resolved
  /\ conn' = [conn EXCEPT ![Ingest] = StoreFor]
  /\ UNCHANGED <<installed, local, tables, crashes>>

EndIngest ==
  /\ conn[Ingest] # "none"
  /\ known' = [known EXCEPT ![conn[Ingest]] = Resolved]
  /\ conn' = [conn EXCEPT ![Ingest] = "none"]
  /\ UNCHANGED <<installed, local, rows, logged, crashes>>

Step(c) ==
  \/ Connect(c)
  \/ LoadOpen(c)
  \/ Consider(c)
  \/ EndOfReport(c)
  \/ WriteIntent(c)
  \/ WriteEvent(c)
  \/ Settle(c)
  \/ WriteSettled(c)
  \/ Report(c)

Next ==
  \/ \E c \in Cycles : Step(c) \/ Crash(c)
  \/ StartIngest
  \/ EndIngest

(* Cycles are run again and again, each of them to its end unless it dies. *)
Fairness ==
  /\ \A c \in Cycles : WF_vars(Step(c))
  /\ WF_vars(EndIngest)

Spec == Init /\ [][Next]_vars
FairSpec == Spec /\ Fairness

-----------------------------------------------------------------------------

(* How many cycles may work on a store at a time.                          *)
Width(d) == IF d = "duckdb" THEN 1 ELSE Cardinality(Cycles)

(* The caps hold in DuckDB whoever overlaps and whoever dies; in SQLite,   *)
(* where nothing keeps cycles apart, every cycle at a time has its own.    *)
CapsHold ==
  \A d \in Stores :
    /\ Staked(Open(d)) <= Width(d) * MaxTotal
    /\ \A e \in Events : Staked(OfEvent(Open(d), e)) <= Width(d) * MaxEvent

(* A market and a side have one open intent in DuckDB.                     *)
NoDuplicateOpen ==
  \A i, j \in Open("duckdb") :
    rows[i].market = rows[j].market /\ rows[i].side = rows[j].side => i = j

(* An intent is settled once in DuckDB, and in SQLite at most once by each *)
(* of the cycles that overlap.                                             *)
SettledOnce ==
  \A i \in DOMAIN rows : logged[i].SETTLED <= Width(rows[i].store)

(* The event of a row is missing only while it is being written, or where  *)
(* a process died between the row and its event.                           *)
Unlogged == {i \in DOMAIN rows : logged[i][rows[i].status] = 0}
EventsFollowRows ==
  LET writing == {c \in Cycles : pc[c] \in {"intend event", "settle event"}}
  IN Cardinality(Unlogged \ {Head(todo[c]) : c \in writing}) <= crashes

(* What DuckDB holds is settled once the outcome is imported there, though *)
(* the cycles that overlap may all be working on SQLite for a while.       *)
Due == {i \in Open("duckdb") : rows[i].market \in known["duckdb"]}
Settles == (Due # {}) ~> (Due = {})
=============================================================================
