---------------------------- MODULE PaperLifecycle ---------------------------
(***************************************************************************)
(* From a paper decision to the retirement of its signal.  Four artifacts  *)
(* are files that commands build from one another and write whole:         *)
(*                                                                         *)
(*   decisions   the rows of the evidence ledger, usable or blocked        *)
(*   snapshot    the markets that were probed for an outcome               *)
(*   settlement  the rows of decisions, with the outcomes of snapshot      *)
(*   retirement  the signals whose settled rows speak against them         *)
(*                                                                         *)
(* and decisions are built against retirement.  The evidence cycle, the    *)
(* burn-in cycle of the collector and a retirement rebuilt by hand are     *)
(* processes that no lock keeps apart.  A file is truncated and then       *)
(* written; what cannot be parsed reads as an empty artifact.              *)
(***************************************************************************)
EXTENDS Integers, Sequences, FiniteSets, FiniteSetsExt, Sums

CONSTANTS
  NumContracts,    \* contracts are numbered in the order of their rows
  Signals, SignalOf,
  CloseOf,         \* the minute a contract closes
  Full,            \* how many parts make a probability of one
  Rated,           \* the contracts whose row has a calibrated probability
  ChanceOf,        \* that probability, of the side the row is for
  MinRecent,       \* min_recent_decisions
  MaxError,        \* max_calibration_error
  MaxFetch,        \* max_fetch_tickers
  MaxEvents        \* bound on runs besides the burn-in cycle, crashes and new ledgers

Contracts == 1 .. NumContracts
MaxTime == Max({CloseOf[c] : c \in Contracts})

ASSUME ContractAssumption ==
  /\ NumContracts \in Nat \ {0} /\ SignalOf \in [Contracts -> Signals]
  /\ CloseOf \in [Contracts -> Nat \ {0}]
ASSUME ChanceAssumption ==
  /\ Full \in Nat /\ Rated \subseteq Contracts
  /\ ChanceOf \in [Contracts -> 0 .. Full]
ASSUME PolicyAssumption == {MinRecent, MaxError, MaxFetch, MaxEvents} \subseteq Nat

Evidence == "evidence cycle"
BurnIn == "burn-in cycle"
ByHand == "retirement by hand"
Processes == {Evidence, BurnIn, ByHand}

Files == {"decisions", "snapshot", "settlement", "retirement"}

VARIABLES
  now,        \* minutes
  settled,    \* the contracts whose market has an outcome
  right,      \* those among them whose prediction came true
  ledger,     \* the rows of the evidence ledger that pass its gates
  file,       \* what each artifact says when it is whole
  torn,       \* the artifacts that do not parse
  steps,      \* the commands a process has still to run
  draft,      \* what a process is about to write: the artifact and its text
  events,     \* how many of them there were
  alone       \* history: no process died, ran beside another or was by hand

vars == <<now, settled, right, ledger, file, torn, steps, draft, events, alone>>

-----------------------------------------------------------------------------
(* The artifacts. *)

Empty == [decisions  |-> [c \in Contracts |-> "none"],
          snapshot   |-> [c \in Contracts |-> "absent"],
          settlement |-> [c \in Contracts |-> "none"],
          retirement |-> {}]

Read(f) == IF f \in torn THEN Empty[f] ELSE file[f]

(* Mutant: a row without an outcome counts as one that went wrong. *)
LabelledAll == {c \in Contracts : Read("settlement")[c] # "none"}

Labelled == {c \in Contracts : Read("settlement")[c] = "labelled"}

(* The rows that closed in the last minute that has a label.               *)
Recent(rows) == {c \in rows : \A d \in rows : CloseOf[d] <= CloseOf[c]}
DecaySurvives(rows) ==
  LET recent == Recent(rows)
  IN  Cardinality(recent) >= MinRecent /\ 2 * Cardinality(recent \cap right) >= Cardinality(recent)

(* How far the probability of a row was from what came true, and whether   *)
(* the rows were too far from it on average.                               *)
Error == [c \in Contracts |-> IF c \in right THEN Full - ChanceOf[c] ELSE ChanceOf[c]]
Drifts(rows) == SumOver(rows \cap Rated, Error) > MaxError * Cardinality(rows \cap Rated)

RetiredBy(labels) ==
  {s \in Signals : LET rows == {c \in labels : SignalOf[c] = s}
                   IN  rows # {} /\ (~DecaySurvives(rows) \/ Drifts(rows))}
RetiredSignals == RetiredBy(Labelled)

(* The usable rows past their close, in the order of the rows, at most     *)
(* MaxFetch of them, whether they have been probed or not.                 *)
Due(rows) == {c \in Contracts : rows[c] = "usable" /\ CloseOf[c] <= now}
FirstDue(rows) == {c \in Due(rows) : Cardinality({d \in Due(rows) : d < c}) < MaxFetch}
DueTickers == FirstDue(Read("decisions"))

(* Mutant: with a previous snapshot, nothing is fetched. *)
ProbedOnce(fetched) ==
  LET was == Read("snapshot")
  IN  IF \E c \in Contracts : was[c] # "absent" THEN was
      ELSE [c \in Contracts |->
              IF c \notin fetched THEN "absent" ELSE IF c \in settled THEN "settled" ELSE "unsettled"]

(* A market of the previous snapshot is taken over as it was then.         *)
Probed(fetched) ==
  [c \in Contracts |->
     LET was == Read("snapshot")[c]
     IN  IF was = "absent" /\ c \in fetched
         THEN IF c \in settled THEN "settled" ELSE "unsettled"
         ELSE was]

(* Blocked rows are labelled as usable ones are. *)
Reconciled ==
  [c \in Contracts |->
     CASE Read("decisions")[c] = "none" -> "none"
       [] Read("snapshot")[c] = "settled" -> "labelled"
       [] OTHER -> "unlabelled"]

-----------------------------------------------------------------------------
(* The processes. *)

(* Mutant: retirement comes before the labels. *)
ProgramRetireFirst == [p \in Processes |->
  CASE p = Evidence -> <<"decide", "retire", "reconcile">>
    [] p = BurnIn -> <<"decide", "retire", "reconcile", "probe", "retire", "reconcile">>
    [] OTHER -> <<"retire raw">>]

Program == [p \in Processes |->
  CASE p = Evidence -> <<"decide", "reconcile", "retire">>
    [] p = BurnIn -> <<"decide", "reconcile", "retire", "probe", "reconcile", "retire">>
    [] OTHER -> <<"retire raw">>]

NoDraft == <<>>
Idle(p) == steps[p] = <<>>
At(p, step) == ~Idle(p) /\ draft[p] = NoDraft /\ Head(steps[p]) = step

Init ==
  /\ now = 0
  /\ settled = {}
  /\ right = {}
  /\ ledger \in SUBSET Contracts
  /\ file = Empty
  /\ torn = {}
  /\ steps = [p \in Processes |-> <<>>]
  /\ draft = [p \in Processes |-> NoDraft]
  /\ events = 0 /\ alone = TRUE

world == <<now, settled, right, ledger>>

Start(p) ==
  /\ Idle(p)
  /\ p # BurnIn => events < MaxEvents
  /\ events' = IF p = BurnIn THEN events ELSE events + 1
  /\ steps' = [steps EXCEPT ![p] = Program[p]]
  /\ alone' = (alone /\ p # ByHand /\ \A q \in Processes : Idle(q))
  /\ UNCHANGED <<world, file, torn, draft>>

(* write_text: the file is opened, and empty from then on. *)
Open(p, f, text) ==
  /\ draft' = [draft EXCEPT ![p] = <<f, text>>]
  /\ torn' = torn \cup {f}
  /\ UNCHANGED <<world, file, steps, events, alone>>

(* The row of a retired signal is blocked; a row that fails a gate of the  *)
(* ledger would be blocked as well, and is left out.                       *)
Decided ==
  [c \in Contracts |->
     IF c \notin ledger THEN "none" ELSE IF SignalOf[c] \in Read("retirement") THEN "blocked" ELSE "usable"]

Decide(p) == At(p, "decide") /\ Open(p, "decisions", Decided)

Probe(p) ==
  /\ At(p, "probe")
  /\ DueTickers # {}
  /\ \E fetched \in SUBSET DueTickers : Open(p, "snapshot", Probed(fetched))

NothingDue(p) ==
  /\ At(p, "probe")
  /\ DueTickers = {}
  /\ steps' = [steps EXCEPT ![p] = Tail(@)]
  /\ UNCHANGED <<world, file, torn, draft, events, alone>>

Reconcile(p) == At(p, "reconcile") /\ Open(p, "settlement", Reconciled)

(* Mutant: the input is the decisions, whose rows had no outcome.          *)
RetireRaw(p) == At(p, "retire") /\ Open(p, "retirement", {})

Retire(p) == At(p, "retire") /\ Open(p, "retirement", RetiredSignals)

(* By hand, the decisions are the default: their rows have the outcomes    *)
(* that the evidence ledger had for them, most often none.                 *)
RetireByHand(p) ==
  /\ At(p, "retire raw")
  /\ \E known \in SUBSET {c \in settled : Read("decisions")[c] # "none"} :
       Open(p, "retirement", RetiredBy(known))

(* The text is written.  Where another process wrote the file meanwhile,   *)
(* a longer text of its own can show behind this one.                      *)
Write(p) ==
  /\ draft[p] # NoDraft
  /\ LET f == draft[p][1]
     IN  /\ file' = [file EXCEPT ![f] = draft[p][2]]
         /\ \/ torn' = torn \ {f}
            \/ f \notin torn /\ torn' = torn \cup {f}
  /\ draft' = [draft EXCEPT ![p] = NoDraft]
  /\ steps' = [steps EXCEPT ![p] = Tail(@)]
  /\ UNCHANGED <<world, events, alone>>

Crash(p) ==
  /\ ~Idle(p) /\ events < MaxEvents
  /\ events' = events + 1 /\ alone' = FALSE
  /\ steps' = [steps EXCEPT ![p] = <<>>]
  /\ draft' = [draft EXCEPT ![p] = NoDraft]
  /\ UNCHANGED <<world, file, torn>>

Tick ==
  /\ now < MaxTime
  /\ now' = now + 1
  /\ UNCHANGED <<settled, right, ledger, file, torn, steps, draft, events, alone>>

(* The exchange settles a market that has closed. *)
MarketSettles(c) ==
  /\ c \notin settled /\ CloseOf[c] <= now
  /\ settled' = settled \cup {c}
  /\ right' \in {right, right \cup {c}}
  /\ UNCHANGED <<now, ledger, file, torn, steps, draft, events, alone>>

(* The scan and the ledger are rebuilt with other rows. *)
Relist(rows) ==
  /\ rows # ledger /\ events < MaxEvents
  /\ ledger' = rows
  /\ events' = events + 1
  /\ UNCHANGED <<now, settled, right, file, torn, steps, draft, alone>>

Work(p) ==
  Decide(p) \/ Probe(p) \/ NothingDue(p) \/ Reconcile(p) \/ Retire(p) \/ RetireByHand(p) \/ Write(p)

Next ==
  \/ \E p \in Processes : Start(p) \/ Work(p) \/ Crash(p)
  \/ Tick
  \/ \E c \in Contracts : MarketSettles(c)
  \/ \E rows \in SUBSET Contracts : Relist(rows)

Spec == Init /\ [][Next]_vars

(* A command that runs goes on running; the collector starts the burn-in   *)
(* cycle again and again; a market that can be fetched is, now and then.   *)
Fetches(c) == Probe(BurnIn) /\ draft'[BurnIn][2][c] # "absent"
Fairness ==
  /\ \A p \in Processes : WF_vars(Work(p))
  /\ WF_vars(Start(BurnIn))
  /\ \A c \in Contracts : SF_vars(Fetches(c))
FairSpec == Spec /\ Fairness

-----------------------------------------------------------------------------
(* Properties. *)

(* The rows whose probability is too far from the outcome even if they     *)
(* come true.                                                              *)
Doubted == {c \in Rated : Full - ChanceOf[c] > MaxError}

(* A signal is retired only on a contract of its own that settled, however *)
(* the commands overlap and whichever of them dies; and where one recent   *)
(* label is enough it stays as long as all of them came true, and none had *)
(* been doubted.                                                           *)
RetiredOnEvidence ==
  \A s \in Read("retirement") : \E c \in settled :
    SignalOf[c] = s /\ (MinRecent <= 1 => c \notin right \ Doubted)

(* What the live engine would buy: a usable row of a signal that is not    *)
(* retired, as far as the two artifacts can be read.                       *)
LiveAdmits ==
  {c \in Contracts : Read("decisions")[c] = "usable" /\ SignalOf[c] \notin Read("retirement")}

(* Between the cycles no row of a signal is admitted whose settled rows    *)
(* speak against it, as long as no command dies, overlaps with another or  *)
(* is run by hand: each of the three can let one through.                  *)
LiveHonoursEvidence ==
  alone /\ (\A p \in Processes : Idle(p)) =>
    \A c \in LiveAdmits : SignalOf[c] \notin RetiredSignals

(* Whatever was left behind by a crash, an overlap or a run by hand, the   *)
(* burn-in cycle brings the retirement back to what the labels say.        *)
RetirementCatchesUp ==
  []<>(torn \cap {"settlement", "retirement"} = {} /\ file.retirement = RetiredSignals)

(* A market is unprobed while neither the snapshot nor the one about to be *)
(* written has it.                                                         *)
Unprobed(c) ==
  /\ Read("snapshot")[c] = "absent"
  /\ draft[BurnIn] # NoDraft /\ draft[BurnIn][1] = "snapshot" => draft[BurnIn][2][c] = "absent"

(* A row is probed in the next cycle if the decisions stay as they are.    *)
StaysDue(c) == c \in FirstDue(file.decisions)

(* A usable row that is due, and first probed when its market has settled, *)
(* is labelled, or leaves the rows that are probed.                        *)
LateProbeLabels ==
  \A c \in Contracts :
    (c \in settled /\ Unprobed(c)) ~> (~StaysDue(c) \/ Read("settlement")[c] = "labelled")
=============================================================================
