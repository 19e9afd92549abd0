# predmarket-alpha: a verification project

predmarket-alpha is a research and trading platform for prediction markets
(Kalshi above all). Most of its code is numerical or a batch report: it reads
data, computes and writes an artifact. The modules here are about the rest, the
parts that keep state over time, talk to an exchange and share files,
connections or budgets with other processes and tasks. They are written from
the Python source; paths below are relative to the root of the repository.

- [The system](#the-system)
- [Modules and code](#modules-and-code)
- [What is checked](#what-is-checked)
- [Bounds](#bounds)
- [Fairness](#fairness)
- [What is proved](#what-is-proved)
- [Disagreements between code and documents](#disagreements-between-code-and-documents)
- [What is not modelled](#what-is-not-modelled)
- [Plan](#plan)
- [Running it](#running-it)

## The system

| Part | State it keeps | Operations | Hard behaviour |
|---|---|---|---|
| live engine: `predmarket/kalshi_live_engine.py`, `scripts/kalshi_live_trader.py`, `scripts/kalshi_live_reconcile.py` | `kalshi-live-state.json`: intents, orders, fills, kill switch events | a trader pass (reconcile, snapshot, size, submit), a reconcile pass, dry run | crashes between the exchange and the file, ambiguous errors, timeouts, orders sized against one snapshot, stale rows, two commands on one file without a lock |
| live REST client: `predmarket/kalshi_live_client.py` | two token buckets | balance, order, create order | error or timeout after the order was accepted |
| order router: `predmarket/execution.py`, used by `main.py` and the dashboard | configuration loaded at start or per approval | execute, stage, retry | retries after ambiguous failures |
| audit trail: `predmarket/audit.py` | table `audit_trail` (a hash chain), `audit_log.jsonl` | log an event, verify the chain | two processes with a lock each, two records of one event |
| staged-order approval: `predmarket/dashboard/data.py` | columns of the staged row | approve | double clicks, failures half way |
| market data feed: `predmarket/kalshi_websocket.py` | client objects, a count of connections | subscribe, iterate, reconnect, disconnect | everything that can happen across an `await` |
| rate limiter: `predmarket/resilience.py` | tokens and the time of the last refill | consume, consume_sync | sleeping with and without the lock |
| paper research cycle: `predmarket/kalshi_research_cycle.py`, `predmarket/store.py` | tables of paper intents, events and resolved markets | rank, build, settle, report, import | overlapping cycles, a second process that falls back to another store, a crash between row and event |
| paper portfolio caps: `predmarket/paper_decision_engine.py`, `predmarket/paper_portfolio_risk.py` | the stakes of a basket | clip to the contract cap, clip to the share of a cluster, block what still breaches | shares that change when the total does |
| paper settlement and signal retirement: `predmarket/signal_decay_retirement.py`, `scripts/kalshi_signal_decay_retirement.py`, `scripts/kalshi_paper_settlement_reconcile.py`, `scripts/kalshi_paper_decision_candidates.py`, `scripts/kalshi_sports_paper_burn_in_cycle.py` | four artifact files | decide, probe, reconcile, retire | programs that overlap, die while they write, or are run by hand |
| provider credit budget: `QuotaBudget` of `predmarket/sports_consensus_reference_builder.py` | a ledger file | consume, reconcile | run and tranche ids that alternate, midnight, a truncated ledger |
| collectors: `scripts/kalshi_always_on_collector.py` | artifacts | run targets, choose the next time | a time limit that leaves the capture running |
| MLB dense panel and its confirmation: `predmarket/sports_mlb_dense_panel.py`, `predmarket/sports_mlb_dense_panel_confirmation.py` and their scripts | one raw file, an attempt file, a final file | capture, append, preflight, freeze, resume, evaluate | games that move under one ticker, slow or torn captures, two runs of a single-shot confirmation |
| tick recorder: `scripts/kalshi_tick_recorder.py` | `RecorderStats`, output files | connect, drain, leave | cancellation by a time limit, in the middle of a handshake or a back-off |
| the rest (forecasting, sizing, discovery, signal families, sports studies, evidence gates, router, dashboard pages, configuration) | none over time, or artifacts written afresh | | numbers and text |

How they interact. The platform loop (`main.py`) ingests, forecasts, sizes, and
hands each recommendation to the order router, which logs to the audit trail
and calls a venue; the dashboard, another process, approves staged rows with a
router and an audit logger of its own on the same database. The live engine is
separate: scheduled commands read the paper decisions and drive one state file
and one exchange account through the REST client, which takes its tokens from
the rate limiter. The tick recorder is the one user of the data feed.

The paper side has no exchange. Research cycles write a ledger of paper
intents; another chain of commands turns evidence into decisions, brings their
stakes within the portfolio caps, probes settled markets and retires signals,
and the live engine reads the decisions and the retirements. The always-on
collector starts most of these commands, and the captures of paid odds among
them share one credit ledger. The dense panel is filled by a cron entry of its
own and read once, by the confirmation.

What makes each part correct, in a sentence:

- live engine: the state file is a write-ahead record that never claims more
  than the exchange did, never reopens what is over, and keeps the exposure
  bounded;
- the shared state file: rows that are behind the exchange at most, lost only
  where two writes cross or one is cut in half;
- order router and audit trail: no order without its intent, a chain that
  verifies when it was written by one process and cannot be repaired by
  accident, a journal without invented lines;
- approval: filled means completed, and an approval comes to an end;
- data feed: no subscription is lost, slots and connections agree, a lost
  connection ends in service or in an exception;
- tick recorder: no hole in a recording that is called ready;
- rate limiter: a bound on what passes in any window of time;
- paper ledger: caps, one open intent per market and side, one settlement per
  intent, and an event for every row, whatever overlaps;
- portfolio caps: contracts within their cap, clusters at their share, and no
  more taken than that;
- retirement: signals are retired on settled evidence and not bought against
  it, and the retirement recovers from whatever was left behind;
- credit budget: a bound on what is sent per day, run and tranche;
- dense panel: a sample on the schedule that was last seen, with prices from
  before its clock, frozen once and judged once.

## Modules and code

| Module | Models | Remarks |
|---|---|---|
| `LiveRisk` | caps, kill switches and sizing of the live engine | operators only; whole dollars; floor division kept |
| `LiveTrader` | one command at a time over the state file, the exchange and the host | a step per write of the file or call of the exchange |
| `OrderLedger` | what the engine promises of its record | abstract specification |
| `LiveTraderLedger` | the refinement mapping from `LiveTrader` to `OrderLedger` | `INSTANCE ... WITH` |
| `LiveOverlap` | several commands of the live engine on one state file | load, truncation and write are steps; the section `orders` only |
| `LiveTraderProofs` | theorems about `LiveTrader` | |
| `AuditChain` | hashes, rows, `verify_audit_chain` | SHA-256 as an injective function |
| `Execution` | platform loop, approvals, router, audit trail | a step per SQL statement, journal append or call of the venue |
| `ExecutionProofs` | theorems about `Execution` | |
| `WebSocketPool` | clients, their consumers, the pool | a step per stretch of code between two awaits |
| `TickRecorder` | the recorder around one client (`EXTENDS WebSocketPool`) | a tick is a second; the event loop is taken to run on time |
| `WebSocketPoolProofs` | theorems about `WebSocketPool` and `TickRecorder` | what the recorder does to its client are steps of the pool |
| `TokenBucket` | the bucket on either path | a tick refills a unit; a request costs `Cost` of them |
| `SharingProofs` | theorems about `TokenBucket` and `LiveOverlap` | what callers and commands share |
| `PaperLedger` | research cycles and the import over DuckDB and SQLite | every row and every event is a commit of its own |
| `PortfolioCaps` | the three passes over a basket | a unit is what the search may miss by; a stake is a multiple of `Grain` of them |
| `Sums` | sums over a set, as cardinalities | so that their laws can be proved |
| `PaperLedgerProofs` | theorems about `PaperLedger` and `PortfolioCaps` | with the laws of sums they need |
| `PaperLifecycle` | decisions, snapshot, settlement, retirement, and the programs that rebuild them | a file is opened (and empty), then written |
| `PaperLifecycleProofs` | theorems about `PaperLifecycle` | |
| `QuotaBudget` | the credit ledger and the captures that consume it | check and truncation in one step, under the lock; then the text |
| `Collector` | the loop around the captures (`EXTENDS QuotaBudget`) | the timeout kills make, nothing below it |
| `QuotaBudgetProofs` | theorems about both | |
| `DensePanel` | captures of the order books, the raw file, postponed games | a step per request |
| `SingleShot` | the confirmation over the panel (`EXTENDS DensePanel`) | the files `single-shot-attempt.json`, `single-shot-final.json` |
| `SingleShotProofs` | theorems about both | |
| `MC...` | instances for TLC | |

**LiveTrader.** `orders`, `intents`, `fills` and `kills` are the sections of the
state file; `exch` is the exchange's own record. `pc` follows
`run_live_trader_once`: `reconcile` and `reconcile_fill` are the loop of
`reconcile_live_orders` (the row is upserted, then the fill appended), `report`
is `build_live_risk_snapshot` with the sizing of every candidate, `submit`,
`create`, `record` and `submit_fill` are the loop of `submit_live_orders`:
intent, request, row, fill. Which candidates carry no blocker and at what limit
price is the choice of a quote per candidate. An order id is a record of
candidate, price and count, because `client_order_id` is a uuid5 of these (and
of what the candidate fixes): a decision taken again has the id it had. The
environment fails calls with a status of 400 or more (`api_error`, or
`ambiguous` when the order was accepted all the same), with another exception
(`timeout`), or with a body that says nothing (`malformed`), and can kill the
process between any two steps (`crash`) or inside a write of the state file
(`torn`): `LiveStateStore.write` truncates and then writes, and what is cut off
loads as no state, so intents, orders, fills and rows go at once (`DieWriting`).
`erased` remembers the orders sent whose intent was lost that way. A blocked pass
has its event to write before it ends (`RecordKill`). A row
becomes FILLED when the answer says that nothing remains, before its status is
looked at (`Reconciled`): of an order that was canceled too.

**LiveOverlap.** The trader and the reconciliation are two commands with the
same default state directory, and `LiveStateStore` takes no lock. `file` is what
one would load now: `read_json_or_empty` answers an empty or torn file with no
state. `proc` are the locals of the commands; each upsert or append is `Load`,
`Truncate` and `Write`, and the text itself is written by one call. `view` says
whether the copy a command holds is still that of the file, or whether two
writers have passed their truncations, so that one text may end in the rest of
the other. Appending an intent, a fill or an event rewrites the orders
unchanged (`Rewrite`). `Spent` says what an exchange reports as remaining of a
canceled order: nothing, or what was not filled. What `LiveTrader` is about is left out: sizing,
unreadable and lost answers, the other sections.

**Execution.** `trail` is the table, `journal` the file, `task` the locals of
the platform loop and of each approval request. `execute_order` is taken apart
at every statement that another process can see: the last hash is read, the row
inserted, the line appended, the order submitted. The value of a hash is the
sequence of contents it covers, so a changed column shows as in the code. A
locked database fails a statement before it changes anything. An approval takes
any id, as the REST endpoint does: a row that is not staged, one that another
request is at work on, one that was settled. A system event names no venue, so
that the order an approval of it begins is logged as failed (`Reject`). Of the
details of a row the model keeps whether they are those that were logged. `stamp`
is the task, since two tasks never have the time of one call; requests are
numbered as they arrive, which loses nothing, as they differ in nothing else.

**WebSocketPool.** A client is the record of the object's fields; `pc` is where
its consumer waits. With `OneTask` the consumer's task is also the one that
disconnects, which is how the module's example and the recorder use it; without
it any task may disconnect at any await.

With `OneTask` false the model also has the disconnect during a handshake that
leaves a connection without a slot; the only caller in the code has one task
per client, so the run takes it true.

**TickRecorder.** `rec` is where `record_ticks` and `drain_messages` are, `stats`
the `RecorderStats`. The client of the recorder is one of `WebSocketPool`, whose
steps it takes in its waits. `wait_for` cancels the generator it waits for, and
a cancelled asynchronous generator has ended: what the code does after five
quiet seconds is `Timeout`. The outcomes "stopped" and "raised" are one status
in the report, `kalshi_tick_recorder_failed_runtime_error`. `Others` are clients
that share the pool with the recorder: it has the only one today, and a pool of
its own would hide what the slots are for.

**TokenBucket.** `mark` is an arbitrary moment at which somebody begins to
watch, so a statement about `Passed` since `mark` is one about every window.

**PaperLedger.** The store is chosen when a process connects: DuckDB lets one
process in, and the constructor answers any failure with SQLite. A cycle counts
the open intents once (`pairs`, `spent`), drafts from its report and writes
afterwards; `rows` and `logged` are the two tables, `todo` the row whose event
is due. A crash drops the locals and keeps what was committed.

**PortfolioCaps.** `ContractPass`, `ClipPass` and `ResidualPass` are the three
passes of `enforce_paper_portfolio_caps`, `BlockInfeasible` the early end of the
second. The search for the largest basket that fills is a step per halving
(`Halve`, between `lo` and `hi`); the code does eighty of them on floats, the
model as many as bring the two totals a unit apart, which is what the code's
tolerance tells apart. Rounding is the code's, half to even: of a stake
(`Rounded`), row by row after the clip, and of a share (`OverShare`), which is
compared with the cap after it. A row is usable while its stake is positive.

**PaperLifecycle.** `steps` is the program a process has still to run, `draft`
the text it is about to write. `now` and `CloseOf` say which rows are due,
`settled` and `right` what the exchange knows. A signal is retired when the
labels of its last minute are too few or too often wrong (`DecaySurvives`), or
when the calibrated probabilities of all its labels are too far from the
outcomes on average (`Drifts`). A torn file reads as an empty artifact.

**QuotaBudget, Collector.** The loop of the collector starts make for one target
after another (`Launch`, `Reap`). That of `line_moves` runs a logger, whose
requests to the paid provider take no credit (`LineMove`). That of
`sports_consensus` is a make inside a make, whose recipe (`todo`) runs capture
commands until one fails (`Capture`, `Proceed`): one run id per command, from its
pid. The timeout of the loop kills the make it started and nothing below it
(`TimeOut`): the make inside goes on with the captures still to come, unless a
command fails because nobody reads what it prints. A request that is refused or
gets no answer raises; the command ends with an exit code, or, where the caller
catches it (`Tolerant`), goes on with the next sport key (`GiveUp`). The day of a
request is read before the lock is taken, the ledger keeps one run, one day and
one tranche, and a torn ledger reads as nothing used; the histories `tears`,
`late` and `turns` count exactly these losses.

**DensePanel, SingleShot.** A capture takes its stamp, lists the open games,
fetches the books whose clock is near and appends. `raw` are the lines that
parse and `ending` says what a cut line has done to the file: the first line
appended behind it is lost with it, and strict loading refuses the file from
then on. `heard` remembers what the last appended listing told of each game.
A run of the confirmation has its own locals in `conf`; only the exclusive
creation of two files keeps runs apart.

## What is checked

| Run | Shows |
|---|---|
| `live_faults` | with the trader in both its strategies and every failure: `OrderHasDurableIntent` (an accepted order has an intent on file, unless a write of the file was torn), `RowFaithful` (a row claims no more than the exchange did), `ImplementsLedger`, the refinement of `OrderLedger` (which also makes terminal rows final, and lets nothing be lost but all of it, on a host that tears writes), and `TrackedOrderCloses`: every recorded open order gets a terminal row, or goes with the whole file |
| `live_caps` | `OvershootBounded`: what rests at the exchange or is open on file exceeds no cap by more than a factor of the orders of one pass and of the accepted orders whose row was never written, across midnight, with a moving clock and with answers that are lost; `FilledRowHasFills`: absent crashes, a filled row has its fills on file |
| `live_overlap` | `RowsBehindExchange`: no row that is loaded claims more than the exchange did, whatever commands overwrite one another; `DisjointWritesKeepRows`: a row is lost only where load-and-write of two commands cross or one dies in it; `Heals`: what an old copy reopened is closed again once commands overlap no more |
| `exec` | `SubmissionsAudited`: at most the retry limit of orders per intent row, and none without; `JournalFaithful`; `SoleWriterVerifies`: the chain of one writer verifies through every failure; `FilledBacked`: a row called filled has an order of its own; `DamageShows`: what is wrong with a row stays wrong, but for rows an approval can make say what was logged; `ApprovalSettles` |
| `recorder` | the recorder beside another client of the pool: `NoMissedSubscription`, `SlotAccounting`: every slot is that of a client in use or lost to one whose reconnections ran out, and no more connections are open than are left; `ReadyHasNoHole`: a recording called ready has no stretch longer than one wait without a line; `ReconnectEnds`: a lost connection ends in service or in an exception |
| `bucket` | `AsyncKeepsRate`, `SyncOvershoot`, `SleepBounded` |
| `paper_overlap` | `CapsHold` and `SettledOnce`: exact in DuckDB, once per overlapping cycle in SQLite; `NoDuplicateOpen`; `EventsFollowRows`; `Settles`: what is resolved in DuckDB is settled, though later cycles may work on SQLite for a while |
| `portfolio` | `NoContractOver`: what the three passes return has no contract over its cap; `NearTheCap`: the clip brings every cluster to its share of the clipped basket, to within the buffer and the rounding, and takes no more than that |
| `paper_lifecycle` | `RetiredOnEvidence`; `LiveHonoursEvidence`, between the cycles while nothing overlaps, dies or is run by hand; `RetirementCatchesUp`, whatever did; `LateProbeLabels` |
| `collector` | `BudgetsHold`: the budgets of day, run and tranche, once more for every count that was lost; `LoopKeepsBudgets`: to the credit for what the captures of the loop send; `CapturesEnd`: whatever was started ends |
| `panel` | `FrozenOnSchedule`, `PricesAsOf`, `OneSample`, `AttemptConcludes` |
| `bug_restart` | a disagreement, see below |

Type invariants are proved rather than run where a module has proofs of them.
Every property of a passing run is broken by at least one mutant, an operator
next to the one it replaces whose comment says *Mutant*.

Some properties state what the code really gives, not what one might wish:

- The caps of the live engine bound what a pass *starts* from. Up to
  `max_orders_per_run` orders of a pass are sized against one snapshot, so
  together they can exceed a cap ("strict caps" in
  `docs/codex/current-state.md`); `OvershootBounded` says by how much. An order that was
  accepted and has no row is not counted by any later pass, and adds its own
  cap. The caps also count open orders only: a position that is filled no longer counts
  towards any but the daily one.
- `consume_sync` lets a sleeper through whatever is in the bucket when it wakes.
  `SyncOvershoot` bounds the excess by one request per other thread, and
  `SleepBounded` shows that the debt this makes does not build up.
- Two overlapping commands on the state file can lose a row for good and can
  reopen one that is closed; `LiveOverlap` says what they cannot do. Two
  reconciliations that overlap again and again may undo each other's work for
  ever, so `Heals` is about the time when they do no more.
- A limit for gaps that is not shorter than one wait never counts a gap, and the
  default of `--max-gap-seconds` is such a limit (`ReadyHasNoHole`).
- Credit budgets are budgets of the requests that take a credit; those of
  `line_moves` come on top of them (see the disagreements). They hold to the
  credit for the captures of the loop alone. A torn ledger, two commands at
  midnight and alternating run or tranche ids each forgive one budget, and no
  more than one.
- What the live engine has on file it has until a write of the file is torn:
  then intents and rows are gone together, no later pass knows of the orders
  that rest, and each of them adds a cap (`OvershootBounded`).
- FILLED says that nothing remains of an order, not that it was executed
  (`RowFaithful`).
- Prices of the listing are preferred to those of the book, so a price can be
  older than its row says by what a capture may last (`PricesAsOf`).
- An attempt file whose text a crash cut off is an error to every later run: it
  needs somebody to remove it, where the docstring of
  `run_single_shot_confirmation` says an interrupted attempt may resume.
  `AttemptConcludes` is about whole attempts.

## Bounds

- `LiveTrader`: two or three candidates of one family and cluster on different
  contracts, stakes of one or two contracts, a pass of at most two orders. Two
  orders are enough for every relation between orders the code has (one cap
  shared by several, one row rewritten beside another); the third candidate in
  `live_caps` is there for a pass after a full one. `MaxTime` bounds the clock,
  past a day of two ticks; in `live_faults` it stands still, as no row depends
  on it. Dry runs and reconciliations are in `live_caps`; their calls are those
  a pass begins with. `MaxFills` bounds what the fills section counts of one
  order: the same partial fill is counted at each reconciliation, for ever
  (one of the disagreements below), and `FilledRowHasFills`, which alone reads
  it, asks for no more than an order has. Deaths, between steps and in the middle
  of a write, are in `live_faults`; `live_caps` has lost answers for orders
  without a row, and the theorem about it allows every failure.
- `LiveOverlap`: two commands, one of which trades at most once, and any number
  of reconciliations; two orders of one contract, one fault. Two orders let a
  write about the one lose or set back the other, and two commands are enough
  for every crossing of two writes.
- `Execution`: one contract (tasks meet only in the trail), one pass and two
  approvals of the first two rows (`Ids`), at most two of the three tasks under
  way at once (`MaxBusy`); two attempts per order and two faults, so that each
  attempt can fail. The first two rows are enough for a staged row, one logged
  as EXECUTING and a system event, each of which can be approved twice.
- `WebSocketPool`, `TickRecorder`: two clients for one slot, one of them the
  recorder's; two tickers, two channels, two attempts, two lost connections.
  Seven seconds with waits of three and at most three lines, so that a window
  holds whole waits, a cut one, and lines before and after a loss.
- `TokenBucket`: three callers, a burst of three and a cost of two, so that a
  bucket is sometimes short by less than a request; ten ticks, enough for a
  debt to be made, paid and made again. Both bounds are met exactly in this
  instance: with one unit less TLC finds them violated.
- `PaperLedger`: two cycles and the import, one crash, two markets of two events
  with both sides of one, two rows ever; caps of total, event and stake all
  differ, so that each of them is the one that binds in some state.
- `PortfolioCaps`: every basket of five rows over five stakes; two rows share a
  contract, three a cluster; a share of two fifths needs three clusters. A
  stake is a multiple of four units and the contract cap is not, so that both
  kinds of rounding happen; the buffer is a hundredth, which the stakes are
  large enough to tell from the rounding.
- `PaperLifecycle`: two contracts of one signal that close one after the other,
  one fetch per probe, one label enough; probabilities of seven and nine tenths
  and an error of two, so that the first contract alone drifts even when it is
  right, and both together do not; one run besides the burn-in cycle, one
  crash or one new ledger. Two contracts give the older and the newer label the
  decay is about.
- `Collector`: a make with two captures of two requests, then one with a request
  of `line_moves`, and a capture of three requests by hand, under another tranche
  and going on after errors; two days, one crash. Budgets of two for a run and a
  day and three for the tranche: each of the three checks matters, for with any
  of them dropped TLC finds `BudgetsHold` violated, and with that of the day or
  of the tranche `LoopKeepsBudgets`. Captures run at the same time are those of
  make, left behind or not, and the one by hand; two makes with captures at once
  are left to the theorems.
- `SingleShot`: two games with two starts, one postponement, clocks and
  deadlines of one minute, one crash, two runs, one new registration. A
  deadline of one minute is enough for a capture to outlast the window it chose.

The order in which the engine handles candidates and rows is the order of the
report and of the file; the models leave it open.

Symmetry is used in `live_caps` and `bucket` only, where candidates (of equal
stakes) and callers are interchangeable and no liveness is checked. Deadlock is
checked for the live engine, the portfolio (whose last state stutters by an
action of its own) and the paper lifecycle, which are always scheduled again.
`live_overlap` is checked for it as well. The other systems may stop: passes,
faults, connections, ticks, rows, captures or minutes run out.

## Fairness

- Live engine: the trader is scheduled again and again (a timer), a pass that
  can go on does (weak); an order that is asked about in every pass is answered
  sometime, and so that the answer can be read (strong: the exchange may fail any
  one call and the host may die in any one pass, not in all of them); a resting
  order ends, since every order is sent with an expiration time or is
  immediate-or-cancel.
- LiveOverlap: a command that runs goes on, reconciliations are started again
  and again (the timer), and a resting order expires (weak).
- Execution: a task that was started goes on. Nobody has to recommend or
  approve anything; no assumption is made about the venue.
- WebSocketPool, TickRecorder: handshakes, back-off sleeps and closes end (they have time
  limits), and a lost connection is noticed, through the ping the client is
  configured with. Nothing is assumed about success.
- PaperLedger: a cycle that runs goes on, cycles are started again, and the
  import ends. Nothing is assumed about which store a cycle gets.
- PaperLifecycle: a command that runs goes on (weak), the collector starts the
  burn-in cycle again and again (weak), and a market that can be fetched is,
  now and then (strong: any one fetch may fail).
- Collector: what is below make goes on, started or left behind, and so does a
  capture (weak), and the kernel serves a process that waits for the lock of the file (strong: `flock`
  has no time limit and others hold the lock in between).
- SingleShot: some run of the confirmation goes on (weak), and a run that may
  ask for fees and settlements finds them exact and there sometime (strong).

## What is proved

With TLAPS, for every value of the constants allowed by the named assumptions of
the modules:

| Theorem | States |
|---|---|
| `LiveTraderProofs!TypeCorrect` | `Spec => []TypeOK` |
| `LiveTraderProofs!RowsFaithful` | `Spec => []RowFaithful` |
| `LiveTraderProofs!IntentsDurable` | `Spec => []OrderHasDurableIntent`, torn writes included |
| `LiveTraderProofs!TerminalRowsFinal` | `Spec => TerminalRowFinal`: it goes with the whole file or not at all |
| `LiveTraderProofs!Implements` | `Spec => ImplementsLedger`: the ledger may lose everything where writes are torn, and nothing elsewhere |
| `LiveTraderProofs!FillsRecorded` | `Spec => []FilledRowHasFills`, where no process dies between two steps |
| `LiveTraderProofs!CapsOvershoot` | `Spec => []OvershootBounded`, whatever fails |
| `LiveTraderProofs!NothingForgotten` | no order rests without a row, where no answer is lost and no process dies |
| `ExecutionProofs!TypeCorrect` | `Spec => []TypeOK` |
| `ExecutionProofs!OrdersAnnounced` | `Spec => []SubmissionsAudited` |
| `ExecutionProofs!FilledHasOrder` | `Spec => []FilledBacked` |
| `ExecutionProofs!JournalHolds` | `Spec => []JournalFaithful` |
| `ExecutionProofs!LoneTrailVerifies` | `Spec => []SoleWriterVerifies` |
| `ExecutionProofs!DamageStays` | `Spec => DamageShows` |
| `WebSocketPoolProofs!TypeCorrect` | `Spec => []TypeOK` |
| `WebSocketPoolProofs!Subscribed` | `Spec => []NoMissedSubscription` |
| `WebSocketPoolProofs!SlotsExact` | `SlotAccounting`, where one task uses a client |
| `WebSocketPoolProofs!NoHole` | `RSpec => []ReadyHasNoHole` |
| `WebSocketPoolProofs!RecorderSubscribed` | `RSpec => []NoMissedSubscription` |
| `WebSocketPoolProofs!RecorderSlots` | `RSpec => []SlotAccounting`, where one task uses a client |
| `SharingProofs!TypeCorrect` | `Spec => []TypeOK` of `TokenBucket` |
| `SharingProofs!AsyncRate` | `Spec => []AsyncKeepsRate` |
| `SharingProofs!SyncBound` | `Spec => []SyncOvershoot` |
| `SharingProofs!SleepsShort` | `Spec => []SleepBounded` |
| `SharingProofs!RowsBehind` | `OverlapSpec => []RowsBehindExchange` |
| `SharingProofs!RowsKept` | `OverlapSpec => []DisjointWritesKeepRows` |
| `QuotaBudgetProofs!LedgerSafe` | no ledger exceeds a budget, nobody writes without the lock |
| `QuotaBudgetProofs!BudgetsKept` | `Spec => []BudgetsHold`, for captures started in any way |
| `QuotaBudgetProofs!CollectorBudgetsKept` | `CSpec => []BudgetsHold` |
| `QuotaBudgetProofs!LoopBudgetsKept` | `CSpec => []LoopKeepsBudgets`: what the captures of the loop send, beside the requests of `line_moves` |
| `PaperLedgerProofs!OneOpenIntent` | `Spec => []NoDuplicateOpen` |
| `PaperLedgerProofs!LedgerCapsHold` | `Spec => []CapsHold` |
| `PaperLedgerProofs!LedgerSettlesOnce` | `Spec => []SettledOnce` |
| `PaperLedgerProofs!LedgerLogsRows` | `Spec => []EventsFollowRows` |
| `PaperLedgerProofs!CapsInductive` | `CapsSpec => []PortfolioInv`, the invariant of the portfolio caps |
| `PaperLedgerProofs!ContractsKept` | `CapsSpec => []NoContractOver` |
| `PaperLedgerProofs!SharesNear` | `CapsSpec => []NearTheCap` |
| `PaperLifecycleProofs!RetiredOnEvidenceHolds` | `Spec => []RetiredOnEvidence` |
| `PaperLifecycleProofs!RetirementHonoured` | `Spec => []LiveHonoursEvidence` |
| `SingleShotProofs!OneSampleHolds` | `SSpec => []OneSample` |
| `SingleShotProofs!PricesAsOfHold` | `SSpec => []PricesAsOf` |
| `SingleShotProofs!AttemptImmutable` | an attempt file is never written again |
| `SingleShotProofs!OnSchedule` | `SSpec => []FrozenOnSchedule` |

The named assumptions say no more than what the code is given: numbers are
natural, functions on contracts are total, and the sets of processes, markets'
events, candidates and prices are finite, since counts and sums are taken over
them. Three kinds of theorem have a hypothesis of their own. `FillsRecorded`
excludes the crash, without which the property is false (the comment of the
property says where); `NothingForgotten` excludes what makes an order invisible
to the next pass, an ambiguous error, a timeout, a crash and a torn write, for
the same reason;
and the pool is exact where one task uses a client (`OneTask`).

*Rows.* `RowFaithful` is not inductive: a pass carries an answer from the
exchange to the file through its locals. `RowInv` adds that the reply in hand
claims no more than the exchange did and that its order has no row yet
(`ReplySound`), that the loop holds open rows only (`TodoOpen`), and that the
exchange agrees with itself (`ExchangeSound`): a fill is final and never
shrinks, which is the one thing the argument needs of the exchange.
`DurableInv` adds to the write-ahead property that the order about to be sent
has its intent. Final rows and the refinement follow step by step, from a lemma
that says which steps change a row and how. A torn write is one step of them
all (`TornAway`): it leaves the state of a new file, maps to `Lose`, and what it
erases of the intents of accepted orders goes into `erased`.

*Fills.* A filled row without its fills is one that `maybe_record_fill` is about
to be called for (`FillDue`), and only a crash leaves it without: a torn write
takes the row as well.

*Caps.* The orders a pass still has to send count as sent (`batch`), so that
what is counted, `Held`, grows when a pass is sized and not when it sends; then
it is within the caps because a pass starts from the exposure on file and each of
its orders fits what is left by itself (`Within`). A resting order that is not
counted is a forgotten one, and as an order is sent only from a batch, it was
sized to fit each cap by itself (`Sized`): hence one more cap for each. Where
answers are not lost and no process dies there are none (`NothingForgotten`),
and the bound is that of one pass. Sizes are kept as sets of single dollars
(`Dollars`), so that the laws of sums are those of cardinalities.

*Shared file.* A row that was true of the exchange stays behind it, because the
exchange only grows: a fill does not shrink, and what is over stays over. So it
is enough that every copy a command holds, and every row it is about to write,
is behind too, and that the order it writes about was accepted; nothing has to
be said about whose copy is the newer. Rows are kept while nothing has clashed
because a command whose copy is up to date (`Current`) has every recorded row in
it, and nobody else is in the gap of a write then (`Intact`).

*Trail.* The invariant of `Execution` has four layers: what a task may hold at
each of its steps (`Basic`), how rows are linked while one process writes them
(`Chained`), which lines of the journal are still to come (`Journalled`), and
an account per contract of intents announced, attempts left and orders at the
venue (`Accounts`). The counts of rows and orders are cardinalities of finite
sets, each step changes at most one of them by one, and the account holds
because a submission spends an attempt its intent row has paid for.

*Pool.* A client's fields determine whether it holds a slot and a socket; where
one task uses a client, no disconnect can come between a handshake and its
result (`Orderly`), and the count is the number of holders. What is missing of
a subscription is missing only while the connection is not live. The recorder
inherits all of this, since every step of it is a step of the pool or leaves the
pool alone. Its own theorem rests on time: while it waits, it has waited since
the last line, for at most as long as `wait_for` lets it (`InTime`).

*Rate.* What passed in a window and what is in the bucket never exceed what the
bucket could hold at its beginning and what was refilled since (`Conserved`);
and the one task that sleeps holds the lock, and sleeps as long as its deficit
takes (`SleepPays`), so that it finds what it needs when it wakes. Without the
second part a grant could make a debt, and the first would say nothing. On the
threaded path grants do make debts: `DebtPaid` says that a debt is at most what
the callers still asleep will have slept for, counted by their number, and
bounds overshoot and sleeps together.

*Budgets.* Sent requests are not what the ledger counts: a credit is taken
first, and counts vanish. `Counted` compares the credits granted to a run, on a
day and under a tranche with the count the ledger has or is about to get
(`Effective`) and a whole budget for each loss so far; a step either takes one
credit, or loses one count, or does neither (`ThreeWays`). For the loop on its
own no count is lost at all: a job it does not wait for has nothing left to
start (`OneJob`), the job it waits for has one capture that is alive
(`OneAlive`), so that runs take their credits one after another, and days come
in order (`InOrder`); a count that is reset is one nobody asks for again.

*One open intent.* One process at a time is connected to DuckDB (`OneInside`).
The pairs a cycle counted cover the open rows of that store and its drafts while
it drafts (`CountedOpen`, `Counted`), so a new draft differs from all of them;
afterwards the drafts stay apart from the rows (`Apart`), because nobody else
opens a row there and settling opens none. Cycles on SQLite only need that they
write rows of their own store.

*Caps of the ledger.* What a cycle may still open in a scope of events, its
drafts and, while it builds, what its count leaves of the cap, is its pending
share (`Pending`). `CapInv` says that no share exceeds a cap and that what is
open and all shares together do not exceed the caps of `Width` cycles. A draft
moves stake within a share, a write moves it from the share to the ledger, and
a count is the one step that makes a share: it is then alone with what is open,
which it has counted, and the shares of the others, which are a cap each at
most, and nothing in DuckDB. The total and each event are two scopes of one
argument. A sum is the number of its units (`Units`), so that its laws (a term
changed, terms renamed, a sum by groups) are proved from cardinalities and not
by induction.

*Portfolio caps.* `PortfolioInv` says what stakes each pass starts from, and that
the search is between a basket that fills and one that does not, or the whole
(`Bracketed`). What the two totals are a unit apart for is `ClipBound`: with
clusters scaled to their buffered share of a basket of `t` that fills, what is
left is less than `t` by what the buffer takes off the scaled clusters, at most
`Whole - Kept` of the whole, and by the rounding of each row, half a grain
(`ScaledCluster`, from `RoundedWithin`); it is more than `t` by no more than a
unit and the rounding, because the next basket does not fill, or there is none
(`FillingAtMost`). So a share of `t` is a share of what is left to within
`Allowance`, in both directions, and a cluster that was not scaled had no more
than its share of `t`. What a basket fills is a sum over clusters (`Portion`),
and a sum by groups is proved by taking a smallest set of groups for which it
fails, as the principle of induction over finite sets takes an operator. The
contracts need none of this: the last pass zeroes what is over, and lowers the
rest at most (`ResidualUnder`).

*Settlements and events.* A row's settlements and the cycles that still have it
before them (`Claims`) are together no more than its store may have cycles
(`RowOK`): a claim is made of an open row only, and becomes one settlement. A row
whose event nobody is about to write (`Lost`) comes from a crash, at most one
from each.

*Retirement.* No artifact says of a market what the exchange has not said,
whether it is on file or a draft, and a retired signal is backed by a settled
contract (`Truthful`). That survives because the exchange only ever adds
outcomes. For the new retirement, the last minute with a label exists because
settled contracts have closed (`LastClosed`), and if half of its labels are not
right, one of them is wrong; if the labels drift, one of them is further from
its outcome than the limit (`DriftsOnOne`, over the laws of cardinalities). As long as no command died, overlapped or was run
by hand, one process has commands to run, they end with a retirement, and what
is torn is what it is writing (`Calm`); a retirement is then computed from the
labels that are still there when it is written (`VerdictCurrent`), and nothing
changes the labels without a retirement to come.

*Single shot.* A run that is past the attempt holds the sample of the file
(`HoldsAttempt`), and no step writes a file that exists. Prices: every row was
seen within the deadline of its listing (`GoodRow`), and the row that is chosen
of a game is one of the rows that qualify, because a bounded set of stamps has a
greatest one (`Greatest`, from well-foundedness, since induction principles that
take operators are out of reach). Schedules: as long as no line was torn, the
latest rows of a game say what the last listing said (`HeardInv`), because a pass
stamps what it sees later than every row there is, and puts a marker before the
books of a game that moved (`LinesInv`).

Only model-checked: everything about liveness under fairness (`TrackedOrderCloses`,
`Heals`, `ApprovalSettles`, `ReconnectEnds`, `Settles`, `RetirementCatchesUp`,
`LateProbeLabels`, `CapturesEnd`, `AttemptConcludes`), which is out of the reach of
the prover. Every safety property and every action property that a passing run
checks is a theorem. Not stated at all is how far a cluster can be over its share
when the last pass of the portfolio caps has blocked others: what it blocks can
be all the rest.

## Disagreements between code and documents

One is a run that TLC must find violated, with the line that says otherwise in
`PROJECT.json`.

- `bug_restart`: an order whose process died between the request and the row
  rests at the exchange and is never reconciled, though its intent is on file
  (`ReconcileFindsOrders`).

The others are behaviours the models have, or met while reading.

- A command that dies between the truncation of the state file and its text
  leaves no rows at all to the next one, where
  `src/docs/codex/tranches/2026-07-03-live-autonomous-kalshi-engine.md:15` says
  restart-safe. `OrderHasDurableIntent`, `TerminalRowFinal`, `ImplementsLedger`
  and `TrackedOrderCloses` say that this is the one way in which a single command
  loses anything, and that it then loses everything; `DisjointWritesKeepRows`
  names it as one of the two ways in which a row is lost to several.
- An order that is canceled and reported with a `remaining_count` of 0 is written
  FILLED, as the count is tested before the status
  (`src/predmarket/kalshi_live_engine.py:1009` and `:1050`). `Reconciled` does
  the same, and `RowFaithful` says of a filled row that the order is over.
- The loop's first default target, `line_moves`, asks the paid provider every
  minute without a `QuotaBudget`
  (`src/scripts/kalshi_sports_line_move_delta_logger.py:203`), even where the
  budgets are zero, their default. `src/docs/codex/current-state.md:5` says that
  paid work remains unauthorized, and
  `src/docs/codex/tranches/2026-07-14-repo-control-remediation.md:37` that the
  QuotaBudget checks are complete. `LineMove` sends these requests; no property
  counts them, for no budget does.
- Five quiet seconds end a recording as failed: the `TimeoutError` branch of
  `drain_messages` (`src/scripts/kalshi_tick_recorder.py:196`) means to continue,
  but the generator that `wait_for` has cancelled has ended (`Timeout`).
- An event with `blocks_new_buys` is stored by the live engine and never read;
  the next pass buys.
- The id of a fill contains the time of the reconciliation, so a partial fill is
  appended again at each.
- An approval updates hashed columns of the trail
  (`src/predmarket/dashboard/data.py:147`), which
  `src/alembic/versions/001_initial.py:21` calls immutable and append-only. The
  row then fails to verify. As nothing looks at its status, a row that was
  logged as EXECUTING can be approved, fail and be approved again, and while the
  second request runs it says again what was hashed: a broken trail verifies.
  `DamageShows` names these rows (`Restorable`) and says of all others that what
  is wrong with them stays wrong.
- `KalshiWebSocketClient.disconnect` is to "release pool resources"
  (`src/predmarket/kalshi_websocket.py:508`), but for a client whose
  reconnections ran out it returns at once (line 512) and the slot is lost for
  the life of the process: after five such clients no other can be made.
  `SlotAccounting` counts these slots by name (`Leaked`) and says that no others
  are lost.
- With `OneTask` false, a disconnect during a handshake leaves a connection that
  has no slot.
- `enforce_paper_portfolio_caps` blocks what breaches a cap after the clip and
  does not compute the shares again (`ResidualPass`): with stakes 100 and 150 on
  one contract of cluster A, 150 in B and 200 in C, a contract cap of 200 and a
  share of 0.4, the last pass blocks A and leaves C with 0.57 of the rest, where
  `src/predmarket/paper_decision_engine.py:614` says no cap breach may survive
  enforcement. `NearTheCap` is therefore about the stakes before that pass, and
  `NoContractOver` about those after it.
- The PID file of the dense panel is looked at and then replaced
  (`src/predmarket/sports_mlb_dense_panel.py:294`): two captures started by hand
  at once both take it. The cron entry of the documents adds a `flock`.

Seen on the way, and part of the models rather than runs: the daily loss is read
from a key nothing writes (`StoredDailyLoss`), so its kill switch cannot trip;
the age of an order counts from its creation, so a resting order stops the
buying even if it was just reconciled; a fill is lost when the process dies
between the row and the fill; a row without an exchange order id stays open for
ever (`SkipUnidentified`). `CircuitBreaker` in `resilience.py` admits any number
of trial calls after its recovery period where its docstring says one; no code
calls it.

## What is not modelled

- Numbers: forecasting, calibration, Kelly sizing and portfolio optimisation,
  execution costs. Floating point and optimisers are out of TLC's reach, and
  these parts are functions of their inputs.
- Data processing without state: ingest, discovery, signal families, sports
  studies, matchers, evidence gates, the macro router. A run of theirs reads
  artifacts, computes and writes an artifact afresh. They are by far the most of
  the 112 thousand lines of the implementation: the parts that keep state over
  time, which is what the modules are about, are a few thousand lines of it, and
  a definition that stood for a report script would state the shape of its
  output and nothing that could go wrong.
- Presentation and plumbing: dashboard pages, metrics, configuration, logging.
- Inside the modelled parts: request signing, payload layout, message parsing;
  sizing against rows that another command has just lost, since `LiveOverlap`
  leaves the caps out; the rotation of the recorder's files; two consumers of
  one client; one bucket used on both paths; a line of the journal cut in half; a transaction left open by a failed
  commit; the blocking reasons of a paper opportunity; a
  credit budget without a ledger file; the quality gates of the panel that are shares
  of rows, and the statistics of its verdict; captures started by hand beside
  the cron entry.

## Plan

Done, in this order: `LiveRisk`, `LiveTrader`, `OrderLedger`,
`LiveTraderLedger`, `LiveTraderProofs`; `AuditChain`, `Execution`,
`ExecutionProofs`; `WebSocketPool`, `WebSocketPoolProofs`; `TokenBucket`,
`SharingProofs`; `PaperLedger`, `PaperLedgerProofs`; `PortfolioCaps`;
`PaperLifecycle`, `PaperLifecycleProofs`; `QuotaBudget`, `Collector`,
`QuotaBudgetProofs`; `DensePanel`, `SingleShot`, `SingleShotProofs`;
`LiveOverlap`; `TickRecorder`; then a theorem for every safety property the runs
check.

To come: the caps of the live engine under commands that overlap (`LiveOverlap`
leaves sizing out), and a bound for the shares after the last pass of the
portfolio caps, if that pass is ever repeated until nothing breaches.

## Running it

    tlc -workers 2 -config LiveFaults.cfg MCLiveTrader.tla
    tlapm LiveTraderProofs.tla

`PROJECT.json` lists every run with its module and configuration, the mutants,
the lines each definition stands for, the hazards and the theorems.
