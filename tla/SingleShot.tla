----------------------------- MODULE SingleShot -----------------------------
(***************************************************************************)
(* The single-shot confirmation on the dense panel.  A run freezes the     *)
(* sample the raw file shows into an attempt file, created exclusively,    *)
(* reads the settlements of that sample and writes one final verdict,      *)
(* created exclusively too.  Nothing keeps two runs apart but these files. *)
(***************************************************************************)
EXTENDS DensePanel

CONSTANTS
  Confirmations,  \* processes of the run command
  Buffer,         \* SETTLEMENT_BUFFER_SECONDS
  MinEvents,      \* MIN_CONFIRMATION_EVENTS
  MaxContracts    \* bound: a contract is registered anew so often

ASSUME ShotAssumption == {Buffer, MinEvents, MaxContracts} \subseteq Nat

VARIABLES
  attempt,   \* single-shot-attempt.json
  final,     \* single-shot-final.json
  contract,  \* the hash of the contract file
  conf,      \* the state of each run
  read       \* history: the samples whose outcomes were asked for

shot == <<attempt, final, contract, conf, read>>
vars == <<panel, shot>>

NoFile == [file |-> "none"]
Torn   == [file |-> "torn"]
Idle   == [pc |-> "idle"]

SInit ==
  /\ Init
  /\ attempt = NoFile /\ final = NoFile /\ contract = 0
  /\ conf = [r \in Confirmations |-> Idle] /\ read = {}

-----------------------------------------------------------------------------
(* select_frozen_candidate_rows: the latest book of each game that carries *)
(* its effective start and is fresh at its clock.                          *)
Books(e) ==
  {row \in RowsOf(e) : ~row.marker /\ row.start = EffectiveStart(e) /\ Open(row.start, row.seen)}

Candidates == {e \in Events : Books(e) # {}}

Sample ==
  {CHOOSE row \in Books(e) : \A other \in Books(e) : Later(row, other) : e \in Candidates}

(* load_raw_jsonl_strict: every line parses and none is there twice. *)
RawIntact == ending = "whole"

(* The gates of confirmation_preflight that change while the panel grows. *)
Ready ==
  /\ RawIntact /\ Cardinality(Sample) >= MinEvents
  /\ \A row \in Sample : now >= row.start + Buffer
  /\ attempt = NoFile /\ final = NoFile

End(r) == conf' = [conf EXCEPT ![r] = Idle]

(* confirmation_preflight.  A run that finds nothing ready and no file of a *)
(* run before it ends without a trace, and is no step at all.              *)
Preflight(r) ==
  /\ conf[r].pc = "idle" /\ (Ready \/ attempt # NoFile)
  /\ conf' = [conf EXCEPT ![r] =
       [pc |-> "look", contract |-> contract, ready |-> Ready,
        sample |-> IF Ready THEN Sample ELSE {},
        heard |-> IF Ready THEN heard ELSE <<>>]]
  /\ UNCHANGED <<panel, attempt, final, contract, read>>

(* Mutant: an attempt that was interrupted is not taken up again. *)
LookAroundNoResume(r) ==
  /\ conf[r].pc = "look"
  /\ IF conf[r].ready /\ attempt = NoFile THEN conf' = [conf EXCEPT ![r].pc = "freeze"]
     ELSE End(r)
  /\ UNCHANGED <<panel, attempt, final, contract, read>>

(* run_single_shot_confirmation: a final verdict is replayed; a file that  *)
(* does not parse is an error, every time; an attempt is taken up again if *)
(* it was made under the same contract.                                    *)
LookAround(r) ==
  /\ conf[r].pc = "look"
  /\ IF final # NoFile \/ attempt = Torn THEN End(r)
     ELSE IF attempt = NoFile
     THEN IF conf[r].ready THEN conf' = [conf EXCEPT ![r].pc = "freeze"] ELSE End(r)
     ELSE IF attempt.contract = conf[r].contract
     THEN conf' = [conf EXCEPT ![r] = [pc |-> "fetch", sample |-> attempt.sample]]
     ELSE End(r)
  /\ UNCHANGED <<panel, attempt, final, contract, read>>

Frozen(r) ==
  [file |-> "whole", sample |-> conf[r].sample, contract |-> conf[r].contract,
   heard |-> conf[r].heard]

(* Mutant: the file is written whether it exists or not. *)
FreezeAnyway(r) ==
  /\ conf[r].pc = "freeze"
  /\ attempt' = Frozen(r)
  /\ conf' = [conf EXCEPT ![r] = [pc |-> "fetch", sample |-> conf[r].sample]]
  /\ UNCHANGED <<panel, final, contract, read>>

(* freeze_single_shot_attempt: os.open with O_EXCL and os.write.  Who       *)
(* reads in between fails as if it had never been started.                 *)
Freeze(r) ==
  /\ conf[r].pc = "freeze"
  /\ IF attempt = NoFile
       THEN /\ attempt' = Frozen(r)
            /\ conf' = [conf EXCEPT ![r] = [pc |-> "fetch", sample |-> conf[r].sample]]
       ELSE End(r) /\ UNCHANGED attempt
  /\ UNCHANGED <<panel, final, contract, read>>

(* Without an exact fee nothing is read. *)
NoExactFee(r) ==
  /\ conf[r].pc = "fetch"
  /\ End(r)
  /\ UNCHANGED <<panel, attempt, final, contract, read>>

(* fetch_frozen_settlements; a market that is not settled ends the run,    *)
(* as an error does.                                                       *)
Unresolved(r) ==
  /\ conf[r].pc = "fetch"
  /\ read' = read \cup {conf[r].sample}
  /\ End(r)
  /\ UNCHANGED <<panel, attempt, final, contract>>

Evaluate(r) ==
  /\ conf[r].pc = "fetch"
  /\ read' = read \cup {conf[r].sample}
  /\ conf' = [conf EXCEPT ![r].pc = "final"]
  /\ UNCHANGED <<panel, attempt, final, contract>>

(* The verdict is created exclusively in the same way. *)
Finalize(r) ==
  /\ conf[r].pc = "final"
  /\ final' = IF final = NoFile THEN [file |-> "whole", sample |-> conf[r].sample] ELSE final
  /\ End(r)
  /\ UNCHANGED <<panel, attempt, contract, read>>

(* A run is killed, perhaps between the creation of a file and its text. *)
Killed(r) ==
  /\ conf[r].pc # "idle" /\ crashes < MaxCrashes
  /\ crashes' = crashes + 1
  /\ End(r)
  /\ attempt' \in {attempt} \cup IF conf[r].pc = "freeze" /\ attempt = NoFile THEN {Torn} ELSE {}
  /\ final' \in {final} \cup IF conf[r].pc = "final" /\ final = NoFile THEN {Torn} ELSE {}
  /\ UNCHANGED <<now, listed, raw, ending, cap, heard, last, moves, contract, read>>

(* contract --force, once there is an attempt it can put out of use. *)
Register ==
  /\ attempt # NoFile /\ contract < MaxContracts
  /\ contract' = contract + 1
  /\ UNCHANGED <<panel, attempt, final, conf, read>>

Proceed(r) ==
  \/ LookAround(r) \/ Freeze(r) \/ NoExactFee(r) \/ Unresolved(r) \/ Evaluate(r) \/ Finalize(r)

SNext ==
  \/ PanelNext /\ UNCHANGED shot
  \/ \E r \in Confirmations : Preflight(r) \/ Proceed(r) \/ Killed(r)
  \/ Register

(* The command is given again and again, and some run goes on; fees and    *)
(* settlements are there sometime.                                         *)
SSpec ==
  /\ SInit /\ [][SNext]_vars
  /\ WF_vars(\E r \in Confirmations : Preflight(r) \/ Proceed(r))
  /\ SF_vars(\E r \in Confirmations : Evaluate(r))

-----------------------------------------------------------------------------
(* Properties. *)

(* Postponements never leave a row of an old schedule in the sample: every *)
(* game of it has the start that the last listing told when the sample was *)
(* taken, whatever captures were cut off, killed or torn.                  *)
FrozenOnSchedule ==
  attempt.file = "whole" =>
    \A row \in attempt.sample : row.start = attempt.heard[row.event]

(* No price of the sample is later than the clock it stands for.  It may   *)
(* be older than the staleness limit says, by what a capture may last.     *)
PricesAsOf ==
  attempt.file = "whole" =>
    \A row \in attempt.sample :
      /\ row.quoted <= Clock(row.start)
      /\ Clock(row.start) - row.quoted <= Stale + Deadline

(* Outcomes are read of one sample only, and only once it is on file; the  *)
(* verdict is about that sample: "it can never expand".                    *)
OneSample ==
  /\ read # {} => attempt.file = "whole" /\ read = {attempt.sample}
  /\ final.file = "whole" => final.sample = attempt.sample

(* An attempt comes to its verdict, unless a crash tore the file of the    *)
(* verdict or the contract was registered anew.                            *)
Void == attempt.file = "whole" /\ attempt.contract # contract
AttemptConcludes == attempt.file = "whole" ~> final # NoFile \/ Void
=============================================================================
