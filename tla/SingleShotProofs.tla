-------------------------- MODULE SingleShotProofs --------------------------
(***************************************************************************)
(* The attempt file is written once, and whatever a run holds after it has *)
(* got past that file is what the file says.  Nothing is assumed of what   *)
(* the captures do to the raw file meanwhile.  What they put there bounds  *)
(* the age of the prices of the sample.                                    *)
(***************************************************************************)
EXTENDS SingleShot, TLAPS, WellFoundedInduction

(* What a run has in memory at each of its steps. *)
Shaped(c) ==
  \/ c = Idle
  \/ /\ c.pc \in {"look", "freeze"}
     /\ c = [pc |-> c.pc, contract |-> c.contract, ready |-> c.ready,
             sample |-> c.sample, heard |-> c.heard]
  \/ /\ c.pc \in {"fetch", "final"}
     /\ c = [pc |-> c.pc, sample |-> c.sample]

RunsShaped ==
  /\ conf = [r \in Confirmations |-> conf[r]]
  /\ \A r \in Confirmations : Shaped(conf[r])

AttemptShaped == attempt \in {NoFile, Torn} \/ attempt.file = "whole"

(* A run that is past the attempt holds the sample of the file. *)
HoldsAttempt ==
  \A r \in Confirmations :
    conf[r].pc \in {"fetch", "final"} =>
      attempt.file = "whole" /\ conf[r].sample = attempt.sample

ReadOfAttempt == read # {} => attempt.file = "whole" /\ read = {attempt.sample}

FinalOfAttempt ==
  final.file = "whole" => attempt.file = "whole" /\ final.sample = attempt.sample

ShotInv == RunsShaped /\ AttemptShaped /\ HoldsAttempt /\ ReadOfAttempt /\ FinalOfAttempt

(* A run may write the attempt only where there is no file. *)
AttemptKept == attempt # NoFile => attempt' = attempt

(* What the steps of a run are made of. *)
LEMMA Shapes ==
  ASSUME NEW c, Shaped(c)
  PROVE  /\ c.pc \in {"idle", "look", "freeze", "fetch", "final"}
         /\ c.pc \in {"look", "freeze"} =>
              Shaped([c EXCEPT !.pc = "freeze"]) /\ [c EXCEPT !.pc = "freeze"].pc = "freeze"
         /\ c.pc = "fetch" =>
              /\ Shaped([c EXCEPT !.pc = "final"])
              /\ [c EXCEPT !.pc = "final"].pc = "final"
              /\ [c EXCEPT !.pc = "final"].sample = c.sample
<1>1. CASE c = Idle
  BY <1>1 DEF Idle
<1>2. CASE c.pc \in {"look", "freeze"}
  BY <1>2 DEF Shaped, Idle
<1>3. CASE c.pc \in {"fetch", "final"}
  BY <1>3 DEF Shaped, Idle
<1>4. QED
  BY <1>1, <1>2, <1>3 DEF Shaped

LEMMA NewShapes ==
  ASSUME NEW k, NEW b, NEW s, NEW h
  PROVE  /\ Shaped(Idle) /\ Idle.pc = "idle"
         /\ Shaped([pc |-> "look", contract |-> k, ready |-> b, sample |-> s, heard |-> h])
         /\ Shaped([pc |-> "fetch", sample |-> s])
BY DEF Shaped, Idle

(* No step of a run or of its environment writes an attempt that is there. *)
LEMMA Kept ==
  ASSUME [SNext]_vars
  PROVE  AttemptKept
<1>1. CASE UNCHANGED vars
  BY <1>1 DEF vars, shot, AttemptKept
<1>2. CASE PanelNext /\ UNCHANGED shot
  BY <1>2 DEF shot, AttemptKept
<1>3. CASE Register
  BY <1>3 DEF Register, AttemptKept
<1>4. ASSUME NEW r \in Confirmations, Preflight(r)
      PROVE  AttemptKept
  BY <1>4 DEF Preflight, AttemptKept
<1>5. ASSUME NEW r \in Confirmations, Killed(r)
      PROVE  AttemptKept
  BY <1>5 DEF Killed, AttemptKept
<1>6. ASSUME NEW r \in Confirmations, Proceed(r)
      PROVE  AttemptKept
  BY <1>6 DEF Proceed, LookAround, Freeze, NoExactFee, Unresolved, Evaluate, Finalize, AttemptKept
<1>7. QED
  BY <1>1, <1>2, <1>3, <1>4, <1>5, <1>6 DEF SNext

LEMMA ShotInit == SInit => ShotInv
<1>1. SUFFICES ASSUME SInit PROVE ShotInv
  OBVIOUS
<1>2. attempt.file = "none" /\ final.file = "none" /\ Idle.pc = "idle"
  BY <1>1 DEF SInit, NoFile, Idle
<1>3. QED
  BY <1>1, <1>2 DEF SInit, ShotInv, RunsShaped, AttemptShaped, HoldsAttempt, ReadOfAttempt,
       FinalOfAttempt, Shaped

(* A step that leaves the attempt alone and lets one run go on, with the   *)
(* sample of the attempt if it is past it.                                 *)
LEMMA Aside ==
  ASSUME ShotInv, NEW r \in Confirmations, NEW c,
         conf' = [conf EXCEPT ![r] = c], Shaped(c),
         c.pc \in {"fetch", "final"} => attempt.file = "whole" /\ c.sample = attempt.sample,
         attempt' = attempt
  PROVE  RunsShaped' /\ AttemptShaped' /\ HoldsAttempt'
<1>1. /\ conf = [q \in Confirmations |-> conf[q]]
      /\ \A q \in Confirmations : Shaped(conf[q])
  BY DEF ShotInv, RunsShaped
<1>2. conf' = [q \in Confirmations |-> IF q = r THEN c ELSE conf[q]]
  BY <1>1
<1>3. RunsShaped'
  <2>1. conf' = [q \in Confirmations |-> conf'[q]]
    BY <1>2
  <2>2. \A q \in Confirmations : conf'[q] = c \/ conf'[q] = conf[q]
    BY <1>2
  <2>3. QED
    BY <2>1, <2>2, <1>1, Zenon DEF RunsShaped
<1>4. HoldsAttempt'
  BY <1>2 DEF ShotInv, HoldsAttempt
<1>5. QED
  BY <1>3, <1>4 DEF ShotInv, AttemptShaped

LEMMA ShotStep == ShotInv /\ [SNext]_vars => ShotInv'
<1>1. SUFFICES ASSUME ShotInv, [SNext]_vars PROVE ShotInv'
  OBVIOUS
<1>2. CASE UNCHANGED shot
  BY <1>1, <1>2 DEF shot, ShotInv, RunsShaped, AttemptShaped, HoldsAttempt, ReadOfAttempt,
       FinalOfAttempt
<1>3. CASE Register
  BY <1>1, <1>3 DEF Register, ShotInv, RunsShaped, AttemptShaped, HoldsAttempt, ReadOfAttempt,
       FinalOfAttempt
<1>4. ASSUME NEW r \in Confirmations, Preflight(r)
      PROVE  ShotInv'
  <2> DEFINE s == IF Ready THEN Sample ELSE {}
             h == IF Ready THEN heard ELSE <<>>
             c == [pc |-> "look", contract |-> contract, ready |-> Ready, sample |-> s, heard |-> h]
  <2>1. conf' = [conf EXCEPT ![r] = c] /\ UNCHANGED <<attempt, final, read>>
    BY <1>4 DEF Preflight
  <2>2. Shaped(c) /\ c.pc = "look"
    <3> HIDE DEF s, h
    <3> QED
      BY NewShapes DEF c
  <2> HIDE DEF c
  <2>3. RunsShaped' /\ AttemptShaped' /\ HoldsAttempt'
    BY <1>1, <2>1, <2>2, Aside
  <2>4. QED
    BY <1>1, <2>1, <2>3 DEF ShotInv, ReadOfAttempt, FinalOfAttempt
<1>5. ASSUME NEW r \in Confirmations, End(r), attempt' = attempt, read' = read,
             final'.file = "whole" => attempt.file = "whole" /\ final'.sample = attempt.sample
      PROVE  ShotInv'
  <2>1. Shaped(Idle) /\ Idle.pc = "idle"
    BY NewShapes
  <2>2. RunsShaped' /\ AttemptShaped' /\ HoldsAttempt'
    BY <1>1, <1>5, <2>1, Aside DEF End
  <2>3. QED
    BY <1>1, <1>5, <2>2 DEF ShotInv, ReadOfAttempt, FinalOfAttempt
<1>6. ASSUME NEW r \in Confirmations, LookAround(r)
      PROVE  ShotInv'
  <2>0. UNCHANGED <<attempt, final, read>> /\ conf[r].pc = "look" /\ Shaped(conf[r])
    BY <1>1, <1>6 DEF LookAround, ShotInv, RunsShaped
  <2>1. CASE End(r)
    BY <1>1, <1>5, <2>0, <2>1 DEF ShotInv, FinalOfAttempt
  <2>2. CASE conf' = [conf EXCEPT ![r].pc = "freeze"]
    <3> DEFINE c == [conf[r] EXCEPT !.pc = "freeze"]
    <3>1. conf' = [conf EXCEPT ![r] = c]
      BY <2>2
    <3>2. Shaped(c) /\ c.pc = "freeze"
      BY <2>0, Shapes
    <3> HIDE DEF c
    <3>3. RunsShaped' /\ AttemptShaped' /\ HoldsAttempt'
      BY <1>1, <2>0, <3>1, <3>2, Aside
    <3>4. QED
      BY <1>1, <2>0, <3>3 DEF ShotInv, ReadOfAttempt, FinalOfAttempt
  <2>3. CASE attempt \notin {NoFile, Torn}
             /\ conf' = [conf EXCEPT ![r] = [pc |-> "fetch", sample |-> attempt.sample]]
    <3> DEFINE c == [pc |-> "fetch", sample |-> attempt.sample]
    <3>1. Shaped(c) /\ c.sample = attempt.sample /\ conf' = [conf EXCEPT ![r] = c]
      BY <2>3, NewShapes
    <3>2. attempt.file = "whole"
      BY <1>1, <2>3 DEF ShotInv, AttemptShaped
    <3> HIDE DEF c
    <3>3. RunsShaped' /\ AttemptShaped' /\ HoldsAttempt'
      BY <1>1, <2>0, <3>1, <3>2, Aside
    <3>4. QED
      BY <1>1, <2>0, <3>3 DEF ShotInv, ReadOfAttempt, FinalOfAttempt
  <2>4. QED
    BY <1>6, <2>1, <2>2, <2>3 DEF LookAround
<1>7. ASSUME NEW r \in Confirmations, Freeze(r)
      PROVE  ShotInv'
  <2>1. CASE attempt # NoFile
    BY <1>1, <1>5, <1>7, <2>1 DEF Freeze, ShotInv, FinalOfAttempt
  <2>2. CASE attempt = NoFile
    <3> DEFINE c == [pc |-> "fetch", sample |-> conf[r].sample]
    <3>1. /\ attempt' = Frozen(r) /\ conf' = [conf EXCEPT ![r] = c]
          /\ UNCHANGED <<final, read>>
      BY <1>7, <2>2 DEF Freeze
    <3>2. attempt.file = "none"
      BY <2>2 DEF NoFile
    <3>3. attempt'.file = "whole" /\ attempt'.sample = conf[r].sample
      BY <3>1 DEF Frozen
    <3>4. Shaped(c) /\ c.sample = conf[r].sample /\ c.pc = "fetch"
      BY NewShapes
    <3> HIDE DEF c
    <3>5. /\ conf = [q \in Confirmations |-> conf[q]]
          /\ \A q \in Confirmations : Shaped(conf[q])
      BY <1>1 DEF ShotInv, RunsShaped
    <3>6. conf' = [q \in Confirmations |-> IF q = r THEN c ELSE conf[q]]
      BY <3>1, <3>5
    <3>7. RunsShaped'
      <4>1. conf' = [q \in Confirmations |-> conf'[q]]
        BY <3>6
      <4>2. \A q \in Confirmations : conf'[q] = c \/ conf'[q] = conf[q]
        BY <3>6
      <4>3. QED
        BY <4>1, <4>2, <3>4, <3>5, Zenon DEF RunsShaped
    <3>8. HoldsAttempt'
      BY <1>1, <3>2, <3>3, <3>4, <3>6 DEF ShotInv, HoldsAttempt
    <3>9. AttemptShaped' /\ ReadOfAttempt' /\ FinalOfAttempt'
      BY <1>1, <3>1, <3>2, <3>3 DEF ShotInv, AttemptShaped, ReadOfAttempt, FinalOfAttempt
    <3>10. QED
      BY <3>7, <3>8, <3>9 DEF ShotInv
  <2>3. QED
    BY <2>1, <2>2
<1>8. ASSUME NEW r \in Confirmations, NoExactFee(r)
      PROVE  ShotInv'
  BY <1>1, <1>5, <1>8 DEF NoExactFee, ShotInv, FinalOfAttempt
<1>9. ASSUME NEW r \in Confirmations, conf[r].pc = "fetch"
      PROVE  /\ attempt.file = "whole" /\ conf[r].sample = attempt.sample
             /\ read \cup {conf[r].sample} = {attempt.sample}
  BY <1>1, <1>9 DEF ShotInv, HoldsAttempt, ReadOfAttempt
<1>10. ASSUME NEW r \in Confirmations, Unresolved(r)
       PROVE  ShotInv'
  <2>1. conf[r].pc = "fetch" /\ End(r) /\ UNCHANGED <<attempt, final>>
        /\ read' = read \cup {conf[r].sample}
    BY <1>10 DEF Unresolved
  <2>2. Shaped(Idle) /\ Idle.pc = "idle"
    BY NewShapes
  <2>3. RunsShaped' /\ AttemptShaped' /\ HoldsAttempt'
    BY <1>1, <2>1, <2>2, Aside DEF End
  <2>4. QED
    BY <1>1, <1>9, <2>1, <2>3 DEF ShotInv, ReadOfAttempt, FinalOfAttempt
<1>11. ASSUME NEW r \in Confirmations, Evaluate(r)
       PROVE  ShotInv'
  <2> DEFINE c == [conf[r] EXCEPT !.pc = "final"]
  <2>1. /\ conf[r].pc = "fetch" /\ UNCHANGED <<attempt, final>>
        /\ read' = read \cup {conf[r].sample} /\ conf' = [conf EXCEPT ![r] = c]
        /\ Shaped(conf[r])
    BY <1>1, <1>11 DEF Evaluate, ShotInv, RunsShaped
  <2>2. Shaped(c) /\ c.sample = conf[r].sample
    BY <2>1, Shapes
  <2> HIDE DEF c
  <2>3. RunsShaped' /\ AttemptShaped' /\ HoldsAttempt'
    BY <1>1, <1>9, <2>1, <2>2, Aside
  <2>4. QED
    BY <1>1, <1>9, <2>1, <2>3 DEF ShotInv, ReadOfAttempt, FinalOfAttempt
<1>12. ASSUME NEW r \in Confirmations, Finalize(r)
       PROVE  ShotInv'
  <2>1. attempt.file = "whole" /\ conf[r].sample = attempt.sample
    BY <1>1, <1>12 DEF Finalize, ShotInv, HoldsAttempt
  <2>2. final'.file = "whole" => attempt.file = "whole" /\ final'.sample = attempt.sample
    BY <1>1, <1>12, <2>1 DEF Finalize, ShotInv, FinalOfAttempt
  <2>3. QED
    BY <1>5, <1>12, <2>2 DEF Finalize
<1>13. ASSUME NEW r \in Confirmations, Killed(r)
       PROVE  ShotInv'
  <2>1. final' = final \/ final' = Torn
    BY <1>13 DEF Killed
  <2>2. final'.file = "whole" => attempt.file = "whole" /\ final'.sample = attempt.sample
    BY <1>1, <2>1 DEF ShotInv, FinalOfAttempt, Torn
  <2>3. CASE attempt' = attempt
    BY <1>5, <1>13, <2>2, <2>3 DEF Killed
  <2>4. CASE attempt' # attempt
    <3>1. attempt = NoFile /\ attempt' = Torn /\ End(r) /\ read' = read
      BY <1>13, <2>4 DEF Killed
    <3>2. attempt.file = "none" /\ attempt'.file = "torn"
      BY <3>1 DEF NoFile, Torn
    <3>3. /\ conf = [q \in Confirmations |-> conf[q]]
          /\ \A q \in Confirmations : Shaped(conf[q])
      BY <1>1 DEF ShotInv, RunsShaped
    <3>4. conf' = [q \in Confirmations |-> IF q = r THEN Idle ELSE conf[q]]
      BY <3>1, <3>3 DEF End
    <3>5. Shaped(Idle) /\ Idle.pc = "idle"
      BY NewShapes
    <3>6. RunsShaped'
      <4>1. conf' = [q \in Confirmations |-> conf'[q]]
        BY <3>4
      <4>2. \A q \in Confirmations : conf'[q] = Idle \/ conf'[q] = conf[q]
        BY <3>4
      <4>3. QED
        BY <4>1, <4>2, <3>3, <3>5, Zenon DEF RunsShaped
    <3>7. HoldsAttempt'
      BY <1>1, <3>2, <3>4, <3>5 DEF ShotInv, HoldsAttempt
    <3>8. AttemptShaped' /\ ReadOfAttempt' /\ FinalOfAttempt'
      BY <1>1, <2>2, <3>1, <3>2 DEF ShotInv, AttemptShaped, ReadOfAttempt, FinalOfAttempt
    <3>9. QED
      BY <3>6, <3>7, <3>8 DEF ShotInv
  <2>5. QED
    BY <2>3, <2>4
<1>14. ASSUME NEW r \in Confirmations, Proceed(r)
       PROVE  ShotInv'
  BY <1>6, <1>7, <1>8, <1>10, <1>11, <1>12, <1>14 DEF Proceed
<1>15. QED
  BY <1>1, <1>2, <1>3, <1>4, <1>13, <1>14 DEF SNext, vars

(* One sample: the readings of the outcomes and the verdict are of the     *)
(* frozen attempt (run_single_shot_confirmation), for any number of runs,  *)
(* kills, captures and games.                                              *)
THEOREM OneSampleHolds == SSpec => []OneSample
<1>1. ShotInv => OneSample
  BY DEF ShotInv, ReadOfAttempt, FinalOfAttempt, OneSample
<1>2. QED
  BY ShotInit, ShotStep, <1>1, PTL DEF SSpec

(* The attempt, once created (O_EXCL), is never written again, whoever     *)
(* resumes it, whatever is registered and however the panel grows.         *)
THEOREM AttemptImmutable == SSpec => [][AttemptKept]_vars
BY Kept, PTL DEF SSpec

-----------------------------------------------------------------------------
(* Prices.  A row that is no marker was seen within the deadline of the    *)
(* listing it takes its prices from.                                       *)

GoodRow(row, t) ==
  /\ row \in [event : Events, seen : Nat, start : Nat, quoted : Nat, marker : BOOLEAN]
  /\ row.seen <= t
  /\ ~row.marker => row.quoted <= row.seen /\ row.seen <= row.quoted + Deadline

Fetching(c, t) ==
  /\ c = [pc |-> "fetch", begun |-> c.begun, listing |-> c.listing,
          listedAt |-> c.listedAt, lines |-> c.lines, todo |-> c.todo]
  /\ c.begun \in Nat /\ c.listedAt \in Nat /\ c.begun <= c.listedAt /\ c.listedAt <= t
  /\ c.listing \in [Events -> Nat] /\ c.todo \subseteq Events
  /\ \A row \in c.lines : GoodRow(row, t)

CapInv ==
  \/ cap = Off
  \/ cap = [pc |-> "list", begun |-> cap.begun] /\ cap.begun \in Nat /\ cap.begun <= now
  \/ Fetching(cap, now)

PanelInv ==
  /\ now \in Nat /\ listed \in [Events -> Nat]
  /\ CapInv
  /\ \A row \in raw : GoodRow(row, now)

(* Every nonempty set of numbers with an upper bound has a greatest one.   *)
LEMMA Greatest ==
  ASSUME NEW S \in SUBSET Nat, S # {}, NEW b \in Nat, \A s \in S : s <= b
  PROVE  \E g \in S : \A s \in S : s <= g
<1> DEFINE R == {p \in Nat \X Nat : p[1] < p[2]}
           T == {b - s : s \in S}
<1>1. IsWellFoundedOn(R, Nat)
  BY NatLessThanWellFounded DEF OpToRel
<1>2. T \subseteq Nat /\ T # {}
  <2>1. \A s \in S : b - s \in Nat
    OBVIOUS
  <2>2. QED
    BY <2>1
<1>3. PICK x \in T : \A y \in T : ~(<<y, x>> \in R)
  <2> HIDE DEF R, T
  <2> QED
    BY <1>1, <1>2, WFMin
<1>4. PICK g \in S : x = b - g
  OBVIOUS
<1>5. ASSUME NEW s \in S PROVE s <= g
  <2>1. b - s \in T /\ x \in Nat /\ b - s \in Nat
    BY <1>2, <1>3
  <2>2. <<b - s, x>> \in Nat \X Nat /\ ~(<<b - s, x>> \in R)
    BY <1>3, <2>1
  <2>3. ~(<<b - s, x>>[1] < <<b - s, x>>[2])
    <3> DEFINE q == <<b - s, x>>
    <3>1. q \in Nat \X Nat /\ ~(q \in R)
      BY <2>2
    <3> HIDE DEF q
    <3>2. ~(q[1] < q[2])
      BY <3>1
    <3>3. QED
      BY <3>2 DEF q
  <2>4. QED
    BY <1>4, <2>1, <2>3
<1>6. QED
  BY <1>5

(* The row chosen of a game is one of its rows, and fresh at its clock.    *)
LEMMA SampleFresh ==
  ASSUME PanelInv, NEW row \in Sample
  PROVE  /\ row.quoted <= Clock(row.start)
         /\ Clock(row.start) - row.quoted <= Stale + Deadline
<1>1. PICK e \in Candidates : row = CHOOSE b \in Books(e) : \A other \in Books(e) : Later(b, other)
  BY DEF Sample
<1>2. /\ Books(e) # {}
      /\ \A b \in Books(e) : GoodRow(b, now) /\ ~b.marker /\ Open(b.start, b.seen)
  BY <1>1 DEF Candidates, Books, RowsOf, PanelInv
<1> DEFINE Seen == {b.seen : b \in Books(e)}
<1>3. Seen \in SUBSET Nat /\ Seen # {} /\ now \in Nat /\ \A s \in Seen : s <= now
  BY <1>2 DEF GoodRow, PanelInv
<1>4. PICK g \in Seen : \A s \in Seen : s <= g
  <2> HIDE DEF Seen
  <2> QED
    BY <1>3, Greatest
<1>5. PICK top \in Books(e) : top.seen = g
  OBVIOUS
<1>6. \A other \in Books(e) : Later(top, other)
  <2>1. ASSUME NEW other \in Books(e) PROVE Later(top, other)
    <3>1. other.seen <= top.seen /\ other.seen \in Nat /\ top.seen \in Nat /\ ~other.marker
      BY <1>2, <1>4, <1>5 DEF GoodRow
    <3>2. QED
      BY <3>1 DEF Later
  <2>2. QED
    BY <2>1
<1>7. row \in Books(e)
  BY <1>1, <1>5, <1>6
<1>8. GoodRow(row, now) /\ ~row.marker /\ Open(row.start, row.seen)
  BY <1>2, <1>7
<1>9. row.seen \in Nat /\ row.quoted \in Nat /\ row.start \in Nat
  BY <1>8 DEF GoodRow
<1>10. QED
  BY <1>8, <1>9, PanelAssumption DEF GoodRow, Open, Clock

LEMMA PanelInit == Init => PanelInv
<1>1. SUFFICES ASSUME Init PROVE PanelInv
  OBVIOUS
<1>2. listed \in [Events -> Nat]
  BY <1>1, PanelAssumption DEF Init
<1>3. QED
  BY <1>1, <1>2 DEF Init, PanelInv, CapInv

LEMMA GoodLater ==
  ASSUME NEW t \in Nat, NEW u \in Nat, t <= u
  PROVE  /\ \A row : GoodRow(row, t) => GoodRow(row, u)
         /\ \A c : Fetching(c, t) => Fetching(c, u)
<1>1. ASSUME NEW row, GoodRow(row, t)
      PROVE  GoodRow(row, u)
  <2>1. row.seen \in Nat
    BY <1>1 DEF GoodRow
  <2>2. QED
    BY <1>1, <2>1 DEF GoodRow
<1>2. ASSUME NEW c, Fetching(c, t)
      PROVE  Fetching(c, u)
  <2>1. c.listedAt <= u
    BY <1>2 DEF Fetching
  <2>2. QED
    BY <1>1, <1>2, <2>1 DEF Fetching
<1>3. QED
  BY <1>1, <1>2

LEMMA PanelStep == PanelInv /\ [PanelNext]_<<now, listed, raw, cap>> => PanelInv'
<1>1. SUFFICES ASSUME PanelInv, [PanelNext]_<<now, listed, raw, cap>> PROVE PanelInv'
  OBVIOUS
<1>2. CASE UNCHANGED <<now, listed, raw, cap>>
  BY <1>1, <1>2 DEF PanelInv, CapInv
<1>3. CASE Begin
  BY <1>1, <1>3 DEF Begin, PanelInv, CapInv
<1>4. CASE ListGames
  <2>1. cap.pc = "list" /\ cap.begun \in Nat /\ cap.begun <= now
    BY <1>1, <1>4 DEF ListGames, PanelInv, CapInv, Off, Fetching
  <2>2. ASSUME NEW e \in Events PROVE GoodRow(Marker(e), now)
    BY <1>1, <2>1, <2>2 DEF Marker, GoodRow, PanelInv
  <2> DEFINE lines == {Marker(e) : e \in Moved}
             todo == {e \in Events : Open(listed[e], cap.begun)}
             begun == cap.begun
  <2>3. \A row \in lines : GoodRow(row, now)
    BY <2>2 DEF Moved
  <2>4. cap' = [pc |-> "fetch", begun |-> begun, listing |-> listed, listedAt |-> now,
                lines |-> lines, todo |-> todo]
    BY <1>4 DEF ListGames, Listed
  <2>5. todo \subseteq Events /\ begun \in Nat /\ begun <= now
    BY <2>1
  <2> HIDE DEF lines, todo, begun
  <2>6. Fetching(cap', now)
    BY <1>1, <2>3, <2>4, <2>5 DEF Fetching, PanelInv
  <2>7. QED
    BY <1>1, <1>4, <2>6 DEF ListGames, PanelInv, CapInv
<1>5. ASSUME NEW e \in Events, FetchBook(e)
      PROVE  PanelInv'
  <2>1. Fetching(cap, now) /\ cap.todo # {}
    BY <1>1, <1>5 DEF FetchBook, PanelInv, CapInv, Off
  <2>2. now <= cap.begun + Deadline /\ now \in Nat /\ Deadline \in Nat
    BY <1>1, <1>5, PanelAssumption DEF FetchBook, InTime, PanelInv
  <2>3. now <= cap.listedAt + Deadline /\ cap.listedAt <= now /\ cap.listedAt \in Nat
    BY <2>1, <2>2 DEF Fetching
  <2>4. GoodRow(Book(e, now), now)
    BY <2>1, <2>2, <2>3 DEF GoodRow, Book, Fetching
  <2> DEFINE b == cap.begun  h == cap.listing  a == cap.listedAt
             lines == cap.lines \cup {Book(e, now)}
             todo == cap.todo \ {e}
  <2>5. cap = [pc |-> "fetch", begun |-> b, listing |-> h, listedAt |-> a,
               lines |-> cap.lines, todo |-> cap.todo]
    BY <2>1 DEF Fetching
  <2>6. cap' = [cap EXCEPT !.todo = todo, !.lines = lines]
    BY <1>5 DEF FetchBook
  <2>7. cap' = [pc |-> "fetch", begun |-> b, listing |-> h, listedAt |-> a,
                lines |-> lines, todo |-> todo]
    <3> DEFINE l == cap.lines
               d == cap.todo
    <3>1. cap = [pc |-> "fetch", begun |-> b, listing |-> h, listedAt |-> a,
                 lines |-> l, todo |-> d]
      BY <2>5
    <3> HIDE DEF lines, todo, b, h, a, l, d
    <3>2. QED
      BY <2>6, <3>1
  <2>8. /\ b \in Nat /\ a \in Nat /\ b <= a /\ a <= now
        /\ h \in [Events -> Nat] /\ todo \subseteq Events
        /\ \A row \in lines : GoodRow(row, now)
    BY <2>1, <2>4 DEF Fetching
  <2>9. Fetching(cap', now)
    <3> HIDE DEF lines, todo, b, h, a
    <3> QED
      BY <2>7, <2>8 DEF Fetching
  <2>10. QED
    BY <1>1, <1>5, <2>9 DEF FetchBook, PanelInv, CapInv
<1>6. CASE GiveUp
  <2>1. Fetching(cap, now)
    BY <1>1, <1>6 DEF GiveUp, PanelInv, CapInv, Off
  <2> DEFINE b == cap.begun  h == cap.listing  a == cap.listedAt  lines == cap.lines
  <2>2. cap = [pc |-> "fetch", begun |-> b, listing |-> h, listedAt |-> a,
               lines |-> lines, todo |-> cap.todo]
    BY <2>1 DEF Fetching
  <2>3. cap' = [pc |-> "fetch", begun |-> b, listing |-> h, listedAt |-> a,
                lines |-> lines, todo |-> {}]
    <3> HIDE DEF lines, b, h, a
    <3> QED
      BY <1>6, <2>2 DEF GiveUp
  <2>4. /\ b \in Nat /\ a \in Nat /\ b <= a /\ a <= now /\ h \in [Events -> Nat]
        /\ \A row \in lines : GoodRow(row, now)
    BY <2>1 DEF Fetching
  <2>5. Fetching(cap', now)
    <3> HIDE DEF lines, b, h, a
    <3> QED
      BY <2>3, <2>4 DEF Fetching
  <2>6. QED
    BY <1>1, <1>6, <2>5 DEF GiveUp, PanelInv, CapInv
<1>7. CASE Append
  <2>1. Fetching(cap, now)
    BY <1>1, <1>7 DEF Append, PanelInv, CapInv, Off
  <2>2. raw' \subseteq raw \cup cap.lines
    BY <1>7 DEF Append, Parsed
  <2>3. QED
    BY <1>1, <1>7, <2>1, <2>2 DEF Append, PanelInv, CapInv, Fetching
<1>8. CASE NoListing
  BY <1>1, <1>8 DEF NoListing, PanelInv, CapInv
<1>9. CASE Crash
  BY <1>1, <1>9 DEF Crash, Dies, PanelInv, CapInv
<1>10. CASE TornAppend
  <2>1. Fetching(cap, now)
    BY <1>1, <1>10 DEF TornAppend, PanelInv, CapInv, Off
  <2>2. raw' \subseteq raw \cup cap.lines
    BY <1>10 DEF TornAppend, Parsed
  <2>3. QED
    BY <1>1, <1>10, <2>1, <2>2 DEF TornAppend, Dies, PanelInv, CapInv, Fetching
<1>11. ASSUME NEW e \in Events, Postpone(e)
       PROVE  PanelInv'
  <2>1. listed' \in [Events -> Nat]
    BY <1>1, <1>11, PanelAssumption DEF Postpone, PanelInv
  <2>2. QED
    BY <1>1, <1>11, <2>1 DEF Postpone, PanelInv, CapInv
<1>12. CASE Tick
  <2>1. now \in Nat /\ now' \in Nat /\ now <= now' /\ cap' = cap /\ raw' = raw /\ listed' = listed
    BY <1>1, <1>12 DEF Tick, PanelInv
  <2>2. \A row \in raw : GoodRow(row, now')
    BY <1>1, <2>1, GoodLater DEF PanelInv
  <2>3. Fetching(cap, now) => Fetching(cap, now')
    BY <2>1, GoodLater
  <2>4. CapInv'
    <3>1. CASE cap = Off
      BY <2>1, <3>1 DEF CapInv
    <3>2. CASE cap = [pc |-> "list", begun |-> cap.begun] /\ cap.begun \in Nat /\ cap.begun <= now
      BY <2>1, <3>2 DEF CapInv
    <3>3. CASE Fetching(cap, now)
      BY <2>1, <2>3, <3>3 DEF CapInv
    <3>4. QED
      BY <1>1, <3>1, <3>2, <3>3 DEF PanelInv, CapInv
  <2>5. QED
    BY <1>1, <2>1, <2>2, <2>4 DEF PanelInv
<1>13. QED
  BY <1>1, <1>2, <1>3, <1>4, <1>5, <1>6, <1>7, <1>8, <1>9, <1>10, <1>11, <1>12
     DEF PanelNext, Capture

(* What a run carries to the attempt is as fresh as the attempt must be.   *)
Fresh(rows) ==
  \A row \in rows :
    /\ row.quoted <= Clock(row.start)
    /\ Clock(row.start) - row.quoted <= Stale + Deadline

FreshInv ==
  /\ \A r \in Confirmations : conf[r].pc \in {"look", "freeze"} => Fresh(conf[r].sample)
  /\ PricesAsOf

LEMMA FreshInit == SInit => FreshInv
<1>1. SUFFICES ASSUME SInit PROVE FreshInv
  OBVIOUS
<1>2. attempt.file = "none" /\ Idle.pc = "idle"
  BY <1>1 DEF SInit, NoFile, Idle
<1>3. QED
  BY <1>1, <1>2 DEF SInit, FreshInv, PricesAsOf

LEMMA FreshStep == ShotInv /\ PanelInv /\ FreshInv /\ [SNext]_vars => FreshInv'
<1>1. SUFFICES ASSUME ShotInv, PanelInv, FreshInv, [SNext]_vars PROVE FreshInv'
  OBVIOUS
<1>2. \A r \in Confirmations : Shaped(conf[r])
  BY <1>1 DEF ShotInv, RunsShaped
<1>3. conf = [r \in Confirmations |-> conf[r]]
  BY <1>1 DEF ShotInv, RunsShaped
<1>4. CASE UNCHANGED <<attempt, conf>>
  BY <1>1, <1>4 DEF FreshInv, PricesAsOf, Fresh
<1>5. ASSUME NEW r \in Confirmations, NEW c, conf' = [conf EXCEPT ![r] = c],
             c.pc \in {"look", "freeze"} => Fresh(c.sample),
             attempt' \in {attempt, Torn} \/ Fresh(attempt'.sample)
      PROVE  FreshInv'
  <2>1. conf' = [q \in Confirmations |-> IF q = r THEN c ELSE conf[q]]
    BY <1>3, <1>5
  <2>2. PricesAsOf'
    BY <1>1, <1>5 DEF FreshInv, PricesAsOf, Fresh, Torn
  <2>3. QED
    BY <1>1, <1>5, <2>1, <2>2 DEF FreshInv
<1>6. ASSUME NEW r \in Confirmations, End(r), attempt' \in {attempt, Torn}
      PROVE  FreshInv'
  BY <1>5, <1>6 DEF End, Idle
<1>7. ASSUME NEW r \in Confirmations, Preflight(r)
      PROVE  FreshInv'
  <2> DEFINE s == IF Ready THEN Sample ELSE {}
             h == IF Ready THEN heard ELSE <<>>
             c == [pc |-> "look", contract |-> contract, ready |-> Ready, sample |-> s, heard |-> h]
  <2>1. conf' = [conf EXCEPT ![r] = c] /\ attempt' = attempt
    BY <1>7 DEF Preflight
  <2>2. Fresh(s)
    BY <1>1, SampleFresh DEF Fresh
  <2>3. c.sample = s
    OBVIOUS
  <2> HIDE DEF s, c
  <2>4. QED
    BY <1>5, <2>1, <2>2, <2>3
<1>8. ASSUME NEW r \in Confirmations, LookAround(r)
      PROVE  FreshInv'
  <2>1. conf[r].pc = "look" /\ attempt' = attempt /\ Fresh(conf[r].sample)
    BY <1>1, <1>8 DEF LookAround, FreshInv
  <2>2. CASE End(r)
    BY <1>6, <2>1, <2>2
  <2>3. CASE conf' = [conf EXCEPT ![r].pc = "freeze"]
    <3> DEFINE c == [conf[r] EXCEPT !.pc = "freeze"]
    <3>1. conf' = [conf EXCEPT ![r] = c]
      BY <2>3
    <3>2. c.sample = conf[r].sample
      BY <1>2, <2>1 DEF Shaped, Idle
    <3> HIDE DEF c
    <3>3. QED
      BY <1>5, <2>1, <3>1, <3>2
  <2>4. CASE conf' = [conf EXCEPT ![r] = [pc |-> "fetch", sample |-> attempt.sample]]
    <3> DEFINE c == [pc |-> "fetch", sample |-> attempt.sample]
    <3>1. c.pc = "fetch" /\ conf' = [conf EXCEPT ![r] = c]
      BY <2>4
    <3> HIDE DEF c
    <3>2. QED
      BY <1>5, <2>1, <3>1
  <2>5. QED
    BY <1>8, <2>2, <2>3, <2>4 DEF LookAround
<1>9. ASSUME NEW r \in Confirmations, Freeze(r)
      PROVE  FreshInv'
  <2>1. CASE attempt # NoFile
    BY <1>6, <1>9, <2>1 DEF Freeze
  <2>2. CASE attempt = NoFile
    <3> DEFINE c == [pc |-> "fetch", sample |-> conf[r].sample]
    <3>1. attempt' = Frozen(r) /\ conf' = [conf EXCEPT ![r] = c] /\ Fresh(conf[r].sample)
      BY <1>1, <1>9, <2>2 DEF Freeze, FreshInv
    <3>2. Fresh(attempt'.sample) /\ c.pc = "fetch"
      BY <3>1 DEF Frozen
    <3> HIDE DEF c
    <3>3. QED
      BY <1>5, <3>1, <3>2
  <2>3. QED
    BY <2>1, <2>2
<1>10. ASSUME NEW r \in Confirmations, Evaluate(r)
       PROVE  FreshInv'
  <2> DEFINE c == [conf[r] EXCEPT !.pc = "final"]
  <2>1. conf' = [conf EXCEPT ![r] = c] /\ attempt' = attempt /\ conf[r].pc = "fetch"
    BY <1>10 DEF Evaluate
  <2>2. c.pc = "final"
    BY <1>2, <2>1, Shapes
  <2> HIDE DEF c
  <2>3. QED
    BY <1>5, <2>1, <2>2
<1>11. ASSUME NEW r \in Confirmations, NoExactFee(r) \/ Unresolved(r) \/ Finalize(r) \/ Killed(r)
       PROVE  FreshInv'
  BY <1>6, <1>11 DEF NoExactFee, Unresolved, Finalize, Killed
<1>12. QED
  BY <1>1, <1>4, <1>7, <1>8, <1>9, <1>10, <1>11 DEF SNext, Proceed, Register, vars, shot

(* No price of the frozen sample is later than the decision clock it       *)
(* stands for, nor older than the staleness limit and the deadline of a    *)
(* capture allow (select_frozen_candidate_rows, capture_rows).             *)
THEOREM PricesAsOfHold == SSpec => []PricesAsOf
<1>1. SInit => PanelInv
  BY PanelInit DEF SInit
<1>2. [SNext]_vars => [PanelNext]_<<now, listed, raw, cap>>
  BY DEF SNext, vars, panel, Preflight, Proceed, LookAround, Freeze, NoExactFee, Unresolved,
     Evaluate, Finalize, Killed, Register
<1>3. FreshInv => PricesAsOf
  BY DEF FreshInv
<1>4. QED
  BY ShotInit, ShotStep, PanelStep, FreshInit, FreshStep, <1>1, <1>2, <1>3, PTL DEF SSpec

-----------------------------------------------------------------------------
(* Schedules.  As long as no line was torn, the latest rows of a game tell *)
(* the start that the last listing told: a pass stamps what it sees later  *)
(* than every row there is, and a marker goes before the books.            *)

Latest(rows) == {row \in rows : \A other \in rows : Later(row, other)}
Says(e, start) == \A row \in Latest(RowsOf(e)) : row.start = start

(* Markers bear the stamp of their pass, and no two passes have the same.  *)
StampsInv ==
  /\ last \in Int
  /\ \A row \in raw : row.marker => row.seen <= last
  /\ cap # Off =>
       cap.begun = last /\ \A row \in raw : row.seen <= last /\ (row.marker => row.seen < last)

Announced(e) == \E row \in cap.lines : row.marker /\ row.event = e

(* A pass has a marker for each game whose rows do not say what it lists.  *)
LinesInv ==
  cap.pc = "fetch" =>
    /\ \A row \in cap.lines :
         /\ row.start = cap.listing[row.event] /\ row.seen >= last
         /\ row.marker => row.seen = last
    /\ ending = "whole" =>
         \A e \in Events : RowsOf(e) = {} \/ Says(e, cap.listing[e]) \/ Announced(e)

HeardInv == ending = "whole" => \A e \in Events : RowsOf(e) = {} \/ Says(e, heard[e])

ScheduleInv == StampsInv /\ LinesInv /\ HeardInv /\ heard \in [Events -> Int]

(* Rows there are, there is a latest.                                      *)
LEMMA LatestThere ==
  ASSUME PanelInv, NEW rows \in SUBSET raw, rows # {}
  PROVE  Latest(rows) # {}
<1> DEFINE Seen == {b.seen : b \in rows}
<1>1. \A row \in rows : GoodRow(row, now) /\ row.seen \in Nat /\ row.marker \in BOOLEAN
  BY DEF PanelInv, GoodRow
<1>2. Seen \in SUBSET Nat /\ Seen # {} /\ now \in Nat /\ \A s \in Seen : s <= now
  BY <1>1 DEF GoodRow, PanelInv
<1>3. PICK g \in Seen : \A s \in Seen : s <= g
  <2> HIDE DEF Seen
  <2> QED
    BY <1>2, Greatest
<1>4. CASE \E row \in rows : row.seen = g /\ row.marker
  <2>1. PICK top \in rows : top.seen = g /\ top.marker
    BY <1>4
  <2>2. \A other \in rows : Later(top, other)
    BY <1>1, <1>3, <2>1 DEF Later
  <2>3. QED
    BY <2>1, <2>2 DEF Latest
<1>5. CASE \A row \in rows : row.seen = g => ~row.marker
  <2>1. PICK top \in rows : top.seen = g
    OBVIOUS
  <2>2. \A other \in rows : Later(top, other)
    BY <1>1, <1>3, <1>5, <2>1 DEF Later
  <2>3. QED
    BY <2>1, <2>2 DEF Latest
<1>6. QED
  BY <1>4, <1>5

LEMMA EffectiveSaid ==
  ASSUME PanelInv, NEW e \in Events, RowsOf(e) # {}, NEW s, Says(e, s)
  PROVE  EffectiveStart(e) = s /\ s \in Nat
<1> DEFINE top == CHOOSE row \in RowsOf(e) : \A other \in RowsOf(e) : Later(row, other)
<1>1. RowsOf(e) \in SUBSET raw
  BY DEF RowsOf
<1>2. Latest(RowsOf(e)) # {}
  BY <1>1, LatestThere
<1>3. \E row \in RowsOf(e) : \A other \in RowsOf(e) : Later(row, other)
  BY <1>2 DEF Latest
<1>4. top \in RowsOf(e) /\ \A other \in RowsOf(e) : Later(top, other)
  BY <1>3
<1>5. top \in Latest(RowsOf(e)) /\ EffectiveStart(e) = top.start
  BY <1>4 DEF Latest, EffectiveStart
<1>6. top.start \in Nat
  BY <1>1, <1>4 DEF PanelInv, GoodRow
<1>7. QED
  BY <1>5, <1>6 DEF Says

(* What a pass appends to a file that is whole.  A part of it will do, if  *)
(* the markers are there before any book is.                               *)
LEMMA Appended ==
  ASSUME PanelInv, ScheduleInv, Fetching(cap, now), ending = "whole",
         NEW written \in SUBSET cap.lines, raw' = raw \cup written,
         \A w \in written, m \in cap.lines :
           m.marker /\ m.event = w.event => \E x \in written : x.marker /\ x.event = w.event,
         NEW told, heard' = Hearing(told),
         EventsOf(written) \subseteq told,
         \A e \in told \ EventsOf(written) : ~Announced(e)
  PROVE  \A e \in Events : RowsOf(e)' = {} \/ Says(e, heard[e])'
<1> SUFFICES ASSUME NEW e \in Events, RowsOf(e)' # {}
             PROVE  Says(e, heard[e])'
  OBVIOUS
<1>0. cap.pc = "fetch" /\ cap # Off
  BY DEF Fetching, Off
<1>1. /\ \A row \in raw : row.seen <= last /\ (row.marker => row.seen < last) /\ row.seen \in Int
      /\ \A row \in cap.lines : /\ row.start = cap.listing[row.event] /\ row.seen >= last
                                /\ row.marker => row.seen = last
                                /\ row.seen \in Int /\ row.marker \in BOOLEAN
      /\ last \in Int
  BY <1>0 DEF PanelInv, GoodRow, Fetching, ScheduleInv, StampsInv, LinesInv
<1>2. heard'[e] = IF e \in told THEN cap.listing[e] ELSE heard[e]
  BY DEF Hearing
<1>3. CASE e \in EventsOf(written)
  <2>1. PICK w \in written : w.event = e
    BY <1>3 DEF EventsOf
  <2>2. heard'[e] = cap.listing[e]
    BY <1>2, <1>3
  <2>3. ASSUME NEW a \in Latest(RowsOf(e))' PROVE a.start = cap.listing[e]
    <3>1. /\ a \in raw \/ a \in written
          /\ a.event = e
          /\ \A other \in raw \cup written : other.event = e => Later(a, other)
      BY <2>3 DEF Latest, RowsOf, Later
    <3>2. CASE a \in written
      BY <1>1, <3>1, <3>2
    <3>3. CASE a \in raw
      <4>1. a \in Latest(RowsOf(e))
        BY <3>1, <3>3 DEF Latest, RowsOf
      <4>2. RowsOf(e) = {} \/ Says(e, cap.listing[e]) \/ Announced(e)
        BY <1>0 DEF ScheduleInv, LinesInv
      <4>3. CASE Says(e, cap.listing[e])
        BY <4>1, <4>3 DEF Says
      <4>4. CASE Announced(e)
        <5>1. PICK x \in written : x.marker /\ x.event = e
          BY <2>1, <4>4 DEF Announced
        <5>2. Later(a, x) /\ x.seen = last
          BY <1>1, <3>1, <5>1
        <5>3. QED
          BY <1>1, <3>3, <5>1, <5>2 DEF Later
      <4>5. QED
        BY <3>1, <3>3, <4>2, <4>3, <4>4 DEF RowsOf
    <3>4. QED
      BY <3>1, <3>2, <3>3
  <2>4. QED
    BY <2>2, <2>3 DEF Says
<1>4. CASE e \notin EventsOf(written)
  <2>1. RowsOf(e)' = RowsOf(e)
    BY <1>4 DEF RowsOf, EventsOf
  <2>2. RowsOf(e) # {} /\ \A s : Says(e, s) => \A row \in Latest(RowsOf(e))' : row.start = s
    BY <2>1 DEF Says, Latest, Later
  <2>3. CASE e \in told
    <3>1. Says(e, cap.listing[e])
      BY <1>0, <1>4, <2>2, <2>3 DEF ScheduleInv, LinesInv
    <3>2. QED
      BY <1>2, <2>2, <2>3, <3>1 DEF Says
  <2>4. CASE e \notin told
    <3>1. Says(e, heard[e])
      BY <2>2 DEF ScheduleInv, HeardInv
    <3>2. QED
      BY <1>2, <2>2, <2>4, <3>1 DEF Says
  <2>5. QED
    BY <2>3, <2>4
<1>5. QED
  BY <1>3, <1>4

LEMMA ScheduleInit == SInit => ScheduleInv
<1>1. SUFFICES ASSUME SInit PROVE ScheduleInv
  OBVIOUS
<1>2. Off.pc = "idle" /\ cap = Off /\ raw = {} /\ last = None /\ None \in Int
  BY <1>1 DEF SInit, Init, Off, None
<1>3. heard \in [Events -> Int]
  BY <1>1 DEF SInit, Init, None
<1>4. QED
  BY <1>2, <1>3 DEF ScheduleInv, StampsInv, LinesInv, HeardInv, RowsOf

(* A step that leaves the file and its history alone.                      *)
LEMMA FileKept ==
  ASSUME ScheduleInv, UNCHANGED <<raw, ending, heard>>
  PROVE  /\ HeardInv' /\ heard' \in [Events -> Int]
         /\ \A e : RowsOf(e)' = RowsOf(e) /\ Latest(RowsOf(e))' = Latest(RowsOf(e))
<1>1. \A e : RowsOf(e)' = RowsOf(e) /\ Latest(RowsOf(e))' = Latest(RowsOf(e))
  BY DEF Latest, RowsOf, Later
<1>2. HeardInv'
  BY <1>1 DEF ScheduleInv, HeardInv, Says
<1>3. QED
  BY <1>1, <1>2 DEF ScheduleInv

LEMMA ScheduleListed ==
  ASSUME PanelInv, ScheduleInv, ListGames
  PROVE  ScheduleInv'
<1>1. /\ cap.pc = "list" /\ cap # Off /\ UNCHANGED <<raw, ending, heard, last>>
      /\ cap.begun = last
  BY DEF ListGames, ScheduleInv, StampsInv, Off
<1>2. /\ cap' # Off /\ cap'.begun = last /\ cap'.listing = listed
      /\ cap'.lines = {Marker(e) : e \in Moved}
  BY <1>1 DEF ListGames, Listed, Off
<1>3. StampsInv'
  BY <1>1, <1>2 DEF ScheduleInv, StampsInv
<1>4. \A row \in cap'.lines :
        /\ row.start = cap'.listing[row.event] /\ row.seen >= last'
        /\ row.marker => row.seen = last'
  BY <1>1, <1>2 DEF Marker, Moved, ScheduleInv, StampsInv
<1>5. ASSUME ending = "whole", NEW e \in Events, RowsOf(e) # {}
      PROVE  Says(e, listed[e]) \/ \E row \in cap'.lines : row.marker /\ row.event = e
  <2>1. Says(e, heard[e])
    BY <1>5 DEF ScheduleInv, HeardInv
  <2>2. EffectiveStart(e) = heard[e] /\ heard[e] \in Nat
    BY <1>5, <2>1, EffectiveSaid
  <2>3. CASE e \in Moved
    <3>1. Marker(e) \in cap'.lines /\ Marker(e).marker /\ Marker(e).event = e
      BY <1>2, <2>3 DEF Marker
    <3>2. QED
      BY <3>1
  <2>4. CASE e \notin Moved
    BY <2>1, <2>2, <2>4 DEF Moved, None
  <2>5. QED
    BY <2>3, <2>4
<1>6. LinesInv'
  <2>1. \A e \in Events : RowsOf(e)' = RowsOf(e) /\ Latest(RowsOf(e))' = Latest(RowsOf(e))
    BY <1>1, FileKept
  <2>2. ending' = "whole" =>
          \A e \in Events : RowsOf(e)' = {} \/ Says(e, cap.listing[e])' \/ Announced(e)'
    BY <1>1, <1>2, <1>5, <2>1 DEF Says, Announced
  <2>3. QED
    BY <1>4, <2>2 DEF LinesInv
<1>7. QED
  BY <1>1, <1>3, <1>6, FileKept DEF ScheduleInv

LEMMA ScheduleFetched ==
  ASSUME PanelInv, ScheduleInv, NEW e \in Events, FetchBook(e) \/ GiveUp
  PROVE  ScheduleInv'
<1>1. cap.pc = "fetch" /\ cap # Off /\ Fetching(cap, now) /\ UNCHANGED <<now, raw, ending, heard, last>>
  BY DEF FetchBook, GiveUp, PanelInv, CapInv, Off
<1>2. cap.begun = last /\ last \in Int /\ now \in Nat /\ cap.begun <= now
  BY <1>1 DEF ScheduleInv, StampsInv, Fetching, PanelInv
<1>3. /\ cap'.pc = "fetch" /\ cap'.begun = cap.begun /\ cap'.listing = cap.listing
      /\ cap'.lines \in {cap.lines, cap.lines \cup {Book(e, now)}}
  <2> DEFINE b == cap.begun  h == cap.listing  a == cap.listedAt  l == cap.lines  d == cap.todo
  <2>1. cap = [pc |-> "fetch", begun |-> b, listing |-> h, listedAt |-> a, lines |-> l, todo |-> d]
    BY <1>1 DEF Fetching
  <2>2. CASE GiveUp
    <3>1. cap' = [cap EXCEPT !.todo = {}]
      BY <2>2 DEF GiveUp
    <3> HIDE DEF b, h, a, l, d
    <3>2. QED
      BY <2>1, <3>1
  <2>3. CASE FetchBook(e)
    <3> DEFINE new == Book(e, now)
    <3>1. cap' = [cap EXCEPT !.todo = @ \ {e}, !.lines = @ \cup {new}]
      BY <2>3 DEF FetchBook
    <3> HIDE DEF b, h, a, l, d, new
    <3>2. cap'.pc = "fetch" /\ cap'.begun = cap.begun /\ cap'.listing = cap.listing
          /\ cap'.lines = cap.lines \cup {new}
      BY <2>1, <3>1
    <3>3. QED
      BY <3>2 DEF new
  <2>4. QED
    BY <2>2, <2>3
<1>4. cap' # Off
  BY <1>3 DEF Off
<1>5. StampsInv'
  BY <1>1, <1>2, <1>3, <1>4 DEF ScheduleInv, StampsInv
<1>6. \A row \in cap'.lines :
        /\ row.start = cap'.listing[row.event] /\ row.seen >= last'
        /\ row.marker => row.seen = last'
  BY <1>1, <1>2, <1>3 DEF ScheduleInv, LinesInv, Book
<1>7. \A x \in Events : Announced(x) => Announced(x)'
  BY <1>3 DEF Announced
<1>8. LinesInv'
  <2>1. \A x \in Events : RowsOf(x)' = RowsOf(x) /\ Latest(RowsOf(x))' = Latest(RowsOf(x))
    BY <1>1, FileKept
  <2>2. ending' = "whole" =>
          \A x \in Events : RowsOf(x)' = {} \/ Says(x, cap.listing[x])' \/ Announced(x)'
    BY <1>1, <1>3, <1>7, <2>1 DEF ScheduleInv, LinesInv, Says
  <2>3. QED
    BY <1>6, <2>2 DEF LinesInv
<1>9. QED
  BY <1>1, <1>5, <1>8, FileKept DEF ScheduleInv

LEMMA ScheduleWritten ==
  ASSUME PanelInv, ScheduleInv, Append \/ TornAppend
  PROVE  ScheduleInv'
<1>1. /\ cap.pc = "fetch" /\ cap # Off /\ Fetching(cap, now)
      /\ cap' = Off /\ Off.pc = "idle" /\ last' = last
  BY DEF Append, TornAppend, Dies, PanelInv, CapInv, Off
<1>2. LinesInv'
  BY <1>1 DEF LinesInv
<1>3. heard' \in [Events -> Int]
  <2>1. \A known : Hearing(known) \in [Events -> Int]
    BY <1>1 DEF Hearing, Fetching, ScheduleInv
  <2>2. QED
    BY <2>1 DEF Append, TornAppend
<1>4. raw' \subseteq raw \cup cap.lines
  BY DEF Append, TornAppend, Parsed
<1>5. StampsInv'
  <2>1. /\ last \in Int
        /\ \A row \in raw : row.marker => row.seen < last /\ row.seen \in Int
        /\ \A row \in cap.lines : row.marker => row.seen = last
    BY <1>1 DEF ScheduleInv, StampsInv, LinesInv, PanelInv, GoodRow
  <2>2. QED
    BY <1>1, <1>4, <2>1 DEF StampsInv
<1>6. HeardInv'
  <2> SUFFICES ASSUME ending' = "whole" PROVE \A e \in Events : RowsOf(e)' = {} \/ Says(e, heard[e])'
    BY DEF HeardInv
  <2>1. CASE Append
    <3>1. ending = "whole"
      BY <2>1 DEF Append
    <3>2. raw' = raw \cup cap.lines /\ heard' = Hearing(EventsOf(raw'))
      BY <2>1, <3>1 DEF Append, Parsed
    <3>3. EventsOf(cap.lines) \subseteq EventsOf(raw')
      BY <3>2 DEF EventsOf
    <3>4. \A e \in EventsOf(raw') \ EventsOf(cap.lines) : ~Announced(e)
      BY DEF EventsOf, Announced
    <3>5. QED
      BY <1>1, <3>1, <3>2, <3>3, <3>4, Appended
  <2>2. CASE TornAppend
    <3>1. ending = "whole"
      BY <2>2 DEF TornAppend
    <3>2. PICK written \in SUBSET cap.lines :
            /\ raw' = raw \cup written /\ heard' = Hearing(EventsOf(written))
            /\ (\E w \in written : ~w.marker) => \A l \in cap.lines : l.marker => l \in written
      <4>1. PICK written \in SUBSET cap.lines :
              /\ (\E w \in written : ~w.marker) => \A l \in cap.lines : l.marker => l \in written
              /\ IF written = {} THEN UNCHANGED raw
                 ELSE \E line \in written : raw' = raw \cup Parsed(written, line)
              /\ heard' = Hearing(EventsOf(written))
        BY <2>2 DEF TornAppend
      <4>2. \A line : Parsed(written, line) = written
        BY <3>1 DEF Parsed
      <4>3. raw' = raw \cup written
        BY <4>1, <4>2
      <4>4. QED
        BY <4>1, <4>3
    <3>3. \A w \in written, m \in cap.lines :
            m.marker /\ m.event = w.event => \E x \in written : x.marker /\ x.event = w.event
      BY <3>2
    <3>4. QED
      BY <1>1, <3>1, <3>2, <3>3, Appended
  <2>3. QED
    BY <2>1, <2>2
<1>7. QED
  BY <1>2, <1>3, <1>5, <1>6 DEF ScheduleInv

LEMMA ScheduleStep ==
  PanelInv /\ ScheduleInv /\ [PanelNext]_<<now, listed, raw, ending, cap, heard, last>> => ScheduleInv'
<1>1. SUFFICES ASSUME PanelInv, ScheduleInv,
                      [PanelNext]_<<now, listed, raw, ending, cap, heard, last>>
               PROVE  ScheduleInv'
  OBVIOUS
<1>2. CASE UNCHANGED <<raw, ending, cap, heard, last>>
  <2>1. LinesInv'
    BY <1>1, <1>2, FileKept DEF ScheduleInv, LinesInv, Announced, Says
  <2>2. QED
    BY <1>1, <1>2, <2>1, FileKept DEF ScheduleInv, StampsInv
<1>3. CASE Begin
  <2>1. /\ last < now /\ last' = now /\ cap' = [pc |-> "list", begun |-> now] /\ now \in Nat
        /\ UNCHANGED <<raw, ending, heard>> /\ last \in Int
        /\ \A row \in raw : row.seen \in Nat /\ row.seen <= now /\ (row.marker => row.seen <= last)
    BY <1>1, <1>3 DEF Begin, PanelInv, GoodRow, ScheduleInv, StampsInv
  <2>2. StampsInv' /\ LinesInv'
    BY <2>1 DEF StampsInv, LinesInv
  <2>3. QED
    BY <1>1, <2>1, <2>2, FileKept DEF ScheduleInv
<1>4. CASE NoListing \/ Crash
  <2>1. cap' = Off /\ Off.pc = "idle" /\ UNCHANGED <<raw, ending, heard, last>>
    BY <1>4 DEF NoListing, Crash, Dies, Off
  <2>2. StampsInv' /\ LinesInv'
    BY <1>1, <2>1 DEF StampsInv, LinesInv, ScheduleInv
  <2>3. QED
    BY <1>1, <2>1, <2>2, FileKept DEF ScheduleInv
<1>5. ASSUME NEW e \in Events, FetchBook(e)
      PROVE  ScheduleInv'
  BY <1>1, <1>5, ScheduleFetched
<1>6. CASE GiveUp
  <2>1. Events # {}
    BY <1>1, <1>6 DEF GiveUp, PanelInv, CapInv, Off, Fetching
  <2>2. QED
    BY <1>1, <1>6, <2>1, ScheduleFetched
<1>7. CASE ListGames \/ Append \/ TornAppend
  BY <1>1, <1>7, ScheduleListed, ScheduleWritten
<1>8. CASE Tick \/ \E e \in Events : Postpone(e)
  BY <1>2, <1>8 DEF Tick, Postpone
<1>9. QED
  BY <1>1, <1>2, <1>3, <1>4, <1>5, <1>6, <1>7, <1>8 DEF PanelNext, Capture

(* The sample is taken of a file that is whole.                            *)
LEMMA SampleDated ==
  ASSUME PanelInv, ScheduleInv, RawIntact, NEW row \in Sample
  PROVE  row.start = heard[row.event]
<1>1. PICK e \in Candidates : row = CHOOSE b \in Books(e) : \A other \in Books(e) : Later(b, other)
  BY DEF Sample
<1>2. Books(e) # {} /\ Books(e) \in SUBSET raw /\ e \in Events
  BY <1>1 DEF Candidates, Books, RowsOf
<1>3. Latest(Books(e)) # {}
  BY <1>2, LatestThere
<1>4. \E b \in Books(e) : \A other \in Books(e) : Later(b, other)
  BY <1>3 DEF Latest
<1>5. row \in Books(e)
  BY <1>1, <1>4
<1>6. row.event = e /\ row.start = EffectiveStart(e) /\ RowsOf(e) # {}
  BY <1>5 DEF Books, RowsOf
<1>7. Says(e, heard[e])
  BY <1>2, <1>6 DEF ScheduleInv, HeardInv, RawIntact
<1>8. QED
  BY <1>2, <1>6, <1>7, EffectiveSaid

Dated(rows, told) == \A row \in rows : row.start = told[row.event]

DatedInv ==
  /\ \A r \in Confirmations : conf[r].pc \in {"look", "freeze"} => Dated(conf[r].sample, conf[r].heard)
  /\ FrozenOnSchedule

LEMMA DatedStep ==
  ShotInv /\ PanelInv /\ ScheduleInv /\ DatedInv /\ [SNext]_vars => DatedInv'
<1>1. SUFFICES ASSUME ShotInv, PanelInv, ScheduleInv, DatedInv, [SNext]_vars PROVE DatedInv'
  OBVIOUS
<1>2. \A r \in Confirmations : Shaped(conf[r])
  BY <1>1 DEF ShotInv, RunsShaped
<1>3. conf = [r \in Confirmations |-> conf[r]]
  BY <1>1 DEF ShotInv, RunsShaped
<1>4. CASE UNCHANGED <<attempt, conf>>
  BY <1>1, <1>4 DEF DatedInv, FrozenOnSchedule, Dated
<1>5. ASSUME NEW r \in Confirmations, NEW c, conf' = [conf EXCEPT ![r] = c],
             c.pc \in {"look", "freeze"} => Dated(c.sample, c.heard),
             attempt' \in {attempt, Torn} \/ Dated(attempt'.sample, attempt'.heard)
      PROVE  DatedInv'
  <2>1. conf' = [q \in Confirmations |-> IF q = r THEN c ELSE conf[q]]
    BY <1>3, <1>5
  <2>2. FrozenOnSchedule'
    BY <1>1, <1>5 DEF DatedInv, FrozenOnSchedule, Dated, Torn
  <2>3. QED
    BY <1>1, <1>5, <2>1, <2>2 DEF DatedInv
<1>6. ASSUME NEW r \in Confirmations, End(r), attempt' \in {attempt, Torn}
      PROVE  DatedInv'
  BY <1>5, <1>6 DEF End, Idle
<1>7. ASSUME NEW r \in Confirmations, Preflight(r)
      PROVE  DatedInv'
  <2> DEFINE s == IF Ready THEN Sample ELSE {}
             h == IF Ready THEN heard ELSE <<>>
             c == [pc |-> "look", contract |-> contract, ready |-> Ready, sample |-> s, heard |-> h]
  <2>1. conf' = [conf EXCEPT ![r] = c] /\ attempt' = attempt
    BY <1>7 DEF Preflight
  <2>2. Dated(s, h)
    BY <1>1, SampleDated DEF Dated, Ready
  <2>3. c.sample = s /\ c.heard = h
    OBVIOUS
  <2> HIDE DEF s, h, c
  <2>4. QED
    BY <1>5, <2>1, <2>2, <2>3
<1>8. ASSUME NEW r \in Confirmations, LookAround(r)
      PROVE  DatedInv'
  <2>1. conf[r].pc = "look" /\ attempt' = attempt /\ Dated(conf[r].sample, conf[r].heard)
    BY <1>1, <1>8 DEF LookAround, DatedInv
  <2>2. CASE End(r)
    BY <1>6, <2>1, <2>2
  <2>3. CASE conf' = [conf EXCEPT ![r].pc = "freeze"]
    <3> DEFINE c == [conf[r] EXCEPT !.pc = "freeze"]
    <3>1. conf' = [conf EXCEPT ![r] = c]
      BY <2>3
    <3>2. c.sample = conf[r].sample /\ c.heard = conf[r].heard
      BY <1>2, <2>1 DEF Shaped, Idle
    <3> HIDE DEF c
    <3>3. QED
      BY <1>5, <2>1, <3>1, <3>2
  <2>4. CASE conf' = [conf EXCEPT ![r] = [pc |-> "fetch", sample |-> attempt.sample]]
    <3> DEFINE c == [pc |-> "fetch", sample |-> attempt.sample]
    <3>1. c.pc = "fetch" /\ conf' = [conf EXCEPT ![r] = c]
      BY <2>4
    <3> HIDE DEF c
    <3>2. QED
      BY <1>5, <2>1, <3>1
  <2>5. QED
    BY <1>8, <2>2, <2>3, <2>4 DEF LookAround
<1>9. ASSUME NEW r \in Confirmations, Freeze(r)
      PROVE  DatedInv'
  <2>1. CASE attempt # NoFile
    BY <1>6, <1>9, <2>1 DEF Freeze
  <2>2. CASE attempt = NoFile
    <3> DEFINE c == [pc |-> "fetch", sample |-> conf[r].sample]
    <3>1. attempt' = Frozen(r) /\ conf' = [conf EXCEPT ![r] = c] /\ Dated(conf[r].sample, conf[r].heard)
      BY <1>1, <1>9, <2>2 DEF Freeze, DatedInv
    <3>2. Dated(attempt'.sample, attempt'.heard) /\ c.pc = "fetch"
      BY <3>1 DEF Frozen
    <3> HIDE DEF c
    <3>3. QED
      BY <1>5, <3>1, <3>2
  <2>3. QED
    BY <2>1, <2>2
<1>10. ASSUME NEW r \in Confirmations, Evaluate(r)
       PROVE  DatedInv'
  <2> DEFINE c == [conf[r] EXCEPT !.pc = "final"]
  <2>1. conf' = [conf EXCEPT ![r] = c] /\ attempt' = attempt /\ conf[r].pc = "fetch"
    BY <1>10 DEF Evaluate
  <2>2. c.pc = "final"
    BY <1>2, <2>1, Shapes
  <2> HIDE DEF c
  <2>3. QED
    BY <1>5, <2>1, <2>2
<1>11. ASSUME NEW r \in Confirmations, NoExactFee(r) \/ Unresolved(r) \/ Finalize(r) \/ Killed(r)
       PROVE  DatedInv'
  BY <1>6, <1>11 DEF NoExactFee, Unresolved, Finalize, Killed
<1>12. QED
  BY <1>1, <1>4, <1>7, <1>8, <1>9, <1>10, <1>11 DEF SNext, Proceed, Register, vars, shot

(* However often games are postponed, and whatever captures were cut off,  *)
(* killed or torn: every game of the frozen sample has the start that the  *)
(* last listing told when the sample was taken                             *)
(* (select_frozen_candidate_rows, build_schedule_revision_rows).           *)
THEOREM OnSchedule == SSpec => []FrozenOnSchedule
<1>1. SInit => PanelInv /\ DatedInv
  <2>1. SInit => attempt.file = "none" /\ Idle.pc = "idle"
    BY DEF SInit, NoFile, Idle
  <2>2. QED
    BY <2>1, PanelInit DEF SInit, DatedInv, FrozenOnSchedule
<1>2. [SNext]_vars => [PanelNext]_<<now, listed, raw, ending, cap, heard, last>>
  BY DEF SNext, vars, panel, Preflight, Proceed, LookAround, Freeze, NoExactFee, Unresolved,
     Evaluate, Finalize, Killed, Register
<1>3. [PanelNext]_<<now, listed, raw, ending, cap, heard, last>>
        => [PanelNext]_<<now, listed, raw, cap>>
  OBVIOUS
<1>4. DatedInv => FrozenOnSchedule
  BY DEF DatedInv
<1>5. QED
  BY ShotInit, ShotStep, PanelStep, ScheduleInit, ScheduleStep, DatedStep, <1>1, <1>2, <1>3, <1>4,
     PTL DEF SSpec
=============================================================================
