------------------------ MODULE PaperLifecycleProofs ------------------------
(***************************************************************************)
(* No artifact of the paper lifecycle, written, torn or about to be        *)
(* written, says of a market what the exchange has not said, whatever      *)
(* commands overlap and die.  And while none does, the retirement between  *)
(* the cycles is what the labels say.                                      *)
(***************************************************************************)
EXTENDS PaperLifecycle, TLAPS, FiniteSetTheorems, WellFoundedInduction

(* What justifies that a signal is retired, where the markets in set have  *)
(* settled and the predictions in won came true.                           *)
Backed(s, set, won) ==
  \E c \in set : SignalOf[c] = s /\ (MinRecent <= 1 => c \notin won \ Doubted)

Truthful(f, text, set, won) ==
  /\ f = "snapshot" => \A c \in Contracts : text[c] = "settled" => c \in set
  /\ f = "settlement" => \A c \in Contracts : text[c] = "labelled" => c \in set
  /\ f = "retirement" => \A s \in text : Backed(s, set, won)

TruthfulDraft(d, set, won) ==
  d = NoDraft \/ \E f \in Files : d = <<f, d[2]>> /\ Truthful(f, d[2], set, won)

ExchangeInv ==
  /\ now \in Nat /\ right \subseteq settled /\ settled \subseteq Contracts
  /\ \A c \in settled : CloseOf[c] <= now

FilesTruthful ==
  /\ file = [f \in Files |-> file[f]]
  /\ \A f \in Files : Truthful(f, file[f], settled, right)

DraftsTruthful ==
  /\ draft = [p \in Processes |-> draft[p]]
  /\ \A p \in Processes : TruthfulDraft(draft[p], settled, right)

LifeInv == ExchangeInv /\ FilesTruthful /\ DraftsTruthful

-----------------------------------------------------------------------------
LEMMA ReadTruthful ==
  ASSUME LifeInv, NEW f \in Files
  PROVE  Truthful(f, Read(f), settled, right)
<1>1. Truthful(f, file[f], settled, right)
  BY DEF LifeInv, FilesTruthful
<1>2. Truthful(f, Empty[f], settled, right)
  BY DEF Truthful, Empty, Files
<1>3. QED
  BY <1>1, <1>2 DEF Read

(* Among settled contracts, which have all closed, some closed last. *)
LEMMA LastClosed ==
  ASSUME LifeInv, NEW S \in SUBSET settled, S # {}
  PROVE  \E c \in S : \A d \in S : CloseOf[d] <= CloseOf[c]
<1> DEFINE R == {p \in Nat \X Nat : p[1] < p[2]}
           T == {now - CloseOf[c] : c \in S}
<1>1. IsWellFoundedOn(R, Nat)
  BY NatLessThanWellFounded DEF OpToRel
<1>2. \A c \in S : CloseOf[c] \in Nat /\ now \in Nat /\ CloseOf[c] <= now
  BY ContractAssumption DEF LifeInv, ExchangeInv
<1>3. \A c \in S : now - CloseOf[c] \in Nat
  BY <1>2
<1>4. T \subseteq Nat /\ T # {}
  BY <1>3
<1>5. PICK x \in T : \A y \in T : ~(<<y, x>> \in R)
  <2> HIDE DEF R, T
  <2> QED
    BY <1>1, <1>4, WFMin
<1>6. PICK c \in S : x = now - CloseOf[c]
  OBVIOUS
<1>7. ASSUME NEW d \in S PROVE CloseOf[d] <= CloseOf[c]
  <2> DEFINE y == now - CloseOf[d]
             q == <<y, x>>
  <2>1. y \in T /\ y \in Nat /\ x \in Nat
    BY <1>3, <1>4
  <2>2. q \in Nat \X Nat /\ ~(q \in R)
    <3> HIDE DEF R, T, y
    <3> QED
      BY <1>5, <2>1
  <2>3. ~(q[1] < q[2])
    <3> HIDE DEF q
    <3> QED
      BY <2>2
  <2>4. ~(y < x)
    BY <2>3
  <2>5. QED
    BY <1>2, <1>6, <2>4
<1>8. QED
  BY <1>7

(* Rows that drift have one among them that is too far from its outcome.   *)
LEMMA DriftsOnOne ==
  ASSUME NEW rows \in SUBSET Contracts, Drifts(rows)
  PROVE  \E c \in rows \cap Rated : Error[c] > MaxError
<1> DEFINE R == rows \cap Rated
           B == R \X (1 .. MaxError)
<1>1. SUFFICES ASSUME \A c \in R : ~(Error[c] > MaxError) PROVE FALSE
  OBVIOUS
<1>2. MaxError \in Nat /\ \A c \in Contracts : Error[c] \in Int
  BY ChanceAssumption, PolicyAssumption DEF Error
<1>3. IsFiniteSet(R) /\ Cardinality(R) \in Nat
  <2>1. IsFiniteSet(Contracts)
    BY ContractAssumption, FS_Interval DEF Contracts
  <2>2. R \in SUBSET Contracts
    OBVIOUS
  <2>3. QED
    BY <2>1, <2>2, FS_Subset, FS_CardinalityType
<1>4. IsFiniteSet(1 .. MaxError) /\ Cardinality(1 .. MaxError) = MaxError
  <2>1. IsFiniteSet(1 .. MaxError)
        /\ Cardinality(1 .. MaxError) = IF 1 > MaxError THEN 0 ELSE MaxError - 1 + 1
    BY <1>2, FS_Interval
  <2>2. QED
    BY <1>2, <2>1
<1>5. IsFiniteSet(B) /\ Cardinality(B) = Cardinality(R) * MaxError
  BY <1>3, <1>4, FS_Product
<1>6. Units(R, Error) \subseteq B
  <2>1. ASSUME NEW u \in Units(R, Error) PROVE u \in B
    <3>1. PICK c \in R : u \in {c} \X (1 .. Error[c])
      BY <2>1 DEF Units
    <3>2. Error[c] \in Int /\ Error[c] <= MaxError
      BY <1>1, <1>2, <3>1
    <3>3. 1 .. Error[c] \subseteq 1 .. MaxError
      BY <1>2, <3>2
    <3>4. QED
      BY <3>1, <3>3
  <2>2. QED
    BY <2>1
<1>7. /\ IsFiniteSet(Units(R, Error)) /\ Cardinality(Units(R, Error)) \in Nat
      /\ Cardinality(Units(R, Error)) <= Cardinality(B)
  BY <1>5, <1>6, FS_Subset, FS_CardinalityType
<1>8. Cardinality(R) * MaxError = MaxError * Cardinality(R) /\ MaxError * Cardinality(R) \in Nat
  BY <1>2, <1>3
<1>9. SumOver(R, Error) > MaxError * Cardinality(R)
  BY DEF Drifts
<1>10. QED
  BY <1>5, <1>7, <1>8, <1>9 DEF SumOver

(* A retired signal has a settled contract, and where one recent label is  *)
(* enough, one that went wrong or had been doubted.                        *)
LEMMA RetiredBacked ==
  ASSUME LifeInv, NEW labels \in SUBSET settled, NEW s \in RetiredBy(labels)
  PROVE  Backed(s, settled, right)
<1> DEFINE rows == {c \in labels : SignalOf[c] = s}
<1>1. rows # {} /\ (~DecaySurvives(rows) \/ Drifts(rows))
  BY DEF RetiredBy
<1>2. rows \subseteq settled /\ rows \subseteq Contracts /\ \A c \in rows : SignalOf[c] = s
  BY DEF LifeInv, ExchangeInv
<1> HIDE DEF rows
<1>3. PICK c \in rows : \A d \in rows : CloseOf[d] <= CloseOf[c]
  BY <1>1, <1>2, LastClosed
<1>4. c \in Recent(rows) /\ Recent(rows) \subseteq rows
  BY <1>3 DEF Recent
<1>5. CASE ~(MinRecent <= 1)
  BY <1>2, <1>3, <1>5 DEF Backed
<1>6. CASE MinRecent <= 1 /\ ~DecaySurvives(rows)
  <2>1. IsFiniteSet(Recent(rows)) /\ Cardinality(Recent(rows)) \in Nat
    <3>1. IsFiniteSet(Contracts)
      BY ContractAssumption, FS_Interval DEF Contracts
    <3>2. Recent(rows) \in SUBSET Contracts
      BY <1>2, <1>4
    <3>3. QED
      BY <3>1, <3>2, FS_Subset, FS_CardinalityType
  <2>2. Cardinality(Recent(rows)) # 0
    BY <1>4, <2>1, FS_EmptySet
  <2>3. ASSUME Recent(rows) \subseteq right PROVE FALSE
    <3>1. Recent(rows) \cap right = Recent(rows)
      BY <2>3
    <3>2. Cardinality(Recent(rows)) >= MinRecent
          /\ 2 * Cardinality(Recent(rows) \cap right) >= Cardinality(Recent(rows))
      BY <1>6, <2>1, <2>2, <3>1, PolicyAssumption
    <3>3. QED
      BY <1>6, <3>2 DEF DecaySurvives
  <2>4. PICK d \in Recent(rows) : d \notin right
    BY <2>3
  <2>5. QED
    BY <1>2, <1>4, <2>4 DEF Backed
<1>7. CASE Drifts(rows)
  <2>1. PICK d \in rows \cap Rated : Error[d] > MaxError
    BY <1>2, <1>7, DriftsOnOne
  <2>2. d \notin right \/ d \in Doubted
    BY <1>2, <2>1 DEF Error, Doubted
  <2>3. QED
    BY <1>2, <2>1, <2>2 DEF Backed
<1>8. QED
  BY <1>1, <1>5, <1>6, <1>7

LEMMA LifeInit == Init => LifeInv
<1>1. SUFFICES ASSUME Init PROVE LifeInv
  OBVIOUS
<1>2. file = [f \in Files |-> file[f]]
  BY <1>1 DEF Init, Empty, Files
<1>3. \A f \in Files : Truthful(f, file[f], settled, right)
  BY <1>1 DEF Init, Empty, Files, Truthful
<1>4. QED
  BY <1>1, <1>2, <1>3 DEF Init, LifeInv, ExchangeInv, FilesTruthful, DraftsTruthful,
     TruthfulDraft

(* The draft of one process changes. *)
LEMMA DraftStep ==
  ASSUME LifeInv, NEW p \in Processes, NEW d, TruthfulDraft(d, settled, right),
         draft' = [draft EXCEPT ![p] = d], UNCHANGED <<settled, right>>
  PROVE  DraftsTruthful'
<1>1. draft' = [q \in Processes |-> IF q = p THEN d ELSE draft[q]]
  BY DEF LifeInv, DraftsTruthful
<1>2. draft' = [q \in Processes |-> draft'[q]]
  BY <1>1
<1>3. \A q \in Processes : draft'[q] = d \/ draft'[q] = draft[q]
  BY <1>1
<1>4. \A q \in Processes : TruthfulDraft(draft[q], settled, right)
  BY DEF LifeInv, DraftsTruthful
<1>5. \A q \in Processes : TruthfulDraft(draft'[q], settled, right)
  BY <1>3, <1>4, Zenon
<1>6. QED
  BY <1>2, <1>5 DEF DraftsTruthful

(* A process opens an artifact for a truthful text. *)
LEMMA OpenStep ==
  ASSUME LifeInv, NEW p \in Processes, NEW f \in Files, NEW text,
         Truthful(f, text, settled, right), Open(p, f, text)
  PROVE  LifeInv'
<1> DEFINE d == <<f, text>>
<1>1. draft' = [draft EXCEPT ![p] = d] /\ UNCHANGED <<now, settled, right, file>>
  BY DEF Open, world
<1>2. d = <<f, d[2]>> /\ d[2] = text
  OBVIOUS
<1> HIDE DEF d
<1>3. TruthfulDraft(d, settled, right)
  BY <1>2 DEF TruthfulDraft
<1>4. DraftsTruthful'
  BY <1>1, <1>3, DraftStep
<1>5. QED
  BY <1>1, <1>4 DEF LifeInv, ExchangeInv, FilesTruthful

LEMMA WriteStep ==
  ASSUME LifeInv, NEW p \in Processes, Write(p)
  PROVE  LifeInv'
<1> DEFINE text == draft[p][2]
<1>1. PICK f \in Files : draft[p] = <<f, text>> /\ Truthful(f, text, settled, right)
  BY DEF Write, LifeInv, DraftsTruthful, TruthfulDraft
<1>2. draft[p][1] = f
  BY <1>1
<1>3. /\ file' = [file EXCEPT ![f] = text] /\ draft' = [draft EXCEPT ![p] = NoDraft]
      /\ UNCHANGED <<now, settled, right>>
  BY <1>2 DEF Write, world
<1>4. Truthful(f, text, settled, right)
  BY <1>1
<1> HIDE DEF text
<1>5. file' = [g \in Files |-> IF g = f THEN text ELSE file[g]]
  BY <1>3 DEF LifeInv, FilesTruthful
<1>6. FilesTruthful'
  <2>1. file' = [g \in Files |-> file'[g]]
    BY <1>5
  <2>2. \A g \in Files : Truthful(g, file'[g], settled, right)
    BY <1>4, <1>5 DEF LifeInv, FilesTruthful
  <2>3. QED
    BY <1>3, <2>1, <2>2 DEF FilesTruthful
<1>7. DraftsTruthful'
  BY <1>3, DraftStep DEF TruthfulDraft
<1>8. QED
  BY <1>3, <1>6, <1>7 DEF LifeInv, ExchangeInv

(* The exchange says more, never something else. *)
LEMMA WorldStep ==
  ASSUME LifeInv, now' \in Nat, now <= now', settled \subseteq settled', right \subseteq right',
         right' \subseteq settled', settled' \subseteq Contracts,
         right' \cap settled = right, \A c \in settled' : CloseOf[c] <= now',
         UNCHANGED <<file, draft>>
  PROVE  LifeInv'
<1>1. \A s : Backed(s, settled, right) => Backed(s, settled', right')
  BY DEF Backed
<1>2. \A g, x : Truthful(g, x, settled, right) => Truthful(g, x, settled', right')
  BY <1>1 DEF Truthful
<1>3. \A d : TruthfulDraft(d, settled, right) => TruthfulDraft(d, settled', right')
  BY <1>2 DEF TruthfulDraft
<1>4. QED
  BY <1>2, <1>3 DEF LifeInv, ExchangeInv, FilesTruthful, DraftsTruthful

LEMMA LifeStep == LifeInv /\ [Next]_vars => LifeInv'
<1>1. SUFFICES ASSUME LifeInv, [Next]_vars PROVE LifeInv'
  OBVIOUS
<1>2. CASE UNCHANGED <<now, settled, right, file, draft>>
  BY <1>1, <1>2 DEF LifeInv, ExchangeInv, FilesTruthful, DraftsTruthful
<1>3. ASSUME NEW p \in Processes, Start(p) \/ NothingDue(p)
      PROVE  LifeInv'
  BY <1>2, <1>3 DEF Start, NothingDue, world
<1>4. ASSUME NEW p \in Processes, Decide(p)
      PROVE  LifeInv'
  <2>1. Truthful("decisions", Decided, settled, right) /\ "decisions" \in Files
    BY DEF Truthful, Files
  <2>2. QED
    BY <1>1, <1>4, <2>1, OpenStep DEF Decide
<1>5. ASSUME NEW p \in Processes, Probe(p)
      PROVE  LifeInv'
  <2>1. PICK fetched \in SUBSET DueTickers : Open(p, "snapshot", Probed(fetched))
    BY <1>5 DEF Probe
  <2>2. Truthful("snapshot", Read("snapshot"), settled, right)
    BY <1>1, ReadTruthful DEF Files
  <2>3. Truthful("snapshot", Probed(fetched), settled, right) /\ "snapshot" \in Files
    BY <2>2 DEF Truthful, Probed, Files
  <2>4. QED
    BY <1>1, <2>1, <2>3, OpenStep
<1>6. ASSUME NEW p \in Processes, Reconcile(p)
      PROVE  LifeInv'
  <2>1. Truthful("snapshot", Read("snapshot"), settled, right)
    BY <1>1, ReadTruthful DEF Files
  <2>2. Truthful("settlement", Reconciled, settled, right) /\ "settlement" \in Files
    BY <2>1 DEF Truthful, Reconciled, Files
  <2>3. QED
    BY <1>1, <1>6, <2>2, OpenStep DEF Reconcile
<1>7. ASSUME NEW p \in Processes, Retire(p)
      PROVE  LifeInv'
  <2>1. Labelled \in SUBSET settled
    BY <1>1, ReadTruthful DEF Labelled, Truthful, Files
  <2>2. Truthful("retirement", RetiredSignals, settled, right) /\ "retirement" \in Files
    BY <1>1, <2>1, RetiredBacked DEF RetiredSignals, Truthful, Files
  <2>3. QED
    BY <1>1, <1>7, <2>2, OpenStep DEF Retire
<1>8. ASSUME NEW p \in Processes, RetireByHand(p)
      PROVE  LifeInv'
  <2>1. PICK known \in SUBSET {c \in settled : Read("decisions")[c] # "none"} :
          Open(p, "retirement", RetiredBy(known))
    BY <1>8 DEF RetireByHand
  <2>2. known \in SUBSET settled
    OBVIOUS
  <2>3. Truthful("retirement", RetiredBy(known), settled, right) /\ "retirement" \in Files
    BY <1>1, <2>2, RetiredBacked DEF Truthful, Files
  <2>4. QED
    BY <1>1, <2>1, <2>3, OpenStep
<1>9. ASSUME NEW p \in Processes, Crash(p)
      PROVE  LifeInv'
  <2>1. /\ draft' = [draft EXCEPT ![p] = NoDraft]
        /\ UNCHANGED <<now, settled, right, file>>
    BY <1>9 DEF Crash, world
  <2>2. DraftsTruthful'
    BY <1>1, <2>1, DraftStep DEF TruthfulDraft
  <2>3. QED
    BY <1>1, <2>1, <2>2 DEF LifeInv, ExchangeInv, FilesTruthful
<1>10. CASE Tick
  <2>1. now \in Nat /\ now' = now + 1 /\ UNCHANGED <<settled, right, file, draft>>
    BY <1>1, <1>10 DEF Tick, LifeInv, ExchangeInv
  <2>2. \A c \in settled : CloseOf[c] \in Nat /\ CloseOf[c] <= now
    BY <1>1, ContractAssumption DEF LifeInv, ExchangeInv
  <2>3. now' \in Nat /\ now <= now' /\ \A c \in settled' : CloseOf[c] <= now'
    BY <2>1, <2>2
  <2>4. QED
    BY <1>1, <2>1, <2>3, WorldStep DEF LifeInv, ExchangeInv
<1>11. ASSUME NEW c \in Contracts, MarketSettles(c)
       PROVE  LifeInv'
  <2>1. /\ c \notin settled /\ CloseOf[c] <= now /\ settled' = settled \cup {c}
        /\ right' \in {right, right \cup {c}} /\ UNCHANGED <<now, file, draft>>
    BY <1>11 DEF MarketSettles
  <2>2. now' \in Nat /\ now <= now'
    BY <1>1, <2>1 DEF LifeInv, ExchangeInv
  <2>3. /\ settled \subseteq settled' /\ right \subseteq right' /\ right' \subseteq settled'
        /\ settled' \subseteq Contracts /\ right' \cap settled = right
        /\ \A d \in settled' : CloseOf[d] <= now'
    BY <1>1, <2>1 DEF LifeInv, ExchangeInv
  <2>4. QED
    BY <1>1, <2>1, <2>2, <2>3, WorldStep
<1>12. ASSUME NEW rows, Relist(rows)
       PROVE  LifeInv'
  BY <1>2, <1>12 DEF Relist
<1>13. QED
  BY <1>1, <1>2, <1>3, <1>4, <1>5, <1>6, <1>7, <1>8, <1>9, <1>10, <1>11, <1>12, WriteStep
     DEF Next, Work, vars, world

(* A signal is retired only on a settled contract of its own, and where    *)
(* one recent label is enough only on a prediction that went wrong or had  *)
(* been doubted (build_signal_decay_retirement_ledger over its artifacts). *)
THEOREM RetiredOnEvidenceHolds == Spec => []RetiredOnEvidence
<1>1. LifeInv => RetiredOnEvidence
  <2>1. SUFFICES ASSUME LifeInv PROVE RetiredOnEvidence
    OBVIOUS
  <2>2. Truthful("retirement", Read("retirement"), settled, right)
    BY <2>1, ReadTruthful DEF Files
  <2>3. QED
    BY <2>2 DEF Truthful, Backed, RetiredOnEvidence
<1>2. QED
  BY LifeInit, LifeStep, <1>1, PTL DEF Spec

-----------------------------------------------------------------------------
(* While no command died, overlapped or was run by hand, one process at a  *)
(* time has commands to run, they end with a retirement, and the artifact  *)
(* that does not parse is the one it is writing: a retirement is built     *)
(* from the labels as they still are when it is written.                   *)

Remaining ==
  {<<>>, <<"retire">>, <<"reconcile", "retire">>, <<"decide", "reconcile", "retire">>,
   <<"probe", "reconcile", "retire">>, <<"retire", "probe", "reconcile", "retire">>,
   <<"reconcile", "retire", "probe", "reconcile", "retire">>,
   <<"decide", "reconcile", "retire", "probe", "reconcile", "retire">>}

OneRuns ==
  /\ steps = [p \in Processes |-> steps[p]] /\ draft = [p \in Processes |-> draft[p]]
  /\ \A p, q \in Processes : ~Idle(p) /\ ~Idle(q) => p = q
  /\ \A p \in Processes : steps[p] \in Remaining

OneTorn ==
  /\ \A p \in Processes : draft[p] # NoDraft => ~Idle(p) /\ torn = {draft[p][1]}
  /\ (\A p \in Processes : draft[p] = NoDraft) => torn = {}

VerdictCurrent ==
  /\ \A p \in Processes : draft[p] # NoDraft /\ Head(steps[p]) = "retire" =>
       draft[p] = <<"retirement", RetiredSignals>>
  /\ (\A p \in Processes : Idle(p)) => file["retirement"] = RetiredSignals

Calm == OneRuns /\ OneTorn /\ VerdictCurrent
HonourInv == alone => Calm

-----------------------------------------------------------------------------
LEMMA ShortTails ==
  /\ \A a : Tail(<<a>>) = <<>> /\ Head(<<a>>) = a /\ <<a>> # <<>>
  /\ \A a, b : Tail(<<a, b>>) = <<b>> /\ Head(<<a, b>>) = a /\ <<a, b>> # <<>>
  /\ \A a, b, c : Tail(<<a, b, c>>) = <<b, c>> /\ Head(<<a, b, c>>) = a /\ <<a, b, c>> # <<>>
  /\ \A a, b, c, d : /\ Tail(<<a, b, c, d>>) = <<b, c, d>> /\ Head(<<a, b, c, d>>) = a
                     /\ <<a, b, c, d>> # <<>>
  /\ \A a, b, c, d, e : /\ Tail(<<a, b, c, d, e>>) = <<b, c, d, e>>
                        /\ Head(<<a, b, c, d, e>>) = a /\ <<a, b, c, d, e>> # <<>>
  /\ \A a, b, c, d, e, f : /\ Tail(<<a, b, c, d, e, f>>) = <<b, c, d, e, f>>
                           /\ Head(<<a, b, c, d, e, f>>) = a /\ <<a, b, c, d, e, f>> # <<>>
<1>1. \A a : Tail(<<a>>) = <<>> /\ Head(<<a>>) = a /\ <<a>> # <<>>
  OBVIOUS
<1>2. \A a, b : Tail(<<a, b>>) = <<b>> /\ Head(<<a, b>>) = a /\ <<a, b>> # <<>>
  OBVIOUS
<1>3. \A a, b, c : Tail(<<a, b, c>>) = <<b, c>> /\ Head(<<a, b, c>>) = a /\ <<a, b, c>> # <<>>
  OBVIOUS
<1>4. \A a, b, c, d : /\ Tail(<<a, b, c, d>>) = <<b, c, d>> /\ Head(<<a, b, c, d>>) = a
                      /\ <<a, b, c, d>> # <<>>
  OBVIOUS
<1>5. \A a, b, c, d, e : /\ Tail(<<a, b, c, d, e>>) = <<b, c, d, e>>
                         /\ Head(<<a, b, c, d, e>>) = a /\ <<a, b, c, d, e>> # <<>>
  OBVIOUS
<1>6. \A a, b, c, d, e, f : /\ Tail(<<a, b, c, d, e, f>>) = <<b, c, d, e, f>>
                            /\ Head(<<a, b, c, d, e, f>>) = a /\ <<a, b, c, d, e, f>> # <<>>
  OBVIOUS
<1>7. QED
  BY <1>1, <1>2, <1>3, <1>4, <1>5, <1>6

(* The commands left after one of them; the last is a retirement. *)
LEMMA CommandsLeft ==
  ASSUME NEW s \in Remaining, s # <<>>
  PROVE  /\ Tail(s) \in Remaining
         /\ Tail(s) = <<>> => Head(s) = "retire"
         /\ Head(s) \in {"retire", "reconcile", "decide", "probe"}
<1>1. CASE s = <<"retire">>
  BY <1>1, ShortTails DEF Remaining
<1>2. CASE s = <<"reconcile", "retire">>
  BY <1>2, ShortTails DEF Remaining
<1>3. CASE s = <<"decide", "reconcile", "retire">>
  BY <1>3, ShortTails DEF Remaining
<1>4. CASE s = <<"probe", "reconcile", "retire">>
  BY <1>4, ShortTails DEF Remaining
<1>5. CASE s = <<"retire", "probe", "reconcile", "retire">>
  BY <1>5, ShortTails DEF Remaining
<1>6. CASE s = <<"reconcile", "retire", "probe", "reconcile", "retire">>
  BY <1>6, ShortTails DEF Remaining
<1>7. CASE s = <<"decide", "reconcile", "retire", "probe", "reconcile", "retire">>
  BY <1>7, ShortTails DEF Remaining
<1>8. QED
  BY <1>1, <1>2, <1>3, <1>4, <1>5, <1>6, <1>7 DEF Remaining

LEMMA NoneByHand == \A s \in Remaining : s # <<>> => Head(s) # "retire raw"
<1>1. SUFFICES ASSUME NEW s \in Remaining, s # <<>> PROVE Head(s) # "retire raw"
  OBVIOUS
<1>2. Head(s) \in {"retire", "reconcile", "decide", "probe"}
  BY <1>1, CommandsLeft
<1>3. QED
  BY <1>2

(* The labels and the outcomes behind them decide who is retired; a market *)
(* that settles now has no label yet.                                      *)
LEMMA SameVerdict ==
  ASSUME LifeInv, Read("settlement")' = Read("settlement"), right' \cap settled = right \cap settled
  PROVE  RetiredSignals' = RetiredSignals
<1>1. Labelled' = Labelled /\ Labelled \subseteq settled /\ Labelled \subseteq Contracts
  BY ReadTruthful DEF Labelled, Truthful, Files
<1>2. ASSUME NEW rows \in SUBSET Labelled
      PROVE  (DecaySurvives(rows)' <=> DecaySurvives(rows)) /\ (Drifts(rows)' <=> Drifts(rows))
  <2>1. Recent(rows)' = Recent(rows) /\ Recent(rows) \subseteq settled
    BY <1>1 DEF Recent
  <2>2. Recent(rows)' \cap right' = Recent(rows) \cap right
    BY <2>1
  <2>3. \A c \in rows : Error'[c] = Error[c]
    BY <1>1 DEF Error
  <2>4. Units(rows \cap Rated, Error') = Units(rows \cap Rated, Error)
    BY <2>3 DEF Units
  <2>5. QED
    BY <2>1, <2>2, <2>4 DEF DecaySurvives, Drifts, SumOver
<1>3. \A s : {c \in Labelled : SignalOf[c] = s} \in SUBSET Labelled
  OBVIOUS
<1>4. RetiredBy(Labelled)' = RetiredBy(Labelled)
  BY <1>1, <1>2, <1>3 DEF RetiredBy
<1>5. QED
  BY <1>4 DEF RetiredSignals

LEMMA OthersRest ==
  ASSUME Calm, NEW p \in Processes, ~Idle(p)
  PROVE  \A q \in Processes \ {p} : Idle(q) /\ draft[q] = NoDraft
BY DEF Calm, OneRuns, OneTorn

LEMMA OpenCalm ==
  ASSUME LifeInv, Calm, NEW p \in Processes, NEW step, At(p, step), NEW f, NEW text, Open(p, f, text),
         step = "retire" => f = "retirement" /\ text = RetiredSignals
  PROVE  Calm'
<1>1. ~Idle(p) /\ draft[p] = NoDraft /\ Head(steps[p]) = step
  BY DEF At
<1>2. \A q \in Processes : draft[q] = NoDraft
  BY <1>1, OthersRest
<1>3. torn = {} /\ torn' = {f}
  BY <1>2 DEF Calm, OneTorn, Open
<1>4. UNCHANGED <<settled, right, file, steps>> /\ draft' = [draft EXCEPT ![p] = <<f, text>>]
  BY DEF Open, world
<1>5. draft' = [q \in Processes |-> IF q = p THEN <<f, text>> ELSE NoDraft]
  BY <1>2, <1>4 DEF Calm, OneRuns
<1>6. OneRuns'
  BY <1>4, <1>5 DEF Calm, OneRuns, Idle
<1>7. draft'[p] = <<f, text>> /\ draft'[p] # NoDraft /\ \A q \in Processes \ {p} : draft'[q] = NoDraft
  BY <1>5 DEF NoDraft
<1>8. OneTorn'
  BY <1>1, <1>3, <1>4, <1>7 DEF OneTorn, Idle
<1>9. ASSUME step = "retire"
      PROVE  RetiredSignals' = RetiredSignals
  <2>1. "settlement" \notin torn /\ "settlement" \notin torn'
    BY <1>3, <1>9
  <2>2. Read("settlement")' = Read("settlement")
    BY <1>4, <2>1 DEF Read
  <2>3. QED
    BY <1>4, <2>2, SameVerdict
<1>10. VerdictCurrent'
  BY <1>1, <1>4, <1>7, <1>9 DEF VerdictCurrent, Idle
<1>11. QED
  BY <1>6, <1>8, <1>10 DEF Calm

LEMMA WriteCalm ==
  ASSUME LifeInv, Calm, NEW p \in Processes, Write(p)
  PROVE  Calm'
<1>1. /\ draft[p] # NoDraft /\ ~Idle(p) /\ torn = {draft[p][1]}
      /\ \A q \in Processes \ {p} : Idle(q) /\ draft[q] = NoDraft
  BY OthersRest DEF Write, Calm, OneTorn
<1>2. /\ file' = [file EXCEPT ![draft[p][1]] = draft[p][2]] /\ torn' = {}
      /\ draft' = [draft EXCEPT ![p] = NoDraft] /\ steps' = [steps EXCEPT ![p] = Tail(@)]
      /\ UNCHANGED <<settled, right>>
  BY <1>1 DEF Write, world
<1>3. /\ draft' = [q \in Processes |-> NoDraft]
      /\ steps' = [q \in Processes |-> IF q = p THEN Tail(steps[p]) ELSE <<>>]
  <2>1. \A q \in Processes \ {p} : steps[q] = <<>>
    BY <1>1 DEF Idle
  <2>2. QED
    BY <1>1, <1>2, <2>1 DEF Calm, OneRuns
<1>4. /\ steps[p] # <<>> /\ steps[p] \in Remaining
      /\ Tail(steps[p]) \in Remaining /\ (Tail(steps[p]) = <<>> => Head(steps[p]) = "retire")
  BY <1>1, CommandsLeft DEF Idle, Calm, OneRuns
<1>5. OneRuns'
  <2>1. /\ steps' = [q \in Processes |-> steps'[q]] /\ draft' = [q \in Processes |-> draft'[q]]
    BY <1>3
  <2>2. \A q \in Processes : steps'[q] \in Remaining /\ (steps'[q] # <<>> => q = p)
    BY <1>3, <1>4 DEF Remaining
  <2>3. QED
    BY <2>1, <2>2 DEF OneRuns, Idle
<1>6. OneTorn'
  BY <1>2, <1>3 DEF OneTorn
<1>7. ASSUME \A q \in Processes : steps'[q] = <<>>
      PROVE  file'["retirement"] = RetiredSignals'
  <2>1. Head(steps[p]) = "retire"
    BY <1>3, <1>4, <1>7
  <2>2. draft[p] = <<"retirement", RetiredSignals>>
    BY <1>1, <2>1 DEF Calm, VerdictCurrent
  <2>3. draft[p][1] = "retirement" /\ draft[p][2] = RetiredSignals
    BY <2>2
  <2>4. file' = [g \in Files |-> IF g = "retirement" THEN RetiredSignals ELSE file[g]]
    BY <1>2, <2>3 DEF LifeInv, FilesTruthful
  <2>5. file'["retirement"] = RetiredSignals /\ file'["settlement"] = file["settlement"]
    BY <2>4 DEF Files
  <2>6. "settlement" \notin torn /\ "settlement" \notin torn'
    BY <1>1, <1>2, <2>3
  <2>7. Read("settlement")' = Read("settlement")
    BY <2>5, <2>6 DEF Read
  <2>8. RetiredSignals' = RetiredSignals
    BY <1>2, <2>7, SameVerdict
  <2>9. QED
    BY <2>5, <2>8
<1>8. VerdictCurrent'
  BY <1>3, <1>7 DEF VerdictCurrent, Idle
<1>9. QED
  BY <1>5, <1>6, <1>8 DEF Calm

LEMMA NothingDueCalm ==
  ASSUME LifeInv, Calm, NEW p \in Processes, NothingDue(p)
  PROVE  Calm'
<1>1. /\ ~Idle(p) /\ draft[p] = NoDraft /\ Head(steps[p]) = "probe"
      /\ steps' = [steps EXCEPT ![p] = Tail(@)] /\ UNCHANGED <<settled, right, file, torn, draft>>
  BY DEF NothingDue, At, world
<1>2. \A q \in Processes : draft[q] = NoDraft
  BY <1>1, OthersRest
<1>3. /\ steps[p] # <<>> /\ steps[p] \in Remaining
      /\ Tail(steps[p]) \in Remaining /\ Tail(steps[p]) # <<>>
  BY <1>1, CommandsLeft DEF Idle, Calm, OneRuns
<1>4. steps' = [q \in Processes |-> IF q = p THEN Tail(steps[p]) ELSE <<>>]
  <2>1. \A q \in Processes \ {p} : steps[q] = <<>>
    BY <1>1, OthersRest DEF Idle
  <2>2. QED
    BY <1>1, <2>1 DEF Calm, OneRuns
<1>5. OneRuns'
  <2>1. /\ steps' = [q \in Processes |-> steps'[q]] /\ draft' = [q \in Processes |-> draft'[q]]
    BY <1>1, <1>4 DEF Calm, OneRuns
  <2>2. \A q \in Processes : steps'[q] \in Remaining /\ (steps'[q] # <<>> => q = p)
    BY <1>3, <1>4 DEF Remaining
  <2>3. QED
    BY <2>1, <2>2 DEF OneRuns, Idle
<1>6. steps'[p] # <<>>
  BY <1>3, <1>4
<1>7. QED
  BY <1>1, <1>2, <1>5, <1>6 DEF Calm, OneTorn, VerdictCurrent, Idle

LEMMA StartCalm ==
  ASSUME LifeInv, Calm, NEW p \in Processes, Start(p), p # ByHand, \A q \in Processes : Idle(q)
  PROVE  Calm'
<1>1. \A q \in Processes : draft[q] = NoDraft /\ steps[q] = <<>>
  BY DEF Calm, OneTorn, Idle
<1>2. /\ steps' = [steps EXCEPT ![p] = Program[p]]
      /\ UNCHANGED <<settled, right, file, torn, draft>>
  BY DEF Start, world
<1>3. Program[p] \in Remaining /\ Program[p] # <<>>
  <2>1. CASE p = Evidence
    <3>1. Program[p] = <<"decide", "reconcile", "retire">>
      BY <2>1 DEF Program, Processes, Evidence, BurnIn, ByHand
    <3>2. QED
      BY <3>1, ShortTails DEF Remaining
  <2>2. CASE p = BurnIn
    <3>1. Program[p] = <<"decide", "reconcile", "retire", "probe", "reconcile", "retire">>
      BY <2>2 DEF Program, Processes, Evidence, BurnIn
    <3>2. QED
      BY <3>1, ShortTails DEF Remaining
  <2>3. QED
    BY <2>1, <2>2 DEF Processes
<1>4. steps' = [q \in Processes |-> IF q = p THEN Program[p] ELSE <<>>]
  BY <1>1, <1>2 DEF Calm, OneRuns
<1>5. OneRuns'
  <2>1. /\ steps' = [q \in Processes |-> steps'[q]] /\ draft' = [q \in Processes |-> draft'[q]]
    BY <1>2, <1>4 DEF Calm, OneRuns
  <2>2. \A q \in Processes : steps'[q] \in Remaining /\ (steps'[q] # <<>> => q = p)
    BY <1>3, <1>4 DEF Remaining
  <2>3. QED
    BY <2>1, <2>2 DEF OneRuns, Idle
<1>6. steps'[p] # <<>>
  BY <1>3, <1>4
<1>7. QED
  BY <1>1, <1>2, <1>5, <1>6 DEF Calm, OneTorn, VerdictCurrent, Idle

(* The world goes on, and tells nothing else of what has settled. *)
LEMMA WorldCalm ==
  ASSUME LifeInv, Calm, right' \cap settled = right \cap settled, UNCHANGED <<file, torn, steps, draft>>
  PROVE  Calm'
<1>1. Read("settlement")' = Read("settlement")
  BY DEF Read
<1>2. RetiredSignals' = RetiredSignals
  BY <1>1, SameVerdict
<1>3. QED
  BY <1>2 DEF Calm, OneRuns, OneTorn, VerdictCurrent, Idle

LEMMA HonourInit == Init => HonourInv
<1>1. SUFFICES ASSUME Init PROVE Calm
  BY DEF HonourInv
<1>2. OneRuns /\ OneTorn
  BY <1>1 DEF Init, OneRuns, OneTorn, Idle, Remaining
<1>3. RetiredSignals = {}
  <2>1. Labelled = {}
    BY <1>1 DEF Init, Labelled, Read, Empty
  <2>2. QED
    BY <2>1 DEF RetiredSignals, RetiredBy
<1>4. VerdictCurrent
  BY <1>1, <1>3 DEF Init, VerdictCurrent, Empty
<1>5. QED
  BY <1>2, <1>4 DEF Calm

LEMMA HonourStep == LifeInv /\ HonourInv /\ [Next]_vars => HonourInv'
<1>1. SUFFICES ASSUME LifeInv, HonourInv, [Next]_vars, alone' PROVE Calm'
  BY DEF HonourInv
<1>2. CASE UNCHANGED vars
  <2>1. alone /\ right' = right /\ UNCHANGED <<file, torn, steps, draft>>
    BY <1>1, <1>2 DEF vars
  <2>2. QED
    BY <1>1, <2>1, WorldCalm DEF HonourInv
<1>3. ASSUME NEW p \in Processes, Start(p) PROVE Calm'
  <2>1. alone /\ p # ByHand /\ \A q \in Processes : Idle(q)
    BY <1>1, <1>3 DEF Start
  <2>2. QED
    BY <1>1, <1>3, <2>1, StartCalm DEF HonourInv
<1>4. ASSUME NEW p \in Processes, Work(p) PROVE Calm'
  <2>1. alone
    BY <1>1, <1>4 DEF Work, Decide, Probe, NothingDue, Reconcile, Retire, RetireByHand, Write, Open
  <2>2. Calm
    BY <1>1, <2>1 DEF HonourInv
  <2>3. CASE Decide(p)
    <3>1. At(p, "decide") /\ Open(p, "decisions", Decided) /\ "decide" # "retire"
      BY <2>3 DEF Decide
    <3>2. QED
      BY <1>1, <2>2, <3>1, OpenCalm
  <2>4. CASE Probe(p)
    <3>1. PICK fetched : Open(p, "snapshot", Probed(fetched))
      BY <2>4 DEF Probe
    <3>2. At(p, "probe") /\ "probe" # "retire"
      BY <2>4 DEF Probe
    <3>3. QED
      BY <1>1, <2>2, <3>1, <3>2, OpenCalm
  <2>5. CASE NothingDue(p)
    BY <1>1, <2>2, <2>5, NothingDueCalm
  <2>6. CASE Reconcile(p)
    <3>1. At(p, "reconcile") /\ Open(p, "settlement", Reconciled) /\ "reconcile" # "retire"
      BY <2>6 DEF Reconcile
    <3>2. QED
      BY <1>1, <2>2, <3>1, OpenCalm
  <2>7. CASE Retire(p)
    <3>1. At(p, "retire") /\ Open(p, "retirement", RetiredSignals)
      BY <2>7 DEF Retire
    <3>2. QED
      BY <1>1, <2>2, <3>1, OpenCalm
  <2>8. CASE RetireByHand(p)
    <3>1. steps[p] \in Remaining /\ steps[p] # <<>> /\ Head(steps[p]) = "retire raw"
      BY <2>2, <2>8 DEF RetireByHand, At, Idle, Calm, OneRuns
    <3>2. QED
      BY <3>1, NoneByHand
  <2>9. CASE Write(p)
    BY <1>1, <2>2, <2>9, WriteCalm
  <2>10. QED
    BY <1>4, <2>3, <2>4, <2>5, <2>6, <2>7, <2>8, <2>9 DEF Work
<1>5. ASSUME NEW p \in Processes, Crash(p) PROVE Calm'
  BY <1>1, <1>5 DEF Crash
<1>6. CASE Tick \/ (\E c \in Contracts : MarketSettles(c)) \/ (\E rows \in SUBSET Contracts : Relist(rows))
  <2>1. /\ alone /\ UNCHANGED <<file, torn, steps, draft>>
        /\ right' = right \/ \E c : c \notin settled /\ right' = right \cup {c}
    BY <1>1, <1>6 DEF Tick, MarketSettles, Relist
  <2>2. right' \cap settled = right \cap settled
    BY <2>1
  <2>3. QED
    BY <1>1, <2>1, <2>2, WorldCalm DEF HonourInv
<1>7. QED
  BY <1>1, <1>2, <1>3, <1>4, <1>5, <1>6 DEF Next

(* No row of a signal is admitted between the cycles whose settled rows    *)
(* speak against it: the retirement the live engine reads was built from   *)
(* the labels as they are (the burn-in and evidence cycles), whatever       *)
(* settles meanwhile, unless a command died, overlapped or was by hand.    *)
THEOREM RetirementHonoured == Spec => []LiveHonoursEvidence
<1>1. ASSUME HonourInv PROVE LiveHonoursEvidence
  <2>1. SUFFICES ASSUME alone, \A p \in Processes : Idle(p), NEW c \in LiveAdmits
                 PROVE  SignalOf[c] \notin RetiredSignals
    BY DEF LiveHonoursEvidence
  <2>2. Calm
    BY <1>1, <2>1 DEF HonourInv
  <2>3. \A p \in Processes : draft[p] = NoDraft
    BY <2>1, <2>2 DEF Calm, OneTorn
  <2>4. torn = {} /\ file["retirement"] = RetiredSignals
    BY <2>1, <2>2, <2>3 DEF Calm, OneTorn, VerdictCurrent
  <2>5. QED
    BY <2>1, <2>4 DEF LiveAdmits, Read
<1>2. QED
  BY LifeInit, LifeStep, HonourInit, HonourStep, <1>1, PTL DEF Spec
=============================================================================
