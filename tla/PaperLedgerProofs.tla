-------------------------- MODULE PaperLedgerProofs -------------------------
(***************************************************************************)
(* One process at a time is connected to the DuckDB store, and the pairs   *)
(* it counted when it ranked its report stay a superset of what is open    *)
(* there until it has written its drafts.  Then: who may still settle a    *)
(* row, which events nobody is about to write, and, with the laws of sums, *)
(* how much what is open and what may still be opened come to.  Last, by   *)
(* the same laws, what the portfolio caps leave of a basket (PortfolioCaps).*)
(***************************************************************************)
EXTENDS PaperLedger, PortfolioCaps, TLAPS, SequenceTheorems, FiniteSetTheorems,
  WellFoundedInduction

IsSequence(s) == s \in Seq({s[i] : i \in DOMAIN s})

Shaped(row) ==
  row = [status |-> row.status, store |-> row.store, market |-> row.market,
         side |-> row.side, stake |-> row.stake]

Same(a, b) == a.market = b.market /\ a.side = b.side
IsOpen(row) == row.store = "duckdb" /\ row.status = "PAPER_INTENDED"

(* No draft of ds has the market and side of an open row of rs. *)
Apart(ds, rs) ==
  \A i \in DOMAIN rs, k \in DOMAIN ds : IsOpen(rs[i]) => ~Same(rs[i], ds[k])

Counted(ps, s) == \A k \in DOMAIN s : <<s[k].market, s[k].side>> \in ps
CountedOpen(ps, rs) ==
  \A i \in DOMAIN rs : IsOpen(rs[i]) => <<rs[i].market, rs[i].side>> \in ps

(* A cycle that is connected to store, is at p, has counted the pairs ps   *)
(* and drafted ds, over the rows rs.                                       *)
DraftsOf(store, ds) ==
  IsSequence(ds) /\ \A k \in DOMAIN ds : Shaped(ds[k]) /\ ds[k].store = store

InDuck(p, ps, ds, rs) ==
  /\ \A k, l \in DOMAIN ds : Same(ds[k], ds[l]) => k = l
  /\ p = "build" => CountedOpen(ps, rs) /\ Counted(ps, ds)
  /\ p \in {"build", "intend", "intend event"} => Apart(ds, rs)

CycleOK(store, p, ps, ds, rs) ==
  /\ DraftsOf(store, ds)
  /\ p \in {"start", "rank"} => ds = <<>>
  /\ store = "duckdb" => InDuck(p, ps, ds, rs)

OneInside ==
  /\ conn \in [Processes -> Stores \cup {"none"}]
  /\ \A p, q \in Processes : conn[p] = "duckdb" /\ conn[q] = "duckdb" => p = q

RowsShaped == IsSequence(rows) /\ \A i \in DOMAIN rows : Shaped(rows[i])

CyclesInv ==
  /\ pc = [c \in Cycles |-> pc[c]]
  /\ pairs = [c \in Cycles |-> pairs[c]]
  /\ drafts = [c \in Cycles |-> drafts[c]]
  /\ \A c \in Cycles : CycleOK(conn[c], pc[c], pairs[c], drafts[c], rows)

LedgerInv == OneInside /\ RowsShaped /\ CyclesInv /\ NoDuplicateOpen

-----------------------------------------------------------------------------
(* Sequences. *)

LEMMA Lengths ==
  ASSUME NEW s, IsSequence(s)
  PROVE  Len(s) \in Nat /\ DOMAIN s = 1 .. Len(s)
BY LenProperties DEF IsSequence

LEMMA Empties == IsSequence(<<>>) /\ DOMAIN <<>> = {}
BY EmptySeq DEF IsSequence

LEMMA Appending ==
  ASSUME NEW s, IsSequence(s), NEW x
  PROVE  /\ IsSequence(Append(s, x))
         /\ DOMAIN Append(s, x) = 1 .. Len(s) + 1
         /\ \A i \in DOMAIN s : Append(s, x)[i] = s[i]
         /\ Append(s, x)[Len(s) + 1] = x
<1> DEFINE S == {s[i] : i \in DOMAIN s}
           t == Append(s, x)
<1>1. s \in Seq(S \cup {x})
  BY SeqMonotonic DEF IsSequence
<1>2. Len(s) \in Nat /\ DOMAIN s = 1 .. Len(s)
  BY Lengths
<1>3. /\ t \in Seq(S \cup {x}) /\ Len(t) = Len(s) + 1
      /\ \A i \in 1 .. Len(s) : t[i] = s[i]
      /\ t[Len(s) + 1] = x
  <2> HIDE DEF S
  <2> QED
    BY <1>1, AppendProperties
<1>4. DOMAIN t = 1 .. Len(s) + 1
  <2> HIDE DEF S
  <2> QED
    BY <1>3, LenProperties
<1>5. S \cup {x} = {t[i] : i \in DOMAIN t}
  <2>1. \A i \in 1 .. Len(s) + 1 : i \in 1 .. Len(s) \/ i = Len(s) + 1
    BY <1>2
  <2>2. \A i \in 1 .. Len(s) : i \in 1 .. Len(s) + 1
    BY <1>2
  <2>3. Len(s) + 1 \in 1 .. Len(s) + 1
    BY <1>2
  <2> HIDE DEF t
  <2>4. QED
    BY <1>2, <1>3, <1>4, <2>1, <2>2, <2>3
<1>6. QED
  BY <1>2, <1>3, <1>4, <1>5 DEF IsSequence

LEMMA Tails ==
  ASSUME NEW s, IsSequence(s), s # <<>>
  PROVE  /\ IsSequence(Tail(s))
         /\ 1 \in DOMAIN s /\ Head(s) = s[1]
         /\ \A i \in DOMAIN Tail(s) : i # 0 /\ i + 1 # 1 /\ i + 1 \in DOMAIN s /\ Tail(s)[i] = s[i + 1]
         /\ \A i, k \in DOMAIN Tail(s) : i + 1 = k + 1 => i = k
<1> DEFINE S == {s[i] : i \in DOMAIN s}
           t == Tail(s)
<1>1. s \in Seq(S)
  BY DEF IsSequence
<1>2. Len(s) \in Nat \ {0} /\ DOMAIN s = 1 .. Len(s)
  <2>1. Len(s) \in Nat \ {0}
    <3> HIDE DEF S
    <3> QED
      BY <1>1, EmptySeq
  <2>2. QED
    BY <2>1, Lengths
<1>3. t \in Seq(S) /\ Len(t) = Len(s) - 1 /\ \A i \in 1 .. Len(t) : t[i] = s[i + 1]
  <2> HIDE DEF S
  <2> QED
    BY <1>1, HeadTailProperties
<1>4. DOMAIN t = 1 .. Len(t) /\ Len(t) \in Nat
  <2> HIDE DEF S
  <2> QED
    BY <1>3, LenProperties
<1>5. t \in Seq({t[i] : i \in DOMAIN t})
  <2> HIDE DEF t
  <2>1. t \in [1 .. Len(t) -> {t[i] : i \in DOMAIN t}]
    <3>1. t = [i \in 1 .. Len(t) |-> t[i]]
      BY <1>3, <1>4, LenProperties
    <3>2. QED
      BY <1>4, <3>1
  <2>2. QED
    BY <1>4, <2>1
<1>6. \A i \in DOMAIN t : i # 0 /\ i + 1 # 1 /\ i + 1 \in DOMAIN s /\ t[i] = s[i + 1]
  <2> HIDE DEF t
  <2> QED
    BY <1>2, <1>3, <1>4
<1>7. \A i, k \in DOMAIN t : i + 1 = k + 1 => i = k
  <2> HIDE DEF t
  <2> QED
    BY <1>4
<1>8. Head(s) = s[1] /\ 1 \in DOMAIN s
  BY <1>2
<1>9. QED
  BY <1>5, <1>6, <1>7, <1>8 DEF IsSequence

-----------------------------------------------------------------------------
(* A change of the rows that opens nothing in DuckDB. *)
Fewer(new, old) ==
  \A i \in DOMAIN new :
    IsOpen(new[i]) => i \in DOMAIN old /\ IsOpen(old[i]) /\ Same(old[i], new[i])

LEMMA FewerRows ==
  ASSUME NEW store, NEW p, NEW ps, NEW ds, NEW old, NEW new,
         CycleOK(store, p, ps, ds, old), Fewer(new, old)
  PROVE  CycleOK(store, p, ps, ds, new)
<1>1. Apart(ds, old) => Apart(ds, new)
  BY DEF Apart, Fewer, Same
<1>2. CountedOpen(ps, old) => CountedOpen(ps, new)
  BY DEF CountedOpen, Fewer, Same
<1>3. QED
  BY <1>1, <1>2 DEF CycleOK, InDuck

(* One cycle goes on. *)
LEMMA OneCycle ==
  ASSUME LedgerInv, NEW c \in Cycles, NEW store, NEW p, NEW ps, NEW ds,
         conn' = [conn EXCEPT ![c] = store], pc' = [pc EXCEPT ![c] = p],
         pairs' = [pairs EXCEPT ![c] = ps], drafts' = [drafts EXCEPT ![c] = ds],
         CycleOK(store, p, ps, ds, rows'),
         \A e \in Cycles \ {c} : CycleOK(conn[e], pc[e], pairs[e], drafts[e], rows')
  PROVE  CyclesInv'
<1>1. /\ pc' = [e \in Cycles |-> IF e = c THEN p ELSE pc[e]]
      /\ pairs' = [e \in Cycles |-> IF e = c THEN ps ELSE pairs[e]]
      /\ drafts' = [e \in Cycles |-> IF e = c THEN ds ELSE drafts[e]]
  BY DEF LedgerInv, CyclesInv
<1>2. conn' = [q \in Processes |-> IF q = c THEN store ELSE conn[q]]
  BY DEF LedgerInv, OneInside
<1>3. /\ pc' = [e \in Cycles |-> pc'[e]] /\ pairs' = [e \in Cycles |-> pairs'[e]]
      /\ drafts' = [e \in Cycles |-> drafts'[e]]
  BY <1>1
<1>4. ASSUME NEW e \in Cycles
      PROVE  CycleOK(conn'[e], pc'[e], pairs'[e], drafts'[e], rows')
  <2>1. e \in Processes
    BY DEF Processes
  <2>2. CASE e = c
    <3>1. conn'[e] = store /\ pc'[e] = p /\ pairs'[e] = ps /\ drafts'[e] = ds
      BY <1>1, <1>2, <2>1, <2>2
    <3>2. QED
      BY <3>1
  <2>3. CASE e # c
    <3>1. /\ conn'[e] = conn[e] /\ pc'[e] = pc[e] /\ pairs'[e] = pairs[e]
          /\ drafts'[e] = drafts[e]
      BY <1>1, <1>2, <2>1, <2>3
    <3>2. CycleOK(conn[e], pc[e], pairs[e], drafts[e], rows')
      BY <2>3
    <3>3. QED
      BY <3>1, <3>2
  <2>4. QED
    BY <2>2, <2>3
<1>5. QED
  BY <1>3, <1>4 DEF CyclesInv

LEMMA NoChange ==
  ASSUME LedgerInv, NEW c \in Cycles
  PROVE  /\ conn = [conn EXCEPT ![c] = conn[c]] /\ pc = [pc EXCEPT ![c] = pc[c]]
         /\ pairs = [pairs EXCEPT ![c] = pairs[c]] /\ drafts = [drafts EXCEPT ![c] = drafts[c]]
         /\ CycleOK(conn[c], pc[c], pairs[c], drafts[c], rows)
BY DEF LedgerInv, OneInside, CyclesInv

(* The rows change and open nothing in DuckDB. *)
LEMMA RowsStep ==
  ASSUME LedgerInv, RowsShaped', Fewer(rows', rows)
  PROVE  NoDuplicateOpen'
<1>1. ASSUME NEW i \in Open("duckdb")', NEW j \in Open("duckdb")',
             rows'[i].market = rows'[j].market, rows'[i].side = rows'[j].side
      PROVE  i = j
  <2>1. /\ i \in Open("duckdb") /\ j \in Open("duckdb")
        /\ rows[i].market = rows[j].market /\ rows[i].side = rows[j].side
    BY <1>1 DEF Open, Fewer, IsOpen, Same
  <2>2. QED
    BY <2>1 DEF LedgerInv, NoDuplicateOpen
<1>2. QED
  BY <1>1 DEF NoDuplicateOpen

LEMMA LedgerInit == Init => LedgerInv
<1>1. SUFFICES ASSUME Init PROVE LedgerInv
  OBVIOUS
<1>2. OneInside
  BY <1>1 DEF Init, OneInside
<1>3. RowsShaped /\ NoDuplicateOpen
  BY <1>1, Empties DEF Init, RowsShaped, NoDuplicateOpen, Open
<1>4. ASSUME NEW c \in Cycles
      PROVE  CycleOK(conn[c], pc[c], pairs[c], drafts[c], rows)
  <2>1. conn[c] = "none" /\ drafts[c] = <<>>
    BY <1>1 DEF Init, Processes
  <2>2. QED
    BY <2>1, Empties DEF CycleOK, DraftsOf
<1>5. CyclesInv
  BY <1>1, <1>4 DEF Init, CyclesInv
<1>6. QED
  BY <1>2, <1>3, <1>5 DEF LedgerInv

-----------------------------------------------------------------------------
(* The steps. *)

(* A process connects, or its connection ends. *)
LEMMA ConnStep ==
  ASSUME LedgerInv, NEW p \in Processes, NEW store \in {StoreFor, "none", conn[p]},
         conn' = [conn EXCEPT ![p] = store]
  PROVE  OneInside'
<1>1. store \in Stores \cup {"none"}
  BY DEF StoreFor, Stores, LedgerInv, OneInside
<1>2. conn' = [q \in Processes |-> IF q = p THEN store ELSE conn[q]]
  BY DEF LedgerInv, OneInside
<1>3. store = "duckdb" => Free \/ conn[p] = "duckdb"
  BY DEF StoreFor
<1>4. QED
  BY <1>1, <1>2, <1>3 DEF LedgerInv, OneInside, Free

LEMMA ConnectStep ==
  ASSUME LedgerInv, NEW c \in Cycles, Connect(c)
  PROVE  LedgerInv'
<1>1. /\ conn' = [conn EXCEPT ![c] = StoreFor] /\ pc' = [pc EXCEPT ![c] = "rank"]
      /\ pc[c] = "start" /\ UNCHANGED <<pairs, drafts, rows>>
  BY DEF Connect, tables
<1>2. drafts[c] = <<>>
  BY <1>1 DEF LedgerInv, CyclesInv, CycleOK
<1>3. CycleOK(StoreFor, "rank", pairs[c], drafts[c], rows')
  BY <1>2, Empties DEF CycleOK, DraftsOf, InDuck, Apart
<1>4. CyclesInv'
  <2>1. /\ pairs' = [pairs EXCEPT ![c] = pairs[c]] /\ drafts' = [drafts EXCEPT ![c] = drafts[c]]
    BY <1>1, NoChange
  <2>2. \A e \in Cycles \ {c} : CycleOK(conn[e], pc[e], pairs[e], drafts[e], rows')
    BY <1>1, NoChange
  <2>3. QED
    BY <1>1, <1>3, <2>1, <2>2, OneCycle
<1>5. OneInside'
  BY <1>1, ConnStep DEF Processes
<1>6. QED
  BY <1>1, <1>4, <1>5 DEF LedgerInv, RowsShaped, NoDuplicateOpen, Open

(* A step of a connected cycle that leaves the rows alone. *)
LEMMA LocalStep ==
  ASSUME LedgerInv, NEW c \in Cycles, NEW p, NEW ps, NEW ds,
         pc' = [pc EXCEPT ![c] = p], pairs' = [pairs EXCEPT ![c] = ps],
         drafts' = [drafts EXCEPT ![c] = ds], UNCHANGED <<conn, rows>>,
         CycleOK(conn[c], p, ps, ds, rows)
  PROVE  LedgerInv'
<1>1. conn' = [conn EXCEPT ![c] = conn[c]]
  BY NoChange
<1>2. \A e \in Cycles \ {c} : CycleOK(conn[e], pc[e], pairs[e], drafts[e], rows')
  BY NoChange
<1>3. CycleOK(conn[c], p, ps, ds, rows')
  OBVIOUS
<1>4. CyclesInv'
  BY <1>1, <1>2, <1>3, OneCycle
<1>5. QED
  BY <1>4 DEF LedgerInv, OneInside, RowsShaped, NoDuplicateOpen, Open

LEMMA LoadStep ==
  ASSUME LedgerInv, NEW c \in Cycles, LoadOpen(c)
  PROVE  LedgerInv'
<1> DEFINE ps == {<<rows[i].market, rows[i].side>> : i \in Open(conn[c])}
<1>1. /\ pc' = [pc EXCEPT ![c] = "build"] /\ pairs' = [pairs EXCEPT ![c] = ps]
      /\ pc[c] = "rank" /\ UNCHANGED <<conn, drafts, rows>>
  BY DEF LoadOpen, tables
<1>2. drafts[c] = <<>>
  BY <1>1 DEF LedgerInv, CyclesInv, CycleOK
<1>3. conn[c] = "duckdb" => CountedOpen(ps, rows)
  BY DEF CountedOpen, Open, IsOpen
<1> HIDE DEF ps
<1>4. CycleOK(conn[c], "build", ps, drafts[c], rows)
  BY <1>2, <1>3, Empties DEF CycleOK, DraftsOf, InDuck, Apart, Counted
<1>5. drafts' = [drafts EXCEPT ![c] = drafts[c]]
  BY <1>1, NoChange
<1>6. QED
  BY <1>1, <1>4, <1>5, LocalStep

LEMMA ConsiderStep ==
  ASSUME LedgerInv, NEW c \in Cycles, Consider(c)
  PROVE  LedgerInv'
<1> DEFINE o == Head(rank[c])
<1>1. pc[c] = "build" /\ UNCHANGED <<conn, pc, rows>>
  BY DEF Consider, tables
<1>2. CASE Passes(c, o) /\ Draft(c, o)
  <2> DEFINE d == [status |-> "PAPER_INTENDED", store |-> conn[c], market |-> o.market,
                   side |-> o.side, stake |-> StakeFor(c, o)]
             ps == pairs[c] \cup {<<o.market, o.side>>}
             old == drafts[c]
             ds == Append(old, d)
  <2>1. pairs' = [pairs EXCEPT ![c] = ps] /\ drafts' = [drafts EXCEPT ![c] = ds]
    BY <1>2 DEF Draft
  <2>2. CycleOK(conn[c], "build", pairs[c], old, rows)
    BY <1>1, NoChange
  <2>3. /\ IsSequence(ds) /\ DOMAIN ds = 1 .. Len(old) + 1
        /\ \A i \in DOMAIN old : ds[i] = old[i]
        /\ ds[Len(old) + 1] = d
    <3>1. IsSequence(old)
      BY <2>2 DEF CycleOK, DraftsOf
    <3> HIDE DEF old, d
    <3>2. QED
      BY <3>1, Appending
  <2>4. DOMAIN old = 1 .. Len(old) /\ Len(old) \in Nat
    <3>1. IsSequence(old)
      BY <2>2 DEF CycleOK, DraftsOf
    <3>2. QED
      BY <3>1, Lengths
  <2>5. Shaped(d) /\ d.store = conn[c] /\ <<d.market, d.side>> \notin pairs[c]
        /\ ps = pairs[c] \cup {<<d.market, d.side>>}
    BY <1>2 DEF Shaped, Passes
  <2> HIDE DEF d, o, ds, ps
  <2>6. \A k \in DOMAIN ds : k \in DOMAIN old \/ k = Len(old) + 1
    BY <2>3, <2>4
  <2>7. \A k \in DOMAIN ds : \/ ds[k] = d /\ k = Len(old) + 1
                             \/ k \in DOMAIN old /\ ds[k] = old[k]
    BY <2>3, <2>6
  <2>8. DraftsOf(conn[c], ds)
    BY <2>2, <2>3, <2>5, <2>7 DEF CycleOK, DraftsOf
  <2>9. ASSUME conn[c] = "duckdb"
        PROVE  InDuck("build", ps, ds, rows)
    <3>1. InDuck("build", pairs[c], old, rows)
      BY <2>2, <2>9 DEF CycleOK
    <3>2. CountedOpen(ps, rows)
      BY <2>5, <3>1 DEF InDuck, CountedOpen
    <3>3. Counted(ps, ds)
      <4>1. ASSUME NEW k \in DOMAIN ds PROVE <<ds[k].market, ds[k].side>> \in ps
        BY <2>5, <2>7, <3>1 DEF InDuck, Counted
      <4>2. QED
        BY <4>1 DEF Counted
    <3>4. \A k \in DOMAIN old : ~Same(old[k], d) /\ ~Same(d, old[k])
      BY <2>5, <3>1 DEF InDuck, Counted, Same
    <3>5. \A k, l \in DOMAIN ds : Same(ds[k], ds[l]) => k = l
      <4>1. ASSUME NEW k \in DOMAIN ds, NEW l \in DOMAIN ds, Same(ds[k], ds[l])
            PROVE  k = l
        BY <2>7, <3>1, <3>4, <4>1 DEF InDuck
      <4>2. QED
        BY <4>1
    <3>6. \A i \in DOMAIN rows : IsOpen(rows[i]) => ~Same(rows[i], d)
      BY <2>5, <3>1 DEF InDuck, CountedOpen, Same
    <3>7. Apart(ds, rows)
      <4>1. Apart(old, rows)
        BY <3>1 DEF InDuck
      <4>2. QED
        BY <2>7, <3>6, <4>1 DEF Apart
    <3>8. QED
      BY <3>2, <3>3, <3>5, <3>7 DEF InDuck
  <2>10. CycleOK(conn[c], "build", ps, ds, rows)
    BY <2>8, <2>9 DEF CycleOK
  <2>11. pc' = [pc EXCEPT ![c] = "build"]
    BY <1>1, NoChange
  <2>12. QED
    BY <1>1, <2>1, <2>10, <2>11, LocalStep
<1>3. CASE UNCHANGED <<pairs, drafts>>
  BY <1>1, <1>3 DEF LedgerInv, OneInside, RowsShaped, CyclesInv, NoDuplicateOpen, Open
<1>4. QED
  BY <1>2, <1>3 DEF Consider

LEMMA EndOfReportStep ==
  ASSUME LedgerInv, NEW c \in Cycles, EndOfReport(c)
  PROVE  LedgerInv'
<1>1. /\ pc[c] = "build" /\ pc' = [pc EXCEPT ![c] = "intend"] /\ pairs' = [pairs EXCEPT ![c] = {}]
      /\ UNCHANGED <<conn, drafts, rows>>
  BY DEF EndOfReport, tables
<1>2. CycleOK(conn[c], "intend", {}, drafts[c], rows)
  BY <1>1, NoChange DEF CycleOK, InDuck
<1>3. drafts' = [drafts EXCEPT ![c] = drafts[c]]
  BY <1>1, NoChange
<1>4. QED
  BY <1>1, <1>2, <1>3, LocalStep

LEMMA WriteIntentStep ==
  ASSUME LedgerInv, NEW c \in Cycles, WriteIntent(c)
  PROVE  LedgerInv'
<1> DEFINE old == drafts[c]
           ds == Tail(old)
           d == Head(old)
           n == Len(rows) + 1
<1>1. /\ pc[c] = "intend" /\ old # <<>> /\ rows' = Append(rows, d)
      /\ pc' = [pc EXCEPT ![c] = "intend event"] /\ drafts' = [drafts EXCEPT ![c] = ds]
      /\ UNCHANGED <<conn, pairs>>
  BY DEF WriteIntent
<1>2. CycleOK(conn[c], "intend", pairs[c], old, rows)
  BY <1>1, NoChange
<1>3. IsSequence(old) /\ \A k \in DOMAIN old : Shaped(old[k]) /\ old[k].store = conn[c]
  BY <1>2 DEF CycleOK, DraftsOf
<1>4. /\ IsSequence(ds) /\ 1 \in DOMAIN old /\ d = old[1]
      /\ \A k \in DOMAIN ds : k + 1 # 1 /\ k + 1 \in DOMAIN old /\ ds[k] = old[k + 1]
      /\ \A k, l \in DOMAIN ds : k + 1 = l + 1 => k = l
  <2> HIDE DEF old
  <2> QED
    BY <1>1, <1>3, Tails
<1>5. IsSequence(rows) /\ Len(rows) \in Nat /\ DOMAIN rows = 1 .. Len(rows)
  BY Lengths DEF LedgerInv, RowsShaped
<1>6. /\ IsSequence(rows') /\ DOMAIN rows' = 1 .. Len(rows) + 1
      /\ \A i \in DOMAIN rows : rows'[i] = rows[i]
      /\ rows'[n] = d
  <2>1. rows' = Append(rows, d) /\ IsSequence(rows)
    BY <1>1, <1>5
  <2> HIDE DEF d
  <2>2. /\ IsSequence(Append(rows, d)) /\ DOMAIN Append(rows, d) = 1 .. Len(rows) + 1
        /\ \A i \in DOMAIN rows : Append(rows, d)[i] = rows[i]
        /\ Append(rows, d)[Len(rows) + 1] = d
    BY <2>1, Appending
  <2>3. QED
    BY <2>1, <2>2
<1>7. \A i \in DOMAIN rows' : \/ i \in DOMAIN rows /\ rows'[i] = rows[i]
                              \/ i = n /\ rows'[i] = d
  <2>1. \A i \in 1 .. Len(rows) + 1 : i \in 1 .. Len(rows) \/ i = n
    BY <1>5
  <2> HIDE DEF d, n
  <2>2. QED
    BY <1>5, <1>6, <2>1
<1> HIDE DEF ds, d, n, old
<1>8. DraftsOf(conn[c], ds)
  BY <1>3, <1>4 DEF DraftsOf
<1>9. RowsShaped'
  BY <1>3, <1>4, <1>6, <1>7 DEF LedgerInv, RowsShaped
<1>10. pairs' = [pairs EXCEPT ![c] = pairs[c]] /\ conn' = [conn EXCEPT ![c] = conn[c]]
  BY <1>1, NoChange
<1>11. CASE conn[c] = "duckdb"
  <2>1. /\ \A k, l \in DOMAIN old : Same(old[k], old[l]) => k = l
        /\ Apart(old, rows)
    BY <1>2, <1>11 DEF CycleOK, InDuck
  <2>2. \A k \in DOMAIN ds : ~Same(d, ds[k])
    BY <1>4, <2>1
  <2>3. Apart(ds, rows')
    <3>1. ASSUME NEW i \in DOMAIN rows', NEW k \in DOMAIN ds, IsOpen(rows'[i])
          PROVE  ~Same(rows'[i], ds[k])
      <4>1. CASE rows'[i] = d
        BY <2>2, <4>1
      <4>2. CASE i \in DOMAIN rows /\ rows'[i] = rows[i]
        BY <1>4, <2>1, <3>1, <4>2 DEF Apart
      <4>3. QED
        BY <1>7, <4>1, <4>2
    <3>2. QED
      BY <3>1 DEF Apart
  <2>4. \A k, l \in DOMAIN ds : Same(ds[k], ds[l]) => k = l
    BY <1>4, <2>1
  <2>5. CycleOK(conn[c], "intend event", pairs[c], ds, rows')
    BY <1>8, <2>3, <2>4 DEF CycleOK, InDuck
  <2>6. ASSUME NEW e \in Cycles \ {c}
        PROVE  CycleOK(conn[e], pc[e], pairs[e], drafts[e], rows')
    <3>1. conn[e] # "duckdb"
      BY <1>11, <2>6 DEF LedgerInv, OneInside, Processes
    <3>2. CycleOK(conn[e], pc[e], pairs[e], drafts[e], rows)
      BY <2>6, NoChange
    <3>3. QED
      BY <3>1, <3>2 DEF CycleOK
  <2>7. CyclesInv'
    BY <1>1, <1>10, <2>5, <2>6, OneCycle
  <2>8. \A i \in DOMAIN rows : IsOpen(rows[i]) => ~Same(rows[i], d) /\ ~Same(d, rows[i])
    BY <1>4, <2>1 DEF Apart, Same
  <2>9. NoDuplicateOpen'
    <3>1. ASSUME NEW i \in Open("duckdb")', NEW j \in Open("duckdb")',
                 rows'[i].market = rows'[j].market, rows'[i].side = rows'[j].side
          PROVE  i = j
      <4>1. /\ i \in DOMAIN rows' /\ j \in DOMAIN rows' /\ IsOpen(rows'[i]) /\ IsOpen(rows'[j])
            /\ Same(rows'[i], rows'[j])
        BY <3>1 DEF Open, IsOpen, Same
      <4>2. CASE i \in DOMAIN rows /\ rows'[i] = rows[i] /\ j \in DOMAIN rows /\ rows'[j] = rows[j]
        BY <4>1, <4>2 DEF LedgerInv, NoDuplicateOpen, Open, IsOpen, Same
      <4>3. QED
        BY <1>7, <2>8, <4>1, <4>2
    <3>2. QED
      BY <3>1 DEF NoDuplicateOpen
  <2>10. QED
    BY <1>1, <1>9, <2>7, <2>9 DEF LedgerInv, OneInside
<1>12. CASE conn[c] # "duckdb"
  <2>1. d.store # "duckdb"
    BY <1>3, <1>4, <1>12
  <2>2. Fewer(rows', rows)
    BY <1>7, <2>1 DEF Fewer, IsOpen, Same
  <2>3. CycleOK(conn[c], "intend event", pairs[c], ds, rows')
    BY <1>8, <1>12 DEF CycleOK
  <2>4. \A e \in Cycles \ {c} : CycleOK(conn[e], pc[e], pairs[e], drafts[e], rows')
    BY <2>2, NoChange, FewerRows
  <2>5. CyclesInv'
    BY <1>1, <1>10, <2>3, <2>4, OneCycle
  <2>6. NoDuplicateOpen'
    BY <1>9, <2>2, RowsStep
  <2>7. QED
    BY <1>1, <1>9, <2>5, <2>6 DEF LedgerInv, OneInside
<1>13. QED
  BY <1>11, <1>12

LEMMA WriteEventStep ==
  ASSUME LedgerInv, NEW c \in Cycles, WriteEvent(c)
  PROVE  LedgerInv'
<1> DEFINE p == IF pc[c] = "intend event" THEN "intend" ELSE "settle"
<1>1. /\ pc[c] \in {"intend event", "settle event"} /\ pc' = [pc EXCEPT ![c] = p]
      /\ UNCHANGED <<conn, pairs, drafts, rows>>
  BY DEF WriteEvent
<1>2. CycleOK(conn[c], p, pairs[c], drafts[c], rows)
  BY <1>1, NoChange DEF CycleOK, InDuck
<1>3. pairs' = [pairs EXCEPT ![c] = pairs[c]] /\ drafts' = [drafts EXCEPT ![c] = drafts[c]]
  BY <1>1, NoChange
<1> HIDE DEF p
<1>4. pc' = [pc EXCEPT ![c] = p] /\ UNCHANGED <<conn, rows>>
  BY <1>1
<1>5. QED
  BY <1>2, <1>3, <1>4, LocalStep

LEMMA SettleStep ==
  ASSUME LedgerInv, NEW c \in Cycles, Settle(c)
  PROVE  LedgerInv'
<1>1. /\ pc[c] = "intend" /\ pc' = [pc EXCEPT ![c] = "settle"]
      /\ UNCHANGED <<conn, pairs, drafts, rows>>
  BY DEF Settle, tables
<1>2. CycleOK(conn[c], "settle", pairs[c], drafts[c], rows)
  BY <1>1, NoChange DEF CycleOK, InDuck
<1>3. pairs' = [pairs EXCEPT ![c] = pairs[c]] /\ drafts' = [drafts EXCEPT ![c] = drafts[c]]
  BY <1>1, NoChange
<1>4. pc' = [pc EXCEPT ![c] = "settle"] /\ UNCHANGED <<conn, rows>>
  BY <1>1
<1>5. QED
  BY <1>2, <1>3, <1>4, LocalStep

LEMMA WriteSettledStep ==
  ASSUME LedgerInv, NEW c \in Cycles, WriteSettled(c)
  PROVE  LedgerInv'
<1> DEFINE h == Head(todo[c])
<1>1. /\ pc[c] = "settle" /\ pc' = [pc EXCEPT ![c] = "settle event"]
      /\ rows' = [rows EXCEPT ![h].status = "SETTLED"]
      /\ UNCHANGED <<conn, pairs, drafts>>
  BY DEF WriteSettled
<1> HIDE DEF h
<1>2. IsSequence(rows) /\ \A i \in DOMAIN rows : Shaped(rows[i])
  BY DEF LedgerInv, RowsShaped
<1>3. DOMAIN rows' = DOMAIN rows
  BY <1>1
<1>4. ASSUME NEW i \in DOMAIN rows
      PROVE  /\ Shaped(rows'[i])
             /\ rows'[i] = rows[i] \/ rows'[i].status = "SETTLED"
  <2>1. CASE i # h
    BY <1>1, <1>2, <2>1
  <2>2. CASE i = h
    <3> DEFINE row == rows[i]
               s == row.store  m == row.market  d == row.side  k == row.stake  t == row.status
    <3>1. row = [status |-> t, store |-> s, market |-> m, side |-> d, stake |-> k]
      BY <1>2 DEF Shaped
    <3>2. rows'[i] = [row EXCEPT !.status = "SETTLED"]
      BY <1>1, <2>2
    <3> HIDE DEF s, m, d, k, t, row
    <3>3. rows'[i] = [status |-> "SETTLED", store |-> s, market |-> m, side |-> d, stake |-> k]
      BY <3>1, <3>2
    <3>4. QED
      BY <3>3 DEF Shaped
  <2>3. QED
    BY <2>1, <2>2
<1>5. Fewer(rows', rows)
  BY <1>3, <1>4 DEF Fewer, IsOpen, Same
<1>6. RowsShaped'
  <2>1. DOMAIN rows' = 1 .. Len(rows) /\ Len(rows) \in Nat
    BY <1>2, <1>3, Lengths
  <2>2. rows' = [i \in 1 .. Len(rows) |-> rows'[i]]
    BY <1>1, <2>1
  <2>3. rows' \in [1 .. Len(rows) -> {rows'[i] : i \in DOMAIN rows'}]
    BY <2>1, <2>2
  <2>4. IsSequence(rows')
    BY <2>1, <2>3 DEF IsSequence
  <2>5. QED
    BY <1>3, <1>4, <2>4 DEF RowsShaped
<1>7. CycleOK(conn[c], "settle", pairs[c], drafts[c], rows')
  BY <1>1, <1>5, NoChange, FewerRows
<1>8. CycleOK(conn[c], "settle event", pairs[c], drafts[c], rows')
  BY <1>7 DEF CycleOK, InDuck
<1>9. \A e \in Cycles \ {c} : CycleOK(conn[e], pc[e], pairs[e], drafts[e], rows')
  BY <1>5, NoChange, FewerRows
<1>10. CyclesInv'
  <2>1. /\ pairs' = [pairs EXCEPT ![c] = pairs[c]] /\ drafts' = [drafts EXCEPT ![c] = drafts[c]]
        /\ conn' = [conn EXCEPT ![c] = conn[c]]
    BY <1>1, NoChange
  <2>2. QED
    BY <1>1, <1>8, <1>9, <2>1, OneCycle
<1>11. QED
  BY <1>1, <1>5, <1>6, <1>10, RowsStep DEF LedgerInv, OneInside

LEMMA ExitStep ==
  ASSUME LedgerInv, NEW c \in Cycles, Exit(c)
  PROVE  LedgerInv'
<1>1. /\ conn' = [conn EXCEPT ![c] = "none"] /\ pc' = [pc EXCEPT ![c] = "start"]
      /\ pairs' = [pairs EXCEPT ![c] = {}] /\ drafts' = [drafts EXCEPT ![c] = <<>>]
      /\ rows' = rows
  BY DEF Exit, tables
<1>2. CycleOK("none", "start", {}, <<>>, rows')
  BY Empties DEF CycleOK, DraftsOf
<1>3. \A e \in Cycles \ {c} : CycleOK(conn[e], pc[e], pairs[e], drafts[e], rows')
  BY <1>1, NoChange
<1>4. CyclesInv'
  BY <1>1, <1>2, <1>3, OneCycle
<1>5. OneInside'
  BY <1>1, ConnStep DEF Processes
<1>6. QED
  BY <1>1, <1>4, <1>5 DEF LedgerInv, RowsShaped, NoDuplicateOpen, Open

LEMMA IngestStep ==
  ASSUME LedgerInv, NEW store \in {StoreFor, "none"}, conn' = [conn EXCEPT ![Ingest] = store],
         UNCHANGED <<local, rows>>
  PROVE  LedgerInv'
<1>1. OneInside'
  BY ConnStep DEF Processes
<1>2. \A c \in Cycles : conn'[c] = conn[c]
  BY CycleAssumption DEF LedgerInv, OneInside, Processes
<1>3. QED
  BY <1>1, <1>2 DEF LedgerInv, RowsShaped, CyclesInv, NoDuplicateOpen, Open, local

LEMMA LedgerStep == LedgerInv /\ [Next]_vars => LedgerInv'
<1>1. SUFFICES ASSUME LedgerInv, [Next]_vars PROVE LedgerInv'
  OBVIOUS
<1>2. CASE UNCHANGED vars
  BY <1>1, <1>2 DEF vars, local, tables, LedgerInv, OneInside, RowsShaped, CyclesInv,
     NoDuplicateOpen, Open
<1>3. ASSUME NEW c \in Cycles, Step(c) \/ Crash(c)
      PROVE  LedgerInv'
  BY <1>1, <1>3, ConnectStep, LoadStep, ConsiderStep, EndOfReportStep, WriteIntentStep,
     WriteEventStep, SettleStep, WriteSettledStep, ExitStep DEF Step, Report, Crash
<1>4. CASE StartIngest
  BY <1>1, <1>4, IngestStep DEF StartIngest, tables
<1>5. CASE EndIngest
  BY <1>1, <1>5, IngestStep DEF EndIngest
<1>6. QED
  BY <1>1, <1>2, <1>3, <1>4, <1>5 DEF Next

(* The DuckDB store never holds two open intents of one market and side,   *)
(* whichever research cycles and imports overlap and die between the count *)
(* of the open intents and the last of the writes (build_paper_intents).   *)
THEOREM OneOpenIntent == Spec => []NoDuplicateOpen
<1>1. LedgerInv => NoDuplicateOpen
  BY DEF LedgerInv
<1>2. QED
  BY LedgerInit, LedgerStep, <1>1, PTL DEF Spec

-----------------------------------------------------------------------------
(* Rows, events and what is left to write. *)

Statuses == {"PAPER_INTENDED", "SETTLED"}
Settling == {"settle", "settle event"}
Writing == {"intend event", "settle event"}

(* A cycle at p has the rows t to settle, or to write the event of, among  *)
(* the rows rs.                                                            *)
TodoOK(store, p, t, rs) ==
  /\ IsSequence(t)
  /\ \A k \in DOMAIN t : t[k] \in DOMAIN rs
  /\ \A k, l \in DOMAIN t : t[k] = t[l] => k = l
  /\ p \in Settling => \A k \in DOMAIN t : rs[t[k]].store = store
  /\ p \in Writing => t # <<>>
  /\ p = "settle event" => rs[Head(t)].status = "SETTLED"

Holds(t, i) == \E k \in DOMAIN t : t[k] = i
Claims(i) == {c \in Cycles : pc[c] \in Settling /\ Holds(todo[c], i)}

(* The event of row i, whose status is s, is the next that a cycle writes. *)
Writes(p, t, i, s) ==
  /\ \/ p = "intend event" /\ s = "PAPER_INTENDED"
     \/ p = "settle event" /\ s = "SETTLED"
  /\ Head(t) = i
Lost == {i \in Unlogged : ~\E c \in Cycles : Writes(pc[c], todo[c], i, rows[i].status)}

AllOpen(ds) == \A k \in DOMAIN ds : ds[k].status = "PAPER_INTENDED"

EventsTyped ==
  /\ IsSequence(logged) /\ Len(logged) = Len(rows)
  /\ \A i \in DOMAIN rows : logged[i] \in [PAPER_INTENDED : Nat, SETTLED : Nat]
  /\ \A c \in Cycles : AllOpen(drafts[c])

(* An open row has not been settled, and what settled it, or still will,   *)
(* are as many cycles as its store may have at a time.                     *)
RowOK(i) ==
  /\ rows[i].status \in Statuses
  /\ rows[i].status = "PAPER_INTENDED" => logged[i].SETTLED = 0
  /\ logged[i].SETTLED + Cardinality(Claims(i)) <= Width(rows[i].store)

TodoInv ==
  /\ todo = [c \in Cycles |-> todo[c]]
  /\ \A c \in Cycles : TodoOK(conn[c], pc[c], todo[c], rows)

LostInv == crashes \in Nat /\ IsFiniteSet(Lost) /\ Cardinality(Lost) <= crashes

EventInv == EventsTyped /\ TodoInv /\ (\A i \in DOMAIN rows : RowOK(i)) /\ LostInv

-----------------------------------------------------------------------------
LEMMA RowsIndexed ==
  ASSUME LedgerInv, EventInv
  PROVE  /\ Len(rows) \in Nat /\ DOMAIN rows = 1 .. Len(rows) /\ IsSequence(rows)
         /\ DOMAIN logged = DOMAIN rows
<1>1. IsSequence(rows) /\ IsSequence(logged) /\ Len(logged) = Len(rows)
  BY DEF LedgerInv, RowsShaped, EventInv, EventsTyped
<1>2. QED
  BY <1>1, Lengths

LEMMA ClaimsFinite ==
  ASSUME NEW i
  PROVE  /\ IsFiniteSet(Claims(i)) /\ Cardinality(Claims(i)) \in Nat
         /\ Cardinality(Claims(i)) <= Cardinality(Cycles) /\ Cardinality(Cycles) \in Nat
<1>1. Claims(i) \in SUBSET Cycles
  BY DEF Claims
<1>2. QED
  BY <1>1, CycleAssumption, FS_Subset, FS_CardinalityType

(* After a step as before it, the cycles that may settle a row are         *)
(* connected to its store.                                                 *)
LEMMA ClaimsFit ==
  ASSUME OneInside', TodoInv', NEW i
  PROVE  Cardinality(Claims(i)') <= Width(rows'[i].store)
<1>1. Claims(i)' \in SUBSET Cycles
  BY DEF Claims
<1>2. CASE rows'[i].store = "duckdb"
  <2>1. \A c \in Claims(i)' : conn'[c] = "duckdb" /\ c \in Processes
    BY <1>2 DEF Claims, Holds, TodoInv, TodoOK, Processes
  <2>2. \A c, d \in Claims(i)' : c = d
    BY <2>1 DEF OneInside
  <2>3. Cardinality(Claims(i)') <= 1
    <3>1. CASE Claims(i)' = {}
      BY <3>1, FS_EmptySet
    <3>2. CASE Claims(i)' # {}
      <4>1. PICK c \in Claims(i)' : TRUE
        BY <3>2
      <4>2. Claims(i)' = {c}
        BY <2>2, <4>1
      <4>3. Cardinality({c}) = 1
        BY FS_Singleton
      <4>4. QED
        BY <4>2, <4>3
    <3>3. QED
      BY <3>1, <3>2
  <2>4. QED
    BY <1>2, <2>3 DEF Width
<1>3. CASE rows'[i].store # "duckdb"
  BY <1>1, <1>3, CycleAssumption, FS_Subset DEF Width
<1>4. QED
  BY <1>2, <1>3

LEMMA FewerClaims ==
  ASSUME NEW i, Claims(i)' \subseteq Claims(i)
  PROVE  Cardinality(Claims(i)') <= Cardinality(Claims(i)) /\ Cardinality(Claims(i)') \in Nat
BY ClaimsFinite, FS_Subset, FS_CardinalityType

(* A row that is neither opened again nor claimed nor settled once more.   *)
LEMMA RowGoesOn ==
  ASSUME LedgerInv, EventInv, NEW i \in DOMAIN rows, Claims(i)' \subseteq Claims(i),
         logged'[i].SETTLED = logged[i].SETTLED, rows'[i].store = rows[i].store,
         rows'[i].status \in {rows[i].status, "SETTLED"}
  PROVE  RowOK(i)'
<1>1. RowOK(i) /\ logged[i].SETTLED \in Nat
  BY DEF EventInv, EventsTyped
<1>2. Cardinality(Claims(i)') <= Cardinality(Claims(i)) /\ Cardinality(Claims(i)') \in Nat
      /\ Cardinality(Claims(i)) \in Nat
  BY FewerClaims, ClaimsFinite
<1>3. Width(rows[i].store) \in Nat
  BY ClaimsFinite DEF Width
<1>4. logged'[i].SETTLED + Cardinality(Claims(i)') <= Width(rows[i].store)
  BY <1>1, <1>2, <1>3 DEF RowOK
<1>5. Width(rows[i].store)' = Width(rows[i].store)
  BY DEF Width
<1>6. QED
  BY <1>1, <1>4, <1>5 DEF RowOK, Statuses

(* Nothing that a cycle has to settle is affected by what others do. *)
Grown(new, old) ==
  \A i \in DOMAIN old :
    /\ i \in DOMAIN new /\ new[i].store = old[i].store
    /\ old[i].status = "SETTLED" => new[i].status = "SETTLED"

LEMMA FirstIn ==
  ASSUME NEW t, IsSequence(t), t # <<>>
  PROVE  1 \in DOMAIN t /\ Head(t) = t[1]
BY Tails

LEMMA LaterTodo ==
  ASSUME NEW store, NEW p, NEW t, NEW old, NEW new, TodoOK(store, p, t, old), Grown(new, old)
  PROVE  TodoOK(store, p, t, new)
<1>1. p \in Writing => Head(t) \in DOMAIN old
  BY FirstIn DEF TodoOK
<1>2. QED
  BY <1>1 DEF TodoOK, Grown, Writing

LEMMA OneTodo ==
  ASSUME LedgerInv, EventInv, NEW c \in Cycles, NEW store, NEW p, NEW t,
         conn' = [conn EXCEPT ![c] = store], pc' = [pc EXCEPT ![c] = p],
         todo' = [todo EXCEPT ![c] = t], Grown(rows', rows), TodoOK(store, p, t, rows')
  PROVE  TodoInv'
<1>1. /\ pc' = [e \in Cycles |-> IF e = c THEN p ELSE pc[e]]
      /\ todo' = [e \in Cycles |-> IF e = c THEN t ELSE todo[e]]
  BY DEF LedgerInv, CyclesInv, EventInv, TodoInv
<1>2. conn' = [q \in Processes |-> IF q = c THEN store ELSE conn[q]]
  BY DEF LedgerInv, OneInside
<1>3. todo' = [e \in Cycles |-> todo'[e]]
  BY <1>1
<1>4. ASSUME NEW e \in Cycles PROVE TodoOK(conn'[e], pc'[e], todo'[e], rows')
  <2>1. e \in Processes
    BY DEF Processes
  <2>2. CASE e = c
    <3>1. conn'[e] = store /\ pc'[e] = p /\ todo'[e] = t
      BY <1>1, <1>2, <2>1, <2>2
    <3>2. QED
      BY <3>1
  <2>3. CASE e # c
    <3>1. conn'[e] = conn[e] /\ pc'[e] = pc[e] /\ todo'[e] = todo[e]
      BY <1>1, <1>2, <2>1, <2>3
    <3>2. TodoOK(conn[e], pc[e], todo[e], rows')
      BY LaterTodo DEF EventInv, TodoInv
    <3>3. QED
      BY <3>1, <3>2
  <2>4. QED
    BY <2>2, <2>3
<1>5. QED
  BY <1>3, <1>4 DEF TodoInv

(* How the claims and the losses change when cycle c moves to p and t. *)
LEMMA OneMoves ==
  ASSUME LedgerInv, EventInv, NEW c \in Cycles, NEW p, NEW t,
         pc' = [pc EXCEPT ![c] = p], todo' = [todo EXCEPT ![c] = t]
  PROVE  /\ \A i : Claims(i)' \subseteq Claims(i) \cup {c}
         /\ \A i : (p \in Settling /\ Holds(t, i) => pc[c] \in Settling /\ Holds(todo[c], i))
                     => Claims(i)' \subseteq Claims(i)
         /\ \A i : ~(p \in Settling /\ Holds(t, i)) => c \notin Claims(i)'
         /\ pc'[c] = p /\ todo'[c] = t
         /\ \A e \in Cycles \ {c} : pc'[e] = pc[e] /\ todo'[e] = todo[e]
<1>1. /\ pc' = [e \in Cycles |-> IF e = c THEN p ELSE pc[e]]
      /\ todo' = [e \in Cycles |-> IF e = c THEN t ELSE todo[e]]
  BY DEF LedgerInv, CyclesInv, EventInv, TodoInv
<1>2. pc'[c] = p /\ todo'[c] = t
  BY <1>1
<1>3. \A e \in Cycles \ {c} : pc'[e] = pc[e] /\ todo'[e] = todo[e]
  BY <1>1
<1>4. QED
  BY <1>2, <1>3 DEF Claims

(* A step of a cycle that writes nothing, before or after it. *)
LEMMA QuietLost ==
  ASSUME LedgerInv, EventInv, NEW c \in Cycles, NEW p, NEW t, pc[c] \notin Writing,
         pc' = [pc EXCEPT ![c] = p], todo' = [todo EXCEPT ![c] = t],
         UNCHANGED <<rows, logged, crashes>>
  PROVE  LostInv'
<1>1. \A e \in Cycles \ {c} : pc'[e] = pc[e] /\ todo'[e] = todo[e]
  BY OneMoves
<1>2. ASSUME NEW i \in Lost' PROVE i \in Lost
  <2>1. i \in Unlogged /\ \A e \in Cycles : ~Writes(pc'[e], todo'[e], i, rows[i].status)
    BY <1>2 DEF Lost, Unlogged
  <2>2. ~Writes(pc[c], todo[c], i, rows[i].status)
    BY DEF Writes, Writing
  <2>3. \A e \in Cycles : ~Writes(pc[e], todo[e], i, rows[i].status)
    BY <1>1, <2>1, <2>2
  <2>4. QED
    BY <2>1, <2>3 DEF Lost
<1>3. QED
  BY <1>2, FS_Subset, FS_CardinalityType DEF EventInv, LostInv

LEMMA LostLess ==
  ASSUME LostInv, Lost' \subseteq Lost, crashes' = crashes
  PROVE  LostInv'
BY FS_Subset, FS_CardinalityType DEF LostInv

(* The rows a cycle comes to settle are open. *)
ClaimsOpen(q, was, p, t, rs) ==
  \A i \in DOMAIN rs : p \in Settling /\ Holds(t, i) =>
    \/ q \in Settling /\ Holds(was, i)
    \/ rs[i].status = "PAPER_INTENDED"

LEMMA DraftsTyped ==
  ASSUME LedgerInv, EventInv, NEW c \in Cycles, NEW ds, drafts' = [drafts EXCEPT ![c] = ds],
         AllOpen(ds)
  PROVE  \A e \in Cycles : AllOpen(drafts'[e])
<1>1. drafts' = [e \in Cycles |-> IF e = c THEN ds ELSE drafts[e]]
  BY DEF LedgerInv, CyclesInv
<1>2. \A e \in Cycles : drafts'[e] = ds \/ drafts'[e] = drafts[e]
  BY <1>1
<1>3. QED
  BY <1>2 DEF EventInv, EventsTyped

(* A step of a cycle that changes no row and no event, and comes to settle *)
(* only open rows.                                                         *)
LEMMA QuietRows ==
  ASSUME LedgerInv, LedgerInv', EventInv, NEW c \in Cycles, NEW store, NEW p, NEW t, NEW ds,
         conn' = [conn EXCEPT ![c] = store], pc' = [pc EXCEPT ![c] = p],
         todo' = [todo EXCEPT ![c] = t], drafts' = [drafts EXCEPT ![c] = ds],
         UNCHANGED <<rows, logged>>,
         TodoOK(store, p, t, rows),
         AllOpen(ds), ClaimsOpen(pc[c], todo[c], p, t, rows)
  PROVE  EventsTyped' /\ TodoInv' /\ \A i \in DOMAIN rows' : RowOK(i)'
<1>1. TodoInv'
  BY OneTodo DEF Grown
<1>2. EventsTyped'
  BY DraftsTyped DEF EventInv, EventsTyped
<1>3. ASSUME NEW i \in DOMAIN rows PROVE RowOK(i)'
  <2>1. CASE p \in Settling /\ Holds(t, i) => pc[c] \in Settling /\ Holds(todo[c], i)
    <3>1. Claims(i)' \subseteq Claims(i)
      BY <2>1, OneMoves
    <3>2. QED
      BY <3>1, RowGoesOn
  <2>2. CASE rows[i].status = "PAPER_INTENDED"
    <3>1. Cardinality(Claims(i)') <= Width(rows'[i].store)
      BY <1>1, ClaimsFit DEF LedgerInv
    <3>2. Claims(i)' \in SUBSET Cycles
      BY DEF Claims
    <3>3. Cardinality(Claims(i)') \in Nat
      BY <3>2, CycleAssumption, FS_Subset, FS_CardinalityType
    <3>4. RowOK(i)
      BY DEF EventInv
    <3>5. rows'[i] = rows[i] /\ logged'[i] = logged[i]
      OBVIOUS
    <3>6. logged'[i].SETTLED = 0
      BY <2>2, <3>4, <3>5 DEF RowOK
    <3>7. logged'[i].SETTLED + Cardinality(Claims(i)') <= Width(rows'[i].store)
      BY <3>1, <3>3, <3>6 DEF Width
    <3>8. Width(rows[i].store)' = Width(rows'[i].store)
      BY DEF Width
    <3>9. QED
      BY <3>4, <3>5, <3>6, <3>7, <3>8 DEF RowOK
  <2>3. QED
    BY <2>1, <2>2 DEF ClaimsOpen
<1>4. QED
  BY <1>1, <1>2, <1>3

LEMMA QuietStep ==
  ASSUME LedgerInv, LedgerInv', EventInv, NEW c \in Cycles, NEW store, NEW p, NEW t, NEW ds,
         conn' = [conn EXCEPT ![c] = store], pc' = [pc EXCEPT ![c] = p],
         todo' = [todo EXCEPT ![c] = t], drafts' = [drafts EXCEPT ![c] = ds],
         UNCHANGED <<rows, logged, crashes>>, pc[c] \notin Writing,
         TodoOK(store, p, t, rows),
         AllOpen(ds), ClaimsOpen(pc[c], todo[c], p, t, rows)
  PROVE  EventInv'
<1>1. LostInv'
  BY QuietLost
<1>2. EventsTyped' /\ TodoInv' /\ \A i \in DOMAIN rows' : RowOK(i)'
  BY QuietRows
<1>3. QED
  BY <1>1, <1>2 DEF EventInv

LEMMA IdleTodo ==
  ASSUME LedgerInv, EventInv, NEW c \in Cycles, NEW store, NEW p, p \notin Settling \cup Writing
  PROVE  /\ TodoOK(store, p, todo[c], rows)
         /\ ClaimsOpen(pc[c], todo[c], p, todo[c], rows)
         /\ AllOpen(drafts[c])
         /\ todo = [todo EXCEPT ![c] = todo[c]]
BY DEF ClaimsOpen, EventInv, EventsTyped, TodoInv, TodoOK, Settling, Writing

LEMMA ConnectEvents ==
  ASSUME LedgerInv, LedgerInv', EventInv, NEW c \in Cycles, Connect(c) \/ LoadOpen(c) \/ EndOfReport(c)
  PROVE  EventInv'
<1>1. PICK store, p :
        /\ conn' = [conn EXCEPT ![c] = store] /\ pc' = [pc EXCEPT ![c] = p]
        /\ p \in {"rank", "build", "intend"} /\ pc[c] \in {"start", "rank", "build"}
        /\ UNCHANGED <<drafts, todo, rows, logged, crashes>>
  <2>1. conn = [conn EXCEPT ![c] = conn[c]]
    BY NoChange
  <2>2. CASE Connect(c)
    BY <2>2 DEF Connect, tables
  <2>3. CASE LoadOpen(c)
    BY <2>1, <2>3 DEF LoadOpen, tables
  <2>4. CASE EndOfReport(c)
    BY <2>1, <2>4 DEF EndOfReport, tables
  <2>5. QED
    BY <2>2, <2>3, <2>4
<1>2. p \notin Settling \cup Writing /\ pc[c] \notin Writing
  BY <1>1 DEF Settling, Writing
<1>3. drafts' = [drafts EXCEPT ![c] = drafts[c]]
  BY <1>1, NoChange
<1>4. /\ TodoOK(store, p, todo[c], rows) /\ todo = [todo EXCEPT ![c] = todo[c]]
      /\ AllOpen(drafts[c]) /\ ClaimsOpen(pc[c], todo[c], p, todo[c], rows)
  BY <1>2, IdleTodo
<1>5. todo' = [todo EXCEPT ![c] = todo[c]]
  BY <1>1, <1>4
<1>6. p \notin Settling
  BY <1>2
<1>7. QED
  BY <1>1, <1>2, <1>3, <1>4, <1>5, <1>6, QuietStep

LEMMA ConsiderEvents ==
  ASSUME LedgerInv, LedgerInv', EventInv, NEW c \in Cycles, Consider(c)
  PROVE  EventInv'
<1>1. pc[c] = "build" /\ UNCHANGED <<conn, pc, todo, rows, logged, crashes>>
  BY DEF Consider, tables
<1>2. pc[c] \notin Settling \cup Writing
  BY <1>1 DEF Settling, Writing
<1>3. conn' = [conn EXCEPT ![c] = conn[c]] /\ pc' = [pc EXCEPT ![c] = pc[c]]
  BY <1>1, NoChange
<1>4. \E ds : drafts' = [drafts EXCEPT ![c] = ds] /\ AllOpen(ds)
  <2>1. CASE UNCHANGED drafts
    <3>1. drafts' = [drafts EXCEPT ![c] = drafts[c]]
      BY <2>1, NoChange
    <3>2. QED
      BY <3>1 DEF EventInv, EventsTyped
  <2>2. CASE Draft(c, Head(rank[c]))
    <3> DEFINE old == drafts[c]
    <3>1. PICK d : drafts' = [drafts EXCEPT ![c] = Append(old, d)] /\ d.status = "PAPER_INTENDED"
      <4> DEFINE o == Head(rank[c])
                 e == [status |-> "PAPER_INTENDED", store |-> conn[c], market |-> o.market,
                       side |-> o.side, stake |-> StakeFor(c, o)]
      <4>1. drafts' = [drafts EXCEPT ![c] = Append(old, e)] /\ e.status = "PAPER_INTENDED"
        BY <2>2 DEF Draft
      <4>2. QED
        BY <4>1
    <3>2. IsSequence(old)
      BY DEF LedgerInv, CyclesInv, CycleOK, DraftsOf
    <3>3. \A k \in DOMAIN old : old[k].status = "PAPER_INTENDED"
      BY DEF EventInv, EventsTyped, AllOpen
    <3> HIDE DEF old
    <3>4. Len(old) \in Nat /\ DOMAIN old = 1 .. Len(old)
      BY <3>2, Lengths
    <3>5. /\ DOMAIN Append(old, d) = 1 .. Len(old) + 1
          /\ \A i \in DOMAIN old : Append(old, d)[i] = old[i]
          /\ Append(old, d)[Len(old) + 1] = d
      BY <3>2, Appending
    <3>6. \A k \in DOMAIN Append(old, d) : k \in DOMAIN old \/ k = Len(old) + 1
      BY <3>4, <3>5
    <3>7. \A k \in DOMAIN Append(old, d) : Append(old, d)[k].status = "PAPER_INTENDED"
      BY <3>1, <3>3, <3>5, <3>6
    <3>8. QED
      BY <3>1, <3>7 DEF AllOpen
  <2>3. QED
    BY <2>1, <2>2 DEF Consider
<1>5. TodoOK(conn[c], pc[c], todo[c], rows) /\ ClaimsOpen(pc[c], todo[c], pc[c], todo[c], rows)
      /\ todo' = [todo EXCEPT ![c] = todo[c]]
  BY <1>1, <1>2, IdleTodo
<1>6. PICK ds : drafts' = [drafts EXCEPT ![c] = ds] /\ AllOpen(ds)
  BY <1>4
<1>7. pc[c] \notin Settling /\ pc[c] \notin Writing
  BY <1>2
<1>8. QED
  BY <1>1, <1>3, <1>5, <1>6, <1>7, QuietStep

LEMMA SettleEvents ==
  ASSUME LedgerInv, LedgerInv', EventInv, NEW c \in Cycles, Settle(c)
  PROVE  EventInv'
<1>1. PICK outcomes \in {{}, Resolved} : \E order \in InOrder(Settleable(c, outcomes)) :
        todo' = [todo EXCEPT ![c] = order]
  BY DEF Settle
<1> DEFINE S == Settleable(c, outcomes)
<1>2. PICK t \in InOrder(S) : todo' = [todo EXCEPT ![c] = t]
  BY <1>1
<1>3. /\ pc[c] = "intend" /\ pc' = [pc EXCEPT ![c] = "settle"]
      /\ UNCHANGED <<conn, drafts, rows, logged, crashes>>
  BY DEF Settle, tables
<1>4. \A i \in S : i \in DOMAIN rows /\ i \in Nat /\ rows[i].store = conn[c]
                  /\ rows[i].status = "PAPER_INTENDED"
  BY RowsIndexed DEF Settleable, Open
<1>5. Cardinality(S) \in Nat
  <2>1. S \in SUBSET (1 .. Len(rows)) /\ Len(rows) \in Nat
    BY <1>4, RowsIndexed
  <2> HIDE DEF S
  <2>2. IsFiniteSet(1 .. Len(rows))
    BY <2>1, FS_Interval
  <2>3. IsFiniteSet(S)
    BY <2>1, <2>2, FS_Subset
  <2>4. QED
    BY <2>3, FS_CardinalityType
<1>6. /\ t \in [1 .. Cardinality(S) -> S]
      /\ \A k, l \in DOMAIN t : k < l => t[k] < t[l]
  BY <1>2 DEF InOrder
<1> HIDE DEF S
<1>7. IsSequence(t)
  <2>1. t \in [1 .. Cardinality(S) -> {t[i] : i \in DOMAIN t}]
    BY <1>6
  <2>2. QED
    BY <1>5, <2>1, SMTT(30) DEF IsSequence
<1>8. \A k, l \in DOMAIN t : t[k] = t[l] => k = l
  <2>1. ASSUME NEW k \in DOMAIN t, NEW l \in DOMAIN t, t[k] = t[l]
        PROVE  k = l
    <3>1. k \in Nat /\ l \in Nat /\ t[k] \in Nat /\ t[l] \in Nat
      BY <1>4, <1>5, <1>6
    <3>2. ~(k < l) /\ ~(l < k)
      BY <1>6, <2>1, <3>1
    <3>3. QED
      BY <3>1, <3>2
  <2>2. QED
    BY <2>1
<1>9. \A k \in DOMAIN t : t[k] \in S
  BY <1>6
<1>10. TodoOK(conn[c], "settle", t, rows)
  BY <1>4, <1>7, <1>8, <1>9 DEF TodoOK, Writing
<1>11. ClaimsOpen(pc[c], todo[c], "settle", t, rows)
  BY <1>4, <1>9 DEF ClaimsOpen, Holds
<1>12. /\ conn' = [conn EXCEPT ![c] = conn[c]] /\ drafts' = [drafts EXCEPT ![c] = drafts[c]]
       /\ AllOpen(drafts[c]) /\ pc[c] \notin Writing
  BY <1>3, NoChange DEF EventInv, EventsTyped, Writing
<1>13. QED
  BY <1>2, <1>3, <1>10, <1>11, <1>12, QuietStep

LEMMA ExitEvents ==
  ASSUME LedgerInv, LedgerInv', EventInv, NEW c \in Cycles, Report(c) \/ Crash(c)
  PROVE  EventInv'
<1>1. /\ conn' = [conn EXCEPT ![c] = "none"] /\ pc' = [pc EXCEPT ![c] = "start"]
      /\ todo' = [todo EXCEPT ![c] = <<>>] /\ drafts' = [drafts EXCEPT ![c] = <<>>]
      /\ UNCHANGED <<rows, logged>>
  BY DEF Report, Crash, Exit, tables
<1>2. /\ TodoOK("none", "start", <<>>, rows) /\ AllOpen(<<>>)
      /\ ClaimsOpen(pc[c], todo[c], "start", <<>>, rows)
  BY Empties DEF TodoOK, AllOpen, ClaimsOpen, Settling, Writing
<1>3. EventsTyped' /\ TodoInv' /\ \A i \in DOMAIN rows' : RowOK(i)'
  BY <1>1, <1>2, QuietRows
<1>4. CASE Report(c)
  <2>1. pc[c] \notin Writing /\ crashes' = crashes
    BY <1>4 DEF Report, Writing
  <2>2. LostInv'
    BY <1>1, <2>1, QuietLost
  <2>3. QED
    BY <1>3, <2>2 DEF EventInv
<1>5. CASE Crash(c)
  <2> DEFINE h == Head(todo[c])
  <2>1. \A e \in Cycles \ {c} : pc'[e] = pc[e] /\ todo'[e] = todo[e]
    BY <1>1, OneMoves
  <2>2. ASSUME NEW i \in Lost' PROVE i \in Lost \cup {h}
    <3>1. i \in Unlogged /\ \A e \in Cycles : ~Writes(pc'[e], todo'[e], i, rows[i].status)
      BY <1>1, <2>2 DEF Lost, Unlogged
    <3>2. i # h => ~Writes(pc[c], todo[c], i, rows[i].status)
      BY DEF Writes
    <3>3. i # h => \A e \in Cycles : ~Writes(pc[e], todo[e], i, rows[i].status)
      BY <2>1, <3>1, <3>2
    <3>4. QED
      BY <3>1, <3>3 DEF Lost
  <2> HIDE DEF h
  <2>3. /\ IsFiniteSet(Lost \cup {h}) /\ Cardinality(Lost \cup {h}) \in Nat
        /\ Cardinality(Lost \cup {h}) <= Cardinality(Lost) + 1
    <3>1. IsFiniteSet(Lost) /\ Cardinality(Lost) \in Nat
      BY FS_CardinalityType DEF EventInv, LostInv
    <3>2. /\ IsFiniteSet(Lost \cup {h})
          /\ Cardinality(Lost \cup {h}) = Cardinality(Lost) \/ Cardinality(Lost \cup {h}) = Cardinality(Lost) + 1
      BY <3>1, FS_AddElement
    <3>3. QED
      BY <3>1, <3>2
  <2>4. Lost' \in SUBSET (Lost \cup {h})
    BY <2>2
  <2>5. IsFiniteSet(Lost') /\ Cardinality(Lost') <= Cardinality(Lost \cup {h}) /\ Cardinality(Lost') \in Nat
    BY <2>3, <2>4, FS_Subset, FS_CardinalityType
  <2>6. crashes' = crashes + 1
    BY <1>5 DEF Crash
  <2>7. LostInv'
    <3>1. Cardinality(Lost) \in Nat /\ Cardinality(Lost) <= crashes /\ crashes \in Nat
      BY FS_CardinalityType DEF EventInv, LostInv
    <3>2. QED
      BY <2>3, <2>5, <2>6, <3>1 DEF LostInv
  <2>8. QED
    BY <1>3, <2>7 DEF EventInv
<1>6. QED
  BY <1>4, <1>5

LEMMA WriteIntentEvents ==
  ASSUME LedgerInv, LedgerInv', EventInv, NEW c \in Cycles, WriteIntent(c)
  PROVE  EventInv'
<1> DEFINE old == drafts[c]
           d == Head(old)
           none == [PAPER_INTENDED |-> 0, SETTLED |-> 0]
<1>0. PICK n : n = Len(rows) + 1
  OBVIOUS
<1>1. /\ pc[c] = "intend" /\ old # <<>> /\ rows' = Append(rows, d)
      /\ logged' = Append(logged, none)
      /\ drafts' = [drafts EXCEPT ![c] = Tail(old)]
      /\ todo' = [todo EXCEPT ![c] = <<n>>] /\ pc' = [pc EXCEPT ![c] = "intend event"]
      /\ UNCHANGED <<conn, crashes>>
  BY <1>0 DEF WriteIntent
<1>2. /\ Len(rows) \in Nat /\ DOMAIN rows = 1 .. Len(rows) /\ IsSequence(rows)
      /\ DOMAIN logged = DOMAIN rows /\ IsSequence(logged) /\ Len(logged) = Len(rows)
      /\ IsSequence(old) /\ AllOpen(old) /\ n \notin DOMAIN rows
  BY <1>0, RowsIndexed DEF EventInv, EventsTyped, LedgerInv, CyclesInv, CycleOK, DraftsOf
<1>3. d.status = "PAPER_INTENDED" /\ AllOpen(Tail(old))
  <2> HIDE DEF old
  <2>1. /\ 1 \in DOMAIN old /\ Head(old) = old[1]
        /\ \A i \in DOMAIN Tail(old) : i + 1 \in DOMAIN old /\ Tail(old)[i] = old[i + 1]
    BY <1>1, <1>2, Tails
  <2>2. QED
    BY <1>2, <2>1 DEF AllOpen
<1>4. /\ IsSequence(rows') /\ DOMAIN rows' = 1 .. n /\ rows'[n] = d
      /\ \A i \in DOMAIN rows : rows'[i] = rows[i]
      /\ IsSequence(logged') /\ DOMAIN logged' = 1 .. n /\ logged'[n] = none
      /\ \A i \in DOMAIN rows : logged'[i] = logged[i]
  <2> HIDE DEF d, none
  <2>1. /\ IsSequence(Append(rows, d)) /\ DOMAIN Append(rows, d) = 1 .. Len(rows) + 1
        /\ \A i \in DOMAIN rows : Append(rows, d)[i] = rows[i]
        /\ Append(rows, d)[Len(rows) + 1] = d
    BY <1>2, Appending
  <2>2. /\ IsSequence(Append(logged, none)) /\ DOMAIN Append(logged, none) = 1 .. Len(logged) + 1
        /\ \A i \in DOMAIN logged : Append(logged, none)[i] = logged[i]
        /\ Append(logged, none)[Len(logged) + 1] = none
    BY <1>2, Appending
  <2>3. QED
    BY <1>0, <1>1, <1>2, <2>1, <2>2
<1>5. Len(rows') = n /\ Len(logged') = n
  <2>1. Len(rows') \in Nat /\ DOMAIN rows' = 1 .. Len(rows') /\ Len(logged') \in Nat /\ DOMAIN logged' = 1 .. Len(logged')
    BY <1>4, Lengths
  <2>2. \A m \in Nat : 1 .. m = 1 .. n => m = n
    <3>1. ASSUME NEW m \in Nat, 1 .. m = 1 .. n PROVE m = n
      <4>1. n \in 1 .. m /\ (m = 0 \/ m \in 1 .. n)
        BY <1>0, <1>2, <3>1
      <4>2. QED
        BY <1>0, <1>2, <4>1
    <3>2. QED
      BY <3>1
  <2>3. QED
    BY <1>4, <2>1, <2>2
<1>6. \A i \in DOMAIN rows' : i \in DOMAIN rows \/ i = n
  BY <1>0, <1>2, <1>4
<1>7. n \in DOMAIN rows'
  BY <1>0, <1>2, <1>4
<1> HIDE DEF d
<1>8. EventsTyped'
  <2>1. \A e \in Cycles : AllOpen(drafts'[e])
    <3> HIDE DEF old
    <3>1. QED
      BY <1>1, <1>3, DraftsTyped
  <2>2. \A i \in DOMAIN rows' : logged'[i] \in [PAPER_INTENDED : Nat, SETTLED : Nat]
    BY <1>4, <1>6 DEF EventInv, EventsTyped
  <2>3. QED
    BY <1>4, <1>5, <2>1, <2>2 DEF EventsTyped
<1> HIDE DEF old
<1>9. TodoOK(conn[c], "intend event", <<n>>, rows')
  <2> DEFINE t == <<n>>
  <2>1. t \in Seq({n}) /\ Len(t) = 1 /\ t[1] = n /\ t # <<>>
    OBVIOUS
  <2>2. DOMAIN t = {1} /\ IsSequence(t)
    BY <2>1 DEF IsSequence
  <2> HIDE DEF t
  <2>3. TodoOK(conn[c], "intend event", t, rows')
    BY <1>7, <2>1, <2>2 DEF TodoOK, Settling
  <2>4. QED
    BY <2>3 DEF t
<1>10. Grown(rows', rows)
  BY <1>0, <1>2, <1>4 DEF Grown
<1>11. conn' = [conn EXCEPT ![c] = conn[c]]
  BY <1>1, NoChange
<1>12. TodoInv'
  BY <1>1, <1>9, <1>10, <1>11, OneTodo
<1>13. /\ pc'[c] = "intend event" /\ todo'[c] = <<n>>
       /\ \A e \in Cycles \ {c} : pc'[e] = pc[e] /\ todo'[e] = todo[e]
  BY <1>1, OneMoves
<1>14. \A i : Claims(i)' \subseteq Claims(i)
  <2>1. "intend event" \notin Settling
    BY DEF Settling
  <2>2. QED
    BY <1>1, <2>1, OneMoves
<1>15. ASSUME NEW i \in DOMAIN rows' PROVE RowOK(i)'
  <2>1. CASE i \in DOMAIN rows
    BY <1>4, <1>14, <2>1, RowGoesOn
  <2>2. CASE i = n
    <3>1. Claims(n) = {}
      BY <1>2 DEF Claims, Holds, EventInv, TodoInv, TodoOK
    <3>2. Claims(n)' = {}
      BY <1>14, <3>1
    <3>3. Cardinality(Claims(n)') = 0
      BY <3>2, FS_EmptySet
    <3>4. Width(rows'[n].store) >= 0
      BY ClaimsFinite DEF Width
    <3>5. Width(rows[n].store)' = Width(rows'[n].store)
      BY DEF Width
    <3>6. rows'[n].status = "PAPER_INTENDED" /\ logged'[n].SETTLED = 0
      BY <1>3, <1>4
    <3>7. RowOK(n)'
      BY <3>3, <3>4, <3>5, <3>6 DEF RowOK, Statuses
    <3>8. QED
      BY <2>2, <3>7
  <2>3. QED
    BY <1>6, <2>1, <2>2
<1>16. Lost' \subseteq Lost
  <2>1. ASSUME NEW i \in Lost' PROVE i \in Lost
    <3>1. /\ i \in DOMAIN rows' /\ logged'[i][rows'[i].status] = 0
          /\ \A e \in Cycles : ~Writes(pc'[e], todo'[e], i, rows'[i].status)
      BY <2>1 DEF Lost, Unlogged
    <3>2. i # n
      <4>1. Writes("intend event", <<n>>, n, "PAPER_INTENDED")
        <5>1. Head(<<n>>) = n
          OBVIOUS
        <5>2. \A t : Head(t) = n => Writes("intend event", t, n, "PAPER_INTENDED")
          BY DEF Writes
        <5>3. QED
          BY <5>1, <5>2
      <4>2. rows'[n].status = "PAPER_INTENDED"
        BY <1>3, <1>4
      <4>3. Writes(pc'[c], todo'[c], n, rows'[n].status)
        BY <1>13, <4>1, <4>2
      <4>4. QED
        BY <3>1, <4>3
    <3>3. i \in DOMAIN rows /\ rows'[i] = rows[i] /\ logged'[i] = logged[i]
      BY <1>4, <1>6, <3>1, <3>2
    <3>4. ~Writes(pc[c], todo[c], i, rows[i].status)
      BY <1>1 DEF Writes
    <3>5. \A e \in Cycles : ~Writes(pc[e], todo[e], i, rows[i].status)
      BY <1>13, <3>1, <3>3, <3>4
    <3>6. QED
      BY <3>1, <3>3, <3>5 DEF Lost, Unlogged
  <2>2. QED
    BY <2>1
<1>17. QED
  BY <1>1, <1>8, <1>12, <1>15, <1>16, LostLess DEF EventInv

LEMMA WriteSettledEvents ==
  ASSUME LedgerInv, LedgerInv', EventInv, NEW c \in Cycles, WriteSettled(c)
  PROVE  EventInv'
<1>1. PICK h : h = Head(todo[c])
  OBVIOUS
<1>2. /\ pc[c] = "settle" /\ todo[c] # <<>> /\ pc' = [pc EXCEPT ![c] = "settle event"]
      /\ rows' = [rows EXCEPT ![h].status = "SETTLED"]
      /\ UNCHANGED <<conn, todo, drafts, logged, crashes>>
  BY <1>1 DEF WriteSettled
<1>3. TodoOK(conn[c], pc[c], todo[c], rows)
  BY DEF EventInv, TodoInv
<1>4. h \in DOMAIN rows
  BY <1>1, <1>2, <1>3, FirstIn DEF TodoOK
<1>5. DOMAIN rows' = DOMAIN rows
  BY <1>2
<1>6. ASSUME NEW i \in DOMAIN rows
      PROVE  /\ rows'[i].store = rows[i].store
             /\ rows'[i].status \in {rows[i].status, "SETTLED"}
             /\ i = h => rows'[i].status = "SETTLED"
             /\ i # h => rows'[i] = rows[i]
  <2>1. CASE i # h
    BY <1>2, <2>1
  <2>2. CASE i = h
    <3> DEFINE row == rows[i]
               s == row.store  m == row.market  d == row.side  k == row.stake  t == row.status
    <3>1. row = [status |-> t, store |-> s, market |-> m, side |-> d, stake |-> k]
      BY DEF LedgerInv, RowsShaped, Shaped
    <3>2. rows'[i] = [row EXCEPT !.status = "SETTLED"]
      BY <1>2, <2>2
    <3>3. s = row.store
      OBVIOUS
    <3> HIDE DEF s, m, d, k, t, row
    <3>4. rows'[i] = [status |-> "SETTLED", store |-> s, market |-> m, side |-> d, stake |-> k]
      BY <3>1, <3>2
    <3>5. rows'[i].store = row.store /\ rows'[i].status = "SETTLED"
      BY <3>3, <3>4
    <3>6. QED
      BY <2>2, <3>5 DEF row
  <2>3. QED
    BY <2>1, <2>2
<1>7. Grown(rows', rows)
  BY <1>5, <1>6 DEF Grown
<1>8. TodoOK(conn[c], "settle event", todo[c], rows')
  <2>1. TodoOK(conn[c], pc[c], todo[c], rows')
    BY <1>3, <1>7, LaterTodo
  <2>2. rows'[h].status = "SETTLED"
    BY <1>4, <1>6
  <2>3. QED
    BY <1>1, <1>2, <2>1, <2>2 DEF TodoOK, Settling
<1>9. /\ todo' = [todo EXCEPT ![c] = todo[c]] /\ conn' = [conn EXCEPT ![c] = conn[c]]
  <2>1. todo = [todo EXCEPT ![c] = todo[c]]
    BY DEF EventInv, TodoInv
  <2>2. QED
    BY <1>2, <2>1, NoChange
<1>10. TodoInv'
  BY <1>2, <1>7, <1>8, <1>9, OneTodo
<1>11. ASSUME NEW i PROVE Claims(i)' \subseteq Claims(i)
  <2>1. pc[c] \in Settling
    BY <1>2 DEF Settling
  <2>2. QED
    BY <1>2, <1>9, <2>1, OneMoves
<1>12. ASSUME NEW i \in DOMAIN rows' PROVE RowOK(i)'
  BY <1>2, <1>5, <1>6, <1>11, RowGoesOn
<1>13. EventsTyped'
  <2>1. Len(rows') = Len(rows)
    <3>1. /\ Len(rows') \in Nat /\ DOMAIN rows' = 1 .. Len(rows')
          /\ Len(rows) \in Nat /\ DOMAIN rows = 1 .. Len(rows)
      BY Lengths DEF LedgerInv, RowsShaped
    <3>2. \A m, k \in Nat : 1 .. m = 1 .. k => m = k
      <4>1. ASSUME NEW m \in Nat, NEW k \in Nat, 1 .. m = 1 .. k PROVE m = k
        <5>1. (m = 0 \/ m \in 1 .. k) /\ (k = 0 \/ k \in 1 .. m)
          BY <4>1
        <5>2. QED
          BY <4>1, <5>1
      <4>2. QED
        BY <4>1
    <3>3. QED
      BY <1>5, <3>1, <3>2
  <2>2. QED
    BY <1>2, <1>5, <2>1 DEF EventInv, EventsTyped
<1>14. Lost' \subseteq Lost
  <2>1. /\ pc'[c] = "settle event" /\ todo'[c] = todo[c]
        /\ \A e \in Cycles \ {c} : pc'[e] = pc[e] /\ todo'[e] = todo[e]
    BY <1>2, <1>9, OneMoves, ZenonT(30)
  <2>2. ASSUME NEW i \in Lost' PROVE i \in Lost
    <3>1. /\ i \in DOMAIN rows /\ logged[i][rows'[i].status] = 0
          /\ \A e \in Cycles : ~Writes(pc'[e], todo'[e], i, rows'[i].status)
      BY <1>2, <1>5, <2>2 DEF Lost, Unlogged
    <3>2. i # h
      <4>1. Writes("settle event", todo[c], h, "SETTLED")
        BY <1>1 DEF Writes
      <4>2. Writes(pc'[c], todo'[c], h, rows'[h].status)
        BY <1>4, <1>6, <2>1, <4>1
      <4>3. QED
        BY <3>1, <4>2
    <3>3. rows'[i] = rows[i]
      BY <1>6, <3>1, <3>2
    <3>4. ~Writes(pc[c], todo[c], i, rows[i].status)
      BY <1>2 DEF Writes
    <3>5. \A e \in Cycles : ~Writes(pc[e], todo[e], i, rows[i].status)
      BY <2>1, <3>1, <3>3, <3>4
    <3>6. QED
      BY <3>1, <3>3, <3>5 DEF Lost, Unlogged
  <2>3. QED
    BY <2>2
<1>15. QED
  BY <1>2, <1>10, <1>12, <1>13, <1>14, LostLess DEF EventInv

LEMMA WriteEventEvents ==
  ASSUME LedgerInv, LedgerInv', EventInv, NEW c \in Cycles, WriteEvent(c)
  PROVE  EventInv'
<1>1. PICK h, t, y, p :
        /\ h = Head(todo[c]) /\ t = Tail(todo[c]) /\ y = EventType(c)
        /\ p = IF pc[c] = "intend event" THEN "intend" ELSE "settle"
  OBVIOUS
<1>2. /\ pc[c] \in Writing /\ pc' = [pc EXCEPT ![c] = p] /\ todo' = [todo EXCEPT ![c] = t]
      /\ logged' = [logged EXCEPT ![h][y] = @ + 1]
      /\ UNCHANGED <<conn, drafts, rows, crashes>>
  BY <1>1 DEF WriteEvent, Writing
<1>3. /\ TodoOK(conn[c], pc[c], todo[c], rows)
      /\ IsSequence(todo[c]) /\ todo[c] # <<>>
  BY <1>2 DEF EventInv, TodoInv, TodoOK
<1>4. /\ IsSequence(t) /\ 1 \in DOMAIN todo[c] /\ h = todo[c][1] /\ h \in DOMAIN rows
      /\ \A k \in DOMAIN t : k + 1 # 1 /\ k + 1 \in DOMAIN todo[c] /\ t[k] = todo[c][k + 1]
      /\ \A k, l \in DOMAIN t : k + 1 = l + 1 => k = l
  <2>1. /\ IsSequence(t) /\ 1 \in DOMAIN todo[c] /\ h = todo[c][1]
        /\ \A k \in DOMAIN t : k + 1 # 1 /\ k + 1 \in DOMAIN todo[c] /\ t[k] = todo[c][k + 1]
        /\ \A k, l \in DOMAIN t : k + 1 = l + 1 => k = l
    BY <1>1, <1>3, Tails
  <2>2. QED
    BY <1>3, <2>1 DEF TodoOK
<1>5. \A i : Holds(t, i) => Holds(todo[c], i) /\ i # h
  <2>1. ASSUME NEW k \in DOMAIN t
        PROVE  Holds(todo[c], t[k]) /\ t[k] # h
    <3>1. k + 1 \in DOMAIN todo[c] /\ t[k] = todo[c][k + 1] /\ k + 1 # 1
      BY <1>4
    <3>2. Holds(todo[c], t[k])
      BY <3>1 DEF Holds
    <3>3. todo[c][k + 1] # todo[c][1]
      BY <1>3, <1>4, <3>1 DEF TodoOK
    <3>4. QED
      BY <1>4, <3>1, <3>2, <3>3
  <2>2. QED
    BY <2>1 DEF Holds
<1>6. \/ pc[c] = "intend event" /\ y = "PAPER_INTENDED" /\ p = "intend"
      \/ pc[c] = "settle event" /\ y = "SETTLED" /\ p = "settle" /\ rows[h].status = "SETTLED"
  <2>1. CASE pc[c] = "intend event"
    <3>1. y = "PAPER_INTENDED" /\ p = "intend"
      BY <1>1, <2>1 DEF EventType
    <3>2. QED
      BY <2>1, <3>1
  <2>2. CASE pc[c] = "settle event"
    <3>1. rows[h].status = "SETTLED"
      BY <1>1, <1>3, <2>2 DEF TodoOK
    <3>2. y = "SETTLED" /\ p = "settle"
      BY <1>1, <2>2 DEF EventType
    <3>3. QED
      BY <2>2, <3>1, <3>2
  <2>3. QED
    BY <1>2, <2>1, <2>2 DEF Writing
<1>7. TodoOK(conn[c], p, t, rows)
  <2>1. p \notin Writing /\ (p \in Settling => pc[c] \in Settling)
    BY <1>6 DEF Writing, Settling
  <2>2. \A k, l \in DOMAIN t : t[k] = t[l] => k = l
    <3>1. ASSUME NEW k \in DOMAIN t, NEW l \in DOMAIN t, t[k] = t[l]
          PROVE  k = l
      <4>1. /\ k + 1 \in DOMAIN todo[c] /\ l + 1 \in DOMAIN todo[c]
            /\ todo[c][k + 1] = todo[c][l + 1]
        BY <1>4, <3>1
      <4>2. k + 1 = l + 1
        BY <1>3, <4>1 DEF TodoOK
      <4>3. QED
        BY <1>4, <4>2
    <3>2. QED
      BY <3>1
  <2>3. p # "settle event"
    BY <1>6
  <2>4. ASSUME NEW k \in DOMAIN t
        PROVE  t[k] \in DOMAIN rows /\ (p \in Settling => rows[t[k]].store = conn[c])
    <3>1. k + 1 \in DOMAIN todo[c] /\ t[k] = todo[c][k + 1]
      BY <1>4
    <3>2. QED
      BY <1>3, <2>1, <3>1 DEF TodoOK
  <2>5. IsSequence(t)
    BY <1>4
  <2>6. QED
    BY <2>1, <2>2, <2>3, <2>4, <2>5 DEF TodoOK
<1>8. conn' = [conn EXCEPT ![c] = conn[c]] /\ drafts' = drafts /\ rows' = rows
  BY <1>2, NoChange
<1>9. TodoInv'
  BY <1>2, <1>7, <1>8, OneTodo DEF Grown
<1>10. /\ pc'[c] = p /\ todo'[c] = t
       /\ \A e \in Cycles \ {c} : pc'[e] = pc[e] /\ todo'[e] = todo[e]
  BY <1>2, OneMoves, ZenonT(30)
<1>11. \A i : Claims(i)' \subseteq Claims(i)
  <2>1. p \in Settling => pc[c] \in Settling
    BY <1>6 DEF Settling
  <2>2. \A i : Holds(t, i) => Holds(todo[c], i)
    BY <1>5
  <2>3. QED
    BY <1>2, <2>1, <2>2, OneMoves
<1>12. /\ IsSequence(logged) /\ DOMAIN logged = 1 .. Len(logged) /\ Len(logged) \in Nat
       /\ Len(logged) = Len(rows) /\ DOMAIN logged = DOMAIN rows
       /\ \A i \in DOMAIN rows : logged[i] \in [PAPER_INTENDED : Nat, SETTLED : Nat]
  BY RowsIndexed, Lengths DEF EventInv, EventsTyped
<1>13. /\ DOMAIN logged' = DOMAIN logged
       /\ \A i \in DOMAIN rows : /\ i # h => logged'[i] = logged[i]
                                 /\ i = h => logged'[i] = [logged[h] EXCEPT ![y] = @ + 1]
  BY <1>2, <1>12
<1>14. /\ logged'[h] \in [PAPER_INTENDED : Nat, SETTLED : Nat]
       /\ y = "PAPER_INTENDED" => /\ logged'[h].PAPER_INTENDED = logged[h].PAPER_INTENDED + 1
                                  /\ logged'[h].SETTLED = logged[h].SETTLED
       /\ y = "SETTLED" => /\ logged'[h].SETTLED = logged[h].SETTLED + 1
                           /\ logged'[h].PAPER_INTENDED = logged[h].PAPER_INTENDED
  <2> DEFINE r == logged[h]
  <2>1. logged'[h] = [r EXCEPT ![y] = @ + 1] /\ r \in [PAPER_INTENDED : Nat, SETTLED : Nat]
    BY <1>4, <1>12, <1>13
  <2> HIDE DEF r
  <2>2. CASE y = "PAPER_INTENDED"
    BY <2>1, <2>2 DEF r
  <2>3. CASE y = "SETTLED"
    BY <2>1, <2>3 DEF r
  <2>4. QED
    BY <1>6, <2>2, <2>3
<1>15. EventsTyped'
  <2>1. \A i \in DOMAIN rows : logged'[i] \in [PAPER_INTENDED : Nat, SETTLED : Nat]
    BY <1>12, <1>13, <1>14
  <2>2. IsSequence(logged') /\ Len(logged') = Len(rows)
    <3>1. logged' = [i \in 1 .. Len(logged) |-> logged'[i]]
      BY <1>2, <1>12
    <3>2. logged' \in [1 .. Len(logged) -> {logged'[i] : i \in DOMAIN logged'}]
      BY <1>12, <1>13, <3>1
    <3>3. IsSequence(logged')
      <4>1. Len(logged) \in Nat
        BY <1>12
      <4>2. QED
        BY <3>2, <4>1 DEF IsSequence
    <3>4. Len(logged') \in Nat /\ 1 .. Len(logged') = 1 .. Len(logged)
      BY <1>12, <1>13, <3>3, Lengths
    <3>5. Len(logged') = Len(logged)
      <4>1. /\ Len(logged') = 0 \/ Len(logged') \in 1 .. Len(logged)
            /\ Len(logged) = 0 \/ Len(logged) \in 1 .. Len(logged')
        BY <1>12, <3>4
      <4>2. QED
        BY <1>12, <3>4, <4>1
    <3>6. QED
      BY <1>12, <3>3, <3>5
  <2>3. QED
    BY <1>8, <2>1, <2>2 DEF EventInv, EventsTyped
<1>16. ASSUME NEW i \in DOMAIN rows' PROVE RowOK(i)'
  <2>1. i \in DOMAIN rows /\ rows'[i] = rows[i]
    BY <1>8
  <2>2. CASE i # h \/ y = "PAPER_INTENDED"
    <3>1. logged'[i].SETTLED = logged[i].SETTLED
      BY <1>13, <1>14, <2>1, <2>2
    <3>2. QED
      BY <1>11, <2>1, <3>1, RowGoesOn
  <2>3. CASE i = h /\ y = "SETTLED"
    <3>1. pc[c] = "settle event" /\ rows[h].status = "SETTLED"
      BY <1>6, <2>3
    <3>2. c \in Claims(h)
      BY <1>4, <3>1 DEF Claims, Settling, Holds
    <3>3. c \notin Claims(h)'
      BY <1>5, <1>10 DEF Claims
    <3>4. Claims(h)' \in SUBSET (Claims(h) \ {c})
      BY <1>11, <3>3
    <3>5. /\ IsFiniteSet(Claims(h) \ {c})
          /\ Cardinality(Claims(h) \ {c}) = Cardinality(Claims(h)) - 1
          /\ Cardinality(Claims(h)) \in Nat
      BY <3>2, ClaimsFinite, FS_RemoveElement
    <3>6. Cardinality(Claims(h)') <= Cardinality(Claims(h)) - 1 /\ Cardinality(Claims(h)') \in Nat
      BY <3>4, <3>5, FS_Subset, FS_CardinalityType
    <3>7. logged'[h].SETTLED = logged[h].SETTLED + 1 /\ logged[h].SETTLED \in Nat
      BY <1>4, <1>12, <1>14, <2>3
    <3>8. RowOK(h) /\ Width(rows[h].store) \in Nat
      BY <1>4, ClaimsFinite DEF EventInv, Width
    <3>9. logged'[h].SETTLED + Cardinality(Claims(h)') <= Width(rows[h].store)
      BY <3>5, <3>6, <3>7, <3>8 DEF RowOK
    <3>10. Width(rows[h].store)' = Width(rows[h].store)
      BY <2>1, <2>3 DEF Width
    <3>11. rows'[h] = rows[h]
      BY <1>8
    <3>12. RowOK(h)'
      BY <3>1, <3>9, <3>10, <3>11 DEF RowOK, Statuses
    <3>13. QED
      BY <2>3, <3>12
  <2>4. QED
    BY <1>6, <2>2, <2>3
<1>17. Lost' \subseteq Lost
  <2>1. ASSUME NEW i \in Lost' PROVE i \in Lost
    <3> DEFINE s == rows[i].status
    <3>1. /\ i \in DOMAIN rows /\ logged'[i][s] = 0 /\ s \in Statuses
          /\ \A e \in Cycles : ~Writes(pc'[e], todo'[e], i, s)
      BY <1>8, <2>1 DEF Lost, Unlogged, EventInv, RowOK
    <3> HIDE DEF s
    <3>2. logged[i][s] = 0 /\ ~(i = h /\ s = y)
      <4>1. CASE i # h
        BY <1>13, <3>1, <4>1
      <4>2. CASE i = h
        <5>1. /\ logged[h].PAPER_INTENDED \in Nat /\ logged[h].SETTLED \in Nat
              /\ logged'[h][s] = 0
          BY <1>4, <1>12, <3>1, <4>2
        <5>2. CASE s = "PAPER_INTENDED"
          <6>1. logged'[h].PAPER_INTENDED = 0
            BY <5>1, <5>2
          <6>2. y # "PAPER_INTENDED"
            BY <1>14, <5>1, <6>1
          <6>3. y = "SETTLED"
            BY <1>6, <6>2
          <6>4. logged[h].PAPER_INTENDED = 0
            BY <1>14, <6>1, <6>3
          <6>5. QED
            BY <4>2, <5>2, <6>2, <6>4
        <5>3. CASE s = "SETTLED"
          <6>1. logged'[h].SETTLED = 0
            BY <5>1, <5>3
          <6>2. y # "SETTLED"
            BY <1>14, <5>1, <6>1
          <6>3. y = "PAPER_INTENDED"
            BY <1>6, <6>2
          <6>4. logged[h].SETTLED = 0
            BY <1>14, <6>1, <6>3
          <6>5. QED
            BY <4>2, <5>3, <6>2, <6>4
        <5>4. QED
          BY <3>1, <5>2, <5>3 DEF Statuses
      <4>3. QED
        BY <4>1, <4>2
    <3>3. ~Writes(pc[c], todo[c], i, s)
      BY <1>1, <1>6, <3>2 DEF Writes
    <3>4. \A e \in Cycles : ~Writes(pc[e], todo[e], i, s)
      BY <1>10, <3>1, <3>3
    <3>5. QED
      BY <3>1, <3>2, <3>4 DEF Lost, Unlogged, s
  <2>2. QED
    BY <2>1
<1>18. QED
  BY <1>2, <1>9, <1>15, <1>16, <1>17, LostLess DEF EventInv

LEMMA IngestEvents ==
  ASSUME LedgerInv, EventInv, NEW store, conn' = [conn EXCEPT ![Ingest] = store],
         UNCHANGED <<local, rows, logged, crashes>>
  PROVE  EventInv'
<1>1. \A c \in Cycles : conn'[c] = conn[c]
  BY CycleAssumption DEF LedgerInv, OneInside, Processes
<1>2. UNCHANGED <<pc, todo, drafts, rows, logged, crashes>>
  BY DEF local
<1>3. TodoInv'
  BY <1>1, <1>2 DEF EventInv, TodoInv
<1>4. EventsTyped' /\ \A i \in DOMAIN rows' : RowOK(i)'
  BY <1>2 DEF EventInv, EventsTyped, RowOK, Claims, Width
<1>5. Lost' = Lost
  BY <1>2 DEF Lost, Unlogged
<1>6. QED
  BY <1>2, <1>3, <1>4, <1>5 DEF EventInv, LostInv

LEMMA EventInit == Init => EventInv
<1>1. SUFFICES ASSUME Init PROVE EventInv
  OBVIOUS
<1>2. EventsTyped
  BY <1>1, Empties DEF Init, EventsTyped, AllOpen
<1>3. TodoInv
  BY <1>1, Empties DEF Init, TodoInv, TodoOK, Settling, Writing
<1>4. DOMAIN rows = {}
  BY <1>1, Empties DEF Init
<1>5. Lost = {}
  BY <1>4 DEF Lost, Unlogged
<1>6. LostInv
  BY <1>1, <1>5, FS_EmptySet DEF Init, LostInv
<1>7. QED
  BY <1>2, <1>3, <1>4, <1>6 DEF EventInv

LEMMA EventStep == LedgerInv /\ EventInv /\ [Next]_vars => EventInv'
<1>1. SUFFICES ASSUME LedgerInv, EventInv, [Next]_vars PROVE EventInv'
  OBVIOUS
<1>2. LedgerInv'
  BY <1>1, LedgerStep
<1>3. CASE UNCHANGED vars
  <2>1. UNCHANGED <<conn, pc, todo, drafts, rows, logged, crashes>>
    BY <1>3 DEF vars, local, tables
  <2>2. TodoInv' /\ EventsTyped' /\ \A i \in DOMAIN rows' : RowOK(i)'
    BY <1>1, <2>1 DEF EventInv, TodoInv, EventsTyped, RowOK, Claims, Width
  <2>3. Lost' = Lost
    BY <2>1 DEF Lost, Unlogged
  <2>4. QED
    BY <1>1, <2>1, <2>2, <2>3 DEF EventInv, LostInv
<1>4. ASSUME NEW c \in Cycles, Step(c) \/ Crash(c)
      PROVE  EventInv'
  BY <1>1, <1>2, <1>4, ConnectEvents, ConsiderEvents, WriteIntentEvents, WriteEventEvents,
     SettleEvents, WriteSettledEvents, ExitEvents DEF Step
<1>5. CASE StartIngest \/ EndIngest
  <2>1. PICK store : conn' = [conn EXCEPT ![Ingest] = store]
    BY <1>5 DEF StartIngest, EndIngest
  <2>2. UNCHANGED <<local, rows, logged, crashes>>
    BY <1>5 DEF StartIngest, EndIngest, tables
  <2>3. QED
    BY <1>1, <2>1, <2>2, IngestEvents
<1>6. QED
  BY <1>1, <1>3, <1>4, <1>5 DEF Next

LEMMA EventInvariant == Spec => []EventInv
<1>1. QED
  BY LedgerInit, LedgerStep, EventInit, EventStep, PTL DEF Spec

(* A settlement is logged once in DuckDB and at most as often as there are *)
(* cycles in SQLite, where a cycle settles the rows it found open although *)
(* others have settled them since (settle_paper_intents).                  *)
THEOREM LedgerSettlesOnce == Spec => []SettledOnce
<1>1. ASSUME EventInv, NEW i \in DOMAIN rows
      PROVE  logged[i].SETTLED <= Width(rows[i].store)
  <2>1. RowOK(i) /\ logged[i].SETTLED \in Nat
    BY <1>1 DEF EventInv, EventsTyped
  <2>2. Cardinality(Claims(i)) \in Nat /\ Width(rows[i].store) \in Nat
    BY ClaimsFinite DEF Width
  <2>3. QED
    BY <2>1, <2>2 DEF RowOK
<1>2. EventInv => SettledOnce
  BY <1>1 DEF SettledOnce
<1>3. QED
  BY EventInvariant, <1>2, PTL

(* No more rows lack their event than processes died: what is not covered  *)
(* by the next event of some cycle was left behind by a crash between a    *)
(* row and its event, in whichever phase, and only the last of them.       *)
THEOREM LedgerLogsRows == Spec => []EventsFollowRows
<1>1. ASSUME EventInv PROVE EventsFollowRows
  <2> DEFINE writing == {c \in Cycles : pc[c] \in {"intend event", "settle event"}}
             S == Unlogged \ {Head(todo[c]) : c \in writing}
  <2>1. S \in SUBSET Lost
    BY DEF Lost, Writes
  <2>2. IsFiniteSet(Lost) /\ Cardinality(Lost) <= crashes /\ crashes \in Nat
    BY <1>1 DEF EventInv, LostInv
  <2> HIDE DEF S
  <2>3. Cardinality(S) <= Cardinality(Lost) /\ Cardinality(S) \in Nat /\ Cardinality(Lost) \in Nat
    BY <2>1, <2>2, FS_Subset, FS_CardinalityType
  <2>4. Cardinality(S) <= crashes
    BY <2>2, <2>3
  <2>5. QED
    BY <2>4 DEF S, EventsFollowRows
<1>2. QED
  BY EventInvariant, <1>1, PTL

-----------------------------------------------------------------------------
(* Sums, whose laws are those of the cardinality of their units. *)

LEMMA SumNat ==
  ASSUME NEW S, IsFiniteSet(S), NEW f, \A i \in S : f[i] \in Nat
  PROVE  IsFiniteSet(Units(S, f)) /\ SumOver(S, f) \in Nat
<1> DEFINE Of == [i \in S |-> {i} \X (1 .. f[i])]
<1>1. \A i \in S : IsFiniteSet(Of[i])
  <2> SUFFICES ASSUME NEW i \in S PROVE IsFiniteSet({i} \X (1 .. f[i]))
    OBVIOUS
  <2>1. IsFiniteSet(1 .. f[i])
    <3>1. f[i] \in Int
      OBVIOUS
    <3>2. QED
      BY <3>1, FS_Interval
  <2>2. IsFiniteSet({i})
    BY FS_Singleton
  <2>3. QED
    BY <2>1, <2>2, FS_Product
<1> DEFINE Sets == {Of[i] : i \in S}
<1>2. IsFiniteSet(Sets)
  <2>1. Of \in Surjection(S, Sets)
    BY DEF Surjection
  <2> HIDE DEF Of, Sets
  <2>2. QED
    BY <2>1, FS_Surjection
<1>3. Units(S, f) = UNION Sets
  BY DEF Units
<1>4. IsFiniteSet(UNION Sets)
  <2>1. \A T \in Sets : IsFiniteSet(T)
    BY <1>1
  <2> HIDE DEF Sets
  <2>2. QED
    BY <1>2, <2>1, FS_UNION
<1>5. QED
  BY <1>3, <1>4, FS_CardinalityType DEF SumOver

LEMMA SumSame ==
  ASSUME NEW S, NEW f, NEW g, \A i \in S : f[i] = g[i]
  PROVE  SumOver(S, f) = SumOver(S, g)
<1>1. Units(S, f) = Units(S, g)
  BY DEF Units
<1>2. QED
  BY <1>1 DEF SumOver

LEMMA SumEmpty == \A f : SumOver({}, f) = 0
BY FS_EmptySet DEF SumOver, Units

LEMMA UnitsOfOne ==
  ASSUME NEW e, NEW f, f[e] \in Nat
  PROVE  IsFiniteSet({e} \X (1 .. f[e])) /\ Cardinality({e} \X (1 .. f[e])) = f[e]
<1>1. IsFiniteSet({e}) /\ Cardinality({e}) = 1
  BY FS_Singleton
<1>2. IsFiniteSet(1 .. f[e]) /\ Cardinality(1 .. f[e]) = f[e]
  <2> DEFINE n == f[e]
  <2>1. n \in Nat /\ 1 \in Int
    OBVIOUS
  <2> HIDE DEF n
  <2>2. IsFiniteSet(1 .. n) /\ Cardinality(1 .. n) = IF 1 > n THEN 0 ELSE n - 1 + 1
    BY <2>1, FS_Interval
  <2>3. IsFiniteSet(1 .. n) /\ Cardinality(1 .. n) = n
    BY <2>1, <2>2
  <2>4. QED
    BY <2>3 DEF n
<1>3. f[e] \in Nat /\ 1 * f[e] = f[e]
  OBVIOUS
<1> DEFINE A == {e}
           B == 1 .. f[e]
<1>4. IsFiniteSet(A \X B) /\ Cardinality(A \X B) = Cardinality(A) * Cardinality(B)
  <2> HIDE DEF A, B
  <2> QED
    BY <1>1, <1>2, FS_Product DEF A, B
<1>5. QED
  BY <1>1, <1>2, <1>3, <1>4

LEMMA SumOfOne ==
  ASSUME NEW e, NEW f, f[e] \in Nat
  PROVE  SumOver({e}, f) = f[e]
<1>1. Units({e}, f) = {e} \X (1 .. f[e])
  BY DEF Units
<1>2. QED
  BY <1>1, UnitsOfOne DEF SumOver

LEMMA SumSplit ==
  ASSUME NEW S, IsFiniteSet(S), NEW f, \A i \in S : f[i] \in Nat, NEW e \in S
  PROVE  SumOver(S, f) = SumOver(S \ {e}, f) + f[e] /\ SumOver(S \ {e}, f) \in Nat
<1> DEFINE R == S \ {e}
           A == Units(R, f)
           B == {e} \X (1 .. f[e])
<1>1. IsFiniteSet(R)
  BY FS_RemoveElement
<1>2. IsFiniteSet(A) /\ SumOver(R, f) \in Nat
  BY <1>1, SumNat
<1>3. IsFiniteSet(B) /\ Cardinality(B) = f[e]
  BY UnitsOfOne
<1>4. Units(S, f) = A \cup B /\ A \cap B = {}
  BY DEF Units
<1>5. Cardinality(A \cup B) = Cardinality(A) + Cardinality(B) - Cardinality(A \cap B)
  <2> HIDE DEF A, B
  <2> QED
    BY <1>2, <1>3, FS_Union
<1>6. Cardinality(A \cap B) = 0
  BY <1>4, FS_EmptySet
<1>7. Cardinality(A) = SumOver(R, f) /\ Cardinality(A \cup B) = SumOver(S, f)
  BY <1>4 DEF SumOver
<1> HIDE DEF A, B, R
<1>8. f[e] \in Nat
  OBVIOUS
<1>9. SumOver(S, f) = SumOver(R, f) + f[e]
  BY <1>2, <1>3, <1>5, <1>6, <1>7, <1>8
<1>10. QED
  BY <1>2, <1>9 DEF R

(* One summand changes. *)
LEMMA SumChange ==
  ASSUME NEW S, IsFiniteSet(S), NEW f, NEW g, NEW e \in S, \A i \in S : f[i] \in Nat,
         g[e] \in Nat, \A i \in S \ {e} : g[i] = f[i]
  PROVE  /\ SumOver(S, g) + f[e] = SumOver(S, f) + g[e]
         /\ SumOver(S, f) \in Nat /\ SumOver(S, g) \in Nat
<1>1. \A i \in S : g[i] \in Nat
  OBVIOUS
<1>2. SumOver(S, f) = SumOver(S \ {e}, f) + f[e] /\ SumOver(S \ {e}, f) \in Nat
  BY SumSplit
<1>3. SumOver(S, g) = SumOver(S \ {e}, g) + g[e] /\ SumOver(S \ {e}, g) \in Nat
  BY <1>1, SumSplit
<1>4. SumOver(S \ {e}, g) = SumOver(S \ {e}, f)
  BY SumSame
<1>5. f[e] \in Nat /\ g[e] \in Nat
  OBVIOUS
<1>6. QED
  BY <1>2, <1>3, <1>4, <1>5

LEMMA SumAtMost ==
  ASSUME NEW S, IsFiniteSet(S), NEW f, NEW m \in Nat, \A i \in S : f[i] \in Nat /\ f[i] <= m
  PROVE  /\ SumOver(S, f) <= Cardinality(S) * m
         /\ SumOver(S, f) \in Nat /\ Cardinality(S) \in Nat
<1>1. IsFiniteSet(1 .. m) /\ Cardinality(1 .. m) = m
  BY FS_Interval
<1>2. /\ IsFiniteSet(S \X (1 .. m))
      /\ Cardinality(S \X (1 .. m)) = Cardinality(S) * m
  BY <1>1, FS_Product
<1>3. Units(S, f) \subseteq S \X (1 .. m)
  BY DEF Units
<1>4. SumOver(S, f) \in Nat /\ Cardinality(S) \in Nat
  BY SumNat, FS_CardinalityType
<1>5. Cardinality(Units(S, f)) <= Cardinality(S \X (1 .. m))
  BY <1>2, <1>3, FS_Subset
<1>6. QED
  BY <1>2, <1>4, <1>5 DEF SumOver

LEMMA SumMonotone ==
  ASSUME NEW S, IsFiniteSet(S), NEW f, NEW g, \A i \in S : f[i] \in Nat /\ g[i] \in Nat /\ f[i] <= g[i]
  PROVE  SumOver(S, f) <= SumOver(S, g)
<1>1. Units(S, f) \subseteq Units(S, g)
  BY DEF Units
<1>2. IsFiniteSet(Units(S, g))
  BY SumNat
<1>3. QED
  BY <1>1, <1>2, FS_Subset DEF SumOver

(* The terms of one sum are terms of the other, under another index. *)
LEMMA SumRenamed ==
  ASSUME NEW S, NEW T, IsFiniteSet(S), IsFiniteSet(T), NEW f, NEW g, NEW h \in Injection(S, T),
         \A i \in S : f[i] \in Nat, \A j \in T : g[j] \in Nat, \A i \in S : f[i] <= g[h[i]]
  PROVE  SumOver(S, f) <= SumOver(T, g)
<1> DEFINE A == Units(S, f)
           B == Units(T, g)
           F == [u \in A |-> <<h[u[1]], u[2]>>]
<1>1. IsFiniteSet(B)
  BY SumNat
<1>2. \A i \in S : h[i] \in T /\ f[i] \in Nat /\ g[h[i]] \in Nat
  BY DEF Injection, IsInjective
<1>3. ASSUME NEW u \in A
      PROVE  /\ u[1] \in S /\ u[2] \in 1 .. f[u[1]] /\ u = <<u[1], u[2]>>
             /\ F[u] = <<h[u[1]], u[2]>> /\ F[u] \in B
  <2>1. PICK i \in S : u \in {i} \X (1 .. f[i])
    BY DEF Units
  <2>2. u[1] = i /\ u[2] \in 1 .. f[i] /\ u = <<i, u[2]>>
    BY <2>1
  <2>3. u[2] \in 1 .. g[h[i]]
    BY <1>2, <2>2
  <2>4. F[u] = <<h[i], u[2]>>
    BY <2>2
  <2>5. <<h[i], u[2]>> \in {h[i]} \X (1 .. g[h[i]]) /\ h[i] \in T
    BY <1>2, <2>3
  <2>6. <<h[i], u[2]>> \in B
    BY <2>5 DEF Units
  <2>7. QED
    BY <2>2, <2>4, <2>6
<1>4. ASSUME NEW u \in A, NEW v \in A, F[u] = F[v] PROVE u = v
  <2>1. h[u[1]] = h[v[1]] /\ u[2] = v[2]
    BY <1>3, <1>4
  <2>2. u[1] = v[1]
    BY <1>3, <2>1 DEF Injection, IsInjective
  <2>3. QED
    BY <1>3, <2>1, <2>2
<1>5. F \in Injection(A, B)
  <2>1. F \in [A -> B]
    BY <1>3
  <2> HIDE DEF F, A, B
  <2>2. QED
    BY <1>4, <2>1 DEF Injection, IsInjective
<1> HIDE DEF F
<1>6. Cardinality(A) <= Cardinality(B)
  <2> HIDE DEF A, B
  <2> QED
    BY <1>1, <1>5, FS_Injection
<1>7. QED
  BY <1>6 DEF SumOver

LEMMA Smallest ==
  ASSUME NEW S \in SUBSET Nat, S # {}
  PROVE  \E m \in S : \A s \in S : m <= s
<1> DEFINE R == {p \in Nat \X Nat : p[1] < p[2]}
<1>1. IsWellFoundedOn(R, Nat)
  BY NatLessThanWellFounded DEF OpToRel
<1>2. PICK m \in S : \A s \in S : ~(<<s, m>> \in R)
  <2> HIDE DEF R
  <2> QED
    BY <1>1, WFMin
<1>3. ASSUME NEW s \in S PROVE m <= s
  <2>1. <<s, m>> \in Nat \X Nat /\ ~(<<s, m>> \in R)
    BY <1>2
  <2>2. ~(<<s, m>>[1] < <<s, m>>[2])
    <3> DEFINE q == <<s, m>>
    <3>1. q \in Nat \X Nat /\ ~(q \in R)
      BY <2>1
    <3> HIDE DEF q
    <3>2. ~(q[1] < q[2])
      BY <3>1
    <3>3. QED
      BY <3>2 DEF q
  <2>3. QED
    BY <2>2
<1>4. QED
  BY <1>3

(* Among the subsets of a finite set that are counterexamples, one has no  *)
(* smaller one: what stands for induction here.                            *)
LEMMA SmallestSet ==
  ASSUME NEW S, IsFiniteSet(S), NEW F \in SUBSET (SUBSET S), F # {}
  PROVE  \E T \in F : \A e \in T : T \ {e} \notin F
<1> DEFINE N == {Cardinality(T) : T \in F}
<1>1. \A T \in F : IsFiniteSet(T) /\ Cardinality(T) \in Nat
  BY FS_Subset, FS_CardinalityType
<1>2. N \in SUBSET Nat /\ N # {}
  BY <1>1
<1>3. PICK m \in N : \A n \in N : m <= n
  <2> HIDE DEF N
  <2> QED
    BY <1>2, Smallest
<1>4. PICK T \in F : m = Cardinality(T)
  OBVIOUS
<1>5. ASSUME NEW e \in T, T \ {e} \in F PROVE FALSE
  <2>1. IsFiniteSet(T) /\ Cardinality(T) \in Nat
    BY <1>1
  <2>2. Cardinality(T \ {e}) = Cardinality(T) - 1
    BY <2>1, FS_RemoveElement
  <2>3. m <= Cardinality(T \ {e})
    BY <1>3, <1>5
  <2>4. QED
    BY <1>4, <2>1, <2>2, <2>3
<1>6. QED
  BY <1>5

LEMMA SumLinear ==
  ASSUME NEW S, IsFiniteSet(S), NEW f, NEW g, NEW h,
         NEW a \in Nat, NEW b \in Nat, NEW c \in Nat,
         \A i \in S : f[i] \in Nat /\ g[i] \in Nat /\ h[i] \in Nat,
         \A i \in S : a * f[i] <= b * g[i] + c * h[i]
  PROVE  a * SumOver(S, f) <= b * SumOver(S, g) + c * SumOver(S, h)
<1> DEFINE Good(T) == a * SumOver(T, f) <= b * SumOver(T, g) + c * SumOver(T, h)
           F == {T \in SUBSET S : ~Good(T)}
<1>1. SUFFICES ASSUME F # {} PROVE FALSE
  OBVIOUS
<1>2. PICK T \in F : \A e \in T : T \ {e} \notin F
  <2>1. F \in SUBSET (SUBSET S)
    OBVIOUS
  <2> HIDE DEF F
  <2>2. QED
    BY <1>1, <2>1, SmallestSet
<1>3. T \in SUBSET S /\ ~Good(T) /\ IsFiniteSet(T)
  BY <1>2, FS_Subset
<1>4. CASE T = {}
  <2>1. SumOver(T, f) = 0 /\ SumOver(T, g) = 0 /\ SumOver(T, h) = 0
    BY <1>4, SumEmpty
  <2>2. QED
    BY <1>3, <2>1
<1>5. CASE T # {}
  <2>1. PICK e \in T : TRUE
    BY <1>5
  <2> DEFINE R == T \ {e}
  <2>2. Good(R)
    BY <1>2, <1>3, <2>1
  <2>3. /\ SumOver(T, f) = SumOver(R, f) + f[e] /\ SumOver(R, f) \in Nat
        /\ SumOver(T, g) = SumOver(R, g) + g[e] /\ SumOver(R, g) \in Nat
        /\ SumOver(T, h) = SumOver(R, h) + h[e] /\ SumOver(R, h) \in Nat
    <3>1. \A i \in T : f[i] \in Nat /\ g[i] \in Nat /\ h[i] \in Nat
      BY <1>3
    <3>2. QED
      BY <1>3, <2>1, <3>1, SumSplit
  <2>4. /\ f[e] \in Nat /\ g[e] \in Nat /\ h[e] \in Nat
        /\ a * f[e] <= b * g[e] + c * h[e]
    BY <1>3, <2>1
  <2>5. \A x, y, z, u, v, w \in Nat :
          a * x <= b * y + c * z /\ a * u <= b * v + c * w
            => a * (x + u) <= b * (y + v) + c * (z + w)
    <3> SUFFICES ASSUME NEW x \in Nat, NEW y \in Nat, NEW z \in Nat,
                        NEW u \in Nat, NEW v \in Nat, NEW w \in Nat,
                        a * x <= b * y + c * z, a * u <= b * v + c * w
                 PROVE  a * (x + u) <= b * (y + v) + c * (z + w)
      OBVIOUS
    <3>1. /\ a * (x + u) = a * x + a * u /\ b * (y + v) = b * y + b * v
          /\ c * (z + w) = c * z + c * w
      OBVIOUS
    <3>2. /\ a * x \in Nat /\ a * u \in Nat /\ b * y \in Nat /\ b * v \in Nat
          /\ c * z \in Nat /\ c * w \in Nat
      OBVIOUS
    <3>3. QED
      BY <3>1, <3>2
  <2> HIDE DEF R
  <2>6. Good(T)
    BY <2>2, <2>3, <2>4, <2>5
  <2>7. QED
    BY <1>3, <2>6
<1>6. QED
  BY <1>4, <1>5

LEMMA SumConstant ==
  ASSUME NEW S, IsFiniteSet(S), NEW m \in Nat, NEW f, \A i \in S : f[i] = m
  PROVE  SumOver(S, f) = Cardinality(S) * m
<1>1. IsFiniteSet(1 .. m) /\ Cardinality(1 .. m) = m
  BY FS_Interval
<1>2. Cardinality(S \X (1 .. m)) = Cardinality(S) * m
  BY <1>1, FS_Product
<1>3. Units(S, f) = S \X (1 .. m)
  BY DEF Units
<1>4. QED
  BY <1>2, <1>3 DEF SumOver

LEMMA SumDisjoint ==
  ASSUME NEW S, NEW T, IsFiniteSet(S), IsFiniteSet(T), S \cap T = {},
         NEW f, \A i \in S \cup T : f[i] \in Nat
  PROVE  SumOver(S \cup T, f) = SumOver(S, f) + SumOver(T, f)
<1> DEFINE A == Units(S, f)
           B == Units(T, f)
<1>1. IsFiniteSet(A) /\ IsFiniteSet(B)
  BY SumNat
<1>2. Units(S \cup T, f) = A \cup B /\ A \cap B = {}
  BY DEF Units
<1> HIDE DEF A, B
<1>3. Cardinality(A \cup B) = Cardinality(A) + Cardinality(B)
  <2>1. /\ Cardinality(A \cup B) = Cardinality(A) + Cardinality(B) - Cardinality({})
        /\ Cardinality({}) = 0
    BY <1>1, <1>2, FS_Union, FS_EmptySet
  <2>2. Cardinality(A) \in Nat /\ Cardinality(B) \in Nat
    BY <1>1, FS_CardinalityType
  <2>3. QED
    BY <2>1, <2>2
<1>4. QED
  BY <1>2, <1>3 DEF SumOver, A, B

(* What a whole comes to is what its groups come to together. *)
GroupOf(S, of, k) == {i \in S : of[i] = k}
GroupsOf(S, of, K) == {i \in S : of[i] \in K}
LEMMA SumOfGroups ==
  ASSUME NEW S, IsFiniteSet(S), NEW of, NEW K, IsFiniteSet(K),
         NEW f, \A i \in S : f[i] \in Nat, NEW sums,
         \A k \in K : sums[k] = SumOver(GroupOf(S, of, k), f)
  PROVE  SumOver(GroupsOf(S, of, K), f) = SumOver(K, sums)
<1> DEFINE Part(T) == GroupsOf(S, of, T)
           Good(T) == SumOver(Part(T), f) = SumOver(T, sums)
           F == {T \in SUBSET K : ~Good(T)}
<1>1. SUFFICES ASSUME F # {} PROVE FALSE
  OBVIOUS
<1>2. PICK T \in F : \A e \in T : T \ {e} \notin F
  <2>1. F \in SUBSET (SUBSET K)
    OBVIOUS
  <2> HIDE DEF F
  <2>2. QED
    BY <1>1, <2>1, SmallestSet
<1>3. T \in SUBSET K /\ ~Good(T) /\ IsFiniteSet(T)
  BY <1>2, FS_Subset
<1>4. CASE T = {}
  <2>1. Part(T) = {}
    BY <1>4 DEF GroupsOf
  <2>2. QED
    BY <1>3, <1>4, <2>1, SumEmpty
<1>5. CASE T # {}
  <2>1. PICK e \in T : TRUE
    BY <1>5
  <2> DEFINE R == T \ {e}
             One == GroupOf(S, of, e)
  <2>2. Good(R)
    BY <1>2, <1>3, <2>1
  <2>3. /\ Part(T) = Part(R) \cup One /\ Part(R) \cap One = {}
        /\ IsFiniteSet(Part(R)) /\ IsFiniteSet(One)
    BY <2>1, FS_Subset DEF GroupsOf, GroupOf
  <2>4. SumOver(Part(T), f) = SumOver(Part(R), f) + SumOver(One, f)
    <3> HIDE DEF One, R, Part
    <3>1. \A i \in Part(R) \cup One : f[i] \in Nat
      BY DEF Part, GroupsOf, GroupOf, One
    <3>2. QED
      BY <2>3, <3>1, SumDisjoint
  <2>5. \A k \in T : sums[k] \in Nat
    <3> SUFFICES ASSUME NEW k \in T PROVE sums[k] \in Nat
      OBVIOUS
    <3> DEFINE G == GroupOf(S, of, k)
    <3>1. sums[k] = SumOver(G, f)
      BY <1>3
    <3>2. IsFiniteSet(G) /\ \A i \in G : f[i] \in Nat
      BY FS_Subset DEF GroupOf
    <3> HIDE DEF G
    <3>3. QED
      BY <3>1, <3>2, SumNat
  <2>6. SumOver(T, sums) = SumOver(R, sums) + sums[e]
    BY <1>3, <2>1, <2>5, SumSplit
  <2>7. sums[e] = SumOver(One, f)
    BY <1>3, <2>1
  <2> HIDE DEF One, R, Part
  <2>8. QED
    BY <1>3, <2>2, <2>4, <2>6, <2>7
<1>6. QED
  BY <1>4, <1>5

LEMMA SumScaled ==
  ASSUME NEW S, IsFiniteSet(S), NEW f, NEW g, NEW c \in Nat,
         \A i \in S : f[i] \in Nat /\ g[i] = c * f[i]
  PROVE  SumOver(S, g) = c * SumOver(S, f)
<1>1. \A i \in S : g[i] \in Nat
  OBVIOUS
<1>2. SumOver(S, f) \in Nat /\ SumOver(S, g) \in Nat
  BY <1>1, SumNat
<1>3. \A i \in S : 1 * g[i] <= c * f[i] + 0 * f[i] /\ c * f[i] <= 1 * g[i] + 0 * f[i]
  BY <1>1
<1>4. 1 * SumOver(S, g) <= c * SumOver(S, f) + 0 * SumOver(S, f)
  BY <1>1, <1>3, SumLinear
<1>5. c * SumOver(S, f) <= 1 * SumOver(S, g) + 0 * SumOver(S, f)
  BY <1>1, <1>3, SumLinear
<1>6. c * SumOver(S, f) \in Nat
  BY <1>2
<1>7. QED
  BY <1>2, <1>4, <1>5, <1>6

LEMMA SumGrouped ==
  ASSUME NEW S, IsFiniteSet(S), NEW f, \A i \in S : f[i] \in Nat,
         NEW E, IsFiniteSet(E), NEW k \in [S -> E], NEW g,
         \A e \in E : g[e] = SumOver({i \in S : k[i] = e}, f)
  PROVE  SumOver(S, f) <= SumOver(E, g)
<1>1. \A e \in E : GroupOf(S, k, e) = {i \in S : k[i] = e}
  BY DEF GroupOf
<1>2. \A e \in E : g[e] = SumOver(GroupOf(S, k, e), f)
  BY <1>1
<1>3. SumOver(GroupsOf(S, k, E), f) = SumOver(E, g)
  BY <1>2, SumOfGroups
<1>4. GroupsOf(S, k, E) = S
  BY DEF GroupsOf
<1>5. SumOver(S, f) \in Nat
  BY SumNat
<1>6. QED
  BY <1>3, <1>4, <1>5

-----------------------------------------------------------------------------
(* What is open within a scope of events, and what a cycle may still open  *)
(* there: its drafts and, while it builds them, what its cap leaves.  Each *)
(* cycle may open a cap of its own; a cycle that counted what is open may  *)
(* open the rest of one cap.                                               *)

Priced(r) == r.stake \in Nat /\ r.market \in Markets
AllPriced(s) == \A k \in DOMAIN s : Priced(s[k])

WeightOf(rs, d, E) ==
  [i \in DOMAIN rs |->
     IF rs[i].store = d /\ rs[i].status = "PAPER_INTENDED" /\ EventOf[rs[i].market] \in E
     THEN rs[i].stake ELSE 0]
DraftWeight(ds, E) ==
  [k \in DOMAIN ds |-> IF EventOf[ds[k].market] \in E THEN ds[k].stake ELSE 0]

OpenSum(rs, d, E) == SumOver(DOMAIN rs, WeightOf(rs, d, E))
DraftSum(ds, E) == SumOver(DOMAIN ds, DraftWeight(ds, E))

PendingOf(store, p, sp, ds, d, E, cap) ==
  IF store # d THEN 0
  ELSE DraftSum(ds, E) + (IF p = "build" THEN Left(cap, SumOver(E, sp)) ELSE 0)
Pending(d, E, cap) ==
  [c \in Cycles |-> PendingOf(conn[c], pc[c], spent[c], drafts[c], d, E, cap)]

CapInv(E, cap) ==
  \A d \in Stores :
    /\ \A c \in Cycles : Pending(d, E, cap)[c] <= cap
    /\ OpenSum(rows, d, E) + SumOver(Cycles, Pending(d, E, cap)) <= Width(d) * cap

Scope(E, cap) ==
  \/ E = Events /\ cap = MaxTotal
  \/ \E e \in Events : E = {e} /\ cap = MaxEvent

CapTypes ==
  /\ rank = [c \in Cycles |-> rank[c]] /\ \A c \in Cycles : rank[c] \in Seq(Opportunity)
  /\ spent \in [Cycles -> [Events -> Nat]]
  /\ AllPriced(rows) /\ \A c \in Cycles : AllPriced(drafts[c])

CapsInv == CapTypes /\ \A E, cap : Scope(E, cap) => CapInv(E, cap)

-----------------------------------------------------------------------------
LEMMA ScopeTyped ==
  ASSUME NEW E, NEW cap, Scope(E, cap)
  PROVE  E \in SUBSET Events /\ IsFiniteSet(E) /\ cap \in Nat
<1>1. E \in SUBSET Events /\ cap \in Nat
  BY StakeAssumption DEF Scope
<1>2. QED
  BY <1>1, MarketAssumption, FS_Subset

LEMMA LeftIs ==
  ASSUME NEW cap \in Nat, NEW used \in Nat
  PROVE  /\ Left(cap, used) \in Nat /\ Left(cap, used) <= cap
         /\ used <= cap => Left(cap, used) + used = cap
         /\ cap <= used => Left(cap, used) = 0
<1> DEFINE S == {cap - used, 0}
           m == CHOOSE x \in S : \A y \in S : x >= y
<1>1. \E x \in S : \A y \in S : x >= y
  <2>1. CASE used <= cap
    <3>1. cap - used \in S /\ \A y \in S : cap - used >= y
      BY <2>1
    <3>2. QED
      BY <3>1
  <2>2. CASE cap <= used
    <3>1. 0 \in S /\ \A y \in S : 0 >= y
      BY <2>2
    <3>2. QED
      BY <3>1
  <2>3. QED
    BY <2>1, <2>2
<1>2. m \in S /\ \A y \in S : m >= y
  BY <1>1
<1>3. Left(cap, used) = m
  BY DEF Left, Max
<1> HIDE DEF m
<1>4. m >= cap - used /\ m >= 0 /\ (m = cap - used \/ m = 0)
  BY <1>2
<1>5. QED
  BY <1>3, <1>4

LEMMA LeastOfThree ==
  ASSUME NEW a \in Nat, NEW b \in Nat, NEW c \in Nat
  PROVE  Min({a, b, c}) \in Nat /\ Min({a, b, c}) <= a /\ Min({a, b, c}) <= b /\ Min({a, b, c}) <= c
<1> DEFINE S == {a, b, c}
           m == CHOOSE x \in S : \A y \in S : x <= y
<1>1. \E x \in S : \A y \in S : x <= y
  <2>1. CASE a <= b /\ a <= c
    <3>1. a \in S /\ \A y \in S : a <= y
      BY <2>1
    <3>2. QED
      BY <3>1
  <2>2. CASE b <= a /\ b <= c
    <3>1. b \in S /\ \A y \in S : b <= y
      BY <2>2
    <3>2. QED
      BY <3>1
  <2>3. CASE c <= a /\ c <= b
    <3>1. c \in S /\ \A y \in S : c <= y
      BY <2>3
    <3>2. QED
      BY <3>1
  <2>4. QED
    BY <2>1, <2>2, <2>3
<1>2. m \in S /\ \A y \in S : m <= y
  BY <1>1
<1>3. Min({a, b, c}) = m
  BY DEF Min
<1> HIDE DEF m
<1>4. QED
  BY <1>2, <1>3

LEMMA RowsFinite ==
  ASSUME NEW s, IsSequence(s)
  PROVE  IsFiniteSet(DOMAIN s)
<1>1. Len(s) \in Nat /\ DOMAIN s = 1 .. Len(s)
  BY Lengths
<1>2. QED
  BY <1>1, FS_Interval

LEMMA WeightsNat ==
  ASSUME NEW s, IsSequence(s), AllPriced(s), NEW E, NEW d
  PROVE  /\ \A k \in DOMAIN s : WeightOf(s, d, E)[k] \in Nat /\ DraftWeight(s, E)[k] \in Nat
         /\ OpenSum(s, d, E) \in Nat /\ DraftSum(s, E) \in Nat
<1>1. \A k \in DOMAIN s : WeightOf(s, d, E)[k] \in Nat /\ DraftWeight(s, E)[k] \in Nat
  BY DEF WeightOf, DraftWeight, AllPriced, Priced
<1>2. QED
  BY <1>1, RowsFinite, SumNat DEF OpenSum, DraftSum

LEMMA CyclesTyped ==
  ASSUME LedgerInv, CapTypes, NEW c \in Cycles
  PROVE  /\ IsSequence(drafts[c]) /\ AllPriced(drafts[c]) /\ spent[c] \in [Events -> Nat]
         /\ \A k \in DOMAIN drafts[c] : drafts[c][k].store = conn[c]
         /\ IsSequence(rows) /\ AllPriced(rows)
BY DEF LedgerInv, RowsShaped, CyclesInv, CycleOK, DraftsOf, CapTypes

LEMMA PendingNat ==
  ASSUME NEW store, NEW p, NEW sp \in [Events -> Nat], NEW ds, IsSequence(ds), AllPriced(ds),
         NEW d, NEW E, NEW cap, Scope(E, cap)
  PROVE  PendingOf(store, p, sp, ds, d, E, cap) \in Nat /\ SumOver(E, sp) \in Nat
<1>1. E \in SUBSET Events /\ IsFiniteSet(E) /\ cap \in Nat
  BY ScopeTyped
<1>2. SumOver(E, sp) \in Nat
  <2>1. \A e \in E : sp[e] \in Nat
    BY <1>1
  <2>2. QED
    BY <1>1, <2>1, SumNat
<1>3. Left(cap, SumOver(E, sp)) \in Nat
  BY <1>1, <1>2, LeftIs
<1>4. DraftSum(ds, E) \in Nat
  BY WeightsNat
<1>5. QED
  BY <1>2, <1>3, <1>4 DEF PendingOf

LEMMA WidthNat == \A d : Width(d) \in Nat
BY CycleAssumption, FS_CardinalityType DEF Width

(* A cycle moves, and what is open and what it may open do not grow.       *)
Moves(store, p, sp, ds, c, E, cap) ==
  \A d \in Stores :
    /\ PendingOf(store, p, sp, ds, d, E, cap) <= cap
    /\ OpenSum(rows', d, E) + PendingOf(store, p, sp, ds, d, E, cap)
         <= OpenSum(rows, d, E) + PendingOf(conn[c], pc[c], spent[c], drafts[c], d, E, cap)

LEMMA CycleMoves ==
  ASSUME LedgerInv, CapTypes, NEW c \in Cycles, NEW store, NEW p, NEW sp, NEW ds,
         conn' = [conn EXCEPT ![c] = store], pc' = [pc EXCEPT ![c] = p],
         spent' = [spent EXCEPT ![c] = sp], drafts' = [drafts EXCEPT ![c] = ds]
  PROVE  /\ conn'[c] = store /\ pc'[c] = p /\ spent'[c] = sp /\ drafts'[c] = ds
         /\ \A e \in Cycles \ {c} : /\ conn'[e] = conn[e] /\ pc'[e] = pc[e]
                                   /\ spent'[e] = spent[e] /\ drafts'[e] = drafts[e]
<1>1. c \in Processes /\ \A e \in Cycles : e \in Processes
  BY DEF Processes
<1>2. conn'[c] = store /\ \A e \in Cycles \ {c} : conn'[e] = conn[e]
  BY <1>1 DEF LedgerInv, OneInside
<1>3. pc'[c] = p /\ \A e \in Cycles \ {c} : pc'[e] = pc[e]
  BY DEF LedgerInv, CyclesInv
<1>4. spent'[c] = sp /\ \A e \in Cycles \ {c} : spent'[e] = spent[e]
  BY DEF CapTypes
<1>5. drafts'[c] = ds /\ \A e \in Cycles \ {c} : drafts'[e] = drafts[e]
  BY DEF LedgerInv, CyclesInv
<1>6. QED
  BY <1>2, <1>3, <1>4, <1>5

LEMMA PendingTyped ==
  ASSUME LedgerInv, CapTypes, NEW d, NEW E, NEW cap, Scope(E, cap)
  PROVE  /\ \A c \in Cycles : Pending(d, E, cap)[c] \in Nat
         /\ SumOver(Cycles, Pending(d, E, cap)) \in Nat
         /\ OpenSum(rows, d, E) \in Nat
<1>1. ASSUME NEW c \in Cycles PROVE Pending(d, E, cap)[c] \in Nat
  BY CyclesTyped, PendingNat DEF Pending
<1>2. IsSequence(rows) /\ AllPriced(rows)
  BY DEF LedgerInv, RowsShaped, CapTypes
<1>3. QED
  BY <1>1, <1>2, CycleAssumption, SumNat, WeightsNat

LEMMA MoveStep ==
  ASSUME LedgerInv, CapTypes, NEW c \in Cycles, NEW store, NEW p, NEW sp \in [Events -> Nat],
         NEW ds, IsSequence(ds), AllPriced(ds), IsSequence(rows'), AllPriced(rows'),
         conn' = [conn EXCEPT ![c] = store], pc' = [pc EXCEPT ![c] = p],
         spent' = [spent EXCEPT ![c] = sp], drafts' = [drafts EXCEPT ![c] = ds],
         NEW E, NEW cap, Scope(E, cap), CapInv(E, cap), Moves(store, p, sp, ds, c, E, cap)
  PROVE  CapInv(E, cap)'
<1> SUFFICES ASSUME NEW d \in Stores
             PROVE  /\ \A e \in Cycles : Pending(d, E, cap)'[e] <= cap
                    /\ OpenSum(rows', d, E) + SumOver(Cycles, Pending(d, E, cap)') <= Width(d)' * cap
  BY DEF CapInv, OpenSum, WeightOf, SumOver, Units
<1> DEFINE f == Pending(d, E, cap)
           g == Pending(d, E, cap)'
           new == PendingOf(store, p, sp, ds, d, E, cap)
<1>1. g[c] = new /\ \A e \in Cycles \ {c} : g[e] = f[e]
  <2>1. /\ conn'[c] = store /\ pc'[c] = p /\ spent'[c] = sp /\ drafts'[c] = ds
        /\ \A e \in Cycles \ {c} : /\ conn'[e] = conn[e] /\ pc'[e] = pc[e]
                                  /\ spent'[e] = spent[e] /\ drafts'[e] = drafts[e]
    BY CycleMoves
  <2>2. QED
    BY <2>1 DEF Pending
<1>2. /\ \A e \in Cycles : f[e] \in Nat
      /\ SumOver(Cycles, f) \in Nat /\ OpenSum(rows, d, E) \in Nat /\ OpenSum(rows', d, E) \in Nat
  BY PendingTyped, WeightsNat
<1>3. new \in Nat /\ cap \in Nat
  BY PendingNat, ScopeTyped
<1>4. /\ new <= cap
      /\ OpenSum(rows', d, E) + new <= OpenSum(rows, d, E) + f[c]
  BY DEF Moves, Pending
<1>5. /\ \A e \in Cycles : f[e] <= cap
      /\ OpenSum(rows, d, E) + SumOver(Cycles, f) <= Width(d) * cap
  BY DEF CapInv
<1>6. Width(d)' = Width(d) /\ Width(d) * cap \in Nat
  <2>1. \A a, b \in Nat : a * b \in Nat
    OBVIOUS
  <2>2. QED
    BY <1>3, <2>1, WidthNat DEF Width
<1> HIDE DEF f, g, new
<1>7. /\ SumOver(Cycles, g) + f[c] = SumOver(Cycles, f) + g[c]
      /\ SumOver(Cycles, g) \in Nat
  BY <1>1, <1>2, <1>3, CycleAssumption, SumChange
<1>8. \A e \in Cycles : g[e] <= cap
  BY <1>1, <1>4, <1>5
<1>9. OpenSum(rows', d, E) + SumOver(Cycles, g) <= Width(d) * cap
  BY <1>1, <1>2, <1>3, <1>4, <1>5, <1>6, <1>7
<1>10. QED
  BY <1>6, <1>8, <1>9 DEF g

(* Nothing is written and the cycle may open no more than before. *)
LEMMA QuietMoves ==
  ASSUME LedgerInv, CapTypes, NEW c \in Cycles, NEW store, NEW p, NEW sp \in [Events -> Nat],
         NEW ds, IsSequence(ds), AllPriced(ds), NEW E, NEW cap, Scope(E, cap), CapInv(E, cap),
         rows' = rows,
         \A d \in Stores : PendingOf(store, p, sp, ds, d, E, cap)
                            <= PendingOf(conn[c], pc[c], spent[c], drafts[c], d, E, cap)
  PROVE  Moves(store, p, sp, ds, c, E, cap)
<1> SUFFICES ASSUME NEW d \in Stores
             PROVE  /\ PendingOf(store, p, sp, ds, d, E, cap) <= cap
                    /\ OpenSum(rows', d, E) + PendingOf(store, p, sp, ds, d, E, cap)
                         <= OpenSum(rows, d, E) + PendingOf(conn[c], pc[c], spent[c], drafts[c], d, E, cap)
  BY DEF Moves
<1> DEFINE new == PendingOf(store, p, sp, ds, d, E, cap)
           old == PendingOf(conn[c], pc[c], spent[c], drafts[c], d, E, cap)
           open == OpenSum(rows, d, E)
<1>1. new \in Nat /\ old \in Nat /\ open \in Nat /\ cap \in Nat
  BY PendingNat, PendingTyped, ScopeTyped, CyclesTyped
<1>2. new <= old /\ OpenSum(rows', d, E) = open
  OBVIOUS
<1>3. old <= cap
  BY DEF CapInv, Pending
<1> HIDE DEF new, old, open
<1>4. new <= cap /\ OpenSum(rows', d, E) + new <= open + old
  BY <1>1, <1>2, <1>3
<1>5. QED
  BY <1>4 DEF new, old, open

LEMMA NoDrafts == \A E : DraftSum(<<>>, E) = 0
<1>1. DOMAIN <<>> = {}
  BY Empties
<1>2. QED
  BY <1>1, SumEmpty DEF DraftSum

LEMMA SameSpent ==
  ASSUME CapTypes, NEW c \in Cycles
  PROVE  spent = [spent EXCEPT ![c] = spent[c]]
BY DEF CapTypes

(* A cycle moves, in every scope. *)
MovesAll(store, p, sp, ds, c) ==
  \A E, cap : Scope(E, cap) => Moves(store, p, sp, ds, c, E, cap)

LEMMA MovesCaps ==
  ASSUME LedgerInv, LedgerInv', CapsInv, NEW c \in Cycles, NEW store, NEW p,
         NEW sp \in [Events -> Nat], NEW ds, IsSequence(ds), AllPriced(ds), AllPriced(rows'),
         conn' = [conn EXCEPT ![c] = store], pc' = [pc EXCEPT ![c] = p],
         spent' = [spent EXCEPT ![c] = sp], drafts' = [drafts EXCEPT ![c] = ds],
         rank' = [e \in Cycles |-> rank'[e]], \A e \in Cycles : rank'[e] \in Seq(Opportunity),
         MovesAll(store, p, sp, ds, c)
  PROVE  CapsInv'
<1>1. CapTypes
  BY DEF CapsInv
<1>2. CapTypes'
  <2>1. /\ spent' = [e \in Cycles |-> IF e = c THEN sp ELSE spent[e]]
        /\ drafts' = [e \in Cycles |-> IF e = c THEN ds ELSE drafts[e]]
    BY <1>1 DEF LedgerInv, CyclesInv, CapTypes
  <2>2. spent' \in [Cycles -> [Events -> Nat]]
    BY <1>1, <2>1 DEF CapTypes
  <2>3. \A e \in Cycles : AllPriced(drafts'[e])
    BY <1>1, <2>1 DEF CapTypes
  <2>4. QED
    BY <1>1, <2>2, <2>3 DEF CapTypes
<1>3. ASSUME NEW E, NEW cap, Scope(E, cap) PROVE CapInv(E, cap)'
  <2>1. CapInv(E, cap)
    BY <1>3 DEF CapsInv
  <2>2. Moves(store, p, sp, ds, c, E, cap)
    BY <1>3 DEF MovesAll
  <2>3. IsSequence(rows')
    BY DEF LedgerInv, RowsShaped
  <2>4. QED
    BY <1>1, <1>3, <2>1, <2>2, <2>3, MoveStep
<1>4. QED
  BY <1>2, <1>3 DEF CapsInv, Scope

(* A cycle moves and writes nothing. *)
LEMMA PlainCaps ==
  ASSUME LedgerInv, LedgerInv', CapsInv, NEW c \in Cycles, NEW store, NEW p,
         NEW sp \in [Events -> Nat], NEW ds, IsSequence(ds), AllPriced(ds),
         conn' = [conn EXCEPT ![c] = store], pc' = [pc EXCEPT ![c] = p],
         spent' = [spent EXCEPT ![c] = sp], drafts' = [drafts EXCEPT ![c] = ds], rows' = rows,
         rank' = [e \in Cycles |-> rank'[e]], \A e \in Cycles : rank'[e] \in Seq(Opportunity),
         \A E, cap : Scope(E, cap) => \A d \in Stores :
           PendingOf(store, p, sp, ds, d, E, cap)
             <= PendingOf(conn[c], pc[c], spent[c], drafts[c], d, E, cap)
  PROVE  CapsInv'
<1>1. CapTypes /\ AllPriced(rows')
  BY DEF CapsInv, CapTypes
<1>2. MovesAll(store, p, sp, ds, c)
  <2>1. ASSUME NEW E, NEW cap, Scope(E, cap) PROVE Moves(store, p, sp, ds, c, E, cap)
    <3>1. CapInv(E, cap)
      BY <2>1 DEF CapsInv
    <3>2. \A d \in Stores : PendingOf(store, p, sp, ds, d, E, cap)
                              <= PendingOf(conn[c], pc[c], spent[c], drafts[c], d, E, cap)
      BY <2>1
    <3>3. QED
      BY <1>1, <2>1, <3>1, <3>2, QuietMoves
  <2>2. QED
    BY <2>1 DEF MovesAll
<1>3. QED
  BY <1>1, <1>2, MovesCaps

LEMMA ConnectCaps ==
  ASSUME LedgerInv, LedgerInv', CapsInv, NEW c \in Cycles, Connect(c)
  PROVE  CapsInv'
<1>1. /\ conn' = [conn EXCEPT ![c] = StoreFor] /\ pc' = [pc EXCEPT ![c] = "rank"]
      /\ pc[c] = "start" /\ UNCHANGED <<rank, spent, drafts, rows>>
  BY DEF Connect, tables
<1>2. drafts[c] = <<>> /\ CapTypes
  BY <1>1 DEF LedgerInv, CyclesInv, CycleOK, CapsInv
<1>3. \A d, E, cap : /\ PendingOf(StoreFor, "rank", spent[c], drafts[c], d, E, cap) = 0
                     /\ PendingOf(conn[c], pc[c], spent[c], drafts[c], d, E, cap) = 0
  BY <1>1, <1>2, NoDrafts DEF PendingOf
<1>4. spent' = [spent EXCEPT ![c] = spent[c]] /\ drafts' = [drafts EXCEPT ![c] = drafts[c]]
  BY <1>1, <1>2, SameSpent, NoChange
<1>5. IsSequence(drafts[c]) /\ AllPriced(drafts[c]) /\ spent[c] \in [Events -> Nat]
  BY <1>2, CyclesTyped
<1>6. \A E, cap : Scope(E, cap) => \A d \in Stores :
        PendingOf(StoreFor, "rank", spent[c], drafts[c], d, E, cap)
          <= PendingOf(conn[c], pc[c], spent[c], drafts[c], d, E, cap)
  BY <1>3
<1>7. rank' = [e \in Cycles |-> rank'[e]] /\ \A e \in Cycles : rank'[e] \in Seq(Opportunity)
  BY <1>1, <1>2 DEF CapTypes
<1>8. QED
  BY <1>1, <1>4, <1>5, <1>6, <1>7, PlainCaps

LEMMA RankMoves ==
  ASSUME CapTypes, NEW c \in Cycles, NEW r \in Seq(Opportunity), rank' = [rank EXCEPT ![c] = r]
  PROVE  rank' = [e \in Cycles |-> rank'[e]] /\ \A e \in Cycles : rank'[e] \in Seq(Opportunity)
<1>1. rank' = [e \in Cycles |-> IF e = c THEN r ELSE rank[e]]
  BY DEF CapTypes
<1>2. QED
  BY <1>1 DEF CapTypes

LEMMA LocalCaps ==
  ASSUME LedgerInv, LedgerInv', CapsInv, NEW c \in Cycles,
         EndOfReport(c) \/ WriteEvent(c) \/ Settle(c)
  PROVE  CapsInv'
<1>1. PICK p, sp :
        /\ pc' = [pc EXCEPT ![c] = p] /\ spent' = [spent EXCEPT ![c] = sp] /\ p # "build"
        /\ sp \in [Events -> Nat] /\ UNCHANGED <<conn, rank, drafts, rows>>
  <2>1. spent = [spent EXCEPT ![c] = spent[c]] /\ spent[c] \in [Events -> Nat]
    BY SameSpent DEF CapsInv, CapTypes
  <2>2. CASE EndOfReport(c)
    <3>1. /\ pc' = [pc EXCEPT ![c] = "intend"] /\ spent' = [spent EXCEPT ![c] = Nothing]
          /\ UNCHANGED <<conn, rank, drafts, rows>>
      BY <2>2 DEF EndOfReport, tables
    <3>2. Nothing \in [Events -> Nat] /\ "intend" # "build"
      BY DEF Nothing
    <3>3. QED
      BY <3>1, <3>2
  <2>3. CASE WriteEvent(c)
    <3> DEFINE p == IF pc[c] = "intend event" THEN "intend" ELSE "settle"
    <3>1. p # "build" /\ pc' = [pc EXCEPT ![c] = p]
      BY <2>3 DEF WriteEvent
    <3> HIDE DEF p
    <3>2. UNCHANGED <<conn, rank, spent, drafts, rows>>
      BY <2>3 DEF WriteEvent
    <3>3. QED
      BY <2>1, <3>1, <3>2
  <2>4. CASE Settle(c)
    BY <2>1, <2>4 DEF Settle, tables
  <2>5. QED
    BY <2>2, <2>3, <2>4
<1>2. CapTypes /\ IsSequence(drafts[c]) /\ AllPriced(drafts[c])
  BY CyclesTyped DEF CapsInv
<1>3. ASSUME NEW E, NEW cap, Scope(E, cap), NEW d \in Stores
      PROVE  PendingOf(conn[c], p, sp, drafts[c], d, E, cap)
               <= PendingOf(conn[c], pc[c], spent[c], drafts[c], d, E, cap)
  <2>1. DraftSum(drafts[c], E) \in Nat
    BY <1>2, WeightsNat
  <2>2. spent[c] \in [Events -> Nat] /\ cap \in Nat
    BY <1>2, <1>3, ScopeTyped DEF CapTypes
  <2>3. SumOver(E, spent[c]) \in Nat
    BY <1>2, <1>3, <2>2, PendingNat
  <2>4. Left(cap, SumOver(E, spent[c])) \in Nat
    BY <2>2, <2>3, LeftIs
  <2>5. QED
    BY <1>1, <2>1, <2>4 DEF PendingOf
<1>4. conn' = [conn EXCEPT ![c] = conn[c]] /\ drafts' = [drafts EXCEPT ![c] = drafts[c]]
  BY <1>1, NoChange
<1>5. rank' = [e \in Cycles |-> rank'[e]] /\ \A e \in Cycles : rank'[e] \in Seq(Opportunity)
  BY <1>1, <1>2 DEF CapTypes
<1>6. QED
  BY <1>1, <1>2, <1>3, <1>4, <1>5, PlainCaps

LEMMA ExitCaps ==
  ASSUME LedgerInv, LedgerInv', CapsInv, NEW c \in Cycles, Exit(c)
  PROVE  CapsInv'
<1>1. /\ conn' = [conn EXCEPT ![c] = "none"] /\ pc' = [pc EXCEPT ![c] = "start"]
      /\ rank' = [rank EXCEPT ![c] = <<>>] /\ spent' = [spent EXCEPT ![c] = Nothing]
      /\ drafts' = [drafts EXCEPT ![c] = <<>>] /\ rows' = rows
  BY DEF Exit, tables
<1>2. CapTypes
  BY DEF CapsInv
<1>3. Nothing \in [Events -> Nat] /\ IsSequence(<<>>) /\ AllPriced(<<>>) /\ <<>> \in Seq(Opportunity)
  BY Empties DEF Nothing, AllPriced
<1>4. ASSUME NEW E, NEW cap, Scope(E, cap), NEW d \in Stores
      PROVE  PendingOf("none", "start", Nothing, <<>>, d, E, cap)
               <= PendingOf(conn[c], pc[c], spent[c], drafts[c], d, E, cap)
  <2>1. PendingOf(conn[c], pc[c], spent[c], drafts[c], d, E, cap) \in Nat
    BY <1>2, <1>4, CyclesTyped, PendingNat
  <2>2. PendingOf("none", "start", Nothing, <<>>, d, E, cap) = 0
    BY DEF PendingOf, Stores
  <2>3. QED
    BY <2>1, <2>2
<1>5. rank' = [e \in Cycles |-> rank'[e]] /\ \A e \in Cycles : rank'[e] \in Seq(Opportunity)
  BY <1>1, <1>2, <1>3, RankMoves
<1>6. QED
  BY <1>1, <1>3, <1>4, <1>5, PlainCaps

(* An opportunity takes no more than any of its caps leaves. *)
LEMMA StakeFits ==
  ASSUME LedgerInv, CapTypes, NEW c \in Cycles, NEW o \in Opportunity
  PROVE  /\ StakeFor(c, o) \in Nat
         /\ \A E, cap : Scope(E, cap) /\ EventOf[o.market] \in E =>
              StakeFor(c, o) <= Left(cap, SumOver(E, spent[c]))
<1> DEFINE e == EventOf[o.market]
           a == Left(MaxTotal, Total(spent[c]))
           b == Left(MaxEvent, spent[c][e])
           m == Min({MaxStake, a, b})
<1>1. e \in Events /\ o.weight \in 1 .. 2 /\ spent[c] \in [Events -> Nat]
  BY MarketAssumption DEF Opportunity, CapTypes
<1>2. MaxTotal \in Nat /\ MaxEvent \in Nat /\ MaxStake \in Nat
  BY StakeAssumption
<1>3. spent[c][e] \in Nat /\ Total(spent[c]) \in Nat
  <2>1. \A x \in Events : spent[c][x] \in Nat
    BY <1>1
  <2>2. QED
    BY <1>1, <2>1, MarketAssumption, SumNat DEF Total
<1>4. a \in Nat /\ b \in Nat
  BY <1>2, <1>3, LeftIs
<1>5. m \in Nat /\ m <= a /\ m <= b
  <2> HIDE DEF a, b
  <2> QED
    BY <1>2, <1>4, LeastOfThree
<1>6. StakeFor(c, o) = (m * o.weight + 1) \div 2
  BY DEF StakeFor
<1>7. StakeFor(c, o) \in Nat /\ StakeFor(c, o) <= m
  <2> HIDE DEF m
  <2>1. CASE o.weight = 1
    BY <1>5, <1>6, <2>1
  <2>2. CASE o.weight = 2
    BY <1>5, <1>6, <2>2
  <2>3. QED
    BY <1>1, <2>1, <2>2
<1>8. ASSUME NEW E, NEW cap, Scope(E, cap), e \in E
      PROVE  m <= Left(cap, SumOver(E, spent[c])) /\ Left(cap, SumOver(E, spent[c])) \in Nat
  <2>1. CASE E = Events /\ cap = MaxTotal
    BY <1>4, <1>5, <2>1 DEF Total
  <2>2. CASE E = {e} /\ cap = MaxEvent
    <3>1. SumOver(E, spent[c]) = spent[c][e]
      BY <1>3, <2>2, SumOfOne
    <3>2. QED
      BY <1>4, <1>5, <2>2, <3>1
  <2>3. QED
    BY <1>8, <2>1, <2>2 DEF Scope
<1> HIDE DEF m
<1>9. QED
  BY <1>5, <1>7, <1>8

(* A draft more, in the sums. *)
LEMMA DraftsMore ==
  ASSUME NEW ds, IsSequence(ds), AllPriced(ds), NEW x, Priced(x), NEW E
  PROVE  /\ IsSequence(Append(ds, x)) /\ AllPriced(Append(ds, x))
         /\ DraftSum(Append(ds, x), E)
              = DraftSum(ds, E) + (IF EventOf[x.market] \in E THEN x.stake ELSE 0)
<1> DEFINE new == Append(ds, x)
           n == Len(ds) + 1
           f == DraftWeight(new, E)
<1>1. Len(ds) \in Nat /\ DOMAIN ds = 1 .. Len(ds)
  BY Lengths
<1>2. /\ IsSequence(new) /\ DOMAIN new = 1 .. n /\ \A k \in DOMAIN ds : new[k] = ds[k]
      /\ new[n] = x
  BY Appending
<1>3. /\ n \in DOMAIN new /\ DOMAIN new \ {n} = DOMAIN ds
  BY <1>1, <1>2
<1>4. AllPriced(new)
  <2>1. \A k \in DOMAIN new : k = n \/ k \in DOMAIN ds
    BY <1>3
  <2> HIDE DEF new, n
  <2>2. QED
    BY <1>2, <2>1 DEF AllPriced
<1> HIDE DEF new, n
<1>5. \A k \in DOMAIN new : f[k] \in Nat
  BY <1>2, <1>4, WeightsNat
<1>6. SumOver(DOMAIN new, f) = SumOver(DOMAIN ds, f) + f[n]
  <2>1. IsFiniteSet(DOMAIN new)
    BY <1>2, RowsFinite
  <2> HIDE DEF f
  <2>2. SumOver(DOMAIN new, f) = SumOver(DOMAIN new \ {n}, f) + f[n]
    BY <1>3, <1>5, <2>1, SumSplit
  <2>3. QED
    BY <1>3, <2>2
<1>7. SumOver(DOMAIN ds, f) = DraftSum(ds, E)
  <2>1. \A k \in DOMAIN ds : f[k] = DraftWeight(ds, E)[k]
    BY <1>2, <1>3 DEF DraftWeight
  <2> HIDE DEF f
  <2>2. QED
    BY <2>1, SumSame DEF DraftSum
<1>8. f[n] = IF EventOf[x.market] \in E THEN x.stake ELSE 0
  BY <1>2, <1>3 DEF DraftWeight
<1>9. DraftSum(new, E) = SumOver(DOMAIN new, f)
  BY DEF DraftSum
<1>10. QED
  BY <1>2, <1>4, <1>6, <1>7, <1>8, <1>9 DEF new

LEMMA ConsiderCaps ==
  ASSUME LedgerInv, LedgerInv', CapsInv, NEW c \in Cycles, Consider(c)
  PROVE  CapsInv'
<1>1. PICK o : o = Head(rank[c])
  OBVIOUS
<1>2. /\ pc[c] = "build" /\ rank[c] # <<>> /\ rank' = [rank EXCEPT ![c] = Tail(rank[c])]
      /\ Draft(c, o) \/ UNCHANGED <<pairs, spent, drafts>>
      /\ UNCHANGED <<conn, pc, rows>>
  BY <1>1 DEF Consider, tables, CapsInv, CapTypes
<1>3. CapTypes
  BY DEF CapsInv
<1>4. o \in Opportunity /\ Tail(rank[c]) \in Seq(Opportunity)
  <2>1. rank[c] \in Seq(Opportunity)
    BY <1>3 DEF CapTypes
  <2>2. QED
    BY <1>1, <1>2, <2>1, HeadTailProperties
<1>5. rank' = [e \in Cycles |-> rank'[e]] /\ \A e \in Cycles : rank'[e] \in Seq(Opportunity)
  BY <1>2, <1>3, <1>4, RankMoves
<1>6. conn' = [conn EXCEPT ![c] = conn[c]] /\ pc' = [pc EXCEPT ![c] = pc[c]]
  BY <1>2, NoChange
<1>7. /\ IsSequence(drafts[c]) /\ AllPriced(drafts[c]) /\ spent[c] \in [Events -> Nat]
  BY <1>3, CyclesTyped
<1>8. CASE UNCHANGED <<pairs, spent, drafts>>
  <2>1. spent' = [spent EXCEPT ![c] = spent[c]] /\ drafts' = [drafts EXCEPT ![c] = drafts[c]]
    BY <1>3, <1>8, SameSpent, NoChange
  <2>2. ASSUME NEW E, NEW cap, Scope(E, cap), NEW d \in Stores
        PROVE  PendingOf(conn[c], pc[c], spent[c], drafts[c], d, E, cap)
                 <= PendingOf(conn[c], pc[c], spent[c], drafts[c], d, E, cap)
    BY <1>7, <2>2, PendingNat
  <2>3. rows' = rows
    BY <1>2
  <2>4. QED
    BY <1>5, <1>6, <1>7, <2>1, <2>2, <2>3, PlainCaps
<1>9. CASE Draft(c, o)
  <2>1. PICK s, ev, x, sp, ds :
          /\ s = StakeFor(c, o) /\ ev = EventOf[o.market]
          /\ x = [status |-> "PAPER_INTENDED", store |-> conn[c], market |-> o.market,
                  side |-> o.side, stake |-> s]
          /\ sp = [spent[c] EXCEPT ![ev] = @ + s] /\ ds = Append(drafts[c], x)
    OBVIOUS
  <2>2. /\ s \in Nat
        /\ \A E, cap : Scope(E, cap) /\ ev \in E => s <= Left(cap, SumOver(E, spent[c]))
    BY <1>3, <1>4, <2>1, StakeFits
  <2>3. ev \in Events /\ o.market \in Markets
    BY <1>4, <2>1, MarketAssumption DEF Opportunity
  <2>4. x.stake = s /\ x.market = o.market /\ Priced(x)
    BY <2>1, <2>2, <2>3 DEF Priced
  <2>5. spent' = [spent EXCEPT ![c] = sp] /\ drafts' = [drafts EXCEPT ![c] = ds]
    <3>1. spent' = [spent EXCEPT ![c] = [spent[c] EXCEPT ![ev] = @ + s]]
      BY <1>3, <1>9, <2>1 DEF Draft, CapTypes
    <3>2. drafts' = [drafts EXCEPT ![c] = Append(drafts[c], x)]
      BY <1>9, <2>1 DEF Draft, LedgerInv, CyclesInv
    <3>3. QED
      BY <2>1, <3>1, <3>2
  <2>6. /\ sp \in [Events -> Nat] /\ sp[ev] = spent[c][ev] + s
        /\ \A e \in Events \ {ev} : sp[e] = spent[c][e]
    BY <1>7, <2>1, <2>2, <2>3
  <2>7. IsSequence(ds) /\ AllPriced(ds)
    BY <1>7, <2>1, <2>4, DraftsMore
  <2>8. ASSUME NEW E, NEW cap, Scope(E, cap), NEW d \in Stores
        PROVE  PendingOf(conn[c], pc[c], sp, ds, d, E, cap)
                 <= PendingOf(conn[c], pc[c], spent[c], drafts[c], d, E, cap)
    <3>1. PICK u, v, m, n : /\ u = SumOver(E, spent[c]) /\ v = SumOver(E, sp)
                            /\ m = DraftSum(drafts[c], E) /\ n = DraftSum(ds, E)
      OBVIOUS
    <3>2. E \in SUBSET Events /\ IsFiniteSet(E) /\ cap \in Nat
      BY <2>8, ScopeTyped
    <3>3. u \in Nat /\ v \in Nat /\ m \in Nat
      BY <1>7, <2>6, <2>7, <2>8, <3>1, PendingNat, WeightsNat
    <3>4. m + Left(cap, u) >= n + Left(cap, v)
      <4>1. CASE ev \in E
        <5>1. n = m + s
          BY <1>7, <2>1, <2>4, <3>1, <4>1, DraftsMore
        <5>2. v = u + s
          <6>1. /\ \A e \in E : spent[c][e] \in Nat
                /\ sp[ev] \in Nat /\ \A e \in E \ {ev} : sp[e] = spent[c][e]
            BY <1>7, <2>3, <2>6, <3>2
          <6>2. SumOver(E, sp) + spent[c][ev] = SumOver(E, spent[c]) + sp[ev]
            BY <3>2, <4>1, <6>1, SumChange
          <6>3. spent[c][ev] \in Nat
            BY <1>7, <2>3
          <6>4. QED
            BY <2>2, <2>6, <3>1, <3>3, <6>2, <6>3
        <5>3. s <= Left(cap, u)
          BY <2>2, <2>8, <3>1, <4>1
        <5>4. /\ Left(cap, u) \in Nat /\ Left(cap, v) \in Nat
              /\ u <= cap => Left(cap, u) + u = cap
              /\ cap <= u => Left(cap, u) = 0
              /\ v <= cap => Left(cap, v) + v = cap
          BY <3>2, <3>3, LeftIs
        <5>5. QED
          <6>1. PICK l, k : l = Left(cap, u) /\ k = Left(cap, v)
            OBVIOUS
          <6>2. CASE u <= cap
            <7>1. v <= cap
              BY <2>2, <3>2, <3>3, <5>2, <5>3, <5>4, <6>2
            <7>2. QED
              BY <2>2, <3>2, <3>3, <5>1, <5>2, <5>4, <6>1, <6>2, <7>1
          <6>3. CASE cap <= u
            <7>1. s = 0
              BY <2>2, <5>3, <5>4, <6>3
            <7>2. QED
              BY <3>3, <5>1, <5>2, <5>4, <7>1
          <6>4. QED
            BY <3>2, <3>3, <6>2, <6>3
      <4>2. CASE ev \notin E
        <5>1. n = m
          BY <1>7, <2>1, <2>4, <3>1, <3>3, <4>2, DraftsMore
        <5>2. v = u
          <6>1. \A e \in E : sp[e] = spent[c][e]
            BY <2>6, <3>2, <4>2
          <6>2. QED
            BY <3>1, <6>1, SumSame
        <5>3. Left(cap, u) \in Nat
          BY <3>2, <3>3, LeftIs
        <5>4. QED
          BY <3>3, <5>1, <5>2, <5>3
      <4>3. QED
        BY <4>1, <4>2
    <3>5. CASE conn[c] # d
      BY <3>5 DEF PendingOf
    <3>6. CASE conn[c] = d
      BY <1>2, <3>1, <3>4, <3>6 DEF PendingOf
    <3>7. QED
      BY <3>5, <3>6
  <2>9. QED
    BY <1>2, <1>5, <1>6, <2>5, <2>6, <2>7, <2>8, PlainCaps
<1>10. QED
  BY <1>2, <1>8, <1>9

(* A row more, in the sums. *)
LEMMA RowsMore ==
  ASSUME NEW rs, IsSequence(rs), AllPriced(rs), NEW x, Priced(x), NEW d, NEW E
  PROVE  /\ IsSequence(Append(rs, x)) /\ AllPriced(Append(rs, x))
         /\ OpenSum(Append(rs, x), d, E)
              <= OpenSum(rs, d, E)
                   + (IF x.store = d /\ EventOf[x.market] \in E THEN x.stake ELSE 0)
<1> DEFINE new == Append(rs, x)
           n == Len(rs) + 1
           f == WeightOf(new, d, E)
<1>1. Len(rs) \in Nat /\ DOMAIN rs = 1 .. Len(rs)
  BY Lengths
<1>2. /\ IsSequence(new) /\ DOMAIN new = 1 .. n /\ \A k \in DOMAIN rs : new[k] = rs[k]
      /\ new[n] = x
  BY Appending
<1>3. /\ n \in DOMAIN new /\ DOMAIN new \ {n} = DOMAIN rs
  BY <1>1, <1>2
<1>4. AllPriced(new)
  <2>1. \A k \in DOMAIN new : k = n \/ k \in DOMAIN rs
    BY <1>3
  <2> HIDE DEF new, n
  <2>2. QED
    BY <1>2, <2>1 DEF AllPriced
<1> HIDE DEF new, n
<1>5. \A k \in DOMAIN new : f[k] \in Nat
  BY <1>2, <1>4, WeightsNat
<1>6. SumOver(DOMAIN new, f) = SumOver(DOMAIN rs, f) + f[n]
  <2>1. IsFiniteSet(DOMAIN new)
    BY <1>2, RowsFinite
  <2> HIDE DEF f
  <2>2. SumOver(DOMAIN new, f) = SumOver(DOMAIN new \ {n}, f) + f[n]
    BY <1>3, <1>5, <2>1, SumSplit
  <2>3. QED
    BY <1>3, <2>2
<1>7. SumOver(DOMAIN rs, f) = OpenSum(rs, d, E)
  <2>1. \A k \in DOMAIN rs : f[k] = WeightOf(rs, d, E)[k]
    BY <1>2, <1>3 DEF WeightOf
  <2> HIDE DEF f
  <2>2. QED
    BY <2>1, SumSame DEF OpenSum
<1>8. f[n] <= IF x.store = d /\ EventOf[x.market] \in E THEN x.stake ELSE 0
  <2>1. f[n] = IF /\ x.store = d /\ x.status = "PAPER_INTENDED"
                  /\ EventOf[x.market] \in E THEN x.stake ELSE 0
    BY <1>2, <1>3 DEF WeightOf
  <2> HIDE DEF f
  <2>2. QED
    BY <2>1 DEF Priced
<1>9. OpenSum(new, d, E) = SumOver(DOMAIN new, f)
  BY DEF OpenSum
<1>10. OpenSum(rs, d, E) \in Nat /\ f[n] \in Nat /\ x.stake \in Nat
  BY <1>3, <1>5, WeightsNat DEF Priced
<1>11. QED
  <2> HIDE DEF f
  <2> QED
    BY <1>2, <1>4, <1>6, <1>7, <1>8, <1>9, <1>10 DEF new

(* The first draft leaves the sums. *)
LEMMA DraftsFewer ==
  ASSUME NEW ds, IsSequence(ds), AllPriced(ds), ds # <<>>, NEW E
  PROVE  /\ IsSequence(Tail(ds)) /\ AllPriced(Tail(ds)) /\ Priced(Head(ds))
         /\ DraftSum(Tail(ds), E)
              + (IF EventOf[Head(ds).market] \in E THEN Head(ds).stake ELSE 0)
              <= DraftSum(ds, E)
<1> DEFINE t == Tail(ds)
           D == DOMAIN ds
           f == DraftWeight(ds, E)
           g == DraftWeight(t, E)
           h == [k \in DOMAIN t |-> k + 1]
<1>1. /\ IsSequence(t) /\ 1 \in D /\ Head(ds) = ds[1]
      /\ \A i \in DOMAIN t : i # 0 /\ i + 1 # 1 /\ i + 1 \in D /\ t[i] = ds[i + 1]
      /\ \A i, k \in DOMAIN t : i + 1 = k + 1 => i = k
  BY Tails
<1> HIDE DEF t, D
<1>2. AllPriced(t) /\ Priced(Head(ds))
  BY <1>1 DEF AllPriced, D
<1>3. IsFiniteSet(D) /\ IsFiniteSet(D \ {1}) /\ IsFiniteSet(DOMAIN t)
  <2>1. IsFiniteSet(D) /\ IsFiniteSet(DOMAIN t)
    BY <1>1, RowsFinite DEF D
  <2>2. QED
    BY <2>1, FS_RemoveElement
<1>4. \A k \in D : f[k] \in Nat
  BY WeightsNat DEF D
<1>5. \A k \in DOMAIN t : g[k] \in Nat
  BY <1>1, <1>2, WeightsNat
<1>6. h \in Injection(DOMAIN t, D \ {1})
  <2>1. h \in [DOMAIN t -> D \ {1}]
    BY <1>1
  <2>2. \A i, k \in DOMAIN t : h[i] = h[k] => i = k
    BY <1>1
  <2> HIDE DEF h
  <2>3. QED
    BY <2>1, <2>2 DEF Injection, IsInjective
<1>7. \A i \in DOMAIN t : g[i] <= f[h[i]]
  <2>1. ASSUME NEW i \in DOMAIN t PROVE g[i] <= f[h[i]]
    <3>1. h[i] = i + 1 /\ i + 1 \in D /\ t[i] = ds[i + 1]
      BY <1>1
    <3>2. g[i] = f[h[i]]
      BY <3>1 DEF DraftWeight, D
    <3>3. g[i] \in Nat
      BY <1>5
    <3> HIDE DEF f, g, h
    <3>4. QED
      BY <3>2, <3>3
  <2>2. QED
    BY <2>1
<1>8. f[1] = IF EventOf[Head(ds).market] \in E THEN Head(ds).stake ELSE 0
  BY <1>1 DEF DraftWeight, D
<1> HIDE DEF f, g, h
<1>9. SumOver(D, f) = SumOver(D \ {1}, f) + f[1] /\ SumOver(D \ {1}, f) \in Nat
  BY <1>1, <1>3, <1>4, SumSplit
<1>10. SumOver(DOMAIN t, g) <= SumOver(D \ {1}, f)
  BY <1>3, <1>4, <1>5, <1>6, <1>7, SumRenamed
<1>11. SumOver(DOMAIN t, g) \in Nat /\ f[1] \in Nat
  BY <1>1, <1>3, <1>4, <1>5, SumNat
<1>12. SumOver(DOMAIN t, g) + f[1] <= SumOver(D, f)
  BY <1>9, <1>10, <1>11
<1>13. DraftSum(t, E) = SumOver(DOMAIN t, g) /\ DraftSum(ds, E) = SumOver(D, f)
  BY DEF DraftSum, f, g, D
<1>14. QED
  BY <1>1, <1>2, <1>8, <1>12, <1>13 DEF t

LEMMA WriteIntentCaps ==
  ASSUME LedgerInv, LedgerInv', CapsInv, NEW c \in Cycles, WriteIntent(c)
  PROVE  CapsInv'
<1>1. PICK ds, x : ds = Tail(drafts[c]) /\ x = Head(drafts[c])
  OBVIOUS
<1>2. /\ pc[c] = "intend" /\ drafts[c] # <<>> /\ rows' = Append(rows, x)
      /\ pc' = [pc EXCEPT ![c] = "intend event"]
      /\ UNCHANGED <<conn, rank, spent>>
  BY <1>1 DEF WriteIntent
<1>3. drafts' = [drafts EXCEPT ![c] = ds]
  BY <1>1 DEF WriteIntent, LedgerInv, CyclesInv
<1>4. CapTypes
  BY DEF CapsInv
<1>5. /\ IsSequence(drafts[c]) /\ AllPriced(drafts[c]) /\ spent[c] \in [Events -> Nat]
      /\ \A k \in DOMAIN drafts[c] : drafts[c][k].store = conn[c]
      /\ IsSequence(rows) /\ AllPriced(rows)
  BY <1>4, CyclesTyped
<1>6. IsSequence(ds) /\ AllPriced(ds) /\ Priced(x)
  BY <1>1, <1>2, <1>5, DraftsFewer
<1>7. x.store = conn[c]
  <2>1. 1 \in DOMAIN drafts[c] /\ Head(drafts[c]) = drafts[c][1]
    BY <1>2, <1>5, Tails
  <2>2. QED
    BY <1>1, <1>5, <2>1
<1>8. IsSequence(rows') /\ AllPriced(rows')
  BY <1>2, <1>5, <1>6, RowsMore
<1>9. MovesAll(conn[c], "intend event", spent[c], ds, c)
  <2>1. ASSUME NEW E, NEW cap, Scope(E, cap), NEW d \in Stores
        PROVE  /\ PendingOf(conn[c], "intend event", spent[c], ds, d, E, cap) <= cap
               /\ OpenSum(rows', d, E)
                    + PendingOf(conn[c], "intend event", spent[c], ds, d, E, cap)
                    <= OpenSum(rows, d, E)
                         + PendingOf(conn[c], pc[c], spent[c], drafts[c], d, E, cap)
    <3> DEFINE w == IF EventOf[x.market] \in E THEN x.stake ELSE 0
               m == DraftSum(drafts[c], E)
               n == DraftSum(ds, E)
               k == OpenSum(rows, d, E)
               l == OpenSum(rows', d, E)
               before == PendingOf(conn[c], pc[c], spent[c], drafts[c], d, E, cap)
               after == PendingOf(conn[c], "intend event", spent[c], ds, d, E, cap)
    <3>1. cap \in Nat
      BY <2>1, ScopeTyped
    <3>2. /\ w \in Nat /\ m \in Nat /\ n \in Nat /\ k \in Nat /\ l \in Nat
      BY <1>5, <1>6, <1>8, WeightsNat DEF Priced
    <3>3. n + w <= m
      BY <1>1, <1>2, <1>5, DraftsFewer
    <3>4. before <= cap
      BY <2>1 DEF CapsInv, CapInv, Pending
    <3>5. l <= k + (IF conn[c] = d THEN w ELSE 0)
      <4>1. l <= k + (IF x.store = d /\ EventOf[x.market] \in E THEN x.stake ELSE 0)
        BY <1>2, <1>5, <1>6, RowsMore
      <4>2. QED
        BY <1>7, <4>1
    <3>6. CASE conn[c] = d
      <4>1. before = m /\ after = n
        <5>1. before = m + 0
          BY <1>2, <3>6 DEF PendingOf
        <5>2. after = n + 0
          BY <3>6 DEF PendingOf
        <5>3. m \in Nat /\ n \in Nat
          BY <3>2
        <5> HIDE DEF m, n, before, after
        <5>4. m + 0 = m /\ n + 0 = n
          BY <5>3
        <5>5. QED
          BY <5>1, <5>2, <5>4
      <4> HIDE DEF w, m, n, k, l, before, after
      <4>2. l <= k + w
        BY <3>5, <3>6
      <4>3. after <= cap /\ l + after <= k + before
        BY <3>1, <3>2, <3>3, <3>4, <4>1, <4>2
      <4>4. QED
        BY <4>3 DEF l, k, after, before
    <3>7. CASE conn[c] # d
      <4>1. before = 0 /\ after = 0
        BY <3>7 DEF PendingOf
      <4> HIDE DEF w, m, n, k, l, before, after
      <4>2. l <= k
        BY <3>2, <3>5, <3>7
      <4>3. after <= cap /\ l + after <= k + before
        BY <3>1, <3>2, <4>1, <4>2
      <4>4. QED
        BY <4>3 DEF l, k, after, before
    <3>8. QED
      BY <3>6, <3>7
  <2>2. ASSUME NEW E, NEW cap, Scope(E, cap)
        PROVE  Moves(conn[c], "intend event", spent[c], ds, c, E, cap)
    BY <2>1, <2>2 DEF Moves
  <2>3. QED
    BY <2>2 DEF MovesAll
<1>10. conn' = [conn EXCEPT ![c] = conn[c]] /\ spent' = [spent EXCEPT ![c] = spent[c]]
  BY <1>2, <1>4, NoChange, SameSpent
<1>11. rank' = [e \in Cycles |-> rank'[e]] /\ \A e \in Cycles : rank'[e] \in Seq(Opportunity)
  BY <1>2, <1>4 DEF CapTypes
<1>12. QED
  BY <1>2, <1>3, <1>5, <1>6, <1>8, <1>9, <1>10, <1>11, MovesCaps

(* Rows that close, or keep what they are. *)
Closing(new, old) ==
  /\ DOMAIN new = DOMAIN old
  /\ \A i \in DOMAIN old :
       /\ new[i].store = old[i].store /\ new[i].market = old[i].market
       /\ new[i].stake = old[i].stake /\ new[i].status \in {old[i].status, "SETTLED"}

LEMMA ClosingSums ==
  ASSUME NEW new, NEW old, IsSequence(old), AllPriced(old), Closing(new, old), NEW d, NEW E
  PROVE  AllPriced(new) /\ OpenSum(new, d, E) <= OpenSum(old, d, E) /\ OpenSum(new, d, E) \in Nat
<1>1. AllPriced(new)
  BY DEF AllPriced, Priced, Closing
<1> DEFINE f == WeightOf(new, d, E)
           g == WeightOf(old, d, E)
           S == DOMAIN old
<1>2. IsFiniteSet(S) /\ \A i \in S : g[i] \in Nat
  BY RowsFinite, WeightsNat
<1>3. DOMAIN new = S
  BY DEF Closing
<1>4. ASSUME NEW i \in S PROVE f[i] \in Nat /\ f[i] <= g[i]
  <2>1. new[i].stake \in Nat
    BY <1>1, <1>3 DEF AllPriced, Priced
  <2>2. f[i] = g[i] \/ f[i] = 0
    BY <1>3 DEF WeightOf, Closing
  <2>3. g[i] \in Nat
    BY <1>2
  <2> HIDE DEF f, g
  <2>4. QED
    BY <2>2, <2>3
<1> HIDE DEF f, g, S
<1>5. SumOver(S, f) <= SumOver(S, g) /\ SumOver(S, f) \in Nat
  BY <1>2, <1>4, SumMonotone, SumNat
<1>6. QED
  BY <1>1, <1>3, <1>5 DEF OpenSum, f, g, S

LEMMA WriteSettledCaps ==
  ASSUME LedgerInv, LedgerInv', CapsInv, NEW c \in Cycles, WriteSettled(c)
  PROVE  CapsInv'
<1>1. PICK h : h = Head(todo[c])
  OBVIOUS
<1>2. /\ pc[c] = "settle" /\ pc' = [pc EXCEPT ![c] = "settle event"]
      /\ rows' = [rows EXCEPT ![h].status = "SETTLED"]
      /\ UNCHANGED <<conn, rank, spent, drafts>>
  BY <1>1 DEF WriteSettled
<1>3. CapTypes
  BY DEF CapsInv
<1>4. Closing(rows', rows)
  <2>1. ASSUME NEW i \in DOMAIN rows
        PROVE  /\ rows'[i].store = rows[i].store /\ rows'[i].market = rows[i].market
               /\ rows'[i].stake = rows[i].stake
               /\ rows'[i].status \in {rows[i].status, "SETTLED"}
    <3>1. CASE i # h
      BY <1>2, <3>1
    <3>2. CASE i = h
      <4> DEFINE row == rows[i]
                 s == row.store  m == row.market  d == row.side  k == row.stake  t == row.status
      <4>1. row = [status |-> t, store |-> s, market |-> m, side |-> d, stake |-> k]
        BY DEF LedgerInv, RowsShaped, Shaped
      <4>2. rows'[i] = [row EXCEPT !.status = "SETTLED"]
        BY <1>2, <3>2
      <4>3. s = row.store /\ m = row.market /\ k = row.stake
        OBVIOUS
      <4> HIDE DEF s, m, d, k, t, row
      <4>4. rows'[i] = [status |-> "SETTLED", store |-> s, market |-> m, side |-> d, stake |-> k]
        BY <4>1, <4>2
      <4>5. /\ rows'[i].store = row.store /\ rows'[i].market = row.market
            /\ rows'[i].stake = row.stake /\ rows'[i].status = "SETTLED"
        BY <4>3, <4>4
      <4>6. QED
        BY <4>5 DEF row
    <3>3. QED
      BY <3>1, <3>2
  <2>2. DOMAIN rows' = DOMAIN rows
    BY <1>2
  <2>3. QED
    BY <2>1, <2>2 DEF Closing
<1>5. /\ IsSequence(drafts[c]) /\ AllPriced(drafts[c]) /\ spent[c] \in [Events -> Nat]
      /\ IsSequence(rows) /\ AllPriced(rows)
  BY <1>3, CyclesTyped
<1>6. \A d, E : /\ AllPriced(rows') /\ OpenSum(rows', d, E) \in Nat
                /\ OpenSum(rows', d, E) <= OpenSum(rows, d, E)
  BY <1>4, <1>5, ClosingSums
<1>7. MovesAll(conn[c], "settle event", spent[c], drafts[c], c)
  <2>1. ASSUME NEW E, NEW cap, Scope(E, cap), NEW d \in Stores
        PROVE  /\ PendingOf(conn[c], "settle event", spent[c], drafts[c], d, E, cap) <= cap
               /\ OpenSum(rows', d, E)
                    + PendingOf(conn[c], "settle event", spent[c], drafts[c], d, E, cap)
                    <= OpenSum(rows, d, E)
                         + PendingOf(conn[c], pc[c], spent[c], drafts[c], d, E, cap)
    <3> DEFINE k == OpenSum(rows, d, E)
               l == OpenSum(rows', d, E)
               before == PendingOf(conn[c], pc[c], spent[c], drafts[c], d, E, cap)
               after == PendingOf(conn[c], "settle event", spent[c], drafts[c], d, E, cap)
    <3>1. before <= cap
      BY <2>1 DEF CapsInv, CapInv, Pending
    <3>2. after = before
      BY <1>2 DEF PendingOf
    <3>3. k \in Nat /\ l \in Nat /\ before \in Nat /\ l <= k
      BY <1>5, <1>6, <2>1, WeightsNat, PendingNat
    <3> HIDE DEF k, l, before, after
    <3>4. after <= cap /\ l + after <= k + before
      BY <3>1, <3>2, <3>3
    <3>5. QED
      BY <3>4 DEF k, l, before, after
  <2>2. ASSUME NEW E, NEW cap, Scope(E, cap)
        PROVE  Moves(conn[c], "settle event", spent[c], drafts[c], c, E, cap)
    BY <2>1, <2>2 DEF Moves
  <2>3. QED
    BY <2>2 DEF MovesAll
<1>8. /\ conn' = [conn EXCEPT ![c] = conn[c]] /\ spent' = [spent EXCEPT ![c] = spent[c]]
      /\ drafts' = [drafts EXCEPT ![c] = drafts[c]]
  BY <1>2, <1>3, NoChange, SameSpent
<1>9. rank' = [e \in Cycles |-> rank'[e]] /\ \A e \in Cycles : rank'[e] \in Seq(Opportunity)
  BY <1>2, <1>3 DEF CapTypes
<1>10. QED
  BY <1>2, <1>5, <1>6, <1>7, <1>8, <1>9, MovesCaps

(* What is open in a scope of events. *)
StakeOf == [i \in DOMAIN rows |-> rows[i].stake]
OpenIn(d, E) == {i \in Open(d) : EventOf[rows[i].market] \in E}

LEMMA OpenIs ==
  ASSUME IsSequence(rows), AllPriced(rows), NEW d, NEW E
  PROVE  /\ OpenSum(rows, d, E) = SumOver(OpenIn(d, E), StakeOf)
         /\ IsFiniteSet(OpenIn(d, E)) /\ \A i \in OpenIn(d, E) : StakeOf[i] \in Nat
<1> DEFINE f == WeightOf(rows, d, E)
           S == OpenIn(d, E)
<1>1. S \in SUBSET DOMAIN rows
  BY DEF OpenIn, Open
<1>2. IsFiniteSet(S)
  BY <1>1, RowsFinite, FS_Subset
<1>3. \A i \in DOMAIN rows : StakeOf[i] \in Nat
  BY DEF StakeOf, AllPriced, Priced
<1>4. \A i \in S : f[i] = StakeOf[i]
  BY DEF OpenIn, Open, WeightOf, StakeOf
<1>5. \A i \in DOMAIN rows \ S : f[i] = 0
  BY DEF OpenIn, Open, WeightOf
<1> HIDE DEF f, S
<1>6. Units(DOMAIN rows, f) = Units(S, StakeOf)
  <2>1. ASSUME NEW u \in Units(DOMAIN rows, f) PROVE u \in Units(S, StakeOf)
    <3>1. PICK i \in DOMAIN rows : u \in {i} \X (1 .. f[i])
      BY DEF Units
    <3>2. i \in S
      <4>1. CASE i \notin S
        <5>1. f[i] = 0
          BY <1>5, <4>1
        <5>2. 1 .. f[i] = {}
          BY <5>1
        <5>3. QED
          BY <3>1, <5>2
      <4>2. QED
        BY <4>1
    <3>3. u \in {i} \X (1 .. StakeOf[i])
      BY <1>4, <3>1, <3>2
    <3>4. QED
      BY <3>2, <3>3 DEF Units
  <2>2. ASSUME NEW u \in Units(S, StakeOf) PROVE u \in Units(DOMAIN rows, f)
    BY <1>1, <1>4 DEF Units
  <2>3. QED
    BY <2>1, <2>2
<1>7. QED
  BY <1>1, <1>2, <1>3, <1>6 DEF OpenSum, SumOver, S, f

(* The count of a cycle is what is open, or more. *)
Counts(d) == [e \in Events |-> Staked(OfEvent(Open(d), e))]

LEMMA CountsAll ==
  ASSUME IsSequence(rows), AllPriced(rows), NEW d, NEW E, E \in SUBSET Events
  PROVE  Counts(d) \in [Events -> Nat] /\ OpenSum(rows, d, E) <= SumOver(E, Counts(d))
<1> DEFINE S == OpenIn(d, E)
           k == [i \in S |-> EventOf[rows[i].market]]
           g == Counts(d)
<1>1. ASSUME NEW e \in Events
      PROVE  g[e] = SumOver(OpenIn(d, {e}), StakeOf) /\ g[e] \in Nat
  <2>1. OfEvent(Open(d), e) = OpenIn(d, {e})
    BY DEF OfEvent, OpenIn
  <2>2. g[e] = SumOver(OpenIn(d, {e}), StakeOf)
    BY <2>1 DEF Counts, Staked, StakeOf
  <2>3. SumOver(OpenIn(d, {e}), StakeOf) \in Nat
    BY OpenIs, SumNat
  <2>4. QED
    BY <2>2, <2>3
<1>2. g \in [Events -> Nat]
  BY <1>1 DEF Counts
<1>3. k \in [S -> E]
  BY DEF OpenIn
<1>4. \A e \in E : g[e] = SumOver({i \in S : k[i] = e}, StakeOf)
  <2>1. ASSUME NEW e \in E PROVE g[e] = SumOver({i \in S : k[i] = e}, StakeOf)
    <3>1. {i \in S : k[i] = e} = OpenIn(d, {e})
      BY DEF OpenIn
    <3>2. QED
      BY <1>1, <3>1
  <2>2. QED
    BY <2>1
<1>5. IsFiniteSet(S) /\ \A i \in S : StakeOf[i] \in Nat
  BY OpenIs
<1>6. IsFiniteSet(E)
  BY MarketAssumption, FS_Subset
<1> HIDE DEF S, k, g
<1>7. SumOver(S, StakeOf) <= SumOver(E, g)
  BY <1>3, <1>4, <1>5, <1>6, SumGrouped
<1>8. OpenSum(rows, d, E) = SumOver(S, StakeOf)
  BY OpenIs DEF S
<1>9. QED
  BY <1>2, <1>7, <1>8 DEF g

(* What the others may open in a store, beside the cycle that counts. *)
LEMMA OthersFit ==
  ASSUME LedgerInv, CapTypes, NEW c \in Cycles, NEW d \in Stores, conn[c] = d,
         NEW E, NEW cap, Scope(E, cap), CapInv(E, cap)
  PROVE  /\ SumOver(Cycles \ {c}, Pending(d, E, cap)) \in Nat
         /\ SumOver(Cycles \ {c}, Pending(d, E, cap)) + cap <= Width(d) * cap
<1> DEFINE R == Cycles \ {c}
           f == Pending(d, E, cap)
<1>1. IsFiniteSet(R) /\ Cardinality(R) \in Nat
  BY CycleAssumption, FS_RemoveElement, FS_CardinalityType
<1>2. \A e \in R : f[e] \in Nat /\ f[e] <= cap
  BY PendingTyped DEF CapInv
<1>3. cap \in Nat
  BY ScopeTyped
<1>4. CASE d = "duckdb"
  <2>1. \A e \in R : f[e] = 0
    BY <1>4 DEF LedgerInv, OneInside, Processes, Pending, PendingOf
  <2> HIDE DEF R, f
  <2>2. SumOver(R, f) <= Cardinality(R) * 0 /\ SumOver(R, f) \in Nat
    <3>1. \A e \in R : f[e] \in Nat /\ f[e] <= 0
      BY <2>1
    <3>2. 0 \in Nat
      OBVIOUS
    <3>3. QED
      BY <1>1, <3>1, <3>2, SumAtMost
  <2>3. Width(d) = 1
    BY <1>4 DEF Width
  <2>4. SumOver(R, f) + cap <= 1 * cap
    BY <1>1, <1>3, <2>2
  <2>5. QED
    BY <2>2, <2>3, <2>4 DEF R, f
<1>5. CASE d # "duckdb"
  <2>1. Cardinality(R) = Cardinality(Cycles) - 1 /\ Cardinality(Cycles) \in Nat
    BY CycleAssumption, FS_RemoveElement, FS_CardinalityType
  <2> HIDE DEF R, f
  <2>2. SumOver(R, f) <= Cardinality(R) * cap /\ SumOver(R, f) \in Nat
    BY <1>1, <1>2, <1>3, SumAtMost
  <2>3. Width(d) = Cardinality(Cycles)
    BY <1>5 DEF Width
  <2>4. PICK n : n = Cardinality(Cycles)
    OBVIOUS
  <2>5. (n - 1) * cap + cap = n * cap /\ (n - 1) * cap \in Int /\ n * cap \in Int
    BY <1>3, <2>1, <2>4
  <2>6. SumOver(R, f) + cap <= n * cap
    BY <1>3, <2>1, <2>2, <2>4, <2>5
  <2>7. QED
    BY <2>2, <2>3, <2>4, <2>6 DEF R, f
<1>6. QED
  BY <1>4, <1>5

LEMMA LoadCaps ==
  ASSUME LedgerInv, LedgerInv', CapsInv, NEW c \in Cycles, LoadOpen(c)
  PROVE  CapsInv'
<1>1. PICK sp : sp = Counts(conn[c])
  OBVIOUS
<1>2. CapTypes
  BY DEF CapsInv
<1>3. /\ pc[c] = "rank" /\ pc' = [pc EXCEPT ![c] = "build"]
      /\ spent' = [spent EXCEPT ![c] = sp]
      /\ UNCHANGED <<conn, drafts, rows>>
  BY <1>1 DEF LoadOpen, tables, Counts
<1>4. rank' = [e \in Cycles |-> rank'[e]] /\ \A e \in Cycles : rank'[e] \in Seq(Opportunity)
  <2>1. PICK report \in Reports : rank' = [rank EXCEPT ![c] = report]
    BY DEF LoadOpen
  <2>2. report \in Seq(Opportunity)
    BY StakeAssumption
  <2>3. QED
    BY <1>2, <2>1, <2>2, RankMoves
<1>5. /\ IsSequence(drafts[c]) /\ AllPriced(drafts[c]) /\ spent[c] \in [Events -> Nat]
      /\ IsSequence(rows) /\ AllPriced(rows)
  BY <1>2, CyclesTyped
<1>6. drafts[c] = <<>>
  BY <1>3 DEF LedgerInv, CyclesInv, CycleOK
<1>7. sp \in [Events -> Nat]
  <2>1. Events \in SUBSET Events
    OBVIOUS
  <2>2. QED
    BY <1>1, <1>5, <2>1, CountsAll
<1>8. conn' = [conn EXCEPT ![c] = conn[c]] /\ drafts' = [drafts EXCEPT ![c] = drafts[c]]
  BY <1>3, NoChange
<1>9. /\ conn'[c] = conn[c] /\ pc'[c] = "build" /\ spent'[c] = sp /\ drafts'[c] = <<>>
      /\ \A e \in Cycles \ {c} : /\ conn'[e] = conn[e] /\ pc'[e] = pc[e]
                                /\ spent'[e] = spent[e] /\ drafts'[e] = drafts[e]
  <2>1. conn' = conn /\ drafts' = drafts
    BY <1>3
  <2>2. pc'[c] = "build" /\ \A e \in Cycles \ {c} : pc'[e] = pc[e]
    BY <1>3 DEF LedgerInv, CyclesInv
  <2>3. spent'[c] = sp /\ \A e \in Cycles \ {c} : spent'[e] = spent[e]
    BY <1>2, <1>3 DEF CapTypes
  <2>4. QED
    BY <1>6, <2>1, <2>2, <2>3
<1>10. CapTypes'
  <2>1. spent' = [e \in Cycles |-> IF e = c THEN sp ELSE spent[e]]
    BY <1>2, <1>3 DEF CapTypes
  <2>2. spent' \in [Cycles -> [Events -> Nat]]
    BY <1>2, <1>7, <2>1 DEF CapTypes
  <2>3. QED
    BY <1>2, <1>3, <1>4, <2>2 DEF CapTypes
<1>11. ASSUME NEW E, NEW cap, Scope(E, cap) PROVE CapInv(E, cap)'
  <2> SUFFICES ASSUME NEW d \in Stores
               PROVE  /\ \A e \in Cycles : Pending(d, E, cap)'[e] <= cap
                      /\ OpenSum(rows, d, E) + SumOver(Cycles, Pending(d, E, cap)') <= Width(d)' * cap
    BY <1>3 DEF CapInv, OpenSum, WeightOf, SumOver, Units
  <2> DEFINE f == Pending(d, E, cap)
             g == Pending(d, E, cap)'
             open == OpenSum(rows, d, E)
             left == Left(cap, SumOver(E, sp))
  <2>1. CapInv(E, cap)
    BY <1>11 DEF CapsInv
  <2>2. /\ \A e \in Cycles : f[e] \in Nat /\ f[e] <= cap
        /\ SumOver(Cycles, f) \in Nat /\ open \in Nat
        /\ open + SumOver(Cycles, f) <= Width(d) * cap
    BY <1>2, <1>11, <2>1, PendingTyped DEF CapInv
  <2>3. g[c] = (IF conn[c] # d THEN 0 ELSE left) /\ \A e \in Cycles \ {c} : g[e] = f[e]
    <3>1. \A e \in Cycles : g[e] = PendingOf(conn'[e], pc'[e], spent'[e], drafts'[e], d, E, cap)
      BY DEF Pending
    <3>2. \A e \in Cycles \ {c} : g[e] = f[e]
      BY <1>9, <3>1 DEF Pending
    <3>3. g[c] = PendingOf(conn[c], "build", sp, <<>>, d, E, cap)
      BY <1>9, <3>1
    <3>4. PendingOf(conn[c], "build", sp, <<>>, d, E, cap) = IF conn[c] # d THEN 0 ELSE 0 + left
      BY NoDrafts DEF PendingOf
    <3>5. left \in Nat
      BY <1>5, <1>7, <1>11, PendingNat, ScopeTyped, LeftIs
    <3> HIDE DEF f, g, left
    <3>6. 0 + left = left
      BY <3>5
    <3>7. QED
      BY <3>2, <3>3, <3>4, <3>6
  <2>4. Width(d)' = Width(d) /\ Width(d) * cap \in Nat /\ cap \in Nat
    <3>1. \A a, b \in Nat : a * b \in Nat
      OBVIOUS
    <3>2. cap \in Nat
      BY <1>11, ScopeTyped
    <3>3. QED
      BY <3>1, <3>2, WidthNat DEF Width
  <2>5. CASE conn[c] # d
    <3>1. f[c] = 0
      BY <2>5 DEF Pending, PendingOf
    <3>2. \A e \in Cycles : g[e] = f[e]
      BY <2>3, <2>5, <3>1
    <3> HIDE DEF f, g, open
    <3>3. SumOver(Cycles, g) = SumOver(Cycles, f)
      BY <3>2, SumSame
    <3>4. \A e \in Cycles : g[e] <= cap
      BY <2>2, <3>2
    <3>5. open + SumOver(Cycles, g) <= Width(d)' * cap
      BY <2>2, <2>4, <3>3
    <3>6. QED
      BY <3>4, <3>5 DEF g, open
  <2>6. CASE conn[c] = d
    <3> DEFINE u == SumOver(E, sp)
               rest == SumOver(Cycles \ {c}, f)
    <3>1. open <= u /\ u \in Nat
      <4>1. open <= u
        BY <1>1, <1>5, <1>11, <2>6, ScopeTyped, CountsAll
      <4>2. u \in Nat
        BY <1>5, <1>7, <1>11, PendingNat
      <4>3. QED
        BY <4>1, <4>2
    <3>2. /\ left \in Nat /\ left <= cap
          /\ u <= cap => left + u = cap
          /\ cap <= u => left = 0
      <4> HIDE DEF u
      <4>1. left = Left(cap, u)
        BY DEF u
      <4> HIDE DEF left
      <4>2. QED
        BY <2>4, <3>1, <4>1, LeftIs
    <3>3. rest \in Nat /\ rest + cap <= Width(d) * cap
      BY <1>2, <1>11, <2>1, <2>6, OthersFit
    <3>4. SumOver(Cycles, f) = rest + f[c]
      <4> HIDE DEF f
      <4> QED
        BY <2>2, CycleAssumption, SumSplit
    <3>5. SumOver(Cycles, g) = rest + left
      <4>1. g[c] = left /\ \A e \in Cycles \ {c} : g[e] = f[e]
        BY <2>3, <2>6
      <4> HIDE DEF f, g, left
      <4>2. \A e \in Cycles : g[e] \in Nat
        BY <2>2, <3>2, <4>1
      <4>3. SumOver(Cycles, g) = SumOver(Cycles \ {c}, g) + g[c]
        BY <4>2, CycleAssumption, SumSplit
      <4>4. SumOver(Cycles \ {c}, g) = SumOver(Cycles \ {c}, f)
        BY <4>1, SumSame
      <4>5. QED
        BY <4>1, <4>3, <4>4
    <3>6. \A e \in Cycles : g[e] <= cap
      <4>1. g[c] = left /\ \A e \in Cycles \ {c} : g[e] = f[e]
        BY <2>3, <2>6
      <4> HIDE DEF f, g, left
      <4>2. QED
        BY <2>2, <3>2, <4>1
    <3>7. f[c] \in Nat
      BY <2>2
    <3> HIDE DEF f, g, open, left, u, rest
    <3>8. open + SumOver(Cycles, g) <= Width(d)' * cap
      <4>1. CASE u <= cap
        BY <2>2, <2>4, <3>1, <3>2, <3>3, <3>5, <4>1
      <4>2. CASE cap <= u
        BY <2>2, <2>4, <3>1, <3>2, <3>3, <3>4, <3>5, <3>7, <4>2
      <4>3. QED
        BY <2>4, <3>1, <4>1, <4>2
    <3>9. QED
      BY <3>6, <3>8 DEF g, open
  <2>7. QED
    BY <2>5, <2>6
<1>12. QED
  BY <1>10, <1>11 DEF CapsInv, Scope

(* Neither a row nor a cycle moves. *)
LEMMA StillCaps ==
  ASSUME CapsInv, UNCHANGED <<rows, pc, rank, spent, drafts>>,
         \A c \in Cycles : conn'[c] = conn[c]
  PROVE  CapsInv'
<1>1. CapTypes'
  BY DEF CapsInv, CapTypes
<1>2. ASSUME NEW E, NEW cap, Scope(E, cap), NEW d \in Stores
      PROVE  /\ Pending(d, E, cap)' = Pending(d, E, cap)
             /\ OpenSum(rows, d, E)' = OpenSum(rows, d, E) /\ Width(d)' = Width(d)
  BY DEF Pending, OpenSum, SumOver, Units, WeightOf, Width
<1>3. ASSUME NEW E, NEW cap, Scope(E, cap) PROVE CapInv(E, cap)'
  <2> SUFFICES ASSUME NEW d \in Stores
               PROVE  /\ \A c \in Cycles : Pending(d, E, cap)'[c] <= cap
                      /\ OpenSum(rows, d, E)' + SumOver(Cycles, Pending(d, E, cap)') <= Width(d)' * cap
    BY DEF CapInv, OpenSum, WeightOf, SumOver, Units
  <2>1. CapInv(E, cap)
    BY <1>3 DEF CapsInv
  <2>2. QED
    BY <1>2, <1>3, <2>1 DEF CapInv
<1>4. QED
  BY <1>1, <1>3 DEF CapsInv, Scope

LEMMA CapsHoldInit == Init => CapsInv
<1>1. SUFFICES ASSUME Init PROVE CapsInv
  OBVIOUS
<1>2. /\ conn = [p \in Processes |-> "none"] /\ rank = [c \in Cycles |-> <<>>] /\ rows = <<>>
      /\ spent = [c \in Cycles |-> Nothing] /\ drafts = [c \in Cycles |-> <<>>]
  BY <1>1 DEF Init
<1>3. CapTypes
  <2>1. Nothing \in [Events -> Nat] /\ AllPriced(<<>>) /\ <<>> \in Seq(Opportunity)
    BY Empties DEF Nothing, AllPriced
  <2>2. QED
    BY <1>2, <2>1 DEF CapTypes
<1>4. ASSUME NEW E, NEW cap, Scope(E, cap), NEW d \in Stores
      PROVE  /\ \A c \in Cycles : Pending(d, E, cap)[c] <= cap
             /\ OpenSum(rows, d, E) + SumOver(Cycles, Pending(d, E, cap)) <= Width(d) * cap
  <2>1. \A c \in Cycles : Pending(d, E, cap)[c] = 0
    BY <1>2 DEF Pending, PendingOf, Processes, Stores
  <2>2. cap \in Nat /\ Width(d) \in Nat
    BY <1>4, ScopeTyped, WidthNat
  <2>3. OpenSum(rows, d, E) = 0
    <3>1. DOMAIN rows = {}
      BY <1>2, Empties
    <3>2. QED
      BY <3>1, SumEmpty DEF OpenSum
  <2>4. SumOver(Cycles, Pending(d, E, cap)) = 0
    <3> DEFINE f == Pending(d, E, cap)
    <3>1. \A c \in Cycles : f[c] \in Nat /\ f[c] <= 0
      BY <2>1
    <3> HIDE DEF f
    <3>2. 0 \in Nat
      OBVIOUS
    <3>3. /\ SumOver(Cycles, f) <= Cardinality(Cycles) * 0 /\ SumOver(Cycles, f) \in Nat
          /\ Cardinality(Cycles) \in Nat
      BY <3>1, <3>2, CycleAssumption, SumAtMost
    <3>4. QED
      BY <3>3 DEF f
  <2>5. Width(d) * cap \in Nat
    <3>1. \A a, b \in Nat : a * b \in Nat
      OBVIOUS
    <3>2. QED
      BY <2>2, <3>1
  <2>6. QED
    BY <2>1, <2>2, <2>3, <2>4, <2>5
<1>5. QED
  BY <1>3, <1>4 DEF CapsInv, CapInv

LEMMA CapsHoldStep == LedgerInv /\ CapsInv /\ [Next]_vars => CapsInv'
<1>1. SUFFICES ASSUME LedgerInv, CapsInv, [Next]_vars PROVE CapsInv'
  OBVIOUS
<1>2. LedgerInv'
  BY <1>1, LedgerStep
<1>3. CASE UNCHANGED vars
  BY <1>1, <1>3, StillCaps DEF vars, local, tables
<1>4. ASSUME NEW c \in Cycles, Step(c) \/ Crash(c)
      PROVE  CapsInv'
  BY <1>1, <1>2, <1>4, ConnectCaps, LoadCaps, ConsiderCaps, LocalCaps, WriteIntentCaps,
     WriteSettledCaps, ExitCaps DEF Step, Report, Crash
<1>5. CASE StartIngest \/ EndIngest
  <2>1. PICK store : conn' = [conn EXCEPT ![Ingest] = store]
    BY <1>5 DEF StartIngest, EndIngest
  <2>2. \A c \in Cycles : conn'[c] = conn[c]
    BY <1>1, <2>1, CycleAssumption DEF LedgerInv, OneInside, Processes
  <2>3. UNCHANGED <<rows, pc, rank, spent, drafts>>
    BY <1>5 DEF StartIngest, EndIngest, local, tables
  <2>4. QED
    BY <1>1, <2>2, <2>3, StillCaps
<1>6. QED
  BY <1>1, <1>3, <1>4, <1>5 DEF Next

(* What is open in DuckDB, in all and by event, is within the caps of one  *)
(* cycle, and in SQLite within those of as many as there are: a cycle      *)
(* counts once, while others hold drafts and settle, and stakes no more    *)
(* than its count leaves (build_paper_intents).                            *)
THEOREM LedgerCapsHold == Spec => []CapsHold
<1>1. ASSUME LedgerInv, CapsInv, NEW d \in Stores, NEW E, NEW cap, Scope(E, cap)
      PROVE  SumOver(OpenIn(d, E), StakeOf) <= Width(d) * cap
  <2>1. CapTypes /\ IsSequence(rows) /\ AllPriced(rows)
    BY <1>1 DEF CapsInv, CapTypes, LedgerInv, RowsShaped
  <2>2. OpenSum(rows, d, E) = SumOver(OpenIn(d, E), StakeOf)
    BY <2>1, OpenIs
  <2>3. OpenSum(rows, d, E) + SumOver(Cycles, Pending(d, E, cap)) <= Width(d) * cap
    BY <1>1 DEF CapsInv, CapInv
  <2>4. SumOver(Cycles, Pending(d, E, cap)) \in Nat /\ OpenSum(rows, d, E) \in Nat
    BY <1>1, <2>1, PendingTyped
  <2>5. Width(d) * cap \in Nat
    <3>1. \A a, b \in Nat : a * b \in Nat
      OBVIOUS
    <3>2. QED
      BY <1>1, <3>1, ScopeTyped, WidthNat
  <2>6. QED
    BY <2>2, <2>3, <2>4, <2>5
<1>2. ASSUME LedgerInv, CapsInv, NEW d \in Stores PROVE Staked(Open(d)) <= Width(d) * MaxTotal
  <2>1. \A i \in DOMAIN rows : EventOf[rows[i].market] \in Events
    BY <1>2, MarketAssumption DEF CapsInv, CapTypes, AllPriced, Priced
  <2>2. OpenIn(d, Events) = Open(d)
    BY <2>1 DEF OpenIn, Open
  <2>3. Scope(Events, MaxTotal)
    BY DEF Scope
  <2>4. SumOver(OpenIn(d, Events), StakeOf) <= Width(d) * MaxTotal
    BY <1>1, <1>2, <2>3
  <2>5. QED
    BY <2>2, <2>4 DEF Staked, StakeOf
<1>3. ASSUME LedgerInv, CapsInv, NEW d \in Stores, NEW e \in Events
      PROVE  Staked(OfEvent(Open(d), e)) <= Width(d) * MaxEvent
  <2>1. OpenIn(d, {e}) = OfEvent(Open(d), e)
    BY DEF OpenIn, OfEvent
  <2>2. Scope({e}, MaxEvent)
    BY DEF Scope
  <2>3. SumOver(OpenIn(d, {e}), StakeOf) <= Width(d) * MaxEvent
    BY <1>1, <1>3, <2>2
  <2>4. QED
    BY <2>1, <2>3 DEF Staked, StakeOf
<1>4. LedgerInv /\ CapsInv => CapsHold
  BY <1>2, <1>3 DEF CapsHold
<1>5. QED
  BY LedgerInit, LedgerStep, CapsHoldInit, CapsHoldStep, <1>4, PTL DEF Spec

-----------------------------------------------------------------------------
(* The portfolio caps: rounding, the arithmetic of the shares, the search. *)

LEMMA QuotientAndRest ==
  ASSUME NEW a \in Nat, NEW b \in Nat \ {0}
  PROVE  /\ a \div b \in Nat /\ a % b \in Nat
         /\ a = b * (a \div b) + (a % b) /\ a % b < b
<1>1. a \in Int /\ b \in Int /\ b > 0 /\ a >= 0
  OBVIOUS
<1>2. a = b * (a \div b) + (a % b) /\ a % b \in 0 .. (b - 1) /\ a \div b \in Int
  BY <1>1, SMTT(30)
<1>3. a \div b >= 0
  BY <1>1, <1>2, SMTT(30)
<1>4. QED
  BY <1>1, <1>2, <1>3

LEMMA NearestWithin ==
  ASSUME NEW a \in Nat, NEW b \in Nat \ {0}
  PROVE  /\ Nearest(a, b) \in Nat
         /\ 2 * (b * Nearest(a, b)) <= 2 * a + b
         /\ 2 * a <= 2 * (b * Nearest(a, b)) + b
<1> DEFINE q == a \div b
           r == a % b
           p == b * q
<1>1. q \in Nat /\ r \in Nat /\ a = p + r /\ r < b
  BY QuotientAndRest
<1>2. p \in Nat /\ b * (q + 1) = p + b
  BY <1>1
<1>3. CASE 2 * r > b \/ (2 * r = b /\ q % 2 = 1)
  <2>1. Nearest(a, b) = q + 1
    BY <1>3 DEF Nearest
  <2> HIDE DEF p, q, r
  <2>2. QED
    BY <1>1, <1>2, <1>3, <2>1
<1>4. CASE ~(2 * r > b \/ (2 * r = b /\ q % 2 = 1))
  <2>1. Nearest(a, b) = q
    BY <1>4 DEF Nearest
  <2>2. 2 * r <= b
    BY <1>1, <1>4
  <2>3. b * Nearest(a, b) = p
    BY <2>1
  <2> HIDE DEF p, q, r
  <2>4. QED
    BY <1>1, <1>2, <2>1, <2>2, <2>3
<1>5. QED
  BY <1>3, <1>4

(* A stake comes out within half a grain of what it was computed as.       *)
LEMMA RoundedWithin ==
  ASSUME Grain \in Nat \ {0}, NEW a \in Nat, NEW b \in Nat \ {0}
  PROVE  /\ Rounded(a, b) \in Nat
         /\ 2 * (b * Rounded(a, b)) <= 2 * a + b * Grain
         /\ 2 * a <= 2 * (b * Rounded(a, b)) + b * Grain
<1> DEFINE d == b * Grain
           n == Nearest(a, d)
<1>1. d \in Nat \ {0}
  <2>1. \A x, y \in Nat \ {0} : x * y \in Nat \ {0}
    OBVIOUS
  <2>2. QED
    BY <2>1
<1>2. n \in Nat /\ 2 * (d * n) <= 2 * a + d /\ 2 * a <= 2 * (d * n) + d
  <2> HIDE DEF d
  <2>1. QED
    BY <1>1, NearestWithin
<1>3. Rounded(a, b) = Grain * n
  BY DEF Rounded
<1>4. b * Rounded(a, b) = d * n /\ Grain * n \in Nat
  <2>1. \A x, y, z \in Nat : x * (y * z) = (x * y) * z /\ y * z \in Nat
    OBVIOUS
  <2> HIDE DEF n
  <2>2. QED
    BY <1>2, <1>3, <2>1
<1>5. QED
  BY <1>2, <1>3, <1>4

(* Rounding does not carry a cap past a stake that is over it.             *)
LEMMA RoundedUnder ==
  ASSUME Grain \in Nat \ {0}, NEW a \in Nat, NEW s \in Nat, s % Grain = 0, a < s
  PROVE  Rounded(a, 1) \in Nat /\ Rounded(a, 1) <= s
<1> DEFINE g == Grain
           j == s \div g
           n == Nearest(a, g)
<1>1. g \in Nat \ {0} /\ j \in Nat /\ s = g * j
  <2>1. g \in Nat \ {0} /\ s % g = 0
    OBVIOUS
  <2> HIDE DEF g
  <2>2. j \in Nat /\ s = g * j + (s % g)
    BY <2>1, QuotientAndRest
  <2>3. g * j \in Nat
    BY <2>1, <2>2
  <2> HIDE DEF j
  <2>4. QED
    BY <2>1, <2>2, <2>3
<1>2. Rounded(a, 1) = g * n
  <2>1. 1 * Grain = g
    OBVIOUS
  <2>2. QED
    BY <2>1 DEF Rounded
<1>3. n \in Nat /\ 2 * (g * n) <= 2 * a + g
  <2> HIDE DEF g
  <2>1. QED
    BY <1>1, NearestWithin
<1> HIDE DEF g, n, j
<1>4. n <= j
  <2> SUFFICES ASSUME j + 1 <= n PROVE FALSE
    BY <1>1, <1>3
  <2>1. \A x, y \in Nat : g * x \in Nat /\ (x <= y => g * x <= g * y)
    <3> SUFFICES ASSUME NEW x \in Nat, NEW y \in Nat
                 PROVE  g * x \in Nat /\ (x <= y => g * x <= g * y)
      OBVIOUS
    <3>1. QED
      BY <1>1
  <2>2. g * (j + 1) = g * j + g
    BY <1>1
  <2>3. g * (j + 1) <= g * n
    BY <1>1, <1>3, <2>1
  <2>4. g * n \in Nat /\ g * j \in Nat
    BY <1>1, <1>3, <2>1
  <2>5. QED
    BY <1>1, <1>3, <2>2, <2>3, <2>4
<1>5. g * n \in Nat /\ g * n <= g * j
  <2>1. \A x, y, z \in Nat : x <= y => z * x \in Nat /\ z * x <= z * y
    OBVIOUS
  <2>2. QED
    BY <1>1, <1>3, <1>4, <2>1
<1>6. QED
  BY <1>1, <1>2, <1>5

LEMMA Times == \A a, b, c \in Nat : a <= b => c * a \in Nat /\ c * b \in Nat /\ c * a <= c * b
OBVIOUS

LEMMA Divided == \A a, b \in Nat, c \in Nat \ {0} : c * a <= c * b => a <= b
<1> SUFFICES ASSUME NEW a \in Nat, NEW b \in Nat, NEW c \in Nat \ {0}, b + 1 <= a
             PROVE  c * b < c * a
  OBVIOUS
<1>1. c * (b + 1) <= c * a
  BY Times
<1>2. c * (b + 1) = c * b + c /\ c * b \in Nat /\ c * a \in Nat
  OBVIOUS
<1>3. QED
  BY <1>1, <1>2

LEMMA TimesUp ==
  ASSUME NEW N \in Nat, NEW D \in Nat, N <= D
  PROVE  \A p, q \in Nat : p <= q => N * p <= D * q
<1> SUFFICES ASSUME NEW p \in Nat, NEW q \in Nat, p <= q PROVE N * p <= D * q
  OBVIOUS
<1>1. N * p \in Nat /\ N * q \in Nat /\ D * q \in Nat
  OBVIOUS
<1>2. N * p <= N * q
  BY Times
<1>3. q * N <= q * D
  BY Times
<1>4. q * N = N * q /\ q * D = D * q
  OBVIOUS
<1>5. QED
  BY <1>1, <1>2, <1>3, <1>4

(* How much a basket that fills holds when what exceeds its share has been *)
(* scaled, and with it how much a cluster can have of it.                  *)
LEMMA FilledArithmetic ==
  ASSUME NEW D \in Nat \ {0}, NEW N \in Nat, NEW W \in Nat, NEW K \in Nat, K <= W,
         NEW g \in Nat, NEW t \in Nat, NEW m \in Nat, NEW U \in Nat, NEW P \in Nat,
         D * t <= D * U + m * (N * t) + D,
         2 * (m * (N * t * K)) <= 2 * ((D * W) * P) + (D * W) * g
  PROVE  2 * (K * t) <= 2 * (W * (U + P)) + W * g + 2 * K
<1>1. K * (D * t) <= K * (D * U + m * (N * t) + D)
  <2>1. D * t \in Nat /\ D * U + m * (N * t) + D \in Nat
    OBVIOUS
  <2>2. QED
    BY <2>1, Times
<1>2. U * K <= U * W /\ D * (U * K) <= D * (U * W)
  <2>1. U * K \in Nat /\ U * W \in Nat /\ U * K <= U * W
    BY Times
  <2>2. QED
    BY <2>1, Times
<1>3. D * (2 * (K * t)) <= D * (2 * (W * (U + P)) + W * g + 2 * K)
  <2>1. K * (D * U + m * (N * t) + D) = K * (D * U) + K * (m * (N * t)) + K * D
    OBVIOUS
  <2>2. K * (m * (N * t)) = m * (N * t * K)
    OBVIOUS
  <2>3. K * (D * U) = D * (U * K) /\ K * D = D * K
    OBVIOUS
  <2>4. (D * W) * P = D * (W * P) /\ (D * W) * g = D * (W * g)
    OBVIOUS
  <2>5. D * (2 * (W * (U + P)) + W * g + 2 * K)
          = 2 * (D * (U * W)) + 2 * (D * (W * P)) + D * (W * g) + 2 * (D * K)
    OBVIOUS
  <2>6. D * (2 * (K * t)) = 2 * (K * (D * t))
    OBVIOUS
  <2> DEFINE x1 == K * (D * t)  x2 == K * (D * U + m * (N * t) + D)  x3 == m * (N * t * K)
             x4 == D * (U * K)  x5 == D * (U * W)  x6 == D * (W * P)  x7 == D * (W * g)
             x8 == D * K
  <2>7. {x1, x2, x3, x4, x5, x6, x7, x8} \subseteq Nat
    OBVIOUS
  <2>8. x2 = x4 + x3 + x8
    BY <2>1, <2>2, <2>3
  <2>9. 2 * x3 <= 2 * x6 + x7
    BY <2>4
  <2>10. x1 <= x2 /\ x4 <= x5
    BY <1>1, <1>2
  <2> HIDE DEF x1, x2, x3, x4, x5, x6, x7, x8
  <2>11. 2 * x1 <= 2 * x5 + 2 * x6 + x7 + 2 * x8
    BY <2>7, <2>8, <2>9, <2>10
  <2>12. QED
    BY <2>5, <2>6, <2>11 DEF x1, x5, x6, x7, x8
<1>4. 2 * (K * t) \in Nat /\ 2 * (W * (U + P)) + W * g + 2 * K \in Nat
  OBVIOUS
<1>5. QED
  BY <1>3, <1>4, Divided

LEMMA UpperArithmetic ==
  ASSUME NEW D \in Nat \ {0}, NEW N \in Nat, NEW W \in Nat \ {0}, NEW K \in Nat, K <= W, N <= D,
         NEW g \in Nat, NEW t \in Nat, NEW a \in Nat, t <= a, NEW T \in Nat, NEW C \in Nat,
         2 * (K * t) <= 2 * (W * T) + W * g + 2 * K,
         \/ 2 * ((D * W) * C) <= 2 * (N * t * K) + (D * W) * g
         \/ D * C <= N * t
  PROVE  W * (D * C) <= W * (N * T) + D * ((W - K) * a + W * (1 + g))
<1> DEFINE v == W - K
           x1 == N * (K * t)  x2 == N * (W * T)  x3 == N * (W * g)  x4 == N * K
           y1 == D * (v * a)  y2 == D * (W * g)  y3 == D * W
           c == D * (W * C)  z == N * (v * t)
<1>1. v \in Nat
  OBVIOUS
<1>2. {x1, x2, x3, x4, y1, y2, y3, c, z} \subseteq Nat
  <2> HIDE DEF v
  <2>1. QED
    BY <1>1
<1>3. 2 * x1 <= 2 * x2 + x3 + 2 * x4
  <2>1. 2 * (K * t) \in Nat /\ 2 * (W * T) + W * g + 2 * K \in Nat
    OBVIOUS
  <2>2. N * (2 * (K * t)) <= N * (2 * (W * T) + W * g + 2 * K)
    BY <2>1, Times
  <2>3. N * (2 * (K * t)) = 2 * x1
    OBVIOUS
  <2>4. N * (2 * (W * T) + W * g + 2 * K) = 2 * x2 + x3 + 2 * x4
    OBVIOUS
  <2>5. QED
    BY <2>2, <2>3, <2>4
<1>4. \A p, q \in Nat : p <= q => N * p <= D * q
  BY TimesUp
<1>5. x3 <= y2 /\ x4 <= y3
  BY <1>4
<1>6. z <= y1
  <2> HIDE DEF v
  <2>1. v * t \in Nat /\ v * a \in Nat /\ v * t <= v * a
    BY <1>1, Times
  <2>2. QED
    BY <1>4, <2>1
<1>7. /\ W * (D * C) = c /\ W * (N * T) = x2
      /\ D * (v * a + W * (1 + g)) = y1 + y3 + y2
  <2>1. W * (D * C) = c /\ W * (N * T) = x2
    OBVIOUS
  <2> HIDE DEF v
  <2>2. D * (v * a + W * (1 + g)) = y1 + y3 + y2
    BY <1>1
  <2>3. QED
    BY <2>1, <2>2
<1>8. CASE 2 * ((D * W) * C) <= 2 * (N * t * K) + (D * W) * g
  <2>1. (D * W) * C = c /\ N * t * K = x1 /\ (D * W) * g = y2
    OBVIOUS
  <2>2. 2 * c <= 2 * x1 + y2
    BY <1>8, <2>1
  <2> HIDE DEF v, x1, x2, x3, x4, y1, y2, y3, c, z
  <2>3. c <= x2 + (y1 + y3 + y2)
    BY <1>2, <1>3, <1>5, <2>2
  <2>4. QED
    BY <1>7, <2>3 DEF v
<1>9. CASE D * C <= N * t
  <2>1. W * (D * C) <= W * (N * t)
    BY <1>9, Times, D * C \in Nat, N * t \in Nat
  <2>2. W * (N * t) = x1 + z
    <3>1. W = K + v
      OBVIOUS
    <3> HIDE DEF v
    <3>2. (K + v) * (N * t) = N * (K * t) + N * (v * t)
      BY <1>1
    <3>3. QED
      BY <3>1, <3>2
  <2>3. c <= x1 + z
    BY <1>7, <2>1, <2>2
  <2> HIDE DEF v, x1, x2, x3, x4, y1, y2, y3, c, z
  <2>4. c <= x2 + (y1 + y3 + y2)
    BY <1>2, <1>3, <1>5, <1>6, <2>3
  <2>5. QED
    BY <1>7, <2>4 DEF v
<1>10. QED
  BY <1>8, <1>9

LEMMA ClippedArithmetic ==
  ASSUME NEW D \in Nat \ {0}, NEW N \in Nat, NEW W \in Nat, NEW K \in Nat, K <= W,
         NEW g \in Nat, NEW t \in Nat, NEW m \in Nat, NEW U \in Nat, NEW P \in Nat,
         D * U + m * (N * t) <= D * (t + 1),
         2 * ((D * W) * P) <= 2 * (m * (N * t * K)) + (D * W) * g
  PROVE  2 * (W * (U + P)) <= 2 * (W * (t + 1)) + W * g
<1> DEFINE s == m * (N * t)
           x1 == D * (W * U)  x2 == D * (W * P)  x3 == D * (W * g)  x4 == D * (W * (t + 1))
           x5 == W * s  x6 == K * s
<1>1. s \in Nat
  OBVIOUS
<1>2. {x1, x2, x3, x4, x5, x6} \subseteq Nat
  <2> HIDE DEF s
  <2>1. QED
    BY <1>1
<1>3. x1 + x5 <= x4
  <2>1. D * U + s \in Nat /\ D * (t + 1) \in Nat
    OBVIOUS
  <2> HIDE DEF s
  <2>2. W * (D * U + s) <= W * (D * (t + 1))
    BY <2>1, Times DEF s
  <2>3. W * (D * U + s) = x1 + x5 /\ W * (D * (t + 1)) = x4
    BY <1>1
  <2>4. QED
    BY <2>2, <2>3
<1>4. x6 <= x5
  <2> HIDE DEF s
  <2>1. s * K <= s * W
    BY <1>1, Times
  <2>2. QED
    BY <1>1, <2>1
<1>5. 2 * x2 <= 2 * x6 + x3
  <2>1. m * (N * t * K) = x6 /\ (D * W) * P = x2 /\ (D * W) * g = x3
    OBVIOUS
  <2>2. QED
    BY <2>1
<1>6. D * (2 * (W * (U + P))) <= D * (2 * (W * (t + 1)) + W * g)
  <2>1. /\ D * (2 * (W * (U + P))) = 2 * x1 + 2 * x2
        /\ D * (2 * (W * (t + 1)) + W * g) = 2 * x4 + x3
    OBVIOUS
  <2> HIDE DEF x1, x2, x3, x4, x5, x6
  <2>2. QED
    BY <1>2, <1>3, <1>4, <1>5, <2>1
<1>7. 2 * (W * (U + P)) \in Nat /\ 2 * (W * (t + 1)) + W * g \in Nat
  OBVIOUS
<1>8. QED
  BY <1>6, <1>7, Divided

LEMMA LowerArithmetic ==
  ASSUME NEW D \in Nat \ {0}, NEW N \in Nat, NEW W \in Nat \ {0}, NEW K \in Nat, K <= W, N <= D,
         NEW g \in Nat, NEW t \in Nat, NEW a \in Nat, t <= a, NEW T \in Nat, NEW C \in Nat,
         2 * (W * T) <= 2 * (W * (t + 1)) + W * g,
         2 * (N * t * K) <= 2 * ((D * W) * C) + (D * W) * g
  PROVE  W * (N * T) <= W * (D * C) + D * ((W - K) * a + W * (1 + g))
<1> DEFINE v == W - K
           x1 == N * (K * t)  x2 == N * (W * T)  x3 == N * (W * g)  x4 == N * W
           y1 == D * (v * a)  y2 == D * (W * g)  y3 == D * W
           c == D * (W * C)  z == N * (v * t)
<1>1. v \in Nat
  OBVIOUS
<1>2. {x1, x2, x3, x4, y1, y2, y3, c, z} \subseteq Nat
  <2> HIDE DEF v
  <2>1. QED
    BY <1>1
<1>3. 2 * x2 <= 2 * x1 + 2 * z + 2 * x4 + x3
  <2>1. 2 * (W * T) \in Nat /\ 2 * (W * (t + 1)) + W * g \in Nat
    OBVIOUS
  <2>2. N * (2 * (W * T)) <= N * (2 * (W * (t + 1)) + W * g)
    BY <2>1, Times
  <2>3. N * (2 * (W * T)) = 2 * x2
    OBVIOUS
  <2>4. N * (2 * (W * (t + 1)) + W * g) = 2 * (W * (N * t)) + 2 * x4 + x3
    OBVIOUS
  <2>5. W * (N * t) = x1 + z
    <3>1. W = K + v
      OBVIOUS
    <3> HIDE DEF v
    <3>2. (K + v) * (N * t) = N * (K * t) + N * (v * t)
      BY <1>1
    <3>3. QED
      BY <3>1, <3>2
  <2>6. QED
    BY <2>2, <2>3, <2>4, <2>5
<1>4. \A p, q \in Nat : p <= q => N * p <= D * q
  BY TimesUp
<1>5. x3 <= y2 /\ x4 <= y3
  BY <1>4
<1>6. z <= y1
  <2> HIDE DEF v
  <2>1. v * t \in Nat /\ v * a \in Nat /\ v * t <= v * a
    BY <1>1, Times
  <2>2. QED
    BY <1>4, <2>1
<1>7. /\ W * (D * C) = c /\ W * (N * T) = x2
      /\ D * (v * a + W * (1 + g)) = y1 + y3 + y2
  <2>1. W * (D * C) = c /\ W * (N * T) = x2
    OBVIOUS
  <2> HIDE DEF v
  <2>2. D * (v * a + W * (1 + g)) = y1 + y3 + y2
    BY <1>1
  <2>3. QED
    BY <2>1, <2>2
<1>8. 2 * x1 <= 2 * c + y2
  <2>1. (D * W) * C = c /\ N * t * K = x1 /\ (D * W) * g = y2
    OBVIOUS
  <2>2. QED
    BY <2>1
<1>9. QED
  <2> HIDE DEF v, x1, x2, x3, x4, y1, y2, y3, c, z
  <2>1. x2 <= c + (y1 + y3 + y2)
    BY <1>2, <1>3, <1>5, <1>6, <1>8
  <2>2. QED
    BY <1>7, <2>1 DEF v

LEMMA CapsConstants ==
  /\ IsFiniteSet(Basket) /\ IsFiniteSet(Clusters) /\ ClusterOf \in [Basket -> Clusters]
  /\ ContractOf \in [Basket -> Contracts]
  /\ MaxContract \in Nat \ {0} /\ ShareNum \in Nat \ {0} /\ ShareDen \in Nat \ {0}
  /\ Kept \in Nat \ {0} /\ Whole \in Nat \ {0} /\ Grain \in Nat \ {0}
  /\ ShareNum <= ShareDen /\ Kept <= Whole
BY BasketAssumption, PortfolioAssumption

(* What a basket of t takes of each cluster, and what that comes to.       *)
Portion(t) ==
  [k \in Clusters |->
     IF k \in Exceeding(t) THEN ShareNum * t ELSE ShareDen * Exposure(OfCluster(k))]
Filling(t) == ShareDen * Exposure(Untouched(t)) + Cardinality(Exceeding(t)) * (ShareNum * t)

LEMMA ClusterSums ==
  ASSUME NEW f, \A r \in Basket : f[r] \in Nat
  PROVE  /\ \A k \in Clusters : IsFiniteSet(OfCluster(k)) /\ SumOver(OfCluster(k), f) \in Nat
         /\ \A k \in Clusters : OfCluster(k) = {r \in Basket : ClusterOf[r] = k}
<1>1. \A k \in Clusters : OfCluster(k) \subseteq Basket
  BY DEF OfCluster
<1>2. \A k \in Clusters : IsFiniteSet(OfCluster(k)) /\ \A r \in OfCluster(k) : f[r] \in Nat
  BY <1>1, CapsConstants, FS_Subset
<1>3. QED
  BY <1>2, SumNat DEF OfCluster

LEMMA ClusterGroups ==
  ASSUME NEW f, \A r \in Basket : f[r] \in Nat,
         NEW sums, \A k \in Clusters : sums[k] = SumOver(OfCluster(k), f),
         NEW K \in SUBSET Clusters
  PROVE  SumOver({r \in Basket : ClusterOf[r] \in K}, f) = SumOver(K, sums)
<1>1. \A k \in Clusters : OfCluster(k) = GroupOf(Basket, ClusterOf, k)
  BY DEF OfCluster, GroupOf
<1>2. \A k \in Clusters : sums[k] = SumOver(GroupOf(Basket, ClusterOf, k), f)
  BY <1>1
<1>3. {r \in Basket : ClusterOf[r] \in K} = GroupsOf(Basket, ClusterOf, K)
  BY DEF GroupsOf
<1>4. SumOver(GroupsOf(Basket, ClusterOf, K), f) = SumOver(K, sums)
  <2>1. IsFiniteSet(Basket) /\ IsFiniteSet(K) /\ \A k \in K : k \in Clusters
    BY CapsConstants, FS_Subset
  <2>2. QED
    BY <1>2, <2>1, SumOfGroups
<1>5. QED
  BY <1>3, <1>4

LEMMA FillingSums ==
  ASSUME stake \in [Basket -> Nat], NEW t \in Nat
  PROVE  /\ \A k \in Clusters : Portion(t)[k] \in Nat
         /\ Filling(t) = SumOver(Clusters, Portion(t))
<1> DEFINE X == Exceeding(t)
           Y == Clusters \ X
           sums == [k \in Clusters |-> Exposure(OfCluster(k))]
           p == Portion(t)
<1>1. /\ X \subseteq Clusters /\ Y \subseteq Clusters /\ X \cup Y = Clusters /\ X \cap Y = {}
      /\ IsFiniteSet(X) /\ IsFiniteSet(Y) /\ IsFiniteSet(Clusters)
  BY CapsConstants, FS_Subset DEF Exceeding
<1>2. \A k \in Clusters : sums[k] \in Nat
  BY ClusterSums DEF Exposure
<1>3. /\ \A k \in X : p[k] = ShareNum * t
      /\ \A k \in Y : p[k] = ShareDen * sums[k]
  BY <1>1 DEF Portion
<1>4. ShareNum * t \in Nat /\ \A k \in Y : ShareDen * sums[k] \in Nat
  BY <1>2, CapsConstants
<1>5. \A k \in Clusters : p[k] \in Nat
  BY <1>1, <1>3, <1>4
<1>6. Exposure(Untouched(t)) = SumOver(Y, sums)
  <2>1. Untouched(t) = {r \in Basket : ClusterOf[r] \in Y}
    BY CapsConstants DEF Untouched
  <2>2. \A k \in Clusters : sums[k] = SumOver(OfCluster(k), stake)
    BY DEF Exposure
  <2>3. (\A r \in Basket : stake[r] \in Nat) /\ Y \in SUBSET Clusters
    BY <1>1
  <2> HIDE DEF sums, Y
  <2>4. SumOver({r \in Basket : ClusterOf[r] \in Y}, stake) = SumOver(Y, sums)
    BY <2>2, <2>3, ClusterGroups
  <2>5. QED
    BY <2>1, <2>4 DEF Exposure
<1> HIDE DEF sums, p, X, Y
<1>7. SumOver(Y, p) = ShareDen * SumOver(Y, sums)
  BY <1>1, <1>2, <1>3, CapsConstants, SumScaled
<1>8. SumOver(X, p) = Cardinality(X) * (ShareNum * t)
  BY <1>1, <1>3, <1>4, SumConstant
<1>9. SumOver(Clusters, p) = SumOver(X, p) + SumOver(Y, p)
  BY <1>1, <1>5, SumDisjoint
<1>10. SumOver(X, p) \in Nat /\ SumOver(Y, p) \in Nat
  BY <1>1, <1>5, SumNat
<1>11. Filling(t) = SumOver(Y, p) + SumOver(X, p)
  BY <1>6, <1>7, <1>8 DEF Filling, X
<1>12. QED
  BY <1>5, <1>9, <1>10, <1>11 DEF p

LEMMA FillingGrows ==
  ASSUME stake \in [Basket -> Nat], NEW t \in Nat, NEW u \in Nat, t <= u
  PROVE  Filling(t) <= Filling(u)
<1>1. ASSUME NEW k \in Clusters PROVE Portion(t)[k] <= Portion(u)[k]
  <2> DEFINE e == Exposure(OfCluster(k))
  <2>1. e \in Nat
    BY ClusterSums DEF Exposure
  <2>2. ShareNum * t \in Nat /\ ShareNum * u \in Nat /\ ShareNum * t <= ShareNum * u
    BY CapsConstants, Times
  <2>3. e * ShareDen = ShareDen * e /\ ShareDen * e \in Nat
    <3> HIDE DEF e
    <3>1. QED
      BY <2>1, CapsConstants
  <2>4. /\ k \in Exceeding(t) <=> e * ShareDen > ShareNum * t
        /\ k \in Exceeding(u) <=> e * ShareDen > ShareNum * u
    BY DEF Exceeding
  <2>5. /\ Portion(t)[k] = IF k \in Exceeding(t) THEN ShareNum * t ELSE ShareDen * e
        /\ Portion(u)[k] = IF k \in Exceeding(u) THEN ShareNum * u ELSE ShareDen * e
    BY DEF Portion
  <2> DEFINE a == ShareNum * t  b == ShareNum * u  c == ShareDen * e
  <2> HIDE DEF e, a, b, c
  <2>6. QED
    BY <2>2, <2>3, <2>4, <2>5 DEF a, b, c
<1>2. SumOver(Clusters, Portion(t)) <= SumOver(Clusters, Portion(u))
  BY <1>1, CapsConstants, FillingSums, SumMonotone
<1>3. QED
  BY <1>2, FillingSums

LEMMA FillingAtMost ==
  ASSUME stake \in [Basket -> Nat], NEW t \in Nat
  PROVE  Exposure(Basket) \in Nat /\ Filling(t) <= ShareDen * Exposure(Basket)
<1> DEFINE sums == [k \in Clusters |-> Exposure(OfCluster(k))]
           all == [k \in Clusters |-> ShareDen * sums[k]]
<1>1. \A k \in Clusters : sums[k] \in Nat
  BY ClusterSums DEF Exposure
<1>2. \A k \in Clusters : all[k] \in Nat /\ Portion(t)[k] <= all[k]
  <2> SUFFICES ASSUME NEW k \in Clusters PROVE all[k] \in Nat /\ Portion(t)[k] <= all[k]
    OBVIOUS
  <2> DEFINE e == Exposure(OfCluster(k))
  <2>1. e \in Nat /\ all[k] = ShareDen * e
    BY <1>1
  <2>2. e * ShareDen = ShareDen * e /\ ShareDen * e \in Nat /\ ShareNum * t \in Nat
    <3> HIDE DEF e
    <3>1. QED
      BY <2>1, CapsConstants
  <2>3. k \in Exceeding(t) <=> e * ShareDen > ShareNum * t
    BY DEF Exceeding
  <2>4. Portion(t)[k] = IF k \in Exceeding(t) THEN ShareNum * t ELSE ShareDen * e
    BY DEF Portion
  <2> HIDE DEF e, all
  <2>5. QED
    BY <2>1, <2>2, <2>3, <2>4
<1>3. SumOver(Clusters, sums) = Exposure(Basket)
  <2>1. {r \in Basket : ClusterOf[r] \in Clusters} = Basket
    BY CapsConstants
  <2>2. \A k \in Clusters : sums[k] = SumOver(OfCluster(k), stake)
    BY DEF Exposure
  <2>3. (\A r \in Basket : stake[r] \in Nat) /\ Clusters \in SUBSET Clusters
    OBVIOUS
  <2> HIDE DEF sums
  <2>4. SumOver({r \in Basket : ClusterOf[r] \in Clusters}, stake) = SumOver(Clusters, sums)
    BY <2>2, <2>3, ClusterGroups
  <2>5. QED
    BY <2>1, <2>4 DEF Exposure
<1>4. SumOver(Clusters, Portion(t)) <= SumOver(Clusters, all)
  <2> HIDE DEF all
  <2>1. QED
    BY <1>2, CapsConstants, FillingSums, SumMonotone
<1>5. SumOver(Clusters, all) = ShareDen * SumOver(Clusters, sums)
  <2>1. \A k \in Clusters : all[k] = ShareDen * sums[k]
    OBVIOUS
  <2> HIDE DEF all, sums
  <2>2. QED
    BY <1>1, <2>1, CapsConstants, SumScaled
<1>6. Exposure(Basket) \in Nat
  BY CapsConstants, SumNat DEF Exposure
<1>7. QED
  BY <1>3, <1>4, <1>5, <1>6, FillingSums

(* A cluster scaled to x parts of d, each row rounded.                     *)
LEMMA ScaledCluster ==
  ASSUME Grain \in Nat \ {0}, NEW S, IsFiniteSet(S), NEW f, NEW g, \A r \in S : f[r] \in Nat,
         NEW d \in Nat \ {0}, NEW x \in Nat, SumOver(S, f) # 0,
         \A r \in S : g[r] = Rounded(f[r] * x, SumOver(S, f) * d)
  PROVE  /\ \A r \in S : g[r] \in Nat
         /\ 2 * (d * SumOver(S, g)) <= 2 * x + d * (Grain * Cardinality(S))
         /\ 2 * x <= 2 * (d * SumOver(S, g)) + d * (Grain * Cardinality(S))
<1> DEFINE e == SumOver(S, f)
           b == e * d
           n == Cardinality(S)
           grains == [r \in S |-> Grain]
<1>1. e \in Nat \ {0} /\ n \in Nat
  BY SumNat, FS_CardinalityType
<1>2. b \in Nat \ {0}
  <2>1. \A y, z \in Nat \ {0} : y * z \in Nat \ {0}
    OBVIOUS
  <2> HIDE DEF e
  <2>2. QED
    BY <1>1, <2>1
<1>3. \A r \in S : /\ g[r] \in Nat
                   /\ 2 * (b * g[r]) <= 2 * (f[r] * x) + b * Grain
                   /\ 2 * (f[r] * x) <= 2 * (b * g[r]) + b * Grain
  <2> SUFFICES ASSUME NEW r \in S
               PROVE  /\ g[r] \in Nat
                      /\ 2 * (b * g[r]) <= 2 * (f[r] * x) + b * Grain
                      /\ 2 * (f[r] * x) <= 2 * (b * g[r]) + b * Grain
    OBVIOUS
  <2>1. f[r] * x \in Nat /\ g[r] = Rounded(f[r] * x, b)
    OBVIOUS
  <2> HIDE DEF b
  <2>2. QED
    BY <1>2, <2>1, RoundedWithin
<1>4. \A r \in S : /\ (2 * b) * g[r] <= (2 * x) * f[r] + b * grains[r]
                   /\ (2 * x) * f[r] <= (2 * b) * g[r] + b * grains[r]
  <2> SUFFICES ASSUME NEW r \in S
               PROVE  /\ (2 * b) * g[r] <= (2 * x) * f[r] + b * Grain
                      /\ (2 * x) * f[r] <= (2 * b) * g[r] + b * Grain
    OBVIOUS
  <2> HIDE DEF b
  <2>1. /\ (2 * b) * g[r] = 2 * (b * g[r]) /\ (2 * x) * f[r] = 2 * (f[r] * x)
    BY <1>2, <1>3
  <2>2. QED
    BY <1>3, <2>1
<1>5. SumOver(S, grains) = n * Grain
  BY SumConstant
<1>6. /\ (2 * b) * SumOver(S, g) <= (2 * x) * e + b * (n * Grain)
      /\ (2 * x) * e <= (2 * b) * SumOver(S, g) + b * (n * Grain)
  <2>1. \A r \in S : f[r] \in Nat /\ g[r] \in Nat /\ grains[r] \in Nat
    BY <1>3
  <2>2. 2 * b \in Nat /\ 2 * x \in Nat /\ b \in Nat
    <3> HIDE DEF b
    <3>1. QED
      BY <1>2
  <2> HIDE DEF b, grains, n
  <2>3. (2 * b) * SumOver(S, g) <= (2 * x) * SumOver(S, f) + b * SumOver(S, grains)
    BY <1>4, <2>1, <2>2, SumLinear
  <2>4. (2 * x) * SumOver(S, f) <= (2 * b) * SumOver(S, g) + b * SumOver(S, grains)
    BY <1>4, <2>1, <2>2, SumLinear
  <2>5. QED
    BY <1>5, <2>3, <2>4
<1> DEFINE c == SumOver(S, g)
<1>7. c \in Nat
  BY <1>3, SumNat
<1>8. /\ (2 * b) * c = e * (2 * (d * c)) /\ (2 * x) * e = e * (2 * x)
      /\ b * (n * Grain) = e * (d * (Grain * n))
  <2> HIDE DEF c, e, n
  <2>1. QED
    BY <1>1, <1>7
<1>9. /\ 2 * (d * c) \in Nat /\ d * (Grain * n) \in Nat /\ 2 * x \in Nat
      /\ e * (2 * (d * c) + d * (Grain * n)) = e * (2 * (d * c)) + e * (d * (Grain * n))
      /\ e * (2 * x + d * (Grain * n)) = e * (2 * x) + e * (d * (Grain * n))
  <2> HIDE DEF c, e, n
  <2>1. 2 * (d * c) \in Nat /\ d * (Grain * n) \in Nat /\ 2 * x \in Nat
    BY <1>1, <1>7
  <2>2. \A y, z \in Nat : e * (y + z) = e * y + e * z
    BY <1>1
  <2>3. QED
    BY <2>1, <2>2
<1>10. /\ e * (2 * (d * c)) <= e * (2 * x + d * (Grain * n))
       /\ e * (2 * x) <= e * (2 * (d * c) + d * (Grain * n))
  BY <1>6, <1>8, <1>9
<1>11. 2 * (d * c) <= 2 * x + d * (Grain * n) /\ 2 * x <= 2 * (d * c) + d * (Grain * n)
  <2>1. 2 * x + d * (Grain * n) \in Nat /\ 2 * (d * c) + d * (Grain * n) \in Nat
    BY <1>9
  <2> HIDE DEF c, e, n
  <2>2. QED
    BY <1>1, <1>9, <1>10, <2>1, Divided
<1>12. QED
  BY <1>3, <1>11

(* Clusters scaled to x parts of d each, and what they come to together.   *)
LEMMA ScaledClusters ==
  ASSUME NEW new, NEW X \in SUBSET Clusters, NEW d \in Nat, NEW x \in Nat,
         \A k \in X : /\ new[k] \in Nat
                      /\ 2 * (d * new[k]) <= 2 * x + d * (Grain * Cardinality(OfCluster(k)))
                      /\ 2 * x <= 2 * (d * new[k]) + d * (Grain * Cardinality(OfCluster(k)))
  PROVE  /\ Cardinality(X) \in Nat /\ Cardinality(Basket) \in Nat /\ SumOver(X, new) \in Nat
         /\ 2 * (d * SumOver(X, new)) <= 2 * (Cardinality(X) * x) + d * (Grain * Cardinality(Basket))
         /\ 2 * (Cardinality(X) * x) <= 2 * (d * SumOver(X, new)) + d * (Grain * Cardinality(Basket))
<1> DEFINE sizes == [k \in Clusters |-> Cardinality(OfCluster(k))]
           ones == [r \in Basket |-> 1]
           shares == [k \in Clusters |-> 2 * x]
           held == {r \in Basket : ClusterOf[r] \in X}
           G == d * Grain
           m == Cardinality(X)
           n == Cardinality(Basket)
           p == SumOver(X, new)
           q == SumOver(X, sizes)
<1>1. IsFiniteSet(X) /\ m \in Nat /\ n \in Nat /\ G \in Nat /\ d \in Nat /\ Grain \in Nat
  <2>1. IsFiniteSet(X) /\ IsFiniteSet(Basket)
    BY CapsConstants, FS_Subset
  <2>2. QED
    BY <2>1, CapsConstants, FS_CardinalityType
<1>2. \A k \in Clusters : sizes[k] \in Nat /\ sizes[k] = SumOver(OfCluster(k), ones)
  <2> SUFFICES ASSUME NEW k \in Clusters
               PROVE  sizes[k] \in Nat /\ sizes[k] = SumOver(OfCluster(k), ones)
    OBVIOUS
  <2>1. IsFiniteSet(OfCluster(k))
    BY CapsConstants, FS_Subset DEF OfCluster
  <2>2. SumOver(OfCluster(k), ones) = Cardinality(OfCluster(k)) * 1
    <3>1. \A r \in OfCluster(k) : ones[r] = 1
      BY DEF OfCluster
    <3> HIDE DEF ones
    <3>2. QED
      BY <2>1, <3>1, SumConstant
  <2>3. Cardinality(OfCluster(k)) \in Nat
    BY <2>1, FS_CardinalityType
  <2> HIDE DEF ones
  <2>4. QED
    BY <2>2, <2>3
<1>3. q \in Nat /\ q <= n
  <2>1. SumOver(held, ones) = SumOver(X, sizes)
    <3>1. \A r \in Basket : ones[r] \in Nat
      OBVIOUS
    <3> HIDE DEF ones, sizes
    <3>2. QED
      BY <1>2, <3>1, ClusterGroups
  <2>2. IsFiniteSet(held) /\ Cardinality(held) <= n /\ Cardinality(held) \in Nat
    <3>1. IsFiniteSet(Basket) /\ held \subseteq Basket
      BY CapsConstants
    <3>2. QED
      BY <3>1, FS_Subset, FS_CardinalityType
  <2>3. SumOver(held, ones) = Cardinality(held) * 1
    <3>1. \A r \in held : ones[r] = 1
      OBVIOUS
    <3> HIDE DEF ones, held
    <3>2. QED
      BY <2>2, <3>1, SumConstant
  <2> HIDE DEF held, ones, sizes
  <2>4. QED
    BY <2>1, <2>2, <2>3
<1>4. \A k \in X : /\ new[k] \in Nat /\ sizes[k] \in Nat /\ shares[k] \in Nat
                   /\ (2 * d) * new[k] <= 1 * shares[k] + G * sizes[k]
                   /\ 1 * shares[k] <= (2 * d) * new[k] + G * sizes[k]
  <2> SUFFICES ASSUME NEW k \in X
               PROVE  /\ new[k] \in Nat /\ sizes[k] \in Nat /\ shares[k] \in Nat
                      /\ (2 * d) * new[k] <= 1 * shares[k] + G * sizes[k]
                      /\ 1 * shares[k] <= (2 * d) * new[k] + G * sizes[k]
    OBVIOUS
  <2> DEFINE s == Cardinality(OfCluster(k))
  <2>1. sizes[k] = s /\ shares[k] = 2 * x /\ s \in Nat /\ new[k] \in Nat
    BY <1>2
  <2>2. /\ 2 * (d * new[k]) <= 2 * x + d * (Grain * s)
        /\ 2 * x <= 2 * (d * new[k]) + d * (Grain * s)
    OBVIOUS
  <2> HIDE DEF s, sizes, shares
  <2>3. (2 * d) * new[k] = 2 * (d * new[k]) /\ G * s = d * (Grain * s)
    BY <1>1, <2>1
  <2> HIDE DEF G
  <2>4. QED
    BY <2>1, <2>2, <2>3
<1>5. SumOver(X, shares) = m * (2 * x)
  <2>1. (\A k \in X : shares[k] = 2 * x) /\ 2 * x \in Nat
    OBVIOUS
  <2> HIDE DEF shares
  <2>2. QED
    BY <1>1, <2>1, SumConstant
<1>6. /\ (2 * d) * p <= 1 * (m * (2 * x)) + G * q
      /\ 1 * (m * (2 * x)) <= (2 * d) * p + G * q
  <2>1. 2 * d \in Nat /\ 1 \in Nat
    OBVIOUS
  <2> HIDE DEF G, sizes, shares, m
  <2>2. (2 * d) * p <= 1 * SumOver(X, shares) + G * q
    BY <1>1, <1>4, <2>1, SumLinear
  <2>3. 1 * SumOver(X, shares) <= (2 * d) * p + G * q
    BY <1>1, <1>4, <2>1, SumLinear
  <2>4. QED
    BY <1>5, <2>2, <2>3
<1>7. p \in Nat
  BY <1>1, <1>4, SumNat
<1> HIDE DEF p, q, m, n, sizes, shares
<1>8. G * q <= G * n /\ G * q \in Nat /\ G * n \in Nat
  <2> HIDE DEF G
  <2>1. QED
    BY <1>1, <1>3, Times
<1>9. /\ (2 * d) * p = 2 * (d * p) /\ 1 * (m * (2 * x)) = 2 * (m * x)
      /\ G * n = d * (Grain * n) /\ d * p \in Nat /\ m * x \in Nat
  BY <1>1, <1>7
<1> DEFINE a == d * p  b == m * x  c == G * n  e == G * q
<1>10. 2 * a <= 2 * b + e /\ 2 * b <= 2 * a + e /\ e <= c
  BY <1>6, <1>8, <1>9
<1>11. 2 * a <= 2 * b + c /\ 2 * b <= 2 * a + c
  <2>1. {a, b, c, e} \subseteq Nat
    BY <1>8, <1>9
  <2> HIDE DEF a, b, c, e
  <2>2. QED
    BY <1>10, <2>1
<1>12. /\ 2 * (d * p) <= 2 * (m * x) + d * (Grain * n)
       /\ 2 * (m * x) <= 2 * (d * p) + d * (Grain * n)
  BY <1>9, <1>11
<1>13. QED
  BY <1>1, <1>7, <1>12 DEF p, m, n

FillsWith(s, t) ==
  LET more == {k \in Clusters : SumOver(OfCluster(k), s) * ShareDen > ShareNum * t}
      rest == {r \in Basket : ClusterOf[r] \notin more}
  IN  ShareDen * SumOver(rest, s) + Cardinality(more) * (ShareNum * t) + ShareDen >= ShareDen * t

LEMMA FillsStates ==
  /\ \A t : Fills(t) <=> FillsWith(stake, t)
  /\ Fills(lo)' <=> FillsWith(stake', lo')
  /\ Fills(hi)' <=> FillsWith(stake', hi')
BY DEF Fills, FillsWith, Exceeding, Untouched, Exposure

(* The search stays between a basket that fills and one that does not, or  *)
(* the whole of what there is.                                             *)
Bracketed ==
  pass = "search" =>
    /\ lo <= hi /\ hi <= SumOver(Basket, stake)
    /\ FillsWith(stake, lo)
    /\ hi = SumOver(Basket, stake) \/ ~FillsWith(stake, hi)

PortfolioInv ==
  /\ pass \in {"contracts", "clusters", "search", "residual", "done"}
  /\ stake \in [Basket -> Nat] /\ asked \in [Basket -> Nat]
  /\ \A r \in Basket : asked[r] % Grain = 0
  /\ pass = "contracts" => stake = asked
  /\ pass \in {"clusters", "search"} => stake = [r \in Basket |-> Capped(asked[r])]
  /\ lo \in Nat /\ hi \in Nat
  /\ Bracketed

LEMMA CappedUnder ==
  ASSUME NEW s \in Nat, s % Grain = 0
  PROVE  Capped(s) \in Nat /\ Capped(s) <= s
<1>1. CASE s > MaxContract
  <2>1. Capped(s) = Rounded(MaxContract, 1)
    BY <1>1 DEF Capped
  <2>2. QED
    BY <1>1, <2>1, CapsConstants, RoundedUnder
<1>2. CASE ~(s > MaxContract)
  BY <1>2 DEF Capped
<1>3. QED
  BY <1>1, <1>2

LEMMA ExposureNat ==
  ASSUME NEW f, \A r \in Basket : f[r] \in Nat, NEW S \in SUBSET Basket
  PROVE  IsFiniteSet(S) /\ SumOver(S, f) \in Nat
<1>1. IsFiniteSet(S) /\ \A r \in S : f[r] \in Nat
  BY CapsConstants, FS_Subset
<1>2. QED
  BY <1>1, SumNat

LEMMA ScaledRow ==
  ASSUME stake \in [Basket -> Nat], NEW t \in Nat, NEW k \in Exceeding(t)
  PROVE  /\ Exposure(OfCluster(k)) \in Nat \ {0}
         /\ \A r \in OfCluster(k) :
              Scaled(r, t) = Rounded(stake[r] * (ShareNum * t * Kept),
                                     Exposure(OfCluster(k)) * (ShareDen * Whole))
<1>1. k \in Clusters /\ Exposure(OfCluster(k)) * ShareDen > ShareNum * t
  BY DEF Exceeding
<1>2. Exposure(OfCluster(k)) \in Nat
  BY <1>1, ClusterSums DEF Exposure
<1>3. Exposure(OfCluster(k)) # 0
  <2> DEFINE e == Exposure(OfCluster(k))
  <2> SUFFICES ASSUME e = 0 PROVE FALSE
    OBVIOUS
  <2>1. ShareNum * t \in Nat /\ 0 * ShareDen = 0
    BY CapsConstants
  <2>2. e * ShareDen = 0
    BY <2>1
  <2> HIDE DEF e
  <2>3. QED
    BY <1>1, <2>1, <2>2 DEF e
<1>4. \A r \in OfCluster(k) : ClusterOf[r] = k
  BY DEF OfCluster
<1>5. QED
  BY <1>2, <1>3, <1>4 DEF Scaled

(* What the search found: a basket that fills, and hardly more.            *)
LEMMA FoundFills ==
  ASSUME PortfolioInv, pass = "search", hi - lo <= 1
  PROVE  /\ Found \in Nat /\ Found <= Exposure(Basket) /\ Exposure(Basket) \in Nat
         /\ ShareDen * Found <= Filling(Found) + ShareDen
         /\ Filling(Found) <= ShareDen * (Found + 1)
<1> DEFINE E == Exposure(Basket)
<1>1. /\ stake \in [Basket -> Nat] /\ lo \in Nat /\ hi \in Nat /\ lo <= hi /\ hi <= E
      /\ Fills(lo) /\ (hi = E \/ ~Fills(hi))
  BY FillsStates DEF PortfolioInv, Bracketed, Exposure
<1>2. E \in Nat /\ \A t \in Nat : Filling(t) \in Nat /\ Filling(t) <= ShareDen * E
  <2>1. \A t \in Nat : Filling(t) \in Nat
    BY <1>1, CapsConstants, FillingSums, SumNat
  <2>2. QED
    BY <1>1, <2>1, FillingAtMost
<1>3. \A t : Fills(t) <=> Filling(t) + ShareDen >= ShareDen * t
  BY DEF Fills, Filling
<1>4. CASE Fills(hi)
  <2>1. Found = hi /\ hi = E
    BY <1>1, <1>4 DEF Found
  <2>2. ShareDen * (hi + 1) = ShareDen * hi + ShareDen /\ ShareDen * hi \in Nat
    BY <1>1, CapsConstants
  <2> HIDE DEF E
  <2>3. ShareDen * hi <= Filling(hi) + ShareDen
    BY <1>1, <1>2, <1>3, <1>4, <2>2, CapsConstants
  <2>4. Filling(hi) <= ShareDen * (hi + 1)
    BY <1>1, <1>2, <2>1, <2>2, CapsConstants
  <2>5. QED
    BY <1>1, <1>2, <2>1, <2>3, <2>4 DEF E
<1>5. CASE ~Fills(hi)
  <2>1. Found = lo /\ hi = lo + 1
    BY <1>1, <1>5 DEF Found
  <2>2. ShareDen * lo \in Nat /\ ShareDen * hi \in Nat
    BY <1>1, CapsConstants
  <2>3. ShareDen * lo <= Filling(lo) + ShareDen
    BY <1>1, <1>2, <1>3, <2>2, CapsConstants
  <2>4. Filling(hi) + ShareDen < ShareDen * hi
    BY <1>1, <1>2, <1>3, <1>5, <2>2, CapsConstants
  <2>5. Filling(lo) <= Filling(hi)
    BY <1>1, FillingGrows
  <2>6. Filling(lo) <= ShareDen * (lo + 1)
    BY <1>1, <1>2, <2>1, <2>2, <2>4, <2>5, CapsConstants
  <2>7. QED
    BY <1>1, <1>2, <2>1, <2>3, <2>6
<1>6. QED
  BY <1>4, <1>5

(* After the clip: what each cluster has of the whole.                     *)
LEMMA ClipBound ==
  ASSUME PortfolioInv, ClipPass, NEW k \in Clusters
  PROVE  LET has == ShareDen * SumOver(OfCluster(k), stake')
             may == ShareNum * SumOver(Basket, stake')
             slack == ShareDen * ((Whole - Kept) * SumOver(Basket, asked)
                                    + Whole * (1 + Cardinality(Basket) * Grain))
         IN  /\ Whole * has <= Whole * may + slack
             /\ (\E r \in OfCluster(k) : stake'[r] < Capped(asked[r])) =>
                  Whole * may <= Whole * has + slack
<1> DEFINE t == Found
           X == Exceeding(t)
           x == ShareNum * t * Kept
           d == ShareDen * Whole
           n == Cardinality(Basket)
           m == Cardinality(X)
           new == [j \in Clusters |-> SumOver(OfCluster(j), stake')]
           U == Exposure(Untouched(t))
           P == SumOver(X, new)
           T == SumOver(Basket, stake')
           A == SumOver(Basket, asked)
           C == SumOver(OfCluster(k), stake')
           g == Grain * n
           Near(j) ==
             /\ 2 * (d * new[j]) <= 2 * x + d * (Grain * Cardinality(OfCluster(j)))
             /\ 2 * x <= 2 * (d * new[j]) + d * (Grain * Cardinality(OfCluster(j)))
<1>1. /\ stake \in [Basket -> Nat] /\ asked \in [Basket -> Nat]
      /\ stake = [r \in Basket |-> Capped(asked[r])]
      /\ \A r \in Basket : stake[r] <= asked[r]
  <2>1. pass = "search"
    BY DEF ClipPass
  <2>2. /\ stake \in [Basket -> Nat] /\ asked \in [Basket -> Nat]
        /\ stake = [r \in Basket |-> Capped(asked[r])]
        /\ \A r \in Basket : asked[r] % Grain = 0
    BY <2>1 DEF PortfolioInv
  <2>3. \A r \in Basket : stake[r] <= asked[r]
    BY <2>2, CappedUnder
  <2>4. QED
    BY <2>2, <2>3
<1>2. /\ t \in Nat /\ t <= Exposure(Basket) /\ Exposure(Basket) \in Nat
      /\ ShareDen * t <= ShareDen * U + m * (ShareNum * t) + ShareDen
      /\ ShareDen * U + m * (ShareNum * t) <= ShareDen * (t + 1)
  <2>1. pass = "search" /\ hi - lo <= 1
    BY DEF ClipPass
  <2>2. Filling(t) = ShareDen * U + m * (ShareNum * t)
    BY DEF Filling
  <2> HIDE DEF t
  <2>3. QED
    BY <2>1, <2>2, FoundFills DEF t
<1>3. t <= A /\ A \in Nat
  <2>1. SumOver(Basket, stake) <= SumOver(Basket, asked)
    BY <1>1, CapsConstants, SumMonotone
  <2>2. SumOver(Basket, asked) \in Nat
    BY <1>1, CapsConstants, SumNat
  <2> HIDE DEF t
  <2>3. QED
    BY <1>2, <2>1, <2>2 DEF Exposure
<1>4. stake' = [r \in Basket |-> IF ClusterOf[r] \in X THEN Scaled(r, t) ELSE stake[r]]
  BY DEF ClipPass
<1>5. /\ X \in SUBSET Clusters /\ IsFiniteSet(X) /\ IsFiniteSet(Basket)
      /\ m \in Nat /\ n \in Nat /\ g \in Nat /\ d \in Nat \ {0} /\ x \in Nat
  <2>1. X \in SUBSET Clusters /\ IsFiniteSet(Basket)
    BY CapsConstants DEF Exceeding
  <2>2. IsFiniteSet(X)
    BY <2>1, CapsConstants, FS_Subset
  <2>3. m \in Nat /\ n \in Nat
    BY <2>1, <2>2, FS_CardinalityType
  <2> HIDE DEF t, X, m, n
  <2>4. \A y, z \in Nat \ {0} : y * z \in Nat \ {0}
    OBVIOUS
  <2>5. \A y, z \in Nat : y * z \in Nat
    OBVIOUS
  <2>6. d \in Nat \ {0}
    BY <2>4, CapsConstants
  <2>7. x \in Nat /\ g \in Nat
    BY <1>2, <2>3, <2>5, CapsConstants
  <2>8. QED
    BY <2>1, <2>2, <2>3, <2>6, <2>7
<1> HIDE DEF t
<1>6. ASSUME NEW j \in X
      PROVE  Near(j) /\ \A r \in OfCluster(j) : stake'[r] \in Nat
  <2> DEFINE S == OfCluster(j)
  <2>1. /\ Exposure(S) \in Nat \ {0}
        /\ \A r \in S : Scaled(r, t) = Rounded(stake[r] * x, Exposure(S) * d)
    BY <1>1, <1>2, ScaledRow
  <2>2. S \in SUBSET Basket /\ \A r \in S : ClusterOf[r] = j
    BY DEF OfCluster
  <2>3. \A r \in S : stake'[r] = Rounded(stake[r] * x, SumOver(S, stake) * d)
    BY <1>4, <2>1, <2>2 DEF Exposure
  <2>4. IsFiniteSet(S) /\ (\A r \in S : stake[r] \in Nat) /\ SumOver(S, stake) # 0
    BY <1>1, <2>1, <2>2, CapsConstants, FS_Subset DEF Exposure
  <2>5. new[j] = SumOver(S, stake')
    BY <1>5
  <2> HIDE DEF S, X, x, d, new
  <2>6. /\ \A r \in S : stake'[r] \in Nat
        /\ 2 * (d * SumOver(S, stake')) <= 2 * x + d * (Grain * Cardinality(S))
        /\ 2 * x <= 2 * (d * SumOver(S, stake')) + d * (Grain * Cardinality(S))
    BY <1>5, <2>3, <2>4, CapsConstants, ScaledCluster
  <2>7. QED
    BY <2>5, <2>6 DEF S
<1>7. \A r \in Basket : stake'[r] \in Nat
  <2> SUFFICES ASSUME NEW r \in Basket PROVE stake'[r] \in Nat
    OBVIOUS
  <2>1. CASE ClusterOf[r] \in X
    BY <1>6, <2>1 DEF OfCluster
  <2>2. CASE ClusterOf[r] \notin X
    BY <1>1, <1>4, <2>2
  <2>3. QED
    BY <2>1, <2>2
<1>8. \A j \in Clusters : new[j] \in Nat
  BY <1>7, ClusterSums
<1>9. T = U + P /\ U \in Nat /\ P \in Nat
  <2> DEFINE R == Untouched(t)
             Q == {r \in Basket : ClusterOf[r] \in X}
  <2>1. R \cup Q = Basket /\ R \cap Q = {} /\ R \in SUBSET Basket /\ Q \in SUBSET Basket
    BY DEF Untouched
  <2>2. U = SumOver(R, stake')
    <3>1. \A r \in R : stake[r] = stake'[r]
      BY <1>4 DEF Untouched
    <3> HIDE DEF R
    <3>2. QED
      BY <3>1, SumSame DEF Exposure, R
  <2>3. SumOver(Q, stake') = P
    <3>1. \A j \in Clusters : new[j] = SumOver(OfCluster(j), stake')
      OBVIOUS
    <3> HIDE DEF new, X
    <3>2. QED
      BY <1>5, <1>7, <3>1, ClusterGroups
  <2> HIDE DEF R, Q, U, P
  <2>4. IsFiniteSet(R) /\ IsFiniteSet(Q) /\ SumOver(R, stake') \in Nat /\ SumOver(Q, stake') \in Nat
    BY <1>7, <2>1, ExposureNat
  <2>5. SumOver(R \cup Q, stake') = SumOver(R, stake') + SumOver(Q, stake')
    BY <1>7, <2>1, <2>4, SumDisjoint
  <2>6. QED
    BY <2>1, <2>2, <2>3, <2>4, <2>5
<1>10. /\ 2 * (d * P) <= 2 * (m * x) + d * g
       /\ 2 * (m * x) <= 2 * (d * P) + d * g
  <2>1. \A j \in X : new[j] \in Nat /\ Near(j)
    BY <1>5, <1>6, <1>8
  <2>2. d \in Nat
    BY <1>5
  <2> HIDE DEF d, x, new, X
  <2>3. QED
    BY <1>5, <2>1, <2>2, ScaledClusters
<1>11. 2 * (Kept * t) <= 2 * (Whole * T) + Whole * g + 2 * Kept
  <2> HIDE DEF T, U, P, m, g
  <2>1. 2 * (Kept * t) <= 2 * (Whole * (U + P)) + Whole * g + 2 * Kept
    BY <1>2, <1>5, <1>9, <1>10, CapsConstants, FilledArithmetic
  <2>2. QED
    BY <1>9, <2>1
<1>12. 2 * (Whole * T) <= 2 * (Whole * (t + 1)) + Whole * g
  <2> HIDE DEF T, U, P, m, g
  <2>1. 2 * (Whole * (U + P)) <= 2 * (Whole * (t + 1)) + Whole * g
    BY <1>2, <1>5, <1>9, <1>10, CapsConstants, ClippedArithmetic
  <2>2. QED
    BY <1>9, <2>1
<1>13. C \in Nat /\ T \in Nat
  BY <1>7, <1>8, <1>9
<1>14. CASE k \in X
  <2>1. 2 * (d * C) <= 2 * x + d * g /\ 2 * x <= 2 * (d * C) + d * g
    <3> DEFINE s == Cardinality(OfCluster(k))
    <3>1. 2 * (d * C) <= 2 * x + d * (Grain * s) /\ 2 * x <= 2 * (d * C) + d * (Grain * s)
      BY <1>6, <1>14
    <3>2. s \in Nat /\ s <= n
      <4>1. OfCluster(k) \subseteq Basket
        BY DEF OfCluster
      <4>2. QED
        BY <1>5, <4>1, FS_Subset, FS_CardinalityType
    <3> HIDE DEF s, n, d, x, C
    <3>3. Grain * s <= Grain * n /\ Grain * s \in Nat /\ Grain * n \in Nat
      BY <1>5, <3>2, CapsConstants, Times
    <3>4. d * (Grain * s) <= d * (Grain * n) /\ d * (Grain * s) \in Nat /\ d * (Grain * n) \in Nat
      BY <1>5, <3>3, Times
    <3>5. d * C \in Nat
      BY <1>5, <1>13
    <3>6. QED
      BY <1>5, <3>1, <3>4, <3>5
  <2> DEFINE slack == ShareDen * ((Whole - Kept) * A + Whole * (1 + g))
  <2> HIDE DEF T, C, A, g
  <2>2. Whole * (ShareDen * C) <= Whole * (ShareNum * T) + slack
    BY <1>2, <1>3, <1>5, <1>11, <1>13, <2>1, CapsConstants, UpperArithmetic
  <2>3. Whole * (ShareNum * T) <= Whole * (ShareDen * C) + slack
    BY <1>2, <1>3, <1>5, <1>12, <1>13, <2>1, CapsConstants, LowerArithmetic
  <2>4. g = n * Grain
    BY <1>5, CapsConstants DEF g
  <2> HIDE DEF n
  <2>5. QED
    BY <2>2, <2>3, <2>4 DEF T, C, A, n
<1>15. CASE k \notin X
  <2>1. C = Exposure(OfCluster(k)) /\ \A r \in OfCluster(k) : stake'[r] = stake[r]
    <3>1. \A r \in OfCluster(k) : stake'[r] = stake[r]
      BY <1>4, <1>15 DEF OfCluster
    <3>2. QED
      BY <3>1, SumSame DEF Exposure
  <2>2. ShareDen * C <= ShareNum * t
    <3>1. ~(C * ShareDen > ShareNum * t)
      BY <1>15, <2>1 DEF Exceeding
    <3> HIDE DEF C
    <3>2. C * ShareDen = ShareDen * C /\ ShareDen * C \in Nat /\ ShareNum * t \in Nat
      BY <1>2, <1>13, CapsConstants
    <3>3. QED
      BY <3>1, <3>2
  <2> DEFINE slack == ShareDen * ((Whole - Kept) * A + Whole * (1 + g))
  <2>3. Whole * (ShareDen * C) <= Whole * (ShareNum * T) + slack
    <3> HIDE DEF T, C, A, g
    <3>1. QED
      BY <1>2, <1>3, <1>5, <1>11, <1>13, <2>2, CapsConstants, UpperArithmetic
  <2>4. \A r \in OfCluster(k) : stake'[r] = Capped(asked[r]) /\ stake'[r] \in Nat
    BY <1>1, <1>7, <2>1 DEF OfCluster
  <2>5. ~ \E r \in OfCluster(k) : stake'[r] < Capped(asked[r])
    BY <2>4
  <2>6. g = n * Grain
    BY <1>5, CapsConstants
  <2> HIDE DEF n
  <2>7. QED
    BY <2>3, <2>5, <2>6 DEF n
<1>16. QED
  BY <1>14, <1>15

LEMMA CapsInitInv == CapsInit => PortfolioInv
<1> SUFFICES ASSUME CapsInit PROVE PortfolioInv
  OBVIOUS
<1>1. stake \in [Basket -> Stakes] /\ asked = stake /\ pass = "contracts" /\ lo = 0 /\ hi = 0
  BY DEF CapsInit
<1>2. Stakes \subseteq Nat /\ \A s \in Stakes : s % Grain = 0
  BY PortfolioAssumption
<1>3. asked \in [Basket -> Nat] /\ \A r \in Basket : asked[r] % Grain = 0
  BY <1>1, <1>2
<1>4. QED
  BY <1>1, <1>3 DEF PortfolioInv, Bracketed

LEMMA CapsStepInv == PortfolioInv /\ [CapsNext]_capVars => PortfolioInv'
<1> SUFFICES ASSUME PortfolioInv, [CapsNext]_capVars PROVE PortfolioInv'
  OBVIOUS
<1>1. /\ stake \in [Basket -> Nat] /\ asked \in [Basket -> Nat] /\ lo \in Nat /\ hi \in Nat
      /\ \A r \in Basket : asked[r] % Grain = 0
      /\ Bracketed
  BY DEF PortfolioInv
<1>2. SumOver(Basket, stake) \in Nat
  BY <1>1, CapsConstants, SumNat
<1>3. CASE ContractPass
  <2>1. /\ pass = "contracts" /\ pass' = "clusters" /\ asked' = asked /\ lo' = lo /\ hi' = hi
        /\ stake' = [r \in Basket |-> Capped(stake[r])]
    BY <1>3 DEF ContractPass
  <2>2. stake = asked
    BY <2>1 DEF PortfolioInv
  <2>3. stake' \in [Basket -> Nat]
    BY <1>1, <2>1, <2>2, CappedUnder
  <2>4. QED
    BY <1>1, <2>1, <2>2, <2>3 DEF PortfolioInv, Bracketed, Capped, Rounded, Nearest
<1>4. CASE BlockInfeasible
  BY <1>1, <1>4 DEF BlockInfeasible, PortfolioInv, Bracketed
<1>5. CASE StartSearch
  <2>1. /\ pass = "clusters" /\ pass' = "search" /\ stake' = stake /\ asked' = asked
        /\ lo' = 0 /\ hi' = SumOver(Basket, stake)
    BY <1>5 DEF StartSearch, Exposure
  <2>2. FillsWith(stake, 0)
    <3>1. ShareDen * 0 = 0 /\ ShareNum * 0 = 0
      BY CapsConstants
    <3>2. Filling(0) \in Nat
      BY <1>1, CapsConstants, FillingSums, SumNat
    <3>3. Fills(0) <=> Filling(0) + ShareDen >= ShareDen * 0
      BY DEF Fills, Filling
    <3>4. QED
      BY <3>1, <3>2, <3>3, CapsConstants, FillsStates
  <2>3. QED
    BY <1>1, <1>2, <2>1, <2>2 DEF PortfolioInv, Bracketed
<1>6. CASE Halve
  <2>1. /\ pass = "search" /\ pass' = pass /\ stake' = stake /\ asked' = asked /\ hi - lo > 1
        /\ IF FillsWith(stake, Middle) THEN lo' = Middle /\ hi' = hi ELSE lo' = lo /\ hi' = Middle
    BY <1>6, FillsStates DEF Halve
  <2>2. Middle \in Nat /\ lo <= Middle /\ Middle <= hi
    <3> DEFINE s == lo + hi
               q == s \div 2
    <3>1. q \in Nat /\ s % 2 \in Nat /\ s = 2 * q + (s % 2) /\ s % 2 < 2
      BY <1>1, QuotientAndRest
    <3>2. s = lo + hi /\ Middle = q
      BY DEF Middle
    <3> DEFINE w == s % 2
    <3> HIDE DEF s, q, w
    <3>3. QED
      BY <1>1, <2>1, <3>1, <3>2 DEF w
  <2>3. /\ hi <= SumOver(Basket, stake) /\ FillsWith(stake, lo)
        /\ hi = SumOver(Basket, stake) \/ ~FillsWith(stake, hi)
    BY <1>1, <2>1 DEF Bracketed
  <2>4. QED
    BY <1>1, <1>2, <2>1, <2>2, <2>3 DEF PortfolioInv, Bracketed
<1>7. CASE ClipPass
  <2>1. /\ pass = "search" /\ pass' = "residual" /\ asked' = asked /\ lo' = lo /\ hi' = hi
        /\ hi - lo <= 1
        /\ stake' = [r \in Basket |-> IF ClusterOf[r] \in Exceeding(Found)
                                      THEN Scaled(r, Found) ELSE stake[r]]
    BY <1>7 DEF ClipPass
  <2>2. Found \in Nat
    BY <2>1, FoundFills
  <2>3. ASSUME NEW r \in Basket, ClusterOf[r] \in Exceeding(Found)
        PROVE  Scaled(r, Found) \in Nat
    <3> DEFINE k == ClusterOf[r]
               b == Exposure(OfCluster(k)) * (ShareDen * Whole)
               a == stake[r] * (ShareNum * Found * Kept)
    <3>1. Exposure(OfCluster(k)) \in Nat \ {0}
      BY <1>1, <2>2, <2>3, ScaledRow
    <3>2. \A y, z \in Nat \ {0} : y * z \in Nat \ {0}
      OBVIOUS
    <3>3. b \in Nat \ {0}
      BY <3>1, <3>2, CapsConstants
    <3>4. \A y, z \in Nat : y * z \in Nat
      OBVIOUS
    <3>5. a \in Nat
      BY <1>1, <2>2, <3>4, CapsConstants
    <3>6. Scaled(r, Found) = Rounded(a, b)
      BY DEF Scaled
    <3> HIDE DEF a, b
    <3>7. QED
      BY <3>3, <3>5, <3>6, CapsConstants, RoundedWithin
  <2>4. stake' \in [Basket -> Nat]
    BY <1>1, <2>1, <2>3
  <2>5. QED
    BY <1>1, <2>1, <2>4 DEF PortfolioInv, Bracketed
<1>8. CASE ResidualPass
  BY <1>1, <1>8 DEF ResidualPass, PortfolioInv, Bracketed
<1>9. CASE UNCHANGED capVars
  BY <1>9 DEF capVars, PortfolioInv, Bracketed, Capped, Rounded, Nearest
<1>10. QED
  BY <1>3, <1>4, <1>5, <1>6, <1>7, <1>8, <1>9 DEF CapsNext, Done

(* The types of the passes, and what the search for a basket keeps between *)
(* its two totals (the bisection of _enforce_cluster_share_caps).          *)
THEOREM CapsInductive == CapsSpec => []PortfolioInv
BY CapsInitInv, CapsStepInv, PTL DEF CapsSpec

(* No row of a contract that is over its cap is left in the basket.        *)
LEMMA ResidualUnder ==
  ASSUME PortfolioInv, ResidualPass, NEW c \in Contracts
  PROVE  SumOver(OfContract(c), stake') <= MaxContract
<1> DEFINE S == OfContract(c)
<1>1. /\ stake' = [r \in Basket |->
            IF OverContract(ContractOf[r]) \/ OverShare(ClusterOf[r]) THEN 0 ELSE stake[r]]
      /\ stake \in [Basket -> Nat]
  BY DEF ResidualPass, PortfolioInv
<1>2. S \in SUBSET Basket /\ \A r \in S : ContractOf[r] = c
  BY DEF OfContract
<1>3. /\ IsFiniteSet(S)
      /\ \A r \in S : stake[r] \in Nat /\ stake'[r] \in Nat /\ stake'[r] <= stake[r]
  <2>1. IsFiniteSet(S)
    BY <1>2, CapsConstants, FS_Subset
  <2> HIDE DEF S
  <2>2. QED
    BY <1>1, <1>2, <2>1
<1>4. CASE OverContract(c)
  <2>1. \A r \in S : stake'[r] = 0
    BY <1>1, <1>2, <1>4
  <2> HIDE DEF S
  <2>2. SumOver(S, stake') = Cardinality(S) * 0
    BY <1>3, <2>1, SumConstant
  <2>3. Cardinality(S) \in Nat
    BY <1>3, FS_CardinalityType
  <2>4. QED
    BY <2>2, <2>3, CapsConstants DEF S
<1>5. CASE ~OverContract(c)
  <2>1. SumOver(S, stake) <= MaxContract
    <3>1. SumOver(S, stake) \in Nat
      BY <1>3, SumNat
    <3>2. QED
      BY <1>5, <3>1, CapsConstants DEF OverContract, Exposure
  <2> HIDE DEF S
  <2>2. SumOver(S, stake') <= SumOver(S, stake)
    BY <1>3, SumMonotone
  <2>3. SumOver(S, stake') \in Nat /\ SumOver(S, stake) \in Nat
    BY <1>3, SumNat
  <2>4. QED
    BY <2>1, <2>2, <2>3, CapsConstants DEF S
<1>6. QED
  BY <1>4, <1>5

(* What enforce_paper_portfolio_caps returns has no contract over its cap, *)
(* whatever the basket, the caps and the digits stakes are rounded to.     *)
THEOREM ContractsKept == CapsSpec => []NoContractOver
<1>1. CapsInit => NoContractOver
  BY DEF CapsInit, NoContractOver
<1>2. PortfolioInv /\ NoContractOver /\ [CapsNext]_capVars => NoContractOver'
  <2> SUFFICES ASSUME PortfolioInv, NoContractOver, [CapsNext]_capVars, pass' = "done"
               PROVE  \A c \in Contracts : SumOver(OfContract(c), stake') <= MaxContract
    BY DEF NoContractOver, Exposure, OfContract
  <2>1. CASE ResidualPass
    BY <2>1, ResidualUnder
  <2>2. CASE UNCHANGED capVars
    BY <2>2 DEF capVars, NoContractOver, Exposure
  <2>3. QED
    BY <2>1, <2>2 DEF CapsNext, ContractPass, BlockInfeasible, StartSearch, Halve, ClipPass, Done
<1>3. QED
  BY <1>1, <1>2, CapsInductive, PTL DEF CapsSpec

(* The clip brings every cluster to its share of what is left, to within   *)
(* the buffer and the rounding, and takes no more than that from one it    *)
(* scales: for every basket, share, buffer and grain.                      *)
THEOREM SharesNear == CapsSpec => []NearTheCap
<1>1. CapsInit => NearTheCap
  BY DEF CapsInit, NearTheCap
<1>2. PortfolioInv /\ NearTheCap /\ [CapsNext]_capVars => NearTheCap'
  <2> DEFINE At(k, s, a) ==
               LET has == ShareDen * SumOver(OfCluster(k), s)
                   may == ShareNum * SumOver(Basket, s)
                   slack == ShareDen * ((Whole - Kept) * SumOver(Basket, a)
                                          + Whole * (1 + Cardinality(Basket) * Grain))
               IN  /\ Whole * has <= Whole * may + slack
                   /\ (\E r \in OfCluster(k) : s[r] < Capped(a[r])) =>
                        Whole * may <= Whole * has + slack
  <2>1. NearTheCap <=> (pass = "residual" => \A k \in Clusters : At(k, stake, asked))
    BY DEF NearTheCap, Allowance, Exposure
  <2>2. NearTheCap' <=> (pass' = "residual" => \A k \in Clusters : At(k, stake', asked'))
    BY DEF NearTheCap, Allowance, Exposure, OfCluster, Capped, Rounded, Nearest
  <2> SUFFICES ASSUME PortfolioInv, NearTheCap, [CapsNext]_capVars, pass' = "residual",
                      NEW k \in Clusters
               PROVE  At(k, stake', asked')
    BY <2>2
  <2>3. CASE ClipPass
    <3>1. At(k, stake', asked)
      BY <2>3, ClipBound
    <3>2. asked' = asked
      BY <2>3 DEF ClipPass
    <3> HIDE DEF At
    <3>3. QED
      BY <3>1, <3>2
  <2>4. CASE BlockInfeasible
    <3>1. stake' = [r \in Basket |-> 0] /\ asked' = asked /\ asked \in [Basket -> Nat]
      BY <2>4 DEF BlockInfeasible, PortfolioInv
    <3>2. SumOver(Basket, stake') = 0 /\ SumOver(OfCluster(k), stake') = 0
      <4>1. \A S \in SUBSET Basket : SumOver(S, stake') = 0
        <5> SUFFICES ASSUME NEW S \in SUBSET Basket PROVE SumOver(S, stake') = 0
          OBVIOUS
        <5>1. IsFiniteSet(S) /\ \A r \in S : stake'[r] = 0
          BY <3>1, CapsConstants, FS_Subset
        <5>2. SumOver(S, stake') = Cardinality(S) * 0 /\ Cardinality(S) \in Nat
          BY <5>1, SumConstant, FS_CardinalityType
        <5>3. QED
          BY <5>2
      <4>2. OfCluster(k) \in SUBSET Basket /\ Basket \in SUBSET Basket
        BY DEF OfCluster
      <4>3. QED
        BY <4>1, <4>2
    <3> DEFINE slack == ShareDen * ((Whole - Kept) * SumOver(Basket, asked)
                                      + Whole * (1 + Cardinality(Basket) * Grain))
    <3>3. slack \in Nat
      <4>1. SumOver(Basket, asked) \in Nat /\ Cardinality(Basket) \in Nat /\ Whole - Kept \in Nat
        BY <3>1, CapsConstants, SumNat, FS_CardinalityType
      <4>2. \A y, z \in Nat : y * z \in Nat /\ y + z \in Nat
        OBVIOUS
      <4>3. QED
        BY <4>1, <4>2, CapsConstants
    <3>4. Whole * (ShareDen * 0) = 0 /\ Whole * (ShareNum * 0) = 0
      BY CapsConstants
    <3> HIDE DEF slack
    <3>5. QED
      BY <3>1, <3>2, <3>3, <3>4 DEF slack
  <2>5. CASE UNCHANGED capVars
    <3>1. stake' = stake /\ asked' = asked /\ pass' = pass
      BY <2>5 DEF capVars
    <3>2. At(k, stake, asked)
      BY <2>1, <3>1
    <3> HIDE DEF At
    <3>3. QED
      BY <3>1, <3>2
  <2>6. QED
    BY <2>3, <2>4, <2>5 DEF CapsNext, ContractPass, StartSearch, Halve, ResidualPass, Done
<1>3. QED
  BY <1>1, <1>2, CapsInductive, PTL DEF CapsSpec
=============================================================================
