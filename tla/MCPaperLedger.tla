--------------------------- MODULE MCPaperLedger ----------------------------
(* Two markets of two events, both sides of each; the caps of the total, of  *)
(* the event and of one stake all differ.  The cycles are alike.           *)
EXTENDS PaperLedger, TLC

CONSTANTS c1, c2, m1, m2, e1, e2

MCEventOf == (m1 :> e1) @@ (m2 :> e2)

Opp(m, s, w) == [market |-> m, side |-> s, weight |-> w]
MCReports ==
  {<<Opp(m1, "YES", 2), Opp(m1, "NO", 2)>>,
   <<Opp(m2, "YES", 2)>>}
Swap == Permutations(Cycles)
=============================================================================
