----------------------------- MODULE MCCollector -----------------------------
EXTENDS Collector, TLC
CONSTANTS r1, r2, r3, t1, t2

Asked == [r \in Runs |-> IF r = r3 THEN 3 ELSE 2]
Tranche == [r \in Runs |-> IF r = r3 THEN t2 ELSE t1]
Cycles == <<<<r1, r2>>, <<>>>>
Moves == <<0, 1>>
=============================================================================
