-------------------------- MODULE MCPaperLifecycle --------------------------
EXTENDS PaperLifecycle, TLC
CONSTANTS s1

OneSignal == [c \in Contracts |-> s1]
Minutes == [c \in Contracts |-> c]
Chances == [c \in Contracts |-> IF c = 1 THEN 7 ELSE 9]
=============================================================================
