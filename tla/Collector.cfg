SPECIFICATION CSpec
CONSTANTS
  r1 = r1
  r2 = r2
  r3 = r3
  t1 = t1
  t2 = t2
  None = None
  Runs = {r1, r2, r3}
  ByHand = {r3}
  Tolerant = {r3}
  Jobs = 2
  Recipe <- Cycles
  Lines <- Moves
  Tranches = {t1, t2}
  TrancheOf <- Tranche
  Requests <- Asked
  MaxRun = 2
  MaxDay = 2
  MaxTranche = 3
  Days = 2
  MaxCrashes = 1
INVARIANTS BudgetsHold LoopKeepsBudgets
PROPERTY CapturesEnd
CHECK_DEADLOCK FALSE
