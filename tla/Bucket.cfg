SPECIFICATION Spec
CONSTANTS
  t1 = t1
  t2 = t2
  t3 = t3
  Callers = {t1, t2, t3}
  Burst = 3
  Cost = 2
  MaxTime = 10
INVARIANTS AsyncKeepsRate SyncOvershoot SleepBounded
SYMMETRY Swap
CHECK_DEADLOCK FALSE
