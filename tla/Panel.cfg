SPECIFICATION SSpec
CONSTANTS
  Events = {"g","h"}
  Starts = {1, 2}
  Lead = 1
  Stale = 1
  Deadline = 1
  MaxTime = 3
  MaxMoves = 1
  MaxCrashes = 1
  Confirmations = {"r", "s"}
  Buffer = 1
  MinEvents = 2
  MaxContracts = 1
INVARIANTS FrozenOnSchedule PricesAsOf OneSample
PROPERTY AttemptConcludes
CHECK_DEADLOCK FALSE
