SPECIFICATION FairSpec
CONSTANTS
  p1 = p1
  p2 = p2
  o1 = o1
  o2 = o2
  Traders = {p1}
  Processes = {p1, p2}
  Orders = {o1, o2}
  Count = 1
  Spent = {TRUE}
  PerRun = 2
  MaxTrades = 1
  MaxFaults = 1
INVARIANTS RowsBehindExchange DisjointWritesKeepRows
PROPERTY Heals
