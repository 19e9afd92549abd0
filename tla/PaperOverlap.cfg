SPECIFICATION FairSpec
CONSTANTS
  c1 = c1
  c2 = c2
  m1 = m1
  m2 = m2
  e1 = e1
  e2 = e2
  Cycles = {c1, c2}
  Markets = {m1, m2}
  Events = {e1, e2}
  EventOf <- MCEventOf
  Resolved = {m1}
  Sides = {"YES", "NO"}
  Reports <- MCReports
  MaxStake = 2
  MaxTotal = 3
  MaxEvent = 2
  MinStake = 1
  MaxRows = 2
  MaxCrashes = 1
INVARIANTS CapsHold NoDuplicateOpen SettledOnce EventsFollowRows
PROPERTY Settles
CHECK_DEADLOCK FALSE
