SPECIFICATION FairSpec
CONSTANTS
  c1 = c1
  c2 = c2
  c3 = c3
  NoOrder = NoOrder
  MaxFills = 2
  Candidates = {c1, c2}
  ContractOf <- MCContractOf
  FamilyOf <- MCFamilyOf
  ClusterOf <- MCClusterOf
  PaperStake <- StakeTwoOne
  MaxCount = 2
  Prices = {1}
  MaxOpen = 4
  MaxContract = 2
  MaxFamily = 4
  MaxCluster = 3
  MaxDaily = 9
  MaxLoss = 1
  Timeout = 1
  DayLength = 3
  MaxOrdersPerRun = 2
  Balances = {5}
  MaxTime = 0
  Commands = {"trade", "take"}
  Faults = {"api_error", "ambiguous", "timeout", "malformed", "crash", "torn"}
INVARIANTS OrderHasDurableIntent RowFaithful
PROPERTIES ImplementsLedger TrackedOrderCloses
