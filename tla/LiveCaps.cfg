SPECIFICATION Spec
CONSTANTS
  c1 = c1
  c2 = c2
  c3 = c3
  NoOrder = NoOrder
  MaxFills = 2
  Candidates = {c1, c2, c3}
  ContractOf <- MCContractOf
  FamilyOf <- MCFamilyOf
  ClusterOf <- MCClusterOf
  PaperStake <- StakeTwo
  MaxCount = 2
  Prices = {2}
  MaxOpen = 4
  MaxContract = 2
  MaxFamily = 4
  MaxCluster = 2
  MaxDaily = 4
  MaxLoss = 1
  Timeout = 1
  DayLength = 2
  MaxOrdersPerRun = 2
  Balances = {5}
  MaxTime = 3
  Commands = {"trade", "dry_run", "reconcile"}
  Faults = {"api_error", "ambiguous", "timeout", "slow"}
INVARIANTS OvershootBounded FilledRowHasFills
SYMMETRY Swap
