SPECIFICATION CapsSpec
CONSTANTS
  r1 = r1 r2 = r2 r3 = r3 r4 = r4 r5 = r5
  k1 = k1 k2 = k2 k3 = k3 k4 = k4
  x = x y = y z = z
  Basket = {r1, r2, r3, r4, r5}
  Contracts = {k1, k2, k3, k4}
  Clusters = {x, y, z}
  ContractOf <- ContractRows
  ClusterOf <- ClusterRows
  Stakes <- StakeRange
  MaxContract = 121
  ShareNum = 2
  ShareDen = 5
  Kept = 99
  Whole = 100
  Grain = 4
  Precision = 1000
INVARIANTS NoContractOver NearTheCap
