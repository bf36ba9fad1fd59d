CONSTANTS
  r1 = r1
  r2 = r2
  n1 = n1
  Runs = {r1, r2}
  RootRun = r1
  Nodes = {n1}
  RunOf <- MCRunOf
  Models = {m1, m2}
  Tools = {t1}
  MaxTries = 2
  MaxBatches = 1
SPECIFICATION Spec
SYMMETRY Symmetry
CHECK_DEADLOCK FALSE
INVARIANTS
  
  FailuresReachTheirNode
  StoredOnceOrReported
