CONSTANTS
  MaxRun = 2
  Found <- MCFound
  Deployers = {"d1", "d2"}
  Instances = {"i1"}
  Batch = 2
  MaxVersion = 2
  MaxFailures = 1
  MaxWrites = 2
SPECIFICATION Spec
CHECK_DEADLOCK FALSE
INVARIANTS
  UpgradeIsComplete
PROPERTIES
  UpgradeEnds
