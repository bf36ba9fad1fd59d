SPECIFICATION CallsSpec
CONSTANTS
  o1 = o1
  wf1 = wf1
  small = small
  large = large
  p1 = p1
  p2 = p2
  NoOwner = NoOwner
  Runs = {1, 2}
  Owners = {}
  Identities = {wf1}
  Payloads = {small, large}
  EventBytes <- Bytes
  CheckpointBytes = 1
  Leases <- NoLease
  RowLimits = {2}
  ByteLimits = {2}
  Progress <- Unconfirmed
  Stamps = {0}
  MaxTime = 1
  MaxVersion = 1
  MaxSequence = 2
  MaxOrdinal = 3
  Purgers = {}
  Sweepers = {p1, p2}
  RunLimit = 1
  Cutoffs = {1}
  MaxAborts = 1
PROPERTIES
  SweepDeletesOnlySelected
  Spec
SYMMETRY SweeperSymmetry
CHECK_DEADLOCK FALSE
