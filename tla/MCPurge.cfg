SPECIFICATION FairCallsSpec
CONSTANTS
  o1 = o1
  wf1 = wf1
  small = small
  large = large
  p1 = p1
  p2 = p2
  NoOwner = NoOwner
  Runs = {1, 2}
  Owners = {}
  Identities = {wf1}
  Payloads = {small, large}
  EventBytes <- Bytes
  CheckpointBytes = 1
  Leases <- NoLease
  RowLimits = {2}
  ByteLimits = {2}
  Progress <- Unconfirmed
  Stamps = {0}
  MaxTime = 0
  MaxVersion = 2
  MaxSequence = 1
  MaxOrdinal = 2
  Purgers = {p1, p2}
  Sweepers = {}
  RunLimit = 1
  Cutoffs = {1}
  MaxAborts = 1

  
PROPERTIES
  EveryEndedRunIsPurged
CHECK_DEADLOCK FALSE
