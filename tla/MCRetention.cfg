SPECIFICATION Spec
CONSTANTS
  r1 = r1
  r2 = r2
  o1 = o1
  o2 = o2
  wf1 = wf1
  wf2 = wf2
  small = small
  large = large
  NoOwner = NoOwner
  Runs = {r1}
  Owners = {o1}
  Identities = {wf1}
  Payloads = {small, large}
  EventBytes <- Bytes
  CheckpointBytes = 1
  Leases <- OneTTL
  Cutoffs = {1, 2}
  RowLimits = {1, 2}
  ByteLimits = {2}
  Progress <- Confirming
  Stamps = {0}
  MaxTime = 2
  MaxVersion = 3
  MaxSequence = 2
  MaxOrdinal = 3
INVARIANTS
  HeadMirrorsHistory
  ListHasNoSilentGap
  CompactedStaysCompacted
  MetadataIsComplete
PROPERTIES
  EndedRunsOnlyShrink
  LiveHistoryIsKept
  ImplementsDurableRun
CHECK_DEADLOCK FALSE
