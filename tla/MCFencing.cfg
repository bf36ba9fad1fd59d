SPECIFICATION Spec
CONSTANTS
  r1 = r1
  r2 = r2
  o1 = o1
  o2 = o2
  wf1 = wf1
  wf2 = wf2
  small = small
  large = large
  NoOwner = NoOwner
  Runs = {r1}
  Owners = {o1, o2}
  Identities = {wf1, wf2}
  Payloads = {small}
  EventBytes <- Bytes
  CheckpointBytes = 1
  Leases <- TTLsAndExpiry
  Cutoffs = {1}
  RowLimits = {}
  ByteLimits = {}
  Progress <- Unconfirmed
  Stamps = {0}
  MaxTime = 3
  MaxVersion = 3
  MaxSequence = 2
  MaxOrdinal = 2
INVARIANTS
  LeaseIsAPromise
  FencedInClaimOrder
  OneOwnerPerClaim
PROPERTIES
  LeaseLossIsFinal
SYMMETRY WorkerSymmetry
CHECK_DEADLOCK FALSE
