CONSTANTS
  Callers = {c1, c2}
  MaxTokens = 2
  MaxAttempts = 2
  MaxCrashes = 1
SPECIFICATION FairSpec
CHECK_DEADLOCK FALSE
INVARIANTS
  StoreKeepsTheNewest
  CallsStayInBounds
PROPERTIES
  RefusedOnlyWhenLost
  EverythingEnds
