CONSTANTS
  MaxItems = 3
  MaxPieces = 2
  MaxOutput = 3
  MaxFollowUps = 2
SPECIFICATION TurnsSpec
CHECK_DEADLOCK FALSE
INVARIANTS
  
  ArgumentsAreSeenOnce
  NextRequestContinues
