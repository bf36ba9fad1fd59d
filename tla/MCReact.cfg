CONSTANTS
  Tools = {"direct", "child"}
  InvokableTools = {"child"}
  Names = {"direct", "child", "unknown"}
  Ids = {1, 2, 3}
  Responses <- MCResponses
  MaxTurns = 3
  MaxToolCalls = 4
  MaxParallelTools = 2
  MaxCrashes = 1
  MaxInterrupts = 1
SPECIFICATION FairSpec
CHECK_DEADLOCK FALSE
INVARIANTS
  TranscriptIsWhole
  WithinLimits
PROPERTIES
  InvokableIsBarrier
  RunEnds
  ImplementsConversation
