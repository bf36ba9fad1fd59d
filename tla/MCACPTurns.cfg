CONSTANTS
  Callers = {c1, c2}
  Sessions = {s1, s2}
  Requests <- MCRequests
  Contents = {"text", "image", "invalid"}
  MaxUpdates = 2
SPECIFICATION Spec
SYMMETRY Symmetry
CHECK_DEADLOCK FALSE
INVARIANTS
  AnswerIsWhatWasSent
  TurnsAreReleased
  ArtifactsReachTheRemote
