CONSTANTS
  Agents = {"x"}
  Plans <- MCPlans
  MaxTransitions = 3
  Directory = {"x", "y"}
  Decisions <- MCDecisions
  MaxRounds = 3
  Responses = {"a", "b"}
  MaxIterations = 3
  MaxCrashes = 2
  MaxInterrupts = 2
  Children <- MCChildren
  Sequence <- MCSequence
  MaxParallelism = 2
  Selections = {"x", "z", "gone", ""}
  ToolName = "tool"
  CallNames = {"tool", "other"}
SPECIFICATION AgentSpec
CHECK_DEADLOCK FALSE
INVARIANTS
  RecordsAreWhatWasDone
  AnswerFollowsShape
PROPERTIES
  RunEnds
  
  ImplementsJudgedWork
