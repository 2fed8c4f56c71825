CONSTANTS
  Capacity = 1
  Retries = 1
  MaxChunks = 2
  MaxSteps = 2
  MaxGoalReact = 1
  MaxRuns = 2
SPECIFICATION FairSpec
INVARIANTS
  CallsAreAnswered
  TracesAreClosed
  AnswerPassedTheGate
PROPERTIES
  LiveStreamIsWhole
  ImplementsAgentRun
  EveryRunEnds
CHECK_DEADLOCK FALSE
