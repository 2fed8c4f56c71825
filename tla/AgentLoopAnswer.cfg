CONSTANTS
  Capacity = 1
  Retries = 1
  MaxChunks = 2
  MaxSteps = 2
  MaxGoalReact = 1
  MaxRuns = 2
SPECIFICATION FairSpec
INVARIANTS
  AnswerIsFinal
CHECK_DEADLOCK FALSE
