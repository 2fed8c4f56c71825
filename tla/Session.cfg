CONSTANTS
  MaxPrompts = 2
  MaxGoals = 1
  MaxClears = 1
  MaxInterrupts = 1
  MaxRetries = 1
SPECIFICATION SSpec
INVARIANTS
  OneRunAtATime
  PromptsStartOnce
  PromptsStartInOrder
  ClearedGoalStaysCleared
PROPERTIES
  RunsStartUnresolved
  PromptsRun
CHECK_DEADLOCK FALSE
