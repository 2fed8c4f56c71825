CONSTANTS
  MaxPrompts = 1
  MaxGoals = 2
  MaxClears = 0
  MaxInterrupts = 0
  MaxRetries = 0
SPECIFICATION SSpec
INVARIANTS
  GoalIsKept
CHECK_DEADLOCK FALSE
