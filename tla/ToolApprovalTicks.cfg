CONSTANTS
  Calls = 3
  ChanRoom = 1
  Seconds = 2
SPECIFICATION TSpec
INVARIANTS
  OneTickLoop
CHECK_DEADLOCK FALSE
