CONSTANTS
  Calls = 3
  ChanRoom = 1
  Seconds = 2
SPECIFICATION TSpec
INVARIANTS
  RunsWithConsent
  UiNeverBlocks
PROPERTIES
  PanelGoesAway
  CallsAreSettled
CHECK_DEADLOCK FALSE
