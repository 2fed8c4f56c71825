CONSTANTS
  r1 = r1
  r2 = r2
  n1 = n1
  Calls <- MCCalls
  Notices <- MCNotices
  ServerIds <- MCServerIds
  MaxLines = 2
  Empty = Empty
  Broken = Broken
SPECIFICATION FairMSpec
INVARIANTS
  AnswersMatch
  MessageOnItsWay
  TableIsLive
  DoneClosedOnce
PROPERTIES
  CloseReleasesCalls
  ImplementsRemoteCalls
CHECK_DEADLOCK FALSE
