CONSTANTS
  Files = {"a", "b", "own"}
  Own = {"own"}
  Rules = "a"
  Hides <- IgnoresB
  Contents = {text1}
  text1 = text1
  Absent = "absent"
  MaxTools = 1
  MaxWrites = 2
  MaxEdits = 2
  MaxUndos = 1
  Ids = {id1, id2}
  id1 = id1
  id2 = id2
  Garbage = Garbage
  QueueCap = 3
  Processes = {p1, p2}
  p1 = p1
  p2 = p2
  MaxEvents = 7
  Paths = {"a", "b", "own"}
  Book = {"own"}
  SubCap = 2
  MaxTasks = 2
  MaxCalls = 2
  Checks = {"run_test"}
  Others = {}
  FeedCap = 2
  MaxRuns = 2
  CallsPerRun = 1
  MaxAsks = 1
  Sizes = {0, 4, 7, 25, 120}
  Window = 100
  Usages = {0, 49, 50, 79, 80}
  Models = {"pro", "flash", "own"}
  Shipped <- ShippedModels
  Handwritten <- UserFiles
  Dirs = {"here", "there"}
  Procs = {cmd1, cmd2}
  cmd1 = cmd1
  cmd2 = cmd2
  Recordings <- Logs
  MaxCommands = 2
  MaxRewrites = 1
  Notes = {"n1", "n2"}
  Skills = {"review", "mine"}
  Builtin = {"review"}
  Global <- UserNotes
  Limit = 5
  AnchorLimit = 4
  ControlCap = 2
  MaxChoices = 3
  MaxFailures = 1
  MaxPrompts = 2
SPECIFICATION CallSpec
INVARIANTS
  FailureIsFedBack
CHECK_DEADLOCK FALSE
