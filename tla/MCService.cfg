CONSTANTS
  Parts = {"registry", "console", "clients", "session", "startup"}
  Spaces = {"default", "dekit"}
  Reserved = "dekit"
  Default = "default"
  Console <- MCConsole
  Paths <- MCPaths
  Patterns <- MCPatterns
  Tags = {"t"}
  MaxTasks = 3
  MaxWatches = 1
  MaxMessages = 4
  TaskIds <- MCTaskIds
  Attachments = {1, 2}
  TermSizes <- MCTermSizes
  FirstSize <- MCFirstSize
  SidebarWidth = 30
  KeyConfig <- MCKeyConfig
  KeysTyped = {"j", "z", "d", "y", "s", "q", "p", "enter"}
  MenuItems <- MCMenuItems
  Clicks <- MCClicks
  MaxHappenings = 4
  AtStart = 2
  Processes = {1, 2, 3}
  Pids = {1, 2}
  Starters = {s1, s2}
  Finders = {f1}
  MaxPasses = 2
  NoProcess = none
  MaxFrames = 3
  MaxOutput = 1
  MaxEvents = 1
  Trees <- MCTrees
  Root = "root"
  Outside = {"out"}
  InitHooks <- MCInitHooks
  IdleHooks <- MCIdleHooks
  ClientCommands <- MCClientCommands
  MaxComings = 1
INIT ServiceInit
NEXT ServiceNext
CHECK_DEADLOCK FALSE
INVARIANT NamesFound
INVARIANT SubscribersHear
INVARIANT WatchersTold
INVARIANT KillsTheRecorded
INVARIANT StopMeansOver
INVARIANT AnsweredInOrder
INVARIANT ExitReported
INVARIANT SizeReleased
INVARIANT ConfigTaken
INVARIANT BatchIsPrefix
INVARIANT ShowsWhatIs
PROPERTY SelectionSticks
