CONSTANTS
  Narrow = {"a", " "}
  Wide = {"W"}
  Marks = {"z"}
  Plain = "plain"
  Space = " "
  Colours = {"plain", "red"}
  Runs <- MCRuns
  Sizes <- MCSizes
  Written <- MCWritten
  Counts = {1, 2}
  Back = 2
  KittyDepth = 2
  MaxOps = 3
  Pictures <- MCPictures
  Viewers = {v1, v2}
  ViewSizes <- MCViewSizes
  WheelLines = 1
  MaxCmds = 3
  MaxParams = 32
  MaxValue = 1000000
  MaxBody = 10
  Paints <- MCPaints
  KeyEvents <- MCKeyEvents
  MouseEvents <- MCMouseEvents
INIT TerminalInit
NEXT TerminalNext
CHECK_DEADLOCK FALSE
INVARIANT ScreenSound
INVARIANT BlitMatchesPerChar
INVARIANT ViewersServed
INVARIANT YankIsHighlighted
INVARIANT ClientInSync
INVARIANT ChunkingInvariant
INVARIANT WireFaithful
PROPERTY OnlyRestoreLosesCursor
PROPERTY OnlyResizeTears
PROPERTY ViewStays
