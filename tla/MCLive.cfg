CONSTANTS
  a = a
  b = b
  c = c
  Tasks = {a, b}
  Kind <- KindAB
  ReadyMode <- ReadyAB
  Restart <- RestartAB
  DepChoices <- Chain
  Selections <- Each2
  Listeners <- None2
  Replies <- SilentReplies
  SettlePerTask = 16
  SettleBase = 64
  Inputs = 5
  prog = prog
  None = None
  p1 = p1
  p2 = p2
SPECIFICATION LiveSpec
PROPERTY QuitEnds
PROPERTY StopEnds
PROPERTY SupportedComesUp
PROPERTY EndIsNoticed
PROPERTY KillOrWrite
CHECK_DEADLOCK FALSE
