CONSTANTS
  a = a
  b = b
  c = c
  Tasks = {a, b}
  Kind <- Jobs
  ReadyMode <- Immediate
  Restart <- Never
  DepChoices <- Free
  Selections <- Each2
  Listeners <- BHearsA
  Replies <- ExitOnNotify
  SettlePerTask = 16
  SettleBase = 64
SPECIFICATION Spec
VIEW View
PROPERTY ExitNotOvertaken
