CONSTANTS
  a = a
  b = b
  c = c
  Tasks = {a, b, c}
  Kind <- Kind3
  ReadyMode <- Ready3
  Restart <- Restart3
  DepChoices <- Dep3
  Selections <- BC3
  Listeners <- None2
  Replies <- SilentReplies
  SettlePerTask = 0
  SettleBase = 0
SPECIFICATION GraphsSpec
VIEW GraphsView
INVARIANT CountersExact
INVARIANT CachesExact
INVARIANT TimerMatchesState
INVARIANT BudgetSuffices
INVARIANT QueueRight
PROPERTY Orchestrates
