CONSTANTS
  prog = prog
  None = None
  Tasks = {prog}
  Instances = {1, 2}
  Owner <- OneTask
  Pids = {p1, p2}
  Reuse = FALSE
  LateFailure = FALSE
  ReadyLog = {}
  StopKeys = {prog}
  KillGroup = {}
  QueueMax = 2
SPECIFICATION FairSpec
PROPERTY HardKills
CHECK_DEADLOCK FALSE
