CONSTANTS
  Parts = {"calm", "mishap", "system"}
  prog = prog
  None = None
  Tasks = {prog}
  Instances = {1, 2, 3}
  Owner <- OneAndForeign
  Pids = {p1, p2, p3}
  Reuse = FALSE
  LateFailure = FALSE
  ReadyLog = {prog}
  StopKeys = {}
  KillGroup = {prog}
  QueueMax = 1
  Kind <- AService
  ReadyMode <- Reported
  Restart <- OnFailure
  MaxRequests = 3
SPECIFICATION ProcessSpec
SYMMETRY Symmetry
VIEW ProcessView
INVARIANT ExitsKept
INVARIANT AgreesWithProcess
PROPERTY Supervises
PROPERTY StopsExact
CHECK_DEADLOCK FALSE
