\* Ctrl-C while the daemon runs a task.
SPECIFICATION DaemonSpec
CONSTANTS
  Proc = {p1}
  Runner = {r1}
  Loops = {r1}
  D = r1
  Cap = 1
  Rank <- AnyRank
  Task = {t1}
  Message = {"m1"}
  MaxRetries = 1
  RetryCap = 1
  NoTask = NoTask
  NoRunner = NoRunner
  Home <- HomeOne
  Kind <- AllMisconfigured
PROPERTIES
  InterruptStops
CHECK_DEADLOCK FALSE
