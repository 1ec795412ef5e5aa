\* The daemon alone, one run a cycle, with a task on a schedule before a one-shot task: service and stop.
SPECIFICATION DaemonSpec
CONSTANTS
  Proc = {p1}
  Runner = {r1}
  Loops = {r1}
  D = r1
  Cap = 1
  Rank <- AnyRank
  Task = {t1, t2}
  Message = {"m1"}
  MaxRetries = 0
  RetryCap = 1
  NoTask = NoTask
  NoRunner = NoRunner
  Home <- HomeOne
  Kind <- FirstRecurring
PROPERTIES
  DueServed
  StopHonoured
CHECK_DEADLOCK FALSE
