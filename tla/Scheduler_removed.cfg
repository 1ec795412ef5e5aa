\* A task removed while it runs.
SPECIFICATION Spec
CONSTANTS
  Proc = {p1}
  Runner = {r1}
  Loops = {r1}
  Task = {t1}
  Message = {"m1"}
  MaxRetries = 1
  RetryCap = 1
  NoTask = NoTask
  NoRunner = NoRunner
  Home <- HomeOne
  Kind <- AllRecurring
PROPERTIES
  RemovedStaysRemoved
CHECK_DEADLOCK FALSE
