\* A loop and a run-now call in one process, on one misconfigured task.
SPECIFICATION Spec
CONSTANTS
  Proc = {p1}
  Runner = {r1, r2}
  Loops = {r1}
  Task = {t1}
  Message = {"m1"}
  MaxRetries = 1
  RetryCap = 1
  NoTask = NoTask
  NoRunner = NoRunner
  Home <- HomeOne
  Kind <- AllMisconfigured
INVARIANTS
  WriteThrough
  HandlesLive
  RunningBacked
  RecordsConsistent
PROPERTIES
  CancelNeverCompletes
  ResumesExplicitly
CHECK_DEADLOCK FALSE
