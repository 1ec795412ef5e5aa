\* Two processes that share the file and the store: two agents, three turns.
SPECIFICATION Spec
CONSTANTS
  Proc = {p1, p2}
  Torn = Torn
  MaxMessages = 3
  SummaryCap = 1
  MaxStarts = 2
  MaxTurns = 3
INVARIANTS
  NothingDangles
  TranscriptsAgree
  RestartRestores
PROPERTIES
  RestoredClean
CHECK_DEADLOCK FALSE
SYMMETRY Processes
