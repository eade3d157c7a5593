SPECIFICATION FairSpec
CONSTANTS
  Tasks = {t1, t2}
  MaxConcurrent = 1
  MaxTasks = 1
  MaxRetries = 0
  LiveStore = TRUE
  FlakyStore = FALSE
  Calls = {"reaper", "shutdown"}
CONSTRAINT NoLateReaper
CHECK_DEADLOCK FALSE
INVARIANTS
  ShutdownSettles
PROPERTIES
  Terminates
