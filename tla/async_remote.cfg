SPECIFICATION Spec
CONSTANTS
  Tasks = {t1, t2}
  MaxConcurrent = 1
  MaxTasks = 2
  MaxRetries = 1
  LiveStore = FALSE
  FlakyStore = TRUE
  Calls = {"shutdown", "peer", "cancel", "cleanup"}
CONSTRAINT OneCallAtATime
SYMMETRY Symmetry
CHECK_DEADLOCK FALSE
INVARIANTS
  SlotsConserved
  NoLostWakeup
PROPERTY
  SlotsImplemented
