SPECIFICATION Spec
CONSTANTS
  Tasks = {t1, t2}
  MaxConcurrent = 1
  MaxTasks = 2
  MaxRetries = 1
  LiveStore = TRUE
  FlakyStore = FALSE
  Calls = {"cancel"}
CHECK_DEADLOCK FALSE
PROPERTY CancelledNotRequeued
