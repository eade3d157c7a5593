CONSTANTS
  Tasks = {t1, t2}
  MaxConcurrent = 1
  MaxTasks = 1
  MaxRetries = 0
  LiveStore = TRUE
  FlakyStore = FALSE
  Calls = {"cancel", "cleanup", "reaper"}
  m1 = m1
  m2 = m2
  c1 = c1
  c2 = c2
  c3 = c3
  NoObject = NoObject
  Ids = {m1, m2}
  Callers = {c1, c2, c3}
  Kinds = {"register", "internal", "custom", "discover", "unregister", "safe", "watch", "use", "reload", "reloadAll"}
  Exclusive = TRUE
INIT RacesInit
NEXT RacesNext
SYMMETRY RacesAlike
CONSTRAINT OneDeleter
CHECK_DEADLOCK FALSE
INVARIANTS
  AdmissionSound
  TablesAgree
  ReloadGivesBack
PROPERTIES
  OutcomesStay
