CONSTANTS
  twice = twice
  dlq = dlq
  e1 = e1
  e2 = e2
  Events = {e1, e2}
  Subscribers = {twice, dlq}
  Matches <- Patterns
  DlqListeners = {dlq}
  Callbacks = {twice}
  MaxAttempts <- Twice
  MaxPending = 1
  Flushers = {f1}
SPECIFICATION FairSpec
CHECK_DEADLOCK FALSE
INVARIANTS
  EventsAccounted
PROPERTIES
  FlushEnds
