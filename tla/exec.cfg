CONSTANTS
  outer = outer
  retry = retry
  inner = inner
  c1 = c1
  Calls = {c1}
  Mws <- Three
  Chain <- Pair
  Retriers = {retry}
  MaxRetries = 1
  Strategy <- Standard
  RequiresApproval = TRUE
  SharedContext = FALSE
  Environments <- Surroundings
  RewriteBound = 1
SPECIFICATION FairSpec
CHECK_DEADLOCK FALSE
INVARIANTS
  GatesHold
  CatchSound
PROPERTIES
  DeadlineOwnsError
  EveryCallEnds
