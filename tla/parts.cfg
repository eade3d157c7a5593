CONSTANTS
  Parts = {"acl", "pipeline", "stream", "circuit", "cancel", "spans", "history", "order", "observers", "usage"}
  e1 = e1
  e2 = e2
  None = None
  Evals = {e1, e2}
  SyncKeys = {"arguments", "roles"}
  AsyncKeys = {"custom"}
  MaxEdits = 1
  Rules <- FirstAsked
  FirstRules <- GateFirst
  FileRules <- KeepFirst
  Inputs <- Telling
  SeedProvides <- Seed
  Standard <- BuiltinSteps
  StepTypes <- Types
  Handlers <- Paths
  TimeoutMax = 5
  LongNames = {"tenant_quota"}
  Sections <- DeployedSections
  NewSteps <- Inserts
  StepMws = 2
  MaxRewrites = 1
  Objects <- Chunks
  NotAnObject = NotAnObject
  Recovery <- RecoveryOf
  Caps = {0, 1, 2}
  MaxChunks = 2
  Deliveries = {d1, d2, d3, d4, d5}
  OpenThreshold = 2
  RecoveryWindow = 2
  Tokens = {t0, t1, t2}
  Root = t0
  Bodies = {b1, b2}
  MaxResets = 1
  Spans = 7
  QueueMax = 3
  BatchMax = 2
  ErrorModule <- ErrorsOf
  PerModuleMax = 2
  TotalMax = 2
  MaxErrors = 4
  Batches <- McBatches
  Watched = 3
  MaxMishaps = 1
  Chains <- WatcherChains
  Samplings = {"error_first"}
  AlertNum = 3
  AlertDen = 4
  NoCall = NoCall
  TicksPerHour = 2
  RetentionHours = 2
  MaxPerBucket = 2
  ShownHours = 2
  Outcomes <- TwoCallers
  PeriodHours = {1, 2, 3}
  MaxTicks = 9
  MaxRecorded = 4
INIT PartsInit
NEXT PartsNext
SYMMETRY Alike
CHECK_DEADLOCK FALSE
INVARIANTS
  PathsAgree
  GrantsAccounted
  RunSound
  StrategySound
  StreamHonest
  SignalsFollow
  SpanFate
  Evictable
  OrderSound
  ObserversHonest
  UsageTold
PROPERTIES
  CircuitHonest
  DrainComplete
