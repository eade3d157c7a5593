CONSTANTS
  Parts = {"breaker", "rules", "config", "control", "governance"}
  Callers = {c1, c2, c3}
  WindowSize = 3
  MinSamples = 4
  RateNum = 1
  RateDen = 2
  RecoveryWindow = 2
  Bypasses = {"cancelled", "answered", "nested"}
  AclDocuments <- Docs
  Addable <- Added
  Assignable <- Assigned
  Calls <- SomeCalls
  Evaluations = {e1}
  MaxEdits = 1
  MaxSinks = 2
  Defaults <- FrameworkDefaults
  PathTyped <- PathKeys
  Required <- RequiredKeys
  Allowed <- Rules
  Declarable <- DeclarableKeys
  Forbidden <- NoSegments
  Builtin <- BuiltinRegs
  Offers <- PackageRegs
  EnvMaps <- PackageMaps
  Files <- SomeFiles
  Environments <- SomeEnvs
  SetKeys <- SomeKeys
  SetValues = {"v", "deny"}
  Mounts <- SomeMounts
  MaxCalls = 4
  BaseSettings <- Settings0
  PlaneKey = "plane"
  Restricted = {"enabled"}
  Legal <- LegalValues
  NewValues = {"off", "t2"}
  Toggled = {"m1"}
  Sections <- ConfigSections
  OldFile <- Beside
  MaxControls = 3
  Executors = {x1, x2}
  Shared = {"s"}
  Prebuilt <- McPrebuilt
  StrategyNames = {"standard", "internal"}
  Acls = {"ask", "deny"}
  Says <- McSays
  Handlers = {"Callback"}
  PolicyDocuments <- McDocuments
  Grants <- McGrants
  Modules = {"one", "two"}
  Control = {"one"}
  Own <- McOwn
  Metadata <- McDeclared
  PatternCovers <- McCovers
  Specificity <- McSpecificity
  Nothing = Nothing
  Requests = {"r"}
  MaxChanges = 1
INIT PoliciesInit
NEXT PoliciesNext
SYMMETRY ExecutorsAlike
CHECK_DEADLOCK FALSE
INVARIANTS
  WindowExact
  OneProbe
  ClosedIsHealthy
  RulesMeanOneThing
  FaultsTold
  DeclarationsResolve
  RefusalsHold
  OverridesDurable
  GatesBind
  NeverOverstates
PROPERTIES
  CoolsDown
  PreflightTells
