CONSTANTS
  Executors = {"e1", "e2"}
  Shared = {"s"}
  Prebuilt <- McPrebuilt
  StrategyNames = {"standard", "internal"}
  Acls = {"ask", "deny"}
  Says <- McSays
  Handlers = {"Callback"}
  PolicyDocuments <- McDocuments
  Grants <- McGrants
  Modules = {"one", "two"}
  Control = {"one"}
  Own <- McOwn
  Metadata <- McDeclared
  PatternCovers <- McCovers
  Specificity <- McSpecificity
  Nothing = Nothing
  Requests = {"r"}
  MaxChanges = 1
INIT GovInit
NEXT GovNext
CHECK_DEADLOCK FALSE
PROPERTY PreflightBinding
