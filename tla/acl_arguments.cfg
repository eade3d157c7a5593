CONSTANTS
  e1 = e1
  e2 = e2
  None = None
  Evals = {e1, e2}
  SyncKeys = {"arguments", "roles"}
  AsyncKeys = {"custom"}
  MaxEdits = 0
  Rules <- LateAsked
  FirstRules <- LateFirst
  FileRules <- LateFirst
  Inputs <- Telling
SPECIFICATION Spec
SYMMETRY Alike
CHECK_DEADLOCK FALSE
INVARIANTS
  OwnArguments
