CONSTANTS
  Batches <- McBatches
INIT OrderInit
NEXT OrderNext
CHECK_DEADLOCK FALSE
INVARIANTS
  StallsExplained
