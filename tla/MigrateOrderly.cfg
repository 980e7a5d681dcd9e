SPECIFICATION FairSpec
CONSTANTS
  Datasets = {parent, child}
  Root = parent
  MaxVersion = 2
  Buffer = 1
  None = None
  Faults = {}
  Moves = {TRUE, FALSE}
  Orderly = TRUE
  LongLived = FALSE
INVARIANTS MoveSafe
PROPERTIES MoveArrives
CHECK_DEADLOCK FALSE
