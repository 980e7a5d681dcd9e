SPECIFICATION Spec
CONSTANTS
  Datasets = {parent, child}
  Root = parent
  MaxVersion = 1
  Buffer = 1
  None = None
  Faults = {"link"}
  Moves = {TRUE, FALSE}
  Orderly = FALSE
  LongLived = TRUE
INVARIANTS FailedMoveKeepsSource
CHECK_DEADLOCK FALSE
