SPECIFICATION FairSpec
CONSTANTS
  Datasets = {parent, child}
  Root = parent
  MaxVersion = 1
  Buffer = 1
  None = None
  Faults = {"snapshot", "link", "send_crash", "recv_crash", "receive", "destroy"}
  Moves = {TRUE, FALSE}
  Orderly = FALSE
  LongLived = FALSE
INVARIANTS TypeOK RecvConsistent 
PROPERTIES SendReturns
CHECK_DEADLOCK FALSE
