SPECIFICATION ZfsSpec
CONSTANTS
  root = root
  a = a
  b = b
  k = k
  s1 = s1
  s2 = s2
  c1 = c1
  c2 = c2
  Paths <- MCPaths
  SnapNames = {s1, s2}
  Descs = {"d", "e"}
  Uprops = {"u", "v", "w"}
  Values = {1, 2}
  Absent = Absent
  Trees <- MCTrees
  Requests <- MCRequests
  Callers = {c1}
  ZfsCalls = 1
  ZfsDeaths = 0
  Refuses = FALSE
INVARIANTS DestroyNeedsRecursive
CHECK_DEADLOCK FALSE
