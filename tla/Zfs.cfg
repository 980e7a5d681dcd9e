SPECIFICATION MCZfsSpec
CONSTANTS
  root = root
  a = a
  b = b
  k = k
  s1 = s1
  s2 = s2
  c1 = c1
  c2 = c2
  Paths <- MCPaths
  SnapNames = {s1, s2}
  Descs = {"d", "e"}
  Uprops = {"u", "v", "w"}
  Values = {1, 2}
  Absent = Absent
  Trees <- MCTrees
  Requests <- MCRequests
  Callers = {c1, c2}
  ZfsCalls = 3
  ZfsDeaths = 1
  Refuses = TRUE
  d1 = d1
  d2 = d2
  d3 = d3
  d4 = d4
  f1 = f1
  x1 = x1
  w1 = w1
  w2 = w2
  Devices = {d1, d2, d3, d4, f1, x1}
  Kind <- MCKind
  Size <- MCSize
  Fuzz = 1
  Nil = Nil
  PoolNames = {"tank", "data"}
  Ids = {1, 2, 3, 4}
  PoolStarts <- MCPoolStarts
  PoolRequests <- MCPoolRequests
  Admins = {w1, w2}
  PoolCalls = 3
  PoolRefuses = TRUE
  r1 = r1
  r2 = r2
  Ruled = {"fs", "vol"}
  Scheds = {"hourly", "weekly"}
  NoRule = NoRule
  Crontab <- MCCrontab
  RuleProcs = {r1, r2}
  RuleCalls = 3
  RuleDeaths = 1
  RuleRefuses = TRUE
SYMMETRY MCZfsSymmetry
INVARIANTS ZfsTypeOK DestroyComplete  SnapCallsWhole MountsAsTold 
INVARIANTS PoolTypeOK PoolsEven
INVARIANTS RuleAsTold
PROPERTIES TakenByForceOnly 
CHECK_DEADLOCK FALSE
