SPECIFICATION StoresSpec
CONSTANTS
  root = root
  toor = toor
  nobody = nobody
  ann = ann
  p1 = p1
  p2 = p2
  Empty = Empty
  None = None
  Names = {root, toor, nobody, ann, bob, Empty}
  Pwds = {p1, p2}
  MaxUid = 3
  Start = 1
  LastUid = 2
  Passwd <- BuiltFrom
  NewNames = {ann, bob}
  GivenUids = {None, 2}
  NameArgs = {None, ann, bob}
  Procs = {q1, q2}
  Hashes = {h1, h2}
  Colon = Colon
  Tab = Tab
  NoValue = NoValue
  ClassNames = {"staff", "guest"}
  EntryKeys = {"quota", "nologin"}
  EntryValues = {"5", "6"}
  ClassesBuilt <- MCClasses
  HostNames = {"alpha", "beta"}
  Resolvers = {"here", "there"}
  Unset = Unset
  DhcpMode = DhcpMode
  NameProcs = {m1, m2}
  NameCalls = 3
  NameDeaths = 1
  NameRefuses = TRUE
  Graphs <- MCGraphs
  NoNode = NoNode
  NgProcs = {g1, g2}
  NgCalls = 3
  NgDeaths = 1
  NgRefuses = TRUE
SYMMETRY Symmetry
INVARIANTS TypeOK IndexesAgree  MasterFollows
INVARIANTS ClassesAsTold HostNameStored DnsAsTold GraphAsSaved
PROPERTIES TableSpec
CHECK_DEADLOCK FALSE
