SPECIFICATION Spec
CONSTANTS
  Procs = {p1, p2}
  SemIds = {s1, s2}
  ShmIds = {m1, m2}
  Data = {d1, d2}
  Sizes = {1}
  None = None
  Faults = {}
SYMMETRY Symmetry
INVARIANTS TrueMeansWritten
