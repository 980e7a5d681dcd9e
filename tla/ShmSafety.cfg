SPECIFICATION Spec
CONSTANTS
  Procs = {p1, p2}
  SemIds = {s1, s2}
  ShmIds = {m1, m2}
  Data = {d1, d2}
  Sizes = {1}
  None = None
  Faults = {"sem_open", "shm_open", "ftruncate", "mmap", "signal", "crash"}
SYMMETRY Symmetry
INVARIANTS TypeOK MutualExclusion TokenKept WholeAtRest
