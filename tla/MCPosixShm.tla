----------------------------- MODULE MCPosixShm -----------------------------
(* Model values for PosixShm: two processes, and two identities of either  *)
(* kind, as the process that makes an object has none open and one other   *)
(* process can have one.                                                   *)
EXTENDS PosixShm, TLC

Symmetry == Permutations(Procs) \cup Permutations(SemIds) \cup Permutations(ShmIds)
=============================================================================
