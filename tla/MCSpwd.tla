------------------------------- MODULE MCSpwd -------------------------------
(* Model values for Spwd: two system users that share uid 0, one above the *)
(* uids that are shown, and one user who can log in.                       *)
EXTENDS Spwd, TLC

CONSTANTS root, toor, nobody, ann, p1, p2

User(n, u) == [name |-> n, uid |-> u, pwd |-> p1]
BuiltFrom  == <<User(root, 0), User(toor, 0), User(ann, 1), User(nobody, 3)>>

Symmetry == Permutations(Procs) \cup Permutations(Hashes)
=============================================================================
