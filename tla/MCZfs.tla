------------------------------- MODULE MCZfs -------------------------------
(* Datasets, pools and rules for snapshots, one beside the other: they     *)
(* share no state (the pool the datasets are in stays imported), so a      *)
(* behaviour of one with the others at rest shows what they show together. *)
(* Each is taken with bounds of its own, named by bounds:                  *)
(*   pairs   two callers, two calls about datasets, overlapping            *)
(*   chain   one call about datasets after the other, one of them may die  *)
(*   pools   two callers, three calls about pools                          *)
(*   rules   two callers, rules for two datasets                           *)
EXTENDS MCZfsDatasets, MCZfsPool, SnapRules

CONSTANTS r1, r2
VARIABLE bounds

Pairs == zcalls' <= 2 /\ zdeaths' = 0
Chain == \A c, d \in Callers : c # d => "idle" \in {zpc'[c], zpc'[d]}

MCCrontab == <<OtherLine("PATH")>> \o Rule("fs", "weekly") \o <<OtherLine("newsyslog")>>

MCZfsInit ==
  /\ ZfsInit /\ PoolInit /\ RuleInit
  /\ \/ bounds \in {"pairs", "chain"} /\ pool = Spared.pool
     \/ bounds = "pools" /\ tree = Plain.tree
     \/ bounds = "rules" /\ tree = Plain.tree /\ pool = Spared.pool
MCZfsNext ==
  /\ UNCHANGED bounds
  /\ \/ bounds = "pairs" /\ ZfsNext /\ Pairs /\ UNCHANGED <<poolVars, ruleVars>>
     \/ bounds = "chain" /\ ZfsNext /\ Chain /\ UNCHANGED <<poolVars, ruleVars>>
     \/ bounds = "pools" /\ PoolNext /\ UNCHANGED <<zfsVars, ruleVars>>
     \/ bounds = "rules" /\ RuleNext /\ UNCHANGED <<zfsVars, poolVars>>
MCZfsSpec == MCZfsInit /\ [][MCZfsNext]_<<zfsVars, poolVars, ruleVars, bounds>>

MCZfsSymmetry == Permutations(Callers) \cup Permutations(Admins)
=============================================================================
