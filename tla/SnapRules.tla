----------------------------- MODULE SnapRules -----------------------------
(***************************************************************************)
(* Rules for taking snapshots, php-zfs/zfs.c.  A rule is three lines of    *)
(* the system's crontab: "#<dataset>:<interval>", when to create and when  *)
(* to delete.  A rule is set by writing the file without the lines of the  *)
(* dataset into a scratch file, renaming that over it, and appending three *)
(* other lines; a process may die and another may run in between.  (What   *)
(* two leave that write the scratch file at the very same time, and the    *)
(* names of datasets that hold a colon, are left out.)                     *)
(***************************************************************************)
EXTENDS Lists, FiniteSets

CONSTANTS
  Ruled,       \* the datasets that get rules
  Scheds,      \* intervals with their schedules
  NoRule,
  Crontab,     \* the file before the first call
  RuleProcs,
  RuleCalls,   \* bound on calls
  RuleDeaths,  \* bound on deaths
  RuleRefuses  \* whether the scratch file may be refused

\* a line is a part of a rule or anything else
Rule(n, s) == [i \in 1 .. 3 |-> [of |-> n, part |-> i, sched |-> s]]
OtherLine(text) == [of |-> NoRule, part |-> 0, sched |-> text]
IsHead(line, n) == line.of = n /\ line.part = 1
\* a file has the rule of n, one behind the other its three lines, and no other line
\* of n, or with no rule none
HasRule(file, n, s) ==
  IF s = NoRule THEN \A i \in DOMAIN file : file[i].of # n
  ELSE \E h \in DOMAIN file : \A i \in DOMAIN file :
         /\ h + 2 \in DOMAIN file
         /\ IF i \in h .. h + 2 THEN file[i] = Rule(n, s)[i - h + 1] ELSE file[i].of # n

CronLines ==
  {Crontab[i] : i \in DOMAIN Crontab} \cup {Rule(n, s)[i] : n \in Ruled, s \in Scheds, i \in 1 .. 3}

ASSUME RuleAssumption ==
  /\ NoRule \notin Ruled \cup Scheds
  /\ Crontab \in Seq(CronLines) /\ NoRule \notin Seq(CronLines)
  /\ \A i \in DOMAIN Crontab : Crontab[i].of \in Ruled \cup {NoRule}
  /\ \A n \in Ruled : \E s \in Scheds \cup {NoRule} : HasRule(Crontab, n, s)
  /\ RuleCalls \in Nat /\ RuleDeaths \in Nat /\ RuleRefuses \in BOOLEAN

VARIABLES
  cron, rep,   \* the file and the scratch file, sequences of lines
  rpc, rarg,   \* per process: where it is, and the arguments
  told,        \* history: by dataset, the rules it may have
  turns,       \* history: no two calls have overlapped, no removal was refused
  rcalls, rdeaths

ruleVars == <<cron, rep, rpc, rarg, told, turns, rcalls, rdeaths>>

\* remove_from_file: the line that matches and what is below it, k lines in all; the
\* count starts again at the line after these, unless that one matches too
RemoveLines(file, n, k) ==
  LET cnt[i \in 0 .. Len(file)] ==
        IF i = 0 THEN 0
        ELSE IF IsHead(file[i], n) \/ cnt[i - 1] \notin {0, k} THEN cnt[i - 1] + 1 ELSE 0
  IN Pick(file, {i \in DOMAIN file : cnt[i] = 0})
\* Mutants: a line too few, a line too many.
RemoveTwo(file, n) == RemoveLines(file, n, 2)
RemoveFour(file, n) == RemoveLines(file, n, 4)
RemoveFromFile(file, n) == RemoveLines(file, n, 3)

\* zfs_snap_rule_get: the first line that matches and the two that follow it, be
\* they what they may; nothing when the file ends before
RuleGet(file, n) ==
  LET heads == {i \in 1 .. Len(file) : IsHead(file[i], n)}
      first == CHOOSE i \in heads : \A j \in heads : i <= j
  IN IF heads = {} \/ first + 2 > Len(file) THEN NoRule
     ELSE [sched |-> file[first].sched,
           create |-> file[first + 1], delete |-> file[first + 2]]

RuleInit ==
  /\ cron = Crontab /\ rep = NoRule
  /\ rpc = [p \in RuleProcs |-> "idle"]
  /\ rarg = [p \in RuleProcs |-> [name |-> NoRule, sched |-> NoRule]]
  /\ told = [n \in Ruled |-> {s \in Scheds \cup {NoRule} : HasRule(Crontab, n, s)}]
  /\ turns = TRUE
  /\ rcalls = 0 /\ rdeaths = 0

\* A schedule that lacks a part is refused before anything is done.
CallRule(p) ==
  /\ rpc[p] = "idle" /\ rcalls < RuleCalls
  /\ \E n \in Ruled, s \in Scheds \cup {NoRule} :
       /\ rarg' = [rarg EXCEPT ![p] = [name |-> n, sched |-> s]]
  /\ turns' = (turns /\ \A q \in RuleProcs : rpc[q] = "idle")
  /\ rpc' = [rpc EXCEPT ![p] = "remove"]
  /\ rcalls' = rcalls + 1
  /\ UNCHANGED <<cron, rep, told, rdeaths>>

\* The scratch file is emptied, filled and closed.  When it is refused,
\* zfs_snap_rule_delete (for which sched is NoRule) gives up, zfs_snap_rule_set goes on.
Remove(p) ==
  /\ rpc[p] = "remove"
  /\ \/ /\ rep' = RemoveFromFile(cron, rarg[p].name)
        /\ rpc' = [rpc EXCEPT ![p] = "rename"]
        /\ UNCHANGED turns
     \/ /\ RuleRefuses
        /\ rpc' = [rpc EXCEPT ![p] = IF rarg[p].sched = NoRule THEN "idle" ELSE "append"]
        /\ turns' = FALSE
        /\ UNCHANGED rep
  /\ UNCHANGED <<cron, rarg, told, rcalls, rdeaths>>

\* nobody looks at what rename returns: another may have taken the scratch file
RenameOver(p) ==
  /\ rpc[p] = "rename"
  /\ IF rep = NoRule THEN UNCHANGED <<cron, rep>> ELSE cron' = rep /\ rep' = NoRule
  /\ IF rarg[p].sched = NoRule
     THEN /\ rpc' = [rpc EXCEPT ![p] = "idle"]
          /\ told' = [told EXCEPT ![rarg[p].name] = {NoRule}]
     ELSE rpc' = [rpc EXCEPT ![p] = "append"] /\ UNCHANGED told
  /\ UNCHANGED <<rarg, turns, rcalls, rdeaths>>

\* the text is written by one fclose
AppendRule(p) ==
  LET n == rarg[p].name IN
  /\ rpc[p] = "append"
  /\ cron' = cron \o Rule(n, rarg[p].sched)
  /\ rpc' = [rpc EXCEPT ![p] = "idle"]
  /\ told' = [told EXCEPT ![n] = {rarg[p].sched}]
  /\ UNCHANGED <<rep, rarg, turns, rcalls, rdeaths>>

DieRule(p) ==
  /\ rpc[p] # "idle" /\ rdeaths < RuleDeaths
  /\ rpc' = [rpc EXCEPT ![p] = "idle"]
  /\ told' = [told EXCEPT ![rarg[p].name] = IF rpc[p] = "append" THEN {NoRule} ELSE @]
  /\ rdeaths' = rdeaths + 1
  /\ UNCHANGED <<cron, rep, rarg, turns, rcalls>>

RuleNext == \E p \in RuleProcs : CallRule(p) \/ Remove(p) \/ RenameOver(p) \/ AppendRule(p) \/ DieRule(p)
RuleSpec == RuleInit /\ [][RuleNext]_ruleVars

-----------------------------------------------------------------------------
(* Properties.                                                             *)

Others(file, n) == Pick(file, {i \in DOMAIN file : file[i].of # n})
LinesOf(file, n) == Pick(file, {i \in DOMAIN file : file[i].of = n})

\* zfs_snap_rule_set, zfs_snap_rule_delete (2014-2066): when calls take turns, the
\* file has the lines of a dataset's rule and no other, or none when it was deleted
\* or a process died before it appended them, wherever the rules of other datasets
\* are; and zfs_snap_rule_get answers with that rule.
RuleAsTold ==
  turns => \A n \in Ruled : (\A p \in RuleProcs : rpc[p] # "idle" => rarg[p].name # n) =>
    \E s \in told[n] :
      IF s = NoRule THEN LinesOf(cron, n) = <<>> /\ RuleGet(cron, n) = NoRule
      ELSE /\ LinesOf(cron, n) = Rule(n, s)
           /\ RuleGet(cron, n) = [sched |-> s, create |-> Rule(n, s)[2], delete |-> Rule(n, s)[3]]

\* remove_from_file (4384): a call about one dataset leaves every line of the
\* crontab that is not of its rule where it is, whatever calls before it left when
\* they died.  (Calls that overlap lose what the other appended before the rename;
\* two rules of a dataset side by side take all that follows with them.)
OthersKept ==
  [][turns => \E n \in Ruled : Others(cron', n) = Others(cron, n)]_ruleVars
=============================================================================
