----------------------------- MODULE UserTable -----------------------------
(* What php-spwd promises about the users it administers: a table from     *)
(* uids to users in which no two have the same name.  A user is added, has *)
(* everything but name and uid changed, or is deleted.                     *)
CONSTANTS Uids, Names, Pwds, None

VARIABLE users

Users == [name : Names, uid : Uids, pwd : Pwds]

(* The tables in which every user stands at its uid and has its own name. *)
Tables == {t \in [Uids -> Users \cup {None}] :
             /\ \A u \in Uids : t[u] # None => t[u].uid = u
             /\ \A u, v \in Uids : (t[u] # None /\ t[v] # None /\ t[u].name = t[v].name)
                                      => u = v}

Init == users \in Tables

Add == \E v \in Uids : /\ users[v] = None
                       /\ \E n \in Names, p \in Pwds :
                            /\ \A u \in Uids : users[u] # None => users[u].name # n
                            /\ users' = [users EXCEPT ![v] =
                                            [name |-> n, uid |-> v, pwd |-> p]]

Set == \E u \in Uids, p \in Pwds :
         /\ users[u] # None
         /\ users' = [users EXCEPT ![u].pwd = p]

Del == \E u \in Uids :
         /\ users[u] # None
         /\ users' = [users EXCEPT ![u] = None]

Next == Add \/ Set \/ Del

Spec == Init /\ [][Next]_users
=============================================================================
