----------------------------- MODULE MCNetAddrs -----------------------------
(* Model values for NetAddrs: two addresses, and what is done with them.   *)
EXTENDS NetAddrs

CONSTANTS a1, a2, m1, m2
MCGiven == [fam : {"ip4"}, num : Numbers, ip : {a1}, netmask : {m1}]
             \cup [fam : {"ip4"}, num : Numbers, ip : {a2}, netmask : {m2}]
             \cup [fam : {"ip6"}, num : {0, 1}, ip : {a1}, netmask : {m1}]
MCLists == {<<>>,
            <<Item("ip4", 0, a1, m1), Item("ip4", 1, a2, m2)>>,
            <<Item("ip6", 0, a1, m1), Item("ip4", 1, a2, m2)>>}
=============================================================================
