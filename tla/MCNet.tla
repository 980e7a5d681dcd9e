------------------------------- MODULE MCNet -------------------------------
(* Routes and addresses share no state, so a behaviour of either with the  *)
(* other at rest shows what the two show together.  Each is taken with two *)
(* sets of bounds, named by bounds:                                        *)
(*   turns    calls about routes take turns, one may die                   *)
(*   overlap  two of them run at once, to one destination                  *)
(*   family   addresses of IPv4 without the DHCP client                    *)
(*   all      both families and the client, one call less, no death        *)
EXTENDS MCNetRoutes, MCNetAddrs

VARIABLE bounds

Turns ==
  /\ deaths' <= 1
  /\ \A v, w \in Workers :
       v # w => \E r \in {v, w} : pc'[r] = "idle" /\ so'[r] = Fresh
Overlaps ==
  /\ deaths' <= 1
  /\ \A w \in Workers : call'[w].route.dest \in MCOneTarget \cup {None}

Family == acall'.op \notin {"dhcpSet", "dhcpDel"} /\ acall'.item.fam = "ip4"
All    == acalls' <= AddrCalls - 1 /\ adeaths' = 0

NetInit == Init /\ AddrInit /\ bounds \in {"turns", "overlap", "family", "all"}
NetNext ==
  /\ UNCHANGED bounds
  /\ \/ bounds = "turns" /\ Next /\ Turns /\ UNCHANGED addrVars
     \/ bounds = "overlap" /\ Next /\ Overlaps /\ UNCHANGED addrVars
     \/ bounds = "family" /\ AddrNext /\ Family /\ UNCHANGED vars
     \/ bounds = "all" /\ AddrNext /\ All /\ UNCHANGED vars
NetSpec == NetInit /\ [][NetNext]_<<vars, addrVars, bounds>>
=============================================================================
