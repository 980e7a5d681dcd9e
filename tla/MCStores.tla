------------------------------ MODULE MCStores ------------------------------
(* Users, their classes, the names of the host and the saved netgraph, one *)
(* beside the other: they share no state, so a behaviour of one with the   *)
(* others at rest shows what they show together; bounds names the one that *)
(* moves.                                                                  *)
EXTENDS MCSpwd, LoginClasses, NetNames, NgctlSave

VARIABLE bounds

Entry(k, v) == [key |-> k, val |-> v]
MCClasses == [n \in ClassNames |->
  IF n = "staff" THEN <<Entry("quota", "5"), Entry("nologin", NoValue)>> ELSE NoValue]

Node(id, kind) == [id |-> id, kind |-> kind]
MCGraphs == {<<Node("bridge", "sound"), Node("vlan", "sound")>>,
             <<Node("lan", "eiface"), Node("vlan", "sound")>>,
             <<Node("hub", "sound"), Node("vlan", "wrong"), Node("bridge", "sound")>>,
             <<Node("hub", "sound"), Node("vlan", "hookless")>>}

StoresInit ==
  /\ Init /\ ClassInit /\ NamesInit /\ NgInit
  /\ bounds \in {"users", "classes", "names", "netgraph"}
  /\ bounds # "names" => hostname = "alpha" /\ hostprop = hostname /\ dnsprop = Unset
StoresNext ==
  /\ UNCHANGED bounds
  /\ \/ bounds = "users" /\ Next /\ UNCHANGED <<classVars, nameVars, ngVars>>
     \/ bounds = "classes" /\ ClassNext /\ UNCHANGED <<vars, nameVars, ngVars>>
     \/ bounds = "names" /\ NamesNext /\ UNCHANGED <<vars, classVars, ngVars>>
     \/ bounds = "netgraph" /\ NgNext /\ UNCHANGED <<vars, classVars, nameVars>>
StoresSpec == StoresInit /\ [][StoresNext]_<<vars, classVars, nameVars, ngVars, bounds>>
=============================================================================
