------------------------------ MODULE NetRoutes ------------------------------
(***************************************************************************)
(* php-net: static routes and the default gateway.                         *)
(*                                                                         *)
(* A route lives in two places, the properties of the configuration        *)
(* dataset (its status, destination, gateway and type, and its name in     *)
(* route_list) and the routing table of the kernel, changed one after the  *)
(* other by calls of several PHP processes.  The message to the kernel is  *)
(* built in an array, so, that a process keeps from one call to the next.  *)
(*                                                                         *)
(* An address is a string of Bits bits.  A destination is an address and   *)
(* the length of its mask; the kernel knows it by the masked bits, the     *)
(* default route by no bit at all.                                         *)
(***************************************************************************)
EXTENDS Integers

CONSTANTS
  Names, Gateways,
  Bits,       \* bits of an address
  Targets,    \* destinations of static routes, none of them the default
  Workers,    \* PHP processes
  None,
  MaxDeaths,  \* bound on processes that die in the middle of a call
  MaxAdds,    \* bound on calls of route_add
  Refusals,   \* the kernel may refuse a change, the dataset a new property
  Overlap,    \* calls about different names may run at the same time
  Reused      \* the default gateway is set by processes that handled routes

Addresses == [1 .. Bits -> {0, 1}]
Dests     == [addr : Addresses, len : 0 .. Bits]
Prefixes  == UNION {[1 .. l -> {0, 1}] : l \in 0 .. Bits}

ASSUME ConstantsAssumption ==
  /\ Bits \in Nat
  /\ Targets \subseteq {d \in Dests : d.len > 0}
  /\ None \notin Names \cup Gateways \cup Dests \cup {0, 1} \cup [Names -> Nat]
  /\ MaxDeaths \in Nat /\ MaxAdds \in Nat
  /\ Refusals \in BOOLEAN /\ Overlap \in BOOLEAN /\ Reused \in BOOLEAN

VARIABLES
  stored,   \* net:route_static_<name>_* : the four properties, None if absent
  list,     \* net:route_list: how often it holds each name, None if absent
  default,  \* net:route_default
  kernel,   \* routing table: the gateway of each prefix
  so,       \* per process: bits left in so[RTAX_DST], length in so[RTAX_NETMASK]
  pc, call, \* per process: where its call is, and the arguments
  k,        \* property being written
  seen,     \* route_list as the call read it
  adds, deaths,
  torn,     \* history: names a call about which died, or whose entry in the
            \* list another call overwrote, not deleted since
  working   \* history: names whose route_add returned TRUE with status 1 and
            \* whose destination no call removed from the kernel since

conf == <<stored, list, default>>
vars == <<stored, list, default, kernel, so, pc, call, k, seen, adds, deaths, torn, working>>

(* The bits of an address that a mask leaves. *)
Masked(addr, len) == [i \in 1 .. len |-> addr[i]]
Key(d) == Masked(d.addr, d.len)
DefaultKey == <<>>

Fields == <<"status", "dest", "gtw", "type">>
Blank  == [status |-> None, dest |-> None, gtw |-> None, type |-> None]
Routes == [status : {None, 0, 1}, dest : Targets \cup {None},
           gtw : Gateways \cup {None}, type : {None, 0, 1}]

NoCall == [name |-> None, route |-> Blank]
Fresh  == [dst |-> [i \in 1 .. Bits |-> 0], netmask |-> 0]

(* Type 1 is a host: no mask.  Type 0 needs a destination with a slash. *)
TypeOf(d) == IF d.len = Bits THEN 1 ELSE 0
Complete(r) == r.dest # None /\ r.gtw # None /\ r.type # None

(* The names in route_list, or in a copy of it; their order is abstracted. *)
Listed(l) == IF l = None THEN [n \in Names |-> 0] ELSE l

AddPcs == {"store", "addread", "addwrite", "kernel"}
DelPcs == {"unroute", "erase", "delread", "delwrite"}
DefaultPcs == {"dkernel", "derase"}

TypeOK ==
  /\ stored \in [Names -> Routes]
  /\ list \in [Names -> Nat] \cup {None}
  /\ default \in Gateways \cup {None}
  /\ kernel \in [Prefixes -> Gateways \cup {None}]
  /\ so \in [Workers -> [dst : Addresses, netmask : 0 .. Bits]]
  /\ pc \in [Workers -> {"idle"} \cup AddPcs \cup DelPcs \cup DefaultPcs]
  /\ call \in [Workers -> [name : Names \cup {None}, route : Routes]]
  /\ k \in [Workers -> 1 .. 4]
  /\ seen \in [Workers -> [Names -> Nat] \cup {None}]
  /\ adds \in 0 .. MaxAdds /\ deaths \in 0 .. MaxDeaths
  /\ torn \subseteq Names
  /\ working \subseteq Names

Init ==
  /\ stored = [n \in Names |-> Blank]
  /\ list = None /\ default = None
  /\ kernel = [p \in Prefixes |-> None]
  /\ so = [w \in Workers |-> Fresh]
  /\ pc = [w \in Workers |-> "idle"]
  /\ call = [w \in Workers |-> NoCall]
  /\ k = [w \in Workers |-> 1]
  /\ seen = [w \in Workers |-> None]
  /\ adds = 0 /\ deaths = 0 /\ torn = {} /\ working = {}

-----------------------------------------------------------------------------
(* Two calls about one name, or two about the default, never overlap. *)
MayCall(w, n) ==
  /\ pc[w] = "idle"
  /\ \A v \in Workers : pc[v] # "idle" => Overlap /\ call[v].name # n

Begin(w, step, n, r) ==
  /\ pc' = [pc EXCEPT ![w] = step]
  /\ call' = [call EXCEPT ![w] = [name |-> n, route |-> r]]

Goto(w, step) == pc' = [pc EXCEPT ![w] = step] /\ UNCHANGED call

Return(w) ==
  /\ pc' = [pc EXCEPT ![w] = "idle"]
  /\ call' = [call EXCEPT ![w] = NoCall]

(* fill_sockaddr_storage() for a destination other than 0.0.0.0: a host    *)
(* leaves the mask of the network before it where it is.                   *)
Filled(s, d) == [dst |-> d.addr, netmask |-> IF d.len = Bits THEN s.netmask ELSE d.len]

(* For 0.0.0.0/0 it returns before it writes anything, so the destination  *)
(* that goes to the kernel is the one left by the call before.             *)
Effective(w) == Masked(so[w].dst, so[w].netmask)

(* What the kernel answers to RTM_ADD and RTM_DELETE; a route that is not  *)
(* there counts as deleted.                                                *)
RtmAdd(p, g) == kernel[p] = None /\ kernel' = [kernel EXCEPT ![p] = g]
RtmAddFails(p) == (kernel[p] # None \/ Refusals) /\ UNCHANGED kernel
RtmDelete(p) == kernel' = [kernel EXCEPT ![p] = None]
RtmDeleteFails == Refusals /\ UNCHANGED kernel

(* Names whose route to p the kernel stops having. *)
Lose(p) == working' = {n \in working : Key(stored[n].dest) # p}

(* Names whose entry changed after w read the list it is about to write.   *)
Overwritten(w) == {n \in Names : Listed(seen[w])[n] # Listed(list)[n]}

-----------------------------------------------------------------------------
(* route_add                                                               *)

(* Mutant: a name that is stored already is not refused. *)
AddStartUnchecked(w, n, d, g, s) ==
  /\ MayCall(w, n) /\ adds < MaxAdds /\ adds' = adds + 1
  /\ Begin(w, "store", n, [status |-> s, dest |-> d, gtw |-> g, type |-> TypeOf(d)])
  /\ UNCHANGED <<conf, kernel, so, k, seen, deaths, torn, working>>

AddStart(w, n, d, g, s) ==
  /\ MayCall(w, n) /\ adds < MaxAdds /\ adds' = adds + 1
  /\ stored[n].status = None
  /\ Begin(w, "store", n, [status |-> s, dest |-> d, gtw |-> g, type |-> TypeOf(d)])
  /\ UNCHANGED <<conf, kernel, so, k, seen, deaths, torn, working>>

AddStore(w) ==
  /\ pc[w] = "store"
  /\ stored' = [stored EXCEPT ![call[w].name][Fields[k[w]]] = call[w].route[Fields[k[w]]]]
  /\ k' = [k EXCEPT ![w] = IF @ = 4 THEN 1 ELSE @ + 1]
  /\ Goto(w, IF k[w] = 4 THEN "addread" ELSE "store")
  /\ UNCHANGED <<list, default, kernel, so, seen, adds, deaths, torn, working>>

(* Only the first of the properties is looked at when it cannot be set. *)
AddStoreFails(w) ==
  /\ pc[w] = "store" /\ k[w] = 1 /\ Refusals
  /\ Return(w)
  /\ UNCHANGED <<conf, kernel, so, k, seen, adds, deaths, torn, working>>

AddListRead(w) ==
  /\ pc[w] = "addread"
  /\ seen' = [seen EXCEPT ![w] = list]
  /\ Goto(w, "addwrite")
  /\ UNCHANGED <<conf, kernel, so, k, adds, deaths, torn, working>>

AddListWrite(w) ==
  /\ pc[w] = "addwrite"
  /\ list' = [Listed(seen[w]) EXCEPT ![call[w].name] = @ + 1]
  /\ seen' = [seen EXCEPT ![w] = None]
  /\ torn' = torn \cup Overwritten(w)
  /\ IF call[w].route.status = 1 THEN Goto(w, "kernel") ELSE Return(w)
  /\ UNCHANGED <<stored, default, kernel, so, k, adds, deaths, working>>

(* Mutant: TRUE is returned whatever rtmsg() said. *)
AddKernelUnchecked(w) ==
  LET d == call[w].route.dest IN
  /\ pc[w] = "kernel"
  /\ so' = [so EXCEPT ![w] = Filled(@, d)]
  /\ RtmAdd(Key(d), call[w].route.gtw) \/ RtmAddFails(Key(d))
  /\ working' = working \cup {call[w].name}
  /\ Return(w)
  /\ UNCHANGED <<conf, k, seen, adds, deaths, torn>>

(* A refusal makes the call return FALSE and leaves the route stored. *)
AddKernel(w) ==
  LET d == call[w].route.dest IN
  /\ pc[w] = "kernel"
  /\ so' = [so EXCEPT ![w] = Filled(@, d)]
  /\ \/ /\ RtmAdd(Key(d), call[w].route.gtw)
        /\ working' = working \cup {call[w].name}
     \/ RtmAddFails(Key(d)) /\ UNCHANGED working
  /\ Return(w)
  /\ UNCHANGED <<conf, k, seen, adds, deaths, torn>>

-----------------------------------------------------------------------------
(* route_del                                                               *)

DelStart(w, n) ==
  /\ MayCall(w, n)
  /\ Complete(stored[n])
  /\ Begin(w, "unroute", n, stored[n])
  /\ UNCHANGED <<conf, kernel, so, k, seen, adds, deaths, torn, working>>

(* Mutant: a refusal is taken for success. *)
DelKernelUnchecked(w) ==
  LET d == call[w].route.dest IN
  /\ pc[w] = "unroute"
  /\ so' = [so EXCEPT ![w] = Filled(@, d)]
  /\ RtmDelete(Key(d)) \/ RtmDeleteFails
  /\ Lose(Key(d))
  /\ Goto(w, "erase")
  /\ UNCHANGED <<conf, k, seen, adds, deaths, torn>>

DelKernel(w) ==
  LET d == call[w].route.dest IN
  /\ pc[w] = "unroute"
  /\ so' = [so EXCEPT ![w] = Filled(@, d)]
  /\ \/ RtmDelete(Key(d)) /\ Lose(Key(d)) /\ Goto(w, "erase")
     \/ RtmDeleteFails /\ UNCHANGED working /\ Return(w)
  /\ UNCHANGED <<conf, k, seen, adds, deaths, torn>>

(* Mutant: the properties are counted one too far. *)
DelErasePast(w) ==
  /\ pc[w] = "erase"
  /\ stored' = [stored EXCEPT ![call[w].name][Fields[k[w]]] = None]
  /\ k' = [k EXCEPT ![w] = @ + 1]
  /\ Goto(w, IF k[w] = 5 THEN "delread" ELSE "erase")
  /\ UNCHANGED <<list, default, kernel, so, seen, adds, deaths, torn, working>>

DelErase(w) ==
  /\ pc[w] = "erase"
  /\ stored' = [stored EXCEPT ![call[w].name][Fields[k[w]]] = None]
  /\ k' = [k EXCEPT ![w] = IF @ = 4 THEN 1 ELSE @ + 1]
  /\ Goto(w, IF k[w] = 4 THEN "delread" ELSE "erase")
  /\ UNCHANGED <<list, default, kernel, so, seen, adds, deaths, torn, working>>

DelListRead(w) ==
  /\ pc[w] = "delread" /\ list # None
  /\ seen' = [seen EXCEPT ![w] = list]
  /\ Goto(w, "delwrite")
  /\ UNCHANGED <<conf, kernel, so, k, adds, deaths, torn, working>>

(* strlen(NULL): the process ends, with the route gone already. *)
DelListMissing(w) ==
  /\ pc[w] = "delread" /\ list = None
  /\ Return(w)
  /\ so' = [so EXCEPT ![w] = Fresh]
  /\ torn' = torn \ {call[w].name}
  /\ UNCHANGED <<conf, kernel, k, seen, adds, deaths, working>>

DelListWrite(w) ==
  /\ pc[w] = "delwrite"
  /\ list' = [seen[w] EXCEPT ![call[w].name] = 0]
  /\ seen' = [seen EXCEPT ![w] = None]
  /\ torn' = (torn \cup Overwritten(w)) \ {call[w].name}
  /\ Return(w)
  /\ UNCHANGED <<stored, default, kernel, so, k, adds, deaths, working>>

-----------------------------------------------------------------------------
(* route_set_default and route_del_default                                 *)

MaySetDefault(w) == MayCall(w, None) /\ (Reused \/ so[w] = Fresh)

SetDefaultStart(w, g) ==
  /\ MaySetDefault(w)
  /\ Begin(w, "dkernel", None, [Blank EXCEPT !.gtw = g])
  /\ default' = g
  /\ UNCHANGED <<stored, list, kernel, so, k, seen, adds, deaths, torn, working>>

SetDefaultKernel(w) ==
  /\ pc[w] = "dkernel"
  /\ RtmAdd(Effective(w), call[w].route.gtw) \/ RtmAddFails(Effective(w))
  /\ Return(w)
  /\ UNCHANGED <<conf, so, k, seen, adds, deaths, torn, working>>

DelDefaultKernel(w) ==
  /\ MaySetDefault(w)
  /\ \/ RtmDelete(Effective(w)) /\ Begin(w, "derase", None, Blank)
     \/ RtmDeleteFails /\ UNCHANGED <<pc, call>>
  /\ UNCHANGED <<conf, so, k, seen, adds, deaths, torn, working>>

DelDefaultErase(w) ==
  /\ pc[w] = "derase"
  /\ default' = None
  /\ Return(w)
  /\ UNCHANGED <<stored, list, kernel, so, k, seen, adds, deaths, torn, working>>

-----------------------------------------------------------------------------
(* routes_get and route_get ask the kernel about each route they report,   *)
(* and fill so[] for it: what stays is the address of the last one that    *)
(* has a destination and the mask of the last network.                     *)
RoutesGet(w) ==
  LET asked == {n \in Names : Listed(list)[n] > 0 /\ stored[n].dest # None}
      lens  == {stored[n].dest.len : n \in asked} \ {Bits}
      masks == IF lens = {} THEN {so[w].netmask} ELSE lens
  IN
  /\ MayCall(w, None) /\ asked # {}
  /\ \E last \in asked, m \in masks :
       so' = [so EXCEPT ![w] = Filled([@ EXCEPT !.netmask = m], stored[last].dest)]
  /\ UNCHANGED <<conf, kernel, pc, call, k, seen, adds, deaths, torn, working>>

RouteGet(w, n) ==
  /\ MayCall(w, n) /\ stored[n].status # None /\ stored[n].dest # None
  /\ so' = [so EXCEPT ![w] = Filled(@, stored[n].dest)]
  /\ UNCHANGED <<conf, kernel, pc, call, k, seen, adds, deaths, torn, working>>

(* A PHP process ends after its last call and another takes its place. *)
Recycle(w) ==
  /\ pc[w] = "idle"
  /\ so' = [so EXCEPT ![w] = Fresh]
  /\ UNCHANGED <<conf, kernel, pc, call, k, seen, adds, deaths, torn, working>>

(* A PHP process is killed in the middle of a call. *)
Die(w) ==
  /\ pc[w] # "idle" /\ deaths < MaxDeaths
  /\ deaths' = deaths + 1
  /\ torn' = torn \cup ({call[w].name} \cap Names)
  /\ Return(w)
  /\ so' = [so EXCEPT ![w] = Fresh]
  /\ k' = [k EXCEPT ![w] = 1]
  /\ seen' = [seen EXCEPT ![w] = None]
  /\ UNCHANGED <<conf, kernel, adds, working>>

Next ==
  \E w \in Workers :
    \/ \E n \in Names, d \in Targets, g \in Gateways, s \in {0, 1} : AddStart(w, n, d, g, s)
    \/ AddStore(w) \/ AddStoreFails(w)
    \/ AddListRead(w) \/ AddListWrite(w) \/ AddKernel(w)
    \/ \E n \in Names : DelStart(w, n) \/ RouteGet(w, n)
    \/ DelKernel(w) \/ DelErase(w)
    \/ DelListRead(w) \/ DelListMissing(w) \/ DelListWrite(w)
    \/ \E g \in Gateways : SetDefaultStart(w, g)
    \/ SetDefaultKernel(w) \/ DelDefaultKernel(w) \/ DelDefaultErase(w)
    \/ RoutesGet(w) \/ Recycle(w) \/ Die(w)

Spec == Init /\ [][Next]_vars

-----------------------------------------------------------------------------
(* A name some call is writing or erasing the properties of. *)
Unsettled(n) == \E w \in Workers : call[w].name = n /\ pc[w] \in {"store", "erase"}

(* n is enabled in the configuration, with destination p and gateway g. *)
Enables(n, p, g) ==
  /\ stored[n].status = 1 /\ stored[n].gtw = g
  /\ stored[n].dest # None /\ Key(stored[n].dest) = p

(* Every route the kernel has is one the configuration knows, so that it   *)
(* can be listed and deleted by name, whenever a process dies: route_add   *)
(* tells the kernel last, route_del first (net.c:1534, 1589, 1655, 1708).  *)
RoutesKnown ==
  /\ \A p \in Prefixes \ {DefaultKey} :
       kernel[p] # None => \E n \in Names : ~Unsettled(n) /\ Enables(n, p, kernel[p])
  /\ kernel[DefaultKey] # None => default # None

(* A route whose route_add returned TRUE is in the kernel with its gateway *)
(* until a route to the same destination is deleted: neither a change of   *)
(* another route nor one of the default gateway takes it away.             *)
WorkingInKernel ==
  \A n \in working :
    /\ stored[n].dest # None
    /\ kernel[Key(stored[n].dest)] = stored[n].gtw

(* route_list names a route exactly once if its properties are stored, and *)
(* not at all otherwise, whenever no call is under way; a name a call died *)
(* about, or whose entry an overlapping call overwrote, is excepted until  *)
(* it is deleted (net.c:1502, 1621).                                       *)
ListExact ==
  (\A w \in Workers : pc[w] = "idle") =>
    \A n \in Names \ torn :
      /\ stored[n] = Blank \/ (Complete(stored[n]) /\ stored[n].status # None)
      /\ Listed(list)[n] = IF stored[n] = Blank THEN 0 ELSE 1

(* When route_set_default succeeds the default route of the kernel leads   *)
(* to the gateway it was given (php-net/README.md:268).                  *)
DefaultIsSet ==
  [][\A w \in Workers :
       pc[w] = "dkernel" /\ pc'[w] = "idle" /\ kernel' # kernel
         => kernel'[DefaultKey] = call[w].route.gtw]_vars
=============================================================================
