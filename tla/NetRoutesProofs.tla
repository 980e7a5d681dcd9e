-------------------------- MODULE NetRoutesProofs --------------------------
(* Theorems about NetRoutes, for any names, destinations, gateways and     *)
(* processes, and any number of deaths, where the default gateway is set   *)
(* by processes that handled no route before.                              *)
EXTENDS NetRoutes, TLAPS

Active(w) == pc[w] # "idle"

(* Two calls that are under way are about different names. *)
Exclusive ==
  \A v, w \in Workers : v # w /\ Active(v) /\ Active(w) => call[v].name # call[w].name

(* What a call may rely on at each of its steps. *)
CallFact(w) ==
  /\ pc[w] \in AddPcs \cup DelPcs =>
       call[w].name \in Names /\ Complete(call[w].route)
  /\ pc[w] \in {"addread", "addwrite", "kernel", "unroute"} =>
       stored[call[w].name] = call[w].route
  /\ pc[w] = "store" =>
       \A i \in 1 .. k[w] - 1 : stored[call[w].name][Fields[i]] = call[w].route[Fields[i]]
  /\ pc[w] = "kernel" => call[w].route.status = 1
  /\ pc[w] = "delwrite" => seen[w] # None
  /\ pc[w] \in DefaultPcs => call[w].name = None
  /\ pc[w] \notin {"store", "erase"} => k[w] = 1

CallFacts == \A w \in Workers : CallFact(w)

CallInv == TypeOK /\ Exclusive /\ CallFacts

(* What the calls that set and delete the default gateway rely on. *)
DefaultFacts ==
  \A w \in Workers :
    /\ pc[w] = "dkernel" => default # None
    /\ pc[w] \in DefaultPcs => so[w] = Fresh
    /\ pc[w] = "derase" => kernel[DefaultKey] = None

(* A route that works is stored as enabled, with a gateway, and no call is *)
(* storing it or erasing it.                                               *)
WorkingFacts ==
  \A n \in working : stored[n].status = 1 /\ stored[n].gtw # None /\ ~Unsettled(n)

RoutesInv ==
  /\ ~Reused
  /\ CallInv /\ DefaultFacts /\ WorkingFacts
  /\ RoutesKnown /\ WorkingInKernel

-----------------------------------------------------------------------------
LEMMA FieldSet ==
  ASSUME NEW r \in Routes, NEW q \in Routes, NEW i \in 1 .. 4
  PROVE  /\ [r EXCEPT ![Fields[i]] = q[Fields[i]]] \in Routes
         /\ [r EXCEPT ![Fields[i]] = q[Fields[i]]][Fields[i]] = q[Fields[i]]
         /\ \A j \in 1 .. 4 :
              j # i => [r EXCEPT ![Fields[i]] = q[Fields[i]]][Fields[j]] = r[Fields[j]]
<1>1. CASE i = 1
  BY <1>1 DEF Fields, Routes
<1>2. CASE i = 2
  BY <1>2 DEF Fields, Routes
<1>3. CASE i = 3
  BY <1>3 DEF Fields, Routes
<1>4. CASE i = 4
  BY <1>4 DEF Fields, Routes
<1>5. QED
  BY <1>1, <1>2, <1>3, <1>4

LEMMA BlankType == Blank \in Routes
BY DEF Blank, Routes

LEMMA BlankFields == \A i \in 1 .. 4 : Blank[Fields[i]] = None
BY DEF Fields, Blank

LEMMA FieldErased ==
  ASSUME NEW r \in Routes, NEW i \in 1 .. 4
  PROVE  /\ [r EXCEPT ![Fields[i]] = None] \in Routes
         /\ [r EXCEPT ![Fields[i]] = None][Fields[i]] = None
         /\ \A j \in 1 .. 4 : j # i => [r EXCEPT ![Fields[i]] = None][Fields[j]] = r[Fields[j]]
<1>1. Blank[Fields[i]] = None
  BY BlankFields
<1> DEFINE set == [r EXCEPT ![Fields[i]] = Blank[Fields[i]]]
<1>2. /\ set \in Routes
      /\ set[Fields[i]] = Blank[Fields[i]]
      /\ \A j \in 1 .. 4 : j # i => set[Fields[j]] = r[Fields[j]]
  BY FieldSet, BlankType
<1>3. [r EXCEPT ![Fields[i]] = None] = set
  BY <1>1
<1> HIDE DEF set
<1>4. QED
  BY <1>1, <1>2, <1>3

(* Two routes with the same fields are the same. *)
LEMMA SameFields ==
  ASSUME NEW r \in Routes, NEW q \in Routes, \A i \in 1 .. 4 : r[Fields[i]] = q[Fields[i]]
  PROVE  r = q
<1>1. r.status = q.status /\ r.dest = q.dest /\ r.gtw = q.gtw /\ r.type = q.type
  BY DEF Fields
<1>2. QED
  BY <1>1 DEF Routes

LEMMA MaskedType ==
  ASSUME NEW a \in Addresses, NEW l \in 0 .. Bits
  PROVE  Masked(a, l) \in [1 .. l -> {0, 1}] /\ Masked(a, l) \in Prefixes
<1>1. \A i \in 1 .. l : a[i] \in {0, 1}
  BY ConstantsAssumption DEF Addresses
<1>2. Masked(a, l) \in [1 .. l -> {0, 1}]
  BY <1>1 DEF Masked
<1>3. QED
  BY <1>2 DEF Prefixes

LEMMA Destinations ==
  ASSUME NEW d \in Targets
  PROVE  /\ d \in Dests /\ d # None
         /\ Key(d) \in Prefixes /\ Key(d) # DefaultKey
         /\ TypeOf(d) \in {0, 1} /\ TypeOf(d) # None
<1>1. d \in Dests /\ d.len \in 1 .. Bits /\ d.addr \in Addresses
  BY ConstantsAssumption DEF Dests
<1>2. d.len \in 0 .. Bits
  BY <1>1, ConstantsAssumption
<1>3. Key(d) \in Prefixes
  BY <1>1, <1>2, MaskedType DEF Key
<1>4. Key(d) # DefaultKey
  <2>1. 1 \in DOMAIN Key(d)
    BY <1>1 DEF Key, Masked
  <2>2. DOMAIN DefaultKey = {}
    BY DEF DefaultKey
  <2>3. QED
    BY <2>1, <2>2
<1>5. QED
  BY <1>1, <1>3, <1>4, ConstantsAssumption DEF TypeOf

LEMMA DefaultPrefix ==
  /\ DefaultKey \in Prefixes
  /\ \A w \in Workers : so[w] = Fresh => Effective(w) = DefaultKey
<1>1. [1 .. 0 -> {0, 1}] \subseteq Prefixes
  BY ConstantsAssumption DEF Prefixes
<1>2. DefaultKey \in [1 .. 0 -> {0, 1}]
  BY DEF DefaultKey
<1>3. ASSUME NEW w \in Workers, so[w] = Fresh PROVE Effective(w) = DefaultKey
  BY <1>3 DEF Effective, Masked, Fresh, DefaultKey
<1>4. QED
  BY <1>1, <1>2, <1>3

LEMMA EffectiveType == TypeOK => \A w \in Workers : Effective(w) \in Prefixes
<1> SUFFICES ASSUME TypeOK, NEW w \in Workers PROVE Effective(w) \in Prefixes
  OBVIOUS
<1>1. so[w].netmask \in 0 .. Bits /\ so[w].dst \in Addresses
  BY DEF TypeOK
<1>2. QED
  BY <1>1, MaskedType DEF Effective

-----------------------------------------------------------------------------
(* Types                                                                   *)

LEMMA Constructors ==
  /\ NoCall \in [name : Names \cup {None}, route : Routes]
  /\ Fresh \in [dst : Addresses, netmask : 0 .. Bits]
  /\ \A s \in [dst : Addresses, netmask : 0 .. Bits], d \in Dests, m \in 0 .. Bits :
       /\ Filled(s, d) \in [dst : Addresses, netmask : 0 .. Bits]
       /\ Filled([s EXCEPT !.netmask = m], d) \in [dst : Addresses, netmask : 0 .. Bits]
  /\ \A l \in [Names -> Nat] \cup {None} :
       /\ Listed(l) \in [Names -> Nat]
       /\ \A n \in Names : [Listed(l) EXCEPT ![n] = @ + 1] \in [Names -> Nat]
<1>1. NoCall \in [name : Names \cup {None}, route : Routes]
  BY BlankType DEF NoCall
<1>2. Fresh \in [dst : Addresses, netmask : 0 .. Bits]
  BY ConstantsAssumption DEF Fresh, Addresses
<1>3. ASSUME NEW s \in [dst : Addresses, netmask : 0 .. Bits],
             NEW d \in Dests, NEW m \in 0 .. Bits
      PROVE  /\ Filled(s, d) \in [dst : Addresses, netmask : 0 .. Bits]
             /\ Filled([s EXCEPT !.netmask = m], d) \in [dst : Addresses, netmask : 0 .. Bits]
  BY DEF Filled, Dests
<1>4. ASSUME NEW l \in [Names -> Nat] \cup {None}
      PROVE  /\ Listed(l) \in [Names -> Nat]
             /\ \A n \in Names : [Listed(l) EXCEPT ![n] = @ + 1] \in [Names -> Nat]
  <2>1. Listed(l) \in [Names -> Nat]
    BY DEF Listed
  <2>2. QED
    BY <2>1
<1>5. QED
  BY <1>1, <1>2, <1>3, <1>4

LEMMA InitTypeOK == Init => TypeOK
BY Constructors, BlankType, ConstantsAssumption DEF Init, TypeOK

(* The destination of a call that has one. *)
LEMMA CallDest ==
  ASSUME TypeOK, CallFacts, NEW w \in Workers, pc[w] \in AddPcs \cup DelPcs
  PROVE  /\ call[w].name \in Names
         /\ call[w].route \in Routes
         /\ call[w].route.dest \in Targets /\ call[w].route.gtw \in Gateways
<1>1. call[w].name \in Names /\ call[w].route \in Routes /\ Complete(call[w].route)
  BY DEF TypeOK, CallFacts, CallFact
<1>2. QED
  BY <1>1 DEF Complete, Routes

LEMMA NextTypeOK == TypeOK /\ CallFacts /\ [Next]_vars => TypeOK'
<1> SUFFICES ASSUME TypeOK, CallFacts, [Next]_vars PROVE TypeOK'
  OBVIOUS
<1> USE DEF TypeOK, conf
<1>1. ASSUME NEW w \in Workers, NEW n \in Names, NEW d \in Targets, NEW g \in Gateways,
             NEW s \in {0, 1}, AddStart(w, n, d, g, s)
      PROVE  TypeOK'
  <2>1. [status |-> s, dest |-> d, gtw |-> g, type |-> TypeOf(d)] \in Routes
    BY Destinations DEF Routes
  <2>2. QED
    BY <1>1, <2>1, ConstantsAssumption DEF AddStart, Begin, AddPcs
<1>2. ASSUME NEW w \in Workers, AddStore(w) PROVE TypeOK'
  <2>1. call[w].name \in Names /\ call[w].route \in Routes
    BY <1>2, CallDest DEF AddStore, AddPcs
  <2>2. [stored[call[w].name] EXCEPT ![Fields[k[w]]] = call[w].route[Fields[k[w]]]] \in Routes
    BY <2>1, FieldSet
  <2>3. stored' \in [Names -> Routes]
    BY <1>2, <2>1, <2>2 DEF AddStore
  <2>4. QED
    BY <1>2, <2>3 DEF AddStore, Goto, AddPcs
<1>3. ASSUME NEW w \in Workers, AddStoreFails(w) PROVE TypeOK'
  BY <1>3, Constructors DEF AddStoreFails, Return
<1>4. ASSUME NEW w \in Workers, AddListRead(w) PROVE TypeOK'
  BY <1>4 DEF AddListRead, Goto, AddPcs
<1>5. ASSUME NEW w \in Workers, AddListWrite(w) PROVE TypeOK'
  <2>1. call[w].name \in Names
    BY <1>5, CallDest DEF AddListWrite, AddPcs
  <2>2. list' \in [Names -> Nat]
    BY <1>5, <2>1, Constructors DEF AddListWrite
  <2>3. pc' \in [Workers -> {"idle"} \cup AddPcs \cup DelPcs \cup DefaultPcs]
    BY <1>5 DEF AddListWrite, Goto, Return, AddPcs
  <2>4. call' \in [Workers -> [name : Names \cup {None}, route : Routes]]
    BY <1>5, Constructors DEF AddListWrite, Goto, Return
  <2>5. QED
    BY <1>5, <2>2, <2>3, <2>4 DEF AddListWrite, Overwritten
<1>6. ASSUME NEW w \in Workers, AddKernel(w) PROVE TypeOK'
  <2>1. call[w].name \in Names /\ call[w].route.dest \in Targets /\ call[w].route.gtw \in Gateways
    BY <1>6, CallDest DEF AddKernel, AddPcs
  <2>2. Filled(so[w], call[w].route.dest) \in [dst : Addresses, netmask : 0 .. Bits]
    BY <2>1, Constructors, Destinations
  <2>3. so' \in [Workers -> [dst : Addresses, netmask : 0 .. Bits]]
    BY <1>6, <2>2 DEF AddKernel
  <2>4. kernel' \in [Prefixes -> Gateways \cup {None}] /\ working' \subseteq Names
    BY <1>6, <2>1 DEF AddKernel, RtmAdd, RtmAddFails
  <2>5. QED
    BY <1>6, <2>3, <2>4, Constructors DEF AddKernel, Return
<1>7. ASSUME NEW w \in Workers, NEW n \in Names, DelStart(w, n) PROVE TypeOK'
  BY <1>7 DEF DelStart, Begin, DelPcs
<1>8. ASSUME NEW w \in Workers, DelKernel(w) PROVE TypeOK'
  <2>1. call[w].route.dest \in Targets
    BY <1>8, CallDest DEF DelKernel, DelPcs
  <2>2. Filled(so[w], call[w].route.dest) \in [dst : Addresses, netmask : 0 .. Bits]
    BY <2>1, Constructors, Destinations
  <2>3. so' \in [Workers -> [dst : Addresses, netmask : 0 .. Bits]]
    BY <1>8, <2>2 DEF DelKernel
  <2>4. kernel' \in [Prefixes -> Gateways \cup {None}] /\ working' \subseteq Names
    BY <1>8 DEF DelKernel, RtmDelete, RtmDeleteFails, Lose
  <2>5. pc' \in [Workers -> {"idle"} \cup AddPcs \cup DelPcs \cup DefaultPcs]
    BY <1>8 DEF DelKernel, Goto, Return, DelPcs
  <2>6. call' \in [Workers -> [name : Names \cup {None}, route : Routes]]
    BY <1>8, Constructors DEF DelKernel, Goto, Return
  <2>7. QED
    BY <1>8, <2>3, <2>4, <2>5, <2>6 DEF DelKernel
<1>9. ASSUME NEW w \in Workers, DelErase(w) PROVE TypeOK'
  <2>1. call[w].name \in Names
    BY <1>9, CallDest DEF DelErase, DelPcs
  <2>2. [stored[call[w].name] EXCEPT ![Fields[k[w]]] = None] \in Routes
    BY <2>1, FieldErased
  <2>3. stored' \in [Names -> Routes]
    BY <1>9, <2>1, <2>2 DEF DelErase
  <2>4. QED
    BY <1>9, <2>3 DEF DelErase, Goto, DelPcs
<1>10. ASSUME NEW w \in Workers, DelListRead(w) PROVE TypeOK'
  BY <1>10 DEF DelListRead, Goto, DelPcs
<1>11. ASSUME NEW w \in Workers, DelListMissing(w) PROVE TypeOK'
  BY <1>11, Constructors DEF DelListMissing, Return
<1>12. ASSUME NEW w \in Workers, DelListWrite(w) PROVE TypeOK'
  <2>1. seen[w] \in [Names -> Nat]
    BY <1>12 DEF DelListWrite, CallFacts, CallFact
  <2>2. torn' \subseteq Names
    BY <1>12 DEF DelListWrite, Overwritten
  <2>3. QED
    BY <1>12, <2>1, <2>2, Constructors DEF DelListWrite, Return
<1>13. ASSUME NEW w \in Workers, NEW g \in Gateways, SetDefaultStart(w, g) PROVE TypeOK'
  <2>1. [Blank EXCEPT !.gtw = g] \in Routes
    BY DEF Blank, Routes
  <2>2. QED
    BY <1>13, <2>1 DEF SetDefaultStart, Begin, DefaultPcs
<1>14. ASSUME NEW w \in Workers, SetDefaultKernel(w) PROVE TypeOK'
  <2>1. kernel' \in [Prefixes -> Gateways \cup {None}]
    BY <1>14, ConstantsAssumption DEF SetDefaultKernel, RtmAdd, RtmAddFails, Routes
  <2>2. QED
    BY <1>14, <2>1, Constructors DEF SetDefaultKernel, Return
<1>15. ASSUME NEW w \in Workers, DelDefaultKernel(w) PROVE TypeOK'
  <2>1. kernel' \in [Prefixes -> Gateways \cup {None}]
    BY <1>15 DEF DelDefaultKernel, RtmDelete, RtmDeleteFails
  <2>2. pc' \in [Workers -> {"idle"} \cup AddPcs \cup DelPcs \cup DefaultPcs]
    BY <1>15 DEF DelDefaultKernel, Begin, DefaultPcs
  <2>3. call' \in [Workers -> [name : Names \cup {None}, route : Routes]]
    BY <1>15, BlankType DEF DelDefaultKernel, Begin
  <2>4. QED
    BY <1>15, <2>1, <2>2, <2>3 DEF DelDefaultKernel
<1>16. ASSUME NEW w \in Workers, DelDefaultErase(w) PROVE TypeOK'
  BY <1>16, Constructors DEF DelDefaultErase, Return
<1>17. ASSUME NEW w \in Workers, RoutesGet(w) PROVE TypeOK'
  <2> DEFINE asked == {n \in Names : Listed(list)[n] > 0 /\ stored[n].dest # None}
             lens == {stored[n].dest.len : n \in asked} \ {Bits}
             masks == IF lens = {} THEN {so[w].netmask} ELSE lens
  <2>1. \A n \in asked : stored[n].dest \in Dests
    BY Destinations DEF Routes
  <2>2. masks \subseteq 0 .. Bits
    <3>1. lens \subseteq 0 .. Bits
      BY <2>1 DEF Dests
    <3>2. so[w].netmask \in 0 .. Bits
      OBVIOUS
    <3>3. QED
      BY <3>1, <3>2
  <2>3. PICK last \in asked, m \in masks :
          so' = [so EXCEPT ![w] = Filled([@ EXCEPT !.netmask = m], stored[last].dest)]
    BY <1>17 DEF RoutesGet
  <2>4. Filled([so[w] EXCEPT !.netmask = m], stored[last].dest)
          \in [dst : Addresses, netmask : 0 .. Bits]
    BY <2>1, <2>2, Constructors
  <2>5. QED
    BY <1>17, <2>3, <2>4 DEF RoutesGet
<1>18. ASSUME NEW w \in Workers, NEW n \in Names, RouteGet(w, n) PROVE TypeOK'
  <2>1. stored[n].dest \in Dests
    BY <1>18, Destinations DEF RouteGet, Routes
  <2>2. QED
    BY <1>18, <2>1, Constructors DEF RouteGet
<1>19. ASSUME NEW w \in Workers, Recycle(w) PROVE TypeOK'
  BY <1>19, Constructors DEF Recycle
<1>20. ASSUME NEW w \in Workers, Die(w) PROVE TypeOK'
  BY <1>20, Constructors, ConstantsAssumption DEF Die, Return
<1>21. CASE UNCHANGED vars
  BY <1>21 DEF vars
<1>22. QED
  BY <1>1, <1>2, <1>3, <1>4, <1>5, <1>6, <1>7, <1>8, <1>9, <1>10, <1>11, <1>12, <1>13,
     <1>14, <1>15, <1>16, <1>17, <1>18, <1>19, <1>20, <1>21 DEF Next


-----------------------------------------------------------------------------
(* Calls                                                                   *)

LEMMA CallsIdle == Init => Exclusive /\ CallFacts
BY DEF Init, Exclusive, Active, CallFacts, CallFact, AddPcs, DelPcs, DefaultPcs

(* Who is active changes with the end, a step and the start of a call. *)
LEMMA ExclusiveReturn ==
  ASSUME TypeOK, Exclusive, NEW w \in Workers, Return(w)
  PROVE  Exclusive'
BY DEF TypeOK, Exclusive, Active, Return

LEMMA ExclusiveGoto ==
  ASSUME TypeOK, Exclusive, NEW w \in Workers, pc[w] # "idle", NEW step, Goto(w, step)
  PROVE  Exclusive'
BY DEF TypeOK, Exclusive, Active, Goto

LEMMA ExclusiveBegin ==
  ASSUME TypeOK, Exclusive, NEW w \in Workers, NEW n, NEW r, NEW step,
         MayCall(w, n), Begin(w, step, n, r)
  PROVE  Exclusive'
BY DEF TypeOK, Exclusive, Active, MayCall, Begin

LEMMA NextExclusive == TypeOK /\ Exclusive /\ [Next]_vars => Exclusive'
<1> SUFFICES ASSUME TypeOK, Exclusive, [Next]_vars PROVE Exclusive'
  OBVIOUS
<1>1. ASSUME NEW w \in Workers,
             \/ AddStoreFails(w) \/ AddKernel(w) \/ DelListMissing(w) \/ DelListWrite(w)
             \/ SetDefaultKernel(w) \/ DelDefaultErase(w) \/ Die(w)
      PROVE  Exclusive'
  <2>1. (AddStoreFails(w) => Return(w)) /\ (AddKernel(w) => Return(w))
    BY DEF AddStoreFails, AddKernel
  <2>2. (DelListMissing(w) => Return(w)) /\ (DelListWrite(w) => Return(w))
    BY DEF DelListMissing, DelListWrite
  <2>3. (SetDefaultKernel(w) => Return(w)) /\ (DelDefaultErase(w) => Return(w))
    BY DEF SetDefaultKernel, DelDefaultErase
  <2>4. Die(w) => Return(w)
    BY DEF Die
  <2>5. QED
    BY <1>1, <2>1, <2>2, <2>3, <2>4, ExclusiveReturn
<1>2. ASSUME NEW w \in Workers, AddStore(w) \/ DelErase(w) PROVE Exclusive'
  BY <1>2, ExclusiveGoto DEF AddStore, DelErase
<1>3. ASSUME NEW w \in Workers, AddListRead(w) \/ DelListRead(w) PROVE Exclusive'
  BY <1>3, ExclusiveGoto DEF AddListRead, DelListRead
<1>4. ASSUME NEW w \in Workers, AddListWrite(w) \/ DelKernel(w) PROVE Exclusive'
  BY <1>4, ExclusiveGoto, ExclusiveReturn DEF AddListWrite, DelKernel
<1>5. ASSUME NEW w \in Workers, NEW n \in Names, NEW d \in Targets, NEW g \in Gateways,
             NEW s \in {0, 1}, AddStart(w, n, d, g, s)
      PROVE  Exclusive'
  BY <1>5, ExclusiveBegin DEF AddStart
<1>6. ASSUME NEW w \in Workers, NEW n \in Names, DelStart(w, n) PROVE Exclusive'
  BY <1>6, ExclusiveBegin DEF DelStart
<1>7. ASSUME NEW w \in Workers, NEW g \in Gateways, SetDefaultStart(w, g) PROVE Exclusive'
  BY <1>7, ExclusiveBegin DEF SetDefaultStart, MaySetDefault
<1>8. ASSUME NEW w \in Workers, DelDefaultKernel(w) PROVE Exclusive'
  <2>1. CASE Begin(w, "derase", None, Blank)
    BY <1>8, <2>1, ExclusiveBegin DEF DelDefaultKernel, MaySetDefault
  <2>2. CASE UNCHANGED <<pc, call>>
    BY <2>2 DEF Exclusive, Active
  <2>3. QED
    BY <1>8, <2>1, <2>2 DEF DelDefaultKernel
<1>9. ASSUME NEW w \in Workers,
             RoutesGet(w) \/ Recycle(w) \/ \E n \in Names : RouteGet(w, n)
      PROVE  Exclusive'
  <2>1. UNCHANGED <<pc, call>>
    BY <1>9 DEF RoutesGet, Recycle, RouteGet
  <2>2. QED
    BY <2>1 DEF Exclusive, Active
<1>10. CASE UNCHANGED vars
  BY <1>10 DEF vars, Exclusive, Active
<1>11. QED
  BY <1>1, <1>2, <1>3, <1>4, <1>5, <1>6, <1>7, <1>8, <1>9, <1>10 DEF Next

(* A step of another call, which is about another name, takes nothing from *)
(* what a call relies on.                                                  *)
LEMMA OtherCall ==
  ASSUME CallInv, NEW w \in Workers, NEW v \in Workers, v # w,
         pc'[v] = pc[v], call'[v] = call[v], k'[v] = k[v], seen'[v] = seen[v],
         \/ UNCHANGED stored
         \/ /\ pc[w] # "idle"
            /\ \A n \in Names : n # call[w].name => stored'[n] = stored[n]
  PROVE  CallFact(v)'
<1>1. CallFact(v)
  BY DEF CallInv, CallFacts
<1>2. pc[v] \in AddPcs \cup DelPcs => stored'[call[v].name] = stored[call[v].name]
  BY <1>1 DEF CallInv, Exclusive, Active, CallFact, AddPcs, DelPcs
<1>3. QED
  BY <1>1, <1>2 DEF CallFact, AddPcs, DelPcs

(* So does a step that leaves the process idle, with its counter reset. *)
LEMMA IdleCall ==
  ASSUME TypeOK, NEW w \in Workers, Return(w), k'[w] = 1
  PROVE  CallFact(w)'
BY DEF TypeOK, Return, CallFact, AddPcs, DelPcs, DefaultPcs

LEMMA NextCallFacts == CallInv /\ [Next]_vars => CallFacts'
<1> SUFFICES ASSUME CallInv, [Next]_vars PROVE CallFacts'
  OBVIOUS
<1> USE DEF AddPcs, DelPcs, DefaultPcs
<1>a. TypeOK /\ Exclusive /\ CallFacts
  BY DEF CallInv
<1>1. ASSUME NEW w \in Workers, NEW n \in Names, NEW d \in Targets, NEW g \in Gateways,
             NEW s \in {0, 1}, AddStart(w, n, d, g, s)
      PROVE  CallFacts'
  <2>1. CallFact(w)'
    BY <1>a, <1>1, Destinations, ConstantsAssumption
    DEF AddStart, Begin, MayCall, TypeOK, CallFacts, CallFact, Complete
  <2>2. \A v \in Workers : v # w => CallFact(v)'
    BY <1>a, <1>1, OtherCall DEF AddStart, Begin, TypeOK, conf
  <2>3. QED
    BY <2>1, <2>2 DEF CallFacts
<1>2. ASSUME NEW w \in Workers, AddStore(w) PROVE CallFacts'
  <2>1. call[w].name \in Names /\ call[w].route \in Routes /\ Complete(call[w].route)
        /\ k[w] \in 1 .. 4 /\ stored[call[w].name] \in Routes
    BY <1>a, <1>2 DEF AddStore, TypeOK, CallFacts, CallFact
  <2> DEFINE new == stored'[call[w].name]
  <2>2. /\ new = [stored[call[w].name] EXCEPT ![Fields[k[w]]] = call[w].route[Fields[k[w]]]]
        /\ \A n \in Names : n # call[w].name => stored'[n] = stored[n]
    BY <1>a, <1>2, <2>1 DEF AddStore, TypeOK
  <2>b. /\ new \in Routes
        /\ new[Fields[k[w]]] = call[w].route[Fields[k[w]]]
        /\ \A i \in 1 .. 4 : i # k[w] => new[Fields[i]] = stored[call[w].name][Fields[i]]
    <3> DEFINE old == stored[call[w].name]
               q   == call[w].route
               i   == k[w]
               set == [old EXCEPT ![Fields[i]] = q[Fields[i]]]
    <3>1. old \in Routes /\ q \in Routes /\ i \in 1 .. 4
      BY <2>1
    <3>2. new = set
      BY <2>2
    <3> HIDE DEF old, q, i, new
    <3>3. /\ set \in Routes
          /\ set[Fields[i]] = q[Fields[i]]
          /\ \A j \in 1 .. 4 : j # i => set[Fields[j]] = old[Fields[j]]
      <4>1. CASE i = 1
        BY <3>1, <4>1 DEF Fields, Routes
      <4>2. CASE i = 2
        BY <3>1, <4>2 DEF Fields, Routes
      <4>3. CASE i = 3
        BY <3>1, <4>3 DEF Fields, Routes
      <4>4. CASE i = 4
        BY <3>1, <4>4 DEF Fields, Routes
      <4>5. QED
        BY <3>1, <4>1, <4>2, <4>3, <4>4
    <3> HIDE DEF set
    <3>4. QED
      BY <3>2, <3>3 DEF old, q, i
  <2>3. \A i \in 1 .. k[w] : new[Fields[i]] = call[w].route[Fields[i]]
    <3>1. \A i \in 1 .. k[w] - 1 :
            stored[call[w].name][Fields[i]] = call[w].route[Fields[i]]
      BY <1>a, <1>2 DEF AddStore, CallFacts, CallFact
    <3>2. new[Fields[k[w]]] = call[w].route[Fields[k[w]]]
      BY <2>b
    <3>3. \A i \in 1 .. 4 : i # k[w] => new[Fields[i]] = stored[call[w].name][Fields[i]]
      BY <2>b
    <3>4. QED
      BY <2>1, <3>1, <3>2, <3>3
  <2>4. new \in Routes
    BY <2>b
  <2>5. k[w] = 4 => new = call[w].route
    BY <2>1, <2>3, <2>4, SameFields
  <2>6. CallFact(w)'
    <3>1. CASE k[w] = 4
      BY <1>a, <1>2, <2>1, <2>5, <3>1 DEF AddStore, Goto, TypeOK, CallFact
    <3>2. CASE k[w] # 4
      BY <1>a, <1>2, <2>1, <2>3, <3>2 DEF AddStore, Goto, TypeOK, CallFact
    <3>3. QED
      BY <3>1, <3>2
  <2>7. \A v \in Workers : v # w => CallFact(v)'
    BY <1>a, <1>2, <2>2, OtherCall DEF AddStore, Goto, TypeOK
  <2>8. QED
    BY <2>6, <2>7 DEF CallFacts
<1>3. ASSUME NEW w \in Workers, AddStoreFails(w) PROVE CallFacts'
  <2>1. CallFact(w)'
    BY <1>a, <1>3, IdleCall DEF AddStoreFails
  <2>2. \A v \in Workers : v # w => CallFact(v)'
    BY <1>a, <1>3, OtherCall DEF AddStoreFails, Return, TypeOK, conf
  <2>3. QED
    BY <2>1, <2>2 DEF CallFacts
<1>4. ASSUME NEW w \in Workers, AddListRead(w) PROVE CallFacts'
  <2>1. CallFact(w)'
    BY <1>a, <1>4 DEF AddListRead, Goto, TypeOK, CallFacts, CallFact, conf
  <2>2. \A v \in Workers : v # w => CallFact(v)'
    BY <1>a, <1>4, OtherCall DEF AddListRead, Goto, TypeOK, conf
  <2>3. QED
    BY <2>1, <2>2 DEF CallFacts
<1>5. ASSUME NEW w \in Workers, AddListWrite(w) PROVE CallFacts'
  <2>1. CallFact(w)'
    BY <1>a, <1>5 DEF AddListWrite, Goto, Return, TypeOK, CallFacts, CallFact
  <2>2. \A v \in Workers : v # w => CallFact(v)'
    BY <1>a, <1>5, OtherCall DEF AddListWrite, Goto, Return, TypeOK
  <2>3. QED
    BY <2>1, <2>2 DEF CallFacts
<1>6. ASSUME NEW w \in Workers, AddKernel(w) PROVE CallFacts'
  <2>1. CallFact(w)'
    BY <1>a, <1>6, IdleCall DEF AddKernel, CallFacts, CallFact
  <2>2. \A v \in Workers : v # w => CallFact(v)'
    BY <1>a, <1>6, OtherCall DEF AddKernel, Return, TypeOK, conf
  <2>3. QED
    BY <2>1, <2>2 DEF CallFacts
<1>7. ASSUME NEW w \in Workers, NEW n \in Names, DelStart(w, n) PROVE CallFacts'
  <2>1. CallFact(w)'
    BY <1>a, <1>7 DEF DelStart, Begin, MayCall, TypeOK, CallFacts, CallFact, conf
  <2>2. \A v \in Workers : v # w => CallFact(v)'
    BY <1>a, <1>7, OtherCall DEF DelStart, Begin, TypeOK, conf
  <2>3. QED
    BY <2>1, <2>2 DEF CallFacts
<1>8. ASSUME NEW w \in Workers, DelKernel(w) PROVE CallFacts'
  <2>1. CallFact(w)'
    BY <1>a, <1>8 DEF DelKernel, Goto, Return, TypeOK, CallFacts, CallFact
  <2>2. \A v \in Workers : v # w => CallFact(v)'
    BY <1>a, <1>8, OtherCall DEF DelKernel, Goto, Return, TypeOK, conf
  <2>3. QED
    BY <2>1, <2>2 DEF CallFacts
<1>9. ASSUME NEW w \in Workers, DelErase(w) PROVE CallFacts'
  <2>1. CallFact(w)'
    BY <1>a, <1>9 DEF DelErase, Goto, TypeOK, CallFacts, CallFact
  <2>2. \A v \in Workers : v # w => CallFact(v)'
    BY <1>a, <1>9, OtherCall DEF DelErase, Goto, TypeOK
  <2>3. QED
    BY <2>1, <2>2 DEF CallFacts
<1>10. ASSUME NEW w \in Workers, DelListRead(w) PROVE CallFacts'
  <2>1. CallFact(w)'
    BY <1>a, <1>10 DEF DelListRead, Goto, TypeOK, CallFacts, CallFact
  <2>2. \A v \in Workers : v # w => CallFact(v)'
    BY <1>a, <1>10, OtherCall DEF DelListRead, Goto, TypeOK, conf
  <2>3. QED
    BY <2>1, <2>2 DEF CallFacts
<1>11. ASSUME NEW w \in Workers, DelListMissing(w) \/ DelListWrite(w) PROVE CallFacts'
  <2>1. CallFact(w)'
    BY <1>a, <1>11, IdleCall DEF DelListMissing, DelListWrite, CallFacts, CallFact
  <2>2. \A v \in Workers : v # w => CallFact(v)'
    BY <1>a, <1>11, OtherCall DEF DelListMissing, DelListWrite, Return, TypeOK, conf
  <2>3. QED
    BY <2>1, <2>2 DEF CallFacts
<1>12. ASSUME NEW w \in Workers, NEW g \in Gateways, SetDefaultStart(w, g) PROVE CallFacts'
  <2>1. CallFact(w)'
    BY <1>a, <1>12
    DEF SetDefaultStart, MaySetDefault, MayCall, Begin, TypeOK, CallFacts, CallFact
  <2>2. \A v \in Workers : v # w => CallFact(v)'
    BY <1>a, <1>12, OtherCall DEF SetDefaultStart, Begin, TypeOK
  <2>3. QED
    BY <2>1, <2>2 DEF CallFacts
<1>13. ASSUME NEW w \in Workers, SetDefaultKernel(w) \/ DelDefaultErase(w) PROVE CallFacts'
  <2>1. CallFact(w)'
    BY <1>a, <1>13, IdleCall DEF SetDefaultKernel, DelDefaultErase, CallFacts, CallFact
  <2>2. \A v \in Workers : v # w => CallFact(v)'
    BY <1>a, <1>13, OtherCall DEF SetDefaultKernel, DelDefaultErase, Return, TypeOK, conf
  <2>3. QED
    BY <2>1, <2>2 DEF CallFacts
<1>14. ASSUME NEW w \in Workers, DelDefaultKernel(w) PROVE CallFacts'
  <2>1. CallFact(w)'
    BY <1>a, <1>14
    DEF DelDefaultKernel, MaySetDefault, MayCall, Begin, TypeOK, CallFacts, CallFact, conf
  <2>2. \A v \in Workers : v # w => CallFact(v)'
    BY <1>a, <1>14, OtherCall DEF DelDefaultKernel, Begin, TypeOK, conf
  <2>3. QED
    BY <2>1, <2>2 DEF CallFacts
<1>15. ASSUME NEW w \in Workers, Die(w) PROVE CallFacts'
  <2>1. CallFact(w)'
    BY <1>a, <1>15, IdleCall DEF Die, TypeOK
  <2>2. \A v \in Workers : v # w => CallFact(v)'
    BY <1>a, <1>15, OtherCall DEF Die, Return, TypeOK, conf
  <2>3. QED
    BY <2>1, <2>2 DEF CallFacts
<1>16. ASSUME NEW w \in Workers,
              RoutesGet(w) \/ Recycle(w) \/ \E n \in Names : RouteGet(w, n)
       PROVE  CallFacts'
  <2>1. UNCHANGED <<stored, pc, call, k, seen>>
    BY <1>16 DEF RoutesGet, Recycle, RouteGet, conf
  <2>2. QED
    BY <1>a, <2>1 DEF CallFacts, CallFact
<1>17. CASE UNCHANGED vars
  BY <1>a, <1>17 DEF vars, CallFacts, CallFact
<1>18. QED
  BY <1>1, <1>2, <1>3, <1>4, <1>5, <1>6, <1>7, <1>8, <1>9, <1>10, <1>11, <1>12, <1>13,
     <1>14, <1>15, <1>16, <1>17 DEF Next

(* Every variable keeps its type, for any constants. *)
THEOREM TypeCorrect == Spec => []TypeOK
<1>1. Init => CallInv
  BY InitTypeOK, CallsIdle DEF CallInv
<1>2. CallInv /\ [Next]_vars => CallInv'
  BY NextTypeOK, NextExclusive, NextCallFacts DEF CallInv
<1>3. CallInv => TypeOK
  BY DEF CallInv
<1>4. QED
  BY <1>1, <1>2, <1>3, PTL DEF Spec

-----------------------------------------------------------------------------
(* The kernel and the configuration                                        *)

LEMMA InitRoutesInv == ~Reused /\ Init => RoutesInv
<1> SUFFICES ASSUME ~Reused, Init PROVE RoutesInv
  OBVIOUS
<1>1. CallInv
  BY InitTypeOK, CallsIdle DEF CallInv
<1>2. DefaultFacts
  BY DEF Init, DefaultFacts, DefaultPcs
<1>3. WorkingFacts /\ RoutesKnown /\ WorkingInKernel
  BY DefaultPrefix DEF Init, WorkingFacts, RoutesKnown, WorkingInKernel
<1>4. QED
  BY <1>1, <1>2, <1>3 DEF RoutesInv

(* A step that leaves the kernel alone, and every enabled route no call is *)
(* storing or erasing.                                                     *)
Keeps ==
  /\ UNCHANGED <<kernel, default, working>>
  /\ \A n \in Names : ~Unsettled(n) /\ stored[n].status = 1
                        => ~Unsettled(n)' /\ stored'[n] = stored[n]
  /\ \A v \in Workers : pc'[v] \in DefaultPcs => pc'[v] = pc[v] /\ so'[v] = so[v]

LEMMA KeepsInv ==
  ASSUME RoutesInv, Keeps
  PROVE  DefaultFacts' /\ WorkingFacts' /\ RoutesKnown' /\ WorkingInKernel'
<1>1. DefaultFacts'
  BY DEF RoutesInv, Keeps, DefaultFacts, DefaultPcs
<1>2. \A n \in working : n \in Names /\ stored'[n] = stored[n] /\ ~Unsettled(n)'
  BY DEF RoutesInv, CallInv, TypeOK, WorkingFacts, Keeps
<1>3. WorkingFacts' /\ WorkingInKernel'
  BY <1>2 DEF RoutesInv, WorkingFacts, WorkingInKernel, Keeps
<1>4. RoutesKnown'
  <2>1. ASSUME NEW p \in Prefixes \ {DefaultKey}, kernel'[p] # None
        PROVE  \E n \in Names : ~Unsettled(n)' /\ Enables(n, p, kernel[p])'
    <3>1. PICK n \in Names : ~Unsettled(n) /\ Enables(n, p, kernel[p])
      BY <2>1 DEF RoutesInv, RoutesKnown, Keeps
    <3>2. ~Unsettled(n)' /\ stored'[n] = stored[n] /\ kernel'[p] = kernel[p]
      BY <3>1 DEF Keeps, Enables
    <3>3. Enables(n, p, kernel[p])'
      BY <3>1, <3>2 DEF Enables
    <3>4. QED
      BY <3>2, <3>3
  <2>2. kernel'[DefaultKey] # None => default' # None
    BY DEF RoutesInv, RoutesKnown, Keeps
  <2>3. QED
    BY <2>1, <2>2 DEF RoutesKnown
<1>5. QED
  BY <1>1, <1>3, <1>4

(* The steps that do so.                                                   *)
LEMMA KeepingSteps ==
  ASSUME RoutesInv, NEW w \in Workers,
         \/ \E n \in Names, d \in Targets, g \in Gateways, s \in {0, 1} : AddStart(w, n, d, g, s)
         \/ AddStore(w) \/ AddStoreFails(w) \/ AddListRead(w) \/ AddListWrite(w)
         \/ \E n \in Names : DelStart(w, n) \/ RouteGet(w, n)
         \/ DelErase(w) \/ DelListRead(w) \/ DelListMissing(w) \/ DelListWrite(w)
         \/ RoutesGet(w) \/ Recycle(w) \/ Die(w)
  PROVE  Keeps
<1> USE DEF conf, DefaultPcs
<1>a. TypeOK /\ Exclusive /\ CallFacts
  BY DEF RoutesInv, CallInv
<1>1. ASSUME NEW n \in Names, NEW d \in Targets, NEW g \in Gateways, NEW s \in {0, 1},
             AddStart(w, n, d, g, s)
      PROVE  Keeps
  BY <1>a, <1>1, ConstantsAssumption DEF AddStart, Begin, MayCall, Keeps, Unsettled, TypeOK
<1>2. CASE AddStore(w) \/ DelErase(w)
  <2>1. Unsettled(call[w].name)
    BY <1>2 DEF AddStore, DelErase, Unsettled
  <2>2. UNCHANGED <<kernel, default, working, so, call>>
    BY <1>2 DEF AddStore, DelErase, Goto
  <2>3. \A n \in Names : n # call[w].name => stored'[n] = stored[n]
    BY <1>a, <1>2 DEF AddStore, DelErase, TypeOK
  <2>4. \A v \in Workers : v # w => pc'[v] = pc[v]
    BY <1>a, <1>2 DEF AddStore, DelErase, Goto, TypeOK
  <2>5. pc[w] \in {"store", "erase"} /\ pc'[w] \in {"store", "addread", "erase", "delread"}
    BY <1>a, <1>2 DEF AddStore, DelErase, Goto, TypeOK
  <2>6. \A n \in Names : ~Unsettled(n) => n # call[w].name /\ ~Unsettled(n)'
    BY <2>1, <2>2, <2>4, <2>5 DEF Unsettled
  <2>7. QED
    BY <2>2, <2>3, <2>4, <2>5, <2>6 DEF Keeps
<1>3. CASE AddStoreFails(w) \/ Die(w)
  BY <1>a, <1>3 DEF AddStoreFails, Die, Return, Keeps, Unsettled, TypeOK
<1>4. CASE AddListRead(w) \/ AddListWrite(w)
  BY <1>a, <1>4 DEF AddListRead, AddListWrite, Goto, Return, Keeps, Unsettled, TypeOK
<1>5. ASSUME NEW n \in Names, DelStart(w, n) PROVE Keeps
  BY <1>a, <1>5 DEF DelStart, Begin, Keeps, Unsettled, TypeOK
<1>6. CASE DelListRead(w) \/ DelListMissing(w) \/ DelListWrite(w)
  BY <1>a, <1>6
  DEF DelListRead, DelListMissing, DelListWrite, Goto, Return, Keeps, Unsettled, TypeOK
<1>7. CASE RoutesGet(w) \/ Recycle(w) \/ \E n \in Names : RouteGet(w, n)
  <2>1. UNCHANGED <<stored, default, kernel, pc, call, working>>
    BY <1>7 DEF RoutesGet, Recycle, RouteGet
  <2>2. pc[w] = "idle" /\ \A v \in Workers : v # w => so'[v] = so[v]
    BY <1>a, <1>7 DEF RoutesGet, Recycle, RouteGet, MayCall, TypeOK
  <2>3. QED
    BY <2>1, <2>2 DEF Keeps, Unsettled
<1>8. QED
  BY <1>1, <1>2, <1>3, <1>4, <1>5, <1>6, <1>7

LEMMA AddKernelInv ==
  ASSUME RoutesInv, NEW w \in Workers, AddKernel(w)
  PROVE  Keeps \/ (DefaultFacts' /\ WorkingFacts' /\ RoutesKnown' /\ WorkingInKernel')
<1> DEFINE name == call[w].name
           d    == call[w].route.dest
<1>a. TypeOK /\ Exclusive /\ CallFacts
  BY DEF RoutesInv, CallInv
<1>1. /\ name \in Names /\ d \in Targets
      /\ stored[name] = call[w].route /\ stored[name].status = 1
      /\ stored[name].gtw # None
  BY <1>a, CallDest DEF AddKernel, AddPcs, CallFacts, CallFact, Complete
<1>2. d # None /\ Key(d) \in Prefixes /\ Key(d) # DefaultKey
  BY <1>1, Destinations
<1>3. UNCHANGED <<stored, default>> /\ pc' = [pc EXCEPT ![w] = "idle"]
      /\ \A v \in Workers : v # w => pc'[v] = pc[v] /\ call'[v] = call[v] /\ so'[v] = so[v]
  BY <1>a DEF AddKernel, Return, TypeOK, conf
<1>4. \A n \in Names : ~Unsettled(n) => ~Unsettled(n)'
  BY <1>a, <1>3 DEF Unsettled, TypeOK
<1>5. ~Unsettled(name)
  BY <1>a DEF AddKernel, Unsettled, Exclusive, Active
<1>6. CASE RtmAddFails(Key(d)) /\ UNCHANGED working
  BY <1>a, <1>3, <1>4, <1>6 DEF Keeps, RtmAddFails, DefaultPcs, TypeOK
<1>7. CASE RtmAdd(Key(d), call[w].route.gtw) /\ working' = working \cup {name}
  <2>1. /\ kernel[Key(d)] = None
        /\ kernel'[Key(d)] = call[w].route.gtw
        /\ \A p \in Prefixes : p # Key(d) => kernel'[p] = kernel[p]
    BY <1>a, <1>2, <1>7 DEF RtmAdd, TypeOK
  <2>2. DefaultFacts'
    BY <1>a, <1>2, <1>3, <2>1, DefaultPrefix
    DEF RoutesInv, DefaultFacts, DefaultPcs, TypeOK
  <2>3. WorkingFacts'
    BY <1>a, <1>1, <1>3, <1>4, <1>5, <1>7 DEF RoutesInv, WorkingFacts, TypeOK
  <2>4. ASSUME NEW n \in working'
        PROVE  stored'[n].dest # None /\ kernel'[Key(stored'[n].dest)] = stored'[n].gtw
    <3>1. CASE n = name
      BY <1>1, <1>2, <1>3, <2>1, <3>1
    <3>2. CASE n # name
      <4>1. n \in working /\ n \in Names
        BY <1>a, <1>7, <2>4, <3>2 DEF TypeOK
      <4>2. stored[n].dest # None /\ kernel[Key(stored[n].dest)] = stored[n].gtw
        BY <4>1 DEF RoutesInv, WorkingInKernel
      <4>3. stored[n].dest \in Targets /\ Key(stored[n].dest) \in Prefixes
        BY <1>a, <4>1, <4>2, Destinations DEF TypeOK, Routes
      <4>4. CASE Key(stored[n].dest) # Key(d)
        BY <1>3, <2>1, <4>2, <4>3, <4>4
      <4>5. CASE Key(stored[n].dest) = Key(d)
        BY <2>1, <4>1, <4>2, <4>5 DEF RoutesInv, WorkingFacts
      <4>6. QED
        BY <4>4, <4>5
    <3>3. QED
      BY <3>1, <3>2
  <2>5. WorkingInKernel'
    BY <2>4 DEF WorkingInKernel
  <2>6. RoutesKnown'
    <3>1. ASSUME NEW p \in Prefixes \ {DefaultKey}, kernel'[p] # None
          PROVE  \E n \in Names : ~Unsettled(n)' /\ Enables(n, p, kernel[p])'
      <4>1. CASE p = Key(d)
        <5>1. PICK n \in Names : n = name
          BY <1>1
        <5>2. ~Unsettled(n)'
          BY <1>4, <1>5, <5>1
        <5>3. Enables(n, p, kernel[p])'
          BY <1>1, <1>2, <1>3, <2>1, <4>1, <5>1 DEF Enables
        <5>4. QED
          BY <5>2, <5>3
      <4>2. CASE p # Key(d)
        <5>1. kernel'[p] = kernel[p]
          BY <2>1, <4>2
        <5>2. PICK n \in Names : ~Unsettled(n) /\ Enables(n, p, kernel[p])
          BY <3>1, <5>1 DEF RoutesInv, RoutesKnown
        <5>3. ~Unsettled(n)' /\ Enables(n, p, kernel[p])'
          BY <1>3, <1>4, <5>1, <5>2 DEF Enables
        <5>4. QED
          BY <5>3
      <4>3. QED
        BY <4>1, <4>2
    <3>2. kernel'[DefaultKey] # None => default' # None
      BY <1>2, <1>3, <2>1, DefaultPrefix DEF RoutesInv, RoutesKnown
    <3>3. QED
      BY <3>1, <3>2 DEF RoutesKnown
  <2>7. QED
    BY <2>2, <2>3, <2>5, <2>6
<1>8. QED
  BY <1>6, <1>7 DEF AddKernel


LEMMA DelKernelInv ==
  ASSUME RoutesInv, NEW w \in Workers, DelKernel(w)
  PROVE  Keeps \/ (DefaultFacts' /\ WorkingFacts' /\ RoutesKnown' /\ WorkingInKernel')
<1> DEFINE name == call[w].name
           d    == call[w].route.dest
<1>a. TypeOK /\ Exclusive /\ CallFacts
  BY DEF RoutesInv, CallInv
<1>1. name \in Names /\ d \in Targets /\ stored[name].dest = d
  BY <1>a, CallDest DEF DelKernel, DelPcs, CallFacts, CallFact
<1>2. Key(d) \in Prefixes /\ Key(d) # DefaultKey
  BY <1>1, Destinations
<1>3. UNCHANGED <<stored, default>> /\ pc'[w] \in {"idle", "erase"}
      /\ \A v \in Workers : v # w => pc'[v] = pc[v] /\ call'[v] = call[v] /\ so'[v] = so[v]
  BY <1>a DEF DelKernel, Return, Goto, TypeOK, conf
<1>4. pc'[w] = "erase" => call'[w] = call[w]
  BY <1>a DEF DelKernel, Return, Goto, TypeOK
<1>5. \A n \in Names : ~Unsettled(n) => ~Unsettled(n)' \/ (n = name /\ pc'[w] = "erase")
  BY <1>3, <1>4 DEF Unsettled
<1>6. CASE RtmDeleteFails /\ UNCHANGED working /\ Return(w)
  <2>1. pc'[w] = "idle" /\ UNCHANGED kernel
    BY <1>a, <1>6 DEF Return, TypeOK, RtmDeleteFails
  <2>2. QED
    BY <1>3, <1>5, <1>6, <2>1 DEF Keeps, DefaultPcs
<1>7. CASE RtmDelete(Key(d)) /\ Lose(Key(d)) /\ Goto(w, "erase")
  <2>1. /\ kernel'[Key(d)] = None
        /\ \A p \in Prefixes : p # Key(d) => kernel'[p] = kernel[p]
    BY <1>a, <1>2, <1>7 DEF RtmDelete, TypeOK
  <2>2. DefaultFacts'
    BY <1>2, <1>3, <2>1, DefaultPrefix DEF RoutesInv, DefaultFacts, DefaultPcs
  <2>3. ASSUME NEW n \in working'
        PROVE  /\ n \in working /\ n \in Names /\ n # name /\ ~Unsettled(n)'
               /\ stored[n].dest # None /\ kernel'[Key(stored[n].dest)] = stored[n].gtw
    <3>1. n \in working /\ n \in Names /\ Key(stored[n].dest) # Key(d)
      BY <1>a, <1>7, <2>3 DEF Lose, TypeOK
    <3>2. n # name
      BY <1>1, <3>1
    <3>3. ~Unsettled(n)'
      BY <1>5, <3>1, <3>2 DEF RoutesInv, WorkingFacts
    <3>4. stored[n].dest # None /\ kernel[Key(stored[n].dest)] = stored[n].gtw
      BY <3>1 DEF RoutesInv, WorkingInKernel
    <3>5. stored[n].dest \in Targets
      BY <1>a, <3>1, <3>4 DEF TypeOK, Routes
    <3>6. Key(stored[n].dest) \in Prefixes
      BY <3>5, Destinations
    <3>7. QED
      BY <2>1, <3>1, <3>2, <3>3, <3>4, <3>6
  <2>4. WorkingFacts' /\ WorkingInKernel'
    BY <1>3, <2>3 DEF RoutesInv, WorkingFacts, WorkingInKernel
  <2>5. RoutesKnown'
    <3>1. ASSUME NEW p \in Prefixes \ {DefaultKey}, kernel'[p] # None
          PROVE  \E n \in Names : ~Unsettled(n)' /\ Enables(n, p, kernel[p])'
      <4>1. p # Key(d) /\ kernel'[p] = kernel[p]
        BY <2>1, <3>1
      <4>2. PICK n \in Names : ~Unsettled(n) /\ Enables(n, p, kernel[p])
        BY <3>1, <4>1 DEF RoutesInv, RoutesKnown
      <4>3. n # name
        BY <1>1, <4>1, <4>2 DEF Enables
      <4>4. ~Unsettled(n)' /\ Enables(n, p, kernel[p])'
        BY <1>3, <1>5, <4>1, <4>2, <4>3 DEF Enables
      <4>5. QED
        BY <4>4
    <3>2. kernel'[DefaultKey] # None => default' # None
      BY <1>2, <1>3, <2>1, DefaultPrefix DEF RoutesInv, RoutesKnown
    <3>3. QED
      BY <3>1, <3>2 DEF RoutesKnown
  <2>6. QED
    BY <2>2, <2>4, <2>5
<1>8. QED
  BY <1>6, <1>7 DEF DelKernel

(* A step of a call about the default gateway changes at most the default  *)
(* route.                                                                  *)
LEMMA DefaultStep ==
  ASSUME RoutesInv, UNCHANGED <<stored, working>>,
         \A p \in Prefixes : p # DefaultKey => kernel'[p] = kernel[p],
         \A n \in Names : ~Unsettled(n) => ~Unsettled(n)',
         kernel'[DefaultKey] # None => default' # None
  PROVE  WorkingFacts' /\ RoutesKnown' /\ WorkingInKernel'
<1>a. TypeOK
  BY DEF RoutesInv, CallInv
<1>1. WorkingFacts'
  BY <1>a DEF RoutesInv, WorkingFacts, TypeOK
<1>2. WorkingInKernel'
  <2>1. ASSUME NEW n \in working
        PROVE  stored[n].dest # None /\ kernel'[Key(stored[n].dest)] = stored[n].gtw
    <3>1. stored[n].dest # None /\ kernel[Key(stored[n].dest)] = stored[n].gtw
      BY DEF RoutesInv, WorkingInKernel
    <3>2. stored[n].dest \in Targets
      BY <1>a, <3>1 DEF TypeOK, Routes
    <3>3. Key(stored[n].dest) \in Prefixes \ {DefaultKey}
      BY <3>2, Destinations
    <3>4. QED
      BY <3>1, <3>3
  <2>2. QED
    BY <2>1 DEF WorkingInKernel
<1>3. RoutesKnown'
  <2>1. ASSUME NEW p \in Prefixes \ {DefaultKey}, kernel'[p] # None
        PROVE  \E n \in Names : ~Unsettled(n)' /\ Enables(n, p, kernel[p])'
    <3>1. PICK n \in Names : ~Unsettled(n) /\ Enables(n, p, kernel[p])
      BY <2>1 DEF RoutesInv, RoutesKnown
    <3>2. ~Unsettled(n)' /\ Enables(n, p, kernel[p])'
      BY <2>1, <3>1 DEF Enables
    <3>3. QED
      BY <3>2
  <2>2. QED
    BY <2>1 DEF RoutesKnown
<1>4. QED
  BY <1>1, <1>2, <1>3

LEMMA DefaultInv ==
  ASSUME RoutesInv, NEW w \in Workers,
         \/ \E g \in Gateways : SetDefaultStart(w, g)
         \/ SetDefaultKernel(w) \/ DelDefaultKernel(w) \/ DelDefaultErase(w)
  PROVE  DefaultFacts' /\ WorkingFacts' /\ RoutesKnown' /\ WorkingInKernel'
<1> USE DEF DefaultPcs
<1>a. TypeOK /\ Exclusive /\ CallFacts /\ ~Reused /\ DefaultFacts
  BY DEF RoutesInv, CallInv
<1>b. default \in Gateways \cup {None} /\ None \notin Gateways
  BY <1>a, ConstantsAssumption DEF TypeOK
(* No other call about the default gateway is under way. *)
<1>c. \A v \in Workers : v # w => pc[v] \notin DefaultPcs
  <2>1. MayCall(w, None) \/ (pc[w] # "idle" /\ call[w].name = None)
    BY <1>a DEF SetDefaultStart, MaySetDefault, SetDefaultKernel, DelDefaultKernel,
                DelDefaultErase, CallFacts, CallFact
  <2>2. \A v \in Workers : v # w /\ pc[v] # "idle" => call[v].name # None
    BY <1>a, <2>1 DEF MayCall, Exclusive, Active
  <2>3. QED
    BY <1>a, <2>2 DEF CallFacts, CallFact
<1>d. /\ UNCHANGED <<stored, working, so>>
      /\ \A v \in Workers : v # w => pc'[v] = pc[v] /\ call'[v] = call[v]
  BY <1>a DEF SetDefaultStart, SetDefaultKernel, DelDefaultKernel, DelDefaultErase,
              Begin, Return, TypeOK, conf
<1>e. pc'[w] \in {"idle", "dkernel", "derase"}
  BY <1>a DEF SetDefaultStart, SetDefaultKernel, DelDefaultKernel, DelDefaultErase,
              MaySetDefault, MayCall, Begin, Return, TypeOK
<1>f. \A n \in Names : ~Unsettled(n) => ~Unsettled(n)'
  BY <1>d, <1>e DEF Unsettled
<1>1. ASSUME NEW g \in Gateways, SetDefaultStart(w, g)
      PROVE  DefaultFacts' /\ WorkingFacts' /\ RoutesKnown' /\ WorkingInKernel'
  <2>1. default' = g /\ g # None /\ UNCHANGED kernel /\ so[w] = Fresh /\ pc'[w] = "dkernel"
    BY <1>a, <1>b, <1>1 DEF SetDefaultStart, MaySetDefault, Begin, TypeOK
  <2>2. DefaultFacts'
    BY <1>c, <1>d, <2>1 DEF DefaultFacts
  <2>3. QED
    BY <1>d, <1>f, <2>1, <2>2, DefaultStep
<1>2. CASE SetDefaultKernel(w)
  <2>1. Effective(w) = DefaultKey /\ default # None
    BY <1>a, <1>2, DefaultPrefix DEF SetDefaultKernel, DefaultFacts
  <2>2. /\ \A p \in Prefixes : p # DefaultKey => kernel'[p] = kernel[p]
        /\ UNCHANGED default /\ pc'[w] = "idle"
    BY <1>a, <1>2, <2>1 DEF SetDefaultKernel, RtmAdd, RtmAddFails, Return, TypeOK, conf
  <2>3. DefaultFacts'
    BY <1>c, <1>d, <2>2 DEF DefaultFacts
  <2>4. QED
    BY <1>d, <1>f, <2>1, <2>2, <2>3, DefaultStep
<1>3. CASE DelDefaultKernel(w)
  <2>1. Effective(w) = DefaultKey /\ so[w] = Fresh /\ pc[w] = "idle"
    BY <1>a, <1>3, DefaultPrefix DEF DelDefaultKernel, MaySetDefault, MayCall
  <2>2. CASE RtmDeleteFails /\ UNCHANGED <<pc, call>>
    <3>1. UNCHANGED <<kernel, default>> /\ pc'[w] = "idle"
      BY <1>3, <2>1, <2>2 DEF DelDefaultKernel, RtmDeleteFails, conf
    <3>2. DefaultFacts'
      BY <1>c, <1>d, <3>1 DEF DefaultFacts
    <3>3. QED
      BY <1>d, <1>f, <3>1, <3>2, DefaultStep DEF RoutesInv, RoutesKnown
  <2>3. CASE RtmDelete(DefaultKey) /\ Begin(w, "derase", None, Blank)
    <3>1. /\ kernel'[DefaultKey] = None /\ pc'[w] = "derase" /\ UNCHANGED default
          /\ \A p \in Prefixes : p # DefaultKey => kernel'[p] = kernel[p]
      BY <1>a, <1>3, <2>3, DefaultPrefix DEF DelDefaultKernel, RtmDelete, Begin, TypeOK, conf
    <3>2. DefaultFacts'
      BY <1>c, <1>d, <2>1, <3>1 DEF DefaultFacts
    <3>3. QED
      BY <1>d, <1>f, <3>1, <3>2, DefaultStep
  <2>4. QED
    BY <1>3, <2>1, <2>2, <2>3 DEF DelDefaultKernel
<1>4. CASE DelDefaultErase(w)
  <2>1. UNCHANGED kernel /\ kernel[DefaultKey] = None /\ pc'[w] = "idle"
    BY <1>a, <1>4 DEF DelDefaultErase, DefaultFacts, Return, TypeOK
  <2>2. DefaultFacts'
    BY <1>c, <1>d, <2>1 DEF DefaultFacts
  <2>3. QED
    BY <1>d, <1>f, <2>1, <2>2, DefaultStep
<1>5. QED
  BY <1>1, <1>2, <1>3, <1>4

LEMMA NextRoutesInv == RoutesInv /\ [Next]_vars => RoutesInv'
<1> SUFFICES ASSUME RoutesInv, [Next]_vars PROVE RoutesInv'
  OBVIOUS
<1>1. CallInv'
  BY NextTypeOK, NextExclusive, NextCallFacts DEF RoutesInv, CallInv
<1>2. Keeps \/ (DefaultFacts' /\ WorkingFacts' /\ RoutesKnown' /\ WorkingInKernel')
  <2>1. CASE UNCHANGED vars
    BY <2>1 DEF vars, Keeps, Unsettled
  <2>2. QED
    BY <2>1, KeepingSteps, AddKernelInv, DelKernelInv, DefaultInv DEF Next
<1>3. QED
  BY <1>1, <1>2, KeepsInv DEF RoutesInv

(* Whatever dies or is refused, the kernel has no route the configuration  *)
(* does not know, where the default gateway is set by fresh processes.     *)
THEOREM RoutesKnownTheorem == ~Reused /\ Spec => []RoutesKnown
<1>1. RoutesInv => RoutesKnown
  BY DEF RoutesInv
<1>2. QED
  BY <1>1, InitRoutesInv, NextRoutesInv, PTL DEF Spec

(* A route that was added stays in the kernel until a route to the same    *)
(* destination is deleted, where the default gateway is set by fresh       *)
(* processes.                                                              *)
THEOREM WorkingInKernelTheorem == ~Reused /\ Spec => []WorkingInKernel
<1>1. RoutesInv => WorkingInKernel
  BY DEF RoutesInv
<1>2. QED
  BY <1>1, InitRoutesInv, NextRoutesInv, PTL DEF Spec

-----------------------------------------------------------------------------
(* The list of routes                                                      *)

(* What ListExact says of one name. *)
Exact(n) ==
  /\ stored[n] = Blank \/ (Complete(stored[n]) /\ stored[n].status # None)
  /\ Listed(list)[n] = IF stored[n] = Blank THEN 0 ELSE 1

(* No call is changing what is stored of the name, or its entry. *)
Settled(n) == \A w \in Workers : call[w].name = n => pc[w] \in {"idle", "unroute"}

(* How far a call that has begun to change its name has come. *)
Halfway(w) ==
  LET n == call[w].name IN
  /\ pc[w] = "store" => Listed(list)[n] = 0 /\ (k[w] = 1 => stored[n] = Blank)
  /\ pc[w] \in {"addread", "addwrite"} => Listed(list)[n] = 0
  /\ pc[w] = "kernel" => Listed(list)[n] = 1

EntryFact(n) ==
  /\ Settled(n) => Exact(n)
  /\ \A w \in Workers : call[w].name = n => Halfway(w)

(* A call that stores a route stores its status, and one that erases a     *)
(* route has erased every property before it comes to the list: these      *)
(* hold of torn names too, which is why deleting such a name repairs it.   *)
StatusFact(w) ==
  /\ pc[w] \in AddPcs => call[w].route.status # None
  /\ pc[w] = "erase" => \A i \in 1 .. k[w] - 1 : stored[call[w].name][Fields[i]] = None
  /\ pc[w] \in {"delread", "delwrite"} => stored[call[w].name] = Blank

ListInv ==
  /\ \A w \in Workers : StatusFact(w)
  /\ \A n \in Names \ torn : EntryFact(n)

LEMMA InitListInv == Init => ListInv
<1> SUFFICES ASSUME Init PROVE ListInv
  OBVIOUS
<1>1. ASSUME NEW n \in Names PROVE Listed(list)[n] = 0 /\ stored[n] = Blank
  BY DEF Init, Listed
<1>2. QED
  BY <1>1 DEF Init, ListInv, StatusFact, EntryFact, Exact, Halfway, AddPcs

(* A step of w about another name takes nothing from a name. *)
LEMMA OtherEntry ==
  ASSUME NEW w \in Workers, NEW n \in Names, EntryFact(n),
         \A v \in Workers \ {w} : pc'[v] = pc[v] /\ call'[v] = call[v] /\ k'[v] = k[v],
         pc[w] \in {"idle", "unroute"} \/ call[w].name # n,
         pc'[w] \in {"idle", "unroute"} \/ call'[w].name # n,
         stored'[n] = stored[n], Listed(list)'[n] = Listed(list)[n]
  PROVE  EntryFact(n)'
<1>1. Settled(n)' => Settled(n)
  BY DEF Settled
<1>2. Exact(n) => Exact(n)'
  BY DEF Exact
<1>3. ASSUME NEW v \in Workers, call'[v].name = n PROVE Halfway(v)'
  <2>1. CASE v = w
    BY <1>3, <2>1 DEF Halfway
  <2>2. CASE v # w
    BY <1>3, <2>2 DEF EntryFact, Halfway
  <2>3. QED
    BY <2>1, <2>2
<1>4. QED
  BY <1>1, <1>2, <1>3 DEF EntryFact

(* What remains to be shown of the name the call is about. *)
LEMMA OwnEntry ==
  ASSUME Exclusive', NEW w \in Workers, NEW n \in Names,
         call'[w].name = n, pc'[w] # "idle",
         pc'[w] = "unroute" => Exact(n)', Halfway(w)'
  PROVE  EntryFact(n)'
<1>1. \A v \in Workers \ {w} : call'[v].name = n => pc'[v] = "idle"
  BY DEF Exclusive, Active
<1>2. Settled(n)' => Exact(n)'
  BY DEF Settled
<1>3. QED
  BY <1>1, <1>2 DEF EntryFact, Halfway

LEMMA RestEntry ==
  ASSUME NEW n \in Names, \A v \in Workers : call'[v].name = n => pc'[v] = "idle", Exact(n)'
  PROVE  EntryFact(n)'
BY DEF EntryFact, Halfway

(* Nor does it take anything from what another call stored or erased. *)
LEMMA OtherStatus ==
  ASSUME CallInv, NEW w \in Workers, NEW v \in Workers, v # w, StatusFact(v),
         pc'[v] = pc[v], call'[v] = call[v], k'[v] = k[v],
         \/ UNCHANGED stored
         \/ /\ pc[w] # "idle"
            /\ \A n \in Names : n # call[w].name => stored'[n] = stored[n]
  PROVE  StatusFact(v)'
<1>1. pc[v] \in AddPcs \cup DelPcs => stored'[call[v].name] = stored[call[v].name]
  BY DEF CallInv, CallFacts, CallFact, Exclusive, Active, AddPcs, DelPcs
<1>2. QED
  BY <1>1 DEF StatusFact, AddPcs, DelPcs

LEMMA IdleStatus ==
  ASSUME TypeOK, NEW w \in Workers, Return(w)
  PROVE  StatusFact(w)' /\ pc'[w] = "idle" /\ call'[w] = NoCall
BY DEF TypeOK, Return, StatusFact, AddPcs

(* All but the process that takes a step stay where they are. *)
LEMMA OthersStay ==
  ASSUME TypeOK, NEW w \in Workers, NEW step, NEW n, NEW r,
         Goto(w, step) \/ Return(w) \/ Begin(w, step, n, r)
  PROVE  /\ \A v \in Workers \ {w} : pc'[v] = pc[v] /\ call'[v] = call[v]
         /\ Goto(w, step) => pc'[w] = step /\ call'[w] = call[w]
         /\ Return(w) => pc'[w] = "idle" /\ call'[w] = NoCall
         /\ Begin(w, step, n, r) => pc'[w] = step /\ call'[w] = [name |-> n, route |-> r]
BY DEF TypeOK, Goto, Return, Begin

(* Steps that change neither what is stored nor the list, of a process     *)
(* that is and stays about no name, or at the first step of route_del.     *)
Aside(w) ==
  /\ UNCHANGED <<stored, list, k, torn>>
  /\ \A v \in Workers \ {w} : pc'[v] = pc[v] /\ call'[v] = call[v]
  /\ pc[w] \in {"idle", "unroute"} \/ call[w].name \notin Names
  /\ pc'[w] = "idle" \/ call'[w].name \notin Names
  /\ pc'[w] \notin AddPcs \cup DelPcs

LEMMA AsideInv ==
  ASSUME CallInv, ListInv, NEW w \in Workers, Aside(w)
  PROVE  ListInv'
<1>1. \A v \in Workers : StatusFact(v)'
  <2>1. StatusFact(w)'
    BY DEF Aside, StatusFact, AddPcs, DelPcs
  <2>2. ASSUME NEW v \in Workers, v # w PROVE StatusFact(v)'
    BY <2>2, OtherStatus DEF Aside, ListInv
  <2>3. QED
    BY <2>1, <2>2
<1>2. ASSUME NEW n \in Names \ torn' PROVE EntryFact(n)'
  BY OtherEntry DEF Aside, ListInv, Listed
<1>3. QED
  BY <1>1, <1>2 DEF ListInv

(* Steps on a call's own name. *)
Own(w) ==
  /\ \A v \in Workers \ {w} : pc'[v] = pc[v] /\ call'[v] = call[v] /\ k'[v] = k[v]
  /\ call[w].name \in Names /\ pc[w] # "idle"
  /\ call'[w].name = call[w].name \/ pc'[w] = "idle"
  /\ \A n \in Names : n # call[w].name => stored'[n] = stored[n]

LEMMA OwnStep ==
  ASSUME CallInv, ListInv, NEW w \in Workers, Own(w), StatusFact(w)',
         \A n \in Names \ torn' : n = call[w].name => EntryFact(n)',
         \A n \in Names \ torn' : n # call[w].name =>
           n \notin torn /\ Listed(list)'[n] = Listed(list)[n]
  PROVE  ListInv'
<1>1. ASSUME NEW v \in Workers, v # w PROVE StatusFact(v)'
  BY <1>1, OtherStatus DEF Own, ListInv
<1>2. ASSUME NEW n \in Names \ torn', n # call[w].name PROVE EntryFact(n)'
  BY <1>2, OtherEntry DEF Own, ListInv
<1>3. QED
  BY <1>1, <1>2 DEF ListInv

LEMMA NextListInv == CallInv /\ ListInv /\ [Next]_vars => ListInv'
<1> SUFFICES ASSUME CallInv, ListInv, [Next]_vars PROVE ListInv'
  OBVIOUS
<1>a. TypeOK /\ Exclusive /\ CallFacts /\ TypeOK' /\ Exclusive' /\ CallFacts'
  BY NextTypeOK, NextExclusive, NextCallFacts DEF CallInv
<1>b. \A n \in Names : None # n
  BY ConstantsAssumption
<1>1. ASSUME NEW w \in Workers, NEW n \in Names, NEW d \in Targets, NEW g \in Gateways,
             NEW s \in {0, 1}, AddStart(w, n, d, g, s)
      PROVE  ListInv'
  <2>1. /\ pc[w] = "idle" /\ pc'[w] = "store" /\ call'[w].name = n
        /\ call'[w].route.status = s /\ s # None
        /\ \A v \in Workers \ {w} : pc'[v] = pc[v] /\ call'[v] = call[v]
    <3>1. pc[w] = "idle" /\ Begin(w, "store", n, [status |-> s, dest |-> d, gtw |-> g,
                                                  type |-> TypeOf(d)])
      BY <1>1 DEF AddStart, MayCall
    <3>2. s # None
      BY ConstantsAssumption
    <3>3. QED
      BY <1>a, <3>1, <3>2 DEF Begin, TypeOK
  <2>2. UNCHANGED <<stored, list, k, torn>> /\ k[w] = 1
    BY <1>a, <1>1, <2>1 DEF AddStart, conf, CallFacts, CallFact
  <2>3. StatusFact(w)'
    BY <2>1, <2>2 DEF StatusFact
  <2>4. ASSUME NEW v \in Workers, v # w PROVE StatusFact(v)'
    BY <2>1, <2>2, <2>4, OtherStatus DEF ListInv
  <2>5. ASSUME n \notin torn PROVE EntryFact(n)'
    <3>1. Settled(n)
      BY <1>1 DEF AddStart, MayCall, Settled
    <3>2. stored[n] = Blank /\ Listed(list)[n] = 0
      BY <1>1, <2>5, <3>1 DEF AddStart, ListInv, EntryFact, Exact
    <3>3. Halfway(w)'
      BY <2>1, <2>2, <3>2 DEF Halfway, Listed
    <3>4. QED
      BY <1>a, <2>1, <3>3, OwnEntry
  <2>6. ASSUME NEW m \in Names \ torn, m # n PROVE EntryFact(m)'
    BY <2>1, <2>2, <2>6, OtherEntry DEF ListInv, Listed
  <2>7. QED
    BY <2>2, <2>3, <2>4, <2>5, <2>6 DEF ListInv
<1>2. ASSUME NEW w \in Workers, AddStore(w) PROVE ListInv'
  <2>1. call[w].name \in Names /\ pc[w] = "store" /\ k[w] \in 1 .. 4
    BY <1>a, <1>2 DEF AddStore, CallFacts, CallFact, TypeOK, AddPcs
  <2>2. UNCHANGED <<list, torn>> /\ pc'[w] \in {"store", "addread"} /\ call'[w] = call[w]
        /\ \A v \in Workers \ {w} : pc'[v] = pc[v] /\ call'[v] = call[v]
    BY <1>a, <1>2, OthersStay DEF AddStore
  <2>3. Own(w) /\ k'[w] = (IF k[w] = 4 THEN 1 ELSE k[w] + 1)
        /\ (pc'[w] = "store" => k[w] # 4)
    BY <1>a, <1>2, <2>1, <2>2 DEF AddStore, Goto, TypeOK, Own
  <2>4. StatusFact(w)'
    BY <2>1, <2>2 DEF ListInv, StatusFact, AddPcs
  <2>5. ASSUME NEW n \in Names \ torn', n = call[w].name PROVE EntryFact(n)'
    <3>1. Listed(list)[n] = 0
      BY <2>1, <2>2, <2>5 DEF ListInv, EntryFact, Halfway
    <3>2. Halfway(w)'
      BY <2>1, <2>2, <2>3, <2>5, <3>1 DEF Halfway, Listed
    <3>3. QED
      BY <1>a, <2>2, <2>5, <3>2, OwnEntry
  <2>6. QED
    BY <2>2, <2>3, <2>4, <2>5, OwnStep DEF Listed
<1>3. ASSUME NEW w \in Workers, AddStoreFails(w) PROVE ListInv'
  <2>1. call[w].name \in Names /\ pc[w] = "store" /\ k[w] = 1
    BY <1>a, <1>3 DEF AddStoreFails, CallFacts, CallFact, AddPcs
  <2>2. Return(w) /\ UNCHANGED <<stored, list, torn, k>>
    BY <1>3 DEF AddStoreFails, conf
  <2>3. StatusFact(w)' /\ pc'[w] = "idle"
        /\ \A v \in Workers \ {w} : pc'[v] = pc[v] /\ call'[v] = call[v]
    BY <1>a, <2>2, IdleStatus, OthersStay
  <2>4. ASSUME NEW n \in Names \ torn', n = call[w].name PROVE EntryFact(n)'
    <3>1. Listed(list)[n] = 0 /\ stored[n] = Blank
      BY <2>1, <2>2, <2>4 DEF ListInv, EntryFact, Halfway
    <3>2. Exact(n)'
      BY <2>2, <3>1 DEF Exact, Listed
    <3>3. \A v \in Workers : call'[v].name = n => pc'[v] = "idle"
      BY <1>a, <2>1, <2>3, <2>4 DEF Exclusive, Active
    <3>4. QED
      BY <3>2, <3>3, RestEntry
  <2>5. QED
    BY <2>1, <2>2, <2>3, <2>4, OwnStep DEF Own, Listed
<1>4. ASSUME NEW w \in Workers, AddListRead(w) PROVE ListInv'
  <2>1. call[w].name \in Names /\ pc[w] = "addread"
    BY <1>a, <1>4 DEF AddListRead, CallFacts, CallFact, AddPcs
  <2>2. UNCHANGED <<stored, list, torn, k>> /\ pc'[w] = "addwrite" /\ call'[w] = call[w]
        /\ \A v \in Workers \ {w} : pc'[v] = pc[v] /\ call'[v] = call[v]
    BY <1>a, <1>4, OthersStay DEF AddListRead, conf
  <2>3. StatusFact(w)'
    BY <2>1, <2>2 DEF ListInv, StatusFact, AddPcs
  <2>4. ASSUME NEW n \in Names \ torn', n = call[w].name PROVE EntryFact(n)'
    <3>1. Halfway(w)'
      BY <2>1, <2>2, <2>4 DEF ListInv, EntryFact, Halfway, Listed
    <3>2. QED
      BY <1>a, <2>2, <2>4, <3>1, OwnEntry
  <2>5. QED
    BY <2>1, <2>2, <2>3, <2>4, OwnStep DEF Own, Listed
<1>5. ASSUME NEW w \in Workers, AddListWrite(w) PROVE ListInv'
  <2>1. call[w].name \in Names /\ pc[w] = "addwrite" /\ stored[call[w].name] = call[w].route
        /\ Complete(call[w].route) /\ call[w].route.status # None
    BY <1>a, <1>5 DEF AddListWrite, CallFacts, CallFact, AddPcs, ListInv, StatusFact
  <2>2. UNCHANGED <<stored, k>> /\ torn' = torn \cup Overwritten(w)
        /\ list' = [Listed(seen[w]) EXCEPT ![call[w].name] = @ + 1]
        /\ (Goto(w, "kernel") \/ Return(w))
    BY <1>5 DEF AddListWrite
  <2>3. /\ Listed(seen[w]) \in [Names -> Nat] /\ Listed(list)' = list'
    <3>1. seen[w] \in [Names -> Nat] \cup {None}
      BY <1>a DEF TypeOK
    <3>2. list' \in [Names -> Nat]
      BY <2>1, <2>2, <3>1, Constructors
    <3>3. list' # None
      BY <3>2, ConstantsAssumption
    <3>4. QED
      BY <3>1, <3>3, Constructors DEF Listed
  <2>4. ASSUME NEW n \in Names \ torn'
        PROVE  n \notin torn /\ Listed(list)'[n] = Listed(list)[n] + (IF n = call[w].name THEN 1 ELSE 0)
    <3>1. Listed(seen[w])[n] = Listed(list)[n]
      BY <2>2, <2>4 DEF Overwritten
    <3>2. QED
      BY <2>2, <2>3, <2>4, <3>1
  <2>5. \A v \in Workers \ {w} : pc'[v] = pc[v] /\ call'[v] = call[v]
    BY <1>a, <2>2, OthersStay
  <2>6. (pc'[w] = "kernel" /\ call'[w] = call[w]) \/ (pc'[w] = "idle" /\ call'[w] = NoCall)
    BY <1>a, <2>2, OthersStay
  <2>7. StatusFact(w)'
    BY <2>1, <2>6 DEF StatusFact, AddPcs
  <2>8. ASSUME NEW n \in Names \ torn', n = call[w].name PROVE EntryFact(n)'
    <3>1. Listed(list)'[n] = 1
      BY <2>1, <2>4, <2>8 DEF ListInv, EntryFact, Halfway
    <3>2. Exact(n)'
      <4>1. stored'[n] # Blank
        BY <2>1, <2>2, <2>8 DEF Blank, Complete
      <4>2. QED
        BY <2>1, <2>2, <2>8, <3>1, <4>1 DEF Exact
    <3>3. CASE pc'[w] = "kernel"
      BY <1>a, <2>6, <2>8, <3>1, <3>3, OwnEntry DEF Halfway
    <3>4. CASE pc'[w] = "idle"
      <4>1. \A v \in Workers : call'[v].name = n => pc'[v] = "idle"
        BY <1>a, <2>1, <2>5, <2>8, <3>4 DEF Exclusive, Active
      <4>2. QED
        BY <3>2, <4>1, RestEntry
    <3>5. QED
      BY <2>6, <3>3, <3>4
  <2>9. Own(w)
    BY <2>1, <2>2, <2>5, <2>6 DEF Own
  <2>10. QED
    BY <2>4, <2>7, <2>8, <2>9, OwnStep, Constructors, <1>a DEF TypeOK
<1>6. ASSUME NEW w \in Workers, AddKernel(w) PROVE ListInv'
  <2>1. /\ call[w].name \in Names /\ pc[w] = "kernel" /\ stored[call[w].name] = call[w].route
        /\ Complete(call[w].route) /\ call[w].route.status = 1 /\ 1 # None
    BY <1>a, <1>6, ConstantsAssumption DEF AddKernel, CallFacts, CallFact, AddPcs
  <2>2. Return(w) /\ UNCHANGED <<stored, list, torn, k>>
    BY <1>6 DEF AddKernel, conf
  <2>3. StatusFact(w)' /\ pc'[w] = "idle"
        /\ \A v \in Workers \ {w} : pc'[v] = pc[v] /\ call'[v] = call[v]
    BY <1>a, <2>2, IdleStatus, OthersStay
  <2>4. ASSUME NEW n \in Names \ torn', n = call[w].name PROVE EntryFact(n)'
    <3>1. Listed(list)[n] = 1
      BY <2>1, <2>2, <2>4 DEF ListInv, EntryFact, Halfway
    <3>2. stored[n] # Blank
      BY <2>1, <2>4 DEF Complete, Blank
    <3>3. Exact(n)'
      BY <2>1, <2>2, <2>4, <3>1, <3>2 DEF Exact, Listed
    <3>4. \A v \in Workers : call'[v].name = n => pc'[v] = "idle"
      BY <1>a, <2>1, <2>3, <2>4 DEF Exclusive, Active
    <3>5. QED
      BY <3>3, <3>4, RestEntry
  <2>5. QED
    BY <2>1, <2>2, <2>3, <2>4, OwnStep DEF Own, Listed
<1>7. ASSUME NEW w \in Workers, NEW n \in Names, DelStart(w, n) PROVE ListInv'
  <2>1. pc[w] = "idle" /\ Begin(w, "unroute", n, stored[n])
    BY <1>7 DEF DelStart, MayCall
  <2>2. /\ pc'[w] = "unroute" /\ call'[w].name = n
        /\ \A v \in Workers \ {w} : pc'[v] = pc[v] /\ call'[v] = call[v]
    BY <1>a, <2>1 DEF Begin, TypeOK
  <2>3. UNCHANGED <<stored, list, k, torn>>
    BY <1>7 DEF DelStart, conf
  <2>4. StatusFact(w)'
    BY <2>2 DEF StatusFact, AddPcs
  <2>5. ASSUME NEW v \in Workers, v # w PROVE StatusFact(v)'
    BY <2>2, <2>3, <2>5, OtherStatus DEF ListInv
  <2>6. ASSUME n \notin torn PROVE EntryFact(n)'
    <3>1. Settled(n)
      BY <1>7 DEF DelStart, MayCall, Settled
    <3>2. Exact(n)'
      BY <2>3, <2>6, <3>1 DEF ListInv, EntryFact, Exact, Listed
    <3>3. Halfway(w)'
      BY <2>2 DEF Halfway
    <3>4. QED
      BY <1>a, <2>2, <3>2, <3>3, OwnEntry
  <2>7. ASSUME NEW m \in Names \ torn, m # n PROVE EntryFact(m)'
    BY <2>1, <2>2, <2>3, <2>7, OtherEntry DEF ListInv, Listed
  <2>8. QED
    BY <2>3, <2>4, <2>5, <2>6, <2>7 DEF ListInv
<1>8. ASSUME NEW w \in Workers, DelKernel(w) PROVE ListInv'
  <2>1. call[w].name \in Names /\ pc[w] = "unroute" /\ k[w] = 1
    BY <1>a, <1>8 DEF DelKernel, CallFacts, CallFact, DelPcs
  <2>2. UNCHANGED <<stored, list, torn, k>> /\ (Goto(w, "erase") \/ Return(w))
    BY <1>8 DEF DelKernel, conf
  <2>3. /\ (pc'[w] = "erase" /\ call'[w] = call[w]) \/ (pc'[w] = "idle" /\ call'[w] = NoCall)
        /\ \A v \in Workers \ {w} : pc'[v] = pc[v] /\ call'[v] = call[v]
    BY <1>a, <2>2, OthersStay
  <2>4. StatusFact(w)'
    BY <2>1, <2>2, <2>3 DEF StatusFact, AddPcs
  <2>5. ASSUME NEW n \in Names \ torn', n = call[w].name PROVE EntryFact(n)'
    <3>1. Settled(n)
      BY <1>a, <2>1, <2>5 DEF Settled, Exclusive, Active
    <3>2. Exact(n)'
      BY <2>2, <2>5, <3>1 DEF ListInv, EntryFact, Exact, Listed
    <3>3. CASE pc'[w] = "erase"
      BY <1>a, <2>3, <2>5, <3>3, OwnEntry DEF Halfway
    <3>4. CASE pc'[w] = "idle"
      <4>1. \A v \in Workers : call'[v].name = n => pc'[v] = "idle"
        BY <1>a, <2>1, <2>3, <2>5, <3>4 DEF Exclusive, Active
      <4>2. QED
        BY <3>2, <4>1, RestEntry
    <3>5. QED
      BY <2>3, <3>3, <3>4
  <2>6. QED
    BY <2>1, <2>2, <2>3, <2>4, <2>5, OwnStep DEF Own, Listed
<1>9. ASSUME NEW w \in Workers, DelErase(w) PROVE ListInv'
  <2>1. call[w].name \in Names /\ pc[w] = "erase" /\ k[w] \in 1 .. 4
    BY <1>a, <1>9 DEF DelErase, CallFacts, CallFact, TypeOK, DelPcs
  <2>2. UNCHANGED <<list, torn>> /\ call'[w] = call[w]
        /\ pc'[w] = (IF k[w] = 4 THEN "delread" ELSE "erase")
        /\ \A v \in Workers \ {w} : pc'[v] = pc[v] /\ call'[v] = call[v]
    BY <1>a, <1>9, OthersStay DEF DelErase
  <2>3. Own(w) /\ k'[w] = (IF k[w] = 4 THEN 1 ELSE k[w] + 1)
    BY <1>a, <1>9, <2>1, <2>2 DEF DelErase, TypeOK, Own
  <2>4. /\ stored'[call[w].name] \in Routes
        /\ \A i \in 1 .. k[w] : stored'[call[w].name][Fields[i]] = None
    <3>1. stored'[call[w].name] = [stored[call[w].name] EXCEPT ![Fields[k[w]]] = None]
          /\ stored[call[w].name] \in Routes
      BY <1>a, <1>9, <2>1 DEF DelErase, TypeOK
    <3>2. \A i \in 1 .. k[w] - 1 : stored[call[w].name][Fields[i]] = None
      BY <2>1 DEF ListInv, StatusFact
    <3> DEFINE old == stored[call[w].name]
               new == stored'[call[w].name]
               j   == k[w]
    <3> HIDE DEF old, new, j
    <3>3. new = [old EXCEPT ![Fields[j]] = None] /\ old \in Routes /\ j \in 1 .. 4
      BY <2>1, <3>1 DEF old, new, j
    <3>4. new \in Routes /\ new[Fields[j]] = None
          /\ \A i \in 1 .. 4 : i # j => new[Fields[i]] = old[Fields[i]]
      BY <3>3, FieldErased
    <3>5. \A i \in 1 .. j : new[Fields[i]] = None
      BY <3>2, <3>3, <3>4 DEF old, j
    <3>6. QED
      BY <3>4, <3>5 DEF new, j
  <2>5. k[w] = 4 => stored'[call[w].name] = Blank
    BY <2>4, BlankFields, BlankType, SameFields
  <2>6. StatusFact(w)'
    BY <2>1, <2>2, <2>3, <2>4, <2>5 DEF StatusFact, AddPcs
  <2>7. ASSUME NEW n \in Names \ torn', n = call[w].name PROVE EntryFact(n)'
    BY <1>a, <2>2, <2>7, OwnEntry DEF Halfway
  <2>8. QED
    BY <2>2, <2>3, <2>6, <2>7, OwnStep DEF Listed
<1>10. ASSUME NEW w \in Workers, DelListRead(w) PROVE ListInv'
  <2>1. call[w].name \in Names /\ pc[w] = "delread"
    BY <1>a, <1>10 DEF DelListRead, CallFacts, CallFact, DelPcs
  <2>2. UNCHANGED <<stored, list, torn, k>> /\ pc'[w] = "delwrite" /\ call'[w] = call[w]
        /\ \A v \in Workers \ {w} : pc'[v] = pc[v] /\ call'[v] = call[v]
    BY <1>a, <1>10, OthersStay DEF DelListRead, conf
  <2>3. StatusFact(w)'
    BY <2>1, <2>2 DEF ListInv, StatusFact, AddPcs
  <2>4. ASSUME NEW n \in Names \ torn', n = call[w].name PROVE EntryFact(n)'
    BY <1>a, <2>2, <2>4, OwnEntry DEF Halfway
  <2>5. QED
    BY <2>1, <2>2, <2>3, <2>4, OwnStep DEF Own, Listed
<1>11. ASSUME NEW w \in Workers, DelListMissing(w) PROVE ListInv'
  <2>1. call[w].name \in Names /\ pc[w] = "delread" /\ list = None
    BY <1>a, <1>11 DEF DelListMissing, CallFacts, CallFact, DelPcs
  <2>2. Return(w) /\ UNCHANGED <<stored, list, k>> /\ torn' = torn \ {call[w].name}
    BY <1>11 DEF DelListMissing, conf
  <2>3. StatusFact(w)' /\ pc'[w] = "idle"
        /\ \A v \in Workers \ {w} : pc'[v] = pc[v] /\ call'[v] = call[v]
    BY <1>a, <2>2, IdleStatus, OthersStay
  <2>4. ASSUME NEW n \in Names \ torn', n = call[w].name PROVE EntryFact(n)'
    <3>1. Listed(list)[n] = 0 /\ stored[n] = Blank
      BY <2>1, <2>4 DEF ListInv, StatusFact, Listed
    <3>2. Exact(n)'
      BY <2>2, <3>1 DEF Exact, Listed
    <3>3. \A v \in Workers : call'[v].name = n => pc'[v] = "idle"
      BY <1>a, <2>1, <2>3, <2>4 DEF Exclusive, Active
    <3>4. QED
      BY <3>2, <3>3, RestEntry
  <2>5. QED
    BY <2>1, <2>2, <2>3, <2>4, OwnStep DEF Own, Listed
<1>12. ASSUME NEW w \in Workers, DelListWrite(w) PROVE ListInv'
  <2>1. call[w].name \in Names /\ pc[w] = "delwrite" /\ seen[w] \in [Names -> Nat]
    BY <1>a, <1>12 DEF DelListWrite, CallFacts, CallFact, DelPcs, TypeOK
  <2>2. /\ Return(w) /\ UNCHANGED <<stored, k>>
        /\ list' = [seen[w] EXCEPT ![call[w].name] = 0]
        /\ torn' = (torn \cup Overwritten(w)) \ {call[w].name}
    BY <1>12 DEF DelListWrite
  <2>3. list' # None /\ seen[w] # None
    BY <2>1, <2>2, ConstantsAssumption
  <2>4. StatusFact(w)' /\ pc'[w] = "idle"
        /\ \A v \in Workers \ {w} : pc'[v] = pc[v] /\ call'[v] = call[v]
    BY <1>a, <2>2, IdleStatus, OthersStay
  <2>5. ASSUME NEW n \in Names \ torn', n = call[w].name PROVE EntryFact(n)'
    <3>1. Listed(list)'[n] = 0
      BY <2>1, <2>2, <2>3, <2>5 DEF Listed
    <3>2. stored[n] = Blank
      BY <2>1, <2>5 DEF ListInv, StatusFact
    <3>3. Exact(n)'
      BY <2>2, <3>1, <3>2 DEF Exact
    <3>4. \A v \in Workers : call'[v].name = n => pc'[v] = "idle"
      BY <1>a, <2>1, <2>4, <2>5 DEF Exclusive, Active
    <3>5. QED
      BY <3>3, <3>4, RestEntry
  <2>6. ASSUME NEW n \in Names \ torn', n # call[w].name
        PROVE  n \notin torn /\ Listed(list)'[n] = Listed(list)[n]
    <3>1. n \notin torn /\ Listed(seen[w])[n] = Listed(list)[n]
      BY <2>2, <2>6 DEF Overwritten
    <3>2. QED
      BY <2>1, <2>2, <2>3, <2>6, <3>1 DEF Listed
  <2>7. Own(w)
    BY <2>1, <2>2, <2>4 DEF Own
  <2>8. QED
    BY <2>4, <2>5, <2>6, <2>7, OwnStep
<1>13. ASSUME NEW w \in Workers, Die(w) PROVE ListInv'
  <2>1. Return(w) /\ UNCHANGED <<stored, list>> /\ pc[w] # "idle"
        /\ torn' = torn \cup ({call[w].name} \cap Names) /\ k' = [k EXCEPT ![w] = 1]
    BY <1>13 DEF Die, conf
  <2>2. StatusFact(w)' /\ pc'[w] = "idle"
        /\ \A v \in Workers \ {w} : pc'[v] = pc[v] /\ call'[v] = call[v] /\ k'[v] = k[v]
    BY <1>a, <2>1, IdleStatus, OthersStay DEF TypeOK
  <2>3. ASSUME NEW v \in Workers, v # w PROVE StatusFact(v)'
    BY <2>1, <2>2, <2>3, OtherStatus DEF ListInv
  <2>4. ASSUME NEW n \in Names \ torn' PROVE EntryFact(n)'
    BY <2>1, <2>2, <2>4, OtherEntry DEF ListInv, Listed
  <2>5. QED
    BY <2>2, <2>3, <2>4 DEF ListInv
<1>14. ASSUME NEW w \in Workers, NEW g \in Gateways, SetDefaultStart(w, g) PROVE ListInv'
  <2>1. pc[w] = "idle" /\ Begin(w, "dkernel", None, [Blank EXCEPT !.gtw = g])
        /\ UNCHANGED <<stored, list, k, torn>>
    BY <1>14 DEF SetDefaultStart, MaySetDefault, MayCall
  <2>2. pc'[w] = "dkernel" /\ call'[w].name = None
        /\ \A v \in Workers \ {w} : pc'[v] = pc[v] /\ call'[v] = call[v]
    BY <1>a, <2>1 DEF Begin, TypeOK
  <2>3. QED
    BY <1>b, <2>1, <2>2, AsideInv DEF Aside, AddPcs, DelPcs
<1>15. ASSUME NEW w \in Workers, SetDefaultKernel(w) \/ DelDefaultErase(w) PROVE ListInv'
  <2>1. call[w].name = None /\ Return(w) /\ UNCHANGED <<stored, list, k, torn>>
    BY <1>a, <1>15
    DEF SetDefaultKernel, DelDefaultErase, CallFacts, CallFact, DefaultPcs, conf
  <2>2. pc'[w] = "idle" /\ \A v \in Workers \ {w} : pc'[v] = pc[v] /\ call'[v] = call[v]
    BY <1>a, <2>1, OthersStay
  <2>3. QED
    BY <1>b, <2>1, <2>2, AsideInv DEF Aside, AddPcs, DelPcs
<1>16. ASSUME NEW w \in Workers, DelDefaultKernel(w) PROVE ListInv'
  <2>1. pc[w] = "idle" /\ UNCHANGED <<stored, list, k, torn>>
        /\ (Begin(w, "derase", None, Blank) \/ UNCHANGED <<pc, call>>)
    BY <1>16 DEF DelDefaultKernel, MaySetDefault, MayCall, conf
  <2>2. CASE Begin(w, "derase", None, Blank)
    <3>1. pc'[w] = "derase" /\ call'[w].name = None
          /\ \A v \in Workers \ {w} : pc'[v] = pc[v] /\ call'[v] = call[v]
      BY <1>a, <2>2 DEF Begin, TypeOK
    <3>2. QED
      BY <1>b, <2>1, <3>1, AsideInv DEF Aside, AddPcs, DelPcs
  <2>3. CASE UNCHANGED <<pc, call>>
    BY <2>1, <2>3, AsideInv DEF Aside, AddPcs, DelPcs
  <2>4. QED
    BY <2>1, <2>2, <2>3
<1>17. ASSUME UNCHANGED <<stored, list, pc, call, k, torn>> PROVE ListInv'
  BY <1>17 DEF ListInv, StatusFact, EntryFact, Settled, Exact, Halfway, Listed
<1>18. ASSUME NEW w \in Workers,
              RoutesGet(w) \/ Recycle(w) \/ \E n \in Names : RouteGet(w, n)
       PROVE  ListInv'
  BY <1>17, <1>18 DEF RoutesGet, Recycle, RouteGet, conf
<1>19. CASE UNCHANGED vars
  BY <1>17, <1>19 DEF vars
<1>20. QED
  BY <1>1, <1>2, <1>3, <1>4, <1>5, <1>6, <1>7, <1>8, <1>9, <1>10, <1>11, <1>12, <1>13,
     <1>14, <1>15, <1>16, <1>18, <1>19 DEF Next

(* Whenever no call is under way, route_list has each stored route once    *)
(* and no other name, whatever is refused and however calls overlap, but   *)
(* for the names whose call died or was overwritten (1502, 1621).          *)
THEOREM ListExactTheorem == Spec => []ListExact
<1>1. Init => CallInv /\ ListInv
  BY InitTypeOK, CallsIdle, InitListInv DEF CallInv
<1>2. CallInv /\ ListInv /\ [Next]_vars => (CallInv /\ ListInv)'
  BY NextTypeOK, NextExclusive, NextCallFacts, NextListInv DEF CallInv
<1>3. ListInv => ListExact
  BY DEF ListInv, EntryFact, Settled, Exact, ListExact
<1>4. QED
  BY <1>1, <1>2, <1>3, PTL DEF Spec
=============================================================================
