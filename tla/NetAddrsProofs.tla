--------------------------- MODULE NetAddrsProofs ---------------------------
(* Theorems about NetAddrs, for any families, addresses, netmasks, numbers *)
(* and arguments, and any number of calls and deaths.                      *)
EXTENDS NetAddrs, SequenceTheorems, WellFoundedInduction, TLAPS

CallRecords ==
  [op : {"none", "add", "del", "set", "dhcpSet", "dhcpDel"}, type : Types,
   en : BOOLEAN, rest : Seq(Items), i : 0 .. MaxNum + 1, fresh : NumberSets,
   item : [fam : Families, num : Numbers, ip : Addrs \cup Stores,
           netmask : Masks \cup {Absent}]]

AddPcs   == {"addKernel", "addAlias", "addMask", "addList"}
ShiftPcs == {"shift", "shiftMask", "dropMask", "dropAlias"}
ClearPcs == {"clear", "clearNumber", "clearMask"}

(* What a call may rely on at each of its steps. *)
CallFacts ==
  /\ apc \in AddPcs => acall.item \in Items /\ acall.op \in {"add", "set"}
  /\ apc \in {"delKernel", "delAlias", "delMask", "delList"} => acall.i = acall.item.num + 1
  /\ apc \in ShiftPcs => acall.item.num < acall.i
  /\ apc = "shiftMask" => acall.i \in Numbers /\
       addr[acall.item.fam][acall.i - 1] = addr[acall.item.fam][acall.i]
  /\ apc \in {"clearNumber", "clearMask"} => acall.fresh \in SUBSET Numbers
  /\ apc \in ClearPcs \cup {"clearKernel"} => acall.op \in {"set", "dhcpSet", "dhcpDel"}

AddrInv == AddrTypeOK /\ CallFacts
-----------------------------------------------------------------------------
(* Sequences and numbers                                                   *)

(* A set of numbers that is not empty has a least one. *)
LEMMA LeastNumber ==
  ASSUME NEW T \in SUBSET Nat, T # {}
  PROVE  \E x \in T : \A y \in T : x <= y
<1> DEFINE R == OpToRel(<, Nat)
<1>1. IsWellFoundedOn(R, Nat)
  BY NatLessThanWellFounded
<1>2. \A x, y \in Nat : y < x => <<y, x>> \in R
  BY DEF OpToRel
<1> HIDE DEF R
<1>3. PICK x \in T : \A y \in T : ~ (<<y, x>> \in R)
  BY <1>1, WFMin
<1>4. x \in Nat /\ \A y \in T : y \in Nat
  OBVIOUS
<1>5. \A y \in T : ~ (y < x)
  BY <1>2, <1>3, <1>4, Zenon
<1>6. QED
  BY <1>4, <1>5

LEMMA RemoveAtProperties ==
  ASSUME NEW S, NEW s \in Seq(S), NEW i \in 1 .. Len(s)
  PROVE  /\ Seqs!RemoveAt(s, i) \in Seq(S)
         /\ Len(Seqs!RemoveAt(s, i)) = Len(s) - 1
         /\ \A j \in 1 .. Len(s) - 1 :
              Seqs!RemoveAt(s, i)[j] = IF j < i THEN s[j] ELSE s[j + 1]
<1> DEFINE l == SubSeq(s, 1, i - 1)
           r == SubSeq(s, i + 1, Len(s))
<1>0. Len(s) \in Nat /\ \A j \in 1 .. Len(s) : s[j] \in S
  BY LenProperties, ElementOfSeq
<1>1. /\ l \in Seq(S) /\ Len(l) = i - 1
      /\ \A j \in 1 .. i - 1 : l[j] = s[j]
  BY <1>0, SubSeqProperties
<1>2. /\ r \in Seq(S) /\ Len(r) = Len(s) - i
      /\ \A j \in 1 .. Len(s) - i : r[j] = s[i + j]
  BY <1>0, SubSeqProperties
<1> HIDE DEF l, r
<1>3. /\ l \o r \in Seq(S)
      /\ Len(l \o r) = Len(l) + Len(r)
      /\ \A j \in 1 .. Len(l) + Len(r) :
           (l \o r)[j] = IF j <= Len(l) THEN l[j] ELSE r[j - Len(l)]
  BY <1>1, <1>2, ConcatProperties
<1>4. Seqs!RemoveAt(s, i) = l \o r
  BY DEF l, r, Seqs!RemoveAt
<1> DEFINE rest == l \o r
<1>5. Len(rest) = Len(s) - 1 /\ rest \in Seq(S)
  BY <1>0, <1>1, <1>2, <1>3
<1>6. ASSUME NEW j \in 1 .. Len(s) - 1 PROVE rest[j] = IF j < i THEN s[j] ELSE s[j + 1]
  <2>1. j \in 1 .. Len(l) + Len(r) /\ i \in Int /\ j \in Int
    BY <1>0, <1>1, <1>2
  <2>2. rest[j] = IF j <= Len(l) THEN l[j] ELSE r[j - Len(l)]
    BY <1>3, <2>1
  <2> HIDE DEF rest
  <2>3. CASE j < i
    BY <1>0, <1>1, <2>1, <2>2, <2>3
  <2>4. CASE ~ (j < i)
    <3>1. j - (i - 1) \in 1 .. Len(s) - i /\ i + (j - (i - 1)) = j + 1
      BY <1>0, <2>1, <2>4
    <3>2. r[j - (i - 1)] = s[j + 1]
      BY <1>2, <3>1
    <3>3. QED
      BY <1>1, <2>1, <2>2, <2>4, <3>2
  <2>5. QED
    BY <2>3, <2>4
<1> HIDE DEF rest
<1>7. Seqs!RemoveAt(s, i) = rest
  BY <1>4 DEF rest
<1>8. QED
  BY <1>5, <1>6, <1>7

LEMMA PrintedType == \A n \in Numbers : Printed(n) \in Numbers
<1> SUFFICES ASSUME NEW n \in Numbers PROVE Printed(n) \in Numbers
  OBVIOUS
<1>1. n \in Nat /\ n <= MaxNum /\ MaxNum \in Nat /\ Base \in Nat \ {0}
  BY AddrAssumption DEF Numbers
<1>2. n \div Base \in Nat /\ n \div Base <= n
  BY <1>1
<1>3. QED
  BY <1>1, <1>2 DEF Printed, Numbers

-----------------------------------------------------------------------------
(* Types                                                                   *)

LEMMA NoCallType == NoAddrCall \in CallRecords
<1>1. <<>> \in Seq(Items)
  OBVIOUS
<1>2. NoAddrCall.item \in [fam : Families, num : Numbers, ip : Addrs \cup Stores,
                           netmask : Masks \cup {Absent}]
  BY AddrAssumption DEF NoAddrCall, Numbers, Stores
<1>3. 0 \in 0 .. MaxNum + 1 /\ Absent \in NumberSets /\ "CONF" \in Types
  BY AddrAssumption DEF NumberSets, Types
<1>4. QED
  BY <1>1, <1>2, <1>3 DEF NoAddrCall, CallRecords

LEMMA RecordFacts ==
  ASSUME NEW c \in CallRecords
  PROVE  /\ \A x \in NumberSets : [c EXCEPT !.fresh = x] \in CallRecords
         /\ \A f \in Families, x \in NumberSets :
              [c EXCEPT !.item.fam = f, !.fresh = x] \in CallRecords
         /\ \A n \in Numbers : [c EXCEPT !.item.num = n] \in CallRecords
         /\ \A i \in 0 .. MaxNum + 1, x \in NumberSets :
              [c EXCEPT !.i = i, !.fresh = x] \in CallRecords
         /\ \A x \in Items, r \in Seq(Items) : [c EXCEPT !.item = x, !.rest = r] \in CallRecords
<1>1. Items \subseteq [fam : Families, num : Numbers, ip : Addrs \cup Stores,
                       netmask : Masks \cup {Absent}]
  BY DEF Items
<1>2. QED
  BY <1>1 DEF CallRecords

(* Where a call goes on, its record is the one given. *)
LEMMA EnterFacts ==
  ASSUME NEW c \in CallRecords, NEW where \in AddrPcs, Enter(c, where)
  PROVE  /\ apc' = where /\ apc' \in AddrPcs /\ acall' \in CallRecords
         /\ where # "idle" => acall' = c
BY NoCallType DEF Enter

LEMMA FinishFacts == Finish => apc' = "idle" /\ apc' \in AddrPcs /\ acall' \in CallRecords
BY NoCallType DEF Finish, Enter, AddrPcs

LEMMA NextItemFacts ==
  ASSUME acall \in CallRecords, NextItem
  PROVE  /\ apc' \in {"idle", "addKernel", "addAlias"} /\ apc' \in AddrPcs
         /\ acall' \in CallRecords
         /\ apc' # "idle" => /\ acall'.item \in Items /\ acall'.op = acall.op
                             /\ acall'.type = acall.type /\ acall'.en = acall.en
         /\ apc' = "addKernel" => acall.en /\ Sys(acall.type)
         /\ apc' = "addAlias" => ~(acall.en /\ Sys(acall.type))
<1>1. CASE acall.rest = <<>>
  BY <1>1, FinishFacts DEF NextItem
<1>2. CASE acall.rest # <<>>
  <2>1. acall.rest \in Seq(Items)
    BY DEF CallRecords
  <2>2. Head(acall.rest) \in Items /\ Tail(acall.rest) \in Seq(Items)
    BY <1>2, <2>1, HeadTailProperties
  <2> DEFINE c == [acall EXCEPT !.item = Head(acall.rest), !.rest = Tail(acall.rest)]
  <2>3. c \in CallRecords
    BY <2>2, RecordFacts
  <2>4. c.item \in Items /\ c.op = acall.op /\ c.type = acall.type /\ c.en = acall.en
    BY <2>2 DEF CallRecords
  <2>5. /\ AddEntry(acall.type, acall.en) \in {"idle", "addKernel", "addAlias"}
        /\ AddEntry(acall.type, acall.en) = "addKernel" => acall.en /\ Sys(acall.type)
        /\ AddEntry(acall.type, acall.en) = "addAlias" => ~(acall.en /\ Sys(acall.type))
    BY DEF AddEntry
  <2>6. Enter(c, AddEntry(acall.type, acall.en))
    BY <1>2 DEF NextItem
  <2> HIDE DEF c
  <2>7. QED
    BY <2>3, <2>4, <2>5, <2>6, EnterFacts DEF AddrPcs
<1>3. QED
  BY <1>1, <1>2

LEMMA InitAddrInv == AddrInit => AddrInv
<1> SUFFICES ASSUME AddrInit PROVE AddrInv
  OBVIOUS
<1>1. <<>> \in Seq(Addrs \cup {Lease})
  OBVIOUS
<1>2. acall \in CallRecords
  BY NoCallType DEF AddrInit
<1>3. /\ addr \in [Families -> [Numbers -> Addrs \cup Stores]]
      /\ mask \in [Families -> [Numbers -> Masks \cup Stores]]
      /\ listed \in [Families -> NumberSets]
      /\ stuck \in [Families -> SUBSET (Addrs \cup {Lease})]
  BY DEF AddrInit, Stores, NumberSets, NoneStuck
<1>4. ifaddrs \in [Families -> Seq(Addrs \cup {Lease})]
  BY <1>1 DEF AddrInit
<1>5. acalls \in 0 .. AddrCalls /\ adeaths \in 0 .. AddrDeaths
  BY AddrAssumption DEF AddrInit
<1>6. AddrTypeOK
  BY <1>2, <1>3, <1>4, <1>5 DEF AddrInit, AddrTypeOK, CallRecords, AddrPcs
<1>7. QED
  BY <1>6 DEF AddrInit, AddrInv, CallFacts, AddPcs, ShiftPcs, ClearPcs

LEMMA NextAddrInv == AddrInv /\ [AddrNext]_addrVars => AddrInv'
<1> SUFFICES ASSUME AddrTypeOK, CallFacts, [AddrNext]_addrVars PROVE AddrTypeOK' /\ CallFacts'
  BY DEF AddrInv
<1>a. acall \in CallRecords /\ apc \in AddrPcs /\ dhcp \in {"off", "on", "dying", "stale"}
  BY DEF AddrTypeOK, CallRecords
<1>b. /\ acall.item.fam \in Families /\ acall.item.num \in Numbers
      /\ acall.item.ip \in Addrs \cup Stores /\ acall.item.netmask \in Masks \cup {Absent}
      /\ acall.type \in Types /\ acall.en \in BOOLEAN /\ acall.i \in 0 .. MaxNum + 1
      /\ acall.fresh \in NumberSets
  BY <1>a DEF CallRecords
<1>c. "ip4" \in Families /\ 0 \in Numbers /\ MaxNum \in Nat
  BY AddrAssumption DEF Numbers
<1>d. /\ addr \in [Families -> [Numbers -> Addrs \cup Stores]]
      /\ mask \in [Families -> [Numbers -> Masks \cup Stores]]
      /\ listed \in [Families -> NumberSets]
      /\ ifaddrs \in [Families -> Seq(Addrs \cup {Lease})]
      /\ stuck \in [Families -> SUBSET (Addrs \cup {Lease})]
      /\ kept \subseteq [fam : Families, ip : Addrs, netmask : Masks \cup {Absent}]
      /\ tidy \in BOOLEAN /\ orderly \in BOOLEAN
      /\ acalls \in 0 .. AddrCalls /\ adeaths \in 0 .. AddrDeaths
  BY DEF AddrTypeOK
\* What remains to be shown of a step that goes on with or ends a call.
<1>e. ASSUME acall' \in CallRecords, apc' \in AddrPcs, CallFacts',
             UNCHANGED <<Store, ifaddrs, kept, stuck, Counts>>,
             dhcp' \in {"off", "on", "dying", "stale"}, tidy' \in BOOLEAN, orderly' \in BOOLEAN
      PROVE  AddrTypeOK' /\ CallFacts'
  BY <1>d, <1>e DEF AddrTypeOK, CallRecords, Store, Counts
<1>f. ASSUME acall' \in CallRecords, apc' \in AddrPcs, CallFacts',
             addr' \in [Families -> [Numbers -> Addrs \cup Stores]],
             mask' \in [Families -> [Numbers -> Masks \cup Stores]],
             listed' \in [Families -> NumberSets],
             kept' \subseteq [fam : Families, ip : Addrs, netmask : Masks \cup {Absent}],
             tidy' \in BOOLEAN, orderly' \in BOOLEAN,
             UNCHANGED <<ifaddrs, dhcp, stuck, Counts>>
      PROVE  AddrTypeOK' /\ CallFacts'
  BY <1>a, <1>d, <1>f DEF AddrTypeOK, CallRecords, Counts
<1>g. ASSUME acall' \in CallRecords, apc' \in AddrPcs, CallFacts', UNCHANGED Store,
             ifaddrs' \in [Families -> Seq(Addrs \cup {Lease})],
             stuck' \in [Families -> SUBSET (Addrs \cup {Lease})],
             orderly' \in BOOLEAN, UNCHANGED <<dhcp, kept, tidy, Counts>>
      PROVE  AddrTypeOK' /\ CallFacts'
  BY <1>a, <1>d, <1>g DEF AddrTypeOK, CallRecords, Store, Counts
<1>h. ASSUME acall' \in CallRecords, apc' \in AddrPcs, CallFacts',
             UNCHANGED <<Store, ifaddrs, kept, tidy, orderly, adeaths>>, acalls < AddrCalls,
             acalls' = acalls + 1, dhcp' \in {"off", "on", "dying", "stale"},
             stuck' \in {stuck, NoneStuck}
      PROVE  AddrTypeOK' /\ CallFacts'
  <2>1. acalls' \in 0 .. AddrCalls
    BY <1>d, <1>h, AddrAssumption
  <2>2. stuck' \in [Families -> SUBSET (Addrs \cup {Lease})]
    BY <1>d, <1>h DEF NoneStuck
  <2>3. QED
    BY <1>d, <1>h, <2>1, <2>2 DEF AddrTypeOK, CallRecords, Store
<1>k. \A t \in Types : KillDhcp(t) => dhcp' \in {"off", "on", "dying", "stale"}
  BY <1>a DEF KillDhcp
<1> USE DEF AddPcs, ShiftPcs, ClearPcs
<1>1. CASE DhcpEnds
  <2>1. UNCHANGED <<addr, acall, apc>> /\ dhcp' \in {"off", "on", "dying", "stale"}
        /\ UNCHANGED <<Store, ifaddrs, kept, stuck, Counts, tidy, orderly>>
    BY <1>1 DEF DhcpEnds, Store, Past
  <2>2. CallFacts'
    BY <2>1 DEF CallFacts
  <2>3. QED
    BY <1>a, <1>d, <1>e, <2>1, <2>2
<1>2. CASE DhcpLease
  <2>1. UNCHANGED <<addr, acall, apc>>
    BY <1>2 DEF DhcpLease, Store
  <2>2. CallFacts'
    BY <2>1 DEF CallFacts
  <2>3. Append(ifaddrs["ip4"], Lease) \in Seq(Addrs \cup {Lease})
    BY <1>c, <1>d, AppendProperties
  <2>4. ifaddrs' \in [Families -> Seq(Addrs \cup {Lease})]
    BY <1>2, <1>d, <2>3 DEF DhcpLease
  <2>5. QED
    BY <1>2, <1>a, <1>d, <1>g, <2>1, <2>2, <2>4 DEF DhcpLease
<1>3. ASSUME NEW f \in Families, AddIp(f) PROVE AddrTypeOK' /\ CallFacts'
  <2>1. PICK t \in Types, en \in BOOLEAN, given \in Given :
          /\ BeginAddr([NoAddrCall EXCEPT !.op = "add", !.type = t, !.en = en, !.item = given],
                       AddEntry(t, en))
          /\ KillDhcp(t)
    BY <1>3 DEF AddIp
  <2> DEFINE c == [NoAddrCall EXCEPT !.op = "add", !.type = t, !.en = en, !.item = given]
  <2>2. given \in Items
    BY AddrAssumption
  <2>3. c \in CallRecords /\ c.item = given /\ c.op = "add"
    BY <2>2, NoCallType DEF CallRecords, Items
  <2>4. AddEntry(t, en) \in {"idle", "addKernel", "addAlias"}
    BY DEF AddEntry
  <2>5. Enter(c, AddEntry(t, en)) /\ acalls < AddrCalls /\ acalls' = acalls + 1
        /\ adeaths' = adeaths
    BY <2>1 DEF BeginAddr
  <2> HIDE DEF c
  <2>6. /\ apc' = AddEntry(t, en) /\ apc' \in AddrPcs /\ acall' \in CallRecords
        /\ apc' # "idle" => acall' = c
    BY <2>3, <2>4, <2>5, EnterFacts DEF AddrPcs
  <2>7. CallFacts'
    BY <2>2, <2>3, <2>4, <2>6 DEF CallFacts
  <2>8. UNCHANGED <<Store, ifaddrs, kept, tidy, orderly, stuck>>
    BY <1>3 DEF AddIp, Past
  <2>9. QED
    BY <1>h, <1>k, <2>1, <2>5, <2>6, <2>7, <2>8
<1>4. CASE AddIfaddr
  <2> DEFINE f == acall.item.fam
             a == acall.item.ip
  <2>1. acall.item \in Items /\ acall.op \in {"add", "set"} /\ a \in Addrs
    BY <1>4 DEF AddIfaddr, CallFacts, Items
  <2>2. Append(ifaddrs[f], a) \in Seq(Addrs \cup {Lease})
    BY <1>b, <1>d, <2>1, AppendProperties
  <2>3. ifaddrs' \in [Families -> Seq(Addrs \cup {Lease})]
    <3>1. ifaddrs' = ifaddrs \/ ifaddrs' = [ifaddrs EXCEPT ![f] = Append(ifaddrs[f], a)]
      BY <1>4 DEF AddIfaddr
    <3>2. QED
      BY <1>b, <1>d, <2>2, <3>1
  <2>4. /\ acall' \in CallRecords /\ apc' \in AddrPcs /\ apc' \in {"idle", "addKernel", "addAlias"}
        /\ apc' # "idle" => acall'.item \in Items /\ acall'.op = acall.op
    <3>1. CASE Conf(acall.type)
      BY <1>4, <1>a, <2>1, <3>1, EnterFacts DEF AddIfaddr, AddrPcs
    <3>2. CASE ~Conf(acall.type)
      BY <1>4, <1>a, <3>2, NextItemFacts DEF AddIfaddr
    <3>3. QED
      BY <3>1, <3>2
  <2>5. CallFacts'
    BY <2>1, <2>4 DEF CallFacts
  <2>6. UNCHANGED <<Store, dhcp, kept, tidy, stuck, Counts>> /\ orderly' \in BOOLEAN
    BY <1>4, <1>d DEF AddIfaddr
  <2>7. QED
    BY <1>d, <1>g, <2>3, <2>4, <2>5, <2>6
<1>5. CASE AddIfaddrFails
  <2>1. acall.op \in {"add", "set"}
    BY <1>5 DEF AddIfaddrFails, CallFacts
  <2>2. /\ acall' \in CallRecords /\ apc' \in AddrPcs /\ apc' \in {"idle", "addKernel", "addAlias"}
        /\ apc' # "idle" => acall'.item \in Items /\ acall'.op = acall.op
    BY <1>5, <1>a, NextItemFacts DEF AddIfaddrFails
  <2>3. CallFacts'
    BY <2>1, <2>2 DEF CallFacts
  <2>4. QED
    BY <1>5, <1>a, <1>d, <1>e, <2>2, <2>3 DEF AddIfaddrFails, Past
<1>6. CASE AddAlias
  <2>1. acall.item \in Items /\ acall.item.ip \in Addrs /\ acall.op \in {"add", "set"}
    BY <1>6 DEF AddAlias, CallFacts, Items
  <2>2. apc' = "addMask" /\ apc' \in AddrPcs /\ acall' = acall
    BY <1>6, <1>a, EnterFacts DEF AddAlias, AddrPcs
  <2>3. CallFacts'
    BY <2>1, <2>2 DEF CallFacts
  <2>4. addr' \in [Families -> [Numbers -> Addrs \cup Stores]]
    BY <1>6, <1>b, <1>d, <2>1 DEF AddAlias
  <2>5. QED
    BY <1>6, <1>a, <1>d, <1>f, <2>2, <2>3, <2>4 DEF AddAlias
<1>7. CASE AddMask
  <2>1. acall.item \in Items /\ acall.item.netmask \in Masks /\ acall.op \in {"add", "set"}
    BY <1>7 DEF AddMask, CallFacts, Items
  <2>2. apc' = "addList" /\ apc' \in AddrPcs /\ acall' = acall
    BY <1>7, <1>a, EnterFacts DEF AddMask, AddrPcs
  <2>3. CallFacts'
    BY <2>1, <2>2 DEF CallFacts
  <2>4. mask' \in [Families -> [Numbers -> Masks \cup Stores]]
    BY <1>7, <1>b, <1>d, <2>1 DEF AddMask
  <2>5. QED
    BY <1>7, <1>a, <1>d, <1>f, <2>2, <2>3, <2>4 DEF AddMask, Past
<1>8. CASE AddList
  <2>1. acall.item \in Items /\ acall.item.ip \in Addrs /\ acall.item.netmask \in Masks
        /\ acall.op \in {"add", "set"}
    BY <1>8 DEF AddList, CallFacts, Items
  <2>2. /\ acall' \in CallRecords /\ apc' \in AddrPcs /\ apc' \in {"idle", "addKernel", "addAlias"}
        /\ apc' # "idle" => acall'.item \in Items /\ acall'.op = acall.op
    BY <1>8, <1>a, NextItemFacts DEF AddList
  <2>3. CallFacts'
    BY <2>1, <2>2 DEF CallFacts
  <2>4. listed' \in [Families -> NumberSets]
    <3>1. Printed(acall.item.num) \in Numbers
      BY <1>b, PrintedType
    <3>2. IF listed[acall.item.fam] = Absent THEN {Printed(acall.item.num)} \in NumberSets
          ELSE listed[acall.item.fam] \cup {Printed(acall.item.num)} \in NumberSets
      BY <1>b, <1>d, <3>1 DEF NumberSets
    <3>3. QED
      BY <1>8, <1>b, <1>d, <3>2 DEF AddList
  <2>5. Promise \in [fam : Families, ip : Addrs, netmask : Masks \cup {Absent}]
    BY <1>b, <2>1 DEF Promise
  <2>6. QED
    BY <1>8, <1>d, <1>f, <2>2, <2>3, <2>4, <2>5 DEF AddList
<1>9. ASSUME NEW f \in Families, DelIp(f) PROVE AddrTypeOK' /\ CallFacts'
  <2>1. PICK t \in Types, n \in Numbers, a \in Addrs :
          LET ip == IF Conf(t) THEN addr[f][n] ELSE a IN
          /\ BeginAddr([NoAddrCall EXCEPT !.op = "del", !.type = t, !.i = n + 1,
                                          !.item = Item(f, n, ip, Absent)],
                       IF ~Sys(t) THEN "delAlias"
                       ELSE IF ip \in {Absent, Dhcp} THEN "idle" ELSE "delKernel")
          /\ UNCHANGED <<Store, ifaddrs, dhcp, Past>>
    BY <1>9 DEF DelIp
  <2> DEFINE ip    == IF Conf(t) THEN addr[f][n] ELSE a
             x     == Item(f, n, ip, Absent)
             c     == [NoAddrCall EXCEPT !.op = "del", !.type = t, !.i = n + 1, !.item = x]
             where == IF ~Sys(t) THEN "delAlias"
                      ELSE IF ip \in {Absent, Dhcp} THEN "idle" ELSE "delKernel"
  <2>2. ip \in Addrs \cup Stores /\ n \in 0 .. MaxNum
    BY <1>d DEF Numbers
  <2>3. where \in {"delAlias", "idle", "delKernel"}
    OBVIOUS
  <2>4. BeginAddr(c, where) /\ UNCHANGED <<Store, ifaddrs, dhcp, Past>>
    BY <2>1
  <2> HIDE DEF ip, where
  <2>5. /\ x \in [fam : Families, num : Numbers, ip : Addrs \cup Stores,
                  netmask : Masks \cup {Absent}]
        /\ x.num = n
    BY <2>2 DEF Item
  <2> HIDE DEF x
  <2>6. c \in CallRecords /\ c.i = c.item.num + 1
    <3>1. n + 1 \in 0 .. MaxNum + 1
      BY <1>c, <2>2
    <3>2. c \in CallRecords
      BY <2>5, <3>1, NoCallType DEF CallRecords
    <3>3. c.i = n + 1 /\ c.item = x
      BY DEF NoAddrCall
    <3>4. QED
      BY <2>5, <3>2, <3>3
  <2> HIDE DEF c
  <2>7. /\ apc' = where /\ apc' \in AddrPcs /\ acall' \in CallRecords
        /\ apc' # "idle" => acall' = c
    BY <2>3, <2>4, <2>6, EnterFacts DEF BeginAddr, AddrPcs
  <2>8. CallFacts'
    BY <2>3, <2>6, <2>7 DEF CallFacts
  <2>9. QED
    BY <1>a, <1>h, <2>4, <2>7, <2>8 DEF BeginAddr, Past
<1>10. CASE DelIfaddr
  <2> DEFINE f == acall.item.fam
             a == acall.item.ip
  <2>1. acall.i = acall.item.num + 1
    BY <1>10 DEF DelIfaddr, CallFacts
  <2>2. PlaceOf(f, a) \in 1 .. Len(ifaddrs[f])
    BY <1>10 DEF DelIfaddr, InKernel, OnInterface, PlaceOf
  <2>3. ifaddrs[f] \in Seq(Addrs \cup {Lease})
    BY <1>b, <1>d
  <2>4. Seqs!RemoveAt(ifaddrs[f], PlaceOf(f, a)) \in Seq(Addrs \cup {Lease})
    BY <2>2, <2>3, RemoveAtProperties
  <2>5. ifaddrs' = [ifaddrs EXCEPT ![f] = Seqs!RemoveAt(ifaddrs[f], PlaceOf(f, a))]
    BY <1>10 DEF DelIfaddr
  <2>6. ifaddrs' \in [Families -> Seq(Addrs \cup {Lease})]
    BY <1>b, <1>d, <2>4, <2>5
  <2>7. /\ acall' \in CallRecords /\ apc' \in AddrPcs /\ apc' \in {"idle", "delAlias"}
        /\ apc' # "idle" => acall' = acall
    BY <1>10, <1>a, EnterFacts, FinishFacts DEF DelIfaddr, AddrPcs
  <2>8. CallFacts'
    BY <2>1, <2>7 DEF CallFacts
  <2>9. UNCHANGED <<Store, dhcp, kept, tidy, stuck, Counts>> /\ orderly' \in BOOLEAN
    BY <1>10, <1>d DEF DelIfaddr
  <2>10. QED
    BY <1>d, <1>g, <2>6, <2>7, <2>8, <2>9
<1>11. CASE DelIfaddrFails \/ ShiftMaskMissing \/ AddrDies
  <2>1. acall' \in CallRecords /\ apc' = "idle" /\ apc' \in AddrPcs
    BY <1>11, FinishFacts DEF DelIfaddrFails, ShiftMaskMissing, AddrDies
  <2>2. CallFacts'
    BY <2>1 DEF CallFacts
  <2>3. CASE DelIfaddrFails \/ ShiftMaskMissing
    BY <1>a, <1>d, <1>e, <2>1, <2>2, <2>3 DEF DelIfaddrFails, ShiftMaskMissing, Past
  <2>4. CASE AddrDies
    <3>1. UNCHANGED <<Store, ifaddrs, dhcp, kept, stuck, acalls>>
          /\ tidy' = FALSE /\ orderly' = FALSE /\ adeaths' = adeaths + 1 /\ adeaths < AddrDeaths
      BY <2>4 DEF AddrDies
    <3>2. adeaths' \in 0 .. AddrDeaths
      BY <1>d, <3>1, AddrAssumption
    <3>3. QED
      BY <1>a, <1>d, <2>1, <2>2, <3>1, <3>2 DEF AddrTypeOK, CallRecords, Store
  <2>5. QED
    BY <1>11, <2>3, <2>4
<1>12. CASE DelAlias
  <2>1. apc' = "delMask" /\ apc' \in AddrPcs /\ acall' = acall
    BY <1>12, <1>a, EnterFacts DEF DelAlias, AddrPcs
  <2>2. CallFacts'
    BY <1>12, <2>1 DEF CallFacts, DelAlias
  <2>3. addr' \in [Families -> [Numbers -> Addrs \cup Stores]]
    BY <1>12, <1>b, <1>d DEF DelAlias, Stores
  <2>4. QED
    BY <1>12, <1>a, <1>d, <1>f, <2>1, <2>2, <2>3 DEF DelAlias
<1>13. CASE DelMask
  <2>1. apc' = "delList" /\ apc' \in AddrPcs /\ acall' = acall
    BY <1>13, <1>a, EnterFacts DEF DelMask, AddrPcs
  <2>2. CallFacts'
    BY <1>13, <2>1 DEF CallFacts, DelMask
  <2>3. mask' \in [Families -> [Numbers -> Masks \cup Stores]]
    BY <1>13, <1>b, <1>d DEF DelMask, Stores
  <2>4. QED
    BY <1>13, <1>a, <1>d, <1>f, <2>1, <2>2, <2>3 DEF DelMask, Past
<1>14. CASE DelList
  <2> DEFINE before == 0 .. acall.item.num - 1
             fresh  == IF before = {} THEN Absent ELSE before
             c      == [acall EXCEPT !.fresh = fresh]
  <2>1. acall.i = acall.item.num + 1 /\ acall.item.num < acall.i
    BY <1>14, <1>b, <1>c DEF DelList, CallFacts, Numbers
  <2>2. before \in SUBSET Numbers
    BY <1>b, <1>c DEF Numbers
  <2>3. fresh \in NumberSets
    BY <2>2 DEF NumberSets
  <2> HIDE DEF fresh
  <2>4. c \in CallRecords /\ c.i = acall.i /\ c.item = acall.item
    BY <1>a, <2>3, RecordFacts DEF CallRecords
  <2>5. /\ listed' \in {listed, [listed EXCEPT ![acall.item.fam] = Absent]}
        /\ Enter(acall, "shift") \/ Enter(c, "shift")
    BY <1>14 DEF DelList, fresh
  <2> HIDE DEF c
  <2>6. apc' = "shift" /\ apc' \in AddrPcs /\ acall' \in {acall, c}
    BY <1>a, <2>4, <2>5, EnterFacts DEF AddrPcs
  <2>7. acall'.i = acall.i /\ acall'.item = acall.item /\ acall' \in CallRecords
    BY <1>a, <2>4, <2>6
  <2>8. CallFacts'
    BY <2>1, <2>6, <2>7 DEF CallFacts
  <2>9. listed' \in [Families -> NumberSets]
    BY <1>b, <1>d, <2>5 DEF NumberSets
  <2>10. QED
    BY <1>14, <1>a, <1>d, <1>f, <2>6, <2>7, <2>8, <2>9 DEF DelList, Past
<1>15. CASE ShiftAlias
  <2> DEFINE f == acall.item.fam
             i == acall.i
  <2>1. acall.item.num < i /\ i \in Numbers
    BY <1>15 DEF ShiftAlias, CallFacts, At
  <2>2. i - 1 \in Numbers /\ i - 1 # i
    BY <1>b, <1>c, <2>1 DEF Numbers
  <2>3. apc' = "shiftMask" /\ apc' \in AddrPcs /\ acall' = acall
    BY <1>15, <1>a, EnterFacts DEF ShiftAlias, AddrPcs
  <2>4. addr' = [addr EXCEPT ![f][i - 1] = addr[f][i]]
    BY <1>15 DEF ShiftAlias
  <2>5. addr' \in [Families -> [Numbers -> Addrs \cup Stores]]
    BY <1>b, <1>d, <2>1, <2>4
  <2>6. addr'[f][i - 1] = addr'[f][i]
    BY <1>b, <1>d, <2>1, <2>2, <2>4
  <2>7. CallFacts'
    BY <2>1, <2>3, <2>6 DEF CallFacts
  <2>8. QED
    BY <1>15, <1>a, <1>d, <1>f, <2>3, <2>5, <2>7 DEF ShiftAlias, Past
<1>16. CASE ShiftMask
  <2> DEFINE f == acall.item.fam
             i == acall.i
             c == [acall EXCEPT !.i = i + 1, !.fresh = AddTo(acall.fresh, i - 1)]
  <2>1. acall.item.num < i /\ i \in Numbers
    BY <1>16 DEF ShiftMask, CallFacts
  <2>2. i - 1 \in Numbers /\ i + 1 \in 0 .. MaxNum + 1 /\ acall.item.num < i + 1
    BY <1>b, <1>c, <2>1 DEF Numbers
  <2>3. AddTo(acall.fresh, i - 1) \in NumberSets
    BY <1>b, <2>2 DEF AddTo, NumberSets
  <2>4. c \in CallRecords /\ c.i = i + 1 /\ c.item = acall.item
    BY <1>a, <2>2, <2>3, RecordFacts DEF CallRecords
  <2>5. Enter(c, "shift")
    BY <1>16, <1>a DEF ShiftMask, CallRecords
  <2> HIDE DEF c
  <2>6. apc' = "shift" /\ apc' \in AddrPcs /\ acall' = c
    BY <2>4, <2>5, EnterFacts DEF AddrPcs
  <2>7. CallFacts'
    BY <2>2, <2>4, <2>6 DEF CallFacts
  <2>8. mask' \in [Families -> [Numbers -> Masks \cup Stores]]
    BY <1>16, <1>b, <1>d, <2>1 DEF ShiftMask
  <2>9. QED
    BY <1>16, <1>a, <1>d, <1>f, <2>4, <2>6, <2>7, <2>8 DEF ShiftMask, Past
<1>17. CASE ShiftEnds
  <2>1. apc' \in {"dropMask", "writeList"} /\ apc' \in AddrPcs /\ acall' = acall
    BY <1>17, <1>a, EnterFacts DEF ShiftEnds, AddrPcs
  <2>2. CallFacts'
    BY <1>17, <2>1 DEF CallFacts, ShiftEnds
  <2>3. QED
    BY <1>17, <1>a, <1>d, <1>e, <2>1, <2>2 DEF ShiftEnds, Past
<1>18. CASE DropMask
  <2>1. apc' = "dropAlias" /\ apc' \in AddrPcs /\ acall' = acall
    BY <1>18, <1>a, EnterFacts DEF DropMask, AddrPcs
  <2>2. CallFacts'
    BY <1>18, <2>1 DEF CallFacts, DropMask
  <2>3. mask' \in [Families -> [Numbers -> Masks \cup Stores]]
    BY <1>18, <1>b, <1>d DEF DropMask, Stores
  <2>4. QED
    BY <1>18, <1>a, <1>d, <1>f, <2>1, <2>2, <2>3 DEF DropMask, Past
<1>19. CASE DropAlias
  <2>1. apc' = "writeList" /\ apc' \in AddrPcs /\ acall' = acall
    BY <1>19, <1>a, EnterFacts DEF DropAlias, AddrPcs
  <2>2. CallFacts'
    BY <1>19, <2>1 DEF CallFacts, DropAlias
  <2>3. addr' \in [Families -> [Numbers -> Addrs \cup Stores]]
    BY <1>19, <1>b, <1>d DEF DropAlias, Stores
  <2>4. QED
    BY <1>19, <1>a, <1>d, <1>f, <2>1, <2>2, <2>3 DEF DropAlias, Past
<1>20. CASE WriteList
  <2>1. apc' = "idle" /\ apc' \in AddrPcs /\ acall' \in CallRecords
    BY <1>20, FinishFacts DEF WriteList
  <2>2. CallFacts'
    BY <2>1 DEF CallFacts
  <2>3. listed' \in [Families -> NumberSets]
    BY <1>20, <1>b, <1>d DEF WriteList
  <2>4. QED
    BY <1>20, <1>a, <1>d, <1>f, <2>1, <2>2, <2>3 DEF WriteList, Past
<1>21. ASSUME NEW f \in Families, ClearFamily(f) PROVE AddrTypeOK' /\ CallFacts'
  <2> DEFINE c == [acall EXCEPT !.item.fam = f, !.fresh = listed[f]]
  <2>1. listed[f] \in SUBSET Numbers /\ listed[f] \in NumberSets
        /\ acall.op \in {"set", "dhcpSet", "dhcpDel"}
    BY <1>21, <1>d DEF ClearFamily, NumberSets, CallFacts
  <2>2. c \in CallRecords
    BY <1>a, <2>1, RecordFacts
  <2>3. c.fresh = listed[f] /\ c.op = acall.op
    BY <1>a DEF CallRecords
  <2>4. Enter(c, "clearNumber")
    BY <1>21 DEF ClearFamily
  <2> HIDE DEF c
  <2>5. apc' = "clearNumber" /\ apc' \in AddrPcs /\ acall' = c
    BY <2>2, <2>4, EnterFacts DEF AddrPcs
  <2>6. CallFacts'
    BY <2>1, <2>3, <2>5 DEF CallFacts
  <2>7. QED
    BY <1>21, <1>a, <1>d, <1>e, <2>2, <2>5, <2>6 DEF ClearFamily, Past
<1>22. ASSUME NEW n \in Numbers, ClearAlias(n) PROVE AddrTypeOK' /\ CallFacts'
  <2> DEFINE c == [acall EXCEPT !.item.num = n]
  <2>1. c \in CallRecords
    BY <1>a, RecordFacts
  <2>2. c.fresh = acall.fresh /\ c.op = acall.op
    BY <1>a DEF CallRecords
  <2>3. Enter(c, "clearMask")
    BY <1>22 DEF ClearAlias
  <2> HIDE DEF c
  <2>4. apc' = "clearMask" /\ apc' \in AddrPcs /\ acall' = c
    BY <2>1, <2>3, EnterFacts DEF AddrPcs
  <2>5. CallFacts'
    BY <1>22, <2>2, <2>4 DEF CallFacts, ClearAlias
  <2>6. addr' \in [Families -> [Numbers -> Addrs \cup Stores]]
    BY <1>22, <1>b, <1>d DEF ClearAlias, Stores
  <2>7. QED
    BY <1>22, <1>a, <1>d, <1>f, <2>1, <2>4, <2>5, <2>6 DEF ClearAlias
<1>23. CASE ClearMask
  <2> DEFINE n == acall.item.num
             c == [acall EXCEPT !.fresh = acall.fresh \ {n}]
  <2>1. acall.fresh \in SUBSET Numbers /\ acall.op \in {"set", "dhcpSet", "dhcpDel"}
    BY <1>23 DEF ClearMask, CallFacts
  <2>2. acall.fresh \ {n} \in NumberSets
    BY <2>1 DEF NumberSets
  <2>3. c \in CallRecords
    BY <1>a, <2>2, RecordFacts
  <2>4. c.fresh = acall.fresh \ {n} /\ c.op = acall.op
    BY <1>a DEF CallRecords
  <2>5. Enter(c, "clearNumber")
    BY <1>23, <1>a DEF ClearMask, CallRecords
  <2> HIDE DEF c
  <2>6. apc' = "clearNumber" /\ apc' \in AddrPcs /\ acall' = c
    BY <2>3, <2>5, EnterFacts DEF AddrPcs
  <2>7. CallFacts'
    BY <2>1, <2>4, <2>6 DEF CallFacts
  <2>8. mask' \in [Families -> [Numbers -> Masks \cup Stores]]
    BY <1>23, <1>b, <1>d DEF ClearMask, Stores
  <2>9. QED
    BY <1>23, <1>a, <1>d, <1>f, <2>3, <2>6, <2>7, <2>8 DEF ClearMask, Past
<1>24. CASE ClearList
  <2>1. apc' = "clear" /\ apc' \in AddrPcs /\ acall' = acall
    BY <1>24, <1>a, EnterFacts DEF ClearList, AddrPcs
  <2>2. CallFacts'
    BY <1>24, <2>1 DEF CallFacts, ClearList
  <2>3. listed' \in [Families -> NumberSets]
    BY <1>24, <1>b, <1>d DEF ClearList, NumberSets
  <2>4. QED
    BY <1>24, <1>a, <1>d, <1>f, <2>1, <2>2, <2>3 DEF ClearList, Past
<1>25. CASE ClearEnds
  <2>1. acall.op \in {"set", "dhcpSet", "dhcpDel"}
    BY <1>25 DEF ClearEnds, CallFacts
  <2>2. \/ Enter(acall, "clearKernel") /\ acall.op = "set"
        \/ NextItem /\ acall.op = "set"
        \/ Enter(acall, "dhcpAlias")
        \/ Finish
    BY <1>25, <2>1 DEF ClearEnds
  <2>3. acall' \in CallRecords /\ apc' \in AddrPcs /\ CallFacts'
    <3>1. CASE Enter(acall, "clearKernel") /\ acall.op = "set"
      BY <1>a, <3>1, EnterFacts DEF AddrPcs, CallFacts
    <3>2. CASE NextItem /\ acall.op = "set"
      BY <1>a, <3>2, NextItemFacts DEF CallFacts
    <3>3. CASE Enter(acall, "dhcpAlias")
      BY <1>a, <3>3, EnterFacts DEF AddrPcs, CallFacts
    <3>4. CASE Finish
      BY <3>4, FinishFacts DEF CallFacts
    <3>5. QED
      BY <2>2, <3>1, <3>2, <3>3, <3>4
  <2>4. /\ UNCHANGED <<Store, ifaddrs, dhcp, kept, stuck, Counts>>
        /\ tidy' \in BOOLEAN /\ orderly' \in BOOLEAN
    BY <1>25 DEF ClearEnds, Nothing
  <2>5. QED
    BY <1>a, <1>e, <2>3, <2>4
<1>26. ASSUME NEW f \in Families, ClearKernelOne(f) PROVE AddrTypeOK' /\ CallFacts'
  <2> DEFINE i == CHOOSE k \in ToDrop(f) : \A l \in ToDrop(f) : k <= l
  <2>1. ifaddrs[f] \in Seq(Addrs \cup {Lease})
    BY <1>d
  <2>2. ToDrop(f) # {} /\ ToDrop(f) \in SUBSET Nat /\ ToDrop(f) \subseteq 1 .. Len(ifaddrs[f])
    BY <1>26, <2>1 DEF ClearKernelOne, ToDrop
  <2>3. \E k \in ToDrop(f) : \A l \in ToDrop(f) : k <= l
    BY <2>2, LeastNumber
  <2>4. i \in 1 .. Len(ifaddrs[f])
    BY <2>2, <2>3
  <2>5. /\ \/ ifaddrs' = [ifaddrs EXCEPT ![f] = Seqs!RemoveAt(ifaddrs[f], i)] /\ UNCHANGED stuck
           \/ stuck' = [stuck EXCEPT ![f] = stuck[f] \cup {ifaddrs[f][i]}] /\ UNCHANGED ifaddrs
        /\ orderly' = FALSE /\ UNCHANGED <<Store, dhcp, apc, acall, kept, tidy, Counts>>
    BY <1>26 DEF ClearKernelOne
  <2> HIDE DEF i
  <2>6. Seqs!RemoveAt(ifaddrs[f], i) \in Seq(Addrs \cup {Lease})
    BY <2>1, <2>4, RemoveAtProperties
  <2>7. ifaddrs[f][i] \in Addrs \cup {Lease}
    BY <2>1, <2>4, ElementOfSeq
  <2>8. /\ ifaddrs' \in [Families -> Seq(Addrs \cup {Lease})]
        /\ stuck' \in [Families -> SUBSET (Addrs \cup {Lease})]
    BY <1>d, <2>5, <2>6, <2>7
  <2>9. CallFacts'
    BY <2>5 DEF CallFacts, Store
  <2>10. QED
    BY <1>a, <1>d, <1>g, <2>5, <2>8, <2>9
<1>27. CASE ClearKernelEnds
  <2>1. acall.op \in {"set", "dhcpSet", "dhcpDel"}
    BY <1>27 DEF ClearKernelEnds, CallFacts
  <2>2. \/ NextItem /\ acall.op = "set"
        \/ Enter(acall, "clear")
        \/ Enter(acall, "dhcpRun")
        \/ Finish
    BY <1>27, <2>1 DEF ClearKernelEnds
  <2>3. acall' \in CallRecords /\ apc' \in AddrPcs /\ CallFacts'
    <3>1. CASE NextItem /\ acall.op = "set"
      BY <1>a, <3>1, NextItemFacts DEF CallFacts
    <3>2. CASE Enter(acall, "clear")
      BY <1>a, <2>1, <3>2, EnterFacts DEF AddrPcs, CallFacts
    <3>3. CASE Enter(acall, "dhcpRun")
      BY <1>a, <3>3, EnterFacts DEF AddrPcs, CallFacts
    <3>4. CASE Finish
      BY <3>4, FinishFacts DEF CallFacts
    <3>5. QED
      BY <2>2, <3>1, <3>2, <3>3, <3>4
  <2>4. /\ UNCHANGED <<Store, ifaddrs, dhcp, kept, stuck, tidy, Counts>>
        /\ orderly' \in BOOLEAN
    BY <1>27 DEF ClearKernelEnds, Nothing
  <2>5. QED
    BY <1>a, <1>d, <1>e, <2>3, <2>4
<1>28. CASE SetIps
  <2>1. PICK t \in Types, en \in BOOLEAN, items \in AddressLists :
          /\ BeginAddr([NoAddrCall EXCEPT !.op = "set", !.type = t, !.en = en, !.rest = items],
                       IF Conf(t) THEN "clear" ELSE "clearKernel")
          /\ KillDhcp(t)
          /\ stuck' = IF Sys(t) THEN NoneStuck ELSE stuck
    BY <1>28 DEF SetIps
  <2> DEFINE c     == [NoAddrCall EXCEPT !.op = "set", !.type = t, !.en = en, !.rest = items]
             where == IF Conf(t) THEN "clear" ELSE "clearKernel"
  <2>2. items \in Seq(Items)
    BY AddrAssumption
  <2>3. c \in CallRecords /\ c.op = "set" /\ where \in {"clear", "clearKernel"}
    BY <2>2, NoCallType DEF CallRecords
  <2>4. BeginAddr(c, where)
    BY <2>1
  <2> HIDE DEF c, where
  <2>5. apc' = where /\ apc' \in AddrPcs /\ acall' = c
    BY <2>3, <2>4, EnterFacts DEF BeginAddr, AddrPcs
  <2>6. CallFacts'
    BY <2>3, <2>5 DEF CallFacts
  <2>7. QED
    BY <1>28, <1>h, <1>k, <2>1, <2>3, <2>4, <2>5, <2>6 DEF SetIps, BeginAddr
<1>29. CASE DhcpSet
  <2>1. PICK t \in Types, en \in BOOLEAN :
          /\ BeginAddr([NoAddrCall EXCEPT !.op = "dhcpSet", !.type = t, !.en = en],
                       IF en /\ Sys(t) THEN "clearKernel"
                       ELSE IF Conf(t) THEN "clear" ELSE "idle")
          /\ IF en THEN KillDhcp(t) ELSE UNCHANGED dhcp
          /\ stuck' = IF en /\ Sys(t) THEN NoneStuck ELSE stuck
    BY <1>29 DEF DhcpSet
  <2> DEFINE c     == [NoAddrCall EXCEPT !.op = "dhcpSet", !.type = t, !.en = en]
             where == IF en /\ Sys(t) THEN "clearKernel"
                      ELSE IF Conf(t) THEN "clear" ELSE "idle"
  <2>2. c \in CallRecords /\ c.op = "dhcpSet" /\ where \in {"clear", "clearKernel", "idle"}
    BY NoCallType DEF CallRecords
  <2>3. BeginAddr(c, where)
    BY <2>1
  <2> HIDE DEF c, where
  <2>4. /\ apc' = where /\ apc' \in AddrPcs /\ acall' \in CallRecords
        /\ apc' # "idle" => acall' = c
    BY <2>2, <2>3, EnterFacts DEF BeginAddr, AddrPcs
  <2>5. CallFacts'
    BY <2>2, <2>4 DEF CallFacts
  <2>6. QED
    BY <1>29, <1>a, <1>h, <1>k, <2>1, <2>3, <2>4, <2>5 DEF DhcpSet, BeginAddr
<1>30. CASE DhcpDel
  <2>1. PICK t \in Types :
          /\ BeginAddr([NoAddrCall EXCEPT !.op = "dhcpDel", !.type = t],
                       IF ~Sys(t) THEN "clear"
                       ELSE IF dhcp = "off" THEN "idle" ELSE "clearKernel")
          /\ KillDhcp(t)
          /\ stuck' = IF Sys(t) /\ dhcp # "off" THEN NoneStuck ELSE stuck
    BY <1>30 DEF DhcpDel
  <2> DEFINE c     == [NoAddrCall EXCEPT !.op = "dhcpDel", !.type = t]
             where == IF ~Sys(t) THEN "clear"
                      ELSE IF dhcp = "off" THEN "idle" ELSE "clearKernel"
  <2>2. c \in CallRecords /\ c.op = "dhcpDel" /\ where \in {"clear", "clearKernel", "idle"}
    BY NoCallType DEF CallRecords
  <2>3. BeginAddr(c, where)
    BY <2>1
  <2> HIDE DEF c, where
  <2>4. /\ apc' = where /\ apc' \in AddrPcs /\ acall' \in CallRecords
        /\ apc' # "idle" => acall' = c
    BY <2>2, <2>3, EnterFacts DEF BeginAddr, AddrPcs
  <2>5. CallFacts'
    BY <2>2, <2>4 DEF CallFacts
  <2>6. QED
    BY <1>30, <1>a, <1>h, <1>k, <2>1, <2>3, <2>4, <2>5 DEF DhcpDel, BeginAddr
<1>31. CASE DhcpAlias
  <2>1. apc' = "dhcpList" /\ apc' \in AddrPcs /\ acall' = acall
    BY <1>31, <1>a, EnterFacts DEF DhcpAlias, AddrPcs
  <2>2. CallFacts'
    BY <2>1 DEF CallFacts
  <2>3. addr' \in [Families -> [Numbers -> Addrs \cup Stores]]
    BY <1>31, <1>c, <1>d DEF DhcpAlias, Stores
  <2>4. QED
    BY <1>31, <1>a, <1>d, <1>f, <2>1, <2>2, <2>3 DEF DhcpAlias
<1>32. CASE DhcpList
  <2>1. apc' = "dhcpMask" /\ apc' \in AddrPcs /\ acall' = acall
    BY <1>32, <1>a, EnterFacts DEF DhcpList, AddrPcs
  <2>2. CallFacts'
    BY <2>1 DEF CallFacts
  <2>3. listed' \in [Families -> NumberSets]
    BY <1>32, <1>c, <1>d DEF DhcpList, NumberSets
  <2>4. QED
    BY <1>32, <1>a, <1>d, <1>f, <2>1, <2>2, <2>3 DEF DhcpList, Past
<1>33. CASE DhcpMask
  <2>1. apc' \in {"dhcpRun", "idle"} /\ apc' \in AddrPcs /\ acall' \in CallRecords
    BY <1>33, <1>a, EnterFacts, FinishFacts DEF DhcpMask, AddrPcs
  <2>2. CallFacts'
    BY <2>1 DEF CallFacts
  <2>3. mask' \in [Families -> [Numbers -> Masks \cup Stores]]
    BY <1>33, <1>c, <1>d DEF DhcpMask, Stores
  <2>4. QED
    BY <1>33, <1>a, <1>d, <1>f, <2>1, <2>2, <2>3 DEF DhcpMask, Past
<1>34. CASE DhcpRun
  <2>1. apc' = "idle" /\ apc' \in AddrPcs /\ acall' \in CallRecords
    BY <1>34, FinishFacts DEF DhcpRun
  <2>2. CallFacts'
    BY <2>1 DEF CallFacts
  <2>3. QED
    BY <1>34, <1>a, <1>d, <1>e, <2>1, <2>2 DEF DhcpRun, Past
<1>35. CASE UNCHANGED addrVars
  <2>1. UNCHANGED <<addr, apc, acall, Store, ifaddrs, kept, stuck, Counts, dhcp, tidy, orderly>>
    BY <1>35 DEF addrVars, Store, Counts
  <2>2. CallFacts'
    BY <2>1 DEF CallFacts
  <2>3. QED
    BY <1>a, <1>d, <1>e, <2>1, <2>2
<1>36. QED
  BY <1>1, <1>2, <1>3, <1>4, <1>5, <1>6, <1>7, <1>8, <1>9, <1>10, <1>11, <1>12, <1>13, <1>14,
     <1>15, <1>16, <1>17, <1>18, <1>19, <1>20, <1>21, <1>22, <1>23, <1>24, <1>25, <1>26,
     <1>27, <1>28, <1>29, <1>30, <1>31, <1>32, <1>33, <1>34, <1>35 DEF AddrNext

LEMMA AddrInvariant == AddrSpec => []AddrInv
<1>1. QED
  BY InitAddrInv, NextAddrInv, PTL DEF AddrSpec

(* Every variable keeps its type, and a number, a list and an address that *)
(* a call remembers (net.c:460-700, 1123-1290, 1960-2130, 2384-2470) are   *)
(* ones the stores can hold, whatever dies where.                          *)
THEOREM AddrTypeCorrect == AddrSpec => []AddrTypeOK
<1>1. AddrInv => AddrTypeOK
  BY DEF AddrInv
<1>2. QED
  BY <1>1, AddrInvariant, PTL

-----------------------------------------------------------------------------
(* What a step leaves of the call it belongs to                            *)

DelPcs   == {"delKernel", "delAlias", "delMask", "delList"}
DhcpPcs  == {"dhcpAlias", "dhcpList", "dhcpMask", "dhcpRun"}
SameCall == acall'.op = acall.op /\ acall'.type = acall.type /\ acall'.en = acall.en

LEMMA SameCallFacts ==
  ASSUME NEW c \in CallRecords, NEW where \in AddrPcs, Enter(c, where),
         c.op = acall.op, c.type = acall.type, c.en = acall.en
  PROVE  apc' = where /\ (apc' # "idle" => SameCall /\ acall' = c)
BY EnterFacts DEF SameCall

LEMMA AddSteps ==
  ASSUME AddrTypeOK, CallFacts, AddIfaddr \/ AddIfaddrFails \/ AddAlias \/ AddMask \/ AddList
  PROVE  /\ apc \in AddPcs /\ apc' \in AddPcs \cup {"idle"} /\ (apc' # "idle" => SameCall)
         /\ apc' = "addKernel" => Sys(acall.type)
<1>1. acall \in CallRecords
  BY DEF AddrTypeOK, CallRecords
<1>2. ASSUME NextItem
      PROVE  /\ apc' \in AddPcs \cup {"idle"} /\ (apc' # "idle" => SameCall)
             /\ apc' = "addKernel" => Sys(acall.type)
  BY <1>1, <1>2, NextItemFacts DEF AddPcs, SameCall
<1>3. CASE AddIfaddr
  BY <1>1, <1>2, <1>3, SameCallFacts DEF AddIfaddr, AddPcs, AddrPcs
<1>4. CASE AddIfaddrFails
  BY <1>2, <1>4 DEF AddIfaddrFails, AddPcs
<1>5. CASE AddAlias
  BY <1>1, <1>5, SameCallFacts DEF AddAlias, AddPcs, AddrPcs
<1>6. CASE AddMask
  BY <1>1, <1>6, SameCallFacts DEF AddMask, AddPcs, AddrPcs
<1>7. CASE AddList
  BY <1>2, <1>7 DEF AddList, AddPcs
<1>8. QED
  BY <1>3, <1>4, <1>5, <1>6, <1>7

LEMMA DeleteSteps ==
  ASSUME AddrTypeOK, CallFacts,
         \/ DelIfaddr \/ DelIfaddrFails \/ DelAlias \/ DelMask \/ DelList
         \/ ShiftAlias \/ ShiftMask \/ ShiftMaskMissing \/ ShiftEnds
         \/ DropMask \/ DropAlias \/ WriteList
  PROVE  /\ apc \in DelPcs \cup ShiftPcs \cup {"writeList"}
         /\ apc' \in DelPcs \cup ShiftPcs \cup {"writeList", "idle"}
         /\ apc' # "idle" => SameCall /\ acall'.item = acall.item
<1>1. acall \in CallRecords
  BY DEF AddrTypeOK, CallRecords
<1> USE DEF DelPcs, ShiftPcs, AddrPcs
<1>2. CASE DelIfaddr \/ DelIfaddrFails
  BY <1>1, <1>2, SameCallFacts, FinishFacts DEF DelIfaddr, DelIfaddrFails
<1>3. CASE DelAlias \/ DelMask
  BY <1>1, <1>3, SameCallFacts DEF DelAlias, DelMask
<1>4. CASE DelList
  <2> DEFINE before == 0 .. acall.item.num - 1
             fresh  == IF before = {} THEN Absent ELSE before
             c      == [acall EXCEPT !.fresh = fresh]
  <2>1. 0 .. acall.item.num - 1 \in SUBSET Numbers
    BY <1>1, AddrAssumption DEF CallRecords, Numbers
  <2>2. fresh \in NumberSets
    BY <2>1 DEF NumberSets
  <2> HIDE DEF fresh
  <2>3. c \in CallRecords /\ c.op = acall.op /\ c.type = acall.type /\ c.en = acall.en
        /\ c.item = acall.item
    BY <1>1, <2>2, RecordFacts DEF CallRecords
  <2>4. apc = "delList" /\ (Enter(acall, "shift") \/ Enter(c, "shift"))
    BY <1>4 DEF DelList, fresh
  <2> HIDE DEF c
  <2>5. QED
    BY <1>1, <2>3, <2>4, SameCallFacts
<1>5. CASE ShiftAlias \/ ShiftEnds
  BY <1>1, <1>5, SameCallFacts DEF ShiftAlias, ShiftEnds
<1>6. CASE ShiftMask
  <2> DEFINE i == acall.i
             c == [acall EXCEPT !.i = i + 1, !.fresh = AddTo(acall.fresh, i - 1)]
  <2>1. apc = "shiftMask" /\ acall.item.num < i /\ i \in Numbers
    BY <1>6 DEF ShiftMask, CallFacts
  <2>2. i - 1 \in Numbers /\ i + 1 \in 0 .. MaxNum + 1
    BY <1>1, <2>1, AddrAssumption DEF Numbers, CallRecords
  <2>3. AddTo(acall.fresh, i - 1) \in NumberSets
    BY <1>1, <2>2 DEF AddTo, NumberSets, CallRecords
  <2>4. c \in CallRecords
    BY <1>1, <2>2, <2>3, RecordFacts
  <2>5. c.op = acall.op /\ c.type = acall.type /\ c.en = acall.en /\ c.item = acall.item
    BY <1>1 DEF CallRecords
  <2>6. Enter(c, "shift")
    BY <1>1, <1>6 DEF ShiftMask, CallRecords
  <2> HIDE DEF c
  <2>7. QED
    BY <2>1, <2>4, <2>5, <2>6, SameCallFacts
<1>7. CASE ShiftMaskMissing \/ WriteList
  BY <1>7, FinishFacts DEF ShiftMaskMissing, WriteList
<1>8. CASE DropMask \/ DropAlias
  BY <1>1, <1>8, SameCallFacts DEF DropMask, DropAlias
<1>9. QED
  BY <1>2, <1>3, <1>4, <1>5, <1>6, <1>7, <1>8

LEMMA ClearSteps ==
  ASSUME AddrTypeOK, CallFacts,
         \/ \E f \in Families : ClearFamily(f)
         \/ \E n \in Numbers : ClearAlias(n)
         \/ ClearMask \/ ClearList
  PROVE  apc \in ClearPcs /\ apc' \in ClearPcs /\ SameCall
<1>1. acall \in CallRecords
  BY DEF AddrTypeOK, CallRecords
<1> USE DEF ClearPcs, AddrPcs
<1>2. ASSUME NEW f \in Families, ClearFamily(f) PROVE apc \in ClearPcs /\ apc' \in ClearPcs /\ SameCall
  <2> DEFINE c == [acall EXCEPT !.item.fam = f, !.fresh = listed[f]]
  <2>1. listed[f] \in NumberSets
    BY DEF AddrTypeOK
  <2>2. c \in CallRecords
    BY <1>1, <2>1, RecordFacts
  <2>3. c.op = acall.op /\ c.type = acall.type /\ c.en = acall.en
    BY <1>1 DEF CallRecords
  <2>4. apc = "clear" /\ Enter(c, "clearNumber")
    BY <1>2 DEF ClearFamily
  <2> HIDE DEF c
  <2>5. QED
    BY <2>2, <2>3, <2>4, SameCallFacts
<1>3. ASSUME NEW n \in Numbers, ClearAlias(n) PROVE apc \in ClearPcs /\ apc' \in ClearPcs /\ SameCall
  <2> DEFINE c == [acall EXCEPT !.item.num = n]
  <2>1. c \in CallRecords
    BY <1>1, RecordFacts
  <2>2. c.op = acall.op /\ c.type = acall.type /\ c.en = acall.en
    BY <1>1 DEF CallRecords
  <2>3. apc = "clearNumber" /\ Enter(c, "clearMask")
    BY <1>3 DEF ClearAlias
  <2> HIDE DEF c
  <2>4. QED
    BY <2>1, <2>2, <2>3, SameCallFacts
<1>4. CASE ClearMask
  <2> DEFINE n == acall.item.num
             c == [acall EXCEPT !.fresh = acall.fresh \ {n}]
  <2>1. apc = "clearMask" /\ acall.fresh \in SUBSET Numbers
    BY <1>4 DEF ClearMask, CallFacts
  <2>2. acall.fresh \ {n} \in NumberSets
    BY <2>1 DEF NumberSets
  <2>3. c \in CallRecords
    BY <1>1, <2>2, RecordFacts
  <2>4. c.op = acall.op /\ c.type = acall.type /\ c.en = acall.en
    BY <1>1 DEF CallRecords
  <2>5. Enter(c, "clearNumber")
    BY <1>1, <1>4 DEF ClearMask, CallRecords
  <2> HIDE DEF c
  <2>6. QED
    BY <2>1, <2>3, <2>4, <2>5, SameCallFacts
<1>5. CASE ClearList
  BY <1>1, <1>5, SameCallFacts DEF ClearList
<1>6. QED
  BY <1>2, <1>3, <1>4, <1>5

-----------------------------------------------------------------------------
(* The DHCP client                                                         *)

Alone == \A f \in Families : OnInterface(f) \subseteq stuck[f] \cup {Lease}

(* Whoever may still put an address on the interface has signalled the     *)
(* client, and whoever is to start it has emptied the interface.           *)
DhcpFacts ==
  /\ apc = "addKernel" => Sys(acall.type)
  /\ apc # "idle" /\ acall.op \in {"add", "set"} /\ Sys(acall.type) => dhcp # "on"
  /\ apc = "clearKernel" => /\ dhcp # "on" /\ Sys(acall.type)
                            /\ acall.op = "dhcpSet" => acall.en
  /\ apc \in DhcpPcs => acall.op = "dhcpSet"
  /\ apc = "dhcpRun" => acall.en /\ Sys(acall.type)
  /\ apc \in ClearPcs \cup DhcpPcs /\ acall.op = "dhcpSet" /\ acall.en /\ Sys(acall.type) => Alone

DhcpInv == AddrInv /\ DhcpFacts /\ DhcpAlone

(* A lease that is appended is all that is new, a removal brings nothing. *)
LEMMA AppendedAddress ==
  ASSUME AddrTypeOK, NEW f \in Families, NEW a \in Addrs \cup {Lease},
         ifaddrs' = [ifaddrs EXCEPT ![f] = Append(ifaddrs[f], a)]
  PROVE  \A g \in Families : OnInterface(g)' = OnInterface(g) \cup (IF g = f THEN {a} ELSE {})
<1> SUFFICES ASSUME NEW g \in Families
             PROVE  OnInterface(g)' = OnInterface(g) \cup (IF g = f THEN {a} ELSE {})
  OBVIOUS
<1>1. ifaddrs \in [Families -> Seq(Addrs \cup {Lease})]
  BY DEF AddrTypeOK
<1>2. CASE g # f
  BY <1>1, <1>2 DEF OnInterface
<1>3. CASE g = f
  <2>1. ifaddrs[f] \in Seq(Addrs \cup {Lease}) /\ Len(ifaddrs[f]) \in Nat
    BY <1>1
  <2>2. ifaddrs'[f] = Append(ifaddrs[f], a)
    BY <1>1
  <2>3. /\ Len(ifaddrs'[f]) = Len(ifaddrs[f]) + 1
        /\ \A i \in 1 .. Len(ifaddrs[f]) : ifaddrs'[f][i] = ifaddrs[f][i]
        /\ ifaddrs'[f][Len(ifaddrs[f]) + 1] = a
    BY <2>1, <2>2, AppendProperties
  <2>4. 1 .. Len(ifaddrs[f]) + 1 = (1 .. Len(ifaddrs[f])) \cup {Len(ifaddrs[f]) + 1}
    BY <2>1
  <2>5. QED
    BY <1>3, <2>1, <2>3, <2>4 DEF OnInterface
<1>4. QED
  BY <1>2, <1>3

LEMMA RemovedAddress ==
  ASSUME AddrTypeOK, NEW f \in Families, NEW i \in 1 .. Len(ifaddrs[f]),
         ifaddrs' = [ifaddrs EXCEPT ![f] = Seqs!RemoveAt(ifaddrs[f], i)]
  PROVE  \A g \in Families : OnInterface(g)' \subseteq OnInterface(g)
<1> SUFFICES ASSUME NEW g \in Families PROVE OnInterface(g)' \subseteq OnInterface(g)
  OBVIOUS
<1>1. ifaddrs \in [Families -> Seq(Addrs \cup {Lease})]
  BY DEF AddrTypeOK
<1>2. CASE g # f
  BY <1>1, <1>2 DEF OnInterface
<1>3. CASE g = f
  <2> DEFINE s == ifaddrs[f]
             t == Seqs!RemoveAt(s, i)
  <2>1. s \in Seq(Addrs \cup {Lease}) /\ Len(s) \in Nat
    BY <1>1
  <2>2. /\ Len(t) = Len(s) - 1
        /\ \A j \in 1 .. Len(s) - 1 : t[j] = IF j < i THEN s[j] ELSE s[j + 1]
    BY <2>1, RemoveAtProperties
  <2>3. ifaddrs'[f] = t
    BY <1>1
  <2> HIDE DEF t
  <2>4. \A j \in 1 .. Len(t) : \E l \in 1 .. Len(s) : t[j] = s[l]
    <3>1. TAKE j \in 1 .. Len(t)
    <3>2. j \in 1 .. Len(s) /\ j + 1 \in 1 .. Len(s) /\ (t[j] = s[j] \/ t[j] = s[j + 1])
      BY <2>1, <2>2
    <3>3. QED
      BY <3>2
  <2>5. QED
    BY <1>3, <2>3, <2>4 DEF OnInterface
<1>4. QED
  BY <1>2, <1>3

LEMMA NextDhcpInv == DhcpInv /\ [AddrNext]_addrVars => DhcpFacts' /\ DhcpAlone'
<1> SUFFICES ASSUME AddrInv, DhcpFacts, DhcpAlone, [AddrNext]_addrVars
             PROVE  DhcpFacts' /\ DhcpAlone'
  BY DEF DhcpInv
<1>a. AddrTypeOK /\ CallFacts
  BY DEF AddrInv
<1>b. acall \in CallRecords /\ apc \in AddrPcs /\ dhcp \in {"off", "on", "dying", "stale"}
  BY <1>a DEF AddrTypeOK, CallRecords
<1>c. ifaddrs \in [Families -> Seq(Addrs \cup {Lease})]
  BY <1>a DEF AddrTypeOK
<1> USE DEF AddPcs, DelPcs, ShiftPcs, ClearPcs, DhcpPcs
\* What is to be shown when the interface is left alone and the client is not started.
<1>d. ASSUME UNCHANGED <<ifaddrs, stuck>> PROVE Alone' <=> Alone
  BY <1>d DEF Alone, OnInterface
<1>e. ASSUME Alone, UNCHANGED stuck,
             \A f \in Families : OnInterface(f)' \subseteq OnInterface(f) \cup {Lease}
      PROVE  Alone'
  BY <1>e DEF Alone
<1>1. CASE DhcpEnds
  <2>1. UNCHANGED <<ifaddrs, stuck, apc, acall>> /\ dhcp' # "on"
    BY <1>1 DEF DhcpEnds, Past
  <2>2. QED
    BY <1>d, <2>1 DEF DhcpFacts, DhcpAlone, Alone
<1>2. CASE DhcpLease
  <2>1. UNCHANGED <<dhcp, stuck, apc, acall>>
        /\ ifaddrs' = [ifaddrs EXCEPT !["ip4"] = Append(ifaddrs["ip4"], Lease)]
    BY <1>2 DEF DhcpLease
  <2>2. \A g \in Families : OnInterface(g)' \subseteq OnInterface(g) \cup {Lease}
    <3>1. "ip4" \in Families /\ Lease \in Addrs \cup {Lease}
      BY AddrAssumption
    <3>2. \A g \in Families : OnInterface(g)' = OnInterface(g) \cup (IF g = "ip4" THEN {Lease} ELSE {})
      BY <1>a, <2>1, <3>1, AppendedAddress
    <3>3. QED
      BY <3>2
  <2>3. QED
    BY <1>e, <2>1, <2>2 DEF DhcpFacts, DhcpAlone, Alone
<1>3. ASSUME NEW f \in Families, AddIp(f) PROVE DhcpFacts' /\ DhcpAlone'
  <2>1. PICK t \in Types, en \in BOOLEAN, given \in Given :
          /\ BeginAddr([NoAddrCall EXCEPT !.op = "add", !.type = t, !.en = en, !.item = given],
                       AddEntry(t, en))
          /\ KillDhcp(t)
    BY <1>3 DEF AddIp
  <2> DEFINE c == [NoAddrCall EXCEPT !.op = "add", !.type = t, !.en = en, !.item = given]
  <2>2. c.op = "add" /\ c.type = t
    BY DEF NoAddrCall
  <2>3. Enter(c, AddEntry(t, en)) /\ KillDhcp(t)
    BY <2>1 DEF BeginAddr
  <2> HIDE DEF c
  <2>4. /\ apc' = AddEntry(t, en) /\ (apc' # "idle" => acall' = c)
        /\ apc' \in {"idle", "addKernel", "addAlias"} /\ (apc' = "addKernel" => Sys(t))
    BY <2>3 DEF Enter, AddEntry
  <2>5. (dhcp' = "on" => dhcp = "on" /\ ~Sys(t)) /\ UNCHANGED <<ifaddrs, stuck>>
    BY <1>3, <2>3 DEF KillDhcp, AddIp, Past
  <2>6. QED
    BY <1>d, <2>2, <2>4, <2>5 DEF DhcpFacts, DhcpAlone, Alone
<1>4. CASE AddIfaddr
  <2>1. dhcp # "on" /\ UNCHANGED <<dhcp, stuck>>
    BY <1>4, <1>a DEF AddIfaddr, DhcpFacts, CallFacts
  <2>2. /\ apc \in AddPcs /\ apc' \in AddPcs \cup {"idle"} /\ (apc' # "idle" => SameCall)
        /\ apc' = "addKernel" => Sys(acall.type)
    BY <1>4, <1>a, AddSteps
  <2>3. QED
    BY <2>1, <2>2 DEF DhcpFacts, DhcpAlone, SameCall
<1>5. CASE AddIfaddrFails \/ AddAlias \/ AddMask \/ AddList
  <2>1. UNCHANGED <<ifaddrs, dhcp, stuck>>
    BY <1>5 DEF AddIfaddrFails, AddAlias, AddMask, AddList, Past
  <2>2. /\ apc \in AddPcs /\ apc' \in AddPcs \cup {"idle"} /\ (apc' # "idle" => SameCall)
        /\ apc' = "addKernel" => Sys(acall.type)
    BY <1>5, <1>a, AddSteps
  <2>3. QED
    BY <1>d, <2>1, <2>2 DEF DhcpFacts, DhcpAlone, SameCall, Alone
<1>6. ASSUME NEW f \in Families, DelIp(f) PROVE DhcpFacts' /\ DhcpAlone'
  <2>1. PICK t \in Types, n \in Numbers, a \in Addrs :
          LET ip == IF Conf(t) THEN addr[f][n] ELSE a IN
          /\ BeginAddr([NoAddrCall EXCEPT !.op = "del", !.type = t, !.i = n + 1,
                                          !.item = Item(f, n, ip, Absent)],
                       IF ~Sys(t) THEN "delAlias"
                       ELSE IF ip \in {Absent, Dhcp} THEN "idle" ELSE "delKernel")
          /\ UNCHANGED <<Store, ifaddrs, dhcp, Past>>
    BY <1>6 DEF DelIp
  <2> DEFINE ip    == IF Conf(t) THEN addr[f][n] ELSE a
             c     == [NoAddrCall EXCEPT !.op = "del", !.type = t, !.i = n + 1,
                                         !.item = Item(f, n, ip, Absent)]
             where == IF ~Sys(t) THEN "delAlias"
                      ELSE IF ip \in {Absent, Dhcp} THEN "idle" ELSE "delKernel"
  <2>2. where \in {"delAlias", "idle", "delKernel"} /\ c.op = "del"
    BY DEF NoAddrCall
  <2>3. BeginAddr(c, where) /\ UNCHANGED <<ifaddrs, dhcp, stuck>>
    BY <2>1 DEF Past
  <2> HIDE DEF c, where
  <2>4. apc' = where /\ (apc' # "idle" => acall' = c)
    BY <2>3 DEF BeginAddr, Enter
  <2>5. QED
    BY <1>d, <2>2, <2>3, <2>4 DEF DhcpFacts, DhcpAlone, Alone
<1>7. CASE \/ DelIfaddr \/ DelIfaddrFails \/ DelAlias \/ DelMask \/ DelList
           \/ ShiftAlias \/ ShiftMask \/ ShiftMaskMissing \/ ShiftEnds
           \/ DropMask \/ DropAlias \/ WriteList
  <2>1. /\ apc \in DelPcs \cup ShiftPcs \cup {"writeList"}
        /\ apc' \in DelPcs \cup ShiftPcs \cup {"writeList", "idle"}
        /\ apc' # "idle" => SameCall
    BY <1>7, <1>a, DeleteSteps
  <2>2. UNCHANGED <<dhcp, stuck>>
    BY <1>7 DEF DelIfaddr, DelIfaddrFails, DelAlias, DelMask, DelList, ShiftAlias, ShiftMask,
                ShiftMaskMissing, ShiftEnds, DropMask, DropAlias, WriteList, Past
  <2>3. Alone => Alone'
    <3>1. CASE DelIfaddr
      <4>1. PlaceOf(acall.item.fam, acall.item.ip) \in 1 .. Len(ifaddrs[acall.item.fam])
        BY <3>1 DEF DelIfaddr, InKernel, OnInterface, PlaceOf
      <4>2. ifaddrs' = [ifaddrs EXCEPT ![acall.item.fam] =
              Seqs!RemoveAt(ifaddrs[acall.item.fam], PlaceOf(acall.item.fam, acall.item.ip))]
        BY <3>1 DEF DelIfaddr
      <4>3. acall.item.fam \in Families
        BY <1>b DEF CallRecords
      <4>4. \A g \in Families : OnInterface(g)' \subseteq OnInterface(g)
        BY <1>a, <4>1, <4>2, <4>3, RemovedAddress
      <4>5. QED
        BY <1>e, <2>2, <4>4
    <3>2. CASE ~DelIfaddr
      <4>1. UNCHANGED ifaddrs
        BY <1>7, <3>2 DEF DelIfaddrFails, DelAlias, DelMask, DelList, ShiftAlias, ShiftMask,
                  ShiftMaskMissing, ShiftEnds, DropMask, DropAlias, WriteList
      <4>2. QED
        BY <1>d, <2>2, <4>1
    <3>3. QED
      BY <3>1, <3>2
  <2>4. QED
    BY <2>1, <2>2, <2>3 DEF DhcpFacts, DhcpAlone, SameCall, Alone
<1>8. CASE (\E f \in Families : ClearFamily(f)) \/ (\E n \in Numbers : ClearAlias(n))
           \/ ClearMask \/ ClearList
  <2>1. apc \in ClearPcs /\ apc' \in ClearPcs /\ SameCall
    BY <1>8, <1>a, ClearSteps
  <2>2. UNCHANGED <<ifaddrs, dhcp, stuck>>
    BY <1>8 DEF ClearFamily, ClearAlias, ClearMask, ClearList, Past
  <2>3. QED
    BY <1>d, <2>1, <2>2 DEF DhcpFacts, DhcpAlone, SameCall, Alone
<1>9. CASE ClearEnds
  <2>1. apc = "clear" /\ acall.op \in {"set", "dhcpSet", "dhcpDel"}
    BY <1>9, <1>a DEF ClearEnds, CallFacts
  <2>2. \/ Enter(acall, "clearKernel") /\ acall.op = "set" /\ Sys(acall.type)
        \/ NextItem /\ acall.op = "set"
        \/ Enter(acall, "dhcpAlias") /\ acall.op = "dhcpSet"
        \/ Finish
    BY <1>9, <2>1 DEF ClearEnds
  <2>3. UNCHANGED <<ifaddrs, dhcp, stuck>>
    BY <1>9 DEF ClearEnds
  <2>4. CASE Enter(acall, "clearKernel") /\ acall.op = "set" /\ Sys(acall.type)
    BY <1>b, <1>d, <2>1, <2>3, <2>4, EnterFacts DEF DhcpFacts, DhcpAlone, Alone, AddrPcs
  <2>5. CASE NextItem /\ acall.op = "set"
    BY <1>b, <1>d, <2>1, <2>3, <2>5, NextItemFacts DEF DhcpFacts, DhcpAlone, Alone
  <2>6. CASE Enter(acall, "dhcpAlias") /\ acall.op = "dhcpSet"
    BY <1>b, <1>d, <2>1, <2>3, <2>6, EnterFacts DEF DhcpFacts, DhcpAlone, Alone, AddrPcs
  <2>7. CASE Finish
    BY <1>b, <1>d, <2>1, <2>3, <2>7, FinishFacts DEF DhcpFacts, DhcpAlone, Alone
  <2>8. QED
    BY <2>2, <2>4, <2>5, <2>6, <2>7
<1>10. ASSUME NEW f \in Families, ClearKernelOne(f) PROVE DhcpFacts' /\ DhcpAlone'
  <2>1. apc = "clearKernel" /\ dhcp # "on" /\ UNCHANGED <<apc, acall, dhcp>>
    BY <1>10 DEF ClearKernelOne, DhcpFacts
  <2>2. QED
    BY <2>1 DEF DhcpFacts, DhcpAlone
<1>11. CASE ClearKernelEnds
  <2>1. apc = "clearKernel" /\ acall.op \in {"set", "dhcpSet", "dhcpDel"}
    BY <1>11, <1>a DEF ClearKernelEnds, CallFacts
  <2>2. \/ NextItem /\ acall.op = "set"
        \/ Enter(acall, "clear")
        \/ Enter(acall, "dhcpRun") /\ acall.op = "dhcpSet"
        \/ Finish
    BY <1>11, <2>1 DEF ClearKernelEnds
  <2>3. UNCHANGED <<ifaddrs, dhcp, stuck>>
    BY <1>11 DEF ClearKernelEnds
  <2>4. Alone
    <3>1. SUFFICES ASSUME NEW f \in Families, NEW i \in 1 .. Len(ifaddrs[f])
                   PROVE  ifaddrs[f][i] \in stuck[f]
      BY DEF Alone, OnInterface
    <3>2. QED
      BY <1>11 DEF ClearKernelEnds, KernelClear, ToDrop
  <2>5. CASE NextItem /\ acall.op = "set"
    BY <1>b, <1>d, <2>1, <2>3, <2>5, NextItemFacts DEF DhcpFacts, DhcpAlone, Alone
  <2>6. CASE Enter(acall, "clear")
    BY <1>b, <1>d, <2>1, <2>3, <2>4, <2>6, EnterFacts DEF DhcpFacts, DhcpAlone, Alone, AddrPcs
  <2>7. CASE Enter(acall, "dhcpRun") /\ acall.op = "dhcpSet"
    BY <1>b, <1>d, <2>1, <2>3, <2>4, <2>7, EnterFacts DEF DhcpFacts, DhcpAlone, Alone, AddrPcs
  <2>8. CASE Finish
    BY <1>b, <1>d, <2>1, <2>3, <2>8, FinishFacts DEF DhcpFacts, DhcpAlone, Alone
  <2>9. QED
    BY <2>2, <2>5, <2>6, <2>7, <2>8
<1>12. CASE SetIps
  <2>1. PICK t \in Types, en \in BOOLEAN, items \in AddressLists :
          /\ BeginAddr([NoAddrCall EXCEPT !.op = "set", !.type = t, !.en = en, !.rest = items],
                       IF Conf(t) THEN "clear" ELSE "clearKernel")
          /\ KillDhcp(t)
          /\ stuck' = IF Sys(t) THEN NoneStuck ELSE stuck
    BY <1>12 DEF SetIps
  <2> DEFINE c     == [NoAddrCall EXCEPT !.op = "set", !.type = t, !.en = en, !.rest = items]
             where == IF Conf(t) THEN "clear" ELSE "clearKernel"
  <2>2. /\ c.op = "set" /\ c.type = t /\ where \in {"clear", "clearKernel"}
        /\ where = "clearKernel" => Sys(t)
    BY DEF NoAddrCall, Conf, Sys, Types
  <2>3. BeginAddr(c, where) /\ UNCHANGED ifaddrs
    BY <1>12, <2>1 DEF SetIps
  <2> HIDE DEF c, where
  <2>4. apc' = where /\ acall' = c
    BY <2>2, <2>3 DEF BeginAddr, Enter
  <2>5. dhcp' = "on" => dhcp = "on" /\ ~Sys(t)
    BY <2>1 DEF KillDhcp
  <2>6. QED
    BY <1>d, <2>1, <2>2, <2>3, <2>4, <2>5 DEF DhcpFacts, DhcpAlone, Alone
<1>13. CASE DhcpSet
  <2>1. PICK t \in Types, en \in BOOLEAN :
          /\ BeginAddr([NoAddrCall EXCEPT !.op = "dhcpSet", !.type = t, !.en = en],
                       IF en /\ Sys(t) THEN "clearKernel"
                       ELSE IF Conf(t) THEN "clear" ELSE "idle")
          /\ IF en THEN KillDhcp(t) ELSE UNCHANGED dhcp
          /\ stuck' = IF en /\ Sys(t) THEN NoneStuck ELSE stuck
    BY <1>13 DEF DhcpSet
  <2> DEFINE c     == [NoAddrCall EXCEPT !.op = "dhcpSet", !.type = t, !.en = en]
             where == IF en /\ Sys(t) THEN "clearKernel"
                      ELSE IF Conf(t) THEN "clear" ELSE "idle"
  <2>2. /\ c.op = "dhcpSet" /\ c.type = t /\ c.en = en
        /\ where \in {"clear", "clearKernel", "idle"}
        /\ where = "clearKernel" <=> en /\ Sys(t)
    BY DEF NoAddrCall
  <2>3. BeginAddr(c, where) /\ UNCHANGED ifaddrs
    BY <1>13, <2>1 DEF DhcpSet
  <2> HIDE DEF c, where
  <2>4. apc' = where /\ (apc' # "idle" => acall' = c)
    BY <2>3 DEF BeginAddr, Enter
  <2>5. dhcp' = "on" => dhcp = "on" /\ ~(en /\ Sys(t))
    BY <2>1 DEF KillDhcp
  <2>6. QED
    BY <1>d, <2>1, <2>2, <2>3, <2>4, <2>5 DEF DhcpFacts, DhcpAlone, Alone
<1>14. CASE DhcpDel
  <2>1. PICK t \in Types :
          /\ BeginAddr([NoAddrCall EXCEPT !.op = "dhcpDel", !.type = t],
                       IF ~Sys(t) THEN "clear"
                       ELSE IF dhcp = "off" THEN "idle" ELSE "clearKernel")
          /\ KillDhcp(t)
          /\ stuck' = IF Sys(t) /\ dhcp # "off" THEN NoneStuck ELSE stuck
    BY <1>14 DEF DhcpDel
  <2> DEFINE c     == [NoAddrCall EXCEPT !.op = "dhcpDel", !.type = t]
             where == IF ~Sys(t) THEN "clear"
                      ELSE IF dhcp = "off" THEN "idle" ELSE "clearKernel"
  <2>2. /\ c.op = "dhcpDel" /\ c.type = t /\ where \in {"clear", "clearKernel", "idle"}
        /\ where = "clearKernel" => Sys(t)
    BY DEF NoAddrCall
  <2>3. BeginAddr(c, where) /\ UNCHANGED ifaddrs
    BY <1>14, <2>1 DEF DhcpDel
  <2> HIDE DEF c, where
  <2>4. apc' = where /\ (apc' # "idle" => acall' = c)
    BY <2>3 DEF BeginAddr, Enter
  <2>5. dhcp' = "on" => dhcp = "on" /\ ~Sys(t)
    BY <2>1 DEF KillDhcp
  <2>6. QED
    BY <1>d, <2>1, <2>2, <2>3, <2>4, <2>5 DEF DhcpFacts, DhcpAlone, Alone
<1>15. CASE DhcpAlias \/ DhcpList \/ DhcpMask
  <2>1. /\ apc \in DhcpPcs /\ apc' \in DhcpPcs \cup {"idle"} /\ (apc' # "idle" => SameCall)
        /\ apc' = "dhcpRun" => acall.en /\ Sys(acall.type)
    BY <1>15, <1>b, SameCallFacts, FinishFacts DEF DhcpAlias, DhcpList, DhcpMask, AddrPcs
  <2>2. UNCHANGED <<ifaddrs, dhcp, stuck>>
    BY <1>15 DEF DhcpAlias, DhcpList, DhcpMask, Past
  <2>3. QED
    BY <1>d, <2>1, <2>2 DEF DhcpFacts, DhcpAlone, SameCall, Alone
<1>16. CASE DhcpRun
  <2>1. apc = "dhcpRun" /\ apc' = "idle" /\ UNCHANGED <<ifaddrs, stuck>>
    BY <1>16, FinishFacts DEF DhcpRun, Past
  <2>2. QED
    BY <1>d, <2>1 DEF DhcpFacts, DhcpAlone, Alone
<1>17. CASE AddrDies \/ UNCHANGED addrVars
  <2>1. apc' = "idle" \/ UNCHANGED <<apc, acall>>
    BY <1>17, FinishFacts DEF AddrDies, addrVars
  <2>2. UNCHANGED <<ifaddrs, dhcp, stuck>>
    BY <1>17 DEF AddrDies, addrVars
  <2>3. QED
    BY <1>d, <2>1, <2>2 DEF DhcpFacts, DhcpAlone, Alone
<1>18. QED
  BY <1>1, <1>2, <1>3, <1>4, <1>5, <1>6, <1>7, <1>8, <1>9, <1>10, <1>11, <1>12, <1>13, <1>14,
     <1>15, <1>16, <1>17 DEF AddrNext

(* While the DHCP client runs, the interface has no address but its lease  *)
(* and those the kernel refused to drop, in every order of calls, deaths   *)
(* and refusals (net.c:506, 611, 1123, 1234, 1268).                        *)
THEOREM DhcpAloneTheorem == AddrSpec => []DhcpAlone
<1>1. AddrInit => DhcpInv
  <2>1. AddrInit => DhcpFacts /\ DhcpAlone
    BY DEF AddrInit, DhcpFacts, DhcpAlone, ClearPcs, DhcpPcs
  <2>2. QED
    BY <2>1, InitAddrInv DEF DhcpInv
<1>2. DhcpInv /\ [AddrNext]_addrVars => DhcpInv'
  BY NextAddrInv, NextDhcpInv DEF DhcpInv
<1>3. DhcpInv => DhcpAlone
  BY DEF DhcpInv
<1>4. QED
  BY <1>1, <1>2, <1>3, PTL DEF AddrSpec

-----------------------------------------------------------------------------
(* What is kept                                                            *)

Holds(p, n) == addr[p.fam][n] = p.ip /\ p.netmask \in {mask[p.fam][n], Absent}

(* The number a call is writing or taking away: what stands there now does *)
(* not last.  A call that moves addresses down has the number below the    *)
(* one it reads free, by a copy one lower or because it was deleted.       *)
Hole(f, n) ==
  \/ apc \in {"addMask", "addList", "delMask", "delList", "clearMask"} /\ f = acall.item.fam
     /\ n = acall.item.num
  \/ apc \in ShiftPcs /\ f = acall.item.fam /\ n = acall.i - 1
  \/ apc \in {"dhcpList", "dhcpMask"} /\ f = "ip4" /\ n = 0

KeptSafe == \A p \in kept : \E n \in Numbers : Holds(p, n) /\ ~Hole(p.fam, n)

Written ==
  /\ apc \in {"addMask", "addList"} => addr[acall.item.fam][acall.item.num] = acall.item.ip
  /\ apc = "addList" /\ MaskIsWritten =>
       mask[acall.item.fam][acall.item.num] = acall.item.netmask

KeptInv == AddrInv /\ Written /\ KeptSafe

HolePcs == {"addMask", "addList", "delMask", "delList", "clearMask", "dhcpList", "dhcpMask"}
             \cup ShiftPcs

LEMMA NextKeptInv == KeptInv /\ [AddrNext]_addrVars => Written' /\ KeptSafe'
<1> SUFFICES ASSUME AddrInv, Written, KeptSafe, [AddrNext]_addrVars PROVE Written' /\ KeptSafe'
  BY DEF KeptInv
<1>a. AddrTypeOK /\ CallFacts
  BY DEF AddrInv
<1>b. acall \in CallRecords /\ apc \in AddrPcs
  BY <1>a DEF AddrTypeOK, CallRecords
<1>c. /\ acall.item.fam \in Families /\ acall.item.num \in Numbers
      /\ "ip4" \in Families /\ 0 \in Numbers /\ Numbers \subseteq Nat /\ acall.i \in Nat
  BY <1>b, AddrAssumption DEF CallRecords, Numbers
<1>d. /\ addr \in [Families -> [Numbers -> Addrs \cup Stores]]
      /\ mask \in [Families -> [Numbers -> Masks \cup Stores]]
      /\ kept \subseteq [fam : Families, ip : Addrs, netmask : Masks \cup {Absent}]
  BY <1>a DEF AddrTypeOK
<1> USE DEF ShiftPcs
\* A step that touches no more than the hole, and opens none.
<1>e. ASSUME UNCHANGED kept,
             \A f \in Families, n \in Numbers : ~Hole(f, n) =>
               addr'[f][n] = addr[f][n] /\ mask'[f][n] = mask[f][n] /\ ~Hole(f, n)'
      PROVE  KeptSafe'
  <2> SUFFICES ASSUME NEW p \in kept PROVE \E n \in Numbers : Holds(p, n)' /\ ~Hole(p.fam, n)'
    BY <1>e DEF KeptSafe
  <2>1. PICK n \in Numbers : Holds(p, n) /\ ~Hole(p.fam, n)
    BY DEF KeptSafe
  <2>2. p.fam \in Families
    BY <1>d
  <2>3. QED
    BY <1>e, <2>1, <2>2 DEF Holds
\* A step that begins to write a number: what it held is no longer promised.
<1>f. ASSUME NEW f \in Families, NEW n \in Numbers, NEW x,
             addr' = [addr EXCEPT ![f][n] = x], UNCHANGED mask, kept' = kept \ Promised(f, n),
             \A g \in Families, m \in Numbers : Hole(g, m)' => g = f /\ m = n
      PROVE  KeptSafe'
  <2> SUFFICES ASSUME NEW p \in kept, p \notin Promised(f, n)
               PROVE  \E m \in Numbers : Holds(p, m)' /\ ~Hole(p.fam, m)'
    BY <1>f DEF KeptSafe
  <2>1. PICK m \in Numbers : Holds(p, m)
    BY DEF KeptSafe
  <2>2. /\ p.fam \in Families
        /\ p = [fam |-> p.fam, ip |-> p.ip, netmask |-> p.netmask]
    BY <1>d
  <2>3. ~(p.fam = f /\ m = n)
    BY <2>1, <2>2 DEF Holds, Promised
  <2>4. addr'[p.fam][m] = addr[p.fam][m]
    BY <1>d, <1>f, <2>2, <2>3
  <2>5. QED
    BY <1>f, <2>1, <2>2, <2>3, <2>4 DEF Holds
<1>g. ASSUME UNCHANGED <<addr, mask, kept>>, apc' \notin HolePcs \/ UNCHANGED <<apc, acall>>
      PROVE  Written' /\ KeptSafe'
  <2>1. Written'
    BY <1>g DEF Written, HolePcs, MaskIsWritten
  <2>2. \A f \in Families, n \in Numbers : ~Hole(f, n) => ~Hole(f, n)'
    BY <1>g DEF Hole, HolePcs
  <2>3. QED
    BY <1>e, <1>g, <2>1, <2>2
<1>1. CASE DhcpEnds \/ DhcpLease \/ AddrDies \/ UNCHANGED addrVars
  BY <1>1, <1>g, FinishFacts DEF DhcpEnds, DhcpLease, AddrDies, addrVars, HolePcs, Store, Past
<1>2. CASE \E f \in Families : AddIp(f) \/ DelIp(f)
  <2>1. apc' \notin HolePcs
    <3>1. \A c, where : BeginAddr(c, where) => apc' = where
      BY DEF BeginAddr, Enter
    <3>2. ASSUME NEW f \in Families, AddIp(f) PROVE apc' \in {"idle", "addKernel", "addAlias"}
      <4>1. PICK t \in Types, en \in BOOLEAN : apc' = AddEntry(t, en)
        BY <3>1, <3>2 DEF AddIp
      <4>2. QED
        BY <4>1 DEF AddEntry
    <3>3. ASSUME NEW f \in Families, DelIp(f) PROVE apc' \in {"idle", "delKernel", "delAlias"}
      BY <3>1, <3>3 DEF DelIp
    <3>4. QED
      BY <1>2, <3>2, <3>3 DEF HolePcs
  <2>2. UNCHANGED <<addr, mask, kept>>
    BY <1>2 DEF AddIp, DelIp, Store, Past
  <2>3. QED
    BY <1>g, <2>1, <2>2
<1>3. CASE AddIfaddr \/ AddIfaddrFails
  <2>1. apc' \notin HolePcs
    BY <1>3, <1>b, NextItemFacts, EnterFacts DEF AddIfaddr, AddIfaddrFails, AddrPcs, HolePcs
  <2>2. UNCHANGED <<addr, mask, kept>>
    BY <1>3 DEF AddIfaddr, AddIfaddrFails, Store, Past
  <2>3. QED
    BY <1>g, <2>1, <2>2
<1>4. CASE DelIfaddr \/ DelIfaddrFails \/ ShiftMaskMissing
  <2>1. apc' \notin HolePcs
    BY <1>4, <1>b, FinishFacts, EnterFacts
       DEF DelIfaddr, DelIfaddrFails, ShiftMaskMissing, AddrPcs, HolePcs
  <2>2. UNCHANGED <<addr, mask, kept>>
    BY <1>4 DEF DelIfaddr, DelIfaddrFails, ShiftMaskMissing, Store, Past
  <2>3. QED
    BY <1>g, <2>1, <2>2
<1>5. CASE WriteList
  BY <1>5, <1>g, FinishFacts DEF WriteList, HolePcs, Past
<1>6. CASE (\E f \in Families : ClearFamily(f)) \/ ClearList
  <2>1. apc' = "clearNumber" \/ apc' = "clear"
    BY <1>6 DEF ClearFamily, ClearList, Enter
  <2>2. UNCHANGED <<addr, mask, kept>>
    BY <1>6 DEF ClearFamily, ClearList, Store, Past
  <2>3. QED
    BY <1>g, <2>1, <2>2 DEF HolePcs
<1>7. CASE ClearEnds \/ ClearKernelEnds
  <2>1. apc' \notin HolePcs
    <3>1. acall.op \in {"set", "dhcpSet", "dhcpDel"}
      BY <1>7, <1>a DEF ClearEnds, ClearKernelEnds, CallFacts, ClearPcs
    <3>2. \/ NextItem \/ Enter(acall, "clear") \/ Enter(acall, "clearKernel")
          \/ Enter(acall, "dhcpAlias") \/ Enter(acall, "dhcpRun") \/ Finish
      BY <1>7, <3>1 DEF ClearEnds, ClearKernelEnds
    <3>3. CASE NextItem
      BY <1>b, <3>3, NextItemFacts DEF HolePcs
    <3>4. CASE ~NextItem
      BY <3>2, <3>4 DEF Finish, Enter, HolePcs
    <3>5. QED
      BY <3>3, <3>4
  <2>2. UNCHANGED <<addr, mask, kept>>
    BY <1>7 DEF ClearEnds, ClearKernelEnds, Store
  <2>3. QED
    BY <1>g, <2>1, <2>2
<1>8. CASE \E f \in Families : ClearKernelOne(f)
  <2>1. UNCHANGED <<addr, mask, kept, apc, acall>>
    BY <1>8 DEF ClearKernelOne, Store
  <2>2. QED
    BY <1>g, <2>1
<1>9. CASE SetIps \/ DhcpSet \/ DhcpDel
  <2>1. apc' \notin HolePcs
    BY <1>9 DEF SetIps, DhcpSet, DhcpDel, BeginAddr, Enter, HolePcs
  <2>2. UNCHANGED <<addr, mask, kept>>
    BY <1>9 DEF SetIps, DhcpSet, DhcpDel, Store
  <2>3. QED
    BY <1>g, <2>1, <2>2
<1>10. CASE DhcpRun
  BY <1>10, <1>g, FinishFacts DEF DhcpRun, HolePcs, Store, Past
<1>11. CASE AddAlias
  <2> DEFINE f == acall.item.fam
             n == acall.item.num
  <2>1. apc' = "addMask" /\ acall' = acall
    BY <1>11, <1>b, EnterFacts DEF AddAlias, AddrPcs
  <2>2. /\ addr' = [addr EXCEPT ![f][n] = acall.item.ip]
        /\ UNCHANGED mask /\ kept' = kept \ Promised(f, n)
    BY <1>11 DEF AddAlias
  <2>3. \A g \in Families, m \in Numbers : Hole(g, m)' => g = f /\ m = n
    BY <2>1 DEF Hole
  <2>4. Written'
    BY <1>c, <1>d, <2>1, <2>2 DEF Written
  <2>5. KeptSafe'
    BY <1>c, <1>f, <2>2, <2>3
  <2>6. QED
    BY <2>4, <2>5
<1>12. CASE AddMask
  <2> DEFINE f == acall.item.fam
             n == acall.item.num
  <2>1. apc' = "addList" /\ acall' = acall /\ apc = "addMask" /\ addr[f][n] = acall.item.ip
    BY <1>12, <1>b, EnterFacts DEF AddMask, AddrPcs, Written
  <2>2. /\ mask' = IF MaskIsWritten THEN [mask EXCEPT ![f][n] = acall.item.netmask] ELSE mask
        /\ UNCHANGED <<addr, kept>>
    BY <1>12 DEF AddMask, Past
  <2>3. \A g \in Families, m \in Numbers : ~Hole(g, m) => mask'[g][m] = mask[g][m] /\ ~Hole(g, m)'
    BY <1>c, <1>d, <2>1, <2>2 DEF Hole
  <2>4. MaskIsWritten' <=> MaskIsWritten
    BY <2>1 DEF MaskIsWritten
  <2>5. Written'
    BY <1>c, <1>d, <2>1, <2>2, <2>4 DEF Written
  <2>6. QED
    BY <1>e, <2>2, <2>3, <2>5
<1>13. CASE AddList
  <2> DEFINE f == acall.item.fam
             n == acall.item.num
  <2>1. apc' \notin HolePcs /\ apc = "addList" /\ addr[f][n] = acall.item.ip
        /\ (MaskIsWritten => mask[f][n] = acall.item.netmask)
    BY <1>13, <1>b, NextItemFacts DEF AddList, HolePcs, Written
  <2>2. UNCHANGED <<addr, mask>> /\ kept' = kept \cup {Promise}
    BY <1>13 DEF AddList
  <2>3. \A g, m : ~Hole(g, m)'
    BY <2>1 DEF Hole, HolePcs
  <2>4. Promise.fam = f /\ Holds(Promise, n)
    BY <2>1 DEF Promise, Holds
  <2>5. \A p \in kept \cup {Promise} : \E m \in Numbers : Holds(p, m)
    BY <1>c, <2>4 DEF KeptSafe
  <2>6. \A p, m : Holds(p, m)' <=> Holds(p, m)
    BY <2>2 DEF Holds
  <2>7. KeptSafe'
    BY <2>2, <2>3, <2>5, <2>6 DEF KeptSafe
  <2>8. QED
    BY <2>1, <2>7 DEF Written, HolePcs
<1>14. CASE DelAlias
  <2> DEFINE f == acall.item.fam
             n == acall.item.num
  <2>1. apc' = "delMask" /\ acall' = acall
    BY <1>14, <1>b, EnterFacts DEF DelAlias, AddrPcs
  <2>2. /\ addr' = [addr EXCEPT ![f][n] = Absent]
        /\ UNCHANGED mask /\ kept' = kept \ Promised(f, n)
    BY <1>14 DEF DelAlias
  <2>3. \A g \in Families, m \in Numbers : Hole(g, m)' => g = f /\ m = n
    BY <2>1 DEF Hole
  <2>4. QED
    BY <1>c, <1>f, <2>1, <2>2, <2>3 DEF Written
<1>15. CASE DelMask
  <2>1. apc' = "delList" /\ acall' = acall /\ apc = "delMask"
    BY <1>15, <1>b, EnterFacts DEF DelMask, AddrPcs
  <2>2. /\ mask' = [mask EXCEPT ![acall.item.fam][acall.item.num] = Absent]
        /\ UNCHANGED <<addr, kept>>
    BY <1>15 DEF DelMask, Past
  <2>3. \A g \in Families, m \in Numbers : ~Hole(g, m) => mask'[g][m] = mask[g][m] /\ ~Hole(g, m)'
    BY <1>c, <1>d, <2>1, <2>2 DEF Hole
  <2>4. QED
    BY <1>e, <2>1, <2>2, <2>3 DEF Written
<1>16. CASE DelList
  <2>1. apc = "delList" /\ acall.i = acall.item.num + 1
    BY <1>16, <1>a DEF DelList, CallFacts
  <2>2. apc' = "shift" /\ acall'.item = acall.item /\ acall'.i = acall.i
    <3>1. \/ Enter(acall, "shift")
          \/ \E x : Enter([acall EXCEPT !.fresh = x], "shift")
      BY <1>16 DEF DelList
    <3>2. QED
      BY <1>b, <3>1 DEF Enter, CallRecords
  <2>3. UNCHANGED <<addr, mask, kept>>
    BY <1>16 DEF DelList, Past
  <2>4. acall.i - 1 = acall.item.num
    <3>1. acall.item.num \in Int
      BY <1>c DEF Numbers
    <3>2. \A m \in Int : (m + 1) - 1 = m
      OBVIOUS
    <3>3. QED
      BY <2>1, <3>1, <3>2
  <2>5. \A f \in Families, n \in Numbers : Hole(f, n)' => f = acall.item.fam /\ n = acall.item.num
    BY <2>2, <2>4 DEF Hole
  <2>6. \A f \in Families, n \in Numbers : ~Hole(f, n) => ~Hole(f, n)'
    BY <2>1, <2>5 DEF Hole
  <2>7. QED
    BY <1>e, <2>2, <2>3, <2>6 DEF Written
<1>17. CASE ShiftAlias
  <2>1. apc = "shift" /\ apc' = "shiftMask" /\ acall' = acall
    BY <1>17, <1>b, EnterFacts DEF ShiftAlias, AddrPcs
  <2>2. /\ addr' = [addr EXCEPT ![acall.item.fam][acall.i - 1] = addr[acall.item.fam][acall.i]]
        /\ UNCHANGED <<mask, kept>>
    BY <1>17 DEF ShiftAlias, Past
  <2>3. \A g \in Families, m \in Numbers : ~Hole(g, m) => addr'[g][m] = addr[g][m] /\ ~Hole(g, m)'
    BY <1>c, <1>d, <2>1, <2>2 DEF Hole
  <2>4. QED
    BY <1>e, <2>1, <2>2, <2>3 DEF Written
<1>18. CASE ShiftMask
  <2> DEFINE f == acall.item.fam
             i == acall.i
  <2>1. apc = "shiftMask" /\ apc' = "shift" /\ acall'.item = acall.item /\ acall'.i = i + 1
    BY <1>18, <1>b DEF ShiftMask, Enter, CallRecords
  <2>2. mask' = [mask EXCEPT ![f][i - 1] = mask[f][i]] /\ UNCHANGED <<addr, kept>>
    BY <1>18 DEF ShiftMask, Past
  <2>3. i \in Numbers /\ acall.item.num < i /\ addr[f][i - 1] = addr[f][i]
    BY <1>a, <2>1 DEF CallFacts
  <2>4. i - 1 \in Numbers /\ i - 1 # i
    BY <1>c, <2>3, AddrAssumption DEF Numbers
  <2>5. ASSUME NEW p \in kept PROVE \E n \in Numbers : Holds(p, n)' /\ ~Hole(p.fam, n)'
    <3>1. PICK n \in Numbers : Holds(p, n) /\ ~Hole(p.fam, n)
      BY DEF KeptSafe
    <3>2. p.fam \in Families
      BY <1>d
    <3>3. CASE p.fam = f /\ n = i
      <4>1. PICK j \in Numbers : j = i - 1
        BY <2>4
      <4>2. mask'[f][j] = mask[f][i]
        BY <1>c, <1>d, <2>2, <4>1
      <4>3. Holds(p, j)'
        BY <2>2, <2>3, <3>1, <3>3, <4>1, <4>2 DEF Holds
      <4>4. ~Hole(p.fam, j)'
        BY <1>c, <2>1, <4>1 DEF Hole
      <4>5. QED
        BY <4>3, <4>4
    <3>4. CASE ~(p.fam = f /\ n = i)
      <4>1. ~(p.fam = f /\ n = i - 1)
        BY <2>1, <3>1 DEF Hole
      <4>2. mask'[p.fam][n] = mask[p.fam][n]
        BY <1>d, <2>2, <3>2, <4>1
      <4>3. ~Hole(p.fam, n)'
        BY <1>c, <2>1, <3>4 DEF Hole
      <4>4. QED
        BY <2>2, <3>1, <4>2, <4>3 DEF Holds
    <3>5. QED
      BY <3>3, <3>4
  <2>6. QED
    BY <2>1, <2>2, <2>5 DEF Written, KeptSafe
<1>19. CASE ShiftEnds
  <2>1. apc = "shift" /\ apc' \in {"dropMask", "writeList"} /\ acall' = acall
    BY <1>19, <1>b, EnterFacts DEF ShiftEnds, AddrPcs
  <2>2. UNCHANGED <<addr, mask, kept>>
    BY <1>19 DEF ShiftEnds, Store, Past
  <2>3. \A g \in Families, m \in Numbers : ~Hole(g, m) => ~Hole(g, m)'
    BY <2>1 DEF Hole
  <2>4. QED
    BY <1>e, <2>1, <2>2, <2>3 DEF Written
<1>20. CASE DropMask
  <2>1. apc = "dropMask" /\ apc' = "dropAlias" /\ acall' = acall
    BY <1>20, <1>b, EnterFacts DEF DropMask, AddrPcs
  <2>2. /\ mask' = [mask EXCEPT ![acall.item.fam][acall.i - 1] = Absent]
        /\ UNCHANGED <<addr, kept>>
    BY <1>20 DEF DropMask, Past
  <2>3. \A g \in Families, m \in Numbers : ~Hole(g, m) => mask'[g][m] = mask[g][m] /\ ~Hole(g, m)'
    BY <1>c, <1>d, <2>1, <2>2 DEF Hole
  <2>4. QED
    BY <1>e, <2>1, <2>2, <2>3 DEF Written
<1>21. CASE DropAlias
  <2>1. apc = "dropAlias" /\ apc' = "writeList" /\ acall' = acall
    BY <1>21, <1>b, EnterFacts DEF DropAlias, AddrPcs
  <2>2. /\ addr' = [addr EXCEPT ![acall.item.fam][acall.i - 1] = Absent]
        /\ UNCHANGED <<mask, kept>>
    BY <1>21 DEF DropAlias, Past
  <2>3. \A g \in Families, m \in Numbers : ~Hole(g, m) => addr'[g][m] = addr[g][m] /\ ~Hole(g, m)'
    BY <1>c, <1>d, <2>1, <2>2 DEF Hole
  <2>4. QED
    BY <1>e, <2>1, <2>2, <2>3 DEF Written
<1>22. ASSUME NEW n \in Numbers, ClearAlias(n) PROVE Written' /\ KeptSafe'
  <2> DEFINE f == acall.item.fam
  <2>1. apc' = "clearMask" /\ acall'.item.fam = f /\ acall'.item.num = n
    BY <1>22, <1>b DEF ClearAlias, Enter, CallRecords
  <2>2. /\ addr' = [addr EXCEPT ![f][n] = Absent]
        /\ UNCHANGED mask /\ kept' = kept \ Promised(f, n)
    BY <1>22 DEF ClearAlias
  <2>3. \A g \in Families, m \in Numbers : Hole(g, m)' => g = f /\ m = n
    BY <2>1 DEF Hole
  <2>4. KeptSafe'
    BY <1>c, <1>f, <2>2, <2>3
  <2>5. QED
    BY <2>1, <2>4 DEF Written
<1>23. CASE ClearMask
  <2>1. apc = "clearMask" /\ apc' = "clearNumber"
    BY <1>23 DEF ClearMask, Enter
  <2>2. /\ mask' = [mask EXCEPT ![acall.item.fam][acall.item.num] = Absent]
        /\ UNCHANGED <<addr, kept>>
    BY <1>23 DEF ClearMask, Past
  <2>3. \A g \in Families, m \in Numbers : ~Hole(g, m) => mask'[g][m] = mask[g][m] /\ ~Hole(g, m)'
    BY <1>c, <1>d, <2>1, <2>2 DEF Hole
  <2>4. QED
    BY <1>e, <2>1, <2>2, <2>3 DEF Written
<1>24. CASE DhcpAlias
  <2>1. apc' = "dhcpList"
    BY <1>24 DEF DhcpAlias, Enter
  <2>2. /\ addr' = [addr EXCEPT !["ip4"][0] = Dhcp]
        /\ UNCHANGED mask /\ kept' = kept \ Promised("ip4", 0)
    BY <1>24 DEF DhcpAlias
  <2>3. \A g \in Families, m \in Numbers : Hole(g, m)' => g = "ip4" /\ m = 0
    BY <2>1 DEF Hole
  <2>4. QED
    BY <1>c, <1>f, <2>1, <2>2, <2>3 DEF Written
<1>25. CASE DhcpList
  <2>1. apc = "dhcpList" /\ apc' = "dhcpMask" /\ UNCHANGED <<addr, mask, kept>>
    BY <1>25 DEF DhcpList, Enter, Past
  <2>2. \A g \in Families, m \in Numbers : ~Hole(g, m) => ~Hole(g, m)'
    BY <2>1 DEF Hole
  <2>3. QED
    BY <1>e, <2>1, <2>2 DEF Written
<1>26. CASE DhcpMask
  <2>1. apc = "dhcpMask" /\ apc' \in {"dhcpRun", "idle"}
    BY <1>26, FinishFacts DEF DhcpMask, Enter
  <2>2. mask' = [mask EXCEPT !["ip4"][0] = Dhcp] /\ UNCHANGED <<addr, kept>>
    BY <1>26 DEF DhcpMask, Past
  <2>3. \A g \in Families, m \in Numbers : ~Hole(g, m) => mask'[g][m] = mask[g][m] /\ ~Hole(g, m)'
    BY <1>c, <1>d, <2>1, <2>2 DEF Hole
  <2>4. QED
    BY <1>e, <2>1, <2>2, <2>3 DEF Written
<1>27. QED
  BY <1>1, <1>2, <1>3, <1>4, <1>5, <1>6, <1>7, <1>8, <1>9, <1>10, <1>11, <1>12, <1>13, <1>14,
     <1>15, <1>16, <1>17, <1>18, <1>19, <1>20, <1>21, <1>22, <1>23, <1>24, <1>25, <1>26
     DEF AddrNext

(* What a call stored and reported stays stored with its netmask until a   *)
(* call about its number or all numbers, through every renumbering and     *)
(* wherever the process dies in it (net.c:2025-2069).                      *)
THEOREM KeptStoredTheorem == AddrSpec => []KeptStored
<1>1. AddrInit => KeptInv
  <2>1. AddrInit => Written /\ KeptSafe
    BY DEF AddrInit, Written, KeptSafe
  <2>2. QED
    BY <2>1, InitAddrInv DEF KeptInv
<1>2. KeptInv /\ [AddrNext]_addrVars => KeptInv'
  BY NextAddrInv, NextKeptInv DEF KeptInv
<1>3. KeptInv => KeptStored
  BY DEF KeptInv, KeptSafe, KeptStored, Holds
<1>4. QED
  BY <1>1, <1>2, <1>3, PTL DEF AddrSpec

-----------------------------------------------------------------------------
(* The list                                                                *)

StoredOnes(f) == {n \in Numbers : Stored(f, n)}
InOrder(S) == \A n \in S : \A m \in 0 .. n - 1 : m \in S

(* The list of f is what becomes of it when the numbers S are added in     *)
(* order: the numbers of one digit are all there, and no other but of S.   *)
Lists(f, S) ==
  /\ InOrder(S)
  /\ listed[f] = Absent => S = {}
  /\ listed[f] # Absent => /\ listed[f] \subseteq S
                           /\ \A n \in S : n < Base => n \in listed[f]

(* What holds of family f while a call about its number k is under way,    *)
(* and i is the number read next.                                          *)
ListingFor(f, k, i) ==
  LET S == StoredOnes(f) IN
  /\ apc \in {"addMask", "addList"} =>
       /\ InOrder(S) /\ k \in S
       /\ listed[f] = Absent => S = {0}
       /\ listed[f] # Absent => /\ listed[f] \subseteq S
                                /\ \A n \in S : n < Base /\ n # k => n \in listed[f]
  /\ apc \in DelPcs => acall.fresh = Absent
  /\ apc \in {"delMask", "delList"} => Lists(f, S \cup {k}) /\ k \notin S
  /\ apc \in ShiftPcs \cup {"writeList"} =>
       1 <= i /\ acall.fresh = IF i = 1 THEN Absent ELSE 0 .. i - 2
  /\ apc \in {"shift", "shiftMask"} => InOrder(S \cup {k}) /\ i - 1 \in S \cup {k}
  /\ apc = "shift" => /\ k \in S <=> i > k + 1
                      /\ i = 1 /\ 1 \notin S => listed[f] = Absent
  /\ apc = "shiftMask" => k \in S /\ i \in S
  /\ apc \in {"dropMask", "dropAlias"} => 2 <= i /\ S = 0 .. i - 1
  /\ apc = "writeList" => S = 0 .. i - 2 /\ (i = 1 => listed[f] = Absent)

ListingNow ==
  /\ \A f \in Families, k \in Numbers, i \in 0 .. MaxNum + 1 :
       acall.item.fam = f /\ acall.item.num = k /\ acall.i = i => ListingFor(f, k, i)
  /\ apc = "dhcpAlias" => StoredOnes("ip4") = {}
  /\ apc = "dhcpList" => StoredOnes("ip4") = {0}

FamilyPcs == {"addMask", "addList", "delMask", "delList", "writeList"} \cup ShiftPcs

(* The list is not right yet. *)
Working(f) ==
  \/ apc \in ClearPcs
  \/ apc = "dhcpList" /\ f = "ip4"
  \/ apc \in FamilyPcs /\ f = acall.item.fam

Listing == tidy => ListingNow /\ \A f \in Families : ~Working(f) => Lists(f, StoredOnes(f))

ListedInv == AddrInv /\ Listing

LEMMA OrderTop ==
  ASSUME NEW S \in SUBSET Nat, NEW i \in Nat \ {0}, InOrder(S), i - 1 \in S, i \notin S
  PROVE  S = 0 .. i - 1
<1>1. ASSUME NEW n \in 0 .. i - 1 PROVE n \in S
  <2>1. n = i - 1 \/ n \in 0 .. (i - 1) - 1
    OBVIOUS
  <2>2. QED
    BY <2>1 DEF InOrder
<1>2. ASSUME NEW n \in S PROVE n \in 0 .. i - 1
  <2>1. n \in Nat
    OBVIOUS
  <2>2. CASE n > i
    <3>1. i \in 0 .. n - 1
      BY <2>1, <2>2
    <3>2. QED
      BY <3>1 DEF InOrder
  <2>3. CASE ~(n > i)
    <3>1. n # i
      OBVIOUS
    <3>2. QED
      BY <2>1, <2>3, <3>1
  <2>4. QED
    BY <2>2, <2>3
<1>3. QED
  BY <1>1, <1>2

LEMMA OrderAdd ==
  ASSUME NEW S, InOrder(S), NEW k \in Nat, \A m \in 0 .. k - 1 : m \in S
  PROVE  InOrder(S \cup {k})
BY DEF InOrder

LEMMA OrderInterval == \A j \in Int : InOrder(0 .. j)
BY DEF InOrder

(* Storing one address stores its number, taking one away takes it away.   *)
LEMMA StoredByWrite ==
  ASSUME AddrTypeOK, NEW f \in Families, NEW n \in Numbers, NEW x \in Addrs \cup Stores,
         addr' = [addr EXCEPT ![f][n] = x]
  PROVE  /\ x = Absent => StoredOnes(f)' = StoredOnes(f) \ {n}
         /\ x # Absent => StoredOnes(f)' = StoredOnes(f) \cup {n}
<1>1. addr \in [Families -> [Numbers -> Addrs \cup Stores]]
  BY DEF AddrTypeOK
<1>2. \A g \in Families, m \in Numbers : addr'[g][m] = IF g = f /\ m = n THEN x ELSE addr[g][m]
  BY <1>1
<1>3. QED
  BY <1>2 DEF StoredOnes, Stored

(* A step of a call about number k of family f, which goes on to read      *)
(* number j, needs to be looked at in that family only.                    *)
LEMMA ListingGoesOn ==
  ASSUME Listing, tidy, NEW f \in Families, NEW k \in Numbers, NEW j \in 0 .. MaxNum + 1,
         acall.item.fam = f, acall'.item.fam = f, acall'.item.num = k, acall'.i = j,
         apc \in FamilyPcs \cup {"addAlias", "delAlias"}, apc' \in FamilyPcs,
         \A g \in Families \ {f} : addr'[g] = addr[g] /\ listed'[g] = listed[g],
         ListingFor(f, k, j)'
  PROVE  Listing'
<1> USE DEF FamilyPcs, ShiftPcs, ClearPcs
<1>1. ListingNow'
  BY DEF ListingNow
<1>2. ASSUME NEW g \in Families, ~Working(g)' PROVE Lists(g, StoredOnes(g))'
  <2>1. g # f
    BY <1>2 DEF Working
  <2>2. Lists(g, StoredOnes(g))
    BY <2>1 DEF Listing, Working
  <2>3. StoredOnes(g)' = StoredOnes(g) /\ listed'[g] = listed[g]
    BY <2>1 DEF StoredOnes, Stored
  <2>4. QED
    BY <2>2, <2>3 DEF Lists
<1>3. QED
  BY <1>1, <1>2 DEF Listing

(* A step that ends what is done to family f leaves its list right.        *)
LEMMA ListingEnds ==
  ASSUME Listing, tidy, NEW f \in Families, acall.item.fam = f, apc \in FamilyPcs,
         apc' \in {"idle", "addKernel", "addAlias"},
         \A g \in Families \ {f} : addr'[g] = addr[g] /\ listed'[g] = listed[g],
         Lists(f, StoredOnes(f))'
  PROVE  Listing'
<1> USE DEF FamilyPcs, ShiftPcs, ClearPcs, DelPcs
<1>1. ListingNow'
  BY DEF ListingNow, ListingFor
<1>2. ASSUME NEW g \in Families PROVE Lists(g, StoredOnes(g))'
  <2>1. CASE g = f
    BY <2>1
  <2>2. CASE g # f
    <3>1. Lists(g, StoredOnes(g))
      BY <2>2 DEF Listing, Working
    <3>2. StoredOnes(g)' = StoredOnes(g) /\ listed'[g] = listed[g]
      BY <2>2 DEF StoredOnes, Stored
    <3>3. QED
      BY <3>1, <3>2 DEF Lists
  <2>3. QED
    BY <2>1, <2>2
<1>3. QED
  BY <1>1, <1>2 DEF Listing

(* A step between two calls, or two parts of a call that has yet to do     *)
(* something, leaves addresses and lists alone.                            *)
LEMMA ListingRests ==
  ASSUME Listing, tidy' => tidy, UNCHANGED <<addr, listed>>,
         apc \notin FamilyPcs \cup ClearPcs \cup {"dhcpList"},
         apc' \notin FamilyPcs \cup {"dhcpAlias", "dhcpList"},
         apc' \in DelPcs => acall'.fresh = Absent
  PROVE  Listing'
<1> USE DEF FamilyPcs, ShiftPcs, ClearPcs, DelPcs
<1>1. ListingNow'
  BY DEF ListingNow, ListingFor
<1>2. ASSUME tidy, NEW g \in Families PROVE Lists(g, StoredOnes(g))'
  <2>1. Lists(g, StoredOnes(g))
    BY <1>2 DEF Listing, Working
  <2>2. StoredOnes(g)' = StoredOnes(g) /\ listed'[g] = listed[g]
    BY DEF StoredOnes, Stored
  <2>3. QED
    BY <2>1, <2>2 DEF Lists
<1>3. QED
  BY <1>1, <1>2 DEF Listing

LEMMA ListingUntouched ==
  ASSUME Listing, tidy' => tidy, UNCHANGED <<addr, listed, apc, acall>>
  PROVE  Listing'
<1>1. \A g \in Families : StoredOnes(g)' = StoredOnes(g) /\ listed'[g] = listed[g]
                         /\ (Working(g)' <=> Working(g))
  BY DEF StoredOnes, Stored, Working
<1>2. \A g \in Families, k \in Numbers, i \in 0 .. MaxNum + 1 :
        ListingFor(g, k, i)' <=> ListingFor(g, k, i)
  BY DEF ListingFor, Lists, StoredOnes, Stored
<1>3. StoredOnes("ip4")' = StoredOnes("ip4")
  BY DEF StoredOnes, Stored
<1>4. ListingNow' <=> ListingNow
  BY <1>2, <1>3 DEF ListingNow
<1>5. \A g \in Families : Lists(g, StoredOnes(g))' <=> Lists(g, StoredOnes(g))
  BY <1>1 DEF Lists
<1>6. QED
  BY <1>1, <1>4, <1>5 DEF Listing

LEMMA AddsListing ==
  ASSUME AddrTypeOK, CallFacts, Listing, AddAlias \/ AddMask \/ AddList
  PROVE  Listing'
<1> SUFFICES ASSUME tidy' PROVE Listing'
  BY DEF Listing
<1>a. acall \in CallRecords
  BY DEF AddrTypeOK, CallRecords
<1>b. PICK f \in Families, k \in Numbers, i \in 0 .. MaxNum + 1 :
        acall.item.fam = f /\ acall.item.num = k /\ acall.i = i
  BY <1>a DEF CallRecords
<1>c. /\ addr \in [Families -> [Numbers -> Addrs \cup Stores]]
      /\ listed \in [Families -> NumberSets]
      /\ Numbers = 0 .. MaxNum /\ MaxNum \in Nat /\ Base \in Nat \ {0}
      /\ \A S \in SUBSET Numbers : S # Absent
  BY AddrAssumption DEF AddrTypeOK, Numbers
<1>d. tidy => ListingFor(f, k, i)
  BY <1>b DEF Listing, ListingNow
<1> USE DEF FamilyPcs, ShiftPcs, DelPcs
<1>1. CASE AddAlias
  <2>1. apc = "addAlias" /\ apc' = "addMask" /\ acall' = acall
    BY <1>1, <1>a, EnterFacts DEF AddAlias, AddrPcs
  <2>2. acall.item.ip \in Addrs /\ acall.item.ip # Absent
    BY <2>1, AddrAssumption DEF CallFacts, AddPcs, Items
  <2>3. /\ addr' = [addr EXCEPT ![f][k] = acall.item.ip] /\ UNCHANGED listed
        /\ tidy /\ \A m \in 0 .. k - 1 : Stored(f, m)
    BY <1>1, <1>b DEF AddAlias
  <2>4. StoredOnes(f)' = StoredOnes(f) \cup {k}
    <3>1. acall.item.ip \in Addrs \cup Stores
      BY <2>2
    <3>2. addr' = [addr EXCEPT ![f][k] = acall.item.ip] /\ acall.item.ip # Absent
      BY <2>2, <2>3
    <3>3. QED
      BY <3>1, <3>2, StoredByWrite
  <2>5. Lists(f, StoredOnes(f))
    BY <2>1, <2>3 DEF Listing, Working, ClearPcs
  <2>6. \A m \in 0 .. k - 1 : m \in StoredOnes(f)
    BY <1>c, <2>3 DEF StoredOnes
  <2>7. InOrder(StoredOnes(f) \cup {k})
    BY <1>c, <2>5, <2>6, OrderAdd DEF Lists
  <2>8. listed[f] = Absent => StoredOnes(f) \cup {k} = {0}
    <3>1. SUFFICES ASSUME listed[f] = Absent, k # 0 PROVE FALSE
      BY <2>5 DEF Lists
    <3>2. 0 \in StoredOnes(f)
      BY <1>c, <2>6, <3>1
    <3>3. QED
      BY <2>5, <3>1, <3>2 DEF Lists
  <2>9. ListingFor(f, k, i)'
    BY <2>1, <2>3, <2>4, <2>5, <2>7, <2>8 DEF ListingFor, Lists
  <2>10. \A g \in Families \ {f} : addr'[g] = addr[g] /\ listed'[g] = listed[g]
    BY <1>c, <2>3
  <2>11. QED
    BY <1>b, <2>1, <2>3, <2>9, <2>10, ListingGoesOn
<1>2. CASE AddMask
  <2>1. apc = "addMask" /\ apc' = "addList" /\ acall' = acall
    BY <1>2, <1>a, EnterFacts DEF AddMask, AddrPcs
  <2>2. UNCHANGED <<addr, listed, tidy>>
    BY <1>2 DEF AddMask, Past
  <2>3. StoredOnes(f)' = StoredOnes(f)
    BY <2>2 DEF StoredOnes, Stored
  <2>4. ListingFor(f, k, i)'
    BY <1>d, <2>1, <2>2, <2>3 DEF ListingFor
  <2>5. QED
    BY <1>b, <2>1, <2>2, <2>4, ListingGoesOn
<1>3. CASE AddList
  <2> DEFINE S == StoredOnes(f)
  <2>1. apc = "addList" /\ apc' \in {"idle", "addKernel", "addAlias"}
    BY <1>3, <1>a, NextItemFacts DEF AddList
  <2>2. /\ UNCHANGED addr /\ tidy
        /\ listed' = [listed EXCEPT ![f] = IF listed[f] = Absent THEN {Printed(k)}
                                          ELSE listed[f] \cup {Printed(k)}]
    BY <1>3, <1>b DEF AddList
  <2>3. /\ InOrder(S) /\ k \in S
        /\ listed[f] = Absent => S = {0}
        /\ listed[f] # Absent => /\ listed[f] \subseteq S
                                 /\ \A n \in S : n < Base /\ n # k => n \in listed[f]
    BY <1>d, <2>1, <2>2 DEF ListingFor
  <2>4. StoredOnes(f)' = StoredOnes(f) /\ S \subseteq Numbers
    BY <2>2 DEF StoredOnes, Stored
  <2>5. Printed(k) \in S /\ (k < Base => Printed(k) = k)
    <3>1. CASE k < Base
      BY <2>3, <3>1 DEF Printed
    <3>2. CASE ~(k < Base)
      <4>1. k \in Nat /\ k >= Base
        BY <1>c, <3>2
      <4>2. k \div Base \in 0 .. k
        <5>1. k \in Nat /\ Base \in Nat \ {0}
          BY <1>c, <4>1
        <5>2. k \div Base \in Nat /\ k \div Base <= k
          BY <5>1
        <5>3. QED
          BY <5>1, <5>2
      <4>3. k \div Base \in S
        <5>1. k \div Base = k \/ k \div Base \in 0 .. k - 1
          BY <4>1, <4>2
        <5>2. QED
          BY <2>3, <5>1 DEF InOrder
      <4>4. QED
        BY <3>2, <4>3 DEF Printed
    <3>3. QED
      BY <3>1, <3>2
  <2>6. listed'[f] = IF listed[f] = Absent THEN {Printed(k)} ELSE listed[f] \cup {Printed(k)}
    BY <1>c, <2>2
  <2>7. listed'[f] # Absent /\ listed'[f] \subseteq S
    <3>1. listed'[f] \subseteq S
      BY <2>3, <2>5, <2>6
    <3>2. QED
      BY <1>c, <2>4, <3>1
  <2>8. ASSUME NEW n \in S, n < Base PROVE n \in listed'[f]
    <3>1. CASE n = k
      BY <2>5, <2>6, <2>8, <3>1
    <3>2. CASE n # k
      BY <2>3, <2>6, <2>8, <3>2
    <3>3. QED
      BY <3>1, <3>2
  <2>9. Lists(f, StoredOnes(f))'
    BY <2>3, <2>4, <2>7, <2>8 DEF Lists
  <2>10. \A g \in Families \ {f} : addr'[g] = addr[g] /\ listed'[g] = listed[g]
    BY <1>c, <2>2
  <2>11. QED
    BY <1>b, <2>1, <2>2, <2>9, <2>10, ListingEnds
<1>4. QED
  BY <1>1, <1>2, <1>3

LEMMA DeletesListing ==
  ASSUME AddrTypeOK, CallFacts, Listing, DelAlias \/ DelMask \/ DelList
  PROVE  Listing'
<1> SUFFICES ASSUME tidy' PROVE Listing'
  BY DEF Listing
<1>a. acall \in CallRecords
  BY DEF AddrTypeOK, CallRecords
<1>b. PICK f \in Families, k \in Numbers, i \in 0 .. MaxNum + 1 :
        acall.item.fam = f /\ acall.item.num = k /\ acall.i = i
  BY <1>a DEF CallRecords
<1>c. /\ addr \in [Families -> [Numbers -> Addrs \cup Stores]]
      /\ listed \in [Families -> NumberSets]
      /\ Numbers = 0 .. MaxNum /\ MaxNum \in Nat /\ Base \in Nat \ {0}
      /\ \A S \in SUBSET Numbers : S # Absent
  BY AddrAssumption DEF AddrTypeOK, Numbers
<1>d. tidy => ListingFor(f, k, i)
  BY <1>b DEF Listing, ListingNow
<1> USE DEF FamilyPcs, ShiftPcs, DelPcs
<1>1. CASE DelAlias
  <2>1. apc = "delAlias" /\ apc' = "delMask" /\ acall' = acall
    BY <1>1, <1>a, EnterFacts DEF DelAlias, AddrPcs
  <2>2. /\ addr' = [addr EXCEPT ![f][k] = Absent] /\ UNCHANGED listed
        /\ tidy /\ Stored(f, k)
    BY <1>1, <1>b DEF DelAlias
  <2>3. StoredOnes(f)' = StoredOnes(f) \ {k}
    <3>1. Absent \in Addrs \cup Stores
      BY DEF Stores
    <3>2. addr' = [addr EXCEPT ![f][k] = Absent]
      BY <2>2
    <3>3. QED
      BY <3>1, <3>2, StoredByWrite
  <2>4. Lists(f, StoredOnes(f))
    BY <2>1, <2>2 DEF Listing, Working, ClearPcs
  <2>5. k \in StoredOnes(f) /\ acall.fresh = Absent
    BY <1>d, <2>1, <2>2 DEF StoredOnes, ListingFor
  <2>6. (StoredOnes(f) \ {k}) \cup {k} = StoredOnes(f)
    BY <2>5
  <2>7. Lists(f, StoredOnes(f) \cup {k})'
    BY <2>2, <2>3, <2>4, <2>6 DEF Lists
  <2>8. ListingFor(f, k, i)'
    BY <2>1, <2>3, <2>5, <2>7 DEF ListingFor
  <2>9. \A g \in Families \ {f} : addr'[g] = addr[g] /\ listed'[g] = listed[g]
    BY <1>c, <2>2
  <2>10. QED
    BY <1>b, <2>1, <2>2, <2>8, <2>9, ListingGoesOn
<1>2. CASE DelMask
  <2>1. apc = "delMask" /\ apc' = "delList" /\ acall' = acall
    BY <1>2, <1>a, EnterFacts DEF DelMask, AddrPcs
  <2>2. UNCHANGED <<addr, listed, tidy>>
    BY <1>2 DEF DelMask, Past
  <2>3. StoredOnes(f)' = StoredOnes(f)
    BY <2>2 DEF StoredOnes, Stored
  <2>4. ListingFor(f, k, i)'
    BY <1>d, <2>1, <2>2, <2>3 DEF ListingFor, Lists
  <2>5. QED
    BY <1>b, <2>1, <2>2, <2>4, ListingGoesOn
<1>3. CASE DelList
  <2> DEFINE S == StoredOnes(f)
  <2>1. apc = "delList" /\ i = k + 1 /\ tidy /\ UNCHANGED addr
    BY <1>3, <1>b DEF DelList, CallFacts, Past
  <2>2. /\ acall.fresh = Absent /\ Lists(f, S \cup {k}) /\ k \notin S
    BY <1>d, <2>1 DEF ListingFor
  <2>3. StoredOnes(f)' = S /\ S \subseteq Numbers
    BY <2>1 DEF StoredOnes, Stored
  <2>4. listed[f] = {0} => S = {} /\ k = 0
    <3>1. SUFFICES ASSUME listed[f] = {0} PROVE \A n \in S \cup {k} : n = 0
      BY <2>2
    <3>2. SUFFICES ASSUME NEW n \in S \cup {k}, n # 0 PROVE FALSE
      OBVIOUS
    <3>3. n \in Nat /\ listed[f] # Absent
      BY <1>c, <2>3, <3>1
    <3>4. \A m \in S \cup {k} : m < Base => m = 0
      BY <2>2, <3>1, <3>3 DEF Lists
    <3>5. n >= Base
      BY <1>c, <3>2, <3>3, <3>4
    <3>6. ASSUME Base > 1 PROVE FALSE
      <4>1. 1 \in S \cup {k}
        BY <1>c, <2>2, <3>3, <3>5, <3>6 DEF Lists, InOrder
      <4>2. QED
        BY <3>4, <3>6, <4>1
    <3>7. ASSUME Base = 1 PROVE FALSE
      <4>1. MaxNum = 0
        BY <1>c, <3>7, AddrAssumption
      <4>2. n \in Numbers
        BY <2>3
      <4>3. QED
        BY <1>c, <3>2, <4>1, <4>2
    <3>8. QED
      BY <1>c, <3>6, <3>7
  <2>5. i = 1 /\ 1 \notin S /\ listed[f] # {0} => listed[f] = Absent
    <3>1. SUFFICES ASSUME k = 0, 1 \notin S, listed[f] # Absent PROVE listed[f] = {0}
      BY <1>c, <2>1
    <3>2. S \cup {k} = {0}
      <4>1. SUFFICES ASSUME NEW n \in S, n # 0 PROVE FALSE
        BY <3>1
      <4>2. n \in Nat /\ n # 1
        BY <1>c, <2>3, <3>1, <4>1
      <4>3. 1 \in 0 .. n - 1
        BY <4>1, <4>2
      <4>4. 1 \in S \cup {k}
        BY <2>2, <4>1, <4>3 DEF Lists, InOrder
      <4>5. QED
        BY <3>1, <4>4
    <3>3. listed[f] \subseteq {0} /\ (0 < Base => 0 \in listed[f])
      BY <2>2, <3>1, <3>2 DEF Lists
    <3>4. QED
      BY <1>c, <3>3
  <2> DEFINE before == 0 .. k - 1
             fresh  == IF before = {} THEN Absent ELSE before
  <2>6. fresh = IF i = 1 THEN Absent ELSE 0 .. i - 2
    BY <1>c, <2>1
  <2>7. /\ apc' = "shift" /\ acall'.item = acall.item /\ acall'.i = i
        /\ IF listed[f] = {0} THEN acall'.fresh = acall.fresh /\ listed' = [listed EXCEPT ![f] = Absent]
           ELSE acall'.fresh = fresh /\ UNCHANGED listed
    <3>1. IF listed[f] = {0} THEN Enter(acall, "shift") /\ listed' = [listed EXCEPT ![f] = Absent]
          ELSE Enter([acall EXCEPT !.fresh = fresh], "shift") /\ UNCHANGED listed
      BY <1>3, <1>b DEF DelList
    <3> HIDE DEF fresh
    <3>2. QED
      BY <1>a, <1>b, <3>1 DEF Enter, CallRecords
  <2>8. 1 <= i /\ acall'.fresh = IF i = 1 THEN Absent ELSE 0 .. i - 2
    <3>1. 1 <= i
      BY <1>c, <2>1
    <3>2. listed[f] = {0} => i = 1
      BY <2>1, <2>4
    <3> HIDE DEF fresh
    <3>3. QED
      BY <2>2, <2>6, <2>7, <3>1, <3>2
  <2>9. listed'[f] = IF listed[f] = {0} THEN Absent ELSE listed[f]
    BY <1>c, <2>7
  <2>10. i = 1 /\ 1 \notin S => listed'[f] = Absent
    BY <2>5, <2>9
  <2>11. InOrder(S \cup {k}) /\ i - 1 \in S \cup {k} /\ ~(i > k + 1)
    BY <1>c, <2>1, <2>2 DEF Lists
  <2>12. ListingFor(f, k, i)'
    BY <2>2, <2>3, <2>7, <2>8, <2>10, <2>11 DEF ListingFor
  <2>13. \A g \in Families \ {f} : addr'[g] = addr[g] /\ listed'[g] = listed[g]
    BY <1>c, <2>1, <2>7
  <2>14. QED
    BY <1>b, <2>1, <2>7, <2>12, <2>13, ListingGoesOn
<1>4. QED
  BY <1>1, <1>2, <1>3

LEMMA ShiftsListing ==
  ASSUME AddrTypeOK, CallFacts, Listing,
         ShiftAlias \/ ShiftMask \/ ShiftEnds \/ DropMask \/ DropAlias \/ WriteList
  PROVE  Listing'
<1> SUFFICES ASSUME tidy' PROVE Listing'
  BY DEF Listing
<1>a. acall \in CallRecords
  BY DEF AddrTypeOK, CallRecords
<1>b. PICK f \in Families, k \in Numbers, i \in 0 .. MaxNum + 1 :
        acall.item.fam = f /\ acall.item.num = k /\ acall.i = i
  BY <1>a DEF CallRecords
<1>c. /\ addr \in [Families -> [Numbers -> Addrs \cup Stores]]
      /\ listed \in [Families -> NumberSets]
      /\ Numbers = 0 .. MaxNum /\ MaxNum \in Nat
      /\ \A S \in SUBSET Numbers : S # Absent
  BY AddrAssumption DEF AddrTypeOK, Numbers
<1>d. tidy => ListingFor(f, k, i)
  BY <1>b DEF Listing, ListingNow
<1> DEFINE S == StoredOnes(f)
<1>e. S \subseteq Numbers /\ k \in Nat /\ i \in Nat
  BY <1>c DEF StoredOnes
<1> USE DEF FamilyPcs, ShiftPcs, DelPcs
<1>1. CASE ShiftAlias
  <2>1. apc = "shift" /\ apc' = "shiftMask" /\ acall' = acall
    BY <1>1, <1>a, EnterFacts DEF ShiftAlias, AddrPcs
  <2>2. /\ addr' = [addr EXCEPT ![f][i - 1] = addr[f][i]] /\ UNCHANGED <<listed, tidy>>
        /\ At(addr[f], i) # Absent
    BY <1>1, <1>b DEF ShiftAlias, Past
  <2>3. /\ 1 <= i /\ acall.fresh = IF i = 1 THEN Absent ELSE 0 .. i - 2
        /\ InOrder(S \cup {k}) /\ i - 1 \in S \cup {k} /\ (k \in S <=> i > k + 1)
    BY <1>d, <2>1, <2>2 DEF ListingFor
  <2>4. i \in Numbers /\ addr[f][i] # Absent /\ i \in S /\ i - 1 \in Numbers
    <3>1. i \in Numbers /\ addr[f][i] # Absent
      BY <2>2 DEF At
    <3>2. QED
      BY <1>c, <2>3, <3>1 DEF StoredOnes, Stored
  <2>5. StoredOnes(f)' = S \cup {i - 1}
    <3>1. addr[f][i] \in Addrs \cup Stores
      BY <1>c, <2>4
    <3>2. QED
      BY <2>2, <2>4, <3>1, StoredByWrite
  <2>6. k \in S \cup {i - 1}
    <3>1. k < i
      BY <1>b, <2>1 DEF CallFacts
    <3>2. CASE i > k + 1
      BY <2>3, <3>2
    <3>3. CASE ~(i > k + 1)
      <4>1. k = i - 1
        BY <1>e, <3>1, <3>3
      <4>2. QED
        BY <4>1
    <3>4. QED
      BY <3>2, <3>3
  <2>7. (S \cup {i - 1}) \cup {k} = S \cup {k}
    BY <2>3
  <2>8. ListingFor(f, k, i)'
    BY <2>1, <2>3, <2>4, <2>5, <2>6, <2>7 DEF ListingFor
  <2>9. \A g \in Families \ {f} : addr'[g] = addr[g] /\ listed'[g] = listed[g]
    BY <1>c, <2>2
  <2>10. QED
    BY <1>b, <2>1, <2>2, <2>8, <2>9, ListingGoesOn
<1>2. CASE ShiftMask
  <2>1. apc = "shiftMask" /\ UNCHANGED <<addr, listed, tidy>>
    BY <1>2 DEF ShiftMask, Past
  <2>2. Enter([acall EXCEPT !.i = i + 1, !.fresh = AddTo(acall.fresh, i - 1)], "shift")
    BY <1>2, <1>a, <1>b DEF ShiftMask, CallRecords
  <2>3. /\ apc' = "shift" /\ acall'.item = acall.item /\ acall'.i = i + 1
        /\ acall'.fresh = AddTo(acall.fresh, i - 1)
    BY <1>a, <2>2 DEF Enter, CallRecords
  <2>4. /\ 1 <= i /\ acall.fresh = IF i = 1 THEN Absent ELSE 0 .. i - 2
        /\ InOrder(S \cup {k}) /\ k \in S /\ i \in S
    BY <1>d, <2>1 DEF ListingFor
  <2>5. StoredOnes(f)' = S
    BY <2>1 DEF StoredOnes, Stored
  <2>6. PICK j \in 0 .. MaxNum + 1 : j = i + 1
    BY <1>c, <1>e, <2>4
  <2>7. acall'.fresh = IF j = 1 THEN Absent ELSE 0 .. j - 2
    <3>1. 0 .. i - 2 \in SUBSET Numbers
      BY <1>c, <1>e, <2>4
    <3>2. 0 .. i - 2 # Absent
      BY <1>c, <3>1
    <3>3. CASE i = 1
      <4>1. acall'.fresh = {0}
        BY <2>3, <2>4, <3>3 DEF AddTo
      <4>2. {0} = 0 .. j - 2
        BY <2>6, <3>3
      <4>3. QED
        BY <2>6, <3>3, <4>1, <4>2
    <3>4. CASE i # 1
      <4>1. acall'.fresh = (0 .. i - 2) \cup {i - 1}
        BY <2>3, <2>4, <3>2, <3>4 DEF AddTo
      <4>2. (0 .. i - 2) \cup {i - 1} = 0 .. j - 2
        BY <1>e, <2>4, <2>6, <3>4
      <4>3. QED
        BY <1>e, <2>6, <4>1, <4>2
    <3>5. QED
      BY <3>3, <3>4
  <2>8. k < i
    BY <1>b, <2>1 DEF CallFacts
  <2>9. 1 <= j /\ j > k + 1 /\ j - 1 = i /\ j # 1
    BY <1>e, <2>4, <2>6, <2>8
  <2>10. ListingFor(f, k, j)'
    BY <2>3, <2>4, <2>5, <2>7, <2>9 DEF ListingFor
  <2>11. QED
    BY <1>b, <2>1, <2>3, <2>6, <2>10, ListingGoesOn
<1>3. CASE ShiftEnds
  <2>1. /\ apc = "shift" /\ acall' = acall /\ UNCHANGED <<addr, listed, tidy>>
        /\ apc' = IF i > k + 1 THEN "dropMask" ELSE "writeList"
    BY <1>3, <1>a, <1>b, EnterFacts DEF ShiftEnds, AddrPcs, Store, Past
  <2>2. At(addr[f], i) = Absent
    BY <1>3, <1>b DEF ShiftEnds
  <2>3. /\ 1 <= i /\ acall.fresh = IF i = 1 THEN Absent ELSE 0 .. i - 2
        /\ InOrder(S \cup {k}) /\ i - 1 \in S \cup {k} /\ (k \in S <=> i > k + 1)
        /\ i = 1 /\ 1 \notin S => listed[f] = Absent
    BY <1>d, <2>1 DEF ListingFor
  <2>4. k < i /\ i \notin S
    BY <1>b, <2>1, <2>2 DEF CallFacts, At, StoredOnes, Stored
  <2>5. S \cup {k} = 0 .. i - 1
    <3>1. S \cup {k} \in SUBSET Nat /\ i \in Nat \ {0} /\ i \notin S \cup {k}
      BY <1>c, <1>e, <2>3, <2>4
    <3>2. QED
      BY <2>3, <3>1, OrderTop
  <2>6. StoredOnes(f)' = S
    BY <2>1 DEF StoredOnes, Stored
  <2>7. CASE i > k + 1
    <3>1. S = 0 .. i - 1 /\ 2 <= i
      <4>1. 2 <= i
        BY <1>e, <2>7
      <4>2. S \cup {k} = S
        BY <2>3, <2>7
      <4>3. QED
        BY <2>5, <4>1, <4>2
    <3>2. ListingFor(f, k, i)'
      BY <2>1, <2>3, <2>6, <2>7, <3>1 DEF ListingFor
    <3>3. QED
      BY <1>b, <2>1, <2>7, <3>2, ListingGoesOn
  <2>8. CASE ~(i > k + 1)
    <3>1. k = i - 1 /\ k \notin S
      BY <1>e, <2>3, <2>4, <2>8
    <3>2. S = 0 .. i - 2
      <4>1. (0 .. i - 1) \ {k} = 0 .. i - 2
        BY <1>e, <3>1
      <4>2. S = (S \cup {k}) \ {k}
        BY <3>1
      <4>3. QED
        BY <2>5, <4>1, <4>2
    <3>3. i = 1 => listed[f] = Absent
      BY <2>3, <2>4
    <3>4. ListingFor(f, k, i)'
      BY <2>1, <2>3, <2>6, <2>8, <3>2, <3>3 DEF ListingFor
    <3>5. QED
      BY <1>b, <2>1, <2>8, <3>4, ListingGoesOn
  <2>9. QED
    BY <2>7, <2>8
<1>4. CASE DropMask
  <2>1. apc = "dropMask" /\ apc' = "dropAlias" /\ acall' = acall
    BY <1>4, <1>a, EnterFacts DEF DropMask, AddrPcs
  <2>2. UNCHANGED <<addr, listed, tidy>>
    BY <1>4 DEF DropMask, Past
  <2>3. StoredOnes(f)' = S
    BY <2>2 DEF StoredOnes, Stored
  <2>4. ListingFor(f, k, i)'
    BY <1>d, <2>1, <2>2, <2>3 DEF ListingFor
  <2>5. QED
    BY <1>b, <2>1, <2>2, <2>4, ListingGoesOn
<1>5. CASE DropAlias
  <2>1. apc = "dropAlias" /\ apc' = "writeList" /\ acall' = acall
    BY <1>5, <1>a, EnterFacts DEF DropAlias, AddrPcs
  <2>2. addr' = [addr EXCEPT ![f][i - 1] = Absent] /\ UNCHANGED <<listed, tidy>>
    BY <1>5, <1>b DEF DropAlias, Past
  <2>3. /\ 2 <= i /\ S = 0 .. i - 1 /\ acall.fresh = IF i = 1 THEN Absent ELSE 0 .. i - 2
    BY <1>d, <2>1, <2>2 DEF ListingFor
  <2>4. i - 1 \in Numbers /\ Absent \in Addrs \cup Stores
    BY <1>c, <1>e, <2>3 DEF Stores
  <2>5. StoredOnes(f)' = S \ {i - 1}
    BY <2>2, <2>4, StoredByWrite
  <2>6. S \ {i - 1} = 0 .. i - 2
    BY <1>e, <2>3
  <2>7. ListingFor(f, k, i)'
    BY <1>e, <2>1, <2>3, <2>5, <2>6 DEF ListingFor
  <2>8. \A g \in Families \ {f} : addr'[g] = addr[g] /\ listed'[g] = listed[g]
    BY <1>c, <2>2
  <2>9. QED
    BY <1>b, <2>1, <2>2, <2>7, <2>8, ListingGoesOn
<1>6. CASE WriteList
  <2>1. apc = "writeList" /\ apc' = "idle"
    BY <1>6, FinishFacts DEF WriteList
  <2>2. /\ listed' = IF acall.fresh = Absent THEN listed ELSE [listed EXCEPT ![f] = acall.fresh]
        /\ UNCHANGED <<addr, tidy>>
    BY <1>6, <1>b DEF WriteList, Past
  <2>3. /\ 1 <= i /\ acall.fresh = IF i = 1 THEN Absent ELSE 0 .. i - 2
        /\ S = 0 .. i - 2 /\ (i = 1 => listed[f] = Absent)
    BY <1>d, <2>1, <2>2 DEF ListingFor
  <2>4. StoredOnes(f)' = S
    BY <2>2 DEF StoredOnes, Stored
  <2>5. InOrder(S)
    BY <1>e, <2>3, OrderInterval
  <2>6. listed'[f] = IF i = 1 THEN Absent ELSE S
    <3>1. S # Absent
      BY <1>c, <1>e
    <3>2. QED
      BY <1>c, <2>2, <2>3, <3>1
  <2>7. (i = 1 => S = {}) /\ S # Absent
    <3>1. S \in SUBSET Numbers
      BY <1>e
    <3>2. QED
      BY <1>c, <2>3, <3>1
  <2>8. Lists(f, StoredOnes(f))'
    <3> HIDE DEF S
    <3>1. CASE i = 1
      BY <2>4, <2>5, <2>6, <2>7, <3>1 DEF Lists
    <3>2. CASE i # 1
      BY <2>4, <2>5, <2>6, <2>7, <3>2 DEF Lists
    <3>3. QED
      BY <3>1, <3>2
  <2>9. \A g \in Families \ {f} : addr'[g] = addr[g] /\ listed'[g] = listed[g]
    BY <1>c, <2>2
  <2>10. QED
    BY <1>b, <2>1, <2>2, <2>8, <2>9, ListingEnds
<1>7. QED
  BY <1>1, <1>2, <1>3, <1>4, <1>5, <1>6

(* The empty store has the empty list; the DHCP client's word is number 0. *)
LEMMA ClearedListing ==
  ASSUME AddrTypeOK, CallFacts, Listing, ClearEnds \/ DhcpAlias \/ DhcpList
  PROVE  Listing'
<1> SUFFICES ASSUME tidy' PROVE Listing'
  BY DEF Listing
<1>a. acall \in CallRecords
  BY DEF AddrTypeOK, CallRecords
<1>b. /\ addr \in [Families -> [Numbers -> Addrs \cup Stores]]
      /\ listed \in [Families -> NumberSets]
      /\ Numbers = 0 .. MaxNum /\ MaxNum \in Nat /\ Base \in Nat \ {0}
      /\ "ip4" \in Families /\ 0 \in Numbers
  BY AddrAssumption DEF AddrTypeOK, Numbers
<1> USE DEF FamilyPcs, ShiftPcs, DelPcs, ClearPcs
<1>1. CASE ClearEnds
  <2>1. acall.op \in {"set", "dhcpSet", "dhcpDel"}
    BY <1>1 DEF ClearEnds, CallFacts
  <2>2. \/ Enter(acall, "clearKernel") \/ NextItem \/ Enter(acall, "dhcpAlias") \/ Finish
    BY <1>1, <2>1 DEF ClearEnds
  <2>3. apc' \in {"clearKernel", "dhcpAlias", "idle", "addKernel", "addAlias"}
    <3>1. CASE NextItem
      BY <1>a, <3>1, NextItemFacts
    <3>2. CASE ~NextItem
      BY <2>2, <3>2 DEF Finish, Enter
    <3>3. QED
      BY <3>1, <3>2
  <2>4. /\ \A f \in Families : listed[f] = Absent
        /\ UNCHANGED <<addr, listed>> /\ Nothing
    BY <1>1 DEF ClearEnds, Store
  <2>5. \A f \in Families : StoredOnes(f)' = {}
    BY <2>4 DEF StoredOnes, Stored, Nothing
  <2>6. \A f \in Families : Lists(f, StoredOnes(f))'
    BY <2>4, <2>5 DEF Lists, InOrder
  <2>7. ListingNow'
    BY <1>b, <2>3, <2>5 DEF ListingNow, ListingFor
  <2>8. QED
    BY <2>6, <2>7 DEF Listing
<1>2. CASE DhcpAlias
  <2>1. apc = "dhcpAlias" /\ apc' = "dhcpList" /\ tidy
    BY <1>2 DEF DhcpAlias, Enter
  <2>2. addr' = [addr EXCEPT !["ip4"][0] = Dhcp] /\ UNCHANGED listed
    BY <1>2 DEF DhcpAlias
  <2>3. StoredOnes("ip4") = {}
    BY <2>1 DEF Listing, ListingNow
  <2>4. StoredOnes("ip4")' = {0}
    <3>1. Dhcp \in Addrs \cup Stores /\ Dhcp # Absent
      BY AddrAssumption DEF Stores
    <3>2. StoredOnes("ip4")' = StoredOnes("ip4") \cup {0}
      BY <1>b, <2>2, <3>1, StoredByWrite
    <3>3. QED
      BY <2>3, <3>2
  <2>5. ListingNow'
    BY <2>1, <2>4 DEF ListingNow, ListingFor
  <2>6. ASSUME NEW g \in Families, g # "ip4" PROVE Lists(g, StoredOnes(g))'
    <3>1. Lists(g, StoredOnes(g))
      BY <2>1 DEF Listing, Working
    <3>2. addr'[g] = addr[g]
      BY <1>b, <2>2, <2>6
    <3>3. StoredOnes(g)' = StoredOnes(g)
      BY <3>2 DEF StoredOnes, Stored
    <3>4. QED
      BY <2>2, <3>1, <3>3 DEF Lists
  <2>7. QED
    BY <2>1, <2>5, <2>6 DEF Listing, Working
<1>3. CASE DhcpList
  <2>1. apc = "dhcpList" /\ apc' = "dhcpMask" /\ tidy
    BY <1>3 DEF DhcpList, Enter, Past
  <2>2. listed' = [listed EXCEPT !["ip4"] = {0}] /\ UNCHANGED addr
    BY <1>3 DEF DhcpList
  <2>3. StoredOnes("ip4") = {0}
    BY <2>1 DEF Listing, ListingNow
  <2>4. \A g : StoredOnes(g)' = StoredOnes(g)
    BY <2>2 DEF StoredOnes, Stored
  <2>5. ListingNow'
    BY <2>1 DEF ListingNow, ListingFor
  <2>6. ASSUME NEW g \in Families PROVE Lists(g, StoredOnes(g))'
    <3>1. CASE g = "ip4"
      <4>1. listed'[g] = {0} /\ StoredOnes(g)' = {0}
        BY <1>b, <2>2, <2>3, <2>4, <3>1
      <4>2. {0} # Absent
        <5>1. {0} \in SUBSET Numbers
          BY <1>b
        <5>2. QED
          BY <5>1, AddrAssumption
      <4>3. InOrder({0})
        BY DEF InOrder
      <4>4. QED
        BY <4>1, <4>2, <4>3 DEF Lists
    <3>2. CASE g # "ip4"
      <4>1. Lists(g, StoredOnes(g)) /\ listed'[g] = listed[g]
        BY <1>b, <2>1, <2>2, <3>2 DEF Listing, Working
      <4>2. QED
        BY <2>4, <4>1 DEF Lists
    <3>3. QED
      BY <3>1, <3>2
  <2>7. QED
    BY <2>5, <2>6 DEF Listing
<1>4. QED
  BY <1>1, <1>2, <1>3

LEMMA NextListing == ListedInv /\ [AddrNext]_addrVars => Listing'
<1> SUFFICES ASSUME AddrTypeOK, CallFacts, Listing, [AddrNext]_addrVars PROVE Listing'
  BY DEF ListedInv, AddrInv
<1>a. acall \in CallRecords /\ apc \in AddrPcs
  BY DEF AddrTypeOK, CallRecords
<1>b. \A c, where : BeginAddr(c, where) =>
        apc = "idle" /\ apc' = where /\ (apc' # "idle" => acall' = c)
  BY DEF BeginAddr, Enter
<1>c. ASSUME tidy /\ apc \in DelPcs PROVE acall.fresh = Absent
  <2>1. PICK f \in Families, k \in Numbers, i \in 0 .. MaxNum + 1 :
          acall.item.fam = f /\ acall.item.num = k /\ acall.i = i
    BY <1>a DEF CallRecords
  <2>2. ListingFor(f, k, i)
    BY <1>c, <2>1 DEF Listing, ListingNow
  <2>3. QED
    BY <1>c, <2>2 DEF ListingFor
<1> USE DEF FamilyPcs, ShiftPcs, DelPcs, ClearPcs
<1>1. CASE DhcpEnds \/ DhcpLease \/ UNCHANGED addrVars
  <2>1. UNCHANGED <<addr, listed, apc, acall, tidy>>
    BY <1>1 DEF DhcpEnds, DhcpLease, addrVars, Store, Past
  <2>2. QED
    BY <2>1, ListingUntouched
<1>2. ASSUME NEW f \in Families, ClearKernelOne(f) PROVE Listing'
  <2>1. UNCHANGED <<addr, listed, apc, acall, tidy>>
    BY <1>2 DEF ClearKernelOne, Store
  <2>2. QED
    BY <2>1, ListingUntouched
<1>3. ASSUME NEW f \in Families, AddIp(f) PROVE Listing'
  <2>1. apc = "idle" /\ apc' \in {"idle", "addKernel", "addAlias"}
    <3>1. PICK t \in Types, en \in BOOLEAN : apc = "idle" /\ apc' = AddEntry(t, en)
      BY <1>3, <1>b DEF AddIp
    <3>2. QED
      BY <3>1 DEF AddEntry
  <2>2. UNCHANGED <<addr, listed, tidy>>
    BY <1>3 DEF AddIp, Store, Past
  <2>3. QED
    BY <2>1, <2>2, ListingRests
<1>4. ASSUME NEW f \in Families, DelIp(f) PROVE Listing'
  <2>1. PICK t \in Types, n \in Numbers, a \in Addrs :
          LET ip == IF Conf(t) THEN addr[f][n] ELSE a IN
          /\ BeginAddr([NoAddrCall EXCEPT !.op = "del", !.type = t, !.i = n + 1,
                                          !.item = Item(f, n, ip, Absent)],
                       IF ~Sys(t) THEN "delAlias"
                       ELSE IF ip \in {Absent, Dhcp} THEN "idle" ELSE "delKernel")
          /\ UNCHANGED <<Store, ifaddrs, dhcp, Past>>
    BY <1>4 DEF DelIp
  <2> DEFINE ip    == IF Conf(t) THEN addr[f][n] ELSE a
             c     == [NoAddrCall EXCEPT !.op = "del", !.type = t, !.i = n + 1,
                                         !.item = Item(f, n, ip, Absent)]
             where == IF ~Sys(t) THEN "delAlias"
                      ELSE IF ip \in {Absent, Dhcp} THEN "idle" ELSE "delKernel"
  <2>2. where \in {"delAlias", "idle", "delKernel"} /\ c.fresh = Absent
    BY DEF NoAddrCall
  <2>3. BeginAddr(c, where) /\ UNCHANGED <<addr, listed, tidy>>
    BY <2>1 DEF Store, Past
  <2> HIDE DEF c, where
  <2>4. apc = "idle" /\ apc' = where /\ (apc' # "idle" => acall' = c)
    BY <1>b, <2>3
  <2>5. QED
    BY <2>2, <2>3, <2>4, ListingRests
<1>5. CASE AddIfaddr \/ AddIfaddrFails
  <2>1. apc = "addKernel" /\ apc' \in {"idle", "addKernel", "addAlias"}
    BY <1>5, <1>a, EnterFacts, NextItemFacts DEF AddIfaddr, AddIfaddrFails, AddrPcs
  <2>2. UNCHANGED <<addr, listed, tidy>>
    BY <1>5 DEF AddIfaddr, AddIfaddrFails, Store, Past
  <2>3. QED
    BY <2>1, <2>2, ListingRests
<1>6. CASE DelIfaddr \/ DelIfaddrFails
  <2>1. apc = "delKernel" /\ apc' \in {"idle", "delAlias"} /\ (apc' # "idle" => acall' = acall)
    BY <1>6, <1>a, EnterFacts, FinishFacts DEF DelIfaddr, DelIfaddrFails, AddrPcs
  <2>2. UNCHANGED <<addr, listed, tidy>>
    BY <1>6 DEF DelIfaddr, DelIfaddrFails, Store, Past
  <2>3. CASE tidy
    BY <1>c, <2>1, <2>2, <2>3, ListingRests
  <2>4. CASE ~tidy
    BY <2>2, <2>4 DEF Listing
  <2>5. QED
    BY <2>3, <2>4
<1>7. CASE (\E f \in Families : ClearFamily(f)) \/ (\E n \in Numbers : ClearAlias(n))
           \/ ClearMask \/ ClearList
  <2>1. apc' \in ClearPcs
    BY <1>7, ClearSteps
  <2>2. QED
    BY <2>1 DEF Listing, ListingNow, ListingFor, Working
<1>8. CASE ClearKernelEnds
  <2>1. apc = "clearKernel" /\ acall.op \in {"set", "dhcpSet", "dhcpDel"}
    BY <1>8 DEF ClearKernelEnds, CallFacts
  <2>2. NextItem \/ Enter(acall, "clear") \/ Enter(acall, "dhcpRun") \/ Finish
    BY <1>8, <2>1 DEF ClearKernelEnds
  <2>3. apc' \in {"clear", "dhcpRun", "idle", "addKernel", "addAlias"}
    <3>1. CASE NextItem
      BY <1>a, <3>1, NextItemFacts
    <3>2. CASE ~NextItem
      BY <2>2, <3>2 DEF Finish, Enter
    <3>3. QED
      BY <3>1, <3>2
  <2>4. UNCHANGED <<addr, listed, tidy>>
    BY <1>8 DEF ClearKernelEnds, Store
  <2>5. QED
    BY <2>1, <2>3, <2>4, ListingRests
<1>9. CASE SetIps \/ DhcpSet \/ DhcpDel
  <2>1. apc = "idle" /\ apc' \in {"clear", "clearKernel", "idle"}
    BY <1>9, <1>b DEF SetIps, DhcpSet, DhcpDel
  <2>2. UNCHANGED <<addr, listed, tidy>>
    BY <1>9 DEF SetIps, DhcpSet, DhcpDel, Store
  <2>3. QED
    BY <2>1, <2>2, ListingRests
<1>10. CASE DhcpMask \/ DhcpRun
  <2>1. apc \in {"dhcpMask", "dhcpRun"} /\ apc' \in {"dhcpRun", "idle"}
    BY <1>10, FinishFacts DEF DhcpMask, DhcpRun, Enter
  <2>2. UNCHANGED <<addr, listed, tidy>>
    BY <1>10 DEF DhcpMask, DhcpRun, Store, Past
  <2>3. QED
    BY <2>1, <2>2, ListingRests
<1>11. CASE ShiftMaskMissing \/ AddrDies
  BY <1>11 DEF ShiftMaskMissing, AddrDies, Listing
<1>12. QED
  BY <1>1, <1>2, <1>3, <1>4, <1>5, <1>6, <1>7, <1>8, <1>9, <1>10, <1>11,
     AddsListing, DeletesListing, ShiftsListing, ClearedListing DEF AddrNext

(* While numbers are used in order and no call died in its middle, the     *)
(* list of a family names the numbers of one digit that are stored, and no *)
(* others of them, after any number of additions, deletions with their     *)
(* renumbering and replacements (net.c:2018-2069, 2399-2427).              *)
THEOREM ListedExactTheorem == AddrSpec => []ListedExact
<1>1. AddrInit => ListedInv
  <2>1. AddrInit => Listing
    <3> SUFFICES ASSUME AddrInit PROVE Listing
      OBVIOUS
    <3>1. \A f \in Families : StoredOnes(f) = {} /\ listed[f] = Absent
      BY DEF AddrInit, StoredOnes, Stored
    <3>2. \A f \in Families : Lists(f, StoredOnes(f))
      BY <3>1 DEF Lists, InOrder
    <3>3. ListingNow
      BY DEF AddrInit, ListingNow, ListingFor, DelPcs, ShiftPcs
    <3>4. QED
      BY <3>2, <3>3 DEF Listing
  <2>2. QED
    BY <2>1, InitAddrInv DEF ListedInv
<1>2. ListedInv /\ [AddrNext]_addrVars => ListedInv'
  BY NextAddrInv, NextListing DEF ListedInv
<1>3. ListedInv => ListedExact
  <2> SUFFICES ASSUME Listing, apc = "idle", tidy, NEW f \in Families,
                      NEW n \in 0 .. Base - 1, n \in Numbers
               PROVE  Stored(f, n) <=> listed[f] # Absent /\ n \in listed[f]
    BY DEF ListedInv, ListedExact
  <2>1. Lists(f, StoredOnes(f))
    BY DEF Listing, Working, ClearPcs, FamilyPcs, ShiftPcs
  <2>2. n < Base
    BY AddrAssumption
  <2>3. Stored(f, n) <=> n \in StoredOnes(f)
    BY DEF StoredOnes
  <2>4. QED
    BY <2>1, <2>2, <2>3 DEF Lists
<1>4. QED
  BY <1>1, <1>2, <1>3, PTL DEF AddrSpec

-----------------------------------------------------------------------------
(* The kernel's addresses                                                  *)

Different(s) == \A i, j \in 1 .. Len(s) : s[i] = s[j] => i = j
AddressesDiffer == \A f \in Families : Different(ifaddrs[f])

(* The numbers of f are the places, counted from 0, of the sequence s. *)
Numbered(f, s) ==
  /\ StoredOnes(f) = 0 .. Len(s) - 1
  /\ \A n \in StoredOnes(f) : addr[f][n] = s[n + 1]

(* Below the number free they are; the numbers behind it are still one too *)
(* great.                                                                  *)
NumberedBut(f, s, free) ==
  /\ free <= Len(s) /\ Len(s) <= MaxNum
  /\ \A n \in Numbers : n < free => addr[f][n] = s[n + 1]
  /\ \A n \in Numbers : n > free => addr[f][n] = IF n <= Len(s) THEN s[n] ELSE Absent

(* What holds of family f while a call about its number k is under way,    *)
(* and i is the number read next.                                          *)
AgreeFor(f, k, i) ==
  LET s == ifaddrs[f] IN
  /\ apc = "addAlias" /\ acall.en /\ acall.type = "AUTO" =>
       /\ Len(s) = k + 1 /\ s[k + 1] = acall.item.ip
       /\ StoredOnes(f) = 0 .. k - 1
       /\ \A n \in 0 .. k - 1 : addr[f][n] = s[n + 1]
  /\ apc = "delKernel" /\ acall.type = "AUTO" =>
       k \in StoredOnes(f) /\ acall.item.ip = addr[f][k]
  /\ apc = "delAlias" /\ acall.type = "AUTO" => NumberedBut(f, s, k)
  /\ apc \in {"delMask", "delList"} \cup ShiftPcs => NumberedBut(f, s, i - 1)
  /\ apc \in {"delMask", "delList"} \/ (apc = "shift" /\ i = k + 1) => addr[f][i - 1] = Absent
  /\ apc = "shiftMask" => addr[f][i] # Absent
  /\ apc \in {"dropMask", "dropAlias"} => Len(s) = i - 1

AgreeNow ==
  \A f \in Families, k \in Numbers, i \in 0 .. MaxNum + 1 :
    acall.item.fam = f /\ acall.item.num = k /\ acall.i = i => AgreeFor(f, k, i)

MovingPcs == {"addAlias", "delAlias", "delMask", "delList"} \cup ShiftPcs
Moving(f) == apc \in MovingPcs /\ f = acall.item.fam
NoDhcpStored == \A f \in Families, n \in Numbers : addr[f][n] # Dhcp

Agreeing ==
  orderly => /\ AgreeNow /\ NoDhcpStored
             /\ \A f \in Families : ~Moving(f) => Numbered(f, ifaddrs[f])

AgreeInv == AddrInv /\ AddressesDiffer /\ Agreeing

LEMMA AppendDifferent ==
  ASSUME NEW S, NEW s \in Seq(S), NEW a \in S, Different(s), \A i \in 1 .. Len(s) : s[i] # a
  PROVE  Different(Append(s, a))
<1> DEFINE t == Append(s, a)
<1>1. /\ Len(s) \in Nat /\ Len(t) = Len(s) + 1
      /\ \A i \in 1 .. Len(s) : t[i] = s[i]
      /\ t[Len(s) + 1] = a
  BY AppendProperties
<1> HIDE DEF t
<1>2. SUFFICES ASSUME NEW i \in 1 .. Len(t), NEW j \in 1 .. Len(t), t[i] = t[j] PROVE i = j
  BY DEF Different, t
<1>3. (i \in 1 .. Len(s) \/ i = Len(s) + 1) /\ (j \in 1 .. Len(s) \/ j = Len(s) + 1)
  BY <1>1
<1>4. QED
  BY <1>1, <1>2, <1>3 DEF Different

LEMMA RemoveDifferent ==
  ASSUME NEW S, NEW s \in Seq(S), NEW p \in 1 .. Len(s), Different(s)
  PROVE  Different(Seqs!RemoveAt(s, p))
<1> DEFINE t == Seqs!RemoveAt(s, p)
<1>1. /\ Len(s) \in Nat /\ Len(t) = Len(s) - 1
      /\ \A j \in 1 .. Len(s) - 1 : t[j] = IF j < p THEN s[j] ELSE s[j + 1]
  <2> HIDE DEF t
  <2>1. t = Seqs!RemoveAt(s, p)
    BY DEF t
  <2>2. /\ Len(Seqs!RemoveAt(s, p)) = Len(s) - 1
        /\ \A j \in 1 .. Len(s) - 1 : Seqs!RemoveAt(s, p)[j] = IF j < p THEN s[j] ELSE s[j + 1]
    BY RemoveAtProperties
  <2>3. QED
    BY <2>1, <2>2
<1> HIDE DEF t
<1>2. SUFFICES ASSUME NEW i \in 1 .. Len(t), NEW j \in 1 .. Len(t), t[i] = t[j] PROVE i = j
  BY DEF Different, t
<1> DEFINE From(x) == IF x < p THEN x ELSE x + 1
<1>3. From(i) \in 1 .. Len(s) /\ From(j) \in 1 .. Len(s) /\ t[i] = s[From(i)] /\ t[j] = s[From(j)]
  BY <1>1
<1>4. From(i) = From(j)
  BY <1>2, <1>3 DEF Different
<1>5. QED
  BY <1>4

LEMMA NextDiffer == AddrInv /\ AddressesDiffer /\ [AddrNext]_addrVars => AddressesDiffer'
<1> SUFFICES ASSUME AddrTypeOK, CallFacts, AddressesDiffer, [AddrNext]_addrVars
             PROVE  AddressesDiffer'
  BY DEF AddrInv
<1>a. ifaddrs \in [Families -> Seq(Addrs \cup {Lease})] /\ acall \in CallRecords /\ "ip4" \in Families
  BY AddrAssumption DEF AddrTypeOK, CallRecords
<1>1. ASSUME UNCHANGED ifaddrs PROVE AddressesDiffer'
  BY <1>1 DEF AddressesDiffer
<1>2. ASSUME NEW f \in Families, NEW t, ifaddrs' = [ifaddrs EXCEPT ![f] = t], Different(t)
      PROVE  AddressesDiffer'
  <2> SUFFICES ASSUME NEW g \in Families PROVE Different(ifaddrs'[g])
    BY DEF AddressesDiffer
  <2>1. ifaddrs'[g] = IF g = f THEN t ELSE ifaddrs[g]
    BY <1>a, <1>2
  <2>2. QED
    BY <1>2, <2>1 DEF AddressesDiffer
<1>3. ASSUME NEW f \in Families, NEW a \in Addrs \cup {Lease}, ~InKernel(f, a),
             ifaddrs' = [ifaddrs EXCEPT ![f] = Append(ifaddrs[f], a)]
      PROVE  AddressesDiffer'
  <2>1. ifaddrs[f] \in Seq(Addrs \cup {Lease}) /\ Different(ifaddrs[f])
    BY <1>a DEF AddressesDiffer
  <2>2. \A i \in 1 .. Len(ifaddrs[f]) : ifaddrs[f][i] # a
    BY <1>3 DEF InKernel, OnInterface
  <2>3. Different(Append(ifaddrs[f], a))
    BY <2>1, <2>2, AppendDifferent
  <2>4. QED
    BY <1>2, <1>3, <2>3
<1>4. ASSUME NEW f \in Families, NEW p \in 1 .. Len(ifaddrs[f]),
             ifaddrs' = [ifaddrs EXCEPT ![f] = Seqs!RemoveAt(ifaddrs[f], p)]
      PROVE  AddressesDiffer'
  <2>1. ifaddrs[f] \in Seq(Addrs \cup {Lease}) /\ Different(ifaddrs[f])
    BY <1>a DEF AddressesDiffer
  <2>2. Different(Seqs!RemoveAt(ifaddrs[f], p))
    BY <2>1, RemoveDifferent
  <2>3. QED
    BY <1>2, <1>4, <2>2
<1>5. CASE DhcpLease
  <2>1. Lease \in Addrs \cup {Lease}
    OBVIOUS
  <2>2. QED
    BY <1>a, <1>3, <1>5, <2>1 DEF DhcpLease
<1>6. CASE AddIfaddr
  <2>1. acall.item.ip \in Addrs \cup {Lease} /\ acall.item.fam \in Families
    BY <1>6 DEF AddIfaddr, CallFacts, AddPcs, Items
  <2>2. \/ UNCHANGED ifaddrs
        \/ /\ ~InKernel(acall.item.fam, acall.item.ip)
           /\ ifaddrs' = [ifaddrs EXCEPT ![acall.item.fam] = Append(ifaddrs[acall.item.fam], acall.item.ip)]
    BY <1>6 DEF AddIfaddr
  <2>3. QED
    BY <1>1, <1>3, <2>1, <2>2
<1>7. CASE DelIfaddr
  <2>1. acall.item.fam \in Families
    BY <1>a DEF CallRecords
  <2>2. PlaceOf(acall.item.fam, acall.item.ip) \in 1 .. Len(ifaddrs[acall.item.fam])
    BY <1>7 DEF DelIfaddr, InKernel, OnInterface, PlaceOf
  <2>3. ifaddrs' = [ifaddrs EXCEPT ![acall.item.fam] =
          Seqs!RemoveAt(ifaddrs[acall.item.fam], PlaceOf(acall.item.fam, acall.item.ip))]
    BY <1>7 DEF DelIfaddr
  <2>4. QED
    BY <1>4, <2>1, <2>2, <2>3
<1>8. ASSUME NEW f \in Families, ClearKernelOne(f) PROVE AddressesDiffer'
  <2> DEFINE i == CHOOSE k \in ToDrop(f) : \A l \in ToDrop(f) : k <= l
  <2>1. ToDrop(f) # {} /\ ToDrop(f) \subseteq 1 .. Len(ifaddrs[f]) /\ Len(ifaddrs[f]) \in Nat
    BY <1>8, <1>a DEF ClearKernelOne, ToDrop
  <2>2. \E k \in ToDrop(f) : \A l \in ToDrop(f) : k <= l
    BY <2>1, LeastNumber
  <2>3. i \in 1 .. Len(ifaddrs[f])
    BY <2>1, <2>2
  <2>4. ifaddrs' = [ifaddrs EXCEPT ![f] = Seqs!RemoveAt(ifaddrs[f], i)] \/ UNCHANGED ifaddrs
    BY <1>8 DEF ClearKernelOne
  <2> HIDE DEF i
  <2>5. QED
    BY <1>1, <1>4, <2>3, <2>4
<1>9. CASE UNCHANGED ifaddrs
  BY <1>1, <1>9
<1>10. QED
  BY <1>5, <1>6, <1>7, <1>8, <1>9 DEF AddrNext, DhcpEnds, AddIp, AddIfaddrFails, AddAlias, AddMask,
     AddList, DelIp, DelIfaddrFails, DelAlias, DelMask, DelList, ShiftAlias, ShiftMask,
     ShiftMaskMissing, ShiftEnds, DropMask, DropAlias, WriteList, ClearFamily, ClearAlias, ClearMask,
     ClearList, ClearEnds, ClearKernelEnds, SetIps, DhcpSet, DhcpAlias, DhcpList, DhcpMask, DhcpRun,
     DhcpDel, AddrDies, addrVars

(* A step of a call about number k of family f, which goes on to read      *)
(* number j, needs to be looked at in that family only.                    *)
LEMMA AgreeingGoesOn ==
  ASSUME Agreeing, orderly, NEW f \in Families, NEW k \in Numbers, NEW j \in 0 .. MaxNum + 1,
         acall.item.fam = f, acall'.item.fam = f, acall'.item.num = k, acall'.i = j,
         apc' \in MovingPcs, NoDhcpStored', AgreeFor(f, k, j)',
         \A g \in Families \ {f} : addr'[g] = addr[g] /\ ifaddrs'[g] = ifaddrs[g]
  PROVE  Agreeing'
<1>1. AgreeNow'
  BY DEF AgreeNow
<1>2. ASSUME NEW g \in Families, ~Moving(g)' PROVE Numbered(g, ifaddrs[g])'
  <2>1. g # f
    BY <1>2 DEF Moving
  <2>2. Numbered(g, ifaddrs[g])
    BY <2>1 DEF Agreeing, Moving
  <2>3. StoredOnes(g)' = StoredOnes(g) /\ addr'[g] = addr[g] /\ ifaddrs'[g] = ifaddrs[g]
    BY <2>1 DEF StoredOnes, Stored
  <2>4. QED
    BY <2>2, <2>3 DEF Numbered
<1>3. QED
  BY <1>1, <1>2 DEF Agreeing

(* A step that ends the moving of a family leaves its numbers right.       *)
LEMMA AgreeingSettles ==
  ASSUME Agreeing, orderly, NEW f \in Families, acall.item.fam = f,
         apc' \notin MovingPcs \cup {"delKernel"}, NoDhcpStored', Numbered(f, ifaddrs[f])',
         \A g \in Families \ {f} : addr'[g] = addr[g] /\ ifaddrs'[g] = ifaddrs[g]
  PROVE  Agreeing'
<1>1. AgreeNow'
  BY DEF AgreeNow, AgreeFor, MovingPcs, ShiftPcs
<1>2. ASSUME NEW g \in Families PROVE Numbered(g, ifaddrs[g])'
  <2>1. CASE g = f
    BY <2>1
  <2>2. CASE g # f
    <3>1. Numbered(g, ifaddrs[g])
      BY <2>2 DEF Agreeing, Moving
    <3>2. StoredOnes(g)' = StoredOnes(g) /\ addr'[g] = addr[g] /\ ifaddrs'[g] = ifaddrs[g]
      BY <2>2 DEF StoredOnes, Stored
    <3>3. QED
      BY <3>1, <3>2 DEF Numbered
  <2>3. QED
    BY <2>1, <2>2
<1>3. QED
  BY <1>1, <1>2 DEF Agreeing

(* A step between two calls, or of a call that has not touched the kernel, *)
(* leaves addresses alone.                                                 *)
LEMMA AgreeingRests ==
  ASSUME Agreeing, orderly' => orderly, UNCHANGED <<addr, ifaddrs>>,
         apc \notin MovingPcs, apc' \notin (MovingPcs \ {"addAlias", "delAlias"}) \cup {"delKernel"},
         apc' = "addAlias" => ~(acall'.en /\ acall'.type = "AUTO"),
         apc' = "delAlias" => acall'.type # "AUTO"
  PROVE  Agreeing'
<1>1. AgreeNow'
  BY DEF AgreeNow, AgreeFor, MovingPcs, ShiftPcs
<1>2. ASSUME orderly, NEW g \in Families PROVE Numbered(g, ifaddrs[g])'
  <2>1. Numbered(g, ifaddrs[g])
    BY <1>2 DEF Agreeing, Moving
  <2>2. StoredOnes(g)' = StoredOnes(g) /\ addr'[g] = addr[g] /\ ifaddrs'[g] = ifaddrs[g]
    BY DEF StoredOnes, Stored
  <2>3. QED
    BY <2>1, <2>2 DEF Numbered
<1>3. NoDhcpStored' <=> NoDhcpStored
  BY DEF NoDhcpStored
<1>4. QED
  BY <1>1, <1>2, <1>3 DEF Agreeing

LEMMA AgreeingUntouched ==
  ASSUME Agreeing, orderly' => orderly, UNCHANGED <<addr, ifaddrs, apc, acall>>
  PROVE  Agreeing'
<1>1. \A g \in Families : StoredOnes(g)' = StoredOnes(g) /\ (Moving(g)' <=> Moving(g))
  BY DEF StoredOnes, Stored, Moving
<1>2. \A g \in Families : Numbered(g, ifaddrs[g])' <=> Numbered(g, ifaddrs[g])
  BY <1>1 DEF Numbered
<1>3. \A g \in Families, k \in Numbers, i \in 0 .. MaxNum + 1 :
        AgreeFor(g, k, i)' <=> AgreeFor(g, k, i)
  BY <1>1 DEF AgreeFor, NumberedBut
<1>4. AgreeNow' <=> AgreeNow
  BY <1>3 DEF AgreeNow
<1>5. NoDhcpStored' <=> NoDhcpStored
  BY DEF NoDhcpStored
<1>6. QED
  BY <1>1, <1>2, <1>4, <1>5 DEF Agreeing

LEMMA AddsAgreeing ==
  ASSUME AddrTypeOK, CallFacts, Agreeing, AddIfaddr \/ AddAlias
  PROVE  Agreeing'
<1> SUFFICES ASSUME orderly' PROVE Agreeing'
  BY DEF Agreeing
<1>a. acall \in CallRecords
  BY DEF AddrTypeOK, CallRecords
<1>b. PICK f \in Families, k \in Numbers, i \in 0 .. MaxNum + 1 :
        acall.item.fam = f /\ acall.item.num = k /\ acall.i = i
  BY <1>a DEF CallRecords
<1>c. /\ addr \in [Families -> [Numbers -> Addrs \cup Stores]]
      /\ ifaddrs \in [Families -> Seq(Addrs \cup {Lease})]
      /\ Numbers = 0 .. MaxNum /\ MaxNum \in Nat /\ k \in Nat
  BY AddrAssumption DEF AddrTypeOK, Numbers
<1>d. ifaddrs[f] \in Seq(Addrs \cup {Lease}) /\ Len(ifaddrs[f]) \in Nat
  BY <1>c
<1>1. CASE AddIfaddr
  <2> DEFINE s == ifaddrs[f]
             t == Append(ifaddrs[f], acall.item.ip)
  <2>1. /\ apc = "addKernel" /\ orderly /\ acall.type = "AUTO" /\ k = Len(s)
        /\ ifaddrs' = [ifaddrs EXCEPT ![f] = t] /\ UNCHANGED addr
    BY <1>1, <1>b DEF AddIfaddr, Store
  <2>2. apc' = "addAlias" /\ acall' = acall
    <3>1. Enter(acall, "addAlias")
      BY <1>1, <2>1 DEF AddIfaddr, Conf
    <3>2. QED
      BY <1>a, <3>1, EnterFacts DEF AddrPcs
  <2>3. acall.item.ip \in Addrs \cup {Lease}
    BY <2>1 DEF CallFacts, AddPcs, Items
  <2>4. /\ Len(t) = Len(s) + 1 /\ t[Len(s) + 1] = acall.item.ip
        /\ \A n \in 1 .. Len(s) : t[n] = s[n]
    BY <1>d, <2>3, AppendProperties
  <2>5. ifaddrs'[f] = t
    BY <1>c, <2>1
  <2> HIDE DEF t
  <2>6. StoredOnes(f)' = StoredOnes(f) /\ NoDhcpStored'
    BY <2>1 DEF StoredOnes, Stored, Agreeing, NoDhcpStored
  <2>7. Numbered(f, s)
    BY <2>1 DEF Agreeing, Moving, MovingPcs, ShiftPcs
  <2>8. \A n \in 0 .. k - 1 : addr'[f][n] = t[n + 1]
    <3>1. TAKE n \in 0 .. k - 1
    <3>2. n + 1 \in 1 .. Len(s) /\ n \in StoredOnes(f)
      BY <1>d, <2>1, <2>7 DEF Numbered
    <3>3. QED
      BY <2>1, <2>4, <2>7, <3>2 DEF Numbered
  <2>9. AgreeFor(f, k, i)'
    BY <2>1, <2>2, <2>4, <2>5, <2>6, <2>7, <2>8 DEF AgreeFor, Numbered, ShiftPcs
  <2>10. \A g \in Families \ {f} : addr'[g] = addr[g] /\ ifaddrs'[g] = ifaddrs[g]
    BY <1>c, <2>1
  <2>11. apc' \in MovingPcs
    BY <2>2 DEF MovingPcs
  <2>12. QED
    BY <1>b, <2>1, <2>2, <2>6, <2>9, <2>10, <2>11, AgreeingGoesOn
<1>2. CASE AddAlias
  <2> DEFINE s == ifaddrs[f]
             ip == acall.item.ip
  <2>1. /\ apc = "addAlias" /\ orderly /\ acall.en /\ acall.type = "AUTO"
        /\ addr' = [addr EXCEPT ![f][k] = ip] /\ UNCHANGED ifaddrs
    BY <1>2, <1>b DEF AddAlias
  <2>2. apc' = "addMask"
    BY <1>2 DEF AddAlias, Enter
  <2>3. ip \in Addrs /\ ip # Absent /\ ip # Dhcp /\ ip \in Addrs \cup Stores
    <3>1. ip \in Addrs
      BY <2>1 DEF CallFacts, AddPcs, Items
    <3>2. QED
      BY <3>1, AddrAssumption
  <2>4. /\ Len(s) = k + 1 /\ s[k + 1] = ip /\ StoredOnes(f) = 0 .. k - 1
        /\ \A n \in 0 .. k - 1 : addr[f][n] = s[n + 1]
    <3>1. AgreeFor(f, k, i)
      BY <1>b, <2>1 DEF Agreeing, AgreeNow
    <3>2. QED
      BY <2>1, <3>1 DEF AgreeFor
  <2> HIDE DEF ip
  <2>5. \A g \in Families, n \in Numbers : addr'[g][n] = IF g = f /\ n = k THEN ip ELSE addr[g][n]
    BY <1>c, <2>1
  <2>6. NoDhcpStored'
    BY <2>1, <2>3, <2>5 DEF NoDhcpStored, Agreeing
  <2>7. StoredOnes(f)' = StoredOnes(f) \cup {k}
    BY <2>1, <2>3, StoredByWrite
  <2>8. (0 .. k - 1) \cup {k} = 0 .. Len(s) - 1
    BY <1>c, <2>4
  <2>9. \A n \in 0 .. Len(s) - 1 : addr'[f][n] = s[n + 1]
    <3>1. TAKE n \in 0 .. Len(s) - 1
    <3>2. CASE n = k
      BY <2>4, <2>5, <3>2
    <3>3. CASE n # k
      <4>1. n \in 0 .. k - 1 /\ n \in Numbers
        BY <1>c, <2>4, <3>3
      <4>2. QED
        BY <2>4, <2>5, <3>3, <4>1
    <3>4. QED
      BY <3>2, <3>3
  <2>10. Numbered(f, ifaddrs[f])'
    BY <2>1, <2>4, <2>7, <2>8, <2>9 DEF Numbered
  <2>11. \A g \in Families \ {f} : addr'[g] = addr[g] /\ ifaddrs'[g] = ifaddrs[g]
    BY <1>c, <2>1
  <2>12. apc' \notin MovingPcs \cup {"delKernel"}
    BY <2>2 DEF MovingPcs, ShiftPcs
  <2>13. QED
    BY <1>b, <2>1, <2>6, <2>10, <2>11, <2>12, AgreeingSettles
<1>3. QED
  BY <1>1, <1>2

LEMMA DeletesAgreeing ==
  ASSUME AddrTypeOK, CallFacts, AddressesDiffer, Agreeing,
         (\E f \in Families : DelIp(f)) \/ DelIfaddr \/ DelAlias \/ DelMask \/ DelList
  PROVE  Agreeing'
<1> SUFFICES ASSUME orderly' PROVE Agreeing'
  BY DEF Agreeing
<1>a. acall \in CallRecords
  BY DEF AddrTypeOK, CallRecords
<1>b. PICK f \in Families, k \in Numbers, i \in 0 .. MaxNum + 1 :
        acall.item.fam = f /\ acall.item.num = k /\ acall.i = i
  BY <1>a DEF CallRecords
<1>c. /\ addr \in [Families -> [Numbers -> Addrs \cup Stores]]
      /\ ifaddrs \in [Families -> Seq(Addrs \cup {Lease})]
      /\ Numbers = 0 .. MaxNum /\ MaxNum \in Nat /\ k \in Nat
  BY AddrAssumption DEF AddrTypeOK, Numbers
<1>d. ifaddrs[f] \in Seq(Addrs \cup {Lease}) /\ Len(ifaddrs[f]) \in Nat
  BY <1>c
<1>e. orderly => AgreeFor(f, k, i) /\ NoDhcpStored
  BY <1>b DEF Agreeing, AgreeNow
<1>f. ASSUME UNCHANGED addr PROVE StoredOnes(f)' = StoredOnes(f) /\ (NoDhcpStored' <=> NoDhcpStored)
  BY <1>f DEF StoredOnes, Stored, NoDhcpStored
<1> USE DEF MovingPcs, ShiftPcs
<1>1. ASSUME NEW g \in Families, DelIp(g) PROVE Agreeing'
  <2>1. PICK t \in Types, n \in Numbers, a \in Addrs :
          LET ip == IF Conf(t) THEN addr[g][n] ELSE a IN
          /\ BeginAddr([NoAddrCall EXCEPT !.op = "del", !.type = t, !.i = n + 1,
                                          !.item = Item(g, n, ip, Absent)],
                       IF ~Sys(t) THEN "delAlias"
                       ELSE IF ip \in {Absent, Dhcp} THEN "idle" ELSE "delKernel")
          /\ UNCHANGED <<Store, ifaddrs, dhcp, Past>>
    BY <1>1 DEF DelIp
  <2> DEFINE ip    == IF Conf(t) THEN addr[g][n] ELSE a
             x     == Item(g, n, ip, Absent)
             c     == [NoAddrCall EXCEPT !.op = "del", !.type = t, !.i = n + 1, !.item = x]
             where == IF ~Sys(t) THEN "delAlias"
                      ELSE IF ip \in {Absent, Dhcp} THEN "idle" ELSE "delKernel"
  <2>2. /\ where \in {"delAlias", "idle", "delKernel"}
        /\ where = "delAlias" => t # "AUTO"
        /\ where = "delKernel" /\ t = "AUTO" => ip # Absent /\ ip = addr[g][n]
    BY DEF Sys, Conf
  <2>3. x.fam = g /\ x.num = n /\ x.ip = ip
    BY DEF Item
  <2> HIDE DEF x
  <2>4. c.item = x /\ c.type = t
    BY DEF NoAddrCall
  <2>5. BeginAddr(c, where) /\ UNCHANGED <<addr, ifaddrs, orderly>>
    BY <2>1 DEF Store, Past, x
  <2> HIDE DEF c, where, ip
  <2>6. apc = "idle" /\ apc' = where /\ (apc' # "idle" => acall' = c)
    BY <2>5 DEF BeginAddr, Enter
  <2>7. CASE where # "delKernel"
    BY <2>2, <2>4, <2>5, <2>6, <2>7, AgreeingRests
  <2>8. CASE where = "delKernel"
    <3>1. ASSUME NEW h \in Families PROVE Numbered(h, ifaddrs[h])'
      <4>1. Numbered(h, ifaddrs[h])
        BY <2>5, <2>6 DEF Agreeing, Moving
      <4>2. StoredOnes(h)' = StoredOnes(h) /\ addr'[h] = addr[h] /\ ifaddrs'[h] = ifaddrs[h]
        BY <2>5 DEF StoredOnes, Stored
      <4>3. QED
        BY <4>1, <4>2 DEF Numbered
    <3>2. ASSUME NEW j \in 0 .. MaxNum + 1 PROVE AgreeFor(g, n, j)'
      <4>1. StoredOnes(g)' = StoredOnes(g)
        BY <2>5 DEF StoredOnes, Stored
      <4>2. t = "AUTO" => n \in StoredOnes(g) /\ ip = addr[g][n]
        BY <2>2, <2>8 DEF StoredOnes, Stored
      <4>3. QED
        BY <2>3, <2>4, <2>5, <2>6, <2>8, <4>1, <4>2 DEF AgreeFor
    <3>3. AgreeNow'
      BY <2>3, <2>4, <2>6, <2>8, <3>2 DEF AgreeNow
    <3>4. NoDhcpStored'
      BY <1>e, <1>f, <2>5
    <3>5. QED
      BY <3>1, <3>3, <3>4 DEF Agreeing
  <2>9. QED
    BY <2>7, <2>8
<1>2. CASE DelIfaddr
  <2> DEFINE s == ifaddrs[f]
             p == PlaceOf(f, acall.item.ip)
             t == Seqs!RemoveAt(s, p)
  <2>1. /\ apc = "delKernel" /\ orderly /\ acall.type = "AUTO" /\ InKernel(f, acall.item.ip)
        /\ ifaddrs' = [ifaddrs EXCEPT ![f] = t] /\ UNCHANGED addr
    BY <1>2, <1>b DEF DelIfaddr, Store
  <2>2. apc' = "delAlias" /\ acall' = acall
    <3>1. Enter(acall, "delAlias")
      BY <1>2, <2>1 DEF DelIfaddr, Conf
    <3>2. QED
      BY <1>a, <3>1, EnterFacts DEF AddrPcs
  <2>3. k \in StoredOnes(f) /\ acall.item.ip = addr[f][k]
    BY <1>e, <2>1 DEF AgreeFor
  <2>4. StoredOnes(f) = 0 .. Len(s) - 1 /\ \A n \in StoredOnes(f) : addr[f][n] = s[n + 1]
    BY <2>1 DEF Agreeing, Moving, Numbered
  <2>5. p = k + 1 /\ k + 1 \in 1 .. Len(s)
    <3>1. p \in 1 .. Len(s) /\ s[p] = acall.item.ip
      BY <2>1 DEF InKernel, OnInterface, PlaceOf
    <3>2. k + 1 \in 1 .. Len(s) /\ s[k + 1] = acall.item.ip
      BY <1>c, <1>d, <2>3, <2>4
    <3> HIDE DEF p
    <3>3. QED
      BY <3>1, <3>2 DEF AddressesDiffer, Different
  <2>6. /\ Len(t) = Len(s) - 1
        /\ \A j \in 1 .. Len(s) - 1 : t[j] = IF j < k + 1 THEN s[j] ELSE s[j + 1]
    <3>1. p \in 1 .. Len(s)
      BY <2>5
    <3> HIDE DEF p
    <3>2. /\ Len(t) = Len(s) - 1
          /\ \A j \in 1 .. Len(s) - 1 : t[j] = IF j < p THEN s[j] ELSE s[j + 1]
      BY <1>d, <3>1, RemoveAtProperties
    <3> HIDE DEF t
    <3>3. QED
      BY <2>5, <3>2
  <2>7. ifaddrs'[f] = t
    BY <1>c, <2>1
  <2> HIDE DEF t, p
  <2>8. k <= Len(t) /\ Len(t) <= MaxNum
    <3>1. Len(s) - 1 \in StoredOnes(f) /\ StoredOnes(f) \subseteq Numbers
      BY <1>d, <2>4, <2>5 DEF StoredOnes
    <3>2. QED
      BY <1>c, <1>d, <2>5, <2>6, <3>1
  <2>9. ASSUME NEW n \in Numbers, n < k PROVE addr[f][n] = t[n + 1]
    <3>1. n \in StoredOnes(f) /\ n + 1 \in 1 .. Len(s) - 1 /\ n + 1 < k + 1
      BY <1>c, <1>d, <2>4, <2>5, <2>9
    <3>2. QED
      BY <2>4, <2>6, <3>1
  <2>10. ASSUME NEW n \in Numbers, n > k PROVE addr[f][n] = IF n <= Len(t) THEN t[n] ELSE Absent
    <3>1. CASE n <= Len(t)
      <4>1. n \in StoredOnes(f) /\ n \in 1 .. Len(s) - 1 /\ ~(n < k + 1)
        BY <1>c, <1>d, <2>4, <2>5, <2>6, <2>10, <3>1
      <4>2. QED
        BY <2>4, <2>6, <3>1, <4>1
    <3>2. CASE ~(n <= Len(t))
      <4>1. n \notin StoredOnes(f)
        BY <1>c, <1>d, <2>4, <2>6, <3>2
      <4>2. QED
        BY <3>2, <4>1 DEF StoredOnes, Stored
    <3>3. QED
      BY <3>1, <3>2
  <2>11. NumberedBut(f, t, k)
    BY <2>8, <2>9, <2>10 DEF NumberedBut
  <2>12. AgreeFor(f, k, i)'
    BY <2>1, <2>2, <2>7, <2>11 DEF AgreeFor, NumberedBut
  <2>13. NoDhcpStored'
    BY <1>e, <1>f, <2>1
  <2>14. \A g \in Families \ {f} : addr'[g] = addr[g] /\ ifaddrs'[g] = ifaddrs[g]
    BY <1>c, <2>1
  <2>15. QED
    BY <1>b, <2>1, <2>2, <2>12, <2>13, <2>14, AgreeingGoesOn
<1>3. CASE DelAlias
  <2>1. /\ apc = "delAlias" /\ orderly /\ acall.type = "AUTO"
        /\ addr' = [addr EXCEPT ![f][k] = Absent] /\ UNCHANGED ifaddrs
    BY <1>3, <1>b DEF DelAlias
  <2>2. apc' = "delMask" /\ acall' = acall /\ i = k + 1
    BY <1>3, <1>a, <1>b, EnterFacts DEF DelAlias, AddrPcs, CallFacts
  <2>3. NumberedBut(f, ifaddrs[f], k)
    BY <1>e, <2>1 DEF AgreeFor
  <2>4. \A g \in Families, n \in Numbers : addr'[g][n] = IF g = f /\ n = k THEN Absent ELSE addr[g][n]
    BY <1>c, <2>1
  <2>5. i - 1 = k
    BY <1>c, <2>2
  <2>6. NumberedBut(f, ifaddrs[f], k)'
    BY <1>c, <2>1, <2>3, <2>4 DEF NumberedBut
  <2>7. AgreeFor(f, k, i)'
    BY <2>2, <2>4, <2>5, <2>6 DEF AgreeFor
  <2>8. NoDhcpStored'
    BY <1>e, <2>1, <2>4, AddrAssumption DEF NoDhcpStored
  <2>9. \A g \in Families \ {f} : addr'[g] = addr[g] /\ ifaddrs'[g] = ifaddrs[g]
    BY <1>c, <2>1
  <2>10. QED
    BY <1>b, <2>1, <2>2, <2>7, <2>8, <2>9, AgreeingGoesOn
<1>4. CASE DelMask \/ DelList
  <2>1. apc \in {"delMask", "delList"} /\ UNCHANGED <<addr, ifaddrs, orderly>> /\ i = k + 1
    BY <1>4, <1>b DEF DelMask, DelList, Past, CallFacts
  <2>2. apc' \in {"delList", "shift"} /\ acall'.item = acall.item /\ acall'.i = i
    <3>1. \/ Enter(acall, "delList") \/ Enter(acall, "shift")
          \/ \E x : Enter([acall EXCEPT !.fresh = x], "shift")
      BY <1>4 DEF DelMask, DelList
    <3>2. QED
      BY <1>a, <1>b, <3>1 DEF Enter, CallRecords
  <2>3. NumberedBut(f, ifaddrs[f], i - 1) /\ addr[f][i - 1] = Absent
    BY <1>e, <2>1 DEF AgreeFor
  <2>4. AgreeFor(f, k, i)'
    BY <2>1, <2>2, <2>3 DEF AgreeFor, NumberedBut
  <2>5. NoDhcpStored'
    BY <1>e, <1>f, <2>1
  <2>6. QED
    BY <1>b, <2>1, <2>2, <2>4, <2>5, AgreeingGoesOn
<1>5. QED
  BY <1>1, <1>2, <1>3, <1>4

(* With nothing at the number free, which is behind the last one, the      *)
(* numbers are the places.                                                 *)
LEMMA ClosedNumbers ==
  ASSUME NEW h, NEW s \in Seq(Addrs \cup {Lease}), Len(s) <= MaxNum, h[Len(s)] = Absent,
         \A n \in Numbers : n < Len(s) => h[n] = s[n + 1],
         \A n \in Numbers : n > Len(s) => h[n] = IF n <= Len(s) THEN s[n] ELSE Absent
  PROVE  /\ {n \in Numbers : h[n] # Absent} = 0 .. Len(s) - 1
         /\ \A n \in 0 .. Len(s) - 1 : h[n] = s[n + 1]
<1>1. Len(s) \in Nat /\ Numbers = 0 .. MaxNum /\ MaxNum \in Nat
  BY AddrAssumption DEF Numbers
<1>2. ASSUME NEW n \in 0 .. Len(s) - 1 PROVE n \in Numbers /\ h[n] = s[n + 1] /\ h[n] # Absent
  <2>1. n \in Numbers /\ n < Len(s) /\ n + 1 \in 1 .. Len(s)
    BY <1>1
  <2>2. h[n] = s[n + 1] /\ s[n + 1] \in Addrs \cup {Lease}
    BY <2>1
  <2>3. QED
    BY <2>1, <2>2, AddrAssumption
<1>3. ASSUME NEW n \in Numbers, h[n] # Absent PROVE n \in 0 .. Len(s) - 1
  <2>1. n \in Nat
    BY <1>1
  <2>2. CASE n = Len(s)
    BY <1>3, <2>2
  <2>3. CASE n > Len(s)
    BY <1>1, <1>3, <2>1, <2>3
  <2>4. QED
    BY <1>1, <2>1, <2>2, <2>3
<1>4. QED
  BY <1>2, <1>3

LEMMA ShiftsAgreeing ==
  ASSUME AddrTypeOK, CallFacts, Agreeing,
         ShiftAlias \/ ShiftMask \/ ShiftEnds \/ DropMask \/ DropAlias
  PROVE  Agreeing'
<1> SUFFICES ASSUME orderly' PROVE Agreeing'
  BY DEF Agreeing
<1>a. acall \in CallRecords
  BY DEF AddrTypeOK, CallRecords
<1>b. PICK f \in Families, k \in Numbers, i \in 0 .. MaxNum + 1 :
        acall.item.fam = f /\ acall.item.num = k /\ acall.i = i
  BY <1>a DEF CallRecords
<1>c. /\ addr \in [Families -> [Numbers -> Addrs \cup Stores]]
      /\ ifaddrs \in [Families -> Seq(Addrs \cup {Lease})]
      /\ Numbers = 0 .. MaxNum /\ MaxNum \in Nat /\ k \in Nat /\ i \in Nat
  BY AddrAssumption DEF AddrTypeOK, Numbers
<1> DEFINE s == ifaddrs[f]
<1>d. s \in Seq(Addrs \cup {Lease}) /\ Len(s) \in Nat
  BY <1>c
<1>e. orderly /\ UNCHANGED ifaddrs /\ apc \in ShiftPcs /\ k < i
  BY <1>b DEF ShiftAlias, ShiftMask, ShiftEnds, DropMask, DropAlias, Past, ShiftPcs, CallFacts
<1>f. AgreeFor(f, k, i) /\ NoDhcpStored /\ NumberedBut(f, s, i - 1)
  BY <1>b, <1>e DEF Agreeing, AgreeNow, AgreeFor
<1>g. /\ i - 1 <= Len(s) /\ Len(s) <= MaxNum
      /\ \A n \in Numbers : n < i - 1 => addr[f][n] = s[n + 1]
      /\ \A n \in Numbers : n > i - 1 => addr[f][n] = IF n <= Len(s) THEN s[n] ELSE Absent
  BY <1>f DEF NumberedBut
<1>h. ASSUME UNCHANGED addr
      PROVE  StoredOnes(f)' = StoredOnes(f) /\ NoDhcpStored' /\ (NumberedBut(f, s, i - 1))'
  BY <1>e, <1>f, <1>h DEF StoredOnes, Stored, NoDhcpStored, NumberedBut
<1> USE DEF MovingPcs, ShiftPcs
<1>1. CASE ShiftAlias
  <2>1. apc = "shift" /\ apc' = "shiftMask" /\ acall' = acall
    BY <1>1, <1>a, EnterFacts DEF ShiftAlias, AddrPcs
  <2>2. /\ addr' = [addr EXCEPT ![f][i - 1] = addr[f][i]]
        /\ i \in Numbers /\ addr[f][i] # Absent
    BY <1>1, <1>b DEF ShiftAlias, At
  <2>3. \A g \in Families, n \in Numbers :
          addr'[g][n] = IF g = f /\ n = i - 1 THEN addr[f][i] ELSE addr[g][n]
    BY <1>c, <2>2
  <2>4. addr'[f][i] # Absent
    BY <1>c, <2>2, <2>3
  <2>5. NumberedBut(f, ifaddrs[f], i - 1)'
    <3>1. \A n \in Numbers : n # i - 1 => addr'[f][n] = addr[f][n]
      BY <2>3
    <3>2. \A n \in Numbers : (n < i - 1 => n # i - 1) /\ (n > i - 1 => n # i - 1)
      BY <1>c
    <3>3. /\ \A n \in Numbers : n < i - 1 => addr'[f][n] = s[n + 1]
          /\ \A n \in Numbers : n > i - 1 => addr'[f][n] = IF n <= Len(s) THEN s[n] ELSE Absent
      BY <1>g, <3>1, <3>2
    <3>4. QED
      BY <1>e, <1>g, <3>3 DEF NumberedBut
  <2>6. NoDhcpStored'
    BY <1>f, <2>2, <2>3 DEF NoDhcpStored
  <2>7. AgreeFor(f, k, i)'
    BY <2>1, <2>4, <2>5 DEF AgreeFor
  <2>8. \A g \in Families \ {f} : addr'[g] = addr[g] /\ ifaddrs'[g] = ifaddrs[g]
    BY <1>c, <1>e, <2>2
  <2>9. QED
    BY <1>b, <1>e, <2>1, <2>6, <2>7, <2>8, AgreeingGoesOn
<1>2. CASE ShiftMask
  <2>1. apc = "shiftMask" /\ UNCHANGED addr
    BY <1>2 DEF ShiftMask
  <2>2. Enter([acall EXCEPT !.i = i + 1, !.fresh = AddTo(acall.fresh, i - 1)], "shift")
    BY <1>2, <1>a, <1>b DEF ShiftMask, CallRecords
  <2>3. apc' = "shift" /\ acall'.item = acall.item /\ acall'.i = i + 1
    BY <1>a, <2>2 DEF Enter, CallRecords
  <2>4. i \in Numbers /\ addr[f][i - 1] = addr[f][i] /\ addr[f][i] # Absent
    BY <1>b, <1>f, <2>1 DEF CallFacts, AgreeFor
  <2>5. addr[f][i] = s[i] /\ i <= Len(s)
    BY <1>c, <1>d, <1>g, <2>4
  <2>6. PICK j \in 0 .. MaxNum + 1 : j = i + 1
    BY <1>c, <2>4
  <2>7. ASSUME NEW n \in Numbers, n < i PROVE addr[f][n] = s[n + 1]
    <3>1. n < i - 1 \/ n = i - 1
      BY <1>c, <2>7
    <3>2. QED
      BY <1>c, <1>g, <2>4, <2>5, <3>1
  <2>8. \A n \in Numbers : n > i => addr[f][n] = IF n <= Len(s) THEN s[n] ELSE Absent
    BY <1>c, <1>g
  <2>9. NumberedBut(f, s, j - 1)
    <3>1. j - 1 = i
      BY <1>c, <2>6
    <3>2. QED
      BY <1>g, <2>5, <2>7, <2>8, <3>1 DEF NumberedBut
  <2>10. NumberedBut(f, ifaddrs[f], j - 1)'
    BY <1>e, <2>1, <2>9 DEF NumberedBut
  <2>11. j # k + 1
    BY <1>c, <1>e, <2>6
  <2>12. AgreeFor(f, k, j)'
    BY <2>3, <2>10, <2>11 DEF AgreeFor
  <2>13. \A g \in Families \ {f} : addr'[g] = addr[g] /\ ifaddrs'[g] = ifaddrs[g]
    BY <1>e, <2>1
  <2>14. QED
    BY <1>b, <1>e, <1>h, <2>1, <2>3, <2>6, <2>12, <2>13, AgreeingGoesOn
<1>3. CASE ShiftEnds
  <2>1. /\ apc = "shift" /\ acall' = acall /\ UNCHANGED addr
        /\ apc' = IF i > k + 1 THEN "dropMask" ELSE "writeList"
    BY <1>3, <1>a, <1>b, EnterFacts DEF ShiftEnds, AddrPcs, Store
  <2>2. i \in Numbers => addr[f][i] = Absent
    BY <1>3, <1>b DEF ShiftEnds, At
  <2>3. Len(s) = i - 1
    <3>1. SUFFICES ASSUME i <= Len(s) PROVE FALSE
      BY <1>c, <1>d, <1>g
    <3>2. i \in Numbers /\ i \in 1 .. Len(s) /\ i > i - 1
      BY <1>c, <1>d, <1>e, <1>g, <3>1
    <3>3. addr[f][i] = s[i] /\ s[i] \in Addrs \cup {Lease}
      BY <1>d, <1>g, <3>1, <3>2
    <3>4. QED
      BY <2>2, <3>2, <3>3, AddrAssumption
  <2>4. \A g \in Families \ {f} : addr'[g] = addr[g] /\ ifaddrs'[g] = ifaddrs[g]
    BY <1>e, <2>1
  <2>5. CASE i > k + 1
    <3>1. AgreeFor(f, k, i)'
      BY <1>e, <1>h, <2>1, <2>3, <2>5 DEF AgreeFor
    <3>2. QED
      BY <1>b, <1>e, <1>h, <2>1, <2>4, <2>5, <3>1, AgreeingGoesOn
  <2>6. CASE ~(i > k + 1)
    <3>1. addr[f][i - 1] = Absent
      <4>1. i = k + 1
        BY <1>c, <1>e, <2>6
      <4>2. QED
        BY <1>f, <2>1, <4>1 DEF AgreeFor
    <3> DEFINE h == addr[f]
    <3>2. /\ h[Len(s)] = Absent
          /\ \A n \in Numbers : n < Len(s) => h[n] = s[n + 1]
          /\ \A n \in Numbers : n > Len(s) => h[n] = IF n <= Len(s) THEN s[n] ELSE Absent
      BY <1>g, <2>3, <3>1
    <3> HIDE DEF h
    <3>3. /\ {n \in Numbers : h[n] # Absent} = 0 .. Len(s) - 1
          /\ \A n \in 0 .. Len(s) - 1 : h[n] = s[n + 1]
      BY <1>d, <1>g, <3>2, ClosedNumbers
    <3>4. Numbered(f, s)
      BY <3>3 DEF Numbered, StoredOnes, Stored, h
    <3>5. Numbered(f, ifaddrs[f])'
      BY <1>e, <1>h, <2>1, <3>4 DEF Numbered
    <3>6. apc' \notin MovingPcs \cup {"delKernel"}
      BY <2>1, <2>6
    <3>7. QED
      BY <1>b, <1>e, <1>h, <2>1, <2>4, <3>5, <3>6, AgreeingSettles
  <2>7. QED
    BY <2>5, <2>6
<1>4. CASE DropMask
  <2>1. apc = "dropMask" /\ apc' = "dropAlias" /\ acall' = acall /\ UNCHANGED addr
    BY <1>4, <1>a, EnterFacts DEF DropMask, AddrPcs
  <2>2. AgreeFor(f, k, i)'
    BY <1>e, <1>f, <1>h, <2>1 DEF AgreeFor
  <2>3. \A g \in Families \ {f} : addr'[g] = addr[g] /\ ifaddrs'[g] = ifaddrs[g]
    BY <1>e, <2>1
  <2>4. QED
    BY <1>b, <1>e, <1>h, <2>1, <2>2, <2>3, AgreeingGoesOn
<1>5. CASE DropAlias
  <2>1. apc = "dropAlias" /\ apc' = "writeList" /\ acall' = acall
    BY <1>5, <1>a, EnterFacts DEF DropAlias, AddrPcs
  <2>2. addr' = [addr EXCEPT ![f][i - 1] = Absent]
    BY <1>5, <1>b DEF DropAlias
  <2>3. Len(s) = i - 1 /\ i - 1 \in Numbers
    BY <1>c, <1>e, <1>f, <1>g, <2>1 DEF AgreeFor
  <2>4. \A g \in Families, n \in Numbers :
          addr'[g][n] = IF g = f /\ n = i - 1 THEN Absent ELSE addr[g][n]
    BY <1>c, <2>2
  <2> DEFINE h == addr'[f]
  <2>5. /\ h[Len(s)] = Absent
        /\ \A n \in Numbers : n < Len(s) => h[n] = s[n + 1]
        /\ \A n \in Numbers : n > Len(s) => h[n] = IF n <= Len(s) THEN s[n] ELSE Absent
    BY <1>c, <1>g, <2>3, <2>4
  <2> HIDE DEF h
  <2>6. /\ {n \in Numbers : h[n] # Absent} = 0 .. Len(s) - 1
        /\ \A n \in 0 .. Len(s) - 1 : h[n] = s[n + 1]
    BY <1>d, <1>g, <2>5, ClosedNumbers
  <2>7. StoredOnes(f)' = {n \in Numbers : h[n] # Absent}
    BY DEF StoredOnes, Stored, h
  <2>8. Numbered(f, ifaddrs[f])'
    BY <1>e, <2>6, <2>7 DEF Numbered, h
  <2>9. NoDhcpStored'
    BY <1>f, <2>4, AddrAssumption DEF NoDhcpStored
  <2>10. \A g \in Families \ {f} : addr'[g] = addr[g] /\ ifaddrs'[g] = ifaddrs[g]
    BY <1>c, <1>e, <2>2
  <2>11. QED
    BY <1>b, <1>e, <2>1, <2>8, <2>9, <2>10, AgreeingSettles
<1>6. QED
  BY <1>1, <1>2, <1>3, <1>4, <1>5

LEMMA NextAgreeing == AgreeInv /\ [AddrNext]_addrVars => Agreeing'
<1> SUFFICES ASSUME AddrTypeOK, CallFacts, AddressesDiffer, Agreeing, [AddrNext]_addrVars
             PROVE  Agreeing'
  BY DEF AgreeInv, AddrInv
<1>a. acall \in CallRecords /\ apc \in AddrPcs
  BY DEF AddrTypeOK, CallRecords
<1>b. \A c, where : BeginAddr(c, where) =>
        apc = "idle" /\ apc' = where /\ (apc' # "idle" => acall' = c)
  BY DEF BeginAddr, Enter
<1>c. ASSUME NextItem
      PROVE  /\ apc' \in {"idle", "addKernel", "addAlias"}
             /\ apc' = "addAlias" => ~(acall'.en /\ acall'.type = "AUTO")
  BY <1>a, <1>c, NextItemFacts DEF Sys
<1>d. ASSUME ~orderly' PROVE Agreeing'
  BY <1>d DEF Agreeing
<1> USE DEF MovingPcs, ShiftPcs
<1>1. CASE DhcpEnds \/ UNCHANGED addrVars
  <2>1. UNCHANGED <<addr, ifaddrs, apc, acall, orderly>>
    BY <1>1 DEF DhcpEnds, addrVars, Store, Past
  <2>2. QED
    BY <2>1, AgreeingUntouched
<1>2. CASE \/ DhcpLease \/ ShiftMaskMissing \/ DhcpAlias \/ AddrDies
           \/ (\E f \in Families : ClearKernelOne(f)) \/ (\E n \in Numbers : ClearAlias(n))
  <2>1. ~orderly'
    BY <1>2 DEF DhcpLease, ShiftMaskMissing, DhcpAlias, AddrDies, ClearKernelOne, ClearAlias
  <2>2. QED
    BY <1>d, <2>1
<1>3. ASSUME NEW f \in Families, AddIp(f) PROVE Agreeing'
  <2>1. PICK t \in Types, en \in BOOLEAN, given \in {g \in Given : g.fam = f} :
          /\ BeginAddr([NoAddrCall EXCEPT !.op = "add", !.type = t, !.en = en, !.item = given],
                       AddEntry(t, en))
          /\ KillDhcp(t)
    BY <1>3, Zenon DEF AddIp
  <2> DEFINE c == [NoAddrCall EXCEPT !.op = "add", !.type = t, !.en = en, !.item = given]
  <2>2. c.type = t /\ c.en = en
    BY DEF NoAddrCall
  <2> HIDE DEF c
  <2>3. apc = "idle" /\ apc' = AddEntry(t, en) /\ (apc' # "idle" => acall' = c)
    BY <1>b, <2>1 DEF c
  <2>4. apc' \in {"idle", "addKernel", "addAlias"} /\ (apc' = "addAlias" => ~(en /\ t = "AUTO"))
    BY <2>3 DEF AddEntry, Sys
  <2>5. UNCHANGED <<addr, ifaddrs, orderly>>
    BY <1>3 DEF AddIp, Store, Past
  <2>6. apc' = "addAlias" => ~(acall'.en /\ acall'.type = "AUTO")
    BY <2>2, <2>3, <2>4
  <2>7. QED
    BY <2>3, <2>4, <2>5, <2>6, AgreeingRests
<1>4. CASE AddIfaddrFails \/ AddMask \/ AddList
  <2>1. /\ apc \in {"addKernel", "addMask", "addList"}
        /\ apc' \in {"idle", "addKernel", "addAlias", "addList"}
        /\ apc' = "addAlias" => ~(acall'.en /\ acall'.type = "AUTO")
    BY <1>4, <1>a, <1>c, EnterFacts DEF AddIfaddrFails, AddMask, AddList, AddrPcs
  <2>2. UNCHANGED <<addr, ifaddrs, orderly>>
    BY <1>4 DEF AddIfaddrFails, AddMask, AddList, Store, Past
  <2>3. QED
    BY <2>1, <2>2, AgreeingRests
<1>5. CASE DelIfaddrFails \/ WriteList \/ DhcpList \/ DhcpMask \/ DhcpRun
  <2>1. /\ apc \in {"delKernel", "writeList", "dhcpList", "dhcpMask", "dhcpRun"}
        /\ apc' \in {"idle", "dhcpMask", "dhcpRun"}
    BY <1>5, FinishFacts DEF DelIfaddrFails, WriteList, DhcpList, DhcpMask, DhcpRun, Enter
  <2>2. UNCHANGED <<addr, ifaddrs, orderly>>
    BY <1>5 DEF DelIfaddrFails, WriteList, DhcpList, DhcpMask, DhcpRun, Store, Past
  <2>3. QED
    BY <2>1, <2>2, AgreeingRests
<1>6. CASE (\E f \in Families : ClearFamily(f)) \/ ClearMask \/ ClearList
  <2>1. apc \in ClearPcs /\ apc' \in ClearPcs
    BY <1>6, ClearSteps
  <2>2. UNCHANGED <<Store, ifaddrs, Past>> \/ UNCHANGED <<addr, ifaddrs, Past>>
    BY <1>6, Zenon DEF ClearFamily, ClearMask, ClearList
  <2>3. UNCHANGED <<addr, ifaddrs, orderly>>
    BY <2>2 DEF Store, Past
  <2>4. QED
    BY <2>1, <2>3, AgreeingRests DEF ClearPcs
<1>7. CASE SetIps \/ DhcpSet \/ DhcpDel
  <2>1. /\ apc = "idle" /\ apc' \in {"clear", "clearKernel", "idle"}
        /\ UNCHANGED <<addr, ifaddrs, orderly>>
    <3>1. CASE SetIps
      BY <1>b, <3>1, SMTT(30) DEF SetIps, Store
    <3>2. CASE DhcpSet
      BY <1>b, <3>2, SMTT(30) DEF DhcpSet, Store
    <3>3. CASE DhcpDel
      BY <1>b, <3>3, SMTT(30) DEF DhcpDel, Store
    <3>4. QED
      BY <1>7, <3>1, <3>2, <3>3
  <2>2. QED
    BY <2>1, AgreeingRests
<1>8. CASE ClearEnds \/ ClearKernelEnds
  <2>1. acall.op \in {"set", "dhcpSet", "dhcpDel"}
    BY <1>8 DEF ClearEnds, ClearKernelEnds, CallFacts, ClearPcs
  <2>2. \/ NextItem \/ Enter(acall, "clearKernel") \/ Enter(acall, "dhcpAlias")
        \/ Enter(acall, "clear") \/ Enter(acall, "dhcpRun") \/ Finish
    BY <1>8, <2>1 DEF ClearEnds, ClearKernelEnds
  <2>3. /\ apc' \in {"clearKernel", "dhcpAlias", "clear", "dhcpRun", "idle", "addKernel", "addAlias"}
        /\ apc' = "addAlias" => ~(acall'.en /\ acall'.type = "AUTO")
    <3>1. CASE NextItem
      BY <1>c, <3>1
    <3>2. CASE ~NextItem
      BY <2>2, <3>2 DEF Finish, Enter
    <3>3. QED
      BY <3>1, <3>2
  <2>4. /\ orderly' => Nothing /\ \A f \in Families : ifaddrs[f] = <<>>
        /\ UNCHANGED <<addr, ifaddrs>>
    BY <1>8 DEF ClearEnds, ClearKernelEnds, Store
  <2>5. SUFFICES ASSUME orderly' PROVE Agreeing'
    BY <1>d
  <2>6. \A f \in Families, n \in Numbers : addr'[f][n] = Absent
    BY <2>4, <2>5 DEF Nothing
  <2>7. NoDhcpStored'
    BY <2>6, AddrAssumption DEF NoDhcpStored
  <2>8. \A f \in Families : StoredOnes(f)' = {} /\ Len(ifaddrs'[f]) = 0
    BY <2>4, <2>5, <2>6 DEF StoredOnes, Stored
  <2>9. \A f \in Families : Numbered(f, ifaddrs[f])'
    <3>1. 0 .. 0 - 1 = {}
      OBVIOUS
    <3>2. QED
      BY <2>8, <3>1 DEF Numbered
  <2>10. AgreeNow'
    BY <2>3 DEF AgreeNow, AgreeFor
  <2>11. QED
    BY <2>7, <2>9, <2>10 DEF Agreeing
<1>9. QED
  BY <1>1, <1>2, <1>3, <1>4, <1>5, <1>6, <1>7, <1>8, AddsAgreeing, DeletesAgreeing, ShiftsAgreeing
     DEF AddrNext

(* As long as every change was an AUTO call about the next number, about a *)
(* number that is stored, or about all, ips_get and the configuration give *)
(* every number the same address: what ip4_del looks up for number n is    *)
(* what was shown as number n, after any renumbering (net.c:544, 777,      *)
(* 2025-2069).                                                             *)
THEOREM NumbersAgreeTheorem == AddrSpec => []NumbersAgree
<1>1. AddrInit => AgreeInv
  <2> SUFFICES ASSUME AddrInit PROVE AgreeInv
    OBVIOUS
  <2>1. \A f \in Families : StoredOnes(f) = {} /\ ifaddrs[f] = <<>>
    BY DEF AddrInit, StoredOnes, Stored
  <2>2. \A f \in Families : Numbered(f, ifaddrs[f])
    <3>1. 0 .. Len(<<>>) - 1 = {}
      OBVIOUS
    <3>2. QED
      BY <2>1, <3>1 DEF Numbered
  <2>3. NoDhcpStored
    BY AddrAssumption DEF AddrInit, NoDhcpStored
  <2>4. AgreeNow
    BY DEF AddrInit, AgreeNow, AgreeFor, ShiftPcs
  <2>5. AddressesDiffer
    BY <2>1 DEF AddressesDiffer, Different
  <2>6. QED
    BY <2>2, <2>3, <2>4, <2>5, InitAddrInv DEF AgreeInv, Agreeing
<1>2. AgreeInv /\ [AddrNext]_addrVars => AgreeInv'
  BY NextAddrInv, NextDiffer, NextAgreeing DEF AgreeInv
<1>3. AgreeInv => NumbersAgree
  <2> SUFFICES ASSUME AgreeInv, apc = "idle", orderly, NEW f \in Families
               PROVE  IpsGet(f) = [n \in {k \in Numbers : Stored(f, k)} |-> addr[f][n]]
    BY DEF NumbersAgree
  <2>1. Numbered(f, ifaddrs[f]) /\ NoDhcpStored
    BY DEF AgreeInv, Agreeing, Moving, MovingPcs, ShiftPcs
  <2>2. addr["ip4"][0] # Dhcp
    <3>1. "ip4" \in Families /\ 0 \in Numbers
      BY AddrAssumption DEF Numbers
    <3>2. QED
      BY <2>1, <3>1 DEF NoDhcpStored
  <2>3. IpsGet(f) = [n \in 0 .. Len(ifaddrs[f]) - 1 |-> ifaddrs[f][n + 1]]
    BY <2>2 DEF IpsGet
  <2>4. {k \in Numbers : Stored(f, k)} = StoredOnes(f)
    BY DEF StoredOnes
  <2>5. /\ StoredOnes(f) = 0 .. Len(ifaddrs[f]) - 1
        /\ \A n \in StoredOnes(f) : addr[f][n] = ifaddrs[f][n + 1]
    BY <2>1 DEF Numbered
  <2>6. QED
    BY <2>3, <2>4, <2>5
<1>4. QED
  BY <1>1, <1>2, <1>3, PTL DEF AddrSpec
=============================================================================
