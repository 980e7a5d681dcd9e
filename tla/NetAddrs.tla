------------------------------ MODULE NetAddrs ------------------------------
(***************************************************************************)
(* Addresses of an interface, php-net/net.c.  An address is stored under a *)
(* number of its family (the properties net:ifconfig_<if>_ip4_alias_<n>    *)
(* and _netmask_<n>), the numbers are listed in one more property, and the *)
(* ifaddrs has addresses of its own.  A call works on the configuration     *)
(* (CONF), on the kernel (SYSTEM) or on both (AUTO); it may die after any  *)
(* property it writes.  Calls take turns.                                  *)
(***************************************************************************)
EXTENDS Integers, Sequences

Seqs == INSTANCE SequencesExt

CONSTANTS
  Families,      \* "ip4" and "ip6"
  Addrs, Masks,  \* addresses and netmasks (or prefixes) that callers use
  Dhcp,          \* the word DHCP in place of the address
  Lease,         \* the address the DHCP client obtains
  Absent,        \* a property that is not there, an empty string
  MaxNum,        \* greatest number of an address
  Base,          \* numbers below it are printed with one digit
  Given,         \* what callers give to ip4_add and ip6_add
  AddressLists,  \* the arrays given to ips_set, sequences of items
  AddrCalls,     \* bound on calls
  AddrDeaths     \* bound on deaths in the middle of a call

Numbers == 0 .. MaxNum
Types == {"CONF", "SYSTEM", "AUTO"}
Item(f, n, a, m) == [fam |-> f, num |-> n, ip |-> a, netmask |-> m]
Items == [fam : Families, num : Numbers, ip : Addrs, netmask : Masks]

ASSUME AddrAssumption ==
  /\ "ip4" \in Families
  /\ MaxNum \in Nat /\ Base \in Nat \ {0} /\ MaxNum < Base * Base
  /\ Absent \notin Addrs \cup Masks \cup {Dhcp, Lease}
  /\ \A S \in SUBSET Numbers : S # Absent
  /\ Dhcp \notin Addrs /\ Lease \notin Addrs
  /\ Given \subseteq Items /\ AddressLists \subseteq Seq(Items)
  /\ AddrCalls \in Nat /\ AddrDeaths \in Nat

VARIABLES
  addr, mask,    \* by family and number, what is stored
  listed,        \* by family, the numbers in the list, or Absent
  ifaddrs,        \* by family, the interface's addresses in their order
  dhcp,          \* the DHCP client and its pid file
  apc, acall,    \* what the call does next, and what it remembers
  kept,          \* history: what was stored by a call and not taken back
  tidy,          \* history: numbers were used in order, no call died
  orderly,       \* history: and all changes were made by AUTO calls
  stuck,         \* history: what the kernel did not drop when last asked
  acalls, adeaths

addrVars == <<addr, mask, listed, ifaddrs, dhcp, apc, acall, kept, tidy, orderly,
              stuck, acalls, adeaths>>

Conf(t) == t \in {"CONF", "AUTO"}
Sys(t)  == t \in {"SYSTEM", "AUTO"}

Stored(f, n) == addr[f][n] # Absent
\* kzfs_get_uprop of a number that may lie behind the last one
At(table, n) == IF n \in Numbers THEN table[n] ELSE Absent
\* add_new_ip4 prints the number into two bytes
Printed(n) == IF n < Base THEN n ELSE n \div Base
\* what is promised of number n: see AddMask about Absent
Promised(f, n) == {[fam |-> f, ip |-> addr[f][n], netmask |-> m] : m \in {mask[f][n], Absent}}
OnInterface(f) == {ifaddrs[f][i] : i \in 1 .. Len(ifaddrs[f])}
Nothing == \A f \in Families, n \in Numbers : addr[f][n] = Absent /\ mask[f][n] = Absent
InKernel(f, a) == a \in OnInterface(f)
PlaceOf(f, a) == CHOOSE i \in 1 .. Len(ifaddrs[f]) : ifaddrs[f][i] = a

NoAddrCall == [type |-> "CONF", en |-> FALSE, rest |-> <<>>, i |-> 0, fresh |-> Absent,
           item |-> [fam |-> "ip4", num |-> 0, ip |-> Absent, netmask |-> Absent],
           op |-> "none"]

NoneStuck == [f \in Families |-> {}]

AddrInit ==
  /\ addr = [f \in Families |-> [n \in Numbers |-> Absent]]
  /\ mask = [f \in Families |-> [n \in Numbers |-> Absent]]
  /\ listed = [f \in Families |-> Absent]
  /\ ifaddrs = [f \in Families |-> <<>>]
  /\ dhcp = "off"
  /\ apc = "idle" /\ acall = NoAddrCall
  /\ kept = {} /\ tidy = TRUE /\ orderly = TRUE /\ stuck = NoneStuck
  /\ acalls = 0 /\ adeaths = 0

-----------------------------------------------------------------------------
(* Control.                                                                *)

Store  == <<addr, mask, listed>>
Past   == <<kept, tidy, orderly, stuck>>
Counts == <<acalls, adeaths>>

Enter(c, where) ==
  /\ apc' = where
  /\ acall' = IF where = "idle" THEN NoAddrCall ELSE c
Finish == Enter(NoAddrCall, "idle")
BeginAddr(c, where) ==
  /\ apc = "idle" /\ acalls < AddrCalls
  /\ acalls' = acalls + 1
  /\ Enter(c, where)
  /\ UNCHANGED adeaths

\* add_new_ip4 and add_new_ip6: the kernel first, then the properties
AddEntry(t, en) ==
  IF en /\ Sys(t) THEN "addKernel" ELSE IF Conf(t) THEN "addAlias" ELSE "idle"

\* the next address of ips_set; after the only one of ip4_add and ip6_add, return
NextItem ==
  IF acall.rest = <<>> THEN Finish
  ELSE Enter([acall EXCEPT !.item = Head(acall.rest), !.rest = Tail(acall.rest)],
             AddEntry(acall.type, acall.en))

-----------------------------------------------------------------------------
(* The DHCP client: external but for the signal.                           *)

\* kill_dhcp signals the process the pid file names and does not wait for it
KillDhcp(t) == dhcp' = IF Sys(t) /\ dhcp = "on" THEN "dying" ELSE dhcp

DhcpEnds ==
  /\ dhcp \in {"on", "dying"}
  /\ dhcp' \in {"off", "stale"}
  /\ UNCHANGED <<Store, ifaddrs, apc, acall, Past, Counts>>

DhcpLease ==
  /\ dhcp \in {"on", "dying"} /\ ~InKernel("ip4", Lease)
  /\ ifaddrs' = [ifaddrs EXCEPT !["ip4"] = Append(@, Lease)]
  /\ orderly' = FALSE
  /\ UNCHANGED <<Store, dhcp, apc, acall, kept, tidy, stuck, Counts>>

-----------------------------------------------------------------------------
(* ip4_add, ip6_add.                                                       *)

AddIp(f) ==
  /\ \E t \in Types, en \in BOOLEAN, given \in {g \in Given : g.fam = f} :
       /\ BeginAddr([NoAddrCall EXCEPT !.op = "add", !.type = t, !.en = en, !.item = given],
                    AddEntry(t, en))
       /\ KillDhcp(t)
  /\ UNCHANGED <<Store, ifaddrs, Past>>

AddIfaddr ==
  LET f == acall.item.fam  a == acall.item.ip IN
  /\ apc = "addKernel"
  /\ ifaddrs' = IF InKernel(f, a) THEN ifaddrs
               ELSE [ifaddrs EXCEPT ![f] = Append(@, a)]
  /\ orderly' = (/\ orderly /\ acall.type = "AUTO"
                 /\ acall.item.num = Len(ifaddrs[f]) /\ ~InKernel(f, a))
  /\ IF Conf(acall.type) THEN Enter(acall, "addAlias") ELSE NextItem
  /\ UNCHANGED <<Store, dhcp, kept, tidy, stuck, Counts>>

\* ip4_add returns FALSE, ips_set goes on with the next address
AddIfaddrFails ==
  /\ apc = "addKernel" /\ NextItem
  /\ UNCHANGED <<Store, ifaddrs, dhcp, Past, Counts>>

AddAlias ==
  LET f == acall.item.fam  n == acall.item.num IN
  /\ apc = "addAlias"
  /\ addr' = [addr EXCEPT ![f][n] = acall.item.ip]
  /\ kept' = kept \ Promised(f, n)
  /\ tidy' = (tidy /\ \A k \in 0 .. n - 1 : Stored(f, k))
  /\ orderly' = (orderly /\ acall.en /\ acall.type = "AUTO")
  /\ Enter(acall, "addMask")
  /\ UNCHANGED <<mask, listed, ifaddrs, dhcp, stuck, Counts>>

\* add_new_ip6 has composed the name of the flags over the name of the prefix
\* by the time it writes the prefix, when both stores are changed
MaskIsWritten == acall.item.fam = "ip4" \/ acall.type # "AUTO"

AddMask ==
  /\ apc = "addMask"
  /\ mask' = IF MaskIsWritten
             THEN [mask EXCEPT ![acall.item.fam][acall.item.num] = acall.item.netmask]
             ELSE mask
  /\ Enter(acall, "addList")
  /\ UNCHANGED <<addr, listed, ifaddrs, dhcp, Past, Counts>>

Promise == [fam |-> acall.item.fam, ip |-> acall.item.ip,
            netmask |-> IF MaskIsWritten THEN acall.item.netmask ELSE Absent]

\* Mutant: the number replaces the list.
AddListAfresh ==
  LET f == acall.item.fam IN
  /\ apc = "addList"
  /\ listed' = [listed EXCEPT ![f] = {Printed(acall.item.num)}]
  /\ kept' = kept \cup {Promise}
  /\ NextItem
  /\ UNCHANGED <<addr, mask, ifaddrs, dhcp, tidy, orderly, stuck, Counts>>

AddList ==
  LET f == acall.item.fam IN
  /\ apc = "addList"
  /\ listed' = [listed EXCEPT ![f] =
                  IF @ = Absent THEN {Printed(acall.item.num)}
                  ELSE @ \cup {Printed(acall.item.num)}]
  /\ kept' = kept \cup {Promise}
  /\ NextItem
  /\ UNCHANGED <<addr, mask, ifaddrs, dhcp, tidy, orderly, stuck, Counts>>

-----------------------------------------------------------------------------
(* ip4_del, ip6_del.  A number is looked up in the configuration; SYSTEM   *)
(* takes an address.                                                       *)

\* Mutant: the kernel is told the main address whatever the number.
DelIpFirst(f) ==
  \E t \in Types, n \in Numbers, a \in Addrs :
    LET ip == IF Conf(t) THEN addr[f][0] ELSE a IN
    /\ BeginAddr([NoAddrCall EXCEPT !.op = "del", !.type = t, !.i = n + 1,
                                    !.item = Item(f, n, ip, Absent)],
                 IF ~Sys(t) THEN "delAlias"
                 ELSE IF ip \in {Absent, Dhcp} THEN "idle" ELSE "delKernel")
    /\ UNCHANGED <<Store, ifaddrs, dhcp, Past>>

DelIp(f) ==
  \E t \in Types, n \in Numbers, a \in Addrs :
    LET ip == IF Conf(t) THEN addr[f][n] ELSE a IN
    /\ BeginAddr([NoAddrCall EXCEPT !.op = "del", !.type = t, !.i = n + 1,
                                    !.item = Item(f, n, ip, Absent)],
                 IF ~Sys(t) THEN "delAlias"
                 ELSE IF ip \in {Absent, Dhcp} THEN "idle" ELSE "delKernel")
    /\ UNCHANGED <<Store, ifaddrs, dhcp, Past>>

DelIfaddr ==
  LET f == acall.item.fam  a == acall.item.ip IN
  /\ apc = "delKernel" /\ InKernel(f, a)
  /\ ifaddrs' = [ifaddrs EXCEPT ![f] = Seqs!RemoveAt(@, PlaceOf(f, a))]
  /\ orderly' = (orderly /\ acall.type = "AUTO")
  /\ IF Conf(acall.type) THEN Enter(acall, "delAlias") ELSE Finish
  /\ UNCHANGED <<Store, dhcp, kept, tidy, stuck, Counts>>

DelIfaddrFails ==
  /\ apc = "delKernel" /\ Finish
  /\ UNCHANGED <<Store, ifaddrs, dhcp, Past, Counts>>

DelAlias ==
  LET f == acall.item.fam  n == acall.item.num IN
  /\ apc = "delAlias"
  /\ addr' = [addr EXCEPT ![f][n] = Absent]
  /\ kept' = kept \ Promised(f, n)
  /\ tidy' = (tidy /\ Stored(f, n))
  /\ orderly' = (orderly /\ acall.type = "AUTO")
  /\ Enter(acall, "delMask")
  /\ UNCHANGED <<mask, listed, ifaddrs, dhcp, stuck, Counts>>

DelMask ==
  /\ apc = "delMask"
  /\ mask' = [mask EXCEPT ![acall.item.fam][acall.item.num] = Absent]
  /\ Enter(acall, "delList")
  /\ UNCHANGED <<addr, listed, ifaddrs, dhcp, Past, Counts>>

-----------------------------------------------------------------------------
(* up_deleted_ip: the addresses behind the deleted one move down by one,   *)
(* i being the number that is read.  fresh is the new list.                *)

DelList ==
  LET f == acall.item.fam
      before == 0 .. acall.item.num - 1
  IN
  /\ apc = "delList"
  /\ IF listed[f] = {0}
     THEN /\ listed' = [listed EXCEPT ![f] = Absent]
          /\ Enter(acall, "shift")
     ELSE /\ UNCHANGED listed
          /\ Enter([acall EXCEPT !.fresh = IF before = {} THEN Absent ELSE before], "shift")
  /\ UNCHANGED <<addr, mask, ifaddrs, dhcp, Past, Counts>>

\* Mutant: the address is taken away where it is read, not at the end.
ShiftAliasMoving ==
  LET f == acall.item.fam  i == acall.i IN
  /\ apc = "shift" /\ At(addr[f], i) # Absent
  /\ addr' = [addr EXCEPT ![f][i - 1] = addr[f][i], ![f][i] = Absent]
  /\ Enter(acall, "shiftMask")
  /\ UNCHANGED <<mask, listed, ifaddrs, dhcp, Past, Counts>>

ShiftAlias ==
  LET f == acall.item.fam  i == acall.i IN
  /\ apc = "shift" /\ At(addr[f], i) # Absent
  /\ addr' = [addr EXCEPT ![f][i - 1] = addr[f][i]]
  /\ Enter(acall, "shiftMask")
  /\ UNCHANGED <<mask, listed, ifaddrs, dhcp, Past, Counts>>

AddTo(l, n) == IF l = Absent THEN {n} ELSE l \cup {n}

\* Mutant: the number is counted on before and after the copy.
ShiftMaskTwice ==
  LET f == acall.item.fam  i == acall.i IN
  /\ apc = "shiftMask" /\ mask[f][i] # Absent
  /\ mask' = [mask EXCEPT ![f][i - 1] = mask[f][i]]
  /\ Enter([acall EXCEPT !.i = @ + 2, !.fresh = AddTo(@, i - 1)], "shift")
  /\ UNCHANGED <<addr, listed, ifaddrs, dhcp, Past, Counts>>

ShiftMask ==
  LET f == acall.item.fam  i == acall.i IN
  /\ apc = "shiftMask" /\ mask[f][i] # Absent
  /\ mask' = [mask EXCEPT ![f][i - 1] = mask[f][i]]
  /\ Enter([acall EXCEPT !.i = @ + 1, !.fresh = AddTo(@, i - 1)], "shift")
  /\ UNCHANGED <<addr, listed, ifaddrs, dhcp, Past, Counts>>

\* strlen(NULL): the process ends, the address is stored twice
ShiftMaskMissing ==
  /\ apc = "shiftMask" /\ mask[acall.item.fam][acall.i] = Absent
  /\ Finish
  /\ tidy' = FALSE /\ orderly' = FALSE
  /\ UNCHANGED <<Store, ifaddrs, dhcp, kept, stuck, Counts>>

ShiftEnds ==
  LET moved == acall.i > acall.item.num + 1 IN
  /\ apc = "shift" /\ At(addr[acall.item.fam], acall.i) = Absent
  /\ Enter(acall, IF moved THEN "dropMask" ELSE "writeList")
  /\ UNCHANGED <<Store, ifaddrs, dhcp, Past, Counts>>

DropMask ==
  /\ apc = "dropMask"
  /\ mask' = [mask EXCEPT ![acall.item.fam][acall.i - 1] = Absent]
  /\ Enter(acall, "dropAlias")
  /\ UNCHANGED <<addr, listed, ifaddrs, dhcp, Past, Counts>>

DropAlias ==
  /\ apc = "dropAlias"
  /\ addr' = [addr EXCEPT ![acall.item.fam][acall.i - 1] = Absent]
  /\ Enter(acall, "writeList")
  /\ UNCHANGED <<mask, listed, ifaddrs, dhcp, Past, Counts>>

\* with no number left it is given NULL, which sets nothing
WriteList ==
  /\ apc = "writeList"
  /\ listed' = IF acall.fresh = Absent THEN listed
               ELSE [listed EXCEPT ![acall.item.fam] = acall.fresh]
  /\ Finish
  /\ UNCHANGED <<addr, mask, ifaddrs, dhcp, Past, Counts>>

-----------------------------------------------------------------------------
(* remove_all_ip_conf takes away the numbers in the list, then the list,   *)
(* one family after the other.  fresh holds the numbers still to do.       *)

ClearFamily(f) ==
  /\ apc = "clear" /\ listed[f] # Absent
  /\ f = "ip4" \/ listed["ip4"] = Absent
  /\ Enter([acall EXCEPT !.item.fam = f, !.fresh = listed[f]], "clearNumber")
  /\ UNCHANGED <<Store, ifaddrs, dhcp, Past, Counts>>

ClearAlias(n) ==
  LET f == acall.item.fam IN
  /\ apc = "clearNumber" /\ n \in acall.fresh
  /\ addr' = [addr EXCEPT ![f][n] = Absent]
  /\ kept' = kept \ Promised(f, n)
  /\ orderly' = FALSE
  /\ Enter([acall EXCEPT !.item.num = n], "clearMask")
  /\ UNCHANGED <<mask, listed, ifaddrs, dhcp, tidy, stuck, Counts>>

ClearMask ==
  LET f == acall.item.fam  n == acall.item.num IN
  /\ apc = "clearMask"
  /\ mask' = [mask EXCEPT ![f][n] = Absent]
  /\ Enter([acall EXCEPT !.fresh = @ \ {n}], "clearNumber")
  /\ UNCHANGED <<addr, listed, ifaddrs, dhcp, Past, Counts>>

ClearList ==
  /\ apc = "clearNumber" /\ acall.fresh = {}
  /\ listed' = [listed EXCEPT ![acall.item.fam] = Absent]
  /\ Enter(acall, "clear")
  /\ UNCHANGED <<addr, mask, ifaddrs, dhcp, Past, Counts>>

ClearEnds ==
  /\ apc = "clear" /\ \A f \in Families : listed[f] = Absent
  /\ CASE acall.op = "set" /\ Sys(acall.type) -> Enter(acall, "clearKernel")
       [] acall.op = "set" /\ ~Sys(acall.type) -> NextItem
       [] acall.op = "dhcpSet" -> Enter(acall, "dhcpAlias")
       [] acall.op = "dhcpDel" -> Finish
  /\ tidy' = Nothing
  /\ orderly' = (Nothing /\ \A f \in Families : ifaddrs[f] = <<>>)
  /\ UNCHANGED <<Store, ifaddrs, dhcp, kept, stuck, Counts>>

\* remove_all_ip asks the kernel to drop one address of the interface after
\* the other and does not look at the answers
ToDrop(f) == {i \in 1 .. Len(ifaddrs[f]) : ifaddrs[f][i] \notin stuck[f]}

ClearKernelOne(f) ==
  LET i == CHOOSE k \in ToDrop(f) : \A l \in ToDrop(f) : k <= l IN
  /\ apc = "clearKernel" /\ ToDrop(f) # {}
  /\ f = "ip4" \/ ToDrop("ip4") = {}
  /\ \/ ifaddrs' = [ifaddrs EXCEPT ![f] = Seqs!RemoveAt(@, i)] /\ UNCHANGED stuck
     \/ stuck' = [stuck EXCEPT ![f] = @ \cup {ifaddrs[f][i]}] /\ UNCHANGED ifaddrs
  /\ orderly' = FALSE
  /\ UNCHANGED <<Store, dhcp, apc, acall, kept, tidy, Counts>>

\* Mutant: the last address of an interface stays.
KernelClearButOne(f) == Len(ifaddrs[f]) <= 1

KernelClear(f) == ToDrop(f) = {}

ClearKernelEnds ==
  /\ apc = "clearKernel" /\ \A f \in Families : KernelClear(f)
  /\ CASE acall.op = "set" -> NextItem
       [] acall.op # "set" /\ Conf(acall.type) -> Enter(acall, "clear")
       [] acall.op = "dhcpSet" /\ ~Conf(acall.type) -> Enter(acall, "dhcpRun")
       [] acall.op = "dhcpDel" /\ ~Conf(acall.type) -> Finish
  /\ orderly' = (Nothing /\ \A f \in Families : ifaddrs[f] = <<>>)
  /\ UNCHANGED <<Store, ifaddrs, dhcp, kept, tidy, stuck, Counts>>

-----------------------------------------------------------------------------
(* ips_set replaces all addresses by those of an array.                    *)

SetIps ==
  /\ \E t \in Types, en \in BOOLEAN, items \in AddressLists :
       /\ BeginAddr([NoAddrCall EXCEPT !.op = "set", !.type = t, !.en = en, !.rest = items],
                    IF Conf(t) THEN "clear" ELSE "clearKernel")
       /\ KillDhcp(t)
       /\ stuck' = IF Sys(t) THEN NoneStuck ELSE stuck
  /\ UNCHANGED <<Store, ifaddrs, kept, tidy, orderly>>

(* dhcp_set_ip and dhcp_del_ip empty the kernel first, then the            *)
(* configuration.  A call that finds no pid file returns at once.          *)

DhcpSet ==
  /\ \E t \in Types, en \in BOOLEAN :
       /\ BeginAddr([NoAddrCall EXCEPT !.op = "dhcpSet", !.type = t, !.en = en],
                    IF en /\ Sys(t) THEN "clearKernel"
                    ELSE IF Conf(t) THEN "clear" ELSE "idle")
       /\ IF en THEN KillDhcp(t) ELSE UNCHANGED dhcp
       /\ stuck' = IF en /\ Sys(t) THEN NoneStuck ELSE stuck
  /\ UNCHANGED <<Store, ifaddrs, kept, tidy, orderly>>

DhcpAlias ==
  /\ apc = "dhcpAlias"
  /\ addr' = [addr EXCEPT !["ip4"][0] = Dhcp]
  /\ kept' = kept \ Promised("ip4", 0)
  /\ orderly' = FALSE
  /\ Enter(acall, "dhcpList")
  /\ UNCHANGED <<mask, listed, ifaddrs, dhcp, tidy, stuck, Counts>>

DhcpList ==
  /\ apc = "dhcpList"
  /\ listed' = [listed EXCEPT !["ip4"] = {0}]
  /\ Enter(acall, "dhcpMask")
  /\ UNCHANGED <<addr, mask, ifaddrs, dhcp, Past, Counts>>

\* the netmask written is "0", which stands for nothing either
DhcpMask ==
  /\ apc = "dhcpMask"
  /\ mask' = [mask EXCEPT !["ip4"][0] = Dhcp]
  /\ IF acall.en /\ Sys(acall.type) THEN Enter(acall, "dhcpRun") ELSE Finish
  /\ UNCHANGED <<addr, listed, ifaddrs, dhcp, Past, Counts>>

\* base_execl waits until the client is in the background, or fails
DhcpRun ==
  /\ apc = "dhcpRun" /\ Finish
  /\ dhcp' \in {"on", dhcp}
  /\ UNCHANGED <<Store, ifaddrs, Past, Counts>>

DhcpDel ==
  /\ \E t \in Types :
       /\ BeginAddr([NoAddrCall EXCEPT !.op = "dhcpDel", !.type = t],
                    IF ~Sys(t) THEN "clear"
                    ELSE IF dhcp = "off" THEN "idle" ELSE "clearKernel")
       /\ KillDhcp(t)
       /\ stuck' = IF Sys(t) /\ dhcp # "off" THEN NoneStuck ELSE stuck
  /\ UNCHANGED <<Store, ifaddrs, kept, tidy, orderly>>

-----------------------------------------------------------------------------

AddrDies ==
  /\ apc # "idle" /\ adeaths < AddrDeaths
  /\ adeaths' = adeaths + 1
  /\ Finish
  /\ tidy' = FALSE /\ orderly' = FALSE
  /\ UNCHANGED <<Store, ifaddrs, dhcp, kept, stuck, acalls>>

AddrNext ==
  \/ DhcpEnds \/ DhcpLease
  \/ \E f \in Families : AddIp(f) \/ DelIp(f) \/ ClearFamily(f) \/ ClearKernelOne(f)
  \/ AddIfaddr \/ AddIfaddrFails \/ AddAlias \/ AddMask \/ AddList
  \/ DelIfaddr \/ DelIfaddrFails \/ DelAlias \/ DelMask \/ DelList
  \/ ShiftAlias \/ ShiftMask \/ ShiftMaskMissing \/ ShiftEnds
  \/ DropMask \/ DropAlias \/ WriteList
  \/ \E n \in Numbers : ClearAlias(n)
  \/ ClearMask \/ ClearList \/ ClearEnds \/ ClearKernelEnds
  \/ SetIps \/ DhcpSet \/ DhcpAlias \/ DhcpList \/ DhcpMask \/ DhcpRun \/ DhcpDel
  \/ AddrDies

AddrSpec == AddrInit /\ [][AddrNext]_addrVars

-----------------------------------------------------------------------------
\* ips_get without a list of interfaces: what the kernel has, counted from 0
IpsGet(f) ==
  LET shown == IF addr["ip4"][0] = Dhcp THEN <<>> ELSE ifaddrs[f]
  IN  [n \in 0 .. Len(shown) - 1 |-> shown[n + 1]]

AddrPcs == {"idle", "addKernel", "addAlias", "addMask", "addList", "delKernel",
            "delAlias", "delMask", "delList", "shift", "shiftMask", "dropMask", "dropAlias",
            "writeList", "clear", "clearNumber", "clearMask", "clearKernel",
            "dhcpAlias", "dhcpList", "dhcpMask", "dhcpRun"}

NumberSets == (SUBSET Numbers) \cup {Absent}
Stores == {Absent, Dhcp}

AddrTypeOK ==
  /\ addr \in [Families -> [Numbers -> Addrs \cup Stores]]
  /\ mask \in [Families -> [Numbers -> Masks \cup Stores]]
  /\ listed \in [Families -> NumberSets]
  /\ ifaddrs \in [Families -> Seq(Addrs \cup {Lease})]
  /\ dhcp \in {"off", "on", "dying", "stale"}
  /\ apc \in AddrPcs
  /\ acall \in [op : {"none", "add", "del", "set", "dhcpSet", "dhcpDel"}, type : Types,
                en : BOOLEAN, rest : Seq(Items), i : 0 .. MaxNum + 1, fresh : NumberSets,
                item : [fam : Families, num : Numbers, ip : Addrs \cup Stores,
                        netmask : Masks \cup {Absent}]]
  /\ kept \subseteq [fam : Families, ip : Addrs, netmask : Masks \cup {Absent}]
  /\ tidy \in BOOLEAN /\ orderly \in BOOLEAN
  /\ stuck \in [Families -> SUBSET (Addrs \cup {Lease})]
  /\ acalls \in 0 .. AddrCalls /\ adeaths \in 0 .. AddrDeaths

(* What a call stored and reported stays stored, with its netmask, until a *)
(* call about its number or all numbers: renumbering (net.c:2025-2069)     *)
(* moves every address by a copy and never has it in no place, wherever    *)
(* the process dies.                                                       *)
KeptStored ==
  \A p \in kept : \E n \in Numbers :
    /\ addr[p.fam][n] = p.ip
    /\ p.netmask \in {mask[p.fam][n], Absent}

(* While numbers are used in order and no call died, the list has exactly  *)
(* the numbers that are stored, those a single digit prints (2399-2427):   *)
(* greater ones are listed by their first digit until a deletion rebuilds  *)
(* the list (2018), and must not harm the others.                          *)
ListedExact ==
  apc = "idle" /\ tidy => \A f \in Families, n \in 0 .. Base - 1 :
    n \in Numbers => (Stored(f, n) <=> listed[f] # Absent /\ n \in listed[f])

(* ips_get numbers the kernel's addresses by counting (777, 790, 808), and *)
(* ip4_del looks that number up in the configuration (544).  Both mean the *)
(* same address as long as every change was an AUTO call about the next    *)
(* number, a stored number, or all.                                        *)
NumbersAgree ==
  apc = "idle" /\ orderly => \A f \in Families :
    IpsGet(f) = [n \in {k \in Numbers : Stored(f, k)} |-> addr[f][n]]

(* The DHCP client does not run beside addresses set by hand, but for      *)
(* those the kernel refused to drop: whoever adds an address signals the   *)
(* client first (506, 611, 1123), who starts it removes all (1234, 1268).  *)
DhcpAlone ==
  dhcp = "on" => \A f \in Families : OnInterface(f) \subseteq stuck[f] \cup {Lease}

(* An address that is stored has its netmask or prefix (README.md:18-23 of *)
(* php-net), when nothing died and numbers were used in order.             *)
MaskStored ==
  apc = "idle" /\ tidy => \A f \in Families, n \in Numbers :
    Stored(f, n) => mask[f][n] # Absent
=============================================================================
