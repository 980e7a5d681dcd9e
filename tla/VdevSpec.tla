------------------------------ MODULE VdevSpec ------------------------------
(***************************************************************************)
(* What a pool is built from, php-zfs/zfs.c: the array of groups of        *)
(* devices a caller gives is turned into top-level vdevs, spares and cache *)
(* devices (construct_spec), and compared with what the pool is made of    *)
(* already (check_replication).  Operators only, nothing here has state.   *)
(***************************************************************************)
EXTENDS Integers, Sequences, FiniteSets

CONSTANTS
  Devices,
  Kind,      \* by device: "disk", "file" or "missing"
  Size,      \* by device: its size, 0 when it cannot be told
  Fuzz,      \* sizes that differ by no more pass for equal
  Nil

VdevTypes == {"disk", "file", "mirror", "raidz", "log", "hole"}

ASSUME DeviceAssumption ==
  /\ Kind \in [Devices -> {"disk", "file", "missing"}]
  /\ Size \in [Devices -> Nat] /\ Fuzz \in Nat
  /\ Nil \notin Devices /\ Nil \notin [type : VdevTypes, parity : Nat, children : Nat]

DevsIn(seq) == {seq[i] : i \in DOMAIN seq}
\* where in a pool the vdevs for data are
DataVdevs(tops) == {i \in DOMAIN tops : ~tops[i].log}
TopDevs(tops) == UNION {DevsIn(tops[i].devs) : i \in DOMAIN tops}
\* no device has two places
Distinct(tops) ==
  \A i, j \in DOMAIN tops : \A k \in DOMAIN tops[i].devs, l \in DOMAIN tops[j].devs :
    tops[i].devs[k] = tops[j].devs[l] => i = j /\ k = l

Vdevs == [type : VdevTypes, parity : Nat, log : BOOLEAN, devs : Seq(Devices)]
Specs == [tops : Seq(Vdevs), spares : SUBSET Devices, caches : SUBSET Devices]
Usable(d) == Kind[d] \in {"disk", "file"}
\* a vdev has the devices its type needs
WholeVdev(top) ==
  /\ top.type # "hole" => top.devs # <<>>
  /\ top.type = "hole" => top.log
  /\ top.type = "mirror" => Len(top.devs) >= 2
  /\ \A d \in DevsIn(top.devs) : Usable(d)
Leaf(d, log) == [type |-> Kind[d], parity |-> 0, log |-> log, devs |-> <<d>>]

\* is_grouping: the type of vdev, its parity and the fewest devices it takes.  A
\* name that is none of these, "stripe" or a slip, makes every device a vdev.
GroupTypes == [
  mirror |-> [type |-> "mirror", parity |-> 0, min |-> 2],
  raidz  |-> [type |-> "raidz",  parity |-> 1, min |-> 2],
  raidz2 |-> [type |-> "raidz",  parity |-> 2, min |-> 3],
  spare  |-> [type |-> "spare",  parity |-> 0, min |-> 1],
  log    |-> [type |-> "log",    parity |-> 0, min |-> 1],
  cache  |-> [type |-> "cache",  parity |-> 0, min |-> 1]]

\* one entry of the array: is_log, once set, stays for the entries that follow
\* until spares or cache devices come
Entry(st, g) ==
  LET isLog == st.isLog \/ g.is_log
      seen == st.seen \/ g.is_log
      leaves == [i \in DOMAIN g.children |-> Leaf(g.children[i], isLog)]
  IN
  IF ~st.ok \/ \E d \in DevsIn(g.children) : ~Usable(d) THEN [st EXCEPT !.ok = FALSE]
  ELSE IF g.type \notin DOMAIN GroupTypes
  THEN [st EXCEPT !.isLog = isLog, !.seen = seen, !.tops = @ \o leaves,
                  !.logs = @ + (IF isLog THEN Len(leaves) ELSE 0)]
  ELSE LET group == GroupTypes[g.type]
           aux == group.type \in {"spare", "cache"}
           log == isLog /\ ~aux
           fits == /\ Len(g.children) >= group.min
                   /\ log => group.type = "mirror"
                   /\ group.type = "spare" => st.spares = <<>>
                   /\ group.type = "cache" => st.caches = <<>>
           next == [st EXCEPT !.isLog = log, !.seen = seen]
       IN IF ~fits THEN [st EXCEPT !.ok = FALSE]
          ELSE IF group.type = "spare" THEN [next EXCEPT !.spares = g.children]
          ELSE IF group.type = "cache" THEN [next EXCEPT !.caches = g.children]
          ELSE [next EXCEPT !.logs = @ + (IF log THEN 1 ELSE 0),
                            !.tops = Append(@, [type |-> group.type, parity |-> group.parity,
                                                log |-> log, devs |-> g.children])]

ConstructSpec(groups) ==
  LET st[i \in 0 .. Len(groups)] ==
        IF i = 0
        THEN [ok |-> TRUE, isLog |-> FALSE, seen |-> FALSE, logs |-> 0,
              tops |-> <<>>, spares |-> <<>>, caches |-> <<>>]
        ELSE Entry(st[i - 1], groups[i])
      all == st[Len(groups)]
  IN IF \/ ~all.ok
        \/ all.tops = <<>> /\ all.spares = <<>> /\ all.caches = <<>>
        \/ all.seen /\ all.logs = 0
     THEN Nil
     ELSE [tops |-> all.tops, spares |-> DevsIn(all.spares), caches |-> DevsIn(all.caches)]

-----------------------------------------------------------------------------
(* get_replication and check_replication.                                  *)

Last(S) == CHOOSE i \in S : \A k \in S : k <= i
Apart(x, y) == x - y > Fuzz \/ y - x > Fuzz

\* the devices of one mirror or raidz: each is compared with the last before it
\* whose size is known, in kind and, when its own is known too, in size
Alike(top) ==
  \A j \in DOMAIN top.devs :
    LET d == top.devs[j]
        known == {i \in 1 .. j - 1 : Size[top.devs[i]] # 0}
        last == top.devs[Last(known)]
    IN known # {} => /\ Kind[d] = Kind[last]
                     /\ Size[d] # 0 => ~Apart(Size[d], Size[last])

Level(top) == [type |-> top.type, parity |-> top.parity, children |-> Len(top.devs)]

\* get_replication: the level of the vdevs that are no logs, when they have one; each
\* is compared with the last before it
Replication(tops) ==
  LET data == DataVdevs(tops)
      before(i) == {k \in data : k < i}
  IN IF /\ \A i \in data : tops[i].type \in {"disk", "file"} \/ Alike(tops[i])
        /\ \A i \in data : before(i) # {} => Level(tops[i]) = Level(tops[Last(before(i))])
     THEN Level(tops[Last(data)]) ELSE Nil

\* Mutant: what is added is not compared with what is there.
CheckReplicationLoose(current, tops) ==
  DataVdevs(tops) = {} \/ Replication(tops) # Nil

\* current is Nil for a new pool.  A pool that is uneven already takes anything.
CheckReplication(current, tops) ==
  \/ current # Nil /\ Replication(current) = Nil
  \/ DataVdevs(tops) = {}
  \/ /\ Replication(tops) # Nil
     /\ current = Nil \/ Replication(current) = Replication(tops)

\* What check_replication is for: no two vdevs for data differ.
Even(tops) ==
  \A i, j \in DataVdevs(tops) : Level(tops[i]) = Level(tops[j])
=============================================================================
