--------------------------- MODULE ZfsPoolProofs ---------------------------
(***************************************************************************)
(* Theorems about pools: the labels, devices and data of imported pools,   *)
(* the level of their vdevs, and what it takes to lose a label.            *)
(***************************************************************************)
EXTENDS ZfsPool, ListsProofs

-----------------------------------------------------------------------------
(* Numbers: the greatest of a set, and induction as the absence of a least *)
(* counterexample.                                                         *)

LEMMA LastOf ==
  ASSUME NEW n \in Nat, NEW S \in SUBSET (1 .. n), S # {}
  PROVE  Last(S) \in S /\ \A k \in S : k <= Last(S)
<1> DEFINE T == {m \in 0 .. n : n - m \in S}
<1>1. PICK x \in S : x \in 1 .. n
  OBVIOUS
<1>2. n - x \in T
  <2>1. n - (n - x) = x /\ n - x \in 0 .. n
    BY <1>1
  <2>2. QED
    BY <2>1
<1>3. T \in SUBSET Nat /\ T # {}
  <2>1. T \subseteq 0 .. n
    OBVIOUS
  <2> HIDE DEF T
  <2>2. QED
    BY <1>2, <2>1
<1>4. T \subseteq 0 .. n /\ \A m \in T : n - m \in S
  OBVIOUS
<1>5. \A k \in S : n - k \in T
  <2> TAKE k \in S
  <2>1. k \in 1 .. n
    OBVIOUS
  <2>2. n - (n - k) = k /\ n - k \in 0 .. n
    BY <2>1
  <2>3. QED
    BY <2>2
<1> HIDE DEF T
<1>6. PICK m \in T : \A y \in T : m <= y
  BY <1>3, LeastOf
<1>7. m \in 0 .. n /\ n - m \in S
  BY <1>4
<1>8. \A k \in S : k <= n - m
  <2> TAKE k \in S
  <2>1. m <= n - k
    BY <1>5, <1>6
  <2>2. k \in 1 .. n
    OBVIOUS
  <2>3. QED
    BY <1>7, <2>1, <2>2
<1>9. QED
  BY <1>7, <1>8 DEF Last

-----------------------------------------------------------------------------
(* Descriptions of devices.                                                *)

LEMMA DevsTyped ==
  ASSUME NEW seq \in Seq(Devices)
  PROVE  DevsIn(seq) \subseteq Devices
BY DEF DevsIn

LEMMA TopsTyped ==
  ASSUME NEW tops \in Seq(Vdevs)
  PROVE  /\ TopDevs(tops) \subseteq Devices
         /\ DOMAIN tops = 1 .. Len(tops) /\ Len(tops) \in Nat
         /\ \A t \in DOMAIN tops : /\ tops[t] \in Vdevs
                                   /\ tops[t].devs \in Seq(Devices) /\ tops[t].log \in BOOLEAN
                                   /\ DOMAIN tops[t].devs = 1 .. Len(tops[t].devs)
                                   /\ Len(tops[t].devs) \in Nat
         /\ DataVdevs(tops) \subseteq 1 .. Len(tops)
<1>1. DOMAIN tops = 1 .. Len(tops) /\ Len(tops) \in Nat
  OBVIOUS
<1>2. \A t \in DOMAIN tops : tops[t] \in Vdevs
  OBVIOUS
<1>3. \A t \in DOMAIN tops : tops[t].devs \in Seq(Devices) /\ tops[t].log \in BOOLEAN
  BY <1>2 DEF Vdevs
<1>4. TopDevs(tops) \subseteq Devices
  BY <1>3, DevsTyped DEF TopDevs
<1>5. QED
  BY <1>1, <1>2, <1>3, <1>4 DEF DataVdevs

(* What TopDevs means, place by place. *)
LEMMA TopDevsPlaces ==
  ASSUME NEW tops, NEW d
  PROVE  d \in TopDevs(tops) <=> \E t \in DOMAIN tops : \E k \in DOMAIN tops[t].devs : tops[t].devs[k] = d
BY DEF TopDevs, DevsIn

-----------------------------------------------------------------------------
(* get_replication: a pool has a level if each vdev with several devices   *)
(* has devices that are alike, and no two vdevs differ; comparing each     *)
(* with the one before it comes to the same.                               *)

Fits(tops) ==
  /\ \A i \in DataVdevs(tops) : tops[i].type \in {"disk", "file"} \/ Alike(tops[i])
  /\ Even(tops)

LEMMA LevelTyped ==
  ASSUME NEW top \in Vdevs
  PROVE  Level(top) \in [type : VdevTypes, parity : Nat, children : Nat] /\ Level(top) # Nil
<1>1. top.type \in VdevTypes
  BY DEF Vdevs
<1>2. top.parity \in Nat /\ top.devs \in Seq(Devices)
  BY DEF Vdevs
<1>3. Len(top.devs) \in Nat
  BY <1>2
<1>4. QED
  BY <1>1, <1>2, <1>3, DeviceAssumption DEF Level

LEMMA NeighboursAlike ==
  ASSUME NEW tops \in Seq(Vdevs),
         \A i \in DataVdevs(tops) : {k \in DataVdevs(tops) : k < i} # {} =>
           Level(tops[i]) = Level(tops[Last({k \in DataVdevs(tops) : k < i})])
  PROVE  Even(tops)
<1> DEFINE data == DataVdevs(tops)
           before(i) == {k \in data : k < i}
           Odd == {i \in data : \E j \in before(i) : Level(tops[i]) # Level(tops[j])}
<1>1. data \subseteq 1 .. Len(tops) /\ Len(tops) \in Nat
  BY TopsTyped
<1>2. Odd = {}
  <2> SUFFICES ASSUME Odd # {} PROVE FALSE
    OBVIOUS
  <2>1. Odd \in SUBSET Nat
    BY <1>1
  <2>2. PICK i \in Odd : \A y \in Odd : i <= y
    <3> HIDE DEF Odd
    <3> QED BY <2>1, LeastOf
  <2>3. i \in data /\ i \in 1 .. Len(tops)
    BY <1>1
  <2>4. PICK j \in before(i) : Level(tops[i]) # Level(tops[j])
    OBVIOUS
  <2> DEFINE l == Last(before(i))
  <2>5. l \in before(i) /\ \A k \in before(i) : k <= l
    <3>1. before(i) \in SUBSET (1 .. Len(tops)) /\ before(i) # {}
      BY <1>1, <2>4
    <3> HIDE DEF before, data
    <3>2. QED
      BY <3>1, <1>1, LastOf
  <2>6. Level(tops[i]) = Level(tops[l])
    BY <2>3, <2>4
  <2> HIDE DEF l
  <2>7. l \in data /\ l < i /\ j \in data /\ j <= l
    BY <2>4, <2>5
  <2>8. l # j
    BY <2>4, <2>6
  <2>9. j \in before(l)
    BY <2>7, <2>8, <1>1
  <2>10. l \in Odd
    BY <2>4, <2>6, <2>7, <2>9
  <2>11. i <= l /\ l < i /\ l \in Nat /\ i \in Nat
    BY <2>2, <2>10, <2>7, <1>1, <2>3
  <2>12. QED
    BY <2>11
<1>3. \A i, j \in data : j < i => Level(tops[i]) = Level(tops[j])
  BY <1>2
<1>4. \A i, j \in data : i < j \/ j < i \/ i = j
  BY <1>1
<1>5. QED
  BY <1>3, <1>4 DEF Even

LEMMA ReplicationFits ==
  ASSUME NEW tops \in Seq(Vdevs), DataVdevs(tops) # {}
  PROVE  /\ Replication(tops) # Nil <=> Fits(tops)
         /\ Fits(tops) => \A i \in DataVdevs(tops) : Replication(tops) = Level(tops[i])
<1> DEFINE data == DataVdevs(tops)
           before(i) == {k \in data : k < i}
           Same == \A i \in data : before(i) # {} => Level(tops[i]) = Level(tops[Last(before(i))])
           Sizes == \A i \in data : tops[i].type \in {"disk", "file"} \/ Alike(tops[i])
<1>1. data \subseteq 1 .. Len(tops) /\ Len(tops) \in Nat /\ \A t \in data : tops[t] \in Vdevs
  BY TopsTyped DEF DataVdevs
<1>2. Last(data) \in data
  BY <1>1, LastOf
<1>3. Level(tops[Last(data)]) # Nil
  BY <1>1, <1>2, LevelTyped
<1>4. Replication(tops) = IF Sizes /\ Same THEN Level(tops[Last(data)]) ELSE Nil
  BY DEF Replication
<1>5. Same => Even(tops)
  BY NeighboursAlike
<1>6. Even(tops) => Same
  <2> SUFFICES ASSUME Even(tops), NEW i \in data, before(i) # {}
               PROVE  Level(tops[i]) = Level(tops[Last(before(i))])
    OBVIOUS
  <2>1. before(i) \in SUBSET (1 .. Len(tops)) /\ before(i) \subseteq data
    BY <1>1
  <2>2. Last(before(i)) \in data
    <3> HIDE DEF before, data
    <3> QED BY <2>1, <1>1, LastOf
  <2>3. QED
    BY <2>2 DEF Even
<1>7. Fits(tops) <=> Sizes /\ Same
  BY <1>5, <1>6 DEF Fits
<1> HIDE DEF Same, Sizes
<1>8. Replication(tops) # Nil <=> Fits(tops)
  BY <1>3, <1>4, <1>7
<1>9. Fits(tops) => \A i \in data : Replication(tops) = Level(tops[i])
  BY <1>2, <1>4, <1>7 DEF Fits, Even
<1>10. QED
  BY <1>8, <1>9

-----------------------------------------------------------------------------
(* construct_spec: what it makes of an array has types, and every vdev the *)
(* devices it needs.                                                       *)

EntryStates == [ok : BOOLEAN, isLog : BOOLEAN, seen : BOOLEAN, logs : Nat,
                tops : Seq(Vdevs), spares : Seq(Devices), caches : Seq(Devices)]
WholeTops(tops) == \A t \in DOMAIN tops : WholeVdev(tops[t])
EntryInv(st) == st \in EntryStates /\ WholeTops(st.tops)

LEMMA LeafWhole ==
  ASSUME NEW d \in Devices, Usable(d), NEW log \in BOOLEAN
  PROVE  Leaf(d, log) \in Vdevs /\ WholeVdev(Leaf(d, log))
<1>1. Leaf(d, log).devs = <<d>> /\ Leaf(d, log).type = Kind[d] /\ Leaf(d, log).log = log
  BY DEF Leaf
<1>2. <<d>> \in Seq(Devices) /\ <<d>> # <<>> /\ DevsIn(<<d>>) = {d}
  BY DEF DevsIn
<1>3. Kind[d] \in {"disk", "file"}
  BY DEF Usable
<1>4. Leaf(d, log) \in Vdevs
  BY <1>2, <1>3 DEF Leaf, Vdevs, VdevTypes
<1>5. QED
  BY <1>1, <1>2, <1>3, <1>4 DEF WholeVdev, Usable

LEMMA WholeConcat ==
  ASSUME NEW s \in Seq(Vdevs), NEW u \in Seq(Vdevs), WholeTops(s), WholeTops(u)
  PROVE  s \o u \in Seq(Vdevs) /\ WholeTops(s \o u)
<1>1. s \o u \in Seq(Vdevs) /\ Len(s \o u) = Len(s) + Len(u)
  OBVIOUS
<1>2. ASSUME NEW t \in DOMAIN (s \o u) PROVE WholeVdev((s \o u)[t])
  <2>1. t \in 1 .. Len(s) + Len(u)
    BY <1>1
  <2>2. CASE t <= Len(s)
    <3>1. t \in DOMAIN s /\ (s \o u)[t] = s[t]
      BY <2>1, <2>2
    <3>2. QED
      BY <3>1 DEF WholeTops
  <2>3. CASE t > Len(s)
    <3>1. t - Len(s) \in DOMAIN u /\ (s \o u)[t] = u[t - Len(s)]
      BY <2>1, <2>3
    <3>2. QED
      BY <3>1 DEF WholeTops
  <2>4. QED
    BY <2>1, <2>2, <2>3
<1>3. QED
  BY <1>1, <1>2 DEF WholeTops

LEMMA WholeAppend ==
  ASSUME NEW s \in Seq(Vdevs), NEW top \in Vdevs, WholeTops(s), WholeVdev(top)
  PROVE  Append(s, top) \in Seq(Vdevs) /\ WholeTops(Append(s, top))
<1>1. Append(s, top) \in Seq(Vdevs) /\ Len(Append(s, top)) = Len(s) + 1
  OBVIOUS
<1>2. ASSUME NEW t \in DOMAIN Append(s, top) PROVE WholeVdev(Append(s, top)[t])
  <2>1. t \in 1 .. Len(s) + 1
    BY <1>1
  <2>2. CASE t = Len(s) + 1
    BY <2>2
  <2>3. CASE t <= Len(s)
    BY <2>1, <2>3 DEF WholeTops
  <2>4. QED
    BY <2>1, <2>2, <2>3
<1>3. QED
  BY <1>1, <1>2 DEF WholeTops

LEMMA EntryTyped ==
  ASSUME NEW st, EntryInv(st), NEW g \in Groups
  PROVE  EntryInv(Entry(st, g))
<1> DEFINE isLog == st.isLog \/ g.is_log
           seen == st.seen \/ g.is_log
           leaves == [i \in DOMAIN g.children |-> Leaf(g.children[i], isLog)]
           group == GroupTypes[g.type]
           log == isLog /\ ~(group.type \in {"spare", "cache"})
<1>1. /\ st \in EntryStates /\ WholeTops(st.tops)
      /\ st.tops \in Seq(Vdevs) /\ st.isLog \in BOOLEAN /\ st.seen \in BOOLEAN /\ st.logs \in Nat
  BY DEF EntryInv, EntryStates
<1>2. g.children \in Seq(Devices) /\ g.is_log \in BOOLEAN /\ Len(g.children) \in Nat
      /\ DOMAIN g.children = 1 .. Len(g.children)
  <2>1. g.children \in Seq(Devices) /\ g.is_log \in BOOLEAN
    BY DEF Groups
  <2>2. QED
    BY <2>1
<1>3. isLog \in BOOLEAN /\ seen \in BOOLEAN /\ log \in BOOLEAN
  BY <1>1, <1>2
<1> HIDE DEF isLog, seen, log
<1>4. CASE ~st.ok \/ \E d \in DevsIn(g.children) : ~Usable(d)
  <2>1. Entry(st, g) = [st EXCEPT !.ok = FALSE]
    BY <1>4 DEF Entry
  <2>2. [st EXCEPT !.ok = FALSE] \in EntryStates /\ [st EXCEPT !.ok = FALSE].tops = st.tops
    BY <1>1 DEF EntryStates
  <2>3. QED
    BY <1>1, <2>1, <2>2 DEF EntryInv
<1>5. CASE st.ok /\ (\A d \in DevsIn(g.children) : Usable(d)) /\ g.type \notin DOMAIN GroupTypes
  <2> DEFINE e == [st EXCEPT !.isLog = isLog, !.seen = seen, !.tops = st.tops \o leaves,
                             !.logs = st.logs + (IF isLog THEN Len(leaves) ELSE 0)]
  <2>1. Entry(st, g) = e
    BY <1>5 DEF Entry, isLog, seen
  <2>2. \A i \in DOMAIN g.children : Leaf(g.children[i], isLog) \in Vdevs /\ WholeVdev(Leaf(g.children[i], isLog))
    <3>1. \A i \in DOMAIN g.children : g.children[i] \in Devices /\ Usable(g.children[i])
      BY <1>2, <1>5 DEF DevsIn
    <3>2. QED
      BY <3>1, <1>3, LeafWhole
  <2>3. leaves \in Seq(Vdevs) /\ Len(leaves) \in Nat
    <3>1. leaves \in [1 .. Len(g.children) -> Vdevs]
      BY <1>2, <2>2
    <3>2. leaves \in Seq(Vdevs)
      BY <3>1, <1>2
    <3> HIDE DEF leaves
    <3>3. QED
      BY <3>2
  <2>4. WholeTops(leaves)
    BY <2>2 DEF WholeTops
  <2> HIDE DEF leaves
  <2>5. st.tops \o leaves \in Seq(Vdevs) /\ WholeTops(st.tops \o leaves)
    BY <1>1, <2>3, <2>4, WholeConcat
  <2>6. st.logs + (IF isLog THEN Len(leaves) ELSE 0) \in Nat
    BY <1>1, <2>3
  <2>7. e \in EntryStates /\ e.tops = st.tops \o leaves
    BY <1>1, <1>3, <2>5, <2>6 DEF EntryStates
  <2>8. QED
    BY <2>1, <2>5, <2>7 DEF EntryInv
<1>6. CASE st.ok /\ (\A d \in DevsIn(g.children) : Usable(d)) /\ g.type \in DOMAIN GroupTypes
  <2> DEFINE fits == /\ Len(g.children) >= group.min
                     /\ log => group.type = "mirror"
                     /\ group.type = "spare" => st.spares = <<>>
                     /\ group.type = "cache" => st.caches = <<>>
             next == [st EXCEPT !.isLog = log, !.seen = seen]
             top == [type |-> group.type, parity |-> group.parity, log |-> log, devs |-> g.children]
  <2>1. Entry(st, g) = IF ~fits THEN [st EXCEPT !.ok = FALSE]
                       ELSE IF group.type = "spare" THEN [next EXCEPT !.spares = g.children]
                       ELSE IF group.type = "cache" THEN [next EXCEPT !.caches = g.children]
                       ELSE [next EXCEPT !.logs = next.logs + (IF log THEN 1 ELSE 0),
                                         !.tops = Append(next.tops, top)]
    BY <1>6 DEF Entry, isLog, seen, log
  <2>2. /\ group.type \in {"mirror", "raidz", "spare", "log", "cache"}
        /\ group.parity \in Nat /\ group.min \in Nat /\ group.min >= 1
        /\ group.type = "mirror" => group.min = 2
    <3>1. g.type \in {"mirror", "raidz", "raidz2", "spare", "log", "cache"}
      BY <1>6 DEF GroupTypes
    <3>2. QED
      BY <3>1 DEF GroupTypes
  <2> HIDE DEF group
  <2>3. next \in EntryStates /\ next.tops = st.tops /\ next.logs = st.logs
    BY <1>1, <1>3 DEF EntryStates
  <2> HIDE DEF next
  <2>4. CASE ~fits
    <3>1. [st EXCEPT !.ok = FALSE] \in EntryStates /\ [st EXCEPT !.ok = FALSE].tops = st.tops
      BY <1>1 DEF EntryStates
    <3>2. QED
      BY <1>1, <2>1, <2>4, <3>1 DEF EntryInv
  <2>5. CASE fits /\ group.type = "spare"
    <3>1. [next EXCEPT !.spares = g.children] \in EntryStates /\ [next EXCEPT !.spares = g.children].tops = st.tops
      BY <2>3, <1>2 DEF EntryStates
    <3>2. QED
      BY <1>1, <2>1, <2>5, <3>1 DEF EntryInv
  <2>6. CASE fits /\ group.type = "cache"
    <3>1. [next EXCEPT !.caches = g.children] \in EntryStates /\ [next EXCEPT !.caches = g.children].tops = st.tops
      BY <2>3, <1>2 DEF EntryStates
    <3>2. QED
      BY <1>1, <2>1, <2>6, <3>1 DEF EntryInv
  <2>7. CASE fits /\ group.type \notin {"spare", "cache"}
    <3>1. top \in Vdevs
      BY <1>2, <1>3, <2>2, <2>7 DEF Vdevs, VdevTypes
    <3>2. WholeVdev(top)
      <4>1. Len(g.children) >= 1 /\ (group.type = "mirror" => Len(g.children) >= 2)
        BY <1>2, <2>2, <2>7
      <4>2. g.children # <<>>
        BY <4>1
      <4>3. QED
        BY <4>1, <4>2, <1>6, <2>2 DEF WholeVdev
    <3> HIDE DEF top
    <3>3. Append(next.tops, top) \in Seq(Vdevs) /\ WholeTops(Append(next.tops, top))
      BY <1>1, <2>3, <3>1, <3>2, WholeAppend
    <3>4. next.logs + (IF log THEN 1 ELSE 0) \in Nat
      BY <1>1, <2>3
    <3> DEFINE e == [next EXCEPT !.logs = next.logs + (IF log THEN 1 ELSE 0), !.tops = Append(next.tops, top)]
    <3>5. e \in EntryStates /\ e.tops = Append(next.tops, top)
      BY <2>3, <3>3, <3>4 DEF EntryStates
    <3>6. Entry(st, g) = e
      BY <2>1, <2>7
    <3>7. QED
      BY <3>3, <3>5, <3>6 DEF EntryInv
  <2>8. QED
    BY <2>4, <2>5, <2>6, <2>7
<1>7. QED
  BY <1>4, <1>5, <1>6

EntriesOf(groups, st) ==
  st = [i \in 0 .. Len(groups) |->
         IF i = 0
         THEN [ok |-> TRUE, isLog |-> FALSE, seen |-> FALSE, logs |-> 0,
               tops |-> <<>>, spares |-> <<>>, caches |-> <<>>]
         ELSE Entry(st[i - 1], groups[i])]
Entries(groups) == CHOOSE st : EntriesOf(groups, st)

LEMMA ConstructEntries ==
  ASSUME NEW groups
  PROVE  ConstructSpec(groups) =
           LET all == Entries(groups)[Len(groups)] IN
           IF \/ ~all.ok
              \/ all.tops = <<>> /\ all.spares = <<>> /\ all.caches = <<>>
              \/ all.seen /\ all.logs = 0
           THEN Nil
           ELSE [tops |-> all.tops, spares |-> DevsIn(all.spares), caches |-> DevsIn(all.caches)]
BY DEF ConstructSpec, Entries, EntriesOf

EntriesUpTo(groups, n, st) ==
  st = [i \in 0 .. n |->
         IF i = 0
         THEN [ok |-> TRUE, isLog |-> FALSE, seen |-> FALSE, logs |-> 0,
               tops |-> <<>>, spares |-> <<>>, caches |-> <<>>]
         ELSE Entry(st[i - 1], groups[i])]

LEMMA EntriesExist ==
  ASSUME NEW groups, Len(groups) \in Nat
  PROVE  EntriesOf(groups, Entries(groups))
<1> DEFINE Bad == {n \in Nat : ~\E st : EntriesUpTo(groups, n, st)}
<1>1. Bad = {}
  <2> SUFFICES ASSUME Bad # {} PROVE FALSE
    OBVIOUS
  <2>1. PICK n \in Bad : \A m \in Bad : n <= m
    <3>1. Bad \in SUBSET Nat
      OBVIOUS
    <3> HIDE DEF Bad
    <3>2. QED
      BY <3>1, LeastOf
  <2>2. n \in Nat /\ ~\E st : EntriesUpTo(groups, n, st)
    OBVIOUS
  <2>3. CASE n = 0
    <3> DEFINE st == [i \in 0 .. 0 |->
                        [ok |-> TRUE, isLog |-> FALSE, seen |-> FALSE, logs |-> 0,
                         tops |-> <<>>, spares |-> <<>>, caches |-> <<>>]]
    <3>1. st = [i \in 0 .. 0 |->
                  IF i = 0
                  THEN [ok |-> TRUE, isLog |-> FALSE, seen |-> FALSE, logs |-> 0,
                        tops |-> <<>>, spares |-> <<>>, caches |-> <<>>]
                  ELSE Entry(st[i - 1], groups[i])]
      <4>1. \A i \in 0 .. 0 : i = 0
        OBVIOUS
      <4>2. QED
        BY <4>1
    <3>2. EntriesUpTo(groups, 0, st)
      BY <3>1 DEF EntriesUpTo
    <3>3. QED
      BY <2>2, <2>3, <3>2
  <2>4. CASE n # 0
    <3>1. n - 1 \in Nat /\ n - 1 < n
      BY <2>2, <2>4
    <3>2. n - 1 \notin Bad
      <4> HIDE DEF Bad
      <4>1. n - 1 \in Bad => n <= n - 1
        BY <2>1
      <4>2. QED
        BY <4>1, <3>1, <2>2
    <3>3. PICK st : EntriesUpTo(groups, n - 1, st)
      BY <3>1, <3>2
    <3> DEFINE new == [i \in 0 .. n |-> IF i < n THEN st[i] ELSE Entry(st[n - 1], groups[n])]
    <3>4. \A i \in 0 .. n - 1 : new[i] = st[i]
      BY <2>2
    <3>5. \A i \in 0 .. n - 1 :
            st[i] = IF i = 0
                    THEN [ok |-> TRUE, isLog |-> FALSE, seen |-> FALSE, logs |-> 0,
                          tops |-> <<>>, spares |-> <<>>, caches |-> <<>>]
                    ELSE Entry(st[i - 1], groups[i])
      <4>1. st = [i \in 0 .. n - 1 |->
                    IF i = 0
                    THEN [ok |-> TRUE, isLog |-> FALSE, seen |-> FALSE, logs |-> 0,
                          tops |-> <<>>, spares |-> <<>>, caches |-> <<>>]
                    ELSE Entry(st[i - 1], groups[i])]
        BY <3>3 DEF EntriesUpTo
      <4> DEFINE F(i) == IF i = 0
                    THEN [ok |-> TRUE, isLog |-> FALSE, seen |-> FALSE, logs |-> 0,
                          tops |-> <<>>, spares |-> <<>>, caches |-> <<>>]
                    ELSE Entry(st[i - 1], groups[i])
      <4>2. st = [i \in 0 .. n - 1 |-> F(i)]
        BY <4>1
      <4> HIDE DEF F
      <4>3. \A i \in 0 .. n - 1 : st[i] = F(i)
        BY <4>2
      <4>4. QED
        BY <4>3 DEF F
    <3> DEFINE G(i) == IF i = 0
                    THEN [ok |-> TRUE, isLog |-> FALSE, seen |-> FALSE, logs |-> 0,
                          tops |-> <<>>, spares |-> <<>>, caches |-> <<>>]
                    ELSE Entry(new[i - 1], groups[i])
    <3>6. \A i \in 0 .. n : new[i] = G(i)
      <4> TAKE i \in 0 .. n
      <4>1. CASE i < n
        <5>1. i \in 0 .. n - 1 /\ (i = 0 \/ i - 1 \in 0 .. n - 1)
          BY <4>1, <2>2
        <5>2. new[i] = st[i] /\ (i # 0 => new[i - 1] = st[i - 1])
          BY <5>1, <3>4
        <5> HIDE DEF new
        <5>3. QED
          BY <5>1, <5>2, <3>5
      <4>2. CASE i = n
        <5>1. new[n] = Entry(st[n - 1], groups[n])
          BY <2>2
        <5>2. new[n - 1] = st[n - 1]
          BY <3>4, <3>1, <2>2
        <5> HIDE DEF new
        <5>3. QED
          BY <5>1, <5>2, <4>2, <2>4
      <4>3. QED
        BY <4>1, <4>2, <2>2
    <3>7. new = [i \in 0 .. n |-> new[i]]
      OBVIOUS
    <3> HIDE DEF new, G
    <3>8. new = [i \in 0 .. n |-> G(i)]
      BY <3>6, <3>7
    <3>9. EntriesUpTo(groups, n, new)
      BY <3>8 DEF G, EntriesUpTo
    <3>10. QED
      BY <2>2, <3>9
  <2>5. QED
    BY <2>3, <2>4
<1>2. \E st : EntriesUpTo(groups, Len(groups), st)
  BY <1>1
<1>3. \E st : EntriesOf(groups, st)
  BY <1>2 DEF EntriesUpTo, EntriesOf
<1>4. QED
  BY <1>3 DEF Entries

LEMMA EntriesStep ==
  ASSUME NEW groups, Len(groups) \in Nat
  PROVE  /\ Entries(groups)[0] = [ok |-> TRUE, isLog |-> FALSE, seen |-> FALSE, logs |-> 0,
                                  tops |-> <<>>, spares |-> <<>>, caches |-> <<>>]
         /\ \A i \in 1 .. Len(groups) : Entries(groups)[i] = Entry(Entries(groups)[i - 1], groups[i])
<1> DEFINE st == Entries(groups)
           F(i) == IF i = 0
                   THEN [ok |-> TRUE, isLog |-> FALSE, seen |-> FALSE, logs |-> 0,
                         tops |-> <<>>, spares |-> <<>>, caches |-> <<>>]
                   ELSE Entry(st[i - 1], groups[i])
<1>1. st = [i \in 0 .. Len(groups) |-> F(i)]
  BY EntriesExist DEF EntriesOf
<1> HIDE DEF F, st
<1>2. \A i \in 0 .. Len(groups) : st[i] = F(i)
  BY <1>1
<1>3. st[0] = F(0) /\ \A i \in 1 .. Len(groups) : st[i] = F(i) /\ i # 0
  BY <1>2
<1>4. QED
  BY <1>3 DEF F, st

LEMMA ConstructFacts ==
  ASSUME NEW groups \in Seq(Groups), ConstructSpec(groups) # Nil
  PROVE  ConstructSpec(groups) \in Specs /\ WholeTops(ConstructSpec(groups).tops)
<1> DEFINE st == Entries(groups)
           Bad == {i \in 0 .. Len(groups) : ~EntryInv(st[i])}
<1>1. Len(groups) \in Nat /\ \A i \in 1 .. Len(groups) : groups[i] \in Groups
  OBVIOUS
<1>2. EntryInv(st[0])
  <2>1. st[0] = [ok |-> TRUE, isLog |-> FALSE, seen |-> FALSE, logs |-> 0,
                 tops |-> <<>>, spares |-> <<>>, caches |-> <<>>]
    BY <1>1, EntriesStep
  <2>2. QED
    BY <2>1 DEF EntryInv, EntryStates, WholeTops
<1>3. Bad = {}
  <2> SUFFICES ASSUME Bad # {} PROVE FALSE
    OBVIOUS
  <2>1. PICK n \in Bad : \A m \in Bad : n <= m
    <3>1. Bad \in SUBSET Nat
      BY <1>1
    <3> HIDE DEF Bad
    <3>2. QED
      BY <3>1, LeastOf
  <2>2. n \in 1 .. Len(groups) /\ ~EntryInv(st[n])
    BY <1>1, <1>2
  <2>3. n - 1 \in 0 .. Len(groups) /\ ~(n <= n - 1)
    BY <2>2, <1>1
  <2>4. EntryInv(st[n - 1])
    BY <2>1, <2>3
  <2>5. st[n] = Entry(st[n - 1], groups[n])
    BY <1>1, <2>2, EntriesStep
  <2>6. QED
    BY <2>2, <2>4, <2>5, <1>1, EntryTyped
<1> DEFINE all == st[Len(groups)]
<1>4. EntryInv(all)
  BY <1>1, <1>3
<1>5. ConstructSpec(groups) = [tops |-> all.tops, spares |-> DevsIn(all.spares), caches |-> DevsIn(all.caches)]
  BY ConstructEntries
<1> HIDE DEF all
<1>6. all.tops \in Seq(Vdevs) /\ all.spares \in Seq(Devices) /\ all.caches \in Seq(Devices)
  BY <1>4 DEF EntryInv, EntryStates
<1>7. DevsIn(all.spares) \subseteq Devices /\ DevsIn(all.caches) \subseteq Devices
  BY <1>6, DevsTyped
<1>8. QED
  BY <1>4, <1>5, <1>6, <1>7 DEF EntryInv, Specs

LeafSpec(d) == [tops |-> <<Leaf(d, FALSE)>>, spares |-> {}, caches |-> {}]

LEMMA StripeFacts ==
  ASSUME NEW d \in Devices, ConstructSpec(Stripe(d)) # Nil
  PROVE  /\ ConstructSpec(Stripe(d)) = LeafSpec(d) /\ Usable(d)
         /\ LeafSpec(d) \in Specs /\ WholeTops(LeafSpec(d).tops)
<1> DEFINE g == [type |-> "stripe", children |-> <<d>>, is_log |-> FALSE]
           e0 == [ok |-> TRUE, isLog |-> FALSE, seen |-> FALSE, logs |-> 0,
                  tops |-> <<>>, spares |-> <<>>, caches |-> <<>>]
           all == Entries(Stripe(d))[1]
           leaves == [i \in DOMAIN g.children |-> Leaf(g.children[i], FALSE)]
           one == <<Leaf(d, FALSE)>>
<1>1. Len(Stripe(d)) = 1 /\ Stripe(d)[1] = g
  BY DEF Stripe
<1>2. all = Entry(e0, g)
  <2>1. 1 \in 1 .. Len(Stripe(d)) /\ Len(Stripe(d)) \in Nat
    BY <1>1
  <2>2. /\ Entries(Stripe(d))[0] = e0
        /\ Entries(Stripe(d))[1] = Entry(Entries(Stripe(d))[1 - 1], Stripe(d)[1])
    BY <2>1, EntriesStep
  <2>3. 1 - 1 = 0
    OBVIOUS
  <2> HIDE DEF g, e0
  <2>4. QED
    BY <1>1, <2>2, <2>3
<1>3. all.ok /\ ConstructSpec(Stripe(d)) =
        [tops |-> all.tops, spares |-> DevsIn(all.spares), caches |-> DevsIn(all.caches)]
  BY <1>1, ConstructEntries
<1>4. DevsIn(<<d>>) = {d} /\ DevsIn(<<>>) = {}
  BY DEF DevsIn
<1>5. Usable(d)
  <2>1. CASE ~Usable(d)
    <3>1. all = [e0 EXCEPT !.ok = FALSE]
      BY <1>2, <1>4, <2>1 DEF Entry
    <3>2. ~all.ok
      BY <3>1
    <3>3. QED
      BY <1>3, <3>2
  <2>2. QED
    BY <2>1
<1>6. Leaf(d, FALSE) \in Vdevs /\ WholeVdev(Leaf(d, FALSE))
  BY <1>5, LeafWhole
<1>7. leaves = one
  <2>1. g.children = <<d>> /\ DOMAIN <<d>> = 1 .. 1 /\ <<d>>[1] = d
    OBVIOUS
  <2>2. leaves = [i \in 1 .. 1 |-> Leaf(<<d>>[i], FALSE)]
    BY <2>1
  <2>3. \A i \in 1 .. 1 : i = 1
    OBVIOUS
  <2>4. [i \in 1 .. 1 |-> Leaf(<<d>>[i], FALSE)] = [i \in 1 .. 1 |-> Leaf(d, FALSE)]
    BY <2>1, <2>3
  <2>5. one = [i \in 1 .. 1 |-> Leaf(d, FALSE)]
    <3>1. \A x : <<x>> = [i \in 1 .. 1 |-> x]
      OBVIOUS
    <3>2. QED
      BY <3>1
  <2> HIDE DEF leaves, one
  <2>6. QED
    BY <2>2, <2>4, <2>5
<1>8. one \in Seq(Vdevs) /\ Len(one) = 1 /\ one[1] = Leaf(d, FALSE) /\ <<>> \o one = one
  <2>1. \A x \in Vdevs : <<x>> \in Seq(Vdevs) /\ Len(<<x>>) = 1 /\ <<x>>[1] = x /\ <<>> \o <<x>> = <<x>>
    <3> TAKE x \in Vdevs
    <3>1. <<x>> \in Seq(Vdevs)
      OBVIOUS
    <3>2. \A u \in Seq(Vdevs) : <<>> \o u = u
      OBVIOUS
    <3>3. QED
      BY <3>1, <3>2
  <2>2. QED
    BY <2>1, <1>6
<1>9. all = [e0 EXCEPT !.isLog = FALSE, !.seen = FALSE, !.tops = <<>> \o leaves, !.logs = 0]
  <2>1. g.type \notin DOMAIN GroupTypes
    BY DEF GroupTypes
  <2>2. \A x \in DevsIn(g.children) : Usable(x)
    BY <1>4, <1>5
  <2>3. e0.ok /\ e0.isLog = FALSE /\ e0.seen = FALSE /\ g.is_log = FALSE /\ e0.tops = <<>> /\ e0.logs = 0
    OBVIOUS
  <2>4. (FALSE \/ FALSE) = FALSE
    OBVIOUS
  <2> HIDE DEF g, e0
  <2>5. Entry(e0, g) =
          LET isLog == e0.isLog \/ g.is_log IN
          [e0 EXCEPT !.isLog = isLog, !.seen = e0.seen \/ g.is_log,
                     !.tops = e0.tops \o [i \in DOMAIN g.children |-> Leaf(g.children[i], isLog)],
                     !.logs = e0.logs + (IF isLog THEN Len([i \in DOMAIN g.children |-> Leaf(g.children[i], isLog)]) ELSE 0)]
    BY <2>1, <2>2, <2>3 DEF Entry
  <2>6. 0 + 0 = 0
    OBVIOUS
  <2>7. QED
    BY <1>2, <2>3, <2>4, <2>5, <2>6
<1> HIDE DEF leaves, one
<1>10. all.tops = one /\ all.spares = <<>> /\ all.caches = <<>>
  BY <1>7, <1>8, <1>9
<1>11. ConstructSpec(Stripe(d)) = LeafSpec(d)
  BY <1>3, <1>4, <1>10 DEF LeafSpec, one
<1>12. LeafSpec(d).tops = one /\ LeafSpec(d).spares = {} /\ LeafSpec(d).caches = {}
  BY DEF LeafSpec, one
<1>13. LeafSpec(d) \in Specs
  BY <1>8 DEF LeafSpec, Specs, one
<1>14. WholeTops(LeafSpec(d).tops)
  <2>1. \A t \in DOMAIN one : t = 1
    BY <1>8
  <2>2. QED
    BY <1>6, <1>8, <1>12, <2>1 DEF WholeTops
<1>15. QED
  BY <1>5, <1>11, <1>13, <1>14

LEMMA MakeFacts ==
  ASSUME NEW current, NEW groups, NEW force, NEW checked, NEW lucky,
         MakeRootVdev(current, groups, force, checked, lucky) # Nil
  PROVE  /\ MakeRootVdev(current, groups, force, checked, lucky) = ConstructSpec(groups)
         /\ ConstructSpec(groups) # Nil
         /\ FreeDevices(ConstructSpec(groups), force, lucky)
         /\ checked => CheckReplication(current, ConstructSpec(groups).tops)
BY DEF MakeRootVdev

-----------------------------------------------------------------------------
(* The inductive invariant.                                                *)

PoolSteps == PoolOps \cup {"idle", "return", "createKernel", "addKernel", "attachKernel",
                           "removeMore", "doImport", "clear"}

DisksTyped ==
  /\ pool \in [Ids -> Pools \cup {Nil}]
  /\ label \in [Devices -> Ids \cup {Nil}]
CallsTyped ==
  /\ ppc \in [Admins -> PoolSteps]
  /\ preq \in [Admins -> PoolArguments]
  /\ pspec \in [Admins -> Specs]
  /\ papart \in [Admins -> BOOLEAN]
  /\ pok \in [Admins -> BOOLEAN]

There == {i \in Ids : pool[i] # Nil}

\* What is on the devices.
DisksInv ==
  /\ \A d \in Devices : label[d] # Nil => label[d] \in There
  /\ \A i \in There : SoundPool(pool[i])
  /\ \A i \in Ids : Is(i, "imported") => Intact(i)
  /\ \A i, j \in Ids : Is(i, "imported") /\ Is(j, "imported") /\ pool[i].name = pool[j].name => i = j

\* What a call may rely on at each of its steps.
CallInv(c) ==
  /\ ppc[c] \in {"create", "add"} => preq[c].devs \in Seq(Groups)
  /\ ppc[c] \notin {"import", "doImport", "labelclear", "clear", "return", "idle"} => preq[c].name \in PoolNames
  /\ ppc[c] \in {"remove", "removeMore"} => preq[c].devs \in Seq(Devices) \ {<<>>}
  /\ ppc[c] \in {"attach", "replace", "attachKernel", "detach", "labelclear", "clear"} => preq[c].dev \in Devices
  /\ ppc[c] \in {"attach", "replace", "attachKernel"} => preq[c].new \in Devices
  /\ ppc[c] \in {"createKernel", "addKernel"} => WholeTops(pspec[c].tops)
  /\ ppc[c] = "createKernel" =>
       /\ DataVdevs(pspec[c].tops) # {}
       /\ ~preq[c].force => Replication(pspec[c].tops) # Nil
  /\ ppc[c] = "attachKernel" => pspec[c] = LeafSpec(preq[c].new)
  /\ ppc[c] = "split" => preq[c].to \in PoolNames
  /\ ppc[c] = "doImport" => preq[c].left \subseteq There

\* Nobody comes between the two steps of a call that is apart, so what it saw at the
\* first holds at the second.
Seen(c) ==
  /\ ppc[c] \in {"createKernel", "addKernel", "attachKernel"} =>
       \A d \in SpecDevs(pspec[c]) : LabelState(d) \in {"none", "spare"}
  /\ ppc[c] = "addKernel" =>
       \A i \in Named(preq[c].name) : CheckReplication(pool[i].tops, pspec[c].tops)
  /\ ppc[c] = "clear" => LabelState(preq[c].dev) = "none"
ApartInv(c) ==
  papart[c] /\ ppc[c] # "idle" =>
    /\ \A e \in Admins : e # c => ppc[e] = "idle"
    /\ ~preq[c].force => Seen(c)

Calls == \A c \in Admins : CallInv(c) /\ ApartInv(c)

PoolInv == DisksTyped /\ CallsTyped /\ DisksInv /\ Calls

-----------------------------------------------------------------------------
(* What is on the devices, through a step that changes the pools K.        *)

Unmoved(p, q) ==
  \/ p = Nil /\ q = Nil
  \/ /\ p \in Pools /\ q \in Pools
     /\ q.name = p.name /\ q.state = p.state /\ q.tops = p.tops /\ q.even = p.even

LEMMA NilNoPool == Nil \notin Pools /\ Nil \notin Specs /\ Nil \notin Ids /\ Nil \notin PoolNames
BY PoolAssumption

LEMMA NilNoTops == Nil \notin Seq(Vdevs)
BY PoolAssumption

LEMMA DisksChange ==
  ASSUME DisksTyped, DisksInv, DisksTyped', NEW K \in SUBSET Ids,
         \A j \in Ids \ K : Unmoved(pool[j], pool'[j]),
         \A j \in K : pool'[j] \in Pools /\ SoundPool(pool'[j]),
         \A d \in Devices : label'[d] # label[d] => label'[d] = Nil \/ label'[d] \in K,
         \A j \in K : pool'[j].state = "imported" => \A d \in TopDevs(pool'[j].tops) : label'[d] = j,
         \A j \in Ids \ K : Is(j, "imported") => \A d \in TopDevs(pool[j].tops) : label'[d] = j,
         \A j \in K, k \in Ids : j # k /\ pool'[j].state = "imported" /\ Is(k, "imported")'
                                   => pool'[j].name # pool'[k].name
  PROVE  DisksInv' /\ There \subseteq There'
<1>1. \A j \in Ids \ K : pool'[j] # Nil <=> pool[j] # Nil
  BY NilNoPool DEF Unmoved
<1>2. \A j \in K : pool'[j] # Nil
  BY NilNoPool
<1>3. There \subseteq There'
  BY <1>1, <1>2 DEF There
<1>4. \A j \in Ids \ K : pool'[j] # Nil =>
        /\ pool'[j].name = pool[j].name /\ pool'[j].state = pool[j].state
        /\ pool'[j].tops = pool[j].tops /\ pool'[j].even = pool[j].even
  BY <1>1 DEF Unmoved
<1>5. (\A d \in Devices : label[d] # Nil => label[d] \in There)'
  <2> SUFFICES ASSUME NEW d \in Devices, label'[d] # Nil PROVE label'[d] \in There'
    OBVIOUS
  <2>1. CASE label'[d] = label[d]
    BY <2>1, <1>3 DEF DisksInv
  <2>2. CASE label'[d] # label[d]
    BY <2>2, <1>2 DEF There
  <2>3. QED
    BY <2>1, <2>2
<1>6. (\A i \in There : SoundPool(pool[i]))'
  <2> SUFFICES ASSUME NEW i \in Ids, pool'[i] # Nil PROVE SoundPool(pool'[i])
    BY DEF There
  <2>1. CASE i \in K
    BY <2>1
  <2>2. CASE i \notin K
    <3>1. SoundPool(pool[i])
      BY <1>1, <2>2 DEF DisksInv, There
    <3>2. pool'[i].tops = pool[i].tops /\ pool'[i].even = pool[i].even
      BY <1>4, <2>2
    <3>3. QED
      BY <3>1, <3>2 DEF SoundPool
  <2>3. QED
    BY <2>1, <2>2
<1>7. (\A i \in Ids : Is(i, "imported") => Intact(i))'
  <2> SUFFICES ASSUME NEW i \in Ids, pool'[i] # Nil, pool'[i].state = "imported"
               PROVE  \A d \in TopDevs(pool'[i].tops) : label'[d] = i
    BY DEF Is, Intact
  <2>1. CASE i \in K
    BY <2>1
  <2>2. CASE i \notin K
    <3>1. Is(i, "imported") /\ pool'[i].tops = pool[i].tops
      BY <1>1, <1>4, <2>2 DEF Is
    <3>2. QED
      BY <2>2, <3>1
  <2>3. QED
    BY <2>1, <2>2
<1>8. (\A i, j \in Ids : Is(i, "imported") /\ Is(j, "imported") /\ pool[i].name = pool[j].name => i = j)'
  <2> SUFFICES ASSUME NEW i \in Ids, NEW j \in Ids, Is(i, "imported")', Is(j, "imported")',
                      pool'[i].name = pool'[j].name, i # j
               PROVE  FALSE
    OBVIOUS
  <2>1. i \notin K /\ j \notin K
    BY DEF Is
  <2>2. /\ Is(i, "imported") /\ Is(j, "imported")
        /\ pool[i].name = pool[j].name
    BY <1>1, <1>4, <2>1 DEF Is
  <2>3. QED
    BY <2>2 DEF DisksInv
<1>9. QED
  BY <1>3, <1>5, <1>6, <1>7, <1>8 DEF DisksInv

(* What is imported here is in use, whatever anybody finds on it. *)
LEMMA ImportedActive ==
  ASSUME DisksTyped, DisksInv, NEW j \in Ids, Is(j, "imported"), NEW d \in TopDevs(pool[j].tops)
  PROVE  LabelState(d) = "active" /\ label[d] = j
<1>1. label[d] = j
  BY DEF DisksInv, Intact
<1>2. j # Nil /\ pool[j] # Nil /\ pool[j].state = "imported"
  BY NilNoPool DEF Is
<1>3. QED
  BY <1>1, <1>2 DEF LabelState

LEMMA PoolTops ==
  ASSUME DisksTyped, NEW i \in Ids, pool[i] # Nil
  PROVE  /\ pool[i] \in Pools /\ pool[i].tops \in Seq(Vdevs) /\ TopDevs(pool[i].tops) \subseteq Devices
         /\ pool[i].name \in PoolNames /\ pool[i].state \in PoolStates
         /\ pool[i].even \in BOOLEAN /\ pool[i].taken \in BOOLEAN
         /\ pool[i].spares \subseteq Devices /\ pool[i].caches \subseteq Devices
<1>1. pool[i] \in Pools
  BY DEF DisksTyped
<1>2. /\ pool[i].tops \in Seq(Vdevs) /\ pool[i].name \in PoolNames /\ pool[i].state \in PoolStates
      /\ pool[i].even \in BOOLEAN /\ pool[i].taken \in BOOLEAN
      /\ pool[i].spares \subseteq Devices /\ pool[i].caches \subseteq Devices
  BY <1>1 DEF Pools
<1>3. QED
  BY <1>1, <1>2, TopsTyped

(* What the kernel opens for one pool, no other has; and it labels it. *)
LEMMA KernelFacts ==
  ASSUME DisksTyped, DisksInv, NEW spec \in Specs, KernelFree(spec), NEW i \in Ids
  PROVE  /\ Labelled(i, spec) \in [Devices -> Ids \cup {Nil}]
         /\ TopDevs(spec.tops) \subseteq Devices /\ Distinct(spec.tops)
         /\ \A d \in TopDevs(spec.tops) : Labelled(i, spec)[d] = i
         /\ \A d \in Devices : Labelled(i, spec)[d] # label[d] => Labelled(i, spec)[d] = i
         /\ \A j \in Ids : Is(j, "imported") => \A d \in TopDevs(pool[j].tops) :
              d \notin SpecDevs(spec) /\ Labelled(i, spec)[d] = j
<1>1. spec.tops \in Seq(Vdevs) /\ TopDevs(spec.tops) \subseteq Devices
  <2>1. spec.tops \in Seq(Vdevs)
    BY DEF Specs
  <2>2. QED
    BY <2>1, TopsTyped
<1>2. Labelled(i, spec) \in [Devices -> Ids \cup {Nil}]
  BY DEF Labelled, DisksTyped
<1>3. \A d \in TopDevs(spec.tops) : LabelState(d) # "spare"
  BY DEF KernelFree, SpecDevs
<1>4. \A d \in TopDevs(spec.tops) : Labelled(i, spec)[d] = i
  BY <1>1, <1>3 DEF Labelled, SpecDevs
<1>5. \A d \in Devices : Labelled(i, spec)[d] # label[d] => Labelled(i, spec)[d] = i
  BY DEF Labelled
<1>6. \A j \in Ids : Is(j, "imported") => \A d \in TopDevs(pool[j].tops) :
              d \notin SpecDevs(spec) /\ Labelled(i, spec)[d] = j
  <2> SUFFICES ASSUME NEW j \in Ids, Is(j, "imported"), NEW d \in TopDevs(pool[j].tops)
               PROVE  d \notin SpecDevs(spec) /\ Labelled(i, spec)[d] = j
    OBVIOUS
  <2>1. LabelState(d) = "active" /\ label[d] = j /\ d \in Devices
    BY ImportedActive, PoolTops DEF Is
  <2>2. d \notin SpecDevs(spec)
    BY <2>1 DEF KernelFree
  <2>3. QED
    BY <2>1, <2>2 DEF Labelled
<1>7. QED
  BY <1>1, <1>2, <1>4, <1>5, <1>6 DEF KernelFree

-----------------------------------------------------------------------------
(* Calls, through a step of one.                                           *)

Moves(c) ==
  /\ ppc[c] # "idle"
  /\ \A e \in Admins \ {c} : /\ ppc'[e] = ppc[e] /\ preq'[e] = preq[e]
                             /\ pspec'[e] = pspec[e] /\ papart'[e] = papart[e]

LEMMA OtherCalls ==
  ASSUME Calls, NEW c \in Admins, Moves(c), There \subseteq There'
  PROVE  /\ \A e \in Admins \ {c} : CallInv(e)' /\ ApartInv(e)'
         /\ papart[c] => \A e \in Admins : e # c => ppc'[e] = "idle"
<1>1. \A e \in Admins \ {c} : CallInv(e)'
  <2> TAKE e \in Admins \ {c}
  <2>1. CallInv(e) /\ ppc'[e] = ppc[e] /\ preq'[e] = preq[e] /\ pspec'[e] = pspec[e]
    BY DEF Calls, Moves
  <2>2. QED
    BY <2>1 DEF CallInv
<1>2. \A e \in Admins \ {c} : ApartInv(e)'
  <2> TAKE e \in Admins \ {c}
  <2>1. ApartInv(e) /\ ppc[c] # "idle" /\ ppc'[e] = ppc[e] /\ papart'[e] = papart[e]
    BY DEF Calls, Moves
  <2>2. ~(papart[e] /\ ppc[e] # "idle")
    BY <2>1 DEF ApartInv
  <2>3. QED
    BY <2>1, <2>2 DEF ApartInv
<1>3. ASSUME papart[c] PROVE \A e \in Admins : e # c => ppc'[e] = "idle"
  BY <1>3 DEF Calls, ApartInv, Moves
<1>4. QED
  BY <1>1, <1>2, <1>3

LEMMA Returned ==
  ASSUME Calls, NEW c \in Admins, Moves(c), papart'[c] = papart[c],
         There \subseteq There', ppc'[c] = "return"
  PROVE  Calls'
<1>1. CallInv(c)'
  BY DEF CallInv
<1>2. Seen(c)'
  BY DEF Seen
<1>3. ApartInv(c)'
  BY <1>2, OtherCalls DEF ApartInv
<1>4. QED
  BY <1>1, <1>3, OtherCalls DEF Calls

LEMMA Stepped ==
  ASSUME CallsTyped, NEW c \in Admins, NEW where, Step(c, where), ppc[c] # "idle",
         \A e \in Admins \ {c} : pspec'[e] = pspec[e]
  PROVE  Moves(c) /\ ppc'[c] = where /\ preq' = preq /\ papart' = papart
BY DEF CallsTyped, Step, Moves

LEMMA ResultCalls ==
  ASSUME CallsTyped, Calls, NEW c \in Admins, NEW ok \in BOOLEAN, Result(c, ok), ppc[c] # "idle",
         There \subseteq There'
  PROVE  CallsTyped' /\ Calls'
<1>1. Step(c, "return") /\ pok' = [pok EXCEPT ![c] = ok] /\ pspec' = pspec
  BY DEF Result
<1>2. Moves(c) /\ ppc'[c] = "return" /\ papart' = papart
  BY <1>1, Stepped
<1>3. CallsTyped'
  <2>1. ppc' = [ppc EXCEPT ![c] = "return"] /\ preq' = preq /\ papart' = papart
    BY <1>1 DEF Step
  <2>2. "return" \in PoolSteps
    BY DEF PoolSteps
  <2>3. QED
    BY <1>1, <2>1, <2>2 DEF CallsTyped
<1>4. QED
  BY <1>2, <1>3, Returned

LEMMA DisksSame ==
  ASSUME DisksTyped, DisksInv, UNCHANGED Disks
  PROVE  DisksTyped' /\ DisksInv' /\ There \subseteq There' /\ There' = There
<1>1. pool' = pool /\ label' = label
  BY DEF Disks
<1>2. QED
  BY <1>1 DEF DisksTyped, DisksInv, There, Is, Intact

LEMMA StartInv ==
  ASSUME PoolInit
  PROVE  PoolInv
<1>1. PICK s \in PoolStarts : pool = s.pool /\ label = s.label
  BY DEF PoolInit
<1> DEFINE there == {i \in Ids : s.pool[i] # Nil}
           here == {i \in there : s.pool[i].state = "imported"}
<1>2. /\ s.pool \in [Ids -> Pools \cup {Nil}] /\ s.label \in [Devices -> there \cup {Nil}]
      /\ \A i \in there : SoundPool(s.pool[i])
      /\ \A i \in here : \A d \in TopDevs(s.pool[i].tops) : s.label[d] = i
      /\ \A i, j \in here : s.pool[i].name = s.pool[j].name => i = j
  BY StartAssumption
<1>3. There = there /\ \A i \in Ids : Is(i, "imported") <=> i \in here
  BY <1>1 DEF There, Is
<1>4. DisksTyped
  BY <1>1, <1>2 DEF DisksTyped
<1> HIDE DEF there, here
<1>5. DisksInv
  <2>1. \A d \in Devices : label[d] # Nil => label[d] \in There
    BY <1>1, <1>2, <1>3
  <2>2. \A i \in There : SoundPool(pool[i])
    BY <1>1, <1>2, <1>3
  <2>3. \A i \in Ids : Is(i, "imported") => Intact(i)
    BY <1>1, <1>2, <1>3 DEF Intact
  <2>4. \A i, j \in Ids : Is(i, "imported") /\ Is(j, "imported") /\ pool[i].name = pool[j].name => i = j
    BY <1>1, <1>2, <1>3
  <2>5. QED
    BY <2>1, <2>2, <2>3, <2>4 DEF DisksInv
<1>6. NoSpec \in Specs
  <2>1. <<>> \in Seq(Vdevs)
    OBVIOUS
  <2>2. QED
    BY <2>1 DEF NoSpec, Specs
<1>7. CallsTyped
  <2>1. NoPoolRequest \in PoolArguments
    <3>1. <<>> \in Seq(Groups)
      OBVIOUS
    <3>2. QED
      BY <3>1 DEF NoPoolRequest, PoolArguments
  <2>2. QED
    BY <1>6, <2>1 DEF PoolInit, CallsTyped, PoolSteps
<1>8. Calls
  <2>1. \A c \in Admins : ppc[c] = "idle"
    BY DEF PoolInit
  <2>2. QED
    BY <2>1 DEF Calls, CallInv, ApartInv
<1>9. QED
  BY <1>4, <1>5, <1>7, <1>8 DEF PoolInv

LEMMA CallStep ==
  ASSUME PoolInv, NEW c \in Admins, CallPool(c)
  PROVE  PoolInv'
<1> USE DEF PoolInv
<1>1. PICK r \in PoolRequests : preq' = [preq EXCEPT ![c] = r] /\ ppc' = [ppc EXCEPT ![c] = r.op]
  BY DEF CallPool
<1>2. /\ ppc[c] = "idle" /\ UNCHANGED <<Disks, pspec, pok>>
      /\ papart' = [d \in Admins |-> IF d = c THEN \A e \in Admins \ {c} : ppc[e] = "idle"
                                     ELSE papart[d] /\ ppc[d] = "idle"]
  BY DEF CallPool
<1>3. r \in PoolArguments /\ r.op \in PoolOps
  BY PoolAssumption DEF PoolArguments
<1>4. DisksTyped' /\ DisksInv' /\ There' = There
  BY <1>2, DisksSame
<1>5. CallsTyped'
  <2>1. preq' \in [Admins -> PoolArguments]
    BY <1>1, <1>3 DEF CallsTyped
  <2>2. ppc' \in [Admins -> PoolSteps]
    BY <1>1, <1>3 DEF CallsTyped, PoolSteps
  <2>3. papart' \in [Admins -> BOOLEAN]
    BY <1>2 DEF CallsTyped
  <2>4. QED
    BY <1>2, <2>1, <2>2, <2>3 DEF CallsTyped
<1>6. ppc'[c] = r.op /\ preq'[c] = r
  BY <1>1 DEF CallsTyped
<1>7. \A e \in Admins \ {c} : ppc'[e] = ppc[e] /\ preq'[e] = preq[e] /\ pspec'[e] = pspec[e]
                              /\ (papart'[e] => ppc[e] = "idle")
  BY <1>1, <1>2 DEF CallsTyped
<1>8. \A e \in Admins \ {c} : CallInv(e)' /\ ApartInv(e)'
  <2> TAKE e \in Admins \ {c}
  <2>1. CallInv(e)
    BY DEF Calls
  <2>2. CallInv(e)'
    BY <2>1, <1>7, <1>4 DEF CallInv
  <2>3. ApartInv(e)'
    BY <1>7 DEF ApartInv
  <2>4. QED
    BY <2>2, <2>3
<1>9. CallInv(c)'
  <2>1. /\ r.op \in {"create", "add"} => r.devs \in Seq(Groups)
        /\ r.op = "remove" => r.devs \in Seq(Devices) \ {<<>>}
        /\ r.op \in {"attach", "replace", "detach", "labelclear"} => r.dev \in Devices
        /\ r.op \in {"attach", "replace"} => r.new \in Devices
        /\ r.op \notin {"import", "labelclear"} => r.name \in PoolNames
        /\ r.op = "split" => r.to \in PoolNames
    BY PoolAssumption
  <2>2. QED
    BY <1>3, <1>6, <2>1 DEF CallInv, PoolOps
<1>10. ApartInv(c)'
  <2>1. papart'[c] => \A e \in Admins : e # c => ppc'[e] = "idle"
    BY <1>2, <1>7
  <2>2. Seen(c)'
    BY <1>3, <1>6 DEF Seen, PoolOps
  <2>3. QED
    BY <2>1, <2>2 DEF ApartInv
<1>11. QED
  BY <1>4, <1>5, <1>8, <1>9, <1>10 DEF Calls

LEMMA LeaveStep ==
  ASSUME PoolInv, NEW c \in Admins, LeavePool(c)
  PROVE  PoolInv'
<1> USE DEF PoolInv
<1>1. DisksTyped' /\ DisksInv' /\ There \subseteq There'
  BY DisksSame DEF LeavePool
<1>2. NoSpec \in Specs
  <2>1. <<>> \in Seq(Vdevs)
    OBVIOUS
  <2>2. QED
    BY <2>1 DEF NoSpec, Specs
<1>3. CallsTyped'
  <2>1. NoPoolRequest \in PoolArguments
    <3>1. <<>> \in Seq(Groups)
      OBVIOUS
    <3>2. QED
      BY <3>1 DEF NoPoolRequest, PoolArguments
  <2>2. QED
    BY <1>2, <2>1 DEF CallsTyped, LeavePool, PoolSteps
<1>4. Moves(c) /\ ppc'[c] = "idle"
  BY DEF LeavePool, Moves, CallsTyped
<1>5. \A e \in Admins \ {c} : CallInv(e)' /\ ApartInv(e)'
  BY <1>1, <1>4, OtherCalls
<1>6. CallInv(c)' /\ ApartInv(c)'
  BY <1>4 DEF CallInv, ApartInv
<1>7. QED
  BY <1>1, <1>3, <1>5, <1>6 DEF Calls

(* A description was found fit, and is kept until the kernel is asked. *)
LEMMA Gathered ==
  ASSUME PoolInv, NEW c \in Admins, NEW spec, NEW where \in {"createKernel", "addKernel", "attachKernel"},
         Gather(c, spec, where), UNCHANGED Disks, ppc[c] # "idle",
         spec # Nil => /\ spec \in Specs /\ WholeTops(spec.tops)
                       /\ preq[c].name \in PoolNames
                       /\ where = "createKernel" =>
                            /\ DataVdevs(spec.tops) # {}
                            /\ ~preq[c].force => Replication(spec.tops) # Nil
                       /\ where = "attachKernel" => /\ spec = LeafSpec(preq[c].new)
                                                    /\ preq[c].new \in Devices /\ preq[c].dev \in Devices
                       /\ ~preq[c].force =>
                            /\ \A d \in SpecDevs(spec) : LabelState(d) \in {"none", "spare"}
                            /\ where = "addKernel" =>
                                 \A i \in Named(preq[c].name) : CheckReplication(pool[i].tops, spec.tops)
  PROVE  PoolInv'
<1> USE DEF PoolInv
<1>1. DisksTyped' /\ DisksInv' /\ There \subseteq There' /\ pool' = pool /\ label' = label
  BY DisksSame DEF Disks
<1>2. CASE spec = Nil
  BY <1>1, <1>2, ResultCalls DEF Gather
<1>3. CASE spec # Nil
  <2>1. Step(c, where) /\ pspec' = [pspec EXCEPT ![c] = spec] /\ pok' = pok
    BY <1>3 DEF Gather
  <2>2. Moves(c) /\ ppc'[c] = where /\ preq' = preq /\ papart' = papart
    <3>1. \A e \in Admins \ {c} : pspec'[e] = pspec[e]
      BY <2>1 DEF CallsTyped
    <3>2. QED
      BY <2>1, <3>1, Stepped
  <2>3. pspec'[c] = spec
    BY <2>1 DEF CallsTyped
  <2>4. CallsTyped'
    <3>1. ppc' = [ppc EXCEPT ![c] = where] /\ where \in PoolSteps
      BY <2>1 DEF Step, PoolSteps
    <3>2. QED
      BY <1>3, <2>1, <2>2, <3>1 DEF CallsTyped
  <2>5. CallInv(c)'
    BY <1>3, <2>2, <2>3 DEF CallInv
  <2>6. ~preq[c].force => Seen(c)'
    <3>1. \A d : LabelState(d)' = LabelState(d)
      BY <1>1 DEF LabelState, Is
    <3>2. \A d : SpecDevs(pspec[c])' = SpecDevs(spec)
      BY <2>3 DEF SpecDevs
    <3>3. Named(preq[c].name)' = Named(preq[c].name)
      BY <1>1, <2>2 DEF Named, Is
    <3>4. QED
      BY <1>1, <1>3, <2>2, <2>3, <3>1, <3>2, <3>3 DEF Seen
  <2>7. ApartInv(c)'
    BY <1>1, <2>2, <2>6, OtherCalls DEF ApartInv
  <2>8. \A e \in Admins \ {c} : CallInv(e)' /\ ApartInv(e)'
    BY <1>1, <2>2, OtherCalls
  <2>9. QED
    BY <1>1, <2>4, <2>5, <2>7, <2>8 DEF Calls
<1>4. QED
  BY <1>2, <1>3

-----------------------------------------------------------------------------
(* The steps that look at devices.                                         *)

(* A device that was let in without force belonged to nobody. *)
LEMMA LetIn ==
  ASSUME NEW spec, FreeDevices(spec, FALSE, FALSE) \/ (spec.spares = {} /\ FreeDevices(spec, FALSE, TRUE))
  PROVE  \A d \in SpecDevs(spec) : LabelState(d) \in {"none", "spare"}
BY DEF FreeDevices, CheckFile, SpecDevs

LEMMA CreatePoolStep ==
  ASSUME PoolInv, NEW c \in Admins, CreatePool(c)
  PROVE  PoolInv'
<1> DEFINE r == preq[c]
           made == MakeRootVdev(Nil, r.devs, r.force, ~r.force, FALSE)
           spec == IF made # Nil /\ DataVdevs(made.tops) = {} THEN Nil ELSE made
<1>1. ppc[c] = "create" /\ Gather(c, spec, "createKernel") /\ UNCHANGED Disks
  BY DEF CreatePool
<1>2. r.devs \in Seq(Groups) /\ r.name \in PoolNames
  BY <1>1 DEF PoolInv, Calls, CallInv
<1>3. ASSUME spec # Nil
      PROVE  /\ spec \in Specs /\ WholeTops(spec.tops)
             /\ DataVdevs(spec.tops) # {}
             /\ ~r.force => Replication(spec.tops) # Nil
             /\ ~r.force => \A d \in SpecDevs(spec) : LabelState(d) \in {"none", "spare"}
  <2>1. made # Nil /\ DataVdevs(made.tops) # {} /\ spec = made
    BY <1>3
  <2> HIDE DEF spec
  <2>2. /\ made = ConstructSpec(r.devs) /\ ConstructSpec(r.devs) # Nil
        /\ FreeDevices(made, r.force, FALSE)
        /\ ~r.force => CheckReplication(Nil, made.tops)
    BY <2>1 DEF MakeRootVdev
  <2> HIDE DEF made
  <2>3. made \in Specs /\ WholeTops(made.tops)
    BY <1>2, <2>2, ConstructFacts
  <2>4. ~r.force => Replication(made.tops) # Nil
    BY <2>1, <2>2 DEF CheckReplication
  <2>5. ASSUME ~r.force PROVE \A d \in SpecDevs(made) : LabelState(d) \in {"none", "spare"}
    <3>1. FreeDevices(made, FALSE, FALSE)
      BY <2>2, <2>5 DEF FreeDevices, CheckFile
    <3>2. QED
      BY <3>1, LetIn
  <2>6. QED
    BY <2>1, <2>3, <2>4, <2>5
<1> HIDE DEF spec
<1>4. QED
  BY <1>1, <1>2, <1>3, Gathered

LEMMA AddToPoolStep ==
  ASSUME PoolInv, NEW c \in Admins, AddToPool(c)
  PROVE  PoolInv'
<1> DEFINE r == preq[c]
<1>1. ppc[c] = "add" /\ UNCHANGED Disks /\ r.devs \in Seq(Groups) /\ r.name \in PoolNames
  BY DEF AddToPool, PoolInv, Calls, CallInv
<1>2. CASE Named(r.name) = {}
  <2>1. Result(c, FALSE)
    BY <1>2 DEF AddToPool
  <2>2. DisksTyped' /\ DisksInv' /\ There \subseteq There'
    BY <1>1, DisksSame DEF PoolInv
  <2>3. CallsTyped' /\ Calls'
    BY <1>1, <2>1, <2>2, ResultCalls DEF PoolInv
  <2>4. QED
    BY <2>2, <2>3 DEF PoolInv
<1>3. CASE Named(r.name) # {}
  <2>1. PICK i \in Named(r.name) :
          Gather(c, MakeRootVdev(pool[i].tops, r.devs, r.force, ~r.force, FALSE), "addKernel")
    BY <1>3 DEF AddToPool
  <2> DEFINE made == MakeRootVdev(pool[i].tops, r.devs, r.force, ~r.force, FALSE)
  <2>2. \A j \in Named(r.name) : j = i
    BY DEF PoolInv, DisksInv, Named
  <2>3. ASSUME made # Nil
        PROVE  /\ made \in Specs /\ WholeTops(made.tops)
               /\ ~r.force => /\ \A d \in SpecDevs(made) : LabelState(d) \in {"none", "spare"}
                              /\ \A j \in Named(r.name) : CheckReplication(pool[j].tops, made.tops)
    <3>1. /\ made = ConstructSpec(r.devs) /\ ConstructSpec(r.devs) # Nil
          /\ FreeDevices(made, r.force, FALSE)
          /\ ~r.force => CheckReplication(pool[i].tops, made.tops)
      BY <2>3, MakeFacts
    <3> HIDE DEF made
    <3>2. made \in Specs /\ WholeTops(made.tops)
      BY <1>1, <3>1, ConstructFacts
    <3>3. ASSUME ~r.force PROVE \A d \in SpecDevs(made) : LabelState(d) \in {"none", "spare"}
      <4>1. FreeDevices(made, FALSE, FALSE)
        BY <3>1, <3>3 DEF FreeDevices, CheckFile
      <4>2. QED
        BY <4>1, LetIn
    <3>4. QED
      BY <2>2, <3>1, <3>2, <3>3
  <2>4. Gather(c, made, "addKernel")
    BY <2>1
  <2> HIDE DEF made
  <2>5. QED
    BY <1>1, <2>3, <2>4, Gathered
<1>4. QED
  BY <1>2, <1>3

LEMMA AttachCheckStep ==
  ASSUME PoolInv, NEW c \in Admins, AttachCheck(c)
  PROVE  PoolInv'
<1> DEFINE r == preq[c]
<1>1. /\ ppc[c] \in {"attach", "replace"} /\ UNCHANGED Disks
      /\ r.dev \in Devices /\ r.new \in Devices /\ r.name \in PoolNames
  BY DEF AttachCheck, PoolInv, Calls, CallInv
<1>2. CASE Named(r.name) = {}
  <2>1. Result(c, FALSE) /\ ppc[c] # "idle"
    BY <1>1, <1>2 DEF AttachCheck
  <2>2. DisksTyped' /\ DisksInv' /\ There \subseteq There'
    BY <1>1, DisksSame DEF PoolInv
  <2>3. CallsTyped' /\ Calls'
    BY <2>1, <2>2, ResultCalls DEF PoolInv
  <2>4. QED
    BY <2>2, <2>3 DEF PoolInv
<1>3. CASE Named(r.name) # {}
  <2>1. PICK lucky \in BOOLEAN :
          Gather(c, MakeRootVdev(Nil, Stripe(r.new), r.force, FALSE, lucky), "attachKernel")
    BY <1>3 DEF AttachCheck
  <2> DEFINE made == MakeRootVdev(Nil, Stripe(r.new), r.force, FALSE, lucky)
  <2>2. ASSUME made # Nil
        PROVE  /\ made \in Specs /\ WholeTops(made.tops) /\ made = LeafSpec(r.new)
               /\ ~r.force => \A d \in SpecDevs(made) : LabelState(d) \in {"none", "spare"}
    <3>1. /\ made = ConstructSpec(Stripe(r.new)) /\ ConstructSpec(Stripe(r.new)) # Nil
          /\ FreeDevices(made, r.force, lucky)
      BY <2>2 DEF MakeRootVdev
    <3> HIDE DEF made
    <3>2. made \in Specs /\ WholeTops(made.tops) /\ made = LeafSpec(r.new)
      BY <1>1, <3>1, StripeFacts
    <3>3. ASSUME ~r.force PROVE \A d \in SpecDevs(made) : LabelState(d) \in {"none", "spare"}
      <4>1. made.spares = {}
        BY <3>2 DEF LeafSpec
      <4>2. FreeDevices(made, FALSE, TRUE)
        BY <3>1, <3>3 DEF FreeDevices, CheckFile
      <4>3. QED
        BY <4>1, <4>2, LetIn
    <3>4. QED
      BY <3>2, <3>3
  <2>3. Gather(c, made, "attachKernel") /\ ppc[c] # "idle"
    BY <1>1, <2>1
  <2> HIDE DEF made
  <2>4. QED
    BY <1>1, <2>2, <2>3, Gathered
<1>4. QED
  BY <1>2, <1>3

LEMMA ClearCheckStep ==
  ASSUME PoolInv, NEW c \in Admins, ClearCheck(c)
  PROVE  PoolInv'
<1> DEFINE r == preq[c]
<1>1. ppc[c] = "labelclear" /\ UNCHANGED Disks /\ r.dev \in Devices
  BY DEF ClearCheck, PoolInv, Calls, CallInv
<1>2. DisksTyped' /\ DisksInv' /\ There \subseteq There' /\ pool' = pool /\ label' = label
  BY <1>1, DisksSame DEF PoolInv, Disks
<1>3. CASE Result(c, FALSE)
  <2>1. CallsTyped' /\ Calls'
    BY <1>1, <1>2, <1>3, ResultCalls DEF PoolInv
  <2>2. QED
    BY <1>2, <2>1 DEF PoolInv
<1>4. CASE /\ Step(c, "clear") /\ UNCHANGED <<pspec, pok>>
           /\ ~r.force => LabelState(r.dev) = "none"
  <2>1. Moves(c) /\ ppc'[c] = "clear" /\ preq' = preq /\ papart' = papart
    BY <1>1, <1>4, Stepped DEF PoolInv
  <2>2. CallsTyped'
    <3>1. ppc' = [ppc EXCEPT ![c] = "clear"] /\ "clear" \in PoolSteps
      BY <1>4 DEF Step, PoolSteps
    <3>2. QED
      BY <1>4, <2>1, <3>1 DEF CallsTyped, PoolInv
  <2>3. CallInv(c)'
    BY <1>1, <2>1 DEF CallInv
  <2>4. ~r.force => Seen(c)'
    <3>1. \A d : LabelState(d)' = LabelState(d)
      BY <1>2 DEF LabelState, Is
    <3>2. QED
      BY <1>4, <2>1, <3>1 DEF Seen
  <2>5. ApartInv(c)'
    BY <1>2, <2>1, <2>4, OtherCalls DEF ApartInv, PoolInv
  <2>6. \A e \in Admins \ {c} : CallInv(e)' /\ ApartInv(e)'
    BY <1>2, <2>1, OtherCalls DEF PoolInv
  <2>7. QED
    BY <1>2, <2>2, <2>3, <2>5, <2>6 DEF PoolInv, Calls
<1>5. QED
  BY <1>3, <1>4 DEF ClearCheck

LEMMA SearchImportStep ==
  ASSUME PoolInv, NEW c \in Admins, SearchImport(c)
  PROVE  PoolInv'
<1> DEFINE r == preq[c]
           asked == {i \in Found : /\ r.name = Nil \/ pool[i].name = r.name
                                   /\ (pool[i].state = "destroyed") = r.flag}
<1>1. ppc[c] = "import" /\ UNCHANGED Disks
  BY DEF SearchImport
<1>2. DisksTyped' /\ DisksInv' /\ There \subseteq There' /\ There' = There
  BY <1>1, DisksSame DEF PoolInv
<1>3. CASE Result(c, FALSE)
  <2>1. CallsTyped' /\ Calls'
    BY <1>1, <1>2, <1>3, ResultCalls DEF PoolInv
  <2>2. QED
    BY <1>2, <2>1 DEF PoolInv
<1>4. CASE \E left \in SUBSET asked :
             /\ ppc' = [ppc EXCEPT ![c] = "doImport"]
             /\ preq' = [preq EXCEPT ![c].left = left]
             /\ pok' = [pok EXCEPT ![c] = TRUE]
             /\ UNCHANGED <<pspec, papart, pcalls>>
  <2>1. PICK left \in SUBSET asked :
             /\ ppc' = [ppc EXCEPT ![c] = "doImport"]
             /\ preq' = [preq EXCEPT ![c].left = left]
             /\ pok' = [pok EXCEPT ![c] = TRUE]
             /\ UNCHANGED <<pspec, papart, pcalls>>
    BY <1>4
  <2>2. left \subseteq There /\ left \subseteq Ids
    BY DEF Found, There
  <2>3. r \in PoolArguments
    BY DEF PoolInv, CallsTyped
  <2>4. [r EXCEPT !.left = left] \in PoolArguments /\ [r EXCEPT !.left = left].left = left
    BY <2>2, <2>3 DEF PoolArguments
  <2>5. Moves(c) /\ ppc'[c] = "doImport" /\ preq'[c].left = left /\ papart' = papart
    BY <1>1, <2>1, <2>4 DEF PoolInv, CallsTyped, Moves
  <2>6. CallsTyped'
    <3>1. preq' = [preq EXCEPT ![c] = [r EXCEPT !.left = left]]
      BY <2>1
    <3>2. QED
      BY <2>1, <2>4, <3>1 DEF PoolInv, CallsTyped, PoolSteps
  <2>7. CallInv(c)'
    BY <1>2, <2>2, <2>5 DEF CallInv
  <2>8. ApartInv(c)'
    <3>1. Seen(c)'
      BY <2>5 DEF Seen
    <3>2. QED
      BY <1>2, <2>5, <3>1, OtherCalls DEF ApartInv, PoolInv
  <2>9. \A e \in Admins \ {c} : CallInv(e)' /\ ApartInv(e)'
    BY <1>2, <2>5, OtherCalls DEF PoolInv
  <2>10. QED
    BY <1>2, <2>6, <2>7, <2>8, <2>9 DEF PoolInv, Calls
<1>5. QED
  <2>1. \A i \in asked : {i} \in SUBSET asked
    OBVIOUS
  <2>2. Result(c, FALSE) \/ \E left \in (IF r.name = Nil THEN {asked} ELSE {{i} : i \in asked}) :
             /\ ppc' = [ppc EXCEPT ![c] = "doImport"]
             /\ preq' = [preq EXCEPT ![c].left = left]
             /\ pok' = [pok EXCEPT ![c] = TRUE]
             /\ UNCHANGED <<pspec, papart, pcalls>>
    BY DEF SearchImport
  <2> HIDE DEF asked
  <2>3. \A left \in (IF r.name = Nil THEN {asked} ELSE {{i} : i \in asked}) : left \in SUBSET asked
    BY <2>1
  <2>4. QED
    BY <1>3, <1>4, <2>2, <2>3

-----------------------------------------------------------------------------
(* What adding vdevs, and changing one, does to the devices of a pool.     *)

LEMMA ConcatPlaces ==
  ASSUME NEW s \in Seq(Vdevs), NEW u \in Seq(Vdevs)
  PROVE  /\ s \o u \in Seq(Vdevs)
         /\ \A t \in DOMAIN s : t \in DOMAIN (s \o u) /\ (s \o u)[t] = s[t]
         /\ \A t \in DOMAIN u : Len(s) + t \in DOMAIN (s \o u) /\ (s \o u)[Len(s) + t] = u[t]
         /\ \A t \in DOMAIN (s \o u) : t \in DOMAIN s \/ (t - Len(s) \in DOMAIN u /\ t = Len(s) + (t - Len(s)) /\ t \notin DOMAIN s)
<1>1. s \o u \in Seq(Vdevs) /\ Len(s \o u) = Len(s) + Len(u) /\ Len(s) \in Nat /\ Len(u) \in Nat
  OBVIOUS
<1>2. DOMAIN s = 1 .. Len(s) /\ DOMAIN u = 1 .. Len(u) /\ DOMAIN (s \o u) = 1 .. Len(s) + Len(u)
  BY <1>1
<1>3. \A t \in 1 .. Len(s) + Len(u) : (s \o u)[t] = IF t <= Len(s) THEN s[t] ELSE u[t - Len(s)]
  BY <1>1
<1>4. \A t \in DOMAIN s : t \in DOMAIN (s \o u) /\ (s \o u)[t] = s[t]
  BY <1>1, <1>2, <1>3
<1>5. \A t \in DOMAIN u : Len(s) + t \in DOMAIN (s \o u) /\ (s \o u)[Len(s) + t] = u[t]
  <2> TAKE t \in DOMAIN u
  <2>1. Len(s) + t \in 1 .. Len(s) + Len(u) /\ ~(Len(s) + t <= Len(s)) /\ (Len(s) + t) - Len(s) = t
    BY <1>1, <1>2
  <2>2. QED
    BY <2>1, <1>2, <1>3
<1>6. \A t \in DOMAIN (s \o u) : t \in DOMAIN s \/ (t - Len(s) \in DOMAIN u /\ t = Len(s) + (t - Len(s)) /\ t \notin DOMAIN s)
  BY <1>1, <1>2
<1>7. QED
  BY <1>1, <1>4, <1>5, <1>6

LEMMA ConcatDevs ==
  ASSUME NEW s \in Seq(Vdevs), NEW u \in Seq(Vdevs)
  PROVE  TopDevs(s \o u) \subseteq TopDevs(s) \cup TopDevs(u)
<1> DEFINE su == s \o u
<1>1. ASSUME NEW d \in TopDevs(su) PROVE d \in TopDevs(s) \cup TopDevs(u)
  <2>1. PICK t \in DOMAIN su : \E k \in DOMAIN su[t].devs : su[t].devs[k] = d
    BY TopDevsPlaces
  <2>2. CASE t \in DOMAIN s
    <3>1. su[t] = s[t]
      BY <2>2, ConcatPlaces
    <3>2. QED
      BY <2>1, <2>2, <3>1, TopDevsPlaces
  <2>3. CASE t \notin DOMAIN s
    <3>1. t - Len(s) \in DOMAIN u /\ su[t] = u[t - Len(s)]
      BY <2>3, ConcatPlaces
    <3>2. QED
      BY <2>1, <3>1, TopDevsPlaces
  <2>4. QED
    BY <2>2, <2>3
<1>2. QED
  BY <1>1

LEMMA ConcatDistinct ==
  ASSUME NEW s \in Seq(Vdevs), NEW u \in Seq(Vdevs), Distinct(s), Distinct(u),
         TopDevs(s) \cap TopDevs(u) = {}
  PROVE  Distinct(s \o u)
<1> DEFINE su == s \o u
<1> SUFFICES ASSUME NEW i \in DOMAIN su, NEW j \in DOMAIN su,
                    NEW k \in DOMAIN su[i].devs, NEW l \in DOMAIN su[j].devs,
                    su[i].devs[k] = su[j].devs[l]
             PROVE  i = j /\ k = l
  BY DEF Distinct
<1> HIDE DEF su
<1>0. /\ \A t \in DOMAIN s : su[t] = s[t]
      /\ \A t \in DOMAIN su : t \in DOMAIN s \/ (t - Len(s) \in DOMAIN u /\ su[t] = u[t - Len(s)] /\ t = Len(s) + (t - Len(s)))
  BY ConcatPlaces DEF su
<1>1. CASE i \in DOMAIN s /\ j \in DOMAIN s
  BY <1>1, <1>0 DEF Distinct
<1>2. CASE i \in DOMAIN s /\ j \notin DOMAIN s
  <2>1. su[i].devs[k] \in TopDevs(s)
    BY <1>2, <1>0, TopDevsPlaces
  <2>2. su[j].devs[l] \in TopDevs(u)
    BY <1>2, <1>0, TopDevsPlaces
  <2>3. QED
    BY <2>1, <2>2
<1>3. CASE i \notin DOMAIN s /\ j \in DOMAIN s
  <2>1. su[i].devs[k] \in TopDevs(u)
    BY <1>3, <1>0, TopDevsPlaces
  <2>2. su[j].devs[l] \in TopDevs(s)
    BY <1>3, <1>0, TopDevsPlaces
  <2>3. QED
    BY <2>1, <2>2
<1>4. CASE i \notin DOMAIN s /\ j \notin DOMAIN s
  <2>1. /\ i - Len(s) \in DOMAIN u /\ su[i] = u[i - Len(s)] /\ i = Len(s) + (i - Len(s))
        /\ j - Len(s) \in DOMAIN u /\ su[j] = u[j - Len(s)] /\ j = Len(s) + (j - Len(s))
    BY <1>4, <1>0
  <2>2. i - Len(s) = j - Len(s) /\ k = l
    BY <2>1 DEF Distinct
  <2>3. QED
    BY <2>1, <2>2
<1>5. QED
  BY <1>1, <1>2, <1>3, <1>4

(* What check_replication lets in does not make an even pool uneven. *)
LEMMA ConcatEven ==
  ASSUME NEW s \in Seq(Vdevs), NEW u \in Seq(Vdevs), DataVdevs(s) # {}
  PROVE  /\ DataVdevs(s \o u) # {}
         /\ Replication(s) # Nil /\ CheckReplication(s, u) => Replication(s \o u) # Nil
<1> DEFINE su == s \o u
<1>0. /\ su \in Seq(Vdevs)
      /\ \A t \in DOMAIN s : t \in DOMAIN su /\ su[t] = s[t]
      /\ \A t \in DOMAIN su : t \in DOMAIN s \/ (t - Len(s) \in DOMAIN u /\ su[t] = u[t - Len(s)])
  BY ConcatPlaces
<1> HIDE DEF su
<1>1. PICK x \in DataVdevs(s) : TRUE
  OBVIOUS
<1>2. x \in DataVdevs(su)
  BY <1>0, <1>1 DEF DataVdevs
<1>3. ASSUME Replication(s) # Nil, CheckReplication(s, u)
      PROVE  Fits(su)
  <2>1. Fits(s) /\ \A i \in DataVdevs(s) : Level(s[i]) = Level(s[x])
    BY <1>1, <1>3, ReplicationFits DEF Fits, Even
  <2>2. \A i \in DataVdevs(u) : /\ u[i].type \in {"disk", "file"} \/ Alike(u[i])
                                /\ Level(u[i]) = Level(s[x])
    <3>1. CASE DataVdevs(u) = {}
      BY <3>1
    <3>2. CASE DataVdevs(u) # {}
      <4>1. Replication(u) # Nil /\ Replication(u) = Replication(s)
        BY <1>3, <3>2, NilNoTops DEF CheckReplication
      <4>2. Fits(u) /\ \A i \in DataVdevs(u) : Replication(u) = Level(u[i])
        BY <3>2, <4>1, ReplicationFits
      <4>3. Replication(s) = Level(s[x])
        BY <1>1, <2>1, ReplicationFits
      <4>4. QED
        BY <4>1, <4>2, <4>3 DEF Fits
    <3>3. QED
      BY <3>1, <3>2
  <2>3. \A t \in DataVdevs(su) : \/ t \in DataVdevs(s) /\ su[t] = s[t]
                                 \/ t - Len(s) \in DataVdevs(u) /\ su[t] = u[t - Len(s)]
    BY <1>0 DEF DataVdevs
  <2>4. \A t \in DataVdevs(su) : /\ su[t].type \in {"disk", "file"} \/ Alike(su[t])
                                 /\ Level(su[t]) = Level(s[x])
    <3> TAKE t \in DataVdevs(su)
    <3>1. CASE t \in DataVdevs(s) /\ su[t] = s[t]
      BY <2>1, <3>1 DEF Fits
    <3>2. CASE t - Len(s) \in DataVdevs(u) /\ su[t] = u[t - Len(s)]
      BY <2>2, <3>2
    <3>3. QED
      BY <2>3, <3>1, <3>2
  <2>5. QED
    BY <2>4 DEF Fits, Even
<1>4. QED
  BY <1>0, <1>2, <1>3, ReplicationFits DEF su

LEMMA TopChanged ==
  ASSUME NEW s \in Seq(Vdevs), NEW t \in DOMAIN s, NEW top \in Vdevs,
         WholeTops(s), Distinct(s), WholeVdev(top), top.log = s[t].log,
         \A k, l \in DOMAIN top.devs : top.devs[k] = top.devs[l] => k = l,
         \A k \in DOMAIN top.devs : top.devs[k] \in DevsIn(s[t].devs) \/ top.devs[k] \notin TopDevs(s)
  PROVE  LET new == [s EXCEPT ![t] = top] IN
         /\ new \in Seq(Vdevs) /\ WholeTops(new) /\ Distinct(new)
         /\ DataVdevs(new) = DataVdevs(s)
         /\ \A i \in DOMAIN s : i \in DOMAIN new /\ (i # t => new[i] = s[i])
         /\ \A d \in TopDevs(new) : \/ d \in TopDevs(s) /\ (d \in DevsIn(s[t].devs) => d \in DevsIn(top.devs))
                                    \/ d \in DevsIn(top.devs)
<1> DEFINE new == [s EXCEPT ![t] = top]
<1>1. /\ new \in Seq(Vdevs) /\ DOMAIN new = DOMAIN s /\ new[t] = top
      /\ \A i \in DOMAIN s : i # t => new[i] = s[i]
  OBVIOUS
<1> HIDE DEF new
<1>2. WholeTops(new) /\ DataVdevs(new) = DataVdevs(s)
  BY <1>1 DEF WholeTops, DataVdevs
<1>3. \A k \in DOMAIN top.devs, i \in DOMAIN s : i # t =>
        \A l \in DOMAIN s[i].devs : top.devs[k] # s[i].devs[l]
  <2> SUFFICES ASSUME NEW k \in DOMAIN top.devs, NEW i \in DOMAIN s, i # t,
                      NEW l \in DOMAIN s[i].devs, top.devs[k] = s[i].devs[l]
               PROVE  FALSE
    OBVIOUS
  <2>1. top.devs[k] \in TopDevs(s)
    BY TopDevsPlaces
  <2>2. PICK m \in DOMAIN s[t].devs : s[t].devs[m] = top.devs[k]
    BY <2>1 DEF DevsIn
  <2>3. QED
    BY <2>2 DEF Distinct
<1>4. Distinct(new)
  <2> SUFFICES ASSUME NEW i \in DOMAIN s, NEW j \in DOMAIN s,
                      NEW k \in DOMAIN new[i].devs, NEW l \in DOMAIN new[j].devs,
                      new[i].devs[k] = new[j].devs[l]
               PROVE  i = j /\ k = l
    BY <1>1 DEF Distinct
  <2>1. CASE i = t /\ j = t
    BY <1>1, <2>1
  <2>2. CASE i = t /\ j # t
    BY <1>1, <1>3, <2>2
  <2>3. CASE i # t /\ j = t
    BY <1>1, <1>3, <2>3
  <2>4. CASE i # t /\ j # t
    BY <1>1, <2>4 DEF Distinct
  <2>5. QED
    BY <2>1, <2>2, <2>3, <2>4
<1>5. \A d \in TopDevs(new) : \/ d \in TopDevs(s) /\ (d \in DevsIn(s[t].devs) => d \in DevsIn(top.devs))
                              \/ d \in DevsIn(top.devs)
  <2> TAKE d \in TopDevs(new)
  <2>1. PICK i \in DOMAIN s : \E k \in DOMAIN new[i].devs : new[i].devs[k] = d
    BY <1>1, TopDevsPlaces
  <2>2. CASE i = t
    BY <1>1, <2>1, <2>2 DEF DevsIn
  <2>3. CASE i # t
    <3>1. d \in TopDevs(s)
      BY <1>1, <2>1, <2>3, TopDevsPlaces
    <3>2. d \notin DevsIn(s[t].devs)
      BY <1>1, <2>1, <2>3 DEF Distinct, DevsIn
    <3>3. QED
      BY <3>1, <3>2
  <2>4. QED
    BY <2>2, <2>3
<1>6. QED
  BY <1>1, <1>2, <1>4, <1>5 DEF new

-----------------------------------------------------------------------------
(* The steps that ask the kernel.                                          *)

LEMMA KernelSays ==
  ASSUME NEW can \in BOOLEAN, NEW done \in Kernel(can)
  PROVE  done \in BOOLEAN /\ (done => can)
BY DEF Kernel

LEMMA NextIdFree ==
  ASSUME Unused # {}
  PROVE  NextId \in Ids /\ pool[NextId] = Nil
<1>1. Unused \in SUBSET Nat /\ Unused \subseteq Ids
  BY PoolAssumption DEF Unused
<1>2. PICK n \in Unused : \A j \in Unused : n <= j
  <2> HIDE DEF Unused
  <2> QED BY <1>1, LeastOf
<1>3. NextId \in Unused
  BY <1>2 DEF NextId
<1>4. QED
  BY <1>3 DEF Unused

LEMMA BecomesFacts ==
  ASSUME DisksTyped, NEW i \in Ids, NEW p \in Pools, NEW J \in SUBSET There, Becomes(i, p, J)
  PROVE  /\ pool' \in [Ids -> Pools \cup {Nil}] /\ pool'[i] = p
         /\ \A j \in Ids \ {i} : /\ Unmoved(pool[j], pool'[j])
                                 /\ pool[j] # Nil => (pool'[j].taken <=> (pool[j].taken \/ j \in J))
<1>1. \A j \in Ids : pool'[j] = IF j = i THEN p ELSE IF j \in J THEN [pool[j] EXCEPT !.taken = TRUE] ELSE pool[j]
  BY DEF Becomes
<1>2. \A j \in There : /\ [pool[j] EXCEPT !.taken = TRUE] \in Pools
                       /\ [pool[j] EXCEPT !.taken = TRUE].taken
                       /\ Unmoved(pool[j], [pool[j] EXCEPT !.taken = TRUE])
  <2> TAKE j \in There
  <2>1. pool[j] \in Pools
    BY DEF DisksTyped, There
  <2>2. [pool[j] EXCEPT !.taken = TRUE] \in Pools /\ [pool[j] EXCEPT !.taken = TRUE].taken
    BY <2>1 DEF Pools
  <2>3. Unmoved(pool[j], [pool[j] EXCEPT !.taken = TRUE])
    BY <2>1, <2>2 DEF Unmoved, Pools
  <2>4. QED
    BY <2>2, <2>3
<1>3. \A j \in Ids : Unmoved(pool[j], pool[j])
  BY DEF DisksTyped, Unmoved
<1>4. pool' \in [Ids -> Pools \cup {Nil}]
  <2>1. pool' = [j \in Ids |-> IF j = i THEN p ELSE IF j \in J THEN [pool[j] EXCEPT !.taken = TRUE] ELSE pool[j]]
    BY DEF Becomes
  <2>2. \A j \in Ids : pool[j] \in Pools \cup {Nil}
    BY DEF DisksTyped
  <2>3. QED
    BY <1>2, <2>1, <2>2
<1>5. \A j \in Ids \ {i} : Unmoved(pool[j], pool'[j])
  BY <1>1, <1>2, <1>3
<1>6. \A j \in Ids \ {i} : pool[j] # Nil => (pool'[j].taken <=> (pool[j].taken \/ j \in J))
  BY <1>1, <1>2 DEF There
<1>7. QED
  BY <1>1, <1>4, <1>5, <1>6

LEMMA RobbedThere ==
  ASSUME NEW c, NEW spec
  PROVE  Robbed(c, spec) \in SUBSET There
BY DEF Robbed, There

(* One pool changes, and its name and state stay or nobody else has the name. *)
LEMMA OneChanged ==
  ASSUME DisksTyped, DisksInv, NEW i \in Ids, NEW p \in Pools, NEW J \in SUBSET There, Becomes(i, p, J),
         label' \in [Devices -> Ids \cup {Nil}], SoundPool(p),
         \A d \in Devices : label'[d] # label[d] => label'[d] \in {Nil, i},
         p.state = "imported" => \A d \in TopDevs(p.tops) : label'[d] = i,
         \A j \in Ids \ {i} : Is(j, "imported") => \A d \in TopDevs(pool[j].tops) : label'[d] = j,
         p.state = "imported" => \A j \in Ids \ {i} : Is(j, "imported") => pool[j].name # p.name
  PROVE  DisksTyped' /\ DisksInv' /\ There \subseteq There'
<1>1. /\ pool' \in [Ids -> Pools \cup {Nil}] /\ pool'[i] = p
      /\ \A j \in Ids \ {i} : Unmoved(pool[j], pool'[j])
  BY BecomesFacts
<1>2. DisksTyped'
  BY <1>1 DEF DisksTyped
<1> DEFINE K == {i}
<1>3. K \in SUBSET Ids /\ \A j \in K : j = i
  OBVIOUS
<1>4. \A j \in K, k \in Ids : j # k /\ pool'[j].state = "imported" /\ Is(k, "imported")'
                                   => pool'[j].name # pool'[k].name
  <2> SUFFICES ASSUME NEW k \in Ids, k # i, p.state = "imported", Is(k, "imported")'
               PROVE  p.name # pool'[k].name
    BY <1>1
  <2>1. Unmoved(pool[k], pool'[k]) /\ pool'[k] # Nil /\ pool'[k].state = "imported"
    BY <1>1 DEF Is
  <2>2. Is(k, "imported") /\ pool'[k].name = pool[k].name
    BY <2>1, NilNoPool DEF Unmoved, Is
  <2>3. QED
    BY <2>2
<1>5. \A j \in Ids \ K : Unmoved(pool[j], pool'[j])
  BY <1>1
<1>6. \A j \in K : pool'[j] \in Pools /\ SoundPool(pool'[j])
  BY <1>1
<1>7. \A d \in Devices : label'[d] # label[d] => label'[d] = Nil \/ label'[d] \in K
  OBVIOUS
<1>8. \A j \in K : pool'[j].state = "imported" => \A d \in TopDevs(pool'[j].tops) : label'[d] = j
  BY <1>1
<1>9. \A j \in Ids \ K : Is(j, "imported") => \A d \in TopDevs(pool[j].tops) : label'[d] = j
  OBVIOUS
<1> HIDE DEF K
<1>10. QED
  BY <1>2, <1>3, <1>4, <1>5, <1>6, <1>7, <1>8, <1>9, DisksChange

(* A call that returns, once the devices are seen to. *)
LEMMA Answered ==
  ASSUME PoolInv, NEW c \in Admins, NEW ok \in BOOLEAN, Result(c, ok), ppc[c] # "idle",
         DisksTyped', DisksInv', There \subseteq There'
  PROVE  PoolInv'
<1>1. CallsTyped' /\ Calls'
  BY ResultCalls DEF PoolInv
<1>2. QED
  BY <1>1 DEF PoolInv

LEMMA AnsweredOnly ==
  ASSUME PoolInv, NEW c \in Admins, NEW ok \in BOOLEAN, Result(c, ok), ppc[c] # "idle", UNCHANGED Disks
  PROVE  PoolInv'
<1>1. DisksTyped' /\ DisksInv' /\ There \subseteq There'
  BY DisksSame DEF PoolInv
<1>2. QED
  BY <1>1, Answered

LEMMA NamedOne ==
  ASSUME DisksTyped, DisksInv, NEW n, NEW i \in Named(n)
  PROVE  /\ i \in Ids /\ Is(i, "imported") /\ pool[i] # Nil /\ pool[i].state = "imported" /\ pool[i].name = n
         /\ \A j \in Ids \ {i} : Is(j, "imported") => pool[j].name # n
         /\ SoundPool(pool[i]) /\ \A d \in TopDevs(pool[i].tops) : label[d] = i
<1>1. i \in Ids /\ Is(i, "imported") /\ pool[i] # Nil /\ pool[i].state = "imported" /\ pool[i].name = n
  BY DEF Named, Is
<1>2. SoundPool(pool[i]) /\ Intact(i)
  BY <1>1 DEF DisksInv, There
<1>3. \A j \in Ids \ {i} : Is(j, "imported") => pool[j].name # n
  BY <1>1 DEF DisksInv
<1>4. QED
  BY <1>1, <1>2, <1>3 DEF Intact

LEMMA CreateKernelStep ==
  ASSUME PoolInv, NEW c \in Admins, CreateKernel(c)
  PROVE  PoolInv'
<1> DEFINE r == preq[c]
           spec == pspec[c]
           can == Named(r.name) = {} /\ KernelFree(spec) /\ Unused # {}
<1>1. ppc[c] = "createKernel" /\ DisksTyped /\ DisksInv /\ CallsTyped
  BY DEF CreateKernel, PoolInv
<1>2. /\ spec \in Specs /\ WholeTops(spec.tops) /\ DataVdevs(spec.tops) # {} /\ r.name \in PoolNames
      /\ ~r.force => Replication(spec.tops) # Nil
      /\ r.force \in BOOLEAN
  BY <1>1 DEF PoolInv, CallsTyped, Calls, CallInv, PoolArguments
<1>3. PICK done \in Kernel(can), mounted \in Kernel(TRUE) :
        /\ IF done
           THEN /\ Becomes(NextId, [name |-> r.name, state |-> "imported", tops |-> spec.tops,
                                    spares |-> spec.spares, caches |-> spec.caches,
                                    even |-> ~r.force, taken |-> FALSE],
                           Robbed(c, spec))
                /\ label' = Labelled(NextId, spec)
           ELSE UNCHANGED Disks
        /\ Result(c, done /\ mounted)
  BY DEF CreateKernel
<1>4. done \in BOOLEAN /\ mounted \in BOOLEAN /\ (done => can) /\ (done /\ mounted) \in BOOLEAN
  <2>1. can \in BOOLEAN /\ TRUE \in BOOLEAN
    OBVIOUS
  <2> HIDE DEF can
  <2>2. QED
    BY <2>1, KernelSays
<1>5. CASE ~done
  BY <1>1, <1>3, <1>4, <1>5, AnsweredOnly
<1>6. CASE done
  <2>1. Named(r.name) = {} /\ KernelFree(spec) /\ Unused # {}
    BY <1>4, <1>6
  <2>2. PICK n : n = NextId
    OBVIOUS
  <2>3. n \in Ids /\ pool[n] = Nil
    BY <2>1, <2>2, NextIdFree
  <2>4. PICK p : p = [name |-> r.name, state |-> "imported", tops |-> spec.tops,
                      spares |-> spec.spares, caches |-> spec.caches, even |-> ~r.force, taken |-> FALSE]
    OBVIOUS
  <2>5. PICK J : J = Robbed(c, spec)
    OBVIOUS
  <2>6. J \in SUBSET There
    BY <2>5, RobbedThere
  <2>7. Becomes(n, p, J) /\ label' = Labelled(n, spec)
    BY <1>3, <1>6, <2>2, <2>4, <2>5
  <2>8. spec.tops \in Seq(Vdevs) /\ spec.spares \subseteq Devices /\ spec.caches \subseteq Devices
    BY <1>2 DEF Specs
  <2> HIDE DEF spec, r
  <2>9. p \in Pools /\ p.state = "imported" /\ p.tops = spec.tops /\ p.name = r.name /\ p.even = ~r.force
    BY <1>2, <2>4, <2>8 DEF Pools, PoolStates
  <2>10. PICK s : s = spec
    OBVIOUS
  <2>11. /\ Labelled(n, s) \in [Devices -> Ids \cup {Nil}] /\ Distinct(s.tops)
         /\ \A d \in TopDevs(s.tops) : Labelled(n, s)[d] = n
         /\ \A d \in Devices : Labelled(n, s)[d] # label[d] => Labelled(n, s)[d] = n
         /\ \A j \in Ids : Is(j, "imported") => \A d \in TopDevs(pool[j].tops) : Labelled(n, s)[d] = j
    BY <1>1, <1>2, <2>1, <2>3, <2>10, KernelFacts
  <2>12. SoundPool(p)
    BY <1>2, <2>9, <2>10, <2>11 DEF SoundPool, WholeTops
  <2>13. \A j \in Ids \ {n} : Is(j, "imported") => pool[j].name # p.name
    BY <2>1, <2>9 DEF Named
  <2>14. DisksTyped' /\ DisksInv' /\ There \subseteq There'
    BY <1>1, <2>3, <2>6, <2>7, <2>9, <2>10, <2>11, <2>12, <2>13, OneChanged
  <2>15. QED
    BY <1>1, <1>3, <1>4, <2>14, Answered
<1>7. QED
  BY <1>4, <1>5, <1>6

LEMMA AddKernelStep ==
  ASSUME PoolInv, NEW c \in Admins, AddKernel(c)
  PROVE  PoolInv'
<1> DEFINE r == preq[c]
           spec == pspec[c]
           can == Named(r.name) # {} /\ KernelFree(spec)
<1>1. ppc[c] = "addKernel" /\ DisksTyped /\ DisksInv /\ CallsTyped
  BY DEF AddKernel, PoolInv
<1>2. spec \in Specs /\ WholeTops(spec.tops) /\ r.force \in BOOLEAN /\ papart[c] \in BOOLEAN
  BY <1>1 DEF PoolInv, CallsTyped, Calls, CallInv, PoolArguments
<1>3. papart[c] /\ ~r.force => \A i \in Named(r.name) : CheckReplication(pool[i].tops, spec.tops)
  BY <1>1 DEF PoolInv, Calls, ApartInv, Seen
<1>4. PICK done \in Kernel(can) :
        /\ IF done
           THEN \E i \in Named(r.name) :
                 /\ Becomes(i, [pool[i] EXCEPT !.tops = pool[i].tops \o spec.tops,
                                               !.spares = pool[i].spares \cup spec.spares,
                                               !.caches = pool[i].caches \cup spec.caches,
                                               !.even = pool[i].even /\ ~r.force /\ papart[c]],
                            Robbed(c, spec))
                 /\ label' = Labelled(i, spec)
           ELSE UNCHANGED Disks
        /\ Result(c, done)
  BY DEF AddKernel
<1>5. done \in BOOLEAN /\ (done => can)
  <2>1. can \in BOOLEAN
    OBVIOUS
  <2> HIDE DEF can
  <2>2. QED
    BY <2>1, KernelSays
<1>6. CASE ~done
  BY <1>1, <1>4, <1>5, <1>6, AnsweredOnly
<1>7. CASE done
  <2>1. Named(r.name) # {} /\ KernelFree(spec)
    BY <1>5, <1>7
  <2>2. PICK i \in Named(r.name) :
          /\ Becomes(i, [pool[i] EXCEPT !.tops = pool[i].tops \o spec.tops,
                                        !.spares = pool[i].spares \cup spec.spares,
                                        !.caches = pool[i].caches \cup spec.caches,
                                        !.even = pool[i].even /\ ~r.force /\ papart[c]],
                     Robbed(c, spec))
          /\ label' = Labelled(i, spec)
    BY <1>4, <1>7
  <2>3. PICK p : p = [pool[i] EXCEPT !.tops = pool[i].tops \o spec.tops,
                                     !.spares = pool[i].spares \cup spec.spares,
                                     !.caches = pool[i].caches \cup spec.caches,
                                     !.even = pool[i].even /\ ~r.force /\ papart[c]]
    OBVIOUS
  <2>4. PICK J : J = Robbed(c, spec)
    OBVIOUS
  <2>5. PICK s : s = spec
    OBVIOUS
  <2>6. J \in SUBSET There /\ Becomes(i, p, J) /\ label' = Labelled(i, s)
    BY <2>2, <2>3, <2>4, <2>5, RobbedThere
  <2>7. s.tops \in Seq(Vdevs) /\ s.spares \subseteq Devices /\ s.caches \subseteq Devices
    BY <1>2, <2>5 DEF Specs
  <2>8. PICK q : q = pool[i]
    OBVIOUS
  <2>9. /\ i \in Ids /\ Is(i, "imported") /\ pool[i] # Nil /\ q.state = "imported" /\ q.name = r.name
        /\ \A j \in Ids \ {i} : Is(j, "imported") => pool[j].name # r.name
        /\ SoundPool(q) /\ \A d \in TopDevs(q.tops) : label[d] = i
    BY <1>1, <2>2, <2>8, NamedOne
  <2>10. q \in Pools /\ q.tops \in Seq(Vdevs) /\ q.spares \subseteq Devices /\ q.caches \subseteq Devices
         /\ q.even \in BOOLEAN
    BY <1>1, <2>8, <2>9, PoolTops
  <2>11. /\ Labelled(i, s) \in [Devices -> Ids \cup {Nil}] /\ Distinct(s.tops)
         /\ TopDevs(s.tops) \subseteq Devices
         /\ \A d \in TopDevs(s.tops) : Labelled(i, s)[d] = i
         /\ \A d \in Devices : Labelled(i, s)[d] # label[d] => Labelled(i, s)[d] = i
         /\ \A j \in Ids : Is(j, "imported") => \A d \in TopDevs(pool[j].tops) :
              d \notin SpecDevs(s) /\ Labelled(i, s)[d] = j
    BY <1>1, <1>2, <2>1, <2>5, <2>9, KernelFacts
  <2>12. q.tops \o s.tops \in Seq(Vdevs)
    BY <2>7, <2>10
  <2>13. p = [q EXCEPT !.tops = q.tops \o s.tops, !.spares = q.spares \cup s.spares,
                       !.caches = q.caches \cup s.caches,
                       !.even = q.even /\ ~r.force /\ papart[c]]
    BY <2>3, <2>5, <2>8
  <2> DEFINE even == q.even /\ ~r.force /\ papart[c]
  <2>14. even \in BOOLEAN
    OBVIOUS
  <2>15. p \in Pools /\ p.state = "imported" /\ p.name = r.name /\ p.tops = q.tops \o s.tops /\ p.even = even
    <3> HIDE DEF even, r
    <3>1. p = [q EXCEPT !.tops = q.tops \o s.tops, !.spares = q.spares \cup s.spares,
                        !.caches = q.caches \cup s.caches, !.even = even]
      BY <2>13 DEF even, r
    <3>2. q.spares \cup s.spares \in SUBSET Devices /\ q.caches \cup s.caches \in SUBSET Devices
      BY <2>7, <2>10
    <3>3. QED
      BY <2>9, <2>10, <2>12, <2>14, <3>1, <3>2 DEF Pools
  <2>16. SoundPool(p)
    <3>1. WholeTops(q.tops) /\ Distinct(q.tops) /\ DataVdevs(q.tops) # {} /\ (q.even => Replication(q.tops) # Nil)
      BY <2>9 DEF SoundPool, WholeTops
    <3>2. WholeTops(q.tops \o s.tops)
      BY <1>2, <2>5, <2>7, <2>10, <3>1, WholeConcat
    <3>3. TopDevs(q.tops) \cap TopDevs(s.tops) = {}
      <4>1. \A d \in TopDevs(q.tops) : d \notin SpecDevs(s)
        BY <2>8, <2>9, <2>11
      <4>2. QED
        BY <4>1 DEF SpecDevs
    <3>4. Distinct(q.tops \o s.tops)
      BY <2>7, <2>10, <2>11, <3>1, <3>3, ConcatDistinct
    <3>5. /\ DataVdevs(q.tops \o s.tops) # {}
          /\ Replication(q.tops) # Nil /\ CheckReplication(q.tops, s.tops) => Replication(q.tops \o s.tops) # Nil
      BY <2>7, <2>10, <3>1, ConcatEven
    <3>6. even => CheckReplication(q.tops, s.tops)
      BY <1>3, <2>2, <2>5, <2>8
    <3>7. QED
      BY <2>15, <3>1, <3>2, <3>4, <3>5, <3>6 DEF SoundPool, WholeTops
  <2>17. \A d \in TopDevs(p.tops) : label'[d] = i
    <3>1. TopDevs(p.tops) \subseteq TopDevs(q.tops) \cup TopDevs(s.tops)
      BY <2>7, <2>10, <2>15, ConcatDevs
    <3>2. QED
      BY <2>6, <2>8, <2>9, <2>11, <3>1
  <2>18. DisksTyped' /\ DisksInv' /\ There \subseteq There'
    <3>1. /\ label' \in [Devices -> Ids \cup {Nil}]
          /\ \A d \in Devices : label'[d] # label[d] => label'[d] \in {Nil, i}
          /\ \A j \in Ids \ {i} : Is(j, "imported") => \A d \in TopDevs(pool[j].tops) : label'[d] = j
      BY <2>6, <2>11
    <3>2. \A j \in Ids \ {i} : Is(j, "imported") => pool[j].name # p.name
      BY <2>9, <2>15
    <3> HIDE DEF r, spec, even
    <3>3. QED
      BY <1>1, <2>6, <2>9, <2>15, <2>16, <2>17, <3>1, <3>2, OneChanged
  <2>19. QED
    BY <1>1, <1>4, <1>5, <2>18, Answered
<1>8. QED
  BY <1>5, <1>6, <1>7

(* One vdev of an imported pool changes, and the pool counts as even no    *)
(* longer or is as even as it was.                                         *)
LEMMA TopStep ==
  ASSUME DisksTyped, DisksInv, NEW i \in Ids, Is(i, "imported"), NEW t \in DOMAIN pool[i].tops, NEW top \in Vdevs,
         NEW J \in SUBSET There, NEW p, Becomes(i, p, J), NEW even \in BOOLEAN,
         p = [pool[i] EXCEPT !.tops = [pool[i].tops EXCEPT ![t] = top], !.even = even],
         WholeVdev(top), top.log = pool[i].tops[t].log,
         \A k, l \in DOMAIN top.devs : top.devs[k] = top.devs[l] => k = l,
         \A k \in DOMAIN top.devs : \/ top.devs[k] \in DevsIn(pool[i].tops[t].devs)
                                    \/ top.devs[k] \notin TopDevs(pool[i].tops),
         even => pool[i].even /\ top.log,
         label' \in [Devices -> Ids \cup {Nil}],
         \A d \in Devices : label'[d] # label[d] => label'[d] \in {Nil, i},
         \A d \in DevsIn(top.devs) : label'[d] = i,
         \A d \in TopDevs(pool[i].tops) : d \notin DevsIn(pool[i].tops[t].devs) => label'[d] = label[d],
         \A j \in Ids \ {i} : Is(j, "imported") => \A d \in TopDevs(pool[j].tops) : label'[d] = label[d]
  PROVE  DisksTyped' /\ DisksInv' /\ There \subseteq There'
<1>0. PICK n : n = pool[i].name /\ i \in Named(n)
  BY DEF Named
<1>1. /\ pool[i] # Nil /\ pool[i].state = "imported" /\ pool[i].name = n
      /\ \A j \in Ids \ {i} : Is(j, "imported") => pool[j].name # n
      /\ SoundPool(pool[i]) /\ \A d \in TopDevs(pool[i].tops) : label[d] = i
  BY <1>0, NamedOne
<1>2. PICK q : q = pool[i]
  OBVIOUS
<1>3. q \in Pools /\ q.tops \in Seq(Vdevs) /\ q.name = n /\ q.state = "imported"
  BY <1>1, <1>2, PoolTops
<1>4. WholeTops(q.tops) /\ Distinct(q.tops) /\ DataVdevs(q.tops) # {} /\ (q.even => Replication(q.tops) # Nil)
  BY <1>1, <1>2 DEF SoundPool, WholeTops
<1> DEFINE new == [q.tops EXCEPT ![t] = top]
<1>5. /\ new \in Seq(Vdevs) /\ WholeTops(new) /\ Distinct(new)
      /\ DataVdevs(new) = DataVdevs(q.tops)
      /\ \A m \in DOMAIN q.tops : m \in DOMAIN new /\ (m # t => new[m] = q.tops[m])
      /\ \A d \in TopDevs(new) :
           \/ d \in TopDevs(q.tops) /\ (d \in DevsIn(q.tops[t].devs) => d \in DevsIn(top.devs))
           \/ d \in DevsIn(top.devs)
  BY <1>2, <1>3, <1>4, TopChanged
<1>6. p = [q EXCEPT !.tops = new, !.even = even]
  BY <1>2
<1> HIDE DEF new
<1>7. p \in Pools /\ p.state = "imported" /\ p.name = n /\ p.tops = new /\ p.even = even
  BY <1>3, <1>5, <1>6 DEF Pools
<1>8. even => Replication(new) # Nil
  <2> SUFFICES ASSUME even PROVE Replication(new) # Nil
    OBVIOUS
  <2>1. q.even /\ q.tops[t].log
    BY <1>2
  <2>2. Fits(q.tops)
    BY <1>3, <1>4, <2>1, ReplicationFits
  <2>3. \A m \in DataVdevs(q.tops) : new[m] = q.tops[m]
    BY <1>5, <2>1 DEF DataVdevs
  <2>4. Fits(new)
    BY <1>5, <2>2, <2>3 DEF Fits, Even
  <2>5. QED
    BY <1>4, <1>5, <2>4, ReplicationFits
<1>9. SoundPool(p)
  BY <1>4, <1>5, <1>7, <1>8 DEF SoundPool, WholeTops
<1>10. \A d \in TopDevs(p.tops) : label'[d] = i
  <2> SUFFICES ASSUME NEW d \in TopDevs(new) PROVE label'[d] = i
    BY <1>7
  <2>1. CASE d \in DevsIn(top.devs)
    BY <2>1
  <2>2. CASE d \notin DevsIn(top.devs)
    <3>1. d \in TopDevs(pool[i].tops) /\ d \notin DevsIn(pool[i].tops[t].devs)
      BY <1>2, <1>5, <2>2
    <3>2. QED
      BY <1>1, <3>1
  <2>3. QED
    BY <2>1, <2>2
<1>11. \A j \in Ids \ {i} : Is(j, "imported") => \A d \in TopDevs(pool[j].tops) : label'[d] = j
  BY DEF DisksInv, Intact
<1>12. \A j \in Ids \ {i} : Is(j, "imported") => pool[j].name # p.name
  BY <1>1, <1>7
<1>13. QED
  BY <1>1, <1>7, <1>9, <1>10, <1>11, <1>12, OneChanged

-----------------------------------------------------------------------------
(* A vdev with a device more, another device, a device less.               *)

Injective(seq) == \A k, l \in DOMAIN seq : seq[k] = seq[l] => k = l

LEMMA VdevParts ==
  ASSUME NEW old \in Vdevs
  PROVE  /\ old.type \in VdevTypes /\ old.parity \in Nat /\ old.log \in BOOLEAN /\ old.devs \in Seq(Devices)
         /\ DOMAIN old.devs = 1 .. Len(old.devs) /\ Len(old.devs) \in Nat
         /\ \A k \in DOMAIN old.devs : old.devs[k] \in Devices
<1>1. old.type \in VdevTypes /\ old.parity \in Nat /\ old.log \in BOOLEAN /\ old.devs \in Seq(Devices)
  BY DEF Vdevs
<1>2. QED
  BY <1>1

LEMMA AttachedFacts ==
  ASSUME NEW old \in Vdevs, WholeVdev(old), old.devs # <<>>, Injective(old.devs),
         NEW new \in Devices, Usable(new), new \notin DevsIn(old.devs)
  PROVE  /\ Attached(old, new) \in Vdevs /\ WholeVdev(Attached(old, new)) /\ Attached(old, new).log = old.log
         /\ Injective(Attached(old, new).devs)
         /\ \A d : d \in DevsIn(Attached(old, new).devs) <=> d \in DevsIn(old.devs) \/ d = new
<1> DEFINE seq == old.devs
           longer == Append(seq, new)
           top == Attached(old, new)
<1>1. /\ seq \in Seq(Devices) /\ Len(seq) \in Nat /\ DOMAIN seq = 1 .. Len(seq)
      /\ old.log \in BOOLEAN /\ old.parity \in Nat
  BY VdevParts
<1>2. Len(seq) >= 1
  BY <1>1
<1> HIDE DEF seq
<1>3. /\ longer \in Seq(Devices) /\ Len(longer) = Len(seq) + 1 /\ DOMAIN longer = 1 .. Len(seq) + 1
      /\ longer[Len(seq) + 1] = new /\ \A k \in 1 .. Len(seq) : longer[k] = seq[k]
  BY <1>1
<1>4. top = [old EXCEPT !.type = "mirror", !.devs = longer]
  BY DEF Attached, seq
<1> HIDE DEF longer, top
<1>5. top \in Vdevs /\ top.log = old.log /\ top.devs = longer /\ top.type = "mirror"
  BY <1>3, <1>4 DEF Vdevs, VdevTypes
<1>6. \A d : d \in DevsIn(longer) <=> d \in DevsIn(seq) \/ d = new
  <2>1. \A k \in 1 .. Len(seq) + 1 : k \in 1 .. Len(seq) \/ k = Len(seq) + 1
    BY <1>1
  <2>2. \A k \in 1 .. Len(seq) : k \in 1 .. Len(seq) + 1
    BY <1>1
  <2>3. Len(seq) + 1 \in 1 .. Len(seq) + 1
    BY <1>1
  <2>4. QED
    BY <1>1, <1>3, <2>1, <2>2, <2>3 DEF DevsIn
<1>7. WholeVdev(top)
  <2>1. \A d \in DevsIn(longer) : Usable(d)
    BY <1>6 DEF WholeVdev, seq
  <2>2. Len(longer) >= 2 /\ longer # <<>>
    BY <1>1, <1>2, <1>3
  <2>3. QED
    BY <1>5, <2>1, <2>2 DEF WholeVdev
<1>8. Injective(longer)
  <2> SUFFICES ASSUME NEW k \in 1 .. Len(seq) + 1, NEW l \in 1 .. Len(seq) + 1, longer[k] = longer[l]
               PROVE  k = l
    BY <1>3 DEF Injective
  <2>1. \A m \in 1 .. Len(seq) : longer[m] \in DevsIn(seq)
    BY <1>1, <1>3 DEF DevsIn
  <2>2. new \notin DevsIn(seq)
    BY DEF seq
  <2>3. CASE k = Len(seq) + 1 /\ l = Len(seq) + 1
    BY <2>3
  <2>4. CASE k = Len(seq) + 1 /\ l \in 1 .. Len(seq)
    BY <2>1, <2>2, <2>4, <1>3
  <2>5. CASE k \in 1 .. Len(seq) /\ l = Len(seq) + 1
    BY <2>1, <2>2, <2>5, <1>3
  <2>6. CASE k \in 1 .. Len(seq) /\ l \in 1 .. Len(seq)
    BY <1>1, <1>3, <2>6 DEF Injective, seq
  <2>7. QED
    BY <1>1, <2>3, <2>4, <2>5, <2>6
<1>9. QED
  BY <1>5, <1>6, <1>7, <1>8 DEF top, seq

LEMMA ReplacedFacts ==
  ASSUME NEW old \in Vdevs, WholeVdev(old), Injective(old.devs), NEW dev \in Devices,
         NEW new \in Devices, Usable(new), new \notin DevsIn(old.devs)
  PROVE  LET top == Replaced(old, dev, new) IN
         /\ top \in Vdevs /\ WholeVdev(top) /\ top.log = old.log
         /\ Injective(top.devs) /\ Len(top.devs) = Len(old.devs)
         /\ \A d \in DevsIn(top.devs) : d # dev => d \in DevsIn(old.devs) \/ d = new
         /\ dev # new => dev \notin DevsIn(top.devs)
         /\ \A d \in DevsIn(old.devs) : d # dev => d \in DevsIn(top.devs)
<1> DEFINE seq == old.devs
           swapped == Swap(seq, dev, new)
           top == Replaced(old, dev, new)
           type == IF old.type \in {"disk", "file"} THEN Kind[new] ELSE old.type
<1>1. /\ seq \in Seq(Devices) /\ Len(seq) \in Nat /\ DOMAIN seq = 1 .. Len(seq)
      /\ old.log \in BOOLEAN /\ old.parity \in Nat /\ old.type \in VdevTypes
      /\ \A k \in 1 .. Len(seq) : seq[k] \in Devices
  BY VdevParts
<1> HIDE DEF seq
<1>2. swapped \in [1 .. Len(seq) -> Devices]
  BY <1>1 DEF Swap
<1>3. swapped \in Seq(Devices) /\ Len(swapped) = Len(seq)
  BY <1>1, <1>2
<1>4. DOMAIN swapped = 1 .. Len(seq) /\ \A k \in 1 .. Len(seq) : swapped[k] = IF seq[k] = dev THEN new ELSE seq[k]
  BY <1>1 DEF Swap
<1>5. type \in VdevTypes /\ (type = "hole" <=> old.type = "hole") /\ (type = "mirror" <=> old.type = "mirror")
  BY <1>1 DEF Usable, VdevTypes
<1>6. top = [old EXCEPT !.devs = swapped, !.type = type]
  BY DEF Replaced, seq
<1> HIDE DEF type, swapped, top
<1>7. top \in Vdevs /\ top.log = old.log /\ top.devs = swapped /\ top.type = type
  BY <1>3, <1>5, <1>6 DEF Vdevs
<1>8. \A d \in DevsIn(swapped) : d = new \/ (d \in DevsIn(seq) /\ d # dev)
  BY <1>1, <1>4 DEF DevsIn
<1>9. WholeVdev(top)
  <2>1. \A d \in DevsIn(swapped) : Usable(d)
    BY <1>8 DEF WholeVdev, seq
  <2>2. seq # <<>> <=> Len(seq) # 0
    BY <1>1
  <2>3. swapped # <<>> <=> Len(swapped) # 0
    BY <1>3
  <2>4. QED
    BY <1>3, <1>5, <1>7, <2>1, <2>2, <2>3 DEF WholeVdev, seq
<1>10. Injective(swapped)
  <2>1. \A k \in 1 .. Len(seq) : seq[k] # new
    BY <1>1 DEF DevsIn, seq
  <2>2. QED
    BY <1>1, <1>4, <2>1 DEF Injective, seq
<1>11. \A d \in DevsIn(seq) : d # dev => d \in DevsIn(swapped)
  BY <1>1, <1>4 DEF DevsIn
<1>12. QED
  BY <1>3, <1>7, <1>8, <1>9, <1>10, <1>11 DEF top, seq

LEMMA DetachedFacts ==
  ASSUME NEW old \in Vdevs, WholeVdev(old), old.type = "mirror", Injective(old.devs), NEW k \in DOMAIN old.devs
  PROVE  LET top == Detached(old, k) IN
         /\ top \in Vdevs /\ WholeVdev(top) /\ top.log = old.log
         /\ Injective(top.devs)
         /\ \A d : d \in DevsIn(top.devs) <=> d \in DevsIn(old.devs) /\ d # old.devs[k]
<1> DEFINE seq == old.devs
           n == Len(seq)
           left == [j \in 1 .. n - 1 |-> seq[IF j < k THEN j ELSE j + 1]]
           type == IF Len(left) = 1 THEN Kind[left[1]] ELSE old.type
           top == Detached(old, k)
<1>1. /\ seq \in Seq(Devices) /\ n \in Nat /\ DOMAIN seq = 1 .. n
      /\ old.log \in BOOLEAN /\ old.parity \in Nat
      /\ \A m \in 1 .. n : seq[m] \in Devices
  BY VdevParts
<1>2. n >= 2 /\ k \in 1 .. n /\ n - 1 \in Nat
  BY <1>1 DEF WholeVdev
<1> HIDE DEF seq, n
<1>3. \A j \in 1 .. n - 1 : (IF j < k THEN j ELSE j + 1) \in 1 .. n /\ (IF j < k THEN j ELSE j + 1) # k
  BY <1>1, <1>2
<1>4. left \in [1 .. n - 1 -> Devices]
  BY <1>1, <1>3
<1>5. left \in Seq(Devices) /\ Len(left) = n - 1 /\ DOMAIN left = 1 .. n - 1
  BY <1>2, <1>4
<1>6. \A j \in 1 .. n - 1 : left[j] = seq[IF j < k THEN j ELSE j + 1]
  OBVIOUS
<1>7. top = [old EXCEPT !.devs = left, !.type = type]
  BY DEF Detached, seq, n
<1> HIDE DEF left, top
<1>8. \A d : d \in DevsIn(left) <=> d \in DevsIn(seq) /\ d # seq[k]
  <2>1. ASSUME NEW d \in DevsIn(left) PROVE d \in DevsIn(seq) /\ d # seq[k]
    <3>1. PICK j \in 1 .. n - 1 : left[j] = d
      BY <1>5 DEF DevsIn
    <3>2. PICK m : m = IF j < k THEN j ELSE j + 1
      OBVIOUS
    <3>3. m \in 1 .. n /\ m # k /\ d = seq[m]
      BY <1>3, <1>6, <3>1, <3>2
    <3>4. QED
      BY <1>1, <1>2, <3>3 DEF DevsIn, Injective, seq
  <2>2. ASSUME NEW d \in DevsIn(seq), d # seq[k] PROVE d \in DevsIn(left)
    <3>1. PICK m \in 1 .. n : seq[m] = d
      BY <1>1 DEF DevsIn
    <3>2. m # k
      BY <2>2, <3>1
    <3>3. PICK j : j = IF m < k THEN m ELSE m - 1
      OBVIOUS
    <3>4. j \in 1 .. n - 1 /\ (IF j < k THEN j ELSE j + 1) = m
      BY <1>1, <1>2, <3>2, <3>3
    <3>5. QED
      BY <1>5, <1>6, <3>1, <3>4 DEF DevsIn
  <2>3. QED
    BY <2>1, <2>2
<1>9. \A d \in DevsIn(left) : Usable(d)
  BY <1>8 DEF WholeVdev, seq
<1>10. type \in VdevTypes /\ type # "hole" /\ (type = "mirror" => Len(left) >= 2)
  <2>1. CASE Len(left) = 1
    <3>0. 1 \in DOMAIN left
      BY <1>2, <1>5, <2>1
    <3>1. left[1] \in DevsIn(left)
      BY <3>0 DEF DevsIn
    <3>2. Kind[left[1]] \in {"disk", "file"}
      BY <1>9, <3>1 DEF Usable
    <3>3. QED
      BY <2>1, <3>2 DEF VdevTypes
  <2>2. CASE Len(left) # 1
    <3>1. type = "mirror"
      BY <2>2
    <3>2. Len(left) >= 2
      BY <1>1, <1>2, <1>5, <2>2
    <3> HIDE DEF type
    <3>3. QED
      BY <3>1, <3>2 DEF VdevTypes
  <2>3. QED
    BY <2>1, <2>2
<1> HIDE DEF type
<1>11. top \in Vdevs /\ top.log = old.log /\ top.devs = left /\ top.type = type
  BY <1>5, <1>7, <1>10 DEF Vdevs
<1>12. WholeVdev(top)
  <2>1. left # <<>>
    <3>1. Len(left) >= 1
      BY <1>1, <1>2, <1>5
    <3>2. QED
      BY <3>1
  <2>2. QED
    BY <1>9, <1>10, <1>11, <2>1 DEF WholeVdev
<1>13. Injective(left)
  <2> SUFFICES ASSUME NEW i \in 1 .. n - 1, NEW j \in 1 .. n - 1, left[i] = left[j]
               PROVE  i = j
    BY <1>5 DEF Injective
  <2>1. (IF i < k THEN i ELSE i + 1) = (IF j < k THEN j ELSE j + 1)
    BY <1>1, <1>3, <1>6 DEF Injective, seq
  <2>2. QED
    BY <2>1, <1>2, <1>1
<1>14. QED
  BY <1>8, <1>11, <1>12, <1>13 DEF top, seq

LEMMA LeafSpecDevs ==
  ASSUME NEW d \in Devices, LeafSpec(d) \in Specs
  PROVE  Usable(d) /\ TopDevs(LeafSpec(d).tops) = {d} /\ SpecDevs(LeafSpec(d)) = {d}
<1> DEFINE leaf == Leaf(d, FALSE)
           one == <<leaf>>
<1>1. leaf.type = Kind[d] /\ leaf.devs = <<d>>
  BY DEF Leaf
<1> HIDE DEF leaf
<1>2. one \in Seq(Vdevs) /\ DOMAIN one = {1} /\ one[1] = leaf
  <2>1. LeafSpec(d).tops \in Seq(Vdevs) /\ LeafSpec(d).tops = one
    BY DEF LeafSpec, Specs, leaf
  <2>2. QED
    BY <2>1
<1>3. LeafSpec(d).tops = one /\ LeafSpec(d).spares = {} /\ LeafSpec(d).caches = {}
  BY DEF LeafSpec, leaf
<1> HIDE DEF one
<1>4. leaf \in Vdevs
  BY <1>2
<1>5. Usable(d)
  <2>1. Kind[d] \in VdevTypes /\ Kind[d] \in {"disk", "file", "missing"}
    BY <1>1, <1>4, DeviceAssumption DEF Vdevs
  <2>2. QED
    BY <2>1 DEF VdevTypes, Usable
<1>6. DevsIn(<<d>>) = {d}
  BY DEF DevsIn
<1>7. TopDevs(one) = {d}
  BY <1>1, <1>2, <1>6 DEF TopDevs
<1>8. QED
  BY <1>3, <1>5, <1>7 DEF SpecDevs

LEMMA PlaceFacts ==
  ASSUME DisksTyped, DisksInv, NEW i \in Ids, Is(i, "imported"), NEW t \in DOMAIN pool[i].tops
  PROVE  /\ pool[i].tops[t] \in Vdevs /\ WholeVdev(pool[i].tops[t])
         /\ Injective(pool[i].tops[t].devs)
         /\ \A e \in DevsIn(pool[i].tops[t].devs) : e \in TopDevs(pool[i].tops) /\ label[e] = i
<1>1. pool[i] # Nil /\ SoundPool(pool[i]) /\ \A e \in TopDevs(pool[i].tops) : label[e] = i
  BY DEF DisksInv, Is, Intact, There
<1>2. pool[i].tops[t] \in Vdevs
  <2>1. pool[i].tops \in Seq(Vdevs)
    BY <1>1, PoolTops
  <2>2. QED
    BY <2>1
<1>3. WholeVdev(pool[i].tops[t]) /\ Injective(pool[i].tops[t].devs)
  BY <1>1 DEF SoundPool, Distinct, Injective
<1>4. \A e \in DevsIn(pool[i].tops[t].devs) : e \in TopDevs(pool[i].tops)
  BY DEF TopDevs
<1>5. QED
  BY <1>1, <1>2, <1>3, <1>4

LEMMA AttachKernelStep ==
  ASSUME PoolInv, NEW c \in Admins, AttachKernel(c)
  PROVE  PoolInv'
<1> DEFINE r == preq[c]
<1>1. ppc[c] = "attachKernel" /\ Result(c, TRUE)
  BY DEF AttachKernel
<1>2. DisksTyped /\ DisksInv /\ CallsTyped
  BY DEF PoolInv
<1>3. /\ pspec[c] = LeafSpec(r.new) /\ pspec[c] \in Specs /\ r.new \in Devices /\ r.dev \in Devices
  BY <1>1, <1>2 DEF PoolInv, CallsTyped, Calls, CallInv
<1>4. CASE UNCHANGED Disks
  BY <1>1, <1>4, AnsweredOnly
<1>5. CASE ~UNCHANGED Disks
  <2>1. PICK i \in Named(r.name) : \E u \in PlaceIn(pool[i].tops, r.dev) :
          LET top == pool[i].tops[u] IN
          /\ KernelFree(pspec[c])
          /\ r.op = "attach" => top.type # "raidz"
          /\ Becomes(i, [pool[i] EXCEPT
                           !.tops[u] = IF r.op = "attach" THEN Attached(@, r.new)
                                       ELSE Replaced(@, r.dev, r.new),
                           !.even = FALSE],
                     Robbed(c, pspec[c]))
          /\ label' = [Labelled(i, pspec[c]) EXCEPT ![r.dev] = IF r.op = "attach" THEN @ ELSE Nil]
    BY <1>5 DEF AttachKernel
  <2>2. PICK t \in PlaceIn(pool[i].tops, r.dev) :
          LET top == pool[i].tops[t] IN
          /\ KernelFree(pspec[c])
          /\ r.op = "attach" => top.type # "raidz"
          /\ Becomes(i, [pool[i] EXCEPT
                           !.tops[t] = IF r.op = "attach" THEN Attached(@, r.new)
                                       ELSE Replaced(@, r.dev, r.new),
                           !.even = FALSE],
                     Robbed(c, pspec[c]))
          /\ label' = [Labelled(i, pspec[c]) EXCEPT ![r.dev] = IF r.op = "attach" THEN @ ELSE Nil]
    BY <2>1
  <2>3. PICK q : q = pool[i]
    OBVIOUS
  <2>4. PICK old : old = q.tops[t]
    OBVIOUS
  <2>5. PICK J : J = Robbed(c, pspec[c])
    OBVIOUS
  <2>6. J \in SUBSET There
    BY <2>5, RobbedThere
  <2>7. PICK top : top = IF r.op = "attach" THEN Attached(old, r.new) ELSE Replaced(old, r.dev, r.new)
    OBVIOUS
  <2>8. PICK p : p = [q EXCEPT !.tops = [q.tops EXCEPT ![t] = top], !.even = FALSE]
    OBVIOUS
  <2>9. /\ i \in Ids /\ Is(i, "imported") /\ q \in Pools /\ q.tops \in Seq(Vdevs)
    BY <1>2, <2>3, NamedOne, PoolTops
  <2>10. Becomes(i, p, J)
    <3>1. [q EXCEPT !.tops[t] = IF r.op = "attach" THEN Attached(@, r.new)
                                ELSE Replaced(@, r.dev, r.new),
                    !.even = FALSE] = p
      BY <2>4, <2>7, <2>8
    <3>2. QED
      BY <2>2, <2>3, <2>5, <3>1
  <2>11. /\ t \in DOMAIN q.tops /\ r.dev \in DevsIn(old.devs)
         /\ old \in Vdevs /\ WholeVdev(old)
         /\ Injective(old.devs) /\ old.devs # <<>>
         /\ \A e \in DevsIn(old.devs) : e \in TopDevs(q.tops) /\ label[e] = i
    <3>1. t \in DOMAIN pool[i].tops /\ r.dev \in DevsIn(pool[i].tops[t].devs)
      BY DEF PlaceIn
    <3>2. /\ pool[i].tops[t] \in Vdevs /\ WholeVdev(pool[i].tops[t]) /\ Injective(pool[i].tops[t].devs)
          /\ \A e \in DevsIn(pool[i].tops[t].devs) : e \in TopDevs(pool[i].tops) /\ label[e] = i
      BY <1>2, <2>9, <3>1, PlaceFacts
    <3>3. t \in DOMAIN q.tops /\ r.dev \in DevsIn(old.devs)
      BY <2>3, <2>4, <3>1
    <3>4. old.devs # <<>>
      BY <3>3 DEF DevsIn
    <3>5. QED
      BY <2>3, <2>4, <3>2, <3>3, <3>4
  <2>12. Usable(r.new) /\ TopDevs(pspec[c].tops) = {r.new} /\ SpecDevs(pspec[c]) = {r.new}
    BY <1>3, LeafSpecDevs
  <2>13. KernelFree(pspec[c])
    BY <2>2
  <2>14. PICK lab : lab = Labelled(i, pspec[c])
    OBVIOUS
  <2>15. /\ lab \in [Devices -> Ids \cup {Nil}]
         /\ lab[r.new] = i
         /\ \A d \in Devices : lab[d] # label[d] => lab[d] = i
         /\ \A j \in Ids : Is(j, "imported") => \A d \in TopDevs(pool[j].tops) : d # r.new /\ lab[d] = j
    BY <1>2, <1>3, <2>9, <2>12, <2>13, <2>14, KernelFacts, SMTT(30)
  <2>16. label' = IF r.op = "attach" THEN lab ELSE [lab EXCEPT ![r.dev] = Nil]
    BY <2>2, <2>14, <2>15
  <2>17. r.new \notin TopDevs(q.tops) /\ r.new \notin DevsIn(old.devs) /\ r.new # r.dev
    BY <2>3, <2>9, <2>11, <2>15
  <2>18. /\ top \in Vdevs /\ WholeVdev(top) /\ top.log = old.log /\ Injective(top.devs)
         /\ \A d \in DevsIn(top.devs) : d \in DevsIn(old.devs) \/ d = r.new
         /\ r.op # "attach" => r.dev \notin DevsIn(top.devs)
    <3>1. CASE r.op = "attach"
      BY <1>3, <2>7, <2>11, <2>12, <2>17, <3>1, AttachedFacts
    <3>2. CASE r.op # "attach"
      <4> DEFINE new == Replaced(old, r.dev, r.new)
      <4> HIDE DEF r
      <4>1. /\ new \in Vdevs /\ WholeVdev(new) /\ new.log = old.log /\ Injective(new.devs)
            /\ \A d \in DevsIn(new.devs) : d # r.dev => d \in DevsIn(old.devs) \/ d = r.new
            /\ r.dev # r.new => r.dev \notin DevsIn(new.devs)
        BY <1>3, <2>11, <2>12, <2>17, ReplacedFacts, Zenon
      <4>2. top = new
        BY <2>7, <3>2
      <4> HIDE DEF new
      <4>3. QED
        BY <2>17, <4>1, <4>2
    <3>3. QED
      BY <3>1, <3>2
  <2>19. /\ label' \in [Devices -> Ids \cup {Nil}]
         /\ \A d \in Devices : label'[d] # label[d] => label'[d] \in {Nil, i}
         /\ \A d \in Devices : d # r.dev => label'[d] = lab[d]
         /\ r.op = "attach" => label' = lab
    BY <1>3, <2>15, <2>16
  <2>20. \A d \in DevsIn(top.devs) : label'[d] = i
    <3> TAKE d \in DevsIn(top.devs)
    <3>1. lab[d] = i
      BY <2>3, <2>9, <2>11, <2>15, <2>18
    <3>2. d # r.dev \/ r.op = "attach"
      BY <2>18
    <3>3. d \in Devices
      <4>1. top.devs \in Seq(Devices)
        BY <2>18 DEF Vdevs
      <4>2. QED
        BY <4>1, DevsTyped
    <3>4. QED
      BY <2>19, <3>1, <3>2, <3>3
  <2>21. \A d \in TopDevs(pool[i].tops) : d \notin DevsIn(pool[i].tops[t].devs) => label'[d] = label[d]
    <3> SUFFICES ASSUME NEW d \in TopDevs(q.tops), d \notin DevsIn(old.devs) PROVE label'[d] = label[d]
      BY <2>3, <2>4
    <3>1. d # r.dev /\ d \in Devices /\ label[d] = i
      BY <1>2, <2>3, <2>9, <2>11, NamedOne, TopsTyped
    <3>2. QED
      BY <2>3, <2>9, <2>15, <2>19, <3>1
  <2>22. \A j \in Ids \ {i} : Is(j, "imported") => \A d \in TopDevs(pool[j].tops) : label'[d] = label[d]
    <3> SUFFICES ASSUME NEW j \in Ids \ {i}, Is(j, "imported"), NEW d \in TopDevs(pool[j].tops)
                 PROVE  label'[d] = label[d]
      OBVIOUS
    <3>1. label[d] = j /\ d \in Devices
      BY <1>2, ImportedActive, PoolTops DEF Is
    <3>2. d # r.dev
      BY <2>11, <3>1
    <3>3. QED
      BY <2>15, <2>19, <3>1, <3>2
  <2>23. \A k \in DOMAIN top.devs : \/ top.devs[k] \in DevsIn(pool[i].tops[t].devs)
                                    \/ top.devs[k] \notin TopDevs(pool[i].tops)
    <3> TAKE k \in DOMAIN top.devs
    <3>1. top.devs[k] \in DevsIn(top.devs)
      BY Zenon DEF DevsIn
    <3>2. QED
      BY <2>3, <2>4, <2>17, <2>18, <3>1
  <2>24. DisksTyped' /\ DisksInv' /\ There \subseteq There'
    <3>1. p = [pool[i] EXCEPT !.tops = [pool[i].tops EXCEPT ![t] = top], !.even = FALSE]
      BY <2>3, <2>8
    <3>2. t \in DOMAIN pool[i].tops /\ top \in Vdevs /\ WholeVdev(top) /\ top.log = pool[i].tops[t].log
      BY <2>3, <2>4, <2>11, <2>18
    <3>3. \A k, l \in DOMAIN top.devs : top.devs[k] = top.devs[l] => k = l
      BY <2>18 DEF Injective
    <3> DEFINE even == FALSE
    <3>4. even \in BOOLEAN /\ (even => pool[i].even /\ top.log)
      OBVIOUS
    <3>5. p = [pool[i] EXCEPT !.tops = [pool[i].tops EXCEPT ![t] = top], !.even = even]
      BY <3>1
    <3> HIDE DEF even
    <3>6. i \in Ids /\ Is(i, "imported")
      BY <2>9
    <3>7. QED
      BY <1>2, <2>6, <2>10, <2>19, <2>20, <2>21, <2>22, <2>23, <3>2, <3>3, <3>4, <3>5, <3>6, TopStep, ZenonT(40)
  <2>25. QED
    BY <1>1, <2>24, Answered, Zenon
<1>6. QED
  BY <1>4, <1>5, Zenon

LEMMA DetachStep ==
  ASSUME PoolInv, NEW c \in Admins, Detach(c)
  PROVE  PoolInv'
<1> DEFINE r == preq[c]
           mirrors(i) == {t \in PlaceIn(pool[i].tops, r.dev) : pool[i].tops[t].type = "mirror"}
           here == {i \in Named(r.name) : mirrors(i) # {}}
<1>1. ppc[c] = "detach" /\ DisksTyped /\ DisksInv /\ r.dev \in Devices
  <2>1. ppc[c] = "detach"
    BY ZenonT(40) DEF Detach
  <2>2. QED
    BY <2>1 DEF PoolInv, Calls, CallInv
<1>2. PICK done \in Kernel(here # {}) :
        /\ IF done
           THEN \E i \in here : \E t \in mirrors(i) : \E k \in DOMAIN pool[i].tops[t].devs :
                  /\ pool[i].tops[t].devs[k] = r.dev
                  /\ Becomes(i, [pool[i] EXCEPT !.tops[t] = Detached(@, k), !.even = FALSE], {})
                  /\ label' = [label EXCEPT ![r.dev] = Nil]
           ELSE UNCHANGED Disks
        /\ Result(c, done)
  BY DEF Detach
<1>3. done \in BOOLEAN
  <2>1. (here # {}) \in BOOLEAN
    OBVIOUS
  <2>2. QED
    BY <2>1 DEF Kernel
<1> HIDE DEF here, mirrors, r
<1>4. CASE ~done
  BY <1>1, <1>2, <1>3, <1>4, AnsweredOnly, Zenon
<1>5. CASE done
  <2>1. PICK i \in here : \E t \in mirrors(i) : \E k \in DOMAIN pool[i].tops[t].devs :
                  /\ pool[i].tops[t].devs[k] = r.dev
                  /\ Becomes(i, [pool[i] EXCEPT !.tops[t] = Detached(@, k), !.even = FALSE], {})
                  /\ label' = [label EXCEPT ![r.dev] = Nil]
    BY <1>2, <1>5
  <2>2. PICK t \in mirrors(i) : \E k \in DOMAIN pool[i].tops[t].devs :
                  /\ pool[i].tops[t].devs[k] = r.dev
                  /\ Becomes(i, [pool[i] EXCEPT !.tops[t] = Detached(@, k), !.even = FALSE], {})
                  /\ label' = [label EXCEPT ![r.dev] = Nil]
    BY <2>1, ZenonT(40)
  <2>3. PICK k \in DOMAIN pool[i].tops[t].devs :
                  /\ pool[i].tops[t].devs[k] = r.dev
                  /\ Becomes(i, [pool[i] EXCEPT !.tops[t] = Detached(@, k), !.even = FALSE], {})
                  /\ label' = [label EXCEPT ![r.dev] = Nil]
    BY <2>2
  <2>4. /\ i \in Ids /\ Is(i, "imported") /\ t \in DOMAIN pool[i].tops
        /\ pool[i].tops[t].type = "mirror"
    BY DEF Named, PlaceIn, here, mirrors
  <2>5. PICK q, dev : q = pool[i] /\ dev = r.dev
    OBVIOUS
  <2>6. PICK old : old = q.tops[t]
    OBVIOUS
  <2>7. PICK top : top = Detached(old, k)
    OBVIOUS
  <2>8. /\ old \in Vdevs /\ WholeVdev(old) /\ Injective(old.devs) /\ old.type = "mirror"
        /\ \A e \in DevsIn(old.devs) : e \in TopDevs(q.tops) /\ label[e] = i
        /\ k \in DOMAIN old.devs /\ old.devs[k] = dev
    <3>1. /\ pool[i].tops[t] \in Vdevs /\ WholeVdev(pool[i].tops[t]) /\ Injective(pool[i].tops[t].devs)
          /\ \A e \in DevsIn(pool[i].tops[t].devs) : e \in TopDevs(pool[i].tops) /\ label[e] = i
      BY <1>1, <2>4, PlaceFacts
    <3>2. QED
      BY <2>3, <2>4, <2>5, <2>6, <3>1
  <2>9. /\ top \in Vdevs /\ WholeVdev(top) /\ top.log = old.log
        /\ Injective(top.devs)
        /\ \A d : d \in DevsIn(top.devs) <=> d \in DevsIn(old.devs) /\ d # dev
    BY <2>7, <2>8, DetachedFacts
  <2>10. dev \in DevsIn(old.devs) /\ label[dev] = i
    BY <2>8 DEF DevsIn
  <2>11. PICK p : p = [q EXCEPT !.tops = [q.tops EXCEPT ![t] = top], !.even = FALSE]
    OBVIOUS
  <2>12. Becomes(i, p, {})
    <3>1. [q EXCEPT !.tops[t] = Detached(@, k), !.even = FALSE] = p
      BY <2>6, <2>7, <2>11
    <3>2. QED
      BY <2>3, <2>5, <3>1
  <2>13. /\ label' \in [Devices -> Ids \cup {Nil}]
         /\ \A d \in Devices : label'[d] # label[d] => label'[d] \in {Nil, i}
         /\ \A d \in Devices : d # dev => label'[d] = label[d]
    BY <1>1, <2>3, <2>5 DEF DisksTyped
  <2>14. \A d \in DevsIn(top.devs) : label'[d] = i
    <3> TAKE d \in DevsIn(top.devs)
    <3>1. d \in Devices
      BY <2>8, <2>9, VdevParts DEF DevsIn
    <3>2. QED
      BY <2>8, <2>9, <2>13, <3>1
  <2>15. \A d \in TopDevs(pool[i].tops) : d \notin DevsIn(pool[i].tops[t].devs) => label'[d] = label[d]
    <3> SUFFICES ASSUME NEW d \in TopDevs(pool[i].tops), d \notin DevsIn(pool[i].tops[t].devs)
                 PROVE  label'[d] = label[d]
      OBVIOUS
    <3>1. d \in Devices
      BY <1>1, <2>4, PoolTops DEF Is
    <3>2. d # dev
      BY <2>5, <2>6, <2>10
    <3>3. QED
      BY <2>13, <3>1, <3>2
  <2>16. \A j \in Ids \ {i} : Is(j, "imported") => \A d \in TopDevs(pool[j].tops) : label'[d] = label[d]
    <3> SUFFICES ASSUME NEW j \in Ids \ {i}, Is(j, "imported"), NEW d \in TopDevs(pool[j].tops)
                 PROVE  label'[d] = label[d]
      OBVIOUS
    <3>1. label[d] = j /\ d \in Devices
      BY <1>1, ImportedActive, PoolTops DEF Is
    <3>2. QED
      BY <2>10, <2>13, <3>1
  <2>17. \A m \in DOMAIN top.devs : \/ top.devs[m] \in DevsIn(pool[i].tops[t].devs)
                                    \/ top.devs[m] \notin TopDevs(pool[i].tops)
    <3> TAKE m \in DOMAIN top.devs
    <3>1. top.devs[m] \in DevsIn(top.devs)
      BY Zenon DEF DevsIn
    <3>2. QED
      BY <2>5, <2>6, <2>9, <3>1
  <2>18. DisksTyped' /\ DisksInv' /\ There \subseteq There'
    <3>1. t \in DOMAIN pool[i].tops /\ top \in Vdevs /\ WholeVdev(top) /\ top.log = pool[i].tops[t].log
      BY <2>4, <2>5, <2>6, <2>9
    <3>2. \A m, l \in DOMAIN top.devs : top.devs[m] = top.devs[l] => m = l
      BY <2>9 DEF Injective
    <3> DEFINE even == FALSE
               J == {}
    <3>3. even \in BOOLEAN /\ (even => pool[i].even /\ top.log) /\ J \in SUBSET There /\ Becomes(i, p, J)
      BY <2>12
    <3>4. p = [pool[i] EXCEPT !.tops = [pool[i].tops EXCEPT ![t] = top], !.even = even]
      BY <2>5, <2>11
    <3> HIDE DEF even, J
    <3>5. i \in Ids /\ Is(i, "imported")
      BY <2>4
    <3>6. QED
      BY <1>1, <2>13, <2>14, <2>15, <2>16, <2>17, <3>1, <3>2, <3>3, <3>4, <3>5, TopStep, ZenonT(40)
  <2>19. QED
    BY <1>1, <1>2, <1>3, <2>18, Answered, Zenon
<1>6. QED
  BY <1>3, <1>4, <1>5

LEMMA HoleFacts ==
  /\ Hole \in Vdevs /\ WholeVdev(Hole) /\ Hole.log = TRUE
  /\ DevsIn(Hole.devs) = {} /\ DOMAIN Hole.devs = {}
<1>1. <<>> \in Seq(Devices) /\ DOMAIN <<>> = {}
  OBVIOUS
<1>2. Hole.devs = <<>> /\ Hole.type = "hole" /\ Hole.log = TRUE
  BY DEF Hole
<1>3. DevsIn(<<>>) = {}
  BY <1>1 DEF DevsIn
<1>4. Hole \in Vdevs
  BY <1>1 DEF Hole, Vdevs, VdevTypes
<1>5. QED
  BY <1>1, <1>2, <1>3, <1>4 DEF WholeVdev

(* A spare or cache device goes. *)
LEMMA SpareGoes ==
  ASSUME DisksTyped, DisksInv, NEW i \in Ids, Is(i, "imported"), NEW d,
         Becomes(i, [pool[i] EXCEPT !.spares = @ \ {d}, !.caches = @ \ {d}], {}), UNCHANGED label
  PROVE  DisksTyped' /\ DisksInv' /\ There \subseteq There'
<1>1. PICK q : q = pool[i]
  OBVIOUS
<1>2. PICK p : p = [q EXCEPT !.spares = q.spares \ {d}, !.caches = q.caches \ {d}]
  OBVIOUS
<1>3. pool[i] # Nil /\ q \in Pools /\ q.state = "imported" /\ SoundPool(q)
      /\ \A e \in TopDevs(q.tops) : label[e] = i
  BY <1>1, PoolTops DEF Is, DisksInv, There, Intact
<1>4. p \in Pools /\ p.tops = q.tops /\ p.state = q.state /\ p.name = q.name /\ p.even = q.even
  BY <1>2, <1>3 DEF Pools
<1>5. SoundPool(p)
  BY <1>3, <1>4 DEF SoundPool
<1> DEFINE J == {}
<1>6. Becomes(i, p, J) /\ J \in SUBSET There
  BY <1>1, <1>2
<1> HIDE DEF J
<1>7. \A j \in Ids \ {i} : Is(j, "imported") => pool[j].name # p.name
  BY <1>1, <1>4 DEF DisksInv
<1>8. \A j \in Ids \ {i} : Is(j, "imported") => \A e \in TopDevs(pool[j].tops) : label'[e] = j
  BY DEF DisksInv, Intact
<1>9. label' \in [Devices -> Ids \cup {Nil}] /\ label' = label
  BY DEF DisksTyped
<1>10. \A e \in TopDevs(p.tops) : label'[e] = i
  BY <1>3, <1>4
<1>11. QED
  BY <1>4, <1>5, <1>6, <1>7, <1>8, <1>9, <1>10, OneChanged

(* A log goes. *)
LEMMA LogGoes ==
  ASSUME DisksTyped, DisksInv, NEW i \in Ids, Is(i, "imported"), NEW d,
         NEW t \in DOMAIN pool[i].tops, d \in DevsIn(pool[i].tops[t].devs),
         pool[i].tops[t].log, Len(pool[i].tops[t].devs) = 1,
         Becomes(i, [pool[i] EXCEPT !.tops[t] = Hole], {}), label' = [label EXCEPT ![d] = Nil]
  PROVE  DisksTyped' /\ DisksInv' /\ There \subseteq There'
<1>1. PICK q : q = pool[i]
  OBVIOUS
<1>2. PICK old : old = q.tops[t]
  OBVIOUS
<1>3. /\ old \in Vdevs /\ old.log
      /\ \A e \in DevsIn(old.devs) : e \in TopDevs(q.tops) /\ label[e] = i
  BY <1>1, <1>2, PlaceFacts
<1>4. old.log = TRUE /\ d \in DevsIn(old.devs) /\ d \in Devices /\ label[d] = i
      /\ \A e \in DevsIn(old.devs) : e = d
  <2>1. Len(old.devs) = 1 /\ d \in DevsIn(old.devs) /\ old.log \in BOOLEAN /\ old.devs \in Seq(Devices)
    BY <1>1, <1>2, <1>3, VdevParts
  <2>2. DOMAIN old.devs = {1}
    BY <2>1
  <2>3. QED
    BY <1>3, <2>1, <2>2, DevsTyped DEF DevsIn
<1>5. PICK even : even = q.even
  OBVIOUS
<1>6. PICK p : p = [q EXCEPT !.tops = [q.tops EXCEPT ![t] = Hole], !.even = even]
  OBVIOUS
<1>7. q \in Pools /\ even \in BOOLEAN
  BY <1>1, <1>5, PoolTops DEF Is
<1>8. Becomes(i, p, {})
  <2>1. p = [q EXCEPT !.tops = [q.tops EXCEPT ![t] = Hole]]
    BY <1>5, <1>6, <1>7 DEF Pools
  <2>2. QED
    BY <1>1, <2>1
<1>9. /\ label' \in [Devices -> Ids \cup {Nil}]
      /\ \A e \in Devices : label'[e] # label[e] => label'[e] \in {Nil, i}
      /\ \A e \in Devices : e # d => label'[e] = label[e]
  BY <1>4 DEF DisksTyped
<1>10. \A e \in TopDevs(pool[i].tops) : e \notin DevsIn(pool[i].tops[t].devs) => label'[e] = label[e]
  <2> SUFFICES ASSUME NEW e \in TopDevs(pool[i].tops), e \notin DevsIn(pool[i].tops[t].devs)
               PROVE  label'[e] = label[e]
    OBVIOUS
  <2>1. e \in Devices
    BY PoolTops DEF Is
  <2>2. QED
    BY <1>9, <2>1
<1>11. \A j \in Ids \ {i} : Is(j, "imported") => \A e \in TopDevs(pool[j].tops) : label'[e] = label[e]
  <2> SUFFICES ASSUME NEW j \in Ids \ {i}, Is(j, "imported"), NEW e \in TopDevs(pool[j].tops)
               PROVE  label'[e] = label[e]
    OBVIOUS
  <2>1. label[e] = j /\ e \in Devices
    BY ImportedActive, PoolTops DEF Is
  <2>2. QED
    BY <1>4, <1>9, <2>1
<1> DEFINE J == {}
           top == Hole
<1>12. /\ top \in Vdevs /\ WholeVdev(top) /\ top.log = TRUE
       /\ \A k \in DOMAIN top.devs : FALSE
       /\ \A e \in DevsIn(top.devs) : FALSE
  BY HoleFacts
<1>13. /\ Becomes(i, p, J) /\ J \in SUBSET There
       /\ p = [pool[i] EXCEPT !.tops = [pool[i].tops EXCEPT ![t] = top], !.even = even]
  BY <1>1, <1>6, <1>8
<1> HIDE DEF J, top
<1>14. top.log = pool[i].tops[t].log /\ (even => pool[i].even /\ top.log)
  BY <1>1, <1>2, <1>4, <1>5, <1>12
<1>15. /\ \A k, l \in DOMAIN top.devs : top.devs[k] = top.devs[l] => k = l
       /\ \A k \in DOMAIN top.devs : \/ top.devs[k] \in DevsIn(pool[i].tops[t].devs)
                                     \/ top.devs[k] \notin TopDevs(pool[i].tops)
       /\ \A e \in DevsIn(top.devs) : label'[e] = i
  BY <1>12
<1>16. QED
  BY <1>7, <1>9, <1>10, <1>11, <1>12, <1>13, <1>14, <1>15, TopStep, ZenonT(40)

LEMMA RemoveDeviceStep ==
  ASSUME PoolInv, NEW c \in Admins, RemoveDevice(c)
  PROVE  PoolInv'
<1> DEFINE r == preq[c]
           d == r.devs[1]
           aux(i) == pool[i].spares \cup pool[i].caches
           logs(i) == {t \in PlaceIn(pool[i].tops, d) : pool[i].tops[t].log /\ Len(pool[i].tops[t].devs) = 1}
           here == {i \in Named(r.name) : d \in aux(i) \/ logs(i) # {}}
<1>1. /\ ppc[c] \in {"remove", "removeMore"} /\ DisksTyped /\ DisksInv /\ CallsTyped
      /\ r.devs \in Seq(Devices) \ {<<>>} /\ r.name \in PoolNames
  BY DEF RemoveDevice, PoolInv, Calls, CallInv
<1>2. CASE Named(r.name) = {} /\ ppc[c] = "remove"
  <2>1. Result(c, FALSE) /\ UNCHANGED Disks
    BY <1>2 DEF RemoveDevice
  <2>2. QED
    BY <1>1, <2>1, AnsweredOnly, Zenon
<1>3. CASE ~(Named(r.name) = {} /\ ppc[c] = "remove")
  <2>1. PICK done \in Kernel(here # {}) :
       LET ok == done /\ (ppc[c] = "remove" \/ pok[c]) IN
       /\ IF ~done THEN UNCHANGED Disks
          ELSE \E i \in here :
            \/ /\ d \in aux(i)
               /\ Becomes(i, [pool[i] EXCEPT !.spares = @ \ {d}, !.caches = @ \ {d}], {})
               /\ UNCHANGED label
            \/ /\ d \notin aux(i)
               /\ \E t \in logs(i) : Becomes(i, [pool[i] EXCEPT !.tops[t] = Hole], {})
               /\ label' = [label EXCEPT ![d] = Nil]
       /\ IF Len(r.devs) = 1 THEN Result(c, ok)
          ELSE /\ ppc' = [ppc EXCEPT ![c] = "removeMore"]
               /\ preq' = [preq EXCEPT ![c].devs = Tail(@)]
               /\ pok' = [pok EXCEPT ![c] = ok]
               /\ UNCHANGED <<papart, pcalls, pspec>>
    BY <1>3 DEF RemoveDevice
  <2>2. PICK ok : ok = (done /\ (ppc[c] = "remove" \/ pok[c]))
    BY Zenon
  <2>3. /\ IF Len(r.devs) = 1 THEN Result(c, ok)
           ELSE /\ ppc' = [ppc EXCEPT ![c] = "removeMore"]
                /\ preq' = [preq EXCEPT ![c].devs = Tail(@)]
                /\ pok' = [pok EXCEPT ![c] = ok]
                /\ UNCHANGED <<papart, pcalls, pspec>>
        /\ ok \in BOOLEAN
    BY <2>1, <2>2, ZenonT(40)
  <2>4. DisksTyped' /\ DisksInv' /\ There \subseteq There'
    <3>1. CASE ~done
      <4>1. UNCHANGED Disks
        BY <2>1, <3>1, ZenonT(40)
      <4>2. QED
        BY <1>1, <4>1, DisksSame
    <3>2. CASE done
      <4>1. PICK i \in here :
            \/ /\ Becomes(i, [pool[i] EXCEPT !.spares = @ \ {d}, !.caches = @ \ {d}], {})
               /\ UNCHANGED label
            \/ /\ \E t \in logs(i) : Becomes(i, [pool[i] EXCEPT !.tops[t] = Hole], {})
               /\ label' = [label EXCEPT ![d] = Nil]
        BY <2>1, <3>2
      <4>2. i \in Ids /\ Is(i, "imported")
        BY DEF Named
      <4>3. CASE /\ Becomes(i, [pool[i] EXCEPT !.spares = @ \ {d}, !.caches = @ \ {d}], {})
                 /\ UNCHANGED label
        <5> HIDE DEF d
        <5> QED BY <1>1, <4>2, <4>3, SpareGoes
      <4>4. CASE /\ \E t \in logs(i) : Becomes(i, [pool[i] EXCEPT !.tops[t] = Hole], {})
                 /\ label' = [label EXCEPT ![d] = Nil]
        <5>1. PICK t \in logs(i) : Becomes(i, [pool[i] EXCEPT !.tops[t] = Hole], {})
          BY <4>4
        <5>2. /\ t \in DOMAIN pool[i].tops /\ d \in DevsIn(pool[i].tops[t].devs)
              /\ pool[i].tops[t].log /\ Len(pool[i].tops[t].devs) = 1
          BY DEF PlaceIn
        <5> HIDE DEF d, logs
        <5>3. QED
          BY <1>1, <4>2, <4>4, <5>1, <5>2, LogGoes
      <4>5. QED
        BY <4>1, <4>3, <4>4
    <3>3. QED
      BY <3>1, <3>2
  <2>5. CASE Len(r.devs) = 1
    BY <1>1, <2>3, <2>4, <2>5, Answered
  <2>6. CASE Len(r.devs) # 1
    <3>1. /\ ppc' = [ppc EXCEPT ![c] = "removeMore"]
          /\ preq' = [preq EXCEPT ![c].devs = Tail(@)]
          /\ pok' = [pok EXCEPT ![c] = ok]
          /\ UNCHANGED <<papart, pspec>>
      BY <2>3, <2>6
    <3>2. PICK rest : rest = Tail(r.devs)
      OBVIOUS
    <3>3. rest \in Seq(Devices) \ {<<>>}
      <4>1. Len(r.devs) \in Nat /\ Len(r.devs) # 0
        BY <1>1
      <4>2. Len(r.devs) >= 2
        <5>1. PICK len : len = Len(r.devs)
          OBVIOUS
        <5>2. len \in Nat /\ len # 0 /\ len # 1
          BY <2>6, <4>1, <5>1
        <5>3. len >= 2
          BY <5>2
        <5>4. QED
          BY <5>1, <5>3
      <4>3. rest \in Seq(Devices) /\ Len(rest) = Len(r.devs) - 1
        BY <1>1, <3>2
      <4>4. Len(rest) >= 1
        BY <4>1, <4>2, <4>3
      <4>5. QED
        BY <4>3, <4>4
    <3>4. PICK s : s = [r EXCEPT !.devs = rest]
      OBVIOUS
    <3>5. r \in PoolArguments
      BY <1>1 DEF CallsTyped
    <3>6. s \in PoolArguments /\ s.devs = rest /\ s.name = r.name
      BY <3>3, <3>4, <3>5 DEF PoolArguments
    <3>7. preq' = [preq EXCEPT ![c] = s]
      BY <3>1, <3>2, <3>4
    <3>8. CallsTyped'
      BY <1>1, <2>3, <3>1, <3>6, <3>7 DEF CallsTyped, PoolSteps
    <3>9. Moves(c) /\ ppc'[c] = "removeMore" /\ preq'[c] = s /\ papart' = papart
      BY <1>1, <3>1, <3>7 DEF CallsTyped, Moves
    <3>10. CallInv(c)'
      BY <1>1, <3>3, <3>6, <3>9 DEF CallInv
    <3>11. ApartInv(c)'
      <4>1. Seen(c)'
        BY <3>9 DEF Seen
      <4>2. QED
        BY <2>4, <3>9, <4>1, OtherCalls DEF ApartInv, PoolInv
    <3>12. \A e \in Admins \ {c} : CallInv(e)' /\ ApartInv(e)'
      BY <2>4, <3>9, OtherCalls DEF PoolInv
    <3>13. QED
      BY <2>4, <3>8, <3>10, <3>11, <3>12 DEF PoolInv, Calls
  <2>7. QED
    BY <2>5, <2>6
<1>4. QED
  BY <1>2, <1>3

(* The two halves of a split. *)
LEMMA SplitFacts ==
  ASSUME NEW tops \in Seq(Vdevs), WholeTops(tops), Distinct(tops),
         \A t \in DataVdevs(tops) : tops[t].type = "mirror"
  PROVE  /\ SplitOff(tops) \in Seq(Vdevs) /\ WholeTops(SplitOff(tops)) /\ Distinct(SplitOff(tops))
         /\ SplitFrom(tops) \in Seq(Vdevs) /\ WholeTops(SplitFrom(tops)) /\ Distinct(SplitFrom(tops))
         /\ DataVdevs(SplitOff(tops)) = DataVdevs(tops) /\ DataVdevs(SplitFrom(tops)) = DataVdevs(tops)
         /\ TopDevs(SplitOff(tops)) \subseteq TopDevs(tops)
         /\ TopDevs(SplitFrom(tops)) \subseteq TopDevs(tops) \ TopDevs(SplitOff(tops))
<1> DEFINE off == SplitOff(tops)
           kept == SplitFrom(tops)
           last(t) == tops[t].devs[Len(tops[t].devs)]
<1>1. \A t \in DOMAIN tops :
        /\ tops[t] \in Vdevs /\ WholeVdev(tops[t]) /\ Injective(tops[t].devs)
        /\ tops[t].log \in BOOLEAN /\ tops[t].devs \in Seq(Devices)
        /\ ~tops[t].log => tops[t].type = "mirror"
  BY TopsTyped DEF WholeTops, Distinct, Injective, DataVdevs
<1>2. \A t \in DOMAIN tops : ~tops[t].log =>
        /\ Len(tops[t].devs) \in DOMAIN tops[t].devs
        /\ last(t) \in DevsIn(tops[t].devs) /\ last(t) \in Devices /\ Usable(last(t))
  <2> SUFFICES ASSUME NEW t \in DOMAIN tops, ~tops[t].log
               PROVE  /\ Len(tops[t].devs) \in DOMAIN tops[t].devs
                      /\ last(t) \in DevsIn(tops[t].devs) /\ last(t) \in Devices /\ Usable(last(t))
    OBVIOUS
  <2>1. PICK seq : seq = tops[t].devs
    OBVIOUS
  <2>2. seq \in Seq(Devices) /\ Len(seq) >= 2 /\ \A d \in DevsIn(seq) : Usable(d)
    BY <1>1, <2>1 DEF WholeVdev
  <2>3. Len(seq) \in DOMAIN seq
    BY <2>2
  <2>4. seq[Len(seq)] \in DevsIn(seq)
    BY <2>3 DEF DevsIn
  <2>5. QED
    BY <2>1, <2>2, <2>3, <2>4, DevsTyped
<1>3. \A t \in DOMAIN tops : /\ off[t] = IF tops[t].log THEN Hole ELSE Leaf(last(t), FALSE)
                             /\ kept[t] = IF tops[t].log THEN tops[t] ELSE Detached(tops[t], Len(tops[t].devs))
  BY DEF SplitOff, SplitFrom
<1>4. DOMAIN off = DOMAIN tops /\ DOMAIN kept = DOMAIN tops /\ DOMAIN tops = 1 .. Len(tops) /\ Len(tops) \in Nat
  BY TopsTyped DEF SplitOff, SplitFrom
<1>5. \A t \in DOMAIN tops :
        /\ off[t] \in Vdevs /\ WholeVdev(off[t]) /\ off[t].log = tops[t].log
        /\ Injective(off[t].devs)
        /\ \A d : d \in DevsIn(off[t].devs) <=> ~tops[t].log /\ d = last(t)
  <2> TAKE t \in DOMAIN tops
  <2>1. CASE tops[t].log
    <3>1. off[t] = Hole /\ tops[t].log = TRUE
      BY <1>1, <1>3, <2>1
    <3> HIDE DEF off
    <3>2. QED
      BY <2>1, <3>1, HoleFacts DEF Injective
  <2>2. CASE ~tops[t].log
    <3>1. off[t] = Leaf(last(t), FALSE)
      BY <1>3, <2>2
    <3>2. PICK d : d = last(t)
      OBVIOUS
    <3>3. d \in Devices /\ Usable(d)
      BY <1>2, <2>2, <3>2
    <3>4. Leaf(d, FALSE) \in Vdevs /\ WholeVdev(Leaf(d, FALSE))
      <4>1. FALSE \in BOOLEAN
        OBVIOUS
      <4>2. QED
        BY <3>3, <4>1, LeafWhole
    <3>5. Leaf(d, FALSE).log = FALSE /\ Leaf(d, FALSE).devs = <<d>>
      BY DEF Leaf
    <3>6. DevsIn(<<d>>) = {d} /\ Injective(<<d>>)
      BY DEF DevsIn, Injective
    <3> HIDE DEF off, last
    <3>7. tops[t].log = FALSE
      BY <1>1, <2>2
    <3>8. QED
      BY <2>2, <3>1, <3>2, <3>4, <3>5, <3>6, <3>7
  <2>3. QED
    BY <2>1, <2>2
<1>6. \A t \in DOMAIN tops :
        /\ kept[t] \in Vdevs /\ WholeVdev(kept[t]) /\ kept[t].log = tops[t].log
        /\ Injective(kept[t].devs)
        /\ \A d : d \in DevsIn(kept[t].devs) <=> d \in DevsIn(tops[t].devs) /\ (tops[t].log \/ d # last(t))
  <2> TAKE t \in DOMAIN tops
  <2>1. CASE tops[t].log
    <3>1. kept[t] = tops[t]
      BY <1>3, <2>1
    <3> HIDE DEF kept
    <3>2. QED
      BY <1>1, <2>1, <3>1
  <2>2. CASE ~tops[t].log
    <3>1. PICK old, k : old = tops[t] /\ k = Len(tops[t].devs)
      OBVIOUS
    <3>2. old \in Vdevs /\ WholeVdev(old) /\ old.type = "mirror" /\ Injective(old.devs) /\ k \in DOMAIN old.devs
      BY <1>1, <1>2, <2>2, <3>1
    <3>3. kept[t] = Detached(old, k) /\ last(t) = old.devs[k]
      BY <1>3, <2>2, <3>1
    <3> HIDE DEF kept, last
    <3>4. /\ Detached(old, k) \in Vdevs /\ WholeVdev(Detached(old, k)) /\ Detached(old, k).log = old.log
          /\ Injective(Detached(old, k).devs)
          /\ \A d : d \in DevsIn(Detached(old, k).devs) <=> d \in DevsIn(old.devs) /\ d # old.devs[k]
      BY <3>2, DetachedFacts
    <3>5. QED
      BY <2>2, <3>1, <3>3, <3>4
  <2>3. QED
    BY <2>1, <2>2
<1>7. off \in [1 .. Len(tops) -> Vdevs] /\ kept \in [1 .. Len(tops) -> Vdevs]
  BY <1>4, <1>5, <1>6 DEF SplitOff, SplitFrom
<1>8. off \in Seq(Vdevs) /\ kept \in Seq(Vdevs)
  BY <1>4, <1>7
<1> HIDE DEF off, kept, last
<1>9. \A t, u \in DOMAIN tops : t # u => \A d \in DevsIn(tops[t].devs) : d \notin DevsIn(tops[u].devs)
  BY DEF Distinct, DevsIn
<1>10. WholeTops(off) /\ WholeTops(kept)
  BY <1>4, <1>5, <1>6 DEF WholeTops
<1>11. DataVdevs(off) = DataVdevs(tops) /\ DataVdevs(kept) = DataVdevs(tops)
  BY <1>4, <1>5, <1>6 DEF DataVdevs
<1>12. \A t \in DOMAIN tops : /\ \A d \in DevsIn(off[t].devs) : d \in DevsIn(tops[t].devs)
                              /\ \A d \in DevsIn(kept[t].devs) : d \in DevsIn(tops[t].devs)
  BY <1>2, <1>5, <1>6
<1>13. Distinct(off)
  <2> SUFFICES ASSUME NEW t \in DOMAIN off, NEW u \in DOMAIN off,
                      NEW k \in DOMAIN off[t].devs, NEW l \in DOMAIN off[u].devs,
                      off[t].devs[k] = off[u].devs[l]
               PROVE  t = u /\ k = l
    BY DEF Distinct
  <2>1. PICK d : d = off[t].devs[k]
    OBVIOUS
  <2>2. t = u
    <3>1. t \in DOMAIN tops /\ u \in DOMAIN tops
      BY <1>4
    <3>2. d \in DevsIn(off[t].devs) /\ d \in DevsIn(off[u].devs)
      BY <2>1 DEF DevsIn
    <3>3. d \in DevsIn(tops[t].devs) /\ d \in DevsIn(tops[u].devs)
      BY <1>12, <3>1, <3>2
    <3>4. QED
      BY <1>9, <3>1, <3>3
  <2>3. QED
    BY <1>4, <1>5, <2>2 DEF Injective
<1>14. Distinct(kept)
  <2> SUFFICES ASSUME NEW t \in DOMAIN kept, NEW u \in DOMAIN kept,
                      NEW k \in DOMAIN kept[t].devs, NEW l \in DOMAIN kept[u].devs,
                      kept[t].devs[k] = kept[u].devs[l]
               PROVE  t = u /\ k = l
    BY DEF Distinct
  <2>1. PICK d : d = kept[t].devs[k]
    OBVIOUS
  <2>2. t = u
    <3>1. t \in DOMAIN tops /\ u \in DOMAIN tops
      BY <1>4
    <3>2. d \in DevsIn(kept[t].devs) /\ d \in DevsIn(kept[u].devs)
      BY <2>1 DEF DevsIn
    <3>3. d \in DevsIn(tops[t].devs) /\ d \in DevsIn(tops[u].devs)
      BY <1>12, <3>1, <3>2
    <3>4. QED
      BY <1>9, <3>1, <3>3
  <2>3. QED
    BY <1>4, <1>6, <2>2 DEF Injective
<1>15. TopDevs(off) \subseteq TopDevs(tops) /\ TopDevs(kept) \subseteq TopDevs(tops)
  BY <1>4, <1>12 DEF TopDevs
<1>16. \A d \in TopDevs(kept) : d \notin TopDevs(off)
  <2> SUFFICES ASSUME NEW d \in TopDevs(kept), d \in TopDevs(off) PROVE FALSE
    OBVIOUS
  <2>1. PICK t \in DOMAIN tops : d \in DevsIn(kept[t].devs)
    BY <1>4 DEF TopDevs
  <2>2. PICK u \in DOMAIN tops : d \in DevsIn(off[u].devs)
    BY <1>4 DEF TopDevs
  <2>3. t = u
    BY <1>9, <1>12, <2>1, <2>2
  <2>4. QED
    BY <1>5, <1>6, <2>1, <2>2, <2>3
<1>17. QED
  BY <1>8, <1>10, <1>11, <1>13, <1>14, <1>15, <1>16 DEF off, kept

LEMMA SplitStep ==
  ASSUME PoolInv, NEW c \in Admins, Split(c)
  PROVE  PoolInv'
<1> DEFINE r == preq[c]
           from == {i \in Named(r.name) :
                      \A t \in DataVdevs(pool[i].tops) : pool[i].tops[t].type = "mirror"}
           can == from # {} /\ Named(r.to) = {} /\ Unused # {}
           fresh(i) == [name |-> r.to, state |-> IF r.flag THEN "imported" ELSE "exported",
                        tops |-> SplitOff(pool[i].tops), spares |-> {}, caches |-> {},
                        even |-> FALSE, taken |-> FALSE]
<1>1. ppc[c] = "split" /\ DisksTyped /\ DisksInv /\ CallsTyped /\ r.to \in PoolNames
  BY DEF Split, PoolInv, Calls, CallInv
<1>2. PICK done \in Kernel(can), mounted \in Kernel(TRUE) :
        /\ IF done
           THEN \E i \in from :
                  /\ pool' = [pool EXCEPT ![NextId] = fresh(i),
                                          ![i] = [pool[i] EXCEPT !.tops = SplitFrom(@), !.even = FALSE]]
                  /\ label' = [d \in Devices |->
                       IF d \in TopDevs(fresh(i).tops) THEN NextId ELSE label[d]]
           ELSE UNCHANGED Disks
        /\ Result(c, done /\ (r.flag => mounted))
  BY DEF Split
<1>3. done \in BOOLEAN /\ mounted \in BOOLEAN /\ (done => can)
  <2>1. can \in BOOLEAN /\ TRUE \in BOOLEAN
    OBVIOUS
  <2> HIDE DEF can
  <2>2. QED
    BY <2>1, KernelSays
<1>4. PICK ok \in BOOLEAN : Result(c, ok)
  BY <1>2
<1>5. CASE ~done
  BY <1>1, <1>2, <1>4, <1>5, AnsweredOnly
<1>6. CASE done
  <2>1. PICK i \in from :
                  /\ pool' = [pool EXCEPT ![NextId] = fresh(i),
                                          ![i] = [pool[i] EXCEPT !.tops = SplitFrom(@), !.even = FALSE]]
                  /\ label' = [d \in Devices |->
                       IF d \in TopDevs(fresh(i).tops) THEN NextId ELSE label[d]]
    BY <1>2, <1>6
  <2>2. PICK n : n = NextId
    OBVIOUS
  <2>3. n \in Ids /\ pool[n] = Nil /\ Named(r.to) = {}
    BY <1>3, <1>6, <2>2, NextIdFree
  <2>4. PICK q, new : q = pool[i] /\ new = fresh(i)
    OBVIOUS
  <2>5. /\ i \in Ids /\ Is(i, "imported") /\ q.name = r.name
        /\ \A t \in DataVdevs(q.tops) : q.tops[t].type = "mirror"
    BY <2>4 DEF Named
  <2>6. /\ q \in Pools /\ q # Nil /\ q.tops \in Seq(Vdevs) /\ i # n
        /\ WholeTops(q.tops) /\ Distinct(q.tops) /\ DataVdevs(q.tops) # {}
        /\ \A d \in TopDevs(q.tops) : label[d] = i /\ d \in Devices
    BY <1>1, <2>3, <2>4, <2>5, PoolTops DEF Is, DisksInv, There, Intact, SoundPool, WholeTops
  <2> DEFINE off == SplitOff(q.tops)
             kept == SplitFrom(q.tops)
  <2>7. /\ off \in Seq(Vdevs) /\ WholeTops(off) /\ Distinct(off)
        /\ kept \in Seq(Vdevs) /\ WholeTops(kept) /\ Distinct(kept)
        /\ DataVdevs(off) = DataVdevs(q.tops) /\ DataVdevs(kept) = DataVdevs(q.tops)
        /\ TopDevs(off) \subseteq TopDevs(q.tops)
        /\ TopDevs(kept) \subseteq TopDevs(q.tops) \ TopDevs(off)
    BY <2>5, <2>6, SplitFacts
  <2>8. PICK state : state = IF r.flag THEN "imported" ELSE "exported"
    OBVIOUS
  <2>9. new = [name |-> r.to, state |-> state, tops |-> off, spares |-> {}, caches |-> {},
               even |-> FALSE, taken |-> FALSE]
    BY <2>4, <2>8
  <2> HIDE DEF off
  <2>10. /\ new \in Pools /\ new.name = r.to /\ new.tops = off /\ new.even = FALSE
    <3>1. state \in PoolStates
      BY <2>8 DEF PoolStates
    <3>2. QED
      BY <1>1, <2>7, <2>9, <3>1 DEF Pools
  <2>11. PICK p : p = [q EXCEPT !.tops = kept, !.even = FALSE]
    OBVIOUS
  <2> HIDE DEF kept
  <2>12. p \in Pools /\ p.name = q.name /\ p.state = q.state /\ p.tops = kept /\ p.even = FALSE
    BY <2>6, <2>7, <2>11 DEF Pools
  <2>13. /\ pool' \in [Ids -> Pools \cup {Nil}] /\ pool'[n] = new /\ pool'[i] = p
         /\ \A j \in Ids : j # i /\ j # n => pool'[j] = pool[j]
    <3>1. PICK one : one = [pool EXCEPT ![n] = new]
      OBVIOUS
    <3>2. one \in [Ids -> Pools \cup {Nil}] /\ one[n] = new /\ one[i] = q /\ \A j \in Ids : j # n => one[j] = pool[j]
      BY <1>1, <2>3, <2>4, <2>5, <2>6, <2>10, <3>1 DEF DisksTyped
    <3>3. pool' = [one EXCEPT ![i] = p]
      <4>1. pool' = [pool EXCEPT ![n] = new, ![i] = [q EXCEPT !.tops = SplitFrom(@), !.even = FALSE]]
        BY <2>1, <2>2, <2>4
      <4>2. [q EXCEPT !.tops = SplitFrom(@), !.even = FALSE] = p
        BY <2>11 DEF kept
      <4>3. QED
        BY <3>1, <4>1, <4>2
    <3>4. QED
      BY <2>3, <2>5, <2>6, <2>12, <3>2, <3>3
  <2>14. /\ label' \in [Devices -> Ids \cup {Nil}]
         /\ \A d \in Devices : label'[d] = IF d \in TopDevs(off) THEN n ELSE label[d]
    <3>1. label' = [d \in Devices |-> IF d \in TopDevs(off) THEN n ELSE label[d]]
      BY <2>1, <2>2, <2>4, <2>10
    <3>2. QED
      BY <1>1, <2>3, <3>1 DEF DisksTyped
  <2> DEFINE K == {i, n}
  <2>15. DisksTyped' /\ K \in SUBSET Ids
    BY <2>3, <2>5, <2>13, <2>14 DEF DisksTyped
  <2>16. \A j \in Ids \ K : Unmoved(pool[j], pool'[j])
    <3>1. \A j \in Ids : pool[j] \in Pools \cup {Nil}
      BY <1>1 DEF DisksTyped
    <3>2. QED
      BY <2>13, <3>1 DEF Unmoved
  <2>17. \A j \in K : pool'[j] \in Pools /\ SoundPool(pool'[j])
    <3>1. SoundPool(new)
      BY <2>6, <2>7, <2>10 DEF SoundPool, WholeTops
    <3>2. SoundPool(p)
      BY <2>6, <2>7, <2>12 DEF SoundPool, WholeTops
    <3>3. QED
      BY <2>10, <2>12, <2>13, <3>1, <3>2
  <2>18. \A d \in Devices : label'[d] # label[d] => label'[d] = Nil \/ label'[d] \in K
    BY <2>14
  <2>19. \A j \in K : pool'[j].state = "imported" => \A d \in TopDevs(pool'[j].tops) : label'[d] = j
    <3>1. \A d \in TopDevs(new.tops) : label'[d] = n
      BY <2>6, <2>7, <2>10, <2>14
    <3>2. \A d \in TopDevs(p.tops) : label'[d] = i
      BY <2>6, <2>7, <2>12, <2>14
    <3>3. QED
      BY <2>13, <3>1, <3>2
  <2>20. \A j \in Ids \ K : Is(j, "imported") => \A d \in TopDevs(pool[j].tops) : label'[d] = j
    <3> SUFFICES ASSUME NEW j \in Ids \ K, Is(j, "imported"), NEW d \in TopDevs(pool[j].tops)
                 PROVE  label'[d] = j
      OBVIOUS
    <3>1. label[d] = j /\ d \in Devices
      BY <1>1, ImportedActive, PoolTops DEF Is
    <3>2. d \notin TopDevs(off)
      BY <2>6, <2>7, <3>1
    <3>3. QED
      BY <2>14, <3>1, <3>2
  <2>21. \A j \in K, k \in Ids : j # k /\ pool'[j].state = "imported" /\ Is(k, "imported")'
                                   => pool'[j].name # pool'[k].name
    <3>1. \A k \in Ids : Is(k, "imported") => pool[k].name # r.to
      BY <2>3 DEF Named
    <3>2. \A k \in Ids \ {i} : Is(k, "imported") => pool[k].name # q.name
      BY <1>1, <2>4, <2>5 DEF DisksInv
    <3>3. q.name # r.to
      BY <2>4, <2>5, <3>1
    <3>4. \A k \in Ids \ K : Is(k, "imported")' => Is(k, "imported") /\ pool'[k].name = pool[k].name
      BY <2>13 DEF Is
    <3> SUFFICES ASSUME NEW j \in K, NEW k \in Ids, j # k, Is(k, "imported")'
                 PROVE  pool'[j].name # pool'[k].name
      OBVIOUS
    <3>5. CASE k \notin K
      <4>1. pool'[k].name # r.to /\ pool'[k].name # q.name
        BY <3>1, <3>2, <3>4, <3>5
      <4>2. QED
        BY <2>10, <2>12, <2>13, <4>1
    <3>6. CASE k \in K
      BY <2>10, <2>12, <2>13, <3>3, <3>6
    <3>7. QED
      BY <3>5, <3>6
  <2> HIDE DEF K
  <2>22. DisksInv' /\ There \subseteq There'
    BY <1>1, <2>15, <2>16, <2>17, <2>18, <2>19, <2>20, <2>21, DisksChange
  <2>23. QED
    BY <1>1, <1>4, <2>15, <2>22, Answered
<1>7. QED
  BY <1>3, <1>5, <1>6

LEMMA GiveStep ==
  ASSUME PoolInv, NEW c \in Admins, NEW op \in PoolOps, NEW state \in {"destroyed", "exported"},
         Give(c, op, state)
  PROVE  PoolInv'
<1> DEFINE r == preq[c]
           can == Named(r.name) # {}
<1>1. ppc[c] = op /\ ppc[c] # "idle" /\ UNCHANGED label /\ DisksTyped /\ DisksInv
  BY DEF Give, PoolInv, PoolOps
<1>2. PICK done \in Kernel(can) :
        /\ IF done
           THEN \E i \in Named(r.name) : Becomes(i, [pool[i] EXCEPT !.state = state], {})
           ELSE UNCHANGED pool
        /\ Result(c, done)
  BY DEF Give
<1>3. done \in BOOLEAN
  <2>1. can \in BOOLEAN
    OBVIOUS
  <2> HIDE DEF can
  <2>2. QED
    BY <2>1, KernelSays
<1>4. CASE ~done
  <2>1. UNCHANGED Disks
    BY <1>1, <1>2, <1>4 DEF Disks
  <2>2. QED
    BY <1>1, <1>2, <1>3, <2>1, AnsweredOnly
<1>5. CASE done
  <2>1. PICK i \in Named(r.name) : Becomes(i, [pool[i] EXCEPT !.state = state], {})
    BY <1>2, <1>5
  <2>2. i \in Ids /\ Is(i, "imported")
    BY DEF Named
  <2>3. PICK p : p = [pool[i] EXCEPT !.state = state]
    OBVIOUS
  <2>4. pool[i] \in Pools /\ SoundPool(pool[i])
    BY <1>1, <2>2, PoolTops DEF Is, DisksInv, There
  <2>5. p \in Pools /\ p.tops = pool[i].tops /\ p.even = pool[i].even /\ p.state # "imported"
    BY <2>3, <2>4 DEF Pools, PoolStates
  <2>6. SoundPool(p)
    BY <2>4, <2>5 DEF SoundPool
  <2> DEFINE J == {}
  <2>7. J \in SUBSET There /\ Becomes(i, p, J)
    BY <2>1, <2>3
  <2> HIDE DEF J
  <2>8. label' \in [Devices -> Ids \cup {Nil}] /\ label' = label
    BY <1>1 DEF DisksTyped
  <2>9. \A j \in Ids \ {i} : Is(j, "imported") => \A d \in TopDevs(pool[j].tops) : label'[d] = j
    BY <1>1 DEF DisksInv, Intact
  <2>10. DisksTyped' /\ DisksInv' /\ There \subseteq There'
    BY <1>1, <2>2, <2>5, <2>6, <2>7, <2>8, <2>9, OneChanged, ZenonT(40)
  <2>11. QED
    BY <1>1, <1>2, <1>3, <2>10, Answered
<1>6. QED
  BY <1>3, <1>4, <1>5

LEMMA DoImportStep ==
  ASSUME PoolInv, NEW c \in Admins, DoImport(c)
  PROVE  PoolInv'
<1> DEFINE r == preq[c]
           name(i) == IF r.to = Nil THEN pool[i].name ELSE r.to
           can(i) == /\ i \in Found /\ MayImport(i, r.force)
                     /\ Named(name(i)) = {} /\ Uninvaded(i)
           new(i) == [pool[i] EXCEPT !.state = "imported", !.name = name(i),
                                     !.taken = @ \/ (pool[i].state = "foreign" /\ r.force)]
<1>1. /\ ppc[c] = "doImport" /\ DisksTyped /\ DisksInv /\ CallsTyped
      /\ r.left \subseteq There /\ r \in PoolArguments /\ pok[c] \in BOOLEAN
  BY DEF DoImport, PoolInv, Calls, CallInv, CallsTyped
<1>2. CASE r.left = {} /\ Result(c, pok[c]) /\ UNCHANGED Disks
  BY <1>1, <1>2, AnsweredOnly
<1>3. CASE \E i \in r.left : \E done \in Kernel(can(i)), mounted \in Kernel(TRUE) :
               /\ IF done THEN Becomes(i, new(i), {}) ELSE UNCHANGED pool
               /\ preq' = [preq EXCEPT ![c].left = @ \ {i}]
               /\ pok' = [pok EXCEPT ![c] = @ /\ done /\ mounted]
               /\ UNCHANGED <<label, ppc, papart, pspec, pcalls>>
  <2>1. PICK i \in r.left : \E done \in Kernel(can(i)), mounted \in Kernel(TRUE) :
               /\ IF done THEN Becomes(i, new(i), {}) ELSE UNCHANGED pool
               /\ preq' = [preq EXCEPT ![c].left = @ \ {i}]
               /\ pok' = [pok EXCEPT ![c] = @ /\ done /\ mounted]
               /\ UNCHANGED <<label, ppc, papart, pspec, pcalls>>
    BY <1>3
  <2>2. PICK done \in Kernel(can(i)), mounted \in Kernel(TRUE) :
               /\ IF done THEN Becomes(i, new(i), {}) ELSE UNCHANGED pool
               /\ preq' = [preq EXCEPT ![c].left = @ \ {i}]
               /\ pok' = [pok EXCEPT ![c] = @ /\ done /\ mounted]
               /\ UNCHANGED <<label, ppc, papart, pspec, pcalls>>
    BY <2>1
  <2>3. done \in BOOLEAN /\ mounted \in BOOLEAN /\ (done => can(i))
    <3>1. can(i) \in BOOLEAN /\ TRUE \in BOOLEAN
      OBVIOUS
    <3> HIDE DEF can
    <3>2. QED
      BY <3>1, KernelSays
  <2>4. i \in Ids /\ pool[i] # Nil /\ i \in There
    BY <1>1 DEF There
  <2>5. DisksTyped' /\ DisksInv' /\ There \subseteq There'
    <3>1. CASE ~done
      <4>1. UNCHANGED Disks
        BY <2>2, <3>1 DEF Disks
      <4>2. QED
        BY <1>1, <4>1, DisksSame
    <3>2. CASE done
      <4>1. PICK q, n, taken, p :
              /\ q = pool[i] /\ n = name(i) /\ taken = (q.taken \/ (q.state = "foreign" /\ r.force))
              /\ p = [q EXCEPT !.state = "imported", !.name = n, !.taken = taken]
        OBVIOUS
      <4>2. Becomes(i, p, {}) /\ label' = label
        <5>1. new(i) = p
          BY <4>1
        <5> HIDE DEF new
        <5>2. QED
          BY <2>2, <3>2, <5>1
      <4>3. Intact(i) /\ Named(n) = {}
        BY <2>3, <3>2, <4>1 DEF Found
      <4>4. q \in Pools /\ SoundPool(q)
        BY <1>1, <2>4, <4>1, PoolTops DEF DisksInv
      <4>5. n \in PoolNames /\ taken \in BOOLEAN
        <5>1. q.name \in PoolNames /\ r.to \in PoolNames \cup {Nil} /\ q.taken \in BOOLEAN
          BY <1>1, <4>4 DEF Pools, PoolArguments
        <5>2. QED
          BY <4>1, <5>1
      <4>6. p \in Pools /\ p.tops = q.tops /\ p.even = q.even /\ p.name = n
        <5> HIDE DEF r, name
        <5>1. p = [q EXCEPT !.state = "imported", !.name = n, !.taken = taken]
          BY <4>1
        <5>2. QED
          BY <4>4, <4>5, <5>1 DEF Pools, PoolStates
      <4>7. SoundPool(p)
        BY <4>4, <4>6 DEF SoundPool
      <4>8. \A d \in TopDevs(p.tops) : label'[d] = i
        BY <4>1, <4>2, <4>3, <4>6 DEF Intact
      <4>9. \A j \in Ids \ {i} : Is(j, "imported") => pool[j].name # p.name
        BY <4>3, <4>6 DEF Named
      <4>10. \A j \in Ids \ {i} : Is(j, "imported") => \A d \in TopDevs(pool[j].tops) : label'[d] = j
        BY <1>1, <4>2 DEF DisksInv, Intact
      <4>11. label' \in [Devices -> Ids \cup {Nil}] /\ label' = label
        BY <1>1, <4>2 DEF DisksTyped
      <4> DEFINE J == {}
      <4>12. J \in SUBSET There /\ Becomes(i, p, J)
        BY <4>2
      <4> HIDE DEF J
      <4>13. QED
        BY <1>1, <2>4, <4>6, <4>7, <4>8, <4>9, <4>10, <4>11, <4>12, OneChanged
    <3>3. QED
      BY <2>3, <3>1, <3>2
  <2>6. PICK s : s = [r EXCEPT !.left = r.left \ {i}]
    OBVIOUS
  <2>7. s \in PoolArguments /\ s.left = r.left \ {i}
    BY <1>1, <2>6 DEF PoolArguments
  <2>8. preq' = [preq EXCEPT ![c] = s]
    BY <2>2, <2>6
  <2>9. CallsTyped'
    <3>1. pok' \in [Admins -> BOOLEAN]
      <4>1. PICK ok : ok = (pok[c] /\ done /\ mounted)
        OBVIOUS
      <4>2. ok \in BOOLEAN /\ pok' = [pok EXCEPT ![c] = ok]
        BY <1>1, <2>2, <2>3, <4>1
      <4>3. QED
        BY <1>1, <4>2 DEF CallsTyped
    <3>2. QED
      BY <1>1, <2>2, <2>7, <2>8, <3>1 DEF CallsTyped
  <2>10. Moves(c) /\ ppc'[c] = "doImport" /\ preq'[c] = s /\ papart' = papart
    BY <1>1, <2>2, <2>8 DEF CallsTyped, Moves
  <2>11. CallInv(c)'
    BY <1>1, <2>5, <2>7, <2>10 DEF CallInv
  <2>12. ApartInv(c)'
    <3>1. Seen(c)'
      BY <2>10 DEF Seen
    <3>2. QED
      BY <2>5, <2>10, <3>1, OtherCalls DEF ApartInv, PoolInv
  <2>13. \A e \in Admins \ {c} : CallInv(e)' /\ ApartInv(e)'
    BY <2>5, <2>10, OtherCalls DEF PoolInv
  <2>14. QED
    BY <2>5, <2>9, <2>11, <2>12, <2>13 DEF PoolInv, Calls
<1>4. QED
  BY <1>2, <1>3, ZenonT(40) DEF DoImport

LEMMA ClearStep ==
  ASSUME PoolInv, NEW c \in Admins, Clear(c)
  PROVE  PoolInv'
<1> DEFINE r == preq[c]
           free == label[r.dev] # Nil /\ LabelState(r.dev) \notin {"active", "spare", "cache"}
<1>1. ppc[c] = "clear" /\ DisksTyped /\ DisksInv /\ CallsTyped /\ r.dev \in Devices
  BY DEF Clear, PoolInv, Calls, CallInv
<1>2. CASE ~free
  <2>1. Result(c, FALSE) /\ UNCHANGED Disks
    BY <1>2 DEF Clear
  <2>2. QED
    BY <1>1, <2>1, AnsweredOnly
<1>3. CASE free
  <2>1. PICK i, dev, q, taken, p :
          /\ dev = r.dev /\ i = label[dev] /\ q = pool[i]
          /\ taken = (q.taken \/ r.force \/ ~papart[c]) /\ p = [q EXCEPT !.taken = taken]
    OBVIOUS
  <2>2. /\ label' = [label EXCEPT ![dev] = Nil] /\ Becomes(i, p, {}) /\ Result(c, TRUE)
    BY <1>3, <2>1 DEF Clear
  <2>3. dev \in Devices /\ i \in There /\ i \in Ids /\ LabelState(dev) # "active"
    BY <1>1, <1>3, <2>1 DEF DisksInv, There
  <2>4. q \in Pools /\ SoundPool(q)
    BY <1>1, <2>1, <2>3, PoolTops DEF DisksInv, There
  <2>5. taken \in BOOLEAN
    <3>1. q.taken \in BOOLEAN /\ r.force \in BOOLEAN /\ papart[c] \in BOOLEAN
      BY <1>1, <2>4 DEF Pools, CallsTyped, PoolArguments
    <3>2. QED
      BY <2>1, <3>1
  <2>6. p \in Pools /\ p.tops = q.tops /\ p.even = q.even /\ p.name = q.name /\ p.state = q.state
    <3> HIDE DEF r
    <3>1. p = [q EXCEPT !.taken = taken]
      BY <2>1
    <3>2. QED
      BY <2>4, <2>5, <3>1 DEF Pools
  <2>7. SoundPool(p)
    BY <2>4, <2>6 DEF SoundPool
  <2>8. /\ label' \in [Devices -> Ids \cup {Nil}]
        /\ \A d \in Devices : label'[d] # label[d] => label'[d] \in {Nil, i}
        /\ \A d \in Devices : d # dev => label'[d] = label[d]
    BY <1>1, <2>2, <2>3 DEF DisksTyped
  <2>9. \A j \in Ids : Is(j, "imported") => \A d \in TopDevs(pool[j].tops) : label'[d] = j
    <3> SUFFICES ASSUME NEW j \in Ids, Is(j, "imported"), NEW d \in TopDevs(pool[j].tops)
                 PROVE  label'[d] = j
      OBVIOUS
    <3>1. label[d] = j /\ LabelState(d) = "active" /\ d \in Devices
      BY <1>1, ImportedActive, PoolTops DEF Is
    <3>2. d # dev
      BY <2>3, <3>1
    <3>3. QED
      BY <2>8, <3>1, <3>2
  <2>10. p.state = "imported" => \A d \in TopDevs(p.tops) : label'[d] = i
    <3>1. p.state = "imported" => Is(i, "imported")
      BY <2>1, <2>3, <2>6 DEF Is, There
    <3>2. QED
      BY <2>1, <2>3, <2>6, <2>9, <3>1
  <2>11. p.state = "imported" => \A j \in Ids \ {i} : Is(j, "imported") => pool[j].name # p.name
    <3>1. p.state = "imported" => Is(i, "imported")
      BY <2>1, <2>3, <2>6 DEF Is, There
    <3>2. QED
      BY <1>1, <2>1, <2>3, <2>6, <3>1 DEF DisksInv
  <2> DEFINE J == {}
  <2>12. J \in SUBSET There /\ Becomes(i, p, J)
    BY <2>2
  <2> HIDE DEF J
  <2>13. \A j \in Ids \ {i} : Is(j, "imported") => \A d \in TopDevs(pool[j].tops) : label'[d] = j
    BY <2>9
  <2>14. DisksTyped' /\ DisksInv' /\ There \subseteq There'
    BY <1>1, <2>3, <2>6, <2>7, <2>8, <2>10, <2>11, <2>12, <2>13, OneChanged
  <2>15. QED
    BY <1>1, <2>2, <2>14, Answered
<1>4. QED
  BY <1>2, <1>3

-----------------------------------------------------------------------------
(* The theorems.                                                           *)

LEMMA PoolStep ==
  ASSUME PoolInv, [PoolNext]_poolVars
  PROVE  PoolInv'
<1>1. CASE UNCHANGED poolVars
  <2>1. /\ pool' = pool /\ label' = label /\ ppc' = ppc /\ preq' = preq
        /\ pspec' = pspec /\ papart' = papart /\ pok' = pok
    BY <1>1 DEF poolVars
  <2>2. DisksTyped' /\ DisksInv' /\ There' = There /\ CallsTyped'
    BY <2>1, DisksSame DEF PoolInv, Disks, CallsTyped
  <2>3. \A d : LabelState(d)' = LabelState(d)
    BY <2>1 DEF LabelState, Is
  <2>4. \A c \in Admins : Seen(c) => Seen(c)'
    <3>1. \A n : Named(n)' = Named(n)
      BY <2>1 DEF Named, Is
    <3>2. \A s : SpecDevs(s)' = SpecDevs(s)
      BY DEF SpecDevs
    <3>3. QED
      BY <2>1, <2>3, <3>1, <3>2 DEF Seen
  <2>5. Calls'
    BY <2>1, <2>2, <2>4 DEF PoolInv, Calls, CallInv, ApartInv
  <2>6. QED
    BY <2>2, <2>5 DEF PoolInv
<1>2. CASE PoolNext
  <2>1. PICK c \in Admins :
          \/ CallPool(c) \/ LeavePool(c)
          \/ CreatePool(c) \/ CreateKernel(c) \/ AddToPool(c) \/ AddKernel(c)
          \/ AttachCheck(c) \/ AttachKernel(c) \/ Detach(c) \/ RemoveDevice(c) \/ Split(c)
          \/ DestroyPool(c) \/ Export(c) \/ SearchImport(c) \/ DoImport(c) \/ ClearCheck(c) \/ Clear(c)
    BY <1>2 DEF PoolNext
  <2>2. CASE CallPool(c)
    BY <2>2, CallStep
  <2>3. CASE LeavePool(c)
    BY <2>3, LeaveStep
  <2>4. CASE CreatePool(c)
    BY <2>4, CreatePoolStep
  <2>5. CASE CreateKernel(c)
    BY <2>5, CreateKernelStep
  <2>6. CASE AddToPool(c)
    BY <2>6, AddToPoolStep
  <2>7. CASE AddKernel(c)
    BY <2>7, AddKernelStep
  <2>8. CASE AttachCheck(c)
    BY <2>8, AttachCheckStep
  <2>9. CASE AttachKernel(c)
    BY <2>9, AttachKernelStep
  <2>10. CASE Detach(c)
    BY <2>10, DetachStep
  <2>11. CASE RemoveDevice(c)
    BY <2>11, RemoveDeviceStep
  <2>12. CASE Split(c)
    BY <2>12, SplitStep
  <2>13. CASE DestroyPool(c)
    <3>1. "destroyPool" \in PoolOps /\ "destroyed" \in {"destroyed", "exported"}
      BY DEF PoolOps
    <3>2. Give(c, "destroyPool", "destroyed")
      BY <2>13 DEF DestroyPool
    <3>3. QED
      BY <3>1, <3>2, GiveStep
  <2>14. CASE Export(c)
    <3>1. "export" \in PoolOps /\ "exported" \in {"destroyed", "exported"}
      BY DEF PoolOps
    <3>2. Give(c, "export", "exported")
      BY <2>14 DEF Export
    <3>3. QED
      BY <3>1, <3>2, GiveStep
  <2>15. CASE SearchImport(c)
    BY <2>15, SearchImportStep
  <2>16. CASE DoImport(c)
    BY <2>16, DoImportStep
  <2>17. CASE ClearCheck(c)
    BY <2>17, ClearCheckStep
  <2>18. CASE Clear(c)
    BY <2>18, ClearStep
  <2>19. QED
    BY <2>1, <2>2, <2>3, <2>4, <2>5, <2>6, <2>7, <2>8, <2>9, <2>10, <2>11, <2>12, <2>13, <2>14,
       <2>15, <2>16, <2>17, <2>18
<1>3. QED
  BY <1>1, <1>2

LEMMA PoolInvariant == PoolSpec => []PoolInv
<1>1. PoolInit => PoolInv
  BY StartInv
<1>2. PoolInv /\ [PoolNext]_poolVars => PoolInv'
  BY PoolStep
<1>3. QED
  BY <1>1, <1>2, PTL DEF PoolSpec

(* PoolTypeOK: the labels, devices, names and data of imported pools       *)
(* (zpool_in_use, zpool_create, zpool_import), whatever calls overlap.     *)
THEOREM PoolTypeCorrect == PoolSpec => []PoolTypeOK
<1>1. PoolInv => PoolTypeOK
  <2> SUFFICES ASSUME DisksTyped, DisksInv PROVE PoolTypeOK
    BY DEF PoolInv
  <2>1. \A d \in Devices : label[d] = Nil \/ pool[label[d]] # Nil
    BY DEF DisksInv, There
  <2>2. ASSUME NEW i \in Ids, pool[i] # Nil
        PROVE  /\ pool[i].state \in PoolStates /\ pool[i].name \in PoolNames
               /\ Is(i, "imported") => /\ Intact(i) /\ Named(pool[i].name) = {i}
                                       /\ DataVdevs(pool[i].tops) # {}
    <3>1. pool[i].state \in PoolStates /\ pool[i].name \in PoolNames
      BY <2>2, PoolTops
    <3>2. SoundPool(pool[i])
      BY <2>2 DEF DisksInv, There
    <3>3. Is(i, "imported") => Intact(i) /\ Named(pool[i].name) = {i}
      BY DEF DisksInv, Named
    <3>4. QED
      BY <3>1, <3>2, <3>3 DEF SoundPool
  <2>3. ASSUME NEW i \in Ids, NEW j \in Ids, i # j, Is(i, "imported"), Is(j, "imported")
        PROVE  TopDevs(pool[i].tops) \cap TopDevs(pool[j].tops) = {}
    BY <2>3 DEF DisksInv, Intact
  <2>4. QED
    BY <2>1, <2>2, <2>3 DEF PoolTypeOK
<1>2. QED
  BY <1>1, PoolInvariant, PTL

(* PoolsEven: a pool to which devices came only through check_replication, *)
(* by calls that take turns, has vdevs of one level, however many there are *)
(* and whatever they are made of; though only neighbours were compared.    *)
THEOREM PoolsEvenTheorem == PoolSpec => []PoolsEven
<1>1. PoolInv => PoolsEven
  <2> SUFFICES ASSUME DisksTyped, DisksInv, NEW i \in Ids, pool[i] # Nil, pool[i].even
               PROVE  Even(pool[i].tops)
    BY DEF PoolInv, PoolsEven
  <2>1. pool[i].tops \in Seq(Vdevs)
    BY PoolTops
  <2>2. DataVdevs(pool[i].tops) # {} /\ Replication(pool[i].tops) # Nil
    BY DEF DisksInv, There, SoundPool
  <2>3. QED
    BY <2>1, <2>2, ReplicationFits DEF Fits
<1>2. QED
  BY <1>1, PoolInvariant, PTL

-----------------------------------------------------------------------------
(* What is not in use here, and is not to be taken without force.          *)

Held(i) == pool[i] # Nil /\ pool[i].state \in {"exported", "foreign"}
Kept(i) ==
  Held(i) /\ ~pool'[i].taken =>
    /\ \A d \in TopDevs(pool[i].tops) : label[d] = i => label'[d] = i
    /\ pool[i].state = "foreign" => pool'[i].state = "foreign"

LEMMA HeldState ==
  ASSUME NEW i \in Ids, Held(i), NEW d \in TopDevs(pool[i].tops), label[d] = i
  PROVE  LabelState(d) = pool[i].state /\ LabelState(d) \notin {"none", "spare", "active"}
<1>1. i # Nil /\ pool[i] # Nil /\ pool[i].state \in {"exported", "foreign"}
  BY NilNoPool DEF Held
<1>2. LabelState(d) = pool[i].state
  BY <1>1 DEF LabelState
<1>3. QED
  BY <1>1, <1>2

LEMMA SameKept ==
  ASSUME UNCHANGED Disks
  PROVE  \A i \in Ids : Kept(i)
BY DEF Disks, Kept

(* Pool k changes, which is in use or new; and whoever loses a label is in J. *)
LEMMA OthersStay ==
  ASSUME DisksTyped, NEW k \in Ids, ~Held(k), NEW p, NEW J \in SUBSET There, Becomes(k, p, J),
         \A i \in Ids \ {k} : Held(i) =>
           \A d \in TopDevs(pool[i].tops) : label[d] = i => label'[d] = i \/ i \in J
  PROVE  \A i \in Ids : Kept(i)
<1> SUFFICES ASSUME NEW i \in Ids, Held(i), ~pool'[i].taken
             PROVE  /\ \A d \in TopDevs(pool[i].tops) : label[d] = i => label'[d] = i
                    /\ pool[i].state = "foreign" => pool'[i].state = "foreign"
  BY DEF Kept
<1>1. i # k
  OBVIOUS
<1>2. pool[i] # Nil /\ pool[i] \in Pools
  BY DEF Held, DisksTyped
<1>3. pool'[i] = IF i \in J THEN [pool[i] EXCEPT !.taken = TRUE] ELSE pool[i]
  BY <1>1 DEF Becomes
<1>4. [pool[i] EXCEPT !.taken = TRUE].taken
  BY <1>2 DEF Pools
<1>5. i \notin J /\ pool'[i] = pool[i]
  BY <1>3, <1>4
<1>6. QED
  BY <1>1, <1>5

(* The kernel takes the devices of spec for pool k. *)
LEMMA TakenKept ==
  ASSUME PoolInv, NEW c \in Admins, ppc[c] \in {"createKernel", "addKernel", "attachKernel"},
         NEW k \in Ids, ~Held(k), NEW p, Becomes(k, p, Robbed(c, pspec[c])),
         \A d \in Devices : label'[d] = Labelled(k, pspec[c])[d] \/ label[d] = k
  PROVE  \A i \in Ids : Kept(i)
<1> DEFINE spec == pspec[c]
           J == Robbed(c, spec)
<1>1. DisksTyped /\ DisksInv /\ CallsTyped /\ ApartInv(c)
  BY DEF PoolInv, Calls
<1>2. J \in SUBSET There
  BY RobbedThere
<1>3. preq[c].force \/ ~papart[c] \/ \A d \in SpecDevs(spec) : LabelState(d) \in {"none", "spare"}
  BY <1>1 DEF ApartInv, Seen
<1>4. ASSUME NEW i \in Ids \ {k}, Held(i), NEW d \in TopDevs(pool[i].tops), label[d] = i, label'[d] # i
      PROVE  i \in J
  <2>1. pool[i] # Nil /\ d \in Devices
    BY <1>1, <1>4, PoolTops DEF Held
  <2>2. label'[d] = Labelled(k, spec)[d]
    BY <1>4, <2>1
  <2>3. d \in SpecDevs(spec)
    BY <1>4, <2>1, <2>2 DEF Labelled
  <2>4. ~(\A e \in SpecDevs(spec) : LabelState(e) \in {"none", "spare"})
    BY <1>4, <2>3, HeldState
  <2>5. preq[c].force \/ ~papart[c]
    BY <1>3, <2>4
  <2>6. QED
    BY <1>4, <2>1, <2>3, <2>5 DEF Robbed
<1>5. \A i \in Ids \ {k} : Held(i) =>
           \A d \in TopDevs(pool[i].tops) : label[d] = i => label'[d] = i \/ i \in J
  BY <1>4
<1>6. Becomes(k, p, J)
  OBVIOUS
<1> HIDE DEF J
<1>7. QED
  BY <1>1, <1>2, <1>5, <1>6, OthersStay

(* A pool in use here changes, and gives away labels of its own. *)
LEMMA OwnKept ==
  ASSUME DisksTyped, NEW k \in Ids, Is(k, "imported"), NEW p, Becomes(k, p, {}),
         \A d \in Devices : label'[d] = label[d] \/ label[d] = k
  PROVE  \A i \in Ids : Kept(i)
<1> DEFINE J == {}
<1>1. ~Held(k)
  BY DEF Held, Is
<1>2. \A i \in Ids \ {k} : Held(i) =>
           \A d \in TopDevs(pool[i].tops) : label[d] = i => label'[d] = i \/ i \in J
  <2> SUFFICES ASSUME NEW i \in Ids \ {k}, Held(i), NEW d \in TopDevs(pool[i].tops), label[d] = i
               PROVE  label'[d] = i
    OBVIOUS
  <2>1. d \in Devices
    BY PoolTops DEF Held
  <2>2. QED
    BY <2>1
<1>3. Becomes(k, p, J) /\ J \in SUBSET There
  OBVIOUS
<1> HIDE DEF J
<1>4. QED
  BY <1>1, <1>2, <1>3, OthersStay

LEMMA CreateKernelKept ==
  ASSUME PoolInv, NEW c \in Admins, CreateKernel(c)
  PROVE  \A i \in Ids : Kept(i)
<1> DEFINE r == preq[c]
           can == Named(r.name) = {} /\ KernelFree(pspec[c]) /\ Unused # {}
           new == [name |-> r.name, state |-> "imported", tops |-> pspec[c].tops,
                   spares |-> pspec[c].spares, caches |-> pspec[c].caches,
                   even |-> ~r.force, taken |-> FALSE]
<1>1. PICK done \in Kernel(can) :
        IF done THEN Becomes(NextId, new, Robbed(c, pspec[c])) /\ label' = Labelled(NextId, pspec[c])
        ELSE UNCHANGED Disks
  BY DEF CreateKernel
<1>2. ppc[c] = "createKernel" /\ done \in BOOLEAN /\ (done => can)
  <2>1. can \in BOOLEAN
    OBVIOUS
  <2> HIDE DEF can
  <2>2. QED
    BY <2>1, KernelSays DEF CreateKernel
<1>3. CASE ~done
  BY <1>1, <1>3, SameKept
<1>4. CASE done
  <2>1. PICK k, p : k = NextId /\ p = new
    OBVIOUS
  <2>2. k \in Ids /\ ~Held(k)
    BY <1>2, <1>4, <2>1, NextIdFree DEF Held
  <2>3. Becomes(k, p, Robbed(c, pspec[c])) /\ label' = Labelled(k, pspec[c])
    BY <1>1, <1>4, <2>1
  <2>4. QED
    BY <1>2, <2>2, <2>3, TakenKept
<1>5. QED
  BY <1>2, <1>3, <1>4

LEMMA AddKernelKept ==
  ASSUME PoolInv, NEW c \in Admins, AddKernel(c)
  PROVE  \A i \in Ids : Kept(i)
<1>1. PICK done \in BOOLEAN :
        IF done THEN \E k \in Named(preq[c].name) : \E p :
                       Becomes(k, p, Robbed(c, pspec[c])) /\ label' = Labelled(k, pspec[c])
        ELSE UNCHANGED Disks
  BY DEF AddKernel, Kernel
<1>2. ppc[c] = "addKernel"
  BY DEF AddKernel
<1>3. CASE ~done
  BY <1>1, <1>3, SameKept
<1>4. CASE done
  <2>1. PICK k \in Named(preq[c].name) :
          \E p : Becomes(k, p, Robbed(c, pspec[c])) /\ label' = Labelled(k, pspec[c])
    BY <1>1, <1>4
  <2>2. k \in Ids /\ ~Held(k)
    BY DEF Named, Is, Held
  <2>3. QED
    BY <1>2, <2>1, <2>2, TakenKept
<1>5. QED
  BY <1>3, <1>4

LEMMA AttachKernelKept ==
  ASSUME PoolInv, NEW c \in Admins, AttachKernel(c)
  PROVE  \A i \in Ids : Kept(i)
<1> DEFINE dev == preq[c].dev
<1>1. \/ UNCHANGED Disks
      \/ \E k \in Named(preq[c].name) : \E t \in PlaceIn(pool[k].tops, dev) : \E p, x :
           Becomes(k, p, Robbed(c, pspec[c])) /\ label' = [Labelled(k, pspec[c]) EXCEPT ![dev] = x]
  BY ZenonT(40) DEF AttachKernel
<1>2. ppc[c] = "attachKernel" /\ DisksTyped /\ DisksInv
  BY DEF AttachKernel, PoolInv
<1>3. CASE UNCHANGED Disks
  BY <1>3, SameKept
<1>4. CASE ~UNCHANGED Disks
  <2>1. PICK k \in Named(preq[c].name) : \E t \in PlaceIn(pool[k].tops, dev) : \E p, x :
           Becomes(k, p, Robbed(c, pspec[c])) /\ label' = [Labelled(k, pspec[c]) EXCEPT ![dev] = x]
    BY <1>1, <1>4
  <2>2. PICK t \in PlaceIn(pool[k].tops, dev) : \E p, x :
           Becomes(k, p, Robbed(c, pspec[c])) /\ label' = [Labelled(k, pspec[c]) EXCEPT ![dev] = x]
    BY <2>1
  <2>3. k \in Ids /\ Is(k, "imported") /\ ~Held(k)
    BY DEF Named, Is, Held
  <2>4. label[dev] = k
    BY <2>3 DEF PlaceIn, TopDevs, PoolInv, DisksInv, Intact
  <2>5. \A d \in Devices : label'[d] = Labelled(k, pspec[c])[d] \/ label[d] = k
    BY <2>2, <2>4 DEF Labelled
  <2>6. QED
    BY <1>2, <2>2, <2>3, <2>5, TakenKept
<1>5. QED
  BY <1>3, <1>4, Zenon

LEMMA DetachKept ==
  ASSUME PoolInv, NEW c \in Admins, Detach(c)
  PROVE  \A i \in Ids : Kept(i)
<1> DEFINE dev == preq[c].dev
<1>1. \/ UNCHANGED Disks
      \/ \E k \in Named(preq[c].name) : \E t \in PlaceIn(pool[k].tops, dev) : \E p :
           Becomes(k, p, {}) /\ label' = [label EXCEPT ![dev] = Nil]
  BY DEF Detach
<1>2. CASE UNCHANGED Disks
  BY <1>2, SameKept
<1>3. CASE ~UNCHANGED Disks
  <2>1. PICK k \in Named(preq[c].name) : \E t \in PlaceIn(pool[k].tops, dev) : \E p :
           Becomes(k, p, {}) /\ label' = [label EXCEPT ![dev] = Nil]
    BY <1>1, <1>3
  <2>2. PICK t \in PlaceIn(pool[k].tops, dev) : \E p :
           Becomes(k, p, {}) /\ label' = [label EXCEPT ![dev] = Nil]
    BY <2>1
  <2>3. k \in Ids /\ Is(k, "imported")
    BY DEF Named
  <2>4. label[dev] = k
    BY <2>3 DEF PlaceIn, TopDevs, PoolInv, DisksInv, Intact
  <2>5. \A d \in Devices : label'[d] = label[d] \/ label[d] = k
    BY <2>2, <2>4 DEF PoolInv, DisksTyped
  <2>6. QED
    BY <2>2, <2>3, <2>5, OwnKept DEF PoolInv
<1>4. QED
  BY <1>2, <1>3

LEMMA RemoveDeviceKept ==
  ASSUME PoolInv, NEW c \in Admins, RemoveDevice(c)
  PROVE  \A i \in Ids : Kept(i)
<1> DEFINE dev == preq[c].devs[1]
<1>1. \/ UNCHANGED Disks
      \/ \E k \in Named(preq[c].name) : \E p : Becomes(k, p, {}) /\ UNCHANGED label
      \/ \E k \in Named(preq[c].name) : \E t \in PlaceIn(pool[k].tops, dev) : \E p :
           Becomes(k, p, {}) /\ label' = [label EXCEPT ![dev] = Nil]
  BY DEF RemoveDevice
<1>2. CASE UNCHANGED Disks
  BY <1>2, SameKept
<1>3. CASE \E k \in Named(preq[c].name) : \E p : Becomes(k, p, {}) /\ UNCHANGED label
  <2>1. PICK k \in Named(preq[c].name) : \E p : Becomes(k, p, {}) /\ UNCHANGED label
    BY <1>3
  <2>2. k \in Ids /\ Is(k, "imported") /\ \A d \in Devices : label'[d] = label[d] \/ label[d] = k
    BY <2>1 DEF Named
  <2>3. QED
    BY <2>1, <2>2, OwnKept DEF PoolInv
<1>4. CASE \E k \in Named(preq[c].name) : \E t \in PlaceIn(pool[k].tops, dev) : \E p :
           Becomes(k, p, {}) /\ label' = [label EXCEPT ![dev] = Nil]
  <2>1. PICK k \in Named(preq[c].name) : \E t \in PlaceIn(pool[k].tops, dev) : \E p :
           Becomes(k, p, {}) /\ label' = [label EXCEPT ![dev] = Nil]
    BY <1>4
  <2>2. PICK t \in PlaceIn(pool[k].tops, dev) : \E p :
           Becomes(k, p, {}) /\ label' = [label EXCEPT ![dev] = Nil]
    BY <2>1
  <2>3. k \in Ids /\ Is(k, "imported")
    BY DEF Named
  <2>4. label[dev] = k
    BY <2>3 DEF PlaceIn, TopDevs, PoolInv, DisksInv, Intact
  <2>5. \A d \in Devices : label'[d] = label[d] \/ label[d] = k
    BY <2>2, <2>4 DEF PoolInv, DisksTyped
  <2>6. QED
    BY <2>2, <2>3, <2>5, OwnKept DEF PoolInv
<1>5. QED
  BY <1>1, <1>2, <1>3, <1>4

LEMMA SplitKept ==
  ASSUME PoolInv, NEW c \in Admins, Split(c)
  PROVE  \A i \in Ids : Kept(i)
<1> DEFINE r == preq[c]
           from == {i \in Named(r.name) :
                      \A t \in DataVdevs(pool[i].tops) : pool[i].tops[t].type = "mirror"}
           can == from # {} /\ Named(r.to) = {} /\ Unused # {}
           fresh(i) == [name |-> r.to, state |-> IF r.flag THEN "imported" ELSE "exported",
                        tops |-> SplitOff(pool[i].tops), spares |-> {}, caches |-> {},
                        even |-> FALSE, taken |-> FALSE]
<1>1. PICK done \in Kernel(can) :
        IF done
        THEN \E i \in from :
               /\ pool' = [pool EXCEPT ![NextId] = fresh(i),
                                       ![i] = [pool[i] EXCEPT !.tops = SplitFrom(@), !.even = FALSE]]
               /\ label' = [d \in Devices |->
                    IF d \in TopDevs(fresh(i).tops) THEN NextId ELSE label[d]]
        ELSE UNCHANGED Disks
  BY DEF Split
<1>2. done \in BOOLEAN /\ (done => can)
  <2>1. can \in BOOLEAN
    OBVIOUS
  <2> HIDE DEF can
  <2>2. QED
    BY <2>1, KernelSays
<1>3. CASE ~done
  BY <1>1, <1>3, SameKept
<1>4. CASE done
  <2>1. PICK k \in from :
               /\ pool' = [pool EXCEPT ![NextId] = fresh(k),
                                       ![k] = [pool[k] EXCEPT !.tops = SplitFrom(@), !.even = FALSE]]
               /\ label' = [d \in Devices |->
                    IF d \in TopDevs(fresh(k).tops) THEN NextId ELSE label[d]]
    BY <1>1, <1>4
  <2>2. PICK n : n = NextId
    OBVIOUS
  <2>3. n \in Ids /\ pool[n] = Nil
    BY <1>2, <1>4, <2>2, NextIdFree
  <2>4. k \in Ids /\ Is(k, "imported") /\ \A t \in DataVdevs(pool[k].tops) : pool[k].tops[t].type = "mirror"
    BY DEF Named
  <2>5. TopDevs(SplitOff(pool[k].tops)) \subseteq TopDevs(pool[k].tops)
    <3>1. PICK q : q = pool[k]
      OBVIOUS
    <3>2. q.tops \in Seq(Vdevs) /\ WholeTops(q.tops) /\ Distinct(q.tops)
      BY <2>4, <3>1, PoolTops DEF PoolInv, DisksInv, There, Is, SoundPool, WholeTops
    <3>3. QED
      BY <2>4, <3>1, <3>2, SplitFacts
  <2> SUFFICES ASSUME NEW i \in Ids, Held(i) PROVE Kept(i)
    BY DEF Kept
  <2>6. i # n /\ i # k
    BY <2>3, <2>4 DEF Held, Is
  <2>7. pool'[i] = pool[i]
    BY <2>1, <2>2, <2>6 DEF PoolInv, DisksTyped
  <2>8. ASSUME NEW d \in TopDevs(pool[i].tops), label[d] = i PROVE label'[d] = i
    <3>1. d \in Devices
      BY PoolTops DEF Held, PoolInv
    <3>2. d \notin TopDevs(SplitOff(pool[k].tops))
      BY <2>4, <2>5, <2>6, <2>8 DEF PoolInv, DisksInv, Intact
    <3>3. label'[d] = IF d \in TopDevs(SplitOff(pool[k].tops)) THEN n ELSE label[d]
      BY <2>1, <2>2, <3>1
    <3>4. QED
      BY <2>8, <3>2, <3>3
  <2>9. QED
    BY <2>7, <2>8 DEF Kept
<1>5. QED
  BY <1>2, <1>3, <1>4

LEMMA GiveKept ==
  ASSUME PoolInv, NEW c \in Admins, NEW op, NEW state, Give(c, op, state)
  PROVE  \A i \in Ids : Kept(i)
<1>1. \/ UNCHANGED Disks
      \/ \E k \in Named(preq[c].name) : \E p : Becomes(k, p, {}) /\ UNCHANGED label
  BY DEF Give, Disks
<1>2. CASE UNCHANGED Disks
  BY <1>2, SameKept
<1>3. CASE \E k \in Named(preq[c].name) : \E p : Becomes(k, p, {}) /\ UNCHANGED label
  <2>1. PICK k \in Named(preq[c].name) : \E p : Becomes(k, p, {}) /\ UNCHANGED label
    BY <1>3
  <2>2. k \in Ids /\ Is(k, "imported") /\ \A d \in Devices : label'[d] = label[d] \/ label[d] = k
    BY <2>1 DEF Named
  <2>3. QED
    BY <2>1, <2>2, OwnKept DEF PoolInv
<1>4. QED
  BY <1>1, <1>2, <1>3

LEMMA DoImportKept ==
  ASSUME PoolInv, NEW c \in Admins, DoImport(c)
  PROVE  \A i \in Ids : Kept(i)
<1> DEFINE r == preq[c]
           name(i) == IF r.to = Nil THEN pool[i].name ELSE r.to
           can(i) == /\ i \in Found /\ MayImport(i, r.force)
                     /\ Named(name(i)) = {} /\ Uninvaded(i)
           new(i) == [pool[i] EXCEPT !.state = "imported", !.name = name(i),
                                     !.taken = @ \/ (pool[i].state = "foreign" /\ r.force)]
<1>1. \/ UNCHANGED Disks
      \/ \E k \in r.left : \E done \in Kernel(can(k)) :
           /\ IF done THEN Becomes(k, new(k), {}) ELSE UNCHANGED pool
           /\ UNCHANGED label
  BY DEF DoImport
<1>2. CASE UNCHANGED Disks
  BY <1>2, SameKept
<1>3. CASE \E k \in r.left : \E done \in Kernel(can(k)) :
             /\ IF done THEN Becomes(k, new(k), {}) ELSE UNCHANGED pool
             /\ UNCHANGED label
  <2>1. PICK k \in r.left : \E done \in Kernel(can(k)) :
             /\ IF done THEN Becomes(k, new(k), {}) ELSE UNCHANGED pool
             /\ UNCHANGED label
    BY <1>3
  <2>2. PICK done \in Kernel(can(k)) :
             /\ IF done THEN Becomes(k, new(k), {}) ELSE UNCHANGED pool
             /\ UNCHANGED label
    BY <2>1
  <2>3. done \in BOOLEAN /\ (done => can(k))
    <3>1. can(k) \in BOOLEAN
      OBVIOUS
    <3> HIDE DEF can
    <3>2. QED
      BY <3>1, KernelSays
  <2>4. CASE ~done
    BY <2>2, <2>4, SameKept DEF Disks
  <2>5. CASE done
    <3>1. PICK q, taken : /\ q = pool[k] /\ taken = (q.taken \/ (q.state = "foreign" /\ r.force))
      OBVIOUS
    <3>2. k \in Ids /\ q \in Pools /\ (q.state # "foreign" \/ r.force)
      BY <2>3, <2>5, <3>1 DEF Found, MayImport, PoolInv, DisksTyped
    <3>3. pool'[k] = [q EXCEPT !.state = "imported", !.name = name(k), !.taken = taken]
      BY <2>2, <2>5, <3>1, <3>2 DEF Becomes
    <3>4. pool'[k].taken = taken
      BY <3>2, <3>3 DEF Pools
    <3>5. q.state = "foreign" => pool'[k].taken
      BY <3>1, <3>2, <3>4
    <3>6. \A i \in Ids \ {k} : pool'[i] = pool[i]
      BY <2>2, <2>5 DEF Becomes
    <3>7. label' = label
      BY <2>2
    <3>8. QED
      BY <3>1, <3>5, <3>6, <3>7 DEF Kept
  <2>6. QED
    BY <2>3, <2>4, <2>5
<1>4. QED
  BY <1>1, <1>2, <1>3

LEMMA ClearKept ==
  ASSUME PoolInv, NEW c \in Admins, Clear(c)
  PROVE  \A i \in Ids : Kept(i)
<1> DEFINE r == preq[c]
           free == label[r.dev] # Nil /\ LabelState(r.dev) \notin {"active", "spare", "cache"}
<1>1. ppc[c] = "clear" /\ DisksTyped /\ DisksInv /\ ApartInv(c) /\ r.dev \in Devices
  BY DEF Clear, PoolInv, Calls, CallInv
<1>2. CASE ~free
  BY <1>2, SameKept DEF Clear
<1>3. CASE free
  <2>1. PICK k, dev, q, taken :
          /\ dev = r.dev /\ k = label[dev] /\ q = pool[k]
          /\ taken = (q.taken \/ r.force \/ ~papart[c])
    OBVIOUS
  <2>2. label' = [label EXCEPT ![dev] = Nil] /\ Becomes(k, [q EXCEPT !.taken = taken], {})
    BY <1>3, <2>1 DEF Clear
  <2>3. dev \in Devices /\ k \in Ids /\ q \in Pools
    BY <1>1, <1>3, <2>1 DEF DisksInv, DisksTyped, There
  <2>4. pool'[k] = [q EXCEPT !.taken = taken] /\ \A i \in Ids \ {k} : pool'[i] = pool[i]
    BY <2>2, <2>3 DEF Becomes
  <2>5. pool'[k].taken = taken /\ pool'[k].state = q.state
    BY <2>3, <2>4 DEF Pools
  <2>6. \A d \in Devices : d # dev => label'[d] = label[d]
    BY <1>1, <2>2 DEF DisksTyped
  <2>7. ASSUME NEW i \in Ids \ {k} PROVE Kept(i)
    <3>1. ASSUME Held(i), NEW d \in TopDevs(pool[i].tops), label[d] = i PROVE label'[d] = i
      <4>1. d \in Devices /\ d # dev
        BY <1>1, <2>1, <2>7, <3>1, PoolTops DEF Held
      <4>2. QED
        BY <2>6, <3>1, <4>1
    <3>2. QED
      BY <2>4, <3>1 DEF Kept
  <2>8. ASSUME Held(k), ~pool'[k].taken, NEW d \in TopDevs(pool[k].tops), label[d] = k
        PROVE  label'[d] = k
    <3>1. d \in Devices
      BY <1>1, <2>3, <2>8, PoolTops DEF Held
    <3>2. ~r.force /\ papart[c]
      BY <2>1, <2>5, <2>8
    <3>3. LabelState(dev) = "none"
      BY <1>1, <2>1, <3>2 DEF ApartInv, Seen
    <3>4. LabelState(d) # "none"
      BY <2>3, <2>8, HeldState
    <3>5. QED
      BY <2>6, <2>8, <3>1, <3>3, <3>4
  <2>9. Kept(k)
    BY <2>1, <2>5, <2>8 DEF Kept
  <2>10. QED
    BY <2>3, <2>7, <2>9
<1>4. QED
  BY <1>2, <1>3

(* TakenByForceOnly: what check_file, zpool_labelclear and do_import are    *)
(* for.  A pool that is exported or in use elsewhere loses no label, and is *)
(* not imported from another host, but by a call that says force or that    *)
(* another overlaps between its look at the labels and the request.         *)
THEOREM TakenByForceOnlyTheorem == PoolSpec => TakenByForceOnly
<1> DEFINE allKept == \A i \in Ids : Kept(i)
<1>1. PoolInv /\ [PoolNext]_poolVars => allKept
  <2> SUFFICES ASSUME PoolInv, [PoolNext]_poolVars PROVE \A i \in Ids : Kept(i)
    OBVIOUS
  <2>1. CASE UNCHANGED poolVars
    BY <2>1, SameKept DEF poolVars, Disks
  <2>2. CASE PoolNext
    <3>1. PICK c \in Admins :
            \/ CallPool(c) \/ LeavePool(c)
            \/ CreatePool(c) \/ CreateKernel(c) \/ AddToPool(c) \/ AddKernel(c)
            \/ AttachCheck(c) \/ AttachKernel(c) \/ Detach(c) \/ RemoveDevice(c) \/ Split(c)
            \/ DestroyPool(c) \/ Export(c) \/ SearchImport(c) \/ DoImport(c) \/ ClearCheck(c) \/ Clear(c)
      BY <2>2 DEF PoolNext
    <3>2. CASE CallPool(c)
      BY <3>2, SameKept DEF CallPool
    <3>3. CASE LeavePool(c)
      BY <3>3, SameKept DEF LeavePool
    <3>4. CASE CreatePool(c)
      BY <3>4, SameKept DEF CreatePool
    <3>5. CASE CreateKernel(c)
      BY <3>5, CreateKernelKept
    <3>6. CASE AddToPool(c)
      BY <3>6, SameKept DEF AddToPool
    <3>7. CASE AddKernel(c)
      BY <3>7, AddKernelKept
    <3>8. CASE AttachCheck(c)
      BY <3>8, SameKept DEF AttachCheck
    <3>9. CASE AttachKernel(c)
      BY <3>9, AttachKernelKept
    <3>10. CASE Detach(c)
      BY <3>10, DetachKept
    <3>11. CASE RemoveDevice(c)
      BY <3>11, RemoveDeviceKept
    <3>12. CASE Split(c)
      BY <3>12, SplitKept
    <3>13. CASE DestroyPool(c) \/ Export(c)
      BY <3>13, GiveKept DEF DestroyPool, Export
    <3>14. CASE SearchImport(c)
      BY <3>14, SameKept DEF SearchImport
    <3>15. CASE DoImport(c)
      BY <3>15, DoImportKept
    <3>16. CASE ClearCheck(c)
      BY <3>16, SameKept DEF ClearCheck
    <3>17. CASE Clear(c)
      BY <3>17, ClearKept
    <3>18. QED
      BY <3>1, <3>2, <3>3, <3>4, <3>5, <3>6, <3>7, <3>8, <3>9, <3>10, <3>11, <3>12, <3>13,
         <3>14, <3>15, <3>16, <3>17
  <2>3. QED
    BY <2>1, <2>2
<1>2. allKept =>
        \A i \in Ids : pool[i] # Nil /\ pool[i].state \in {"exported", "foreign"} /\ ~pool'[i].taken =>
          /\ \A d \in TopDevs(pool[i].tops) : label[d] = i => label'[d] = i
          /\ pool[i].state = "foreign" => pool'[i].state = "foreign"
  BY DEF Kept, Held
<1> HIDE DEF allKept
<1>3. QED
  BY <1>1, <1>2, PoolInvariant, PTL DEF PoolSpec, TakenByForceOnly
=============================================================================
