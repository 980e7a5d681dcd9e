------------------------------ MODULE ZfsPool ------------------------------
(***************************************************************************)
(* Pools and their devices, php-zfs/zfs.c.  A device carries the label of  *)
(* the last pool that was built on it.  The functions look at labels first *)
(* (is_device_in_use, zpool_in_use) and ask the kernel afterwards: between *)
(* the two another process may build, export or import a pool.  The        *)
(* kernel's part is external.                                              *)
(***************************************************************************)
EXTENDS VdevSpec

CONSTANTS
  PoolNames,
  Ids,           \* identities of pools
  PoolStarts,    \* what is there before the first call: [pool, label]
  PoolRequests,  \* the calls that are made, see NoPoolRequest
  Admins,        \* processes that call
  PoolCalls,     \* bound on calls
  PoolRefuses    \* whether the kernel may refuse for reasons of its own

\* imported here; exported; in use by another host; destroyed
PoolStates == {"imported", "exported", "foreign", "destroyed"}
Pools == [name : PoolNames, state : PoolStates, tops : Seq(Vdevs),
          spares : SUBSET Devices, caches : SUBSET Devices,
          even : BOOLEAN, taken : BOOLEAN]
Groups == [type : STRING, children : Seq(Devices), is_log : BOOLEAN]
PoolOps == {"create", "add", "attach", "replace", "detach", "remove", "split",
            "destroyPool", "export", "import", "labelclear"}
PoolArguments ==
  [op : PoolOps \cup {"none"}, name : PoolNames \cup {Nil}, to : PoolNames \cup {Nil},
   devs : Seq(Groups) \cup Seq(Devices), dev : Devices \cup {Nil}, new : Devices \cup {Nil},
   force : BOOLEAN, flag : BOOLEAN, left : SUBSET Ids]

ASSUME PoolAssumption ==
  /\ Nil \notin PoolNames /\ Nil \notin Ids /\ Nil \notin Pools
  /\ Nil \notin Specs /\ Nil \notin Seq(Vdevs)
  /\ Ids \subseteq Nat
  /\ PoolCalls \in Nat /\ PoolRefuses \in BOOLEAN
  /\ PoolRequests \subseteq PoolArguments
  /\ \A r \in PoolRequests :
       /\ r.op \in PoolOps
       /\ r.op \in {"create", "add"} => r.devs \in Seq(Groups)
       /\ r.op = "remove" => r.devs \in Seq(Devices) \ {<<>>}
       /\ r.op \in {"attach", "replace", "detach", "labelclear"} => r.dev \in Devices
       /\ r.op \in {"attach", "replace"} => r.new \in Devices
       /\ r.op \notin {"import", "labelclear"} => r.name \in PoolNames
       /\ r.op = "split" => r.to \in PoolNames

\* a pool has data, a place for each device, and those its check let in if it is even
SoundPool(p) ==
  /\ DataVdevs(p.tops) # {} /\ Distinct(p.tops)
  /\ \A t \in DOMAIN p.tops : WholeVdev(p.tops[t])
  /\ p.even => Replication(p.tops) # Nil

\* an imported pool has the labels of its devices, and its name to itself
ASSUME StartAssumption ==
  \A s \in PoolStarts :
    LET there == {i \in Ids : s.pool[i] # Nil}
        here == {i \in there : s.pool[i].state = "imported"}
    IN /\ s.pool \in [Ids -> Pools \cup {Nil}] /\ s.label \in [Devices -> there \cup {Nil}]
       /\ \A i \in there : SoundPool(s.pool[i])
       /\ \A i \in here : \A d \in TopDevs(s.pool[i].tops) : s.label[d] = i
       /\ \A i, j \in here : s.pool[i].name = s.pool[j].name => i = j

VARIABLES
  pool,       \* by identity: name, state, tops, spares, caches, and two parts of
              \* history: devices were given only under check_replication (even);
              \* a call overwrote a label of it with force or in a race (taken)
  label,      \* by device, the pool whose label it carries
  ppc, preq, pspec, papart,  \* calls: where, arguments, the vdevs to add, undisturbed
  pok,        \* the result of a call that is about to return
  pcalls

poolVars == <<pool, label, ppc, preq, pspec, papart, pok, pcalls>>

Is(i, state) == pool[i] # Nil /\ pool[i].state = state
Named(n) == {i \in Ids : Is(i, "imported") /\ pool[i].name = n}
Intact(i) == \A d \in TopDevs(pool[i].tops) : label[d] = i

\* zpool_in_use: a spare or cache device counts while a pool that has it is imported
LabelState(d) ==
  LET i == label[d]
      here == {j \in Ids : Is(j, "imported")}
  IN
  IF i = Nil \/ pool[i] = Nil THEN "none"
  ELSE IF d \in TopDevs(pool[i].tops)
  THEN CASE pool[i].state = "imported" -> "active"
         [] pool[i].state = "destroyed" -> "none"
         [] OTHER -> pool[i].state
  ELSE IF \E j \in here : d \in pool[j].spares THEN "spare"
  ELSE IF \E j \in here : d \in pool[j].caches THEN "cache" ELSE "none"

\* Mutant: what is exported or in use elsewhere is free without force.
CheckFileAlways(d, force, isspare) ==
  \/ LabelState(d) \notin {"active", "spare"}
  \/ LabelState(d) = "spare" /\ isspare

\* check_file
CheckFile(d, force, isspare) ==
  \/ LabelState(d) = "none"
  \/ LabelState(d) = "spare" /\ isspare
  \/ LabelState(d) \notin {"active", "spare"} /\ force

\* is_device_in_use.  For a replacement is_spare looks a spare up in a pool it is
\* not given and reads a pointer nobody wrote: any answer may come of it.
FreeDevices(spec, force, lucky) ==
  /\ \A d \in TopDevs(spec.tops) \cup spec.caches :
       CheckFile(d, force, FALSE) \/ (lucky /\ LabelState(d) = "spare")
  /\ \A d \in spec.spares : CheckFile(d, force, TRUE)

\* make_root_vdev
MakeRootVdev(current, groups, force, checked, lucky) ==
  LET spec == ConstructSpec(groups) IN
  IF spec # Nil /\ FreeDevices(spec, force, lucky)
       /\ (checked => CheckReplication(current, spec.tops))
  THEN spec ELSE Nil

-----------------------------------------------------------------------------

\* devs: an array of groups; dev, new: devices; to: the new name of a pool; flag:
\* whether $params has a root (split) or asks for destroyed pools (import); left:
\* of an import, the pools that were found and not tried yet
NoPoolRequest == [op |-> "none", name |-> Nil, to |-> Nil, devs |-> <<>>,
                  dev |-> Nil, new |-> Nil, force |-> FALSE, flag |-> FALSE, left |-> {}]
NoSpec == [tops |-> <<>>, spares |-> {}, caches |-> {}]

PoolInit ==
  /\ \E s \in PoolStarts : pool = s.pool /\ label = s.label
  /\ ppc = [c \in Admins |-> "idle"]
  /\ preq = [c \in Admins |-> NoPoolRequest]
  /\ pspec = [c \in Admins |-> NoSpec]
  /\ papart = [c \in Admins |-> TRUE]
  /\ pok = [c \in Admins |-> FALSE]
  /\ pcalls = 0

Step(c, where) == ppc' = [ppc EXCEPT ![c] = where] /\ UNCHANGED <<preq, papart, pcalls>>
Result(c, ok) == Step(c, "return") /\ pok' = [pok EXCEPT ![c] = ok] /\ UNCHANGED pspec
Gather(c, spec, where) ==
  IF spec = Nil THEN Result(c, FALSE)
  ELSE Step(c, where) /\ pspec' = [pspec EXCEPT ![c] = spec] /\ UNCHANGED pok
Kernel(can) == IF can /\ PoolRefuses THEN BOOLEAN ELSE {can}
Disks == <<pool, label>>

CallPool(c) ==
  /\ ppc[c] = "idle" /\ pcalls < PoolCalls
  /\ \E r \in PoolRequests :
       /\ preq' = [preq EXCEPT ![c] = r]
       /\ ppc' = [ppc EXCEPT ![c] = r.op]
  /\ papart' = [d \in Admins |->
       IF d = c THEN \A e \in Admins \ {c} : ppc[e] = "idle"
       ELSE papart[d] /\ ppc[d] = "idle"]
  /\ pcalls' = pcalls + 1
  /\ UNCHANGED <<Disks, pspec, pok>>

LeavePool(c) ==
  /\ ppc[c] = "return"
  /\ ppc' = [ppc EXCEPT ![c] = "idle"]
  /\ preq' = [preq EXCEPT ![c] = NoPoolRequest]
  /\ pspec' = [pspec EXCEPT ![c] = NoSpec]
  /\ papart' = [papart EXCEPT ![c] = TRUE]
  /\ pok' = [pok EXCEPT ![c] = FALSE]
  /\ UNCHANGED <<Disks, pcalls>>

-----------------------------------------------------------------------------
(* The kernel.                                                             *)

SpecDevs(spec) == TopDevs(spec.tops) \cup spec.spares \cup spec.caches
\* a device is opened for one pool; spares are shared
KernelFree(spec) ==
  /\ \A d \in SpecDevs(spec) :
       \/ LabelState(d) \notin {"active", "spare", "cache"}
       \/ LabelState(d) = "spare" /\ d \in spec.spares
  /\ Distinct(spec.tops)
  /\ \A i \in DOMAIN spec.tops : spec.tops[i].type # "log"
  /\ TopDevs(spec.tops) \cap (spec.spares \cup spec.caches) = {}
  /\ spec.spares \cap spec.caches = {}

\* the labels of spec go to pool i, and which pools that are not imported lose by it
Labelled(i, spec) ==
  [d \in Devices |-> IF d \in SpecDevs(spec) /\ LabelState(d) # "spare" THEN i ELSE label[d]]
Robbed(c, spec) ==
  IF preq[c].force \/ ~papart[c]
  THEN {j \in Ids : pool[j] # Nil /\ \E d \in SpecDevs(spec) : label[d] = j /\ d \in TopDevs(pool[j].tops)}
  ELSE {}
\* pool i becomes p, the pools of J are marked as taken
Becomes(i, p, J) ==
  pool' = [j \in Ids |-> IF j = i THEN p
                         ELSE IF j \in J THEN [pool[j] EXCEPT !.taken = TRUE] ELSE pool[j]]

Unused == {i \in Ids : pool[i] = Nil}
NextId == CHOOSE i \in Unused : \A j \in Unused : i <= j

-----------------------------------------------------------------------------
(* zpool_create, zpool_add.                                                *)

\* Mutant: a pool may have no device for data.
CreatePoolOfLogs(c) ==
  /\ ppc[c] = "create"
  /\ Gather(c, MakeRootVdev(Nil, preq[c].devs, preq[c].force, ~preq[c].force, FALSE), "createKernel")
  /\ UNCHANGED Disks

\* not of logs, spares and cache devices alone
CreatePool(c) ==
  /\ ppc[c] = "create"
  /\ LET spec == MakeRootVdev(Nil, preq[c].devs, preq[c].force, ~preq[c].force, FALSE)
     IN Gather(c, IF spec # Nil /\ DataVdevs(spec.tops) = {} THEN Nil ELSE spec, "createKernel")
  /\ UNCHANGED Disks

\* the pool stays when its root cannot be mounted or shared
CreateKernel(c) ==
  LET r == preq[c]
      can == Named(r.name) = {} /\ KernelFree(pspec[c]) /\ Unused # {}
  IN
  /\ ppc[c] = "createKernel"
  /\ \E done \in Kernel(can), mounted \in Kernel(TRUE) :
       /\ IF done
          THEN /\ Becomes(NextId, [name |-> r.name, state |-> "imported", tops |-> pspec[c].tops,
                                   spares |-> pspec[c].spares, caches |-> pspec[c].caches,
                                   even |-> ~r.force, taken |-> FALSE],
                          Robbed(c, pspec[c]))
               /\ label' = Labelled(NextId, pspec[c])
          ELSE UNCHANGED Disks
       /\ Result(c, done /\ mounted)

AddToPool(c) ==
  LET r == preq[c] IN
  /\ ppc[c] = "add"
  /\ IF Named(r.name) = {} THEN Result(c, FALSE)
     ELSE \E i \in Named(r.name) :
            Gather(c, MakeRootVdev(pool[i].tops, r.devs, r.force, ~r.force, FALSE), "addKernel")
  /\ UNCHANGED Disks

AddKernel(c) ==
  LET r == preq[c]
      spec == pspec[c]
      can == Named(r.name) # {} /\ KernelFree(spec)
  IN
  /\ ppc[c] = "addKernel"
  /\ \E done \in Kernel(can) :
       /\ IF done
          THEN \E i \in Named(r.name) :
                 /\ Becomes(i, [pool[i] EXCEPT !.tops = @ \o spec.tops, !.spares = @ \cup spec.spares,
                                               !.caches = @ \cup spec.caches,
                                               !.even = @ /\ ~r.force /\ papart[c]],
                            Robbed(c, spec))
                 /\ label' = Labelled(i, spec)
          ELSE UNCHANGED Disks
       /\ Result(c, done)

-----------------------------------------------------------------------------
(* zpool_attach, zpool_replace, zpool_detach, zpool_remove, zpool_split.   *)

Stripe(d) == <<[type |-> "stripe", children |-> <<d>>, is_log |-> FALSE]>>

AttachCheck(c) ==
  LET r == preq[c] IN
  /\ ppc[c] \in {"attach", "replace"}
  /\ IF Named(r.name) = {} THEN Result(c, FALSE)
     ELSE \E lucky \in IF r.op = "replace" THEN BOOLEAN ELSE {FALSE} :
            Gather(c, MakeRootVdev(Nil, Stripe(r.new), r.force, FALSE, lucky), "attachKernel")
  /\ UNCHANGED Disks

PlaceIn(tops, d) == {i \in DOMAIN tops : d \in DevsIn(tops[i].devs)}
Swap(seq, d, e) == [i \in DOMAIN seq |-> IF seq[i] = d THEN e ELSE seq[i]]
Attached(top, new) ==
  [top EXCEPT !.type = "mirror", !.devs = Append(@, new)]
Replaced(top, dev, new) ==
  [top EXCEPT !.devs = Swap(@, dev, new),
              !.type = IF @ \in {"disk", "file"} THEN Kind[new] ELSE @]

\* the result of zpool_vdev_attach is not looked at: true whatever happened
AttachKernel(c) ==
  LET r == preq[c] IN
  /\ ppc[c] = "attachKernel"
  /\ \/ UNCHANGED Disks
     \/ \E i \in Named(r.name) : \E t \in PlaceIn(pool[i].tops, r.dev) :
          LET top == pool[i].tops[t] IN
          /\ KernelFree(pspec[c])
          /\ r.op = "attach" => top.type # "raidz"
          /\ Becomes(i, [pool[i] EXCEPT
                           !.tops[t] = IF r.op = "attach" THEN Attached(@, r.new)
                                       ELSE Replaced(@, r.dev, r.new),
                           !.even = FALSE],
                     Robbed(c, pspec[c]))
          /\ label' = [Labelled(i, pspec[c]) EXCEPT ![r.dev] = IF r.op = "attach" THEN @ ELSE Nil]
  /\ Result(c, TRUE)

\* the device in place k goes; a mirror of one is none
Detached(top, k) ==
  LET left == [j \in 1 .. Len(top.devs) - 1 |-> top.devs[IF j < k THEN j ELSE j + 1]]
  IN [top EXCEPT !.devs = left, !.type = IF Len(left) = 1 THEN Kind[left[1]] ELSE @]

Detach(c) ==
  LET r == preq[c]
      mirrors(i) == {t \in PlaceIn(pool[i].tops, r.dev) : pool[i].tops[t].type = "mirror"}
      here == {i \in Named(r.name) : mirrors(i) # {}}
  IN
  /\ ppc[c] = "detach"
  /\ \E done \in Kernel(here # {}) :
       /\ IF done
          THEN \E i \in here : \E t \in mirrors(i) : \E k \in DOMAIN pool[i].tops[t].devs :
                 /\ pool[i].tops[t].devs[k] = r.dev
                 /\ Becomes(i, [pool[i] EXCEPT !.tops[t] = Detached(@, k), !.even = FALSE], {})
                 /\ label' = [label EXCEPT ![r.dev] = Nil]
          ELSE UNCHANGED Disks
       /\ Result(c, done)

\* what a log leaves when it is removed
Hole == [type |-> "hole", parity |-> 0, log |-> TRUE, devs |-> <<>>]

\* zpool_remove takes an array and goes on after a device that is refused; what
\* is left of the array is kept in the request.  A spare or cache device goes before
\* a log, and keeps its label, which counts no longer.
RemoveDevice(c) ==
  LET r == preq[c]
      d == r.devs[1]
      aux(i) == pool[i].spares \cup pool[i].caches
      logs(i) == {t \in PlaceIn(pool[i].tops, d) : pool[i].tops[t].log /\ Len(pool[i].tops[t].devs) = 1}
      here == {i \in Named(r.name) : d \in aux(i) \/ logs(i) # {}}
  IN
  /\ ppc[c] \in {"remove", "removeMore"}
  /\ IF Named(r.name) = {} /\ ppc[c] = "remove" THEN Result(c, FALSE) /\ UNCHANGED Disks
     ELSE \E done \in Kernel(here # {}) :
       LET ok == done /\ (ppc[c] = "remove" \/ pok[c]) IN
       /\ IF ~done THEN UNCHANGED Disks
          ELSE \E i \in here :
            \/ /\ d \in aux(i)
               /\ Becomes(i, [pool[i] EXCEPT !.spares = @ \ {d}, !.caches = @ \ {d}], {})
               /\ UNCHANGED label
            \/ /\ d \notin aux(i)
               /\ \E t \in logs(i) : Becomes(i, [pool[i] EXCEPT !.tops[t] = Hole], {})
               /\ label' = [label EXCEPT ![d] = Nil]
       /\ IF Len(r.devs) = 1 THEN Result(c, ok)
          ELSE /\ ppc' = [ppc EXCEPT ![c] = "removeMore"]
               /\ preq' = [preq EXCEPT ![c].devs = Tail(@)]
               /\ pok' = [pok EXCEPT ![c] = ok]
               /\ UNCHANGED <<papart, pcalls, pspec>>

\* the last device of every mirror makes the new pool, with a hole where the old one
\* has a log; it is left exported unless $params has a root, the flag
SplitOff(tops) ==
  [t \in DOMAIN tops |-> IF tops[t].log THEN Hole ELSE Leaf(tops[t].devs[Len(tops[t].devs)], FALSE)]
SplitFrom(tops) ==
  [t \in DOMAIN tops |-> IF tops[t].log THEN tops[t] ELSE Detached(tops[t], Len(tops[t].devs))]

Split(c) ==
  LET r == preq[c]
      from == {i \in Named(r.name) :
                 \A t \in DataVdevs(pool[i].tops) : pool[i].tops[t].type = "mirror"}
      can == from # {} /\ Named(r.to) = {} /\ Unused # {}
      fresh(i) == [name |-> r.to, state |-> IF r.flag THEN "imported" ELSE "exported",
                   tops |-> SplitOff(pool[i].tops), spares |-> {}, caches |-> {},
                   even |-> FALSE, taken |-> FALSE]
  IN
  /\ ppc[c] = "split"
  /\ \E done \in Kernel(can), mounted \in Kernel(TRUE) :
       /\ IF done
          THEN \E i \in from :
                 /\ pool' = [pool EXCEPT ![NextId] = fresh(i),
                                         ![i] = [pool[i] EXCEPT !.tops = SplitFrom(@), !.even = FALSE]]
                 /\ label' = [d \in Devices |->
                      IF d \in TopDevs(fresh(i).tops) THEN NextId ELSE label[d]]
          ELSE UNCHANGED Disks
       /\ Result(c, done /\ (r.flag => mounted))

-----------------------------------------------------------------------------
(* zpool_destroy, zpool_export, zpool_import, zpool_labelclear.            *)

\* zpool_disable_datasets, then the request; either may fail
Give(c, op, state) ==
  /\ ppc[c] = op
  /\ \E done \in Kernel(Named(preq[c].name) # {}) :
       /\ IF done
          THEN \E i \in Named(preq[c].name) : Becomes(i, [pool[i] EXCEPT !.state = state], {})
          ELSE UNCHANGED pool
       /\ Result(c, done)
  /\ UNCHANGED label
DestroyPool(c) == Give(c, "destroyPool", "destroyed")
Export(c) == Give(c, "export", "exported")

\* zpool_search_import finds the pools whose devices are all there
Found == {i \in Ids : pool[i] # Nil /\ pool[i].state # "imported" /\ Intact(i)}

\* do_import: a pool in use elsewhere only with force
MayImport(i, force) == pool[i].state # "foreign" \/ force

\* of name n, or all when n is Nil; flag asks for destroyed pools, and for these
\* only.  A pool of that name that is imported already: with a new name the call
\* is refused, without one the process dies in strcmp (4965)
SearchImport(c) ==
  LET r == preq[c]
      all == r.name = Nil
      asked == {i \in Found : /\ all \/ pool[i].name = r.name
                              /\ (pool[i].state = "destroyed") = r.flag}
  IN
  /\ ppc[c] = "import"
  /\ IF Found = {} \/ (~all /\ (asked = {} \/ Named(r.name) # {}))
     THEN Result(c, FALSE)
     ELSE \E left \in IF all THEN {asked} ELSE {{i} : i \in asked} :
            /\ ppc' = [ppc EXCEPT ![c] = "doImport"]
            /\ preq' = [preq EXCEPT ![c].left = left]
            /\ pok' = [pok EXCEPT ![c] = TRUE]
            /\ UNCHANGED <<pspec, papart, pcalls>>
  /\ UNCHANGED Disks

Uninvaded(i) ==
  \A j \in Ids : Is(j, "imported") => TopDevs(pool[i].tops) \cap TopDevs(pool[j].tops) = {}

DoImport(c) ==
  LET r == preq[c] IN
  /\ ppc[c] = "doImport"
  /\ \/ r.left = {} /\ Result(c, pok[c]) /\ UNCHANGED Disks
     \/ \E i \in r.left :
          LET name == IF r.to = Nil THEN pool[i].name ELSE r.to
              can == /\ i \in Found /\ MayImport(i, r.force)
                     /\ Named(name) = {} /\ Uninvaded(i)
          IN \E done \in Kernel(can), mounted \in Kernel(TRUE) :
               /\ IF done
                  THEN Becomes(i, [pool[i] EXCEPT !.state = "imported", !.name = name,
                                     !.taken = @ \/ (pool[i].state = "foreign" /\ r.force)], {})
                  ELSE UNCHANGED pool
               /\ preq' = [preq EXCEPT ![c].left = @ \ {i}]
               /\ pok' = [pok EXCEPT ![c] = @ /\ done /\ mounted]
               /\ UNCHANGED <<label, ppc, papart, pspec, pcalls>>

ClearCheck(c) ==
  LET st == LabelState(preq[c].dev) IN
  /\ ppc[c] = "labelclear"
  /\ IF label[preq[c].dev] # Nil
          /\ (st = "none" \/ (st \in {"exported", "foreign"} /\ preq[c].force))
     THEN Step(c, "clear") /\ UNCHANGED <<pspec, pok>>
     ELSE Result(c, FALSE)
  /\ UNCHANGED Disks

\* the device is held open, but not exclusively
Clear(c) ==
  LET r == preq[c]
      i == label[r.dev]
  IN
  /\ ppc[c] = "clear"
  /\ IF i # Nil /\ LabelState(r.dev) \notin {"active", "spare", "cache"}
     THEN /\ label' = [label EXCEPT ![r.dev] = Nil]
          /\ Becomes(i, [pool[i] EXCEPT !.taken = @ \/ r.force \/ ~papart[c]], {})
          /\ Result(c, TRUE)
     ELSE Result(c, FALSE) /\ UNCHANGED Disks

-----------------------------------------------------------------------------

PoolNext ==
  \E c \in Admins :
    \/ CallPool(c) \/ LeavePool(c)
    \/ CreatePool(c) \/ CreateKernel(c) \/ AddToPool(c) \/ AddKernel(c)
    \/ AttachCheck(c) \/ AttachKernel(c) \/ Detach(c) \/ RemoveDevice(c) \/ Split(c)
    \/ DestroyPool(c) \/ Export(c) \/ SearchImport(c) \/ DoImport(c) \/ ClearCheck(c) \/ Clear(c)
PoolSpec == PoolInit /\ [][PoolNext]_poolVars

-----------------------------------------------------------------------------
(* Properties.                                                             *)

\* An imported pool has the labels of its devices, a name and the devices its
\* vdevs are of to itself, and data on some device.  (A spare may be gone.)
PoolTypeOK ==
  /\ \A d \in Devices : label[d] = Nil \/ pool[label[d]] # Nil
  /\ \A i \in {j \in Ids : pool[j] # Nil} :
       /\ pool[i].state \in PoolStates /\ pool[i].name \in PoolNames
       /\ Is(i, "imported") => Intact(i) /\ Named(pool[i].name) = {i} /\ DataVdevs(pool[i].tops) # {}
  /\ \A i, j \in Ids : i # j /\ Is(i, "imported") /\ Is(j, "imported") =>
       TopDevs(pool[i].tops) \cap TopDevs(pool[j].tops) = {}

\* check_replication (6347): as long as devices came only through it, calls that
\* take turns, the vdevs of a pool that hold data are all of one level.
PoolsEven ==
  \A i \in Ids : pool[i] # Nil /\ pool[i].even => Even(pool[i].tops)

\* check_file (4169), zpool_labelclear (3165), do_import (4754): a pool that is
\* exported or in use elsewhere keeps every label, and one that is in use
\* elsewhere is not imported, until a call that says force, or one that another
\* overlaps between its look at the labels and the request.
TakenByForceOnly ==
  [][\A i \in Ids : pool[i] # Nil /\ pool[i].state \in {"exported", "foreign"} /\ ~pool'[i].taken =>
       /\ \A d \in TopDevs(pool[i].tops) : label[d] = i => label'[d] = i
       /\ pool[i].state = "foreign" => pool'[i].state = "foreign"]_poolVars
=============================================================================
