----------------------------- MODULE ZfsDatasets -----------------------------
(***************************************************************************)
(* Datasets, snapshots, mounts and user properties, php-zfs/zfs.c.  Every  *)
(* function is a sequence of requests to libzfs, each atomic in the kernel *)
(* and each by name: between two of them other processes make theirs, and  *)
(* the process may die.  What libzfs and the kernel do with one request is *)
(* external and modelled as far as the functions tell outcomes apart.      *)
(***************************************************************************)
EXTENDS Lists, FiniteSets

CONSTANTS
  Paths,        \* names of datasets, sequences of components; <<pool>> is the root
  SnapNames, Descs,
  Uprops, Values, \* user properties
  Absent,
  Trees,        \* what is there before the first call: [tree, snaps, mnt]
  Requests,     \* the calls that are made, see NoRequest for the fields
  Callers,
  ZfsCalls,     \* bound on calls
  ZfsDeaths,    \* bound on deaths in the middle of a call
  Refuses       \* whether the kernel may refuse for reasons of its own

\* canmount and mountpoint as far as mounting looks at them: canmount=on or
\* noauto with a mountpoint; mountpoint=legacy; canmount=off, mountpoint=none
\* or zoned; a receive that was broken off and can be resumed
Modes == {"on", "noauto", "legacy", "off", "broken"}
Own == [Uprops -> Values \cup {Absent}]
Datasets ==
  [mode : Modes, origin : (Paths \X SnapNames) \cup {Absent}, own : Own] \cup {Absent}
Snapshots == [name : SnapNames, desc : Descs]

Parent(p)     == SubSeq(p, 1, Len(p) - 1)
NamesIn(list) == {list[i].name : i \in 1 .. Len(list)}

\* What is there has its parent and, if it is a clone, its origin; the snapshots
\* of a dataset differ in their names; nothing else has snapshots or is mounted.
SoundTree(t, s, m) ==
  /\ t \in [Paths -> Datasets] /\ s \in [Paths -> Seq(Snapshots)] /\ m \subseteq Paths
  /\ \A p \in Paths :
       /\ t[p] # Absent =>
            /\ Len(p) > 1 => t[Parent(p)] # Absent
            /\ t[p].origin # Absent => t[p].origin[2] \in NamesIn(s[t[p].origin[1]])
       /\ t[p] = Absent => s[p] = <<>> /\ p \notin m
       /\ \A i, j \in 1 .. Len(s[p]) : s[p][i].name = s[p][j].name => i = j

\* what a function is called with
PathOps == {"create", "update", "rename", "snapCreate", "snapDestroy", "snapUpdate", "snapRename",
            "rollback", "merge", "propsRemove", "mount", "unmount", "destroy"}
SnapOps == {"snapCreate", "snapUpdate", "snapRename"}
Sensible(r) ==
  /\ r \in [op : PathOps \cup {"mountAll", "unmountAll"}, path : Paths \cup {<<>>},
            to : Paths \cup {<<>>}, snap : SnapNames \cup {Absent}, new : SnapNames \cup {Absent},
            desc : Descs \cup {Absent}, flag : BOOLEAN, how : {"plain", "recursive", "noparams"},
            mode : Modes, props : Own]
  /\ r.op \in PathOps => r.path \in Paths
  /\ r.op \in {"rename", "merge"} => r.to \in Paths
  /\ r.op \in SnapOps => r.snap \in SnapNames
  /\ r.op = "snapRename" => r.new \in SnapNames
  /\ r.op \in {"snapCreate", "snapUpdate"} => r.desc \in Descs

ASSUME ZfsAssumption ==
  /\ Paths \subseteq Seq(UNION {{p[i] : i \in 1 .. Len(p)} : p \in Paths})
  /\ <<>> \notin Paths /\ \A p \in Paths : \A i \in 1 .. Len(p) : SubSeq(p, 1, i) \in Paths
  /\ Absent \notin Values /\ Absent \notin SnapNames /\ Absent \notin Paths \X SnapNames
  /\ Absent \notin [mode : Modes, origin : (Paths \X SnapNames) \cup {Absent}, own : Own]
  /\ \A t \in Trees : SoundTree(t.tree, t.snaps, t.mnt)
  /\ \A r \in Requests : Sensible(r)
  /\ ZfsCalls \in Nat /\ ZfsDeaths \in Nat /\ Refuses \in BOOLEAN

VARIABLES
  tree,    \* by path, the dataset: its mode, origin and own user properties
  snaps,   \* by path, its snapshots, oldest first
  mnt,     \* the paths that are mounted, at the mountpoint of their name
  zpc, zcall,
  zcalls, zdeaths

zfsVars == <<tree, snaps, mnt, zpc, zcall, zcalls, zdeaths>>

Atop(p, q)  == Len(p) < Len(q) /\ SubSeq(q, 1, Len(p)) = p
Near(p, q)  == p = q \/ Atop(p, q) \/ Atop(q, p)
Exists(p)   == tree[p] # Absent
Tree(p)     == {q \in Paths : Exists(q) /\ (q = p \/ Atop(p, q))}
Children(p) == {q \in Tree(p) : Len(q) = Len(p) + 1}
SnapsOf(p)  == NamesIn(snaps[p])
Clones(p, s) == {q \in Paths : Exists(q) /\ tree[q].origin = <<p, s>>}
NoProps     == [u \in Uprops |-> Absent]

\* zfs_get_user_props: what is set on the dataset or on the nearest above it
Effective(p) ==
  [u \in Uprops |->
    LET has == {i \in 1 .. Len(p) : tree[SubSeq(p, 1, i)].own[u] # Absent}
    IN IF has = {} THEN Absent
       ELSE tree[SubSeq(p, 1, CHOOSE i \in has : \A j \in has : j <= i)].own[u]]

State == [tree |-> tree, snaps |-> snaps, mnt |-> mnt]

\* op names the function; flag is $recursive, $force, $params['parents'] or
\* whether $params['config'] has a mountpoint; how, the $params of zfs_snap_rename
NoRequest == [op |-> "none", path |-> <<>>, to |-> <<>>, snap |-> Absent, new |-> Absent,
              desc |-> Absent, flag |-> FALSE, how |-> "plain", mode |-> "on", props |-> NoProps]

\* todo: what a loop has left; src: what zfs_settings_merge read; stack and
\* batch: of zfs_dataset_rb; ok: the result; apart: history, nobody else was
\* at work near by; refused: history; before: history, the state at the call
NoZfsCall == [req |-> NoRequest, todo |-> {}, src |-> NoProps, stack |-> <<>>,
              batch |-> {}, ok |-> TRUE, apart |-> TRUE, refused |-> FALSE, before |-> Absent]

ZfsInit ==
  /\ \E t \in Trees : tree = t.tree /\ snaps = t.snaps /\ mnt = t.mnt
  /\ zpc = [c \in Callers |-> "idle"]
  /\ zcall = [c \in Callers |-> NoZfsCall]
  /\ zcalls = 0 /\ zdeaths = 0

-----------------------------------------------------------------------------
(* Control.                                                                *)

Data  == <<tree, snaps, mnt>>
Tally == <<zcalls, zdeaths>>
Req(c) == zcall[c].req
Everywhere(r) == r.op \in {"mountAll", "unmountAll"}
\* a call that looks for clones reaches all over the pools if there are any at its
\* beginning (of which there are never more)
AnyClone(t) == \E q \in Paths : t[q] # Absent /\ t[q].origin # Absent
Reaching == {"destroy", "rollback", "rename", "snapRename"}
Meets(r, c) ==
  LET s == Req(c) IN
  \/ Everywhere(r) \/ Everywhere(s)
  \/ r.op \in Reaching /\ AnyClone(tree)
  \/ s.op \in Reaching /\ AnyClone(zcall[c].before.tree)
  \/ \E p \in {r.path, r.to} \ {<<>>}, q \in {s.path, s.to} \ {<<>>} : Near(p, q)

Go(c, where, call) ==
  /\ zpc' = [zpc EXCEPT ![c] = where]
  /\ zcall' = [zcall EXCEPT ![c] = call]
  /\ UNCHANGED Tally
ReturnZfs(c, ok, call) == Go(c, "return", [call EXCEPT !.ok = ok])

\* the kernel does what can be done, or refuses
Answer(can) == IF can /\ Refuses THEN BOOLEAN ELSE {can}
Answered(c, can, ok) == [zcall[c] EXCEPT !.refused = @ \/ (can /\ ~ok)]

MakeCall(c) ==
  /\ zpc[c] = "idle" /\ zcalls < ZfsCalls
  /\ \E r \in Requests :
       LET others == {d \in Callers \ {c} : zpc[d] # "idle" /\ Meets(r, d)}
       IN /\ zpc' = [zpc EXCEPT ![c] = r.op]
          /\ zcall' = [d \in Callers |->
               IF d = c THEN [NoZfsCall EXCEPT !.req = r, !.before = State, !.apart = others = {}]
               ELSE [zcall[d] EXCEPT !.apart = @ /\ d \notin others]]
  /\ zcalls' = zcalls + 1
  /\ UNCHANGED <<Data, zdeaths>>

Leave(c) ==
  /\ zpc[c] = "return"
  /\ Go(c, "idle", NoZfsCall)
  /\ UNCHANGED Data

DieZfs(c) ==
  /\ zpc[c] \notin {"idle", "return"} /\ zdeaths < ZfsDeaths
  /\ zpc' = [zpc EXCEPT ![c] = "idle"]
  /\ zcall' = [d \in Callers |-> IF d = c THEN NoZfsCall ELSE [zcall[d] EXCEPT !.apart = FALSE]]
  /\ zdeaths' = zdeaths + 1
  /\ UNCHANGED <<Data, zcalls>>

-----------------------------------------------------------------------------
(* zfs_ds_create, zfs_ds_update, zfs_ds_rename.                            *)

\* Mutant: nobody asks for the parent.
CanCreateAnywhere(p) == ~Exists(p) /\ Len(p) > 1

CanCreate(p) == ~Exists(p) /\ Len(p) > 1 /\ Exists(Parent(p))
New(mode, props) == [mode |-> mode, origin |-> Absent, own |-> props]

Create(c) ==
  LET r == Req(c) IN
  /\ zpc[c] = "create"
  /\ \E ok \in Answer(CanCreate(r.path)) :
       IF ok
       THEN /\ tree' = [tree EXCEPT ![r.path] = New(r.mode, r.props)]
            /\ IF r.flag /\ r.mode = "on" THEN Go(c, "createMount", zcall[c])
               ELSE ReturnZfs(c, TRUE, zcall[c])
       ELSE ReturnZfs(c, FALSE, Answered(c, CanCreate(r.path), ok)) /\ UNCHANGED tree
  /\ UNCHANGED <<snaps, mnt>>

CanMount(p) == Exists(p) /\ p \notin mnt

\* the dataset stays when it cannot be mounted or shared
CreateMount(c) ==
  /\ zpc[c] = "createMount"
  /\ \E ok \in Answer(CanMount(Req(c).path)) :
       /\ mnt' = IF ok THEN mnt \cup {Req(c).path} ELSE mnt
       /\ ReturnZfs(c, ok, Answered(c, CanMount(Req(c).path), ok))
  /\ UNCHANGED <<tree, snaps>>

Set(own, props) == [u \in Uprops |-> IF props[u] = Absent THEN own[u] ELSE props[u]]

Update(c) ==
  LET r == Req(c) IN
  /\ zpc[c] = "update"
  /\ \E ok \in Answer(Exists(r.path)) :
       /\ tree' = IF ok THEN [tree EXCEPT ![r.path].own = Set(@, r.props)] ELSE tree
       /\ ReturnZfs(c, ok, Answered(c, Exists(r.path), ok))
  /\ UNCHANGED <<snaps, mnt>>

\* zfs_create_ancestors: what is missing above the new name, mounted
RenameParents(c) ==
  LET r == Req(c)
      missing == {q \in Paths : Atop(q, r.to) /\ ~Exists(q)}
  IN /\ zpc[c] = "rename" /\ r.flag
     /\ IF ~Exists(r.path) THEN ReturnZfs(c, FALSE, zcall[c]) /\ UNCHANGED Data
        ELSE \E ok \in Answer(missing # {}) :
               IF missing # {} /\ ~ok
               THEN ReturnZfs(c, FALSE, Answered(c, TRUE, FALSE)) /\ UNCHANGED Data
               ELSE /\ tree' = [q \in Paths |-> IF q \in missing THEN New("on", NoProps) ELSE tree[q]]
                    /\ mnt' = mnt \cup missing
                    /\ Go(c, "renameTo", zcall[c])
                    /\ UNCHANGED snaps

CanRename(p, q) ==
  Exists(p) /\ Len(p) > 1 /\ ~Exists(q) /\ ~Atop(p, q) /\ Exists(Parent(q))
\* where the dataset that is called x after a rename of p to q came from
Was(p, q, x) ==
  IF x = q \/ Atop(q, x) THEN p \o SubSeq(x, Len(q) + 1, Len(x)) ELSE x
Moved(p, q, x) ==
  IF x = p \/ Atop(p, x) THEN q \o SubSeq(x, Len(p) + 1, Len(x)) ELSE x
\* names are bounded: the renamed datasets have names in Paths
Fits(p, q) == \A x \in Tree(p) : Moved(p, q, x) \in Paths

Rename(c) ==
  LET r == Req(c)
      can == CanRename(r.path, r.to)
      NewOrigin(o) == IF o = Absent THEN o ELSE <<Moved(r.path, r.to, o[1]), o[2]>>
      gone(x) == x = r.path \/ Atop(r.path, x)
  IN
  /\ zpc[c] = "renameTo" \/ (zpc[c] = "rename" /\ ~r.flag)
  /\ can => Fits(r.path, r.to)
  /\ \E ok \in Answer(can) :
       /\ IF ok
          THEN /\ tree' = [x \in Paths |->
                    LET w == Was(r.path, r.to, x)
                    IN IF gone(x) \/ w \notin Paths \/ tree[w] = Absent THEN Absent
                       ELSE [tree[w] EXCEPT !.origin = NewOrigin(@)]]
               /\ snaps' = [x \in Paths |->
                    LET w == Was(r.path, r.to, x)
                    IN IF gone(x) \/ w \notin Paths THEN <<>> ELSE snaps[w]]
               /\ mnt' = {Moved(r.path, r.to, x) : x \in mnt}
          ELSE UNCHANGED Data
       /\ ReturnZfs(c, ok, Answered(c, can, ok))

-----------------------------------------------------------------------------
(* zfs_snap_create, zfs_snap_destroy, zfs_snap_update, zfs_snap_rename,    *)
(* zfs_snap_rollback.                                                      *)

\* zfs_snapshot_cb: a broken dataset is left out, and with it all below it
Gathered(p, rec) ==
  IF ~rec THEN {p}
  ELSE {q \in Tree(p) : \A x \in Paths : (x = q \/ (Atop(x, q) /\ x \in Tree(p)))
                                           => tree[x].mode # "broken"}

SnapGather(c) ==
  LET r == Req(c) IN
  /\ zpc[c] = "snapCreate"
  /\ IF Exists(r.path)
     THEN Go(c, "snapTake", [zcall[c] EXCEPT !.todo = Gathered(r.path, r.flag)])
     ELSE ReturnZfs(c, FALSE, zcall[c])
  /\ UNCHANGED Data

\* Mutant: one request per dataset, those that fail are passed over.
SnapTakeEach(c) ==
  LET r == Req(c)
      can == \A q \in zcall[c].todo : Exists(q) /\ r.snap \notin SnapsOf(q)
  IN
  /\ zpc[c] = "snapTake"
  /\ snaps' = [q \in Paths |->
       IF q \in zcall[c].todo /\ Exists(q) /\ r.snap \notin SnapsOf(q)
       THEN Append(snaps[q], [name |-> r.snap, desc |-> r.desc]) ELSE snaps[q]]
  /\ ReturnZfs(c, can, zcall[c])
  /\ UNCHANGED <<tree, mnt>>

SnapTake(c) ==
  LET r == Req(c)
      can == \A q \in zcall[c].todo : Exists(q) /\ r.snap \notin SnapsOf(q)
  IN
  /\ zpc[c] = "snapTake"
  /\ \E ok \in Answer(can) :
       /\ snaps' = [q \in Paths |->
            IF ok /\ q \in zcall[c].todo THEN Append(snaps[q], [name |-> r.snap, desc |-> r.desc])
            ELSE snaps[q]]
       /\ ReturnZfs(c, ok, Answered(c, can, ok))
  /\ UNCHANGED <<tree, mnt>>

\* Mutant: what is below the dataset is not gathered.
DropGatherFlat(c) ==
  LET r == Req(c)
      found == {q \in {r.path} : r.snap \in SnapsOf(q)}
  IN
  /\ zpc[c] = "snapDestroy"
  /\ IF Exists(r.path) /\ found # {} /\ \A q \in found : Clones(q, r.snap) = {}
     THEN Go(c, "snapDrop", [zcall[c] EXCEPT !.todo = found])
     ELSE ReturnZfs(c, FALSE, zcall[c])
  /\ UNCHANGED Data

\* gather_snapshots; a snapshot that has a clone spoils the whole call
DropGather(c) ==
  LET r == Req(c)
      found == {q \in IF r.flag THEN Tree(r.path) ELSE {r.path} : r.snap \in SnapsOf(q)}
  IN
  /\ zpc[c] = "snapDestroy"
  /\ IF Exists(r.path) /\ found # {} /\ \A q \in found : Clones(q, r.snap) = {}
     THEN Go(c, "snapDrop", [zcall[c] EXCEPT !.todo = found])
     ELSE ReturnZfs(c, FALSE, zcall[c])
  /\ UNCHANGED Data

Without(p, names) == Pick(snaps[p], {i \in 1 .. Len(snaps[p]) : snaps[p][i].name \notin names})

\* zfs_destroy_snaps_nvl is all or nothing; what is not there is no failure
SnapDrop(c) ==
  LET r == Req(c)
      can == \A q \in zcall[c].todo : Clones(q, r.snap) = {}
  IN
  /\ zpc[c] = "snapDrop"
  /\ \E ok \in Answer(can) :
       /\ snaps' = [q \in Paths |->
            IF ok /\ q \in zcall[c].todo THEN Without(q, {r.snap}) ELSE snaps[q]]
       /\ ReturnZfs(c, ok, Answered(c, can, ok))
  /\ UNCHANGED <<tree, mnt>>

\* the snapshots of every path of P that are called s become those f gives
Rewritten(P, s, f(_)) ==
  [q \in Paths |-> [i \in 1 .. Len(snaps[q]) |->
    IF q \in P /\ snaps[q][i].name = s THEN f(snaps[q][i]) ELSE snaps[q][i]]]

SnapUpdate(c) ==
  LET r == Req(c)
      can == Exists(r.path) /\ r.snap \in SnapsOf(r.path)
  IN
  /\ zpc[c] = "snapUpdate"
  /\ \E ok \in Answer(can) :
       /\ snaps' = IF ok THEN Rewritten({r.path}, r.snap, LAMBDA s : [s EXCEPT !.desc = r.desc])
                   ELSE snaps
       /\ ReturnZfs(c, ok, Answered(c, can, ok))
  /\ UNCHANGED <<tree, mnt>>

\* without $params the old name is whatever the buffer tmp1 held before: the
\* name of any snapshot of the dataset, or none libzfs accepts
OldNames(r) == IF r.how = "noparams" THEN SnapsOf(r.path) \cup {Absent} ELSE {r.snap}

SnapRename(c) ==
  LET r == Req(c)
      P == IF r.how = "recursive" THEN Tree(r.path) ELSE {r.path}
  IN
  /\ zpc[c] = "snapRename"
  /\ \E old \in OldNames(r) :
       LET can == /\ Exists(r.path)
                  /\ r.how # "recursive" => old \in SnapsOf(r.path)
                  /\ \A q \in P : old \in SnapsOf(q) => r.new \notin SnapsOf(q)
       IN \E ok \in Answer(can) :
            /\ IF ok
               THEN /\ snaps' = Rewritten(P, old, LAMBDA s : [s EXCEPT !.name = r.new])
                    /\ tree' = [q \in Paths |->
                         IF Exists(q) /\ tree[q].origin # Absent /\ tree[q].origin[1] \in P
                               /\ tree[q].origin[2] = old
                         THEN [tree[q] EXCEPT !.origin = <<@[1], r.new>>] ELSE tree[q]]
               ELSE UNCHANGED <<tree, snaps>>
            /\ ReturnZfs(c, ok, Answered(c, can, ok))
  /\ UNCHANGED mnt

\* zfs_rollback with force: later snapshots go one by one, clones first
Rollback(c) ==
  LET r == Req(c)
      can == Exists(r.path) /\ r.snap \in SnapsOf(r.path)
      at == CHOOSE i \in 1 .. Len(snaps[r.path]) : snaps[r.path][i].name = r.snap
  IN
  /\ zpc[c] = "rollback"
  /\ IF can
     THEN \E k \in at .. Len(snaps[r.path]), ok \in Answer(TRUE) :
            LET later == {snaps[r.path][i].name : i \in k + 1 .. Len(snaps[r.path])}
                dead == UNION {Tree(q) : q \in UNION {Clones(r.path, s) : s \in later}}
            IN /\ ok => k = at
               /\ \A q \in dead : snaps[q] = <<>>
               /\ snaps' = [snaps EXCEPT ![r.path] = SubSeq(@, 1, k)]
               /\ tree' = [q \in Paths |-> IF q \in dead THEN Absent ELSE tree[q]]
               /\ mnt' = mnt \ dead
               /\ ReturnZfs(c, ok, Answered(c, TRUE, ok))
     ELSE ReturnZfs(c, FALSE, zcall[c]) /\ UNCHANGED Data

-----------------------------------------------------------------------------
(* zfs_settings_merge, zfs_ds_props_remove.                                *)

\* Mutant: the target keeps what it had.
MergeOpenKeeping(c) ==
  LET r == Req(c) IN
  /\ zpc[c] = "merge"
  /\ IF Exists(r.path) /\ Exists(r.to)
     THEN Go(c, "mergeRemove",
             [zcall[c] EXCEPT !.src = Effective(r.path)])
     ELSE ReturnZfs(c, FALSE, zcall[c])
  /\ UNCHANGED Data

\* both handles are opened, and with them the properties are read, first
MergeOpen(c) ==
  LET r == Req(c) IN
  /\ zpc[c] = "merge"
  /\ IF Exists(r.path) /\ Exists(r.to)
     THEN Go(c, "mergeRemove",
             [zcall[c] EXCEPT !.src = Effective(r.path),
                              !.todo = {u \in Uprops : Effective(r.to)[u] # Absent}])
     ELSE ReturnZfs(c, FALSE, zcall[c])
  /\ UNCHANGED Data

\* one property per request; nobody looks at how it went (1902, 4734)
Inherit(c, p, where) ==
  /\ \E u \in zcall[c].todo, ok \in Answer(Exists(p)) :
       /\ tree' = IF ok THEN [tree EXCEPT ![p].own[u] = Absent] ELSE tree
       /\ LET rest == zcall[c].todo \ {u}
              call == [Answered(c, Exists(p), ok) EXCEPT !.todo = rest]
          IN IF rest # {} THEN Go(c, zpc[c], call)
             ELSE IF where = "return" THEN ReturnZfs(c, TRUE, call) ELSE Go(c, where, call)
  /\ UNCHANGED <<snaps, mnt>>

MergeRemove(c) == zpc[c] = "mergeRemove" /\ Inherit(c, Req(c).to, "mergeSet")

MergeSet(c) ==
  LET r == Req(c) IN
  /\ zpc[c] = "mergeSet" \/ (zpc[c] = "mergeRemove" /\ zcall[c].todo = {})
  /\ \E ok \in Answer(Exists(r.to)) :
       /\ tree' = IF ok THEN [tree EXCEPT ![r.to].own = Set(@, zcall[c].src)] ELSE tree
       /\ ReturnZfs(c, ok, Answered(c, Exists(r.to), ok))
  /\ UNCHANGED <<snaps, mnt>>

PropsOpen(c) ==
  LET r == Req(c)
      names == {u \in Uprops : r.props[u] # Absent}
  IN
  /\ zpc[c] = "propsRemove"
  /\ IF Exists(r.path) /\ names # {} THEN Go(c, "propRemove", [zcall[c] EXCEPT !.todo = names])
     ELSE ReturnZfs(c, Exists(r.path), zcall[c])
  /\ UNCHANGED Data

PropRemove(c) == zpc[c] = "propRemove" /\ Inherit(c, Req(c).path, "return")

-----------------------------------------------------------------------------
(* zfs_mount, zfs_mount_all, zfs_unmount, zfs_unmount_all.                 *)

\* share_mount_one, explicit or for zfs_mount_all
MayMount(p, explicit) == tree[p].mode = "on" \/ (explicit /\ tree[p].mode = "noauto")

Mount(c) ==
  LET p == Req(c).path
      can == CanMount(p) /\ MayMount(p, TRUE)
  IN
  /\ zpc[c] = "mount"
  /\ \E ok \in Answer(can) :
       /\ mnt' = IF ok THEN mnt \cup {p} ELSE mnt
       /\ ReturnZfs(c, ok, Answered(c, can, ok))
  /\ UNCHANGED <<tree, snaps>>

MountAllList(c) ==
  /\ zpc[c] = "mountAll"
  /\ Go(c, "mountNext",
        [zcall[c] EXCEPT !.todo = {p \in Paths : Exists(p) /\ MayMount(p, FALSE)}])
  /\ UNCHANGED Data

\* prop_cmp compares the handles themselves, byte by byte as if they were
\* strings, and not mountpoints: qsort leaves them in any order
MountAllNext(c) ==
  /\ zpc[c] = "mountNext"
  /\ \/ zcall[c].todo = {} /\ ReturnZfs(c, zcall[c].ok, zcall[c]) /\ UNCHANGED mnt
     \/ \E p \in zcall[c].todo : \E ok \in Answer(CanMount(p)) :
          /\ mnt' = IF ok THEN mnt \cup {p} ELSE mnt
          /\ Go(c, "mountNext", [Answered(c, CanMount(p), ok) EXCEPT
                                   !.todo = @ \ {p}, !.ok = @ /\ (ok \/ p \in mnt)])
  /\ UNCHANGED <<tree, snaps>>

\* zfs_unmountall: all of it or nothing.  A path finds the dataset mounted there.
Unmount(c) ==
  LET p == Req(c).path
      can == Exists(p) /\ p \in mnt /\ tree[p].mode # "legacy"
  IN
  /\ zpc[c] = "unmount"
  /\ \E ok \in Answer(can) :
       /\ mnt' = IF ok THEN {q \in mnt : q # p /\ ~Atop(p, q)} ELSE mnt
       /\ ReturnZfs(c, ok, Answered(c, can, ok))
  /\ UNCHANGED <<tree, snaps>>

Skipped(p) == tree[p].mode \in {"legacy", "noauto"}

UnmountAllList(c) ==
  /\ zpc[c] = "unmountAll"
  /\ Go(c, "unmountNext", [zcall[c] EXCEPT !.todo = {p \in mnt : ~Skipped(p)}])
  /\ UNCHANGED Data

\* Mutant: what is above comes first.
Uppermost(S) == {p \in S : \A q \in S : ~Atop(q, p)}
\* the tree of mountpoints is walked backwards: what is below comes first
Lowest(S) == {p \in S : \A q \in S : ~Atop(p, q)}
Busy(p) == \E q \in mnt : Atop(p, q)

UnmountAllNext(c) ==
  /\ zpc[c] = "unmountNext"
  /\ \/ zcall[c].todo = {} /\ ReturnZfs(c, zcall[c].ok, zcall[c]) /\ UNCHANGED mnt
     \/ \E p \in Lowest(zcall[c].todo) :
          LET can == p \in mnt /\ (Req(c).flag \/ ~Busy(p))
          IN \E ok \in Answer(can) :
               /\ mnt' = IF ok THEN mnt \ {p} ELSE mnt
               /\ Go(c, "unmountNext", [Answered(c, can, ok) EXCEPT
                                          !.todo = @ \ {p}, !.ok = @ /\ ok])
  /\ UNCHANGED <<tree, snaps>>

-----------------------------------------------------------------------------
(* zfs_ds_destroy.  zfs_iter_dependents walks down: the children of a      *)
(* dataset, then its snapshots and before each its clones, then the        *)
(* dataset itself.  A frame of the walk: path, snap (Absent in the frame   *)
(* of a dataset), phase, owed (what is there when the phase begins).       *)

DsFrame(p) == [path |-> p, snap |-> Absent, phase |-> "children", owed |-> Children(p)]
SnapFrame(p, s) == [path |-> p, snap |-> s, phase |-> "clones", owed |-> Clones(p, s)]

Top(c) == zcall[c].stack[Len(zcall[c].stack)]
Below(c) == SubSeq(zcall[c].stack, 1, Len(zcall[c].stack) - 1)
Walking(c, phase) == zpc[c] = "walk" /\ Top(c).phase = phase
Walk(c, stack) == Go(c, "walk", [zcall[c] EXCEPT !.stack = stack]) /\ UNCHANGED Data
Phase(c, phase, owed) == Below(c) \o <<[Top(c) EXCEPT !.phase = phase, !.owed = owed]>>
Push(c, frame) == Append(zcall[c].stack, frame)

\* the datasets whose dependents are being walked
OnTheWay(c) == {zcall[c].stack[i].path : i \in 1 .. Len(zcall[c].stack)}

\* recursive matters for the root of a pool only
DestroyOpen(c) ==
  LET r == Req(c) IN
  /\ zpc[c] = "destroy"
  /\ IF Exists(r.path) /\ (r.flag \/ Len(r.path) > 1)
     THEN Walk(c, <<DsFrame(r.path)>>)
     ELSE ReturnZfs(c, FALSE, zcall[c]) /\ UNCHANGED Data

WalkChild(c) ==
  /\ Walking(c, "children")
  /\ \E q \in Children(Top(c).path) \ OnTheWay(c) : Walk(c, Push(c, DsFrame(q)))

WalkToSnaps(c) ==
  /\ Walking(c, "children") /\ Top(c).owed \cap Children(Top(c).path) = {}
  /\ Walk(c, Phase(c, "snaps", SnapsOf(Top(c).path)))

Batched(c) == {s \in SnapNames : <<Top(c).path, s>> \in zcall[c].batch}

WalkSnap(c) ==
  /\ Walking(c, "snaps")
  /\ \E s \in SnapsOf(Top(c).path) \ Batched(c) : Walk(c, Push(c, SnapFrame(Top(c).path, s)))

WalkClone(c) ==
  /\ Walking(c, "clones")
  /\ \E q \in {x \in Top(c).owed : Exists(x)} \ OnTheWay(c) : Walk(c, Push(c, DsFrame(q)))

\* A dataset below its own clone: the walk comes back to where it is.  As it may not
\* (allowrecursion is false, 4594), libzfs gives up.
WalkRound(c) ==
  /\ \/ Walking(c, "children") /\ Children(Top(c).path) \cap OnTheWay(c) # {}
     \/ Walking(c, "clones") /\ \E q \in Top(c).owed \cap OnTheWay(c) : Exists(q)
  /\ ReturnZfs(c, FALSE, [zcall[c] EXCEPT !.refused = TRUE])
  /\ UNCHANGED Data

\* destroy_callback for a snapshot
WalkBatch(c) ==
  /\ Walking(c, "clones") /\ \A q \in Top(c).owed : ~Exists(q)
  /\ Go(c, "walk", [zcall[c] EXCEPT !.batch = @ \cup {<<Top(c).path, Top(c).snap>>},
                                    !.stack = Below(c)])
  /\ UNCHANGED Data

\* an error stops the walk; for the dataset asked for it is dropped (4607-4620)
Failed(c, call) == ReturnZfs(c, Below(c) = <<>>, call)
PopZfs(c, call) ==
  IF Below(c) = <<>> THEN ReturnZfs(c, TRUE, call)
  ELSE Go(c, "walk", [call EXCEPT !.stack = Below(c)])

\* Mutant: the snapshots are left to the end, behind the dataset.
WalkFlushLate(c) ==
  /\ Walking(c, "snaps") /\ Top(c).owed \cap SnapsOf(Top(c).path) \subseteq Batched(c)
  /\ IF Len(Top(c).path) = 1 THEN PopZfs(c, zcall[c])
     ELSE Go(c, "walk", [zcall[c] EXCEPT !.stack = Phase(c, "destroy", {})])
  /\ UNCHANGED Data

\* destroy_callback for a dataset: the snapshots batched so far go first.  The
\* root of a pool is left alone, but for what is batched in the end (4606)
WalkFlush(c) ==
  LET batch == zcall[c].batch
      atRoot == Len(Top(c).path) = 1
      can == \A b \in batch : Clones(b[1], b[2]) = {}
  IN
  /\ Walking(c, "snaps") /\ Top(c).owed \cap SnapsOf(Top(c).path) \subseteq Batched(c)
  /\ \E ok \in Answer(can) :
       /\ snaps' = [q \in Paths |->
            IF ok THEN Without(q, {s \in SnapNames : <<q, s>> \in batch}) ELSE snaps[q]]
       /\ LET call == [Answered(c, can, ok) EXCEPT !.batch = {}]
          IN IF ~ok THEN Failed(c, call)
             ELSE IF atRoot THEN PopZfs(c, call)
             ELSE Go(c, "walk", [call EXCEPT !.stack = Phase(c, "destroy", {})])
  /\ UNCHANGED <<tree, mnt>>

CanDestroy(p) == Exists(p) /\ Children(p) = {} /\ snaps[p] = <<>>

\* zfs_unmount with force, then zfs_destroy: unmounted it stays when refused
WalkDestroy(c) ==
  LET p == Top(c).path IN
  /\ Walking(c, "destroy")
  /\ mnt' = mnt \ {p}
  /\ \E ok \in Answer(CanDestroy(p)) :
       /\ tree' = IF ok THEN [tree EXCEPT ![p] = Absent] ELSE tree
       /\ LET call == Answered(c, CanDestroy(p), ok)
          IN IF ok THEN PopZfs(c, call) ELSE Failed(c, call)
  /\ UNCHANGED snaps

-----------------------------------------------------------------------------

Serve(c) ==
  \/ Create(c) \/ CreateMount(c) \/ Update(c) \/ RenameParents(c) \/ Rename(c)
  \/ SnapGather(c) \/ SnapTake(c) \/ DropGather(c) \/ SnapDrop(c)
  \/ SnapUpdate(c) \/ SnapRename(c) \/ Rollback(c)
  \/ MergeOpen(c) \/ MergeRemove(c) \/ MergeSet(c) \/ PropsOpen(c) \/ PropRemove(c)
  \/ Mount(c) \/ MountAllList(c) \/ MountAllNext(c)
  \/ Unmount(c) \/ UnmountAllList(c) \/ UnmountAllNext(c)
  \/ DestroyOpen(c) \/ WalkChild(c) \/ WalkToSnaps(c) \/ WalkSnap(c) \/ WalkClone(c) \/ WalkRound(c)
  \/ WalkBatch(c) \/ WalkFlush(c) \/ WalkDestroy(c)

ZfsNext == \E c \in Callers : MakeCall(c) \/ Serve(c) \/ Leave(c) \/ DieZfs(c)
ZfsSpec == ZfsInit /\ [][ZfsNext]_zfsVars

-----------------------------------------------------------------------------
(* Properties.  Returned(c, op): a call nobody disturbed has its result.   *)

Returned(c, op) == zpc[c] = "return" /\ Req(c).op = op /\ zcall[c].apart
Before(c) == zcall[c].before

\* A place that is there has its parent, what hangs on it is named, what is
\* mounted exists.  Every request leaves the tree so, whatever comes between.
ZfsTypeOK ==
  /\ SoundTree(tree, snaps, mnt)
  /\ \A c \in Callers : zcall[c].todo # {} => zpc[c] \notin {"idle", "create", "mount"}

\* zfs_ds_destroy undisturbed and with nothing refused is true, and the dataset
\* is gone with all that depended on it; of a pool the empty root is left.
DestroyComplete ==
  \A c \in Callers :
    Returned(c, "destroy") /\ ~zcall[c].refused =>
      LET p == Req(c).path
          asked == Before(c).tree[p] # Absent /\ (Req(c).flag \/ Len(p) > 1)
      IN /\ zcall[c].ok = asked
         /\ asked => IF Len(p) > 1 THEN ~Exists(p)
                     ELSE tree[p] # Absent /\ Tree(p) = {p} /\ snaps[p] = <<>>

\* A function that makes up its mind in one request, or gathers names first and
\* then makes one, leaves no trace on its dataset and below when it returns false
\* (1529, 4660).
Whole == {"update", "snapCreate", "snapDestroy", "snapUpdate", "snapRename", "mount", "unmount"}
FalseChangesNothing ==
  \A c \in Callers, op \in Whole :
    Returned(c, op) /\ ~zcall[c].ok =>
      \A q \in Paths : q = Req(c).path \/ Atop(Req(c).path, q) =>
        /\ tree[q] = Before(c).tree[q] /\ snaps[q] = Before(c).snaps[q]
        /\ q \in mnt <=> q \in Before(c).mnt

\* zfs_snap_create true: the snapshot is on every dataset asked for but broken
\* ones and what is below them.  zfs_snap_destroy true: on none of them.
SnapCallsWhole ==
  \A c \in Callers :
    LET r == Req(c)
        asked == IF r.flag THEN Tree(r.path) ELSE {r.path}
        broken(q) == r.flag /\ \E x \in asked : (x = q \/ Atop(x, q)) /\ tree[x].mode = "broken"
    IN /\ Returned(c, "snapCreate") /\ zcall[c].ok =>
            \A q \in asked : r.snap \in SnapsOf(q) <=>
                               (~broken(q) \/ r.snap \in {s.name : s \in
                                 {Before(c).snaps[q][i] : i \in 1 .. Len(Before(c).snaps[q])}})
       /\ Returned(c, "snapDestroy") /\ zcall[c].ok =>
            \A q \in asked : r.snap \notin SnapsOf(q)

\* zfs_mount_all mounts what is on and nothing else; zfs_unmount_all unmounts all
\* but what is legacy or noauto and what such a dataset is mounted under, and its
\* result says whether anything else is left.
MountsAsTold ==
  \A c \in Callers :
    /\ Returned(c, "mountAll") =>
         LET wanted == {p \in Paths : Exists(p) /\ tree[p].mode = "on"}
         IN /\ zcall[c].ok <=> wanted \subseteq mnt
            /\ mnt \subseteq Before(c).mnt \cup wanted
    /\ Returned(c, "unmountAll") /\ ~zcall[c].refused =>
         LET kept == {p \in Before(c).mnt : Skipped(p)}
             held == {p \in Before(c).mnt : ~Req(c).flag /\ \E q \in kept : Atop(p, q)}
         IN /\ mnt = kept \cup held
            /\ zcall[c].ok <=> \A p \in mnt : Skipped(p)

\* zfs_settings_merge: while it works the target has a part of its old properties
\* or just those of the source, never some of either, and when it is true it has
\* those of the source.  (It may be none of them: see the death after 1902.)
MergeUnmixed ==
  \A c \in Callers :
    Req(c).op = "merge" /\ zcall[c].apart /\ zpc[c] \in {"mergeRemove", "mergeSet", "return"}
      /\ Exists(Req(c).path) /\ Exists(Req(c).to) /\ ~zcall[c].refused =>
      LET own == tree[Req(c).to].own
          old == Before(c).tree[Req(c).to].own
      IN /\ \/ \A u \in Uprops : own[u] \in {old[u], Absent}
            \/ own = zcall[c].src
         /\ zpc[c] = "return" => zcall[c].ok /\ own = zcall[c].src

\* README.md:89 of php-zfs: $recursive is needed when there are snapshots or
\* children.  Without it zfs_ds_destroy destroys nothing of them.
DestroyNeedsRecursive ==
  \A c \in Callers :
    Returned(c, "destroy") /\ ~Req(c).flag =>
      /\ \A q \in Paths : Atop(Req(c).path, q) /\ Before(c).tree[q] # Absent => Exists(q)
      /\ Before(c).snaps[Req(c).path] # <<>> => Exists(Req(c).path)
=============================================================================
