----------------------------- MODULE MCZfsPool -----------------------------
(* Model values for ZfsPool: four disks, one of another size, and a file,  *)
(* under a mirror with a spare; under an exported pool beside one another  *)
(* host uses; and with no label.                                           *)
EXTENDS ZfsPool

CONSTANTS d1, d2, d3, d4, f1, x1, w1, w2

\* the size of a disk can be told (4), differs by less than the fuzz (5) or cannot
\* be told (0)
MCKind == [d \in Devices |-> IF d = f1 THEN "file" ELSE IF d = x1 THEN "missing" ELSE "disk"]
MCSize == [d \in Devices |-> CASE d = d4 -> 5 [] d = d3 -> 0 [] d = f1 -> 9 [] OTHER -> 4]

Vdev(type, devs, log) == [type |-> type, parity |-> 0, log |-> log, devs |-> devs]
PoolOf(n, state, tops, spares) ==
  [name |-> n, state |-> state, tops |-> tops, spares |-> spares, caches |-> {},
   even |-> TRUE, taken |-> FALSE]
Start(pools) ==
  [pool |-> [i \in Ids |-> IF i <= Len(pools) THEN pools[i] ELSE Nil],
   label |-> [d \in Devices |->
     LET on == {i \in 1 .. Len(pools) : d \in SpecDevs(pools[i])}
     IN IF on = {} THEN Nil ELSE CHOOSE i \in on : TRUE]]
Spared == Start(<<PoolOf("tank", "imported", <<Vdev("mirror", <<d1, d2>>, FALSE)>>, {d3})>>)
Elsewhere == Start(<<PoolOf("tank", "exported", <<Vdev("mirror", <<d1, d2>>, FALSE)>>, {}),
                     PoolOf("data", "foreign", <<Vdev("disk", <<d3>>, FALSE)>>, {})>>)
MCPoolStarts == {Spared, Elsewhere, Start(<<>>)}

Of(op, n) == [NoPoolRequest EXCEPT !.op = op, !.name = n]
Forced(q) == {[q EXCEPT !.force = f] : f \in BOOLEAN}
Flagged(q) == {[q EXCEPT !.flag = f] : f \in BOOLEAN}
Group(type, devs) == [type |-> type, children |-> devs, is_log |-> FALSE]
LogGroup(type, devs) == [type |-> type, children |-> devs, is_log |-> TRUE]
MCPoolRequests ==
  UNION {Forced([Of("create", "data") EXCEPT !.devs = g]) : g \in
    {<<Group("mirror", <<d1, d2>>), Group("cache", <<d4>>)>>, <<Group("mirror", <<d3, d4>>)>>,
     <<Group("mirror", <<d3, f1>>)>>, <<LogGroup("stripe", <<d4>>)>>,
     <<Group("mirror", <<d1, d2>>), Group("spare", <<d3>>), LogGroup("stripe", <<d4>>)>>}}
  \cup UNION {Forced([Of("add", n) EXCEPT !.devs = g]) : n \in {"tank", "data"}, g \in
    {<<Group("mirror", <<d3, d4>>)>>, <<Group("stripe", <<d4>>)>>}}
  \cup {[Of("add", "tank") EXCEPT !.devs = g] : g \in
    {<<LogGroup("stripe", <<d4>>), Group("mirror", <<d3, f1>>)>>, <<Group("cache", <<x1>>)>>, <<Group("cache", <<f1>>)>>}}
  \cup UNION {Forced([Of(op, "tank") EXCEPT !.dev = d1, !.new = d]) :
                op \in {"attach", "replace"}, d \in {d3, d4}}
  \cup {[Of("detach", "tank") EXCEPT !.dev = d] : d \in {d1, d2}}
  \cup {[Of("remove", n) EXCEPT !.devs = <<d4, d3>>] : n \in {"tank", "data"}}
  \cup Flagged([Of("split", "tank") EXCEPT !.to = "data"])
  \cup {Of(op, n) : op \in {"destroyPool", "export"}, n \in {"tank", "data"}}
  \cup UNION {Forced(Of("import", n)) : n \in {"tank", "data"}}
  \cup Flagged([Of("import", "data") EXCEPT !.to = "tank"])
  \cup Forced(Of("import", Nil)) \cup {[Of("import", Nil) EXCEPT !.flag = TRUE]}
  \cup Forced([Of("labelclear", Nil) EXCEPT !.dev = d3])
=============================================================================
