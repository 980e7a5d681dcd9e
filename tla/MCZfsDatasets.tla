--------------------------- MODULE MCZfsDatasets ---------------------------
(* Model values for ZfsDatasets: a pool with two datasets and one below    *)
(* each, in trees with a clone, a broken dataset, datasets that are not    *)
(* mounted of themselves, and arguments that reach all of it.              *)
EXTENDS ZfsDatasets, TLC

CONSTANTS root, a, b, k, s1, s2, c1, c2

P == <<root>>
A == <<root, a>>
B == <<root, b>>
AK == <<root, a, k>>
BK == <<root, b, k>>
MCPaths == {P, A, B, AK, BK}

Ds(mode, origin, u) == [mode |-> mode, origin |-> origin, own |-> [x \in Uprops |-> IF x = u THEN 1 ELSE Absent]]
Snap(s) == [name |-> s, desc |-> "d"]
Table(f) == [p \in MCPaths |-> IF p \in DOMAIN f THEN f[p] ELSE Absent]
Snaps(f) == [p \in MCPaths |-> IF p \in DOMAIN f THEN f[p] ELSE <<>>]

\* plain: a child, snapshots on both levels, the child not mounted of itself
Plain == [tree |-> Table((P :> Ds("on", Absent, "u")) @@ (A :> Ds("on", Absent, "v"))
                         @@ (AK :> Ds("noauto", Absent, "w"))),
          snaps |-> Snaps((A :> <<Snap(s1)>>) @@ (AK :> <<Snap(s1), Snap(s2)>>)),
          mnt |-> {P, AK}]
\* cloned: b is a clone of a snapshot of a, with a child of its own
Cloned == [tree |-> Table((P :> Ds("on", Absent, "w")) @@ (A :> Ds("on", Absent, "u"))
                          @@ (B :> Ds("on", <<A, s2>>, "v")) @@ (BK :> Ds("legacy", Absent, "w"))),
           snaps |-> Snaps((A :> <<Snap(s1), Snap(s2)>>) @@ (BK :> <<Snap(s1)>>)),
           mnt |-> {P, A, B, BK}]
\* broken: a receive into a was broken off
Broken == [tree |-> Table((P :> Ds("off", Absent, "w")) @@ (A :> Ds("broken", Absent, "w"))
                          @@ (AK :> Ds("on", Absent, "u")) @@ (B :> Ds("on", Absent, "v"))),
           snaps |-> Snaps(P :> <<Snap(s2)>>),
           mnt |-> {AK, B}]
\* round: a dataset that was renamed to a place below its clone
Round == [tree |-> Table((P :> Ds("on", Absent, "w")) @@ (B :> Ds("on", <<BK, s1>>, "u"))
                         @@ (BK :> Ds("on", Absent, "v"))),
          snaps |-> Snaps(BK :> <<Snap(s1)>>),
          mnt |-> {P, B, BK}]
MCTrees == {Plain, Cloned, Broken, Round}

Q(op, p) == [NoRequest EXCEPT !.op = op, !.path = p]
With(q, f) == [x \in DOMAIN q |-> IF x \in DOMAIN f THEN f[x] ELSE q[x]]
Flags(q) == {[q EXCEPT !.flag = x] : x \in BOOLEAN}
Uv == [x \in Uprops |-> IF x = "w" THEN Absent ELSE 2]
MCRequests ==
  {With(Q("create", p), [flag |-> TRUE, mode |-> m, props |-> Uv]) : p \in {B, BK}, m \in {"on", "noauto"}}
  \cup {With(Q("update", A), [props |-> Uv]), With(Q("propsRemove", A), [props |-> Uv])}
  \cup {With(Q("rename", A), [to |-> B]), With(Q("rename", AK), [to |-> BK, flag |-> TRUE])}
  \cup UNION {Flags(With(Q("snapCreate", p), [snap |-> s2, desc |-> "d"])) : p \in {P, A}}
  \cup UNION {Flags(With(Q("snapDestroy", A), [snap |-> s])) : s \in {s1, s2}}
  \cup {With(Q("snapUpdate", A), [snap |-> s1, desc |-> "e"]), With(Q("rollback", A), [snap |-> s1])}
  \cup {With(Q("snapRename", A), [snap |-> s1, new |-> s2, how |-> h])
         : h \in {"plain", "recursive", "noparams"}}
  \cup {With(Q("merge", P), [to |-> A]), With(Q("merge", A), [to |-> B])}
  \cup {Q("mount", p) : p \in {A, AK}} \cup {Q("mountAll", <<>>), Q("unmount", A)}
  \cup Flags(Q("unmountAll", <<>>))
  \cup Flags(Q("destroy", A)) \cup Flags(Q("destroy", P)) \cup {Q("destroy", BK)}
=============================================================================
