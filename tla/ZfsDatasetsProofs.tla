------------------------- MODULE ZfsDatasetsProofs -------------------------
(* Theorems about ZfsDatasets, for any datasets, snapshots and properties, *)
(* any calls about them, and any number of callers, calls and deaths; and  *)
(* about SnapRules, for any crontab, datasets and schedules, any number of *)
(* processes, calls and deaths, whether or not the scratch file may be     *)
(* refused.                                                                *)
EXTENDS ZfsDatasets, SnapRules, ListsProofs

-----------------------------------------------------------------------------
(* Paths                                                                   *)

Components == UNION {{p[i] : i \in 1 .. Len(p)} : p \in Paths}
Under(p, q) == q = p \/ Atop(p, q)

LEMMA PathTyped ==
  ASSUME NEW p \in Paths
  PROVE  p \in Seq(Components) /\ Len(p) \in Nat \ {0}
<1>1. p \in Seq(Components)
  BY ZfsAssumption DEF Components
<1>2. p # <<>>
  BY ZfsAssumption
<1>3. QED
  BY <1>1, <1>2, EmptySeq

LEMMA AtopIs ==
  ASSUME NEW S, NEW p \in Seq(S), NEW q \in Seq(S)
  PROVE  Atop(p, q) <=> Len(p) < Len(q) /\ \A i \in 1 .. Len(p) : q[i] = p[i]
<1>1. ASSUME Len(p) < Len(q)
      PROVE  /\ SubSeq(q, 1, Len(p)) \in Seq(S) /\ Len(SubSeq(q, 1, Len(p))) = Len(p)
             /\ \A i \in 1 .. Len(p) : SubSeq(q, 1, Len(p))[i] = q[i]
  BY <1>1
<1>2. CASE Len(p) < Len(q) /\ \A i \in 1 .. Len(p) : q[i] = p[i]
  <2>1. SubSeq(q, 1, Len(p)) = p
    BY <1>1, <1>2, SeqEqual
  <2>2. QED
    BY <1>2, <2>1 DEF Atop
<1>3. CASE Atop(p, q)
  BY <1>1, <1>3 DEF Atop
<1>4. QED
  BY <1>2, <1>3

LEMMA AtopTransitive ==
  ASSUME NEW p \in Paths, NEW q \in Paths, NEW r \in Paths, Atop(p, q), Atop(q, r)
  PROVE  Atop(p, r)
<1>1. p \in Seq(Components) /\ q \in Seq(Components) /\ r \in Seq(Components)
  BY PathTyped
<1>2. /\ Len(p) < Len(q) /\ \A i \in 1 .. Len(p) : q[i] = p[i]
      /\ Len(q) < Len(r) /\ \A i \in 1 .. Len(q) : r[i] = q[i]
  BY <1>1, AtopIs
<1>3. Len(p) < Len(r) /\ \A i \in 1 .. Len(p) : r[i] = p[i]
  BY <1>1, <1>2
<1>4. QED
  BY <1>1, <1>3, AtopIs

LEMMA UnderTransitive ==
  ASSUME NEW p \in Paths, NEW q \in Paths, NEW r \in Paths, Under(p, q), Under(q, r)
  PROVE  Under(p, r)
BY AtopTransitive DEF Under

LEMMA Comparable ==
  ASSUME NEW p \in Paths, NEW q \in Paths, NEW r \in Paths, Under(p, r), Under(q, r)
  PROVE  Near(p, q)
<1>1. p \in Seq(Components) /\ q \in Seq(Components) /\ r \in Seq(Components)
  BY PathTyped
<1>2. /\ Len(p) <= Len(r) /\ \A i \in 1 .. Len(p) : r[i] = p[i]
      /\ Len(q) <= Len(r) /\ \A i \in 1 .. Len(q) : r[i] = q[i]
  BY <1>1, AtopIs DEF Under
<1>3. CASE Len(p) < Len(q)
  <2>1. \A i \in 1 .. Len(p) : q[i] = p[i]
    BY <1>1, <1>2, <1>3
  <2>2. QED
    BY <1>1, <1>3, <2>1, AtopIs DEF Near
<1>4. CASE Len(q) < Len(p)
  <2>1. \A i \in 1 .. Len(q) : p[i] = q[i]
    BY <1>1, <1>2, <1>4
  <2>2. QED
    BY <1>1, <1>4, <2>1, AtopIs DEF Near
<1>5. CASE Len(p) = Len(q)
  <2>1. \A i \in 1 .. Len(p) : p[i] = q[i]
    BY <1>1, <1>2, <1>5
  <2>2. p = q
    BY <1>1, <1>5, <2>1, SeqEqual
  <2>3. QED
    BY <2>2 DEF Near
<1>6. QED
  BY <1>1, <1>3, <1>4, <1>5

LEMMA AtopIrreflexive ==
  ASSUME NEW p \in Paths
  PROVE  ~Atop(p, p)
BY PathTyped DEF Atop

LEMMA ParentTyped ==
  ASSUME NEW p \in Paths, Len(p) > 1
  PROVE  Parent(p) \in Paths /\ Len(Parent(p)) = Len(p) - 1 /\ Atop(Parent(p), p)
<1>1. p \in Seq(Components) /\ Len(p) \in Nat /\ Len(p) - 1 \in 1 .. Len(p)
  BY PathTyped
<1>2. SubSeq(p, 1, Len(p) - 1) \in Paths
  BY <1>1, ZfsAssumption
<1>3. Len(SubSeq(p, 1, Len(p) - 1)) = Len(p) - 1
  BY <1>1
<1>4. QED
  BY <1>1, <1>2, <1>3 DEF Parent, Atop

LEMMA AtopParent ==
  ASSUME NEW p \in Paths, NEW q \in Paths, Atop(p, q)
  PROVE  Len(q) > 1 /\ Under(p, Parent(q))
<1>1. p \in Seq(Components) /\ q \in Seq(Components) /\ Len(p) \in Nat \ {0} /\ Len(q) \in Nat
  BY PathTyped
<1>2. Len(p) < Len(q) /\ \A i \in 1 .. Len(p) : q[i] = p[i]
  BY <1>1, AtopIs
<1>3. Len(q) > 1
  BY <1>1, <1>2
<1>4. Parent(q) \in Seq(Components) /\ Len(Parent(q)) = Len(q) - 1
  BY <1>3, ParentTyped, PathTyped
<1>5. \A i \in 1 .. Len(q) - 1 : Parent(q)[i] = q[i]
  BY <1>1, <1>3 DEF Parent
<1>6. CASE Len(p) = Len(q) - 1
  <2>1. \A i \in 1 .. Len(p) : Parent(q)[i] = p[i]
    BY <1>2, <1>5, <1>6
  <2>2. Parent(q) = p
    BY <1>1, <1>4, <1>6, <2>1, SeqEqual
  <2>3. QED
    BY <1>3, <2>2 DEF Under
<1>7. CASE Len(p) < Len(q) - 1
  <2>1. \A i \in 1 .. Len(p) : Parent(q)[i] = p[i]
    BY <1>1, <1>2, <1>5
  <2>2. Atop(p, Parent(q))
    BY <1>1, <1>4, <1>7, <2>1, AtopIs
  <2>3. QED
    BY <1>3, <2>2 DEF Under
<1>8. QED
  BY <1>1, <1>2, <1>6, <1>7

(* What is called x and is below p is called m when p is called q. *)
MovesTo(S, p, q, x, m) ==
  /\ m \in Seq(S) /\ Len(p) <= Len(x) /\ Len(m) = Len(q) + Len(x) - Len(p)
  /\ \A i \in 1 .. Len(q) : m[i] = q[i]
  /\ \A i \in Len(p) + 1 .. Len(x) : m[i - Len(p) + Len(q)] = x[i]

LEMMA MovedIs ==
  ASSUME NEW S, NEW p \in Seq(S), NEW q \in Seq(S), NEW x \in Seq(S), Under(p, x)
  PROVE  MovesTo(S, p, q, x, Moved(p, q, x))
<1> DEFINE tail == SubSeq(x, Len(p) + 1, Len(x))
<1>1. Len(p) \in Nat /\ Len(q) \in Nat /\ Len(x) \in Nat /\ Len(p) <= Len(x)
  BY AtopIs DEF Under
<1>2. /\ tail \in Seq(S) /\ Len(tail) = Len(x) - Len(p)
      /\ \A i \in 1 .. Len(x) - Len(p) : tail[i] = x[Len(p) + i]
  <2>1. \A i \in Len(p) + 1 .. Len(x) : x[i] \in S
    BY <1>1, ElementOfSeq
  <2>2. Len(p) + 1 \in Int /\ Len(x) \in Int
    BY <1>1
  <2>3. /\ tail \in Seq(S)
        /\ Len(tail) = IF Len(p) + 1 <= Len(x) THEN Len(x) - (Len(p) + 1) + 1 ELSE 0
        /\ \A i \in 1 .. Len(x) - (Len(p) + 1) + 1 : tail[i] = x[Len(p) + 1 + i - 1]
    BY <2>1, <2>2, SubSeqProperties
  <2>4. QED
    BY <1>1, <2>3
<1> HIDE DEF tail
<1>3. Moved(p, q, x) = q \o tail
  BY DEF Moved, Under, tail
<1>4. /\ q \o tail \in Seq(S) /\ Len(q \o tail) = Len(q) + Len(tail)
      /\ \A i \in 1 .. Len(q) + Len(tail) :
           (q \o tail)[i] = IF i <= Len(q) THEN q[i] ELSE tail[i - Len(q)]
  BY <1>2, ConcatProperties
<1>5. \A i \in 1 .. Len(q) : (q \o tail)[i] = q[i]
  BY <1>1, <1>2, <1>4
<1>6. ASSUME NEW i \in Len(p) + 1 .. Len(x)
      PROVE  (q \o tail)[i - Len(p) + Len(q)] = x[i]
  <2>1. /\ i - Len(p) + Len(q) \in 1 .. Len(q) + Len(tail) /\ ~(i - Len(p) + Len(q) <= Len(q))
        /\ i - Len(p) \in 1 .. Len(x) - Len(p)
    BY <1>1, <1>2, <1>6
  <2>2. (q \o tail)[i - Len(p) + Len(q)] = tail[i - Len(p) + Len(q) - Len(q)]
    BY <1>4, <2>1
  <2>3. i - Len(p) + Len(q) - Len(q) = i - Len(p) /\ Len(p) + (i - Len(p)) = i
    BY <1>1, <1>6
  <2>4. QED
    BY <1>2, <2>1, <2>2, <2>3
<1>7. QED
  BY <1>1, <1>2, <1>3, <1>4, <1>5, <1>6 DEF MovesTo

LEMMA MovedUnder ==
  ASSUME NEW S, NEW p \in Seq(S), NEW q \in Seq(S), NEW x \in Seq(S), Under(p, x)
  PROVE  Under(q, Moved(p, q, x)) /\ (x # p => Atop(q, Moved(p, q, x)))
<1> DEFINE m == Moved(p, q, x)
<1>1. /\ m \in Seq(S) /\ Len(p) <= Len(x) /\ Len(m) = Len(q) + Len(x) - Len(p)
      /\ \A i \in 1 .. Len(q) : m[i] = q[i]
  <2>1. MovesTo(S, p, q, x, m)
    BY MovedIs
  <2> HIDE DEF m
  <2>2. QED
    BY <2>1 DEF MovesTo
<1> HIDE DEF m
<1>2. CASE x = p
  <2>1. Len(m) = Len(q) /\ \A i \in 1 .. Len(m) : m[i] = q[i]
    BY <1>1, <1>2
  <2>2. m = q
    BY <1>1, <2>1, SeqEqual
  <2>3. QED
    BY <1>2, <2>2 DEF Under, m
<1>3. CASE x # p
  <2>1. Len(p) < Len(x)
    BY <1>3, AtopIs DEF Under
  <2>2. Len(q) < Len(m)
    BY <1>1, <2>1
  <2>3. Atop(q, m)
    BY <1>1, <2>2, AtopIs
  <2>4. QED
    BY <2>3 DEF Under, m
<1>4. QED
  BY <1>2, <1>3

LEMMA MovedBack ==
  ASSUME NEW S, NEW p \in Seq(S), NEW q \in Seq(S), NEW x \in Seq(S), Under(p, x)
  PROVE  Moved(q, p, Moved(p, q, x)) = x
<1> DEFINE m == Moved(p, q, x)
           b == Moved(q, p, m)
<1>1. /\ m \in Seq(S) /\ Len(p) <= Len(x) /\ Len(m) = Len(q) + Len(x) - Len(p)
      /\ \A i \in Len(p) + 1 .. Len(x) : m[i - Len(p) + Len(q)] = x[i]
  <2>1. MovesTo(S, p, q, x, m)
    BY MovedIs
  <2> HIDE DEF m, b
  <2>2. QED
    BY <2>1 DEF MovesTo
<1>2. Under(q, m)
  BY MovedUnder
<1> HIDE DEF m
<1>3. /\ b \in Seq(S) /\ Len(q) <= Len(m) /\ Len(b) = Len(p) + Len(m) - Len(q)
      /\ \A i \in 1 .. Len(p) : b[i] = p[i]
      /\ \A i \in Len(q) + 1 .. Len(m) : b[i - Len(q) + Len(p)] = m[i]
  <2>1. MovesTo(S, q, p, m, b)
    BY <1>1, <1>2, MovedIs
  <2> HIDE DEF b
  <2>2. QED
    BY <2>1 DEF MovesTo
<1> HIDE DEF b
<1>4. Len(b) = Len(x)
  BY <1>1, <1>3
<1>5. \A i \in 1 .. Len(p) : x[i] = p[i]
  BY AtopIs DEF Under
<1>6. ASSUME NEW i \in 1 .. Len(x) PROVE b[i] = x[i]
  <2>1. CASE i <= Len(p)
    BY <1>3, <1>5, <2>1
  <2>2. CASE i > Len(p)
    <3>1. i \in Len(p) + 1 .. Len(x) /\ i - Len(p) + Len(q) \in Len(q) + 1 .. Len(m)
      BY <1>1, <1>6, <2>2
    <3>2. b[(i - Len(p) + Len(q)) - Len(q) + Len(p)] = m[i - Len(p) + Len(q)]
      BY <1>3, <3>1
    <3>3. (i - Len(p) + Len(q)) - Len(q) + Len(p) = i
      OBVIOUS
    <3>4. QED
      BY <1>1, <3>1, <3>2, <3>3
  <2>3. QED
    BY <2>1, <2>2
<1>7. QED
  BY <1>3, <1>4, <1>6, SeqEqual DEF b, m

LEMMA MovedParent ==
  ASSUME NEW p \in Paths, NEW q \in Paths, NEW x \in Paths, Atop(p, x), Moved(p, q, x) \in Paths
  PROVE  /\ Len(x) > 1 /\ Under(p, Parent(x)) /\ Len(Moved(p, q, x)) > 1
         /\ Moved(p, q, Parent(x)) = Parent(Moved(p, q, x))
<1> DEFINE S == Components
           m == Moved(p, q, x)
           y == Parent(x)
           n == Moved(p, q, y)
<1>1. p \in Seq(S) /\ q \in Seq(S) /\ x \in Seq(S) /\ Len(q) \in Nat \ {0}
  BY PathTyped
<1>2. Len(x) > 1 /\ Under(p, y) /\ Len(p) < Len(x)
  BY <1>1, AtopParent, AtopIs
<1>3. y \in Seq(S) /\ Len(y) = Len(x) - 1 /\ \A i \in 1 .. Len(y) : y[i] = x[i]
  <2>1. y \in Paths /\ Len(y) = Len(x) - 1 /\ Atop(y, x)
    BY <1>2, ParentTyped
  <2>2. y \in Seq(S)
    BY <2>1, PathTyped
  <2>3. QED
    BY <1>1, <2>1, <2>2, AtopIs, SMTT(30)
<1>4. /\ m \in Seq(S) /\ Len(m) = Len(q) + Len(x) - Len(p)
      /\ \A i \in 1 .. Len(q) : m[i] = q[i]
      /\ \A i \in Len(p) + 1 .. Len(x) : m[i - Len(p) + Len(q)] = x[i]
  <2>1. Under(p, x)
    BY DEF Under
  <2>2. MovesTo(S, p, q, x, m)
    BY <1>1, <2>1, MovedIs
  <2> HIDE DEF m
  <2>3. QED
    BY <2>2 DEF MovesTo
<1>5. /\ n \in Seq(S) /\ Len(p) <= Len(y) /\ Len(n) = Len(q) + Len(y) - Len(p)
      /\ \A i \in 1 .. Len(q) : n[i] = q[i]
      /\ \A i \in Len(p) + 1 .. Len(y) : n[i - Len(p) + Len(q)] = y[i]
  <2>1. MovesTo(S, p, q, y, n)
    BY <1>1, <1>2, <1>3, MovedIs
  <2> HIDE DEF n, y
  <2>2. QED
    BY <2>1 DEF MovesTo
<1>6. Len(m) > 1
  BY <1>1, <1>2, <1>4
<1> HIDE DEF n
<1>7. /\ Parent(m) \in Seq(S) /\ Len(Parent(m)) = Len(m) - 1
      /\ \A i \in 1 .. Len(m) - 1 : Parent(m)[i] = m[i]
  <2>1. Parent(m) \in Paths /\ Len(Parent(m)) = Len(m) - 1 /\ Atop(Parent(m), m)
    BY <1>6, ParentTyped
  <2>2. Parent(m) \in Seq(S)
    BY <2>1, PathTyped
  <2>3. QED
    BY <1>4, <2>1, <2>2, AtopIs
<1> HIDE DEF m, y
<1>8. Len(n) = Len(Parent(m))
  BY <1>1, <1>3, <1>4, <1>5, <1>7
<1>9. ASSUME NEW i \in 1 .. Len(n) PROVE n[i] = Parent(m)[i]
  <2>0. i \in 1 .. Len(m) - 1 /\ Parent(m)[i] = m[i]
    BY <1>7, <1>8
  <2>1. CASE i <= Len(q)
    BY <1>1, <1>4, <1>5, <2>0, <2>1
  <2>2. CASE i > Len(q)
    <3> DEFINE j == i - Len(q) + Len(p)
    <3>1. j \in Len(p) + 1 .. Len(y) /\ j \in Len(p) + 1 .. Len(x) /\ j \in 1 .. Len(y)
      BY <1>1, <1>3, <1>5, <1>9, <2>2
    <3>2. j - Len(p) + Len(q) = i
      BY <1>1
    <3> HIDE DEF j
    <3>3. n[i] = y[j] /\ m[i] = x[j] /\ y[j] = x[j]
      BY <1>3, <1>4, <1>5, <3>1, <3>2
    <3>4. QED
      BY <2>0, <3>3
  <2>3. QED
    BY <1>1, <2>1, <2>2
<1>10. n = Parent(m)
  BY <1>5, <1>7, <1>8, <1>9, SeqEqual
<1>11. QED
  BY <1>2, <1>6, <1>10 DEF n, m, y

-----------------------------------------------------------------------------
(* What is left of a list of snapshots                                     *)

(* What Pick takes, and where from. *)
PickedFrom(list, S, out, at) ==
  /\ at \in [1 .. Len(out) -> 1 .. Len(list)]
  /\ \A i, j \in 1 .. Len(out) : i < j => at[i] < at[j]
  /\ \A i \in 1 .. Len(out) : at[i] \in S /\ out[i] = list[at[i]]
  /\ \A k \in S \cap 1 .. Len(list) : \E i \in 1 .. Len(out) : at[i] = k

LEMMA PickTakes ==
  ASSUME NEW V, NEW list \in Seq(V), NEW S
  PROVE  /\ Pick(list, S) \in Seq(V)
         /\ \E at : PickedFrom(list, S, Pick(list, S), at)
<1> DEFINE a == Picked(list, S)
           Takes(i, at) ==
             /\ a[i] \in Seq(V) /\ at \in [1 .. Len(a[i]) -> 1 .. i]
             /\ \A j, k \in 1 .. Len(a[i]) : j < k => at[j] < at[k]
             /\ \A j \in 1 .. Len(a[i]) : at[j] \in S /\ a[i][j] = list[at[j]]
             /\ \A k \in S \cap 1 .. i : \E j \in 1 .. Len(a[i]) : at[j] = k
           Right == {i \in 0 .. Len(list) : \E at : Takes(i, at)}
<1>0. Len(list) \in Nat
  OBVIOUS
<1>1. /\ a[0] = <<>>
      /\ \A i \in 1 .. Len(list) : a[i] = IF i \in S THEN Append(a[i - 1], list[i]) ELSE a[i - 1]
  <2>1. PickedTo(list, S, Len(list), a)
    BY <1>0, PickedExists
  <2> HIDE DEF a
  <2>2. PICK n \in Nat : n = Len(list)
    BY <1>0
  <2>3. /\ a[0] = <<>>
        /\ \A i \in 1 .. n : a[i] = IF i \in S THEN Append(a[i - 1], list[i]) ELSE a[i - 1]
    BY <2>1, <2>2, PickedStep
  <2>4. QED
    BY <2>2, <2>3
<1> HIDE DEF a
<1>2. 0 \in Right
  <2> DEFINE none == [j \in 1 .. 0 |-> j]
  <2>1. a[0] \in Seq(V) /\ Len(a[0]) = 0 /\ 1 .. 0 = {} /\ 0 \in 0 .. Len(list)
    BY <1>0, <1>1
  <2>2. none \in [1 .. 0 -> 1 .. 0]
    OBVIOUS
  <2>3. Takes(0, none)
    BY <2>1, <2>2
  <2>4. QED
    BY <2>1, <2>3
<1>3. ASSUME NEW i \in 1 .. Len(list), i - 1 \in Right PROVE i \in Right
  <2>1. PICK at : Takes(i - 1, at)
    BY <1>3
  <2>2. i \in 0 .. Len(list) /\ list[i] \in V /\ i - 1 \in Nat /\ i \in Nat
    BY <1>0
  <2>3. CASE i \notin S
    <3>1. a[i] = a[i - 1] /\ S \cap 1 .. i = S \cap 1 .. (i - 1)
      BY <1>1, <2>2, <2>3
    <3>2. at \in [1 .. Len(a[i]) -> 1 .. i]
      BY <2>1, <2>2, <3>1
    <3>3. Takes(i, at)
      BY <2>1, <3>1, <3>2
    <3>4. QED
      BY <2>2, <3>3
  <2>4. CASE i \in S
    <3>1. a[i] = Append(a[i - 1], list[i])
      BY <1>1, <2>4
    <3>2. PICK m \in Nat : m = Len(a[i - 1])
      BY <2>1
    <3>3. /\ a[i] \in Seq(V) /\ Len(a[i]) = m + 1 /\ a[i][m + 1] = list[i]
          /\ \A j \in 1 .. m : a[i][j] = a[i - 1][j]
      BY <2>1, <2>2, <3>1, <3>2
    <3> DEFINE more == [j \in 1 .. m + 1 |-> IF j = m + 1 THEN i ELSE at[j]]
    <3>4. more[m + 1] = i /\ \A j \in 1 .. m : more[j] = at[j] /\ at[j] \in 1 .. i - 1
      BY <2>1, <3>2
    <3>5. more \in [1 .. Len(a[i]) -> 1 .. i]
      BY <2>1, <2>2, <3>2, <3>3
    <3> HIDE DEF more
    <3>6. ASSUME NEW j \in 1 .. Len(a[i]), NEW k \in 1 .. Len(a[i]), j < k
          PROVE  more[j] < more[k]
      <4>1. j \in 1 .. m /\ more[j] = at[j] /\ at[j] \in 1 .. i - 1
        BY <3>2, <3>3, <3>4, <3>6
      <4>2. CASE k = m + 1
        BY <2>2, <3>4, <4>1, <4>2
      <4>3. CASE k \in 1 .. m
        BY <2>1, <3>2, <3>4, <3>6, <4>1, <4>3
      <4>4. QED
        BY <3>2, <3>3, <4>2, <4>3
    <3>7. ASSUME NEW j \in 1 .. Len(a[i]) PROVE more[j] \in S /\ a[i][j] = list[more[j]]
      <4>1. CASE j = m + 1
        BY <2>4, <3>3, <3>4, <4>1
      <4>2. CASE j \in 1 .. m
        BY <2>1, <3>2, <3>3, <3>4, <4>2
      <4>3. QED
        BY <3>2, <3>3, <4>1, <4>2
    <3>8. ASSUME NEW k \in S \cap 1 .. i PROVE \E j \in 1 .. Len(a[i]) : more[j] = k
      <4>1. CASE k = i
        BY <3>2, <3>3, <3>4, <4>1
      <4>2. CASE k \in 1 .. i - 1
        <5>1. PICK j \in 1 .. m : at[j] = k
          BY <2>1, <3>2, <4>2
        <5>2. more[j] = k
          BY <3>4, <5>1
        <5>3. j \in 1 .. Len(a[i])
          BY <3>2, <3>3
        <5>4. QED
          BY <5>2, <5>3
      <4>3. QED
        BY <2>2, <4>1, <4>2
    <3>9. Takes(i, more)
      BY <3>3, <3>5, <3>6, <3>7, <3>8
    <3>10. QED
      BY <2>2, <3>9
  <2>5. QED
    BY <2>3, <2>4
<1> HIDE DEF Right
<1>4. 0 .. Len(list) \subseteq Right
  BY <1>0, <1>2, <1>3, AllBelow
<1>5. Len(list) \in Right /\ Pick(list, S) = a[Len(list)]
  BY <1>0, <1>4, PickIsPicked DEF a
<1>6. PICK at : Takes(Len(list), at)
  BY <1>5 DEF Right
<1>7. QED
  BY <1>5, <1>6 DEF PickedFrom

Unique(list) == \A i, j \in 1 .. Len(list) : list[i].name = list[j].name => i = j

LEMMA WithoutFacts ==
  ASSUME NEW list \in Seq(Snapshots), Unique(list), NEW names, NEW out,
         out = Pick(list, {i \in 1 .. Len(list) : list[i].name \notin names})
  PROVE  /\ out \in Seq(Snapshots) /\ Unique(out)
         /\ NamesIn(out) = NamesIn(list) \ names
         /\ NamesIn(list) \cap names = {} => out = list
<1> DEFINE S == {i \in 1 .. Len(list) : list[i].name \notin names}
<1>1. out \in Seq(Snapshots) /\ \E at : PickedFrom(list, S, out, at)
  BY PickTakes
<1>2. PICK at : PickedFrom(list, S, out, at)
  BY <1>1
<1>3. /\ at \in [1 .. Len(out) -> 1 .. Len(list)]
      /\ \A i, j \in 1 .. Len(out) : i < j => at[i] < at[j]
      /\ \A i \in 1 .. Len(out) : at[i] \in S /\ out[i] = list[at[i]]
      /\ \A k \in S \cap 1 .. Len(list) : \E i \in 1 .. Len(out) : at[i] = k
  BY <1>2 DEF PickedFrom
<1>4. Unique(out)
  <2> SUFFICES ASSUME NEW i \in 1 .. Len(out), NEW j \in 1 .. Len(out), out[i].name = out[j].name
               PROVE  i = j
    BY DEF Unique
  <2>1. at[i] = at[j]
    BY <1>3 DEF Unique
  <2>2. i \in Int /\ j \in Int /\ at[i] \in Int /\ at[j] \in Int
    BY <1>3
  <2>3. (i < j => at[i] < at[j]) /\ (j < i => at[j] < at[i])
    BY <1>3
  <2>4. QED
    BY <2>1, <2>2, <2>3
<1>5. NamesIn(out) \subseteq NamesIn(list) \ names
  BY <1>3 DEF NamesIn
<1>6. NamesIn(list) \ names \subseteq NamesIn(out)
  <2> SUFFICES ASSUME NEW k \in 1 .. Len(list), list[k].name \notin names
               PROVE  list[k].name \in NamesIn(out)
    BY DEF NamesIn
  <2>1. PICK i \in 1 .. Len(out) : at[i] = k
    BY <1>3
  <2>2. out[i] = list[k]
    BY <1>3, <2>1
  <2>3. QED
    BY <2>2 DEF NamesIn
<1>7. NamesIn(list) \cap names = {} => out = list
  <2> SUFFICES ASSUME NamesIn(list) \cap names = {} PROVE out = list
    OBVIOUS
  <2>1. 1 .. Len(list) \subseteq S
    BY DEF NamesIn
  <2> HIDE DEF S
  <2>2. Pick(list, S) = list
    BY <2>1, PickAll
  <2>3. QED
    BY <2>2 DEF S
<1>8. QED
  BY <1>1, <1>4, <1>5, <1>6, <1>7

-----------------------------------------------------------------------------
(* What the requests leave is sound                                        *)

There(t, p) == t[p] # Absent
SoundPlace(t, s, m, p) ==
  /\ There(t, p) =>
       /\ Len(p) > 1 => There(t, Parent(p))
       /\ t[p].origin # Absent => t[p].origin[2] \in NamesIn(s[t[p].origin[1]])
  /\ ~There(t, p) => s[p] = <<>> /\ p \notin m
  /\ Unique(s[p])
TreeTyped(t, s, m) ==
  t \in [Paths -> Datasets] /\ s \in [Paths -> Seq(Snapshots)] /\ m \subseteq Paths

LEMMA SoundIs ==
  ASSUME NEW t, NEW s, NEW m
  PROVE  SoundTree(t, s, m) <=> TreeTyped(t, s, m) /\ \A p \in Paths : SoundPlace(t, s, m, p)
BY DEF SoundTree, TreeTyped, SoundPlace, There, Unique

LEMMA DatasetTyped ==
  ASSUME NEW d \in Datasets, d # Absent
  PROVE  /\ d \in [mode : Modes, origin : (Paths \X SnapNames) \cup {Absent}, own : Own]
         /\ d.mode \in Modes /\ d.origin \in (Paths \X SnapNames) \cup {Absent} /\ d.own \in Own
         /\ d.origin # Absent =>
              /\ d.origin[1] \in Paths /\ d.origin[2] \in SnapNames
              /\ d.origin = <<d.origin[1], d.origin[2]>>
BY DEF Datasets

LEMMA OriginTyped ==
  ASSUME NEW t \in [Paths -> Datasets], NEW p \in Paths, There(t, p), t[p].origin # Absent
  PROVE  t[p].origin[1] \in Paths
<1>1. t[p] \in Datasets /\ t[p] # Absent
  BY DEF There
<1>2. QED
  BY <1>1, DatasetTyped

LEMMA MountsSound ==
  ASSUME NEW t, NEW s, NEW m, SoundTree(t, s, m), NEW n,
         \A p \in n : p \in m \/ (p \in Paths /\ There(t, p))
  PROVE  SoundTree(t, s, n)
<1>1. TreeTyped(t, s, n)
  BY SoundIs DEF TreeTyped
<1>2. ASSUME NEW p \in Paths PROVE SoundPlace(t, s, n, p)
  <2>1. SoundPlace(t, s, m, p)
    BY SoundIs
  <2>2. QED
    BY <2>1 DEF SoundPlace
<1>3. QED
  BY <1>1, <1>2, SoundIs

LEMMA OwnSound ==
  ASSUME NEW t, NEW s, NEW m, SoundTree(t, s, m), NEW u,
         u \in [Paths -> Datasets],
         \A p \in Paths : /\ There(u, p) <=> There(t, p)
                          /\ There(t, p) => u[p].origin = t[p].origin
  PROVE  SoundTree(u, s, m)
<1>1. TreeTyped(u, s, m)
  BY SoundIs DEF TreeTyped
<1>2. ASSUME NEW p \in Paths PROVE SoundPlace(u, s, m, p)
  <2>1. SoundPlace(t, s, m, p)
    BY SoundIs
  <2>2. There(u, p) => There(t, p) /\ u[p].origin = t[p].origin
    OBVIOUS
  <2>3. There(t, p) /\ Len(p) > 1 => There(u, Parent(p))
    BY <2>1, ParentTyped DEF SoundPlace
  <2>4. QED
    BY <2>1, <2>2, <2>3 DEF SoundPlace
<1>3. QED
  BY <1>1, <1>2, SoundIs

LEMMA AddedSound ==
  ASSUME NEW t, NEW s, NEW m, SoundTree(t, s, m), NEW new \in SUBSET Paths, NEW u, NEW n,
         \A p \in new : ~There(t, p) /\ (Len(p) > 1 => There(t, Parent(p)) \/ Parent(p) \in new),
         u \in [Paths -> Datasets],
         \A p \in Paths : IF p \in new THEN There(u, p) /\ u[p].origin = Absent ELSE u[p] = t[p],
         m \subseteq n, n \subseteq m \cup new
  PROVE  SoundTree(u, s, n)
<1>1. TreeTyped(u, s, n)
  BY SoundIs DEF TreeTyped
<1>2. ASSUME NEW p \in Paths PROVE SoundPlace(u, s, n, p)
  <2>1. SoundPlace(t, s, m, p)
    BY SoundIs
  <2>2. \A q \in Paths : There(t, q) => There(u, q) /\ u[q] = t[q]
    BY DEF There
  <2>3. Len(p) > 1 => Parent(p) \in Paths
    BY ParentTyped
  <2>4. CASE p \in new
    BY <2>1, <2>2, <2>3, <2>4 DEF SoundPlace
  <2>5. CASE p \notin new
    <3>1. u[p] = t[p] /\ (There(u, p) <=> There(t, p))
      BY <2>5 DEF There
    <3>2. QED
      BY <2>1, <2>2, <2>3, <2>5, <3>1 DEF SoundPlace
  <2>6. QED
    BY <2>4, <2>5
<1>3. QED
  BY <1>1, <1>2, SoundIs

LEMMA SnapsSound ==
  ASSUME NEW t, NEW s, NEW m, SoundTree(t, s, m), NEW r,
         r \in [Paths -> Seq(Snapshots)],
         \A p \in Paths : Unique(r[p]) /\ (~There(t, p) => r[p] = <<>>),
         \A p \in Paths : There(t, p) /\ t[p].origin # Absent =>
           t[p].origin[2] \in NamesIn(r[t[p].origin[1]])
  PROVE  SoundTree(t, r, m)
<1>1. TreeTyped(t, r, m)
  BY SoundIs DEF TreeTyped
<1>2. ASSUME NEW p \in Paths PROVE SoundPlace(t, r, m, p)
  <2>1. SoundPlace(t, s, m, p)
    BY SoundIs
  <2>2. QED
    BY <2>1 DEF SoundPlace
<1>3. QED
  BY <1>1, <1>2, SoundIs

(* What is taken away has nothing below it and no clones that stay. *)
LEMMA TakenSound ==
  ASSUME NEW t, NEW s, NEW m, SoundTree(t, s, m), NEW dead \in SUBSET Paths, NEW u, NEW r, NEW n,
         u \in [Paths -> Datasets], r \in [Paths -> Seq(Snapshots)], n \subseteq m \ dead,
         \A p \in Paths : u[p] = IF p \in dead THEN Absent ELSE t[p],
         \A p \in Paths : Unique(r[p]) /\ (~There(t, p) \/ p \in dead => r[p] = <<>>),
         \A p \in Paths \ dead : There(t, p) =>
           /\ Len(p) > 1 => Parent(p) \notin dead
           /\ t[p].origin # Absent => t[p].origin[2] \in NamesIn(r[t[p].origin[1]])
  PROVE  SoundTree(u, r, n)
<1>1. TreeTyped(u, r, n)
  BY SoundIs DEF TreeTyped
<1>2. ASSUME NEW p \in Paths PROVE SoundPlace(u, r, n, p)
  <2>1. SoundPlace(t, s, m, p)
    BY SoundIs
  <2>2. Len(p) > 1 => Parent(p) \in Paths
    BY ParentTyped
  <2>3. CASE p \in dead
    BY <2>1, <2>3 DEF SoundPlace, There
  <2>4. CASE p \notin dead
    <3>1. u[p] = t[p] /\ (There(u, p) <=> There(t, p))
      BY <2>4 DEF There
    <3>2. There(t, p) /\ Len(p) > 1 => There(u, Parent(p))
      BY <2>1, <2>2, <2>4 DEF SoundPlace, There
    <3>3. QED
      BY <2>1, <2>4, <3>1, <3>2 DEF SoundPlace
  <2>5. QED
    BY <2>3, <2>4
<1>3. QED
  BY <1>1, <1>2, SoundIs

LEMMA ThereAbove ==
  ASSUME NEW t, NEW s, NEW m, SoundTree(t, s, m), NEW p \in Paths, NEW x \in Paths,
         Under(p, x), There(t, x)
  PROVE  There(t, p)
<1> DEFINE Bad == {y \in Paths : There(t, y) /\ Atop(p, y)}
           Long == {Len(y) : y \in Bad}
<1> SUFFICES ASSUME ~There(t, p) PROVE FALSE
  OBVIOUS
<1>1. x \in Bad
  BY DEF Under
<1>2. Long \in SUBSET Nat /\ Long # {}
  BY <1>1, PathTyped
<1>3. PICK y \in Bad : \A z \in Bad : Len(y) <= Len(z)
  <2>1. PICK n \in Long : \A l \in Long : n <= l
    <3> HIDE DEF Long
    <3>1. QED
      BY <1>2, LeastOf
  <2>2. PICK y \in Bad : Len(y) = n
    OBVIOUS
  <2>3. \A z \in Bad : Len(z) \in Long
    OBVIOUS
  <2>4. QED
    BY <2>1, <2>2, <2>3
<1>4. Len(y) > 1 /\ Under(p, Parent(y)) /\ y \in Paths
  BY AtopParent
<1>5. There(t, Parent(y))
  <2>1. SoundPlace(t, s, m, y)
    BY SoundIs
  <2>2. QED
    BY <1>4, <2>1 DEF SoundPlace
<1>6. Parent(y) \in Paths /\ Len(Parent(y)) = Len(y) - 1
  BY <1>4, ParentTyped
<1>7. Parent(y) \in Bad
  BY <1>4, <1>5, <1>6 DEF Under
<1>8. Len(y) <= Len(Parent(y)) /\ Len(y) \in Nat
  BY <1>3, <1>7, PathTyped
<1>9. QED
  BY <1>6, <1>8

Renamed(t, p, q, x) ==
  LET w == Was(p, q, x) IN
  IF Under(p, x) \/ w \notin Paths \/ t[w] = Absent THEN Absent
  ELSE [t[w] EXCEPT !.origin = IF @ = Absent THEN @ ELSE <<Moved(p, q, @[1]), @[2]>>]
SnapsRenamed(s, p, q, x) ==
  LET w == Was(p, q, x) IN IF Under(p, x) \/ w \notin Paths THEN <<>> ELSE s[w]

LEMMA WasMoved ==
  ASSUME NEW p, NEW q, NEW x
  PROVE  Was(p, q, x) = Moved(q, p, x)
BY DEF Was, Moved

LEMMA StaysPut ==
  ASSUME NEW p, NEW q, NEW x, ~Under(p, x)
  PROVE  Moved(p, q, x) = x
BY DEF Moved, Under

LEMMA RenamedSound ==
  ASSUME NEW t, NEW s, NEW m, SoundTree(t, s, m), NEW p \in Paths, NEW q \in Paths,
         There(t, p), ~There(t, q), ~Atop(p, q), Len(q) > 1 => There(t, Parent(q)),
         \A x \in Paths : There(t, x) /\ Under(p, x) => Moved(p, q, x) \in Paths
  PROVE  SoundTree([x \in Paths |-> Renamed(t, p, q, x)],
                   [x \in Paths |-> SnapsRenamed(s, p, q, x)],
                   {Moved(p, q, x) : x \in m})
<1> DEFINE u == [x \in Paths |-> Renamed(t, p, q, x)]
           r == [x \in Paths |-> SnapsRenamed(s, p, q, x)]
           n == {Moved(p, q, x) : x \in m}
<1>1. TreeTyped(t, s, m) /\ \A x \in Paths : SoundPlace(t, s, m, x)
  BY SoundIs
<1>2. \A x \in Paths : ~(Under(p, x) /\ Under(q, x))
  <2> SUFFICES ASSUME NEW x \in Paths, Under(p, x), Under(q, x) PROVE FALSE
    OBVIOUS
  <2>1. Near(p, q)
    BY Comparable
  <2>2. Under(q, p)
    BY <2>1 DEF Near, Under
  <2>3. QED
    BY <2>2, ThereAbove
<1>3. \A x \in Paths : There(t, x) => ~Under(q, x)
  BY ThereAbove
\* where x is called what it is called afterwards
<1>4. ASSUME NEW x \in Paths, There(t, x)
      PROVE  /\ Moved(p, q, x) \in Paths /\ ~Under(p, Moved(p, q, x))
             /\ Was(p, q, Moved(p, q, x)) = x
  <2>1. CASE Under(p, x)
    <3>1. Moved(p, q, x) \in Paths
      BY <1>4, <2>1
    <3>2. p \in Seq(Components) /\ q \in Seq(Components) /\ x \in Seq(Components)
      BY PathTyped
    <3>3. Under(q, Moved(p, q, x)) /\ Moved(q, p, Moved(p, q, x)) = x
      BY <2>1, <3>2, MovedUnder, MovedBack
    <3>4. QED
      BY <1>2, <3>1, <3>3, WasMoved
  <2>2. CASE ~Under(p, x)
    <3>1. Moved(p, q, x) = x
      BY <2>2, StaysPut
    <3>2. Moved(q, p, x) = x
      BY <1>3, <1>4, StaysPut
    <3>3. QED
      BY <2>2, <3>1, <3>2, WasMoved
  <2>3. QED
    BY <2>1, <2>2
<1>5. ASSUME NEW y \in Paths, NEW w \in Paths, w = Was(p, q, y), ~Under(p, y), There(t, w)
      PROVE  /\ There(u, y) /\ u[y] \in Datasets /\ r[y] = s[w]
             /\ u[y].origin = IF t[w].origin = Absent THEN Absent
                              ELSE <<Moved(p, q, t[w].origin[1]), t[w].origin[2]>>
             /\ t[w].origin # Absent => /\ t[w].origin[1] \in Paths /\ There(t, t[w].origin[1])
                                        /\ t[w].origin[2] \in NamesIn(s[t[w].origin[1]])
  <2> DEFINE o == IF t[w].origin = Absent THEN Absent
                  ELSE <<Moved(p, q, t[w].origin[1]), t[w].origin[2]>>
  <2>1. t[w] \in Datasets /\ t[w] # Absent
    BY <1>1, <1>5 DEF TreeTyped, There
  <2>2. /\ t[w] \in [mode : Modes, origin : (Paths \X SnapNames) \cup {Absent}, own : Own]
        /\ t[w].origin # Absent =>
              t[w].origin[1] \in Paths /\ t[w].origin[2] \in SnapNames
    BY <2>1, DatasetTyped
  <2>3. u[y] = [t[w] EXCEPT !.origin = o]
    BY <1>5, <2>1 DEF Renamed
  <2>4. r[y] = s[w]
    BY <1>5 DEF SnapsRenamed
  <2>5. t[w].origin # Absent => /\ There(t, t[w].origin[1])
                                /\ t[w].origin[2] \in NamesIn(s[t[w].origin[1]])
    <3> SUFFICES ASSUME t[w].origin # Absent
                 PROVE  /\ There(t, t[w].origin[1])
                        /\ t[w].origin[2] \in NamesIn(s[t[w].origin[1]])
      OBVIOUS
    <3>1. t[w].origin[2] \in NamesIn(s[t[w].origin[1]])
      BY <1>1, <1>5 DEF SoundPlace
    <3>2. s[t[w].origin[1]] # <<>>
      BY <3>1 DEF NamesIn
    <3>3. QED
      BY <1>1, <2>2, <3>1, <3>2 DEF SoundPlace
  <2>6. o \in (Paths \X SnapNames) \cup {Absent}
    BY <1>4, <2>2, <2>5
  <2> HIDE DEF o
  <2>7. /\ u[y] \in [mode : Modes, origin : (Paths \X SnapNames) \cup {Absent}, own : Own]
        /\ u[y].origin = o
    BY <2>2, <2>3, <2>6
  <2>8. u[y] # Absent
    BY <2>7, ZfsAssumption
  <2>9. QED
    BY <2>2, <2>4, <2>5, <2>7, <2>8 DEF Datasets, There, o
<1>6. ASSUME NEW y \in Paths, ~(Was(p, q, y) \in Paths /\ ~Under(p, y) /\ There(t, Was(p, q, y)))
      PROVE  u[y] = Absent /\ r[y] = <<>>
  <2>1. u[y] = Absent
    BY <1>6 DEF Renamed, There
  <2>2. r[y] = <<>>
    BY <1>1, <1>6 DEF SnapsRenamed, SoundPlace
  <2>3. QED
    BY <2>1, <2>2
<1>7. ASSUME NEW x \in Paths, There(t, x)
      PROVE  There(u, Moved(p, q, x)) /\ r[Moved(p, q, x)] = s[x]
  BY <1>4, <1>5, <1>7
<1>8. TreeTyped(u, r, n)
  <2>1. ASSUME NEW y \in Paths PROVE Renamed(t, p, q, y) \in Datasets /\ SnapsRenamed(s, p, q, y) \in Seq(Snapshots)
    <3>1. u[y] = Renamed(t, p, q, y) /\ r[y] = SnapsRenamed(s, p, q, y)
      OBVIOUS
    <3> HIDE DEF u, r
    <3>2. CASE Was(p, q, y) \in Paths /\ ~Under(p, y) /\ There(t, Was(p, q, y))
      <4>1. PICK w \in Paths : w = Was(p, q, y)
        BY <3>2
      <4>2. u[y] \in Datasets /\ r[y] = s[w]
        BY <1>5, <3>2, <4>1
      <4>3. s[w] \in Seq(Snapshots)
        BY <1>1 DEF TreeTyped
      <4>4. QED
        BY <3>1, <4>2, <4>3
    <3>3. CASE ~(Was(p, q, y) \in Paths /\ ~Under(p, y) /\ There(t, Was(p, q, y)))
      <4>1. u[y] = Absent /\ r[y] = <<>>
        BY <1>6, <3>3
      <4>2. Absent \in Datasets /\ <<>> \in Seq(Snapshots)
        BY DEF Datasets
      <4>3. QED
        BY <3>1, <4>1, <4>2
    <3>4. QED
      BY <3>2, <3>3
  <2>2. \A x \in m : Moved(p, q, x) \in Paths
    BY <1>1, <1>4 DEF TreeTyped, SoundPlace
  <2>3. QED
    BY <2>1, <2>2 DEF TreeTyped
<1>9. ASSUME NEW y \in Paths PROVE SoundPlace(u, r, n, y)
  <2> DEFINE w == Was(p, q, y)
  <2>1. CASE ~(w \in Paths /\ ~Under(p, y) /\ There(t, w))
    <3>1. u[y] = Absent /\ r[y] = <<>>
      BY <1>6, <2>1
    <3>2. y \notin n
      <4> SUFFICES ASSUME NEW x \in m, y = Moved(p, q, x) PROVE FALSE
        OBVIOUS
      <4>1. x \in Paths /\ There(t, x)
        BY <1>1 DEF TreeTyped, SoundPlace
      <4>2. There(u, y)
        BY <1>7, <4>1
      <4>3. QED
        BY <3>1, <4>2 DEF There
    <3> HIDE DEF u, r, n
    <3>3. Unique(r[y])
      BY <3>1 DEF Unique
    <3>4. QED
      BY <3>1, <3>2, <3>3 DEF SoundPlace, There
  <2>2. CASE w \in Paths /\ ~Under(p, y) /\ There(t, w)
    <3> HIDE DEF u, r, n, w
    <3>1. /\ There(u, y) /\ r[y] = s[w]
          /\ u[y].origin = IF t[w].origin = Absent THEN Absent
                           ELSE <<Moved(p, q, t[w].origin[1]), t[w].origin[2]>>
          /\ t[w].origin # Absent => /\ t[w].origin[1] \in Paths /\ There(t, t[w].origin[1])
                                     /\ t[w].origin[2] \in NamesIn(s[t[w].origin[1]])
      BY <1>5, <2>2 DEF w
    <3>2. SoundPlace(t, s, m, w)
      BY <1>1, <2>2
    <3>3. u[y].origin # Absent => u[y].origin[2] \in NamesIn(r[u[y].origin[1]])
      BY <1>7, <3>1
    <3>4. ASSUME Len(y) > 1 PROVE There(u, Parent(y))
      <4>1. Parent(y) \in Paths /\ Atop(Parent(y), y)
        BY <3>4, ParentTyped
      <4>2. ~Under(p, Parent(y))
        BY <2>2, <4>1, UnderTransitive DEF Under
      <4>3. CASE ~Under(q, y)
        <5>1. ~Under(q, Parent(y))
          BY <4>1, <4>3, UnderTransitive DEF Under
        <5>2. w = y /\ Was(p, q, Parent(y)) = Parent(y)
          BY <4>3, <5>1, StaysPut, WasMoved DEF w
        <5>3. There(t, Parent(y))
          BY <3>2, <3>4, <5>2, <2>2 DEF SoundPlace
        <5>4. QED
          BY <1>5, <4>1, <4>2, <5>2, <5>3
      <4>4. CASE y = q
        <5>1. ~Under(q, Parent(y))
          BY <4>1, <4>4, PathTyped DEF Under, Atop
        <5>2. Was(p, q, Parent(y)) = Parent(y)
          BY <5>1, StaysPut, WasMoved
        <5>3. QED
          BY <1>5, <3>4, <4>1, <4>2, <4>4, <5>2
      <4>5. CASE Atop(q, y)
        <5>1. w = Moved(q, p, y)
          BY WasMoved DEF w
        <5>2. Len(w) > 1 /\ Under(q, Parent(y)) /\ Moved(q, p, Parent(y)) = Parent(w)
          BY <2>2, <4>5, <5>1, MovedParent
        <5>3. Parent(w) \in Paths /\ There(t, Parent(w))
          BY <2>2, <3>2, <5>2, ParentTyped DEF SoundPlace
        <5>4. Was(p, q, Parent(y)) = Parent(w)
          BY <5>2, WasMoved
        <5>5. QED
          BY <1>5, <4>1, <4>2, <5>3, <5>4
      <4>6. QED
        BY <4>3, <4>4, <4>5 DEF Under
    <3>5. QED
      BY <3>1, <3>2, <3>3, <3>4, <2>2 DEF SoundPlace
  <2>3. QED
    BY <2>1, <2>2
<1>10. QED
  BY <1>8, <1>9, SoundIs

-----------------------------------------------------------------------------
(* Calls                                                                   *)

Places == PathOps \cup {"mountAll", "unmountAll", "idle", "return", "createMount", "renameTo",
                        "snapTake", "snapDrop", "mergeRemove", "mergeSet", "propRemove",
                        "mountNext", "unmountNext", "walk"}
ReqRecords ==
  [op : PathOps \cup {"mountAll", "unmountAll", "none"}, path : Paths \cup {<<>>},
   to : Paths \cup {<<>>}, snap : SnapNames \cup {Absent}, new : SnapNames \cup {Absent},
   desc : Descs \cup {Absent}, flag : BOOLEAN, how : {"plain", "recursive", "noparams"},
   mode : Modes, props : Own]
Frames ==
  {f \in [path : Paths, snap : SnapNames \cup {Absent},
          phase : {"children", "clones", "snaps", "destroy"}, owed : SUBSET (Paths \cup SnapNames)] :
     f.phase = "clones" => f.snap \in SnapNames /\ f.owed \subseteq Paths}
States == [tree : [Paths -> Datasets], snaps : [Paths -> Seq(Snapshots)], mnt : SUBSET Paths]
CallRecords ==
  [req : ReqRecords, todo : SUBSET (Uprops \cup Paths), src : Own, stack : Seq(Frames),
   batch : SUBSET (Paths \X SnapNames), ok : BOOLEAN, apart : BOOLEAN, refused : BOOLEAN,
   before : States \cup {Absent}]

(* where the work of a function may be *)
At(pc, op) ==
  \/ pc \in {op, "return"}
  \/ op = "create" /\ pc = "createMount"
  \/ op = "rename" /\ pc = "renameTo"
  \/ op = "snapCreate" /\ pc = "snapTake"
  \/ op = "snapDestroy" /\ pc = "snapDrop"
  \/ op = "merge" /\ pc \in {"mergeRemove", "mergeSet"}
  \/ op = "propsRemove" /\ pc = "propRemove"
  \/ op = "mountAll" /\ pc = "mountNext"
  \/ op = "unmountAll" /\ pc = "unmountNext"
  \/ op = "destroy" /\ pc = "walk"

(* Where there are no clones the walk of a destroy stays below its dataset. *)
FrameFits(r, f) == Under(r.path, f.path) /\ (f.phase = "clones" => f.owed = {})
WalkFits(call) ==
  /\ call.stack # <<>> /\ call.stack[1].phase # "clones"
  /\ ~AnyClone(call.before.tree) =>
       /\ \A i \in 1 .. Len(call.stack) : FrameFits(call.req, call.stack[i])
       /\ \A b \in call.batch : Under(call.req.path, b[1])

CallFits(pc, call) ==
  /\ pc # "idle" => Sensible(call.req) /\ At(pc, call.req.op) /\ call.before \in States
  /\ pc = "walk" => WalkFits(call)
  /\ pc \in {"snapTake", "snapDrop"} => \A q \in call.todo : q \in Paths /\ Under(call.req.path, q)
  /\ pc \in {"mountNext", "unmountNext"} => call.todo \subseteq Paths
  /\ pc \in PathOps \cup {"idle"} => call.todo = {} /\ call.batch = {}

CallsInv ==
  /\ zpc \in [Callers -> Places] /\ zcall \in [Callers -> CallRecords]
  /\ \A c \in Callers : CallFits(zpc[c], zcall[c])
ClonesKnown ==
  \A c \in Callers : zpc[c] # "idle" /\ AnyClone(tree) => AnyClone(zcall[c].before.tree)
ZfsInv == SoundTree(tree, snaps, mnt) /\ CallsInv /\ ClonesKnown

(* What a step of c does to the calls of others, and to what nobody changes of its own. *)
Steady(c) ==
  /\ \A d \in Callers \ {c} : zpc'[d] = zpc[d] /\ zcall'[d] = zcall[d]
  /\ zcall'[c].req = zcall[c].req /\ zcall'[c].before = zcall[c].before
  /\ zcall'[c].apart = zcall[c].apart

SameCall(x, y) == y.req = x.req /\ y.before = x.before /\ y.apart = x.apart

LEMMA NoPropsOwn == NoProps \in Own
BY DEF NoProps, Own

LEMMA GoIs ==
  ASSUME CallsInv, NEW c \in Callers, NEW where \in Places, NEW call \in CallRecords,
         SameCall(zcall[c], call), CallFits(where, call), Go(c, where, call)
  PROVE  CallsInv' /\ Steady(c) /\ zpc'[c] = where /\ zcall'[c] = call
<1>1. zpc' = [zpc EXCEPT ![c] = where] /\ zcall' = [zcall EXCEPT ![c] = call]
  BY DEF Go
<1>2. zpc \in [Callers -> Places] /\ zcall \in [Callers -> CallRecords]
      /\ \A d \in Callers : CallFits(zpc[d], zcall[d])
  BY DEF CallsInv
<1>3. /\ zpc'[c] = where /\ zcall'[c] = call
      /\ \A d \in Callers \ {c} : zpc'[d] = zpc[d] /\ zcall'[d] = zcall[d]
  BY <1>1, <1>2
<1>4. zpc' \in [Callers -> Places] /\ zcall' \in [Callers -> CallRecords]
  BY <1>1, <1>2
<1>5. \A d \in Callers : CallFits(zpc'[d], zcall'[d])
  BY <1>2, <1>3
<1>6. CallsInv'
  BY <1>4, <1>5 DEF CallsInv, CallFits, WalkFits, FrameFits, AnyClone, Sensible, At
<1>7. QED
  BY <1>3, <1>6 DEF Steady, SameCall

LEMMA Engaged ==
  ASSUME CallsInv, NEW c \in Callers, zpc[c] # "idle"
  PROVE  /\ zcall[c] \in CallRecords /\ Req(c) = zcall[c].req
         /\ Sensible(Req(c)) /\ At(zpc[c], Req(c).op) /\ zcall[c].before \in States
         /\ CallFits(zpc[c], zcall[c])
BY DEF CallsInv, CallFits, Req

LEMMA ReturnIs ==
  ASSUME CallsInv, NEW c \in Callers, zpc[c] # "idle", NEW ok \in BOOLEAN,
         NEW call \in CallRecords, SameCall(zcall[c], call), ReturnZfs(c, ok, call)
  PROVE  CallsInv' /\ Steady(c) /\ zpc'[c] = "return" /\ zcall'[c] = [call EXCEPT !.ok = ok]
<1> DEFINE done == [call EXCEPT !.ok = ok]
<1>1. done \in CallRecords /\ SameCall(zcall[c], done)
  BY DEF CallRecords, SameCall
<1>2. Go(c, "return", done)
  BY DEF ReturnZfs
<1>3. Sensible(done.req) /\ done.before \in States
  BY <1>1, Engaged DEF SameCall
<1> HIDE DEF done
<1>4. CallFits("return", done) /\ "return" \in Places
  BY <1>3 DEF CallFits, At, Places, PathOps
<1>5. QED
  BY <1>1, <1>2, <1>4, GoIs DEF done

LEMMA AnswerIs ==
  ASSUME NEW can \in BOOLEAN, NEW ok \in Answer(can)
  PROVE  ok \in BOOLEAN /\ (ok => can)
BY DEF Answer

LEMMA AnsweredIs ==
  ASSUME CallsInv, NEW c \in Callers, NEW can \in BOOLEAN, NEW ok \in BOOLEAN
  PROVE  LET call == Answered(c, can, ok)
         IN /\ call \in CallRecords /\ SameCall(zcall[c], call)
            /\ call.todo = zcall[c].todo /\ call.src = zcall[c].src /\ call.ok = zcall[c].ok
            /\ call.stack = zcall[c].stack /\ call.batch = zcall[c].batch
            /\ call.refused = (zcall[c].refused \/ (can /\ ~ok))
BY DEF CallsInv, CallRecords, Answered, SameCall

-----------------------------------------------------------------------------
(* What one step of a call does                                            *)

(* q is no business of request r *)
Away(q, r) ==
  /\ r.path \in Paths => ~Under(r.path, q)
  /\ r.to \in Paths => ~Under(r.to, q) /\ ~Atop(q, r.to)
Spared(q) == tree'[q] = tree[q] /\ snaps'[q] = snaps[q] /\ (q \in mnt' <=> q \in mnt)
KeepsAway(c) ==
  ~Everywhere(Req(c)) /\ (Req(c).op \in Reaching => ~AnyClone(tree) /\ ~AnyClone(Before(c).tree)) =>
    \A q \in Paths : Away(q, Req(c)) => Spared(q)
GoodStep(c) ==
  /\ SoundTree(tree', snaps', mnt') /\ KeepsAway(c)
  /\ AnyClone(tree') => AnyClone(tree)
  /\ CallsInv' /\ Steady(c)

LEMMA Untouched ==
  ASSUME ZfsInv, NEW c \in Callers, CallsInv', Steady(c), UNCHANGED Data
  PROVE  GoodStep(c)
BY DEF ZfsInv, Data, GoodStep, KeepsAway, Spared

LEMMA ReturnGood ==
  ASSUME ZfsInv, NEW c \in Callers, zpc[c] # "idle", NEW ok \in BOOLEAN,
         ReturnZfs(c, ok, zcall[c]), UNCHANGED Data
  PROVE  GoodStep(c)
<1>1. zcall[c] \in CallRecords /\ SameCall(zcall[c], zcall[c]) /\ CallsInv
  BY DEF ZfsInv, CallsInv, SameCall
<1>2. QED
  BY <1>1, ReturnIs, Untouched

LEMMA PathThere ==
  ASSUME CallsInv, NEW c \in Callers, zpc[c] # "idle", ~Everywhere(Req(c))
  PROVE  Req(c).path \in Paths
BY Engaged DEF Sensible, Everywhere, PathOps

LEMMA SnapGatherStep ==
  ASSUME ZfsInv, NEW c \in Callers, SnapGather(c)
  PROVE  GoodStep(c)
<1> DEFINE r == Req(c)
           call == [zcall[c] EXCEPT !.todo = Gathered(r.path, r.flag)]
<1>1. CallsInv /\ zpc[c] = "snapCreate" /\ UNCHANGED Data
  BY DEF ZfsInv, SnapGather
<1>2. CASE ~Exists(r.path)
  BY <1>1, <1>2, ReturnGood DEF SnapGather
<1>3. CASE Exists(r.path)
  <2>1. Go(c, "snapTake", call)
    BY <1>3 DEF SnapGather
  <2>2. /\ zcall[c] \in CallRecords /\ r = zcall[c].req /\ Sensible(r) /\ At(zpc[c], r.op)
        /\ zcall[c].before \in States
    BY <1>1, Engaged
  <2>3. r.op = "snapCreate" /\ r.path \in Paths
    BY <1>1, <2>2 DEF At, Sensible, PathOps
  <2>4. \A q \in Gathered(r.path, r.flag) : q \in Paths /\ Under(r.path, q)
    BY <2>3 DEF Gathered, Tree, Under
  <2>5. call \in CallRecords /\ SameCall(zcall[c], call) /\ call.todo = Gathered(r.path, r.flag)
    BY <2>2, <2>4 DEF CallRecords, SameCall
  <2> HIDE DEF call
  <2>6. CallFits("snapTake", call) /\ "snapTake" \in Places
    BY <2>2, <2>3, <2>4, <2>5 DEF CallFits, SameCall, At, Places, PathOps
  <2>7. QED
    BY <1>1, <2>1, <2>5, <2>6, GoIs, Untouched
<1>4. QED
  BY <1>2, <1>3

LEMMA DropGatherStep ==
  ASSUME ZfsInv, NEW c \in Callers, DropGather(c)
  PROVE  GoodStep(c)
<1> DEFINE r == Req(c)
           found == {q \in IF r.flag THEN Tree(r.path) ELSE {r.path} : r.snap \in SnapsOf(q)}
           call == [zcall[c] EXCEPT !.todo = found]
<1>1. CallsInv /\ zpc[c] = "snapDestroy" /\ UNCHANGED Data
  BY DEF ZfsInv, DropGather
<1>2. CASE ReturnZfs(c, FALSE, zcall[c])
  BY <1>1, <1>2, ReturnGood
<1>3. CASE Go(c, "snapDrop", call)
  <2>2. /\ zcall[c] \in CallRecords /\ r = zcall[c].req /\ Sensible(r) /\ At(zpc[c], r.op)
        /\ zcall[c].before \in States
    BY <1>1, Engaged
  <2>3. r.op = "snapDestroy" /\ r.path \in Paths
    BY <1>1, <2>2 DEF At, Sensible, PathOps
  <2>4. \A q \in found : q \in Paths /\ Under(r.path, q)
    BY <2>3 DEF Tree, Under
  <2> HIDE DEF found
  <2>5. call \in CallRecords /\ SameCall(zcall[c], call) /\ call.todo = found
    BY <2>2, <2>4 DEF CallRecords, SameCall
  <2> HIDE DEF call
  <2>6. CallFits("snapDrop", call) /\ "snapDrop" \in Places
    BY <2>2, <2>3, <2>4, <2>5 DEF CallFits, SameCall, At, Places, PathOps
  <2>7. QED
    BY <1>1, <1>3, <2>5, <2>6, GoIs, Untouched
<1>4. QED
  BY <1>2, <1>3 DEF DropGather

LEMMA GreatestOf ==
  ASSUME NEW n \in Nat, NEW S \in SUBSET (1 .. n), S # {}
  PROVE  \E x \in S : \A y \in S : y <= x
<1> DEFINE T == {m \in 0 .. n : n - m \in S}
<1>1. PICK x \in S : x \in 1 .. n
  OBVIOUS
<1>2. n - x \in T
  BY <1>1
<1>3. PICK m \in T : \A k \in T : m <= k
  <2>1. T \in SUBSET Nat
    OBVIOUS
  <2>2. T # {}
    BY <1>2
  <2> HIDE DEF T
  <2>3. QED
    BY <2>1, <2>2, LeastOf
<1>4. ASSUME NEW y \in S PROVE y <= n - m
  <2>1. y \in 1 .. n /\ n - y \in T
    OBVIOUS
  <2>2. m <= n - y /\ m \in Nat
    BY <1>3, <2>1
  <2>3. QED
    BY <2>1, <2>2
<1>5. n - m \in S
  BY <1>3
<1>6. QED
  BY <1>4, <1>5

LEMMA EffectiveOwn ==
  ASSUME SoundTree(tree, snaps, mnt), NEW p \in Paths, Exists(p)
  PROVE  /\ Effective(p) \in Own
         /\ \A u \in Uprops : tree[p].own[u] # Absent => Effective(p)[u] # Absent
<1> DEFINE up(i) == SubSeq(p, 1, i)
           has(u) == {i \in 1 .. Len(p) : tree[up(i)].own[u] # Absent}
           last(u) == CHOOSE i \in has(u) : \A j \in has(u) : j <= i
<1>1. p \in Seq(Components) /\ Len(p) \in Nat \ {0}
  BY PathTyped
<1>2. ASSUME NEW i \in 1 .. Len(p) PROVE up(i) \in Paths /\ tree[up(i)].own \in Own
  <2>1. up(i) \in Paths
    BY ZfsAssumption
  <2>2. Under(up(i), p)
    <3>1. Len(up(i)) = i
      BY <1>1
    <3>2. CASE i = Len(p)
      <4>1. up(i) = p
        BY <1>1, <3>2
      <4>2. QED
        BY <4>1 DEF Under
    <3>3. CASE i < Len(p)
      BY <1>1, <3>1, <3>3 DEF Under, Atop
    <3>4. QED
      BY <1>1, <3>2, <3>3
  <2> HIDE DEF up
  <2>3. There(tree, up(i))
    BY <2>1, <2>2, ThereAbove DEF Exists, There
  <2>4. tree[up(i)] \in Datasets
    BY <2>1 DEF SoundTree
  <2>5. QED
    BY <2>1, <2>3, <2>4, DatasetTyped DEF There
<1>3. up(Len(p)) = p
  BY <1>1
<1> HIDE DEF up
<1>4. ASSUME NEW u \in Uprops, has(u) # {} PROVE last(u) \in has(u)
  <2>1. has(u) \in SUBSET (1 .. Len(p))
    OBVIOUS
  <2> HIDE DEF has
  <2>2. PICK i \in has(u) : \A j \in has(u) : j <= i
    BY <1>1, <1>4, <2>1, GreatestOf
  <2>3. QED
    BY <2>2
<1>5. \A u \in Uprops : Effective(p)[u] = IF has(u) = {} THEN Absent ELSE tree[up(last(u))].own[u]
  BY DEF Effective, up
<1>6. DOMAIN Effective(p) = Uprops /\ Effective(p) = [u \in Uprops |-> Effective(p)[u]]
  BY DEF Effective
<1>7. ASSUME NEW u \in Uprops
      PROVE  /\ Effective(p)[u] \in Values \cup {Absent}
             /\ tree[p].own[u] # Absent => Effective(p)[u] # Absent
  <2>1. CASE has(u) = {}
    <3>1. tree[p].own[u] = Absent
      BY <1>1, <1>3, <2>1
    <3>2. QED
      BY <1>5, <2>1, <3>1
  <2>2. CASE has(u) # {}
    <3>1. last(u) \in 1 .. Len(p) /\ tree[up(last(u))].own[u] # Absent
      BY <1>4, <2>2
    <3>2. tree[up(last(u))].own \in [Uprops -> Values \cup {Absent}]
      BY <1>2, <3>1 DEF Own
    <3> HIDE DEF has, last
    <3>3. QED
      BY <1>5, <2>2, <3>1, <3>2
  <2>3. QED
    BY <2>1, <2>2
<1>8. QED
  BY <1>6, <1>7 DEF Own

LEMMA MoveGood ==
  ASSUME ZfsInv, NEW c \in Callers, NEW where \in Places, NEW call \in CallRecords,
         SameCall(zcall[c], call), CallFits(where, call), Go(c, where, call), UNCHANGED Data
  PROVE  GoodStep(c)
BY GoIs, Untouched DEF ZfsInv

(* A call that goes on to a place of no particular demands. *)
LEMMA FitsOn ==
  ASSUME CallsInv, NEW c \in Callers, zpc[c] # "idle", NEW call \in CallRecords,
         SameCall(zcall[c], call), NEW where \in {"return", "createMount", "renameTo", "mergeRemove",
                                                  "mergeSet", "propRemove"},
         At(where, Req(c).op)
  PROVE  CallFits(where, call) /\ where \in Places
<1>1. Sensible(call.req) /\ At(where, call.req.op) /\ call.before \in States
  BY Engaged DEF SameCall
<1>2. QED
  BY <1>1 DEF CallFits, Places, PathOps

LEMMA MergeOpenStep ==
  ASSUME ZfsInv, NEW c \in Callers, MergeOpen(c)
  PROVE  GoodStep(c)
<1> DEFINE r == Req(c)
           left == {u \in Uprops : Effective(r.to)[u] # Absent}
           call == [zcall[c] EXCEPT !.src = Effective(r.path), !.todo = left]
<1>1. CallsInv /\ zpc[c] = "merge" /\ UNCHANGED Data
  BY DEF ZfsInv, MergeOpen
<1>2. CASE ~(Exists(r.path) /\ Exists(r.to))
  BY <1>1, <1>2, ReturnGood DEF MergeOpen
<1>3. CASE Exists(r.path) /\ Exists(r.to)
  <2>1. Go(c, "mergeRemove", call)
    BY <1>3 DEF MergeOpen
  <2>2. zcall[c] \in CallRecords /\ r.op = "merge" /\ r.path \in Paths
    BY <1>1, Engaged DEF At, Sensible, PathOps
  <2>3. Effective(r.path) \in Own
    BY <1>3, <2>2, EffectiveOwn DEF ZfsInv
  <2> HIDE DEF left
  <2>4. left \in SUBSET (Uprops \cup Paths)
    BY DEF left
  <2>5. call \in CallRecords /\ SameCall(zcall[c], call)
    BY <2>2, <2>3, <2>4 DEF CallRecords, SameCall
  <2> HIDE DEF call
  <2>6. CallFits("mergeRemove", call) /\ "mergeRemove" \in Places
    BY <1>1, <2>2, <2>5, FitsOn DEF At
  <2>7. QED
    BY <1>1, <2>1, <2>5, <2>6, MoveGood
<1>4. QED
  BY <1>2, <1>3

LEMMA PropsOpenStep ==
  ASSUME ZfsInv, NEW c \in Callers, PropsOpen(c)
  PROVE  GoodStep(c)
<1> DEFINE r == Req(c)
           names == {u \in Uprops : r.props[u] # Absent}
           call == [zcall[c] EXCEPT !.todo = names]
<1>1. CallsInv /\ zpc[c] = "propsRemove" /\ UNCHANGED Data
  BY DEF ZfsInv, PropsOpen
<1>2. CASE ~(Exists(r.path) /\ names # {})
  <2>1. PICK ok \in BOOLEAN : ok = Exists(r.path)
    BY DEF Exists
  <2>2. ReturnZfs(c, ok, zcall[c])
    BY <1>2, <2>1 DEF PropsOpen
  <2>3. QED
    BY <1>1, <2>2, ReturnGood
<1>3. CASE Exists(r.path) /\ names # {}
  <2>1. Go(c, "propRemove", call)
    BY <1>3 DEF PropsOpen
  <2>2. zcall[c] \in CallRecords /\ r.op = "propsRemove"
    BY <1>1, Engaged DEF At, Sensible, PathOps
  <2> HIDE DEF names
  <2>4. names \in SUBSET (Uprops \cup Paths)
    BY DEF names
  <2>5. call \in CallRecords /\ SameCall(zcall[c], call)
    BY <2>2, <2>4 DEF CallRecords, SameCall
  <2> HIDE DEF call
  <2>6. CallFits("propRemove", call) /\ "propRemove" \in Places
    BY <1>1, <2>2, <2>5, FitsOn DEF At
  <2>7. QED
    BY <1>1, <2>1, <2>5, <2>6, MoveGood
<1>4. QED
  BY <1>2, <1>3

LEMMA ListStep ==
  ASSUME ZfsInv, NEW c \in Callers, MountAllList(c) \/ UnmountAllList(c)
  PROVE  GoodStep(c)
<1>1. PICK todo \in SUBSET Paths, where \in {"mountNext", "unmountNext"} :
        /\ Go(c, where, [zcall[c] EXCEPT !.todo = todo])
        /\ zpc[c] = IF where = "mountNext" THEN "mountAll" ELSE "unmountAll"
  <2>1. CASE MountAllList(c)
    <3>1. {p \in Paths : Exists(p) /\ MayMount(p, FALSE)} \in SUBSET Paths
      OBVIOUS
    <3>2. QED
      BY <2>1, <3>1 DEF MountAllList
  <2>2. CASE UnmountAllList(c)
    <3>1. {p \in mnt : ~Skipped(p)} \in SUBSET Paths
      BY DEF ZfsInv, SoundTree
    <3>2. QED
      BY <2>2, <3>1 DEF UnmountAllList
  <2>3. QED
    BY <2>1, <2>2
<1> DEFINE call == [zcall[c] EXCEPT !.todo = todo]
<1>2. CallsInv /\ zpc[c] # "idle" /\ UNCHANGED Data
  BY <1>1 DEF ZfsInv, MountAllList, UnmountAllList
<1>3. /\ zcall[c] \in CallRecords /\ Sensible(Req(c)) /\ zcall[c].before \in States
      /\ At(where, Req(c).op) /\ Req(c) = zcall[c].req
  BY <1>1, <1>2, Engaged DEF At, Sensible, PathOps
<1>4. call \in CallRecords /\ SameCall(zcall[c], call) /\ call.todo = todo
  BY <1>3 DEF CallRecords, SameCall
<1> HIDE DEF call
<1>5. CallFits(where, call) /\ where \in Places
  BY <1>3, <1>4 DEF CallFits, SameCall, Places, PathOps
<1>6. QED
  BY <1>1, <1>2, <1>4, <1>5, MoveGood DEF call

LEMMA WalkGood ==
  ASSUME ZfsInv, NEW c \in Callers, zpc[c] \in {"destroy", "walk"},
         NEW stack \in Seq(Frames), stack # <<>>, stack[1].phase # "clones", NEW batch \in SUBSET (Paths \X SnapNames),
         ~AnyClone(Before(c).tree) =>
           /\ \A i \in 1 .. Len(stack) : FrameFits(Req(c), stack[i])
           /\ \A b \in batch : Under(Req(c).path, b[1]),
         Go(c, "walk", [zcall[c] EXCEPT !.stack = stack, !.batch = batch]), UNCHANGED Data
  PROVE  GoodStep(c)
<1> DEFINE call == [zcall[c] EXCEPT !.stack = stack, !.batch = batch]
<1>1. CallsInv /\ zpc[c] # "idle"
  BY DEF ZfsInv
<1>2. /\ zcall[c] \in CallRecords /\ Sensible(Req(c)) /\ zcall[c].before \in States
      /\ At("walk", Req(c).op) /\ Req(c) = zcall[c].req
  BY <1>1, Engaged DEF At, Sensible, PathOps
<1>3. /\ call \in CallRecords /\ SameCall(zcall[c], call) /\ call.stack = stack
      /\ call.batch = batch
  BY <1>2 DEF CallRecords, SameCall
<1> HIDE DEF call
<1>4. WalkFits(call)
  BY <1>2, <1>3 DEF WalkFits, SameCall, Before
<1>5. CallFits("walk", call) /\ "walk" \in Places
  BY <1>2, <1>3, <1>4 DEF CallFits, SameCall, Places, PathOps
<1>6. QED
  BY <1>1, <1>3, <1>5, MoveGood DEF call

LEMMA BeginningIs ==
  ASSUME NEW S, NEW s \in Seq(S), NEW k \in 0 .. Len(s)
  PROVE  /\ SubSeq(s, 1, k) \in Seq(S) /\ Len(SubSeq(s, 1, k)) = k
         /\ \A i \in 1 .. k : SubSeq(s, 1, k)[i] = s[i]
<1>1. Len(s) \in Nat /\ k \in Int /\ 1 \in Int
  OBVIOUS
<1>2. \A i \in 1 .. k : s[i] \in S
  BY <1>1, ElementOfSeq
<1>3. /\ SubSeq(s, 1, k) \in Seq(S)
      /\ Len(SubSeq(s, 1, k)) = IF 1 <= k THEN k - 1 + 1 ELSE 0
      /\ \A i \in 1 .. k - 1 + 1 : SubSeq(s, 1, k)[i] = s[1 + i - 1]
  BY <1>1, <1>2, SubSeqProperties
<1>4. k - 1 + 1 = k /\ (~(1 <= k) => k = 0) /\ \A i \in 1 .. k : 1 + i - 1 = i
  BY <1>1
<1>5. QED
  BY <1>3, <1>4

LEMMA WalkingIs ==
  ASSUME ZfsInv, NEW c \in Callers, zpc[c] = "walk"
  PROVE  /\ zcall[c] \in CallRecords /\ zcall[c].stack \in Seq(Frames) /\ zcall[c].stack # <<>>
         /\ Len(zcall[c].stack) \in Nat \ {0} /\ Top(c) \in Frames
         /\ Below(c) \in Seq(Frames) /\ Len(Below(c)) = Len(zcall[c].stack) - 1
         /\ \A i \in 1 .. Len(Below(c)) : Below(c)[i] = zcall[c].stack[i]
         /\ zcall[c].stack[1].phase # "clones"
         /\ IF Below(c) = <<>> THEN Top(c).phase # "clones" ELSE Below(c)[1].phase # "clones"
         /\ Req(c).op = "destroy" /\ Req(c).path \in Paths
         /\ zcall[c].batch \in SUBSET (Paths \X SnapNames)
         /\ AnyClone(tree) => AnyClone(Before(c).tree)
         /\ ~AnyClone(Before(c).tree) =>
              /\ \A i \in 1 .. Len(zcall[c].stack) : FrameFits(Req(c), zcall[c].stack[i])
              /\ \A i \in 1 .. Len(Below(c)) : FrameFits(Req(c), Below(c)[i])
              /\ FrameFits(Req(c), Top(c))
              /\ \A b \in zcall[c].batch : Under(Req(c).path, b[1])
<1> DEFINE s == zcall[c].stack
<1>1. CallsInv /\ zpc[c] # "idle"
  BY DEF ZfsInv
<1>2. zcall[c] \in CallRecords /\ Req(c).op = "destroy" /\ Req(c).path \in Paths /\ WalkFits(zcall[c])
  BY <1>1, Engaged DEF At, Sensible, PathOps, CallFits
<1>3. s \in Seq(Frames) /\ s # <<>> /\ zcall[c].batch \in SUBSET (Paths \X SnapNames)
  BY <1>2 DEF WalkFits, CallRecords
<1>4. Len(s) \in Nat \ {0} /\ \A i \in 1 .. Len(s) : s[i] \in Frames
  BY <1>3, EmptySeq, ElementOfSeq
<1> HIDE DEF s
<1>5. /\ SubSeq(s, 1, Len(s) - 1) \in Seq(Frames) /\ Len(SubSeq(s, 1, Len(s) - 1)) = Len(s) - 1
      /\ \A i \in 1 .. Len(s) - 1 : SubSeq(s, 1, Len(s) - 1)[i] = s[i]
  <2>1. Len(s) - 1 \in 0 .. Len(s)
    BY <1>4
  <2>2. QED
    BY <1>3, <2>1, BeginningIs
<1>6. Top(c) = s[Len(s)] /\ Below(c) = SubSeq(s, 1, Len(s) - 1)
  BY DEF Top, Below, s
<1>7. ~AnyClone(Before(c).tree) =>
        /\ \A i \in 1 .. Len(s) : FrameFits(Req(c), s[i])
        /\ \A b \in zcall[c].batch : Under(Req(c).path, b[1])
  BY <1>2 DEF WalkFits, Before, Req, s
<1>8. AnyClone(tree) => AnyClone(Before(c).tree)
  BY <1>1 DEF ZfsInv, ClonesKnown, Before
<1>9. Top(c) \in Frames /\ (~AnyClone(Before(c).tree) => FrameFits(Req(c), Top(c)))
  BY <1>4, <1>6, <1>7
<1>10. \A i \in 1 .. Len(Below(c)) :
         Below(c)[i] = s[i] /\ (~AnyClone(Before(c).tree) => FrameFits(Req(c), Below(c)[i]))
  BY <1>4, <1>5, <1>6, <1>7
<1>11. s[1].phase # "clones"
  BY <1>2 DEF WalkFits, s
<1>12. IF Below(c) = <<>> THEN Top(c).phase # "clones" ELSE Below(c)[1].phase # "clones"
  <2>1. CASE Below(c) = <<>>
    <3>1. Len(s) - 1 = 0
      <4>1. Len(Below(c)) = 0
        BY <2>1
      <4>2. QED
        BY <1>5, <1>6, <4>1
    <3>2. Len(s) = 1
      BY <1>4, <3>1
    <3>3. QED
      BY <1>6, <1>11, <2>1, <3>2
  <2>2. CASE Below(c) # <<>>
    <3>1. 1 \in 1 .. Len(s) - 1
      BY <1>4, <1>5, <1>6, <2>2, EmptySeq
    <3>2. QED
      BY <1>5, <1>6, <1>11, <2>2, <3>1
  <2>3. QED
    BY <2>1, <2>2
<1>13. QED
  BY <1>2, <1>3, <1>4, <1>5, <1>6, <1>7, <1>8, <1>9, <1>10, <1>11, <1>12 DEF s

LEMMA PushFits ==
  ASSUME ZfsInv, NEW c \in Callers, zpc[c] = "walk", NEW f \in Frames,
         ~AnyClone(Before(c).tree) => FrameFits(Req(c), f),
         Walk(c, Push(c, f))
  PROVE  GoodStep(c)
<1> DEFINE s == zcall[c].stack
<1>1. /\ Push(c, f) \in Seq(Frames) /\ Push(c, f) # <<>> /\ Len(Push(c, f)) = Len(s) + 1
      /\ Push(c, f)[Len(s) + 1] = f /\ \A i \in 1 .. Len(s) : Push(c, f)[i] = s[i]
  BY WalkingIs, AppendProperties DEF Push
<1>2. ~AnyClone(Before(c).tree) => \A i \in 1 .. Len(Push(c, f)) : FrameFits(Req(c), Push(c, f)[i])
  BY <1>1, WalkingIs
<1>3. /\ Go(c, "walk", [zcall[c] EXCEPT !.stack = Push(c, f), !.batch = zcall[c].batch])
      /\ UNCHANGED Data
  <2>1. [zcall[c] EXCEPT !.stack = Push(c, f)]
          = [zcall[c] EXCEPT !.stack = Push(c, f), !.batch = zcall[c].batch]
    BY WalkingIs DEF CallRecords
  <2>2. QED
    BY <2>1 DEF Walk
<1>4. Push(c, f)[1].phase # "clones"
  BY <1>1, WalkingIs
<1>5. QED
  BY <1>1, <1>2, <1>3, <1>4, WalkingIs, WalkGood

LEMMA PhaseIs ==
  ASSUME ZfsInv, NEW c \in Callers, zpc[c] = "walk", NEW phase \in {"snaps", "destroy"},
         NEW owed \in SUBSET (Paths \cup SnapNames)
  PROVE  /\ Phase(c, phase, owed) \in Seq(Frames) /\ Phase(c, phase, owed) # <<>>
         /\ Phase(c, phase, owed)[1].phase # "clones"
         /\ ~AnyClone(Before(c).tree) =>
              \A i \in 1 .. Len(Phase(c, phase, owed)) : FrameFits(Req(c), Phase(c, phase, owed)[i])
<1> DEFINE f == [Top(c) EXCEPT !.phase = phase, !.owed = owed]
           s == Phase(c, phase, owed)
<1>1. f \in Frames /\ f.phase = phase /\ (~AnyClone(Before(c).tree) => FrameFits(Req(c), f))
  BY WalkingIs DEF Frames, FrameFits
<1> HIDE DEF f
<1>2. s = Append(Below(c), f)
  <2>1. s = Below(c) \o <<f>>
    BY DEF Phase, f
  <2>2. QED
    BY <1>1, <2>1, WalkingIs, AppendIsConcat
<1>3. /\ s \in Seq(Frames) /\ Len(s) = Len(Below(c)) + 1 /\ s # <<>>
      /\ s[Len(Below(c)) + 1] = f /\ \A i \in 1 .. Len(Below(c)) : s[i] = Below(c)[i]
  BY <1>1, <1>2, WalkingIs, AppendProperties
<1> HIDE DEF s
<1>4. ~AnyClone(Before(c).tree) => \A i \in 1 .. Len(s) : FrameFits(Req(c), s[i])
  BY <1>1, <1>3, WalkingIs
<1>5. s[1].phase # "clones"
  <2>1. CASE Below(c) = <<>>
    BY <1>1, <1>3, <2>1
  <2>2. CASE Below(c) # <<>>
    <3>1. 1 \in 1 .. Len(Below(c))
      BY <2>2, WalkingIs, EmptySeq
    <3>2. QED
      BY <1>3, <2>2, <3>1, WalkingIs
  <2>3. QED
    BY <2>1, <2>2
<1>6. QED
  BY <1>3, <1>4, <1>5 DEF s

LEMMA ClonesKnownBy ==
  ASSUME ZfsInv, NEW c \in Callers, zpc[c] # "idle", ~AnyClone(Before(c).tree),
         NEW p \in Paths, NEW s \in SnapNames
  PROVE  Clones(p, s) = {}
<1>1. ~AnyClone(tree)
  BY DEF ZfsInv, ClonesKnown, Before
<1>2. Absent # <<p, s>>
  BY ZfsAssumption
<1>3. QED
  BY <1>1, <1>2 DEF AnyClone, Clones, Exists

LEMMA DestroyOpenStep ==
  ASSUME ZfsInv, NEW c \in Callers, DestroyOpen(c)
  PROVE  GoodStep(c)
<1> DEFINE r == Req(c)
           f == DsFrame(r.path)
<1>1. CallsInv /\ zpc[c] = "destroy"
  BY DEF ZfsInv, DestroyOpen
<1>2. CASE ~(Exists(r.path) /\ (r.flag \/ Len(r.path) > 1))
  <2>1. ReturnZfs(c, FALSE, zcall[c]) /\ UNCHANGED Data
    BY <1>2 DEF DestroyOpen
  <2>2. QED
    BY <1>1, <2>1, ReturnGood
<1>3. CASE Walk(c, <<f>>)
  <2>1. zcall[c] \in CallRecords /\ r.op = "destroy" /\ r.path \in Paths /\ zcall[c].batch = {}
    BY <1>1, Engaged DEF At, Sensible, PathOps, CallFits
  <2>2. f \in Frames /\ FrameFits(r, f) /\ f.phase # "clones"
    BY <2>1 DEF DsFrame, Frames, FrameFits, Under, Children, Tree
  <2> HIDE DEF f
  <2>3. <<f>> \in Seq(Frames) /\ <<f>> # <<>> /\ Len(<<f>>) = 1 /\ <<f>>[1] = f
    BY <2>2
  <2>4. /\ Go(c, "walk", [zcall[c] EXCEPT !.stack = <<f>>, !.batch = {}])
        /\ UNCHANGED Data
    <3>1. [zcall[c] EXCEPT !.stack = <<f>>] = [zcall[c] EXCEPT !.stack = <<f>>, !.batch = {}]
      BY <2>1 DEF CallRecords
    <3>2. QED
      BY <1>3, <3>1 DEF Walk
  <2>5. \A i \in 1 .. Len(<<f>>) : FrameFits(Req(c), <<f>>[i])
    BY <2>2, <2>3
  <2>6. <<f>>[1].phase # "clones"
    BY <2>2, <2>3
  <2>7. QED
    BY <1>1, <2>3, <2>4, <2>5, <2>6, WalkGood
<1>4. QED
  BY <1>2, <1>3 DEF DestroyOpen

LEMMA WalkDownStep ==
  ASSUME ZfsInv, NEW c \in Callers, WalkChild(c) \/ WalkSnap(c) \/ WalkClone(c)
  PROVE  GoodStep(c)
<1>1. zpc[c] = "walk"
  BY DEF WalkChild, WalkSnap, WalkClone, Walking
<1>2. Top(c) \in Frames /\ Top(c).path \in Paths
  BY <1>1, WalkingIs DEF Frames
<1>3. CASE WalkChild(c)
  <2>1. PICK q \in Children(Top(c).path) : Walk(c, Push(c, DsFrame(q)))
    BY <1>3 DEF WalkChild
  <2>2. q \in Paths /\ Under(Top(c).path, q)
    BY <2>1 DEF Children, Tree, Under
  <2>3. DsFrame(q) \in Frames /\ DsFrame(q).path = q /\ DsFrame(q).phase # "clones"
    BY <2>2 DEF DsFrame, Frames, Children, Tree
  <2>4. ~AnyClone(Before(c).tree) => FrameFits(Req(c), DsFrame(q))
    <3>1. ~AnyClone(Before(c).tree) => Under(Req(c).path, Top(c).path)
      BY <1>1, WalkingIs DEF FrameFits
    <3>2. ~AnyClone(Before(c).tree) => Under(Req(c).path, q)
      BY <1>1, <1>2, <2>2, <3>1, WalkingIs, UnderTransitive
    <3>3. QED
      BY <2>3, <3>2 DEF FrameFits
  <2>5. QED
    BY <1>1, <2>1, <2>3, <2>4, PushFits
<1>4. CASE WalkSnap(c)
  <2>1. PICK s \in SnapsOf(Top(c).path) : Walk(c, Push(c, SnapFrame(Top(c).path, s)))
    BY <1>4 DEF WalkSnap
  <2> DEFINE f == SnapFrame(Top(c).path, s)
  <2>2. s \in SnapNames
    <3>1. snaps[Top(c).path] \in Seq(Snapshots)
      BY <1>2 DEF ZfsInv, SoundTree
    <3>2. PICK i \in 1 .. Len(snaps[Top(c).path]) : s = snaps[Top(c).path][i].name
      BY DEF SnapsOf, NamesIn
    <3>3. snaps[Top(c).path][i] \in Snapshots
      BY <3>1, <3>2, ElementOfSeq
    <3>4. QED
      BY <3>2, <3>3 DEF Snapshots
  <2>3. f \in Frames /\ f.path = Top(c).path /\ f.owed = Clones(Top(c).path, s)
    BY <1>2, <2>2 DEF SnapFrame, Frames, Clones
  <2>4. ~AnyClone(Before(c).tree) => FrameFits(Req(c), f)
    <3>1. ~AnyClone(Before(c).tree) => f.owed = {}
      BY <1>1, <1>2, <2>2, <2>3, ClonesKnownBy
    <3>2. ~AnyClone(Before(c).tree) => Under(Req(c).path, Top(c).path)
      BY <1>1, WalkingIs DEF FrameFits
    <3>3. QED
      BY <2>3, <3>1, <3>2 DEF FrameFits
  <2>5. QED
    BY <1>1, <2>1, <2>3, <2>4, PushFits
<1>5. CASE WalkClone(c)
  <2>1. PICK q \in Top(c).owed : Exists(q) /\ Walk(c, Push(c, DsFrame(q))) /\ Top(c).phase = "clones"
    BY <1>5 DEF WalkClone, Walking
  <2>2. AnyClone(Before(c).tree)
    BY <1>1, <2>1, WalkingIs DEF FrameFits
  <2>3. q \in Paths
    BY <1>2, <2>1 DEF Frames
  <2>4. DsFrame(q) \in Frames
    BY <2>3 DEF DsFrame, Frames, Children, Tree
  <2>5. QED
    BY <1>1, <2>1, <2>2, <2>4, PushFits
<1>6. QED
  BY <1>3, <1>4, <1>5

LEMMA WalkRoundStep ==
  ASSUME ZfsInv, NEW c \in Callers, WalkRound(c)
  PROVE  GoodStep(c)
<1> DEFINE call == [zcall[c] EXCEPT !.refused = TRUE]
<1>1. zpc[c] = "walk" /\ ReturnZfs(c, FALSE, call) /\ UNCHANGED Data
  BY DEF WalkRound, Walking
<1>2. CallsInv /\ zpc[c] # "idle" /\ call \in CallRecords /\ SameCall(zcall[c], call)
  BY <1>1 DEF ZfsInv, CallsInv, CallRecords, SameCall
<1> HIDE DEF call
<1>3. CallsInv' /\ Steady(c)
  BY <1>1, <1>2, ReturnIs
<1>4. QED
  BY <1>1, <1>3, Untouched

LEMMA WalkToSnapsStep ==
  ASSUME ZfsInv, NEW c \in Callers, WalkToSnaps(c)
  PROVE  GoodStep(c)
<1>1. zpc[c] = "walk" /\ Walk(c, Phase(c, "snaps", SnapsOf(Top(c).path)))
  BY DEF WalkToSnaps, Walking
<1>2. Top(c).path \in Paths
  BY <1>1, WalkingIs DEF Frames
<1>3. SnapsOf(Top(c).path) \subseteq SnapNames
  <2>1. snaps[Top(c).path] \in Seq(Snapshots)
    BY <1>2 DEF ZfsInv, SoundTree
  <2>2. \A i \in 1 .. Len(snaps[Top(c).path]) : snaps[Top(c).path][i] \in Snapshots
    BY <2>1, ElementOfSeq
  <2>3. QED
    BY <2>2 DEF SnapsOf, NamesIn, Snapshots
<1> DEFINE s == Phase(c, "snaps", SnapsOf(Top(c).path))
<1>4. /\ s \in Seq(Frames) /\ s # <<>> /\ s[1].phase # "clones"
      /\ ~AnyClone(Before(c).tree) => \A i \in 1 .. Len(s) : FrameFits(Req(c), s[i])
  BY <1>1, <1>3, PhaseIs
<1> HIDE DEF s
<1>5. /\ Go(c, "walk", [zcall[c] EXCEPT !.stack = s, !.batch = zcall[c].batch])
      /\ UNCHANGED Data
  <2>1. [zcall[c] EXCEPT !.stack = s] = [zcall[c] EXCEPT !.stack = s, !.batch = zcall[c].batch]
    BY <1>1, WalkingIs DEF CallRecords
  <2>2. QED
    BY <1>1, <2>1 DEF Walk, s
<1>6. QED
  BY <1>1, <1>4, <1>5, WalkingIs, WalkGood

(* A step that ends a frame of the walk, or the walk. *)
LEMMA PopIs ==
  ASSUME ZfsInv, NEW c \in Callers, zpc[c] = "walk", NEW call \in CallRecords,
         SameCall(zcall[c], call),
         ~AnyClone(Before(c).tree) => \A b \in call.batch : Under(Req(c).path, b[1]),
         PopZfs(c, call)
  PROVE  CallsInv' /\ Steady(c)
<1>1. CallsInv /\ zpc[c] # "idle"
  BY DEF ZfsInv
<1>2. CASE Below(c) = <<>>
  <2>1. ReturnZfs(c, TRUE, call)
    BY <1>2 DEF PopZfs
  <2>2. QED
    BY <1>1, <2>1, ReturnIs
<1>3. CASE Below(c) # <<>>
  <2> DEFINE next == [call EXCEPT !.stack = Below(c)]
  <2>1. Go(c, "walk", next)
    BY <1>3 DEF PopZfs
  <2>2. /\ next \in CallRecords /\ SameCall(zcall[c], next) /\ next.stack = Below(c)
        /\ next.batch = call.batch
    BY WalkingIs DEF CallRecords, SameCall
  <2> HIDE DEF next
  <2>3. Sensible(next.req) /\ At("walk", next.req.op) /\ next.before \in States
    BY <1>1, <2>2, Engaged DEF SameCall
  <2>4. WalkFits(next)
    BY <1>3, <2>2, WalkingIs DEF WalkFits, SameCall, Before, Req
  <2>5. CallFits("walk", next) /\ "walk" \in Places
    BY <2>3, <2>4 DEF CallFits, Places, PathOps
  <2>6. QED
    BY <1>1, <2>1, <2>2, <2>5, GoIs
<1>4. QED
  BY <1>2, <1>3

LEMMA FailedIs ==
  ASSUME ZfsInv, NEW c \in Callers, zpc[c] = "walk", NEW call \in CallRecords,
         SameCall(zcall[c], call), Failed(c, call)
  PROVE  CallsInv' /\ Steady(c)
<1>1. CallsInv /\ zpc[c] # "idle" /\ (Below(c) = <<>>) \in BOOLEAN
  BY DEF ZfsInv
<1>2. PICK ok \in BOOLEAN : ok = (Below(c) = <<>>)
  BY <1>1
<1>3. ReturnZfs(c, ok, call)
  BY <1>2 DEF Failed
<1>4. QED
  BY <1>1, <1>3, ReturnIs

LEMMA WalkBatchStep ==
  ASSUME ZfsInv, NEW c \in Callers, WalkBatch(c)
  PROVE  GoodStep(c)
<1> DEFINE batch == zcall[c].batch \cup {<<Top(c).path, Top(c).snap>>}
<1>1. /\ zpc[c] = "walk" /\ UNCHANGED Data /\ Top(c).phase = "clones"
      /\ Go(c, "walk", [zcall[c] EXCEPT !.batch = batch, !.stack = Below(c)])
  BY DEF WalkBatch, Walking
<1>2. Below(c) \in Seq(Frames) /\ Below(c) # <<>> /\ Below(c)[1].phase # "clones"
  BY <1>1, WalkingIs
<1>3. batch \in SUBSET (Paths \X SnapNames)
  <2>1. Top(c).path \in Paths /\ Top(c).snap \in SnapNames
    BY <1>1, WalkingIs DEF Frames
  <2>2. QED
    BY <1>1, <2>1, WalkingIs
<1>4. ~AnyClone(Before(c).tree) =>
        /\ \A i \in 1 .. Len(Below(c)) : FrameFits(Req(c), Below(c)[i])
        /\ \A b \in batch : Under(Req(c).path, b[1])
  BY <1>1, WalkingIs DEF FrameFits
<1> HIDE DEF batch
<1>5. Go(c, "walk", [zcall[c] EXCEPT !.stack = Below(c), !.batch = batch])
  <2>1. [zcall[c] EXCEPT !.stack = Below(c), !.batch = batch]
          = [zcall[c] EXCEPT !.batch = batch, !.stack = Below(c)]
    BY <1>1, WalkingIs DEF CallRecords
  <2>2. QED
    BY <1>1, <2>1 DEF batch
<1>6. QED
  BY <1>1, <1>2, <1>3, <1>4, <1>5, WalkGood

-----------------------------------------------------------------------------
(* Steps that change what is there                                         *)

(* The answer of the kernel is taken down, and the call returns with it. *)
LEMMA AnsweredReturn ==
  ASSUME ZfsInv, NEW c \in Callers, zpc[c] # "idle", NEW can \in BOOLEAN, NEW ok \in BOOLEAN,
         ReturnZfs(c, ok, Answered(c, can, ok))
  PROVE  CallsInv' /\ Steady(c)
<1>1. CallsInv
  BY DEF ZfsInv
<1>2. Answered(c, can, ok) \in CallRecords /\ SameCall(zcall[c], Answered(c, can, ok))
  BY <1>1, AnsweredIs
<1>3. QED
  BY <1>1, <1>2, ReturnIs

LEMMA SelfReturn ==
  ASSUME ZfsInv, NEW c \in Callers, zpc[c] # "idle", NEW ok \in BOOLEAN, ReturnZfs(c, ok, zcall[c])
  PROVE  CallsInv' /\ Steady(c)
<1>1. zcall[c] \in CallRecords /\ SameCall(zcall[c], zcall[c]) /\ CallsInv
  BY DEF ZfsInv, CallsInv, SameCall
<1>2. QED
  BY <1>1, ReturnIs

LEMMA SelfGo ==
  ASSUME ZfsInv, NEW c \in Callers, zpc[c] # "idle",
         NEW where \in {"createMount", "renameTo"}, At(where, Req(c).op), Go(c, where, zcall[c])
  PROVE  CallsInv' /\ Steady(c)
<1>1. zcall[c] \in CallRecords /\ SameCall(zcall[c], zcall[c]) /\ CallsInv
  BY DEF ZfsInv, CallsInv, SameCall
<1>2. CallFits(where, zcall[c]) /\ where \in Places
  BY <1>1, FitsOn
<1>3. QED
  BY <1>1, <1>2, GoIs

LEMMA TreeFacts ==
  ASSUME ZfsInv
  PROVE  /\ SoundTree(tree, snaps, mnt) /\ CallsInv
         /\ tree \in [Paths -> Datasets] /\ snaps \in [Paths -> Seq(Snapshots)] /\ mnt \subseteq Paths
         /\ \A p \in Paths : Exists(p) <=> There(tree, p)
         /\ \A p \in Paths : Unique(snaps[p]) /\ (~There(tree, p) => snaps[p] = <<>> /\ p \notin mnt)
BY DEF ZfsInv, SoundTree, Exists, There, Unique

LEMMA NewIs ==
  ASSUME NEW mode \in Modes, NEW props \in Own
  PROVE  New(mode, props) \in Datasets /\ New(mode, props) # Absent /\ New(mode, props).origin = Absent
<1>1. New(mode, props) \in [mode : Modes, origin : (Paths \X SnapNames) \cup {Absent}, own : Own]
  BY DEF New
<1>2. QED
  BY <1>1, ZfsAssumption DEF New, Datasets

LEMMA CreateStep ==
  ASSUME ZfsInv, NEW c \in Callers, Create(c)
  PROVE  GoodStep(c)
<1> DEFINE r == Req(c)
<1>1. zpc[c] = "create" /\ UNCHANGED <<snaps, mnt>>
  BY DEF Create
<1>2. r.op = "create" /\ r.path \in Paths /\ r.mode \in Modes /\ r.props \in Own
  BY <1>1, TreeFacts, Engaged DEF At, Sensible, PathOps
<1>3. PICK can \in BOOLEAN : can = CanCreate(r.path)
  BY DEF CanCreate
<1>4. PICK ok \in Answer(can) :
        IF ok
        THEN /\ tree' = [tree EXCEPT ![r.path] = New(r.mode, r.props)]
             /\ IF r.flag /\ r.mode = "on" THEN Go(c, "createMount", zcall[c])
                ELSE ReturnZfs(c, TRUE, zcall[c])
        ELSE ReturnZfs(c, FALSE, Answered(c, can, ok)) /\ UNCHANGED tree
  BY <1>3 DEF Create
<1>5. ok \in BOOLEAN /\ (ok => can)
  BY AnswerIs
<1>6. CASE ~ok
  <2>1. ReturnZfs(c, ok, Answered(c, can, ok)) /\ UNCHANGED Data
    BY <1>1, <1>4, <1>5, <1>6 DEF Data
  <2>2. QED
    BY <1>1, <1>5, <2>1, AnsweredReturn, Untouched
<1>7. CASE ok
  <2>1. tree' = [tree EXCEPT ![r.path] = New(r.mode, r.props)]
    BY <1>4, <1>7
  <2>2. CallsInv' /\ Steady(c)
    <3>1. CASE Go(c, "createMount", zcall[c])
      BY <1>1, <1>2, <3>1, SelfGo DEF At
    <3>2. CASE ReturnZfs(c, TRUE, zcall[c])
      BY <1>1, <3>2, SelfReturn
    <3>3. QED
      BY <1>4, <1>7, <3>1, <3>2
  <2>3. ~There(tree, r.path) /\ Len(r.path) > 1 /\ There(tree, Parent(r.path))
    BY <1>3, <1>5, <1>7 DEF CanCreate, Exists, There
  <2>4. tree' \in [Paths -> Datasets] /\ There(tree', r.path) /\ tree'[r.path].origin = Absent
        /\ \A q \in Paths \ {r.path} : tree'[q] = tree[q]
    BY <1>2, <2>1, NewIs, TreeFacts DEF There
  <2>5. SoundTree(tree', snaps, mnt)
    <3> DEFINE new == {r.path}
    <3>1. /\ new \in SUBSET Paths
          /\ \A p \in new : ~There(tree, p) /\ (Len(p) > 1 => There(tree, Parent(p)) \/ Parent(p) \in new)
          /\ \A p \in Paths : IF p \in new THEN There(tree', p) /\ tree'[p].origin = Absent
                             ELSE tree'[p] = tree[p]
          /\ mnt \subseteq mnt \cup new
      BY <1>2, <2>3, <2>4
    <3> HIDE DEF new
    <3>2. QED
      BY <2>4, <3>1, TreeFacts, AddedSound, ZenonT(60)
  <2>6. AnyClone(tree') => AnyClone(tree)
    BY <2>4 DEF AnyClone
  <2>7. KeepsAway(c)
    BY <1>1, <1>2, <2>4 DEF KeepsAway, Spared, Away, Under
  <2>8. QED
    BY <1>1, <2>2, <2>5, <2>6, <2>7 DEF GoodStep
<1>8. QED
  BY <1>5, <1>6, <1>7

(* What is mounted is there; what is unmounted is below what was asked for. *)
LEMMA MountGood ==
  ASSUME ZfsInv, NEW c \in Callers, CallsInv', Steady(c), UNCHANGED <<tree, snaps>>,
         \A p \in mnt' : p \in mnt \/ (p \in Paths /\ Exists(p)),
         \A p \in Paths : ~Everywhere(Req(c)) /\ Away(p, Req(c)) => (p \in mnt' <=> p \in mnt)
  PROVE  GoodStep(c)
<1>1. SoundTree(tree', snaps', mnt')
  BY TreeFacts, MountsSound
<1>2. QED
  BY <1>1 DEF GoodStep, KeepsAway, Spared

LEMMA CreateMountStep ==
  ASSUME ZfsInv, NEW c \in Callers, CreateMount(c)
  PROVE  GoodStep(c)
<1> DEFINE p == Req(c).path
<1>1. zpc[c] = "createMount" /\ UNCHANGED <<tree, snaps>>
  BY DEF CreateMount
<1>2. Req(c).op = "create" /\ p \in Paths
  BY <1>1, TreeFacts, Engaged DEF At, Sensible, PathOps
<1>3. PICK can \in BOOLEAN : can = CanMount(p)
  BY DEF CanMount
<1>4. PICK ok \in Answer(can) :
        /\ mnt' = IF ok THEN mnt \cup {p} ELSE mnt
        /\ ReturnZfs(c, ok, Answered(c, can, ok))
  BY <1>3 DEF CreateMount
<1>5. ok \in BOOLEAN /\ (ok => Exists(p))
  BY <1>3, AnswerIs DEF CanMount
<1>6. CallsInv' /\ Steady(c)
  BY <1>1, <1>4, <1>5, AnsweredReturn
<1>7. /\ \A q \in mnt' : q \in mnt \/ (q \in Paths /\ Exists(q))
      /\ \A q \in Paths : ~Everywhere(Req(c)) /\ Away(q, Req(c)) => (q \in mnt' <=> q \in mnt)
  BY <1>2, <1>4, <1>5 DEF Away, Under
<1>8. QED
  BY <1>1, <1>6, <1>7, MountGood

LEMMA MountStep ==
  ASSUME ZfsInv, NEW c \in Callers, Mount(c)
  PROVE  GoodStep(c)
<1> DEFINE p == Req(c).path
<1>1. zpc[c] = "mount" /\ UNCHANGED <<tree, snaps>>
  BY DEF Mount
<1>2. Req(c).op = "mount" /\ p \in Paths
  BY <1>1, TreeFacts, Engaged DEF At, Sensible, PathOps
<1>3. PICK can \in BOOLEAN : can = (CanMount(p) /\ MayMount(p, TRUE))
  BY DEF CanMount
<1>4. PICK ok \in Answer(can) :
        /\ mnt' = IF ok THEN mnt \cup {p} ELSE mnt
        /\ ReturnZfs(c, ok, Answered(c, can, ok))
  BY <1>3 DEF Mount
<1>5. ok \in BOOLEAN /\ (ok => Exists(p))
  BY <1>3, AnswerIs DEF CanMount
<1>6. CallsInv' /\ Steady(c)
  BY <1>1, <1>4, <1>5, AnsweredReturn
<1>7. /\ \A q \in mnt' : q \in mnt \/ (q \in Paths /\ Exists(q))
      /\ \A q \in Paths : ~Everywhere(Req(c)) /\ Away(q, Req(c)) => (q \in mnt' <=> q \in mnt)
  BY <1>2, <1>4, <1>5 DEF Away, Under
<1>8. QED
  BY <1>1, <1>6, <1>7, MountGood

LEMMA UnmountStep ==
  ASSUME ZfsInv, NEW c \in Callers, Unmount(c)
  PROVE  GoodStep(c)
<1> DEFINE p == Req(c).path
<1>1. zpc[c] = "unmount" /\ UNCHANGED <<tree, snaps>>
  BY DEF Unmount
<1>2. Req(c).op = "unmount" /\ p \in Paths
  BY <1>1, TreeFacts, Engaged DEF At, Sensible, PathOps
<1>3. PICK can \in BOOLEAN : can = (Exists(p) /\ p \in mnt /\ tree[p].mode # "legacy")
  OBVIOUS
<1>4. PICK ok \in Answer(can) :
        /\ mnt' = IF ok THEN {q \in mnt : q # p /\ ~Atop(p, q)} ELSE mnt
        /\ ReturnZfs(c, ok, Answered(c, can, ok))
  BY <1>3 DEF Unmount
<1>5. ok \in BOOLEAN
  BY AnswerIs
<1>6. CallsInv' /\ Steady(c)
  BY <1>1, <1>4, <1>5, AnsweredReturn
<1>7. /\ \A q \in mnt' : q \in mnt
      /\ \A q \in Paths : ~Everywhere(Req(c)) /\ Away(q, Req(c)) => (q \in mnt' <=> q \in mnt)
  BY <1>2, <1>4, <1>5 DEF Away, Under
<1>8. QED
  BY <1>1, <1>6, <1>7, MountGood

LEMMA OwnChanged ==
  ASSUME ZfsInv, NEW p \in Paths, NEW own \in Own, Exists(p), tree' = [tree EXCEPT ![p].own = own]
  PROVE  /\ tree' \in [Paths -> Datasets] /\ \A q \in Paths \ {p} : tree'[q] = tree[q]
         /\ tree'[p] = [tree[p] EXCEPT !.own = own] /\ tree'[p] # Absent
         /\ tree'[p].own = own /\ tree'[p].origin = tree[p].origin
<1>1. tree[p] \in [mode : Modes, origin : (Paths \X SnapNames) \cup {Absent}, own : Own]
  BY TreeFacts, DatasetTyped DEF Exists
<1>2. /\ tree'[p] = [tree[p] EXCEPT !.own = own]
      /\ \A q \in Paths \ {p} : tree'[q] = tree[q]
  BY TreeFacts
<1>3. /\ tree'[p] \in [mode : Modes, origin : (Paths \X SnapNames) \cup {Absent}, own : Own]
      /\ tree'[p].own = own /\ tree'[p].origin = tree[p].origin
  BY <1>1, <1>2
<1>4. tree'[p] \in Datasets /\ tree'[p] # Absent
  BY <1>3, ZfsAssumption DEF Datasets
<1>5. tree' \in [Paths -> Datasets]
  BY <1>4, TreeFacts
<1>6. QED
  BY <1>2, <1>3, <1>4, <1>5

LEMMA OwnGood ==
  ASSUME ZfsInv, NEW c \in Callers, CallsInv', Steady(c), UNCHANGED <<snaps, mnt>>,
         NEW p \in Paths, p \in {Req(c).path, Req(c).to}, NEW own \in Own,
         tree' = tree \/ (Exists(p) /\ tree' = [tree EXCEPT ![p].own = own])
  PROVE  GoodStep(c)
<1>1. CASE tree' = tree
  BY <1>1, Untouched DEF Data
<1>2. CASE Exists(p) /\ tree' = [tree EXCEPT ![p].own = own]
  <2>1. /\ tree' \in [Paths -> Datasets] /\ \A q \in Paths \ {p} : tree'[q] = tree[q]
        /\ tree'[p] # Absent /\ tree'[p].origin = tree[p].origin /\ tree[p] # Absent
    BY <1>2, OwnChanged DEF Exists
  <2>2. \A q \in Paths : /\ There(tree', q) <=> There(tree, q)
                         /\ There(tree, q) => tree'[q].origin = tree[q].origin
    BY <2>1 DEF There
  <2>3. SoundTree(tree', snaps, mnt)
    BY <2>1, <2>2, TreeFacts, OwnSound
  <2>4. AnyClone(tree') => AnyClone(tree)
    BY <2>2 DEF AnyClone, There
  <2>5. KeepsAway(c)
    BY <2>1 DEF KeepsAway, Spared, Away, Under
  <2>6. QED
    BY <2>3, <2>4, <2>5 DEF GoodStep
<1>3. QED
  BY <1>1, <1>2

LEMMA SetOwn ==
  ASSUME NEW own \in Own, NEW props \in Own
  PROVE  Set(own, props) \in Own
BY DEF Set, Own

LEMMA OwnTyped ==
  ASSUME ZfsInv, NEW p \in Paths, Exists(p)
  PROVE  tree[p].own \in Own
BY TreeFacts, DatasetTyped DEF Exists

LEMMA UpdateStep ==
  ASSUME ZfsInv, NEW c \in Callers, Update(c)
  PROVE  GoodStep(c)
<1> DEFINE r == Req(c)
<1>1. zpc[c] = "update" /\ UNCHANGED <<snaps, mnt>>
  BY DEF Update
<1>2. r.path \in Paths /\ r.props \in Own
  BY <1>1, TreeFacts, Engaged DEF At, Sensible, PathOps
<1>3. PICK can \in BOOLEAN : can = Exists(r.path)
  BY DEF Exists
<1>4. PICK ok \in Answer(can) :
        /\ tree' = IF ok THEN [tree EXCEPT ![r.path].own = Set(@, r.props)] ELSE tree
        /\ ReturnZfs(c, ok, Answered(c, can, ok))
  BY <1>3 DEF Update
<1>5. ok \in BOOLEAN /\ (ok => Exists(r.path))
  BY <1>3, AnswerIs
<1>6. CallsInv' /\ Steady(c)
  BY <1>1, <1>4, <1>5, AnsweredReturn
<1>7. CASE ~ok
  BY <1>1, <1>4, <1>6, <1>7, Untouched DEF Data
<1>8. CASE ok
  <2>1. Set(tree[r.path].own, r.props) \in Own
    BY <1>2, <1>5, <1>8, OwnTyped, SetOwn
  <2>2. tree' = [tree EXCEPT ![r.path].own = Set(tree[r.path].own, r.props)]
    BY <1>2, <1>4, <1>8, TreeFacts
  <2>3. QED
    BY <1>1, <1>2, <1>5, <1>6, <1>8, <2>1, <2>2, OwnGood
<1>9. QED
  BY <1>5, <1>7, <1>8

LEMMA MergeSetStep ==
  ASSUME ZfsInv, NEW c \in Callers, MergeSet(c)
  PROVE  GoodStep(c)
<1> DEFINE r == Req(c)
<1>1. zpc[c] \in {"mergeSet", "mergeRemove"} /\ UNCHANGED <<snaps, mnt>>
  BY DEF MergeSet
<1>2. r.to \in Paths /\ zcall[c].src \in Own
  BY <1>1, TreeFacts, Engaged DEF At, Sensible, PathOps, CallRecords
<1>3. PICK can \in BOOLEAN : can = Exists(r.to)
  BY DEF Exists
<1>4. PICK ok \in Answer(can) :
        /\ tree' = IF ok THEN [tree EXCEPT ![r.to].own = Set(@, zcall[c].src)] ELSE tree
        /\ ReturnZfs(c, ok, Answered(c, can, ok))
  BY <1>3 DEF MergeSet
<1>5. ok \in BOOLEAN /\ (ok => Exists(r.to))
  BY <1>3, AnswerIs
<1>6. CallsInv' /\ Steady(c)
  BY <1>1, <1>4, <1>5, AnsweredReturn
<1>7. CASE ~ok
  BY <1>1, <1>4, <1>6, <1>7, Untouched DEF Data
<1>8. CASE ok
  <2>1. Set(tree[r.to].own, zcall[c].src) \in Own
    BY <1>2, <1>5, <1>8, OwnTyped, SetOwn
  <2>2. tree' = [tree EXCEPT ![r.to].own = Set(tree[r.to].own, zcall[c].src)]
    BY <1>2, <1>4, <1>8, TreeFacts
  <2>3. QED
    BY <1>1, <1>2, <1>5, <1>6, <1>8, <2>1, <2>2, OwnGood
<1>9. QED
  BY <1>5, <1>7, <1>8

LEMMA InheritStep ==
  ASSUME ZfsInv, NEW c \in Callers, MergeRemove(c) \/ PropRemove(c)
  PROVE  GoodStep(c)
<1> DEFINE r == Req(c)
<1>1. PICK p \in {r.path, r.to}, where \in {"mergeSet", "return"} :
        /\ Inherit(c, p, where) /\ p \in Paths /\ At(where, r.op) /\ At(zpc[c], r.op)
        /\ zpc[c] \in {"mergeRemove", "propRemove"}
  <2>1. CASE MergeRemove(c)
    <3>1. zpc[c] = "mergeRemove" /\ Inherit(c, r.to, "mergeSet")
      BY <2>1 DEF MergeRemove
    <3>2. r.op = "merge" /\ r.to \in Paths
      BY <3>1, TreeFacts, Engaged DEF At, Sensible, PathOps
    <3>3. QED
      BY <3>1, <3>2 DEF At
  <2>2. CASE PropRemove(c)
    <3>1. zpc[c] = "propRemove" /\ Inherit(c, r.path, "return")
      BY <2>2 DEF PropRemove
    <3>2. r.op = "propsRemove" /\ r.path \in Paths
      BY <3>1, TreeFacts, Engaged DEF At, Sensible, PathOps
    <3>3. QED
      BY <3>1, <3>2 DEF At
  <2>3. QED
    BY <2>1, <2>2
<1>2. PICK can \in BOOLEAN : can = Exists(p)
  BY DEF Exists
<1>3. PICK u \in zcall[c].todo, ok \in Answer(can) :
        /\ tree' = IF ok THEN [tree EXCEPT ![p].own[u] = Absent] ELSE tree
        /\ LET call == [Answered(c, can, ok) EXCEPT !.todo = zcall[c].todo \ {u}]
           IN IF zcall[c].todo \ {u} # {} THEN Go(c, zpc[c], call)
              ELSE IF where = "return" THEN ReturnZfs(c, TRUE, call) ELSE Go(c, where, call)
  BY <1>1, <1>2 DEF Inherit
<1>4. ok \in BOOLEAN /\ (ok => Exists(p)) /\ UNCHANGED <<snaps, mnt>>
  BY <1>1, <1>2, AnswerIs DEF Inherit
<1> DEFINE call == [Answered(c, can, ok) EXCEPT !.todo = zcall[c].todo \ {u}]
<1>5. call \in CallRecords /\ SameCall(zcall[c], call)
  <2>1. Answered(c, can, ok) \in CallRecords /\ SameCall(zcall[c], Answered(c, can, ok))
    BY <1>4, TreeFacts, AnsweredIs
  <2>2. zcall[c].todo \ {u} \in SUBSET (Uprops \cup Paths)
    BY <1>1, TreeFacts, Engaged DEF CallRecords
  <2>3. QED
    BY <2>1, <2>2 DEF CallRecords, SameCall
<1> HIDE DEF call
<1>6. CallsInv' /\ Steady(c)
  <2>1. CASE zcall[c].todo \ {u} # {}
    <3>1. Go(c, zpc[c], call)
      BY <1>3, <2>1 DEF call
    <3>2. CallFits(zpc[c], call) /\ zpc[c] \in Places
      BY <1>1, <1>5, TreeFacts, FitsOn
    <3>3. QED
      BY <1>5, <3>1, <3>2, TreeFacts, GoIs
  <2>2. CASE zcall[c].todo \ {u} = {} /\ where = "return"
    <3>1. ReturnZfs(c, TRUE, call)
      BY <1>3, <2>2 DEF call
    <3>2. QED
      BY <1>1, <1>5, <3>1, TreeFacts, ReturnIs
  <2>3. CASE zcall[c].todo \ {u} = {} /\ where = "mergeSet"
    <3>1. Go(c, where, call)
      BY <1>3, <2>3 DEF call
    <3>2. CallFits(where, call) /\ where \in Places
      BY <1>1, <1>5, TreeFacts, FitsOn
    <3>3. QED
      BY <1>5, <3>1, <3>2, TreeFacts, GoIs
  <2>4. QED
    BY <2>1, <2>2, <2>3
<1>7. CASE ~ok
  BY <1>3, <1>4, <1>6, <1>7, Untouched DEF Data
<1>8. CASE ok
  <2>1. [tree[p].own EXCEPT ![u] = Absent] \in Own
    BY <1>1, <1>4, <1>8, OwnTyped DEF Own
  <2>2. tree' = [tree EXCEPT ![p].own = [tree[p].own EXCEPT ![u] = Absent]]
    BY <1>1, <1>3, <1>8, TreeFacts
  <2>3. QED
    BY <1>1, <1>4, <1>6, <1>8, <2>1, <2>2, OwnGood
<1>9. QED
  BY <1>4, <1>7, <1>8

LEMMA NextListed ==
  ASSUME ZfsInv, NEW c \in Callers, NEW call \in CallRecords, SameCall(zcall[c], call),
         zpc[c] \in {"mountNext", "unmountNext"}, call.todo \subseteq zcall[c].todo,
         Go(c, zpc[c], call)
  PROVE  CallsInv' /\ Steady(c)
<1>1. /\ CallsInv /\ Sensible(Req(c)) /\ At(zpc[c], Req(c).op) /\ zcall[c].before \in States
      /\ CallFits(zpc[c], zcall[c]) /\ zcall[c].req = Req(c)
  BY TreeFacts, Engaged
<1>2. zcall[c].todo \subseteq Paths
  BY <1>1 DEF CallFits
<1>3. CallFits(zpc[c], call) /\ zpc[c] \in Places
  BY <1>1, <1>2 DEF CallFits, SameCall, Places, PathOps
<1>4. QED
  BY <1>1, <1>3, GoIs

LEMMA MountAllNextStep ==
  ASSUME ZfsInv, NEW c \in Callers, MountAllNext(c)
  PROVE  GoodStep(c)
<1>1. zpc[c] = "mountNext" /\ UNCHANGED <<tree, snaps>>
  BY DEF MountAllNext
<1>2. /\ zcall[c] \in CallRecords /\ zcall[c].todo \subseteq Paths /\ Everywhere(Req(c))
  BY <1>1, TreeFacts, Engaged DEF At, CallFits, Everywhere, Sensible, PathOps
<1>3. CASE ReturnZfs(c, zcall[c].ok, zcall[c]) /\ UNCHANGED mnt
  BY <1>1, <1>2, <1>3, ReturnGood DEF Data, CallRecords
<1>4. CASE \E p \in zcall[c].todo : \E ok \in Answer(CanMount(p)) :
             /\ mnt' = IF ok THEN mnt \cup {p} ELSE mnt
             /\ Go(c, "mountNext", [Answered(c, CanMount(p), ok) EXCEPT
                                      !.todo = @ \ {p}, !.ok = @ /\ (ok \/ p \in mnt)])
  <2>1. PICK p \in zcall[c].todo : \E ok \in Answer(CanMount(p)) :
             /\ mnt' = IF ok THEN mnt \cup {p} ELSE mnt
             /\ Go(c, "mountNext", [Answered(c, CanMount(p), ok) EXCEPT
                                      !.todo = @ \ {p}, !.ok = @ /\ (ok \/ p \in mnt)])
    BY <1>4
  <2>2. PICK can \in BOOLEAN : can = CanMount(p)
    BY DEF CanMount
  <2>3. PICK ok \in Answer(can) :
             /\ mnt' = IF ok THEN mnt \cup {p} ELSE mnt
             /\ Go(c, "mountNext", [Answered(c, can, ok) EXCEPT
                                      !.todo = @ \ {p}, !.ok = @ /\ (ok \/ p \in mnt)])
    BY <2>1, <2>2
  <2>4. ok \in BOOLEAN /\ (ok => Exists(p))
    BY <2>2, AnswerIs DEF CanMount
  <2> DEFINE a == Answered(c, can, ok)
             call == [a EXCEPT !.todo = @ \ {p}, !.ok = @ /\ (ok \/ p \in mnt)]
  <2>5. a \in CallRecords /\ SameCall(zcall[c], a) /\ a.todo = zcall[c].todo
    BY <2>4, TreeFacts, AnsweredIs
  <2> HIDE DEF a
  <2>6. /\ call \in CallRecords /\ SameCall(zcall[c], call) /\ call.todo \subseteq zcall[c].todo
    <3>1. PICK good \in BOOLEAN : good = (a.ok /\ (ok \/ p \in mnt))
      BY <2>5 DEF CallRecords
    <3>2. call = [a EXCEPT !.todo = a.todo \ {p}, !.ok = good]
      BY <2>5, <3>1 DEF CallRecords
    <3>3. a.todo \ {p} \in SUBSET (Uprops \cup Paths)
      BY <2>5 DEF CallRecords
    <3> HIDE DEF call
    <3>4. call \in CallRecords
      BY <2>5, <3>2, <3>3 DEF CallRecords
    <3>5. call.todo = a.todo \ {p} /\ call.req = a.req /\ call.before = a.before /\ call.apart = a.apart
      BY <2>5, <3>2 DEF CallRecords
    <3>6. QED
      BY <2>5, <3>4, <3>5 DEF SameCall
  <2>7. CallsInv' /\ Steady(c)
    <3>1. Go(c, zpc[c], call)
      BY <1>1, <2>3 DEF a
    <3> HIDE DEF call
    <3>2. QED
      BY <1>1, <2>6, <3>1, NextListed
  <2>8. /\ \A q \in mnt' : q \in mnt \/ (q \in Paths /\ Exists(q))
        /\ \A q \in Paths : ~Everywhere(Req(c)) /\ Away(q, Req(c)) => (q \in mnt' <=> q \in mnt)
    BY <1>2, <2>3, <2>4
  <2>9. QED
    BY <1>1, <2>7, <2>8, MountGood
<1>5. QED
  BY <1>3, <1>4 DEF MountAllNext

LEMMA UnmountAllNextStep ==
  ASSUME ZfsInv, NEW c \in Callers, UnmountAllNext(c)
  PROVE  GoodStep(c)
<1>1. zpc[c] = "unmountNext" /\ UNCHANGED <<tree, snaps>>
  BY DEF UnmountAllNext
<1>2. /\ zcall[c] \in CallRecords /\ zcall[c].todo \subseteq Paths /\ Everywhere(Req(c))
  BY <1>1, TreeFacts, Engaged DEF At, CallFits, Everywhere, Sensible, PathOps
<1>3. CASE ReturnZfs(c, zcall[c].ok, zcall[c]) /\ UNCHANGED mnt
  BY <1>1, <1>2, <1>3, ReturnGood DEF Data, CallRecords
<1>4. ASSUME NEW p \in Lowest(zcall[c].todo), NEW can \in BOOLEAN, NEW ok \in Answer(can),
             mnt' = (IF ok THEN mnt \ {p} ELSE mnt),
             Go(c, "unmountNext", [Answered(c, can, ok) EXCEPT !.todo = @ \ {p}, !.ok = @ /\ ok])
      PROVE  GoodStep(c)
  <2>4. ok \in BOOLEAN
    BY AnswerIs
  <2> DEFINE a == Answered(c, can, ok)
             call == [a EXCEPT !.todo = @ \ {p}, !.ok = @ /\ ok]
  <2>5. a \in CallRecords /\ SameCall(zcall[c], a) /\ a.todo = zcall[c].todo
    BY <2>4, TreeFacts, AnsweredIs
  <2> HIDE DEF a
  <2>6. /\ call \in CallRecords /\ SameCall(zcall[c], call) /\ call.todo \subseteq zcall[c].todo
    <3>1. PICK good \in BOOLEAN : good = (a.ok /\ ok)
      BY <2>5 DEF CallRecords
    <3>2. call = [a EXCEPT !.todo = a.todo \ {p}, !.ok = good]
      BY <2>5, <3>1 DEF CallRecords
    <3>3. a.todo \ {p} \in SUBSET (Uprops \cup Paths)
      BY <2>5 DEF CallRecords
    <3> HIDE DEF call
    <3>4. call \in CallRecords
      BY <2>5, <3>2, <3>3 DEF CallRecords
    <3>5. call.todo = a.todo \ {p} /\ call.req = a.req /\ call.before = a.before /\ call.apart = a.apart
      BY <2>5, <3>2 DEF CallRecords
    <3>6. QED
      BY <2>5, <3>4, <3>5 DEF SameCall
  <2>7. CallsInv' /\ Steady(c)
    <3>1. Go(c, zpc[c], call)
      BY <1>1, <1>4 DEF a
    <3> HIDE DEF call
    <3>2. QED
      BY <1>1, <2>6, <3>1, NextListed
  <2>8. /\ \A q \in mnt' : q \in mnt \/ (q \in Paths /\ Exists(q))
        /\ \A q \in Paths : ~Everywhere(Req(c)) /\ Away(q, Req(c)) => (q \in mnt' <=> q \in mnt)
    BY <1>2, <1>4
  <2>9. QED
    BY <1>1, <2>7, <2>8, MountGood
<1>5. CASE \E p \in Lowest(zcall[c].todo) :
             LET can == p \in mnt /\ (Req(c).flag \/ ~Busy(p))
             IN \E ok \in Answer(can) :
                  /\ mnt' = IF ok THEN mnt \ {p} ELSE mnt
                  /\ Go(c, "unmountNext", [Answered(c, can, ok) EXCEPT !.todo = @ \ {p}, !.ok = @ /\ ok])
  <2>1. PICK p \in Lowest(zcall[c].todo) :
             LET can == p \in mnt /\ (Req(c).flag \/ ~Busy(p))
             IN \E ok \in Answer(can) :
                  /\ mnt' = IF ok THEN mnt \ {p} ELSE mnt
                  /\ Go(c, "unmountNext", [Answered(c, can, ok) EXCEPT !.todo = @ \ {p}, !.ok = @ /\ ok])
    BY <1>5
  <2>2. PICK can \in BOOLEAN : can = (p \in mnt /\ (Req(c).flag \/ ~Busy(p)))
    OBVIOUS
  <2>3. PICK ok \in Answer(can) :
             /\ mnt' = IF ok THEN mnt \ {p} ELSE mnt
             /\ Go(c, "unmountNext", [Answered(c, can, ok) EXCEPT !.todo = @ \ {p}, !.ok = @ /\ ok])
    BY <2>1, <2>2
  <2>4. QED
    BY <1>4, <2>3
<1>6. QED
  BY <1>3, <1>5 DEF UnmountAllNext

LEMMA RenameParentsStep ==
  ASSUME ZfsInv, NEW c \in Callers, RenameParents(c)
  PROVE  GoodStep(c)
<1> DEFINE r == Req(c)
           missing == {q \in Paths : Atop(q, r.to) /\ ~Exists(q)}
<1>1. zpc[c] = "rename"
  BY DEF RenameParents
<1>2. r.op = "rename" /\ r.path \in Paths /\ r.to \in Paths
  BY <1>1, TreeFacts, Engaged DEF At, Sensible, PathOps
<1>3. CASE ReturnZfs(c, FALSE, zcall[c]) /\ UNCHANGED Data
  BY <1>1, <1>3, SelfReturn, Untouched
<1>4. CASE ReturnZfs(c, FALSE, Answered(c, TRUE, FALSE)) /\ UNCHANGED Data
  BY <1>1, <1>4, AnsweredReturn, Untouched
<1>5. CASE /\ tree' = [q \in Paths |-> IF q \in missing THEN New("on", NoProps) ELSE tree[q]]
           /\ mnt' = mnt \cup missing
           /\ Go(c, "renameTo", zcall[c])
           /\ UNCHANGED snaps
  <2>1. CallsInv' /\ Steady(c)
    BY <1>1, <1>2, <1>5, SelfGo DEF At
  <2>2. /\ New("on", NoProps) \in Datasets /\ New("on", NoProps) # Absent
        /\ New("on", NoProps).origin = Absent
    BY NewIs, NoPropsOwn DEF Modes
  <2>3. ASSUME NEW q \in missing, Len(q) > 1
        PROVE  There(tree, Parent(q)) \/ Parent(q) \in missing
    <3>1. Parent(q) \in Paths /\ Atop(Parent(q), q)
      BY <2>3, ParentTyped
    <3>2. Atop(Parent(q), r.to)
      BY <1>2, <3>1, AtopTransitive
    <3>3. QED
      BY <3>1, <3>2, TreeFacts
  <2>4. \A q \in missing : ~There(tree, q)
    BY TreeFacts
  <2>5. missing \in SUBSET Paths /\ \A q \in missing : Atop(q, r.to)
    OBVIOUS
  <2>6. /\ tree' = [q \in Paths |-> IF q \in missing THEN New("on", NoProps) ELSE tree[q]]
        /\ mnt' = mnt \cup missing /\ snaps' = snaps
    BY <1>5
  <2> HIDE DEF missing
  <2>7. /\ tree' \in [Paths -> Datasets]
        /\ \A q \in Paths : IF q \in missing THEN There(tree', q) /\ tree'[q].origin = Absent
                            ELSE tree'[q] = tree[q]
    BY <2>2, <2>6, TreeFacts DEF There
  <2>8. SoundTree(tree', snaps, mnt \cup missing)
    BY <2>3, <2>4, <2>5, <2>7, TreeFacts, AddedSound
  <2>9. AnyClone(tree') => AnyClone(tree)
    BY <2>7 DEF AnyClone
  <2>10. \A q \in Paths : Away(q, Req(c)) => q \notin missing
    BY <1>2, <2>5 DEF Away
  <2>11. KeepsAway(c)
    BY <2>6, <2>7, <2>10 DEF KeepsAway, Spared
  <2>12. QED
    BY <2>1, <2>6, <2>8, <2>9, <2>11 DEF GoodStep
<1>6. QED
  BY <1>3, <1>4, <1>5 DEF RenameParents

LEMMA RenameStep ==
  ASSUME ZfsInv, NEW c \in Callers, Rename(c)
  PROVE  GoodStep(c)
<1> DEFINE r == Req(c)
           p == r.path
           q == r.to
<1>1. zpc[c] \in {"rename", "renameTo"}
  BY DEF Rename
<1>2. r.op = "rename" /\ p \in Paths /\ q \in Paths
  BY <1>1, TreeFacts, Engaged DEF At, Sensible, PathOps
<1>3. PICK can \in BOOLEAN : can = CanRename(p, q)
  BY DEF CanRename
<1>4. PICK ok \in Answer(can) :
        /\ can => Fits(p, q)
        /\ IF ok
           THEN /\ tree' = [x \in Paths |-> Renamed(tree, p, q, x)]
                /\ snaps' = [x \in Paths |-> SnapsRenamed(snaps, p, q, x)]
                /\ mnt' = {Moved(p, q, x) : x \in mnt}
           ELSE UNCHANGED Data
        /\ ReturnZfs(c, ok, Answered(c, can, ok))
  BY <1>3, Zenon DEF Rename, Renamed, SnapsRenamed, Under
<1>5. ok \in BOOLEAN /\ (ok => can)
  BY AnswerIs
<1>6. CallsInv' /\ Steady(c)
  BY <1>1, <1>4, <1>5, AnsweredReturn
<1>7. CASE ~ok
  BY <1>4, <1>6, <1>7, Untouched
<1>8. CASE ok
  <2>1. /\ There(tree, p) /\ ~There(tree, q) /\ ~Atop(p, q) /\ There(tree, Parent(q))
        /\ Fits(p, q)
    BY <1>3, <1>4, <1>5, <1>8 DEF CanRename, Exists, There
  <2>2. \A x \in Paths : There(tree, x) /\ Under(p, x) => Moved(p, q, x) \in Paths
    BY <2>1, TreeFacts DEF Fits, Tree, Under
  <2>3. /\ tree' = [x \in Paths |-> Renamed(tree, p, q, x)]
        /\ snaps' = [x \in Paths |-> SnapsRenamed(snaps, p, q, x)]
        /\ mnt' = {Moved(p, q, x) : x \in mnt}
    BY <1>4, <1>8
  <2>4. SoundTree(tree', snaps', mnt')
    <3>1. SoundTree(tree, snaps, mnt)
      BY TreeFacts
    <3> HIDE DEF r, p, q
    <3>2. SoundTree([x \in Paths |-> Renamed(tree, p, q, x)],
                    [x \in Paths |-> SnapsRenamed(snaps, p, q, x)],
                    {Moved(p, q, x) : x \in mnt})
      BY <1>2, <2>1, <2>2, <3>1, RenamedSound
    <3>3. QED
      BY <2>3, <3>2
  <2>5. ASSUME AnyClone(tree') PROVE AnyClone(tree)
    <3>1. PICK x \in Paths : Renamed(tree, p, q, x) # Absent /\ Renamed(tree, p, q, x).origin # Absent
      BY <2>3, <2>5 DEF AnyClone
    <3>2. PICK w \in Paths : tree[w] # Absent
            /\ Renamed(tree, p, q, x)
                 = [tree[w] EXCEPT !.origin = IF @ = Absent THEN @ ELSE <<Moved(p, q, @[1]), @[2]>>]
      BY <3>1 DEF Renamed
    <3>3. tree[w] \in [mode : Modes, origin : (Paths \X SnapNames) \cup {Absent}, own : Own]
      BY <3>2, TreeFacts, DatasetTyped
    <3>4. tree[w].origin # Absent
      BY <3>1, <3>2, <3>3
    <3>5. QED
      BY <3>2, <3>4 DEF AnyClone
  <2>6. ASSUME ~AnyClone(tree), NEW x \in Paths, Away(x, r) PROVE Spared(x)
    <3>1. ~Under(p, x) /\ ~Under(q, x)
      BY <1>2, <2>6 DEF Away
    <3>2. Was(p, q, x) = x /\ Moved(p, q, x) = x
      BY <3>1, StaysPut, WasMoved
    <3>3. tree'[x] = tree[x]
      <4>1. CASE tree[x] = Absent
        BY <2>3, <3>1, <3>2, <4>1 DEF Renamed
      <4>2. CASE tree[x] # Absent
        <5>1. tree[x].origin = Absent
          BY <2>6, <4>2 DEF AnyClone
        <5>2. tree[x] \in [mode : Modes, origin : (Paths \X SnapNames) \cup {Absent}, own : Own]
          BY <4>2, TreeFacts, DatasetTyped
        <5>3. Renamed(tree, p, q, x) = [tree[x] EXCEPT !.origin = Absent]
          BY <2>6, <3>1, <3>2, <4>2, <5>1 DEF Renamed
        <5>4. QED
          BY <2>3, <2>6, <5>1, <5>2, <5>3
      <4>3. QED
        BY <4>1, <4>2
    <3>4. snaps'[x] = snaps[x]
      BY <2>3, <2>6, <3>1, <3>2 DEF SnapsRenamed
    <3>5. ASSUME NEW y \in mnt, Moved(p, q, y) = x PROVE y = x
      <4>1. y \in Paths
        BY TreeFacts
      <4>2. CASE Under(p, y)
        <5>1. p \in Seq(Components) /\ q \in Seq(Components) /\ y \in Seq(Components)
          BY <1>2, <4>1, PathTyped
        <5>2. Under(q, Moved(p, q, y))
          BY <4>2, <5>1, MovedUnder
        <5>3. QED
          BY <3>1, <3>5, <5>2
      <4>3. CASE ~Under(p, y)
        BY <3>5, <4>3, StaysPut
      <4>4. QED
        BY <4>2, <4>3
    <3>6. x \in mnt' <=> x \in mnt
      BY <2>3, <3>2, <3>5
    <3>7. QED
      BY <3>3, <3>4, <3>6 DEF Spared
  <2>7. KeepsAway(c)
    BY <1>2, <2>6 DEF KeepsAway, Reaching
  <2>8. QED
    BY <1>6, <2>4, <2>5, <2>7 DEF GoodStep
<1>9. QED
  BY <1>5, <1>7, <1>8

LEMMA SnapsGood ==
  ASSUME ZfsInv, NEW c \in Callers, CallsInv', Steady(c), UNCHANGED <<tree, mnt>>,
         snaps' \in [Paths -> Seq(Snapshots)],
         \A p \in Paths : Unique(snaps'[p]) /\ (~There(tree, p) => snaps'[p] = <<>>),
         \A p \in Paths : There(tree, p) /\ tree[p].origin # Absent =>
           tree[p].origin[2] \in NamesIn(snaps'[tree[p].origin[1]]),
         \A p \in Paths : /\ ~Everywhere(Req(c)) /\ Away(p, Req(c))
                          /\ Req(c).op \in Reaching => ~AnyClone(tree) /\ ~AnyClone(Before(c).tree)
                          => snaps'[p] = snaps[p]
  PROVE  GoodStep(c)
<1>1. SoundTree(tree', snaps', mnt')
  BY TreeFacts, SnapsSound
<1>2. QED
  BY <1>1 DEF GoodStep, KeepsAway, Spared

LEMMA OriginKnown ==
  ASSUME ZfsInv, NEW p \in Paths, There(tree, p), tree[p].origin # Absent
  PROVE  /\ tree[p].origin[1] \in Paths /\ tree[p].origin[2] \in SnapNames
         /\ tree[p].origin = <<tree[p].origin[1], tree[p].origin[2]>>
         /\ tree[p].origin[2] \in NamesIn(snaps[tree[p].origin[1]])
         /\ p \in Clones(tree[p].origin[1], tree[p].origin[2])
<1>1. tree[p] \in Datasets /\ tree[p] # Absent
  BY TreeFacts DEF There
<1>2. SoundPlace(tree, snaps, mnt, p)
  BY TreeFacts, SoundIs
<1>3. QED
  BY <1>1, <1>2, DatasetTyped DEF SoundPlace, Clones, Exists

LEMMA AppendedIs ==
  ASSUME NEW list \in Seq(Snapshots), Unique(list), NEW s \in Snapshots, s.name \notin NamesIn(list)
  PROVE  /\ Append(list, s) \in Seq(Snapshots) /\ Unique(Append(list, s))
         /\ NamesIn(Append(list, s)) = NamesIn(list) \cup {s.name}
<1> DEFINE out == Append(list, s)
<1>1. /\ out \in Seq(Snapshots) /\ Len(out) = Len(list) + 1 /\ out[Len(list) + 1] = s
      /\ \A i \in 1 .. Len(list) : out[i] = list[i]
  BY AppendProperties
<1>2. Len(list) \in Nat
  OBVIOUS
<1> HIDE DEF out
<1>3. Unique(out)
  BY <1>1, <1>2 DEF Unique, NamesIn
<1>4. NamesIn(out) \subseteq NamesIn(list) \cup {s.name}
  BY <1>1, <1>2 DEF NamesIn
<1>5. NamesIn(list) \cup {s.name} \subseteq NamesIn(out)
  <2>1. \A i \in 1 .. Len(list) : i \in 1 .. Len(out)
    BY <1>1, <1>2
  <2>2. Len(list) + 1 \in 1 .. Len(out)
    BY <1>1, <1>2
  <2>3. QED
    BY <1>1, <2>1, <2>2 DEF NamesIn
<1>6. QED
  BY <1>1, <1>3, <1>4, <1>5 DEF out

LEMMA SnapTakeStep ==
  ASSUME ZfsInv, NEW c \in Callers, SnapTake(c)
  PROVE  GoodStep(c)
<1> DEFINE r == Req(c)
           s == [name |-> r.snap, desc |-> r.desc]
<1>1. zpc[c] = "snapTake" /\ UNCHANGED <<tree, mnt>>
  BY DEF SnapTake
<1>2. r.op = "snapCreate" /\ r.path \in Paths /\ r.snap \in SnapNames /\ r.desc \in Descs
  BY <1>1, TreeFacts, Engaged DEF At, Sensible, PathOps, SnapOps
<1>3. \A q \in zcall[c].todo : q \in Paths /\ Under(r.path, q)
  BY <1>1, TreeFacts, Engaged DEF CallFits
<1>4. PICK can \in BOOLEAN :
        can = \A q \in zcall[c].todo : Exists(q) /\ r.snap \notin SnapsOf(q)
  OBVIOUS
<1>5. PICK ok \in Answer(can) :
        /\ snaps' = [q \in Paths |-> IF ok /\ q \in zcall[c].todo THEN Append(snaps[q], s) ELSE snaps[q]]
        /\ ReturnZfs(c, ok, Answered(c, can, ok))
  BY <1>4 DEF SnapTake
<1>6. ok \in BOOLEAN /\ (ok => can)
  BY AnswerIs
<1>7. CallsInv' /\ Steady(c)
  BY <1>1, <1>5, <1>6, AnsweredReturn
<1>8. s \in Snapshots /\ s.name = r.snap
  BY <1>2 DEF Snapshots
<1> HIDE DEF s
<1>9. ASSUME NEW p \in Paths
      PROVE  /\ snaps'[p] \in Seq(Snapshots) /\ Unique(snaps'[p])
             /\ NamesIn(snaps[p]) \subseteq NamesIn(snaps'[p])
             /\ ~There(tree, p) => snaps'[p] = <<>>
             /\ Away(p, r) => snaps'[p] = snaps[p]
  <2>1. CASE ok /\ p \in zcall[c].todo
    <3>1. There(tree, p) /\ s.name \notin NamesIn(snaps[p]) /\ Under(r.path, p)
      BY <1>3, <1>4, <1>6, <1>8, <2>1 DEF SnapsOf, Exists, There
    <3>2. snaps'[p] = Append(snaps[p], s)
      BY <1>5, <2>1
    <3>3. QED
      BY <1>2, <1>8, <3>1, <3>2, TreeFacts, AppendedIs DEF Away
  <2>2. CASE ~(ok /\ p \in zcall[c].todo)
    BY <1>5, <2>2, TreeFacts
  <2>3. QED
    BY <2>1, <2>2
<1>10. snaps' \in [Paths -> Seq(Snapshots)]
  <2>1. snaps' = [p \in Paths |-> snaps'[p]]
    BY <1>5
  <2>2. QED
    BY <1>9, <2>1
<1>11. \A p \in Paths : There(tree, p) /\ tree[p].origin # Absent =>
         tree[p].origin[2] \in NamesIn(snaps'[tree[p].origin[1]])
  BY <1>9, OriginKnown
<1>12. QED
  BY <1>1, <1>7, <1>9, <1>10, <1>11, SnapsGood

LEMMA WithoutIs ==
  ASSUME ZfsInv, NEW p \in Paths, NEW names
  PROVE  /\ Without(p, names) \in Seq(Snapshots) /\ Unique(Without(p, names))
         /\ NamesIn(Without(p, names)) = NamesIn(snaps[p]) \ names
         /\ NamesIn(snaps[p]) \cap names = {} => Without(p, names) = snaps[p]
BY TreeFacts, WithoutFacts DEF Without

LEMMA NoneFromNone ==
  ASSUME ZfsInv, NEW p \in Paths, ~There(tree, p), NEW names
  PROVE  Without(p, names) = <<>>
<1>1. snaps[p] = <<>>
  BY TreeFacts
<1>2. NamesIn(snaps[p]) = {}
  BY <1>1 DEF NamesIn
<1>3. QED
  BY <1>1, <1>2, WithoutIs

LEMMA SnapDropStep ==
  ASSUME ZfsInv, NEW c \in Callers, SnapDrop(c)
  PROVE  GoodStep(c)
<1> DEFINE r == Req(c)
<1>1. zpc[c] = "snapDrop" /\ UNCHANGED <<tree, mnt>>
  BY DEF SnapDrop
<1>2. r.op = "snapDestroy" /\ r.path \in Paths
  BY <1>1, TreeFacts, Engaged DEF At, Sensible, PathOps
<1>3. \A q \in zcall[c].todo : q \in Paths /\ Under(r.path, q)
  BY <1>1, TreeFacts, Engaged DEF CallFits
<1>4. PICK can \in BOOLEAN : can = \A q \in zcall[c].todo : Clones(q, r.snap) = {}
  OBVIOUS
<1>5. PICK ok \in Answer(can) :
        /\ snaps' = [q \in Paths |->
             IF ok /\ q \in zcall[c].todo THEN Without(q, {r.snap}) ELSE snaps[q]]
        /\ ReturnZfs(c, ok, Answered(c, can, ok))
  BY <1>4 DEF SnapDrop
<1>6. ok \in BOOLEAN /\ (ok => can)
  BY AnswerIs
<1>7. CallsInv' /\ Steady(c)
  BY <1>1, <1>5, <1>6, AnsweredReturn
<1>8. ASSUME NEW p \in Paths
      PROVE  /\ snaps'[p] \in Seq(Snapshots) /\ Unique(snaps'[p])
             /\ ~There(tree, p) => snaps'[p] = <<>>
             /\ Away(p, r) => snaps'[p] = snaps[p]
  <2>1. CASE ok /\ p \in zcall[c].todo
    <3>1. snaps'[p] = Without(p, {r.snap})
      BY <1>5, <2>1
    <3>2. QED
      BY <1>2, <1>3, <2>1, <3>1, WithoutIs, NoneFromNone DEF Away
  <2>2. CASE ~(ok /\ p \in zcall[c].todo)
    BY <1>5, <2>2, TreeFacts
  <2>3. QED
    BY <2>1, <2>2
<1>9. snaps' \in [Paths -> Seq(Snapshots)]
  <2>1. snaps' = [p \in Paths |-> snaps'[p]]
    BY <1>5
  <2>2. QED
    BY <1>8, <2>1
<1>10. ASSUME NEW p \in Paths, There(tree, p), tree[p].origin # Absent
       PROVE  tree[p].origin[2] \in NamesIn(snaps'[tree[p].origin[1]])
  <2> DEFINE q == tree[p].origin[1]
             n == tree[p].origin[2]
  <2>1. q \in Paths /\ n \in NamesIn(snaps[q]) /\ p \in Clones(q, n)
    BY <1>10, OriginKnown
  <2> HIDE DEF q, n
  <2>2. CASE ok /\ q \in zcall[c].todo
    <3>1. n # r.snap
      BY <1>4, <1>6, <2>1, <2>2
    <3>2. snaps'[q] = Without(q, {r.snap})
      BY <1>5, <2>1, <2>2
    <3>3. QED
      BY <2>1, <3>1, <3>2, WithoutIs DEF q, n
  <2>3. CASE ~(ok /\ q \in zcall[c].todo)
    BY <1>5, <2>1, <2>3 DEF q, n
  <2>4. QED
    BY <2>2, <2>3
<1>11. QED
  BY <1>1, <1>7, <1>8, <1>9, <1>10, SnapsGood

(* A list of snapshots written anew, place by place. *)
LEMMA RewrittenIs ==
  ASSUME NEW list \in Seq(Snapshots), NEW out, DOMAIN out = 1 .. Len(list),
         out = [i \in 1 .. Len(list) |-> out[i]],
         \A i \in 1 .. Len(list) : out[i] \in Snapshots
  PROVE  out \in Seq(Snapshots) /\ Len(out) = Len(list)
<1>1. Len(list) \in Nat
  OBVIOUS
<1>2. out \in [1 .. Len(list) -> Snapshots]
  BY SMT
<1>3. QED
  BY <1>1, <1>2

LEMMA SnapUpdateStep ==
  ASSUME ZfsInv, NEW c \in Callers, SnapUpdate(c)
  PROVE  GoodStep(c)
<1> DEFINE r == Req(c)
<1>1. zpc[c] = "snapUpdate" /\ UNCHANGED <<tree, mnt>>
  BY DEF SnapUpdate
<1>2. r.op = "snapUpdate" /\ r.path \in Paths /\ r.desc \in Descs
  BY <1>1, TreeFacts, Engaged DEF At, Sensible, PathOps, SnapOps
<1>3. PICK can \in BOOLEAN : can = (Exists(r.path) /\ r.snap \in SnapsOf(r.path))
  BY DEF Exists
<1>4. PICK ok \in Answer(can) :
        /\ snaps' = IF ok THEN Rewritten({r.path}, r.snap, LAMBDA s : [s EXCEPT !.desc = r.desc])
                    ELSE snaps
        /\ ReturnZfs(c, ok, Answered(c, can, ok))
  BY <1>3 DEF SnapUpdate
<1>5. ok \in BOOLEAN
  BY AnswerIs
<1>6. CallsInv' /\ Steady(c)
  BY <1>1, <1>4, <1>5, AnsweredReturn
<1>7. CASE ~ok
  BY <1>1, <1>4, <1>6, <1>7, Untouched DEF Data
<1>8. CASE ok
  <2>1. snaps' = [q \in Paths |-> [i \in 1 .. Len(snaps[q]) |->
                   IF q \in {r.path} /\ snaps[q][i].name = r.snap
                   THEN [snaps[q][i] EXCEPT !.desc = r.desc] ELSE snaps[q][i]]]
    BY <1>4, <1>8 DEF Rewritten
  <2>2. ASSUME NEW p \in Paths
        PROVE  /\ snaps'[p] \in Seq(Snapshots) /\ Len(snaps'[p]) = Len(snaps[p])
               /\ \A i \in 1 .. Len(snaps[p]) : snaps'[p][i].name = snaps[p][i].name
               /\ p # r.path => snaps'[p] = snaps[p]
    <3>1. snaps[p] \in Seq(Snapshots) /\ \A i \in 1 .. Len(snaps[p]) : snaps[p][i] \in Snapshots
      BY TreeFacts, ElementOfSeq
    <3>2. ASSUME NEW i \in 1 .. Len(snaps[p])
          PROVE  /\ snaps'[p][i] \in Snapshots /\ snaps'[p][i].name = snaps[p][i].name
                 /\ p # r.path => snaps'[p][i] = snaps[p][i]
      BY <1>2, <2>1, <3>1 DEF Snapshots
    <3>3. DOMAIN snaps'[p] = 1 .. Len(snaps[p])
          /\ snaps'[p] = [i \in 1 .. Len(snaps[p]) |-> snaps'[p][i]]
      BY <2>1
    <3>4. snaps'[p] \in Seq(Snapshots) /\ Len(snaps'[p]) = Len(snaps[p])
      BY <3>1, <3>2, <3>3, RewrittenIs
    <3>5. p # r.path => snaps'[p] = snaps[p]
      BY <3>1, <3>2, <3>4, SeqEqual
    <3>6. QED
      BY <3>2, <3>4, <3>5
  <2>3. snaps' \in [Paths -> Seq(Snapshots)]
    <3>1. snaps' = [p \in Paths |-> snaps'[p]]
      BY <2>1
    <3>2. QED
      BY <2>2, <3>1
  <2>4. ASSUME NEW p \in Paths
        PROVE  /\ Unique(snaps'[p]) /\ NamesIn(snaps'[p]) = NamesIn(snaps[p])
               /\ ~There(tree, p) => snaps'[p] = <<>>
    <3>1. Unique(snaps'[p])
      BY <2>2, TreeFacts, ZenonT(60) DEF Unique
    <3>2. NamesIn(snaps'[p]) = NamesIn(snaps[p])
      BY <2>2 DEF NamesIn
    <3>3. ASSUME ~There(tree, p) PROVE snaps'[p] = <<>>
      <4>1. Len(snaps'[p]) = 0
        BY <2>2, <3>3, TreeFacts
      <4>2. QED
        BY <2>2, <4>1, EmptySeq
    <3>4. QED
      BY <3>1, <3>2, <3>3
  <2>5. \A p \in Paths : There(tree, p) /\ tree[p].origin # Absent =>
          tree[p].origin[2] \in NamesIn(snaps'[tree[p].origin[1]])
    BY <2>4, OriginKnown
  <2>6. \A p \in Paths : Away(p, r) => snaps'[p] = snaps[p]
    BY <1>2, <2>2 DEF Away, Under
  <2>7. QED
    BY <1>1, <1>6, <2>3, <2>4, <2>5, <2>6, SnapsGood
<1>9. QED
  BY <1>5, <1>7, <1>8

(* The snapshots of a list that are called old are called new. *)
Recalled(list, old, new) ==
  [i \in 1 .. Len(list) |-> IF list[i].name = old THEN [list[i] EXCEPT !.name = new] ELSE list[i]]

LEMMA RecalledIs ==
  ASSUME NEW list \in Seq(Snapshots), Unique(list), NEW old, NEW new \in SnapNames,
         old \in NamesIn(list) => new \notin NamesIn(list)
  PROVE  /\ Recalled(list, old, new) \in Seq(Snapshots) /\ Unique(Recalled(list, old, new))
         /\ NamesIn(list) \ {old} \subseteq NamesIn(Recalled(list, old, new))
         /\ old \in NamesIn(list) => new \in NamesIn(Recalled(list, old, new))
         /\ list = <<>> => Recalled(list, old, new) = <<>>
<1> DEFINE out == Recalled(list, old, new)
<1>1. \A i \in 1 .. Len(list) : list[i] \in Snapshots
  BY ElementOfSeq
<1>2. ASSUME NEW i \in 1 .. Len(list)
      PROVE  /\ out[i] \in Snapshots
             /\ out[i].name = IF list[i].name = old THEN new ELSE list[i].name
  BY <1>1 DEF Recalled, Snapshots
<1>3. DOMAIN out = 1 .. Len(list) /\ out = [i \in 1 .. Len(list) |-> out[i]]
  BY DEF Recalled
<1> HIDE DEF out
<1>4. out \in Seq(Snapshots) /\ Len(out) = Len(list)
  BY <1>2, <1>3, RewrittenIs
<1>5. Unique(out)
  BY <1>2, <1>4 DEF Unique, NamesIn
<1>6. NamesIn(list) \ {old} \subseteq NamesIn(out)
  BY <1>2, <1>4 DEF NamesIn
<1>7. old \in NamesIn(list) => new \in NamesIn(out)
  BY <1>2, <1>4 DEF NamesIn
<1>8. list = <<>> => out = <<>>
  BY <1>4, EmptySeq
<1>9. QED
  BY <1>4, <1>5, <1>6, <1>7, <1>8 DEF out

LEMMA SnapRenameStep ==
  ASSUME ZfsInv, NEW c \in Callers, SnapRename(c)
  PROVE  GoodStep(c)
<1> DEFINE r == Req(c)
           P == IF r.how = "recursive" THEN Tree(r.path) ELSE {r.path}
<1>1. zpc[c] = "snapRename" /\ UNCHANGED mnt
  BY DEF SnapRename
<1>2. r.op = "snapRename" /\ r.path \in Paths /\ r.new \in SnapNames
  BY <1>1, TreeFacts, Engaged DEF At, Sensible, PathOps, SnapOps
<1>3. P \in SUBSET Paths /\ \A q \in P : Under(r.path, q)
  BY <1>2 DEF Tree, Under
<1>4. PICK old \in OldNames(r), can \in BOOLEAN :
        /\ can => \A q \in P : old \in SnapsOf(q) => r.new \notin SnapsOf(q)
        /\ \E ok \in Answer(can) :
             /\ IF ok
                THEN /\ snaps' = [q \in Paths |-> [i \in 1 .. Len(snaps[q]) |->
                          IF q \in P /\ snaps[q][i].name = old
                          THEN [snaps[q][i] EXCEPT !.name = r.new] ELSE snaps[q][i]]]
                     /\ tree' = [q \in Paths |->
                          IF Exists(q) /\ tree[q].origin # Absent /\ tree[q].origin[1] \in P
                                /\ tree[q].origin[2] = old
                          THEN [tree[q] EXCEPT !.origin = <<@[1], r.new>>] ELSE tree[q]]
                ELSE UNCHANGED <<tree, snaps>>
             /\ ReturnZfs(c, ok, Answered(c, can, ok))
  <2>1. PICK old \in OldNames(r) :
       LET can == /\ Exists(r.path)
                  /\ r.how # "recursive" => old \in SnapsOf(r.path)
                  /\ \A q \in P : old \in SnapsOf(q) => r.new \notin SnapsOf(q)
       IN \E ok \in Answer(can) :
            /\ IF ok
               THEN /\ snaps' = Rewritten(P, old, LAMBDA s : [s EXCEPT !.name = r.new])
                    /\ tree' = [q \in Paths |->
                         IF Exists(q) /\ tree[q].origin # Absent /\ tree[q].origin[1] \in P
                               /\ tree[q].origin[2] = old
                         THEN [tree[q] EXCEPT !.origin = <<@[1], r.new>>] ELSE tree[q]]
               ELSE UNCHANGED <<tree, snaps>>
            /\ ReturnZfs(c, ok, Answered(c, can, ok))
    BY DEF SnapRename
  <2>2. PICK can \in BOOLEAN :
          can = (/\ Exists(r.path)
                 /\ r.how # "recursive" => old \in SnapsOf(r.path)
                 /\ \A q \in P : old \in SnapsOf(q) => r.new \notin SnapsOf(q))
    OBVIOUS
  <2> HIDE DEF P
  <2>3. \E ok \in Answer(can) :
            /\ IF ok
               THEN /\ snaps' = Rewritten(P, old, LAMBDA s : [s EXCEPT !.name = r.new])
                    /\ tree' = [q \in Paths |->
                         IF Exists(q) /\ tree[q].origin # Absent /\ tree[q].origin[1] \in P
                               /\ tree[q].origin[2] = old
                         THEN [tree[q] EXCEPT !.origin = <<@[1], r.new>>] ELSE tree[q]]
               ELSE UNCHANGED <<tree, snaps>>
            /\ ReturnZfs(c, ok, Answered(c, can, ok))
    BY <2>1, <2>2, Zenon DEF P
  <2>4. QED
    BY <2>2, <2>3 DEF Rewritten
<1>5. PICK ok \in Answer(can) :
        /\ IF ok
           THEN /\ snaps' = [q \in Paths |-> [i \in 1 .. Len(snaps[q]) |->
                     IF q \in P /\ snaps[q][i].name = old
                     THEN [snaps[q][i] EXCEPT !.name = r.new] ELSE snaps[q][i]]]
                /\ tree' = [q \in Paths |->
                     IF Exists(q) /\ tree[q].origin # Absent /\ tree[q].origin[1] \in P
                           /\ tree[q].origin[2] = old
                     THEN [tree[q] EXCEPT !.origin = <<@[1], r.new>>] ELSE tree[q]]
           ELSE UNCHANGED <<tree, snaps>>
        /\ ReturnZfs(c, ok, Answered(c, can, ok))
  BY <1>4
<1>6. ok \in BOOLEAN /\ (ok => can)
  BY AnswerIs
<1>7. CallsInv' /\ Steady(c)
  BY <1>1, <1>5, <1>6, AnsweredReturn
<1>8. CASE ~ok
  BY <1>1, <1>5, <1>7, <1>8, Untouched DEF Data
<1>9. CASE ok
  <2> HIDE DEF P
  <2>1. ASSUME NEW p \in Paths
        PROVE  /\ p \in P => snaps'[p] = Recalled(snaps[p], old, r.new)
               /\ p \notin P => snaps'[p] = snaps[p]
    <3>1. CASE p \in P
      BY <1>5, <1>9, <3>1 DEF Recalled
    <3>2. CASE p \notin P
      <4>1. snaps'[p] = [i \in 1 .. Len(snaps[p]) |-> snaps[p][i]]
        BY <1>5, <1>9, <3>2
      <4>2. snaps[p] \in Seq(Snapshots)
        BY TreeFacts
      <4>3. snaps'[p] = snaps[p]
        BY <4>1, <4>2
      <4>4. QED
        BY <3>2, <4>3
    <3>3. QED
      BY <3>1, <3>2
  <2>2. ASSUME NEW p \in Paths
        PROVE  /\ snaps'[p] \in Seq(Snapshots) /\ Unique(snaps'[p])
               /\ ~There(tree, p) => snaps'[p] = <<>>
               /\ p \in P => /\ NamesIn(snaps[p]) \ {old} \subseteq NamesIn(snaps'[p])
                             /\ old \in NamesIn(snaps[p]) => r.new \in NamesIn(snaps'[p])
    <3>1. CASE p \in P
      <4>1. old \in NamesIn(snaps[p]) => r.new \notin NamesIn(snaps[p])
        BY <1>4, <1>6, <1>9, <3>1 DEF SnapsOf
      <4>2. QED
        BY <1>2, <2>1, <3>1, <4>1, TreeFacts, RecalledIs
    <3>2. CASE p \notin P
      BY <2>1, <3>2, TreeFacts
    <3>3. QED
      BY <3>1, <3>2
  <2>3. snaps' \in [Paths -> Seq(Snapshots)]
    <3>1. snaps' = [p \in Paths |-> snaps'[p]]
      BY <1>5, <1>9
    <3>2. QED
      BY <2>2, <3>1
  <2>4. ASSUME NEW p \in Paths
        PROVE  /\ tree'[p] \in Datasets /\ (There(tree', p) <=> There(tree, p))
               /\ There(tree, p) /\ tree[p].origin = Absent => tree'[p] = tree[p]
               /\ There(tree, p) /\ tree[p].origin # Absent =>
                    /\ tree'[p].origin[1] = tree[p].origin[1]
                    /\ tree'[p].origin[2] = IF tree[p].origin[1] \in P /\ tree[p].origin[2] = old
                                            THEN r.new ELSE tree[p].origin[2]
    <3>1. tree[p] \in Datasets
      BY TreeFacts
    <3>2. CASE ~There(tree, p) \/ tree[p].origin = Absent \/ tree[p].origin[1] \notin P
               \/ tree[p].origin[2] # old
      <4>1. tree'[p] = tree[p]
        BY <1>5, <1>9, <3>2 DEF There, Exists
      <4>2. QED
        BY <3>1, <3>2, <4>1 DEF There
    <3>3. CASE There(tree, p) /\ tree[p].origin # Absent /\ tree[p].origin[1] \in P
               /\ tree[p].origin[2] = old
      <4>1. /\ tree[p] \in [mode : Modes, origin : (Paths \X SnapNames) \cup {Absent}, own : Own]
            /\ tree[p].origin[1] \in Paths
        BY <3>1, <3>3, DatasetTyped DEF There
      <4>2. tree'[p] = [tree[p] EXCEPT !.origin = <<tree[p].origin[1], r.new>>]
        BY <1>5, <1>9, <3>3, <4>1 DEF There, Exists
      <4>3. /\ tree'[p] \in [mode : Modes, origin : (Paths \X SnapNames) \cup {Absent}, own : Own]
            /\ tree'[p].origin = <<tree[p].origin[1], r.new>>
        BY <1>2, <4>1, <4>2
      <4>4. tree'[p] # Absent /\ tree'[p] \in Datasets
        BY <4>3, ZfsAssumption DEF Datasets
      <4>5. QED
        BY <3>3, <4>3, <4>4 DEF There
    <3>4. QED
      BY <3>2, <3>3
  <2>5. tree' \in [Paths -> Datasets]
    <3>1. tree' = [p \in Paths |-> tree'[p]]
      BY <1>5, <1>9
    <3>2. QED
      BY <2>4, <3>1
  <2>6. SoundTree(tree', snaps', mnt)
    <3>1. TreeTyped(tree', snaps', mnt)
      BY <2>3, <2>5, TreeFacts DEF TreeTyped
    <3>2. ASSUME NEW p \in Paths PROVE SoundPlace(tree', snaps', mnt, p)
      <4>1. SoundPlace(tree, snaps, mnt, p)
        BY TreeFacts, SoundIs
      <4>2. There(tree', p) /\ Len(p) > 1 => There(tree', Parent(p))
        BY <2>4, <4>1, ParentTyped DEF SoundPlace
      <4>3. ASSUME There(tree', p), tree'[p].origin # Absent
            PROVE  tree'[p].origin[2] \in NamesIn(snaps'[tree'[p].origin[1]])
        <5>1. There(tree, p) /\ tree[p].origin # Absent
          BY <2>4, <4>3
        <5>2. PICK q \in Paths, n \in SnapNames : /\ q = tree[p].origin[1] /\ n = tree[p].origin[2]
                                                 /\ n \in NamesIn(snaps[q])
          BY <5>1, OriginKnown
        <5>3. /\ tree'[p].origin[1] = q
              /\ tree'[p].origin[2] = IF q \in P /\ n = old THEN r.new ELSE n
          BY <2>4, <5>1, <5>2
        <5>4. CASE q \in P
          BY <2>2, <5>2, <5>3, <5>4
        <5>5. CASE q \notin P
          BY <2>1, <5>2, <5>3, <5>5
        <5>6. QED
          BY <5>4, <5>5
      <4>4. ~There(tree', p) => snaps'[p] = <<>> /\ p \notin mnt
        BY <2>2, <2>4, <4>1 DEF SoundPlace
      <4>5. QED
        BY <2>2, <4>2, <4>3, <4>4 DEF SoundPlace
    <3>3. QED
      BY <3>1, <3>2, SoundIs
  <2>7. AnyClone(tree') => AnyClone(tree)
    BY <2>4 DEF AnyClone, There
  <2>8. ASSUME ~AnyClone(tree), NEW p \in Paths, Away(p, r) PROVE Spared(p)
    <3>1. p \notin P
      BY <1>2, <1>3, <2>8 DEF Away, P
    <3>2. tree'[p] = tree[p]
      <4>1. ~There(tree, p) => tree[p] = Absent /\ tree'[p] = Absent
        BY <2>4 DEF There
      <4>2. There(tree, p) => tree[p].origin = Absent
        BY <2>8 DEF AnyClone, There
      <4>3. QED
        BY <2>4, <4>1, <4>2
    <3>3. QED
      BY <1>1, <2>1, <3>1, <3>2 DEF Spared
  <2>9. KeepsAway(c)
    BY <1>2, <2>8 DEF KeepsAway, Reaching
  <2>10. QED
    BY <1>1, <1>7, <2>6, <2>7, <2>9 DEF GoodStep
<1>10. QED
  BY <1>6, <1>8, <1>9

LEMMA NoClones ==
  ASSUME ~AnyClone(tree), NEW p \in Paths, NEW s \in SnapNames
  PROVE  Clones(p, s) = {}
<1>1. Absent # <<p, s>>
  BY ZfsAssumption
<1>2. QED
  BY <1>1 DEF AnyClone, Clones, Exists

LEMMA RollbackStep ==
  ASSUME ZfsInv, NEW c \in Callers, Rollback(c)
  PROVE  GoodStep(c)
<1> DEFINE r == Req(c)
           x == r.path
           at == CHOOSE i \in 1 .. Len(snaps[x]) : snaps[x][i].name = r.snap
           later(k) == {snaps[x][i].name : i \in k + 1 .. Len(snaps[x])}
           dead(k) == UNION {Tree(q) : q \in UNION {Clones(x, s) : s \in later(k)}}
<1>1. zpc[c] = "rollback"
  BY DEF Rollback
<1>2. r.op = "rollback" /\ x \in Paths
  BY <1>1, TreeFacts, Engaged DEF At, Sensible, PathOps
<1>3. CASE ReturnZfs(c, FALSE, zcall[c]) /\ UNCHANGED Data
  BY <1>1, <1>3, SelfReturn, Untouched
<1>4. CASE /\ Exists(x) /\ r.snap \in SnapsOf(x)
           /\ \E k \in at .. Len(snaps[x]), ok \in Answer(TRUE) :
                /\ \A q \in dead(k) : snaps[q] = <<>>
                /\ snaps' = [snaps EXCEPT ![x] = SubSeq(@, 1, k)]
                /\ tree' = [q \in Paths |-> IF q \in dead(k) THEN Absent ELSE tree[q]]
                /\ mnt' = mnt \ dead(k)
                /\ ReturnZfs(c, ok, Answered(c, TRUE, ok))
  <2>1. at \in 1 .. Len(snaps[x])
    BY <1>4 DEF SnapsOf, NamesIn
  <2> HIDE DEF at
  <2>2. snaps[x] \in Seq(Snapshots) /\ Len(snaps[x]) \in Nat
        /\ \A i \in 1 .. Len(snaps[x]) : snaps[x][i] \in Snapshots
    BY <1>2, TreeFacts, ElementOfSeq
  <2>3. PICK k \in at .. Len(snaps[x]), ok \in Answer(TRUE) :
                /\ \A q \in dead(k) : snaps[q] = <<>>
                /\ snaps' = [snaps EXCEPT ![x] = SubSeq(@, 1, k)]
                /\ tree' = [q \in Paths |-> IF q \in dead(k) THEN Absent ELSE tree[q]]
                /\ mnt' = mnt \ dead(k)
                /\ ReturnZfs(c, ok, Answered(c, TRUE, ok))
    BY <1>4
  <2>4. ok \in BOOLEAN
    BY AnswerIs
  <2>5. CallsInv' /\ Steady(c)
    BY <1>1, <2>3, <2>4, AnsweredReturn
  <2>6. k \in 1 .. Len(snaps[x]) /\ k \in 0 .. Len(snaps[x])
    BY <2>1, <2>2, <2>3
  <2>7. /\ SubSeq(snaps[x], 1, k) \in Seq(Snapshots) /\ Len(SubSeq(snaps[x], 1, k)) = k
        /\ \A i \in 1 .. k : SubSeq(snaps[x], 1, k)[i] = snaps[x][i]
    BY <2>2, <2>6, BeginningIs
  <2> DEFINE gone == dead(k)
  <2>8. /\ snaps' = [snaps EXCEPT ![x] = SubSeq(snaps[x], 1, k)] /\ mnt' = mnt \ gone
        /\ tree' = [q \in Paths |-> IF q \in gone THEN Absent ELSE tree[q]]
        /\ \A q \in gone : snaps[q] = <<>>
    BY <1>2, <2>3, TreeFacts
  <2>9. gone \in SUBSET Paths
    BY DEF Tree
  <2>10. ASSUME NEW p \in Paths, NEW q \in gone, There(tree, p), Atop(q, p) PROVE p \in gone
    <3>1. PICK s \in later(k) : \E b \in Clones(x, s) : q \in Tree(b)
      OBVIOUS
    <3>2. PICK b \in Clones(x, s) : q \in Tree(b)
      BY <3>1
    <3>3. b \in Paths /\ q \in Paths /\ Under(b, q)
      BY <3>2 DEF Tree, Clones, Under
    <3>4. Atop(b, p)
      BY <2>10, <3>3, AtopTransitive DEF Under
    <3>5. p \in Tree(b)
      BY <2>10, <3>4, TreeFacts DEF Tree
    <3>6. QED
      BY <3>1, <3>2, <3>5
  <2>11. ASSUME NEW p \in Paths, There(tree, p), tree[p].origin = <<x, tree[p].origin[2]>>,
                tree[p].origin[2] \in later(k)
         PROVE  p \in gone
    <3>1. p \in Clones(x, tree[p].origin[2]) /\ p \in Tree(p)
      BY <2>11, TreeFacts DEF Clones, Tree
    <3>2. QED
      BY <2>11, <3>1
  <2>12. x \notin gone
    BY <2>1, <2>2, <2>8, EmptySeq
  <2>13. ASSUME ~AnyClone(tree) PROVE gone = {}
    <3>1. \A s \in later(k) : s \in SnapNames
      BY <2>2, <2>6 DEF Snapshots
    <3>2. QED
      BY <1>2, <2>13, <3>1, NoClones
  <2> HIDE DEF gone
  <2>14. tree' \in [Paths -> Datasets]
    BY <2>8, TreeFacts DEF Datasets
  <2>15. /\ snaps' \in [Paths -> Seq(Snapshots)] /\ snaps'[x] = SubSeq(snaps[x], 1, k)
         /\ \A p \in Paths \ {x} : snaps'[p] = snaps[p]
    BY <1>2, <2>7, <2>8, TreeFacts
  <2>16. ASSUME NEW p \in Paths
         PROVE  Unique(snaps'[p]) /\ (~There(tree, p) \/ p \in gone => snaps'[p] = <<>>)
    <3>1. CASE p = x
      <4>1. Unique(snaps[x]) /\ There(tree, x)
        BY <1>2, <1>4, TreeFacts
      <4>2. Unique(snaps'[x])
        BY <2>6, <2>7, <2>15, <4>1 DEF Unique
      <4>3. QED
        BY <2>12, <3>1, <4>1, <4>2
    <3>2. CASE p # x
      BY <2>8, <2>15, <3>2, TreeFacts
    <3>3. QED
      BY <3>1, <3>2
  <2>17. ASSUME NEW p \in Paths \ gone, There(tree, p)
         PROVE  /\ Len(p) > 1 => Parent(p) \notin gone
                /\ tree[p].origin # Absent => tree[p].origin[2] \in NamesIn(snaps'[tree[p].origin[1]])
    <3>1. Len(p) > 1 => Parent(p) \notin gone
      BY <2>10, <2>17, ParentTyped
    <3>2. ASSUME tree[p].origin # Absent
          PROVE  tree[p].origin[2] \in NamesIn(snaps'[tree[p].origin[1]])
      <4>1. PICK q \in Paths, n \in SnapNames : /\ q = tree[p].origin[1] /\ n = tree[p].origin[2]
                                                /\ n \in NamesIn(snaps[q]) /\ tree[p].origin = <<q, n>>
        BY <2>17, <3>2, OriginKnown
      <4>2. CASE q # x
        BY <2>15, <4>1, <4>2
      <4>3. CASE q = x
        <5>1. PICK i \in 1 .. Len(snaps[x]) : n = snaps[x][i].name
          BY <4>1, <4>3 DEF NamesIn
        <5>2. CASE i <= k
          <6>1. i \in 1 .. k
            BY <2>6, <5>1, <5>2
          <6>2. n \in NamesIn(snaps'[x])
            BY <2>7, <2>15, <5>1, <6>1 DEF NamesIn
          <6>3. QED
            BY <4>1, <4>3, <6>2
        <5>3. CASE ~(i <= k)
          <6>1. i \in k + 1 .. Len(snaps[x])
            BY <2>6, <5>1, <5>3
          <6>2. n \in later(k)
            BY <5>1, <6>1
          <6>3. QED
            BY <2>11, <2>17, <4>1, <4>3, <6>2
        <5>4. QED
          BY <5>2, <5>3
      <4>4. QED
        BY <4>2, <4>3
    <3>3. QED
      BY <3>1, <3>2
  <2>18. SoundTree(tree', snaps', mnt')
    <3>1. \A p \in Paths : tree'[p] = IF p \in gone THEN Absent ELSE tree[p]
      BY <2>8
    <3>2. mnt' \subseteq mnt \ gone
      BY <2>8
    <3>3. QED
      BY <2>9, <2>14, <2>15, <2>16, <2>17, <3>1, <3>2, TreeFacts, TakenSound, ZenonT(60)
  <2>19. AnyClone(tree') => AnyClone(tree)
    BY <2>8 DEF AnyClone
  <2>20. KeepsAway(c)
    <3>1. ASSUME ~AnyClone(tree), NEW p \in Paths, Away(p, r) PROVE Spared(p)
      <4>1. p # x
        BY <1>2, <3>1 DEF Away, Under
      <4>2. QED
        BY <2>8, <2>13, <2>15, <3>1, <4>1 DEF Spared
    <3>2. QED
      BY <1>2, <3>1 DEF KeepsAway, Reaching
  <2>21. QED
    BY <2>5, <2>18, <2>19, <2>20 DEF GoodStep
<1>5. QED
  BY <1>3, <1>4 DEF Rollback

(* What is taken along when a batch goes, or a frame. *)
LEMMA AfterWalk ==
  ASSUME ZfsInv, NEW c \in Callers, zpc[c] = "walk", NEW call \in CallRecords, SameCall(zcall[c], call),
         call.stack = zcall[c].stack, call.batch \subseteq zcall[c].batch,
         \/ Failed(c, call) \/ PopZfs(c, call)
         \/ Go(c, "walk", [call EXCEPT !.stack = Phase(c, "destroy", {})])
  PROVE  CallsInv' /\ Steady(c)
<1>1. CASE Failed(c, call)
  BY <1>1, FailedIs
<1>2. CASE PopZfs(c, call)
  <2>1. ~AnyClone(Before(c).tree) => \A b \in call.batch : Under(Req(c).path, b[1])
    BY WalkingIs
  <2>2. QED
    BY <1>2, <2>1, PopIs
<1>3. CASE Go(c, "walk", [call EXCEPT !.stack = Phase(c, "destroy", {})])
  <2> DEFINE s == Phase(c, "destroy", {})
             next == [call EXCEPT !.stack = s]
  <2>1. /\ s \in Seq(Frames) /\ s # <<>> /\ s[1].phase # "clones"
        /\ ~AnyClone(Before(c).tree) => \A i \in 1 .. Len(s) : FrameFits(Req(c), s[i])
    BY PhaseIs
  <2> HIDE DEF s
  <2>2. /\ next \in CallRecords /\ SameCall(zcall[c], next) /\ next.stack = s
        /\ next.batch = call.batch
    BY <2>1 DEF CallRecords, SameCall
  <2>3. Go(c, "walk", next)
    BY <1>3 DEF s
  <2> HIDE DEF next
  <2>4. CallsInv /\ Sensible(next.req) /\ At("walk", next.req.op) /\ next.before \in States
    BY <2>2, TreeFacts, Engaged DEF SameCall
  <2>5. WalkFits(next)
    BY <2>1, <2>2, WalkingIs DEF WalkFits, SameCall, Before, Req
  <2>6. CallFits("walk", next) /\ "walk" \in Places
    BY <2>4, <2>5 DEF CallFits, Places, PathOps
  <2>7. QED
    BY <2>2, <2>3, <2>4, <2>6, GoIs
<1>4. QED
  BY <1>1, <1>2, <1>3

LEMMA WalkFlushStep ==
  ASSUME ZfsInv, NEW c \in Callers, WalkFlush(c)
  PROVE  GoodStep(c)
<1> DEFINE batch == zcall[c].batch
           names(q) == {s \in SnapNames : <<q, s>> \in batch}
<1>1. zpc[c] = "walk" /\ UNCHANGED <<tree, mnt>>
  BY DEF WalkFlush, Walking
<1>2. PICK can \in BOOLEAN : can = \A b \in batch : Clones(b[1], b[2]) = {}
  OBVIOUS
<1>3. PICK ok \in Answer(can) :
        /\ snaps' = [q \in Paths |-> IF ok THEN Without(q, names(q)) ELSE snaps[q]]
        /\ LET call == [Answered(c, can, ok) EXCEPT !.batch = {}]
           IN IF ~ok THEN Failed(c, call)
              ELSE IF Len(Top(c).path) = 1 THEN PopZfs(c, call)
              ELSE Go(c, "walk", [call EXCEPT !.stack = Phase(c, "destroy", {})])
  BY <1>2 DEF WalkFlush
<1>4. ok \in BOOLEAN /\ (ok => can)
  BY AnswerIs
<1>5. CallsInv' /\ Steady(c)
  <2> DEFINE call == [Answered(c, can, ok) EXCEPT !.batch = {}]
  <2>1. /\ Answered(c, can, ok) \in CallRecords /\ SameCall(zcall[c], Answered(c, can, ok))
        /\ Answered(c, can, ok).stack = zcall[c].stack
    BY <1>4, TreeFacts, AnsweredIs
  <2>2. call \in CallRecords /\ SameCall(zcall[c], call) /\ call.stack = zcall[c].stack
        /\ call.batch \subseteq zcall[c].batch
    BY <2>1 DEF CallRecords, SameCall
  <2>3. \/ Failed(c, call) \/ PopZfs(c, call)
        \/ Go(c, "walk", [call EXCEPT !.stack = Phase(c, "destroy", {})])
    BY <1>3
  <2> HIDE DEF call
  <2>4. QED
    BY <1>1, <2>2, <2>3, AfterWalk
<1>6. ASSUME NEW p \in Paths
      PROVE  /\ snaps'[p] \in Seq(Snapshots) /\ Unique(snaps'[p])
             /\ ~There(tree, p) => snaps'[p] = <<>>
             /\ NamesIn(snaps[p]) \ names(p) \subseteq NamesIn(snaps'[p])
             /\ names(p) = {} => snaps'[p] = snaps[p]
  <2>1. snaps'[p] = IF ok THEN Without(p, names(p)) ELSE snaps[p]
    BY <1>3
  <2> HIDE DEF names
  <2>2. QED
    BY <2>1, TreeFacts, WithoutIs, NoneFromNone
<1>7. snaps' \in [Paths -> Seq(Snapshots)]
  <2>1. snaps' = [p \in Paths |-> snaps'[p]]
    BY <1>3
  <2>2. QED
    BY <1>6, <2>1
<1>8. ASSUME NEW p \in Paths, There(tree, p), tree[p].origin # Absent
      PROVE  tree[p].origin[2] \in NamesIn(snaps'[tree[p].origin[1]])
  <2>1. PICK q \in Paths, n \in SnapNames :
          /\ q = tree[p].origin[1] /\ n = tree[p].origin[2] /\ n \in NamesIn(snaps[q])
          /\ p \in Clones(q, n)
    BY <1>8, OriginKnown
  <2>2. CASE ok
    <3>1. <<q, n>> \notin batch
      <4> SUFFICES ASSUME <<q, n>> \in batch PROVE FALSE
        OBVIOUS
      <4>1. Clones(<<q, n>>[1], <<q, n>>[2]) = {}
        BY <1>2, <1>4, <2>2
      <4>2. <<q, n>>[1] = q /\ <<q, n>>[2] = n
        OBVIOUS
      <4>3. QED
        BY <2>1, <4>1, <4>2
    <3>2. n \notin names(q)
      BY <3>1
    <3>3. QED
      BY <1>6, <2>1, <3>2
  <2>3. CASE ~ok
    BY <1>3, <2>1, <2>3
  <2>4. QED
    BY <1>4, <2>2, <2>3
<1>9. \A p \in Paths : /\ ~Everywhere(Req(c)) /\ Away(p, Req(c))
                       /\ Req(c).op \in Reaching => ~AnyClone(tree) /\ ~AnyClone(Before(c).tree)
                       => snaps'[p] = snaps[p]
  <2> SUFFICES ASSUME NEW p \in Paths, Away(p, Req(c)), ~AnyClone(Before(c).tree)
               PROVE  snaps'[p] = snaps[p]
    BY <1>1, WalkingIs DEF Reaching
  <2>1. Req(c).path \in Paths /\ \A b \in batch : Under(Req(c).path, b[1])
    BY <1>1, WalkingIs
  <2>2. ~Under(Req(c).path, p)
    BY <2>1 DEF Away
  <2>3. names(p) = {}
    BY <2>1, <2>2
  <2>4. QED
    BY <1>6, <2>3
<1>10. QED
  BY <1>1, <1>5, <1>6, <1>7, <1>8, <1>9, SnapsGood

LEMMA WalkDestroyStep ==
  ASSUME ZfsInv, NEW c \in Callers, WalkDestroy(c)
  PROVE  GoodStep(c)
<1> DEFINE p == Top(c).path
<1>1. zpc[c] = "walk" /\ snaps' = snaps /\ mnt' = mnt \ {p}
  BY DEF WalkDestroy, Walking
<1>2. p \in Paths /\ (~AnyClone(Before(c).tree) => Under(Req(c).path, p))
  BY <1>1, WalkingIs DEF Frames, FrameFits
<1>3. PICK can \in BOOLEAN : can = CanDestroy(p)
  BY DEF CanDestroy
<1>4. PICK ok \in Answer(can) :
        /\ tree' = IF ok THEN [tree EXCEPT ![p] = Absent] ELSE tree
        /\ LET call == Answered(c, can, ok)
           IN IF ok THEN PopZfs(c, call) ELSE Failed(c, call)
  BY <1>3 DEF WalkDestroy
<1>5. ok \in BOOLEAN /\ (ok => CanDestroy(p))
  BY <1>3, AnswerIs
<1>6. CallsInv' /\ Steady(c)
  <2>1. /\ Answered(c, can, ok) \in CallRecords /\ SameCall(zcall[c], Answered(c, can, ok))
        /\ Answered(c, can, ok).stack = zcall[c].stack
        /\ Answered(c, can, ok).batch \subseteq zcall[c].batch
    BY <1>5, TreeFacts, AnsweredIs
  <2>2. Failed(c, Answered(c, can, ok)) \/ PopZfs(c, Answered(c, can, ok))
    BY <1>4
  <2>3. QED
    BY <1>1, <2>1, <2>2, AfterWalk
<1>7. CASE ~ok
  <2>1. tree' = tree
    BY <1>4, <1>7
  <2>2. SoundTree(tree', snaps', mnt')
    BY <1>1, <2>1, TreeFacts, MountsSound
  <2>3. KeepsAway(c)
    <3> SUFFICES ASSUME NEW q \in Paths, Away(q, Req(c)), ~AnyClone(Before(c).tree) PROVE Spared(q)
      BY <1>1, WalkingIs DEF KeepsAway, Reaching
    <3>1. q # p
      BY <1>1, <1>2, WalkingIs DEF Away
    <3>2. QED
      BY <1>1, <2>1, <3>1 DEF Spared
  <2>4. QED
    BY <1>6, <2>1, <2>2, <2>3 DEF GoodStep
<1>8. CASE ok
  <2> DEFINE gone == {p}
  <2>1. /\ tree' \in [Paths -> Datasets] /\ tree'[p] = Absent
        /\ \A q \in Paths \ {p} : tree'[q] = tree[q]
    BY <1>2, <1>4, <1>8, TreeFacts DEF Datasets
  <2>2. Exists(p) /\ Children(p) = {} /\ snaps[p] = <<>>
    BY <1>5, <1>8 DEF CanDestroy
  <2>3. ASSUME NEW q \in Paths \ gone, There(tree, q)
        PROVE  /\ Len(q) > 1 => Parent(q) \notin gone
               /\ tree[q].origin # Absent => tree[q].origin[2] \in NamesIn(snaps[tree[q].origin[1]])
    <3>1. ASSUME Len(q) > 1, Parent(q) = p PROVE FALSE
      <4>1. Atop(p, q) /\ Len(p) = Len(q) - 1 /\ Len(q) \in Nat
        BY <2>3, <3>1, ParentTyped, PathTyped
      <4>2. q \in Children(p)
        BY <2>3, <4>1, TreeFacts DEF Children, Tree
      <4>3. QED
        BY <2>2, <4>2
    <3>2. QED
      BY <2>3, <3>1, OriginKnown
  <2>4. /\ gone \in SUBSET Paths /\ \A q \in Paths : tree'[q] = IF q \in gone THEN Absent ELSE tree[q]
        /\ mnt' \subseteq mnt \ gone
        /\ \A q \in Paths : Unique(snaps[q]) /\ (~There(tree, q) \/ q \in gone => snaps[q] = <<>>)
    BY <1>1, <1>2, <2>1, <2>2, TreeFacts
  <2> HIDE DEF gone
  <2>5. SoundTree(tree', snaps, mnt')
    BY <2>1, <2>3, <2>4, TreeFacts, TakenSound
  <2>6. AnyClone(tree') => AnyClone(tree)
    BY <2>4 DEF AnyClone
  <2>7. KeepsAway(c)
    <3> SUFFICES ASSUME NEW q \in Paths, Away(q, Req(c)), ~AnyClone(Before(c).tree) PROVE Spared(q)
      BY <1>1, WalkingIs DEF KeepsAway, Reaching
    <3>1. q # p
      BY <1>1, <1>2, WalkingIs DEF Away
    <3>2. QED
      BY <1>1, <2>1, <3>1 DEF Spared
  <2>8. QED
    BY <1>1, <1>6, <2>5, <2>6, <2>7 DEF GoodStep
<1>9. QED
  BY <1>5, <1>7, <1>8

-----------------------------------------------------------------------------
(* The invariant                                                           *)

LEMMA ServeStep ==
  ASSUME ZfsInv, NEW c \in Callers, Serve(c)
  PROVE  GoodStep(c)
BY CreateStep, CreateMountStep, UpdateStep, RenameParentsStep, RenameStep, SnapGatherStep,
   SnapTakeStep, DropGatherStep, SnapDropStep, SnapUpdateStep, SnapRenameStep, RollbackStep,
   MergeOpenStep, InheritStep, MergeSetStep, PropsOpenStep, MountStep, ListStep,
   MountAllNextStep, UnmountStep, UnmountAllNextStep, DestroyOpenStep, WalkDownStep,
   WalkToSnapsStep, WalkRoundStep, WalkBatchStep, WalkFlushStep, WalkDestroyStep DEF Serve

LEMMA ServeBusy ==
  ASSUME NEW c \in Callers, Serve(c)
  PROVE  zpc[c] \notin {"idle", "return"}
BY DEF Serve, Create, CreateMount, Update, RenameParents, Rename, SnapGather, SnapTake, DropGather,
       SnapDrop, SnapUpdate, SnapRename, Rollback, MergeOpen, MergeRemove, MergeSet, PropsOpen,
       PropRemove, Mount, MountAllList, MountAllNext, Unmount, UnmountAllList, UnmountAllNext,
       DestroyOpen, WalkChild, WalkToSnaps, WalkSnap, WalkClone, WalkRound, WalkBatch, WalkFlush,
       WalkDestroy, Walking

LEMMA NoCallIs ==
  /\ NoZfsCall \in CallRecords /\ CallFits("idle", NoZfsCall) /\ "idle" \in Places
  /\ NoZfsCall.todo = {} /\ NoZfsCall.batch = {}
<1>1. NoRequest \in ReqRecords
  BY NoPropsOwn DEF NoRequest, ReqRecords, Modes
<1>2. NoZfsCall \in CallRecords
  BY <1>1, NoPropsOwn DEF NoZfsCall, CallRecords
<1>3. QED
  BY <1>2 DEF CallFits, NoZfsCall, Places, PathOps

LEMMA StateIs ==
  ASSUME ZfsInv
  PROVE  State \in States /\ State.tree = tree
BY TreeFacts DEF State, States

(* Whether others were near by is not part of what a call needs. *)
LEMMA ApartOnly ==
  ASSUME NEW call \in CallRecords, NEW pc \in Places, CallFits(pc, call),
         NEW apart \in BOOLEAN
  PROVE  /\ [call EXCEPT !.apart = apart] \in CallRecords
         /\ CallFits(pc, [call EXCEPT !.apart = apart])
         /\ [call EXCEPT !.apart = apart].before = call.before
         /\ [call EXCEPT !.apart = apart].req = call.req
<1> DEFINE other == [call EXCEPT !.apart = apart]
<1>1. /\ other \in CallRecords /\ other.req = call.req /\ other.todo = call.todo
      /\ other.before = call.before /\ other.stack = call.stack /\ other.batch = call.batch
  BY DEF CallRecords
<1> HIDE DEF other
<1>2. CallFits(pc, other)
  BY <1>1 DEF CallFits, WalkFits
<1>3. QED
  BY <1>1, <1>2 DEF other

LEMMA FitsNext ==
  ASSUME zpc' \in [Callers -> Places], zcall' \in [Callers -> CallRecords],
         \A d \in Callers : CallFits(zpc'[d], zcall'[d])
  PROVE  CallsInv'
BY DEF CallsInv, CallFits, WalkFits, FrameFits, AnyClone, Sensible, At

LEMMA MakeCallStep ==
  ASSUME ZfsInv, NEW c \in Callers, MakeCall(c)
  PROVE  CallsInv' /\ zpc'[c] # "idle" /\ zcall'[c].before.tree = tree
         /\ \A d \in Callers \ {c} : zpc'[d] = zpc[d] /\ zcall'[d].before = zcall[d].before
<1>1. PICK r \in Requests :
       LET others == {d \in Callers \ {c} : zpc[d] # "idle" /\ Meets(r, d)}
       IN /\ zpc' = [zpc EXCEPT ![c] = r.op]
          /\ zcall' = [d \in Callers |->
               IF d = c THEN [NoZfsCall EXCEPT !.req = r, !.before = State, !.apart = others = {}]
               ELSE [zcall[d] EXCEPT !.apart = @ /\ d \notin others]]
  BY DEF MakeCall
<1> DEFINE others == {d \in Callers \ {c} : zpc[d] # "idle" /\ Meets(r, d)}
<1>2. PICK alone \in BOOLEAN : alone = (others = {})
  OBVIOUS
<1>3. /\ zpc' = [zpc EXCEPT ![c] = r.op]
      /\ zcall' = [d \in Callers |->
            IF d = c THEN [NoZfsCall EXCEPT !.req = r, !.before = State, !.apart = alone]
            ELSE [zcall[d] EXCEPT !.apart = @ /\ d \notin others]]
  BY <1>1, <1>2
<1> HIDE DEF others
<1>4. Sensible(r) /\ r \in ReqRecords /\ r.op \in Places /\ r.op # "idle"
  BY ZfsAssumption DEF Sensible, ReqRecords, Places, PathOps
<1>5. zpc \in [Callers -> Places] /\ zcall \in [Callers -> CallRecords]
      /\ \A d \in Callers : CallFits(zpc[d], zcall[d])
  BY TreeFacts DEF CallsInv
<1>6. /\ zcall'[c] \in CallRecords /\ zcall'[c].req = r /\ zcall'[c].before = State
      /\ zcall'[c].todo = {} /\ zcall'[c].batch = {}
  BY <1>3, <1>4, NoCallIs, StateIs DEF CallRecords
<1>7. CallFits(r.op, zcall'[c])
  BY <1>4, <1>6, StateIs DEF CallFits, At, Sensible, PathOps
<1>8. ASSUME NEW d \in Callers \ {c}
      PROVE  /\ zcall'[d] \in CallRecords /\ CallFits(zpc'[d], zcall'[d])
             /\ zpc'[d] = zpc[d] /\ zcall'[d].before = zcall[d].before
  <2>1. PICK still \in BOOLEAN : still = (zcall[d].apart /\ d \notin others)
    OBVIOUS
  <2>2. zcall'[d] = [zcall[d] EXCEPT !.apart = still] /\ zpc'[d] = zpc[d]
    BY <1>3, <1>5, <2>1
  <2>3. QED
    BY <1>5, <2>2, ApartOnly
<1>9. CallsInv'
  <2>1. /\ zpc' \in [Callers -> Places] /\ zcall' \in [Callers -> CallRecords]
    <3>1. zcall' = [d \in Callers |-> zcall'[d]] /\ zpc' = [d \in Callers |-> zpc'[d]]
      BY <1>3, <1>5
    <3>2. zpc'[c] = r.op
      BY <1>3, <1>5
    <3>3. \A d \in Callers : zcall'[d] \in CallRecords /\ zpc'[d] \in Places
      BY <1>4, <1>5, <1>6, <1>8, <3>2
    <3>4. QED
      BY <3>1, <3>3
  <2>2. zpc'[c] = r.op
    BY <1>3, <1>5
  <2>3. \A d \in Callers : CallFits(zpc'[d], zcall'[d])
    BY <1>7, <1>8, <2>2
  <2>4. QED
    BY <2>1, <2>3, FitsNext
<1>10. zpc'[c] # "idle" /\ zcall'[c].before.tree = tree
  BY <1>3, <1>4, <1>5, <1>6, StateIs
<1>11. QED
  BY <1>8, <1>9, <1>10, SMTT(30)

LEMMA LeaveStep ==
  ASSUME ZfsInv, NEW c \in Callers, Leave(c)
  PROVE  /\ CallsInv' /\ zpc'[c] = "idle"
         /\ \A d \in Callers \ {c} : zpc'[d] = zpc[d] /\ zcall'[d] = zcall[d]
<1>1. zpc' = [zpc EXCEPT ![c] = "idle"] /\ zcall' = [zcall EXCEPT ![c] = NoZfsCall]
  BY DEF Leave, Go
<1>2. zpc \in [Callers -> Places] /\ zcall \in [Callers -> CallRecords]
      /\ \A d \in Callers : CallFits(zpc[d], zcall[d])
  BY TreeFacts DEF CallsInv
<1>3. zpc' \in [Callers -> Places] /\ zcall' \in [Callers -> CallRecords]
  BY <1>1, <1>2, NoCallIs
<1>4. /\ zpc'[c] = "idle" /\ zcall'[c] = NoZfsCall
      /\ \A d \in Callers \ {c} : zpc'[d] = zpc[d] /\ zcall'[d] = zcall[d]
  BY <1>1, <1>2
<1>5. \A d \in Callers : CallFits(zpc'[d], zcall'[d])
  BY <1>2, <1>4, NoCallIs
<1>6. QED
  BY <1>3, <1>4, <1>5, FitsNext

LEMMA DieStep ==
  ASSUME ZfsInv, NEW c \in Callers, DieZfs(c)
  PROVE  /\ CallsInv' /\ zpc'[c] = "idle"
         /\ \A d \in Callers \ {c} : /\ zpc'[d] = zpc[d] /\ zcall'[d].before = zcall[d].before
                                     /\ zcall'[d].apart = FALSE
<1>1. /\ zpc' = [zpc EXCEPT ![c] = "idle"]
      /\ zcall' = [d \in Callers |-> IF d = c THEN NoZfsCall ELSE [zcall[d] EXCEPT !.apart = FALSE]]
  BY DEF DieZfs
<1>2. zpc \in [Callers -> Places] /\ zcall \in [Callers -> CallRecords]
      /\ \A d \in Callers : CallFits(zpc[d], zcall[d])
  BY TreeFacts DEF CallsInv
<1>3. zpc'[c] = "idle" /\ zcall'[c] = NoZfsCall
  BY <1>1, <1>2
<1>4. ASSUME NEW d \in Callers \ {c}
      PROVE  /\ zpc'[d] = zpc[d] /\ zcall'[d].before = zcall[d].before /\ zcall'[d].apart = FALSE
             /\ zcall'[d] \in CallRecords /\ CallFits(zpc'[d], zcall'[d])
  <2>1. zpc'[d] = zpc[d] /\ zcall'[d] = [zcall[d] EXCEPT !.apart = FALSE]
    BY <1>1, <1>2
  <2>2. zcall'[d].apart = FALSE
    BY <1>2, <2>1 DEF CallRecords
  <2>3. zcall[d] \in CallRecords /\ zpc[d] \in Places /\ CallFits(zpc[d], zcall[d])
    BY <1>2
  <2>4. /\ [zcall[d] EXCEPT !.apart = FALSE] \in CallRecords
        /\ CallFits(zpc[d], [zcall[d] EXCEPT !.apart = FALSE])
        /\ [zcall[d] EXCEPT !.apart = FALSE].before = zcall[d].before
    BY <2>3, ApartOnly
  <2>5. QED
    BY <2>1, <2>2, <2>4
<1>5. zpc' \in [Callers -> Places] /\ zcall' \in [Callers -> CallRecords]
  <2>1. zcall' = [d \in Callers |-> zcall'[d]] /\ zpc' = [zpc EXCEPT ![c] = "idle"]
    BY <1>1
  <2>2. \A d \in Callers : zcall'[d] \in CallRecords
    BY <1>3, <1>4, NoCallIs
  <2>3. QED
    BY <1>2, <2>1, <2>2, NoCallIs
<1>6. \A d \in Callers : CallFits(zpc'[d], zcall'[d])
  BY <1>3, <1>4, NoCallIs
<1>7. QED
  BY <1>3, <1>4, <1>5, <1>6, FitsNext

LEMMA StartStep ==
  ASSUME ZfsInit
  PROVE  ZfsInv
<1>1. SoundTree(tree, snaps, mnt)
  BY ZfsAssumption DEF ZfsInit
<1>2. zpc = [c \in Callers |-> "idle"] /\ zcall = [c \in Callers |-> NoZfsCall]
  BY DEF ZfsInit
<1>3. CallsInv
  BY <1>2, NoCallIs DEF CallsInv
<1>4. ClonesKnown
  BY <1>2 DEF ClonesKnown
<1>5. QED
  BY <1>1, <1>3, <1>4 DEF ZfsInv

LEMMA ZfsStep ==
  ASSUME ZfsInv, [ZfsNext]_zfsVars
  PROVE  ZfsInv'
<1>1. CASE UNCHANGED zfsVars
  BY <1>1 DEF zfsVars, ZfsInv, SoundTree, CallsInv, ClonesKnown, CallFits, WalkFits, FrameFits, AnyClone
<1>2. ASSUME NEW c \in Callers, Serve(c) PROVE ZfsInv'
  <2>1. GoodStep(c)
    BY <1>2, ServeStep
  <2>2. ASSUME NEW d \in Callers, zpc'[d] # "idle", AnyClone(tree') PROVE AnyClone(zcall'[d].before.tree)
    <3>1. AnyClone(tree) /\ zpc[d] # "idle" /\ zcall'[d].before = zcall[d].before
      BY <1>2, <2>1, <2>2, ServeBusy DEF GoodStep, Steady
    <3>2. AnyClone(zcall[d].before.tree)
      BY <3>1 DEF ZfsInv, ClonesKnown
    <3>3. QED
      BY <3>1, <3>2
  <2>3. ClonesKnown'
    BY <2>2 DEF ClonesKnown, AnyClone
  <2>4. SoundTree(tree, snaps, mnt)'
    BY <2>1 DEF GoodStep, SoundTree
  <2>5. QED
    BY <2>1, <2>3, <2>4 DEF GoodStep, ZfsInv
<1>3. ASSUME NEW c \in Callers, MakeCall(c) \/ Leave(c) \/ DieZfs(c) PROVE ZfsInv'
  <2>1. UNCHANGED Data
    BY <1>3 DEF MakeCall, Leave, DieZfs, Data
  <2>2. CallsInv'
    BY <1>3, MakeCallStep, LeaveStep, DieStep
  <2>3. ASSUME NEW d \in Callers, zpc'[d] # "idle", AnyClone(tree') PROVE AnyClone(zcall'[d].before.tree)
    <3>1. AnyClone(tree)
      BY <2>1, <2>3 DEF Data
    <3>2. CASE d = c
      BY <1>3, <2>3, <3>1, <3>2, MakeCallStep, LeaveStep, DieStep
    <3>3. CASE d # c
      <4>1. zpc[d] # "idle" /\ zcall'[d].before = zcall[d].before
        BY <1>3, <2>3, <3>3, MakeCallStep, LeaveStep, DieStep
      <4>2. AnyClone(zcall[d].before.tree)
        BY <3>1, <4>1 DEF ZfsInv, ClonesKnown
      <4>3. QED
        BY <4>1, <4>2
    <3>4. QED
      BY <3>2, <3>3
  <2>4. ClonesKnown'
    BY <2>3 DEF ClonesKnown, AnyClone
  <2>5. SoundTree(tree, snaps, mnt)'
    BY <2>1, TreeFacts DEF Data, SoundTree
  <2>6. QED
    BY <2>2, <2>4, <2>5 DEF ZfsInv
<1>4. QED
  BY <1>1, <1>2, <1>3 DEF ZfsNext

LEMMA ZfsInvariant == ZfsSpec => []ZfsInv
<1>1. ZfsInit => ZfsInv
  BY StartStep
<1>2. ZfsInv /\ [ZfsNext]_zfsVars => ZfsInv'
  BY ZfsStep
<1>3. QED
  BY <1>1, <1>2, PTL DEF ZfsSpec

(* What is there keeps its shape whatever requests come between one another: *)
(* parents, origins of clones, names of snapshots and mounts (zfs.c).        *)
THEOREM ZfsTypeCorrect == ZfsSpec => []ZfsTypeOK
<1>1. ZfsInv => ZfsTypeOK
  <2> SUFFICES ASSUME ZfsInv PROVE ZfsTypeOK
    OBVIOUS
  <2>1. \A c \in Callers : CallFits(zpc[c], zcall[c])
    BY DEF ZfsInv, CallsInv
  <2>2. \A c \in Callers : zcall[c].todo # {} => zpc[c] \notin {"idle", "create", "mount"}
    BY <2>1 DEF CallFits, PathOps
  <2>3. QED
    BY <2>2 DEF ZfsInv, ZfsTypeOK
<1>2. QED
  BY <1>1, ZfsInvariant, PTL

-----------------------------------------------------------------------------
(* A call that is apart from the others                                    *)

(* A call that is apart meets none of the calls that are made meanwhile. *)
Clash(x, y) ==
  \/ Everywhere(x.req) \/ Everywhere(y.req)
  \/ x.req.op \in Reaching /\ AnyClone(x.before.tree)
  \/ y.req.op \in Reaching /\ AnyClone(y.before.tree)
  \/ \E p \in {x.req.path, x.req.to} \ {<<>>}, q \in {y.req.path, y.req.to} \ {<<>>} : Near(p, q)
ApartInv ==
  \A c, d \in Callers :
    c # d /\ zpc[c] # "idle" /\ zpc[d] # "idle" /\ zcall[c].apart => ~Clash(zcall[d], zcall[c])
(* What a call that is apart may rely on. *)
Mine(c, q) ==
  \/ AnyClone(Before(c).tree) /\ Req(c).op \in Reaching
  \/ Everywhere(Req(c))
  \/ Req(c).path \in Paths /\ Under(Req(c).path, q)
  \/ Req(c).to \in Paths /\ Under(Req(c).to, q)

LEMMA ClashTurns ==
  ASSUME NEW x, NEW y, Clash(x, y)
  PROVE  Clash(y, x)
BY DEF Clash, Near

LEMMA ClashKept ==
  ASSUME NEW x, NEW y, NEW u, NEW v, u.req = x.req, u.before = x.before,
         v.req = y.req, v.before = y.before, ~Clash(x, y)
  PROVE  ~Clash(u, v)
BY DEF Clash

LEMMA MeetsIs ==
  ASSUME NEW d \in Callers, NEW x, x.before.tree = tree
  PROVE  Meets(x.req, d) <=> Clash(x, zcall[d])
BY DEF Meets, Clash, Req

(* The step of another call changes nothing a call that is apart relies on. *)
LEMMA Undisturbed ==
  ASSUME ZfsInv, ApartInv, NEW c \in Callers, NEW d \in Callers, d # c, GoodStep(d),
         zpc[c] # "idle", zpc[d] # "idle", zcall[c].apart
  PROVE  /\ \A q \in Paths : Mine(c, q) => Spared(q)
         /\ ~Everywhere(Req(c)) /\ ~(Req(c).op \in Reaching /\ AnyClone(Before(c).tree))
<1>1. ~Clash(zcall[d], zcall[c])
  BY DEF ApartInv
<1>2. /\ ~Everywhere(Req(c)) /\ ~(Req(c).op \in Reaching /\ AnyClone(Before(c).tree))
      /\ ~Everywhere(Req(d)) /\ ~(Req(d).op \in Reaching /\ AnyClone(Before(d).tree))
  BY <1>1 DEF Clash, Req, Before
<1>3. AnyClone(tree) => AnyClone(Before(d).tree)
  BY DEF ZfsInv, ClonesKnown, Before
<1>4. \A q \in Paths : Away(q, Req(d)) => Spared(q)
  BY <1>2, <1>3 DEF GoodStep, KeepsAway
<1>5. \A p \in {Req(d).path, Req(d).to}, q \in {Req(c).path, Req(c).to} :
         p \in Paths /\ q \in Paths => ~Near(p, q)
  BY <1>1, ZfsAssumption DEF Clash, Req
<1>6. ASSUME NEW q \in Paths, Mine(c, q) PROVE Away(q, Req(d))
  <2>1. PICK p \in {Req(c).path, Req(c).to} : p \in Paths /\ Under(p, q)
    BY <1>2, <1>6 DEF Mine
  <2>2. ASSUME NEW o \in {Req(d).path, Req(d).to}, o \in Paths PROVE ~Under(o, q) /\ ~Atop(q, o)
    <3>1. ~Near(o, p)
      BY <1>5, <2>1, <2>2
    <3>2. ~Under(o, q)
      BY <2>1, <2>2, <3>1, Comparable
    <3>3. ~Atop(q, o)
      BY <2>1, <2>2, <3>1, AtopTransitive DEF Under, Near
    <3>4. QED
      BY <3>2, <3>3
  <2>3. QED
    BY <2>2 DEF Away
<1>7. QED
  BY <1>2, <1>4, <1>6

LEMMA ApartStep ==
  ASSUME ZfsInv, ApartInv, [ZfsNext]_zfsVars
  PROVE  ApartInv'
<1>1. SUFFICES ASSUME NEW c \in Callers, NEW d \in Callers, c # d,
                      zpc'[c] # "idle", zpc'[d] # "idle", zcall'[c].apart
               PROVE  ~Clash(zcall'[d], zcall'[c])
  BY DEF ApartInv, Clash, AnyClone, Everywhere, Near, Atop
<1>2. CASE UNCHANGED zfsVars
  BY <1>1, <1>2 DEF zfsVars, ApartInv
<1>3. ASSUME NEW e \in Callers, Serve(e) PROVE ~Clash(zcall'[d], zcall'[c])
  <2>1. GoodStep(e) /\ zpc[e] # "idle"
    BY <1>3, ServeStep, ServeBusy
  <2>2. \A x \in {c, d} : /\ zpc[x] # "idle" /\ zcall'[x].req = zcall[x].req
                         /\ zcall'[x].before = zcall[x].before /\ zcall'[x].apart = zcall[x].apart
    BY <1>1, <2>1 DEF GoodStep, Steady
  <2>3. ~Clash(zcall[d], zcall[c])
    BY <1>1, <2>2 DEF ApartInv
  <2>4. QED
    BY <2>2, <2>3, ClashKept
<1>4. ASSUME NEW e \in Callers, Leave(e) \/ DieZfs(e) PROVE ~Clash(zcall'[d], zcall'[c])
  <2>1. zpc'[e] = "idle" /\ e # c /\ e # d
    BY <1>1, <1>4, LeaveStep, DieStep
  <2>2. Leave(e)
    BY <1>1, <1>4, <2>1, DieStep
  <2>3. \A x \in {c, d} : zpc'[x] = zpc[x] /\ zcall'[x] = zcall[x]
    BY <2>1, <2>2, LeaveStep
  <2>4. QED
    BY <1>1, <2>3 DEF ApartInv
<1>5. ASSUME NEW e \in Callers, MakeCall(e) PROVE ~Clash(zcall'[d], zcall'[c])
  <2>1. PICK r \in Requests :
          LET others == {x \in Callers \ {e} : zpc[x] # "idle" /\ Meets(r, x)}
          IN /\ zpc' = [zpc EXCEPT ![e] = r.op]
             /\ zcall' = [x \in Callers |->
                  IF x = e THEN [NoZfsCall EXCEPT !.req = r, !.before = State, !.apart = others = {}]
                  ELSE [zcall[x] EXCEPT !.apart = @ /\ x \notin others]]
    BY <1>5 DEF MakeCall
  <2> DEFINE others == {x \in Callers \ {e} : zpc[x] # "idle" /\ Meets(r, x)}
  <2>2. /\ zcall'[e].req = r /\ zcall'[e].before.tree = tree /\ zcall'[e].apart = (others = {})
    BY <2>1 DEF NoZfsCall, State
  <2>3. \A x \in Callers \ {e} :
          /\ zpc'[x] = zpc[x] /\ zcall'[x].req = zcall[x].req /\ zcall'[x].before = zcall[x].before
          /\ zcall'[x].apart = (zcall[x].apart /\ x \notin others)
    BY <2>1, TreeFacts DEF CallsInv, CallRecords
  <2>4. CASE c # e /\ d # e
    <3>1. ~Clash(zcall[d], zcall[c])
      BY <1>1, <2>3, <2>4 DEF ApartInv
    <3>2. QED
      BY <2>3, <2>4, <3>1, ClashKept
  <2>5. ASSUME NEW x \in Callers \ {e}, zpc'[x] # "idle", x \notin others
        PROVE  ~Clash(zcall'[e], zcall'[x])
    <3>1. ~Meets(r, x)
      BY <2>3, <2>5
    <3>2. ~Clash(zcall'[e], zcall[x])
      BY <2>2, <3>1, MeetsIs
    <3>3. QED
      BY <2>3, <3>2, ClashKept
  <2>6. CASE c = e
    <3>1. ~Clash(zcall'[e], zcall'[d])
      BY <1>1, <2>2, <2>5, <2>6
    <3>2. QED
      BY <2>6, <3>1, ClashTurns
  <2>7. CASE d = e
    BY <1>1, <2>3, <2>5, <2>7
  <2>8. QED
    BY <2>4, <2>6, <2>7, SMTT(30)
<1>6. QED
  BY <1>2, <1>3, <1>4, <1>5 DEF ZfsNext

-----------------------------------------------------------------------------
(* What a call that is apart has done so far                               *)

LEMMA GoTo ==
  ASSUME ZfsInv, NEW c \in Callers, NEW where, NEW call, Go(c, where, call)
  PROVE  zpc'[c] = where /\ zcall'[c] = call
BY TreeFacts DEF Go, CallsInv

LEMMA ReturnTo ==
  ASSUME ZfsInv, NEW c \in Callers, NEW ok \in BOOLEAN, NEW call \in CallRecords,
         ReturnZfs(c, ok, call)
  PROVE  /\ zpc'[c] = "return" /\ zcall'[c].ok = ok /\ zcall'[c].refused = call.refused
         /\ zcall'[c].src = call.src /\ zcall'[c].todo = call.todo
BY GoTo DEF ReturnZfs, CallRecords

LEMMA AnsweredTo ==
  ASSUME ZfsInv, NEW c \in Callers, NEW can \in BOOLEAN, NEW ok \in BOOLEAN,
         ReturnZfs(c, ok, Answered(c, can, ok))
  PROVE  /\ zpc'[c] = "return" /\ zcall'[c].ok = ok
         /\ zcall'[c].refused = (zcall[c].refused \/ (can /\ ~ok))
         /\ zcall'[c].src = zcall[c].src /\ zcall'[c].todo = zcall[c].todo
<1>1. LET call == Answered(c, can, ok)
      IN /\ call \in CallRecords
         /\ call.todo = zcall[c].todo /\ call.src = zcall[c].src
         /\ call.refused = (zcall[c].refused \/ (can /\ ~ok))
  BY TreeFacts, AnsweredIs
<1>2. QED
  BY <1>1, ReturnTo

LEMMA SelfTo ==
  ASSUME ZfsInv, NEW c \in Callers, NEW ok \in BOOLEAN, ReturnZfs(c, ok, zcall[c])
  PROVE  /\ zpc'[c] = "return" /\ zcall'[c].ok = ok /\ zcall'[c].refused = zcall[c].refused
         /\ zcall'[c].src = zcall[c].src /\ zcall'[c].todo = zcall[c].todo
<1>1. zcall[c] \in CallRecords
  BY TreeFacts DEF CallsInv
<1>2. QED
  BY <1>1, ReturnTo

(* The place a call is at tells what it does next. *)
LEMMA PlaceOf ==
  ASSUME NEW c \in Callers
  PROVE  /\ Create(c) => zpc[c] = "create"
         /\ CreateMount(c) => zpc[c] = "createMount"
         /\ Update(c) => zpc[c] = "update"
         /\ RenameParents(c) => zpc[c] = "rename"
         /\ Rename(c) => zpc[c] \in {"rename", "renameTo"}
         /\ SnapGather(c) => zpc[c] = "snapCreate"
         /\ SnapTake(c) => zpc[c] = "snapTake"
         /\ DropGather(c) => zpc[c] = "snapDestroy"
         /\ SnapDrop(c) => zpc[c] = "snapDrop"
         /\ SnapUpdate(c) => zpc[c] = "snapUpdate"
         /\ SnapRename(c) => zpc[c] = "snapRename"
         /\ Rollback(c) => zpc[c] = "rollback"
         /\ MergeOpen(c) => zpc[c] = "merge"
         /\ MergeRemove(c) => zpc[c] = "mergeRemove"
         /\ MergeSet(c) => zpc[c] \in {"mergeRemove", "mergeSet"}
         /\ PropsOpen(c) => zpc[c] = "propsRemove"
         /\ PropRemove(c) => zpc[c] = "propRemove"
         /\ Mount(c) => zpc[c] = "mount"
         /\ MountAllList(c) => zpc[c] = "mountAll"
         /\ MountAllNext(c) => zpc[c] = "mountNext"
         /\ Unmount(c) => zpc[c] = "unmount"
         /\ UnmountAllList(c) => zpc[c] = "unmountAll"
         /\ UnmountAllNext(c) => zpc[c] = "unmountNext"
         /\ DestroyOpen(c) => zpc[c] = "destroy"
         /\ WalkChild(c) \/ WalkToSnaps(c) \/ WalkSnap(c) \/ WalkClone(c) \/ WalkRound(c)
              \/ WalkBatch(c) \/ WalkFlush(c) \/ WalkDestroy(c) => zpc[c] = "walk"
BY DEF Create, CreateMount, Update, RenameParents, Rename, SnapGather, SnapTake, DropGather,
       SnapDrop, SnapUpdate, SnapRename, Rollback, MergeOpen, MergeRemove, MergeSet, PropsOpen,
       PropRemove, Mount, MountAllList, MountAllNext, Unmount, UnmountAllList, UnmountAllNext,
       DestroyOpen, WalkChild, WalkToSnaps, WalkSnap, WalkClone, WalkRound, WalkBatch, WalkFlush,
       WalkDestroy, Walking

(* A step of another leaves a call as it is; it may have come near. *)
Stays(c) ==
  /\ zpc'[c] = zpc[c] /\ zcall'[c].req = zcall[c].req /\ zcall'[c].before = zcall[c].before
  /\ zcall'[c].todo = zcall[c].todo /\ zcall'[c].src = zcall[c].src
  /\ zcall'[c].stack = zcall[c].stack /\ zcall'[c].batch = zcall[c].batch
  /\ zcall'[c].ok = zcall[c].ok /\ zcall'[c].refused = zcall[c].refused

(* The dataset at q is as it was when c was called. *)
AsBefore(c, q) ==
  /\ tree[q] = Before(c).tree[q] /\ snaps[q] = Before(c).snaps[q]
  /\ q \in mnt <=> q \in Before(c).mnt
WholeSoFar(c) ==
  Req(c).op \in Whole /\ (zpc[c] = "return" => ~zcall[c].ok) =>
    \A q \in Paths : Under(Req(c).path, q) => AsBefore(c, q)

LEMMA WholeServes ==
  ASSUME ZfsInv, NEW c \in Callers, Serve(c), Req(c).op \in Whole
  PROVE  \/ Update(c) \/ SnapGather(c) \/ SnapTake(c) \/ DropGather(c) \/ SnapDrop(c)
         \/ SnapUpdate(c) \/ SnapRename(c) \/ Mount(c) \/ Unmount(c)
<1>1. At(zpc[c], Req(c).op)
  BY ServeBusy, TreeFacts, Engaged
<1>2. zpc[c] \in Whole \cup {"snapTake", "snapDrop"}
  BY <1>1, ServeBusy DEF At, Whole
<1>3. QED
  BY <1>2, PlaceOf DEF Serve, Whole

(* What is false has changed nothing, and what goes on has changed nothing yet. *)
LEMMA WholeStep ==
  ASSUME ZfsInv, NEW c \in Callers, Serve(c), Req(c).op \in Whole
  PROVE  (zpc'[c] = "return" /\ zcall'[c].ok) \/ \A q \in Paths : Spared(q)
<1> DEFINE Done == (zpc'[c] = "return" /\ zcall'[c].ok) \/ \A q \in Paths : Spared(q)
<1>1. CASE Update(c)
  <2>1. PICK ok \in Answer(Exists(Req(c).path)) :
          /\ tree' = IF ok THEN [tree EXCEPT ![Req(c).path].own = Set(@, Req(c).props)] ELSE tree
          /\ ReturnZfs(c, ok, Answered(c, Exists(Req(c).path), ok))
    BY <1>1 DEF Update
  <2>2. ok \in BOOLEAN /\ Exists(Req(c).path) \in BOOLEAN /\ UNCHANGED <<snaps, mnt>>
    BY <1>1, AnswerIs DEF Exists, Update
  <2>3. QED
    BY <2>1, <2>2, AnsweredTo DEF Spared
<1>2. CASE SnapGather(c) \/ DropGather(c)
  BY <1>2 DEF SnapGather, DropGather, Data, Spared
<1>3. CASE SnapTake(c)
  <2>1. PICK can \in BOOLEAN :
          can = \A q \in zcall[c].todo : Exists(q) /\ Req(c).snap \notin SnapsOf(q)
    OBVIOUS
  <2>2. PICK ok \in Answer(can) :
          /\ snaps' = [q \in Paths |-> IF ok /\ q \in zcall[c].todo
                         THEN Append(snaps[q], [name |-> Req(c).snap, desc |-> Req(c).desc]) ELSE snaps[q]]
          /\ ReturnZfs(c, ok, Answered(c, can, ok))
    BY <1>3, <2>1 DEF SnapTake
  <2>3. ok \in BOOLEAN /\ UNCHANGED <<tree, mnt>>
    BY <1>3, AnswerIs DEF SnapTake
  <2>4. QED
    BY <2>2, <2>3, AnsweredTo DEF Spared
<1>4. CASE SnapDrop(c)
  <2>1. PICK can \in BOOLEAN : can = \A q \in zcall[c].todo : Clones(q, Req(c).snap) = {}
    OBVIOUS
  <2>2. PICK ok \in Answer(can) :
          /\ snaps' = [q \in Paths |->
               IF ok /\ q \in zcall[c].todo THEN Without(q, {Req(c).snap}) ELSE snaps[q]]
          /\ ReturnZfs(c, ok, Answered(c, can, ok))
    BY <1>4, <2>1 DEF SnapDrop
  <2>3. ok \in BOOLEAN /\ UNCHANGED <<tree, mnt>>
    BY <1>4, AnswerIs DEF SnapDrop
  <2>4. QED
    BY <2>2, <2>3, AnsweredTo DEF Spared
<1>5. CASE SnapUpdate(c)
  <2> DEFINE r == Req(c)
  <2>1. PICK can \in BOOLEAN : can = (Exists(r.path) /\ r.snap \in SnapsOf(r.path))
    BY DEF Exists
  <2>2. PICK ok \in Answer(can) :
          /\ snaps' = IF ok THEN Rewritten({r.path}, r.snap, LAMBDA s : [s EXCEPT !.desc = r.desc])
                      ELSE snaps
          /\ ReturnZfs(c, ok, Answered(c, can, ok))
    BY <1>5, <2>1 DEF SnapUpdate
  <2>3. ok \in BOOLEAN /\ UNCHANGED <<tree, mnt>>
    BY <1>5, AnswerIs DEF SnapUpdate
  <2>4. ok \/ snaps' = snaps
    BY <2>2
  <2>5. zpc'[c] = "return" /\ zcall'[c].ok = ok
    BY <2>2, <2>3, AnsweredTo
  <2>6. QED
    BY <2>3, <2>4, <2>5 DEF Spared
<1>6. CASE SnapRename(c)
  <2>1. PICK ok \in BOOLEAN, can \in BOOLEAN :
          /\ ok \/ UNCHANGED <<tree, snaps>>
          /\ ReturnZfs(c, ok, Answered(c, can, ok))
    <3> DEFINE r == Req(c)
               P == IF r.how = "recursive" THEN Tree(r.path) ELSE {r.path}
               Can(old) == /\ Exists(r.path)
                           /\ r.how # "recursive" => old \in SnapsOf(r.path)
                           /\ \A q \in P : old \in SnapsOf(q) => r.new \notin SnapsOf(q)
    <3>1. PICK old \in OldNames(r) : \E ok \in Answer(Can(old)) :
            /\ ok \/ UNCHANGED <<tree, snaps>>
            /\ ReturnZfs(c, ok, Answered(c, Can(old), ok))
      BY <1>6 DEF SnapRename
    <3>2. Can(old) \in BOOLEAN
      BY DEF Exists
    <3> HIDE DEF Can
    <3>3. PICK ok \in Answer(Can(old)) :
            /\ ok \/ UNCHANGED <<tree, snaps>>
            /\ ReturnZfs(c, ok, Answered(c, Can(old), ok))
      BY <3>1
    <3>4. QED
      BY <3>2, <3>3, AnswerIs
  <2>2. UNCHANGED mnt
    BY <1>6 DEF SnapRename
  <2>3. QED
    BY <2>1, <2>2, AnsweredTo DEF Spared
<1>7. CASE Mount(c)
  <2>1. PICK can \in BOOLEAN : can = (CanMount(Req(c).path) /\ MayMount(Req(c).path, TRUE))
    BY DEF CanMount
  <2>2. PICK ok \in Answer(can) :
          /\ mnt' = IF ok THEN mnt \cup {Req(c).path} ELSE mnt
          /\ ReturnZfs(c, ok, Answered(c, can, ok))
    BY <1>7, <2>1 DEF Mount
  <2>3. ok \in BOOLEAN /\ UNCHANGED <<tree, snaps>>
    BY <1>7, AnswerIs DEF Mount
  <2>4. QED
    BY <2>2, <2>3, AnsweredTo DEF Spared
<1>8. CASE Unmount(c)
  <2> DEFINE p == Req(c).path
  <2>1. PICK can \in BOOLEAN : can = (Exists(p) /\ p \in mnt /\ tree[p].mode # "legacy")
    OBVIOUS
  <2>2. PICK ok \in Answer(can) :
          /\ mnt' = IF ok THEN {q \in mnt : q # p /\ ~Atop(p, q)} ELSE mnt
          /\ ReturnZfs(c, ok, Answered(c, can, ok))
    BY <1>8, <2>1 DEF Unmount
  <2>3. ok \in BOOLEAN /\ UNCHANGED <<tree, snaps>>
    BY <1>8, AnswerIs DEF Unmount
  <2>4. QED
    BY <2>2, <2>3, AnsweredTo DEF Spared
<1>9. QED
  BY <1>1, <1>2, <1>3, <1>4, <1>5, <1>6, <1>7, <1>8, WholeServes

LEMMA WholeSteps ==
  ASSUME ZfsInv, NEW c \in Callers, Serve(c), WholeSoFar(c)
  PROVE  WholeSoFar(c)'
<1>1. SUFFICES ASSUME Req(c).op \in Whole, ~(zpc'[c] = "return" /\ zcall'[c].ok),
                      NEW q \in Paths, Under(Req(c).path, q)
               PROVE  AsBefore(c, q)'
  <2>1. Req(c)' = Req(c)
    BY ServeStep DEF GoodStep, Steady, Req
  <2>2. QED
    BY <2>1 DEF WholeSoFar, Under, Atop
<1>2. Spared(q)
  BY <1>1, WholeStep
<1>3. AsBefore(c, q)
  BY <1>1, ServeBusy DEF WholeSoFar
<1>4. Before(c)' = Before(c)
  BY ServeStep DEF GoodStep, Steady, Before
<1>5. QED
  BY <1>2, <1>3, <1>4 DEF AsBefore, Spared

(* What a call that is apart has done is not undone by others. *)
LEMMA WholeKept ==
  ASSUME ZfsInv, NEW c \in Callers, Stays(c), zpc[c] # "idle",
         \A q \in Paths : Mine(c, q) => Spared(q), WholeSoFar(c)
  PROVE  WholeSoFar(c)'
<1>1. Req(c)' = Req(c) /\ Before(c)' = Before(c)
  BY DEF Stays, Req, Before
<1>2. SUFFICES ASSUME Req(c).op \in Whole, ~(zpc[c] = "return" /\ zcall[c].ok),
                      NEW q \in Paths, Under(Req(c).path, q)
               PROVE  AsBefore(c, q)'
  BY <1>1 DEF WholeSoFar, Under, Atop, Stays
<1>3. AsBefore(c, q)
  BY <1>2 DEF WholeSoFar
<1>4. Req(c).path \in Paths
  BY <1>2, PathThere, TreeFacts DEF Whole, Everywhere
<1>5. Spared(q)
  BY <1>2, <1>4 DEF Mine
<1>6. QED
  BY <1>1, <1>3, <1>5 DEF AsBefore, Spared

-----------------------------------------------------------------------------
(* Snapshots                                                               *)

Asked(p, rec) == IF rec THEN Tree(p) ELSE {p}

LEMMA AskedSame ==
  ASSUME NEW p \in Paths, NEW rec, \A q \in Paths : Under(p, q) => tree'[q] = tree[q]
  PROVE  /\ (Exists(p)' <=> Exists(p)) /\ Tree(p)' = Tree(p)
         /\ Gathered(p, rec)' = Gathered(p, rec) /\ Asked(p, rec)' = Asked(p, rec)
<1>1. Exists(p)' <=> Exists(p)
  BY DEF Exists, Under
<1>2. Tree(p)' = Tree(p)
  BY DEF Tree, Exists, Under
<1>3. Gathered(p, rec)' = Gathered(p, rec)
  <2>1. CASE ~rec
    BY <2>1 DEF Gathered
  <2>2. CASE rec
    <3>1. \A q \in Tree(p) : \A x \in Paths : x = q \/ (Atop(x, q) /\ x \in Tree(p)) => tree'[x] = tree[x]
      BY DEF Tree, Under
    <3> DEFINE Whole1(t) == {q \in Tree(p) : \A x \in Paths : (x = q \/ (Atop(x, q) /\ x \in Tree(p)))
                                               => t[x].mode # "broken"}
    <3>2. Gathered(p, rec) = Whole1(tree)
      BY <2>2 DEF Gathered
    <3>3. Gathered(p, rec)' = Whole1(tree')
      BY <1>2, <2>2 DEF Gathered, Atop
    <3>4. Whole1(tree') = Whole1(tree)
      BY <3>1
    <3> HIDE DEF Whole1
    <3>5. QED
      BY <3>2, <3>3, <3>4
  <2>3. QED
    BY <2>1, <2>2
<1>4. QED
  BY <1>1, <1>2, <1>3 DEF Asked

(* What zfs_snap_create and zfs_snap_destroy have gathered and done. *)
CreatedSoFar(c) ==
  Req(c).op = "snapCreate" =>
    /\ zpc[c] = "snapTake" =>
         Exists(Req(c).path) /\ zcall[c].todo = Gathered(Req(c).path, Req(c).flag)
    /\ zpc[c] = "return" /\ zcall[c].ok =>
         /\ Exists(Req(c).path)
         /\ \A q \in Paths : Under(Req(c).path, q) =>
              SnapsOf(q) = NamesIn(Before(c).snaps[q]) \cup
                             IF q \in Gathered(Req(c).path, Req(c).flag) THEN {Req(c).snap} ELSE {}
DroppedSoFar(c) ==
  Req(c).op = "snapDestroy" =>
    /\ zpc[c] = "snapDrop" =>
         zcall[c].todo = {q \in Asked(Req(c).path, Req(c).flag) : Req(c).snap \in SnapsOf(q)}
    /\ zpc[c] = "return" /\ zcall[c].ok =>
         \A q \in Asked(Req(c).path, Req(c).flag) : Req(c).snap \notin SnapsOf(q)

LEMMA CreatedStep ==
  ASSUME ZfsInv, NEW c \in Callers, Serve(c), WholeSoFar(c), CreatedSoFar(c)
  PROVE  CreatedSoFar(c)'
<1>1. Req(c)' = Req(c) /\ Before(c)' = Before(c)
  BY ServeStep DEF GoodStep, Steady, Req, Before
<1>2. SUFFICES ASSUME Req(c).op = "snapCreate" PROVE CreatedSoFar(c)'
  BY <1>1 DEF CreatedSoFar
<1>3. zpc[c] # "idle" /\ Req(c).path \in Paths /\ zpc[c] \in {"snapCreate", "snapTake"}
      /\ Req(c).snap \in SnapNames /\ Req(c).desc \in Descs /\ Req(c).flag \in BOOLEAN
  BY <1>2, ServeBusy, TreeFacts, Engaged DEF At, Sensible, PathOps, SnapOps
<1>4. PICK p \in Paths, rec \in BOOLEAN, n \in SnapNames, d \in Descs :
        p = Req(c).path /\ rec = Req(c).flag /\ n = Req(c).snap /\ d = Req(c).desc
  BY <1>3
<1>5. CASE SnapGather(c)
  <2>1. UNCHANGED Data
    BY <1>5 DEF SnapGather
  <2>2. (Exists(p)' <=> Exists(p)) /\ Gathered(p, rec)' = Gathered(p, rec)
    BY <2>1, AskedSame DEF Data
  <2>3. CASE Exists(p)
    <3>1. zpc'[c] = "snapTake" /\ zcall'[c].todo = Gathered(p, rec)
      <4>1. Go(c, "snapTake", [zcall[c] EXCEPT !.todo = Gathered(p, rec)])
        BY <1>4, <1>5, <2>3 DEF SnapGather
      <4>2. QED
        BY <4>1, GoTo, TreeFacts DEF CallsInv, CallRecords
    <3>2. QED
      BY <1>1, <1>4, <2>2, <2>3, <3>1 DEF CreatedSoFar
  <2>4. CASE ~Exists(p)
    <3>1. ReturnZfs(c, FALSE, zcall[c])
      BY <1>4, <1>5, <2>4 DEF SnapGather
    <3>2. zpc'[c] = "return" /\ zcall'[c].ok = FALSE
      BY <3>1, SelfTo
    <3>3. QED
      BY <3>2 DEF CreatedSoFar
  <2>5. QED
    BY <2>3, <2>4
<1>6. CASE SnapTake(c)
  <2> DEFINE G == Gathered(p, rec)
             s == [name |-> n, desc |-> d]
  <2>1. PICK can \in BOOLEAN :
          can = \A q \in zcall[c].todo : Exists(q) /\ n \notin SnapsOf(q)
    OBVIOUS
  <2>2. PICK ok \in Answer(can) :
          /\ snaps' = [q \in Paths |-> IF ok /\ q \in zcall[c].todo THEN Append(snaps[q], s) ELSE snaps[q]]
          /\ ReturnZfs(c, ok, Answered(c, can, ok))
    BY <1>4, <1>6, <2>1 DEF SnapTake
  <2>3. /\ ok \in BOOLEAN /\ (ok => can) /\ UNCHANGED tree
        /\ zpc'[c] = "return" /\ zcall'[c].ok = ok /\ zpc[c] = "snapTake"
    BY <1>6, <2>2, AnswerIs, AnsweredTo DEF SnapTake
  <2>4. Exists(p) /\ zcall[c].todo = G
    BY <1>2, <1>4, <2>3 DEF CreatedSoFar
  <2>5. (Exists(p)' <=> Exists(p)) /\ Gathered(p, rec)' = G
    BY <2>3, AskedSame
  <2>6. s \in Snapshots /\ s.name = n
    BY DEF Snapshots
  <2> HIDE DEF G, s
  <2>7. ASSUME ok, NEW q \in Paths, Under(p, q)
        PROVE  NamesIn(snaps'[q]) = NamesIn(Before(c).snaps[q]) \cup IF q \in G THEN {n} ELSE {}
    <3>1. snaps[q] = Before(c).snaps[q]
      BY <1>2, <1>4, <2>3, <2>7 DEF WholeSoFar, Whole, AsBefore
    <3>2. CASE q \in G
      <4>1. snaps'[q] = Append(snaps[q], s) /\ n \notin NamesIn(snaps[q])
        BY <2>1, <2>2, <2>3, <2>4, <2>7, <3>2 DEF SnapsOf
      <4>2. QED
        BY <2>6, <3>1, <3>2, <4>1, TreeFacts, AppendedIs
    <3>3. CASE q \notin G
      BY <2>2, <2>4, <3>1, <3>3
    <3>4. QED
      BY <3>2, <3>3
  <2>8. QED
    BY <1>1, <1>4, <2>3, <2>4, <2>5, <2>7 DEF CreatedSoFar, SnapsOf, Under, Atop
<1>7. QED
  BY <1>2, <1>3, <1>5, <1>6, WholeServes, PlaceOf DEF Whole

LEMMA DroppedStep ==
  ASSUME ZfsInv, NEW c \in Callers, Serve(c), DroppedSoFar(c)
  PROVE  DroppedSoFar(c)'
<1>1. Req(c)' = Req(c)
  BY ServeStep DEF GoodStep, Steady, Req
<1>2. SUFFICES ASSUME Req(c).op = "snapDestroy" PROVE DroppedSoFar(c)'
  BY <1>1 DEF DroppedSoFar
<1>3. zpc[c] # "idle" /\ Req(c).path \in Paths /\ zpc[c] \in {"snapDestroy", "snapDrop"}
      /\ Req(c).flag \in BOOLEAN
  BY <1>2, ServeBusy, TreeFacts, Engaged DEF At, Sensible, PathOps
<1>4. PICK p \in Paths, rec \in BOOLEAN, n \in {Req(c).snap} : p = Req(c).path /\ rec = Req(c).flag
  BY <1>3
<1>5. CASE DropGather(c)
  <2>1. UNCHANGED Data
    BY <1>5 DEF DropGather
  <2>2. Asked(p, rec)' = Asked(p, rec)
    BY <2>1, AskedSame DEF Data
  <2> DEFINE found == {q \in Asked(p, rec) : n \in SnapsOf(q)}
  <2>3. CASE Go(c, "snapDrop", [zcall[c] EXCEPT !.todo = found])
    <3>1. zpc'[c] = "snapDrop" /\ zcall'[c].todo = found
      BY <2>3, GoTo, TreeFacts DEF CallsInv, CallRecords
    <3>2. found = {q \in Asked(p, rec)' : n \in NamesIn(snaps'[q])}
      BY <2>1, <2>2 DEF Data, SnapsOf
    <3> HIDE DEF found
    <3>3. QED
      BY <1>1, <1>4, <3>1, <3>2 DEF DroppedSoFar, SnapsOf
  <2>4. CASE ReturnZfs(c, FALSE, zcall[c])
    <3>1. zpc'[c] = "return" /\ zcall'[c].ok = FALSE
      BY <2>4, SelfTo
    <3>2. QED
      BY <3>1 DEF DroppedSoFar
  <2>5. QED
    BY <1>4, <1>5, <2>3, <2>4 DEF DropGather, Asked
<1>6. CASE SnapDrop(c)
  <2>1. PICK can \in BOOLEAN : can = \A q \in zcall[c].todo : Clones(q, n) = {}
    OBVIOUS
  <2>2. PICK ok \in Answer(can) :
          /\ snaps' = [q \in Paths |->
               IF ok /\ q \in zcall[c].todo THEN Without(q, {n}) ELSE snaps[q]]
          /\ ReturnZfs(c, ok, Answered(c, can, ok))
    BY <1>4, <1>6, <2>1 DEF SnapDrop
  <2>3. /\ ok \in BOOLEAN /\ UNCHANGED tree
        /\ zpc'[c] = "return" /\ zcall'[c].ok = ok /\ zpc[c] = "snapDrop"
    BY <1>6, <2>2, AnswerIs, AnsweredTo DEF SnapDrop
  <2>4. zcall[c].todo = {q \in Asked(p, rec) : n \in SnapsOf(q)}
    BY <1>2, <1>4, <2>3 DEF DroppedSoFar
  <2>5. Asked(p, rec)' = Asked(p, rec) /\ Asked(p, rec) \subseteq Paths
    BY <2>3, AskedSame DEF Asked, Tree
  <2>6. ASSUME ok, NEW q \in Asked(p, rec) PROVE n \notin NamesIn(snaps'[q])
    <3>1. CASE n \in SnapsOf(q)
      <4>1. snaps'[q] = Without(q, {n})
        BY <2>2, <2>4, <2>5, <2>6, <3>1
      <4>2. QED
        BY <2>5, <4>1, WithoutIs
    <3>2. CASE n \notin SnapsOf(q)
      BY <2>2, <2>4, <2>5, <3>2 DEF SnapsOf
    <3>3. QED
      BY <3>1, <3>2
  <2>7. QED
    BY <1>1, <1>4, <2>3, <2>5, <2>6 DEF DroppedSoFar, SnapsOf
<1>7. QED
  BY <1>2, <1>3, <1>5, <1>6, WholeServes, PlaceOf DEF Whole

LEMMA SnapsKept ==
  ASSUME ZfsInv, NEW c \in Callers, Stays(c), zpc[c] # "idle",
         \A q \in Paths : Mine(c, q) => Spared(q), CreatedSoFar(c), DroppedSoFar(c)
  PROVE  CreatedSoFar(c)' /\ DroppedSoFar(c)'
<1>1. Req(c)' = Req(c) /\ Before(c)' = Before(c)
  BY DEF Stays, Req, Before
<1>2. SUFFICES ASSUME Req(c).op \in {"snapCreate", "snapDestroy"}
               PROVE  CreatedSoFar(c)' /\ DroppedSoFar(c)'
  BY <1>1 DEF CreatedSoFar, DroppedSoFar
<1>3. Req(c).path \in Paths /\ Req(c).flag \in BOOLEAN
  BY <1>2, TreeFacts, Engaged DEF Sensible, PathOps
<1>4. PICK p \in Paths, rec \in BOOLEAN : p = Req(c).path /\ rec = Req(c).flag
  BY <1>3
<1>5. \A q \in Paths : Under(p, q) => Spared(q)
  BY <1>4 DEF Mine
<1>6. /\ (Exists(p)' <=> Exists(p)) /\ Gathered(p, rec)' = Gathered(p, rec)
      /\ Asked(p, rec)' = Asked(p, rec) /\ \A q \in Asked(p, rec) : q \in Paths /\ Under(p, q)
  BY <1>5, AskedSame DEF Spared, Asked, Tree, Under
<1>7. \A q \in Paths : Under(p, q) => NamesIn(snaps'[q]) = NamesIn(snaps[q])
  BY <1>5 DEF Spared
<1>8. CreatedSoFar(c)'
  BY <1>1, <1>4, <1>6, <1>7, ZenonT(60) DEF CreatedSoFar, SnapsOf, Under, Atop, Stays
<1>9. {q \in Asked(p, rec) : Req(c).snap \in NamesIn(snaps[q])}
        = {q \in Asked(p, rec) : Req(c).snap \in NamesIn(snaps'[q])}
  BY <1>6, <1>7
<1>10. DroppedSoFar(c)'
  BY <1>1, <1>4, <1>6, <1>7, <1>9 DEF DroppedSoFar, SnapsOf, Stays
<1>11. QED
  BY <1>8, <1>10

-----------------------------------------------------------------------------
(* Settings                                                                *)

OwnOf(c) == tree[Req(c).to].own
OldOf(c) == Before(c).tree[Req(c).to].own
(* What zfs_settings_merge has taken away and set. *)
MergedSoFar(c) ==
  Req(c).op = "merge" /\ ~zcall[c].refused =>
    /\ zpc[c] = "merge" => OwnOf(c) = OldOf(c)
    /\ zpc[c] \in {"mergeRemove", "mergeSet"} =>
         /\ Exists(Req(c).path) /\ Exists(Req(c).to)
         /\ \A u \in Uprops : /\ OwnOf(c)[u] \in {OldOf(c)[u], Absent}
                              /\ u \notin zcall[c].todo => OwnOf(c)[u] = Absent
    /\ zpc[c] = "mergeSet" => zcall[c].todo = {}
    /\ zpc[c] = "return" /\ Exists(Req(c).path) /\ Exists(Req(c).to) =>
         zcall[c].ok /\ OwnOf(c) = zcall[c].src

LEMMA SetAll ==
  ASSUME NEW own, NEW props \in Own, \A u \in Uprops : own[u] = Absent
  PROVE  Set(own, props) = props
BY DEF Set, Own

LEMMA MergedStep ==
  ASSUME ZfsInv, NEW c \in Callers, Serve(c), MergedSoFar(c)
  PROVE  MergedSoFar(c)'
<1>1. /\ Req(c)' = Req(c) /\ Before(c)' = Before(c) /\ zcall[c] \in CallRecords
      /\ zcall'[c] \in CallRecords
  BY ServeStep, TreeFacts DEF GoodStep, Steady, Req, Before, CallsInv
<1>2. SUFFICES ASSUME Req(c).op = "merge", ~zcall'[c].refused PROVE MergedSoFar(c)'
  BY <1>1 DEF MergedSoFar
<1>3. /\ zpc[c] # "idle" /\ Req(c).path \in Paths /\ Req(c).to \in Paths
      /\ zpc[c] \in {"merge", "mergeRemove", "mergeSet"}
  BY <1>2, ServeBusy, TreeFacts, Engaged DEF At, Sensible, PathOps
<1>4. PICK p \in Paths, q \in Paths : p = Req(c).path /\ q = Req(c).to
  BY <1>3
<1>5. PICK old : old = OldOf(c)
  OBVIOUS
<1>6. /\ Req(c)'.path = p /\ Req(c)'.to = q /\ OldOf(c)' = old /\ OwnOf(c) = tree[q].own
      /\ OwnOf(c)' = tree'[q].own /\ Req(c)'.op = "merge"
  BY <1>1, <1>2, <1>4, <1>5 DEF OldOf, OwnOf
<1>7. CASE MergeOpen(c)
  <2>1. UNCHANGED Data /\ zpc[c] = "merge"
    BY <1>7 DEF MergeOpen
  <2>2. CASE Exists(p) /\ Exists(q)
    <3> DEFINE left == {u \in Uprops : Effective(q)[u] # Absent}
    <3>1. Go(c, "mergeRemove", [zcall[c] EXCEPT !.src = Effective(p), !.todo = left])
      BY <1>4, <1>7, <2>2 DEF MergeOpen
    <3> DEFINE call == [zcall[c] EXCEPT !.src = Effective(p), !.todo = left]
    <3>0. call.todo = left /\ call.refused = zcall[c].refused
      BY <1>1 DEF CallRecords
    <3> HIDE DEF call
    <3>2. /\ zpc'[c] = "mergeRemove" /\ zcall'[c].todo = left /\ ~zcall[c].refused
          /\ zcall'[c].refused = zcall[c].refused
      <4>1. zpc'[c] = "mergeRemove" /\ zcall'[c] = call
        BY <3>1, GoTo DEF call
      <4>2. QED
        BY <1>2, <3>0, <4>1
    <3>3. \A u \in Uprops : u \notin left => tree[q].own[u] = Absent
      BY <2>2, TreeFacts, EffectiveOwn
    <3> HIDE DEF left
    <3>4. tree[q].own = old
      BY <1>2, <1>5, <1>6, <2>1, <3>2 DEF MergedSoFar
    <3>5. tree' = tree
      BY <2>1 DEF Data
    <3>6. QED
      BY <1>4, <1>6, <2>2, <3>2, <3>3, <3>4, <3>5 DEF MergedSoFar, Exists
  <2>3. CASE ~(Exists(p) /\ Exists(q))
    <3>1. ReturnZfs(c, FALSE, zcall[c])
      BY <1>4, <1>7, <2>3 DEF MergeOpen
    <3>2. zpc'[c] = "return" /\ tree' = tree
      BY <2>1, <3>1, SelfTo DEF Data
    <3>3. QED
      BY <1>6, <2>3, <3>2 DEF MergedSoFar, Exists
  <2>4. QED
    BY <2>2, <2>3
<1>8. CASE MergeRemove(c)
  <2>1. Inherit(c, q, "mergeSet") /\ zpc[c] = "mergeRemove"
    BY <1>4, <1>8 DEF MergeRemove
  <2>2. PICK can \in BOOLEAN : can = Exists(q)
    BY DEF Exists
  <2>3. PICK u \in zcall[c].todo, ok \in Answer(can) :
          /\ tree' = IF ok THEN [tree EXCEPT ![q].own[u] = Absent] ELSE tree
          /\ LET call == [Answered(c, can, ok) EXCEPT !.todo = zcall[c].todo \ {u}]
             IN IF zcall[c].todo \ {u} # {} THEN Go(c, zpc[c], call) ELSE Go(c, "mergeSet", call)
    BY <2>1, <2>2 DEF Inherit
  <2>4. ok \in BOOLEAN
    BY AnswerIs
  <2> DEFINE answered == Answered(c, can, ok)
             call == [answered EXCEPT !.todo = zcall[c].todo \ {u}]
  <2>5. /\ answered \in CallRecords /\ answered.refused = (zcall[c].refused \/ (can /\ ~ok))
    BY <2>4, TreeFacts, AnsweredIs
  <2> HIDE DEF answered
  <2>6. call.todo = zcall[c].todo \ {u} /\ call.refused = (zcall[c].refused \/ (can /\ ~ok))
    BY <2>5 DEF CallRecords
  <2>7. /\ zcall'[c] = call
        /\ zpc'[c] = IF zcall[c].todo \ {u} # {} THEN "mergeRemove" ELSE "mergeSet"
    <3>1. \/ zcall[c].todo \ {u} # {} /\ Go(c, "mergeRemove", call)
          \/ zcall[c].todo \ {u} = {} /\ Go(c, "mergeSet", call)
      BY <2>1, <2>3 DEF answered
    <3> HIDE DEF call
    <3>2. QED
      BY <3>1, GoTo
  <2> HIDE DEF call
  <2>8. ~zcall[c].refused /\ (can => ok)
    BY <1>1, <1>2, <2>4, <2>6, <2>7 DEF CallRecords
  <2>9. /\ Exists(p) /\ Exists(q)
        /\ \A v \in Uprops : /\ tree[q].own[v] \in {old[v], Absent}
                             /\ v \notin zcall[c].todo => tree[q].own[v] = Absent
    BY <1>2, <1>4, <1>5, <1>6, <2>1, <2>8 DEF MergedSoFar
  <2>10. /\ tree' = [tree EXCEPT ![q].own = [tree[q].own EXCEPT ![u] = Absent]]
         /\ tree[q].own \in Own /\ [tree[q].own EXCEPT ![u] = Absent] \in Own
    <3>1. tree[q].own \in Own
      BY <2>9, OwnTyped
    <3>2. QED
      BY <2>2, <2>3, <2>8, <2>9, <3>1, TreeFacts DEF Own
  <2>11. /\ \A x \in Paths \ {q} : tree'[x] = tree[x]
         /\ tree'[q] # Absent /\ tree'[q].own = [tree[q].own EXCEPT ![u] = Absent]
    BY <2>9, <2>10, OwnChanged
  <2>12. \A v \in Uprops : tree'[q].own[v] = IF v = u THEN Absent ELSE tree[q].own[v]
    BY <2>10, <2>11 DEF Own
  <2>13. Exists(p)' /\ Exists(q)'
    BY <2>9, <2>11 DEF Exists
  <2>14. \A v \in Uprops : /\ tree'[q].own[v] \in {old[v], Absent}
                           /\ v \notin zcall[c].todo \ {u} => tree'[q].own[v] = Absent
    BY <2>9, <2>12
  <2>15. zpc'[c] = "mergeSet" => zcall[c].todo \ {u} = {}
    BY <2>7
  <2>16. QED
    BY <1>6, <2>6, <2>7, <2>13, <2>14, <2>15 DEF MergedSoFar, Exists
<1>9. CASE MergeSet(c)
  <2>1. PICK can \in BOOLEAN : can = Exists(q)
    BY DEF Exists
  <2>2. PICK ok \in Answer(can) :
          /\ tree' = IF ok THEN [tree EXCEPT ![q].own = Set(@, zcall[c].src)] ELSE tree
          /\ ReturnZfs(c, ok, Answered(c, can, ok))
    BY <1>4, <1>9, <2>1 DEF MergeSet
  <2>3. ok \in BOOLEAN
    BY AnswerIs
  <2>4. /\ zpc'[c] = "return" /\ zcall'[c].ok = ok /\ zcall'[c].src = zcall[c].src
        /\ ~zcall[c].refused /\ (can => ok)
    BY <1>1, <1>2, <2>2, <2>3, AnsweredTo DEF CallRecords
  <2>5. Exists(q) /\ \A u \in Uprops : tree[q].own[u] = Absent
    <3>1. zpc[c] = "mergeSet" \/ (zpc[c] = "mergeRemove" /\ zcall[c].todo = {})
      BY <1>9 DEF MergeSet
    <3>2. QED
      BY <1>2, <1>4, <1>6, <2>4, <3>1 DEF MergedSoFar
  <2>6. Set(tree[q].own, zcall[c].src) = zcall[c].src /\ zcall[c].src \in Own
    BY <1>1, <2>5, SetAll DEF CallRecords
  <2>7. tree' = [tree EXCEPT ![q].own = zcall[c].src]
    <3>1. tree' = [tree EXCEPT ![q].own = Set(tree[q].own, zcall[c].src)]
      BY <2>1, <2>2, <2>4, <2>5, TreeFacts
    <3>2. QED
      BY <2>6, <3>1
  <2>8. tree'[q].own = zcall[c].src
    BY <2>5, <2>6, <2>7, OwnChanged
  <2>9. QED
    BY <1>6, <2>1, <2>4, <2>5, <2>8 DEF MergedSoFar
<1>10. QED
  BY <1>3, <1>7, <1>8, <1>9, PlaceOf DEF Serve

LEMMA MergedKept ==
  ASSUME ZfsInv, NEW c \in Callers, Stays(c), zpc[c] # "idle",
         \A q \in Paths : Mine(c, q) => Spared(q), MergedSoFar(c)
  PROVE  MergedSoFar(c)'
<1>1. Req(c)' = Req(c) /\ Before(c)' = Before(c)
  BY DEF Stays, Req, Before
<1>2. SUFFICES ASSUME Req(c).op = "merge" PROVE MergedSoFar(c)'
  BY <1>1 DEF MergedSoFar
<1>3. Req(c).path \in Paths /\ Req(c).to \in Paths
  BY <1>2, TreeFacts, Engaged DEF Sensible, PathOps
<1>4. tree'[Req(c).path] = tree[Req(c).path] /\ tree'[Req(c).to] = tree[Req(c).to]
  BY <1>3 DEF Mine, Under, Spared
<1>5. QED
  BY <1>1, <1>4 DEF MergedSoFar, OwnOf, OldOf, Exists, Stays

-----------------------------------------------------------------------------
(* Mounts                                                                  *)

Wanted == {p \in Paths : Exists(p) /\ tree[p].mode = "on"}
KeptOf(c) == {p \in Before(c).mnt : Skipped(p)}
HeldOf(c) == {p \in Before(c).mnt : ~Req(c).flag /\ \E q \in KeptOf(c) : Atop(p, q)}

(* What zfs_mount_all has mounted, and what is left to do. *)
MountedSoFar(c) ==
  Req(c).op = "mountAll" =>
    /\ zpc[c] = "mountAll" => zcall[c].ok /\ mnt \subseteq Before(c).mnt
    /\ zpc[c] \in {"mountNext", "return"} => mnt \subseteq Before(c).mnt \cup Wanted
    /\ zpc[c] = "mountNext" =>
         zcall[c].todo \subseteq Wanted /\ (zcall[c].ok <=> Wanted \ zcall[c].todo \subseteq mnt)
    /\ zpc[c] = "return" => (zcall[c].ok <=> Wanted \subseteq mnt)

(* What zfs_unmount_all has unmounted: what it has done with is mounted still if *)
(* something is mounted below it that stays, and nothing of what is left is.     *)
UnmountedSoFar(c) ==
  Req(c).op = "unmountAll" /\ ~zcall[c].refused =>
    /\ zpc[c] = "unmountAll" => zcall[c].ok /\ mnt = Before(c).mnt
    /\ zpc[c] = "unmountNext" =>
         /\ KeptOf(c) \subseteq mnt /\ mnt \subseteq Before(c).mnt
         /\ \A p \in zcall[c].todo : p \in mnt /\ ~Skipped(p)
         /\ \A p \in Before(c).mnt : ~Skipped(p) /\ p \notin zcall[c].todo =>
              (p \in mnt <=> p \in HeldOf(c)) /\ \A q \in zcall[c].todo : ~Atop(p, q)
         /\ zcall[c].ok <=> \A p \in mnt : Skipped(p) \/ p \in zcall[c].todo
    /\ zpc[c] = "return" =>
         mnt = KeptOf(c) \cup HeldOf(c) /\ (zcall[c].ok <=> \A p \in mnt : Skipped(p))

LEMMA MountedStep ==
  ASSUME ZfsInv, NEW c \in Callers, Serve(c), MountedSoFar(c)
  PROVE  MountedSoFar(c)'
<1>1. /\ Req(c)' = Req(c) /\ Before(c)' = Before(c) /\ zcall[c] \in CallRecords
  BY ServeStep, TreeFacts DEF GoodStep, Steady, Req, Before, CallsInv
<1>2. SUFFICES ASSUME Req(c).op = "mountAll" PROVE MountedSoFar(c)'
  BY <1>1 DEF MountedSoFar
<1>3. zpc[c] \in {"mountAll", "mountNext"}
  BY <1>2, ServeBusy, TreeFacts, Engaged DEF At, PathOps
<1>4. MountAllList(c) \/ MountAllNext(c)
  BY <1>3, PlaceOf DEF Serve
<1>5. tree' = tree /\ Wanted' = Wanted
  BY <1>4 DEF MountAllList, MountAllNext, Data, Wanted, Exists
<1>6. PICK m \in {Before(c).mnt} : TRUE
  OBVIOUS
<1>7. CASE MountAllList(c)
  <2>1. Go(c, "mountNext", [zcall[c] EXCEPT !.todo = {p \in Paths : Exists(p) /\ MayMount(p, FALSE)}])
    BY <1>7 DEF MountAllList
  <2>2. {p \in Paths : Exists(p) /\ MayMount(p, FALSE)} = Wanted
    BY DEF MayMount, Wanted
  <2>3. zpc'[c] = "mountNext" /\ zcall'[c].todo = Wanted /\ zcall'[c].ok = zcall[c].ok
    BY <1>1, <2>1, <2>2, GoTo, ZenonT(60) DEF CallRecords
  <2>4. zcall[c].ok /\ mnt \subseteq m /\ mnt' = mnt
    BY <1>2, <1>6, <1>7 DEF MountedSoFar, MountAllList, Data
  <2>5. QED
    BY <1>1, <1>5, <1>6, <2>3, <2>4 DEF MountedSoFar
<1>8. CASE MountAllNext(c)
  <2>1. /\ zpc[c] = "mountNext" /\ mnt \subseteq m \cup Wanted
        /\ zcall[c].todo \subseteq Wanted /\ (zcall[c].ok <=> Wanted \ zcall[c].todo \subseteq mnt)
    BY <1>2, <1>6, <1>8 DEF MountedSoFar, MountAllNext
  <2>2. CASE zcall[c].todo = {} /\ ReturnZfs(c, zcall[c].ok, zcall[c]) /\ UNCHANGED mnt
    <3>1. zpc'[c] = "return" /\ zcall'[c].ok = zcall[c].ok
      BY <1>1, <2>2, SelfTo DEF CallRecords
    <3>2. QED
      BY <1>1, <1>5, <1>6, <2>1, <2>2, <3>1 DEF MountedSoFar
  <2>3. ASSUME NEW p \in zcall[c].todo, NEW ok \in Answer(CanMount(p)),
               mnt' = IF ok THEN mnt \cup {p} ELSE mnt,
               Go(c, "mountNext", [Answered(c, CanMount(p), ok) EXCEPT
                                     !.todo = @ \ {p}, !.ok = @ /\ (ok \/ p \in mnt)])
        PROVE  MountedSoFar(c)'
    <3>1. CanMount(p) \in BOOLEAN /\ ok \in BOOLEAN
      BY <2>3, AnswerIs DEF CanMount
    <3> DEFINE answered == Answered(c, CanMount(p), ok)
               call == [answered EXCEPT !.todo = @ \ {p}, !.ok = @ /\ (ok \/ p \in mnt)]
    <3>2. answered \in CallRecords /\ answered.todo = zcall[c].todo /\ answered.ok = zcall[c].ok
      BY <3>1, TreeFacts, AnsweredIs
    <3> HIDE DEF answered
    <3>3. call.todo = zcall[c].todo \ {p} /\ call.ok = (zcall[c].ok /\ (ok \/ p \in mnt))
      BY <3>2 DEF CallRecords
    <3>4. Go(c, "mountNext", call)
      BY <2>3 DEF answered
    <3> HIDE DEF call
    <3>5. zpc'[c] = "mountNext" /\ zcall'[c] = call
      BY <3>4, GoTo
    <3>6. p \in mnt' <=> (ok \/ p \in mnt)
      BY <2>3, <3>1
    <3>7. \A q \in Wanted \ {p} : q \in mnt' <=> q \in mnt
      BY <2>3
    <3>8. (call.ok <=> Wanted \ call.todo \subseteq mnt') /\ call.todo \subseteq Wanted
      BY <2>1, <3>3, <3>6, <3>7
    <3>9. mnt' \subseteq m \cup Wanted
      BY <2>1, <2>3
    <3>10. QED
      BY <1>1, <1>5, <1>6, <3>5, <3>8, <3>9 DEF MountedSoFar
  <2>4. QED
    BY <1>8, <2>2, <2>3 DEF MountAllNext
<1>9. QED
  BY <1>4, <1>7, <1>8

LEMMA UnmountedStep ==
  ASSUME ZfsInv, NEW c \in Callers, Serve(c), UnmountedSoFar(c)
  PROVE  UnmountedSoFar(c)'
<1>1. /\ Req(c)' = Req(c) /\ Before(c)' = Before(c) /\ zcall[c] \in CallRecords
      /\ zcall'[c] \in CallRecords
  BY ServeStep, TreeFacts DEF GoodStep, Steady, Req, Before, CallsInv
<1>2. SUFFICES ASSUME Req(c).op = "unmountAll", ~zcall'[c].refused PROVE UnmountedSoFar(c)'
  BY <1>1 DEF UnmountedSoFar
<1>3. zpc[c] \in {"unmountAll", "unmountNext"} /\ Before(c).mnt \subseteq Paths
  BY <1>2, ServeBusy, TreeFacts, Engaged DEF At, PathOps, Before, States
<1>4. UnmountAllList(c) \/ UnmountAllNext(c)
  BY <1>3, PlaceOf DEF Serve
<1>5. /\ \A p : Skipped(p)' <=> Skipped(p)
      /\ KeptOf(c)' = KeptOf(c) /\ HeldOf(c)' = HeldOf(c)
  <2>1. tree' = tree
    BY <1>4 DEF UnmountAllList, UnmountAllNext, Data
  <2>2. \A p : Skipped(p)' <=> Skipped(p)
    BY <2>1 DEF Skipped
  <2>3. KeptOf(c)' = KeptOf(c)
    BY <1>1, <2>2 DEF KeptOf
  <2>4. HeldOf(c)' = HeldOf(c)
    BY <1>1, <2>3 DEF HeldOf, Atop
  <2>5. QED
    BY <2>2, <2>3, <2>4
<1>6. PICK m \in SUBSET Paths, kept \in SUBSET Paths, held \in SUBSET Paths :
        /\ kept \subseteq m /\ held \subseteq m /\ m = Before(c).mnt /\ kept = KeptOf(c) /\ held = HeldOf(c)
  BY <1>3 DEF KeptOf, HeldOf
<1>7. CASE UnmountAllList(c)
  <2>1. Go(c, "unmountNext", [zcall[c] EXCEPT !.todo = {p \in mnt : ~Skipped(p)}]) /\ mnt' = mnt
        /\ zpc[c] = "unmountAll"
    BY <1>7 DEF UnmountAllList, Data
  <2> DEFINE left == {p \in mnt : ~Skipped(p)}
             call == [zcall[c] EXCEPT !.todo = left]
  <2>2. call.todo = left /\ call.ok = zcall[c].ok /\ call.refused = zcall[c].refused
    BY <1>1 DEF CallRecords
  <2>3. zpc'[c] = "unmountNext" /\ zcall'[c] = call
    BY <2>1, GoTo
  <2> HIDE DEF call
  <2>4. zcall[c].ok /\ mnt = m
    BY <1>2, <1>6, <2>1, <2>2, <2>3 DEF UnmountedSoFar
  <2>5. /\ KeptOf(c) = {p \in m : Skipped(p)} /\ left = {p \in m : ~Skipped(p)}
    BY <1>6, <2>4 DEF KeptOf
  <2> HIDE DEF left
  <2>6. QED
    BY <1>1, <1>5, <1>6, <2>1, <2>2, <2>3, <2>4, <2>5 DEF UnmountedSoFar
<1>8. CASE UnmountAllNext(c)
  <2>0. zpc[c] = "unmountNext"
    BY <1>8 DEF UnmountAllNext
  <2>1. CASE zcall[c].todo = {} /\ ReturnZfs(c, zcall[c].ok, zcall[c]) /\ UNCHANGED mnt
    <3>1. zpc'[c] = "return" /\ zcall'[c].ok = zcall[c].ok /\ zcall'[c].refused = zcall[c].refused
      BY <1>1, <2>1, SelfTo DEF CallRecords
    <3>2. /\ kept \subseteq mnt /\ mnt \subseteq m
          /\ \A p \in m : ~Skipped(p) => (p \in mnt <=> p \in held)
          /\ zcall[c].ok <=> \A p \in mnt : Skipped(p)
      BY <1>2, <1>6, <2>0, <2>1, <3>1 DEF UnmountedSoFar
    <3>3. \A p \in m : p \in kept <=> Skipped(p)
      BY <1>6 DEF KeptOf
    <3>4. mnt = kept \cup held
      BY <1>6, <3>2, <3>3
    <3>5. QED
      BY <1>1, <1>5, <1>6, <2>1, <3>1, <3>2, <3>4 DEF UnmountedSoFar
  <2>2. ASSUME NEW p \in Lowest(zcall[c].todo),
               NEW can, can = (p \in mnt /\ (Req(c).flag \/ ~Busy(p))),
               NEW ok \in Answer(can),
               mnt' = IF ok THEN mnt \ {p} ELSE mnt,
               Go(c, "unmountNext", [Answered(c, can, ok) EXCEPT !.todo = @ \ {p}, !.ok = @ /\ ok])
        PROVE  UnmountedSoFar(c)'
    <3>1. can \in BOOLEAN /\ ok \in BOOLEAN /\ (ok => can)
      BY <2>2, AnswerIs
    <3> DEFINE answered == Answered(c, can, ok)
               call == [answered EXCEPT !.todo = @ \ {p}, !.ok = @ /\ ok]
    <3>2. /\ answered \in CallRecords /\ answered.todo = zcall[c].todo /\ answered.ok = zcall[c].ok
          /\ answered.refused = (zcall[c].refused \/ (can /\ ~ok))
      BY <3>1, TreeFacts, AnsweredIs
    <3> HIDE DEF answered
    <3>3. /\ call.todo = zcall[c].todo \ {p} /\ call.ok = (zcall[c].ok /\ ok)
          /\ call.refused = (zcall[c].refused \/ (can /\ ~ok))
      BY <3>2 DEF CallRecords
    <3>4. Go(c, "unmountNext", call)
      BY <2>2 DEF answered
    <3> HIDE DEF call
    <3>5. zpc'[c] = "unmountNext" /\ zcall'[c] = call
      BY <3>4, GoTo
    <3>6. ~zcall[c].refused /\ (can <=> ok)
      BY <1>1, <1>2, <3>1, <3>3, <3>5 DEF CallRecords
    <3>7. /\ kept \subseteq mnt /\ mnt \subseteq m
          /\ \A x \in zcall[c].todo : x \in mnt /\ ~Skipped(x)
          /\ \A x \in m : ~Skipped(x) /\ x \notin zcall[c].todo =>
               (x \in mnt <=> x \in held) /\ \A y \in zcall[c].todo : ~Atop(x, y)
          /\ zcall[c].ok <=> \A x \in mnt : Skipped(x) \/ x \in zcall[c].todo
      BY <1>2, <1>6, <2>0, <3>6 DEF UnmountedSoFar
    <3>8. p \in zcall[c].todo /\ p \in mnt /\ ~Skipped(p) /\ p \in m
          /\ \A y \in zcall[c].todo : ~Atop(p, y)
      BY <2>2, <3>7 DEF Lowest
    <3>9. \A x \in m : x \in kept <=> Skipped(x)
      BY <1>6 DEF KeptOf
    <3>10. \A x \in m : x \in held <=> ~Req(c).flag /\ \E y \in kept : Atop(x, y)
      BY <1>6 DEF HeldOf
    <3>11. ~Req(c).flag => (Busy(p) <=> \E y \in kept : Atop(p, y))
      <4>1. ASSUME NEW q \in mnt, Atop(p, q) PROVE Req(c).flag \/ \E y \in kept : Atop(p, y)
        <5>1. q \in m /\ q \notin zcall[c].todo
          BY <3>7, <3>8, <4>1
        <5>2. CASE Skipped(q)
          BY <3>9, <4>1, <5>1, <5>2
        <5>3. CASE ~Skipped(q)
          <6>1. q \in held
            BY <3>7, <5>1, <5>3
          <6>2. PICK y \in kept : Atop(q, y)
            BY <3>10, <5>1, <6>1
          <6>3. Atop(p, y)
            BY <1>6, <3>8, <4>1, <5>1, <6>2, AtopTransitive
          <6>4. QED
            BY <6>3
        <5>4. QED
          BY <5>2, <5>3
      <4>2. QED
        BY <3>7, <4>1 DEF Busy
    <3>12. p \in mnt' <=> p \in held
      BY <2>2, <3>6, <3>8, <3>10, <3>11
    <3>13. \A x \in m \ {p} : x \in mnt' <=> x \in mnt
      BY <2>2
    <3>14. /\ kept \subseteq mnt' /\ mnt' \subseteq m
           /\ \A x \in call.todo : x \in mnt' /\ ~Skipped(x)
           /\ \A x \in m : ~Skipped(x) /\ x \notin call.todo =>
                (x \in mnt' <=> x \in held) /\ \A y \in call.todo : ~Atop(x, y)
      BY <2>2, <3>3, <3>7, <3>8, <3>9, <3>12, <3>13
    <3>15. call.ok <=> \A x \in mnt' : Skipped(x) \/ x \in call.todo
      <4>1. CASE ok
        BY <2>2, <3>3, <3>7, <3>8, <4>1
      <4>2. CASE ~ok
        BY <2>2, <3>3, <3>8, <4>2
      <4>3. QED
        BY <4>1, <4>2
    <3>16. QED
      BY <1>1, <1>5, <1>6, <3>5, <3>14, <3>15 DEF UnmountedSoFar, Atop
  <2>3. QED
    BY <1>8, <2>1, <2>2 DEF UnmountAllNext
<1>9. QED
  BY <1>4, <1>7, <1>8

-----------------------------------------------------------------------------
(* The walk of a destroy                                                   *)

(* What has still to go of f is known to f: what it owes, or the frame above it. *)
FrameGood(f, batch) ==
  /\ Exists(f.path)
  /\ f.phase = "children" => Children(f.path) \subseteq f.owed
  /\ f.phase \in {"snaps", "destroy"} => Children(f.path) = {}
  /\ f.phase = "snaps" => SnapsOf(f.path) \subseteq f.owed
  /\ f.phase = "destroy" => snaps[f.path] = <<>> /\ Len(f.path) > 1
  /\ f.phase = "clones" =>
       /\ f.snap \in SnapsOf(f.path) /\ <<f.path, f.snap>> \notin batch
       /\ Clones(f.path, f.snap) = {q \in f.owed : Exists(q)}
Linked(f, next) ==
  \/ f.phase = "children" /\ next.phase # "clones" /\ next.path \in Children(f.path)
  \/ f.phase = "snaps" /\ next.phase = "clones" /\ next.path = f.path
  \/ f.phase = "clones" /\ next.phase # "clones" /\ next.path \in Clones(f.path, f.snap)
WalkRight(stack, batch) ==
  /\ \A i \in 1 .. Len(stack) : FrameGood(stack[i], batch)
  /\ \A i \in 1 .. Len(stack) - 1 : Linked(stack[i], stack[i + 1])
  /\ \A b \in batch : Clones(b[1], b[2]) = {}

ToDestroy(c) == Before(c).tree[Req(c).path] # Absent /\ (Req(c).flag \/ Len(Req(c).path) > 1)
Destroyed(p) == IF Len(p) > 1 THEN ~Exists(p) ELSE Exists(p) /\ Tree(p) = {p} /\ snaps[p] = <<>>
DestroyedSoFar(c) ==
  Req(c).op = "destroy" /\ ~zcall[c].refused =>
    \E p \in Paths :
      /\ p = Req(c).path
      /\ zpc[c] = "destroy" => (Exists(p) <=> Before(c).tree[p] # Absent)
      /\ zpc[c] = "walk" =>
           /\ ToDestroy(c)
           /\ \E s \in Seq(Frames), b \in SUBSET (Paths \X SnapNames) :
                s = zcall[c].stack /\ b = zcall[c].batch /\ s[1].path = p /\ WalkRight(s, b)
      /\ zpc[c] = "return" => (zcall[c].ok <=> ToDestroy(c)) /\ (ToDestroy(c) => Destroyed(p))

(* What a step of the walk leaves. *)
Onward(c, p) ==
  \/ /\ zpc'[c] = "walk"
     /\ \E s \in Seq(Frames), b \in SUBSET (Paths \X SnapNames) :
          s = zcall'[c].stack /\ b = zcall'[c].batch /\ s[1].path = p /\ WalkRight(s, b)'
  \/ zpc'[c] = "return" /\ zcall'[c].ok /\ Destroyed(p)'

LEMMA FrameSame ==
  ASSUME NEW f \in Frames, NEW b,
         \A q \in Paths : Under(f.path, q) => tree'[q] = tree[q] /\ snaps'[q] = snaps[q],
         f.phase = "clones" => /\ Clones(f.path, f.snap)' = Clones(f.path, f.snap)
                               /\ \A q \in f.owed : Exists(q)' <=> Exists(q)
  PROVE  FrameGood(f, b)' <=> FrameGood(f, b)
<1>1. f.path \in Paths /\ Under(f.path, f.path)
  BY DEF Frames, Under
<1>2. (Exists(f.path)' <=> Exists(f.path)) /\ SnapsOf(f.path)' = SnapsOf(f.path)
      /\ snaps'[f.path] = snaps[f.path]
  BY <1>1 DEF Exists, SnapsOf
<1>3. Children(f.path)' = Children(f.path)
  <2>1. Tree(f.path)' = Tree(f.path)
    BY <1>1, AskedSame
  <2>2. QED
    BY <2>1 DEF Children
<1>4. f.phase = "clones" => {q \in f.owed : Exists(q)'} = {q \in f.owed : Exists(q)}
  OBVIOUS
<1>5. FrameGood(f, b)' <=>
        /\ Exists(f.path)'
        /\ f.phase = "children" => Children(f.path)' \subseteq f.owed
        /\ f.phase \in {"snaps", "destroy"} => Children(f.path)' = {}
        /\ f.phase = "snaps" => SnapsOf(f.path)' \subseteq f.owed
        /\ f.phase = "destroy" => snaps'[f.path] = <<>> /\ Len(f.path) > 1
        /\ f.phase = "clones" =>
             /\ f.snap \in SnapsOf(f.path)' /\ <<f.path, f.snap>> \notin b
             /\ Clones(f.path, f.snap)' = {q \in f.owed : Exists(q)'}
  BY DEF FrameGood
<1>6. QED
  BY <1>2, <1>3, <1>4, <1>5 DEF FrameGood

LEMMA ClonesSame ==
  ASSUME NEW p \in Paths, NEW n \in SnapNames,
         tree' = tree \/ (~AnyClone(tree) /\ ~AnyClone(tree'))
  PROVE  Clones(p, n)' = Clones(p, n)
<1>1. CASE tree' = tree
  BY <1>1 DEF Clones, Exists
<1>2. CASE ~AnyClone(tree) /\ ~AnyClone(tree')
  <2>1. <<p, n>> # Absent
    BY ZfsAssumption
  <2>2. \A q \in Paths : ~(Exists(q) /\ tree[q].origin = <<p, n>>)
    BY <1>2, <2>1 DEF AnyClone, Exists
  <2>3. \A q \in Paths : ~(Exists(q)' /\ tree'[q].origin = <<p, n>>)
    BY <1>2, <2>1 DEF AnyClone, Exists
  <2>4. Clones(p, n) = {}
    BY <2>2 DEF Clones
  <2>5. Clones(p, n)' = {}
    BY <2>3 DEF Clones
  <2>6. QED
    BY <2>4, <2>5
<1>3. QED
  BY <1>1, <1>2

LEMMA RightSame ==
  ASSUME NEW s \in Seq(Frames), NEW b \in SUBSET (Paths \X SnapNames),
         \A i \in 1 .. Len(s) : \A q \in Paths :
            Under(s[i].path, q) => tree'[q] = tree[q] /\ snaps'[q] = snaps[q],
         \/ tree' = tree
         \/ /\ ~AnyClone(tree) /\ ~AnyClone(tree')
            /\ \A i \in 1 .. Len(s) : s[i].phase = "clones" => s[i].owed = {},
         WalkRight(s, b)
  PROVE  WalkRight(s, b)'
<1>1. \A i \in 1 .. Len(s) : s[i] \in Frames
  BY ElementOfSeq
<1>2. ASSUME NEW f \in Frames, NEW i \in 1 .. Len(s), f = s[i]
      PROVE  /\ FrameGood(f, b) /\ FrameGood(f, b)'
             /\ Children(f.path)' = Children(f.path)
             /\ f.phase = "clones" => Clones(f.path, f.snap)' = Clones(f.path, f.snap)
  <2>1. f.path \in Paths /\ (f.phase = "clones" => f.snap \in SnapNames)
    BY DEF Frames
  <2>2. FrameGood(f, b) /\ \A q \in Paths : Under(f.path, q) => tree'[q] = tree[q] /\ snaps'[q] = snaps[q]
    BY <1>2 DEF WalkRight
  <2>3. f.phase = "clones" => Clones(f.path, f.snap)' = Clones(f.path, f.snap)
    BY <2>1, ClonesSame
  <2>4. f.phase = "clones" => \A q \in f.owed : Exists(q)' <=> Exists(q)
    BY <1>2 DEF Exists
  <2>5. FrameGood(f, b)'
    BY <2>2, <2>3, <2>4, FrameSame
  <2>6. Tree(f.path)' = Tree(f.path)
    BY <2>1, <2>2, AskedSame
  <2>7. Children(f.path)' = Children(f.path)
    BY <2>6 DEF Children
  <2>8. QED
    BY <2>2, <2>3, <2>5, <2>7
<1>3. ASSUME NEW i \in 1 .. Len(s) PROVE FrameGood(s[i], b)'
  <2>1. PICK f \in Frames : f = s[i]
    BY <1>1
  <2>2. QED
    BY <1>2, <2>1
<1>4. ASSUME NEW i \in 1 .. Len(s) - 1 PROVE Linked(s[i], s[i + 1])'
  <2>1. PICK f \in Frames : f = s[i]
    BY <1>1
  <2>2. Linked(f, s[i + 1])
    BY <2>1 DEF WalkRight
  <2>3. i \in 1 .. Len(s)
    OBVIOUS
  <2>4. /\ Children(f.path)' = Children(f.path)
        /\ f.phase = "clones" => Clones(f.path, f.snap)' = Clones(f.path, f.snap)
    BY <1>2, <2>1, <2>3
  <2>5. Linked(f, s[i + 1])'
    BY <2>2, <2>4 DEF Linked
  <2>6. QED
    BY <2>1, <2>5
<1>5. ASSUME NEW x \in b PROVE (Clones(x[1], x[2]) = {})'
  <2>1. PICK p \in Paths, n \in SnapNames : p = x[1] /\ n = x[2]
    OBVIOUS
  <2>2. Clones(p, n) = {}
    BY <2>1 DEF WalkRight
  <2>3. Clones(p, n)' = {}
    BY <2>2, ClonesSame
  <2>4. QED
    BY <2>1, <2>3
<1>6. QED
  BY <1>3, <1>4, <1>5 DEF WalkRight

(* What a frame says, with its parts by name *)
LEMMA LowerIs ==
  ASSUME NEW s \in Seq(Frames), NEW b, WalkRight(s, b), NEW i \in 1 .. Len(s) - 1
  PROVE  /\ s[i] \in Frames /\ s[i + 1] \in Frames /\ FrameGood(s[i], b) /\ Linked(s[i], s[i + 1])
         /\ Children(s[i].path) # {} \/ SnapsOf(s[i].path) # {}
         /\ s[i].phase = "clones" => Clones(s[i].path, s[i].snap) # {}
         /\ s[i].phase # "destroy"
<1>1. i \in 1 .. Len(s) /\ i + 1 \in 1 .. Len(s)
  OBVIOUS
<1>2. s[i] \in Frames /\ s[i + 1] \in Frames
  BY <1>1, ElementOfSeq
<1>3. FrameGood(s[i], b) /\ FrameGood(s[i + 1], b) /\ Linked(s[i], s[i + 1])
  BY <1>1 DEF WalkRight
<1>4. Children(s[i].path) # {} \/ SnapsOf(s[i].path) # {}
  BY <1>3 DEF Linked, FrameGood
<1>5. QED
  BY <1>2, <1>3, <1>4 DEF Linked

LEMMA PushRight ==
  ASSUME NEW s \in Seq(Frames), s # <<>>, NEW b, WalkRight(s, b),
         NEW f \in Frames, FrameGood(f, b), Linked(s[Len(s)], f)
  PROVE  /\ Append(s, f) \in Seq(Frames) /\ Append(s, f)[1] = s[1]
         /\ WalkRight(Append(s, f), b)
<1>1. Len(s) \in Nat \ {0}
  BY EmptySeq
<1>2. /\ Append(s, f) \in Seq(Frames) /\ Len(Append(s, f)) = Len(s) + 1
      /\ Append(s, f)[Len(s) + 1] = f /\ \A i \in 1 .. Len(s) : Append(s, f)[i] = s[i]
  BY AppendProperties
<1>3. PICK t \in Seq(Frames) : t = Append(s, f)
  BY <1>2
<1>4. \A i \in 1 .. Len(t) : FrameGood(t[i], b)
  BY <1>1, <1>2, <1>3 DEF WalkRight
<1>5. \A i \in 1 .. Len(t) - 1 : Linked(t[i], t[i + 1])
  <2> SUFFICES ASSUME NEW i \in 1 .. Len(t) - 1 PROVE Linked(t[i], t[i + 1])
    OBVIOUS
  <2>1. CASE i = Len(s)
    BY <1>1, <1>2, <1>3, <2>1
  <2>2. CASE i # Len(s)
    <3>1. i \in 1 .. Len(s) - 1 /\ i \in 1 .. Len(s) /\ i + 1 \in 1 .. Len(s)
      BY <1>1, <1>2, <1>3, <2>2
    <3>2. t[i] = s[i] /\ t[i + 1] = s[i + 1]
      BY <1>2, <1>3, <3>1
    <3>3. QED
      BY <3>1, <3>2 DEF WalkRight
  <2>3. QED
    BY <2>1, <2>2
<1>6. WalkRight(t, b)
  BY <1>4, <1>5 DEF WalkRight
<1>7. QED
  BY <1>1, <1>2, <1>3, <1>6

(* Nothing is changed by a step that only walks. *)
LEMMA StaysRight ==
  ASSUME NEW s \in Seq(Frames), NEW b \in SUBSET (Paths \X SnapNames), UNCHANGED Data, WalkRight(s, b)
  PROVE  WalkRight(s, b)'
<1>1. tree' = tree /\ snaps' = snaps
  BY DEF Data
<1>2. QED
  BY <1>1, RightSame

LEMMA OnwardBy ==
  ASSUME ZfsInv, NEW c \in Callers, zpc[c] = "walk", NEW s \in Seq(Frames),
         NEW b \in SUBSET (Paths \X SnapNames), NEW p, s[1].path = p,
         Go(c, "walk", [zcall[c] EXCEPT !.stack = s, !.batch = b]), UNCHANGED Data, WalkRight(s, b)
  PROVE  Onward(c, p)
<1>1. zpc'[c] = "walk" /\ zcall'[c] = [zcall[c] EXCEPT !.stack = s, !.batch = b]
  BY GoTo
<1>2. zcall'[c].stack = s /\ zcall'[c].batch = b
  BY <1>1, WalkingIs DEF CallRecords
<1>3. WalkRight(s, b)'
  BY StaysRight
<1>4. QED
  BY <1>1, <1>2, <1>3 DEF Onward

LEMMA WalkDownOn ==
  ASSUME ZfsInv, NEW c \in Callers, WalkChild(c) \/ WalkSnap(c) \/ WalkClone(c),
         WalkRight(zcall[c].stack, zcall[c].batch)
  PROVE  Onward(c, zcall[c].stack[1].path)
<1>1. zpc[c] = "walk"
  BY DEF WalkChild, WalkSnap, WalkClone, Walking
<1>2. PICK s \in Seq(Frames), b \in SUBSET (Paths \X SnapNames) :
        s = zcall[c].stack /\ b = zcall[c].batch
  BY <1>1, WalkingIs
<1>3. PICK top \in Frames : top = Top(c) /\ top = s[Len(s)]
  BY <1>1, <1>2, WalkingIs DEF Top
<1>4. /\ s # <<>> /\ WalkRight(s, b) /\ Len(s) \in 1 .. Len(s) /\ FrameGood(top, b)
      /\ top.path \in Paths
  <2>1. s # <<>> /\ Len(s) \in Nat \ {0} /\ WalkRight(s, b)
    BY <1>1, <1>2, WalkingIs
  <2>2. Len(s) \in 1 .. Len(s)
    BY <2>1
  <2>3. FrameGood(s[Len(s)], b)
    BY <2>1, <2>2 DEF WalkRight
  <2>4. QED
    BY <1>3, <2>1, <2>2, <2>3 DEF Frames
<1>5. SUFFICES ASSUME NEW f \in Frames, FrameGood(f, b), Linked(top, f), Walk(c, Append(s, f))
               PROVE  Onward(c, s[1].path)
  <2>1. ASSUME NEW f \in Frames, FrameGood(f, b), Linked(top, f), Walk(c, Push(c, f))
        PROVE  Onward(c, zcall[c].stack[1].path)
    BY <1>2, <1>5, <2>1 DEF Push
  <2>2. ASSUME NEW q \in Paths, Exists(q) PROVE DsFrame(q) \in Frames /\ FrameGood(DsFrame(q), b)
    BY <2>2 DEF DsFrame, Frames, Children, Tree, FrameGood
  <2>3. CASE WalkChild(c)
    <3>1. PICK q \in Children(top.path) : Walk(c, Push(c, DsFrame(q))) /\ top.phase = "children"
      BY <1>3, <2>3 DEF WalkChild, Walking
    <3>2. q \in Paths /\ Exists(q) /\ Linked(top, DsFrame(q))
      BY <3>1 DEF Children, Tree, Linked, DsFrame
    <3>3. QED
      BY <2>1, <2>2, <3>1, <3>2
  <2>4. CASE WalkClone(c)
    <3>1. PICK q \in top.owed : Exists(q) /\ Walk(c, Push(c, DsFrame(q))) /\ top.phase = "clones"
      BY <1>3, <2>4 DEF WalkClone, Walking
    <3>2. q \in Paths /\ Linked(top, DsFrame(q))
      BY <1>4, <3>1 DEF Frames, FrameGood, Linked, DsFrame
    <3>3. QED
      BY <2>1, <2>2, <3>1, <3>2
  <2>5. CASE WalkSnap(c)
    <3>1. PICK n \in SnapsOf(top.path) \ Batched(c) :
            Walk(c, Push(c, SnapFrame(top.path, n))) /\ top.phase = "snaps"
      BY <1>3, <2>5 DEF WalkSnap, Walking
    <3> DEFINE f == SnapFrame(top.path, n)
    <3>2. n \in SnapNames
      <4>1. snaps[top.path] \in Seq(Snapshots)
        BY <1>4, TreeFacts
      <4>2. \A i \in 1 .. Len(snaps[top.path]) : snaps[top.path][i] \in Snapshots
        BY <4>1, ElementOfSeq
      <4>3. QED
        BY <3>1, <4>2 DEF SnapsOf, NamesIn, Snapshots
    <3>3. f \in Frames /\ f.path = top.path /\ f.snap = n /\ f.phase = "clones"
          /\ f.owed = Clones(top.path, n)
      BY <1>4, <3>2 DEF SnapFrame, Frames, Clones
    <3>4. <<top.path, n>> \notin b
      BY <1>2, <1>3, <3>1, <3>2 DEF Batched
    <3>5. Clones(top.path, n) = {q \in Clones(top.path, n) : Exists(q)}
      BY DEF Clones
    <3> HIDE DEF f
    <3>6. FrameGood(f, b) /\ Linked(top, f)
      BY <1>4, <3>1, <3>3, <3>4, <3>5 DEF FrameGood, Linked
    <3>7. QED
      BY <2>1, <3>1, <3>3, <3>6 DEF f
  <2>6. QED
    BY <2>3, <2>4, <2>5
<1>6. Append(s, f) \in Seq(Frames) /\ Append(s, f)[1] = s[1] /\ WalkRight(Append(s, f), b)
  BY <1>3, <1>4, <1>5, PushRight
<1>7. [zcall[c] EXCEPT !.stack = Append(s, f)] = [zcall[c] EXCEPT !.stack = Append(s, f), !.batch = b]
  BY <1>1, <1>2, WalkingIs DEF CallRecords
<1>8. QED
  BY <1>1, <1>5, <1>6, <1>7, OnwardBy DEF Walk

(* The frame on top becomes another one of the same dataset. *)
LEMMA PhaseRight ==
  ASSUME ZfsInv, NEW c \in Callers, zpc[c] = "walk", WalkRight(zcall[c].stack, zcall[c].batch),
         Top(c).phase # "clones",
         NEW phase \in {"snaps", "destroy"}, NEW owed \in SUBSET (Paths \cup SnapNames),
         NEW t, t = Phase(c, phase, owed)
  PROVE  /\ t \in Seq(Frames) /\ Len(t) = Len(zcall[c].stack)
         /\ t[1].path = zcall[c].stack[1].path
         /\ \A i \in 1 .. Len(t) - 1 : t[i] = zcall[c].stack[i]
         /\ t[Len(t)].path = Top(c).path /\ t[Len(t)].phase = phase /\ t[Len(t)].owed = owed
         /\ \A i \in 1 .. Len(t) - 1 : Linked(t[i], t[i + 1])
<1>1. PICK s \in Seq(Frames) : s = zcall[c].stack
  BY WalkingIs
<1>2. PICK top \in Frames : top = Top(c) /\ top = s[Len(s)]
  BY <1>1, WalkingIs DEF Top
<1>3. PICK f \in Frames : f = [top EXCEPT !.phase = phase, !.owed = owed]
                          /\ f.path = top.path /\ f.phase = phase /\ f.owed = owed
  <2>1. [top EXCEPT !.phase = phase, !.owed = owed] \in Frames
    BY DEF Frames
  <2>2. QED
    BY <2>1 DEF Frames
<1>4. t \in Seq(Frames) /\ t = Append(Below(c), f)
  <2>1. Phase(c, phase, owed) = Below(c) \o <<f>>
    BY <1>2, <1>3 DEF Phase
  <2>2. Below(c) \o <<f>> = Append(Below(c), f) /\ Append(Below(c), f) \in Seq(Frames)
    BY WalkingIs, AppendIsConcat, AppendProperties
  <2>3. QED
    BY <2>1, <2>2
<1>5. Len(s) \in Nat \ {0} /\ Below(c) \in Seq(Frames) /\ Len(Below(c)) = Len(s) - 1
      /\ \A i \in 1 .. Len(s) - 1 : Below(c)[i] = s[i]
  BY <1>1, WalkingIs
<1>6. Len(t) = Len(s) /\ t[Len(s)] = f /\ \A i \in 1 .. Len(s) - 1 : t[i] = s[i]
  <2>1. Len(t) = Len(Below(c)) + 1 /\ t[Len(Below(c)) + 1] = f
        /\ \A i \in 1 .. Len(Below(c)) : t[i] = Below(c)[i]
    BY <1>4, <1>5, AppendProperties
  <2>2. QED
    BY <1>5, <2>1
<1>7. t[1].path = s[1].path
  <2>1. CASE Len(s) = 1
    BY <1>2, <1>3, <1>6, <2>1
  <2>2. CASE Len(s) # 1
    BY <1>5, <1>6, <2>2
  <2>3. QED
    BY <2>1, <2>2
<1>8. ASSUME NEW i \in 1 .. Len(t) - 1 PROVE Linked(t[i], t[i + 1])
  <2>1. i \in 1 .. Len(s) - 1 /\ i + 1 \in 1 .. Len(s) /\ t[i] = s[i]
    BY <1>5, <1>6
  <2>2. Linked(s[i], s[i + 1])
    BY <1>1, <2>1 DEF WalkRight
  <2>3. CASE i + 1 = Len(s)
    <3>1. Linked(s[i], top)
      BY <1>2, <2>2, <2>3
    <3>2. Linked(s[i], f)
      BY <1>2, <1>3, <3>1 DEF Linked
    <3>3. QED
      BY <1>6, <2>1, <2>3, <3>2
  <2>4. CASE i + 1 # Len(s)
    BY <1>5, <1>6, <2>1, <2>2, <2>4
  <2>5. QED
    BY <2>3, <2>4
<1>9. QED
  BY <1>1, <1>2, <1>3, <1>4, <1>6, <1>7, <1>8

LEMMA WalkToSnapsOn ==
  ASSUME ZfsInv, NEW c \in Callers, WalkToSnaps(c), WalkRight(zcall[c].stack, zcall[c].batch)
  PROVE  Onward(c, zcall[c].stack[1].path)
<1>1. /\ zpc[c] = "walk" /\ Walk(c, Phase(c, "snaps", SnapsOf(Top(c).path)))
      /\ Top(c).phase = "children" /\ Top(c).owed \cap Children(Top(c).path) = {}
  BY DEF WalkToSnaps, Walking
<1>2. PICK s \in Seq(Frames), b \in SUBSET (Paths \X SnapNames) :
        s = zcall[c].stack /\ b = zcall[c].batch
  BY <1>1, WalkingIs
<1>3. /\ Len(s) \in Nat \ {0} /\ WalkRight(s, b) /\ Top(c) = s[Len(s)] /\ Top(c) \in Frames
      /\ FrameGood(Top(c), b) /\ Top(c).path \in Paths
  <2>1. Len(s) \in Nat \ {0} /\ WalkRight(s, b) /\ Top(c) = s[Len(s)] /\ Top(c) \in Frames
    BY <1>1, <1>2, WalkingIs DEF Top
  <2>2. Len(s) \in 1 .. Len(s)
    BY <2>1
  <2>3. FrameGood(s[Len(s)], b)
    BY <2>1, <2>2 DEF WalkRight
  <2>4. QED
    BY <2>1, <2>3 DEF Frames
<1>4. Exists(Top(c).path) /\ Children(Top(c).path) = {}
  BY <1>1, <1>3 DEF FrameGood
<1>5. SnapsOf(Top(c).path) \subseteq SnapNames
  <2>1. snaps[Top(c).path] \in Seq(Snapshots)
    BY <1>3, TreeFacts
  <2>2. \A i \in 1 .. Len(snaps[Top(c).path]) : snaps[Top(c).path][i] \in Snapshots
    BY <2>1, ElementOfSeq
  <2>3. QED
    BY <2>2 DEF SnapsOf, NamesIn, Snapshots
<1>6. PICK owed \in SUBSET (Paths \cup SnapNames) : owed = SnapsOf(Top(c).path)
  BY <1>5
<1>7. PICK t \in Seq(Frames) :
        /\ t = Phase(c, "snaps", owed) /\ Len(t) = Len(s) /\ t[1].path = s[1].path
        /\ \A i \in 1 .. Len(t) - 1 : t[i] = s[i]
        /\ t[Len(t)].path = Top(c).path /\ t[Len(t)].phase = "snaps" /\ t[Len(t)].owed = owed
        /\ \A i \in 1 .. Len(t) - 1 : Linked(t[i], t[i + 1])
  <2>1. WalkRight(zcall[c].stack, zcall[c].batch) /\ Top(c).phase # "clones" /\ "snaps" \in {"snaps", "destroy"}
    BY <1>1
  <2>2. PICK t : t = Phase(c, "snaps", owed)
    OBVIOUS
  <2>3. /\ t \in Seq(Frames) /\ Len(t) = Len(zcall[c].stack)
        /\ t[1].path = zcall[c].stack[1].path
        /\ \A i \in 1 .. Len(t) - 1 : t[i] = zcall[c].stack[i]
        /\ t[Len(t)].path = Top(c).path /\ t[Len(t)].phase = "snaps" /\ t[Len(t)].owed = owed
        /\ \A i \in 1 .. Len(t) - 1 : Linked(t[i], t[i + 1])
    BY <1>1, <2>1, <2>2, PhaseRight
  <2>4. QED
    BY <1>2, <2>2, <2>3
<1>8. FrameGood(t[Len(t)], b)
  BY <1>4, <1>6, <1>7 DEF FrameGood
<1>9. ASSUME NEW i \in 1 .. Len(t) PROVE FrameGood(t[i], b)
  <2>1. CASE i = Len(t)
    BY <1>8, <2>1
  <2>2. CASE i # Len(t)
    <3>1. i \in 1 .. Len(t) - 1 /\ i \in 1 .. Len(s)
      BY <1>3, <1>7, <2>2
    <3>2. QED
      BY <1>3, <1>7, <3>1 DEF WalkRight
  <2>3. QED
    BY <2>1, <2>2
<1>10. WalkRight(t, b)
  BY <1>3, <1>7, <1>9 DEF WalkRight
<1>11. /\ Go(c, "walk", [zcall[c] EXCEPT !.stack = t, !.batch = b])
       /\ UNCHANGED Data
  <2>1. [zcall[c] EXCEPT !.stack = t] = [zcall[c] EXCEPT !.stack = t, !.batch = b]
    BY <1>1, <1>2, WalkingIs DEF CallRecords
  <2>2. QED
    BY <1>1, <1>6, <1>7, <2>1 DEF Walk
<1>12. QED
  BY <1>1, <1>2, <1>7, <1>10, <1>11, OnwardBy

(* A snapshot is batched when none of its clones is left. *)
LEMMA WalkBatchOn ==
  ASSUME ZfsInv, NEW c \in Callers, WalkBatch(c), WalkRight(zcall[c].stack, zcall[c].batch)
  PROVE  Onward(c, zcall[c].stack[1].path)
<1>1. PICK s \in Seq(Frames), b \in SUBSET (Paths \X SnapNames), top \in Frames :
        /\ s = zcall[c].stack /\ b = zcall[c].batch /\ top = Top(c) /\ top = s[Len(s)]
        /\ zpc[c] = "walk"
  BY WalkingIs DEF WalkBatch, Walking, Top
<1>2. /\ top.phase = "clones" /\ \A q \in top.owed : ~Exists(q)
      /\ Go(c, "walk", [zcall[c] EXCEPT !.batch = b \cup {<<top.path, top.snap>>}, !.stack = Below(c)])
      /\ UNCHANGED Data
  BY <1>1 DEF WalkBatch, Walking
<1>3. PICK t \in Seq(Frames) : t = Below(c) /\ t # <<>> /\ Len(t) = Len(s) - 1
                               /\ \A i \in 1 .. Len(t) : t[i] = s[i]
  BY <1>1, <1>2, WalkingIs
<1>4. Len(s) \in Nat \ {0} /\ Len(s) \in 1 .. Len(s) /\ WalkRight(s, b) /\ FrameGood(top, b)
  <2>1. Len(s) \in Nat \ {0} /\ WalkRight(s, b)
    BY <1>1, WalkingIs
  <2>2. Len(s) \in 1 .. Len(s)
    BY <2>1
  <2>3. QED
    BY <1>1, <2>1, <2>2 DEF WalkRight
<1>5. top.path \in Paths /\ top.snap \in SnapNames /\ Clones(top.path, top.snap) = {}
  BY <1>2, <1>4 DEF FrameGood, Frames
<1>6. PICK p \in Paths, n \in SnapNames : p = top.path /\ n = top.snap
  BY <1>5
<1>7. PICK b2 \in SUBSET (Paths \X SnapNames) : b2 = b \cup {<<p, n>>}
  <2>1. <<p, n>> \in Paths \X SnapNames
    OBVIOUS
  <2>2. b \cup {<<p, n>>} \in SUBSET (Paths \X SnapNames)
    BY <2>1
  <2>3. QED
    BY <2>2
<1>8. ASSUME NEW i \in 1 .. Len(t) PROVE FrameGood(t[i], b2)
  <2>1. i \in 1 .. Len(s) - 1 /\ i \in 1 .. Len(s) /\ t[i] = s[i]
    BY <1>3, <1>4
  <2>2. PICK f \in Frames : f = s[i] /\ FrameGood(f, b)
                            /\ (f.phase = "clones" => Clones(f.path, f.snap) # {})
    BY <1>4, <2>1, LowerIs
  <2>3. f.phase = "clones" => <<f.path, f.snap>> # <<p, n>>
    BY <1>5, <1>6, <2>2
  <2>4. FrameGood(f, b2)
    BY <1>7, <2>2, <2>3 DEF FrameGood
  <2>5. QED
    BY <2>1, <2>2, <2>4
<1>9. \A i \in 1 .. Len(t) - 1 : Linked(t[i], t[i + 1])
  <2> SUFFICES ASSUME NEW i \in 1 .. Len(t) - 1 PROVE Linked(t[i], t[i + 1])
    OBVIOUS
  <2>1. i \in 1 .. Len(t) /\ i + 1 \in 1 .. Len(t) /\ i \in 1 .. Len(s) - 1
    BY <1>3, <1>4
  <2>2. QED
    BY <1>3, <1>4, <2>1 DEF WalkRight
<1>10. \A x \in b2 : Clones(x[1], x[2]) = {}
  <2> SUFFICES ASSUME NEW x \in b2 PROVE Clones(x[1], x[2]) = {}
    OBVIOUS
  <2>1. CASE x \in b
    BY <1>4, <2>1 DEF WalkRight
  <2>2. CASE x = <<p, n>>
    <3>1. x[1] = p /\ x[2] = n
      BY <2>2
    <3>2. QED
      BY <1>5, <1>6, <3>1
  <2>3. QED
    BY <1>7, <2>1, <2>2
<1>11. WalkRight(t, b2)
  BY <1>8, <1>9, <1>10 DEF WalkRight
<1>12. Go(c, "walk", [zcall[c] EXCEPT !.stack = t, !.batch = b2])
  <2>1. [zcall[c] EXCEPT !.stack = t, !.batch = b2] = [zcall[c] EXCEPT !.batch = b2, !.stack = t]
    BY <1>1, WalkingIs DEF CallRecords
  <2>2. QED
    BY <1>2, <1>3, <1>6, <1>7, <2>1
<1>13. t[1].path = s[1].path
  BY <1>3, EmptySeq
<1>14. QED
  BY <1>1, <1>2, <1>11, <1>12, <1>13, OnwardBy

(* What has no children has nothing below it. *)
LEMMA Childless ==
  ASSUME ZfsInv, NEW p \in Paths, Exists(p), Children(p) = {}
  PROVE  Tree(p) = {p}
<1>1. p \in Tree(p)
  BY DEF Tree
<1>2. SUFFICES ASSUME NEW q \in Paths, Exists(q), Atop(p, q) PROVE FALSE
  BY <1>1 DEF Tree
<1>3. p \in Seq(Components) /\ q \in Seq(Components) /\ Len(p) \in Nat \ {0} /\ Len(q) \in Nat
      /\ Len(p) < Len(q) /\ \A i \in 1 .. Len(p) : q[i] = p[i]
  BY <1>2, PathTyped, AtopIs
<1>4. PICK n \in 1 .. Len(q) : n = Len(p) + 1
  BY <1>3
<1>5. PICK x \in Paths : x = SubSeq(q, 1, n)
  BY ZfsAssumption
<1>6. x \in Seq(Components) /\ Len(x) = n /\ \A i \in 1 .. n : x[i] = q[i]
  BY <1>3, <1>5, BeginningIs
<1>7. Atop(p, x)
  BY <1>3, <1>4, <1>6, AtopIs
<1>8. Under(x, q)
  <2>1. CASE n = Len(q)
    <3>1. x = q
      BY <1>3, <1>6, <2>1, SeqEqual
    <3>2. QED
      BY <3>1 DEF Under
  <2>2. CASE n # Len(q)
    <3>1. Atop(x, q)
      BY <1>3, <1>6, <2>2, AtopIs
    <3>2. QED
      BY <3>1 DEF Under
  <2>3. QED
    BY <2>1, <2>2
<1>9. Exists(x)
  BY <1>2, <1>8, TreeFacts, ThereAbove
<1>10. x \in Children(p)
  BY <1>4, <1>6, <1>7, <1>9 DEF Children, Tree
<1>11. QED
  BY <1>10

LEMMA PopOn ==
  ASSUME ZfsInv, NEW c \in Callers, zpc[c] = "walk", NEW call \in CallRecords, PopZfs(c, call),
         NEW p, p = zcall[c].stack[1].path,
         NEW t \in Seq(Frames), t = Below(c), NEW b \in SUBSET (Paths \X SnapNames), b = call.batch,
         t # <<>> => WalkRight(t, b)', t = <<>> => Destroyed(p)'
  PROVE  Onward(c, p)
<1>1. CASE t = <<>>
  <2>1. ReturnZfs(c, TRUE, call)
    BY <1>1 DEF PopZfs
  <2>2. zpc'[c] = "return" /\ zcall'[c].ok = TRUE
    BY <2>1, ReturnTo
  <2>3. QED
    BY <1>1, <2>2 DEF Onward
<1>2. CASE t # <<>>
  <2>1. Go(c, "walk", [call EXCEPT !.stack = t])
    BY <1>2 DEF PopZfs
  <2>2. zpc'[c] = "walk" /\ zcall'[c] = [call EXCEPT !.stack = t]
    BY <2>1, GoTo
  <2>3. zcall'[c].stack = t /\ zcall'[c].batch = b
    BY <2>2 DEF CallRecords
  <2>4. t[1].path = p
    <3>1. 1 \in 1 .. Len(t)
      BY <1>2, EmptySeq
    <3>2. t[1] = zcall[c].stack[1]
      BY <3>1, WalkingIs
    <3>3. QED
      BY <3>2
  <2>5. QED
    BY <1>2, <2>2, <2>3, <2>4 DEF Onward
<1>3. QED
  BY <1>1, <1>2

(* What a walk has on its stack. *)
LEMMA StackIs ==
  ASSUME ZfsInv, NEW c \in Callers, zpc[c] = "walk", WalkRight(zcall[c].stack, zcall[c].batch)
  PROVE  \E s, t \in Seq(Frames), b \in SUBSET (Paths \X SnapNames), top \in Frames :
           /\ s = zcall[c].stack /\ b = zcall[c].batch /\ top = Top(c) /\ t = Below(c)
           /\ Len(s) \in Nat \ {0} /\ top = s[Len(s)] /\ WalkRight(s, b) /\ FrameGood(top, b)
           /\ Len(t) = Len(s) - 1 /\ (t = <<>> <=> Len(s) = 1)
           /\ \A i \in 1 .. Len(t) : t[i] = s[i] /\ i \in 1 .. Len(s) - 1
<1>1. PICK s \in Seq(Frames), b \in SUBSET (Paths \X SnapNames), top \in Frames :
        s = zcall[c].stack /\ b = zcall[c].batch /\ top = Top(c) /\ top = s[Len(s)]
  BY WalkingIs DEF Top
<1>2. Len(s) \in Nat \ {0} /\ WalkRight(s, b)
  BY <1>1, WalkingIs
<1>3. Len(s) \in 1 .. Len(s)
  BY <1>2
<1>4. FrameGood(top, b)
  BY <1>1, <1>2, <1>3 DEF WalkRight
<1>5. PICK t \in Seq(Frames) : t = Below(c) /\ Len(t) = Len(s) - 1 /\ \A i \in 1 .. Len(t) : t[i] = s[i]
  BY <1>1, WalkingIs
<1>6. t = <<>> <=> Len(s) = 1
  BY <1>2, <1>5, EmptySeq
<1>7. \A i \in 1 .. Len(t) : i \in 1 .. Len(s) - 1
  BY <1>5
<1>8. QED
  BY <1>1, <1>2, <1>4, <1>5, <1>6, <1>7

(* The batched snapshots go; what is below on the stack has others. *)
LEMMA FlushedFrame ==
  ASSUME ZfsInv, NEW f \in Frames, NEW b \in SUBSET (Paths \X SnapNames), FrameGood(f, b),
         tree' = tree,
         \A q \in Paths : snaps'[q] = Without(q, {n \in SnapNames : <<q, n>> \in b})
  PROVE  FrameGood(f, {})'
<1>1. PICK q \in Paths : q = f.path
  BY DEF Frames
<1>2. f.phase = "clones" => f.snap \in SnapNames
  BY DEF Frames
<1>3. snaps[q] = <<>> => snaps'[q] = <<>>
  <2> SUFFICES ASSUME snaps[q] = <<>> PROVE snaps'[q] = <<>>
    OBVIOUS
  <2>1. NamesIn(snaps[q]) = {}
    BY DEF NamesIn
  <2>2. QED
    BY <2>1, WithoutIs, ZenonT(60)
<1>4. SnapsOf(q)' = SnapsOf(q) \ {n \in SnapNames : <<q, n>> \in b}
  BY WithoutIs DEF SnapsOf
<1>5. Children(q)' = Children(q) /\ (Exists(q)' <=> Exists(q))
      /\ Clones(q, f.snap)' = Clones(q, f.snap) /\ \A x \in Paths : Exists(x)' <=> Exists(x)
  BY DEF Children, Tree, Exists, Clones
<1>6. f.phase = "clones" => {x \in f.owed : Exists(x)'} = {x \in f.owed : Exists(x)}
  BY <1>5 DEF Frames
<1>7. FrameGood(f, {})' <=>
        /\ Exists(q)'
        /\ f.phase = "children" => Children(q)' \subseteq f.owed
        /\ f.phase \in {"snaps", "destroy"} => Children(q)' = {}
        /\ f.phase = "snaps" => SnapsOf(q)' \subseteq f.owed
        /\ f.phase = "destroy" => snaps'[q] = <<>> /\ Len(q) > 1
        /\ f.phase = "clones" =>
             /\ f.snap \in SnapsOf(q)' /\ <<q, f.snap>> \notin {}
             /\ Clones(q, f.snap)' = {x \in f.owed : Exists(x)'}
  BY <1>1 DEF FrameGood
<1>8. /\ Exists(q)
      /\ f.phase = "children" => Children(q) \subseteq f.owed
      /\ f.phase \in {"snaps", "destroy"} => Children(q) = {}
      /\ f.phase = "snaps" => SnapsOf(q) \subseteq f.owed
      /\ f.phase = "destroy" => snaps[q] = <<>> /\ Len(q) > 1
      /\ f.phase = "clones" =>
           /\ f.snap \in SnapsOf(q) /\ <<q, f.snap>> \notin b
           /\ Clones(q, f.snap) = {x \in f.owed : Exists(x)}
  BY <1>1 DEF FrameGood
<1>9. QED
  BY <1>2, <1>3, <1>4, <1>5, <1>6, <1>7, <1>8

LEMMA LinkedSame ==
  ASSUME NEW f, NEW next, tree' = tree, Linked(f, next)
  PROVE  Linked(f, next)'
<1>1. Children(f.path)' = Children(f.path) /\ Clones(f.path, f.snap)' = Clones(f.path, f.snap)
  BY DEF Children, Tree, Exists, Clones
<1>2. QED
  BY <1>1 DEF Linked

LEMMA WalkFlushOn ==
  ASSUME ZfsInv, NEW c \in Callers, WalkFlush(c), WalkRight(zcall[c].stack, zcall[c].batch),
         ~zcall[c].refused, ~zcall'[c].refused
  PROVE  Onward(c, zcall[c].stack[1].path)
<1>1. zpc[c] = "walk" /\ Top(c).phase = "snaps" /\ Top(c).owed \cap SnapsOf(Top(c).path) \subseteq Batched(c)
      /\ UNCHANGED <<tree, mnt>>
  BY DEF WalkFlush, Walking
<1>2. PICK s, t \in Seq(Frames), b \in SUBSET (Paths \X SnapNames), top \in Frames :
        /\ s = zcall[c].stack /\ b = zcall[c].batch /\ top = Top(c) /\ t = Below(c)
        /\ Len(s) \in Nat \ {0} /\ top = s[Len(s)] /\ WalkRight(s, b) /\ FrameGood(top, b)
        /\ Len(t) = Len(s) - 1 /\ (t = <<>> <=> Len(s) = 1)
        /\ \A i \in 1 .. Len(t) : t[i] = s[i] /\ i \in 1 .. Len(s) - 1
  BY <1>1, StackIs
<1>3. PICK p \in Paths : p = top.path
  BY DEF Frames
<1>4. \A x \in b : Clones(x[1], x[2]) = {}
  BY <1>2 DEF WalkRight
<1>5. PICK ok \in Answer(TRUE) :
        /\ snaps' = [q \in Paths |-> IF ok THEN Without(q, {n \in SnapNames : <<q, n>> \in b}) ELSE snaps[q]]
        /\ LET call == [Answered(c, TRUE, ok) EXCEPT !.batch = {}]
           IN IF ~ok THEN Failed(c, call)
              ELSE IF Len(p) = 1 THEN PopZfs(c, call)
              ELSE Go(c, "walk", [call EXCEPT !.stack = Phase(c, "destroy", {})])
  <2>1. (\A x \in zcall[c].batch : Clones(x[1], x[2]) = {}) = TRUE
    BY <1>2, <1>4
  <2>2. QED
    BY <1>2, <1>3, <2>1, ZenonT(60) DEF WalkFlush
<1>6. PICK call \in CallRecords :
        /\ call = [Answered(c, TRUE, ok) EXCEPT !.batch = {}] /\ SameCall(zcall[c], call)
        /\ call.batch = {} /\ call.stack = zcall[c].stack /\ call.refused = ~ok
  <2>1. ok \in BOOLEAN
    BY AnswerIs
  <2>2. /\ Answered(c, TRUE, ok) \in CallRecords /\ SameCall(zcall[c], Answered(c, TRUE, ok))
        /\ Answered(c, TRUE, ok).stack = zcall[c].stack
        /\ Answered(c, TRUE, ok).refused = (zcall[c].refused \/ (TRUE /\ ~ok))
    BY <2>1, TreeFacts, AnsweredIs
  <2>3. PICK x \in CallRecords : /\ x = Answered(c, TRUE, ok) /\ SameCall(zcall[c], x)
                                 /\ x.stack = zcall[c].stack /\ x.refused = ~ok
    BY <2>1, <2>2
  <2>4. PICK y : y = [x EXCEPT !.batch = {}]
    OBVIOUS
  <2>5. /\ y \in CallRecords /\ SameCall(zcall[c], y) /\ y.batch = {} /\ y.stack = x.stack
        /\ y.refused = x.refused
    BY <2>3, <2>4 DEF CallRecords, SameCall
  <2>6. y = [Answered(c, TRUE, ok) EXCEPT !.batch = {}]
    BY <2>3, <2>4
  <2>7. y.stack = zcall[c].stack /\ y.refused = ~ok
    BY <2>3, <2>5
  <2>8. QED
    BY <2>5, <2>6, <2>7
<1>7. ok
  <2> SUFFICES ASSUME ~ok PROVE FALSE
    OBVIOUS
  <2>1. Failed(c, call)
    BY <1>5, <1>6
  <2>2. PICK res \in BOOLEAN : res = (Below(c) = <<>>)
    OBVIOUS
  <2>3. ReturnZfs(c, res, call)
    BY <2>1, <2>2 DEF Failed
  <2>4. zcall'[c].refused = call.refused
    BY <2>3, ReturnTo
  <2>5. QED
    BY <1>6, <2>4
<1>8. tree' = tree /\ \A q \in Paths : snaps'[q] = Without(q, {n \in SnapNames : <<q, n>> \in b})
  BY <1>1, <1>5, <1>7
<1>9. Exists(p) /\ Children(p) = {} /\ SnapsOf(p) \subseteq {n \in SnapNames : <<p, n>> \in b}
  BY <1>1, <1>2, <1>3 DEF FrameGood, Batched
<1>10. snaps'[p] = <<>>
  <2>1. PICK names : names = {n \in SnapNames : <<p, n>> \in b}
    OBVIOUS
  <2>2. snaps'[p] = Without(p, names) /\ NamesIn(snaps[p]) \subseteq names
    BY <1>8, <1>9, <2>1 DEF SnapsOf
  <2>3. PICK list \in Seq(Snapshots) : list = snaps'[p] /\ NamesIn(list) = {}
    BY <2>2, WithoutIs
  <2>4. ~(1 \in 1 .. Len(list))
    BY <2>3 DEF NamesIn
  <2>5. QED
    BY <2>3, <2>4, EmptySeq
<1>11. ASSUME NEW i \in 1 .. Len(t)
       PROVE  FrameGood(t[i], {})' /\ (i \in 1 .. Len(t) - 1 => Linked(t[i], t[i + 1])')
  <2>1. i \in 1 .. Len(s) - 1 /\ t[i] = s[i]
    BY <1>2
  <2>2. PICK f \in Frames, next \in Frames : f = s[i] /\ next = s[i + 1] /\ FrameGood(f, b) /\ Linked(f, next)
    BY <1>2, <2>1, LowerIs
  <2>3. FrameGood(f, {})' /\ Linked(f, next)'
    BY <1>8, <2>2, FlushedFrame, LinkedSame
  <2>4. i \in 1 .. Len(t) - 1 => t[i + 1] = next
    BY <1>2, <2>2
  <2>5. FrameGood(t[i], {})'
    BY <2>1, <2>2, <2>3
  <2>6. i \in 1 .. Len(t) - 1 => Linked(t[i], t[i + 1])'
    BY <2>1, <2>2, <2>3, <2>4
  <2>7. QED
    BY <2>5, <2>6
<1>12. CASE Len(p) = 1
  <2>1. PopZfs(c, call)
    BY <1>5, <1>6, <1>7, <1>12
  <2>2. WalkRight(t, {})'
    BY <1>11 DEF WalkRight
  <2>3. t = <<>> => Destroyed(s[1].path)'
    <3> SUFFICES ASSUME t = <<>> PROVE Destroyed(s[1].path)'
      OBVIOUS
    <3>1. s[1].path = p
      BY <1>2, <1>3
    <3>2. Exists(p)' /\ Tree(p)' = Tree(p) /\ Tree(p) = {p}
      BY <1>8, <1>9, Childless DEF Exists, Tree
    <3>3. Destroyed(p)'
      BY <1>10, <1>12, <3>2 DEF Destroyed
    <3>4. QED
      BY <3>1, <3>3
  <2>4. PICK o : o = s[1].path
    OBVIOUS
  <2>5. t = <<>> => Destroyed(o)'
    BY <2>3, <2>4
  <2>6. {} \in SUBSET (Paths \X SnapNames) /\ {} = call.batch /\ o = zcall[c].stack[1].path
    BY <1>2, <1>6, <2>4
  <2>7. Onward(c, o)
    BY <1>1, <1>2, <2>1, <2>2, <2>5, <2>6, PopOn
  <2>8. QED
    BY <2>6, <2>7
<1>13. CASE Len(p) # 1
  <2>1. PICK u : u = Phase(c, "destroy", {})
    OBVIOUS
  <2>2. /\ u \in Seq(Frames) /\ Len(u) = Len(s) /\ u[1].path = s[1].path
        /\ \A i \in 1 .. Len(u) - 1 : u[i] = s[i]
        /\ u[Len(u)].path = p /\ u[Len(u)].phase = "destroy"
        /\ \A i \in 1 .. Len(u) - 1 : Linked(u[i], u[i + 1])
    <3>1. /\ WalkRight(zcall[c].stack, zcall[c].batch) /\ Top(c).phase # "clones"
          /\ {} \in SUBSET (Paths \cup SnapNames) /\ "destroy" \in {"snaps", "destroy"}
      BY <1>1
    <3>2. /\ u \in Seq(Frames) /\ Len(u) = Len(zcall[c].stack) /\ u[1].path = zcall[c].stack[1].path
          /\ \A i \in 1 .. Len(u) - 1 : u[i] = zcall[c].stack[i]
          /\ u[Len(u)].path = Top(c).path /\ u[Len(u)].phase = "destroy"
          /\ \A i \in 1 .. Len(u) - 1 : Linked(u[i], u[i + 1])
      BY <1>1, <2>1, <3>1, PhaseRight
    <3>3. QED
      BY <1>2, <1>3, <3>2
  <2>3. zpc'[c] = "walk" /\ zcall'[c].stack = u /\ zcall'[c].batch = {}
    <3>1. Go(c, "walk", [call EXCEPT !.stack = u])
      BY <1>5, <1>6, <1>7, <1>13, <2>1
    <3>2. zpc'[c] = "walk" /\ zcall'[c] = [call EXCEPT !.stack = u]
      BY <3>1, GoTo
    <3>3. QED
      BY <1>6, <3>2 DEF CallRecords
  <2>4. Exists(p)' /\ Children(p)' = {} /\ Len(p) > 1
    <3>1. (Exists(p)' <=> Exists(p)) /\ Children(p)' = Children(p)
      BY <1>8 DEF Exists, Children, Tree
    <3>2. Len(p) > 1
      <4>1. PICK n \in Nat \ {0} : n = Len(p)
        BY PathTyped
      <4>2. n # 1
        BY <1>13, <4>1
      <4>3. n > 1
        BY <4>2
      <4>4. QED
        BY <4>1, <4>3
    <3>3. QED
      BY <1>9, <3>1, <3>2
  <2>5. ASSUME NEW i \in 1 .. Len(u) PROVE FrameGood(u[i], {})'
    <3>1. CASE i = Len(u)
      <4>1. PICK f : f = u[i]
        OBVIOUS
      <4>2. f.path = p /\ f.phase = "destroy"
        BY <2>2, <3>1, <4>1
      <4>3. FrameGood(f, {})'
        BY <1>10, <2>4, <4>2 DEF FrameGood
      <4>4. QED
        BY <4>1, <4>3
    <3>2. CASE i # Len(u)
      <4>1. i \in 1 .. Len(t) /\ i \in 1 .. Len(u) - 1
        BY <1>2, <2>2, <3>2
      <4>2. t[i] = u[i]
        BY <1>2, <2>2, <4>1
      <4>3. FrameGood(t[i], {})'
        BY <1>11, <4>1
      <4>4. QED
        BY <4>2, <4>3
    <3>3. QED
      BY <3>1, <3>2
  <2>6. ASSUME NEW i \in 1 .. Len(u) - 1 PROVE Linked(u[i], u[i + 1])'
    <3>1. PICK f, next : f = u[i] /\ next = u[i + 1]
      OBVIOUS
    <3>2. Linked(f, next)
      BY <2>2, <3>1
    <3>3. Linked(f, next)'
      BY <1>8, <3>2, LinkedSame
    <3>4. QED
      BY <3>1, <3>3
  <2>7. WalkRight(u, {})'
    BY <2>5, <2>6 DEF WalkRight
  <2>8. PICK o : o = s[1].path
    OBVIOUS
  <2>9. {} \in SUBSET (Paths \X SnapNames) /\ o = zcall[c].stack[1].path /\ u[1].path = o
    BY <1>2, <2>2, <2>8
  <2>10. Onward(c, o)
    BY <2>2, <2>3, <2>7, <2>9 DEF Onward
  <2>11. QED
    BY <2>9, <2>10
<1>14. QED
  BY <1>12, <1>13

(* One dataset less: what it was owed by goes on, and what it was not. *)
LEMMA OneLess ==
  ASSUME ZfsInv, NEW p \in Paths, tree' = [tree EXCEPT ![p] = Absent]
  PROVE  /\ \A q \in Paths : Exists(q)' <=> Exists(q) /\ q # p
         /\ \A q : Children(q)' = Children(q) \ {p}
         /\ \A q, n : Clones(q, n)' = Clones(q, n) \ {p}
<1>1. /\ tree'[p] = Absent /\ \A q \in Paths : q # p => tree'[q] = tree[q]
  BY TreeFacts
<1>2. \A q \in Paths : Exists(q)' <=> Exists(q) /\ q # p
  BY <1>1 DEF Exists
<1>3. ASSUME NEW q PROVE Tree(q)' = Tree(q) \ {p}
  BY <1>2 DEF Tree
<1>4. ASSUME NEW q PROVE Children(q)' = Children(q) \ {p}
  BY <1>3 DEF Children
<1>5. ASSUME NEW q, NEW n PROVE Clones(q, n)' = Clones(q, n) \ {p}
  <2>1. \A x \in Paths : x # p /\ Exists(x) => (tree'[x].origin = <<q, n>> <=> tree[x].origin = <<q, n>>)
    BY <1>1
  <2>2. QED
    BY <1>2, <2>1 DEF Clones
<1>6. QED
  BY <1>2, <1>4, <1>5

LEMMA LessFrame ==
  ASSUME ZfsInv, NEW p \in Paths, tree' = [tree EXCEPT ![p] = Absent], snaps' = snaps,
         NEW f \in Frames, f.path # p, NEW b, FrameGood(f, b)
  PROVE  FrameGood(f, b)'
<1>1. PICK q \in Paths : q = f.path
  BY DEF Frames
<1>2. /\ Exists(q)' <=> Exists(q)
      /\ Children(q)' = Children(q) \ {p} /\ Clones(q, f.snap)' = Clones(q, f.snap) \ {p}
      /\ SnapsOf(q)' = SnapsOf(q)
  BY <1>1, OneLess DEF SnapsOf
<1>3. f.phase = "clones" => {x \in f.owed : Exists(x)'} = {x \in f.owed : Exists(x)} \ {p}
  BY OneLess DEF Frames
<1>4. FrameGood(f, b)' <=>
        /\ Exists(q)'
        /\ f.phase = "children" => Children(q)' \subseteq f.owed
        /\ f.phase \in {"snaps", "destroy"} => Children(q)' = {}
        /\ f.phase = "snaps" => SnapsOf(q)' \subseteq f.owed
        /\ f.phase = "destroy" => snaps'[q] = <<>> /\ Len(q) > 1
        /\ f.phase = "clones" =>
             /\ f.snap \in SnapsOf(q)' /\ <<q, f.snap>> \notin b
             /\ Clones(q, f.snap)' = {x \in f.owed : Exists(x)'}
  BY <1>1 DEF FrameGood
<1>5. /\ Exists(q)
      /\ f.phase = "children" => Children(q) \subseteq f.owed
      /\ f.phase \in {"snaps", "destroy"} => Children(q) = {}
      /\ f.phase = "snaps" => SnapsOf(q) \subseteq f.owed
      /\ f.phase = "destroy" => snaps[q] = <<>> /\ Len(q) > 1
      /\ f.phase = "clones" =>
           /\ f.snap \in SnapsOf(q) /\ <<q, f.snap>> \notin b
           /\ Clones(q, f.snap) = {x \in f.owed : Exists(x)}
  BY <1>1 DEF FrameGood
<1>6. QED
  BY <1>2, <1>3, <1>4, <1>5

LEMMA LessLinked ==
  ASSUME ZfsInv, NEW p \in Paths, tree' = [tree EXCEPT ![p] = Absent],
         NEW f \in Frames, NEW next \in Frames, next.path # p, Linked(f, next)
  PROVE  Linked(f, next)'
<1>1. Children(f.path)' = Children(f.path) \ {p}
      /\ Clones(f.path, f.snap)' = Clones(f.path, f.snap) \ {p}
  BY OneLess
<1>2. QED
  BY <1>1 DEF Linked

LEMMA WalkDestroyOn ==
  ASSUME ZfsInv, NEW c \in Callers, WalkDestroy(c), WalkRight(zcall[c].stack, zcall[c].batch),
         ~zcall[c].refused, ~zcall'[c].refused
  PROVE  Onward(c, zcall[c].stack[1].path)
<1>1. zpc[c] = "walk" /\ Top(c).phase = "destroy" /\ snaps' = snaps
  BY DEF WalkDestroy, Walking
<1>2. PICK s, t \in Seq(Frames), b \in SUBSET (Paths \X SnapNames), top \in Frames :
        /\ s = zcall[c].stack /\ b = zcall[c].batch /\ top = Top(c) /\ t = Below(c)
        /\ Len(s) \in Nat \ {0} /\ top = s[Len(s)] /\ WalkRight(s, b) /\ FrameGood(top, b)
        /\ Len(t) = Len(s) - 1 /\ (t = <<>> <=> Len(s) = 1)
        /\ \A i \in 1 .. Len(t) : t[i] = s[i] /\ i \in 1 .. Len(s) - 1
  BY <1>1, StackIs
<1>3. PICK p \in Paths : p = top.path
  BY DEF Frames
<1>4. Exists(p) /\ Children(p) = {} /\ snaps[p] = <<>> /\ Len(p) > 1
  BY <1>1, <1>2, <1>3 DEF FrameGood
<1>5. SnapsOf(p) = {}
  BY <1>4 DEF SnapsOf, NamesIn
<1>6. PICK ok \in Answer(TRUE) :
        /\ tree' = IF ok THEN [tree EXCEPT ![p] = Absent] ELSE tree
        /\ IF ok THEN PopZfs(c, Answered(c, TRUE, ok)) ELSE Failed(c, Answered(c, TRUE, ok))
  <2>1. CanDestroy(top.path) = TRUE
    BY <1>3, <1>4 DEF CanDestroy
  <2>2. QED
    BY <1>2, <1>3, <2>1 DEF WalkDestroy
<1>7. PICK call \in CallRecords :
        /\ call = Answered(c, TRUE, ok) /\ call.batch = b /\ call.refused = ~ok
  <2>1. ok \in BOOLEAN
    BY AnswerIs
  <2>2. /\ Answered(c, TRUE, ok) \in CallRecords /\ Answered(c, TRUE, ok).batch = zcall[c].batch
        /\ Answered(c, TRUE, ok).refused = (zcall[c].refused \/ (TRUE /\ ~ok))
    BY <2>1, TreeFacts, AnsweredIs
  <2>3. QED
    BY <1>2, <2>1, <2>2
<1>8. ok
  <2> SUFFICES ASSUME ~ok PROVE FALSE
    OBVIOUS
  <2>1. Failed(c, call)
    BY <1>6, <1>7
  <2>2. PICK res \in BOOLEAN : res = (Below(c) = <<>>)
    OBVIOUS
  <2>3. ReturnZfs(c, res, call)
    BY <2>1, <2>2 DEF Failed
  <2>4. zcall'[c].refused = call.refused
    BY <2>3, ReturnTo
  <2>5. QED
    BY <1>7, <2>4
<1>9. tree' = [tree EXCEPT ![p] = Absent] /\ PopZfs(c, call)
  BY <1>6, <1>7, <1>8
<1>10. ASSUME NEW i \in 1 .. Len(t)
       PROVE  FrameGood(t[i], b)' /\ (i \in 1 .. Len(t) - 1 => Linked(t[i], t[i + 1])')
  <2>1. i \in 1 .. Len(s) - 1 /\ t[i] = s[i]
    BY <1>2
  <2>2. PICK f \in Frames, next \in Frames :
          /\ f = s[i] /\ next = s[i + 1] /\ FrameGood(f, b) /\ Linked(f, next)
          /\ Children(f.path) # {} \/ SnapsOf(f.path) # {}
    BY <1>2, <2>1, LowerIs, ZenonT(60)
  <2>3. f.path # p
    BY <1>4, <1>5, <2>2
  <2>4. FrameGood(f, b)'
    BY <1>1, <1>9, <2>2, <2>3, LessFrame
  <2>5. FrameGood(t[i], b)'
    BY <2>1, <2>2, <2>4
  <2>6. ASSUME i \in 1 .. Len(t) - 1 PROVE Linked(t[i], t[i + 1])'
    <3>1. i + 1 \in 1 .. Len(t) /\ i + 1 \in 1 .. Len(s) - 1
      BY <1>2, <2>6
    <3>2. t[i + 1] = next
      BY <1>2, <2>2, <3>1
    <3>3. Children(next.path) # {} \/ SnapsOf(next.path) # {}
      BY <1>2, <2>2, <3>1, LowerIs
    <3>4. next.path # p
      BY <1>4, <1>5, <3>3
    <3>5. Linked(f, next)'
      BY <1>9, <2>2, <3>4, LessLinked
    <3>6. QED
      BY <2>1, <2>2, <3>2, <3>5
  <2>7. QED
    BY <2>5, <2>6
<1>11. ASSUME NEW x \in b PROVE (Clones(x[1], x[2]) = {})'
  <2>1. PICK q, n : q = x[1] /\ n = x[2]
    OBVIOUS
  <2>2. Clones(q, n) = {}
    BY <1>2, <2>1 DEF WalkRight
  <2>3. Clones(q, n)' = {}
    <3>1. Clones(q, n)' = Clones(q, n) \ {p}
      BY <1>9, OneLess
    <3>2. QED
      BY <2>2, <3>1
  <2>4. QED
    BY <2>1, <2>3
<1>12. WalkRight(t, b)'
  <2>1. \A i \in 1 .. Len(t) : FrameGood(t[i], b)'
    BY <1>10
  <2>2. \A i \in 1 .. Len(t) - 1 : Linked(t[i], t[i + 1])'
    BY <1>10
  <2>3. \A x \in b : (Clones(x[1], x[2]) = {})'
    BY <1>11
  <2>4. QED
    BY <2>1, <2>2, <2>3 DEF WalkRight
<1>13. PICK o : o = zcall[c].stack[1].path
  OBVIOUS
<1>14. t = <<>> => Destroyed(o)'
  <2> SUFFICES ASSUME t = <<>> PROVE Destroyed(o)'
    OBVIOUS
  <2>1. o = p
    BY <1>2, <1>3, <1>13
  <2>2. ~Exists(p)'
    BY <1>9, OneLess
  <2>3. Destroyed(p)'
    BY <1>4, <2>2 DEF Destroyed
  <2>4. QED
    BY <2>1, <2>3
<1>15. Onward(c, o)
  BY <1>1, <1>2, <1>7, <1>9, <1>12, <1>13, <1>14, PopOn
<1>16. QED
  BY <1>13, <1>15

LEMMA DestroyServes ==
  ASSUME ZfsInv, NEW c \in Callers, Serve(c), Req(c).op = "destroy"
  PROVE  \/ zpc[c] = "destroy" /\ DestroyOpen(c)
         \/ /\ zpc[c] = "walk"
            /\ \/ WalkChild(c) \/ WalkSnap(c) \/ WalkClone(c) \/ WalkToSnaps(c) \/ WalkRound(c)
               \/ WalkBatch(c) \/ WalkFlush(c) \/ WalkDestroy(c)
<1>1. At(zpc[c], Req(c).op)
  BY ServeBusy, TreeFacts, Engaged
<1>2. zpc[c] \in {"destroy", "walk"}
  BY <1>1, ServeBusy DEF At
<1>3. QED
  BY <1>2, PlaceOf DEF Serve

(* Of a walk on from here it is said what was refused. *)
LEMMA AfterRefused ==
  ASSUME ZfsInv, NEW c \in Callers, zpc[c] = "walk", NEW call \in CallRecords,
         \/ Failed(c, call) \/ PopZfs(c, call)
         \/ \E stack, batch : \/ Go(c, "walk", [call EXCEPT !.stack = stack])
                              \/ Go(c, "walk", [call EXCEPT !.batch = batch, !.stack = stack])
  PROVE  zcall'[c].refused = call.refused
<1>1. CASE Failed(c, call)
  <2>1. PICK ok \in BOOLEAN : ok = (Below(c) = <<>>)
    OBVIOUS
  <2>2. ReturnZfs(c, ok, call)
    BY <1>1, <2>1 DEF Failed
  <2>3. QED
    BY <2>2, ReturnTo
<1>2. ASSUME NEW stack, NEW batch,
             \/ Go(c, "walk", [call EXCEPT !.stack = stack])
             \/ Go(c, "walk", [call EXCEPT !.batch = batch, !.stack = stack])
      PROVE  zcall'[c].refused = call.refused
  <2>1. \/ zcall'[c] = [call EXCEPT !.stack = stack]
        \/ zcall'[c] = [call EXCEPT !.batch = batch, !.stack = stack]
    BY <1>2, GoTo
  <2>2. QED
    BY <2>1 DEF CallRecords
<1>3. CASE PopZfs(c, call)
  <2>1. CASE Below(c) = <<>>
    <3>1. ReturnZfs(c, TRUE, call)
      BY <1>3, <2>1 DEF PopZfs
    <3>2. QED
      BY <3>1, ReturnTo
  <2>2. CASE Below(c) # <<>>
    BY <1>2, <1>3, <2>2 DEF PopZfs
  <2>3. QED
    BY <2>1, <2>2
<1>4. QED
  BY <1>1, <1>2, <1>3

LEMMA WalkRoundTold ==
  ASSUME ZfsInv, NEW c \in Callers, WalkRound(c)
  PROVE  zcall'[c].refused
<1> DEFINE call == [zcall[c] EXCEPT !.refused = TRUE]
<1>1. ReturnZfs(c, FALSE, call)
  BY DEF WalkRound
<1>2. call \in CallRecords /\ call.refused
  BY DEF ZfsInv, CallsInv, CallRecords
<1> HIDE DEF call
<1>3. QED
  BY <1>1, <1>2, ReturnTo

LEMMA RefusedStays ==
  ASSUME ZfsInv, NEW c \in Callers, Serve(c), Req(c).op = "destroy", zcall[c].refused
  PROVE  zcall'[c].refused
<1>1. zcall[c] \in CallRecords
  BY TreeFacts DEF CallsInv
<1>2. CASE zpc[c] = "destroy" /\ DestroyOpen(c)
  <2>1. CASE ReturnZfs(c, FALSE, zcall[c])
    BY <1>1, <2>1, ReturnTo
  <2>2. CASE Walk(c, <<DsFrame(Req(c).path)>>)
    <3>1. zcall'[c] = [zcall[c] EXCEPT !.stack = <<DsFrame(Req(c).path)>>]
      BY <2>2, GoTo DEF Walk
    <3>2. QED
      BY <1>1, <3>1 DEF CallRecords
  <2>3. QED
    BY <1>2, <2>1, <2>2 DEF DestroyOpen
<1>3. CASE zpc[c] = "walk" /\ (WalkChild(c) \/ WalkSnap(c) \/ WalkClone(c) \/ WalkToSnaps(c))
  <2>1. \E stack : Go(c, "walk", [zcall[c] EXCEPT !.stack = stack])
    BY <1>3 DEF WalkChild, WalkSnap, WalkClone, WalkToSnaps, Walk
  <2>2. QED
    BY <1>1, <1>3, <2>1, AfterRefused
<1>4. CASE zpc[c] = "walk" /\ WalkBatch(c)
  <2>1. \E stack, batch : Go(c, "walk", [zcall[c] EXCEPT !.batch = batch, !.stack = stack])
    BY <1>4 DEF WalkBatch
  <2>2. QED
    BY <1>1, <1>4, <2>1, AfterRefused
<1>5. ASSUME NEW can \in BOOLEAN, NEW ok \in BOOLEAN
      PROVE  /\ Answered(c, can, ok) \in CallRecords /\ Answered(c, can, ok).refused
             /\ [Answered(c, can, ok) EXCEPT !.batch = {}] \in CallRecords
             /\ [Answered(c, can, ok) EXCEPT !.batch = {}].refused
  <2>1. PICK call \in CallRecords : call = Answered(c, can, ok) /\ call.refused
    BY TreeFacts, AnsweredIs
  <2>2. [call EXCEPT !.batch = {}] \in CallRecords /\ [call EXCEPT !.batch = {}].refused = call.refused
    BY DEF CallRecords
  <2>3. QED
    BY <2>1, <2>2
<1>6. CASE zpc[c] = "walk" /\ WalkFlush(c)
  <2>1. PICK can \in BOOLEAN : can = \A x \in zcall[c].batch : Clones(x[1], x[2]) = {}
    OBVIOUS
  <2>2. PICK ok \in Answer(can) :
          LET call == [Answered(c, can, ok) EXCEPT !.batch = {}]
          IN IF ~ok THEN Failed(c, call)
             ELSE IF Len(Top(c).path) = 1 THEN PopZfs(c, call)
             ELSE Go(c, "walk", [call EXCEPT !.stack = Phase(c, "destroy", {})])
    BY <1>6, <2>1 DEF WalkFlush
  <2>3. ok \in BOOLEAN
    BY AnswerIs
  <2>4. PICK call \in CallRecords : call = [Answered(c, can, ok) EXCEPT !.batch = {}] /\ call.refused
    BY <1>5, <2>3
  <2>5. \/ Failed(c, call) \/ PopZfs(c, call)
        \/ \E stack : Go(c, "walk", [call EXCEPT !.stack = stack])
    BY <2>2, <2>4
  <2>6. QED
    BY <1>6, <2>4, <2>5, AfterRefused
<1>7. CASE zpc[c] = "walk" /\ WalkDestroy(c)
  <2>1. PICK can \in BOOLEAN : can = CanDestroy(Top(c).path)
    BY DEF CanDestroy
  <2>2. PICK ok \in Answer(can) :
          IF ok THEN PopZfs(c, Answered(c, can, ok)) ELSE Failed(c, Answered(c, can, ok))
    BY <1>7, <2>1 DEF WalkDestroy
  <2>3. ok \in BOOLEAN
    BY AnswerIs
  <2>4. QED
    BY <1>5, <1>7, <2>2, <2>3, AfterRefused
<1>8. CASE zpc[c] = "walk" /\ WalkRound(c)
  BY <1>8, WalkRoundTold
<1>9. QED
  BY <1>2, <1>3, <1>4, <1>6, <1>7, <1>8, DestroyServes

LEMMA DestroyOpenOn ==
  ASSUME ZfsInv, NEW c \in Callers, DestroyOpen(c), NEW p \in Paths, p = Req(c).path,
         zpc[c] = "destroy"
  PROVE  \/ ~(Exists(p) /\ (Req(c).flag \/ Len(p) > 1)) /\ zpc'[c] = "return" /\ ~zcall'[c].ok
         \/ (Exists(p) /\ (Req(c).flag \/ Len(p) > 1)) /\ Onward(c, p)
<1>1. CASE ~(Exists(p) /\ (Req(c).flag \/ Len(p) > 1))
  <2>1. ReturnZfs(c, FALSE, zcall[c])
    BY <1>1 DEF DestroyOpen
  <2>2. QED
    BY <1>1, <2>1, SelfTo
<1>2. CASE Exists(p) /\ (Req(c).flag \/ Len(p) > 1)
  <2>1. PICK f \in Frames : f = DsFrame(p) /\ f.path = p /\ f.phase = "children" /\ f.owed = Children(p)
    <3>1. Children(p) \subseteq Paths
      BY DEF Children, Tree
    <3>2. DsFrame(p) \in Frames /\ DsFrame(p).path = p /\ DsFrame(p).phase = "children"
          /\ DsFrame(p).owed = Children(p)
      BY <3>1 DEF DsFrame, Frames
    <3>3. QED
      BY <3>2
  <2>2. Go(c, "walk", [zcall[c] EXCEPT !.stack = <<f>>]) /\ UNCHANGED Data
    BY <1>2, <2>1 DEF DestroyOpen, Walk
  <2>3. zcall[c] \in CallRecords /\ zcall[c].batch = {}
    BY TreeFacts DEF CallsInv, CallFits, PathOps
  <2>4. PICK s \in Seq(Frames) : s = <<f>> /\ Len(s) = 1 /\ s[1] = f
    <3>1. <<f>> \in Seq(Frames) /\ Len(<<f>>) = 1 /\ <<f>>[1] = f
      OBVIOUS
    <3>2. QED
      BY <3>1
  <2>5. zpc'[c] = "walk" /\ zcall'[c] = [zcall[c] EXCEPT !.stack = s]
    BY <2>2, <2>4, GoTo
  <2>6. zcall'[c].stack = s /\ zcall'[c].batch = {}
    BY <2>3, <2>5 DEF CallRecords
  <2>7. FrameGood(f, {})
    BY <1>2, <2>1 DEF FrameGood
  <2>8. WalkRight(s, {})
    BY <2>4, <2>7 DEF WalkRight
  <2>9. {} \in SUBSET (Paths \X SnapNames)
    OBVIOUS
  <2>10. WalkRight(s, {})'
    BY <2>2, <2>8, <2>9, StaysRight
  <2>11. s[1].path = p
    BY <2>1, <2>4
  <2>12. QED
    BY <1>2, <2>5, <2>6, <2>9, <2>10, <2>11 DEF Onward
<1>3. QED
  BY <1>1, <1>2

LEMMA DestroyedStep ==
  ASSUME ZfsInv, NEW c \in Callers, Serve(c), DestroyedSoFar(c)
  PROVE  DestroyedSoFar(c)'
<1>1. Req(c)' = Req(c) /\ Before(c)' = Before(c)
  BY ServeStep DEF GoodStep, Steady, Req, Before
<1>2. ToDestroy(c)' <=> ToDestroy(c)
  BY <1>1 DEF ToDestroy
<1>3. SUFFICES ASSUME Req(c).op = "destroy", ~zcall'[c].refused PROVE DestroyedSoFar(c)'
  BY <1>1 DEF DestroyedSoFar
<1>4. ~zcall[c].refused
  BY <1>3, RefusedStays
<1>5. PICK p \in Paths :
        /\ p = Req(c).path
        /\ zpc[c] = "destroy" => (Exists(p) <=> Before(c).tree[p] # Absent)
        /\ zpc[c] = "walk" =>
             /\ ToDestroy(c)
             /\ \E s \in Seq(Frames), b \in SUBSET (Paths \X SnapNames) :
                  s = zcall[c].stack /\ b = zcall[c].batch /\ s[1].path = p /\ WalkRight(s, b)
  BY <1>3, <1>4 DEF DestroyedSoFar
<1>6. p = Req(c)'.path
  BY <1>1, <1>5
<1>7. \/ ToDestroy(c) /\ Onward(c, p)
      \/ ~ToDestroy(c) /\ zpc'[c] = "return" /\ ~zcall'[c].ok
  <2>1. CASE zpc[c] = "destroy" /\ DestroyOpen(c)
    <3>1. ToDestroy(c) <=> Exists(p) /\ (Req(c).flag \/ Len(p) > 1)
      BY <1>5, <2>1 DEF ToDestroy
    <3>2. \/ ~(Exists(p) /\ (Req(c).flag \/ Len(p) > 1)) /\ zpc'[c] = "return" /\ ~zcall'[c].ok
          \/ (Exists(p) /\ (Req(c).flag \/ Len(p) > 1)) /\ Onward(c, p)
      BY <1>5, <2>1, DestroyOpenOn
    <3>3. QED
      BY <2>1, <3>1, <3>2
  <2>2. CASE /\ zpc[c] = "walk"
             /\ \/ WalkChild(c) \/ WalkSnap(c) \/ WalkClone(c) \/ WalkToSnaps(c) \/ WalkRound(c)
                \/ WalkBatch(c) \/ WalkFlush(c) \/ WalkDestroy(c)
    <3>1. WalkRight(zcall[c].stack, zcall[c].batch) /\ p = zcall[c].stack[1].path
      BY <1>5, <2>2
    <3>2. Onward(c, zcall[c].stack[1].path)
      BY <1>3, <1>4, <2>2, <3>1, WalkDownOn, WalkToSnapsOn, WalkBatchOn, WalkFlushOn, WalkDestroyOn,
         WalkRoundTold
    <3>3. Onward(c, p)
      BY <3>1, <3>2
    <3>4. QED
      BY <1>5, <2>2, <3>3
  <2>3. QED
    BY <1>3, <2>1, <2>2, DestroyServes
<1>8. CASE ~ToDestroy(c) /\ zpc'[c] = "return" /\ ~zcall'[c].ok
  BY <1>2, <1>6, <1>8 DEF DestroyedSoFar
<1>9. CASE ToDestroy(c) /\ Onward(c, p)
  <2>1. CASE zpc'[c] = "return" /\ zcall'[c].ok /\ Destroyed(p)'
    BY <1>2, <1>6, <1>9, <2>1 DEF DestroyedSoFar
  <2>2. CASE /\ zpc'[c] = "walk"
             /\ \E s \in Seq(Frames), b \in SUBSET (Paths \X SnapNames) :
                  s = zcall'[c].stack /\ b = zcall'[c].batch /\ s[1].path = p /\ WalkRight(s, b)'
    BY <1>2, <1>6, <1>9, <2>2 DEF DestroyedSoFar
  <2>3. QED
    BY <1>9, <2>1, <2>2 DEF Onward
<1>10. QED
  BY <1>7, <1>8, <1>9

LEMMA DestroyedKept ==
  ASSUME ZfsInv, NEW c \in Callers, Stays(c), zpc[c] # "idle",
         \/ UNCHANGED Data
         \/ Req(c).op = "destroy" => ~AnyClone(tree) /\ ~AnyClone(tree') /\ ~AnyClone(Before(c).tree),
         \A q \in Paths : Mine(c, q) => Spared(q), DestroyedSoFar(c)
  PROVE  DestroyedSoFar(c)'
<1>1. Req(c)' = Req(c) /\ Before(c)' = Before(c)
  BY DEF Stays, Req, Before
<1>2. ToDestroy(c)' <=> ToDestroy(c)
  BY <1>1 DEF ToDestroy
<1>3. SUFFICES ASSUME Req(c).op = "destroy", ~zcall[c].refused PROVE DestroyedSoFar(c)'
  BY <1>1 DEF DestroyedSoFar, Stays
<1>4. PICK p \in Paths :
        /\ p = Req(c).path
        /\ zpc[c] = "destroy" => (Exists(p) <=> Before(c).tree[p] # Absent)
        /\ zpc[c] = "walk" =>
             /\ ToDestroy(c)
             /\ \E s \in Seq(Frames), b \in SUBSET (Paths \X SnapNames) :
                  s = zcall[c].stack /\ b = zcall[c].batch /\ s[1].path = p /\ WalkRight(s, b)
        /\ zpc[c] = "return" => (zcall[c].ok <=> ToDestroy(c)) /\ (ToDestroy(c) => Destroyed(p))
  BY <1>3 DEF DestroyedSoFar
<1>5. p = Req(c)'.path /\ \A q \in Paths : Under(p, q) => tree'[q] = tree[q] /\ snaps'[q] = snaps[q]
  BY <1>1, <1>4 DEF Mine, Spared
<1>6. (Exists(p)' <=> Exists(p)) /\ Tree(p)' = Tree(p) /\ snaps'[p] = snaps[p]
  BY <1>5, AskedSame DEF Under
<1>7. Destroyed(p)' <=> Destroyed(p)
  BY <1>6 DEF Destroyed
<1>8. CASE zpc[c] = "walk"
  <2>1. PICK s \in Seq(Frames), b \in SUBSET (Paths \X SnapNames) :
          s = zcall[c].stack /\ b = zcall[c].batch /\ s[1].path = p /\ WalkRight(s, b)
    BY <1>4, <1>8
  <2>2. WalkRight(s, b)'
    <3>1. CASE UNCHANGED Data
      BY <2>1, <3>1, StaysRight
    <3>2. CASE ~AnyClone(tree) /\ ~AnyClone(tree') /\ ~AnyClone(Before(c).tree)
      <4>1. \A i \in 1 .. Len(s) : s[i] \in Frames /\ FrameFits(Req(c), s[i])
        BY <1>8, <2>1, <3>2, WalkingIs, ElementOfSeq
      <4>2. \A i \in 1 .. Len(s) : s[i].path \in Paths /\ Under(p, s[i].path)
                                   /\ (s[i].phase = "clones" => s[i].owed = {})
        BY <1>4, <4>1 DEF FrameFits, Frames
      <4>3. \A i \in 1 .. Len(s) : \A q \in Paths :
              Under(s[i].path, q) => tree'[q] = tree[q] /\ snaps'[q] = snaps[q]
        BY <1>5, <4>2, UnderTransitive
      <4>4. QED
        BY <2>1, <3>2, <4>2, <4>3, RightSame
    <3>3. QED
      BY <1>3, <3>1, <3>2
  <2>3. s = zcall'[c].stack /\ b = zcall'[c].batch /\ s[1].path = p /\ zpc'[c] = "walk"
    BY <1>8, <2>1 DEF Stays
  <2>4. QED
    BY <1>2, <1>4, <1>5, <1>8, <2>2, <2>3 DEF DestroyedSoFar
<1>9. CASE zpc[c] # "walk"
  BY <1>1, <1>2, <1>4, <1>5, <1>6, <1>7, <1>9 DEF DestroyedSoFar, Stays
<1>10. QED
  BY <1>8, <1>9

-----------------------------------------------------------------------------
(* What a call that is apart has done                                      *)

SoFar(c) ==
  /\ WholeSoFar(c) /\ CreatedSoFar(c) /\ DroppedSoFar(c) /\ MergedSoFar(c)
  /\ MountedSoFar(c) /\ UnmountedSoFar(c) /\ DestroyedSoFar(c)
ToldInv == \A c \in Callers : zpc[c] # "idle" /\ zcall[c].apart => SoFar(c)

LEMMA SoFarStep ==
  ASSUME ZfsInv, NEW c \in Callers, Serve(c), SoFar(c)
  PROVE  SoFar(c)'
<1>1. WholeSoFar(c)' /\ CreatedSoFar(c)' /\ DroppedSoFar(c)'
  BY WholeSteps, CreatedStep, DroppedStep DEF SoFar
<1>2. MergedSoFar(c)' /\ MountedSoFar(c)' /\ UnmountedSoFar(c)' /\ DestroyedSoFar(c)'
  BY MergedStep, MountedStep, UnmountedStep, DestroyedStep DEF SoFar
<1>3. QED
  BY <1>1, <1>2 DEF SoFar

(* The step of another one. *)
LEMMA SoFarKept ==
  ASSUME ZfsInv, ApartInv, NEW c \in Callers, NEW d \in Callers, d # c, Serve(d),
         zpc[c] # "idle", zcall[c].apart, SoFar(c)
  PROVE  SoFar(c)'
<1>1. GoodStep(d) /\ zpc[d] # "idle"
  BY ServeStep, ServeBusy
<1>2. zpc'[c] = zpc[c] /\ zcall'[c] = zcall[c]
  BY <1>1 DEF GoodStep, Steady
<1>3. Stays(c)
  BY <1>2 DEF Stays
<1>4. /\ \A q \in Paths : Mine(c, q) => Spared(q)
      /\ ~Everywhere(Req(c)) /\ ~(Req(c).op \in Reaching /\ AnyClone(Before(c).tree))
  BY <1>1, Undisturbed
<1>5. WholeSoFar(c)' /\ CreatedSoFar(c)' /\ DroppedSoFar(c)' /\ MergedSoFar(c)'
  BY <1>3, <1>4, WholeKept, SnapsKept, MergedKept DEF SoFar
<1>6. Req(c)'.op \notin {"mountAll", "unmountAll"}
  BY <1>2, <1>4 DEF Req, Everywhere
<1>7. MountedSoFar(c)' /\ UnmountedSoFar(c)'
  BY <1>6 DEF MountedSoFar, UnmountedSoFar
<1>8. Req(c).op = "destroy" => ~AnyClone(tree) /\ ~AnyClone(tree') /\ ~AnyClone(Before(c).tree)
  BY <1>1, <1>4 DEF GoodStep, ZfsInv, ClonesKnown, Before, Reaching
<1>9. DestroyedSoFar(c)'
  BY <1>3, <1>4, <1>8, DestroyedKept DEF SoFar
<1>10. QED
  BY <1>5, <1>7, <1>9 DEF SoFar

(* A step that is about calls alone. *)
LEMMA SoFarStays ==
  ASSUME ZfsInv, NEW c \in Callers, Stays(c), UNCHANGED Data, zpc[c] # "idle", SoFar(c)
  PROVE  SoFar(c)'
<1>1. \A q \in Paths : Mine(c, q) => Spared(q)
  BY DEF Data, Spared
<1>2. WholeSoFar(c)' /\ CreatedSoFar(c)' /\ DroppedSoFar(c)' /\ MergedSoFar(c)' /\ DestroyedSoFar(c)'
  BY <1>1, WholeKept, SnapsKept, MergedKept, DestroyedKept DEF SoFar
<1>3. /\ Req(c)' = Req(c) /\ Before(c)' = Before(c) /\ zpc'[c] = zpc[c] /\ zcall'[c].ok = zcall[c].ok
      /\ zcall'[c].todo = zcall[c].todo /\ zcall'[c].refused = zcall[c].refused
      /\ tree' = tree /\ mnt' = mnt
  BY DEF Stays, Req, Before, Data
<1>4. Wanted' = Wanted /\ KeptOf(c)' = KeptOf(c) /\ HeldOf(c)' = HeldOf(c)
      /\ \A p \in Paths : Skipped(p)' <=> Skipped(p)
  BY <1>3 DEF Wanted, KeptOf, HeldOf, Skipped, Exists, Atop
<1>5. MountedSoFar(c)'
  BY <1>3, <1>4 DEF SoFar, MountedSoFar
<1>6. UnmountedSoFar(c)'
  BY <1>3 DEF SoFar, UnmountedSoFar, KeptOf, HeldOf, Skipped, Atop
<1>7. QED
  BY <1>2, <1>5, <1>6 DEF SoFar

(* A call begins with nothing done. *)
LEMMA SoFarBegins ==
  ASSUME ZfsInv, NEW c \in Callers, MakeCall(c)
  PROVE  SoFar(c)'
<1>1. UNCHANGED Data
  BY DEF MakeCall
<1>2. PICK r \in Requests :
        /\ zpc'[c] = r.op /\ zcall'[c].req = r /\ zcall'[c].before = State
        /\ zcall'[c].ok = TRUE /\ zcall'[c].refused = FALSE
  BY TreeFacts, ZenonT(60) DEF MakeCall, CallsInv, NoZfsCall
<1>3. /\ Sensible(r) /\ Req(c)' = r /\ Before(c)' = State
      /\ r.op \in PathOps \cup {"mountAll", "unmountAll"}
  BY <1>2, ZfsAssumption DEF Req, Before, Sensible
<1>4. tree' = tree /\ snaps' = snaps /\ mnt' = mnt
      /\ State.tree = tree /\ State.snaps = snaps /\ State.mnt = mnt
  BY <1>1 DEF Data, State
<1>5. WholeSoFar(c)'
  BY <1>3, <1>4 DEF WholeSoFar, AsBefore
<1>6. CreatedSoFar(c)' /\ DroppedSoFar(c)'
  BY <1>2, <1>3 DEF CreatedSoFar, DroppedSoFar
<1>7. MergedSoFar(c)'
  BY <1>2, <1>3, <1>4 DEF MergedSoFar, OwnOf, OldOf
<1>8. MountedSoFar(c)' /\ UnmountedSoFar(c)'
  BY <1>2, <1>3, <1>4 DEF MountedSoFar, UnmountedSoFar
<1>9. DestroyedSoFar(c)'
  <2> SUFFICES ASSUME r.op = "destroy" PROVE DestroyedSoFar(c)'
    BY <1>3 DEF DestroyedSoFar
  <2>1. PICK p \in Paths : p = r.path
    BY <1>3 DEF Sensible, PathOps
  <2>2. Exists(p)' <=> State.tree[p] # Absent
    BY <1>4 DEF Exists
  <2>3. QED
    BY <1>2, <1>3, <2>1, <2>2 DEF DestroyedSoFar
<1>10. QED
  BY <1>5, <1>6, <1>7, <1>8, <1>9 DEF SoFar

LEMMA ToldStep ==
  ASSUME ZfsInv, ApartInv, ToldInv, [ZfsNext]_zfsVars
  PROVE  ToldInv'
<1>1. SUFFICES ASSUME NEW c \in Callers, zpc'[c] # "idle", zcall'[c].apart PROVE SoFar(c)'
  BY DEF ToldInv
<1>2. zcall[c] \in CallRecords
  BY TreeFacts DEF CallsInv
<1>3. CASE UNCHANGED zfsVars
  <2>1. Stays(c) /\ UNCHANGED Data /\ zpc[c] # "idle" /\ zcall[c].apart
    BY <1>1, <1>3 DEF zfsVars, Stays, Data
  <2>2. QED
    BY <1>1, <2>1, SoFarStays DEF ToldInv
<1>4. ASSUME NEW d \in Callers, Serve(d) PROVE SoFar(c)'
  <2>1. GoodStep(d) /\ zpc[d] # "idle"
    BY <1>4, ServeStep, ServeBusy
  <2>2. zpc[c] # "idle" /\ zcall[c].apart
    BY <1>1, <2>1 DEF GoodStep, Steady
  <2>3. SoFar(c)
    BY <2>2 DEF ToldInv
  <2>4. CASE d = c
    BY <1>4, <2>3, <2>4, SoFarStep
  <2>5. CASE d # c
    BY <1>4, <2>2, <2>3, <2>5, SoFarKept
  <2>6. QED
    BY <2>4, <2>5
<1>5. ASSUME NEW d \in Callers, MakeCall(d) PROVE SoFar(c)'
  <2>1. CASE d = c
    BY <1>5, <2>1, SoFarBegins
  <2>2. CASE d # c
    <3>1. \E still : /\ zcall'[c] = [zcall[c] EXCEPT !.apart = zcall[c].apart /\ still]
                     /\ zpc'[c] = zpc[c]
      BY <1>5, <2>2, TreeFacts DEF MakeCall, CallsInv
    <3>2. Stays(c) /\ zcall[c].apart
      BY <1>1, <1>2, <3>1 DEF Stays, CallRecords
    <3>3. UNCHANGED Data
      BY <1>5 DEF MakeCall
    <3>4. zpc[c] # "idle"
      BY <1>1, <3>1
    <3>5. QED
      BY <1>1, <3>2, <3>3, <3>4, SoFarStays DEF ToldInv
  <2>3. QED
    BY <2>1, <2>2
<1>6. ASSUME NEW d \in Callers, Leave(d) PROVE SoFar(c)'
  <2>1. c # d /\ zpc'[c] = zpc[c] /\ zcall'[c] = zcall[c]
    BY <1>1, <1>6, LeaveStep
  <2>2. Stays(c) /\ UNCHANGED Data
    BY <1>6, <2>1 DEF Stays, Leave
  <2>3. QED
    BY <1>1, <2>1, <2>2, SoFarStays DEF ToldInv
<1>7. ASSUME NEW d \in Callers, DieZfs(d) PROVE SoFar(c)'
  BY <1>1, <1>7, DieStep
<1>8. QED
  BY <1>3, <1>4, <1>5, <1>6, <1>7 DEF ZfsNext

LEMMA Told == ZfsSpec => [](ZfsInv /\ ApartInv /\ ToldInv)
<1>1. ZfsInit => ZfsInv /\ ApartInv /\ ToldInv
  <2> SUFFICES ASSUME ZfsInit PROVE ZfsInv /\ ApartInv /\ ToldInv
    OBVIOUS
  <2>1. \A c \in Callers : zpc[c] = "idle"
    BY DEF ZfsInit
  <2>2. QED
    BY <2>1, StartStep DEF ApartInv, ToldInv
<1>2. ZfsInv /\ ApartInv /\ ToldInv /\ [ZfsNext]_zfsVars => (ZfsInv /\ ApartInv /\ ToldInv)'
  <2> SUFFICES ASSUME ZfsInv, ApartInv, ToldInv, [ZfsNext]_zfsVars PROVE ZfsInv' /\ ApartInv' /\ ToldInv'
    OBVIOUS
  <2>1. QED
    BY ZfsStep, ApartStep, ToldStep
<1>3. QED
  BY <1>1, <1>2, PTL DEF ZfsSpec

LEMMA ReturnedIs ==
  ASSUME ToldInv, NEW c \in Callers, NEW op, Returned(c, op)
  PROVE  zpc[c] = "return" /\ Req(c).op = op /\ SoFar(c)
BY DEF Returned, ToldInv

(* A function that makes up its mind in one request, or gathers names first  *)
(* and then makes one, leaves its dataset as it was when it returns false    *)
(* (zfs_ds_update, zfs_snap_create, zfs_snap_destroy, zfs_snap_update,       *)
(* zfs_snap_rename, zfs_mount, zfs_unmount), whoever works elsewhere.        *)
THEOREM FalseLeavesAll == ZfsSpec => []FalseChangesNothing
<1>1. ToldInv => FalseChangesNothing
  <2> SUFFICES ASSUME ToldInv, NEW c \in Callers, NEW op \in Whole, Returned(c, op), ~zcall[c].ok,
                      NEW q \in Paths, q = Req(c).path \/ Atop(Req(c).path, q)
               PROVE  /\ tree[q] = Before(c).tree[q] /\ snaps[q] = Before(c).snaps[q]
                      /\ q \in mnt <=> q \in Before(c).mnt
    BY DEF FalseChangesNothing
  <2>1. WholeSoFar(c) /\ Req(c).op \in Whole
    BY ReturnedIs DEF SoFar
  <2>2. AsBefore(c, q)
    BY <2>1 DEF WholeSoFar, Under
  <2>3. QED
    BY <2>2 DEF AsBefore
<1>2. QED
  BY <1>1, Told, PTL

(* zfs_snap_create that returns true has put its snapshot on every dataset it *)
(* was asked for but broken ones and what is below them; zfs_snap_destroy that *)
(* returns true has left it on none (zfs_snapshot_cb, gather_snapshots).       *)
THEOREM SnapshotsWhole == ZfsSpec => []SnapCallsWhole
<1>1. ZfsInv /\ ToldInv => SnapCallsWhole
  <2> SUFFICES ASSUME ZfsInv, ToldInv, NEW c \in Callers
               PROVE  LET r == Req(c)
                          asked == IF r.flag THEN Tree(r.path) ELSE {r.path}
                          broken(q) == r.flag /\ \E x \in asked : (x = q \/ Atop(x, q))
                                                                   /\ tree[x].mode = "broken"
                      IN /\ Returned(c, "snapCreate") /\ zcall[c].ok =>
                              \A q \in asked : r.snap \in SnapsOf(q) <=>
                                (~broken(q) \/ r.snap \in {s.name : s \in
                                  {Before(c).snaps[q][i] : i \in 1 .. Len(Before(c).snaps[q])}})
                         /\ Returned(c, "snapDestroy") /\ zcall[c].ok =>
                              \A q \in asked : r.snap \notin SnapsOf(q)
    BY DEF SnapCallsWhole
  <2> DEFINE asked == Asked(Req(c).path, Req(c).flag)
             broken(q) == Req(c).flag /\ \E x \in asked : (x = q \/ Atop(x, q)) /\ tree[x].mode = "broken"
             had(q) == Req(c).snap \in {s.name : s \in
                         {Before(c).snaps[q][i] : i \in 1 .. Len(Before(c).snaps[q])}}
  <2>1. ASSUME Returned(c, "snapCreate"), zcall[c].ok, NEW q \in asked
        PROVE  Req(c).snap \in SnapsOf(q) <=> ~broken(q) \/ had(q)
    <3>1. /\ zpc[c] = "return" /\ Req(c).op = "snapCreate" /\ CreatedSoFar(c)
      BY <2>1, ReturnedIs DEF SoFar
    <3>2. Req(c).path \in Paths
      BY <3>1, TreeFacts, PathThere DEF Everywhere
    <3>3. q \in Paths /\ Under(Req(c).path, q)
      BY <2>1, <3>2 DEF Asked, Tree, Under
    <3>4. SnapsOf(q) = NamesIn(Before(c).snaps[q]) \cup
                         IF q \in Gathered(Req(c).path, Req(c).flag) THEN {Req(c).snap} ELSE {}
      BY <2>1, <3>1, <3>3 DEF CreatedSoFar
    <3>5. q \in Gathered(Req(c).path, Req(c).flag) <=> ~broken(q)
      BY <2>1 DEF Gathered, Asked, Tree
    <3>6. Req(c).snap \in NamesIn(Before(c).snaps[q]) <=> had(q)
      BY DEF NamesIn
    <3> HIDE DEF broken, had
    <3>7. QED
      BY <3>4, <3>5, <3>6
  <2>2. ASSUME Returned(c, "snapDestroy"), zcall[c].ok, NEW q \in asked
        PROVE  Req(c).snap \notin SnapsOf(q)
    BY <2>2, ReturnedIs DEF SoFar, DroppedSoFar
  <2>3. QED
    BY <2>1, <2>2 DEF Asked
<1>2. QED
  BY <1>1, Told, PTL

(* zfs_settings_merge never leaves its target with some of its own settings and *)
(* some of the source's while both are there, and has the source's at its end   *)
(* (zfs.c, the loop over zfs_prop_inherit before zfs_prop_set_list).            *)
THEOREM SettingsUnmixed == ZfsSpec => []MergeUnmixed
<1>1. ToldInv => MergeUnmixed
  <2> SUFFICES ASSUME ToldInv, NEW c \in Callers, Req(c).op = "merge", zcall[c].apart,
                      zpc[c] \in {"mergeRemove", "mergeSet", "return"},
                      Exists(Req(c).path), Exists(Req(c).to), ~zcall[c].refused
               PROVE  /\ \/ \A u \in Uprops : tree[Req(c).to].own[u]
                                                \in {Before(c).tree[Req(c).to].own[u], Absent}
                         \/ tree[Req(c).to].own = zcall[c].src
                      /\ zpc[c] = "return" => zcall[c].ok /\ tree[Req(c).to].own = zcall[c].src
    BY DEF MergeUnmixed
  <2>1. MergedSoFar(c)
    BY DEF ToldInv, SoFar
  <2>2. QED
    BY <2>1 DEF MergedSoFar, OwnOf, OldOf
<1>2. QED
  BY <1>1, Told, PTL

(* zfs_mount_all mounts what is on and nothing else and says whether it did;  *)
(* zfs_unmount_all leaves what is legacy or noauto and what holds it, and     *)
(* says whether anything else is left.                                        *)
THEOREM MountedAsTold == ZfsSpec => []MountsAsTold
<1>1. ToldInv => MountsAsTold
  <2> SUFFICES ASSUME ToldInv, NEW c \in Callers
               PROVE  /\ Returned(c, "mountAll") =>
                           (zcall[c].ok <=> Wanted \subseteq mnt) /\ mnt \subseteq Before(c).mnt \cup Wanted
                      /\ Returned(c, "unmountAll") /\ ~zcall[c].refused =>
                           /\ mnt = KeptOf(c) \cup HeldOf(c)
                           /\ zcall[c].ok <=> \A p \in mnt : Skipped(p)
    BY DEF MountsAsTold, Wanted, KeptOf, HeldOf
  <2>1. QED
    BY ReturnedIs DEF SoFar, MountedSoFar, UnmountedSoFar
<1>2. QED
  BY <1>1, Told, PTL

(* zfs_ds_destroy that nobody disturbs and the kernel refuses nothing returns *)
(* true when there is something to destroy it may destroy, and what it was    *)
(* asked for is gone with all that hung on it: children, snapshots and clones *)
(* (zfs_iter_dependents and destroy_callback, zfs.c).                         *)
THEOREM DestroysAll == ZfsSpec => []DestroyComplete
<1>1. ZfsInv /\ ToldInv => DestroyComplete
  <2> SUFFICES ASSUME ZfsInv, ToldInv, NEW c \in Callers, Returned(c, "destroy"),
                      ~zcall[c].refused
               PROVE  /\ zcall[c].ok = ToDestroy(c)
                      /\ ToDestroy(c) => Destroyed(Req(c).path)
    BY DEF DestroyComplete, ToDestroy, Destroyed, Exists
  <2>1. (zcall[c].ok <=> ToDestroy(c)) /\ (ToDestroy(c) => Destroyed(Req(c).path))
    BY ReturnedIs DEF SoFar, DestroyedSoFar
  <2>2. zcall[c].ok \in BOOLEAN /\ ToDestroy(c) \in BOOLEAN
    <3>1. zcall[c] \in CallRecords
      BY TreeFacts DEF CallsInv
    <3>2. QED
      BY <3>1 DEF CallRecords, ToDestroy
  <2>3. QED
    BY <2>1, <2>2
<1>2. QED
  BY <1>1, Told, PTL

-----------------------------------------------------------------------------
(* Snapshot rules: the lines of the crontab                                *)

CountedTo(file, n, k, m, cnt) ==
  cnt = [i \in 0 .. m |->
          IF i = 0 THEN 0
          ELSE IF IsHead(file[i], n) \/ cnt[i - 1] \notin {0, k} THEN cnt[i - 1] + 1 ELSE 0]
Counted(file, n, k) == CHOOSE cnt : CountedTo(file, n, k, Len(file), cnt)

LEMMA RemovePicks ==
  ASSUME NEW file, NEW n
  PROVE  RemoveFromFile(file, n) = Pick(file, {i \in DOMAIN file : Counted(file, n, 3)[i] = 0})
BY DEF RemoveFromFile, RemoveLines, Counted, CountedTo

LEMMA CountedStep ==
  ASSUME NEW file, NEW n, NEW k, NEW m \in Nat, NEW cnt, CountedTo(file, n, k, m, cnt)
  PROVE  /\ cnt[0] = 0
         /\ \A i \in 1 .. m :
              cnt[i] = IF IsHead(file[i], n) \/ cnt[i - 1] \notin {0, k} THEN cnt[i - 1] + 1 ELSE 0
<1> DEFINE F(i) == IF i = 0 THEN 0
                   ELSE IF IsHead(file[i], n) \/ cnt[i - 1] \notin {0, k} THEN cnt[i - 1] + 1 ELSE 0
<1>1. cnt = [i \in 0 .. m |-> F(i)]
  BY DEF CountedTo
<1> HIDE DEF F
<1>2. \A i \in 0 .. m : cnt[i] = F(i)
  BY <1>1
<1>3. cnt[0] = F(0) /\ \A i \in 1 .. m : cnt[i] = F(i) /\ i # 0
  BY <1>2
<1>4. QED
  BY <1>3 DEF F

LEMMA CountedExists ==
  ASSUME NEW file, NEW n, NEW k, Len(file) \in Nat
  PROVE  CountedTo(file, n, k, Len(file), Counted(file, n, k))
<1> DEFINE T == {m \in Nat : \E cnt : CountedTo(file, n, k, m, cnt)}
<1>1. 0 \in T
  <2> DEFINE cnt == [i \in 0 .. 0 |-> 0]
  <2>1. cnt = [i \in 0 .. 0 |->
                IF i = 0 THEN 0
                ELSE IF IsHead(file[i], n) \/ cnt[i - 1] \notin {0, k} THEN cnt[i - 1] + 1 ELSE 0]
    <3>1. \A i \in 0 .. 0 : i = 0
      OBVIOUS
    <3>2. QED
      BY <3>1
  <2>2. CountedTo(file, n, k, 0, cnt)
    BY <2>1 DEF CountedTo
  <2>3. QED
    BY <2>2
<1>2. ASSUME NEW m \in 1 .. Len(file), m - 1 \in T PROVE m \in T
  <2>1. PICK old : CountedTo(file, n, k, m - 1, old)
    BY <1>2
  <2> DEFINE new == [i \in 0 .. m |->
                       IF i < m THEN old[i]
                       ELSE IF IsHead(file[m], n) \/ old[m - 1] \notin {0, k} THEN old[m - 1] + 1 ELSE 0]
             F(i) == IF i = 0 THEN 0
                     ELSE IF IsHead(file[i], n) \/ new[i - 1] \notin {0, k} THEN new[i - 1] + 1 ELSE 0
  <2>2. m - 1 \in Nat /\ m \in Nat
    OBVIOUS
  <2>3. \A i \in 0 .. m - 1 : new[i] = old[i]
    BY <2>2
  <2>4. new[m] = IF IsHead(file[m], n) \/ old[m - 1] \notin {0, k} THEN old[m - 1] + 1 ELSE 0
    BY <2>2
  <2>5. new = [i \in 0 .. m |-> new[i]]
    OBVIOUS
  <2> HIDE DEF new
  <2>6. /\ old[0] = 0
        /\ \A i \in 1 .. m - 1 :
             old[i] = IF IsHead(file[i], n) \/ old[i - 1] \notin {0, k} THEN old[i - 1] + 1 ELSE 0
    BY <2>1, <2>2, CountedStep
  <2>7. \A i \in 0 .. m : new[i] = F(i)
    <3> TAKE i \in 0 .. m
    <3>1. CASE i = 0
      BY <3>1, <2>2, <2>3, <2>6
    <3>2. CASE i \in 1 .. m - 1
      <4>1. i # 0 /\ i \in 0 .. m - 1 /\ i - 1 \in 0 .. m - 1
        BY <3>2, <2>2
      <4>2. QED
        BY <4>1, <3>2, <2>3, <2>6
    <3>3. CASE i = m
      <4>1. m # 0 /\ m - 1 \in 0 .. m - 1
        BY <2>2
      <4>2. QED
        BY <4>1, <3>3, <2>3, <2>4
    <3>4. QED
      BY <3>1, <3>2, <3>3, <2>2
  <2> HIDE DEF F
  <2>8. new = [i \in 0 .. m |-> F(i)]
    BY <2>5, <2>7
  <2>9. CountedTo(file, n, k, m, new)
    BY <2>8 DEF F, CountedTo
  <2>10. QED
    BY <2>2, <2>9
<1> HIDE DEF T
<1>3. Len(file) \in T
  <2>1. 0 .. Len(file) \subseteq T
    BY <1>1, <1>2, AllBelow
  <2>2. QED
    BY <2>1
<1>4. QED
  BY <1>3 DEF T, Counted

(* What is left of a file when the three lines from h on go. *)
Cut(file, h) == [j \in 1 .. Len(file) - 3 |-> file[IF j < h THEN j ELSE j + 3]]

LEMMA CutTyped ==
  ASSUME NEW V, NEW file \in Seq(V), NEW h \in 1 .. Len(file), h + 2 <= Len(file)
  PROVE  /\ Cut(file, h) \in Seq(V) /\ Len(Cut(file, h)) = Len(file) - 3
         /\ \A j \in 1 .. Len(file) - 3 : Cut(file, h)[j] = file[IF j < h THEN j ELSE j + 3]
<1>1. Len(file) - 3 \in Nat /\ \A j \in 1 .. Len(file) - 3 : (IF j < h THEN j ELSE j + 3) \in 1 .. Len(file)
  OBVIOUS
<1>2. \A j \in 1 .. Len(file) - 3 : file[IF j < h THEN j ELSE j + 3] \in V
  BY <1>1
<1>3. QED
  BY <1>1, <1>2 DEF Cut

(* The place a line has when the three from h on have gone. *)
Kept(h, i) == IF i < h THEN i ELSE IF i <= h + 2 THEN h - 1 ELSE i - 3

(* A choice of lines that has none of the three is the same before and     *)
(* after they go.                                                          *)
LEMMA PickCut ==
  ASSUME NEW V, NEW file \in Seq(V), NEW h \in 1 .. Len(file), h + 2 <= Len(file),
         NEW S, NEW T, \A i \in h .. h + 2 : i \notin S,
         \A i \in 1 .. Len(file) : i \notin h .. h + 2 => (i \in S <=> Kept(h, i) \in T)
  PROVE  Pick(file, S) = Pick(Cut(file, h), T)
<1> DEFINE g == Cut(file, h)
           to == [i \in 0 .. Len(file) |-> Kept(h, i)]
<1>1. /\ Len(file) \in Nat /\ Len(g) = Len(file) - 3 /\ Len(g) \in Nat
      /\ \A j \in 1 .. Len(file) - 3 : g[j] = file[IF j < h THEN j ELSE j + 3]
  <2>1. Len(file) \in Nat /\ Len(file) - 3 \in Nat
    OBVIOUS
  <2>2. /\ Len(g) = Len(file) - 3
        /\ \A j \in 1 .. Len(file) - 3 : g[j] = file[IF j < h THEN j ELSE j + 3]
    BY CutTyped, Zenon
  <2>3. QED
    BY <2>1, <2>2
<1> HIDE DEF g
<1>2. \A i \in 0 .. Len(file) : Kept(h, i) \in 0 .. Len(g)
  BY <1>1 DEF Kept
<1>3. to \in [0 .. Len(file) -> 0 .. Len(g)]
  BY <1>2
<1>4. to[0] = 0 /\ to[Len(file)] = Len(g)
  BY <1>1 DEF Kept
<1>5. ASSUME NEW i \in 1 .. Len(file)
      PROVE  \/ i \notin S /\ to[i] = to[i - 1]
             \/ /\ to[i] = to[i - 1] + 1
                /\ IF i \in S THEN to[i] \in T /\ file[i] = g[to[i]] ELSE to[i] \notin T
  <2>1. to[i] = Kept(h, i) /\ to[i - 1] = Kept(h, i - 1)
    BY <1>1
  <2> HIDE DEF to
  <2>2. CASE i \in h .. h + 2
    <3>1. Kept(h, i) = Kept(h, i - 1)
      BY <2>2 DEF Kept
    <3>2. QED
      BY <2>1, <2>2, <3>1
  <2>3. CASE i \notin h .. h + 2
    <3>1. Kept(h, i) = Kept(h, i - 1) + 1 /\ Kept(h, i) \in 1 .. Len(file) - 3
      BY <2>3, <1>1 DEF Kept
    <3>2. file[i] = g[Kept(h, i)]
      <4>1. (IF Kept(h, i) < h THEN Kept(h, i) ELSE Kept(h, i) + 3) = i
        BY <2>3 DEF Kept
      <4>2. QED
        BY <1>1, <3>1, <4>1
    <3>3. QED
      BY <2>1, <2>3, <3>1, <3>2
  <2>4. QED
    BY <2>2, <2>3
<1> HIDE DEF to
<1>6. Together(file, S, g, T, to)
  BY <1>3, <1>4, <1>5 DEF Together
<1>7. Pick(file, S) = Pick(g, T)
  BY <1>1, <1>6, SamePick
<1>8. QED
  BY <1>7 DEF g

-----------------------------------------------------------------------------
(* Rules in a file                                                         *)

NoLine(file, n) == \A i \in 1 .. Len(file) : file[i].of # n
RuleAt(file, n, s, h) ==
  /\ h \in 1 .. Len(file) /\ h + 2 <= Len(file)
  /\ \A i \in 1 .. Len(file) :
       IF i \in h .. h + 2 THEN file[i] = Rule(n, s)[i - h + 1] ELSE file[i].of # n

LEMMA HasRuleAt ==
  ASSUME NEW V, NEW file \in Seq(V), NEW n, NEW s
  PROVE  HasRule(file, n, s) <=> IF s = NoRule THEN NoLine(file, n) ELSE \E h : RuleAt(file, n, s, h)
<1>1. DOMAIN file = 1 .. Len(file) /\ Len(file) \in Nat
  OBVIOUS
<1>2. CASE s = NoRule
  BY <1>1, <1>2 DEF HasRule, NoLine
<1>3. CASE s # NoRule
  <2>1. ASSUME HasRule(file, n, s) PROVE \E h : RuleAt(file, n, s, h)
    <3>1. PICK h \in DOMAIN file : \A i \in DOMAIN file :
            /\ h + 2 \in DOMAIN file
            /\ IF i \in h .. h + 2 THEN file[i] = Rule(n, s)[i - h + 1] ELSE file[i].of # n
      BY <1>3, <2>1 DEF HasRule
    <3>2. h + 2 \in DOMAIN file
      BY <3>1
    <3>3. h \in 1 .. Len(file) /\ h + 2 <= Len(file)
      BY <1>1, <3>2
    <3>4. RuleAt(file, n, s, h)
      BY <1>1, <3>1, <3>3 DEF RuleAt
    <3>5. QED
      BY <3>4
  <2>2. ASSUME NEW h, RuleAt(file, n, s, h) PROVE HasRule(file, n, s)
    <3>1. h \in 1 .. Len(file) /\ h + 2 \in 1 .. Len(file)
      BY <1>1, <2>2 DEF RuleAt
    <3>2. QED
      BY <1>1, <1>3, <2>2, <3>1 DEF RuleAt, HasRule
  <2>3. QED
    BY <1>3, <2>1, <2>2
<1>4. QED
  BY <1>2, <1>3

LEMMA RuleLines ==
  ASSUME NEW n, NEW s
  PROVE  \A i \in 1 .. 3 : Rule(n, s)[i] = [of |-> n, part |-> i, sched |-> s]
BY DEF Rule

LEMMA RuleFields ==
  ASSUME NEW n, NEW s
  PROVE  \A i \in 1 .. 3 : Rule(n, s)[i].of = n /\ Rule(n, s)[i].part = i /\ Rule(n, s)[i].sched = s
BY DEF Rule

LEMMA RuleTyped ==
  ASSUME NEW V, NEW n, NEW s, \A i \in 1 .. 3 : Rule(n, s)[i] \in V
  PROVE  Rule(n, s) \in Seq(V) /\ Len(Rule(n, s)) = 3
<1> DEFINE line(i) == [of |-> n, part |-> i, sched |-> s]
<1>1. \A i \in 1 .. 3 : line(i) \in V
  BY RuleLines
<1>2. Rule(n, s) = [i \in 1 .. 3 |-> line(i)]
  BY DEF Rule
<1> HIDE DEF line
<1>3. [i \in 1 .. 3 |-> line(i)] \in Seq(V) /\ Len([i \in 1 .. 3 |-> line(i)]) = 3
  BY <1>1
<1>4. QED
  BY <1>2, <1>3

(* remove_from_file leaves a file without lines of n as it is, and of one  *)
(* with a rule of n takes its three lines away.                            *)
LEMMA RemoveNone ==
  ASSUME NEW V, NEW file \in Seq(V), NEW n, NoLine(file, n)
  PROVE  RemoveFromFile(file, n) = file
<1> DEFINE cnt == Counted(file, n, 3)
           Zero == {i \in 0 .. Len(file) : cnt[i] = 0}
<1>0. Len(file) \in Nat /\ DOMAIN file = 1 .. Len(file)
  OBVIOUS
<1>1. /\ cnt[0] = 0
      /\ \A i \in 1 .. Len(file) :
           cnt[i] = IF IsHead(file[i], n) \/ cnt[i - 1] \notin {0, 3} THEN cnt[i - 1] + 1 ELSE 0
  <2>1. CountedTo(file, n, 3, Len(file), cnt)
    BY <1>0, CountedExists
  <2> HIDE DEF cnt
  <2>2. QED
    BY <1>0, <2>1, CountedStep
<1> HIDE DEF cnt
<1>2. 0 \in Zero
  BY <1>0, <1>1
<1>3. ASSUME NEW i \in 1 .. Len(file), i - 1 \in Zero PROVE i \in Zero
  BY <1>0, <1>1, <1>3 DEF NoLine, IsHead
<1> HIDE DEF Zero
<1>4. 0 .. Len(file) \subseteq Zero
  BY <1>0, <1>2, <1>3, AllBelow
<1>5. 1 .. Len(file) \subseteq {i \in DOMAIN file : cnt[i] = 0}
  BY <1>0, <1>4 DEF Zero
<1>6. Pick(file, {i \in DOMAIN file : cnt[i] = 0}) = file
  BY <1>5, PickAll
<1>7. QED
  BY <1>6, RemovePicks DEF cnt

LEMMA RemoveRule ==
  ASSUME NEW V, NEW file \in Seq(V), NEW n, NEW s, NEW h, RuleAt(file, n, s, h)
  PROVE  RemoveFromFile(file, n) = Cut(file, h)
<1> DEFINE cnt == Counted(file, n, 3)
           want(i) == IF i \in h .. h + 2 THEN i - h + 1 ELSE 0
           Right == {i \in 0 .. Len(file) : cnt[i] = want(i)}
           S == {i \in DOMAIN file : cnt[i] = 0}
<1>0. /\ Len(file) \in Nat /\ DOMAIN file = 1 .. Len(file)
      /\ h \in 1 .. Len(file) /\ h + 2 <= Len(file)
  BY DEF RuleAt
<1>1. /\ cnt[0] = 0
      /\ \A i \in 1 .. Len(file) :
           cnt[i] = IF IsHead(file[i], n) \/ cnt[i - 1] \notin {0, 3} THEN cnt[i - 1] + 1 ELSE 0
  <2>1. CountedTo(file, n, 3, Len(file), cnt)
    BY <1>0, CountedExists
  <2> HIDE DEF cnt
  <2>2. QED
    BY <1>0, <2>1, CountedStep
<1> HIDE DEF cnt
<1>2. 0 \in Right
  BY <1>0, <1>1
<1>3. ASSUME NEW i \in 1 .. Len(file), i - 1 \in Right PROVE i \in Right
  <2>1. cnt[i - 1] = want(i - 1) /\ i \in 0 .. Len(file)
    BY <1>3
  <2>2. CASE i \notin h .. h + 2
    <3>1. ~IsHead(file[i], n)
      BY <2>2 DEF RuleAt, IsHead
    <3>2. want(i - 1) \in {0, 3} /\ want(i) = 0
      BY <1>0, <2>2
    <3>3. QED
      BY <1>1, <2>1, <3>1, <3>2
  <2>3. CASE i = h
    <3>1. file[i] = Rule(n, s)[1]
      <4>1. file[i] = Rule(n, s)[i - h + 1] /\ i - h + 1 = 1
        BY <1>0, <2>3 DEF RuleAt
      <4>2. QED
        BY <4>1
    <3>2. IsHead(file[i], n)
      <4>1. 1 \in 1 .. 3
        OBVIOUS
      <4>2. Rule(n, s)[1] = [of |-> n, part |-> 1, sched |-> s]
        BY <4>1, RuleLines
      <4>3. QED
        BY <3>1, <4>2 DEF IsHead
    <3>3. want(i - 1) = 0 /\ want(i) = 1
      BY <1>0, <2>3
    <3>4. QED
      BY <1>1, <2>1, <3>2, <3>3
  <2>4. CASE i \in h + 1 .. h + 2
    <3>1. want(i - 1) = i - h /\ i - h \in {1, 2} /\ want(i) = i - h + 1
      BY <1>0, <2>4
    <3>2. want(i - 1) \notin {0, 3}
      BY <3>1
    <3>3. cnt[i] = want(i - 1) + 1
      BY <1>1, <2>1, <3>2
    <3>4. QED
      BY <2>1, <3>1, <3>3
  <2>5. QED
    BY <1>0, <2>2, <2>3, <2>4
<1> HIDE DEF Right
<1>4. 0 .. Len(file) \subseteq Right
  BY <1>0, <1>2, <1>3, AllBelow
<1>5. \A i \in 1 .. Len(file) : i \in S <=> i \notin h .. h + 2
  <2> TAKE i \in 1 .. Len(file)
  <2>1. cnt[i] = want(i)
    <3>1. i \in Right
      BY <1>0, <1>4
    <3>2. QED
      BY <3>1 DEF Right
  <2>2. want(i) = 0 <=> i \notin h .. h + 2
    BY <1>0
  <2>3. QED
    BY <1>0, <2>1, <2>2
<1>6. Pick(file, S) = Pick(Cut(file, h), 1 .. Len(file) - 3)
  <2>1. \A i \in 1 .. Len(file) : i \notin h .. h + 2 => Kept(h, i) \in 1 .. Len(file) - 3
    BY <1>0 DEF Kept
  <2>2. /\ \A i \in h .. h + 2 : i \notin S
        /\ \A i \in 1 .. Len(file) : i \notin h .. h + 2 => (i \in S <=> Kept(h, i) \in 1 .. Len(file) - 3)
    BY <1>0, <1>5, <2>1
  <2> HIDE DEF S
  <2>3. QED
    BY <1>0, <2>2, PickCut, SMTT(30)
<1>7. Pick(Cut(file, h), 1 .. Len(file) - 3) = Cut(file, h)
  <2>1. Cut(file, h) \in Seq(V) /\ Len(Cut(file, h)) = Len(file) - 3
    BY <1>0, CutTyped
  <2>2. QED
    BY <2>1, PickAll
<1>8. QED
  BY <1>6, <1>7, RemovePicks DEF cnt

LEMMA OthersCut ==
  ASSUME NEW V, NEW file \in Seq(V), NEW n, NEW s, NEW h, RuleAt(file, n, s, h)
  PROVE  Others(Cut(file, h), n) = Others(file, n)
<1> DEFINE S == {i \in DOMAIN file : file[i].of # n}
           T == {j \in DOMAIN Cut(file, h) : Cut(file, h)[j].of # n}
<1>1. /\ h \in 1 .. Len(file) /\ h + 2 <= Len(file)
      /\ DOMAIN file = 1 .. Len(file) /\ Len(file) \in Nat
  BY DEF RuleAt
<1>2. /\ DOMAIN Cut(file, h) = 1 .. Len(file) - 3
      /\ \A j \in 1 .. Len(file) - 3 : Cut(file, h)[j] = file[IF j < h THEN j ELSE j + 3]
  BY <1>1, CutTyped DEF Cut
<1>3. \A i \in h .. h + 2 : i \notin S
  <2> TAKE i \in h .. h + 2
  <2>1. i \in 1 .. Len(file) /\ i - h + 1 \in 1 .. 3
    BY <1>1
  <2>2. file[i] = Rule(n, s)[i - h + 1]
    BY <2>1 DEF RuleAt
  <2>3. file[i].of = n
    <3>1. Rule(n, s)[i - h + 1].of = n
      BY <2>1, RuleFields
    <3>2. QED
      BY <2>2, <3>1
  <2>4. QED
    BY <2>3
<1>4. ASSUME NEW i \in 1 .. Len(file), i \notin h .. h + 2
      PROVE  i \in S /\ Kept(h, i) \in T
  <2>1. file[i].of # n
    BY <1>4 DEF RuleAt
  <2>2. /\ Kept(h, i) \in 1 .. Len(file) - 3
        /\ (IF Kept(h, i) < h THEN Kept(h, i) ELSE Kept(h, i) + 3) = i
    BY <1>1, <1>4 DEF Kept
  <2>3. Cut(file, h)[Kept(h, i)] = file[i]
    BY <1>2, <2>2
  <2>4. QED
    BY <1>1, <1>2, <2>1, <2>2, <2>3
<1>5. \A i \in 1 .. Len(file) : i \notin h .. h + 2 => (i \in S <=> Kept(h, i) \in T)
  BY <1>4
<1> HIDE DEF S, T
<1>6. Pick(file, S) = Pick(Cut(file, h), T)
  BY <1>1, <1>3, <1>5, PickCut
<1>7. QED
  BY <1>6 DEF S, T, Others

(* A file and its end of three lines. *)
LEMMA AddedLines ==
  ASSUME NEW V, NEW file \in Seq(V), NEW r \in Seq(V), Len(r) = 3
  PROVE  /\ file \o r \in Seq(V) /\ Len(file \o r) = Len(file) + 3
         /\ \A i \in 1 .. Len(file) : (file \o r)[i] = file[i]
         /\ \A i \in 1 .. 3 : (file \o r)[Len(file) + i] = r[i]
<1>1. /\ Len(file \o r) = Len(file) + Len(r)
      /\ \A i \in 1 .. Len(file) + Len(r) :
           (file \o r)[i] = IF i <= Len(file) THEN file[i] ELSE r[i - Len(file)]
  BY ConcatProperties, Zenon
<1>2. file \o r \in Seq(V) /\ Len(file) \in Nat
  BY ConcatProperties
<1>3. ASSUME NEW i \in 1 .. Len(file) PROVE (file \o r)[i] = file[i]
  BY <1>1, <1>2
<1>4. ASSUME NEW i \in 1 .. 3 PROVE (file \o r)[Len(file) + i] = r[i]
  <2>1. Len(file) + i \in 1 .. Len(file) + 3 /\ ~(Len(file) + i <= Len(file)) /\ Len(file) + i - Len(file) = i
    BY <1>2
  <2> DEFINE k == Len(file) + i
  <2>2. k \in 1 .. Len(file) + Len(r) /\ ~(k <= Len(file)) /\ k - Len(file) = i
    BY <2>1
  <2> HIDE DEF k
  <2>3. (file \o r)[k] = r[i]
    BY <1>1, <2>2, Zenon
  <2>4. QED
    BY <2>3 DEF k
<1>5. QED
  BY <1>1, <1>2, <1>3, <1>4

LEMMA OthersAdded ==
  ASSUME NEW V, NEW file \in Seq(V), NEW n, NEW s, \A i \in 1 .. 3 : Rule(n, s)[i] \in V
  PROVE  Others(file \o Rule(n, s), n) = Others(file, n)
<1> DEFINE more == file \o Rule(n, s)
           S == {i \in DOMAIN more : more[i].of # n}
           T == {i \in DOMAIN file : file[i].of # n}
           to == [i \in 0 .. Len(more) |-> IF i <= Len(file) THEN i ELSE Len(file)]
<1>1. /\ more \in Seq(V) /\ Len(more) = Len(file) + 3
      /\ \A i \in 1 .. Len(file) : more[i] = file[i]
      /\ \A i \in 1 .. 3 : more[Len(file) + i] = Rule(n, s)[i]
  BY RuleTyped, AddedLines
<1> HIDE DEF more
<1>2. /\ Len(file) \in Nat /\ Len(more) \in Nat
      /\ DOMAIN file = 1 .. Len(file) /\ DOMAIN more = 1 .. Len(more)
  BY <1>1
<1>3. to \in [0 .. Len(more) -> 0 .. Len(file)] /\ to[0] = 0 /\ to[Len(more)] = Len(file)
  <2>1. \A i \in 0 .. Len(more) : (IF i <= Len(file) THEN i ELSE Len(file)) \in 0 .. Len(file)
    BY <1>2
  <2>2. to \in [0 .. Len(more) -> 0 .. Len(file)]
    BY <2>1
  <2>3. to[0] = 0 /\ to[Len(more)] = Len(file)
    <3>1. 0 \in 0 .. Len(more) /\ Len(more) \in 0 .. Len(more) /\ 0 <= Len(file) /\ ~(Len(more) <= Len(file))
      BY <1>1, <1>2
    <3>2. QED
      BY <3>1, Zenon
  <2>4. QED
    BY <2>2, <2>3
<1>4. ASSUME NEW i \in 1 .. Len(more)
      PROVE  \/ i \notin S /\ to[i] = to[i - 1]
             \/ /\ to[i] = to[i - 1] + 1
                /\ IF i \in S THEN to[i] \in T /\ more[i] = file[to[i]] ELSE to[i] \notin T
  <2>1. CASE i <= Len(file)
    <3>1. i \in 1 .. Len(file) /\ to[i] = i /\ to[i - 1] = i - 1 /\ more[i] = file[i]
      BY <1>1, <1>2, <2>1
    <3> HIDE DEF to
    <3>2. i \in S <=> i \in T
      BY <1>2, <3>1
    <3>3. QED
      BY <3>1, <3>2
  <2>2. CASE i > Len(file)
    <3>1. to[i] = Len(file) /\ to[i - 1] = Len(file)
      BY <1>1, <1>2, <2>2
    <3>2. more[i] = Rule(n, s)[i - Len(file)] /\ i - Len(file) \in 1 .. 3
      <4>1. i - Len(file) \in 1 .. 3 /\ Len(file) + (i - Len(file)) = i
        BY <1>1, <1>2, <2>2
      <4>2. QED
        BY <1>1, <4>1
    <3>3. more[i].of = n
      <4>1. Rule(n, s)[i - Len(file)].of = n
        BY <3>2, RuleFields
      <4>2. QED
        BY <3>2, <4>1
    <3>4. QED
      BY <3>1, <3>3
  <2>3. QED
    BY <1>2, <2>1, <2>2
<1> HIDE DEF S, T, to
<1>5. Together(more, S, file, T, to)
  BY <1>3, <1>4 DEF Together
<1>6. Pick(more, S) = Pick(file, T)
  BY <1>2, <1>5, SamePick
<1>7. QED
  BY <1>6 DEF S, T, more, Others

(* What a removal does to the rules: that of n goes, the others stay. *)
LEMMA RulesCut ==
  ASSUME NEW V, NEW file \in Seq(V), NEW n, NEW s, NEW h, RuleAt(file, n, s, h)
  PROVE  /\ NoLine(Cut(file, h), n)
         /\ \A m : m # n => /\ NoLine(file, m) => NoLine(Cut(file, h), m)
                            /\ \A t, g : RuleAt(file, m, t, g) => \E k : RuleAt(Cut(file, h), m, t, k)
<1> DEFINE cut == Cut(file, h)
           from(j) == IF j < h THEN j ELSE j + 3
<1>1. /\ h \in 1 .. Len(file) /\ h + 2 <= Len(file) /\ Len(file) \in Nat
  BY DEF RuleAt
<1>2. /\ Len(cut) = Len(file) - 3
      /\ \A j \in 1 .. Len(file) - 3 : cut[j] = file[from(j)]
  BY <1>1, CutTyped
<1> HIDE DEF cut
<1>3. \A j \in 1 .. Len(cut) : /\ from(j) \in 1 .. Len(file) /\ from(j) \notin h .. h + 2
                               /\ cut[j] = file[from(j)]
  BY <1>1, <1>2
<1>4. NoLine(cut, n)
  BY <1>3 DEF NoLine, RuleAt
<1>5. ASSUME NEW m, m # n, NoLine(file, m) PROVE NoLine(cut, m)
  BY <1>3, <1>5 DEF NoLine
<1>6. ASSUME NEW m, m # n, NEW t, NEW g, RuleAt(file, m, t, g) PROVE \E k : RuleAt(cut, m, t, k)
  <2>1. g \in 1 .. Len(file) /\ g + 2 <= Len(file)
    BY <1>6 DEF RuleAt
  <2>2. \A i \in g .. g + 2 : file[i].of = m
    <3> TAKE i \in g .. g + 2
    <3>1. i \in 1 .. Len(file) /\ i - g + 1 \in 1 .. 3
      BY <1>1, <2>1
    <3>2. file[i] = Rule(m, t)[i - g + 1]
      BY <1>6, <3>1 DEF RuleAt
    <3>3. Rule(m, t)[i - g + 1].of = m
      BY <3>1, RuleFields
    <3>4. QED
      BY <3>2, <3>3
  <2>3. \A i \in h .. h + 2 : file[i].of = n
    <3> TAKE i \in h .. h + 2
    <3>1. i \in 1 .. Len(file) /\ i - h + 1 \in 1 .. 3
      BY <1>1
    <3>2. file[i] = Rule(n, s)[i - h + 1]
      BY <3>1 DEF RuleAt
    <3>3. Rule(n, s)[i - h + 1].of = n
      BY <3>1, RuleFields
    <3>4. QED
      BY <3>2, <3>3
  <2>4. g + 2 < h \/ g > h + 2
    <3>1. \A i \in g .. g + 2 : i \notin h .. h + 2
      BY <1>6, <2>2, <2>3
    <3>2. g \in g .. g + 2 /\ g + 2 \in g .. g + 2 /\ (h \in g .. g + 2 => FALSE)
      <4>1. h \in h .. h + 2
        BY <1>1
      <4>2. QED
        BY <1>1, <2>1, <3>1, <4>1
    <3>3. QED
      BY <1>1, <2>1, <3>1, <3>2
  <2> DEFINE k == IF g < h THEN g ELSE g - 3
  <2>5. k \in 1 .. Len(cut) /\ k + 2 <= Len(cut)
    BY <1>1, <1>2, <2>1, <2>4
  <2>6. ASSUME NEW j \in 1 .. Len(cut)
        PROVE  IF j \in k .. k + 2 THEN cut[j] = Rule(m, t)[j - k + 1] ELSE cut[j].of # m
    <3>1. from(j) \in 1 .. Len(file) /\ cut[j] = file[from(j)]
      BY <1>3
    <3>2. CASE j \in k .. k + 2
      <4>1. from(j) \in g .. g + 2 /\ from(j) - g + 1 = j - k + 1
        BY <1>1, <2>1, <2>4, <3>2
      <4>2. QED
        BY <1>6, <3>1, <3>2, <4>1 DEF RuleAt
    <3>3. CASE j \notin k .. k + 2
      <4>1. from(j) \notin g .. g + 2
        BY <1>1, <1>2, <2>1, <2>4, <3>3
      <4>2. QED
        BY <1>6, <3>1, <3>3, <4>1 DEF RuleAt
    <3>4. QED
      BY <3>2, <3>3
  <2> HIDE DEF k
  <2>7. RuleAt(cut, m, t, k)
    BY <2>5, <2>6 DEF RuleAt
  <2>8. QED
    BY <2>7
<1>7. QED
  BY <1>4, <1>5, <1>6 DEF cut

(* What an addition does: n has its rule, the other rules stay. *)
LEMMA RulesAdded ==
  ASSUME NEW V, NEW file \in Seq(V), NEW n, NEW s, \A i \in 1 .. 3 : Rule(n, s)[i] \in V,
         NoLine(file, n)
  PROVE  /\ RuleAt(file \o Rule(n, s), n, s, Len(file) + 1)
         /\ \A m : m # n =>
              /\ NoLine(file, m) => NoLine(file \o Rule(n, s), m)
              /\ \A t, g : RuleAt(file, m, t, g) => RuleAt(file \o Rule(n, s), m, t, g)
<1> DEFINE more == file \o Rule(n, s)
<1>1. /\ Len(more) = Len(file) + 3 /\ Len(file) \in Nat
      /\ \A i \in 1 .. Len(file) : more[i] = file[i]
      /\ \A i \in 1 .. 3 : more[Len(file) + i] = Rule(n, s)[i]
  <2>1. Len(file) \in Nat
    OBVIOUS
  <2>2. QED
    BY <2>1, RuleTyped, AddedLines
<1> HIDE DEF more
<1>2. ASSUME NEW i \in 1 .. Len(more), ~(i <= Len(file))
      PROVE  /\ i \in Len(file) + 1 .. Len(file) + 3
             /\ more[i] = Rule(n, s)[i - (Len(file) + 1) + 1] /\ more[i].of = n
  <2>0. i - Len(file) \in 1 .. 3
    BY <1>1, <1>2
  <2>1. i - Len(file) \in 1 .. 3 /\ Len(file) + (i - Len(file)) = i /\ i - (Len(file) + 1) + 1 = i - Len(file)
    BY <1>1, <1>2
  <2>2. more[i] = Rule(n, s)[i - Len(file)]
    BY <1>1, <2>1
  <2>3. Rule(n, s)[i - Len(file)].of = n
    BY <2>0, RuleFields
  <2>4. QED
    BY <1>1, <2>1, <2>2, <2>3
<1>3. RuleAt(more, n, s, Len(file) + 1)
  <2>1. Len(file) + 1 \in 1 .. Len(more) /\ Len(file) + 1 + 2 <= Len(more)
    BY <1>1
  <2>2. ASSUME NEW i \in 1 .. Len(more)
        PROVE  IF i \in Len(file) + 1 .. Len(file) + 1 + 2
               THEN more[i] = Rule(n, s)[i - (Len(file) + 1) + 1] ELSE more[i].of # n
    <3>1. CASE i <= Len(file)
      <4>1. i \in 1 .. Len(file) /\ i \notin Len(file) + 1 .. Len(file) + 1 + 2
        BY <1>1, <3>1
      <4>2. QED
        BY <1>1, <4>1 DEF NoLine
    <3>2. CASE ~(i <= Len(file))
      <4>1. i \in Len(file) + 1 .. Len(file) + 1 + 2
        BY <1>1, <1>2, <3>2
      <4>2. QED
        BY <1>2, <3>2, <4>1
    <3>3. QED
      BY <3>1, <3>2
  <2>3. QED
    BY <2>1, <2>2 DEF RuleAt
<1>4. ASSUME NEW m, m # n, NoLine(file, m) PROVE NoLine(more, m)
  <2> SUFFICES ASSUME NEW i \in 1 .. Len(more) PROVE more[i].of # m
    BY DEF NoLine
  <2>1. CASE i <= Len(file)
    <3>1. i \in 1 .. Len(file)
      BY <1>1, <2>1
    <3>2. QED
      BY <1>1, <1>4, <3>1 DEF NoLine
  <2>2. CASE ~(i <= Len(file))
    BY <1>2, <1>4, <2>2
  <2>3. QED
    BY <2>1, <2>2
<1>5. ASSUME NEW m, m # n, NEW t, NEW g, RuleAt(file, m, t, g) PROVE RuleAt(more, m, t, g)
  <2>1. g \in 1 .. Len(file) /\ g + 2 <= Len(file)
    BY <1>5 DEF RuleAt
  <2>2. g \in 1 .. Len(more) /\ g + 2 <= Len(more)
    BY <1>1, <2>1
  <2>3. ASSUME NEW i \in 1 .. Len(more)
        PROVE  IF i \in g .. g + 2 THEN more[i] = Rule(m, t)[i - g + 1] ELSE more[i].of # m
    <3>1. CASE i <= Len(file)
      <4>1. i \in 1 .. Len(file)
        BY <1>1, <3>1
      <4>2. QED
        BY <1>1, <1>5, <4>1 DEF RuleAt
    <3>2. CASE ~(i <= Len(file))
      <4>1. i \notin g .. g + 2
        BY <1>1, <2>1, <3>2
      <4>2. QED
        BY <1>2, <1>5, <3>2, <4>1
    <3>3. QED
      BY <3>1, <3>2
  <2>4. QED
    BY <2>2, <2>3 DEF RuleAt
<1>6. QED
  BY <1>3, <1>4, <1>5 DEF more

(* What zfs_snap_rule_get finds in a file with a rule of n, or without any *)
(* line of n; and what the lines of n are.                                 *)
LEMMA RuleFound ==
  ASSUME NEW V, NEW file \in Seq(V), NEW n, NEW s, NEW h, RuleAt(file, n, s, h)
  PROVE  /\ RuleGet(file, n) = [sched |-> s, create |-> Rule(n, s)[2], delete |-> Rule(n, s)[3]]
         /\ LinesOf(file, n) = Rule(n, s)
<1> DEFINE heads == {i \in 1 .. Len(file) : IsHead(file[i], n)}
<1>1. h \in 1 .. Len(file) /\ h + 2 <= Len(file) /\ Len(file) \in Nat /\ DOMAIN file = 1 .. Len(file)
  BY DEF RuleAt
<1>2. file[h] = Rule(n, s)[1] /\ file[h + 1] = Rule(n, s)[2] /\ file[h + 2] = Rule(n, s)[3]
  <2>1. /\ h \in h .. h + 2 /\ h + 1 \in h .. h + 2 /\ h + 2 \in h .. h + 2
        /\ h + 1 \in 1 .. Len(file) /\ h + 2 \in 1 .. Len(file)
        /\ h - h + 1 = 1 /\ h + 1 - h + 1 = 2 /\ h + 2 - h + 1 = 3
    BY <1>1
  <2>2. \A i \in 1 .. Len(file) : i \in h .. h + 2 => file[i] = Rule(n, s)[i - h + 1]
    BY DEF RuleAt
  <2>3. \A i \in 1 .. Len(file) : \A k : i \in h .. h + 2 /\ i - h + 1 = k => file[i] = Rule(n, s)[k]
    BY <2>2
  <2>4. file[h] = Rule(n, s)[1]
    BY <1>1, <2>1, <2>3
  <2>5. file[h + 1] = Rule(n, s)[2]
    <3> DEFINE i == h + 1
    <3>1. i \in 1 .. Len(file) /\ i \in h .. h + 2 /\ i - h + 1 = 2
      BY <2>1
    <3> HIDE DEF i
    <3>2. file[i] = Rule(n, s)[2]
      BY <2>3, <3>1
    <3>3. QED
      BY <3>2 DEF i
  <2>6. file[h + 2] = Rule(n, s)[3]
    <3> DEFINE i == h + 2
    <3>1. i \in 1 .. Len(file) /\ i \in h .. h + 2 /\ i - h + 1 = 3
      BY <2>1
    <3> HIDE DEF i
    <3>2. file[i] = Rule(n, s)[3]
      BY <2>3, <3>1
    <3>3. QED
      BY <3>2 DEF i
  <2>7. QED
    BY <2>4, <2>5, <2>6
<1>3. \A i \in 1 .. Len(file) : i \in h .. h + 2 => i = h \/ i = h + 1 \/ i = h + 2
  BY <1>1
<1>4. /\ file[h].of = n /\ file[h + 1].of = n /\ file[h + 2].of = n
      /\ file[h].part = 1 /\ file[h + 1].part = 2 /\ file[h + 2].part = 3 /\ file[h].sched = s
  <2>1. 1 \in 1 .. 3 /\ 2 \in 1 .. 3 /\ 3 \in 1 .. 3
    OBVIOUS
  <2>2. /\ Rule(n, s)[1].of = n /\ Rule(n, s)[2].of = n /\ Rule(n, s)[3].of = n
        /\ Rule(n, s)[1].part = 1 /\ Rule(n, s)[2].part = 2 /\ Rule(n, s)[3].part = 3
        /\ Rule(n, s)[1].sched = s
    BY <2>1, RuleFields
  <2>3. QED
    BY <1>2, <2>2
<1>5. heads = {h}
  <2>1. h \in heads
    BY <1>1, <1>4 DEF IsHead
  <2>2. ASSUME NEW i \in heads PROVE i = h
    <3>1. i \in h .. h + 2
      BY <2>2 DEF RuleAt, IsHead
    <3>2. i # h + 1 /\ i # h + 2
      BY <1>4, <2>2 DEF IsHead
    <3>3. QED
      BY <1>3, <2>2, <3>1, <3>2
  <2>3. QED
    BY <2>1, <2>2
<1>6. RuleGet(file, n) = [sched |-> s, create |-> Rule(n, s)[2], delete |-> Rule(n, s)[3]]
  <2>1. \A i \in {h} : (\A j \in {h} : i <= j) => i = h
    OBVIOUS
  <2>2. (CHOOSE i \in heads : \A j \in heads : i <= j) = h
    <3>1. h \in heads /\ \A j \in heads : h <= j
      BY <1>1, <1>5
    <3>2. \A i \in heads : i = h
      BY <1>5
    <3> HIDE DEF heads
    <3>3. QED
      BY <3>1, <3>2
  <2>3. heads # {} /\ ~(h + 2 > Len(file))
    BY <1>1, <1>5
  <2>4. RuleGet(file, n) = [sched |-> file[h].sched, create |-> file[h + 1], delete |-> file[h + 2]]
    BY <2>2, <2>3, Zenon DEF RuleGet
  <2>5. QED
    BY <1>2, <1>4, <2>4
<1> HIDE DEF heads
<1> DEFINE r == Rule(n, s)
           S == {i \in DOMAIN file : file[i].of = n}
           to == [i \in 0 .. Len(file) |-> IF i < h THEN 0 ELSE IF i <= h + 2 THEN i - h + 1 ELSE 3]
<1>7. r \in Seq({r[i] : i \in 1 .. 3}) /\ Len(r) = 3
  <2>1. \A i \in 1 .. 3 : Rule(n, s)[i] \in {Rule(n, s)[j] : j \in 1 .. 3}
    OBVIOUS
  <2>2. QED
    BY <2>1, RuleTyped
<1> HIDE DEF r
<1>8. to \in [0 .. Len(file) -> 0 .. 3] /\ to[0] = 0 /\ to[Len(file)] = 3
  <2>1. \A i \in 0 .. Len(file) : (IF i < h THEN 0 ELSE IF i <= h + 2 THEN i - h + 1 ELSE 3) \in 0 .. 3
    BY <1>1
  <2>2. to \in [0 .. Len(file) -> 0 .. 3]
    BY <2>1
  <2>3. 0 \in 0 .. Len(file) /\ Len(file) \in 0 .. Len(file) /\ 0 < h /\ ~(Len(file) < h)
    BY <1>1
  <2>4. to[0] = 0
    BY <2>3, Zenon
  <2>5. to[Len(file)] = 3
    <3>1. to[Len(file)] = IF Len(file) <= h + 2 THEN Len(file) - h + 1 ELSE 3
      BY <2>3, Zenon
    <3>2. QED
      BY <1>1, <3>1
  <2>6. QED
    BY <2>2, <2>4, <2>5
<1>9. ASSUME NEW i \in 1 .. Len(file)
      PROVE  \/ i \notin S /\ to[i] = to[i - 1]
             \/ /\ to[i] = to[i - 1] + 1
                /\ IF i \in S THEN to[i] \in 1 .. 3 /\ file[i] = r[to[i]] ELSE to[i] \notin 1 .. 3
  <2>1. CASE i \notin h .. h + 2
    <3>1. to[i] = to[i - 1]
      BY <1>1, <2>1
    <3>2. i \notin S
      BY <2>1 DEF RuleAt
    <3>3. QED
      BY <3>1, <3>2
  <2>2. CASE i \in h .. h + 2
    <3>1. to[i] = i - h + 1 /\ to[i - 1] = i - h /\ to[i] \in 1 .. 3 /\ to[i] = to[i - 1] + 1
      BY <1>1, <2>2
    <3>2. i \in S
      BY <1>1, <1>3, <1>4, <2>2
    <3>3. file[i] = r[i - h + 1]
      BY <2>2 DEF RuleAt, r
    <3>4. QED
      BY <3>1, <3>2, <3>3
  <2>3. QED
    BY <2>1, <2>2
<1> HIDE DEF S, to
<1>10. Together(file, S, r, 1 .. 3, to)
  BY <1>7, <1>8, <1>9 DEF Together
<1>11. Pick(file, S) = Pick(r, 1 .. 3)
  <2>1. Len(r) \in Nat
    BY <1>7
  <2>2. QED
    BY <1>1, <1>10, <2>1, SamePick
<1>12. Pick(r, 1 .. 3) = r
  <2>1. 1 .. Len(r) \subseteq 1 .. 3
    BY <1>7
  <2>2. QED
    BY <1>7, <2>1, PickAll
<1>13. QED
  BY <1>6, <1>11, <1>12 DEF S, r, LinesOf

LEMMA RuleNotFound ==
  ASSUME NEW V, NEW file \in Seq(V), NEW n, NoLine(file, n)
  PROVE  RuleGet(file, n) = NoRule /\ LinesOf(file, n) = <<>>
<1> DEFINE S == {i \in DOMAIN file : file[i].of = n}
           to == [i \in 0 .. Len(file) |-> 0]
<1>1. DOMAIN file = 1 .. Len(file) /\ Len(file) \in Nat
  OBVIOUS
<1>2. S = {} /\ {i \in 1 .. Len(file) : IsHead(file[i], n)} = {}
  BY <1>1 DEF NoLine, IsHead
<1>3. RuleGet(file, n) = NoRule
  BY <1>2 DEF RuleGet
<1>4. Len(<<>>) = 0
  OBVIOUS
<1>5. to \in [0 .. Len(file) -> 0 .. 0] /\ to[0] = 0 /\ to[Len(file)] = 0
  BY <1>1
<1>6. \A i \in 1 .. Len(file) : i \notin S /\ to[i] = to[i - 1]
  BY <1>1, <1>2
<1> HIDE DEF S, to
<1>7. Together(file, S, <<>>, {}, to)
  BY <1>4, <1>5, <1>6 DEF Together
<1>8. Pick(file, S) = Pick(<<>>, {})
  BY <1>1, <1>4, <1>7, SamePick
<1>9. Pick(<<>>, {}) = <<>>
  <2>1. <<>> \in Seq({}) /\ 1 .. Len(<<>>) \subseteq {}
    OBVIOUS
  <2>2. QED
    BY <2>1, PickAll
<1>10. QED
  BY <1>3, <1>8, <1>9 DEF S, LinesOf

(* Both on a file of the crontab's lines. *)
LEMMA RemovalFacts ==
  ASSUME NEW file \in Seq(CronLines), NEW n \in Ruled, NEW s, HasRule(file, n, s)
  PROVE  /\ RemoveFromFile(file, n) \in Seq(CronLines) /\ NoLine(RemoveFromFile(file, n), n)
         /\ Others(RemoveFromFile(file, n), n) = Others(file, n)
         /\ \A m, t : m # n /\ HasRule(file, m, t) => HasRule(RemoveFromFile(file, n), m, t)
<1>1. CASE s = NoRule
  <2>1. NoLine(file, n)
    BY <1>1, HasRuleAt
  <2>2. RemoveFromFile(file, n) = file
    BY <2>1, RemoveNone
  <2>3. QED
    BY <2>1, <2>2
<1>2. CASE s # NoRule
  <2>1. PICK h : RuleAt(file, n, s, h)
    BY <1>2, HasRuleAt
  <2>2. RemoveFromFile(file, n) = Cut(file, h)
    BY <2>1, RemoveRule
  <2>3. h \in 1 .. Len(file) /\ h + 2 <= Len(file)
    BY <2>1 DEF RuleAt
  <2>4. Cut(file, h) \in Seq(CronLines)
    BY <2>3, CutTyped
  <2>5. Others(Cut(file, h), n) = Others(file, n)
    BY <2>1, OthersCut
  <2>6. NoLine(Cut(file, h), n)
    BY <2>1, RulesCut
  <2>7. ASSUME NEW m, NEW t, m # n, HasRule(file, m, t) PROVE HasRule(Cut(file, h), m, t)
    <3>1. CASE t = NoRule
      <4>1. NoLine(file, m)
        BY <2>7, <3>1, HasRuleAt
      <4>2. NoLine(Cut(file, h), m)
        BY <2>1, <2>7, <4>1, RulesCut
      <4>3. QED
        BY <2>4, <3>1, <4>2, HasRuleAt
    <3>2. CASE t # NoRule
      <4>1. PICK g : RuleAt(file, m, t, g)
        BY <2>7, <3>2, HasRuleAt
      <4>2. \E k : RuleAt(Cut(file, h), m, t, k)
        BY <2>1, <2>7, <4>1, RulesCut
      <4>3. QED
        BY <2>4, <3>2, <4>2, HasRuleAt
    <3>3. QED
      BY <3>1, <3>2
  <2>8. QED
    BY <2>2, <2>4, <2>5, <2>6, <2>7
<1>3. QED
  BY <1>1, <1>2

LEMMA AdditionFacts ==
  ASSUME NEW file \in Seq(CronLines), NEW n \in Ruled, NEW s \in Scheds, NoLine(file, n)
  PROVE  /\ file \o Rule(n, s) \in Seq(CronLines) /\ HasRule(file \o Rule(n, s), n, s)
         /\ Others(file \o Rule(n, s), n) = Others(file, n)
         /\ \A m, t : m # n /\ HasRule(file, m, t) => HasRule(file \o Rule(n, s), m, t)
<1> DEFINE more == file \o Rule(n, s)
<1>1. \A i \in 1 .. 3 : Rule(n, s)[i] \in CronLines
  BY DEF CronLines
<1>2. more \in Seq(CronLines)
  <2>1. Rule(n, s) \in Seq(CronLines)
    BY <1>1, RuleTyped
  <2>2. QED
    BY <2>1, ConcatProperties
<1>3. Others(more, n) = Others(file, n)
  BY <1>1, OthersAdded
<1>4. s # NoRule
  BY RuleAssumption
<1>5. RuleAt(more, n, s, Len(file) + 1)
  BY <1>1, RulesAdded
<1> HIDE DEF more
<1>6. HasRule(more, n, s)
  BY <1>2, <1>4, <1>5, HasRuleAt
<1>7. ASSUME NEW m, NEW t, m # n, HasRule(file, m, t) PROVE HasRule(more, m, t)
  <2>1. CASE t = NoRule
    <3>1. NoLine(file, m)
      BY <1>7, <2>1, HasRuleAt
    <3>2. NoLine(more, m)
      BY <1>1, <1>7, <3>1, RulesAdded DEF more
    <3>3. QED
      BY <1>2, <2>1, <3>2, HasRuleAt
  <2>2. CASE t # NoRule
    <3>1. PICK g : RuleAt(file, m, t, g)
      BY <1>7, <2>2, HasRuleAt
    <3>2. RuleAt(more, m, t, g)
      BY <1>1, <1>7, <3>1, RulesAdded DEF more
    <3>3. QED
      BY <1>2, <2>2, <3>2, HasRuleAt
  <2>3. QED
    BY <2>1, <2>2
<1>8. QED
  BY <1>2, <1>3, <1>6, <1>7 DEF more

-----------------------------------------------------------------------------
(* The invariant                                                           *)

RulePcs == {"remove", "rename", "append"}
RuleTypeOK ==
  /\ cron \in Seq(CronLines) /\ rep \in Seq(CronLines) \cup {NoRule}
  /\ rpc \in [RuleProcs -> RulePcs \cup {"idle"}]
  /\ rarg \in [RuleProcs -> [name : Ruled \cup {NoRule}, sched : Scheds \cup {NoRule}]]
  /\ \A p \in RuleProcs : /\ rpc[p] # "idle" => rarg[p].name \in Ruled
                          /\ rpc[p] = "append" => rarg[p].sched \in Scheds
  /\ told \in [Ruled -> SUBSET (Scheds \cup {NoRule})]
  /\ turns \in BOOLEAN

RulesAlone == \A p, q \in RuleProcs : rpc[p] # "idle" /\ rpc[q] # "idle" => p = q

(* The scratch file that is about to be renamed is the crontab without the *)
(* rule; and the crontab has the rule each dataset may have, but none for  *)
(* the one whose rule is about to be appended.                             *)
RuleFacts ==
  /\ RulesAlone
  /\ \A p \in RuleProcs : rpc[p] = "rename" => rep = RemoveFromFile(cron, rarg[p].name)
  /\ \A n \in Ruled :
       IF \E p \in RuleProcs : rpc[p] = "append" /\ rarg[p].name = n
       THEN NoLine(cron, n) ELSE \E s \in told[n] : HasRule(cron, n, s)

RuleInv == RuleTypeOK /\ (turns => RuleFacts)

LEMMA InitRuleInv == RuleInit => RuleInv
<1> SUFFICES ASSUME RuleInit PROVE RuleInv
  OBVIOUS
<1>1. RuleTypeOK
  BY RuleAssumption DEF RuleInit, RuleTypeOK
<1>2. \A n \in Ruled : \E s \in told[n] : HasRule(cron, n, s)
  <2> TAKE n \in Ruled
  <2>1. PICK s \in Scheds \cup {NoRule} : HasRule(Crontab, n, s)
    BY RuleAssumption
  <2>2. s \in told[n]
    BY <2>1 DEF RuleInit
  <2>3. QED
    BY <2>1, <2>2 DEF RuleInit
<1>3. \A p \in RuleProcs : rpc[p] = "idle"
  BY DEF RuleInit
<1>4. QED
  BY <1>1, <1>2, <1>3 DEF RuleInv, RuleFacts, RulesAlone

LEMMA RuleStepAlone ==
  ASSUME RuleTypeOK, RulesAlone, NEW p \in RuleProcs, rpc[p] # "idle",
         NEW step, rpc' = [rpc EXCEPT ![p] = step]
  PROVE  /\ RulesAlone' /\ rpc'[p] = step
         /\ \A q \in RuleProcs \ {p} : rpc[q] = "idle" /\ rpc'[q] = "idle"
BY DEF RuleTypeOK, RulesAlone

(* A step of the process under way, when calls take turns: the facts hold  *)
(* again if they do for its dataset, and for the others when their rules   *)
(* stay.                                                                   *)
LEMMA RuleStep ==
  ASSUME RuleTypeOK, RuleFacts, NEW p \in RuleProcs, rpc[p] # "idle",
         NEW step, rpc' = [rpc EXCEPT ![p] = step], UNCHANGED rarg,
         \A m \in Ruled \ {rarg[p].name} : told'[m] = told[m],
         \A m, t : m # rarg[p].name /\ HasRule(cron, m, t) => HasRule(cron', m, t),
         step = "rename" => rep' = RemoveFromFile(cron', rarg[p].name),
         IF step = "append" THEN NoLine(cron', rarg[p].name)
         ELSE \E s \in told'[rarg[p].name] : HasRule(cron', rarg[p].name, s)
  PROVE  RuleFacts'
<1> DEFINE n == rarg[p].name
<1>1. /\ RulesAlone' /\ rpc'[p] = step
      /\ \A q \in RuleProcs \ {p} : rpc[q] = "idle" /\ rpc'[q] = "idle"
  BY RuleStepAlone DEF RuleFacts
<1>2. ASSUME NEW m \in Ruled
      PROVE  IF \E q \in RuleProcs : rpc'[q] = "append" /\ rarg'[q].name = m
             THEN NoLine(cron', m) ELSE \E s \in told'[m] : HasRule(cron', m, s)
  <2>1. CASE m = n
    <3>1. (\E q \in RuleProcs : rpc'[q] = "append" /\ rarg'[q].name = m) <=> step = "append"
      BY <1>1, <2>1
    <3>2. QED
      BY <2>1, <3>1
  <2>2. CASE m # n
    <3>1. ~\E q \in RuleProcs : rpc[q] = "append" /\ rarg[q].name = m
      BY <1>1, <2>2
    <3>2. PICK s \in told[m] : HasRule(cron, m, s)
      BY <3>1 DEF RuleFacts
    <3>3. s \in told'[m] /\ HasRule(cron', m, s)
      BY <2>2, <3>2
    <3>4. ~\E q \in RuleProcs : rpc'[q] = "append" /\ rarg'[q].name = m
      BY <1>1, <2>2
    <3>5. QED
      BY <3>3, <3>4
  <2>3. QED
    BY <2>1, <2>2
<1>3. \A q \in RuleProcs : rpc'[q] = "rename" => rep' = RemoveFromFile(cron', rarg'[q].name)
  BY <1>1
<1>4. QED
  BY <1>1, <1>2, <1>3 DEF RuleFacts

(* The dataset whose rule is about to be removed has a rule it may have,   *)
(* that whose rule is about to be appended no line.                        *)
LEMMA RuleBefore ==
  ASSUME RuleTypeOK, RuleFacts, NEW p \in RuleProcs, rpc[p] \in {"remove", "rename"}
  PROVE  /\ rarg[p].name \in Ruled
         /\ \E s \in told[rarg[p].name] : HasRule(cron, rarg[p].name, s)
<1>1. rarg[p].name \in Ruled
  BY DEF RuleTypeOK
<1>2. ~\E q \in RuleProcs : rpc[q] = "append" /\ rarg[q].name = rarg[p].name
  BY DEF RuleFacts, RulesAlone
<1>3. QED
  BY <1>1, <1>2 DEF RuleFacts

LEMMA RuleBeforeAppend ==
  ASSUME RuleTypeOK, RuleFacts, NEW p \in RuleProcs, rpc[p] = "append"
  PROVE  rarg[p].name \in Ruled /\ rarg[p].sched \in Scheds /\ NoLine(cron, rarg[p].name)
BY DEF RuleTypeOK, RuleFacts

LEMMA NextRuleType ==
  ASSUME RuleTypeOK, [RuleNext]_ruleVars
  PROVE  RuleTypeOK'
<1> USE DEF RulePcs
<1>1. ASSUME NEW p \in RuleProcs, CallRule(p) PROVE RuleTypeOK'
  <2>1. PICK n \in Ruled, s \in Scheds \cup {NoRule} : rarg' = [rarg EXCEPT ![p] = [name |-> n, sched |-> s]]
    BY <1>1 DEF CallRule
  <2>2. rpc' = [rpc EXCEPT ![p] = "remove"] /\ UNCHANGED <<cron, rep, told>> /\ turns' \in BOOLEAN
    BY <1>1 DEF CallRule, RuleTypeOK
  <2>3. QED
    BY <2>1, <2>2 DEF RuleTypeOK
<1>2. ASSUME NEW p \in RuleProcs, Remove(p) PROVE RuleTypeOK'
  <2>1. RemoveFromFile(cron, rarg[p].name) \in Seq(CronLines)
    BY RemovePicks, PickTyped DEF RuleTypeOK
  <2>2. rep' \in Seq(CronLines) \cup {NoRule} /\ turns' \in BOOLEAN
    BY <1>2, <2>1 DEF Remove, RuleTypeOK
  <2>3. rpc[p] # "idle" /\ rarg[p].name \in Ruled
    BY <1>2 DEF Remove, RuleTypeOK
  <2>4. \E step \in {"idle", "rename", "append"} :
          rpc' = [rpc EXCEPT ![p] = step] /\ (step = "append" => rarg[p].sched \in Scheds)
    BY <1>2 DEF Remove, RuleTypeOK
  <2>5. UNCHANGED <<cron, rarg, told>>
    BY <1>2 DEF Remove
  <2>6. QED
    BY <2>2, <2>3, <2>4, <2>5 DEF RuleTypeOK
<1>3. ASSUME NEW p \in RuleProcs, RenameOver(p) PROVE RuleTypeOK'
  <2>1. cron' \in Seq(CronLines) /\ rep' \in Seq(CronLines) \cup {NoRule}
    BY <1>3 DEF RenameOver, RuleTypeOK
  <2>2. rarg[p].name \in Ruled /\ UNCHANGED <<rarg, turns>>
    BY <1>3 DEF RenameOver, RuleTypeOK
  <2>3. told' \in [Ruled -> SUBSET (Scheds \cup {NoRule})]
    BY <1>3, <2>2 DEF RenameOver, RuleTypeOK
  <2>4. \E step \in {"idle", "append"} :
          rpc' = [rpc EXCEPT ![p] = step] /\ (step = "append" => rarg[p].sched \in Scheds)
    BY <1>3 DEF RenameOver, RuleTypeOK
  <2>5. QED
    BY <2>1, <2>2, <2>3, <2>4 DEF RuleTypeOK
<1>4. ASSUME NEW p \in RuleProcs, AppendRule(p) PROVE RuleTypeOK'
  <2>1. rarg[p].name \in Ruled /\ rarg[p].sched \in Scheds
    BY <1>4 DEF AppendRule, RuleTypeOK
  <2>2. cron' \in Seq(CronLines)
    <3>1. \A i \in 1 .. 3 : Rule(rarg[p].name, rarg[p].sched)[i] \in CronLines
      BY <2>1 DEF CronLines
    <3>2. Rule(rarg[p].name, rarg[p].sched) \in Seq(CronLines) /\ cron \in Seq(CronLines)
      BY <3>1, RuleTyped DEF RuleTypeOK
    <3>3. cron' = cron \o Rule(rarg[p].name, rarg[p].sched)
      BY <1>4 DEF AppendRule
    <3>4. QED
      BY <3>2, <3>3, ConcatProperties
  <2>3. told' \in [Ruled -> SUBSET (Scheds \cup {NoRule})]
    BY <1>4, <2>1 DEF AppendRule, RuleTypeOK
  <2>4. rpc' = [rpc EXCEPT ![p] = "idle"] /\ UNCHANGED <<rep, rarg, turns>>
    BY <1>4 DEF AppendRule
  <2>5. QED
    BY <2>2, <2>3, <2>4 DEF RuleTypeOK
<1>5. ASSUME NEW p \in RuleProcs, DieRule(p) PROVE RuleTypeOK'
  <2>1. rarg[p].name \in Ruled
    BY <1>5 DEF DieRule, RuleTypeOK
  <2>2. told' \in [Ruled -> SUBSET (Scheds \cup {NoRule})]
    BY <1>5, <2>1 DEF DieRule, RuleTypeOK
  <2>3. rpc' = [rpc EXCEPT ![p] = "idle"] /\ UNCHANGED <<cron, rep, rarg, turns>>
    BY <1>5 DEF DieRule
  <2>4. QED
    BY <2>2, <2>3 DEF RuleTypeOK
<1>6. CASE UNCHANGED ruleVars
  BY <1>6 DEF ruleVars, RuleTypeOK
<1>7. QED
  BY <1>1, <1>2, <1>3, <1>4, <1>5, <1>6 DEF RuleNext

(* What a step of a call writes over the crontab, when calls take turns.   *)
LEMMA RenamedFacts ==
  ASSUME RuleTypeOK, RuleFacts, NEW p \in RuleProcs, RenameOver(p)
  PROVE  /\ rarg[p].name \in Ruled
         /\ NoLine(cron', rarg[p].name) /\ HasRule(cron', rarg[p].name, NoRule)
         /\ Others(cron', rarg[p].name) = Others(cron, rarg[p].name)
         /\ \A m, t : m # rarg[p].name /\ HasRule(cron, m, t) => HasRule(cron', m, t)
<1>1. rpc[p] = "rename"
  BY DEF RenameOver
<1>2. rep = RemoveFromFile(cron, rarg[p].name) /\ cron \in Seq(CronLines)
  BY <1>1 DEF RuleFacts, RuleTypeOK
<1>3. PICK s : rarg[p].name \in Ruled /\ HasRule(cron, rarg[p].name, s)
  BY <1>1, RuleBefore
<1>4. /\ rep \in Seq(CronLines) /\ NoLine(rep, rarg[p].name)
      /\ Others(rep, rarg[p].name) = Others(cron, rarg[p].name)
      /\ \A m, t : m # rarg[p].name /\ HasRule(cron, m, t) => HasRule(rep, m, t)
  BY <1>2, <1>3, RemovalFacts
<1>5. cron' = rep
  <2>1. rep # NoRule
    BY <1>4, RuleAssumption
  <2>2. QED
    BY <2>1 DEF RenameOver
<1>6. HasRule(rep, rarg[p].name, NoRule)
  BY <1>4, HasRuleAt
<1>7. QED
  BY <1>3, <1>4, <1>5, <1>6

LEMMA AppendedFacts ==
  ASSUME RuleTypeOK, RuleFacts, NEW p \in RuleProcs, AppendRule(p)
  PROVE  /\ rarg[p].name \in Ruled /\ HasRule(cron', rarg[p].name, rarg[p].sched)
         /\ Others(cron', rarg[p].name) = Others(cron, rarg[p].name)
         /\ \A m, t : m # rarg[p].name /\ HasRule(cron, m, t) => HasRule(cron', m, t)
<1>1. rpc[p] = "append" /\ cron' = cron \o Rule(rarg[p].name, rarg[p].sched)
  BY DEF AppendRule
<1>2. rarg[p].name \in Ruled /\ rarg[p].sched \in Scheds /\ NoLine(cron, rarg[p].name)
  BY <1>1, RuleBeforeAppend
<1>3. cron \in Seq(CronLines)
  BY DEF RuleTypeOK
<1>4. QED
  BY <1>1, <1>2, <1>3, AdditionFacts

LEMMA NextRuleInv == RuleInv /\ [RuleNext]_ruleVars => RuleInv'
<1> SUFFICES ASSUME RuleInv, [RuleNext]_ruleVars, turns' PROVE RuleFacts'
  BY NextRuleType DEF RuleInv
<1>t. RuleTypeOK /\ (turns => RuleFacts)
  BY DEF RuleInv
<1>1. ASSUME NEW p \in RuleProcs, CallRule(p) PROVE RuleFacts'
  <2>1. /\ turns /\ \A q \in RuleProcs : rpc[q] = "idle"
        /\ rpc' = [rpc EXCEPT ![p] = "remove"] /\ UNCHANGED <<cron, told>>
    BY <1>1 DEF CallRule
  <2>2. /\ rpc'[p] = "remove" /\ \A q \in RuleProcs \ {p} : rpc'[q] = "idle"
    BY <1>t, <2>1 DEF RuleTypeOK
  <2>3. RulesAlone' /\ \A q \in RuleProcs : rpc'[q] \notin {"rename", "append"}
    BY <2>2 DEF RulesAlone
  <2>4. \A n \in Ruled : \E s \in told[n] : HasRule(cron, n, s)
    BY <1>t, <2>1 DEF RuleFacts
  <2>5. QED
    BY <2>1, <2>3, <2>4 DEF RuleFacts
<1>2. ASSUME NEW p \in RuleProcs, Remove(p) PROVE RuleFacts'
  <2>1. /\ turns /\ rpc[p] = "remove" /\ rpc' = [rpc EXCEPT ![p] = "rename"]
        /\ rep' = RemoveFromFile(cron, rarg[p].name) /\ UNCHANGED <<cron, rarg, told>>
    BY <1>2 DEF Remove
  <2>2. \E s \in told[rarg[p].name] : HasRule(cron, rarg[p].name, s)
    BY <1>t, <2>1, RuleBefore
  <2>3. QED
    BY <1>t, <2>1, <2>2, RuleStep
<1>3. ASSUME NEW p \in RuleProcs, RenameOver(p) PROVE RuleFacts'
  <2>1. turns /\ rpc[p] = "rename" /\ UNCHANGED rarg
    BY <1>3 DEF RenameOver
  <2>2. /\ rarg[p].name \in Ruled
        /\ NoLine(cron', rarg[p].name) /\ HasRule(cron', rarg[p].name, NoRule)
        /\ \A m, t : m # rarg[p].name /\ HasRule(cron, m, t) => HasRule(cron', m, t)
    BY <1>t, <1>3, <2>1, RenamedFacts
  <2>3. CASE rarg[p].sched = NoRule
    <3>1. /\ rpc' = [rpc EXCEPT ![p] = "idle"]
          /\ told'[rarg[p].name] = {NoRule}
          /\ \A m \in Ruled \ {rarg[p].name} : told'[m] = told[m]
      BY <1>3, <1>t, <2>2, <2>3 DEF RenameOver, RuleTypeOK
    <3>2. QED
      BY <1>t, <2>1, <2>2, <3>1, RuleStep
  <2>4. CASE rarg[p].sched # NoRule
    <3>1. rpc' = [rpc EXCEPT ![p] = "append"] /\ UNCHANGED told
      BY <1>3, <2>4 DEF RenameOver
    <3>2. QED
      BY <1>t, <2>1, <2>2, <3>1, RuleStep
  <2>5. QED
    BY <2>3, <2>4
<1>4. ASSUME NEW p \in RuleProcs, AppendRule(p) PROVE RuleFacts'
  <2>1. /\ turns /\ rpc[p] = "append" /\ rpc' = [rpc EXCEPT ![p] = "idle"] /\ UNCHANGED rarg
    BY <1>4 DEF AppendRule
  <2>2. /\ rarg[p].name \in Ruled /\ HasRule(cron', rarg[p].name, rarg[p].sched)
        /\ \A m, t : m # rarg[p].name /\ HasRule(cron, m, t) => HasRule(cron', m, t)
    BY <1>t, <1>4, <2>1, AppendedFacts
  <2>3. /\ told'[rarg[p].name] = {rarg[p].sched}
        /\ \A m \in Ruled \ {rarg[p].name} : told'[m] = told[m]
    BY <1>4, <1>t, <2>2 DEF AppendRule, RuleTypeOK
  <2>4. QED
    BY <1>t, <2>1, <2>2, <2>3, RuleStep
<1>5. ASSUME NEW p \in RuleProcs, DieRule(p) PROVE RuleFacts'
  <2>1. turns /\ rpc[p] # "idle" /\ rpc' = [rpc EXCEPT ![p] = "idle"] /\ UNCHANGED <<cron, rarg>>
    BY <1>5 DEF DieRule
  <2>2. /\ rarg[p].name \in Ruled
        /\ told'[rarg[p].name] = IF rpc[p] = "append" THEN {NoRule} ELSE told[rarg[p].name]
        /\ \A m \in Ruled \ {rarg[p].name} : told'[m] = told[m]
    BY <1>5, <1>t, <2>1 DEF DieRule, RuleTypeOK
  <2>3. \E s \in told'[rarg[p].name] : HasRule(cron', rarg[p].name, s)
    <3>1. CASE rpc[p] = "append"
      <4>1. NoLine(cron, rarg[p].name) /\ cron \in Seq(CronLines)
        BY <1>t, <2>1, <3>1, RuleBeforeAppend DEF RuleTypeOK
      <4>2. HasRule(cron, rarg[p].name, NoRule)
        BY <4>1, HasRuleAt
      <4>3. QED
        BY <2>1, <2>2, <3>1, <4>2
    <3>2. CASE rpc[p] \in {"remove", "rename"}
      <4>1. \E s \in told[rarg[p].name] : HasRule(cron, rarg[p].name, s)
        BY <1>t, <2>1, <3>2, RuleBefore
      <4>2. QED
        BY <2>1, <2>2, <3>2, <4>1
    <3>3. QED
      BY <1>t, <2>1, <3>1, <3>2 DEF RuleTypeOK, RulePcs
  <2>4. QED
    BY <1>t, <2>1, <2>2, <2>3, RuleStep
<1>6. CASE UNCHANGED ruleVars
  BY <1>t, <1>6 DEF ruleVars, RuleFacts, RulesAlone
<1>7. QED
  BY <1>1, <1>2, <1>3, <1>4, <1>5, <1>6 DEF RuleNext

LEMMA RuleInvariance == RuleSpec => []RuleInv
<1>1. RuleInit => RuleInv
  BY InitRuleInv
<1>2. RuleInv /\ [RuleNext]_ruleVars => RuleInv'
  BY NextRuleInv
<1>3. QED
  BY <1>1, <1>2, PTL DEF RuleSpec

-----------------------------------------------------------------------------
(* The theorems                                                            *)

(* zfs_snap_rule_set and zfs_snap_rule_delete (2014-2066) leave each       *)
(* dataset the rule it was given, and zfs_snap_rule_get finds it, in a     *)
(* crontab of any length.                                                  *)
THEOREM RuleAsToldTheorem == RuleSpec => []RuleAsTold
<1>1. RuleInv => RuleAsTold
  <2> SUFFICES ASSUME RuleInv, turns, NEW n \in Ruled,
                      \A p \in RuleProcs : rpc[p] # "idle" => rarg[p].name # n
               PROVE  \E s \in told[n] :
                        IF s = NoRule THEN LinesOf(cron, n) = <<>> /\ RuleGet(cron, n) = NoRule
                        ELSE /\ LinesOf(cron, n) = Rule(n, s)
                             /\ RuleGet(cron, n) = [sched |-> s, create |-> Rule(n, s)[2],
                                                    delete |-> Rule(n, s)[3]]
    BY DEF RuleAsTold
  <2>1. RuleFacts /\ cron \in Seq(CronLines)
    BY DEF RuleInv, RuleTypeOK
  <2>2. PICK s \in told[n] : HasRule(cron, n, s)
    BY <2>1 DEF RuleFacts
  <2>3. CASE s = NoRule
    <3>1. NoLine(cron, n)
      BY <2>1, <2>2, <2>3, HasRuleAt
    <3>2. LinesOf(cron, n) = <<>> /\ RuleGet(cron, n) = NoRule
      BY <2>1, <3>1, RuleNotFound
    <3>3. QED
      BY <2>2, <2>3, <3>2
  <2>4. CASE s # NoRule
    <3>1. PICK h : RuleAt(cron, n, s, h)
      BY <2>1, <2>2, <2>4, HasRuleAt
    <3>2. /\ LinesOf(cron, n) = Rule(n, s)
          /\ RuleGet(cron, n) = [sched |-> s, create |-> Rule(n, s)[2], delete |-> Rule(n, s)[3]]
      BY <2>1, <3>1, RuleFound
    <3>3. QED
      BY <2>2, <2>4, <3>2
  <2>5. QED
    BY <2>3, <2>4
<1>2. QED
  BY <1>1, RuleInvariance, PTL

(* remove_from_file (4384) and what is appended behind it leave every line *)
(* of the crontab that is not of the rule the call is about.               *)
THEOREM OthersKeptTheorem == RuleSpec => OthersKept
<1>1. RuleInv /\ [RuleNext]_ruleVars =>
        [turns => \E n \in Ruled : Others(cron', n) = Others(cron, n)]_ruleVars
  <2> SUFFICES ASSUME RuleInv, turns, RuleNext
               PROVE  \E n \in Ruled : Others(cron', n) = Others(cron, n)
    OBVIOUS
  <2>1. RuleTypeOK /\ RuleFacts
    BY DEF RuleInv
  <2>2. ASSUME NEW p \in RuleProcs, CallRule(p) PROVE UNCHANGED cron /\ Ruled # {}
    BY <2>2 DEF CallRule
  <2>3. ASSUME NEW p \in RuleProcs, Remove(p) \/ DieRule(p) PROVE UNCHANGED cron /\ rarg[p].name \in Ruled
    BY <2>1, <2>3 DEF Remove, DieRule, RuleTypeOK
  <2>4. ASSUME NEW p \in RuleProcs, RenameOver(p)
        PROVE  rarg[p].name \in Ruled /\ Others(cron', rarg[p].name) = Others(cron, rarg[p].name)
    BY <2>1, <2>4, RenamedFacts
  <2>5. ASSUME NEW p \in RuleProcs, AppendRule(p)
        PROVE  rarg[p].name \in Ruled /\ Others(cron', rarg[p].name) = Others(cron, rarg[p].name)
    BY <2>1, <2>5, AppendedFacts
  <2>6. QED
    BY <2>2, <2>3, <2>4, <2>5, Zenon DEF RuleNext
<1>2. QED
  BY <1>1, RuleInvariance, PTL DEF RuleSpec, OthersKept
=============================================================================
