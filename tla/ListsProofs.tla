---------------------------- MODULE ListsProofs ----------------------------
(* What Pick leaves of a list, and how a recursive function is reasoned    *)
(* about; for the theorems about the modules that use lists.               *)
EXTENDS Lists, SequenceTheorems, NaturalsInduction, WellFoundedInduction, TLAPS

-----------------------------------------------------------------------------
(* Recursive functions.  That they exist, and what they compute, is shown  *)
(* by the absence of a least number they fail at.                          *)

LEMMA LeastOf ==
  ASSUME NEW T \in SUBSET Nat, T # {}
  PROVE  \E x \in T : \A y \in T : x <= y
<1> DEFINE R == OpToRel(<, Nat)
<1>1. IsWellFoundedOn(R, Nat)
  BY NatLessThanWellFounded
<1>2. \A x, y \in Nat : y < x => <<y, x>> \in R
  BY DEF OpToRel
<1> HIDE DEF R
<1>3. PICK x \in T : \A y \in T : ~ (<<y, x>> \in R)
  BY <1>1, WFMin
<1>4. x \in Nat /\ \A y \in T : y \in Nat
  OBVIOUS
<1>5. \A y \in T : ~ (y < x)
  BY <1>2, <1>3, <1>4, Zenon
<1>6. QED
  BY <1>4, <1>5

(* A set that has every number whose predecessors it has, has all. *)
LEMMA AllBelow ==
  ASSUME NEW n \in Nat, NEW T, 0 \in T, \A i \in 1 .. n : i - 1 \in T => i \in T
  PROVE  0 .. n \subseteq T
<1> DEFINE Bad == {i \in 0 .. n : i \notin T}
<1> SUFFICES ASSUME Bad # {} PROVE FALSE
  OBVIOUS
<1>1. PICK i \in Bad : \A j \in Bad : i <= j
  <2>1. Bad \in SUBSET Nat
    OBVIOUS
  <2> HIDE DEF Bad
  <2>2. QED
    BY <2>1, LeastOf
<1>2. i \in 1 .. n /\ i \notin T /\ i - 1 \in 0 .. n /\ i - 1 < i
  OBVIOUS
<1>3. i - 1 \notin Bad
  <2> HIDE DEF Bad
  <2>1. i - 1 \in Bad => i <= i - 1
    BY <1>1
  <2>2. QED
    BY <2>1, <1>2
<1>4. QED
  BY <1>2, <1>3

PickedTo(file, S, n, out) ==
  out = [i \in 0 .. n |->
          IF i = 0 THEN <<>> ELSE IF i \in S THEN Append(out[i - 1], file[i]) ELSE out[i - 1]]
Picked(file, S) == CHOOSE out : PickedTo(file, S, Len(file), out)

LEMMA PickIsPicked ==
  ASSUME NEW file, NEW S
  PROVE  Pick(file, S) = Picked(file, S)[Len(file)]
BY DEF Pick, Picked, PickedTo

LEMMA PickedStep ==
  ASSUME NEW file, NEW S, NEW n \in Nat, NEW out, PickedTo(file, S, n, out)
  PROVE  /\ out[0] = <<>>
         /\ \A i \in 1 .. n : out[i] = IF i \in S THEN Append(out[i - 1], file[i]) ELSE out[i - 1]
<1> DEFINE F(i) == IF i = 0 THEN <<>> ELSE IF i \in S THEN Append(out[i - 1], file[i]) ELSE out[i - 1]
<1>1. out = [i \in 0 .. n |-> F(i)]
  BY DEF PickedTo
<1> HIDE DEF F
<1>2. \A i \in 0 .. n : out[i] = F(i)
  BY <1>1
<1>3. out[0] = F(0) /\ \A i \in 1 .. n : out[i] = F(i) /\ i # 0
  BY <1>2
<1>4. QED
  BY <1>3 DEF F

LEMMA PickedExists ==
  ASSUME NEW file, NEW S, Len(file) \in Nat
  PROVE  PickedTo(file, S, Len(file), Picked(file, S))
<1> DEFINE T == {n \in Nat : \E out : PickedTo(file, S, n, out)}
<1>1. 0 \in T
  <2> DEFINE out == [i \in 0 .. 0 |-> <<>>]
  <2>1. out = [i \in 0 .. 0 |->
                IF i = 0 THEN <<>> ELSE IF i \in S THEN Append(out[i - 1], file[i]) ELSE out[i - 1]]
    <3>1. \A i \in 0 .. 0 : i = 0
      OBVIOUS
    <3>2. QED
      BY <3>1
  <2>2. PickedTo(file, S, 0, out)
    BY <2>1 DEF PickedTo
  <2>3. QED
    BY <2>2
<1>2. ASSUME NEW n \in 1 .. Len(file), n - 1 \in T PROVE n \in T
  <2>1. PICK old : PickedTo(file, S, n - 1, old)
    BY <1>2
  <2> DEFINE new == [i \in 0 .. n |-> IF i < n THEN old[i]
                                      ELSE IF n \in S THEN Append(old[n - 1], file[n]) ELSE old[n - 1]]
             F(i) == IF i = 0 THEN <<>> ELSE IF i \in S THEN Append(new[i - 1], file[i]) ELSE new[i - 1]
  <2>2. n - 1 \in Nat /\ n \in Nat
    OBVIOUS
  <2>3. \A i \in 0 .. n - 1 : new[i] = old[i]
    BY <2>2
  <2>4. new[n] = IF n \in S THEN Append(old[n - 1], file[n]) ELSE old[n - 1]
    BY <2>2
  <2>5. new = [i \in 0 .. n |-> new[i]]
    OBVIOUS
  <2> HIDE DEF new
  <2>6. /\ old[0] = <<>>
        /\ \A i \in 1 .. n - 1 : old[i] = IF i \in S THEN Append(old[i - 1], file[i]) ELSE old[i - 1]
    BY <2>1, <2>2, PickedStep
  <2>7. \A i \in 0 .. n : new[i] = F(i)
    <3> TAKE i \in 0 .. n
    <3>1. CASE i = 0
      BY <3>1, <2>2, <2>3, <2>6
    <3>2. CASE i \in 1 .. n - 1
      <4>1. i # 0 /\ i \in 0 .. n - 1 /\ i - 1 \in 0 .. n - 1
        BY <3>2, <2>2
      <4>2. QED
        BY <4>1, <3>2, <2>3, <2>6
    <3>3. CASE i = n
      <4>1. n # 0 /\ n - 1 \in 0 .. n - 1
        BY <2>2
      <4>2. QED
        BY <4>1, <3>3, <2>3, <2>4
    <3>4. QED
      BY <3>1, <3>2, <3>3, <2>2
  <2> HIDE DEF F
  <2>8. new = [i \in 0 .. n |-> F(i)]
    BY <2>5, <2>7
  <2>9. PickedTo(file, S, n, new)
    BY <2>8 DEF F, PickedTo
  <2>10. QED
    BY <2>2, <2>9
<1> HIDE DEF T
<1>3. Len(file) \in T
  <2>1. 0 .. Len(file) \subseteq T
    BY <1>1, <1>2, AllBelow
  <2>2. QED
    BY <2>1
<1>4. QED
  BY <1>3 DEF T, Picked

-----------------------------------------------------------------------------
(* What is picked                                                          *)

(* Two sequences of which the same lines are picked, when a line of the    *)
(* one, place by place, either is passed or goes with the next of the      *)
(* other: to[i] is how many of the other have gone by then.                *)
Together(f, S, g, T, to) ==
  /\ to \in [0 .. Len(f) -> 0 .. Len(g)] /\ to[0] = 0 /\ to[Len(f)] = Len(g)
  /\ \A i \in 1 .. Len(f) :
       \/ i \notin S /\ to[i] = to[i - 1]
       \/ /\ to[i] = to[i - 1] + 1
          /\ IF i \in S THEN to[i] \in T /\ f[i] = g[to[i]] ELSE to[i] \notin T

LEMMA SamePick ==
  ASSUME NEW f, NEW g, Len(f) \in Nat, Len(g) \in Nat, NEW S, NEW T, NEW to, Together(f, S, g, T, to)
  PROVE  Pick(f, S) = Pick(g, T)
<1> USE DEF Together
<1> DEFINE a == Picked(f, S)
           b == Picked(g, T)
           Same == {i \in 0 .. Len(f) : a[i] = b[to[i]]}
<1>1. /\ a[0] = <<>>
      /\ \A i \in 1 .. Len(f) : a[i] = IF i \in S THEN Append(a[i - 1], f[i]) ELSE a[i - 1]
  BY PickedExists, PickedStep
<1>2. /\ b[0] = <<>>
      /\ \A i \in 1 .. Len(g) : b[i] = IF i \in T THEN Append(b[i - 1], g[i]) ELSE b[i - 1]
  BY PickedExists, PickedStep
<1>3. 0 \in Same
  BY <1>1, <1>2
<1>4. ASSUME NEW i \in 1 .. Len(f), i - 1 \in Same PROVE i \in Same
  <2>1. /\ a[i] = IF i \in S THEN Append(a[i - 1], f[i]) ELSE a[i - 1]
        /\ i - 1 \in 0 .. Len(f) /\ i \in 0 .. Len(f) /\ a[i - 1] = b[to[i - 1]]
    BY <1>1, <1>4
  <2> HIDE DEF a, b
  <2>2. CASE i \notin S /\ to[i] = to[i - 1]
    BY <2>1, <2>2
  <2>3. CASE /\ to[i] = to[i - 1] + 1
             /\ IF i \in S THEN to[i] \in T /\ f[i] = g[to[i]] ELSE to[i] \notin T
    <3>1. to[i] \in 1 .. Len(g) /\ to[i] - 1 = to[i - 1]
      BY <2>1, <2>3
    <3>2. b[to[i]] = IF to[i] \in T THEN Append(b[to[i - 1]], g[to[i]]) ELSE b[to[i - 1]]
      BY <1>2, <3>1
    <3>3. QED
      BY <2>1, <2>3, <3>2
  <2>4. QED
    BY <2>2, <2>3
<1> HIDE DEF Same
<1>5. 0 .. Len(f) \subseteq Same
  BY <1>3, <1>4, AllBelow
<1>6. Len(f) \in Same
  BY <1>5
<1>7. QED
  BY <1>6, PickIsPicked DEF Same

LEMMA PickAll ==
  ASSUME NEW V, NEW f \in Seq(V), NEW S, 1 .. Len(f) \subseteq S
  PROVE  Pick(f, S) = f
<1> DEFINE a == Picked(f, S)
           Same == {i \in 0 .. Len(f) : a[i] = SubSeq(f, 1, i)}
<1>0. Len(f) \in Nat
  OBVIOUS
<1>1. /\ a[0] = <<>>
      /\ \A i \in 1 .. Len(f) : a[i] = IF i \in S THEN Append(a[i - 1], f[i]) ELSE a[i - 1]
  BY <1>0, PickedExists, PickedStep
<1> HIDE DEF a
<1>2. 0 \in Same
  <2>1. SubSeq(f, 1, 0) = <<>> /\ 0 \in 0 .. Len(f)
    OBVIOUS
  <2>2. QED
    BY <1>1, <2>1
<1>3. ASSUME NEW i \in 1 .. Len(f), i - 1 \in Same PROVE i \in Same
  <2>1. a[i] = Append(SubSeq(f, 1, i - 1), f[i])
    BY <1>1, <1>3
  <2>2. Append(SubSeq(f, 1, i - 1), f[i]) = SubSeq(f, 1, i)
    OBVIOUS
  <2>3. QED
    BY <2>1, <2>2
<1> HIDE DEF Same
<1>4. 0 .. Len(f) \subseteq Same
  BY <1>0, <1>2, <1>3, AllBelow
<1>5. Len(f) \in Same
  BY <1>0, <1>4
<1>6. SubSeq(f, 1, Len(f)) = f
  OBVIOUS
<1>7. QED
  BY <1>5, <1>6, PickIsPicked DEF Same, a

LEMMA PickTyped ==
  ASSUME NEW V, NEW file \in Seq(V), NEW S
  PROVE  Pick(file, S) \in Seq(V)
<1> DEFINE a == Picked(file, S)
           Right == {i \in 0 .. Len(file) : a[i] \in Seq(V)}
<1>0. Len(file) \in Nat
  OBVIOUS
<1>1. /\ a[0] = <<>>
      /\ \A i \in 1 .. Len(file) : a[i] = IF i \in S THEN Append(a[i - 1], file[i]) ELSE a[i - 1]
  BY <1>0, PickedExists, PickedStep
<1> HIDE DEF a
<1>2. 0 \in Right
  <2>1. <<>> \in Seq(V) /\ 0 \in 0 .. Len(file)
    BY <1>0
  <2>2. QED
    BY <1>1, <2>1
<1>3. ASSUME NEW i \in 1 .. Len(file), i - 1 \in Right PROVE i \in Right
  <2>1. a[i - 1] \in Seq(V) /\ file[i] \in V /\ i \in 0 .. Len(file)
    BY <1>3
  <2>2. Append(a[i - 1], file[i]) \in Seq(V)
    BY <2>1
  <2>3. QED
    BY <1>1, <2>1, <2>2
<1> HIDE DEF Right
<1>4. 0 .. Len(file) \subseteq Right
  BY <1>0, <1>2, <1>3, AllBelow
<1>5. Len(file) \in Right
  BY <1>0, <1>4
<1>6. QED
  BY <1>5, PickIsPicked DEF Right, a
=============================================================================
