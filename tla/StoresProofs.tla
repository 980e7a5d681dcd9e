---------------------------- MODULE StoresProofs ----------------------------
(* Theorems about the four small stores: Spwd, for any users spwd.db was   *)
(* built from, any number of logins at once, and any number of calls and   *)
(* deaths; LoginClasses, for any names, entries and calls; NetNames, for   *)
(* any names, resolvers and processes, any number of calls and deaths, and *)
(* whether or not anything is refused; and NgctlSave, for any graphs and   *)
(* processes.                                                              *)
EXTENDS Spwd, LoginClasses, NetNames, NgctlSave, ListsProofs, FiniteSetTheorems

-----------------------------------------------------------------------------
(* Users, sessions and master.passwd                                       *)

Kinds == {"add", "set", "del"}
Steps == {"clear", "rewrite", "append", "close"}

(* What is known of the call that runs before numbers are looked at. *)
Running == \E num : adm \in [step : Steps, kind : Kinds, old : Names, rec : Records, num : {num}]

StepsOf == [add |-> {"close", "append"}, set |-> {"rewrite", "append", "close"},
            del |-> {"clear", "rewrite", "close"}]

Files ==
  /\ byname \in [Names -> Records \cup {None}]
  /\ byuid \in [Uids -> Records \cup {None}]
  /\ master \subseteq Records
  /\ died \subseteq Uids

Call ==
  adm # Idle =>
    /\ Running /\ adm.step \in StepsOf[adm.kind]
    /\ adm.kind = "add" /\ adm.step = "close" =>
         adm.rec.name = adm.old /\ byuid[adm.rec.uid] = None
    /\ adm.kind # "add" => adm.rec.uid \in Shown /\ byuid[adm.rec.uid] # None
    /\ adm.kind = "set" => byuid[adm.rec.uid].name = adm.old
    /\ adm.kind = "del" => byuid[adm.rec.uid] = adm.rec

(* A name leads to a user that is found by its uid as well. *)
NamesLead ==
  /\ \A n \in Names : Fields(byname[n]) => /\ byname[n].name = n
                                           /\ byuid[byname[n].uid] = byname[n]
  /\ \A u \in Uids : byuid[u] # None => byuid[u].uid = u

FileInv == Files /\ Call /\ NamesLead

-----------------------------------------------------------------------------
(* Sets and uids                                                           *)

(* A set of numbers that is not empty has a least one. *)
LEMMA LeastOne ==
  ASSUME NEW T \in SUBSET Nat, T # {}
  PROVE  MinOf(T) \in T /\ \A y \in T : MinOf(T) <= y
BY LeastOf DEF MinOf

LEMMA Constants ==
  /\ Start \in Nat /\ LastUid \in Nat /\ MaxUid \in Nat
  /\ Start < LastUid /\ LastUid < MaxUid
  /\ Shown \subseteq Uids /\ Uids \subseteq Nat
  /\ None \notin Names /\ None \notin Uids /\ None \notin Shown
  /\ None \notin Pwds /\ None \notin Records /\ None \notin Kinds
  /\ Empty \in Names /\ NewNames \subseteq Names /\ NameArgs \subseteq Names \cup {None}
<1>1. Shown \subseteq Uids /\ Uids \subseteq Nat
  BY ConstantsAssumption DEF Shown, Uids
<1>2. QED
  BY <1>1, ConstantsAssumption DEF Kinds

(* The uid of a new user is free; it is shown if the one asked for is. *)
LEMMA PickedUid ==
  ASSUME Room, NEW given \in Uids \cup {None}
  PROVE  /\ PickUid(given) \in Uids /\ byuid[PickUid(given)] = None
         /\ given = None \/ given <= LastUid => PickUid(given) \in Shown
<1> DEFINE T == {u \in Uids : u >= Start /\ byuid[u] = None}
<1>1. PICK v \in Shown : byuid[v] = None
  BY DEF Room
<1>2. T \in SUBSET Nat /\ v \in T /\ v <= LastUid
  <2>1. v \in Uids /\ v >= Start /\ v <= LastUid
    BY Constants DEF Shown
  <2>2. v \in T
    BY <1>1, <2>1
  <2>3. T \subseteq Uids
    OBVIOUS
  <2> HIDE DEF T
  <2>4. QED
    BY <2>1, <2>2, <2>3, Constants
<1>3. MinOf(T) \in T /\ MinOf(T) <= v
  BY <1>2, LeastOne
<1>4. MinOf(T) \in Uids /\ byuid[MinOf(T)] = None /\ MinOf(T) \in Shown
  <2>1. MinOf(T) \in Nat /\ v \in Nat /\ MinOf(T) >= Start
    BY <1>2, <1>3
  <2>2. QED
    BY <1>2, <1>3, <2>1, Constants DEF Shown
<1> HIDE DEF T
<1>5. CASE given \in Uids /\ given >= Start /\ byuid[given] = None
  <2>1. PickUid(given) = given
    BY <1>5 DEF PickUid
  <2>2. given # None /\ given \in Nat
    BY <1>5, Constants
  <2>3. given <= LastUid => given \in Shown
    BY <1>5, <2>2, Constants DEF Shown
  <2>4. QED
    BY <1>5, <2>1, <2>2, <2>3
<1>6. CASE ~(given \in Uids /\ given >= Start /\ byuid[given] = None)
  BY <1>4, <1>6 DEF PickUid, T
<1>7. QED
  BY <1>5, <1>6

LEMMA RecordFacts ==
  ASSUME NEW r \in Records
  PROVE  r # None /\ r.name \in Names /\ r.uid \in Uids /\ r.pwd \in Pwds
BY Constants DEF Records

(* A call goes on at another step as the same call. *)
LEMMA StepFacts ==
  ASSUME Running, NEW s \in Steps, adm' = [adm EXCEPT !.step = s]
  PROVE  /\ Running' /\ adm'.step = s /\ adm' # Idle
         /\ adm'.kind = adm.kind /\ adm'.old = adm.old /\ adm'.rec = adm.rec /\ adm'.num = adm.num
<1>1. PICK num : adm \in [step : Steps, kind : Kinds, old : Names, rec : Records, num : {num}]
  BY DEF Running
<1>2. adm' \in [step : Steps, kind : Kinds, old : Names, rec : Records, num : {num}]
  BY <1>1
<1>3. /\ adm'.step = s /\ adm'.kind = adm.kind /\ adm'.old = adm.old /\ adm'.rec = adm.rec
      /\ adm'.num = adm.num
  BY <1>1
<1>4. adm' # Idle
  BY <1>3 DEF Idle, Steps
<1>5. QED
  BY <1>2, <1>3, <1>4 DEF Running

LEMMA RunningFacts ==
  ASSUME Running
  PROVE  /\ adm.step \in Steps /\ adm.kind \in Kinds /\ adm.old \in Names /\ adm.rec \in Records
         /\ adm.rec # None /\ adm.rec.name \in Names /\ adm.rec.uid \in Uids /\ adm.rec.pwd \in Pwds
<1>1. PICK num : adm \in [step : Steps, kind : Kinds, old : Names, rec : Records, num : {num}]
  BY DEF Running
<1>2. adm.step \in Steps /\ adm.kind \in Kinds /\ adm.old \in Names /\ adm.rec \in Records
  BY <1>1
<1>3. QED
  BY <1>2, RecordFacts

-----------------------------------------------------------------------------
(* Types, names and uids                                                   *)

(* Where spwd.db stands in Init. *)
LEMMA InitFiles ==
  ASSUME Init
  PROVE  /\ \A i \in DOMAIN Passwd : Passwd[i] \in Records /\ byname[Passwd[i].name] = Passwd[i]
         /\ \A n \in Names : byname[n] # None =>
              \E i \in DOMAIN Passwd : byname[n] = Passwd[i] /\ Passwd[i].name = n
         /\ \A u \in Uids : byuid[u] # None =>
              \E i \in DOMAIN Passwd : byuid[u] = Passwd[i] /\ Passwd[i].uid = u
         /\ \A i \in DOMAIN Passwd : /\ byuid[Passwd[i].uid] # None
                                     /\ Passwd[i].uid \in Shown => byuid[Passwd[i].uid] = Passwd[i]
<1>1. /\ Len(Passwd) \in Nat /\ DOMAIN Passwd = 1 .. Len(Passwd)
      /\ \A i \in DOMAIN Passwd : Passwd[i] \in Records
  BY PasswdAssumption
<1>2. \A i \in DOMAIN Passwd : Passwd[i].name \in Names /\ Passwd[i].uid \in Uids /\ Passwd[i] # None
  BY <1>1, RecordFacts
<1>3. ASSUME NEW n \in Names
      PROVE  /\ byname[n] # None => \E i \in DOMAIN Passwd : byname[n] = Passwd[i] /\ Passwd[i].name = n
             /\ \A i \in DOMAIN Passwd : Passwd[i].name = n => byname[n] = Passwd[i]
  <2> DEFINE I == {i \in DOMAIN Passwd : Passwd[i].name = n}
  <2>1. byname[n] = IF I = {} THEN None ELSE Passwd[CHOOSE i \in I : TRUE]
    BY DEF Init
  <2>2. CASE I = {}
    BY <2>1, <2>2
  <2>3. CASE I # {}
    <3>1. PICK j \in DOMAIN Passwd : byname[n] = Passwd[j] /\ Passwd[j].name = n
      BY <2>1, <2>3
    <3>2. \A i \in DOMAIN Passwd : Passwd[i].name = n => i = j
      BY <3>1, PasswdAssumption
    <3>3. QED
      BY <3>1, <3>2
  <2>4. QED
    BY <2>2, <2>3
<1>4. ASSUME NEW u \in Uids
      PROVE  /\ byuid[u] # None => \E i \in DOMAIN Passwd : byuid[u] = Passwd[i] /\ Passwd[i].uid = u
             /\ \A i \in DOMAIN Passwd : Passwd[i].uid = u =>
                  byuid[u] # None /\ (u \in Shown => byuid[u] = Passwd[i])
  <2> DEFINE I == {i \in DOMAIN Passwd : Passwd[i].uid = u}
             m == CHOOSE i \in I : \A j \in I : j <= i
  <2>1. byuid[u] = IF I = {} THEN None ELSE Passwd[m]
    BY DEF Init
  <2>2. CASE I = {}
    BY <2>1, <2>2
  <2>3. CASE I # {}
    <3>1. m \in I
      <4> DEFINE J == {Len(Passwd) - i : i \in I}
      <4>1. PICK a \in I : TRUE
        BY <2>3
      <4>2. I \subseteq 1 .. Len(Passwd)
        BY <1>1
      <4> HIDE DEF I
      <4>3. J \in SUBSET Nat /\ J # {}
        BY <1>1, <4>1, <4>2
      <4>4. PICK x \in J : \A y \in J : x <= y
        BY <4>3, LeastOne, Zenon
      <4>5. PICK k \in I : x = Len(Passwd) - k
        OBVIOUS
      <4>6. \A j \in I : j <= k
        <5>1. TAKE j \in I
        <5>2. Len(Passwd) - j \in J
          OBVIOUS
        <5>3. x <= Len(Passwd) - j
          BY <4>4, <5>2
        <5>4. j \in Nat /\ k \in Nat
          BY <1>1, <4>2
        <5>5. QED
          BY <1>1, <4>5, <5>3, <5>4
      <4>7. QED
        BY <4>6
    <3> HIDE DEF m
    <3>2. m \in DOMAIN Passwd /\ Passwd[m].uid = u /\ byuid[u] = Passwd[m]
      BY <2>1, <2>3, <3>1
    <3>3. ASSUME NEW i \in DOMAIN Passwd, Passwd[i].uid = u, u \in Shown PROVE i = m
      BY <3>2, <3>3, PasswdAssumption
    <3>4. QED
      BY <1>2, <3>2, <3>3
  <2>4. QED
    BY <2>2, <2>3
<1>5. QED
  BY <1>1, <1>2, <1>3, <1>4

LEMMA InitFileInv == Init => FileInv
<1> SUFFICES ASSUME Init PROVE FileInv
  OBVIOUS
<1>1. Files
  <2>1. \A n \in Names : byname[n] \in Records \cup {None}
    BY InitFiles
  <2>2. \A u \in Uids : byuid[u] \in Records \cup {None}
    BY InitFiles
  <2>3. byname \in [Names -> Records \cup {None}]
    <3>1. DOMAIN byname = Names /\ byname = [n \in Names |-> byname[n]]
      BY DEF Init
    <3>2. QED
      BY <2>1, <3>1
  <2>4. byuid \in [Uids -> Records \cup {None}]
    <3>1. byuid = [u \in Uids |-> byuid[u]]
      BY DEF Init
    <3>2. QED
      BY <2>2, <3>1
  <2>5. master \subseteq Records /\ died \subseteq Uids
    BY PasswdAssumption, InitFiles DEF Init
  <2>6. QED
    BY <2>3, <2>4, <2>5 DEF Files
<1>2. Call
  BY DEF Init, Call
<1>3. NamesLead
  <2>1. ASSUME NEW n \in Names, Fields(byname[n])
        PROVE  byname[n].name = n /\ byuid[byname[n].uid] = byname[n]
    BY <2>1, InitFiles DEF Fields
  <2>2. \A u \in Uids : byuid[u] # None => byuid[u].uid = u
    BY InitFiles
  <2>3. QED
    BY <2>1, <2>2 DEF NamesLead
<1>4. QED
  BY <1>1, <1>2, <1>3 DEF FileInv

(* What opening a call remembers. *)
LEMMA OpensFacts ==
  ASSUME FileInv,
         \/ \E n \in NewNames, g \in GivenUids, w \in Pwds : AddOpen(n, g, w)
         \/ \E u \in Shown, a \in NameArgs, w \in Pwds : SetOpen(u, a, w)
         \/ \E u \in Shown : DelOpen(u)
  PROVE  /\ adm = Idle /\ UNCHANGED <<db_vars, master, sessions, login, died, raced>>
         /\ Running' /\ adm' # Idle /\ adm'.step = FirstChange[adm'.kind]
         /\ adm'.kind = "add" =>
              /\ \E g \in GivenUids : adm'.rec.uid = PickUid(g)
              /\ adm'.rec.name = adm'.old /\ adm'.old \in NewNames /\ NumbersOf(adm'.old) = {}
              /\ adm'.num = NewNumber /\ byuid[adm'.rec.uid] = None /\ Room
         /\ adm'.kind # "add" => /\ adm'.rec.uid \in Shown /\ byuid[adm'.rec.uid] # None
                                 /\ adm'.old = byuid[adm'.rec.uid].name
                                 /\ adm'.num = Find(adm'.old).num
         /\ adm'.kind = "set" => adm'.rec.name = adm'.old \/ (Empty \in NameArgs /\ adm'.rec.name = Empty)
         /\ adm'.kind = "del" => adm'.rec = byuid[adm'.rec.uid]
<1> USE DEF FileInv
<1>a. byuid \in [Uids -> Records \cup {None}]
  BY DEF Files
<1>1. ASSUME NEW n \in NewNames, NEW g \in GivenUids, NEW w \in Pwds, AddOpen(n, g, w)
      PROVE  /\ adm = Idle /\ UNCHANGED <<db_vars, master, sessions, login, died, raced>>
             /\ Running' /\ adm' # Idle /\ adm'.step = FirstChange[adm'.kind] /\ adm'.kind = "add"
             /\ adm'.rec.uid = PickUid(g)
             /\ adm'.rec.name = adm'.old /\ adm'.old \in NewNames /\ NumbersOf(adm'.old) = {}
             /\ adm'.num = NewNumber /\ byuid[adm'.rec.uid] = None /\ Room
  <2>1. /\ adm = Idle /\ UNCHANGED <<db_vars, master, sessions, login, died, raced>>
        /\ adm' = [step |-> "close", kind |-> "add", old |-> n, num |-> NewNumber,
                   rec |-> [name |-> n, uid |-> PickUid(g), pwd |-> w]]
        /\ NumbersOf(n) = {} /\ Room
    BY <1>1 DEF AddOpen
  <2>2. PickUid(g) \in Uids /\ byuid[PickUid(g)] = None
    <3>1. g \in Uids \cup {None}
      BY ConstantsAssumption
    <3>2. QED
      BY <2>1, <3>1, PickedUid
  <2>3. [name |-> n, uid |-> PickUid(g), pwd |-> w] \in Records /\ n \in Names
    BY <2>2, Constants DEF Records
  <2>4. /\ adm'.step = "close" /\ adm'.kind = "add" /\ adm'.old = n /\ adm'.num = NewNumber
        /\ adm'.rec = [name |-> n, uid |-> PickUid(g), pwd |-> w]
    BY <2>1
  <2>5. adm' \in [step : Steps, kind : Kinds, old : Names, rec : Records, num : {NewNumber}]
    BY <2>1, <2>3 DEF Steps, Kinds
  <2>6. adm' # Idle
    BY <2>4 DEF Idle
  <2>7. QED
    BY <2>1, <2>2, <2>4, <2>5, <2>6 DEF Running, FirstChange
<1>2. ASSUME NEW u \in Shown, NEW a \in NameArgs, NEW w \in Pwds, SetOpen(u, a, w)
      PROVE  /\ adm = Idle /\ UNCHANGED <<db_vars, master, sessions, login, died, raced>>
             /\ Running' /\ adm' # Idle /\ adm'.step = FirstChange[adm'.kind] /\ adm'.kind = "set"
             /\ adm'.rec.uid = u /\ byuid[u] # None
             /\ adm'.old = byuid[u].name /\ adm'.num = Find(adm'.old).num
             /\ adm'.rec.name = adm'.old \/ (Empty \in NameArgs /\ adm'.rec.name = Empty)
  <2> DEFINE old  == byuid[u].name
             name == IF a = None THEN old ELSE a
             num  == Find(old).num
             rec  == [name |-> name, uid |-> u, pwd |-> w]
  <2>1. /\ adm = Idle /\ UNCHANGED <<db_vars, master, sessions, login, died, raced>>
        /\ adm' = [step |-> "rewrite", kind |-> "set", old |-> old, num |-> num, rec |-> rec]
        /\ byuid[u] # None /\ a \in {None, Empty, old}
    BY <1>2 DEF SetOpen
  <2>2. u \in Uids /\ old \in Names
    BY <1>a, <2>1, RecordFacts, Constants
  <2>3. name \in Names /\ (name = old \/ (Empty \in NameArgs /\ name = Empty))
    BY <2>1, <2>2, Constants
  <2> HIDE DEF old, name, num
  <2>4. rec \in Records
    BY <2>2, <2>3 DEF Records
  <2>5. /\ adm'.step = "rewrite" /\ adm'.kind = "set" /\ adm'.old = old /\ adm'.num = num
        /\ adm'.rec.name = name /\ adm'.rec.uid = u
    BY <2>1
  <2>6. adm' \in [step : Steps, kind : Kinds, old : Names, rec : Records, num : {num}]
    BY <2>1, <2>2, <2>4 DEF Steps, Kinds
  <2>7. adm' # Idle
    BY <2>5 DEF Idle
  <2>8. adm'.old = byuid[u].name /\ adm'.num = Find(adm'.old).num
    BY <2>5 DEF old, num
  <2>9. QED
    BY <2>1, <2>3, <2>5, <2>6, <2>7, <2>8 DEF Running, FirstChange
<1>3. ASSUME NEW u \in Shown, DelOpen(u)
      PROVE  /\ adm = Idle /\ UNCHANGED <<db_vars, master, sessions, login, died, raced>>
             /\ Running' /\ adm' # Idle /\ adm'.step = FirstChange[adm'.kind] /\ adm'.kind = "del"
             /\ adm'.rec = byuid[u] /\ adm'.rec.uid = u /\ byuid[u] # None
             /\ adm'.old = byuid[u].name /\ adm'.num = Find(adm'.old).num
  <2> DEFINE old == byuid[u].name
             num == Find(old).num
  <2>1. /\ adm = Idle /\ UNCHANGED <<db_vars, master, sessions, login, died, raced>>
        /\ adm' = [step |-> "clear", kind |-> "del", old |-> old, num |-> num, rec |-> byuid[u]]
        /\ byuid[u] # None
    BY <1>3 DEF DelOpen
  <2>2. u \in Uids /\ byuid[u] \in Records /\ old \in Names /\ byuid[u].uid = u
    BY <1>a, <2>1, RecordFacts, Constants DEF NamesLead
  <2> HIDE DEF old, num
  <2>3. /\ adm'.step = "clear" /\ adm'.kind = "del" /\ adm'.old = old /\ adm'.num = num
        /\ adm'.rec = byuid[u]
    BY <2>1
  <2>4. adm' \in [step : Steps, kind : Kinds, old : Names, rec : Records, num : {num}]
    BY <2>1, <2>2 DEF Steps, Kinds
  <2>5. adm' # Idle
    BY <2>3 DEF Idle
  <2>6. adm'.old = byuid[u].name /\ adm'.num = Find(adm'.old).num
    BY <2>3 DEF old, num
  <2>7. QED
    BY <2>1, <2>2, <2>3, <2>4, <2>5, <2>6 DEF Running, FirstChange
<1> DEFINE Opened == /\ adm = Idle /\ UNCHANGED <<db_vars, master, sessions, login, died, raced>>
                     /\ Running' /\ adm' # Idle /\ adm'.step = FirstChange[adm'.kind]
<1>4. ASSUME NEW n \in NewNames, NEW g \in GivenUids, NEW w \in Pwds, AddOpen(n, g, w)
      PROVE  /\ Opened /\ adm'.kind = "add" /\ \E h \in GivenUids : adm'.rec.uid = PickUid(h)
             /\ adm'.rec.name = adm'.old /\ adm'.old \in NewNames /\ NumbersOf(adm'.old) = {}
             /\ adm'.num = NewNumber /\ byuid[adm'.rec.uid] = None /\ Room
  BY <1>1, <1>4
<1>5. ASSUME NEW u \in Shown, NEW a \in NameArgs, NEW w \in Pwds, SetOpen(u, a, w)
      PROVE  /\ Opened /\ adm'.kind = "set" /\ adm'.rec.uid \in Shown /\ byuid[adm'.rec.uid] # None
             /\ adm'.old = byuid[adm'.rec.uid].name /\ adm'.num = Find(adm'.old).num
             /\ adm'.rec.name = adm'.old \/ (Empty \in NameArgs /\ adm'.rec.name = Empty)
  BY <1>2, <1>5
<1>6. ASSUME NEW u \in Shown, DelOpen(u)
      PROVE  /\ Opened /\ adm'.kind = "del" /\ adm'.rec.uid \in Shown /\ byuid[adm'.rec.uid] # None
             /\ adm'.old = byuid[adm'.rec.uid].name /\ adm'.num = Find(adm'.old).num
             /\ adm'.rec = byuid[adm'.rec.uid]
  BY <1>3, <1>6
<1>7. CASE \E n \in NewNames, g \in GivenUids, w \in Pwds : AddOpen(n, g, w)
  BY <1>4, <1>7
<1>8. CASE \E u \in Shown, a \in NameArgs, w \in Pwds : SetOpen(u, a, w)
  BY <1>5, <1>8
<1>9. CASE \E u \in Shown : DelOpen(u)
  BY <1>6, <1>9
<1>10. QED
  BY <1>7, <1>8, <1>9

(* The steps of the call that runs. *)
CallSteps == DelClear \/ Rewrite \/ AppendLine \/ Close \/ AdminDies

LEMMA GoesOnFacts ==
  ASSUME FileInv, CallSteps
  PROVE  /\ adm # Idle /\ Running /\ adm.step \in StepsOf[adm.kind] /\ adm.kind \in Kinds
         /\ died' \subseteq Uids
         /\ adm' # Idle =>
              /\ Running' /\ adm'.step \in StepsOf[adm'.kind] /\ UNCHANGED died
              /\ adm'.kind = adm.kind /\ adm'.old = adm.old
              /\ adm'.rec = adm.rec /\ adm'.num = adm.num
              /\ adm.kind = "add" => adm.step = "close" /\ adm'.step = "append"
<1>1. adm # Idle
  BY DEF CallSteps, DelClear, Rewrite, AppendLine, Close, AdminDies, Idle
<1>2. Running /\ adm.step \in StepsOf[adm.kind] /\ died \subseteq Uids
  BY <1>1 DEF FileInv, Files, Call
<1>3. adm.kind \in Kinds /\ adm.rec.uid \in Uids
  BY <1>2, RunningFacts
<1>4. died' \subseteq Uids
  BY <1>2, <1>3 DEF CallSteps, DelClear, Rewrite, AppendLine, Close, AdminDies, Finish
<1>5. ASSUME NEW s \in Steps, adm' = [adm EXCEPT !.step = s], UNCHANGED died,
             s \in StepsOf[adm.kind], adm.kind = "add" => adm.step = "close" /\ s = "append"
      PROVE  /\ Running' /\ adm'.step \in StepsOf[adm'.kind] /\ UNCHANGED died
             /\ adm'.kind = adm.kind /\ adm'.old = adm.old
             /\ adm'.rec = adm.rec /\ adm'.num = adm.num
             /\ adm.kind = "add" => adm.step = "close" /\ adm'.step = "append"
  BY <1>2, <1>5, StepFacts
<1>6. ASSUME adm' # Idle
      PROVE  \E s \in Steps :
               /\ adm' = [adm EXCEPT !.step = s] /\ UNCHANGED died /\ s \in StepsOf[adm.kind]
               /\ adm.kind = "add" => adm.step = "close" /\ s = "append"
  <2>1. adm.kind \in {"add", "set", "del"}
    BY <1>3 DEF Kinds
  <2>2. CASE DelClear
    BY <1>2, <2>1, <2>2 DEF DelClear, StepsOf, Steps
  <2>3. CASE Rewrite
    <3>1. UNCHANGED died /\ adm.step = "rewrite"
      BY <2>3 DEF Rewrite
    <3>2. adm.kind = "set" \/ adm.kind = "del"
      BY <1>2, <2>1, <3>1 DEF StepsOf
    <3>3. CASE adm.kind = "set"
      <4>1. adm' = [adm EXCEPT !.step = "append"]
        BY <2>3, <3>3 DEF Rewrite
      <4>2. QED
        BY <3>1, <3>3, <4>1 DEF StepsOf, Steps
    <3>4. CASE adm.kind = "del"
      <4>1. adm' = [adm EXCEPT !.step = "close"]
        BY <2>3, <3>4 DEF Rewrite
      <4>2. QED
        BY <3>1, <3>4, <4>1 DEF StepsOf, Steps
    <3>5. QED
      BY <3>2, <3>3, <3>4
  <2>4. CASE AppendLine
    <3>1. adm.step = "append" /\ adm.kind # "add" /\ adm' = [adm EXCEPT !.step = "close"]
          /\ UNCHANGED died
      BY <1>6, <2>4 DEF AppendLine, Finish
    <3>2. adm.kind = "set"
      BY <1>2, <2>1, <3>1 DEF StepsOf
    <3>3. QED
      BY <3>1, <3>2 DEF StepsOf, Steps
  <2>5. CASE Close
    <3>1. adm.step = "close" /\ adm.kind = "add" /\ adm' = [adm EXCEPT !.step = "append"]
          /\ UNCHANGED died
      BY <1>6, <2>5 DEF Close, Finish
    <3>2. QED
      BY <3>1 DEF StepsOf, Steps
  <2>6. CASE AdminDies
    BY <1>6, <2>6 DEF AdminDies
  <2>7. QED
    BY <2>2, <2>3, <2>4, <2>5, <2>6 DEF CallSteps
<1>7. QED
  BY <1>1, <1>2, <1>3, <1>4, <1>5, <1>6

(* What closing spwd.db leaves in two of its indexes. *)
LEMMA ClosedFacts ==
  ASSUME FileInv, Close
  PROVE  /\ adm # Idle /\ Running /\ adm.rec.uid \in Uids /\ adm.rec.name \in Names
         /\ adm.old \in Names
         /\ adm.kind = "add" => adm.rec.name = adm.old /\ byuid[adm.rec.uid] = None
         /\ \A n \in Names : byname'[n] =
              IF adm.kind = "del" THEN IF n = adm.rec.name THEN None ELSE byname[n]
              ELSE IF n = adm.rec.name THEN adm.rec
              ELSE IF n = adm.old THEN None ELSE byname[n]
         /\ \A u \in Uids : byuid'[u] =
              IF u # adm.rec.uid THEN byuid[u] ELSE IF adm.kind = "del" THEN None ELSE adm.rec
         /\ byname' \in [Names -> Records \cup {None}] /\ byuid' \in [Uids -> Records \cup {None}]
<1>1. adm # Idle /\ Running
  BY GoesOnFacts DEF CallSteps
<1>2. /\ adm.rec \in Records /\ adm.rec.uid \in Uids /\ adm.rec.name \in Names /\ adm.old \in Names
      /\ byname \in [Names -> Records \cup {None}] /\ byuid \in [Uids -> Records \cup {None}]
  BY <1>1, RunningFacts DEF FileInv, Files
<1>3. adm.kind = "add" => adm.rec.name = adm.old /\ byuid[adm.rec.uid] = None
  BY <1>1 DEF FileInv, Call, Close
<1>4. CASE adm.kind = "del"
  <2>1. /\ byname' = [byname EXCEPT ![adm.rec.name] = None]
        /\ byuid' = [byuid EXCEPT ![adm.rec.uid] = None]
    BY <1>4 DEF Close, Remove
  <2>2. QED
    BY <1>1, <1>2, <1>3, <1>4, <2>1
<1>5. CASE adm.kind # "del"
  <2>1. /\ byname' = [byname EXCEPT ![adm.old] = None, ![adm.rec.name] = adm.rec]
        /\ byuid' = [byuid EXCEPT ![adm.rec.uid] = adm.rec]
    BY <1>5 DEF Close, Put
  <2>2. QED
    BY <1>1, <1>2, <1>3, <1>5, <2>1
<1>6. QED
  BY <1>4, <1>5

LEMMA NextFileInv == FileInv /\ [Next]_vars => FileInv'
<1> SUFFICES ASSUME FileInv, [Next]_vars PROVE FileInv'
  OBVIOUS
<1>a. Files /\ Call /\ NamesLead
  BY DEF FileInv
<1>b. ASSUME UNCHANGED db_vars, master' \subseteq Records, died' \subseteq Uids PROVE Files' /\ NamesLead'
  BY <1>a, <1>b DEF Files, NamesLead, db_vars, Fields
<1>1. ASSUME UNCHANGED <<db_vars, master, adm, died>> PROVE FileInv'
  <2>1. Files' /\ NamesLead'
    BY <1>a, <1>b, <1>1 DEF Files
  <2>2. Call'
    BY <1>a, <1>1 DEF Call, Running, db_vars
  <2>3. QED
    BY <2>1, <2>2 DEF FileInv
<1>2. CASE \/ \E n \in NewNames, g \in GivenUids, w \in Pwds : AddOpen(n, g, w)
           \/ \E u \in Shown, a \in NameArgs, w \in Pwds : SetOpen(u, a, w)
           \/ \E u \in Shown : DelOpen(u)
  <2>1. /\ UNCHANGED <<db_vars, master, died>>
        /\ Running' /\ adm' # Idle /\ adm'.step = FirstChange[adm'.kind]
        /\ adm'.kind = "add" => adm'.rec.name = adm'.old /\ byuid[adm'.rec.uid] = None
        /\ adm'.kind # "add" => /\ adm'.rec.uid \in Shown /\ byuid[adm'.rec.uid] # None
                                /\ adm'.old = byuid[adm'.rec.uid].name
        /\ adm'.kind = "del" => adm'.rec = byuid[adm'.rec.uid]
    BY <1>2, OpensFacts
  <2>2. Files' /\ NamesLead'
    BY <1>a, <1>b, <2>1 DEF Files
  <2>3. adm'.kind \in Kinds
    BY <2>1 DEF Running
  <2>4. adm'.step \in StepsOf[adm'.kind]
    BY <2>1, <2>3 DEF Kinds, FirstChange, StepsOf
  <2>5. Call'
    BY <2>1, <2>4 DEF Call, db_vars
  <2>6. QED
    BY <2>2, <2>5 DEF FileInv
<1>3. CASE DelClear \/ Rewrite \/ AppendLine \/ AdminDies
  <2>1. UNCHANGED db_vars
    BY <1>3 DEF DelClear, Rewrite, AppendLine, AdminDies
  <2>2. CallSteps
    BY <1>3 DEF CallSteps
  <2>3. master' \subseteq Records
    <3>1. adm.rec \in Records
      BY <2>2, GoesOnFacts, RunningFacts
    <3>2. QED
      BY <1>3, <1>a, <3>1 DEF DelClear, Rewrite, AppendLine, AdminDies, Files
  <2>4. Files' /\ NamesLead'
    BY <1>b, <2>1, <2>2, <2>3, GoesOnFacts
  <2>5. Call'
    <3> SUFFICES ASSUME adm' # Idle PROVE Call'
      BY DEF Call
    <3>1. /\ adm # Idle /\ Running' /\ adm'.step \in StepsOf[adm'.kind]
          /\ adm'.kind = adm.kind /\ adm'.old = adm.old /\ adm'.rec = adm.rec
          /\ adm'.kind = "add" => adm'.step # "close"
      BY <2>2, GoesOnFacts
    <3>2. byuid' = byuid
      BY <2>1 DEF db_vars
    <3>3. QED
      BY <1>a, <3>1, <3>2 DEF Call
  <2>6. QED
    BY <2>4, <2>5 DEF FileInv
<1>4. CASE Close
  <2>1. Files'
    <3>1. died' \subseteq Uids /\ master' = master
      BY <1>4, GoesOnFacts DEF Close, CallSteps
    <3>2. QED
      BY <1>4, <1>a, <3>1, ClosedFacts DEF Files
  <2>2. Call'
    <3> SUFFICES ASSUME adm' # Idle PROVE Call'
      BY DEF Call
    <3>1. adm.kind = "add"
      BY <1>4 DEF Close, Finish
    <3>2. QED
      BY <1>4, <3>1, GoesOnFacts DEF Call, CallSteps
  <2>3. \A u \in Uids : byuid'[u] # None => byuid'[u].uid = u
    BY <1>4, <1>a, ClosedFacts DEF NamesLead
  <2>4. ASSUME NEW n \in Names, Fields(byname'[n])
        PROVE  byname'[n].name = n /\ byuid'[byname'[n].uid] = byname'[n]
    <3>1. byname'[n] # None /\ byname'[n].uid \in Shown /\ byname'[n].uid \in Uids
      BY <2>4, Constants DEF Fields
    <3>2. CASE adm.kind # "del" /\ n = adm.rec.name
      BY <1>4, <3>1, <3>2, ClosedFacts
    <3>3. CASE ~(adm.kind # "del" /\ n = adm.rec.name)
      <4>1. /\ byname'[n] = byname[n] /\ (adm.kind = "del" => n # adm.rec.name)
            /\ (adm.kind = "set" => n # adm.old)
        BY <1>4, <3>1, <3>3, ClosedFacts
      <4>2. byname[n].name = n /\ byuid[byname[n].uid] = byname[n]
        BY <1>a, <2>4, <4>1 DEF NamesLead
      <4>3. byname[n].uid # adm.rec.uid
        <5>1. adm # Idle /\ adm.kind \in Kinds
          BY <1>4, GoesOnFacts DEF CallSteps
        <5>2. CASE adm.kind = "add"
          BY <1>4, <3>1, <4>1, <4>2, <5>2, ClosedFacts
        <5>3. CASE adm.kind = "set"
          BY <1>a, <4>1, <4>2, <5>1, <5>3 DEF Call
        <5>4. CASE adm.kind = "del"
          BY <1>a, <4>1, <4>2, <5>1, <5>4 DEF Call
        <5>5. QED
          BY <5>1, <5>2, <5>3, <5>4 DEF Kinds
      <4>4. QED
        BY <1>4, <3>1, <4>1, <4>2, <4>3, ClosedFacts
    <3>4. QED
      BY <3>2, <3>3
  <2>5. QED
    BY <2>1, <2>2, <2>3, <2>4 DEF FileInv, NamesLead
<1>5. CASE \E p \in Procs : Login(p)
  <2>1. UNCHANGED <<db_vars, master, adm, died>>
    BY <1>5 DEF Login, LoginRead, LoginClear, LoginPut, LoginDies
  <2>2. QED
    BY <1>1, <2>1
<1>6. CASE UNCHANGED vars
  BY <1>1, <1>6 DEF vars, db_vars
<1>7. QED
  BY <1>2, <1>3, <1>4, <1>5, <1>6 DEF Next, Administer

-----------------------------------------------------------------------------
(* Sessions                                                                *)

(* What holds of a uid of which no login overlapped another or a deletion. *)
OneByOne(u) ==
  /\ HashesOf(u) # {} \/ Busy(u) # {} => byuid[u] # None
  /\ \A h, g \in HashesOf(u) : h = g
  /\ \A p, q \in Busy(u) : p = q
  /\ \A p \in Busy(u) : login[p].step = "put" => HashesOf(u) = {}
  /\ Deleting(u) /\ adm.step # "clear" => HashesOf(u) = {} /\ Busy(u) = {}

SessionTypes ==
  /\ sessions \in [Hashes -> Shown \cup {None}]
  /\ login \in [Procs -> Logins]
  /\ raced \subseteq Shown

SessionInv == FileInv /\ SessionTypes /\ \A u \in Shown \ raced : OneByOne(u)

LEMMA ClearedHash ==
  ASSUME SessionTypes, NEW u \in Shown, ClearHash(u)
  PROVE  /\ sessions' \in [Hashes -> Shown \cup {None}]
         /\ \A v \in Shown \ {u} : HashesOf(v)' = HashesOf(v)
         /\ HashesOf(u)' \subseteq HashesOf(u)
         /\ (\A h, g \in HashesOf(u) : h = g) => HashesOf(u)' = {}
<1>1. PICK stay \in SUBSET HashesOf(u) :
        /\ 2 * Cardinality(stay) <= Cardinality(HashesOf(u))
        /\ sessions' = [h \in Hashes |-> IF h \in HashesOf(u) \ stay THEN None ELSE sessions[h]]
  BY DEF ClearHash
<1>2. \A h \in Hashes : sessions[h] \in Shown \cup {None}
  BY DEF SessionTypes
<1>3. sessions' \in [Hashes -> Shown \cup {None}]
  BY <1>1, <1>2
<1>4. u # None
  BY Constants
<1>5. \A v \in Shown \ {u} : HashesOf(v)' = HashesOf(v)
  <2>1. \A v \in Shown : v # None
    BY Constants
  <2>2. \A h \in HashesOf(u) : sessions[h] = u
    BY DEF HashesOf
  <2>3. ASSUME NEW v \in Shown \ {u}, NEW h \in Hashes PROVE sessions'[h] = v <=> sessions[h] = v
    BY <1>1, <2>1, <2>2
  <2>4. QED
    BY <2>3 DEF HashesOf
<1>6. HashesOf(u)' = stay
  <2>1. \A h \in Hashes : sessions'[h] = u <=> h \in stay
    BY <1>1, <1>4 DEF HashesOf
  <2>2. stay \subseteq Hashes
    BY <1>1 DEF HashesOf
  <2>3. QED
    BY <2>1, <2>2 DEF HashesOf
<1>7. ASSUME \A h, g \in HashesOf(u) : h = g PROVE stay = {}
  <2>1. SUFFICES ASSUME NEW h \in stay PROVE FALSE
    OBVIOUS
  <2>2. stay = {h} /\ HashesOf(u) = {h}
    BY <1>1, <1>7, <2>1
  <2>3. Cardinality({h}) = 1
    BY FS_Singleton
  <2>4. QED
    BY <1>1, <2>2, <2>3
<1>8. QED
  BY <1>1, <1>3, <1>5, <1>6, <1>7

(* A uid that no step touches stays as it is. *)
LEMMA UidUntouched ==
  ASSUME NEW u \in Shown, OneByOne(u),
         HashesOf(u)' = HashesOf(u), Busy(u)' = Busy(u),
         \A p \in Busy(u) : login'[p].step = login[p].step,
         byuid[u] # None => byuid'[u] # None \/ (HashesOf(u) = {} /\ Busy(u) = {}),
         Deleting(u)' /\ adm'.step # "clear" => Deleting(u) /\ adm.step # "clear"
  PROVE  OneByOne(u)'
BY DEF OneByOne

LEMMA LoginRecords ==
  ASSUME SessionTypes, NEW p \in Procs
  PROVE  /\ login[p].step \in {"idle", "clear", "put"}
         /\ login[p].step = "idle" <=> login[p].uid = None
         /\ login[p].step # "idle" => login[p].uid \in Shown
<1>1. login[p] \in [step : {"idle"}, uid : {None}] \cup [step : {"clear", "put"}, uid : Shown]
  BY DEF SessionTypes, Logins
<1>2. QED
  BY <1>1, Constants

LEMMA NextSessionInv == SessionInv /\ [Next]_vars => SessionInv'
<1> SUFFICES ASSUME SessionInv, [Next]_vars PROVE SessionInv'
  OBVIOUS
<1>a. FileInv /\ FileInv' /\ SessionTypes /\ \A u \in Shown \ raced : OneByOne(u)
  BY NextFileInv DEF SessionInv
<1>b. \A u \in Shown : u # None
  BY Constants
<1>1. ASSUME UNCHANGED <<sessions, login, raced>>,
             \A u \in Shown \ raced :
               byuid[u] # None => byuid'[u] # None \/ (HashesOf(u) = {} /\ Busy(u) = {}),
             \A u \in Shown :
               Deleting(u)' /\ adm'.step # "clear" => Deleting(u) /\ adm.step # "clear"
      PROVE  SessionInv'
  <2>1. ASSUME NEW u \in Shown, u \notin raced PROVE OneByOne(u)'
    <3>1. OneByOne(u) /\ HashesOf(u)' = HashesOf(u) /\ Busy(u)' = Busy(u)
      BY <1>a, <1>1, <2>1 DEF HashesOf, Busy
    <3>2. QED
      BY <1>1, <2>1, <3>1, UidUntouched
  <2>2. QED
    BY <1>a, <1>1, <2>1 DEF SessionInv, SessionTypes
<1>2. CASE UNCHANGED vars
  BY <1>1, <1>2 DEF vars, Deleting
<1>3. CASE \/ \E n \in NewNames, g \in GivenUids, w \in Pwds : AddOpen(n, g, w)
           \/ \E u \in Shown, a \in NameArgs, w \in Pwds : SetOpen(u, a, w)
           \/ \E u \in Shown : DelOpen(u)
  <2>1. /\ UNCHANGED <<sessions, login, raced, byuid>>
        /\ adm'.step = FirstChange[adm'.kind]
    BY <1>3, <1>a, OpensFacts DEF db_vars
  <2>2. \A u \in Shown : Deleting(u)' => adm'.step = "clear"
    BY <2>1 DEF Deleting, FirstChange
  <2>3. QED
    BY <1>1, <2>1, <2>2
<1>4. CASE Rewrite \/ AppendLine \/ AdminDies
  <2>1. UNCHANGED <<sessions, login, raced, byuid>>
    BY <1>4 DEF Rewrite, AppendLine, AdminDies, db_vars
  <2>2. adm' # Idle => adm'.kind = adm.kind /\ adm'.rec = adm.rec
    BY <1>4, <1>a, GoesOnFacts DEF CallSteps
  <2>3. ASSUME NEW u \in Shown, Deleting(u)' PROVE Deleting(u) /\ adm.step # "clear"
    <3>1. adm' # Idle
      BY <2>3, Constants DEF Deleting, Idle, Kinds
    <3>2. adm.step # "clear"
      BY <1>4, <3>1 DEF Rewrite, AppendLine, AdminDies
    <3>3. QED
      BY <2>2, <2>3, <3>1, <3>2 DEF Deleting
  <2>4. QED
    BY <1>1, <2>1, <2>3
<1>5. CASE Close
  <2>1. UNCHANGED <<sessions, login, raced>> /\ adm.step = "close" /\ adm # Idle
    BY <1>5, <1>a, ClosedFacts DEF Close
  <2>2. ASSUME NEW u \in Shown \ raced, byuid[u] # None
        PROVE  byuid'[u] # None \/ (HashesOf(u) = {} /\ Busy(u) = {})
    <3>1. byuid'[u] = IF u # adm.rec.uid THEN byuid[u] ELSE IF adm.kind = "del" THEN None ELSE adm.rec
      BY <1>5, <1>a, ClosedFacts, Constants
    <3>2. adm.rec # None
      BY <1>5, <1>a, ClosedFacts, RunningFacts
    <3>3. CASE u = adm.rec.uid /\ adm.kind = "del"
      BY <1>a, <2>1, <3>3 DEF OneByOne, Deleting
    <3>4. CASE ~(u = adm.rec.uid /\ adm.kind = "del")
      BY <2>2, <3>1, <3>2, <3>4
    <3>5. QED
      BY <3>3, <3>4
  <2>3. \A u \in Shown : ~Deleting(u)'
    <3>1. adm' # Idle => adm'.kind = "add"
      BY <1>5, <1>a, GoesOnFacts DEF Close, Finish, CallSteps
    <3>2. CASE adm' = Idle
      BY <3>2, Constants DEF Deleting, Idle, Kinds
    <3>3. CASE adm' # Idle
      BY <3>1, <3>3 DEF Deleting
    <3>4. QED
      BY <3>2, <3>3
  <2>4. QED
    BY <1>1, <2>1, <2>2, <2>3
<1>6. CASE DelClear
  <2>1. /\ adm.step = "clear" /\ adm # Idle /\ Running /\ adm.step \in StepsOf[adm.kind] /\ adm.kind \in Kinds
        /\ adm' = [adm EXCEPT !.step = "rewrite"] /\ UNCHANGED <<login, byuid>>
    BY <1>6, <1>a, GoesOnFacts DEF DelClear, CallSteps, db_vars
  <2>2. PICK u \in Shown : u = adm.rec.uid /\ adm.kind = "del"
    <3>1. adm.kind = "del"
      BY <2>1 DEF StepsOf, Kinds
    <3>2. QED
      BY <1>a, <2>1, <3>1 DEF FileInv, Call
  <2>3. adm'.kind = "del" /\ adm'.rec = adm.rec /\ adm'.step = "rewrite"
    BY <2>1, <2>2, StepFacts DEF Steps
  <2>4. ClearHash(u)
    BY <1>6, <2>2 DEF DelClear
  <2>5. raced' = IF Busy(u) # {} THEN raced \cup {u}
                 ELSE IF \E h \in Hashes : sessions'[h] = u THEN raced ELSE raced \ {u}
    BY <1>6, <2>2 DEF DelClear
  <2>6. /\ sessions' \in [Hashes -> Shown \cup {None}]
        /\ \A v \in Shown \ {u} : HashesOf(v)' = HashesOf(v)
        /\ HashesOf(u)' \subseteq HashesOf(u)
        /\ (\A h, g \in HashesOf(u) : h = g) => HashesOf(u)' = {}
    BY <1>a, <2>2, <2>4, ClearedHash
  <2>7. \A v \in Shown : Busy(v)' = Busy(v)
    BY <2>1 DEF Busy
  <2>8. ASSUME NEW v \in Shown, v \notin raced', v # u PROVE OneByOne(v)'
    <3>1. OneByOne(v) /\ v \notin raced
      BY <1>a, <2>5, <2>8
    <3>2. ~Deleting(v)'
      BY <2>2, <2>3, <2>8 DEF Deleting
    <3>3. QED
      BY <2>1, <2>6, <2>7, <2>8, <3>1, <3>2, UidUntouched
  <2>9. ASSUME u \notin raced' PROVE OneByOne(u)'
    <3>1. Busy(u)' = {}
      BY <2>2, <2>5, <2>7, <2>9
    <3>2. HashesOf(u)' = {}
      <4>1. CASE u \in raced
        BY <2>5, <2>9, <4>1 DEF HashesOf
      <4>2. CASE u \notin raced
        BY <1>a, <2>2, <2>6, <4>2 DEF OneByOne
      <4>3. QED
        BY <4>1, <4>2
    <3>3. QED
      BY <3>1, <3>2 DEF OneByOne
  <2>10. raced' \subseteq Shown
    BY <1>a, <2>2, <2>5 DEF SessionTypes
  <2>11. \A v \in Shown \ raced' : OneByOne(v)'
    BY <2>8, <2>9
  <2>12. QED
    BY <1>a, <2>1, <2>6, <2>10, <2>11 DEF SessionInv, SessionTypes
<1>7. ASSUME NEW p \in Procs, NEW n \in Names, NEW w \in Pwds, LoginRead(p, n, w) PROVE SessionInv'
  <2>0. PICK u \in Shown : u = byname[n].uid
    BY <1>7 DEF LoginRead, Fields
  <2>1. /\ login[p].step = "idle" /\ Fields(byname[n])
        /\ login' = [login EXCEPT ![p] = [step |-> "clear", uid |-> u]]
        /\ raced' = IF Busy(u) # {} \/ Deleting(u) THEN raced \cup {u} ELSE raced
        /\ UNCHANGED <<byuid, sessions, adm>>
    BY <1>7, <2>0 DEF LoginRead, db_vars
  <2>2. byuid[u] = byname[n] /\ byname[n] # None
    BY <1>a, <2>0, <2>1 DEF Fields, FileInv, NamesLead
  <2>3. login \in [Procs -> Logins] /\ [step |-> "clear", uid |-> u] \in Logins
    BY <1>a, <2>2 DEF SessionTypes, Logins
  <2>4. login' \in [Procs -> Logins]
    BY <2>1, <2>3
  <2>5. /\ login'[p].uid = u /\ login'[p].step = "clear"
        /\ \A q \in Procs \ {p} : login'[q] = login[q]
    BY <2>1, <2>3
  <2>6. login[p].uid = None
    BY <1>a, <2>1, LoginRecords
  <2>7. \A v \in Shown : HashesOf(v)' = HashesOf(v)
    BY <2>1 DEF HashesOf
  <2>8. ASSUME NEW v \in Shown, v \notin raced', v # u PROVE OneByOne(v)'
    <3>1. OneByOne(v)
      BY <1>a, <2>1, <2>8
    <3>2. Busy(v)' = Busy(v) /\ p \notin Busy(v)
      BY <1>b, <2>5, <2>6, <2>8 DEF Busy
    <3>3. \A q \in Busy(v) : login'[q].step = login[q].step
      BY <2>5, <3>2 DEF Busy
    <3>4. Deleting(v)' /\ adm'.step # "clear" => Deleting(v) /\ adm.step # "clear"
      BY <2>1 DEF Deleting
    <3>5. QED
      BY <2>1, <2>7, <2>8, <3>1, <3>2, <3>3, <3>4, UidUntouched
  <2>9. ASSUME u \notin raced' PROVE OneByOne(u)'
    <3>1. Busy(u) = {} /\ ~Deleting(u) /\ OneByOne(u)
      BY <1>a, <2>1, <2>2, <2>9
    <3>2. Busy(u)' = {p}
      BY <2>5, <3>1 DEF Busy
    <3>3. ~Deleting(u)' /\ byuid'[u] # None
      BY <2>1, <2>2, <3>1 DEF Deleting
    <3>4. HashesOf(u)' = HashesOf(u)
      BY <2>2, <2>7
    <3>5. QED
      BY <2>5, <3>1, <3>2, <3>3, <3>4 DEF OneByOne
  <2>10. raced' \subseteq Shown
    BY <1>a, <2>1, <2>2 DEF SessionTypes
  <2>11. \A v \in Shown \ raced' : OneByOne(v)'
    BY <2>8, <2>9
  <2>12. QED
    BY <1>a, <2>1, <2>4, <2>10, <2>11 DEF SessionInv, SessionTypes
<1>8. ASSUME NEW p \in Procs, LoginClear(p) PROVE SessionInv'
  <2>0. PICK u \in Shown : u = login[p].uid
    <3>1. login[p].step # "idle"
      BY <1>8 DEF LoginClear
    <3>2. QED
      BY <1>a, <3>1, LoginRecords
  <2>1. /\ login[p].step = "clear" /\ ClearHash(u)
        /\ login' = [login EXCEPT ![p].step = "put"] /\ UNCHANGED <<byuid, adm, raced>>
    BY <1>8, <2>0 DEF LoginClear, db_vars
  <2>3. login[p] \in [step : {"clear", "put"}, uid : Shown]
    BY <1>a, <2>1 DEF SessionTypes, Logins
  <2>4. /\ login'[p].uid = u /\ login'[p].step = "put" /\ login' \in [Procs -> Logins]
        /\ \A q \in Procs \ {p} : login'[q] = login[q]
    BY <1>a, <2>0, <2>1, <2>3 DEF SessionTypes, Logins
  <2>5. /\ sessions' \in [Hashes -> Shown \cup {None}]
        /\ \A v \in Shown \ {u} : HashesOf(v)' = HashesOf(v)
        /\ HashesOf(u)' \subseteq HashesOf(u)
        /\ (\A h, g \in HashesOf(u) : h = g) => HashesOf(u)' = {}
    BY <1>a, <2>1, <2>0, ClearedHash
  <2>6. \A v : Busy(v)' = Busy(v)
    BY <2>0, <2>4 DEF Busy
  <2>7. ASSUME NEW v \in Shown, v \notin raced, v # u PROVE OneByOne(v)'
    <3>1. OneByOne(v) /\ p \notin Busy(v)
      BY <1>a, <2>0, <2>7 DEF Busy
    <3>2. \A q \in Busy(v) : login'[q].step = login[q].step
      BY <2>4, <3>1 DEF Busy
    <3>3. Deleting(v)' /\ adm'.step # "clear" => Deleting(v) /\ adm.step # "clear"
      BY <2>1 DEF Deleting
    <3>4. QED
      BY <2>1, <2>5, <2>6, <2>7, <3>1, <3>2, <3>3, UidUntouched
  <2>8. ASSUME u \notin raced PROVE OneByOne(u)'
    <3>1. OneByOne(u) /\ p \in Busy(u)
      BY <1>a, <2>0, <2>8 DEF Busy
    <3>2. HashesOf(u)' = {} /\ Busy(u)' = Busy(u)
      BY <2>5, <2>6, <3>1 DEF OneByOne
    <3>3. ~(Deleting(u) /\ adm.step # "clear") /\ byuid[u] # None
      BY <3>1 DEF OneByOne
    <3>4. QED
      BY <2>1, <3>1, <3>2, <3>3 DEF OneByOne, Deleting
  <2>9. \A v \in Shown \ raced' : OneByOne(v)'
    BY <2>1, <2>7, <2>8
  <2>10. QED
    BY <1>a, <2>1, <2>4, <2>5, <2>9 DEF SessionInv, SessionTypes
<1>9. ASSUME NEW p \in Procs, LoginPut(p) \/ LoginDies(p) PROVE SessionInv'
  <2>0. PICK u \in Shown : u = login[p].uid
    <3>1. login[p].step # "idle"
      BY <1>9 DEF LoginPut, LoginDies
    <3>2. QED
      BY <1>a, <3>1, LoginRecords
  <2>1. /\ login[p].step = "put" /\ login' = [login EXCEPT ![p] = [step |-> "idle", uid |-> None]]
        /\ UNCHANGED <<byuid, adm, raced>>
    BY <1>9 DEF LoginPut, LoginDies, db_vars
  <2>3. \/ UNCHANGED sessions
        \/ \E h \in Hashes : sessions[h] = None /\ sessions' = [sessions EXCEPT ![h] = u]
    BY <1>9, <2>0 DEF LoginPut, LoginDies
  <2>4. [step |-> "idle", uid |-> None] \in Logins
    BY DEF Logins
  <2>5. /\ login'[p].uid = None /\ login' \in [Procs -> Logins]
        /\ \A q \in Procs \ {p} : login'[q] = login[q]
    BY <1>a, <2>1, <2>4 DEF SessionTypes
  <2>6. /\ sessions' \in [Hashes -> Shown \cup {None}]
        /\ \A v \in Shown \ {u} : HashesOf(v)' = HashesOf(v)
        /\ HashesOf(u)' = HashesOf(u) \/ \E h \in Hashes : HashesOf(u)' = HashesOf(u) \cup {h}
    <3>1. CASE UNCHANGED sessions
      BY <1>a, <3>1 DEF HashesOf, SessionTypes
    <3>2. ASSUME NEW h \in Hashes, sessions[h] = None, sessions' = [sessions EXCEPT ![h] = u]
          PROVE  /\ sessions' \in [Hashes -> Shown \cup {None}]
                 /\ \A v \in Shown \ {u} : HashesOf(v)' = HashesOf(v)
                 /\ HashesOf(u)' = HashesOf(u) \cup {h}
      <4>1. sessions \in [Hashes -> Shown \cup {None}]
        BY <1>a DEF SessionTypes
      <4>2. sessions' \in [Hashes -> Shown \cup {None}]
        BY <2>0, <3>2, <4>1
      <4>3. \A g \in Hashes : sessions'[g] = IF g = h THEN u ELSE sessions[g]
        BY <3>2, <4>1
      <4>4. \A v \in Shown \ {u} : HashesOf(v)' = HashesOf(v)
        BY <1>b, <3>2, <4>3 DEF HashesOf
      <4>5. HashesOf(u)' = HashesOf(u) \cup {h}
        BY <4>3 DEF HashesOf
      <4>6. QED
        BY <4>2, <4>4, <4>5
    <3>3. QED
      BY <2>3, <3>1, <3>2
  <2>7. ASSUME NEW v \in Shown, v \notin raced, v # u PROVE OneByOne(v)'
    <3>1. OneByOne(v) /\ p \notin Busy(v)
      BY <1>a, <2>0, <2>7 DEF Busy
    <3>2. Busy(v)' = Busy(v)
      BY <1>b, <2>5, <3>1 DEF Busy
    <3>3. \A q \in Busy(v) : login'[q].step = login[q].step
      BY <2>5, <3>1 DEF Busy
    <3>4. Deleting(v)' /\ adm'.step # "clear" => Deleting(v) /\ adm.step # "clear"
      BY <2>1 DEF Deleting
    <3>5. QED
      BY <2>1, <2>6, <2>7, <3>1, <3>2, <3>3, <3>4, UidUntouched
  <2>8. ASSUME u \notin raced PROVE OneByOne(u)'
    <3>1. OneByOne(u) /\ p \in Busy(u)
      BY <1>a, <2>0, <2>8 DEF Busy
    <3>2. Busy(u) = {p} /\ HashesOf(u) = {} /\ byuid[u] # None
      BY <2>1, <3>1 DEF OneByOne
    <3>3. Busy(u)' = {}
      <4>1. \A q \in Procs : login'[q].uid # u
        BY <1>b, <2>0, <2>5, <3>2 DEF Busy
      <4>2. QED
        BY <4>1 DEF Busy
    <3>4. \A h, g \in HashesOf(u)' : h = g
      BY <2>6, <3>2
    <3>5. ~(Deleting(u) /\ adm.step # "clear")
      BY <3>1, <3>2 DEF OneByOne
    <3>6. QED
      BY <2>1, <3>2, <3>3, <3>4, <3>5 DEF OneByOne, Deleting
  <2>9. \A v \in Shown \ raced' : OneByOne(v)'
    BY <2>1, <2>7, <2>8
  <2>10. QED
    BY <1>a, <2>1, <2>5, <2>6, <2>9 DEF SessionInv, SessionTypes
<1>10. QED
  BY <1>2, <1>3, <1>4, <1>5, <1>6, <1>7, <1>8, <1>9 DEF Next, Administer, Login

(* Unless logins of a user overlap each other or its deletion, a user has  *)
(* one session at most and a deleted user none, whatever the arguments and *)
(* wherever a call dies (spwd.c:586-588, 620-699, 1127-1147).              *)
THEOREM SessionsFollowUsersTheorem == Spec => []SessionsFollowUsers
<1>1. Init => SessionInv
  <2> SUFFICES ASSUME Init PROVE SessionInv
    OBVIOUS
  <2>1. SessionTypes
    BY DEF Init, SessionTypes, Logins
  <2>2. \A u \in Shown : HashesOf(u) = {} /\ Busy(u) = {}
    BY Constants DEF Init, HashesOf, Busy
  <2>3. QED
    BY <2>1, <2>2, InitFileInv DEF SessionInv, OneByOne
<1>2. SessionInv => SessionsFollowUsers
  <2> SUFFICES ASSUME SessionInv, NEW u \in Shown \ raced
               PROVE  /\ Cardinality(HashesOf(u)) <= 1
                      /\ HashesOf(u) # {} => byuid[u] # None
    BY DEF SessionsFollowUsers
  <2>1. OneByOne(u)
    BY DEF SessionInv
  <2>2. HashesOf(u) = {} \/ \E h : HashesOf(u) = {h}
    BY <2>1 DEF OneByOne
  <2>3. Cardinality(HashesOf(u)) <= 1
    <3>1. Cardinality({}) = 0
      BY FS_EmptySet
    <3>2. \A h : Cardinality({h}) = 1
      BY FS_Singleton
    <3>3. Cardinality(HashesOf(u)) = 0 \/ Cardinality(HashesOf(u)) = 1
      BY <2>2, <3>1, <3>2
    <3>4. QED
      BY <3>3
  <2>4. QED
    BY <2>1, <2>3 DEF OneByOne
<1>3. QED
  BY <1>1, <1>2, NextSessionInv, PTL DEF Spec

-----------------------------------------------------------------------------
(* The three indexes                                                       *)

(* What is asked of the arguments.  spwd_set_entry takes the empty string  *)
(* for a new name and stores it under the number the old name had;         *)
(* spwd_check_pw_name, which looks for a name before it is added, does not *)
(* see users whose uid is not shown; and a uid may be asked for above the  *)
(* last one that is shown.                                                 *)
OrdinaryArguments ==
  /\ Empty \notin NameArgs
  /\ \A i \in DOMAIN Passwd : Passwd[i].uid \notin Shown => Passwd[i].name \notin NewNames
  /\ \A g \in GivenUids : g # None => g <= LastUid

Built == {Passwd[i] : i \in DOMAIN Passwd}
AllNames == {Passwd[i].name : i \in DOMAIN Passwd} \cup NewNames
Most == Len(Passwd) + Cardinality(NewNames)

(* spwd.db holds count users: each has a number, and its name leads to it; *)
(* its uid does where it is shown, and else to one of those that share it. *)
Listed(count) ==
  /\ count \in 0 .. Most
  /\ bynum \in [Numbers -> Records \cup {None}]
  /\ \A i \in Numbers : bynum[i] # None <=> i <= count
  /\ \A i \in 1 .. count :
       /\ bynum[i].name \in AllNames
       /\ byname[bynum[i].name] = bynum[i]
       /\ byuid[bynum[i].uid] # None
       /\ IF bynum[i].uid \in Shown THEN byuid[bynum[i].uid] = bynum[i] ELSE bynum[i] \in Built
       /\ \A j \in 1 .. count : bynum[i].name = bynum[j].name => i = j
  /\ \A n \in Names : byname[n] # None =>
       byname[n].name = n /\ \E i \in 1 .. count : bynum[i] = byname[n]
  /\ \A u \in Uids : byuid[u] # None =>
       byuid[u].uid = u /\ \E i \in 1 .. count : bynum[i] = byuid[u]

(* What the call that runs remembers fits what spwd.db holds. *)
Placed(count) ==
  adm # Idle =>
    /\ adm.num \in Numbers /\ adm.rec.uid \in Shown /\ adm.rec.name = adm.old
    /\ adm.kind = "add" /\ adm.step = "close" =>
         adm.num = count + 1 /\ adm.old \in NewNames /\ byname[adm.old] = None
    /\ adm.kind = "add" /\ adm.step = "append" => byuid[adm.rec.uid] = adm.rec
    /\ adm.kind # "add" => adm.num \in 1 .. count /\ bynum[adm.num] = byuid[adm.rec.uid]

ListedInv == FileInv /\ \E count \in 0 .. Most : Listed(count) /\ Placed(count)

(* The lines of a user that is shown bear its name; between the files the  *)
(* user of the call has none, and at the end of a set the new one.         *)
LinesOf(u) == {l \in master : l.uid = u}

LinesInv ==
  /\ \A l \in master : l.uid \in Shown => byuid[l.uid] # None /\ byuid[l.uid].name = l.name
  /\ adm.kind \in {"add", "set"} /\ adm.step = "append" => LinesOf(adm.rec.uid) = {}
  /\ adm.kind = "set" /\ adm.step = "close" => LinesOf(adm.rec.uid) = {adm.rec}
  /\ adm.kind = "del" /\ adm.step = "close" => LinesOf(adm.rec.uid) = {}

MasterInv == ListedInv /\ LinesInv /\ MasterFollows

(* What a list of count users says of its numbers. *)
LEMMA ListedFacts ==
  ASSUME NEW count \in 0 .. Most, Listed(count)
  PROVE  /\ Most \in Nat /\ count \in Nat /\ Numbers = 1 .. Most + 1
         /\ 1 .. count \subseteq Numbers /\ count + 1 \in Numbers
         /\ \A i \in 1 .. count : /\ i \in Numbers /\ bynum[i] # None /\ bynum[i] \in Records
                                  /\ bynum[i].name \in Names /\ bynum[i].uid \in Uids
<1>1. Most \in Nat /\ Numbers = 1 .. Most + 1
  <2>1. Len(Passwd) \in Nat /\ Cardinality(NewNames) \in Nat
    BY ConstantsAssumption, PasswdAssumption, FS_CardinalityType
  <2>2. QED
    BY <2>1 DEF Most, Numbers
<1>2. count \in Nat /\ 1 .. count \subseteq Numbers /\ count + 1 \in Numbers
  BY <1>1
<1>3. ASSUME NEW i \in 1 .. count
      PROVE  /\ i \in Numbers /\ bynum[i] # None /\ bynum[i] \in Records
             /\ bynum[i].name \in Names /\ bynum[i].uid \in Uids
  <2>1. i \in Numbers /\ i <= count
    BY <1>2
  <2>2. bynum[i] # None /\ bynum[i] \in Records
    BY <2>1 DEF Listed
  <2>3. QED
    BY <2>1, <2>2, RecordFacts
<1>4. QED
  BY <1>1, <1>2, <1>3

(* Users that share a uid are two of those spwd.db was built from, and no  *)
(* other two share one. *)
LEMMA SharedUid ==
  ASSUME NEW count \in 0 .. Most, Listed(count),
         NEW i \in 1 .. count, NEW j \in 1 .. count, i # j, bynum[i].uid = bynum[j].uid,
         NEW k \in 1 .. count \ {j}, NEW l \in 1 .. count \ {j}, bynum[k].uid = bynum[l].uid
  PROVE  k = l
<1>1. ASSUME NEW a \in 1 .. count, NEW b \in 1 .. count, a # b, bynum[a].uid = bynum[b].uid
      PROVE  bynum[a] \in Built /\ bynum[b] \in Built /\ bynum[a].name # bynum[b].name
  BY <1>1 DEF Listed
<1> SUFFICES ASSUME k # l PROVE FALSE
  OBVIOUS
<1>2. /\ bynum[i] \in Built /\ bynum[j] \in Built /\ bynum[i].name # bynum[j].name
      /\ bynum[k] \in Built /\ bynum[l] \in Built /\ bynum[k].name # bynum[l].name
  BY <1>1
<1>3. PICK a, b, c, d \in DOMAIN Passwd :
        bynum[i] = Passwd[a] /\ bynum[j] = Passwd[b] /\ bynum[k] = Passwd[c] /\ bynum[l] = Passwd[d]
  BY <1>2 DEF Built
<1>4. a # b /\ c # d /\ Passwd[a].uid = Passwd[b].uid /\ Passwd[c].uid = Passwd[d].uid
  BY <1>2, <1>3
<1>5. k # j /\ l # j
  OBVIOUS
<1>6. bynum[k].name # bynum[j].name /\ bynum[l].name # bynum[j].name
  BY <1>5 DEF Listed
<1>7. c # b /\ d # b
  BY <1>3, <1>6
<1>8. c = a
  <2>1. ASSUME c # a PROVE FALSE
    <3>1. c \in DOMAIN Passwd \ {a, b} /\ d \in DOMAIN Passwd \ {c}
      BY <1>4, <1>7, <2>1
    <3>2. Passwd[c].uid # Passwd[d].uid
      BY <1>4, <3>1, PasswdAssumption
    <3>3. QED
      BY <1>4, <3>2
  <2>2. QED
    BY <2>1
<1>9. d = a
  <2>1. ASSUME d # a PROVE FALSE
    <3>1. d \in DOMAIN Passwd \ {a, b} /\ c \in DOMAIN Passwd \ {d}
      BY <1>4, <1>7, <2>1
    <3>2. Passwd[d].uid # Passwd[c].uid
      BY <1>4, <3>1, PasswdAssumption
    <3>3. QED
      BY <1>4, <3>2
  <2>2. QED
    BY <2>1
<1>10. QED
  BY <1>4, <1>8, <1>9

(* A set that numbers lead to one by one has as many members. *)
LEMMA AsMany ==
  ASSUME NEW S, NEW T, IsFiniteSet(S), NEW f, f \in [S -> T],
         \A y \in T : \E x \in S : f[x] = y, \A x, y \in S : f[x] = f[y] => x = y
  PROVE  IsFiniteSet(T) /\ Cardinality(T) = Cardinality(S)
<1>1. f \in Surjection(S, T)
  BY DEF Surjection
<1>2. f \in Injection(S, T)
  BY DEF Injection, IsInjective
<1>3. QED
  BY <1>1, <1>2, FS_Surjection

(* The number of keys gives the number of users, by name, uid and number   *)
(* (spwd.c:873-890): of the users that share a uid one has no key of its   *)
(* own, and the version key makes up for it.                               *)
LEMMA CountOfUsers ==
  ASSUME NEW count \in 0 .. Most, Listed(count), Files
  PROVE  UserCount = count /\ NewNumber = count + 1 /\ Keys(bynum) = 1 .. count
<1> DEFINE N == 1 .. count
<1>1. count \in Nat /\ N \subseteq Numbers
  BY ListedFacts
<1>2. IsFiniteSet(N) /\ Cardinality(N) = count
  BY <1>1, FS_Interval
<1>3. Keys(bynum) = N
  <2>1. DOMAIN bynum = Numbers /\ Numbers \subseteq Nat
    BY DEF Listed, Numbers
  <2>2. \A i \in Numbers : i >= 1
    BY DEF Numbers
  <2>3. \A i \in Numbers : bynum[i] # None <=> i \in N
    BY <2>1, <2>2, <1>1 DEF Listed
  <2> HIDE DEF N
  <2>4. QED
    BY <1>1, <2>1, <2>3 DEF Keys
<1>4. Cardinality(Keys(byname)) = count
  <2> DEFINE f == [i \in N |-> bynum[i].name]
  <2>1. DOMAIN byname = Names
    BY DEF Files
  <2>2. \A i \in N : bynum[i].name \in Keys(byname)
    BY <2>1, ListedFacts DEF Keys, Listed
  <2>3. \A n \in Keys(byname) : \E i \in N : bynum[i].name = n
    BY <2>1 DEF Keys, Listed
  <2>4. \A i, j \in N : bynum[i].name = bynum[j].name => i = j
    BY DEF Listed
  <2> HIDE DEF N
  <2>5. f \in [N -> Keys(byname)]
    BY <2>2
  <2>6. \A i, j \in N : f[i] = f[j] => i = j
    BY <2>4
  <2>7. \A n \in Keys(byname) : \E i \in N : f[i] = n
    BY <2>3
  <2> HIDE DEF f
  <2>8. QED
    BY <1>2, <2>5, <2>6, <2>7, AsMany
<1>5. Cardinality(Keys(byuid)) = count \/ (count >= 1 /\ Cardinality(Keys(byuid)) = count - 1)
  <2> DEFINE K == Keys(byuid)
  <2>1. DOMAIN byuid = Uids
    BY DEF Files
  <2>2. \A i \in N : bynum[i].uid \in K
    BY <2>1, ListedFacts DEF Keys, Listed
  <2>3. \A u \in K : \E i \in N : bynum[i].uid = u
    BY <2>1 DEF Keys, Listed
  <2>4. CASE \A i, j \in N : bynum[i].uid = bynum[j].uid => i = j
    <3> DEFINE f == [i \in N |-> bynum[i].uid]
    <3> HIDE DEF N, K
    <3>1. f \in [N -> K]
      BY <2>2
    <3>2. \A i, j \in N : f[i] = f[j] => i = j
      BY <2>4
    <3>3. \A u \in K : \E i \in N : f[i] = u
      BY <2>3
    <3> HIDE DEF f
    <3>4. Cardinality(K) = count
      BY <1>2, <3>1, <3>2, <3>3, AsMany
    <3>5. QED
      BY <3>4 DEF K
  <2>5. CASE \E i, j \in N : i # j /\ bynum[i].uid = bynum[j].uid
    <3>1. PICK i \in N, j \in N : i # j /\ bynum[i].uid = bynum[j].uid
      BY <2>5
    <3>2. \A k, l \in N \ {j} : bynum[k].uid = bynum[l].uid => k = l
      BY <3>1, SharedUid
    <3>3. count >= 1
      BY <1>1, <3>1
    <3> HIDE DEF N, K
    <3> DEFINE S == N \ {j}
               f == [k \in S |-> bynum[k].uid]
    <3>4. IsFiniteSet(S) /\ Cardinality(S) = count - 1
      BY <1>2, FS_RemoveElement
    <3>5. \A u \in K : \E k \in S : bynum[k].uid = u
      <4>1. TAKE u \in K
      <4>2. PICK k \in N : bynum[k].uid = u
        BY <2>3
      <4>3. CASE k = j
        BY <3>1, <4>2, <4>3
      <4>4. CASE k # j
        BY <4>2, <4>4
      <4>5. QED
        BY <4>3, <4>4
    <3>6. \A k \in S : bynum[k].uid \in K
      BY <2>2
    <3>7. \A k, l \in S : bynum[k].uid = bynum[l].uid => k = l
      BY <3>2
    <3> HIDE DEF S
    <3>8. f \in [S -> K]
      BY <3>6
    <3>9. \A u \in K : \E k \in S : f[k] = u
      BY <3>5
    <3>10. \A k, l \in S : f[k] = f[l] => k = l
      BY <3>7
    <3> HIDE DEF f
    <3>11. Cardinality(K) = count - 1
      BY <3>4, <3>8, <3>9, <3>10, AsMany
    <3>12. QED
      BY <3>3, <3>11 DEF K
  <2>6. QED
    BY <2>4, <2>5
<1>6. Cardinality(Keys(bynum)) = count
  BY <1>2, <1>3
<1>7. \A c \in Nat : (1 + c + c + c) \div 3 = c
  OBVIOUS
<1>8. \A c \in Nat : c >= 1 => (1 + c + (c - 1) + c) \div 3 = c
  OBVIOUS
<1>9. UserCount = count
  BY <1>1, <1>4, <1>5, <1>6, <1>7, <1>8 DEF UserCount
<1>10. QED
  BY <1>3, <1>9 DEF NewNumber

(* Looking for the name of a user that is shown finds its number           *)
(* (spwd_check_pw_name, spwd.c:875-931).                                   *)
LEMMA FoundUser ==
  ASSUME NEW count \in 0 .. Most, Listed(count), Files,
         NEW u \in Shown, byuid[u] # None
  PROVE  /\ Find(byuid[u].name).num \in 1 .. count
         /\ bynum[Find(byuid[u].name).num] = byuid[u]
<1> DEFINE name == byuid[u].name
<1>1. u \in Uids
  BY Constants
<1>2. PICK d \in 1 .. count : bynum[d] = byuid[u]
  BY <1>1 DEF Listed
<1>3. byuid[u].uid = u
  BY <1>1 DEF Listed
<1>4. d \in Numbers /\ d <= count + 1 /\ d \in Nat /\ UserCount = count /\ count \in Nat
  <2>1. d \in Numbers /\ UserCount = count /\ count \in Nat
    BY ListedFacts, CountOfUsers
  <2>2. QED
    BY <2>1
<1>5. d \in NumbersOf(name)
  BY <1>2, <1>3, <1>4 DEF NumbersOf, Scanned, Fields
<1>6. ASSUME NEW c \in NumbersOf(name) PROVE c = d
  <2>1. c \in Numbers /\ bynum[c] # None /\ bynum[c].name = name
    BY DEF NumbersOf, Scanned, Fields
  <2>2. c <= count /\ c \in Nat /\ c >= 1
    BY <2>1 DEF Listed, Numbers
  <2>3. c \in 1 .. count
    BY <1>4, <2>2
  <2>4. QED
    BY <1>2, <2>1, <2>3 DEF Listed
<1>7. NumbersOf(name) = {d}
  BY <1>5, <1>6
<1>8. MinOf({d}) = d
  BY <1>4 DEF MinOf
<1> HIDE DEF name
<1>9. Find(name).num = d
  BY <1>7, <1>8 DEF Find
<1>10. QED
  BY <1>2, <1>9 DEF name

(* A new name that is not seen is nobody's. *)
LEMMA FreshName ==
  ASSUME OrdinaryArguments, NEW count \in 0 .. Most, Listed(count), Files,
         NEW name \in NewNames, NumbersOf(name) = {}
  PROVE  byname[name] = None
<1> SUFFICES ASSUME byname[name] # None PROVE FALSE
  OBVIOUS
<1>1. name \in Names
  BY Constants
<1>2. PICK i \in 1 .. count : bynum[i] = byname[name] /\ bynum[i].name = name
  BY <1>1 DEF Listed
<1>3. i \in Numbers /\ i <= count + 1 /\ bynum[i] # None /\ UserCount = count
  BY ListedFacts, CountOfUsers
<1>4. CASE bynum[i].uid \in Shown
  BY <1>2, <1>3, <1>4 DEF NumbersOf, Scanned, Fields
<1>5. CASE bynum[i].uid \notin Shown
  <2>1. bynum[i] \in Built
    BY <1>5 DEF Listed
  <2>2. QED
    BY <1>2, <1>5, <2>1 DEF Built, OrdinaryArguments
<1>6. QED
  BY <1>4, <1>5

(* There is a number for a new user, as no name is used twice. *)
LEMMA RoomForOne ==
  ASSUME NEW count \in 0 .. Most, Listed(count), Files,
         NEW name \in NewNames, byname[name] = None
  PROVE  count + 1 \in 0 .. Most
<1> DEFINE N == 1 .. count
           L == DOMAIN Passwd
           f == [i \in N |-> bynum[i].name]
           T == AllNames \ {name}
<1>1. count \in Nat /\ Most \in Nat
  BY ListedFacts
<1>2. IsFiniteSet(N) /\ Cardinality(N) = count
  BY <1>1, FS_Interval
<1>3. Len(Passwd) \in Nat /\ L = 1 .. Len(Passwd)
  BY PasswdAssumption
<1>4. IsFiniteSet(L) /\ Cardinality(L) = Len(Passwd)
  <2>1. IsFiniteSet(1 .. Len(Passwd)) /\ Cardinality(1 .. Len(Passwd)) = Len(Passwd)
    <3>1. \A n \in Nat : IsFiniteSet(1 .. n) /\ Cardinality(1 .. n) = n
      BY FS_Interval
    <3>2. Len(Passwd) \in Nat
      BY <1>3
    <3>3. QED
      BY <3>1, <3>2, Zenon
  <2> HIDE DEF L
  <2>2. QED
    BY <1>3, <2>1
<1>5. IsFiniteSet(AllNames) /\ Cardinality(AllNames) <= Most /\ Cardinality(AllNames) \in Nat
  <2> DEFINE B == {Passwd[i].name : i \in DOMAIN Passwd}
             g == [i \in L |-> Passwd[i].name]
  <2>1. \A y \in B : \E x \in L : Passwd[x].name = y
    OBVIOUS
  <2>2. \A x, y \in L : Passwd[x].name = Passwd[y].name => x = y
    BY PasswdAssumption
  <2>3. \A x \in L : Passwd[x].name \in B
    OBVIOUS
  <2>4. AllNames = B \cup NewNames
    BY DEF AllNames
  <2> HIDE DEF B, L
  <2>5. g \in [L -> B]
    BY <2>3
  <2>6. \A y \in B : \E x \in L : g[x] = y
    BY <2>1
  <2>7. \A x, y \in L : g[x] = g[y] => x = y
    BY <2>2
  <2> HIDE DEF g
  <2>8. IsFiniteSet(B) /\ Cardinality(B) = Len(Passwd)
    BY <1>4, <2>5, <2>6, <2>7, AsMany
  <2>9. IsFiniteSet(NewNames) /\ Cardinality(NewNames) \in Nat
    BY ConstantsAssumption, FS_CardinalityType
  <2>10. /\ IsFiniteSet(B \cup NewNames)
         /\ Cardinality(B \cup NewNames)
              = Cardinality(B) + Cardinality(NewNames) - Cardinality(B \cap NewNames)
    BY <2>8, <2>9, FS_Union
  <2>11. Cardinality(B \cap NewNames) \in Nat
    BY <2>8, FS_Intersection, FS_CardinalityType
  <2>12. Cardinality(B \cup NewNames) \in Nat
    BY <2>10, FS_CardinalityType
  <2>13. QED
    BY <1>3, <2>4, <2>8, <2>9, <2>10, <2>11, <2>12 DEF Most
<1>6. IsFiniteSet(T) /\ Cardinality(T) = Cardinality(AllNames) - 1
  <2>1. name \in AllNames
    BY DEF AllNames
  <2>2. QED
    BY <1>5, <2>1, FS_RemoveElement
<1>7. \A i \in N : bynum[i].name \in T
  <2>1. TAKE i \in N
  <2>2. bynum[i].name \in AllNames /\ byname[bynum[i].name] = bynum[i] /\ bynum[i] # None
    BY ListedFacts DEF Listed
  <2>3. QED
    BY <2>2
<1>8. \A i, j \in N : bynum[i].name = bynum[j].name => i = j
  BY DEF Listed
<1> HIDE DEF N, T
<1>9. f \in [N -> T]
  BY <1>7
<1>10. \A i, j \in N : f[i] = f[j] => i = j
  BY <1>8
<1> HIDE DEF f
<1>11. f \in Injection(N, T)
  BY <1>9, <1>10 DEF Injection, IsInjective
<1>12. Cardinality(N) <= Cardinality(T)
  BY <1>6, <1>11, FS_Injection
<1>13. QED
  BY <1>1, <1>2, <1>5, <1>6, <1>12

LEMMA InitListed == Init => Listed(Len(Passwd))
<1> SUFFICES ASSUME Init PROVE Listed(Len(Passwd))
  OBVIOUS
<1> DEFINE N == Len(Passwd)
<1>1. N \in Nat /\ DOMAIN Passwd = 1 .. N /\ \A i \in 1 .. N : Passwd[i] \in Records
  BY PasswdAssumption
<1>2. Most \in Nat /\ N <= Most /\ Numbers = 1 .. Most + 1
  <2>1. Cardinality(NewNames) \in Nat
    BY ConstantsAssumption, FS_CardinalityType
  <2>2. QED
    BY <1>1, <2>1 DEF Most, Numbers
<1>3. \A i \in Numbers : bynum[i] = IF i \in 1 .. N THEN Passwd[i] ELSE None
  BY <1>1 DEF Init
<1>4. \A i \in 1 .. N : i \in Numbers /\ bynum[i] = Passwd[i] /\ Passwd[i] # None
  <2>1. \A i \in 1 .. N : i \in Numbers /\ Passwd[i] # None
    BY <1>1, <1>2, RecordFacts
  <2>2. QED
    BY <1>3, <2>1
<1>5. bynum \in [Numbers -> Records \cup {None}]
  <2>1. \A i \in Numbers : bynum[i] \in Records \cup {None}
    BY <1>1, <1>3
  <2>2. bynum = [i \in Numbers |-> bynum[i]]
    BY DEF Init
  <2>3. QED
    BY <2>1, <2>2
<1>6. \A i \in Numbers : bynum[i] # None <=> i <= N
  <2>1. \A i \in Numbers : i \in 1 .. N <=> i <= N
    BY <1>1, <1>2
  <2>2. QED
    BY <1>3, <1>4, <2>1
<1> HIDE DEF N
<1>7. ASSUME NEW i \in 1 .. N
      PROVE  /\ bynum[i].name \in AllNames
             /\ byname[bynum[i].name] = bynum[i]
             /\ byuid[bynum[i].uid] # None
             /\ IF bynum[i].uid \in Shown THEN byuid[bynum[i].uid] = bynum[i] ELSE bynum[i] \in Built
             /\ \A j \in 1 .. N : bynum[i].name = bynum[j].name => i = j
  <2>1. bynum[i] = Passwd[i] /\ i \in DOMAIN Passwd
    BY <1>1, <1>4
  <2>2. Passwd[i].name \in AllNames /\ Passwd[i] \in Built
    BY <2>1 DEF AllNames, Built
  <2>3. /\ byname[Passwd[i].name] = Passwd[i] /\ byuid[Passwd[i].uid] # None
        /\ Passwd[i].uid \in Shown => byuid[Passwd[i].uid] = Passwd[i]
    BY <2>1, InitFiles
  <2>4. ASSUME NEW j \in 1 .. N, bynum[i].name = bynum[j].name PROVE i = j
    <3>1. bynum[j] = Passwd[j] /\ j \in DOMAIN Passwd
      BY <1>1, <1>4
    <3>2. QED
      BY <2>1, <2>4, <3>1, PasswdAssumption
  <2>5. QED
    BY <2>1, <2>2, <2>3, <2>4
<1>8. ASSUME NEW n \in Names, byname[n] # None
      PROVE  byname[n].name = n /\ \E i \in 1 .. N : bynum[i] = byname[n]
  <2>1. PICK i \in DOMAIN Passwd : byname[n] = Passwd[i] /\ Passwd[i].name = n
    BY <1>8, InitFiles
  <2>2. i \in 1 .. N /\ bynum[i] = Passwd[i]
    BY <1>1, <1>4
  <2>3. QED
    BY <2>1, <2>2
<1>9. ASSUME NEW u \in Uids, byuid[u] # None
      PROVE  byuid[u].uid = u /\ \E i \in 1 .. N : bynum[i] = byuid[u]
  <2>1. PICK i \in DOMAIN Passwd : byuid[u] = Passwd[i] /\ Passwd[i].uid = u
    BY <1>9, InitFiles
  <2>2. i \in 1 .. N /\ bynum[i] = Passwd[i]
    BY <1>1, <1>4
  <2>3. QED
    BY <2>1, <2>2
<1>10. N \in 0 .. Most
  BY <1>1, <1>2
<1>11. QED
  BY <1>5, <1>6, <1>7, <1>8, <1>9, <1>10 DEF Listed, N

(* The number remembered for a user that is shown is that user's only.     *)
LEMMA OnlyNumber ==
  ASSUME NEW count \in 0 .. Most, Listed(count), NEW c \in 1 .. count, NEW u \in Shown,
         byuid[u] # None, bynum[c] = byuid[u]
  PROVE  /\ bynum[c].uid = u /\ \A d \in 1 .. count : bynum[d].uid = u => d = c
         /\ \A d \in 1 .. count : bynum[d].name = byuid[u].name => d = c
<1>1. u \in Uids
  BY Constants
<1>2. bynum[c].uid = u
  BY <1>1 DEF Listed
<1>3. ASSUME NEW d \in 1 .. count, bynum[d].uid = u PROVE d = c
  <2>1. byuid[u] = bynum[d]
    BY <1>3 DEF Listed
  <2>2. QED
    BY <2>1 DEF Listed
<1>4. ASSUME NEW d \in 1 .. count, bynum[d].name = byuid[u].name PROVE d = c
  BY <1>4 DEF Listed
<1>5. QED
  BY <1>2, <1>3, <1>4

(* spwd_add_entry: one user more, under the next number (spwd.c:910-996).  *)
LEMMA AddedUser ==
  ASSUME FileInv, NEW count \in 0 .. Most, Listed(count), Placed(count), Close, adm.kind = "add"
  PROVE  count + 1 \in 0 .. Most /\ Listed(count + 1)' /\ byuid'[adm.rec.uid] = adm.rec
<1>1. /\ adm # Idle /\ Running /\ adm.rec.uid \in Uids /\ adm.rec.name \in Names
      /\ adm.rec.name = adm.old /\ byuid[adm.rec.uid] = None
  BY ClosedFacts
<1>2. adm.rec \in Records /\ adm.rec # None
  BY <1>1, RunningFacts
<1>3. /\ adm.rec.uid \in Shown /\ adm.num = count + 1 /\ adm.old \in NewNames
      /\ byname[adm.old] = None
  BY <1>1 DEF Placed, Close
<1>a. Files
  BY DEF FileInv
<1>4. PICK k : k = count + 1
  OBVIOUS
<1>5. k \in 0 .. Most
  BY <1>a, <1>3, <1>4, RoomForOne
<1>6. bynum' = [bynum EXCEPT ![k] = adm.rec] /\ k \in Numbers /\ count \in Nat
  BY <1>3, <1>4, ListedFacts DEF Close, Put
<1>7. bynum \in [Numbers -> Records \cup {None}]
  BY DEF Listed
<1>8. \A i \in Numbers : bynum'[i] = IF i = k THEN adm.rec ELSE bynum[i]
  BY <1>6, <1>7
<1>9. bynum' \in [Numbers -> Records \cup {None}]
  BY <1>2, <1>6, <1>7
<1>10. \A n \in Names : byname'[n] = IF n = adm.old THEN adm.rec ELSE byname[n]
  BY <1>1, <1>3, ClosedFacts
<1>11. \A u \in Uids : byuid'[u] = IF u = adm.rec.uid THEN adm.rec ELSE byuid[u]
  BY <1>3, ClosedFacts
<1>12. \A i \in 1 .. k : i \in Numbers /\ (i = k \/ i \in 1 .. count)
  BY <1>4, <1>6, ListedFacts
<1>13. \A i \in 1 .. count : i \in 1 .. k /\ i # k
  BY <1>4, <1>6
<1>14. k \in 1 .. k
  BY <1>4, <1>6
<1>15. \A i \in Numbers : bynum'[i] # None <=> i <= k
  <2>1. TAKE i \in Numbers
  <2>2. bynum[i] # None <=> i <= count
    BY DEF Listed
  <2>3. i \in Nat
    BY DEF Numbers
  <2>4. i <= k <=> i = k \/ i <= count
    BY <1>4, <1>6, <2>3
  <2>5. QED
    BY <1>2, <1>8, <2>2, <2>4
<1>16. ASSUME NEW i \in 1 .. count
       PROVE  /\ bynum'[i] = bynum[i] /\ bynum[i].name \in Names /\ bynum[i].uid \in Uids
              /\ bynum[i].name # adm.old /\ bynum[i].uid # adm.rec.uid
              /\ byname[bynum[i].name] = bynum[i] /\ bynum[i].name \in AllNames
              /\ byuid[bynum[i].uid] # None
              /\ IF bynum[i].uid \in Shown THEN byuid[bynum[i].uid] = bynum[i]
                 ELSE bynum[i] \in Built
  <2>1. /\ byname[bynum[i].name] = bynum[i] /\ bynum[i].name \in AllNames
        /\ byuid[bynum[i].uid] # None
        /\ IF bynum[i].uid \in Shown THEN byuid[bynum[i].uid] = bynum[i] ELSE bynum[i] \in Built
    BY DEF Listed
  <2>2. bynum[i] # None /\ bynum[i].name \in Names /\ bynum[i].uid \in Uids /\ i \in Numbers
    BY ListedFacts
  <2>3. QED
    BY <1>1, <1>3, <1>8, <1>13, <2>1, <2>2
<1>17. \A i \in 1 .. count : byname'[bynum[i].name] = bynum[i] /\ byuid'[bynum[i].uid] = byuid[bynum[i].uid]
  BY <1>10, <1>11, <1>16
<1>18. bynum'[k] = adm.rec /\ byname'[adm.rec.name] = adm.rec /\ byuid'[adm.rec.uid] = adm.rec
  BY <1>1, <1>6, <1>8, <1>10, <1>11
<1>19. ASSUME NEW i \in 1 .. k
       PROVE  /\ bynum'[i].name \in AllNames
              /\ byname'[bynum'[i].name] = bynum'[i]
              /\ byuid'[bynum'[i].uid] # None
              /\ IF bynum'[i].uid \in Shown THEN byuid'[bynum'[i].uid] = bynum'[i]
                 ELSE bynum'[i] \in Built
              /\ \A j \in 1 .. k : bynum'[i].name = bynum'[j].name => i = j
  <2>1. adm.rec.name \in AllNames
    BY <1>1, <1>3 DEF AllNames
  <2>2. \A a, b \in 1 .. count : bynum[a].name = bynum[b].name => a = b
    BY DEF Listed
  <2>3. \A j \in 1 .. k : bynum'[i].name = bynum'[j].name => i = j
    BY <1>1, <1>12, <1>16, <1>18, <2>2
  <2>4. CASE i = k
    BY <1>2, <1>3, <1>18, <2>1, <2>3, <2>4
  <2>5. CASE i \in 1 .. count
    BY <1>16, <1>17, <2>3, <2>5
  <2>6. QED
    BY <1>12, <2>4, <2>5
<1>20. ASSUME NEW n \in Names, byname'[n] # None
       PROVE  byname'[n].name = n /\ \E i \in 1 .. k : bynum'[i] = byname'[n]
  <2>1. CASE n = adm.old
    BY <1>1, <1>14, <1>18, <2>1
  <2>2. CASE n # adm.old
    <3>1. byname'[n] = byname[n] /\ byname[n].name = n
      BY <1>10, <1>20, <2>2 DEF Listed
    <3>2. PICK i \in 1 .. count : bynum[i] = byname[n]
      BY <1>20, <3>1 DEF Listed
    <3>3. QED
      BY <1>13, <1>16, <3>1, <3>2
  <2>3. QED
    BY <2>1, <2>2
<1>21. ASSUME NEW u \in Uids, byuid'[u] # None
       PROVE  byuid'[u].uid = u /\ \E i \in 1 .. k : bynum'[i] = byuid'[u]
  <2>1. CASE u = adm.rec.uid
    BY <1>1, <1>14, <1>18, <2>1
  <2>2. CASE u # adm.rec.uid
    <3>1. byuid'[u] = byuid[u] /\ byuid[u].uid = u
      BY <1>11, <1>21, <2>2 DEF Listed
    <3>2. PICK i \in 1 .. count : bynum[i] = byuid[u]
      BY <1>21, <3>1 DEF Listed
    <3>3. QED
      BY <1>13, <1>16, <3>1, <3>2
  <2>3. QED
    BY <2>1, <2>2
<1>22. Listed(k)'
  BY <1>5, <1>9, <1>15, <1>19, <1>20, <1>21 DEF Listed
<1>23. QED
  BY <1>4, <1>5, <1>18, <1>22

(* spwd_set_entry: one user gets another record, under its number          *)
(* (spwd.c:590-609).                                                       *)
LEMMA ChangedUser ==
  ASSUME FileInv, NEW count \in 0 .. Most, Listed(count), Placed(count), Close, adm.kind = "set"
  PROVE  Listed(count)'
<1>1. /\ adm # Idle /\ Running /\ adm.rec.uid \in Uids /\ adm.rec.name \in Names
  BY ClosedFacts
<1>2. adm.rec \in Records /\ adm.rec # None
  BY <1>1, RunningFacts
<1>3. /\ adm.rec.uid \in Shown /\ adm.rec.name = adm.old /\ adm.num \in 1 .. count
      /\ bynum[adm.num] = byuid[adm.rec.uid]
  BY <1>1 DEF Placed
<1>4. byuid[adm.rec.uid] # None /\ byuid[adm.rec.uid].name = adm.old
  BY <1>1 DEF FileInv, Call
<1>5. PICK k \in 1 .. count : k = adm.num
  BY <1>3
<1>6. k \in Numbers /\ k \in Nat /\ k <= count
  <2>1. k \in Numbers /\ count \in Nat
    BY ListedFacts
  <2>2. QED
    BY <2>1
<1>7. bynum' = [bynum EXCEPT ![k] = adm.rec] /\ bynum \in [Numbers -> Records \cup {None}]
  BY <1>5 DEF Close, Put, Listed
<1>8. \A i \in Numbers : bynum'[i] = IF i = k THEN adm.rec ELSE bynum[i]
  BY <1>7
<1>9. bynum' \in [Numbers -> Records \cup {None}]
  BY <1>2, <1>7
<1>10. \A n \in Names : byname'[n] = IF n = adm.old THEN adm.rec ELSE byname[n]
  BY <1>3, ClosedFacts
<1>11. \A u \in Uids : byuid'[u] = IF u = adm.rec.uid THEN adm.rec ELSE byuid[u]
  BY <1>3, ClosedFacts
<1>12. \A i \in Numbers : bynum'[i] # None <=> i <= count
  BY <1>2, <1>6, <1>8 DEF Listed
<1>13. bynum[k].name = adm.old /\ bynum[k].uid = adm.rec.uid
  BY <1>1, <1>3, <1>4, <1>5 DEF Listed
<1>14. ASSUME NEW i \in 1 .. count, i # k
       PROVE  /\ bynum'[i] = bynum[i] /\ bynum[i].name # adm.old /\ bynum[i].uid # adm.rec.uid
              /\ byname'[bynum[i].name] = bynum[i] /\ bynum[i].name \in AllNames
              /\ byuid'[bynum[i].uid] # None
              /\ IF bynum[i].uid \in Shown THEN byuid'[bynum[i].uid] = bynum[i]
                 ELSE bynum[i] \in Built
  <2>1. /\ byname[bynum[i].name] = bynum[i] /\ bynum[i].name \in AllNames
        /\ byuid[bynum[i].uid] # None
        /\ IF bynum[i].uid \in Shown THEN byuid[bynum[i].uid] = bynum[i] ELSE bynum[i] \in Built
    BY DEF Listed
  <2>2. bynum[i].name \in Names /\ bynum[i].uid \in Uids /\ i \in Numbers
    BY ListedFacts
  <2>3. bynum[i].name # adm.old /\ bynum[i].uid # adm.rec.uid
    BY <1>3, <1>4, <1>5, <1>14, OnlyNumber
  <2>4. QED
    BY <1>8, <1>10, <1>11, <1>14, <2>1, <2>2, <2>3
<1>15. /\ bynum'[k] = adm.rec /\ byname'[adm.rec.name] = adm.rec /\ byuid'[adm.rec.uid] = adm.rec
       /\ adm.rec.name \in AllNames
  <2>1. adm.rec.name \in AllNames
    BY <1>3, <1>13 DEF Listed
  <2>2. QED
    BY <1>1, <1>3, <1>6, <1>8, <1>10, <1>11, <2>1
<1>16. ASSUME NEW i \in 1 .. count
       PROVE  /\ bynum'[i].name \in AllNames
              /\ byname'[bynum'[i].name] = bynum'[i]
              /\ byuid'[bynum'[i].uid] # None
              /\ IF bynum'[i].uid \in Shown THEN byuid'[bynum'[i].uid] = bynum'[i]
                 ELSE bynum'[i] \in Built
              /\ \A j \in 1 .. count : bynum'[i].name = bynum'[j].name => i = j
  <2>1. \A j \in 1 .. count : bynum'[j].name = bynum[j].name
    BY <1>3, <1>13, <1>14, <1>15
  <2>2. \A j \in 1 .. count : bynum'[i].name = bynum'[j].name => i = j
    BY <2>1 DEF Listed
  <2>3. CASE i = k
    BY <1>2, <1>3, <1>15, <2>2, <2>3
  <2>4. CASE i # k
    BY <1>14, <2>2, <2>4
  <2>5. QED
    BY <2>3, <2>4
<1>17. ASSUME NEW n \in Names, byname'[n] # None
       PROVE  byname'[n].name = n /\ \E i \in 1 .. count : bynum'[i] = byname'[n]
  <2>1. CASE n = adm.old
    BY <1>3, <1>15, <2>1
  <2>2. CASE n # adm.old
    <3>1. byname'[n] = byname[n] /\ byname[n].name = n
      BY <1>10, <1>17, <2>2 DEF Listed
    <3>2. PICK i \in 1 .. count : bynum[i] = byname[n]
      BY <1>17, <3>1 DEF Listed
    <3>3. i # k
      BY <1>13, <2>2, <3>1, <3>2
    <3>4. QED
      BY <1>14, <3>1, <3>2, <3>3
  <2>3. QED
    BY <2>1, <2>2
<1>18. ASSUME NEW u \in Uids, byuid'[u] # None
       PROVE  byuid'[u].uid = u /\ \E i \in 1 .. count : bynum'[i] = byuid'[u]
  <2>1. CASE u = adm.rec.uid
    BY <1>1, <1>15, <2>1
  <2>2. CASE u # adm.rec.uid
    <3>1. byuid'[u] = byuid[u] /\ byuid[u].uid = u
      BY <1>11, <1>18, <2>2 DEF Listed
    <3>2. PICK i \in 1 .. count : bynum[i] = byuid[u]
      BY <1>18, <3>1 DEF Listed
    <3>3. i # k
      BY <1>13, <2>2, <3>1, <3>2
    <3>4. QED
      BY <1>14, <3>1, <3>2, <3>3
  <2>3. QED
    BY <2>1, <2>2
<1>19. QED
  BY <1>9, <1>12, <1>16, <1>17, <1>18 DEF Listed

(* What spwd_del leaves under a number: the users after the deleted one    *)
(* move down by one (spwd.c:1060-1120). *)
LEMMA RemovedNumbers ==
  ASSUME FileInv, NEW count \in 0 .. Most, Listed(count), Placed(count), Close, adm.kind = "del"
  PROVE  /\ adm.num \in 1 .. count
         /\ bynum' = [i \in Numbers |-> IF i < adm.num \/ i > count THEN bynum[i]
                                        ELSE IF i = count THEN None ELSE bynum[i + 1]]
<1>1. adm # Idle
  BY ClosedFacts
<1>2. adm.num \in 1 .. count
  BY <1>1 DEF Placed
<1>3. count \in Nat /\ Numbers = 1 .. Most + 1 /\ Most \in Nat /\ count \in 0 .. Most
  BY ListedFacts
<1> DEFINE num == adm.num
           IsEnd(k) == /\ k >= num /\ \A i \in num + 1 .. k : bynum[i] # None
                       /\ k + 1 \in Numbers => bynum[k + 1] = None
           end == CHOOSE k \in Numbers : IsEnd(k)
<1>4. \A i \in Numbers : bynum[i] # None <=> i <= count
  BY DEF Listed
<1>5. num \in Nat /\ num >= 1 /\ num <= count /\ count \in Numbers
  BY <1>2, <1>3
<1> HIDE DEF num
<1>6. IsEnd(count)
  BY <1>3, <1>4, <1>5
<1>7. ASSUME NEW k \in Numbers, IsEnd(k) PROVE k = count
  <2>1. k \in Nat
    BY <1>3
  <2>2. ASSUME k > count PROVE FALSE
    <3>1. count + 1 \in num + 1 .. k /\ count + 1 \in Numbers
      BY <1>3, <1>5, <2>1, <2>2
    <3>2. QED
      BY <1>3, <1>4, <1>7, <3>1
  <2>3. ASSUME k < count PROVE FALSE
    <3>1. k + 1 \in Numbers /\ k + 1 <= count
      BY <1>3, <2>1, <2>3
    <3>2. QED
      BY <1>4, <1>7, <3>1
  <2>4. QED
    BY <1>3, <2>1, <2>2, <2>3
<1> HIDE DEF IsEnd
<1>8. end = count
  BY <1>5, <1>6, <1>7
<1>9. bynum' = [i \in Numbers |-> IF i < num \/ i > end THEN bynum[i]
                                  ELSE IF i = end THEN None ELSE bynum[i + 1]]
  BY DEF Close, Remove, num, IsEnd
<1>10. QED
  BY <1>2, <1>8, <1>9 DEF num

(* spwd_del_entry: one user less, and the numbers without a gap.           *)
LEMMA DeletedUser ==
  ASSUME FileInv, NEW count \in 0 .. Most, Listed(count), Placed(count), Close, adm.kind = "del"
  PROVE  count - 1 \in 0 .. Most /\ Listed(count - 1)'
<1>1. /\ adm # Idle /\ Running /\ adm.rec.uid \in Uids /\ adm.rec.name \in Names
  BY ClosedFacts
<1>2. /\ adm.rec.uid \in Shown /\ adm.rec.name = adm.old /\ adm.num \in 1 .. count
      /\ bynum[adm.num] = byuid[adm.rec.uid]
  BY <1>1 DEF Placed
<1>3. byuid[adm.rec.uid] # None /\ byuid[adm.rec.uid] = adm.rec
  BY <1>1 DEF FileInv, Call
<1>4. count \in Nat /\ Most \in Nat /\ count <= Most /\ Numbers = 1 .. Most + 1
  BY ListedFacts
<1>5. PICK k \in 1 .. count : k = adm.num
  BY <1>2
<1>6. PICK less : less = count - 1
  OBVIOUS
<1>7. k \in Nat /\ k >= 1 /\ k <= count /\ less \in Nat /\ less + 1 = count /\ less \in 0 .. Most
  BY <1>4, <1>6
<1>8. bynum' = [i \in Numbers |-> IF i < k \/ i > count THEN bynum[i]
                                  ELSE IF i = count THEN None ELSE bynum[i + 1]]
  BY <1>5, RemovedNumbers
<1>9. /\ \A i \in Numbers : i < k \/ i > count => bynum'[i] = bynum[i]
      /\ \A i \in Numbers : i >= k /\ i < count => bynum'[i] = bynum[i + 1] /\ i + 1 \in 1 .. count
      /\ bynum'[count] = None /\ count \in Numbers
  <2>1. count \in Numbers /\ \A i \in Numbers : i \in Nat /\ i >= 1
    BY <1>4, <1>7
  <2>2. \A i \in Numbers : i < k \/ i > count => bynum'[i] = bynum[i]
    BY <1>8
  <2>3. bynum'[count] = None
    BY <1>7, <1>8, <2>1
  <2>4. ASSUME NEW i \in Numbers, i >= k, i < count
        PROVE  bynum'[i] = bynum[i + 1] /\ i + 1 \in 1 .. count
    <3>1. i \in Nat /\ ~(i < k \/ i > count) /\ i # count
      BY <1>7, <2>1, <2>4
    <3>2. QED
      BY <1>7, <1>8, <2>4, <3>1
  <2>5. QED
    BY <2>1, <2>2, <2>3, <2>4
<1>10. \A i \in Numbers : bynum[i] # None <=> i <= count
  BY DEF Listed
<1>11. bynum' \in [Numbers -> Records \cup {None}]
  <2>1. ASSUME NEW i \in Numbers PROVE bynum'[i] \in Records \cup {None}
    <3>1. bynum \in [Numbers -> Records \cup {None}]
      BY DEF Listed
    <3>2. i < k \/ i > count \/ i = count \/ (i >= k /\ i < count)
      BY <1>4, <1>7
    <3>3. \A j \in 1 .. count : j \in Numbers
      BY ListedFacts
    <3>4. QED
      BY <1>9, <3>1, <3>2, <3>3
  <2>2. bynum' = [i \in Numbers |-> bynum'[i]]
    BY <1>8
  <2>3. QED
    BY <2>1, <2>2
<1>12. \A i \in Numbers : bynum'[i] # None <=> i <= less
  <2>1. TAKE i \in Numbers
  <2>2. i \in Nat
    BY <1>4
  <2>3. CASE i < k
    BY <1>7, <1>9, <1>10, <2>2, <2>3
  <2>4. CASE i > count
    BY <1>7, <1>9, <1>10, <2>2, <2>4
  <2>5. CASE i = count
    BY <1>7, <1>9, <2>5
  <2>6. CASE i >= k /\ i < count
    <3>1. bynum'[i] = bynum[i + 1] /\ i + 1 \in 1 .. count
      BY <1>9, <2>6
    <3>2. bynum[i + 1] # None
      BY <3>1, ListedFacts
    <3>3. QED
      BY <1>7, <2>2, <2>6, <3>1, <3>2
  <2>7. QED
    BY <1>7, <2>2, <2>3, <2>4, <2>5, <2>6
<1> DEFINE From(i) == IF i < k THEN i ELSE i + 1
<1>13. ASSUME NEW i \in 1 .. less
       PROVE  /\ From(i) \in 1 .. count /\ From(i) # k /\ bynum'[i] = bynum[From(i)]
              /\ \A j \in 1 .. less : From(i) = From(j) => i = j
  <2>1. i \in Numbers /\ i \in Nat /\ i < count /\ i >= 1
    BY <1>4, <1>7
  <2>2. CASE i < k
    BY <1>7, <1>9, <2>1, <2>2
  <2>3. CASE ~(i < k)
    BY <1>7, <1>9, <2>1, <2>3
  <2>4. QED
    BY <2>2, <2>3
<1>14. ASSUME NEW d \in 1 .. count, d # k PROVE \E i \in 1 .. less : bynum'[i] = bynum[d]
  <2>1. CASE d < k
    <3>1. d \in 1 .. less /\ From(d) = d
      BY <1>7, <2>1
    <3>2. QED
      BY <1>13, <3>1
  <2>2. CASE ~(d < k)
    <3>1. d - 1 \in 1 .. less /\ ~(d - 1 < k) /\ (d - 1) + 1 = d
      BY <1>7, <1>14, <2>2
    <3>2. From(d - 1) = d
      BY <3>1
    <3>3. QED
      BY <1>13, <3>1, <3>2
  <2>3. QED
    BY <2>1, <2>2
<1> HIDE DEF From
<1>15. \A n \in Names : byname'[n] = IF n = adm.rec.name THEN None ELSE byname[n]
  BY ClosedFacts
<1>16. \A u \in Uids : byuid'[u] = IF u = adm.rec.uid THEN None ELSE byuid[u]
  BY ClosedFacts
<1>17. ASSUME NEW d \in 1 .. count, d # k
       PROVE  /\ byname'[bynum[d].name] = bynum[d] /\ bynum[d].name \in AllNames
              /\ byuid'[bynum[d].uid] # None
              /\ IF bynum[d].uid \in Shown THEN byuid'[bynum[d].uid] = bynum[d]
                 ELSE bynum[d] \in Built
  <2>1. /\ byname[bynum[d].name] = bynum[d] /\ bynum[d].name \in AllNames
        /\ byuid[bynum[d].uid] # None
        /\ IF bynum[d].uid \in Shown THEN byuid[bynum[d].uid] = bynum[d] ELSE bynum[d] \in Built
    BY DEF Listed
  <2>2. bynum[d].name \in Names /\ bynum[d].uid \in Uids
    BY ListedFacts
  <2>3. bynum[d].name # adm.rec.name /\ bynum[d].uid # adm.rec.uid
    BY <1>2, <1>3, <1>5, <1>17, OnlyNumber
  <2>4. QED
    BY <1>15, <1>16, <2>1, <2>2, <2>3
<1>18. ASSUME NEW i \in 1 .. less
       PROVE  /\ bynum'[i].name \in AllNames
              /\ byname'[bynum'[i].name] = bynum'[i]
              /\ byuid'[bynum'[i].uid] # None
              /\ IF bynum'[i].uid \in Shown THEN byuid'[bynum'[i].uid] = bynum'[i]
                 ELSE bynum'[i] \in Built
              /\ \A j \in 1 .. less : bynum'[i].name = bynum'[j].name => i = j
  <2>1. From(i) \in 1 .. count /\ From(i) # k /\ bynum'[i] = bynum[From(i)]
    BY <1>13
  <2>2. \A j \in 1 .. less : bynum'[i].name = bynum'[j].name => i = j
    <3>1. TAKE j \in 1 .. less
    <3>2. HAVE bynum'[i].name = bynum'[j].name
    <3>3. From(j) \in 1 .. count /\ bynum'[j] = bynum[From(j)]
      BY <1>13
    <3>4. From(i) = From(j)
      BY <2>1, <3>2, <3>3 DEF Listed
    <3>5. QED
      BY <1>13, <3>4
  <2>3. QED
    BY <1>17, <2>1, <2>2
<1>19. ASSUME NEW n \in Names, byname'[n] # None
       PROVE  byname'[n].name = n /\ \E i \in 1 .. less : bynum'[i] = byname'[n]
  <2>1. n # adm.rec.name /\ byname'[n] = byname[n] /\ byname[n].name = n
    BY <1>15, <1>19 DEF Listed
  <2>2. PICK d \in 1 .. count : bynum[d] = byname[n]
    BY <1>19, <2>1 DEF Listed
  <2>3. d # k
    BY <1>2, <1>3, <1>5, <2>1, <2>2
  <2>4. QED
    BY <1>14, <2>1, <2>2, <2>3
<1>20. ASSUME NEW u \in Uids, byuid'[u] # None
       PROVE  byuid'[u].uid = u /\ \E i \in 1 .. less : bynum'[i] = byuid'[u]
  <2>1. u # adm.rec.uid /\ byuid'[u] = byuid[u] /\ byuid[u].uid = u
    BY <1>16, <1>20 DEF Listed
  <2>2. PICK d \in 1 .. count : bynum[d] = byuid[u]
    BY <1>20, <2>1 DEF Listed
  <2>3. d # k
    BY <1>2, <1>3, <1>5, <2>1, <2>2
  <2>4. QED
    BY <1>14, <2>1, <2>2, <2>3
<1>21. Listed(less)'
  BY <1>7, <1>11, <1>12, <1>18, <1>19, <1>20 DEF Listed
<1>22. QED
  BY <1>6, <1>7, <1>21

LEMMA InitListedInv == Init => ListedInv
<1> SUFFICES ASSUME Init PROVE ListedInv
  OBVIOUS
<1>1. Listed(Len(Passwd))
  BY InitListed
<1>2. Placed(Len(Passwd))
  BY DEF Init, Placed
<1>3. Len(Passwd) \in 0 .. Most
  BY <1>1 DEF Listed
<1>4. QED
  BY <1>1, <1>2, <1>3, InitFileInv DEF ListedInv

(* What a call remembers still fits while it goes on and spwd.db stays.    *)
LEMMA StaysPlaced ==
  ASSUME FileInv, NEW count \in 0 .. Most, Listed(count), Placed(count),
         DelClear \/ Rewrite \/ AppendLine \/ AdminDies
  PROVE  UNCHANGED db_vars /\ Listed(count)' /\ Placed(count)'
<1>1. UNCHANGED db_vars
  BY DEF DelClear, Rewrite, AppendLine, AdminDies
<1>2. byname' = byname /\ byuid' = byuid /\ bynum' = bynum
  BY <1>1 DEF db_vars
<1>3. Listed(count)'
  BY <1>2 DEF Listed
<1>4. CallSteps
  BY DEF CallSteps
<1>5. Placed(count)'
  <2> SUFFICES ASSUME adm' # Idle PROVE Placed(count)'
    BY DEF Placed
  <2>1. /\ adm # Idle /\ adm'.kind = adm.kind /\ adm'.old = adm.old
        /\ adm'.rec = adm.rec /\ adm'.num = adm.num /\ adm.kind \in Kinds
        /\ adm.kind = "add" => adm.step = "close" /\ adm'.step = "append"
    BY <1>4, GoesOnFacts
  <2>2. adm.kind # "add"
    <3>1. ~(DelClear \/ Rewrite \/ AdminDies) \/ adm.step # "close"
      BY <2>1 DEF DelClear, Rewrite, AdminDies
    <3>2. adm.step # "close"
      BY <3>1 DEF AppendLine
    <3>3. QED
      BY <2>1, <3>2
  <2>3. QED
    BY <1>2, <2>1, <2>2 DEF Placed
<1>6. QED
  BY <1>1, <1>3, <1>5

LEMMA OpensPlaced ==
  ASSUME OrdinaryArguments, FileInv, NEW count \in 0 .. Most, Listed(count),
         \/ \E n \in NewNames, g \in GivenUids, w \in Pwds : AddOpen(n, g, w)
         \/ \E u \in Shown, a \in NameArgs, w \in Pwds : SetOpen(u, a, w)
         \/ \E u \in Shown : DelOpen(u)
  PROVE  UNCHANGED <<db_vars, master, died>> /\ adm = Idle /\ Listed(count)' /\ Placed(count)'
<1>1. /\ adm = Idle /\ UNCHANGED <<db_vars, master, died>>
      /\ Running' /\ adm' # Idle /\ adm'.step = FirstChange[adm'.kind]
      /\ adm'.kind = "add" =>
           /\ \E g \in GivenUids : adm'.rec.uid = PickUid(g)
           /\ adm'.rec.name = adm'.old /\ adm'.old \in NewNames /\ NumbersOf(adm'.old) = {}
           /\ adm'.num = NewNumber /\ byuid[adm'.rec.uid] = None /\ Room
      /\ adm'.kind # "add" => /\ adm'.rec.uid \in Shown /\ byuid[adm'.rec.uid] # None
                              /\ adm'.old = byuid[adm'.rec.uid].name
                              /\ adm'.num = Find(adm'.old).num
      /\ adm'.kind = "set" => adm'.rec.name = adm'.old \/ (Empty \in NameArgs /\ adm'.rec.name = Empty)
      /\ adm'.kind = "del" => adm'.rec = byuid[adm'.rec.uid]
  BY OpensFacts
<1>2. byname' = byname /\ byuid' = byuid /\ bynum' = bynum
  BY <1>1 DEF db_vars
<1>3. Listed(count)'
  BY <1>2 DEF Listed
<1>a. Files
  BY DEF FileInv
<1>4. adm'.kind \in Kinds
  BY <1>1 DEF Running
<1>5. CASE adm'.kind = "add"
  <2>1. adm'.num = count + 1 /\ adm'.num \in Numbers
    BY <1>a, <1>1, <1>5, CountOfUsers, ListedFacts
  <2>2. adm'.rec.uid \in Shown
    <3>1. PICK g \in GivenUids : adm'.rec.uid = PickUid(g)
      BY <1>1, <1>5
    <3>2. g \in Uids \cup {None} /\ (g = None \/ g <= LastUid)
      BY ConstantsAssumption DEF OrdinaryArguments
    <3>3. QED
      BY <1>1, <1>5, <3>1, <3>2, PickedUid
  <2>3. byname[adm'.old] = None
    <3>1. PICK n \in NewNames : n = adm'.old /\ NumbersOf(n) = {}
      BY <1>1, <1>5
    <3>2. QED
      BY <1>a, <3>1, FreshName
  <2>4. adm'.step = "close"
    BY <1>1, <1>5 DEF FirstChange
  <2>5. QED
    BY <1>1, <1>2, <1>3, <1>5, <2>1, <2>2, <2>3, <2>4 DEF Placed
<1>6. CASE adm'.kind # "add"
  <2>1. PICK u \in Shown : u = adm'.rec.uid /\ byuid[u] # None
    BY <1>1, <1>6
  <2>2. Find(byuid[u].name).num \in 1 .. count /\ bynum[Find(byuid[u].name).num] = byuid[u]
    BY <1>a, <2>1, FoundUser
  <2>3. adm'.num \in 1 .. count /\ bynum[adm'.num] = byuid[u] /\ adm'.num \in Numbers
    BY <1>1, <1>6, <2>1, <2>2, ListedFacts
  <2>4. adm'.rec.name = adm'.old
    <3>1. adm'.kind = "set" \/ adm'.kind = "del"
      BY <1>4, <1>6 DEF Kinds
    <3>2. QED
      BY <1>1, <3>1 DEF OrdinaryArguments
  <2>5. QED
    BY <1>1, <1>2, <1>3, <1>6, <2>1, <2>3, <2>4 DEF Placed
<1>7. QED
  BY <1>5, <1>6

LEMMA ClosesPlaced ==
  ASSUME FileInv, NEW count \in 0 .. Most, Listed(count), Placed(count), Close
  PROVE  \E c \in 0 .. Most : Listed(c)' /\ Placed(c)'
<1>1. adm # Idle /\ adm.kind \in Kinds
  BY GoesOnFacts DEF CallSteps
<1>2. CASE adm.kind = "add"
  <2>1. count + 1 \in 0 .. Most /\ Listed(count + 1)' /\ byuid'[adm.rec.uid] = adm.rec
    BY <1>2, AddedUser
  <2>2. adm' # Idle => /\ adm'.kind = "add" /\ adm'.step = "append" /\ adm'.rec = adm.rec
                       /\ adm'.old = adm.old /\ adm'.num = adm.num
    BY <1>2, GoesOnFacts DEF CallSteps
  <2>3. Placed(count + 1)'
    BY <1>1, <1>2, <2>1, <2>2 DEF Placed
  <2>4. PICK c \in 0 .. Most : c = count + 1
    BY <2>1
  <2>5. QED
    BY <2>1, <2>3, <2>4
<1>3. CASE adm.kind = "set"
  <2>1. Listed(count)'
    BY <1>3, ChangedUser
  <2>2. adm' = Idle
    BY <1>3 DEF Close, Finish
  <2>3. QED
    BY <2>1, <2>2 DEF Placed
<1>4. CASE adm.kind = "del"
  <2>1. count - 1 \in 0 .. Most /\ Listed(count - 1)'
    BY <1>4, DeletedUser
  <2>2. adm' = Idle
    BY <1>4 DEF Close, Finish
  <2>3. PICK c \in 0 .. Most : c = count - 1
    BY <2>1
  <2>4. QED
    BY <2>1, <2>2, <2>3 DEF Placed
<1>5. QED
  BY <1>1, <1>2, <1>3, <1>4 DEF Kinds

LEMMA NextListedInv == OrdinaryArguments /\ ListedInv /\ [Next]_vars => ListedInv'
<1> SUFFICES ASSUME OrdinaryArguments, ListedInv, [Next]_vars PROVE ListedInv'
  OBVIOUS
<1>1. FileInv /\ FileInv'
  BY NextFileInv DEF ListedInv
<1>2. PICK count \in 0 .. Most : Listed(count) /\ Placed(count)
  BY DEF ListedInv
<1>3. ASSUME UNCHANGED <<db_vars, adm>> PROVE ListedInv'
  <2>1. byname' = byname /\ byuid' = byuid /\ bynum' = bynum /\ adm' = adm
    BY <1>3 DEF db_vars
  <2>2. Listed(count)' /\ Placed(count)'
    BY <1>2, <2>1 DEF Listed, Placed
  <2>3. QED
    BY <1>1, <2>2 DEF ListedInv
<1>4. CASE \/ \E n \in NewNames, g \in GivenUids, w \in Pwds : AddOpen(n, g, w)
           \/ \E u \in Shown, a \in NameArgs, w \in Pwds : SetOpen(u, a, w)
           \/ \E u \in Shown : DelOpen(u)
  <2>1. Listed(count)' /\ Placed(count)'
    BY <1>1, <1>2, <1>4, OpensPlaced
  <2>2. QED
    BY <1>1, <2>1 DEF ListedInv
<1>5. CASE DelClear \/ Rewrite \/ AppendLine \/ AdminDies
  <2>1. Listed(count)' /\ Placed(count)'
    BY <1>1, <1>2, <1>5, StaysPlaced
  <2>2. QED
    BY <1>1, <2>1 DEF ListedInv
<1>6. CASE Close
  BY <1>1, <1>2, <1>6, ClosesPlaced DEF ListedInv
<1>7. CASE \E p \in Procs : Login(p)
  <2>1. UNCHANGED <<db_vars, adm>>
    BY <1>7 DEF Login, LoginRead, LoginClear, LoginPut, LoginDies
  <2>2. QED
    BY <1>3, <2>1
<1>8. CASE UNCHANGED vars
  <2>1. UNCHANGED <<db_vars, adm>>
    BY <1>8 DEF vars, db_vars
  <2>2. QED
    BY <1>3, <2>1
<1>9. QED
  BY <1>4, <1>5, <1>6, <1>7, <1>8 DEF Next, Administer

(* Every value spwd.db, master.passwd, the sessions and the calls hold is  *)
(* of its type; above all the numbers of users stay among those there are. *)
THEOREM SpwdTypeCorrect == ASSUME OrdinaryArguments PROVE Spec => []TypeOK
<1>1. Init => ListedInv /\ SessionInv
  <2> SUFFICES ASSUME Init PROVE SessionInv
    BY InitListedInv
  <2>1. SessionTypes
    BY DEF Init, SessionTypes, Logins
  <2>2. \A u \in Shown : HashesOf(u) = {} /\ Busy(u) = {}
    BY Constants DEF Init, HashesOf, Busy
  <2>3. QED
    BY <2>1, <2>2, InitFileInv DEF SessionInv, OneByOne
<1>2. ListedInv /\ SessionInv => TypeOK
  <2> SUFFICES ASSUME ListedInv, SessionInv PROVE TypeOK
    OBVIOUS
  <2>1. PICK count \in 0 .. Most : Listed(count) /\ Placed(count)
    BY DEF ListedInv
  <2>2. Files /\ Call /\ SessionTypes
    BY DEF SessionInv, FileInv
  <2>3. adm \in Calls \cup {Idle}
    <3> SUFFICES ASSUME adm # Idle PROVE adm \in Calls
      OBVIOUS
    <3>1. Running /\ adm.num \in Numbers
      BY <2>1, <2>2 DEF Call, Placed
    <3>2. PICK num : adm \in [step : Steps, kind : Kinds, old : Names, rec : Records, num : {num}]
      BY <3>1 DEF Running
    <3>3. num \in Numbers
      BY <3>1, <3>2
    <3>4. QED
      BY <3>2, <3>3 DEF Calls, Steps, Kinds
  <2>4. QED
    BY <2>1, <2>2, <2>3 DEF TypeOK, Files, SessionTypes, Listed
<1>3. ListedInv /\ SessionInv /\ [Next]_vars => (ListedInv /\ SessionInv)'
  BY NextListedInv, NextSessionInv
<1>4. QED
  BY <1>1, <1>2, <1>3, PTL DEF Spec

(* Every user that is shown is found by name, uid and one number as the    *)
(* same record, and the numbers run without a gap to the count that is     *)
(* worked out from the number of keys (spwd.c:268-285, 873-996, 1060-1120).*)
THEOREM IndexesAgreeTheorem == ASSUME OrdinaryArguments PROVE Spec => []IndexesAgree
<1>1. ListedInv => IndexesAgree
  <2> SUFFICES ASSUME ListedInv PROVE IndexesAgree
    OBVIOUS
  <2>1. PICK count \in 0 .. Most : Listed(count)
    BY DEF ListedInv
  <2>2. UserCount = count /\ Keys(bynum) = 1 .. count
    BY <2>1, CountOfUsers DEF ListedInv, FileInv
  <2>3. ASSUME NEW u \in Shown, byuid[u] # None
        PROVE  /\ byuid[u].uid = u /\ byname[byuid[u].name] = byuid[u]
               /\ \E c \in Numbers : \A d \in Numbers : bynum[d] = byuid[u] <=> d = c
    <3>1. u \in Uids
      BY Constants
    <3>2. PICK c \in 1 .. count : bynum[c] = byuid[u]
      BY <2>1, <2>3, <3>1 DEF Listed
    <3>3. byuid[u].uid = u /\ byname[byuid[u].name] = byuid[u]
      BY <2>1, <2>3, <3>1, <3>2 DEF Listed
    <3>4. c \in Numbers
      BY <2>1, ListedFacts
    <3>5. ASSUME NEW d \in Numbers, bynum[d] = byuid[u] PROVE d = c
      <4>1. d \in Nat /\ d >= 1 /\ d <= count /\ count \in Nat
        BY <2>1, <2>3, <3>5, ListedFacts DEF Listed, Numbers
      <4>2. d \in 1 .. count
        BY <4>1
      <4>3. QED
        BY <2>1, <3>2, <3>5, <4>2 DEF Listed
    <3>6. QED
      BY <3>2, <3>3, <3>4, <3>5
  <2>4. ASSUME NEW c \in Numbers, Fields(bynum[c]) PROVE byuid[bynum[c].uid] = bynum[c]
    <3>1. bynum[c] # None /\ bynum[c].uid \in Shown
      BY <2>4 DEF Fields
    <3>2. c \in Nat /\ c >= 1 /\ c <= count /\ count \in Nat
      BY <2>1, <3>1, ListedFacts DEF Listed, Numbers
    <3>3. c \in 1 .. count
      BY <3>2
    <3>4. QED
      BY <2>1, <3>1, <3>3 DEF Listed
  <2>5. QED
    BY <2>2, <2>3, <2>4 DEF IndexesAgree
<1>2. QED
  BY <1>1, InitListedInv, NextListedInv, PTL DEF Spec

-----------------------------------------------------------------------------
(* A table of users                                                        *)

(* No two users that are shown have the same name. *)
LEMMA NamesDiffer ==
  ASSUME ListedInv, NEW u \in Shown, NEW v \in Shown, byuid[u] # None, byuid[v] # None,
         byuid[u].name = byuid[v].name
  PROVE  u = v
<1>1. PICK count \in 0 .. Most : Listed(count)
  BY DEF ListedInv
<1>2. u \in Uids /\ v \in Uids
  BY Constants
<1>3. byuid[u].uid = u /\ byuid[v].uid = v
  BY <1>1, <1>2 DEF Listed
<1>4. PICK i \in 1 .. count : bynum[i] = byuid[u]
  BY <1>1, <1>2 DEF Listed
<1>5. PICK j \in 1 .. count : bynum[j] = byuid[v]
  BY <1>1, <1>2 DEF Listed
<1>6. i = j
  BY <1>1, <1>4, <1>5 DEF Listed
<1>7. QED
  BY <1>3, <1>4, <1>5, <1>6

(* What closing spwd.db does to the users found by uid. *)
LEMMA ClosedByUid ==
  ASSUME ListedInv, Close
  PROVE  /\ adm # Idle /\ adm.rec \in Records /\ adm.rec.uid \in Shown /\ adm.kind \in Kinds
         /\ byuid \in [Uids -> Records \cup {None}] /\ byuid' \in [Uids -> Records \cup {None}]
         /\ adm.kind = "add" => byuid[adm.rec.uid] = None /\ adm.rec.name \in Names
              /\ \A v \in Shown : byuid[v] # None => byuid[v].name # adm.rec.name
         /\ adm.kind = "set" => byuid[adm.rec.uid] # None /\ byuid[adm.rec.uid].name = adm.rec.name
         /\ adm.kind = "del" => byuid[adm.rec.uid] = adm.rec
         /\ \A u \in Shown : byuid'[u] =
              IF u # adm.rec.uid THEN byuid[u] ELSE IF adm.kind = "del" THEN None ELSE adm.rec
<1>1. FileInv
  BY DEF ListedInv
<1>2. PICK count \in 0 .. Most : Listed(count) /\ Placed(count)
  BY DEF ListedInv
<1>3. /\ adm # Idle /\ Running /\ adm.rec.name \in Names /\ adm.kind \in Kinds
      /\ adm.rec \in Records
  BY <1>1, ClosedFacts, RunningFacts
<1>4. adm.rec.uid \in Shown /\ adm.rec.name = adm.old
  BY <1>2, <1>3 DEF Placed
<1>5. byuid \in [Uids -> Records \cup {None}] /\ byuid' \in [Uids -> Records \cup {None}]
  BY <1>1, ClosedFacts DEF FileInv, Files
<1>6. ASSUME adm.kind = "add", NEW v \in Shown, byuid[v] # None PROVE byuid[v].name # adm.rec.name
  <2>1. byname[adm.old] = None
    BY <1>2, <1>3, <1>6 DEF Placed, Close
  <2>2. v \in Uids
    BY Constants
  <2>3. PICK i \in 1 .. count : bynum[i] = byuid[v]
    BY <1>2, <1>6, <2>2 DEF Listed
  <2>4. byname[byuid[v].name] = byuid[v]
    BY <1>2, <2>3 DEF Listed
  <2>5. QED
    BY <1>4, <1>6, <2>1, <2>4
<1>7. /\ adm.kind = "add" => byuid[adm.rec.uid] = None
      /\ adm.kind = "set" => byuid[adm.rec.uid] # None /\ byuid[adm.rec.uid].name = adm.rec.name
      /\ adm.kind = "del" => byuid[adm.rec.uid] = adm.rec
  BY <1>1, <1>3, <1>4 DEF FileInv, Call, Close
<1>8. \A u \in Shown : byuid'[u] =
        IF u # adm.rec.uid THEN byuid[u] ELSE IF adm.kind = "del" THEN None ELSE adm.rec
  BY <1>1, Constants, ClosedFacts
<1>9. QED
  BY <1>3, <1>4, <1>5, <1>6, <1>7, <1>8

(* The other steps leave spwd.db alone. *)
LEMMA OnlyCloseWrites ==
  ASSUME [Next]_vars, ~Close
  PROVE  UNCHANGED db_vars
<1>1. CASE Administer
  BY <1>1 DEF Administer, AddOpen, SetOpen, DelOpen, DelClear, Rewrite, AppendLine, AdminDies
<1>2. CASE \E p \in Procs : Login(p)
  BY <1>2 DEF Login, LoginRead, LoginClear, LoginPut, LoginDies
<1>3. CASE UNCHANGED vars
  BY <1>3 DEF vars, db_vars
<1>4. QED
  BY <1>1, <1>2, <1>3 DEF Next

(* The calls add, change and delete users of one table in which every user *)
(* stands at its uid and no name is used twice: what spwd.db promises its  *)
(* readers while a call's other files are written (spwd.c:590-609, 910-996,*)
(* 1060-1120).                                                             *)
THEOREM SpwdImplementsUserTable == ASSUME OrdinaryArguments PROVE Spec => TableSpec
<1> DEFINE users == [u \in Shown |-> byuid[u]]
<1>1. \A r \in Records : r.uid \in Shown => r \in Table!Users
  BY DEF Records, Table!Users
<1>2. ListedInv => users \in Table!Tables
  <2> SUFFICES ASSUME ListedInv PROVE users \in Table!Tables
    OBVIOUS
  <2>1. ASSUME NEW u \in Shown
        PROVE  users[u] \in Table!Users \cup {None} /\ (users[u] # None => users[u].uid = u)
    <3>1. u \in Uids /\ users[u] = byuid[u]
      BY Constants
    <3>2. byuid[u] \in Records \cup {None} /\ (byuid[u] # None => byuid[u].uid = u)
      BY <3>1 DEF ListedInv, FileInv, Files, NamesLead
    <3>3. QED
      BY <1>1, <3>1, <3>2
  <2>2. users \in [Shown -> Table!Users \cup {None}]
    BY <2>1
  <2>3. \A u, v \in Shown : users[u] # None /\ users[v] # None /\ users[u].name = users[v].name => u = v
    BY NamesDiffer
  <2> HIDE DEF users
  <2>4. QED
    BY <2>1, <2>2, <2>3 DEF Table!Tables
<1>3. Init => Table!Init
  BY <1>2, InitListedInv DEF Table!Init
<1>4. ListedInv /\ [Next]_vars => [Table!Next]_users
  <2> SUFFICES ASSUME ListedInv, [Next]_vars PROVE [Table!Next]_users
    OBVIOUS
  <2>1. CASE ~Close
    <3>1. byuid' = byuid
      BY <2>1, OnlyCloseWrites DEF db_vars
    <3>2. QED
      BY <3>1
  <2>2. CASE Close
    <3>1. PICK u \in Shown : u = adm.rec.uid
      BY <2>2, ClosedByUid
    <3>2. PICK r \in Records : r = adm.rec
      BY <2>2, ClosedByUid
    <3>3. r = [name |-> r.name, uid |-> u, pwd |-> r.pwd] /\ r.name \in Names /\ r.pwd \in Pwds
      BY <3>1, <3>2 DEF Records
    <3>4. \A v \in Shown : users[v] = byuid[v]
      OBVIOUS
    <3>5. users' = [users EXCEPT ![u] = IF adm.kind = "del" THEN None ELSE r]
      <4>1. users' = [v \in Shown |-> byuid'[v]]
        OBVIOUS
      <4>2. \A v \in Shown : byuid'[v] =
              IF v # u THEN byuid[v] ELSE IF adm.kind = "del" THEN None ELSE r
        BY <2>2, <3>1, <3>2, ClosedByUid
      <4>3. QED
        BY <4>1, <4>2
    <3> HIDE DEF users
    <3>6. CASE adm.kind = "add"
      <4>1. users[u] = None /\ \A v \in Shown : users[v] # None => users[v].name # r.name
        BY <2>2, <3>1, <3>2, <3>4, <3>6, ClosedByUid
      <4>2. users' = [users EXCEPT ![u] = r]
        BY <3>5, <3>6
      <4>3. \E v \in Shown : /\ users[v] = None
                            /\ \E n \in Names, p \in Pwds :
                                 /\ \A w \in Shown : users[w] # None => users[w].name # n
                                 /\ users' = [users EXCEPT ![v] = [name |-> n, uid |-> v, pwd |-> p]]
        BY <3>3, <4>1, <4>2
      <4>4. Table!Add
        BY <4>3 DEF Table!Add, users
      <4>5. QED
        BY <4>4 DEF Table!Next
    <3>7. CASE adm.kind = "set"
      <4>1. users[u] # None /\ users[u].name = r.name
        BY <2>2, <3>1, <3>2, <3>4, <3>7, ClosedByUid
      <4>2. users[u] \in Records /\ users[u].uid = u
        <5>1. u \in Uids /\ byuid[u] # None /\ users[u] = byuid[u]
          BY <3>4, <4>1, Constants
        <5>2. QED
          BY <5>1 DEF ListedInv, FileInv, Files, NamesLead
      <4>3. r = [users[u] EXCEPT !.pwd = r.pwd]
        BY <3>3, <4>1, <4>2 DEF Records
      <4>4. users' = [users EXCEPT ![u].pwd = r.pwd]
        BY <3>5, <3>7, <4>3
      <4>5. \E v \in Shown, p \in Pwds :
              users[v] # None /\ users' = [users EXCEPT ![v].pwd = p]
        BY <3>3, <4>1, <4>4
      <4>6. Table!Set
        BY <4>5 DEF Table!Set, users
      <4>7. QED
        BY <4>6 DEF Table!Next
    <3>8. CASE adm.kind = "del"
      <4>1. users[u] # None
        BY <2>2, <3>1, <3>2, <3>4, <3>8, ClosedByUid, RecordFacts
      <4>2. users' = [users EXCEPT ![u] = None]
        BY <3>5, <3>8
      <4>3. \E v \in Shown : users[v] # None /\ users' = [users EXCEPT ![v] = None]
        BY <4>1, <4>2
      <4>4. Table!Del
        BY <4>3 DEF Table!Del, users
      <4>5. QED
        BY <4>4 DEF Table!Next
    <3>9. QED
      BY <2>2, <3>6, <3>7, <3>8, ClosedByUid DEF Kinds
  <2>3. QED
    BY <2>1, <2>2
<1>5. QED
  BY <1>3, <1>4, InitListedInv, NextListedInv, PTL DEF Spec, TableSpec, Table!Spec

-----------------------------------------------------------------------------
(* master.passwd                                                           *)

(* The user of the call that runs is looked at again when the call ends;   *)
(* it is enough that the call leaves the others alone. *)
LEMMA OthersFollow ==
  ASSUME MasterFollows, adm # Idle, NEW u \in Shown, u = adm.rec.uid,
         adm' = Idle \/ adm'.rec.uid = u,
         \A v \in Shown \ {u} : byuid'[v] = byuid[v] /\ LinesOf(v)' = LinesOf(v),
         died \ {u} \subseteq died',
         adm' = Idle /\ u \notin died' =>
           LinesOf(u)' = IF byuid'[u] = None THEN {} ELSE {byuid'[u]}
  PROVE  MasterFollows'
<1> SUFFICES ASSUME NEW v \in Shown \ died', adm' = Idle \/ adm'.rec.uid # v
             PROVE  LinesOf(v)' = IF byuid'[v] = None THEN {} ELSE {byuid'[v]}
  BY DEF MasterFollows, LinesOf
<1>1. CASE v = u
  BY <1>1
<1>2. CASE v # u
  <2>1. v \in Shown \ died
    BY <1>2
  <2>2. LinesOf(v) = IF byuid[v] = None THEN {} ELSE {byuid[v]}
    BY <1>2, <2>1 DEF MasterFollows, LinesOf
  <2>3. QED
    BY <1>2, <2>2
<1>3. QED
  BY <1>1, <1>2

(* What the call that runs knows of its user. *)
LEMMA CallersUser ==
  ASSUME ListedInv, adm # Idle
  PROVE  /\ adm.rec.uid \in Shown /\ adm.rec \in Records /\ adm.rec # None /\ adm.kind \in Kinds
         /\ adm.step \in StepsOf[adm.kind]
         /\ adm.kind # "add" => byuid[adm.rec.uid] # None /\ byuid[adm.rec.uid].name = adm.rec.name
         /\ adm.kind = "add" /\ adm.step = "append" => byuid[adm.rec.uid] = adm.rec
<1>1. PICK count \in 0 .. Most : Placed(count)
  BY DEF ListedInv
<1>2. Running /\ adm.step \in StepsOf[adm.kind]
  BY DEF ListedInv, FileInv, Call
<1>3. adm.rec \in Records /\ adm.rec # None /\ adm.kind \in Kinds
  BY <1>2, RunningFacts
<1>4. adm.rec.uid \in Shown /\ adm.rec.name = adm.old
  BY <1>1 DEF Placed
<1>5. adm.kind # "add" => byuid[adm.rec.uid] # None /\ byuid[adm.rec.uid].name = adm.rec.name
  <2>1. adm.kind # "add" => adm.kind = "set" \/ adm.kind = "del"
    BY <1>3 DEF Kinds
  <2>2. QED
    BY <1>4, <2>1 DEF ListedInv, FileInv, Call
<1>6. adm.kind = "add" /\ adm.step = "append" => byuid[adm.rec.uid] = adm.rec
  BY <1>1 DEF Placed
<1>7. QED
  BY <1>2, <1>3, <1>4, <1>5, <1>6

LEMMA RewriteFollows ==
  ASSUME MasterInv, Rewrite PROVE LinesInv' /\ MasterFollows'
<1>1. adm # Idle /\ adm.step = "rewrite"
  BY DEF Rewrite, Idle
<1>2. PICK u \in Shown : u = adm.rec.uid
  BY <1>1, CallersUser DEF MasterInv
<1>3. adm.kind # "add" /\ adm.kind \in Kinds
  <2>1. adm.step \in StepsOf[adm.kind] /\ adm.kind \in Kinds
    BY <1>1, CallersUser DEF MasterInv
  <2>2. QED
    BY <1>1, <2>1 DEF StepsOf
<1>4. byuid[u] # None /\ byuid[u].name = adm.rec.name
  BY <1>1, <1>2, <1>3, CallersUser DEF MasterInv
<1>5. /\ master' = {l \in master : l.name # adm.rec.name}
      /\ byuid' = byuid /\ died' = died
  BY DEF Rewrite, db_vars
<1>6. /\ adm'.rec = adm.rec /\ adm'.kind = adm.kind
      /\ adm' # Idle
  <2>1. PICK s \in {"append", "close"} : adm' = [adm EXCEPT !.step = s]
    BY DEF Rewrite
  <2>2. Running
    BY <1>1 DEF MasterInv, ListedInv, FileInv, Call
  <2>3. s \in Steps
    BY DEF Steps
  <2>4. QED
    BY <2>1, <2>2, <2>3, StepFacts
<1>7. \A l \in master : l.uid = u => l.name = adm.rec.name
  BY <1>4 DEF MasterInv, LinesInv
<1>8. LinesOf(u)' = {}
  BY <1>5, <1>7 DEF LinesOf
<1>9. ASSUME NEW v \in Shown \ {u} PROVE LinesOf(v)' = LinesOf(v)
  <2>1. \A l \in master : l.uid = v => l.name # adm.rec.name
    <3>1. TAKE l \in master
    <3>2. HAVE l.uid = v
    <3>3. byuid[v] # None /\ byuid[v].name = l.name
      BY <3>2 DEF MasterInv, LinesInv
    <3>4. QED
      BY <1>4, <3>3, NamesDiffer DEF MasterInv
  <2>2. QED
    BY <1>5, <2>1 DEF LinesOf
<1>10. MasterFollows'
  <2>1. MasterFollows
    BY DEF MasterInv
  <2>2. QED
    BY <1>1, <1>2, <1>5, <1>6, <1>9, <2>1, OthersFollow
<1>11. \A l \in master' : l.uid \in Shown => byuid'[l.uid] # None /\ byuid'[l.uid].name = l.name
  BY <1>5 DEF MasterInv, LinesInv
<1>12. adm'.step = IF adm.kind = "set" THEN "append" ELSE "close"
  <2>1. Running
    BY <1>1 DEF MasterInv, ListedInv, FileInv, Call
  <2>2. PICK s \in Steps : s = IF adm.kind = "set" THEN "append" ELSE "close"
    BY DEF Steps
  <2>3. adm' = [adm EXCEPT !.step = s]
    BY <2>2 DEF Rewrite
  <2>4. QED
    BY <2>1, <2>2, <2>3, StepFacts
<1>13. LinesInv'
  BY <1>2, <1>6, <1>8, <1>11, <1>12 DEF LinesInv
<1>14. QED
  BY <1>10, <1>13

LEMMA AppendFollows ==
  ASSUME MasterInv, AppendLine PROVE LinesInv' /\ MasterFollows'
<1>1. adm # Idle /\ adm.step = "append"
  BY DEF AppendLine, Idle
<1>2. PICK u \in Shown : u = adm.rec.uid
  BY <1>1, CallersUser DEF MasterInv
<1>3. adm.kind \in {"add", "set"}
  <2>1. adm.step \in StepsOf[adm.kind] /\ adm.kind \in Kinds
    BY <1>1, CallersUser DEF MasterInv
  <2>2. QED
    BY <1>1, <2>1 DEF StepsOf, Kinds
<1>4. /\ byuid[u] # None /\ byuid[u].name = adm.rec.name
      /\ adm.kind = "add" => byuid[u] = adm.rec
  BY <1>1, <1>2, <1>3, CallersUser DEF MasterInv
<1>5. master' = master \cup {adm.rec} /\ byuid' = byuid
  BY DEF AppendLine, db_vars
<1>6. LinesOf(u) = {}
  BY <1>1, <1>2, <1>3 DEF MasterInv, LinesInv
<1>7. LinesOf(u)' = {adm.rec}
  BY <1>2, <1>5, <1>6 DEF LinesOf
<1>8. \A v \in Shown \ {u} : LinesOf(v)' = LinesOf(v)
  BY <1>2, <1>5 DEF LinesOf
<1>9. \A l \in master' : l.uid \in Shown => byuid'[l.uid] # None /\ byuid'[l.uid].name = l.name
  BY <1>2, <1>4, <1>5 DEF MasterInv, LinesInv
<1>10. \/ adm.kind = "add" /\ adm' = Idle /\ died' = died \ {u}
       \/ /\ adm.kind = "set" /\ adm' # Idle /\ died' = died
          /\ adm'.rec = adm.rec /\ adm'.kind = "set" /\ adm'.step = "close"
  <2>1. Running
    BY <1>1 DEF MasterInv, ListedInv, FileInv, Call
  <2>2. CASE adm.kind = "add"
    BY <1>2, <2>2 DEF AppendLine, Finish
  <2>3. CASE adm.kind = "set"
    <3>1. adm' = [adm EXCEPT !.step = "close"] /\ died' = died
      BY <2>3 DEF AppendLine
    <3>2. "close" \in Steps
      BY DEF Steps
    <3>3. QED
      BY <2>1, <2>3, <3>1, <3>2, StepFacts
  <2>4. QED
    BY <1>3, <2>2, <2>3
<1>11. MasterFollows'
  <2>1. MasterFollows
    BY DEF MasterInv
  <2>2. adm' = Idle => LinesOf(u)' = IF byuid'[u] = None THEN {} ELSE {byuid'[u]}
    BY <1>4, <1>5, <1>7, <1>10
  <2>3. QED
    BY <1>1, <1>2, <1>5, <1>8, <1>10, <2>1, <2>2, OthersFollow
<1>12. LinesInv'
  BY <1>2, <1>7, <1>9, <1>10 DEF LinesInv, Idle
<1>13. QED
  BY <1>11, <1>12

LEMMA CloseFollows ==
  ASSUME MasterInv, Close PROVE LinesInv' /\ MasterFollows'
<1>1. adm # Idle /\ adm.step = "close"
  BY DEF Close, Idle
<1>a. ListedInv /\ LinesInv /\ MasterFollows
  BY DEF MasterInv
<1>2. PICK u \in Shown : u = adm.rec.uid
  BY <1>1, <1>a, CallersUser
<1>3. /\ adm.kind \in Kinds /\ adm.rec # None
      /\ adm.kind = "add" => byuid[u] = None
      /\ adm.kind # "add" => byuid[u] # None /\ byuid[u].name = adm.rec.name
      /\ byuid'[u] = IF adm.kind = "del" THEN None ELSE adm.rec
      /\ \A v \in Shown \ {u} : byuid'[v] = byuid[v]
  BY <1>1, <1>2, <1>a, CallersUser, ClosedByUid
<1>4. master' = master /\ \A v \in Shown : LinesOf(v)' = LinesOf(v)
  BY DEF Close, LinesOf
<1>5. LinesOf(u) = IF adm.kind = "set" THEN {adm.rec} ELSE {}
  <2>1. CASE adm.kind = "add"
    BY <1>3, <1>a, <2>1 DEF LinesInv, LinesOf
  <2>2. CASE adm.kind = "set" \/ adm.kind = "del"
    BY <1>1, <1>2, <1>a, <2>2 DEF LinesInv
  <2>3. QED
    BY <1>3, <2>1, <2>2 DEF Kinds
<1>6. \/ adm' = Idle /\ died' = died \ {u} /\ adm.kind # "add"
      \/ /\ adm' # Idle /\ died' = died /\ adm'.rec = adm.rec
         /\ adm.kind = "add" /\ adm'.kind = "add" /\ adm'.step = "append"
  <2>1. Running
    BY <1>1, <1>a DEF ListedInv, FileInv, Call
  <2>2. CASE adm.kind # "add"
    BY <1>2, <2>2 DEF Close, Finish
  <2>3. CASE adm.kind = "add"
    <3>1. adm' = [adm EXCEPT !.step = "append"] /\ died' = died
      BY <2>3 DEF Close
    <3>2. "append" \in Steps
      BY DEF Steps
    <3>3. QED
      BY <2>1, <2>3, <3>1, <3>2, StepFacts
  <2>4. QED
    BY <2>2, <2>3
<1>7. MasterFollows'
  <2>1. adm' = Idle => LinesOf(u)' = IF byuid'[u] = None THEN {} ELSE {byuid'[u]}
    BY <1>3, <1>4, <1>5, <1>6 DEF Kinds
  <2>2. \A v \in Shown \ {u} : byuid'[v] = byuid[v] /\ LinesOf(v)' = LinesOf(v)
    BY <1>3, <1>4
  <2>3. QED
    BY <1>1, <1>2, <1>6, <1>a, <2>1, <2>2, OthersFollow
<1>8. ASSUME NEW l \in master', l.uid \in Shown
      PROVE  byuid'[l.uid] # None /\ byuid'[l.uid].name = l.name
  <2>1. l \in master /\ byuid[l.uid] # None /\ byuid[l.uid].name = l.name
    BY <1>4, <1>8, <1>a DEF LinesInv
  <2>2. CASE l.uid = u
    <3>1. l \in LinesOf(u)
      BY <2>1, <2>2 DEF LinesOf
    <3>2. adm.kind = "set"
      BY <1>5, <3>1
    <3>3. QED
      BY <1>3, <2>1, <2>2, <3>2
  <2>3. CASE l.uid # u
    BY <1>3, <1>8, <2>1, <2>3
  <2>4. QED
    BY <2>2, <2>3
<1>9. LinesInv'
  BY <1>2, <1>4, <1>5, <1>6, <1>8 DEF LinesInv, Idle
<1>10. QED
  BY <1>7, <1>9

LEMMA NextMasterInv == OrdinaryArguments /\ MasterInv /\ [Next]_vars => MasterInv'
<1> SUFFICES ASSUME OrdinaryArguments, MasterInv, [Next]_vars PROVE LinesInv' /\ MasterFollows'
  BY NextListedInv DEF MasterInv
<1>a. ListedInv /\ LinesInv /\ MasterFollows
  BY DEF MasterInv
<1>1. ASSUME UNCHANGED <<db_vars, master, adm, died>> PROVE LinesInv' /\ MasterFollows'
  <2>1. byuid' = byuid /\ master' = master /\ adm' = adm /\ died' = died
    BY <1>1 DEF db_vars
  <2>2. LinesInv'
    BY <1>a, <2>1 DEF LinesInv, LinesOf
  <2>3. MasterFollows'
    BY <1>a, <2>1 DEF MasterFollows
  <2>4. QED
    BY <2>2, <2>3
<1>2. CASE \/ \E n \in NewNames, g \in GivenUids, w \in Pwds : AddOpen(n, g, w)
           \/ \E u \in Shown, a \in NameArgs, w \in Pwds : SetOpen(u, a, w)
           \/ \E u \in Shown : DelOpen(u)
  <2>1. FileInv
    BY <1>a DEF ListedInv
  <2>2. /\ adm = Idle /\ UNCHANGED <<db_vars, master, died>>
        /\ Running' /\ adm'.step = FirstChange[adm'.kind]
    BY <1>2, <2>1, OpensFacts
  <2>3. byuid' = byuid /\ master' = master /\ died' = died
    BY <2>2 DEF db_vars
  <2>4. adm'.kind \in Kinds
    BY <2>2 DEF Running
  <2>5. /\ ~(adm'.kind \in {"add", "set"} /\ adm'.step = "append")
        /\ ~(adm'.kind = "set" /\ adm'.step = "close") /\ ~(adm'.kind = "del" /\ adm'.step = "close")
    BY <2>2, <2>4 DEF Kinds, FirstChange
  <2>6. LinesInv'
    BY <1>a, <2>3, <2>5 DEF LinesInv
  <2>7. MasterFollows'
    BY <1>a, <2>2, <2>3 DEF MasterFollows
  <2>8. QED
    BY <2>6, <2>7
<1>3. CASE DelClear
  <2>1. adm # Idle /\ adm.step = "clear" /\ byuid' = byuid /\ master' = master /\ died' = died
    BY <1>3 DEF DelClear, db_vars, Idle
  <2>2. Running
    BY <1>a, <2>1 DEF ListedInv, FileInv, Call
  <2>3. adm' = [adm EXCEPT !.step = "rewrite"] /\ "rewrite" \in Steps
    BY <1>3 DEF DelClear, Steps
  <2>4. adm'.step = "rewrite" /\ adm'.rec = adm.rec /\ adm' # Idle
    BY <2>2, <2>3, StepFacts
  <2>5. LinesInv'
    BY <1>a, <2>1, <2>4 DEF LinesInv
  <2>6. MasterFollows'
    BY <1>a, <2>1, <2>4 DEF MasterFollows
  <2>7. QED
    BY <2>5, <2>6
<1>4. CASE AdminDies
  <2>1. /\ adm # Idle /\ adm' = Idle /\ byuid' = byuid /\ master' = master
        /\ died' = died \cup {adm.rec.uid}
    BY <1>4 DEF AdminDies, db_vars
  <2>2. LinesInv'
    BY <1>a, <2>1 DEF LinesInv, Idle
  <2>3. PICK u \in Shown : u = adm.rec.uid
    BY <1>a, <2>1, CallersUser
  <2>4. MasterFollows'
    <3>1. \A v \in Shown \ {u} : LinesOf(v)' = LinesOf(v)
      BY <2>1 DEF LinesOf
    <3>2. QED
      BY <1>a, <2>1, <2>3, <3>1, OthersFollow
  <2>5. QED
    BY <2>2, <2>4
<1>5. CASE \E p \in Procs : Login(p)
  <2>1. UNCHANGED <<db_vars, master, adm, died>>
    BY <1>5 DEF Login, LoginRead, LoginClear, LoginPut, LoginDies
  <2>2. QED
    BY <1>1, <2>1
<1>6. CASE UNCHANGED vars
  <2>1. UNCHANGED <<db_vars, master, adm, died>>
    BY <1>6 DEF vars, db_vars
  <2>2. QED
    BY <1>1, <2>1
<1>7. QED
  BY <1>2, <1>3, <1>4, <1>5, <1>6, RewriteFollows, AppendFollows, CloseFollows DEF Next, Administer

(* master.passwd has the one line of each user that is shown that spwd.db  *)
(* has, but for the user of the call that runs and those whose last call   *)
(* died between the files (spwd.c:510-532, 590-609).                       *)
THEOREM MasterFollowsTheorem == ASSUME OrdinaryArguments PROVE Spec => []MasterFollows
<1>1. Init => MasterInv
  <2> SUFFICES ASSUME Init PROVE LinesInv /\ MasterFollows
    BY InitListedInv DEF MasterInv
  <2>1. master = {Passwd[i] : i \in DOMAIN Passwd} /\ adm = Idle
    BY DEF Init
  <2>2. ASSUME NEW l \in master, l.uid \in Shown PROVE byuid[l.uid] = l /\ l # None
    <3>1. PICK i \in DOMAIN Passwd : l = Passwd[i]
      BY <2>1
    <3>2. Passwd[i] \in Records /\ byuid[Passwd[i].uid] = Passwd[i]
      BY <2>2, <3>1, InitFiles
    <3>3. QED
      BY <3>1, <3>2, RecordFacts
  <2>3. LinesInv
    BY <2>1, <2>2 DEF LinesInv, Idle
  <2>4. ASSUME NEW u \in Shown
        PROVE  {l \in master : l.uid = u} = IF byuid[u] = None THEN {} ELSE {byuid[u]}
    <3>1. \A l \in master : l.uid = u => byuid[u] = l /\ byuid[u] # None
      BY <2>2
    <3>2. byuid[u] # None => byuid[u] \in master /\ byuid[u].uid = u
      <4>1. u \in Uids
        BY Constants
      <4>2. QED
        BY <2>1, <4>1, InitFiles
    <3>3. QED
      BY <3>1, <3>2
  <2>5. MasterFollows
    BY <2>4 DEF MasterFollows
  <2>6. QED
    BY <2>3, <2>5
<1>2. MasterInv => MasterFollows
  BY DEF MasterInv
<1>3. QED
  BY <1>1, <1>2, NextMasterInv, PTL DEF Spec
-----------------------------------------------------------------------------
(* Texts of login classes                                                  *)

TextParts == ClassNames \cup ClassEntries \cup {Colon, Tab}

(* Where everything is in the text of class n with entries es. *)
IsText(x, n, es) ==
  /\ x \in Seq(TextParts) /\ Len(x) = 4 * Len(es) + 2
  /\ x[1] = n /\ x[4 * Len(es) + 2] = Colon
  /\ \A j \in 1 .. Len(es) : /\ x[4 * j - 2] = Colon /\ x[4 * j - 1] = Tab
                             /\ x[4 * j] = Colon /\ x[4 * j + 1] = es[j]

LEMMA PlacesOfText ==
  ASSUME NEW m \in Nat, NEW p \in 1 .. 4 * m + 2
  PROVE  \/ p = 1 \/ p = 4 * m + 2
         \/ \E j \in 1 .. m : p = 4 * j - 2 \/ p = 4 * j - 1 \/ p = 4 * j \/ p = 4 * j + 1
<1>1. PICK j \in Int : 4 * j <= p + 2 /\ p + 2 < 4 * j + 4
  <2>1. (p + 2) \div 4 \in Int /\ 4 * ((p + 2) \div 4) <= p + 2 /\ p + 2 < 4 * ((p + 2) \div 4) + 4
    OBVIOUS
  <2>2. QED
    BY <2>1
<1>2. CASE j \in 1 .. m
  <2>1. p = 4 * j - 2 \/ p = 4 * j - 1 \/ p = 4 * j \/ p = 4 * j + 1
    BY <1>1
  <2>2. QED
    BY <1>2, <2>1
<1>3. CASE j < 1
  BY <1>1, <1>3
<1>4. CASE j > m
  BY <1>1, <1>4
<1>5. QED
  BY <1>2, <1>3, <1>4

LEMMA OneText ==
  ASSUME NEW n, NEW es \in Seq(ClassEntries), NEW x, NEW y, IsText(x, n, es), IsText(y, n, es)
  PROVE  x = y
<1>1. Len(es) \in Nat
  OBVIOUS
<1>2. /\ x \in Seq(TextParts) /\ y \in Seq(TextParts)
      /\ Len(x) = 4 * Len(es) + 2 /\ Len(y) = 4 * Len(es) + 2
  BY DEF IsText
<1>3. ASSUME NEW p \in 1 .. 4 * Len(es) + 2 PROVE x[p] = y[p]
  <2>1. CASE p = 1 \/ p = 4 * Len(es) + 2
    BY <2>1 DEF IsText
  <2>2. CASE \E j \in 1 .. Len(es) : p = 4 * j - 2 \/ p = 4 * j - 1 \/ p = 4 * j \/ p = 4 * j + 1
    BY <2>2 DEF IsText
  <2>3. QED
    BY <1>1, <2>1, <2>2, PlacesOfText
<1>4. QED
  BY <1>2, <1>3, SeqEqual

-----------------------------------------------------------------------------
(* Entries(es) is put together by a recursive function.                    *)

FlatTo(seqs, n, flat) ==
  flat = [i \in 1 .. n |-> IF i = 1 THEN seqs[i] ELSE flat[i - 1] \o seqs[i]]
Flat(seqs) == CHOOSE flat : FlatTo(seqs, Len(seqs), flat)

LEMMA FlattenIsFlat ==
  ASSUME NEW seqs, Len(seqs) # 0
  PROVE  Seqs!FlattenSeq(seqs) = Flat(seqs)[Len(seqs)]
BY DEF Seqs!FlattenSeq, Flat, FlatTo

LEMMA FlatStep ==
  ASSUME NEW seqs, NEW n \in Nat, NEW flat, FlatTo(seqs, n, flat), NEW i \in 1 .. n
  PROVE  flat[i] = IF i = 1 THEN seqs[i] ELSE flat[i - 1] \o seqs[i]
<1> DEFINE F(x) == IF x = 1 THEN seqs[x] ELSE flat[x - 1] \o seqs[x]
<1>1. flat = [x \in 1 .. n |-> F(x)]
  BY DEF FlatTo
<1> HIDE DEF F
<1>2. flat[i] = F(i)
  BY <1>1
<1>3. QED
  BY <1>2 DEF F

LEMMA FlatExists ==
  ASSUME NEW seqs, Len(seqs) \in Nat
  PROVE  FlatTo(seqs, Len(seqs), Flat(seqs))
<1> DEFINE T == {n \in Nat : \E flat : FlatTo(seqs, n, flat)}
<1>1. 0 \in T
  <2> DEFINE flat == [i \in 1 .. 0 |-> 0]
  <2>1. flat = [i \in 1 .. 0 |-> IF i = 1 THEN seqs[i] ELSE flat[i - 1] \o seqs[i]]
    <3>1. \A i \in 1 .. 0 : FALSE
      OBVIOUS
    <3>2. QED
      BY <3>1
  <2>2. FlatTo(seqs, 0, flat)
    BY <2>1 DEF FlatTo
  <2>3. QED
    BY <2>2
<1>2. ASSUME NEW n \in 1 .. Len(seqs), n - 1 \in T PROVE n \in T
  <2>1. PICK old : FlatTo(seqs, n - 1, old)
    BY <1>2
  <2> DEFINE new == [i \in 1 .. n |-> IF i < n THEN old[i]
                                      ELSE IF n = 1 THEN seqs[n] ELSE old[n - 1] \o seqs[n]]
             F(i) == IF i = 1 THEN seqs[i] ELSE new[i - 1] \o seqs[i]
  <2>2. n - 1 \in Nat /\ n \in Nat
    OBVIOUS
  <2>3. \A i \in 1 .. n - 1 : new[i] = old[i]
    BY <2>2
  <2>4. new[n] = IF n = 1 THEN seqs[n] ELSE old[n - 1] \o seqs[n]
    BY <2>2
  <2>5. new = [i \in 1 .. n |-> new[i]]
    OBVIOUS
  <2> HIDE DEF new
  <2>6. \A i \in 1 .. n - 1 : old[i] = IF i = 1 THEN seqs[i] ELSE old[i - 1] \o seqs[i]
    BY <2>1, <2>2, FlatStep
  <2>7. \A i \in 1 .. n : new[i] = F(i)
    <3> TAKE i \in 1 .. n
    <3>1. CASE i = 1 /\ n # 1
      <4>1. 1 \in 1 .. n - 1
        BY <2>2, <3>1
      <4>2. QED
        BY <3>1, <4>1, <2>3, <2>6
    <3>2. CASE i # 1 /\ i # n
      <4>1. i \in 1 .. n - 1 /\ i - 1 \in 1 .. n - 1
        BY <3>2, <2>2
      <4>2. QED
        BY <4>1, <3>2, <2>3, <2>6
    <3>3. CASE i = n /\ n = 1
      BY <3>3, <2>4
    <3>4. CASE i = n /\ n # 1
      <4>1. n - 1 \in 1 .. n - 1
        BY <2>2, <3>4
      <4>2. QED
        BY <4>1, <3>4, <2>3, <2>4
    <3>5. QED
      BY <3>1, <3>2, <3>3, <3>4
  <2> HIDE DEF F
  <2>8. new = [i \in 1 .. n |-> F(i)]
    BY <2>5, <2>7
  <2>9. FlatTo(seqs, n, new)
    BY <2>8 DEF F, FlatTo
  <2>10. QED
    BY <2>2, <2>9
<1> HIDE DEF T
<1>3. Len(seqs) \in T
  <2>1. 0 .. Len(seqs) \subseteq T
    BY <1>1, <1>2, AllBelow
  <2>2. QED
    BY <2>1
<1>4. QED
  BY <1>3 DEF T, Flat

(* The entries of a text, four places each. *)
LEMMA EntriesAre ==
  ASSUME NEW es \in Seq(ClassEntries)
  PROVE  /\ Entries(es) \in Seq(TextParts) /\ Len(Entries(es)) = 4 * Len(es)
         /\ \A j \in 1 .. Len(es) :
              /\ Entries(es)[4 * j - 3] = Colon /\ Entries(es)[4 * j - 2] = Tab
              /\ Entries(es)[4 * j - 1] = Colon /\ Entries(es)[4 * j] = es[j]
<1> DEFINE m == Len(es)
           seqs == [i \in DOMAIN es |-> Separated(es[i])]
           flat == Flat(seqs)
           Right(x, i) == /\ x \in Seq(TextParts) /\ Len(x) = 4 * i
                          /\ \A j \in 1 .. i :
                               /\ x[4 * j - 3] = Colon /\ x[4 * j - 2] = Tab
                               /\ x[4 * j - 1] = Colon /\ x[4 * j] = es[j]
           T == {0} \cup {i \in 1 .. m : Right(flat[i], i)}
<1>1. m \in Nat /\ DOMAIN es = 1 .. m /\ \A i \in 1 .. m : es[i] \in TextParts
  BY DEF TextParts
<1>2. Len(seqs) = m
  BY <1>1
<1>3. \A i \in 1 .. m : seqs[i] = <<Colon, Tab, Colon, es[i]>>
  BY <1>1 DEF Separated
<1>4. \A i \in 1 .. m : seqs[i] \in Seq(TextParts) /\ Len(seqs[i]) = 4
                        /\ seqs[i][1] = Colon /\ seqs[i][2] = Tab
                        /\ seqs[i][3] = Colon /\ seqs[i][4] = es[i]
  <2> HIDE DEF seqs
  <2> TAKE i \in 1 .. m
  <2>1. es[i] \in TextParts /\ Colon \in TextParts /\ Tab \in TextParts
    BY <1>1 DEF TextParts
  <2> DEFINE e == es[i]
  <2>2. seqs[i] = <<Colon, Tab, Colon, e>>
    BY <1>3
  <2>3. e \in TextParts
    BY <2>1
  <2> HIDE DEF e
  <2>4. <<Colon, Tab, Colon, e>> \in Seq(TextParts)
    BY <2>1, <2>3
  <2>5. QED
    BY <2>2, <2>4 DEF e
<1> HIDE DEF seqs
<1>5. \A i \in 1 .. m : flat[i] = IF i = 1 THEN seqs[i] ELSE flat[i - 1] \o seqs[i]
  BY <1>1, <1>2, FlatExists, FlatStep
<1> HIDE DEF flat
<1>6. ASSUME NEW i \in 1 .. m, i - 1 \in T PROVE i \in T
  <2>1. CASE i = 1
    <3>1. flat[1] = seqs[1]
      BY <1>5, <2>1
    <3>2. Right(flat[1], 1)
      BY <1>4, <2>1, <3>1
    <3>3. QED
      BY <2>1, <3>2
  <2>2. CASE i # 1
    <3>1. i - 1 \in Nat /\ i - 1 \in 1 .. m /\ Right(flat[i - 1], i - 1)
      BY <1>1, <1>6, <2>2
    <3>2. PICK old \in Seq(TextParts) : old = flat[i - 1] /\ Len(old) = 4 * (i - 1) /\ Right(old, i - 1)
      BY <3>1
    <3>3. flat[i] = old \o seqs[i]
      BY <1>5, <2>2, <3>2
    <3>4. /\ flat[i] \in Seq(TextParts) /\ Len(flat[i]) = 4 * i
          /\ \A p \in 1 .. 4 * i :
               flat[i][p] = IF p <= 4 * (i - 1) THEN old[p] ELSE seqs[i][p - 4 * (i - 1)]
      <4>1. PICK new \in Seq(TextParts) : new = seqs[i] /\ Len(new) = 4
        BY <1>4
      <4>2. /\ old \o new \in Seq(TextParts) /\ Len(old \o new) = Len(old) + Len(new)
            /\ \A p \in 1 .. Len(old) + Len(new) :
                 (old \o new)[p] = IF p <= Len(old) THEN old[p] ELSE new[p - Len(old)]
        BY ConcatProperties
      <4>3. Len(old) = 4 * (i - 1) /\ Len(old) + Len(new) = 4 * i
        <5>1. i \in Int /\ Len(old) = 4 * (i - 1) /\ Len(new) = 4
          BY <1>1, <3>2, <4>1
        <5>2. QED
          BY <5>1
      <4>4. flat[i] = old \o new
        BY <3>3, <4>1
      <4>5. QED
        BY <4>1, <4>2, <4>3, <4>4
    <3>5. ASSUME NEW j \in 1 .. i
          PROVE  /\ flat[i][4 * j - 3] = Colon /\ flat[i][4 * j - 2] = Tab
                 /\ flat[i][4 * j - 1] = Colon /\ flat[i][4 * j] = es[j]
      <4>1. CASE j \in 1 .. i - 1
        <5>1. \A p \in {4 * j - 3, 4 * j - 2, 4 * j - 1, 4 * j} : p \in 1 .. 4 * i /\ p <= 4 * (i - 1)
          BY <3>1, <4>1
        <5>2. QED
          BY <3>2, <3>4, <4>1, <5>1
      <4>2. CASE j = i
        <5>1. /\ flat[i][4 * i - 3] = seqs[i][1] /\ flat[i][4 * i - 2] = seqs[i][2]
              /\ flat[i][4 * i - 1] = seqs[i][3] /\ flat[i][4 * i] = seqs[i][4]
          BY <3>1, <3>4
        <5>2. QED
          BY <1>4, <4>2, <5>1
      <4>3. QED
        BY <3>1, <4>1, <4>2
    <3>6. QED
      BY <3>4, <3>5
  <2>3. QED
    BY <2>1, <2>2
<1>7. 0 .. m \subseteq T
  <2> HIDE DEF T
  <2>1. 0 \in T
    BY DEF T
  <2>2. QED
    BY <1>1, <1>6, <2>1, AllBelow
<1>8. CASE m = 0
  <2>1. Entries(es) = seqs /\ seqs = <<>>
    BY <1>1, <1>2, <1>8 DEF Entries, seqs, Seqs!FlattenSeq
  <2>2. QED
    BY <1>8, <2>1
<1>9. CASE m # 0
  <2>1. Entries(es) = flat[m]
    BY <1>2, <1>9, FlattenIsFlat DEF Entries, seqs, flat
  <2>2. Right(flat[m], m)
    BY <1>1, <1>7, <1>9
  <2>3. QED
    BY <2>1, <2>2
<1>10. QED
  BY <1>8, <1>9

LEMMA TextIs ==
  ASSUME NEW n \in ClassNames, NEW es \in Seq(ClassEntries)
  PROVE  IsText(ClassText(n, es), n, es)
<1> DEFINE m == Len(es)
<1>1. PICK b \in Seq(TextParts) :
        /\ b = Entries(es) /\ Len(b) = 4 * m
        /\ \A j \in 1 .. m : /\ b[4 * j - 3] = Colon /\ b[4 * j - 2] = Tab
                             /\ b[4 * j - 1] = Colon /\ b[4 * j] = es[j]
  BY EntriesAre
<1>2. m \in Nat /\ <<n>> \in Seq(TextParts) /\ <<Colon>> \in Seq(TextParts)
  BY DEF TextParts
<1>3. PICK a \in Seq(TextParts) :
        /\ a = <<n>> \o b /\ Len(a) = 4 * m + 1
        /\ a[1] = n /\ \A i \in 1 .. 4 * m : a[i + 1] = b[i]
  <2> DEFINE f == <<n>>
             y == f \o b
  <2>1. f \in Seq(TextParts) /\ Len(f) = 1 /\ f[1] = n
    BY <1>2
  <2> HIDE DEF f
  <2>2. /\ y \in Seq(TextParts) /\ Len(y) = Len(f) + Len(b)
        /\ \A i \in 1 .. Len(f) + Len(b) : y[i] = IF i <= Len(f) THEN f[i] ELSE b[i - Len(f)]
    BY <2>1, ConcatProperties
  <2> HIDE DEF y
  <2>3. Len(y) = 4 * m + 1 /\ y[1] = n
    BY <1>1, <1>2, <2>1, <2>2
  <2>4. ASSUME NEW i \in 1 .. 4 * m PROVE y[i + 1] = b[i]
    <3>1. i + 1 \in 1 .. Len(f) + Len(b) /\ ~ (i + 1 <= Len(f)) /\ i + 1 - Len(f) = i
      BY <1>1, <1>2, <2>1
    <3>2. QED
      BY <2>2, <3>1
  <2>5. y = <<n>> \o b
    BY DEF y, f
  <2>6. QED
    BY <2>2, <2>3, <2>4, <2>5
<1>4. PICK x \in Seq(TextParts) :
        /\ x = a \o <<Colon>> /\ Len(x) = 4 * m + 2
        /\ x[4 * m + 2] = Colon /\ \A i \in 1 .. 4 * m + 1 : x[i] = a[i]
  <2> DEFINE f == <<Colon>>
             y == a \o f
  <2>1. f \in Seq(TextParts) /\ Len(f) = 1 /\ f[1] = Colon
    BY <1>2
  <2> HIDE DEF f
  <2>2. /\ y \in Seq(TextParts) /\ Len(y) = Len(a) + Len(f)
        /\ \A i \in 1 .. Len(a) + Len(f) : y[i] = IF i <= Len(a) THEN a[i] ELSE f[i - Len(a)]
    BY <2>1, ConcatProperties
  <2> HIDE DEF y
  <2>3. Len(y) = 4 * m + 2
    BY <1>2, <1>3, <2>1, <2>2
  <2>4. y[4 * m + 2] = Colon
    <3>1. /\ 4 * m + 2 \in 1 .. Len(a) + Len(f) /\ ~ (4 * m + 2 <= Len(a))
          /\ 4 * m + 2 - Len(a) = 1
      <4>1. m \in Nat /\ Len(a) = 4 * m + 1 /\ Len(f) = 1
        BY <1>2, <1>3, <2>1
      <4> HIDE DEF m
      <4>2. QED
        BY <4>1
    <3>2. QED
      BY <2>1, <2>2, <3>1
  <2>5. ASSUME NEW i \in 1 .. 4 * m + 1 PROVE y[i] = a[i]
    <3>1. i \in 1 .. Len(a) + Len(f) /\ i <= Len(a)
      BY <1>2, <1>3, <2>1
    <3>2. QED
      BY <2>2, <3>1
  <2>6. y = a \o <<Colon>>
    BY DEF y, f
  <2>7. QED
    BY <2>2, <2>3, <2>4, <2>5, <2>6
<1>5. x = ClassText(n, es)
  BY <1>1, <1>3, <1>4 DEF ClassText
<1>6. x[1] = n
  BY <1>2, <1>3, <1>4
<1>7. ASSUME NEW j \in 1 .. m
      PROVE  /\ x[4 * j - 2] = Colon /\ x[4 * j - 1] = Tab
             /\ x[4 * j] = Colon /\ x[4 * j + 1] = es[j]
  <2>1. \A p \in {4 * j - 3, 4 * j - 2, 4 * j - 1, 4 * j} :
          p \in 1 .. 4 * m /\ p + 1 \in 1 .. 4 * m + 1 /\ x[p + 1] = b[p]
    BY <1>2, <1>3, <1>4
  <2>2. /\ x[4 * j - 2] = b[4 * j - 3] /\ x[4 * j - 1] = b[4 * j - 2]
        /\ x[4 * j] = b[4 * j - 1] /\ x[4 * j + 1] = b[4 * j]
    <3>1. /\ 4 * j - 2 = (4 * j - 3) + 1 /\ 4 * j - 1 = (4 * j - 2) + 1
          /\ 4 * j = (4 * j - 1) + 1
      BY <1>2
    <3>2. /\ x[(4 * j - 3) + 1] = b[4 * j - 3] /\ x[(4 * j - 2) + 1] = b[4 * j - 2]
          /\ x[(4 * j - 1) + 1] = b[4 * j - 1] /\ x[4 * j + 1] = b[4 * j]
      BY <2>1
    <3>3. QED
      BY <3>1, <3>2
  <2>3. QED
    BY <1>1, <2>2
<1>8. QED
  BY <1>4, <1>5, <1>6, <1>7 DEF IsText

(* A text that goes on behind its last colon is that of one more entry. *)
LEMMA TextGoesOn ==
  ASSUME NEW n, NEW es \in Seq(ClassEntries), NEW new \in ClassEntries, NEW x, IsText(x, n, es)
  PROVE  IsText(x \o <<Tab, Colon, new, Colon>>, n, Append(es, new))
<1> DEFINE m == Len(es)
           f == <<Tab, Colon, new, Colon>>
           y == x \o f
<1>1. m \in Nat /\ x \in Seq(TextParts) /\ Len(x) = 4 * m + 2
  BY DEF IsText
<1>2. /\ f \in Seq(TextParts) /\ Len(f) = 4
      /\ f[1] = Tab /\ f[2] = Colon /\ f[3] = new /\ f[4] = Colon
  <2>1. Tab \in TextParts /\ Colon \in TextParts /\ new \in TextParts
    BY DEF TextParts
  <2>2. QED
    BY <2>1
<1> HIDE DEF f
<1>3. /\ y \in Seq(TextParts) /\ Len(y) = Len(x) + Len(f)
      /\ \A p \in 1 .. Len(x) + Len(f) : y[p] = IF p <= Len(x) THEN x[p] ELSE f[p - Len(x)]
  BY <1>1, <1>2, ConcatProperties
<1> HIDE DEF y
<1>4. \A p \in 1 .. 4 * m + 2 : y[p] = x[p]
  <2>1. \A p \in 1 .. 4 * m + 2 : p \in 1 .. Len(x) + Len(f) /\ p <= Len(x)
    BY <1>1, <1>2
  <2>2. QED
    BY <1>3, <2>1
<1>5. y[4 * m + 3] = Tab /\ y[4 * m + 4] = Colon /\ y[4 * m + 5] = new /\ y[4 * m + 6] = Colon
  <2>1. \A q \in 1 .. 4 : y[4 * m + 2 + q] = f[q]
    <3> TAKE q \in 1 .. 4
    <3>1. /\ 4 * m + 2 + q \in 1 .. Len(x) + Len(f) /\ ~ (4 * m + 2 + q <= Len(x))
          /\ 4 * m + 2 + q - Len(x) = q
      BY <1>1, <1>2
    <3>2. QED
      BY <1>3, <3>1
  <2>2. QED
    BY <1>1, <1>2, <2>1
<1> DEFINE more == Append(es, new)
<1>6. /\ Len(more) = m + 1 /\ more[m + 1] = new /\ \A j \in 1 .. m : more[j] = es[j]
  BY AppendProperties
<1> HIDE DEF more
<1>7. Len(y) = 4 * Len(more) + 2 /\ y[1] = n /\ y[4 * Len(more) + 2] = Colon
  <2>1. Len(y) = 4 * (m + 1) + 2 /\ 4 * (m + 1) + 2 = 4 * m + 6 /\ 1 \in 1 .. 4 * m + 2
    BY <1>1, <1>2, <1>3
  <2>2. QED
    BY <1>4, <1>5, <1>6, <2>1 DEF IsText
<1>8. ASSUME NEW j \in 1 .. Len(more)
      PROVE  /\ y[4 * j - 2] = Colon /\ y[4 * j - 1] = Tab
             /\ y[4 * j] = Colon /\ y[4 * j + 1] = more[j]
  <2>1. CASE j \in 1 .. m
    <3>1. \A p \in {4 * j - 2, 4 * j - 1, 4 * j, 4 * j + 1} : p \in 1 .. 4 * m + 2
      BY <1>1, <2>1
    <3>2. QED
      BY <1>4, <1>6, <2>1, <3>1 DEF IsText
  <2>2. CASE j = m + 1
    <3>1. /\ 4 * j - 2 = 4 * m + 2 /\ 4 * j - 1 = 4 * m + 3 /\ 4 * j = 4 * m + 4
          /\ 4 * j + 1 = 4 * m + 5 /\ 4 * m + 2 \in 1 .. 4 * m + 2
      BY <1>1, <2>2
    <3>2. x[4 * m + 2] = Colon
      BY DEF IsText
    <3>3. QED
      BY <1>4, <1>5, <1>6, <2>2, <3>1, <3>2
  <2>3. QED
    BY <1>1, <1>6, <2>1, <2>2
<1>9. QED
  BY <1>3, <1>7, <1>8 DEF IsText, y, f, more

-----------------------------------------------------------------------------
(* What php_spwd_class_parse makes of a text                               *)

LEMMA PartsDiffer ==
  ASSUME NEW n \in ClassNames, NEW e \in ClassEntries
  PROVE  n # Tab /\ e # Tab /\ Colon # Tab
BY ClassAssumption

LEMMA BeginsAt ==
  ASSUME NEW n \in ClassNames, NEW es \in Seq(ClassEntries), NEW x, IsText(x, n, es)
  PROVE  Begins(x) = {4 * j : j \in 1 .. Len(es)}
<1> DEFINE m == Len(es)
<1>1. m \in Nat /\ Len(x) = 4 * m + 2
  BY DEF IsText
<1>2. ASSUME NEW i \in Begins(x) PROVE \E j \in 1 .. m : i = 4 * j
  <2>1. i \in 3 .. 4 * m + 2 /\ x[i - 1] = Tab
    BY <1>1 DEF Begins
  <2>2. i - 1 \in 1 .. 4 * m + 2 /\ i - 1 # 1
    BY <1>1, <2>1
  <2>3. \/ i - 1 = 4 * m + 2
        \/ \E j \in 1 .. m : i - 1 = 4 * j - 2 \/ i - 1 = 4 * j - 1 \/ i - 1 = 4 * j \/ i - 1 = 4 * j + 1
    BY <1>1, <2>2, PlacesOfText
  <2>4. i - 1 # 4 * m + 2
    BY <1>1, <2>1, PartsDiffer, ClassAssumption DEF IsText
  <2>5. PICK j \in 1 .. m : i - 1 = 4 * j - 2 \/ i - 1 = 4 * j - 1 \/ i - 1 = 4 * j \/ i - 1 = 4 * j + 1
    BY <2>3, <2>4
  <2>6. x[4 * j - 2] # Tab /\ x[4 * j] # Tab /\ x[4 * j + 1] # Tab
    <3>1. es[j] \in ClassEntries
      OBVIOUS
    <3>2. QED
      BY <3>1, PartsDiffer DEF IsText
  <2>7. i - 1 = 4 * j - 1
    BY <2>1, <2>5, <2>6
  <2>8. i = 4 * j
    BY <2>1, <2>7
  <2>9. QED
    BY <2>8
<1>3. ASSUME NEW j \in 1 .. m PROVE 4 * j \in Begins(x)
  <2>1. 4 * j \in 3 .. Len(x)
    BY <1>1
  <2>2. x[4 * j - 2] = Colon /\ x[4 * j - 1] = Tab /\ x[4 * j] = Colon
    BY DEF IsText
  <2>3. QED
    BY <2>1, <2>2 DEF Begins
<1>4. QED
  BY <1>2, <1>3

LEMMA EndsAt ==
  ASSUME NEW n \in ClassNames, NEW es \in Seq(ClassEntries), NEW x, IsText(x, n, es),
         NEW j \in 1 .. Len(es)
  PROVE  EndOf(x, 4 * j) = 4 * j + 2
<1> DEFINE m == Len(es)
           End(t) == /\ t = Len(x) \/ x[t + 1] = Tab
                     /\ \A l \in 4 * j .. t : x[l] # Tab
<1>1. m \in Nat /\ Len(x) = 4 * m + 2 /\ j \in Nat
  BY DEF IsText
<1>2. x[4 * j] # Tab /\ x[4 * j + 1] # Tab
  <2>1. es[j] \in ClassEntries
    OBVIOUS
  <2>2. QED
    BY <2>1, PartsDiffer DEF IsText
<1>3. x[4 * j + 2] # Tab /\ (j # m => x[4 * j + 3] = Tab)
  <2>1. CASE j = m
    BY <2>1, ClassAssumption DEF IsText
  <2>2. CASE j # m
    <3>1. j + 1 \in 1 .. m /\ 4 * (j + 1) - 2 = 4 * j + 2 /\ 4 * (j + 1) - 1 = 4 * j + 3
      BY <1>1, <2>2
    <3>2. QED
      BY <3>1, ClassAssumption DEF IsText
  <2>3. QED
    BY <2>1, <2>2
<1>4. 4 * j + 2 \in 4 * j .. Len(x) /\ End(4 * j + 2)
  <2>1. \A l \in 4 * j .. 4 * j + 2 : l = 4 * j \/ l = 4 * j + 1 \/ l = 4 * j + 2
    BY <1>1
  <2>2. 4 * j + 2 \in 4 * j .. Len(x)
    BY <1>1
  <2>3. 4 * j + 2 + 1 = 4 * j + 3 /\ (j = m => 4 * j + 2 = Len(x))
    BY <1>1
  <2>4. QED
    BY <1>2, <1>3, <2>1, <2>2, <2>3
<1>5. ASSUME NEW t \in 4 * j .. Len(x), End(t) PROVE t = 4 * j + 2
  <2>1. CASE t < 4 * j + 2
    <3>1. t + 1 = 4 * j + 1 \/ t + 1 = 4 * j + 2
      BY <1>1, <2>1
    <3>2. t # Len(x)
      BY <1>1, <2>1
    <3>3. QED
      BY <1>2, <1>3, <1>5, <3>1, <3>2
  <2>2. CASE t > 4 * j + 2
    <3>1. j # m /\ 4 * j + 3 \in 4 * j .. t
      BY <1>1, <2>2
    <3>2. QED
      BY <1>3, <1>5, <3>1
  <2>3. QED
    BY <1>1, <2>1, <2>2
<1>6. EndOf(x, 4 * j) = CHOOSE t \in 4 * j .. Len(x) : End(t)
  BY DEF EndOf
<1> HIDE DEF End
<1>7. QED
  BY <1>4, <1>5, <1>6

LEMMA PlacesPicked ==
  ASSUME NEW m \in Nat
  PROVE  Pick([i \in 1 .. 4 * m + 2 |-> i], {4 * j : j \in 1 .. m}) = [j \in 1 .. m |-> 4 * j]
<1> DEFINE f == [i \in 1 .. 4 * m + 2 |-> i]
           g == [j \in 1 .. m |-> 4 * j]
           S == {4 * j : j \in 1 .. m}
           to == [i \in 0 .. 4 * m + 2 |-> i \div 4]
<1>1. /\ Len(f) = 4 * m + 2 /\ \A i \in 1 .. 4 * m + 2 : f[i] = i
      /\ Len(g) = m /\ g \in Seq(Nat) /\ \A j \in 1 .. m : g[j] = 4 * j
  OBVIOUS
<1>2. \A i \in 0 .. 4 * m + 2 : i \div 4 \in 0 .. m
  OBVIOUS
<1>3. to \in [0 .. 4 * m + 2 -> 0 .. m] /\ to[0] = 0 /\ to[4 * m + 2] = m
  <2>1. 0 \div 4 = 0 /\ (4 * m + 2) \div 4 = m /\ 0 \in 0 .. 4 * m + 2 /\ 4 * m + 2 \in 0 .. 4 * m + 2
    OBVIOUS
  <2>2. QED
    BY <1>2, <2>1
<1>4. ASSUME NEW i \in 1 .. 4 * m + 2
      PROVE  \/ i \notin S /\ to[i] = to[i - 1]
             \/ /\ to[i] = to[i - 1] + 1
                /\ IF i \in S THEN to[i] \in 1 .. m /\ f[i] = g[to[i]] ELSE to[i] \notin 1 .. m
  <2>1. to[i] = i \div 4 /\ to[i - 1] = (i - 1) \div 4
    OBVIOUS
  <2> HIDE DEF to
  <2>2. CASE i \in S
    <3>1. PICK j \in 1 .. m : i = 4 * j
      BY <2>2
    <3>2. (4 * j) \div 4 = j /\ (4 * j - 1) \div 4 = j - 1
      OBVIOUS
    <3>3. to[i] = j /\ to[i] = to[i - 1] + 1
      BY <2>1, <3>1, <3>2
    <3>4. QED
      BY <1>1, <2>2, <3>1, <3>3
  <2>3. CASE i \notin S
    <3> DEFINE j == i \div 4
    <3>1. j \in 0 .. m /\ 4 * j <= i /\ i < 4 * j + 4
      OBVIOUS
    <3>2. i # 4 * j
      BY <2>3, <3>1
    <3>3. (i - 1) \div 4 = j
      <4> HIDE DEF j
      <4>1. 4 * j <= i - 1 /\ i - 1 < 4 * j + 4 /\ j \in Int
        BY <3>1, <3>2
      <4>2. QED
        BY <4>1
    <3>4. QED
      BY <2>1, <2>3, <3>3
  <2>4. QED
    BY <2>2, <2>3
<1> HIDE DEF f, g, S, to
<1>5. Together(f, S, g, 1 .. m, to)
  BY <1>1, <1>3, <1>4 DEF Together
<1>6. Pick(f, S) = Pick(g, 1 .. m)
  BY <1>1, <1>5, SamePick
<1>7. Pick(g, 1 .. m) = g
  BY <1>1, PickAll
<1>8. QED
  BY <1>6, <1>7 DEF f, g, S

LEMMA ParseText ==
  ASSUME NEW n \in ClassNames, NEW es \in Seq(ClassEntries)
  PROVE  ClassParse(ClassText(n, es)) = es
<1> DEFINE m == Len(es)
<1>0. PICK x : x = ClassText(n, es) /\ IsText(x, n, es)
  BY TextIs
<1>1. m \in Nat /\ x \in Seq(TextParts) /\ Len(x) = 4 * m + 2
  BY <1>0 DEF IsText
<1> DEFINE begin == Pick([i \in 1 .. Len(x) |-> i], Begins(x))
           part(i) == SubSeq(x, begin[i] + 1, EndOf(x, begin[i]) - 1)
<1>2. begin = [j \in 1 .. m |-> 4 * j]
  BY <1>0, <1>1, BeginsAt, PlacesPicked
<1> HIDE DEF begin
<1>3. ASSUME NEW i \in 1 .. m PROVE part(i) = <<es[i]>>
  <2>1. begin[i] = 4 * i /\ EndOf(x, 4 * i) = 4 * i + 2
    BY <1>0, <1>2, EndsAt
  <2>2. part(i) = SubSeq(x, 4 * i + 1, 4 * i + 1)
    <3>1. 4 * i + 2 - 1 = 4 * i + 1
      OBVIOUS
    <3>2. QED
      BY <2>1, <3>1
  <2>3. 4 * i + 1 \in 1 .. Len(x) /\ x[4 * i + 1] = es[i]
    BY <1>0, <1>1 DEF IsText
  <2> DEFINE p == 4 * i + 1
  <2>4. p \in 1 .. Len(x) /\ x[p] = es[i]
    BY <2>3
  <2> HIDE DEF p
  <2>5. SubSeq(x, p, p) = <<x[p]>>
    <3>1. x[p] \in TextParts /\ p \in Int
      BY <1>1, <2>4
    <3>2. /\ SubSeq(x, p, p) \in Seq(TextParts) /\ Len(SubSeq(x, p, p)) = 1
          /\ SubSeq(x, p, p)[1] = x[p]
      <4>1. \A q \in p .. p : x[q] \in TextParts
        BY <3>1
      <4>2. p - p + 1 = 1 /\ p + 1 - 1 = p /\ p <= p
        BY <3>1
      <4>3. /\ SubSeq(x, p, p) \in Seq(TextParts)
            /\ Len(SubSeq(x, p, p)) = IF p <= p THEN p - p + 1 ELSE 0
            /\ \A q \in 1 .. p - p + 1 : SubSeq(x, p, p)[q] = x[p + q - 1]
        BY <3>1, <4>1, SubSeqProperties
      <4>4. QED
        BY <4>2, <4>3
    <3> DEFINE e == x[p]
               y == SubSeq(x, p, p)
    <3>3. e \in TextParts /\ y \in Seq(TextParts) /\ Len(y) = 1 /\ y[1] = e
      BY <3>1, <3>2
    <3> HIDE DEF e, y
    <3>4. y = <<e>>
      BY <3>3
    <3>5. QED
      BY <3>4 DEF e, y
  <2>6. QED
    BY <2>2, <2>4, <2>5 DEF p
<1>4. DOMAIN begin = 1 .. m
  BY <1>2
<1>5. ClassParse(x) = [i \in DOMAIN begin |-> IF part(i) = <<>> THEN NoValue ELSE part(i)[1]]
  BY DEF ClassParse, begin
<1> HIDE DEF part
<1>6. \A i \in 1 .. m : (IF part(i) = <<>> THEN NoValue ELSE part(i)[1]) = es[i]
  <2> TAKE i \in 1 .. m
  <2> DEFINE e == es[i]
  <2>1. part(i) = <<e>>
    BY <1>3
  <2> HIDE DEF e
  <2>2. part(i) # <<>> /\ part(i)[1] = e
    BY <2>1
  <2>3. QED
    BY <2>2 DEF e
<1>7. ClassParse(x) = [i \in 1 .. m |-> es[i]]
  BY <1>4, <1>5, <1>6
<1>8. [i \in 1 .. m |-> es[i]] = es
  OBVIOUS
<1>9. QED
  BY <1>0, <1>7, <1>8

-----------------------------------------------------------------------------
(* Classes                                                                 *)

(* Every text is that of the entries the class should have. *)
ClassInv ==
  /\ classtold \in [ClassNames -> Seq(ClassEntries) \cup {NoValue}]
  /\ classdb = [n \in ClassNames |->
       IF classtold[n] = NoValue THEN NoValue ELSE ClassText(n, classtold[n])]

LEMMA NoEntries ==
  NoValue \notin Seq(ClassEntries) /\ NoValue \notin Seq(TextParts)
<1>1. NoValue \notin Seq(TextParts)
  BY ClassAssumption DEF TextParts
<1>2. Seq(ClassEntries) \subseteq Seq(TextParts)
  BY DEF TextParts
<1>3. QED
  BY <1>1, <1>2

LEMMA OneMoreEntry ==
  ASSUME NEW n \in ClassNames, NEW es \in Seq(ClassEntries), NEW new \in ClassEntries
  PROVE  ClassText(n, es) \o <<Tab, Colon, new, Colon>> = ClassText(n, Append(es, new))
<1> DEFINE more == Append(es, new)
           x == ClassText(n, es) \o <<Tab, Colon, new, Colon>>
<1>1. more \in Seq(ClassEntries)
  OBVIOUS
<1>2. IsText(x, n, more)
  BY TextIs, TextGoesOn
<1> HIDE DEF more, x
<1>3. IsText(ClassText(n, more), n, more)
  BY <1>1, TextIs
<1>4. x = ClassText(n, more)
  BY <1>1, <1>2, <1>3, OneText
<1>5. QED
  BY <1>4 DEF more, x

LEMMA FirstEntry ==
  ASSUME NEW n \in ClassNames, NEW new \in ClassEntries
  PROVE  <<n, Colon, Tab, Colon, new, Colon>> = ClassText(n, <<new>>)
<1> DEFINE x == <<n, Colon, Tab, Colon, new, Colon>>
           es == <<new>>
<1>1. n \in TextParts /\ Colon \in TextParts /\ Tab \in TextParts /\ new \in TextParts
  BY DEF TextParts
<1>2. x \in Seq(TextParts) /\ Len(x) = 6
  BY <1>1
<1>3. x[1] = n /\ x[2] = Colon /\ x[3] = Tab /\ x[4] = Colon /\ x[5] = new /\ x[6] = Colon
  OBVIOUS
<1>4. es \in Seq(ClassEntries) /\ Len(es) = 1 /\ es[1] = new
  OBVIOUS
<1> HIDE DEF x, es
<1>5. \A j \in 1 .. Len(es) : x[4 * j - 2] = Colon /\ x[4 * j - 1] = Tab /\ x[4 * j] = Colon /\ x[4 * j + 1] = es[j]
  <2>1. \A j \in 1 .. Len(es) : j = 1
    BY <1>4
  <2>2. 4 * 1 - 2 = 2 /\ 4 * 1 - 1 = 3 /\ 4 * 1 = 4 /\ 4 * 1 + 1 = 5
    OBVIOUS
  <2>3. QED
    BY <1>3, <1>4, <2>1, <2>2
<1>6. IsText(x, n, es)
  BY <1>2, <1>3, <1>4, <1>5 DEF IsText
<1>7. x = ClassText(n, es)
  BY <1>4, <1>6, TextIs, OneText
<1>8. QED
  BY <1>7 DEF x, es

(* The format of an entry that is new makes the text of one entry more. *)
LEMMA AppendIsOneMore ==
  ASSUME NEW n \in ClassNames, NEW es \in Seq(ClassEntries), NEW new \in ClassEntries
  PROVE  AppendText(n, es, new) = ClassText(n, Append(es, new))
<1> DEFINE a == <<n>> \o Entries(es)
           f == <<Tab, Colon, new, Colon>>
           g == <<Colon, Tab, Colon, new, Colon>>
           c == <<Colon>>
<1>1. n \in TextParts /\ Colon \in TextParts /\ Tab \in TextParts /\ new \in TextParts
  BY DEF TextParts
<1>2. a \in Seq(TextParts)
  <2>1. <<n>> \in Seq(TextParts) /\ Entries(es) \in Seq(TextParts)
    BY <1>1, EntriesAre
  <2>2. QED
    BY <2>1, ConcatProperties
<1>3. c \in Seq(TextParts) /\ f \in Seq(TextParts)
  BY <1>1
<1>4. g = c \o f
  BY <1>1
<1> HIDE DEF a, f, g, c
<1>5. a \o (c \o f) = (a \o c) \o f
  BY <1>2, <1>3, ConcatAssociative
<1>6. ClassText(n, es) = a \o c
  BY DEF ClassText, a, c
<1>7. AppendText(n, es, new) = a \o g
  BY DEF AppendText, a, g
<1>8. AppendText(n, es, new) = ClassText(n, es) \o f
  BY <1>4, <1>5, <1>6, <1>7
<1>9. QED
  BY <1>8, OneMoreEntry DEF f

LEMMA ClassInvHolds == ClassSpec => []ClassInv
<1>1. ClassInit => ClassInv
  BY ClassAssumption DEF ClassInit, ClassInv
<1>2. ASSUME ClassInv, [ClassNext]_classVars PROVE ClassInv'
  <2>1. ASSUME ClassSet PROVE ClassInv'
    <3>1. PICK n \in ClassNames, k \in EntryKeys, v \in EntryValues :
            LET new == [key |-> k, val |-> v]
                text == classdb[n]
                es == ClassParse(text)
            IN /\ classdb' = [classdb EXCEPT ![n] =
                    IF text = NoValue THEN <<n, Colon, Tab, Colon, new, Colon>>
                    ELSE IF es = <<>> THEN text \o <<Tab, Colon, new, Colon>>
                    ELSE IF HasKey(es, k) THEN ClassText(n, Replaced(es, new))
                    ELSE AppendText(n, es, new)]
               /\ classtold' = [classtold EXCEPT ![n] =
                    IF @ = NoValue THEN <<new>>
                    ELSE IF HasKey(@, k) THEN Replaced(@, new) ELSE Append(@, new)]
      BY <2>1 DEF ClassSet
    <3> DEFINE new == [key |-> k, val |-> v]
               text == classdb[n]
               told == classtold[n]
               text2 == IF text = NoValue THEN <<n, Colon, Tab, Colon, new, Colon>>
                        ELSE IF ClassParse(text) = <<>> THEN text \o <<Tab, Colon, new, Colon>>
                        ELSE IF HasKey(ClassParse(text), k) THEN ClassText(n, Replaced(ClassParse(text), new))
                        ELSE AppendText(n, ClassParse(text), new)
               told2 == IF told = NoValue THEN <<new>>
                        ELSE IF HasKey(told, k) THEN Replaced(told, new) ELSE Append(told, new)
    <3>2. classdb' = [classdb EXCEPT ![n] = text2] /\ classtold' = [classtold EXCEPT ![n] = told2]
      BY <3>1
    <3>3. new \in ClassEntries /\ new.key = k
      BY DEF ClassEntries
    <3> HIDE DEF new
    <3>4. told2 \in Seq(ClassEntries) /\ text2 = ClassText(n, told2)
      <4>1. CASE told = NoValue
        <5>1. text = NoValue /\ told2 = <<new>>
          BY <1>2, <4>1 DEF ClassInv
        <5>2. text2 = <<n, Colon, Tab, Colon, new, Colon>>
          BY <5>1, Zenon
        <5> HIDE DEF text2, told2
        <5>3. told2 \in Seq(ClassEntries)
          BY <3>3, <5>1
        <5>4. QED
          BY <3>3, <5>1, <5>2, <5>3, FirstEntry
      <4>2. CASE told # NoValue
        <5>1. told \in Seq(ClassEntries) /\ text = ClassText(n, told)
          BY <1>2, <4>2 DEF ClassInv
        <5>2. text # NoValue /\ ClassParse(text) = told
          BY <5>1, ParseText, TextIs, NoEntries DEF IsText
        <5> HIDE DEF text, told
        <5>3. CASE HasKey(told, k)
          <6>1. told # <<>>
            BY <5>3 DEF HasKey
          <6>2. Replaced(told, new) \in Seq(ClassEntries)
            BY <3>3, <5>1 DEF Replaced
          <6>3. QED
            BY <4>2, <5>2, <5>3, <6>1, <6>2
        <5>4. CASE ~ HasKey(told, k)
          <6>1. told2 = Append(told, new) /\ told2 \in Seq(ClassEntries)
            BY <3>3, <4>2, <5>1, <5>4
          <6>2. CASE told = <<>>
            <7>1. text2 = ClassText(n, told) \o <<Tab, Colon, new, Colon>>
              BY <5>1, <5>2, <6>2
            <7>2. ClassText(n, told) \o <<Tab, Colon, new, Colon>> = ClassText(n, Append(told, new))
              BY <3>3, <5>1, OneMoreEntry
            <7>3. QED
              BY <6>1, <7>1, <7>2
          <6>3. CASE told # <<>>
            BY <3>3, <5>1, <5>2, <5>4, <6>1, <6>3, AppendIsOneMore
          <6>4. QED
            BY <6>2, <6>3
        <5>5. QED
          BY <5>3, <5>4
      <4>3. QED
        BY <4>1, <4>2
    <3>5. told2 # NoValue
      BY <3>4, NoEntries
    <3> HIDE DEF told2, text2
    <3>6. QED
      BY <1>2, <3>2, <3>4, <3>5 DEF ClassInv
  <2>2. ASSUME ClassDel PROVE ClassInv'
    <3>1. PICK n \in ClassNames, k \in EntryKeys :
            /\ classdb[n] # NoValue
            /\ classdb' = [classdb EXCEPT ![n] = ClassText(n, Others(ClassParse(classdb[n]), k))]
            /\ classtold' = [classtold EXCEPT ![n] = Others(classtold[n], k)]
      BY <2>2 DEF ClassDel
    <3> DEFINE told == classtold[n]
               left == Others(told, k)
    <3>2. told # NoValue /\ told \in Seq(ClassEntries) /\ classdb[n] = ClassText(n, told)
      BY <1>2, <3>1 DEF ClassInv
    <3>3. ClassParse(classdb[n]) = told
      BY <3>2, ParseText
    <3> HIDE DEF told
    <3>4. left \in Seq(ClassEntries)
      BY <3>2, PickTyped DEF Others
    <3>5. left # NoValue
      BY <3>4, NoEntries
    <3>6. classdb' = [classdb EXCEPT ![n] = ClassText(n, left)] /\ classtold' = [classtold EXCEPT ![n] = left]
      BY <3>1, <3>3 DEF told
    <3> HIDE DEF left
    <3>7. QED
      BY <1>2, <3>4, <3>5, <3>6 DEF ClassInv
  <2>3. CASE UNCHANGED classVars
    BY <1>2, <2>3 DEF ClassInv, classVars
  <2>4. QED
    BY <1>2, <2>1, <2>2, <2>3 DEF ClassNext
<1>3. QED
  BY <1>1, <1>2, PTL DEF ClassSpec

(* spwd_class_set_entry, spwd_class_del_entry (1261-1441): whatever calls came before,
   the text of every class is taken apart into the entries that were set and not
   deleted, each once, in their order.  *)
THEOREM ClassesAsToldTheorem == ClassSpec => []ClassesAsTold
<1>1. ClassInv => ClassesAsTold
  <2> SUFFICES ASSUME ClassInv, NEW n \in ClassNames
               PROVE  IF classtold[n] = NoValue THEN classdb[n] = NoValue
                      ELSE classdb[n] # NoValue /\ ClassParse(classdb[n]) = classtold[n]
    BY DEF ClassesAsTold
  <2>1. CASE classtold[n] = NoValue
    BY <2>1 DEF ClassInv
  <2>2. CASE classtold[n] # NoValue
    <3>1. classtold[n] \in Seq(ClassEntries) /\ classdb[n] = ClassText(n, classtold[n])
      BY <2>2 DEF ClassInv
    <3>2. QED
      BY <2>2, <3>1, ParseText, TextIs, NoEntries DEF IsText
  <2>3. QED
    BY <2>1, <2>2
<1>2. QED
  BY <1>1, ClassInvHolds, PTL

-----------------------------------------------------------------------------
(* Host name and resolver                                                  *)


HostPcs == {"sethostname", "hostprop"}
DnsPcs  == {"dnsprop", "open", "openhalf", "write", "writehalf"}

NamesTypeOK ==
  /\ hostname \in HostNames /\ hostprop \in HostNames \cup {Unset}
  /\ dnsprop \in {Unset, DhcpMode} /\ resconf \in Resolvers \cup {Unset}
  /\ npc \in [NameProcs -> {"idle"} \cup HostPcs \cup DnsPcs]
  /\ narg \in [NameProcs -> HostNames \cup Resolvers \cup {DhcpMode, Unset}]
  /\ hostleft \in BOOLEAN /\ nturns \in BOOLEAN
  /\ dnstold \subseteq Resolvers \cup {DhcpMode, Unset}
  /\ ncalls \in 0 .. NameCalls /\ ndeaths \in 0 .. NameDeaths
  /\ \A p \in NameProcs :
       /\ npc[p] \in HostPcs => narg[p] \in HostNames
       /\ npc[p] \in DnsPcs => narg[p] \in Resolvers \cup {DhcpMode, Unset}
       /\ npc[p] \in {"write", "writehalf"} => narg[p] \in Resolvers

(* While calls take turns, one is under way at most. *)
Alone == \A p, q \in NameProcs : npc[p] # "idle" /\ npc[q] # "idle" => p = q

(* The stored host name is behind the kernel's only for the process that   *)
(* is about to store it.                                                   *)
HostFacts ==
  /\ (\A p \in NameProcs : npc[p] # "hostprop") => hostleft \/ hostprop = hostname
  /\ \A p \in NameProcs : npc[p] = "hostprop" => narg[p] = hostname

(* What each place holds is something dns_get may answer, but for the      *)
(* process that has not come to the other place yet.  A call that refused  *)
(* or died before it emptied resolv.conf leaves the lines of an earlier    *)
(* call there, which show again when the property dns goes.                *)
DnsFacts ==
  /\ resconf \in dnstold \cup {Unset}
  /\ dnsprop = DhcpMode =>
       DhcpMode \in dnstold \/ \E p \in NameProcs : npc[p] = "open" /\ narg[p] = DhcpMode
  /\ dnsprop # DhcpMode =>
       resconf \in dnstold \/ \E p \in NameProcs : npc[p] \in DnsPcs \ {"dnsprop"}
  /\ \A p \in NameProcs : npc[p] \in {"open", "write"} =>
       dnsprop = IF narg[p] = DhcpMode THEN DhcpMode ELSE Unset
  /\ \A p \in NameProcs : npc[p] \in {"write", "writehalf"} => resconf = Unset

NamesInv == NamesTypeOK /\ (nturns => Alone /\ HostFacts /\ DnsFacts)

-----------------------------------------------------------------------------
(* Types                                                                   *)

LEMMA InitNamesType == NamesInit => NamesTypeOK
BY NamesAssumption DEF NamesInit, NamesTypeOK, HostPcs, DnsPcs

(* A step of p leaves the types of what it writes; the argument of a call  *)
(* fits every step the call goes on to.                                    *)
LEMMA NamesStepType ==
  ASSUME NamesTypeOK, NEW p \in NameProcs, NEW step,
         step \in {"idle"} \cup HostPcs \cup DnsPcs,
         NameGoes(p, step), UNCHANGED narg,
         step \in HostPcs => narg[p] \in HostNames,
         step \in DnsPcs => narg[p] \in Resolvers \cup {DhcpMode, Unset},
         step \in {"write", "writehalf"} => narg[p] \in Resolvers
  PROVE  /\ npc' \in [NameProcs -> {"idle"} \cup HostPcs \cup DnsPcs]
         /\ narg' \in [NameProcs -> HostNames \cup Resolvers \cup {DhcpMode, Unset}]
         /\ \A q \in NameProcs :
              /\ npc'[q] \in HostPcs => narg'[q] \in HostNames
              /\ npc'[q] \in DnsPcs => narg'[q] \in Resolvers \cup {DhcpMode, Unset}
              /\ npc'[q] \in {"write", "writehalf"} => narg'[q] \in Resolvers
BY DEF NamesTypeOK, NameGoes

LEMMA NextNamesType == NamesTypeOK /\ [NamesNext]_nameVars => NamesTypeOK'
<1> SUFFICES ASSUME NamesTypeOK, [NamesNext]_nameVars PROVE NamesTypeOK'
  OBVIOUS
<1> USE DEF NamesTypeOK, HostPcs, DnsPcs
<1>1. ASSUME NEW p \in NameProcs, CallHostname(p) PROVE NamesTypeOK'
  BY <1>1, NamesAssumption DEF CallHostname, BeginName, NameAt, NameGoes
<1>2. ASSUME NEW p \in NameProcs, SetHostname(p) PROVE NamesTypeOK'
  BY <1>2, NamesStepType DEF SetHostname, NameAt
<1>3. ASSUME NEW p \in NameProcs, StoreHostname(p) PROVE NamesTypeOK'
  BY <1>3, NamesStepType DEF StoreHostname, NameAt
<1>4. ASSUME NEW p \in NameProcs, CallDns(p) PROVE NamesTypeOK'
  BY <1>4, NamesAssumption DEF CallDns, BeginName, NameAt, NameGoes
<1>5. ASSUME NEW p \in NameProcs, WriteDnsProp(p) PROVE NamesTypeOK'
  BY <1>5, NamesStepType DEF WriteDnsProp, NameAt
<1>6. ASSUME NEW p \in NameProcs, OpenResconf(p) PROVE NamesTypeOK'
  BY <1>6, NamesStepType DEF OpenResconf, NameAt, DnsWhole, DnsHalf
<1>7. ASSUME NEW p \in NameProcs, WriteResconf(p) PROVE NamesTypeOK'
  BY <1>7, NamesStepType DEF WriteResconf, NameAt, DnsWhole, DnsHalf
<1>8. ASSUME NEW p \in NameProcs, DieNames(p) PROVE NamesTypeOK'
  BY <1>8, NamesStepType, NamesAssumption DEF DieNames, NameAt, DnsHalf
<1>9. CASE UNCHANGED nameVars
  BY <1>9 DEF nameVars
<1>10. QED
  BY <1>1, <1>2, <1>3, <1>4, <1>5, <1>6, <1>7, <1>8, <1>9 DEF NamesNext

(* The host name and the answers of dns_get have their types in every      *)
(* state, and the argument of a call fits the step it is at.               *)
THEOREM NamesTypeCorrect == NamesSpec => []NamesTypeOK
<1>1. NamesInit => NamesTypeOK
  BY InitNamesType
<1>2. NamesTypeOK /\ [NamesNext]_nameVars => NamesTypeOK'
  BY NextNamesType
<1>3. QED
  BY <1>1, <1>2, PTL DEF NamesSpec

-----------------------------------------------------------------------------
(* Calls that take turns                                                   *)

(* A call that begins while calls take turns finds all others idle. *)
LEMMA BeginAlone ==
  ASSUME NamesTypeOK, NEW p \in NameProcs, NEW arg, NEW step, BeginName(p, arg, step), nturns'
  PROVE  /\ nturns /\ Alone'
         /\ \A q \in NameProcs : npc[q] = "idle"
         /\ npc' = [npc EXCEPT ![p] = step]
BY DEF BeginName, NameAt, NameGoes, NamesTypeOK, Alone

(* A step of the process that is under way leaves it alone. *)
LEMMA StepAlone ==
  ASSUME NamesTypeOK, Alone, NEW p \in NameProcs, npc[p] # "idle", NEW step, NameGoes(p, step)
  PROVE  /\ Alone'
         /\ \A q \in NameProcs \ {p} : npc[q] = "idle" /\ npc'[q] = "idle"
         /\ npc'[p] = step
BY DEF NamesTypeOK, Alone, NameGoes

(* What a step of the other calls leaves: the host name and its facts. *)
LEMMA HostKept ==
  ASSUME NamesTypeOK, HostFacts, UNCHANGED <<hostname, hostprop, hostleft, narg>>,
         \A q \in NameProcs : npc'[q] = "hostprop" <=> npc[q] = "hostprop"
  PROVE  HostFacts'
BY DEF HostFacts

LEMMA DnsKept ==
  ASSUME NamesTypeOK, DnsFacts, UNCHANGED <<dnsprop, resconf, dnstold>>,
         \A q \in NameProcs :
           \/ npc'[q] = npc[q] /\ narg'[q] = narg[q]
           \/ npc[q] \notin DnsPcs \ {"dnsprop"} /\ npc'[q] \notin DnsPcs \ {"dnsprop"}
  PROVE  DnsFacts'
BY DEF DnsFacts, DnsPcs

LEMMA InitNamesInv == NamesInit => NamesInv
BY InitNamesType DEF NamesInit, NamesInv, Alone, HostFacts, DnsFacts

LEMMA NextNamesInv == NamesInv /\ [NamesNext]_nameVars => NamesInv'
<1> SUFFICES ASSUME NamesInv, [NamesNext]_nameVars, nturns' PROVE (Alone /\ HostFacts /\ DnsFacts)'
  BY NextNamesType DEF NamesInv
<1> USE DEF NamesInv
<1>t. NamesTypeOK
  OBVIOUS
<1>1. ASSUME NEW p \in NameProcs, CallHostname(p) PROVE (Alone /\ HostFacts /\ DnsFacts)'
  <2>1. PICK h \in HostNames : BeginName(p, h, "sethostname")
    BY <1>1 DEF CallHostname
  <2>2. nturns /\ Alone' /\ npc' = [npc EXCEPT ![p] = "sethostname"]
        /\ \A q \in NameProcs : npc[q] = "idle"
    BY <2>1, BeginAlone
  <2>3. HostFacts'
    BY <2>1, <2>2 DEF BeginName, HostFacts, NamesTypeOK
  <2>4. DnsFacts'
    BY <2>1, <2>2, DnsKept DEF BeginName, NamesTypeOK, DnsPcs
  <2>5. QED
    BY <2>2, <2>3, <2>4
<1>2. ASSUME NEW p \in NameProcs, SetHostname(p) PROVE (Alone /\ HostFacts /\ DnsFacts)'
  <2>1. nturns /\ Alone' /\ \A q \in NameProcs \ {p} : npc[q] = "idle" /\ npc'[q] = "idle"
    BY <1>2, StepAlone DEF SetHostname, NameAt
  <2>2. npc'[p] \in {"hostprop", "idle"} /\ npc[p] = "sethostname"
    BY <1>2 DEF SetHostname, NameAt, NameGoes, NamesTypeOK
  <2>3. HostFacts'
    BY <1>2, <2>1, <2>2 DEF SetHostname, NameGoes, NameAt, HostFacts, NamesTypeOK
  <2>4. DnsFacts'
    BY <1>2, <2>1, <2>2, DnsKept DEF SetHostname, DnsPcs
  <2>5. QED
    BY <2>1, <2>3, <2>4
<1>3. ASSUME NEW p \in NameProcs, StoreHostname(p) PROVE (Alone /\ HostFacts /\ DnsFacts)'
  <2>1. nturns /\ Alone' /\ npc'[p] = "idle" /\ npc[p] = "hostprop"
        /\ \A q \in NameProcs \ {p} : npc[q] = "idle" /\ npc'[q] = "idle"
    BY <1>3, StepAlone DEF StoreHostname, NameAt
  <2>2. narg[p] = hostname
    BY <2>1 DEF HostFacts
  <2>3. HostFacts'
    BY <1>3, <2>1, <2>2 DEF StoreHostname, HostFacts
  <2>4. DnsFacts'
    BY <1>3, <2>1, DnsKept DEF StoreHostname, DnsPcs
  <2>5. QED
    BY <2>1, <2>3, <2>4
<1>4. ASSUME NEW p \in NameProcs, CallDns(p) PROVE (Alone /\ HostFacts /\ DnsFacts)'
  <2>1. PICK d : BeginName(p, d, "dnsprop")
    BY <1>4 DEF CallDns
  <2>2. nturns /\ Alone' /\ npc' = [npc EXCEPT ![p] = "dnsprop"]
        /\ \A q \in NameProcs : npc[q] = "idle"
    BY <2>1, BeginAlone
  <2>3. HostFacts'
    BY <2>1, <2>2 DEF BeginName, HostFacts, NamesTypeOK
  <2>4. DnsFacts'
    BY <2>1, <2>2, DnsKept DEF BeginName, NamesTypeOK, DnsPcs
  <2>5. QED
    BY <2>2, <2>3, <2>4
<1>5. ASSUME NEW p \in NameProcs, WriteDnsProp(p) PROVE (Alone /\ HostFacts /\ DnsFacts)'
  <2>1. nturns /\ Alone' /\ npc[p] = "dnsprop" /\ npc'[p] \in {"open", "openhalf"}
        /\ \A q \in NameProcs \ {p} : npc[q] = "idle" /\ npc'[q] = "idle"
    BY <1>5, StepAlone DEF WriteDnsProp, NameAt
  <2>2. HostFacts'
    BY <1>5, <2>1, HostKept DEF WriteDnsProp
  <2>3. DnsFacts'
    <3>1. UNCHANGED <<resconf, narg, dnstold>>
      BY <1>5 DEF WriteDnsProp
    <3>2. \/ npc'[p] = "open" /\ dnsprop' = (IF narg[p] = DhcpMode THEN DhcpMode ELSE Unset)
          \/ npc'[p] = "openhalf" /\ dnsprop' = dnsprop
      BY <1>5 DEF WriteDnsProp, NameGoes, NamesTypeOK
    <3>3. Unset # DhcpMode
      BY NamesAssumption
    <3>4. dnsprop = DhcpMode => DhcpMode \in dnstold
      BY <2>1 DEF DnsFacts
    <3>5. QED
      BY <2>1, <3>1, <3>2, <3>3, <3>4 DEF DnsFacts, DnsPcs
  <2>4. QED
    BY <2>1, <2>2, <2>3
<1>6. ASSUME NEW p \in NameProcs, OpenResconf(p) PROVE (Alone /\ HostFacts /\ DnsFacts)'
  <2>1. PICK step : NameGoes(p, step)
    BY <1>6 DEF OpenResconf
  <2>2. nturns /\ Alone' /\ npc[p] \in {"open", "openhalf"} /\ npc'[p] = step
        /\ \A q \in NameProcs \ {p} : npc[q] = "idle" /\ npc'[q] = "idle"
    BY <1>6, <2>1, StepAlone DEF OpenResconf
  <2>3. step \in {"idle", "write", "writehalf"}
    BY <1>6, <2>2 DEF OpenResconf, NameGoes, NamesTypeOK
  <2>4. HostFacts'
    BY <1>6, <2>2, <2>3, HostKept DEF OpenResconf
  <2>5. UNCHANGED <<dnsprop, narg>> /\ npc[p] \in DnsPcs
    BY <1>6, <2>2 DEF OpenResconf, DnsPcs
  <2>6. \/ step = "idle" /\ dnstold' = dnstold \cup {narg[p], Unset} /\ resconf' = resconf
        \/ /\ step \in {"write", "writehalf"} /\ narg[p] \in Resolvers
           /\ dnstold' = dnstold /\ resconf' = Unset
        \/ /\ npc[p] = "open" /\ narg[p] \notin Resolvers /\ step = "idle"
           /\ dnstold' = {narg[p]} /\ resconf' = Unset
        \/ step = "idle" /\ dnstold' = dnstold \cup {narg[p], Unset} /\ resconf' = Unset
    BY <1>6, <2>1, <2>2 DEF OpenResconf, NameGoes, NameAt, DnsHalf, DnsWhole, NamesTypeOK
  <2>7. narg[p] \in Resolvers \cup {DhcpMode, Unset} /\ Unset # DhcpMode
    BY <2>5, NamesAssumption DEF NamesTypeOK
  <2>8. npc[p] = "open" => dnsprop = IF narg[p] = DhcpMode THEN DhcpMode ELSE Unset
    BY <2>2 DEF DnsFacts
  <2>9. /\ dnsprop = DhcpMode => DhcpMode \in dnstold \/ (npc[p] = "open" /\ narg[p] = DhcpMode)
        /\ resconf \in dnstold \cup {Unset}
    BY <2>2 DEF DnsFacts
  <2>10. \A q \in NameProcs : npc'[q] \in {"open", "write"} => q = p /\ step = "write"
    BY <2>2, <2>3
  <2>11. \A q \in NameProcs : npc'[q] \in {"write", "writehalf"} => q = p /\ step # "idle"
    BY <2>2
  <2>12. step = "write" => npc[p] = "open" /\ narg[p] \in Resolvers
    BY <1>6, <2>2 DEF OpenResconf, NameGoes, NameAt, NamesTypeOK
  <2>13. resconf' \in dnstold' \cup {Unset}
    BY <2>6, <2>9
  <2>14. dnsprop' = DhcpMode => DhcpMode \in dnstold'
    BY <2>5, <2>6, <2>7, <2>8, <2>9, NamesAssumption
  <2>15. dnsprop' # DhcpMode => resconf' \in dnstold' \/ npc'[p] \in {"write", "writehalf"}
    BY <2>2, <2>5, <2>6, <2>7, <2>8, <2>9
  <2>16. DnsFacts'
    <3>1. \A q \in NameProcs : npc'[q] \in {"open", "write"} =>
            dnsprop' = IF narg'[q] = DhcpMode THEN DhcpMode ELSE Unset
      BY <2>5, <2>8, <2>10, <2>12
    <3>2. \A q \in NameProcs : npc'[q] \in {"write", "writehalf"} => resconf' = Unset
      BY <2>6, <2>11
    <3>3. QED
      BY <2>13, <2>14, <2>15, <3>1, <3>2 DEF DnsFacts, DnsPcs
  <2>17. QED
    BY <2>2, <2>4, <2>16
<1>7. ASSUME NEW p \in NameProcs, WriteResconf(p) PROVE (Alone /\ HostFacts /\ DnsFacts)'
  <2>1. nturns /\ Alone' /\ npc[p] \in {"write", "writehalf"} /\ npc'[p] = "idle"
        /\ \A q \in NameProcs \ {p} : npc[q] = "idle" /\ npc'[q] = "idle"
    BY <1>7, StepAlone DEF WriteResconf
  <2>2. HostFacts'
    BY <1>7, <2>1, HostKept DEF WriteResconf
  <2>3. narg[p] \in Resolvers /\ narg[p] # DhcpMode /\ Unset # DhcpMode
    BY <2>1, NamesAssumption DEF NamesTypeOK
  <2>4. npc[p] = "write" => dnsprop = Unset
    BY <2>1, <2>3 DEF DnsFacts
  <2>5. dnsprop = DhcpMode => DhcpMode \in dnstold
    BY <2>1 DEF DnsFacts
  <2>6. resconf' = narg[p] /\ dnsprop' = dnsprop
        /\ dnstold' = IF npc[p] = "write" THEN {narg[p]} ELSE dnstold \cup {narg[p], Unset}
    BY <1>7 DEF WriteResconf, NameAt, DnsWhole, DnsHalf
  <2>7. DnsFacts'
    BY <2>1, <2>3, <2>4, <2>5, <2>6 DEF DnsFacts
  <2>8. QED
    BY <2>1, <2>2, <2>7
<1>8. ASSUME NEW p \in NameProcs, DieNames(p) PROVE (Alone /\ HostFacts /\ DnsFacts)'
  <2>1. nturns /\ Alone' /\ npc[p] # "idle" /\ npc'[p] = "idle"
        /\ \A q \in NameProcs \ {p} : npc[q] = "idle" /\ npc'[q] = "idle"
    BY <1>8, StepAlone DEF DieNames
  <2>2. UNCHANGED <<hostname, hostprop, dnsprop, resconf, narg>>
        /\ hostleft' = (hostleft \/ npc[p] = "hostprop")
    BY <1>8 DEF DieNames, NameAt
  <2>3. HostFacts'
    BY <2>1, <2>2 DEF HostFacts
  <2>4. CASE npc[p] \in HostPcs
    <3>1. dnstold' = dnstold
      BY <1>8, <2>4 DEF DieNames, HostPcs
    <3>2. QED
      BY <2>1, <2>2, <2>3, <2>4, <3>1, DnsKept DEF HostPcs, DnsPcs
  <2>5. CASE npc[p] \in DnsPcs
    <3>1. dnstold' = dnstold \cup {narg[p], Unset}
      BY <1>8, <2>5 DEF DieNames, DnsHalf, DnsPcs
    <3>2. dnsprop = DhcpMode => DhcpMode \in dnstold \cup {narg[p]}
      BY <2>1 DEF DnsFacts
    <3>3. resconf \in dnstold \cup {Unset}
      BY <2>1 DEF DnsFacts
    <3>4. DnsFacts'
      BY <2>1, <2>2, <3>1, <3>2, <3>3 DEF DnsFacts
    <3>5. QED
      BY <2>1, <2>3, <3>4
  <2>6. QED
    BY <2>1, <2>4, <2>5 DEF NamesTypeOK
<1>9. CASE UNCHANGED nameVars
  BY <1>9 DEF nameVars, Alone, HostFacts, DnsFacts
<1>10. QED
  BY <1>1, <1>2, <1>3, <1>4, <1>5, <1>6, <1>7, <1>8, <1>9 DEF NamesNext

LEMMA NamesInvariance == NamesSpec => []NamesInv
<1>1. NamesInit => NamesInv
  BY InitNamesInv
<1>2. NamesInv /\ [NamesNext]_nameVars => NamesInv'
  BY NextNamesInv
<1>3. QED
  BY <1>1, <1>2, PTL DEF NamesSpec

(* set_hostname stores the name it gave to the kernel, for any number of   *)
(* processes, calls, deaths and refusals (451).                            *)
THEOREM HostNameStoredTheorem == NamesSpec => []HostNameStored
<1>1. NamesInv => HostNameStored
  BY DEF NamesInv, HostFacts, HostNameStored, NamesAtRest, NameAt
<1>2. QED
  BY <1>1, NamesInvariance, PTL

(* dns_get never answers what was not asked for since the last call that   *)
(* was whole, for any number of processes, calls, deaths and refusals      *)
(* (1324-1450).                                                            *)
THEOREM DnsAsToldTheorem == NamesSpec => []DnsAsTold
<1>1. NamesInv => DnsAsTold
  <2> SUFFICES ASSUME NamesInv, NamesAtRest PROVE DnsGet \in dnstold
    BY DEF DnsAsTold
  <2>1. DnsFacts /\ \A p \in NameProcs : npc[p] = "idle"
    BY DEF NamesInv, NamesAtRest, NameAt
  <2>2. QED
    BY <2>1 DEF DnsFacts, DnsGet, DnsPcs
<1>2. QED
  BY <1>1, NamesInvariance, PTL

-----------------------------------------------------------------------------
(* The saved netgraph                                                      *)

NgNodes == UNION {{g[i] : i \in DOMAIN g} : g \in Graphs}
NgRows == Seq(NgNodes \cup {NoNode})

NgTypeOK ==
  /\ ngraph \in NgRows /\ ngtmp \in NgRows /\ ngsaved \in Seq(NgNodes)
  /\ ngpc \in [NgProcs -> {"idle", "nodes", "copy"}]
  /\ nggraph \in [NgProcs -> Seq(NgNodes)]
  /\ ngat \in [NgProcs -> Nat \ {0}] /\ \A p \in NgProcs : ngat[p] <= Len(nggraph[p]) + 1
  /\ ngrows \in [NgProcs -> NgRows]
  /\ ngturns \in BOOLEAN

NgAlone == \A p, q \in NgProcs : ngpc[p] # "idle" /\ ngpc[q] # "idle" => p = q

(* A call has in its handle the rows of the nodes before the next one, and *)
(* leaves in the scratch database, when it goes to copy that, the rows of  *)
(* all.                                                                    *)
NgFacts ==
  /\ NgAlone /\ RowsOf(ngraph, ngsaved, Len(ngsaved))
  /\ \A p \in NgProcs :
       /\ ngpc[p] = "nodes" => RowsOf(ngrows[p], nggraph[p], ngat[p] - 1)
       /\ ngpc[p] = "copy" => RowsOf(ngtmp, nggraph[p], Len(nggraph[p]))

NgInv == NgTypeOK /\ (ngturns => NgFacts)

LEMMA GraphType == \A g \in Graphs : g \in Seq(NgNodes)
<1> SUFFICES ASSUME NEW g \in Graphs PROVE g \in Seq(NgNodes)
  OBVIOUS
<1>1. g \in Seq({g[i] : i \in DOMAIN g})
  BY NgAssumption
<1>2. \A i \in DOMAIN g : g[i] \in NgNodes
  BY DEF NgNodes
<1>3. QED
  BY <1>1, <1>2

LEMMA InitNgType == NgInit => NgTypeOK
BY DEF NgInit, NgTypeOK, NgRows

LEMMA NextNgType == NgTypeOK /\ [NgNext]_ngVars => NgTypeOK'
<1> SUFFICES ASSUME NgTypeOK, [NgNext]_ngVars PROVE NgTypeOK'
  OBVIOUS
<1> USE DEF NgTypeOK
<1>1. ASSUME NEW p \in NgProcs, NgOpen(p) PROVE NgTypeOK'
  <2>1. PICK g \in Graphs : nggraph' = [nggraph EXCEPT ![p] = g]
    BY <1>1 DEF NgOpen
  <2>2. g \in Seq(NgNodes) /\ Len(g) >= 0
    BY GraphType
  <2>3. nggraph' \in [NgProcs -> Seq(NgNodes)] /\ ngrows' \in [NgProcs -> NgRows]
    <3>1. <<>> \in NgRows
      BY DEF NgRows
    <3>2. QED
      BY <1>1, <2>1, <2>2, <3>1 DEF NgOpen
  <2>4. \A q \in NgProcs : ngat'[q] <= Len(nggraph'[q]) + 1
    BY <1>1, <2>1, <2>2 DEF NgOpen
  <2>5. QED
    BY <1>1, <2>3, <2>4 DEF NgOpen, NgGoes
<1>2. ASSUME NEW p \in NgProcs, NgStore(p) PROVE NgTypeOK'
  <2>1. NgNode(p) \in NgNodes
    BY <1>2 DEF NgStore, NgNode
  <2>2. ngrows' \in [NgProcs -> NgRows]
    <3>1. \A r \in NgNodes \cup {NoNode} : Append(ngrows[p], r) \in NgRows
      BY DEF NgRows
    <3>2. \/ UNCHANGED ngrows
          \/ \E r \in NgNodes \cup {NoNode} : ngrows' = [ngrows EXCEPT ![p] = Append(@, r)]
      BY <1>2, <2>1 DEF NgStore
    <3>3. QED
      BY <3>1, <3>2
  <2>3. /\ ngat' \in [NgProcs -> Nat \ {0}]
        /\ \A q \in NgProcs : ngat'[q] <= Len(nggraph'[q]) + 1
    BY <1>2 DEF NgStore
  <2>4. QED
    BY <1>2, <2>2, <2>3 DEF NgStore
<1>3. ASSUME NEW p \in NgProcs, NgWrong(p) PROVE NgTypeOK'
  BY <1>3 DEF NgWrong, NgGoes
<1>4. ASSUME NEW p \in NgProcs, NgClose(p) PROVE NgTypeOK'
  BY <1>4 DEF NgClose, NgGoes
<1>5. ASSUME NEW p \in NgProcs, NgCopy(p) PROVE NgTypeOK'
  BY <1>5 DEF NgCopy, NgGoes
<1>6. ASSUME NEW p \in NgProcs, NgDie(p) PROVE NgTypeOK'
  BY <1>6 DEF NgDie, NgGoes
<1>7. CASE UNCHANGED ngVars
  BY <1>7 DEF ngVars
<1>8. QED
  BY <1>1, <1>2, <1>3, <1>4, <1>5, <1>6, <1>7 DEF NgNext

LEMMA NgStepAlone ==
  ASSUME NgTypeOK, NgAlone, NEW p \in NgProcs, ngpc[p] # "idle",
         NEW step, ngpc' = [ngpc EXCEPT ![p] = step]
  PROVE  /\ NgAlone' /\ ngpc'[p] = step
         /\ \A q \in NgProcs \ {p} : ngpc[q] = "idle" /\ ngpc'[q] = "idle"
BY DEF NgTypeOK, NgAlone

(* An eiface adds no row. *)
LEMMA RowPassed ==
  ASSUME NEW rows, NEW g, NEW n \in Nat, RowsOf(rows, g, n), g[n + 1].kind = "eiface"
  PROVE  RowsOf(rows, g, n + 1)
<1>1. PICK at \in [DOMAIN rows -> 1 .. n] :
        /\ \A i, j \in DOMAIN rows : i < j => at[i] < at[j]
        /\ \A i \in DOMAIN rows : g[at[i]].kind = "sound" /\ rows[i] \in {g[at[i]], NoNode}
        /\ \A k \in 1 .. n : g[k].kind = "eiface" \/ \E i \in DOMAIN rows : at[i] = k
  BY DEF RowsOf
<1>2. at \in [DOMAIN rows -> 1 .. n + 1]
  OBVIOUS
<1>3. \A k \in 1 .. n + 1 : k = n + 1 \/ k \in 1 .. n
  OBVIOUS
<1>4. \A k \in 1 .. n + 1 : g[k].kind = "eiface" \/ \E i \in DOMAIN rows : at[i] = k
  BY <1>1, <1>3
<1>5. QED
  BY <1>1, <1>2, <1>4 DEF RowsOf

(* The next node, stored or not, is the next row. *)
LEMMA RowAdded ==
  ASSUME NEW rows \in NgRows, NEW g, NEW n \in Nat, RowsOf(rows, g, n),
         g[n + 1].kind = "sound", NEW r \in {g[n + 1], NoNode}
  PROVE  RowsOf(Append(rows, r), g, n + 1)
<1>1. PICK at \in [DOMAIN rows -> 1 .. n] :
        /\ \A i, j \in DOMAIN rows : i < j => at[i] < at[j]
        /\ \A i \in DOMAIN rows : g[at[i]].kind = "sound" /\ rows[i] \in {g[at[i]], NoNode}
        /\ \A k \in 1 .. n : g[k].kind = "eiface" \/ \E i \in DOMAIN rows : at[i] = k
  BY SMTT(30) DEF RowsOf
<1> DEFINE more == Append(rows, r)
           at2 == [i \in DOMAIN more |-> IF i \in DOMAIN rows THEN at[i] ELSE n + 1]
<1>2. PICK m \in Nat : /\ DOMAIN rows = 1 .. m /\ DOMAIN more = 1 .. m + 1
                       /\ more[m + 1] = r /\ \A i \in 1 .. m : more[i] = rows[i]
  <2> DEFINE S == NgNodes \cup {NoNode, r}
  <2>1. rows \in Seq(S)
    BY DEF NgRows
  <2>2. r \in S
    OBVIOUS
  <2> HIDE DEF S
  <2>3. /\ Len(rows) \in Nat /\ DOMAIN rows = 1 .. Len(rows)
        /\ more \in Seq(S) /\ Len(more) = Len(rows) + 1
    BY <2>1, <2>2
  <2>4. DOMAIN more = 1 .. Len(rows) + 1
    BY <2>3
  <2>5. more[Len(rows) + 1] = r /\ \A i \in 1 .. Len(rows) : more[i] = rows[i]
    BY <2>1, <2>2, AppendProperties
  <2>6. QED
    BY <2>3, <2>4, <2>5
<1> HIDE DEF more
<1>3. at2 \in [DOMAIN more -> 1 .. n + 1]
  BY <1>1
<1>4. /\ \A i \in 1 .. m : at2[i] = at[i] /\ at2[i] \in 1 .. n
      /\ at2[m + 1] = n + 1
      /\ \A i \in DOMAIN more : i = m + 1 \/ i \in 1 .. m
  BY <1>1, <1>2
<1> HIDE DEF at2
<1>5. ASSUME NEW i \in DOMAIN more, NEW j \in DOMAIN more, i < j
      PROVE  at2[i] < at2[j]
  <2>1. i \in 1 .. m
    BY <1>2, <1>5
  <2>2. CASE j = m + 1
    BY <1>4, <2>1, <2>2
  <2>3. CASE j \in 1 .. m
    BY <1>1, <1>2, <1>4, <1>5, <2>1, <2>3
  <2>4. QED
    BY <1>4, <2>2, <2>3
<1>6. \A i \in DOMAIN more : g[at2[i]].kind = "sound" /\ more[i] \in {g[at2[i]], NoNode}
  BY <1>1, <1>2, <1>4
<1>7. \A k \in 1 .. n + 1 : g[k].kind = "eiface" \/ \E i \in DOMAIN more : at2[i] = k
  <2> SUFFICES ASSUME NEW k \in 1 .. n + 1, g[k].kind # "eiface"
               PROVE  \E i \in DOMAIN more : at2[i] = k
    OBVIOUS
  <2>1. CASE k = n + 1
    BY <2>1, <1>2, <1>4
  <2>2. CASE k \in 1 .. n
    <3>1. PICK i \in DOMAIN rows : at[i] = k
      BY <1>1, <2>2
    <3>2. i \in DOMAIN more /\ at2[i] = k
      BY <1>2, <1>4, <3>1
    <3>3. QED
      BY <3>2
  <2>3. QED
    BY <2>1, <2>2
<1>8. RowsOf(more, g, n + 1)
  BY <1>3, <1>5, <1>6, <1>7 DEF RowsOf
<1>9. QED
  BY <1>8 DEF more

LEMMA InitNgInv == NgInit => NgInv
<1> SUFFICES ASSUME NgInit PROVE NgInv
  OBVIOUS
<1>1. RowsOf(<<>>, <<>>, 0)
  <2>1. [i \in {} |-> i] \in [DOMAIN <<>> -> 1 .. 0]
    OBVIOUS
  <2>2. DOMAIN <<>> = {} /\ 1 .. 0 = {}
    OBVIOUS
  <2>3. QED
    BY <2>1, <2>2, Zenon DEF RowsOf
<1>2. QED
  BY <1>1, InitNgType DEF NgInit, NgInv, NgFacts, NgAlone

LEMMA NextNgInv == NgInv /\ [NgNext]_ngVars => NgInv'
<1> SUFFICES ASSUME NgInv, [NgNext]_ngVars, ngturns' PROVE NgFacts'
  BY NextNgType DEF NgInv
<1>t. NgTypeOK
  BY DEF NgInv
<1>1. ASSUME NEW p \in NgProcs, NgOpen(p) PROVE NgFacts'
  <2>1. PICK g \in Graphs : nggraph' = [nggraph EXCEPT ![p] = g]
    BY <1>1 DEF NgOpen
  <2>2. /\ ngturns /\ \A q \in NgProcs : ngpc[q] = "idle"
        /\ ngpc' = [ngpc EXCEPT ![p] = "nodes"] /\ ngat'[p] = 1 /\ ngrows'[p] = <<>>
        /\ UNCHANGED <<ngraph, ngsaved>>
    BY <1>1, <1>t DEF NgOpen, NgGoes, NgTypeOK
  <2>3. RowsOf(<<>>, nggraph'[p], 0)
    <3>1. [i \in {} |-> i] \in [DOMAIN <<>> -> 1 .. 0]
      OBVIOUS
    <3>2. DOMAIN <<>> = {} /\ 1 .. 0 = {}
      OBVIOUS
    <3>3. QED
      BY <3>1, <3>2, Zenon DEF RowsOf
  <2>4. \A q \in NgProcs : IF q = p THEN ngpc'[q] = "nodes" ELSE ngpc'[q] = "idle"
    BY <2>2, <1>t DEF NgTypeOK
  <2>5. RowsOf(ngrows'[p], nggraph'[p], ngat'[p] - 1)
    BY <2>2, <2>3
  <2>6. RowsOf(ngraph', ngsaved', Len(ngsaved'))
    BY <2>2 DEF NgInv, NgFacts
  <2>7. QED
    BY <2>4, <2>5, <2>6 DEF NgFacts, NgAlone
<1>2. ASSUME NEW p \in NgProcs, NgStore(p) PROVE NgFacts'
  <2> DEFINE n == ngat[p] - 1
             g == nggraph[p]
             rows == ngrows[p]
  <2>1. /\ ngturns /\ ngpc[p] = "nodes" /\ UNCHANGED <<ngpc, nggraph, ngraph, ngsaved>>
        /\ n \in Nat /\ ngat[p] = n + 1 /\ ngat'[p] - 1 = n + 1 /\ rows \in NgRows
    BY <1>2, <1>t DEF NgStore, NgTypeOK
  <2>2. NgAlone /\ RowsOf(ngraph, ngsaved, Len(ngsaved)) /\ RowsOf(rows, g, n)
    BY <2>1 DEF NgInv, NgFacts
  <2>3. \/ g[n + 1].kind = "eiface" /\ ngrows'[p] = rows
        \/ /\ g[n + 1].kind = "sound"
           /\ \E r \in {g[n + 1], NoNode} : ngrows'[p] = Append(rows, r)
    BY <1>2, <1>t, <2>1 DEF NgStore, NgNode, NgTypeOK
  <2> HIDE DEF n, g, rows
  <2>4. RowsOf(ngrows'[p], g, n + 1)
    BY <2>1, <2>2, <2>3, RowPassed, RowAdded
  <2>5. RowsOf(ngrows'[p], nggraph'[p], ngat'[p] - 1)
    BY <2>1, <2>4 DEF g
  <2>6. \A q \in NgProcs : q # p => ngpc'[q] = "idle"
    BY <2>1, <2>2 DEF NgAlone
  <2>7. QED
    BY <2>1, <2>2, <2>5, <2>6 DEF NgFacts, NgAlone
<1>3. ASSUME NEW p \in NgProcs, ngpc' = [ngpc EXCEPT ![p] = "idle"], ngpc[p] # "idle",
             UNCHANGED <<ngraph, ngsaved, ngturns>>
      PROVE  NgFacts'
  <2>1. /\ NgAlone' /\ \A q \in NgProcs : ngpc'[q] = "idle"
    BY <1>3, <1>t, NgStepAlone DEF NgInv, NgFacts
  <2>2. RowsOf(ngraph', ngsaved', Len(ngsaved'))
    BY <1>3 DEF NgInv, NgFacts
  <2>3. QED
    BY <2>1, <2>2 DEF NgFacts
<1>4. ASSUME NEW p \in NgProcs, NgClose(p) PROVE NgFacts'
  <2>1. /\ ngturns /\ ngpc[p] = "nodes" /\ ngtmp' = ngrows[p]
        /\ ngpc' = [ngpc EXCEPT ![p] = "copy"] /\ UNCHANGED <<ngraph, nggraph, ngsaved>>
        /\ ngat[p] - 1 = Len(nggraph[p])
    BY <1>4, <1>t DEF NgClose, NgGoes, NgTypeOK
  <2>2. NgAlone /\ RowsOf(ngraph, ngsaved, Len(ngsaved)) /\ RowsOf(ngrows[p], nggraph[p], ngat[p] - 1)
    BY <2>1 DEF NgInv, NgFacts
  <2>3. NgAlone' /\ ngpc'[p] = "copy" /\ \A q \in NgProcs \ {p} : ngpc'[q] = "idle"
    BY <2>1, <2>2, <1>t, NgStepAlone
  <2>4. RowsOf(ngtmp', nggraph'[p], Len(nggraph'[p]))
    BY <2>1, <2>2
  <2>5. QED
    BY <2>1, <2>2, <2>3, <2>4 DEF NgFacts
<1>5. ASSUME NEW p \in NgProcs, NgCopy(p) PROVE NgFacts'
  <2>1. /\ ngturns /\ ngpc[p] = "copy" /\ ngpc' = [ngpc EXCEPT ![p] = "idle"]
        /\ \/ ngraph' = ngtmp /\ ngsaved' = nggraph[p]
           \/ UNCHANGED <<ngraph, ngsaved>>
    BY <1>5 DEF NgCopy, NgGoes
  <2>2. /\ NgAlone /\ RowsOf(ngraph, ngsaved, Len(ngsaved))
        /\ RowsOf(ngtmp, nggraph[p], Len(nggraph[p]))
    BY <2>1 DEF NgInv, NgFacts
  <2>3. RowsOf(ngraph', ngsaved', Len(ngsaved'))
    BY <2>1, <2>2
  <2>4. NgAlone' /\ \A q \in NgProcs : ngpc'[q] = "idle"
    BY <2>1, <2>2, <1>t, NgStepAlone
  <2>5. QED
    BY <2>3, <2>4 DEF NgFacts
<1>6. ASSUME NEW p \in NgProcs, NgWrong(p) PROVE NgFacts'
  BY <1>3, <1>6 DEF NgWrong, NgGoes
<1>7. ASSUME NEW p \in NgProcs, NgDie(p) PROVE NgFacts'
  BY <1>3, <1>7 DEF NgDie, NgGoes
<1>8. CASE UNCHANGED ngVars
  BY <1>8 DEF ngVars, NgInv, NgFacts, NgAlone
<1>9. QED
  BY <1>1, <1>2, <1>4, <1>5, <1>6, <1>7, <1>8 DEF NgNext

(* ngctl_save (416) leaves in ngraph what it was given when it last        *)
(* returned true, for any arrays of nodes, any number of calls and deaths, *)
(* and whatever a database refuses.                                        *)
THEOREM GraphAsSavedTheorem == NgSpec => []GraphAsSaved
<1>1. NgInit => NgInv
  BY InitNgInv
<1>2. NgInv /\ [NgNext]_ngVars => NgInv'
  BY NextNgInv
<1>3. NgInv => GraphAsSaved
  BY DEF NgInv, NgFacts, GraphAsSaved
<1>4. QED
  BY <1>1, <1>2, <1>3, PTL DEF NgSpec
=============================================================================
