-------------------------------- MODULE Spwd --------------------------------
(***************************************************************************)
(* php-spwd: the users of /etc/spwd.db, their sessions in /etc/cookie.db   *)
(* and, where it is built with NEED_MASTER_SPWD, /etc/master.passwd.       *)
(*                                                                         *)
(* spwd.db is a hash file with three keys per user: by name, by uid, and   *)
(* by number, counted from 1 without gaps.  What a call changes stays in   *)
(* its handle until close() writes it.  Calls that administer users take   *)
(* turns; logins run at any time, several at once.  A call may die between *)
(* two files, not in the middle of writing one.                            *)
(***************************************************************************)
EXTENDS Integers, Sequences, FiniteSets

CONSTANTS
  Names,      \* names of users, Empty among them
  Empty,      \* the empty string
  Pwds,       \* what a record holds besides name and uid
  MaxUid,     \* bound on uids
  Start,      \* kcs.spwd.start_position
  LastUid,    \* 65533 in the code: the last uid it shows
  Passwd,     \* the users spwd.db was built from, in their order
  NewNames, GivenUids, NameArgs,   \* arguments of callers
  Procs,      \* processes that log users in
  Hashes,     \* session keys
  None        \* nothing there, NULL

Uids    == 0 .. MaxUid
Shown   == Start .. LastUid
Records == [name : Names, uid : Uids, pwd : Pwds]
Numbers == 1 .. Len(Passwd) + Cardinality(NewNames) + 1

ASSUME ConstantsAssumption ==
  /\ Start \in Nat /\ LastUid \in Nat /\ MaxUid \in Nat
  /\ Start < LastUid /\ LastUid < MaxUid
  /\ Empty \in Names /\ NewNames \subseteq Names /\ NameArgs \subseteq Names \cup {None}
  /\ IsFiniteSet(NewNames)
  /\ GivenUids \subseteq Uids \cup {None}
  /\ None \notin Names \cup Uids \cup Pwds \cup Records \cup {"add", "set", "del"}

(* At most two users share a uid, and those are not shown. *)
ASSUME PasswdAssumption ==
  /\ Passwd \in Seq(Records)
  /\ \A i, j \in DOMAIN Passwd : i # j =>
       /\ Passwd[i].name # Passwd[j].name
       /\ Passwd[i].uid = Passwd[j].uid =>
            /\ Passwd[i].uid \notin Shown
            /\ \A k \in DOMAIN Passwd \ {i, j} : \A l \in DOMAIN Passwd \ {k} :
                 Passwd[k].uid # Passwd[l].uid

VARIABLES
  byname, byuid, bynum,   \* spwd.db as written
  master,                 \* the lines of master.passwd
  sessions,               \* cookie.db: the uid a hash stands for
  adm,                    \* the administering call that runs
  login,                  \* the logins that run: next step and uid
  died,                   \* history: uids whose last administering call died
  raced                   \* history: uids a login of which overlapped another
                          \* login or a deletion, until they are deleted

db_vars == <<byname, byuid, bynum>>
vars == <<byname, byuid, bynum, master, sessions, adm, login, died, raced>>

Idle == [step |-> "idle", kind |-> None, old |-> None, rec |-> None, num |-> None]
Calls == [step : {"clear", "rewrite", "append", "close"}, kind : {"add", "set", "del"},
          old : Names, rec : Records, num : Numbers]
Logins == [step : {"idle"}, uid : {None}] \cup [step : {"clear", "put"}, uid : Shown]

TypeOK ==
  /\ byname \in [Names -> Records \cup {None}]
  /\ byuid \in [Uids -> Records \cup {None}]
  /\ bynum \in [Numbers -> Records \cup {None}]
  /\ master \subseteq Records
  /\ sessions \in [Hashes -> Shown \cup {None}]
  /\ adm \in Calls \cup {Idle}
  /\ login \in [Procs -> Logins]
  /\ died \subseteq Uids /\ raced \subseteq Shown

(* pwd_mkdb; where two share a uid, the later one has the key. *)
Init ==
  /\ byname = [n \in Names |-> LET I == {i \in DOMAIN Passwd : Passwd[i].name = n} IN
                 IF I = {} THEN None ELSE Passwd[CHOOSE i \in I : TRUE]]
  /\ byuid = [u \in Uids |-> LET I == {i \in DOMAIN Passwd : Passwd[i].uid = u} IN
                 IF I = {} THEN None ELSE Passwd[CHOOSE i \in I : \A j \in I : j <= i]]
  /\ bynum = [i \in Numbers |-> IF i \in DOMAIN Passwd THEN Passwd[i] ELSE None]
  /\ master = {Passwd[i] : i \in DOMAIN Passwd}
  /\ sessions = [h \in Hashes |-> None]
  /\ adm = Idle
  /\ login = [p \in Procs |-> [step |-> "idle", uid |-> None]]
  /\ died = {} /\ raced = {}

-----------------------------------------------------------------------------
(* Reading spwd.db                                                         *)

Keys(index) == {k \in DOMAIN index : index[k] # None}

(* All keys, the version key with them, divided by three. *)
UserCount == (1 + Cardinality(Keys(byname)) + Cardinality(Keys(byuid))
                + Cardinality(Keys(bynum))) \div 3

(* spwd_get tells nothing about a user whose uid is not shown. *)
Fields(r) == r # None /\ r.uid \in Shown

MinOf(S) == CHOOSE x \in S : \A y \in S : x <= y

(* The numbers the loop of spwd_check_pw_name goes through. *)
Scanned == {c \in Numbers : c <= UserCount + 1}

NumbersOf(name) == {c \in Scanned : Fields(bynum[c]) /\ bynum[c].name = name}
NewNumber == UserCount + 1

(* Where spwd_check_pw_name says a name is: its number and uid, or for a   *)
(* name it did not see the next number and the uid after the last one.     *)
Find(name) ==
  LET seen == {c \in Scanned : Fields(bynum[c])} IN
  IF NumbersOf(name) # {}
  THEN LET c == MinOf(NumbersOf(name)) IN [num |-> c, uid |-> bynum[c].uid]
  ELSE [num |-> NewNumber,
        uid |-> IF seen = {} THEN Start
                ELSE bynum[CHOOSE c \in seen : \A d \in seen : d <= c].uid + 1]

(* Mutant: the uid asked for is taken without a look whether it is free. *)
PickUidUnchecked(given) ==
  IF given \in Uids /\ given >= Start THEN given
  ELSE MinOf({u \in Uids : u >= Start /\ byuid[u] = None})

(* The uid asked for if it is free, else the first free one. *)
PickUid(given) ==
  IF given \in Uids /\ given >= Start /\ byuid[given] = None THEN given
  ELSE MinOf({u \in Uids : u >= Start /\ byuid[u] = None})

(* Bound: users are added while a uid that is shown is free. *)
Room == \E u \in Shown : byuid[u] = None

(* Every administering call needs the hash of a session. *)
Authorised == \E h \in Hashes : sessions[h] # None

-----------------------------------------------------------------------------
(* spwd_add_entry, spwd_add_entry_full                                     *)

AddOpen(name, given, pwd) ==
  /\ adm = Idle /\ Authorised /\ Room
  /\ given # None => given >= Start
  /\ NumbersOf(name) = {}
  /\ adm' = [step |-> "close", kind |-> "add", old |-> name, num |-> NewNumber,
             rec |-> [name |-> name, uid |-> PickUid(given), pwd |-> pwd]]
  /\ UNCHANGED <<db_vars, master, sessions, login, died, raced>>

(* spwd_set_entry: a name other than the user's own is refused, whether it *)
(* is in use or not; the empty string is taken.                            *)
SetOpen(u, arg, pwd) ==
  /\ adm = Idle /\ Authorised
  /\ u \in Shown /\ byuid[u] # None
  /\ LET old == byuid[u].name IN
     /\ Find(old).uid >= Start
     /\ arg \in {None, Empty, old}
     /\ adm' = [step |-> "rewrite", kind |-> "set", old |-> old, num |-> Find(old).num,
                rec |-> [name |-> IF arg = None THEN old ELSE arg, uid |-> u, pwd |-> pwd]]
  /\ UNCHANGED <<db_vars, master, sessions, login, died, raced>>

(* spwd_del_entry *)
DelOpen(u) ==
  /\ adm = Idle /\ Authorised
  /\ u \in Shown /\ byuid[u] # None
  /\ Find(byuid[u].name).uid = u
  /\ adm' = [step |-> "clear", kind |-> "del", old |-> byuid[u].name,
             num |-> Find(byuid[u].name).num, rec |-> byuid[u]]
  /\ UNCHANGED <<db_vars, master, sessions, login, died, raced>>

-----------------------------------------------------------------------------
(* Sessions                                                                *)

HashesOf(u) == {h \in Hashes : sessions[h] = u}
Busy(u) == {p \in Procs : login[p].uid = u}

(* spwd_clear_hash deletes while it walks through the file, which makes    *)
(* the walk miss the key after a deleted one: some of several may stay.    *)
ClearHash(u) ==
  \E stay \in SUBSET HashesOf(u) :
    /\ 2 * Cardinality(stay) <= Cardinality(HashesOf(u))
    /\ sessions' = [h \in Hashes |-> IF h \in HashesOf(u) \ stay THEN None
                                     ELSE sessions[h]]

(* Mutant: sessions of a deleted user are left alone. *)
DelClearForgotten ==
  /\ adm.step = "clear"
  /\ adm' = [adm EXCEPT !.step = "rewrite"]
  /\ UNCHANGED <<db_vars, master, sessions, login, died, raced>>

DelClear ==
  /\ adm.step = "clear"
  /\ ClearHash(adm.rec.uid)
  /\ LET u == adm.rec.uid IN
     raced' = IF Busy(u) # {} THEN raced \cup {u}
              ELSE IF \E h \in Hashes : sessions'[h] = u THEN raced ELSE raced \ {u}
  /\ adm' = [adm EXCEPT !.step = "rewrite"]
  /\ UNCHANGED <<db_vars, master, login, died>>

-----------------------------------------------------------------------------
(* master.passwd, and the end of the calls                                 *)

Finish == adm' = Idle /\ died' = died \ {adm.rec.uid}

(* Mutant: the lines of the user are left in the file. *)
RewriteNothing ==
  /\ adm.step = "rewrite"
  /\ adm' = [adm EXCEPT !.step = IF adm.kind = "set" THEN "append" ELSE "close"]
  /\ UNCHANGED <<db_vars, master, sessions, login, died, raced>>

(* The lines that begin with the name are dropped. *)
Rewrite ==
  /\ adm.step = "rewrite"
  /\ master' = {l \in master : l.name # adm.rec.name}
  /\ adm' = [adm EXCEPT !.step = IF adm.kind = "set" THEN "append" ELSE "close"]
  /\ UNCHANGED <<db_vars, sessions, login, died, raced>>

AppendLine ==
  /\ adm.step = "append"
  /\ master' = master \cup {adm.rec}
  /\ IF adm.kind = "add" THEN Finish
     ELSE adm' = [adm EXCEPT !.step = "close"] /\ UNCHANGED died
  /\ UNCHANGED <<db_vars, sessions, login, raced>>

(* spwd_write, after spwd_del of the old name for a set. *)
Put ==
  /\ byname' = [byname EXCEPT ![adm.old] = None, ![adm.rec.name] = adm.rec]
  /\ byuid' = [byuid EXCEPT ![adm.rec.uid] = adm.rec]
  /\ bynum' = [bynum EXCEPT ![adm.num] = adm.rec]

(* Mutant: the users after the deleted one keep their numbers. *)
RemoveUnshifted ==
  /\ byname' = [byname EXCEPT ![adm.rec.name] = None]
  /\ byuid' = [byuid EXCEPT ![adm.rec.uid] = None]
  /\ bynum' = [bynum EXCEPT ![adm.num] = None]

(* spwd_del moves the users after the deleted one, up to a gap, down by    *)
(* one number.                                                             *)
Remove ==
  LET num == adm.num
      end == CHOOSE k \in Numbers :
               /\ k >= num /\ \A i \in num + 1 .. k : bynum[i] # None
               /\ k + 1 \in Numbers => bynum[k + 1] = None
  IN
  /\ byname' = [byname EXCEPT ![adm.rec.name] = None]
  /\ byuid' = [byuid EXCEPT ![adm.rec.uid] = None]
  /\ bynum' = [i \in Numbers |-> IF i < num \/ i > end THEN bynum[i]
                                 ELSE IF i = end THEN None ELSE bynum[i + 1]]

(* close() of spwd.db *)
Close ==
  /\ adm.step = "close"
  /\ IF adm.kind = "del" THEN Remove ELSE Put
  /\ IF adm.kind = "add" THEN adm' = [adm EXCEPT !.step = "append"] /\ UNCHANGED died
     ELSE Finish
  /\ UNCHANGED <<master, sessions, login, raced>>

(* The process of the call dies; what close() had not written is lost.     *)
(* Before the first change to a file that is as if there had been no call. *)
FirstChange == [add |-> "close", set |-> "rewrite", del |-> "clear"]

AdminDies ==
  /\ adm # Idle /\ adm.step # FirstChange[adm.kind]
  /\ adm' = Idle
  /\ died' = died \cup {adm.rec.uid}
  /\ UNCHANGED <<db_vars, master, sessions, login, raced>>

-----------------------------------------------------------------------------
(* spwd_verify                                                             *)

Deleting(u) == adm.kind = "del" /\ adm.rec.uid = u

(* Mutant: users that are not shown may log in. *)
LoginReadAny(p, name, pwd) ==
  /\ login[p].step = "idle"
  /\ byname[name] # None /\ byname[name].pwd = pwd
  /\ LET u == byname[name].uid IN
     /\ login' = [login EXCEPT ![p] = [step |-> "clear", uid |-> u]]
     /\ raced' = IF Busy(u) # {} \/ Deleting(u) THEN raced \cup {u} ELSE raced
  /\ UNCHANGED <<db_vars, master, sessions, adm, died>>

LoginRead(p, name, pwd) ==
  /\ login[p].step = "idle"
  /\ Fields(byname[name]) /\ byname[name].pwd = pwd
  /\ LET u == byname[name].uid IN
     /\ login' = [login EXCEPT ![p] = [step |-> "clear", uid |-> u]]
     /\ raced' = IF Busy(u) # {} \/ Deleting(u) THEN raced \cup {u} ELSE raced
  /\ UNCHANGED <<db_vars, master, sessions, adm, died>>

LoginClear(p) ==
  /\ login[p].step = "clear"
  /\ ClearHash(login[p].uid)
  /\ login' = [login EXCEPT ![p].step = "put"]
  /\ UNCHANGED <<db_vars, master, adm, died, raced>>

LoginPut(p) ==
  /\ login[p].step = "put"
  /\ \E h \in Hashes : /\ sessions[h] = None
                       /\ sessions' = [sessions EXCEPT ![h] = login[p].uid]
  /\ login' = [login EXCEPT ![p] = [step |-> "idle", uid |-> None]]
  /\ UNCHANGED <<db_vars, master, adm, died, raced>>

LoginDies(p) ==
  /\ login[p].step = "put"
  /\ login' = [login EXCEPT ![p] = [step |-> "idle", uid |-> None]]
  /\ UNCHANGED <<db_vars, master, sessions, adm, died, raced>>

-----------------------------------------------------------------------------
Administer ==
  \/ \E n \in NewNames, g \in GivenUids, w \in Pwds : AddOpen(n, g, w)
  \/ \E u \in Shown, a \in NameArgs, w \in Pwds : SetOpen(u, a, w)
  \/ \E u \in Shown : DelOpen(u)
  \/ DelClear \/ Rewrite \/ AppendLine \/ Close \/ AdminDies

Login(p) == \/ \E n \in Names, w \in Pwds : LoginRead(p, n, w)
            \/ LoginClear(p) \/ LoginPut(p) \/ LoginDies(p)

Next == Administer \/ \E p \in Procs : Login(p)

Spec == Init /\ [][Next]_vars

-----------------------------------------------------------------------------
(* Every user that is shown is found by its name, by its uid and under one *)
(* number as the same record, and the numbers are those from 1 to the      *)
(* count that is worked out from the number of keys: what spwd_get_all     *)
(* walks through (268-285) and what the next number is taken from (890).   *)
IndexesAgree ==
  /\ \A u \in Shown : byuid[u] # None =>
       /\ byuid[u].uid = u
       /\ byname[byuid[u].name] = byuid[u]
       /\ \E c \in Numbers : \A d \in Numbers : bynum[d] = byuid[u] <=> d = c
  /\ \A c \in Numbers : Fields(bynum[c]) => byuid[bynum[c].uid] = bynum[c]
  /\ Keys(bynum) = 1 .. UserCount

(* Unless logins of a user overlap each other or its deletion, a user has  *)
(* one session at most and a deleted user none, although the two files are *)
(* written one after the other and either call may die (586-588, 682-694). *)
SessionsFollowUsers ==
  \A u \in Shown \ raced :
    /\ Cardinality(HashesOf(u)) <= 1
    /\ HashesOf(u) # {} => byuid[u] # None

(* master.passwd has one line for each user that is shown, the record of   *)
(* spwd.db, but for a user whose last call runs or died between the files; *)
(* the next call for that user that ends well repairs it (510-532, 590-609).*)
MasterFollows ==
  \A u \in Shown \ died : (adm = Idle \/ adm.rec.uid # u) =>
    {l \in master : l.uid = u} = IF byuid[u] = None THEN {} ELSE {byuid[u]}

(* The three indexes are one table of users with distinct names. *)
Table == INSTANCE UserTable WITH Uids <- Shown,
                                 users <- [u \in Shown |-> byuid[u]]
TableSpec == Table!Spec
=============================================================================
