---------------------------- MODULE LoginClasses ----------------------------
(***************************************************************************)
(* Classes of users, php-spwd/spwd.c.  login.conf.db has one text per      *)
(* class, such as "staff:\t:quota=5:\t:nologin:".  A call reads a text,    *)
(* takes it apart, and puts together another by one of four formats,       *)
(* depending on what it found.  Calls take turns, as those about users do; *)
(* here a text is a sequence of names, entries and separators.             *)
(***************************************************************************)
EXTENDS Lists, FiniteSets

Seqs == INSTANCE SequencesExt

CONSTANTS
  ClassNames,
  EntryKeys,
  EntryValues,
  Colon, Tab,    \* the separators
  NoValue,       \* of an entry that is a flag; no text
  ClassesBuilt   \* what cap_mkdb made: by class, a sequence of entries or NoValue

ClassEntries == [key : EntryKeys, val : EntryValues \cup {NoValue}]

ASSUME ClassAssumption ==
  /\ ClassesBuilt \in [ClassNames -> Seq(ClassEntries) \cup {NoValue}]
  /\ Colon # Tab /\ {Colon, Tab} \cap (ClassNames \cup ClassEntries) = {}
  /\ NoValue \notin EntryValues
  /\ NoValue \notin Seq(ClassNames \cup ClassEntries \cup {Colon, Tab})

VARIABLES
  classdb,       \* the texts, by class
  classtold      \* history: by class, the entries it should have

classVars == <<classdb, classtold>>

-----------------------------------------------------------------------------
(* Texts                                                                   *)

Separated(e) == <<Colon, Tab, Colon, e>>
Entries(es) == Seqs!FlattenSeq([i \in DOMAIN es |-> Separated(es[i])])
ClassText(n, es) == <<n>> \o Entries(es) \o <<Colon>>

\* php_spwd_class_parse: of what is between two tabs, that which begins with a colon
\* and comes after one, without the colon and without its last character
Begins(text) ==
  {i \in 3 .. Len(text) : text[i - 2] = Colon /\ text[i - 1] = Tab /\ text[i] = Colon}
EndOf(text, i) == CHOOSE j \in i .. Len(text) :
  /\ j = Len(text) \/ text[j + 1] = Tab
  /\ \A l \in i .. j : text[l] # Tab
ClassParse(text) ==
  LET begin == Pick([i \in 1 .. Len(text) |-> i], Begins(text))
      part(i) == SubSeq(text, begin[i] + 1, EndOf(text, begin[i]) - 1)
  IN [i \in DOMAIN begin |-> IF part(i) = <<>> THEN NoValue ELSE part(i)[1]]

Others(es, k) == Pick(es, {i \in DOMAIN es : es[i].key # k})
Replaced(es, new) == [i \in DOMAIN es |-> IF es[i].key = new.key THEN new ELSE es[i]]
HasKey(es, k) == \E i \in DOMAIN es : es[i].key = k

\* Mutant: the colon that ends the last entry is left out, as where there is none.
AppendTextBare(n, es, new) == <<n>> \o Entries(es) \o <<Tab, Colon, new, Colon>>

\* an entry that is new goes behind the others
AppendText(n, es, new) == <<n>> \o Entries(es) \o <<Colon, Tab, Colon, new, Colon>>

-----------------------------------------------------------------------------

ClassInit ==
  /\ classtold = ClassesBuilt
  /\ classdb = [n \in ClassNames |->
       IF ClassesBuilt[n] = NoValue THEN NoValue ELSE ClassText(n, ClassesBuilt[n])]

ClassSet ==
  \E n \in ClassNames, k \in EntryKeys, v \in EntryValues :
    LET new == [key |-> k, val |-> v]
        text == classdb[n]
        es == ClassParse(text)
    IN /\ classdb' = [classdb EXCEPT ![n] =
            IF text = NoValue THEN <<n, Colon, Tab, Colon, new, Colon>>
            ELSE IF es = <<>> THEN text \o <<Tab, Colon, new, Colon>>
            ELSE IF HasKey(es, k) THEN ClassText(n, Replaced(es, new))
            ELSE AppendText(n, es, new)]
       /\ classtold' = [classtold EXCEPT ![n] =
            IF @ = NoValue THEN <<new>>
            ELSE IF HasKey(@, k) THEN Replaced(@, new) ELSE Append(@, new)]

\* a class that has no entries is left alone, one that is not there refused
ClassDel ==
  \E n \in ClassNames, k \in EntryKeys :
    /\ classdb[n] # NoValue
    /\ LET es == ClassParse(classdb[n]) IN
       /\ es # <<>>
       /\ classdb' = [classdb EXCEPT ![n] = ClassText(n, Others(es, k))]
    /\ classtold' = [classtold EXCEPT ![n] = Others(@, k)]

ClassNext == ClassSet \/ ClassDel
ClassSpec == ClassInit /\ [][ClassNext]_classVars

-----------------------------------------------------------------------------
(* Properties.                                                             *)

\* spwd_class_set_entry, spwd_class_del_entry (1261-1441): whatever calls came before,
\* and by whichever of its formats a text was put together, spwd_class_get takes it
\* apart into the entries that were set and not deleted, each once, in their order,
\* the other entries and the flags of the class among them.
ClassesAsTold ==
  \A n \in ClassNames :
    IF classtold[n] = NoValue THEN classdb[n] = NoValue
    ELSE classdb[n] # NoValue /\ ClassParse(classdb[n]) = classtold[n]
=============================================================================
