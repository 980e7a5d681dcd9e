-------------------------- MODULE ZfsMigrateProofs --------------------------
(* Theorems about ZfsMigrate, for any set of children, number of writes    *)
(* and size of the sockets' buffers.                                       *)
EXTENDS ZfsMigrate, TLAPS

LEMMA TreeFacts ==
  /\ Empty \in Trees /\ Present(Empty) = {} /\ None \notin Trees
  /\ \A t \in Trees, d \in Datasets, v \in Versions \cup {None} :
       [t EXCEPT ![d] = v] \in Trees
BY ConstantsAssumption DEF Empty, Trees, Present

LEMMA ContentsType == TypeOK => Contents \in Trees
BY DEF TypeOK, Contents, Trees

LEMMA InitTypeOK == Init => TypeOK
<1> SUFFICES ASSUME Init PROVE TypeOK
  OBVIOUS
<1>1. written \in [Datasets -> Versions] /\ written \in Trees
  BY ConstantsAssumption DEF Init, Versions, Trees
<1>2. QED
  BY <1>1, TreeFacts DEF Init, TypeOK

LEMMA NextTypeOK == TypeOK /\ [Next]_vars => TypeOK'
<1> SUFFICES ASSUME TypeOK, [Next]_vars PROVE TypeOK'
  OBVIOUS
<1> USE DEF TypeOK, source_vars, send_vars, conn_vars, recv_vars
<1>1. ASSUME NEW d \in Datasets, UserWrite(d) PROVE TypeOK'
  <2>1. written[d] + 1 \in Versions
    BY ConstantsAssumption, <1>1 DEF UserWrite, Versions
  <2>2. [Contents EXCEPT ![d] = written[d] + 1] \in Trees
    BY TreeFacts, <2>1, ContentsType
  <2>3. QED
    BY <1>1, <2>1, <2>2 DEF UserWrite
<1>2. CASE SendStart
  BY ConstantsAssumption, TreeFacts, <1>2 DEF SendStart
<1>3. CASE SendSnapshot
  BY <1>3, ContentsType DEF SendSnapshot
<1>4. CASE SendRefused
  BY <1>4 DEF SendRefused
<1>5. CASE SendConnect
  BY TreeFacts, <1>5 DEF SendConnect, Present
<1>6. ASSUME NEW d \in Datasets, SendRecord(d) PROVE TypeOK'
  <2>1. stream[d] \in Versions \cup {None}
    BY DEF Trees
  <2>2. QED
    BY TreeFacts, <1>6, <2>1 DEF SendRecord
<1>7. CASE SendReset
  BY <1>7 DEF SendReset
<1>8. CASE SendClose
  BY <1>8 DEF SendClose
<1>9. CASE SendRollback
  BY <1>9 DEF SendRollback
<1>10. CASE SendRemove
  <2>1. PICK kept \in SUBSET source :
          /\ source' = kept
          /\ cuts' = IF kept = {} THEN cuts ELSE
               cuts \cup {[d \in Datasets |-> IF d \in kept THEN written[d] ELSE None]}
    BY <1>10 DEF SendRemove
  <2>2. [d \in Datasets |-> IF d \in kept THEN written[d] ELSE None] \in Trees
    BY DEF Trees
  <2>3. cuts' \subseteq Trees
    BY <2>1, <2>2
  <2>4. QED
    BY <1>10, <2>1, <2>3 DEF SendRemove
<1>11. CASE SendCrash
  BY <1>11 DEF SendCrash
<1>12. CASE RecvListen
  BY <1>12 DEF RecvListen
<1>13. ASSUME NEW d \in Datasets, RecvRecord(d) PROVE TypeOK'
  <2>1. inbox[d] \in Versions \cup {None}
    BY DEF Trees
  <2>2. target' \in Trees
    BY TreeFacts, <1>13, <2>1 DEF RecvRecord
  <2>3. inbox' \in Trees
    BY TreeFacts, <1>13, <2>1 DEF RecvRecord
  <2>4. QED
    BY <1>13, <2>2, <2>3 DEF RecvRecord
<1>14. CASE RecvEnd
  <2>1. rpc' \in {"idle", "accept", "receive", "rollback", "return"}
    BY <1>14 DEF RecvEnd
  <2>2. rfailed' \in BOOLEAN
    BY <1>14 DEF RecvEnd
  <2>3. sconn' \in {"none", "served", "backlog", "reset"}
    BY <1>14 DEF RecvEnd
  <2>4. UNCHANGED <<source_vars, send_vars, inbox, eof, rfd, header, stored,
                    target, tsnap, died>>
    BY <1>14 DEF RecvEnd
  <2>5. QED
    BY <2>1, <2>2, <2>3, <2>4
<1>15. CASE RecvRollback
  <2>1. /\ tsnap' \subseteq Datasets /\ died' \in BOOLEAN
        /\ rpc' \in {"idle", "accept", "receive", "rollback", "return"}
    BY <1>15 DEF RecvRollback
  <2>2. UNCHANGED <<source_vars, send_vars, conn_vars, rfailed, rfd, header,
                    stored, target>>
    BY <1>15 DEF RecvRollback
  <2>3. QED
    BY <2>1, <2>2
<1>16. CASE RecvReturn
  BY <1>16 DEF RecvReturn
<1>17. CASE RecvExit
  BY TreeFacts, <1>17 DEF RecvExit
<1>18. CASE LinkBreaks
  BY TreeFacts, <1>18 DEF LinkBreaks
<1>19. CASE UNCHANGED vars
  BY <1>19 DEF vars
<1>20. QED
  BY <1>1, <1>2, <1>3, <1>4, <1>5, <1>6, <1>7, <1>8, <1>9, <1>10,
     <1>11, <1>12, <1>13, <1>14, <1>15, <1>16, <1>17, <1>18, <1>19
     DEF Next, Send, Receive

(* zfs.c: the variables of both calls keep their types.                    *)
THEOREM TypeCorrect == Spec => []TypeOK
BY InitTypeOK, NextTypeOK, PTL DEF Spec

LEMMA InitTreeInv == Init => TreeInv
<1> SUFFICES ASSUME Init PROVE TreeInv
  OBVIOUS
<1>1. Contents = written
  BY DEF Init, Contents
<1>2. Root \in Present(written)
  BY ConstantsAssumption DEF Init, Present, Versions
<1>3. Present(Empty) = {}
  BY TreeFacts
<1>4. QED
  BY <1>1, <1>2, <1>3, ConstantsAssumption DEF Init, TreeInv

LEMMA NextTreeInv == TypeOK /\ TreeInv /\ [Next]_vars => TreeInv'
<1> SUFFICES ASSUME TypeOK, TreeInv, [Next]_vars PROVE TreeInv'
  OBVIOUS
<1> USE ConstantsAssumption, TreeFacts
    DEF TypeOK, TreeInv, source_vars, send_vars, conn_vars, recv_vars, Contents, StreamComplete
<1>1. ASSUME NEW d \in Datasets, UserWrite(d) PROVE TreeInv'
  <2>1. written[d] + 1 \in Versions /\ None \notin Versions
    BY <1>1 DEF UserWrite, Versions
  <2>2. [Contents EXCEPT ![d] = written[d] + 1] = Contents'
    BY <1>1 DEF UserWrite
  <2>3. Root \in Present(Contents')
    BY <1>1, <2>1 DEF UserWrite, Present
  <2>4. QED
    BY <1>1, <2>2, <2>3 DEF UserWrite
<1>2. CASE SendStart
  BY <1>2 DEF SendStart
<1>3. CASE SendSnapshot
  BY <1>3 DEF SendSnapshot
<1>4. CASE SendRefused
  BY <1>4 DEF SendRefused
<1>5. CASE SendConnect
  BY <1>5 DEF SendConnect, Present
<1>6. ASSUME NEW d \in Datasets, SendRecord(d) PROVE TreeInv'
  <2>1. \A e \in Present(inbox') : header # None /\ inbox'[e] = header[e]
    BY <1>6 DEF SendRecord, Present, Trees
  <2>2. QED
    BY <1>6, <2>1 DEF SendRecord
<1>7. CASE SendReset
  BY <1>7 DEF SendReset
<1>8. CASE SendClose
  BY <1>8 DEF SendClose
<1>9. CASE SendRollback
  BY <1>9 DEF SendRollback
<1>10. CASE SendRemove
  <2>0. PICK kept \in SUBSET source :
         /\ kept # {} => Root \in kept
         /\ source' = kept
         /\ cuts' = IF kept = {} THEN cuts ELSE
              cuts \cup {[d \in Datasets |-> IF d \in kept THEN written[d] ELSE None]}
    BY <1>10 DEF SendRemove
  <2> DEFINE rest == [d \in Datasets |-> IF d \in kept THEN written[d] ELSE None]
  <2>1. kept # {} => Root \in Present(rest)
    <3>1. written[Root] # None
      OBVIOUS
    <3>2. Root \in kept => rest[Root] = written[Root]
      OBVIOUS
    <3> HIDE DEF rest
    <3>3. QED
      BY <2>0, <3>1, <3>2 DEF Present
  <2>2. Contents' = rest
    BY <1>10, <2>0 DEF SendRemove
  <2>3. cuts' = IF kept = {} THEN cuts ELSE cuts \cup {rest}
    BY <2>0
  <2> HIDE DEF rest
  <2>4. QED
    BY <1>10, <2>0, <2>1, <2>2, <2>3 DEF SendRemove
<1>11. CASE SendCrash
  BY <1>11 DEF SendCrash
<1>12. CASE RecvListen
  BY <1>12 DEF RecvListen
<1>13. ASSUME NEW d \in Datasets, RecvRecord(d) PROVE TreeInv'
  <2>1. d \in Present(inbox) /\ header # None /\ inbox[d] = header[d]
    BY <1>13 DEF RecvRecord, Readable
  <2>2. \A e \in stored' : header # None /\ target'[e] = header[e]
    BY <1>13, <2>1 DEF RecvRecord, Trees
  <2>3. \A e \in Present(inbox') : header # None /\ inbox'[e] = header[e]
    BY <1>13, <2>1 DEF RecvRecord, Present, Trees
  <2>4. QED
    BY <1>13, <2>2, <2>3 DEF RecvRecord
<1>14. CASE RecvEnd
  BY <1>14 DEF RecvEnd
<1>15. CASE RecvRollback
  BY <1>15 DEF RecvRollback
<1>16. CASE RecvReturn
  BY <1>16 DEF RecvReturn
<1>17. CASE RecvExit
  BY <1>17 DEF RecvExit
<1>18. CASE LinkBreaks
  BY <1>18 DEF LinkBreaks
<1>19. CASE UNCHANGED vars
  BY <1>19 DEF vars
<1>20. QED
  BY <1>1, <1>2, <1>3, <1>4, <1>5, <1>6, <1>7, <1>8, <1>9, <1>10,
     <1>11, <1>12, <1>13, <1>14, <1>15, <1>16, <1>17, <1>18, <1>19
     DEF Next, Send, Receive

(* zfs_recv that returns true has stored one state of the source's tree    *)
(* (2378-2385), after any crashes, broken connections and earlier attempts.*)
THEOREM RecvConsistentTheorem == Spec => []RecvConsistent
<1>1. TypeOK /\ TreeInv => RecvConsistent
  <2> SUFFICES ASSUME TypeOK, TreeInv, rpc = "return", ~rfailed
               PROVE  \E c \in cuts : Root \in Present(c) /\ \A d \in Present(c) : target[d] = c[d]
    BY DEF RecvConsistent
  <2>1. header \in cuts /\ stored = Present(header)
    BY DEF TreeInv, StreamComplete
  <2>2. QED
    BY <2>1 DEF TreeInv
<1>2. QED
  BY InitTypeOK, NextTypeOK, InitTreeInv, NextTreeInv, <1>1, PTL DEF Spec

(* What TargetClean rests on: zfs_recv has destroyed the snapshots before  *)
(* it returns, and a receiver that ends in the middle is marked.           *)
CleanInv == rpc \in {"idle", "accept", "return"} /\ ~died => tsnap = {}

LEMMA NextCleanInv == CleanInv /\ [Next]_vars => CleanInv'
<1> SUFFICES ASSUME CleanInv, [Next]_vars PROVE CleanInv'
  OBVIOUS
<1> USE DEF CleanInv
<1>1. ASSUME UNCHANGED <<rpc, died, tsnap>> PROVE CleanInv'
  BY <1>1
<1>2. CASE (\E d \in Datasets : UserWrite(d)) \/ SendStart \/ SendCrash \/ LinkBreaks
  BY <1>1, <1>2 DEF UserWrite, SendStart, SendCrash, LinkBreaks, recv_vars
<1>3. CASE SendConnect
  BY <1>3 DEF SendConnect
<1>4. CASE Send /\ ~SendConnect
  BY <1>1, <1>4 DEF Send, SendSnapshot, SendRefused, SendRecord, SendReset, SendClose,
                    SendRollback, SendRemove, recv_vars
<1>5. CASE RecvListen
  BY <1>5 DEF RecvListen
<1>6. CASE Receive
  BY <1>6 DEF Receive, RecvRecord, RecvEnd, RecvRollback, RecvReturn
<1>7. CASE RecvExit
  BY <1>7 DEF RecvExit
<1>8. CASE UNCHANGED vars
  BY <1>1, <1>8 DEF vars
<1>9. QED
  BY <1>2, <1>3, <1>4, <1>5, <1>6, <1>7, <1>8 DEF Next

(* A receiver that lives leaves no snapshot behind that would make the     *)
(* next zfs_recv refuse the dataset (2381), whatever fails around it.      *)
THEOREM TargetCleanTheorem == Spec => []TargetClean
<1>1. Init => CleanInv
  BY DEF Init, CleanInv
<1>2. CleanInv => TargetClean
  BY DEF CleanInv, TargetClean
<1>3. QED
  BY <1>1, <1>2, NextCleanInv, PTL DEF Spec

LEMMA InitMoveInv == Init => MoveInv
<1> SUFFICES ASSUME Init PROVE MoveInv
  OBVIOUS
<1>1. Datasets # {}
  BY ConstantsAssumption
<1>2. QED
  BY <1>1, TreeFacts DEF Init, MoveInv, Underway, Flows

LEMMA NextMoveInv ==
  ASSUME Orderly, Faults = {}
  PROVE  TypeOK /\ TreeInv /\ MoveInv /\ [Next]_vars => MoveInv'
<1> SUFFICES ASSUME TypeOK, TreeInv, MoveInv, [Next]_vars PROVE MoveInv'
  OBVIOUS
<1>0. Datasets # {} /\ Root \in Datasets
  BY ConstantsAssumption
<1>a. written \in Trees /\ Present(written) = Datasets /\ None \notin Versions
  BY ConstantsAssumption DEF TypeOK, Trees, Present
<1> USE <1>0, <1>a, ConstantsAssumption, TreeFacts
    DEF TypeOK, MoveInv, Underway, Flows, source_vars, send_vars, conn_vars, recv_vars
<1>1. ASSUME NEW d \in Datasets, UserWrite(d) PROVE MoveInv'
  BY <1>1 DEF UserWrite
<1>2. CASE SendStart
  BY <1>2 DEF SendStart
<1>3. CASE SendSnapshot
  <2>1. source = Datasets
    BY <1>3 DEF SendSnapshot
  <2>2. Contents = written
    BY <2>1 DEF Contents
  <2>3. QED
    BY <1>3, <2>1, <2>2 DEF SendSnapshot
<1>4. CASE SendRefused
  BY <1>4 DEF SendRefused
<1>5. CASE SendConnect
  <2>1. rpc = "accept" /\ snap = written /\ snap # None
    BY <1>5 DEF SendConnect
  <2>2. /\ spc' = "send" /\ stream' = written /\ ~failed' /\ sconn' = "served"
        /\ rpc' = "receive" /\ header' = written /\ stored' = {} /\ sent' = {}
        /\ inbox' = Empty /\ ~eof' /\ tsnap' = {} /\ source' = source /\ snap' = snap
        /\ written' = written
    BY <1>5, <2>1 DEF SendConnect
  <2>3. source = Datasets
    BY <1>5 DEF SendConnect
  <2>4. QED
    BY <2>2, <2>3
<1>6. ASSUME NEW d \in Datasets, SendRecord(d) PROVE MoveInv'
  <2>1. /\ spc = "send" /\ d \notin sent /\ d \notin stored
        /\ sconn = "served" /\ stream = written
    BY <1>6 DEF SendRecord, Unsent
  <2>2. rpc = "receive" /\ d \notin tsnap
    BY <2>1
  <2>3. /\ sent' = sent \cup {d}
        /\ inbox' = [inbox EXCEPT ![d] = written[d]]
        /\ UNCHANGED <<source_vars, spc, move, failed, stream, sconn, eof, recv_vars>>
    BY <1>6, <2>1 DEF SendRecord
  <2>4. /\ inbox'[d] = written[d]
        /\ \A e \in Datasets \ {d} : inbox'[e] = inbox[e]
    BY <2>3 DEF Trees
  <2>5. Present(inbox') \subseteq sent'
    BY <2>1, <2>2, <2>3, <2>4 DEF Present
  <2>6. \A e \in Datasets : Flows(e)'
    BY <2>1, <2>2, <2>3, <2>4
  <2>7. QED
    BY <2>1, <2>2, <2>3, <2>4, <2>5, <2>6
<1>7. CASE SendReset
  BY <1>7 DEF SendReset, Unsent
<1>8. CASE SendClose
  <2>1. sent = Datasets
    BY <1>8 DEF SendClose, Unsent
  <2>2. /\ spc = "send" /\ spc' = "rollback"
        /\ UNCHANGED <<written, source, snap, sent, inbox, recv_vars>>
    BY <1>8 DEF SendClose
  <2>3. \A d \in Datasets : Flows(d)'
    BY <2>1, <2>2
  <2>4. QED
    BY <2>2, <2>3
<1>9. CASE SendRollback
  BY <1>9 DEF SendRollback
<1>10. CASE SendRemove
  <2>1. source' = {}
    BY <1>10 DEF SendRemove
  <2>2. QED
    BY <1>10, <2>1 DEF SendRemove
<1>11. CASE SendCrash
  BY <1>11 DEF SendCrash
<1>12. CASE RecvListen
  BY <1>12 DEF RecvListen
<1>13. ASSUME NEW d \in Datasets, RecvRecord(d) PROVE MoveInv'
  <2>1. d \in Present(inbox) /\ header # None /\ inbox[d] = header[d] /\ rpc = "receive"
    BY <1>13 DEF RecvRecord, Readable, TreeInv
  <2>2. /\ inbox'[d] = None
        /\ \A e \in Datasets \ {d} : inbox'[e] = inbox[e]
    BY <1>13 DEF RecvRecord, Trees
  <2>3. Present(inbox') \subseteq Present(inbox)
    BY <2>2 DEF Present
  <2>4. stored' = stored \cup {d} /\ tsnap' = tsnap \cup {d}
    BY <1>13 DEF RecvRecord
  <2>5. Underway => \A e \in Datasets : Flows(e)'
    BY <1>13, <2>1, <2>2, <2>4 DEF RecvRecord
  <2>6. UNCHANGED <<source_vars, send_vars, sconn, eof, rpc, header>>
    BY <1>13 DEF RecvRecord
  <2>7. tsnap' = stored' /\ \A e \in stored' : inbox'[e] = None
    BY <2>1, <2>2, <2>4
  <2>8. QED
    BY <2>1, <2>3, <2>4, <2>5, <2>6, <2>7
<1>14. CASE RecvEnd
  <2>1. rpc = "receive" /\ Readable \cap tsnap = {}
    BY <1>14 DEF RecvEnd, Readable, Present
  <2>2. ASSUME Underway PROVE stored = Datasets
    <3>1. header = written /\ header # None
      BY <2>2
    <3>2. CASE StreamComplete
      BY <3>1, <3>2 DEF StreamComplete
    <3>3. CASE ~StreamComplete
      <4>1. eof /\ Present(inbox) = {}
        BY <1>14, <2>1, <3>3 DEF RecvEnd
      <4>2. spc # "send" /\ \A e \in Datasets : inbox[e] = None
        BY <2>1, <4>1 DEF Present
      <4>3. QED
        BY <2>2, <4>2
    <3>4. QED
      BY <3>2, <3>3
  <2>3. QED
    BY <1>14, <2>2 DEF RecvEnd
<1>15. CASE RecvRollback
  BY <1>15 DEF RecvRollback
<1>16. CASE RecvReturn
  BY <1>16 DEF RecvReturn
<1>17. CASE RecvExit
  BY <1>17 DEF RecvExit
<1>18. CASE LinkBreaks
  BY <1>18 DEF LinkBreaks
<1>19. CASE UNCHANGED vars
  BY <1>19 DEF vars
<1>20. QED
  BY <1>1, <1>2, <1>3, <1>4, <1>5, <1>6, <1>7, <1>8, <1>9, <1>10,
     <1>11, <1>12, <1>13, <1>14, <1>15, <1>16, <1>17, <1>18, <1>19
     DEF Next, Send, Receive

(* A move between two live hosts, called in the documented order, never    *)
(* has a dataset's last version nowhere (2257-2261, 2378-2381).            *)
THEOREM MoveSafeTheorem ==
  ASSUME Orderly, Faults = {}
  PROVE  Spec => []MoveSafe
<1>1. TypeOK /\ TreeInv /\ MoveInv => MoveSafe
  <2> SUFFICES ASSUME TypeOK, TreeInv, MoveInv, NEW d \in Datasets, d \notin source
               PROVE  target[d] = written[d] \/ OnItsWay(d)
    BY DEF MoveSafe
  <2>1. Underway /\ spc = "idle"
    BY DEF MoveInv, Underway
  <2>2. header = written /\ Flows(d)
    BY <2>1 DEF MoveInv
  <2>3. QED
    BY <2>1, <2>2 DEF Flows, OnItsWay, TreeInv
<1>2. TypeOK /\ TreeInv /\ MoveInv /\ [Next]_vars => (TypeOK /\ TreeInv /\ MoveInv)'
  BY NextTypeOK, NextTreeInv, NextMoveInv
<1>3. Init => TypeOK /\ TreeInv /\ MoveInv
  BY InitTypeOK, InitTreeInv, InitMoveInv
<1>4. QED
  BY <1>1, <1>2, <1>3, PTL DEF Spec
=============================================================================
