--------------------------- MODULE PosixShmProofs ---------------------------
(* Theorems about PosixShm, for any processes, objects, payloads, sizes   *)
(* and faults.                                                             *)
EXTENDS PosixShm, TLAPS

LEMMA InitIInv == Init => IInv
<1> SUFFICES ASSUME Init PROVE IInv
  OBVIOUS
<1> USE ConstantsAssumption
<1>1. SomeSize \in Sizes
  BY DEF SomeSize
<1>2. TypeOK
  <2>1. bytes \in [ShmIds -> Objects]
    BY <1>1 DEF Init, Blank, Objects
  <2>2. QED
    BY <1>1, <2>1 DEF Init, TypeOK, Labels
<1>3. OpenInv
  BY DEF Init, OpenInv, WithSem, WithFd, Holding
<1>4. TokenInv
  BY <1>1 DEF Init, TokenInv, Holds, Holding
<1>5. QED
  BY <1>2, <1>3, <1>4 DEF IInv

(* Each step keeps every variable in its type and every open object real.  *)
LEMMA NextType == TypeOK /\ OpenInv /\ [Next]_vars => TypeOK' /\ OpenInv'
<1> SUFFICES ASSUME TypeOK, OpenInv, [Next]_vars PROVE TypeOK' /\ OpenInv'
  OBVIOUS
<1> USE ConstantsAssumption DEF TypeOK, OpenInv, WithSem, WithFd, Holding, Labels,
        locals, Goto, Return, Post, AddCredit, history
<1>1. ASSUME NEW p \in Procs, AttachStart(p) PROVE TypeOK' /\ OpenInv'
  BY <1>1 DEF AttachStart
<1>2. ASSUME NEW p \in Procs, AttachSemCreate(p) PROVE TypeOK' /\ OpenInv'
  <2>1. CASE semName # None
    BY <1>2, <2>1 DEF AttachSemCreate
  <2>2. CASE semName = None
    <3>1. PICK s \in FreeSems :
            /\ sem' = [sem EXCEPT ![p] = s]
            /\ semName' = s
            /\ value' = [value EXCEPT ![s] = 0]
            /\ credit' = [credit EXCEPT ![s] = 0]
            /\ died' = died \ {s}
            /\ sole' = sole
      BY <1>2, <2>2 DEF AttachSemCreate
    <3>2. s \in SemIds
      BY DEF FreeSems
    <3>3. TypeOK'
      BY <1>2, <3>1, <3>2 DEF AttachSemCreate
    <3>4. OpenInv'
      BY <1>2, <3>1, <3>2 DEF AttachSemCreate
    <3>5. QED
      BY <3>3, <3>4
  <2>3. QED
    BY <2>1, <2>2
<1>3. ASSUME NEW p \in Procs, AttachShm(p) PROVE TypeOK' /\ OpenInv'
  BY <1>3 DEF AttachShm
<1>4. ASSUME NEW p \in Procs, AttachShmCreate(p) PROVE TypeOK' /\ OpenInv'
  <2>1. Blank \in Objects
    BY DEF Blank, Objects
  <2>2. CASE shmName # None
    BY <1>4, <2>2 DEF AttachShmCreate
  <2>3. CASE shmName = None
    <3>1. PICK o \in FreeShms :
            /\ fd' = [fd EXCEPT ![p] = o]
            /\ shmName' = o
            /\ bytes' = [bytes EXCEPT ![o] = Blank]
      BY <1>4, <2>3 DEF AttachShmCreate
    <3>2. o \in ShmIds
      BY DEF FreeShms
    <3>3. TypeOK'
      BY <1>4, <2>1, <3>1, <3>2 DEF AttachShmCreate
    <3>4. OpenInv'
      BY <1>4, <3>1, <3>2 DEF AttachShmCreate
    <3>5. QED
      BY <3>3, <3>4
  <2>4. QED
    BY <2>2, <2>3
<1>5. ASSUME NEW p \in Procs, AttachTruncate(p) PROVE TypeOK' /\ OpenInv'
  BY <1>5 DEF AttachTruncate, Objects
<1>6. ASSUME NEW p \in Procs, AttachMap(p) PROVE TypeOK' /\ OpenInv'
  BY <1>6 DEF AttachMap
<1>7. ASSUME NEW p \in Procs, AttachMapFails(p) PROVE TypeOK' /\ OpenInv'
  BY <1>7 DEF AttachMapFails
<1>8. ASSUME NEW p \in Procs, AttachPost(p) PROVE TypeOK' /\ OpenInv'
  <2>1. CASE first[p]
    <3>1. sole' \in BOOLEAN
      BY <1>8, <2>1 DEF AttachPost
    <3>2. QED
      BY <1>8, <2>1, <3>1 DEF AttachPost
  <2>2. CASE ~first[p]
    BY <1>8, <2>2 DEF AttachPost
  <2>3. QED
    BY <2>1, <2>2
<1>9. ASSUME NEW p \in Procs, AttachFails(p) PROVE TypeOK' /\ OpenInv'
  BY <1>9 DEF AttachFails
<1>10. ASSUME NEW p \in Procs, Write(p) PROVE TypeOK' /\ OpenInv'
  <2>1. CASE WriteStart(p)
    BY <2>1 DEF WriteStart
  <2>2. CASE WriteWait(p)
    BY <2>2 DEF WriteWait, Wait
  <2>3. CASE WriteInterrupted(p)
    BY <2>3 DEF WriteInterrupted
  <2>4. CASE WriteShm(p)
    BY <2>4 DEF WriteShm
  <2>5. CASE WriteShmFails(p)
    BY <2>5 DEF WriteShmFails
  <2>6. CASE WriteMap(p)
    BY <2>6 DEF WriteMap
  <2>7. CASE WriteMapFails(p)
    BY <2>7 DEF WriteMapFails
  <2>8. CASE WriteCopyHead(p)
    BY <2>8 DEF WriteCopyHead, Objects
  <2>9. CASE WriteCopyTail(p)
    BY <2>9 DEF WriteCopyTail, Objects
  <2>10. CASE WritePost(p)
    BY <2>10 DEF WritePost
  <2>11. QED
    BY <1>10, <2>1, <2>2, <2>3, <2>4, <2>5, <2>6, <2>7, <2>8, <2>9, <2>10 DEF Write
<1>11. ASSUME NEW p \in Procs, Read(p) PROVE TypeOK' /\ OpenInv'
  <2>1. CASE ReadStart(p)
    BY <2>1 DEF ReadStart
  <2>2. CASE ReadMap(p)
    BY <2>2 DEF ReadMap
  <2>3. CASE ReadMapFails(p)
    BY <2>3 DEF ReadMapFails
  <2>4. CASE ReadCopyHead(p)
    BY <2>4 DEF ReadCopyHead, Objects
  <2>5. CASE ReadCopyTail(p)
    BY <2>5 DEF ReadCopyTail
  <2>6. QED
    BY <1>11, <2>1, <2>2, <2>3, <2>4, <2>5 DEF Read
<1>12. ASSUME NEW p \in Procs, Close(p) PROVE TypeOK' /\ OpenInv'
  <2>1. CASE CloseStart(p)
    BY <2>1 DEF CloseStart
  <2>2. CASE CloseWait(p)
    BY <2>2 DEF CloseWait, Wait
  <2>3. CASE CloseInterrupted(p)
    BY <2>3 DEF CloseInterrupted
  <2>4. CASE CloseUnlink(p)
    BY <2>4 DEF CloseUnlink
  <2>5. CASE ClosePost(p)
    BY <2>5 DEF ClosePost
  <2>6. CASE CloseSemUnlink(p)
    BY <2>6 DEF CloseSemUnlink
  <2>7. QED
    BY <1>12, <2>1, <2>2, <2>3, <2>4, <2>5, <2>6 DEF Close
<1>13. ASSUME NEW p \in Procs, End(p) PROVE TypeOK' /\ OpenInv'
  BY <1>13 DEF End
<1>14. CASE UNCHANGED vars
  BY <1>14 DEF vars
<1>15. QED
  BY <1>1, <1>2, <1>3, <1>4, <1>5, <1>6, <1>7, <1>8, <1>9, <1>10, <1>11, <1>12,
     <1>13, <1>14 DEF Next, Attach

(* A holder that posts and leaves puts its token back. *)
LEMMA HolderPosts ==
  ASSUME TypeOK, TokenInv, NEW p \in Procs, pc[p] \in Holding, sem[p] \in SemIds,
         Post(sem[p]), credit' = credit, pc'[p] \notin Holding,
         \A q \in Procs \ {p} : pc'[q] = pc[q] /\ sem'[q] = sem[q]
  PROVE  TokenInv'
<1> SUFFICES ASSUME NEW s \in SemIds
             PROVE  /\ credit[s] = 0 => value'[s] = 0 /\ \A q \in Procs : ~Holds(q, s)'
                    /\ credit[s] = 1 =>
                         /\ value'[s] <= 1
                         /\ value'[s] = 1 => \A q \in Procs : ~Holds(q, s)'
                         /\ \A q, r \in Procs : Holds(q, s)' /\ Holds(r, s)' => q = r
  BY DEF TokenInv
<1>1. \A q \in Procs : Holds(q, s)' => Holds(q, s) /\ q # p
  BY DEF Holds
<1>2. CASE s = sem[p]
  <2>1. Holds(p, s)
    BY <1>2 DEF Holds
  <2>2. credit[s] # 0
    BY <2>1 DEF TokenInv
  <2>3. credit[s] = 1 => value[s] = 0 /\ \A q \in Procs : Holds(q, s) => q = p
    BY <2>1 DEF TokenInv, TypeOK
  <2>4. value'[s] = value[s] + 1
    BY <1>2 DEF Post, TypeOK
  <2>5. QED
    BY <1>1, <2>2, <2>3, <2>4
<1>3. CASE s # sem[p]
  <2>1. value'[s] = value[s]
    BY <1>3 DEF Post, TypeOK
  <2>2. QED
    BY <1>1, <2>1 DEF TokenInv
<1>4. QED
  BY <1>2, <1>3

(* A step moves tokens between a semaphore and its holders, or adds one    *)
(* and says so in credit.                                                  *)
LEMMA NextToken == TypeOK /\ OpenInv /\ TokenInv /\ [Next]_vars => TokenInv'
<1> SUFFICES ASSUME TypeOK, OpenInv, TokenInv, [Next]_vars PROVE TokenInv'
  OBVIOUS
<1> USE DEF TokenInv, Holds, Holding, Goto, Return, history
<1>1. ASSUME NEW p \in Procs, Attach(p) PROVE TokenInv'
  <2>1. CASE AttachStart(p)
    BY <2>1 DEF AttachStart, TypeOK
  <2>2. CASE AttachSemCreate(p)
    <3>1. CASE semName # None
      BY <2>2, <3>1 DEF AttachSemCreate, TypeOK
    <3>2. CASE semName = None
      <4>1. PICK s \in FreeSems :
              /\ sem' = [sem EXCEPT ![p] = s]
              /\ value' = [value EXCEPT ![s] = 0]
              /\ credit' = [credit EXCEPT ![s] = 0]
              /\ died' = died \ {s}
              /\ pc[p] = "a_semcreate" /\ pc' = [pc EXCEPT ![p] = "a_shm"]
        BY <2>2, <3>2 DEF AttachSemCreate
      <4>2. s \in SemIds /\ \A q \in Procs : sem[q] # s
        BY DEF FreeSems
      <4>3. QED
        BY <4>1, <4>2 DEF TypeOK
    <3>3. QED
      BY <3>1, <3>2
  <2>3. CASE AttachShm(p)
    BY <2>3 DEF AttachShm, TypeOK, locals
  <2>4. CASE AttachShmCreate(p)
    BY <2>4 DEF AttachShmCreate, TypeOK
  <2>5. CASE AttachTruncate(p)
    BY <2>5 DEF AttachTruncate, TypeOK, locals
  <2>6. CASE AttachMap(p)
    BY <2>6 DEF AttachMap, TypeOK, locals
  <2>7. CASE AttachMapFails(p)
    BY <2>7 DEF AttachMapFails, TypeOK
  <2>8. CASE AttachPost(p)
    BY <2>8 DEF AttachPost, TypeOK, Post, AddCredit, OpenInv, WithSem
  <2>9. CASE AttachFails(p)
    BY <2>9 DEF AttachFails, TypeOK
  <2>10. QED
    BY <1>1, <2>1, <2>2, <2>3, <2>4, <2>5, <2>6, <2>7, <2>8, <2>9 DEF Attach
<1>2. ASSUME NEW p \in Procs, Write(p) PROVE TokenInv'
  <2>1. CASE WriteStart(p)
    BY <2>1 DEF WriteStart, TypeOK
  <2>2. CASE WriteWait(p)
    BY <2>2 DEF WriteWait, TypeOK, OpenInv, WithSem, Wait, locals
  <2>3. CASE WriteInterrupted(p)
    BY <2>3 DEF WriteInterrupted, TypeOK, Post, AddCredit, OpenInv, WithSem
  <2>4. CASE WriteShm(p)
    BY <2>4 DEF WriteShm, TypeOK
  <2>5. CASE WriteShmFails(p)
    BY <2>5, HolderPosts DEF WriteShmFails, TypeOK, OpenInv, WithSem
  <2>6. CASE WriteMap(p)
    BY <2>6 DEF WriteMap, TypeOK, locals
  <2>7. CASE WriteMapFails(p)
    BY <2>7, HolderPosts DEF WriteMapFails, TypeOK, OpenInv, WithSem
  <2>8. CASE WriteCopyHead(p)
    BY <2>8 DEF WriteCopyHead, TypeOK, locals
  <2>9. CASE WriteCopyTail(p)
    BY <2>9 DEF WriteCopyTail, TypeOK, locals
  <2>10. CASE WritePost(p)
    BY <2>10, HolderPosts DEF WritePost, TypeOK, OpenInv, WithSem
  <2>11. QED
    BY <1>2, <2>1, <2>2, <2>3, <2>4, <2>5, <2>6, <2>7, <2>8, <2>9, <2>10 DEF Write
<1>3. ASSUME NEW p \in Procs, Read(p) PROVE TokenInv'
  <2>1. CASE ReadStart(p)
    BY <2>1 DEF ReadStart, TypeOK
  <2>2. CASE ReadMap(p)
    BY <2>2 DEF ReadMap, TypeOK, locals
  <2>3. CASE ReadMapFails(p)
    BY <2>3 DEF ReadMapFails, TypeOK
  <2>4. CASE ReadCopyHead(p)
    BY <2>4 DEF ReadCopyHead, TypeOK
  <2>5. CASE ReadCopyTail(p)
    BY <2>5 DEF ReadCopyTail, TypeOK
  <2>6. QED
    BY <1>3, <2>1, <2>2, <2>3, <2>4, <2>5 DEF Read
<1>4. ASSUME NEW p \in Procs, Close(p) PROVE TokenInv'
  <2>1. CASE CloseStart(p)
    BY <2>1 DEF CloseStart, TypeOK
  <2>2. CASE CloseWait(p)
    BY <2>2 DEF CloseWait, TypeOK, OpenInv, WithSem, Wait, locals
  <2>3. CASE CloseInterrupted(p)
    BY <2>3 DEF CloseInterrupted, TypeOK
  <2>4. CASE CloseUnlink(p)
    BY <2>4 DEF CloseUnlink, TypeOK, locals
  <2>5. CASE ClosePost(p)
    BY <2>5, HolderPosts DEF ClosePost, TypeOK, OpenInv, WithSem, locals
  <2>6. CASE CloseSemUnlink(p)
    BY <2>6 DEF CloseSemUnlink, TypeOK
  <2>7. QED
    BY <1>4, <2>1, <2>2, <2>3, <2>4, <2>5, <2>6 DEF Close
<1>5. ASSUME NEW p \in Procs, End(p) PROVE TokenInv'
  BY <1>5 DEF End, TypeOK
<1>6. CASE UNCHANGED vars
  BY <1>6 DEF vars
<1>7. QED
  BY <1>1, <1>2, <1>3, <1>4, <1>5, <1>6 DEF Next

(* A step loses a token only by the death of its holder.                   *)
LEMMA NextKept == TypeOK /\ OpenInv /\ TokenKept /\ [Next]_vars => TokenKept'
<1> SUFFICES ASSUME TypeOK, OpenInv, TokenKept, [Next]_vars PROVE TokenKept'
  OBVIOUS
<1> USE DEF TokenKept, Holds, Holding, Goto, Return, history
<1>1. ASSUME NEW p \in Procs, Attach(p) PROVE TokenKept'
  <2>1. CASE AttachStart(p)
    BY <2>1 DEF AttachStart, TypeOK
  <2>2. CASE AttachSemCreate(p)
    <3>1. CASE semName # None
      BY <2>2, <3>1 DEF AttachSemCreate, TypeOK
    <3>2. CASE semName = None
      <4>1. PICK s \in FreeSems :
              /\ sem' = [sem EXCEPT ![p] = s]
              /\ value' = [value EXCEPT ![s] = 0]
              /\ credit' = [credit EXCEPT ![s] = 0]
              /\ died' = died \ {s}
              /\ pc[p] = "a_semcreate" /\ pc' = [pc EXCEPT ![p] = "a_shm"]
        BY <2>2, <3>2 DEF AttachSemCreate
      <4>2. s \in SemIds /\ \A q \in Procs : sem[q] # s
        BY DEF FreeSems
      <4>3. QED
        BY <4>1, <4>2 DEF TypeOK
    <3>3. QED
      BY <3>1, <3>2
  <2>3. CASE AttachShm(p)
    BY <2>3 DEF AttachShm, TypeOK, locals
  <2>4. CASE AttachShmCreate(p)
    BY <2>4 DEF AttachShmCreate, TypeOK
  <2>5. CASE AttachTruncate(p)
    BY <2>5 DEF AttachTruncate, TypeOK, locals
  <2>6. CASE AttachMap(p)
    BY <2>6 DEF AttachMap, TypeOK, locals
  <2>7. CASE AttachMapFails(p)
    BY <2>7 DEF AttachMapFails, TypeOK
  <2>8. CASE AttachPost(p)
    BY <2>8 DEF AttachPost, TypeOK, Post, AddCredit, OpenInv, WithSem
  <2>9. CASE AttachFails(p)
    BY <2>9 DEF AttachFails, TypeOK
  <2>10. QED
    BY <1>1, <2>1, <2>2, <2>3, <2>4, <2>5, <2>6, <2>7, <2>8, <2>9 DEF Attach
<1>2. ASSUME NEW p \in Procs, Write(p) PROVE TokenKept'
  <2>1. CASE WriteStart(p)
    BY <2>1 DEF WriteStart, TypeOK
  <2>2. CASE WriteWait(p)
    BY <2>2 DEF WriteWait, TypeOK, OpenInv, WithSem, Wait, locals
  <2>3. CASE WriteInterrupted(p)
    BY <2>3 DEF WriteInterrupted, TypeOK, Post, AddCredit, OpenInv, WithSem
  <2>4. CASE WriteShm(p)
    BY <2>4 DEF WriteShm, TypeOK
  <2>5. CASE WriteShmFails(p)
    BY <2>5 DEF WriteShmFails, TypeOK, Post, OpenInv, WithSem
  <2>6. CASE WriteMap(p)
    BY <2>6 DEF WriteMap, TypeOK, locals
  <2>7. CASE WriteMapFails(p)
    BY <2>7 DEF WriteMapFails, TypeOK, Post, OpenInv, WithSem
  <2>8. CASE WriteCopyHead(p)
    BY <2>8 DEF WriteCopyHead, TypeOK, locals
  <2>9. CASE WriteCopyTail(p)
    BY <2>9 DEF WriteCopyTail, TypeOK, locals
  <2>10. CASE WritePost(p)
    BY <2>10 DEF WritePost, TypeOK, Post, OpenInv, WithSem
  <2>11. QED
    BY <1>2, <2>1, <2>2, <2>3, <2>4, <2>5, <2>6, <2>7, <2>8, <2>9, <2>10 DEF Write
<1>3. ASSUME NEW p \in Procs, Read(p) PROVE TokenKept'
  <2>1. CASE ReadStart(p)
    BY <2>1 DEF ReadStart, TypeOK
  <2>2. CASE ReadMap(p)
    BY <2>2 DEF ReadMap, TypeOK, locals
  <2>3. CASE ReadMapFails(p)
    BY <2>3 DEF ReadMapFails, TypeOK
  <2>4. CASE ReadCopyHead(p)
    BY <2>4 DEF ReadCopyHead, TypeOK
  <2>5. CASE ReadCopyTail(p)
    BY <2>5 DEF ReadCopyTail, TypeOK
  <2>6. QED
    BY <1>3, <2>1, <2>2, <2>3, <2>4, <2>5 DEF Read
<1>4. ASSUME NEW p \in Procs, Close(p) PROVE TokenKept'
  <2>1. CASE CloseStart(p)
    BY <2>1 DEF CloseStart, TypeOK
  <2>2. CASE CloseWait(p)
    BY <2>2 DEF CloseWait, TypeOK, OpenInv, WithSem, Wait, locals
  <2>3. CASE CloseInterrupted(p)
    BY <2>3 DEF CloseInterrupted, TypeOK
  <2>4. CASE CloseUnlink(p)
    BY <2>4 DEF CloseUnlink, TypeOK, locals
  <2>5. CASE ClosePost(p)
    BY <2>5 DEF ClosePost, TypeOK, Post, OpenInv, WithSem, locals
  <2>6. CASE CloseSemUnlink(p)
    BY <2>6 DEF CloseSemUnlink, TypeOK
  <2>7. QED
    BY <1>4, <2>1, <2>2, <2>3, <2>4, <2>5, <2>6 DEF Close
<1>5. ASSUME NEW p \in Procs, End(p) PROVE TokenKept'
  BY <1>5 DEF End, TypeOK
<1>6. CASE UNCHANGED vars
  BY <1>6 DEF vars
<1>7. QED
  BY <1>1, <1>2, <1>3, <1>4, <1>5, <1>6 DEF Next

(* The writer in its copy is the only one, so what it finishes is what it  *)
(* began, and nobody else takes an object out of a whole state.            *)
LEMMA NextWhole == IInv /\ SoleInv /\ WholeAtRest /\ [Next]_vars
                     => SoleInv' /\ WholeAtRest'
<1> SUFFICES ASSUME IInv, SoleInv, WholeAtRest, [Next]_vars, sole'
             PROVE  SoleInv' /\ WholeAtRest'
  BY DEF SoleInv, WholeAtRest
<1> USE ConstantsAssumption
<1> DEFINE Goal == SoleInv' /\ WholeAtRest'
<1> USE DEF IInv, SoleInv, WholeAtRest, WithSem, Holding, Goto, Return, history, locals
<1>1. ASSUME NEW p \in Procs, Attach(p) PROVE Goal
  <2>1. CASE AttachStart(p)
    BY <2>1 DEF AttachStart, TypeOK
  <2>2. CASE AttachSemCreate(p)
    <3>1. CASE semName # None
      <4>1. /\ sem' = [sem EXCEPT ![p] = semName]
            /\ pc[p] = "a_semcreate" /\ pc' = [pc EXCEPT ![p] = "a_shm"]
            /\ UNCHANGED <<fd, data, bytes, semName, credit, sole>>
        BY <2>2, <3>1 DEF AttachSemCreate
      <4>2. SoleInv'
        BY <4>1 DEF TypeOK
      <4>3. WholeAtRest'
        BY <4>1 DEF TypeOK
      <4>4. QED
        BY <4>2, <4>3
    <3>2. CASE semName = None
      <4>1. PICK s \in FreeSems :
              /\ sem' = [sem EXCEPT ![p] = s]
              /\ semName' = s
              /\ credit' = [credit EXCEPT ![s] = 0]
              /\ sole' = sole
              /\ pc' = [pc EXCEPT ![p] = "a_shm"]
              /\ UNCHANGED <<fd, data, bytes>>
        BY <2>2, <3>2 DEF AttachSemCreate
      <4>2. s \in SemIds
        BY DEF FreeSems
      <4>3. \A q \in Procs : pc[q] \notin WithSem
        BY <3>2, <4>1 DEF OpenInv
      <4>4. QED
        BY <4>1, <4>2, <4>3 DEF TypeOK
    <3>3. QED
      BY <3>1, <3>2
  <2>3. CASE AttachShm(p)
    BY <2>3 DEF AttachShm, TypeOK
  <2>4. CASE AttachShmCreate(p)
    <3>1. CASE shmName # None
      BY <2>4, <3>1 DEF AttachShmCreate, TypeOK
    <3>2. CASE shmName = None
      <4>1. PICK o \in FreeShms :
              /\ fd' = [fd EXCEPT ![p] = o]
              /\ bytes' = [bytes EXCEPT ![o] = Blank]
              /\ pc[p] = "a_shmcreate" /\ pc' = [pc EXCEPT ![p] = "a_truncate"]
              /\ UNCHANGED <<sem, data, semName, history>>
        BY <2>4, <3>2 DEF AttachShmCreate
      <4>2. o \in ShmIds /\ \A q \in Procs : fd[q] # o
        BY DEF FreeShms
      <4>3. \A q \in Procs : pc'[q] = "w_copy2" <=> pc[q] = "w_copy2"
        BY <4>1 DEF TypeOK
      <4>4. bytes'[o].head = bytes'[o].tail
        BY <4>1, <4>2 DEF Blank, TypeOK
      <4>5. \A x \in ShmIds : x # o => bytes'[x] = bytes[x]
        BY <4>1, <4>2 DEF TypeOK
      <4>6. \A q \in Procs : pc[q] = "w_copy2" => q # p /\ fd'[q] = fd[q] /\ fd[q] \in ShmIds
        BY <4>1 DEF TypeOK, OpenInv, WithFd
      <4>7. SoleInv'
        BY <4>1, <4>2, <4>3, <4>5, <4>6 DEF TypeOK
      <4>8. WholeAtRest'
        BY <4>1, <4>3, <4>4, <4>5, <4>6
      <4>9. QED
        BY <4>7, <4>8
    <3>3. QED
      BY <3>1, <3>2
  <2>5. CASE AttachTruncate(p)
    BY <2>5 DEF AttachTruncate, TypeOK
  <2>6. CASE AttachMap(p)
    BY <2>6 DEF AttachMap, TypeOK
  <2>7. CASE AttachMapFails(p)
    BY <2>7 DEF AttachMapFails, TypeOK
  <2>8. CASE AttachPost(p)
    <3>1. sem[p] \in SemIds
      BY <2>8 DEF AttachPost, OpenInv
    <3>2. sole /\ (credit' = credit \/ credit' = [credit EXCEPT ![sem[p]] = 1])
      BY <2>8, <3>1 DEF AttachPost, AddCredit, TypeOK
    <3>3. QED
      BY <2>8, <3>1, <3>2 DEF AttachPost, TypeOK
  <2>9. CASE AttachFails(p)
    BY <2>9 DEF AttachFails, TypeOK
  <2>10. QED
    BY <1>1, <2>1, <2>2, <2>3, <2>4, <2>5, <2>6, <2>7, <2>8, <2>9 DEF Attach
<1>2. ASSUME NEW p \in Procs, Write(p) PROVE Goal
  <2>1. CASE WriteStart(p)
    BY <2>1 DEF WriteStart, TypeOK
  <2>2. CASE WriteWait(p)
    BY <2>2 DEF WriteWait, Wait, TypeOK
  <2>3. CASE WriteInterrupted(p)
    <3>1. sem[p] \in SemIds
      BY <2>3 DEF WriteInterrupted, OpenInv
    <3>2. sole /\ credit' = [credit EXCEPT ![sem[p]] = 1]
      BY <2>3, <3>1 DEF WriteInterrupted, AddCredit, TypeOK
    <3>3. QED
      BY <2>3, <3>1, <3>2 DEF WriteInterrupted, TypeOK
  <2>4. CASE WriteShm(p)
    BY <2>4 DEF WriteShm, TypeOK
  <2>5. CASE WriteShmFails(p)
    BY <2>5 DEF WriteShmFails, TypeOK
  <2>6. CASE WriteMap(p)
    BY <2>6 DEF WriteMap, TypeOK
  <2>7. CASE WriteMapFails(p)
    BY <2>7 DEF WriteMapFails, TypeOK
  <2>8. CASE WriteCopyHead(p)
    <3>1. pc[p] = "w_copy1" /\ sole /\ semName \in SemIds
      BY <2>8 DEF WriteCopyHead, OpenInv
    <3>2. \A q \in Procs : pc[q] # "w_copy2"
      <4> SUFFICES ASSUME NEW q \in Procs, pc[q] = "w_copy2" PROVE FALSE
        OBVIOUS
      <4>1. Holds(p, semName) /\ Holds(q, semName)
        BY <3>1 DEF Holds
      <4>2. credit[semName] = 0 \/ credit[semName] = 1
        BY <3>1 DEF TypeOK
      <4>3. p = q
        BY <3>1, <4>1, <4>2 DEF TokenInv
      <4>4. QED
        BY <3>1, <4>3
    <3>3. fd[p] \in ShmIds
      BY <3>1 DEF OpenInv, WithFd
    <3>4. QED
      BY <2>8, <3>1, <3>2, <3>3 DEF WriteCopyHead, TypeOK, Objects
  <2>9. CASE WriteCopyTail(p)
    BY <2>9 DEF WriteCopyTail, TypeOK
  <2>10. CASE WritePost(p)
    BY <2>10 DEF WritePost, TypeOK
  <2>11. QED
    BY <1>2, <2>1, <2>2, <2>3, <2>4, <2>5, <2>6, <2>7, <2>8, <2>9, <2>10 DEF Write
<1>3. ASSUME NEW p \in Procs, Read(p) PROVE Goal
  <2>1. CASE ReadStart(p)
    BY <2>1 DEF ReadStart, TypeOK
  <2>2. CASE ReadMap(p)
    BY <2>2 DEF ReadMap, TypeOK
  <2>3. CASE ReadMapFails(p)
    BY <2>3 DEF ReadMapFails, TypeOK
  <2>4. CASE ReadCopyHead(p)
    BY <2>4 DEF ReadCopyHead, TypeOK
  <2>5. CASE ReadCopyTail(p)
    BY <2>5 DEF ReadCopyTail, TypeOK
  <2>6. QED
    BY <1>3, <2>1, <2>2, <2>3, <2>4, <2>5 DEF Read
<1>4. ASSUME NEW p \in Procs, Close(p) PROVE Goal
  <2>1. CASE CloseStart(p)
    BY <2>1 DEF CloseStart, TypeOK
  <2>2. CASE CloseWait(p)
    BY <2>2 DEF CloseWait, Wait, TypeOK
  <2>3. CASE CloseInterrupted(p)
    BY <2>3 DEF CloseInterrupted, TypeOK
  <2>4. CASE CloseUnlink(p)
    BY <2>4 DEF CloseUnlink, TypeOK
  <2>5. CASE ClosePost(p)
    BY <2>5 DEF ClosePost, TypeOK
  <2>6. CASE CloseSemUnlink(p)
    BY <2>6 DEF CloseSemUnlink, TypeOK
  <2>7. QED
    BY <1>4, <2>1, <2>2, <2>3, <2>4, <2>5, <2>6 DEF Close
<1>5. ASSUME NEW p \in Procs, End(p) PROVE Goal
  BY <1>5 DEF End, TypeOK
<1>6. CASE UNCHANGED vars
  BY <1>6 DEF vars
<1>7. QED
  BY <1>1, <1>2, <1>3, <1>4, <1>5, <1>6 DEF Next

(* Every reachable state is well typed, uses only objects it has open, and *)
(* accounts for every token of every semaphore.                            *)
THEOREM Invariance == Spec => []IInv
<1>1. IInv /\ [Next]_vars => IInv'
  BY NextType, NextToken DEF IInv
<1>2. QED
  BY InitIInv, <1>1, PTL DEF Spec

(* posix_shm.c uses every semaphore and mapping only after opening it.     *)
THEOREM TypeCorrect == Spec => []TypeOK
<1>1. IInv => TypeOK
  BY DEF IInv
<1>2. QED
  BY Invariance, <1>1, PTL

(* Writers and closers exclude each other on a semaphore that was given    *)
(* one token (248-285, 343-349), whatever fails, dies or is closed.        *)
THEOREM MutualExclusionTheorem == Spec => []MutualExclusion
<1>1. IInv => MutualExclusion
  <2> SUFFICES ASSUME IInv, NEW s \in SemIds, credit[s] <= 1
               PROVE  \A p, q \in Procs : Holds(p, s) /\ Holds(q, s) => p = q
    BY DEF MutualExclusion
  <2>1. credit[s] = 0 \/ credit[s] = 1
    BY DEF IInv, TypeOK
  <2>2. QED
    BY <2>1 DEF IInv, TokenInv
<1>2. QED
  BY Invariance, <1>1, PTL

(* No error path of the four functions loses the token (237-293, 339-352). *)
THEOREM TokenKeptTheorem == Spec => []TokenKept
<1>1. Init => TokenKept
  BY ConstantsAssumption DEF Init, TokenKept
<1>2. IInv /\ TokenKept /\ [Next]_vars => TokenKept'
  BY NextKept DEF IInv
<1>3. QED
  BY Invariance, <1>1, <1>2, PTL DEF Spec

(* With one semaphore and one token a memory object is whole but during a  *)
(* copy (280): the write is atomic for whoever waits for its end.          *)
THEOREM WholeAtRestTheorem == Spec => []WholeAtRest
<1>1. Init => SoleInv /\ WholeAtRest
  BY ConstantsAssumption DEF Init, SoleInv, WholeAtRest, WithSem, Holding, Blank
<1>2. IInv /\ SoleInv /\ WholeAtRest /\ [Next]_vars => SoleInv' /\ WholeAtRest'
  BY NextWhole
<1>3. QED
  BY Invariance, <1>1, <1>2, PTL DEF Spec
=============================================================================
