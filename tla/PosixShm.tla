------------------------------ MODULE PosixShm ------------------------------
(***************************************************************************)
(* php-posix_shm: a shared-memory string that several PHP processes write  *)
(* and read.  A region is a pair of kernel names, "/shm<name>" for the     *)
(* memory and "/sem<name>" for the semaphore that serialises its writers.  *)
(*                                                                         *)
(* Every system call that another process can observe is a step of its own;*)
(* what a call does only to the memory of its own process is part of the   *)
(* step before it.  Names are looked up anew by every call, so a process   *)
(* may still hold a semaphore or a memory object whose name is gone, or    *)
(* names another object by now: objects have identities (SemIds, ShmIds)   *)
(* which are taken again once nothing refers to them.                      *)
(***************************************************************************)
EXTENDS Naturals

CONSTANTS
  Procs,     \* the PHP processes (one handle each)
  SemIds,    \* identities of semaphores
  ShmIds,    \* identities of memory objects
  Data,      \* payloads of posix_shm_write
  Sizes,     \* sizes in pages a caller asks for
  None,      \* no object, no payload
  Faults     \* what the environment may do, see FaultKinds

FaultKinds == {"sem_open", "shm_open", "ftruncate", "mmap", "signal", "crash"}

ASSUME ConstantsAssumption ==
  /\ None \notin SemIds \cup ShmIds \cup Data
  /\ Sizes \subseteq Nat \ {0} /\ Sizes # {}
  /\ Faults \subseteq FaultKinds

VARIABLES
  pc,        \* the system call each process makes next
  attached,  \* the process holds a resource (php_posix_shm_rsrc_t)
  size,      \* rsrc->size
  first,     \* is_first of a running attach
  sem,       \* the semaphore a running call has open
  fd,        \* the memory object a running call has open
  data,      \* the payload of a running write, what a running read has copied
  semName,   \* what "/sem<name>" names
  shmName,   \* what "/shm<name>" names
  value,     \* semaphore values
  bytes,     \* memory objects: pages, and the two halves of the string
  credit,    \* history: tokens put into a semaphore by other than its holders
  died,      \* history: semaphores a holder of which died
  sole       \* history: the region has had one semaphore, with one token at
             \* most, and no writer died in the middle of its copy

locals == <<attached, size, first, sem, fd, data>>
vars == <<pc, attached, size, first, sem, fd, data,
          semName, shmName, value, bytes, credit, died, sole>>
history == <<credit, died, sole>>

Labels == {"idle",
           "a_semcreate", "a_shm", "a_shmcreate", "a_truncate", "a_map", "a_post",
           "w_wait", "w_shm", "w_map", "w_copy1", "w_copy2", "w_post",
           "r_map", "r_head", "r_tail",
           "c_wait", "c_unlink", "c_post", "c_semunlink"}

Objects == [pages : Nat, head : Data \cup {None}, tail : Data \cup {None}]
Blank   == [pages |-> 0, head |-> None, tail |-> None]

TypeOK ==
  /\ pc \in [Procs -> Labels]
  /\ attached \in [Procs -> BOOLEAN]
  /\ size \in [Procs -> Sizes]
  /\ first \in [Procs -> BOOLEAN]
  /\ sem \in [Procs -> SemIds \cup {None}]
  /\ fd \in [Procs -> ShmIds \cup {None}]
  /\ data \in [Procs -> Data \cup {None}]
  /\ semName \in SemIds \cup {None}
  /\ shmName \in ShmIds \cup {None}
  /\ value \in [SemIds -> Nat]
  /\ bytes \in [ShmIds -> Objects]
  /\ credit \in [SemIds -> 0..2]
  /\ died \subseteq SemIds
  /\ sole \in BOOLEAN

-----------------------------------------------------------------------------
(* Nothing exists yet. *)
SomeSize == CHOOSE n \in Sizes : TRUE

Init ==
  /\ pc = [p \in Procs |-> "idle"]
  /\ attached = [p \in Procs |-> FALSE]
  /\ size = [p \in Procs |-> SomeSize]
  /\ first = [p \in Procs |-> FALSE]
  /\ sem = [p \in Procs |-> None]
  /\ fd = [p \in Procs |-> None]
  /\ data = [p \in Procs |-> None]
  /\ semName = None
  /\ shmName = None
  /\ value = [s \in SemIds |-> 0]
  /\ bytes = [o \in ShmIds |-> Blank]
  /\ credit = [s \in SemIds |-> 0]
  /\ died = {}
  /\ sole = TRUE

(* An identity nothing refers to any more. *)
FreeSems == {s \in SemIds : s # semName /\ \A p \in Procs : sem[p] # s}
FreeShms == {o \in ShmIds : o # shmName /\ \A p \in Procs : fd[p] # o}

Goto(p, label) == pc' = [pc EXCEPT ![p] = label]

(* A call returns: what it had open is closed or left to the process's end,*)
(* its handle is what the call leaves the caller with.                     *)
Return(p, handle) ==
  /\ Goto(p, "idle")
  /\ attached' = [attached EXCEPT ![p] = handle]
  /\ first' = [first EXCEPT ![p] = FALSE]
  /\ sem' = [sem EXCEPT ![p] = None]
  /\ fd' = [fd EXCEPT ![p] = None]
  /\ data' = [data EXCEPT ![p] = None]
  /\ UNCHANGED size

Post(s) == value' = [value EXCEPT ![s] = @ + 1]

(* None, one, or more than one. *)
AddCredit(s) ==
  /\ credit' = [credit EXCEPT ![s] = IF @ = 0 THEN 1 ELSE 2]
  /\ sole' = (sole /\ credit[s] = 0)
  /\ UNCHANGED died

(* Between sem_wait and sem_post. *)
Holding == {"w_shm", "w_map", "w_copy1", "w_copy2", "w_post", "c_unlink", "c_post"}
Holds(p, s) == pc[p] \in Holding /\ sem[p] = s

-----------------------------------------------------------------------------
(* posix_shm_attach                                                        *)

AttachStart(p) ==
  /\ pc[p] = "idle" /\ ~attached[p]
  /\ \E n \in Sizes : size' = [size EXCEPT ![p] = n]
  /\ sem' = [sem EXCEPT ![p] = semName]
  /\ Goto(p, IF semName = None THEN "a_semcreate" ELSE "a_shm")
  /\ UNCHANGED <<attached, first, fd, data, semName, shmName, value, bytes, history>>

(* O_CREAT without O_EXCL: a semaphore made since the first look is opened,*)
(* and the process takes itself for its creator all the same.              *)
AttachSemCreate(p) ==
  /\ pc[p] = "a_semcreate"
  /\ first' = [first EXCEPT ![p] = TRUE]
  /\ Goto(p, "a_shm")
  /\ \/ /\ semName # None
        /\ sem' = [sem EXCEPT ![p] = semName]
        /\ UNCHANGED <<semName, value, history>>
     \/ \E s \in FreeSems :
        /\ semName = None
        /\ sem' = [sem EXCEPT ![p] = s]
        /\ semName' = s
        /\ value' = [value EXCEPT ![s] = 0]
        /\ credit' = [credit EXCEPT ![s] = 0]
        /\ died' = died \ {s}
        /\ UNCHANGED sole
  /\ UNCHANGED <<attached, size, fd, data, shmName, bytes>>

AttachShm(p) ==
  /\ pc[p] = "a_shm"
  /\ Goto(p, IF shmName = None THEN "a_shmcreate" ELSE "a_post")
  /\ UNCHANGED <<locals, semName, shmName, value, bytes, history>>

AttachShmCreate(p) ==
  /\ pc[p] = "a_shmcreate"
  /\ Goto(p, "a_truncate")
  /\ \/ /\ shmName # None
        /\ fd' = [fd EXCEPT ![p] = shmName]
        /\ UNCHANGED <<shmName, bytes>>
     \/ \E o \in FreeShms :
        /\ shmName = None
        /\ fd' = [fd EXCEPT ![p] = o]
        /\ shmName' = o
        /\ bytes' = [bytes EXCEPT ![o] = Blank]
  /\ UNCHANGED <<attached, size, first, sem, data, semName, value, history>>

AttachTruncate(p) ==
  /\ pc[p] = "a_truncate"
  /\ bytes' = [bytes EXCEPT ![fd[p]].pages = size[p]]
  /\ Goto(p, "a_map")
  /\ UNCHANGED <<locals, semName, shmName, value, history>>

(* The kernel maps no more than the object holds. *)
Mappable(p) == size[p] <= bytes[fd[p]].pages

AttachMap(p) ==
  /\ pc[p] = "a_map" /\ Mappable(p)
  /\ Goto(p, "a_post")
  /\ UNCHANGED <<locals, semName, shmName, value, bytes, history>>

(* MAP_FAILED is not NULL, so the error path removes the name. *)
AttachMapFails(p) ==
  /\ pc[p] = "a_map" /\ (~Mappable(p) \/ "mmap" \in Faults)
  /\ shmName' = None
  /\ Return(p, FALSE)
  /\ UNCHANGED <<semName, value, bytes, history>>

(* Only the process that takes itself for the creator makes the semaphore  *)
(* available.                                                              *)
AttachPost(p) ==
  /\ pc[p] = "a_post"
  /\ IF first[p] THEN Post(sem[p]) /\ AddCredit(sem[p])
                 ELSE UNCHANGED <<value, history>>
  /\ Return(p, TRUE)
  /\ UNCHANGED <<semName, shmName, bytes>>

(* sem_open, shm_open or ftruncate fails: the error path neither posts nor *)
(* removes anything.                                                       *)
AttachFails(p) ==
  /\ \/ pc[p] = "a_semcreate" /\ "sem_open" \in Faults
     \/ pc[p] = "a_shmcreate" /\ "shm_open" \in Faults
     \/ pc[p] = "a_truncate" /\ "ftruncate" \in Faults
  /\ Return(p, FALSE)
  /\ UNCHANGED <<semName, shmName, value, bytes, history>>

-----------------------------------------------------------------------------
(* posix_shm_write                                                         *)

WriteStart(p) ==
  /\ pc[p] = "idle" /\ attached[p]
  /\ semName # None             \* else sem_open fails and the call returns false
  /\ \E d \in Data : data' = [data EXCEPT ![p] = d]
  /\ sem' = [sem EXCEPT ![p] = semName]
  /\ Goto(p, "w_wait")
  /\ UNCHANGED <<attached, size, first, fd, semName, shmName, value, bytes, history>>

(* Mutant: the result of sem_wait is not looked at. *)
WaitUnchecked(p, from, to) ==
  /\ pc[p] = from
  /\ value' = [value EXCEPT ![sem[p]] = @ - 1]
  /\ Goto(p, to)
  /\ UNCHANGED <<locals, semName, shmName, bytes, history>>

Wait(p, from, to) ==
  /\ pc[p] = from /\ value[sem[p]] > 0
  /\ value' = [value EXCEPT ![sem[p]] = @ - 1]
  /\ Goto(p, to)
  /\ UNCHANGED <<locals, semName, shmName, bytes, history>>

WriteWait(p) == Wait(p, "w_wait", "w_shm")

(* A signal ends the wait; the error path posts a semaphore the process    *)
(* does not hold.                                                          *)
WriteInterrupted(p) ==
  /\ pc[p] = "w_wait" /\ value[sem[p]] = 0 /\ "signal" \in Faults
  /\ Post(sem[p])
  /\ AddCredit(sem[p])
  /\ Return(p, attached[p])
  /\ UNCHANGED <<semName, shmName, bytes>>

WriteShm(p) ==
  /\ pc[p] = "w_shm" /\ shmName # None
  /\ fd' = [fd EXCEPT ![p] = shmName]
  /\ Goto(p, "w_map")
  /\ UNCHANGED <<attached, size, first, sem, data, semName, shmName, value, bytes, history>>

(* Mutant: the error path returns with the semaphore taken. *)
WriteShmFailsHolding(p) ==
  /\ pc[p] = "w_shm" /\ (shmName = None \/ "shm_open" \in Faults)
  /\ Return(p, attached[p])
  /\ UNCHANGED <<semName, shmName, value, bytes, history>>

WriteShmFails(p) ==
  /\ pc[p] = "w_shm" /\ (shmName = None \/ "shm_open" \in Faults)
  /\ Post(sem[p])
  /\ Return(p, attached[p])
  /\ UNCHANGED <<semName, shmName, bytes, history>>

WriteMap(p) ==
  /\ pc[p] = "w_map" /\ Mappable(p)
  /\ Goto(p, "w_copy1")
  /\ UNCHANGED <<locals, semName, shmName, value, bytes, history>>

WriteMapFails(p) ==
  /\ pc[p] = "w_map" /\ (~Mappable(p) \/ "mmap" \in Faults)
  /\ Post(sem[p])
  /\ Return(p, attached[p])
  /\ UNCHANGED <<semName, shmName, bytes, history>>

(* Mutant: the semaphore is given back before the copy is finished. *)
WriteCopyHeadPosting(p) ==
  /\ pc[p] = "w_copy1"
  /\ bytes' = [bytes EXCEPT ![fd[p]].head = data[p]]
  /\ Post(sem[p])
  /\ Goto(p, "w_copy2")
  /\ UNCHANGED <<locals, semName, shmName, history>>

(* snprintf into the mapping is not atomic: the head, then the tail. *)
WriteCopyHead(p) ==
  /\ pc[p] = "w_copy1"
  /\ bytes' = [bytes EXCEPT ![fd[p]].head = data[p]]
  /\ Goto(p, "w_copy2")
  /\ UNCHANGED <<locals, semName, shmName, value, history>>

WriteCopyTail(p) ==
  /\ pc[p] = "w_copy2"
  /\ bytes' = [bytes EXCEPT ![fd[p]].tail = data[p]]
  /\ Goto(p, "w_post")
  /\ UNCHANGED <<locals, semName, shmName, value, history>>

(* Mutant: no sem_post on success. *)
WritePostForgotten(p) ==
  /\ pc[p] = "w_post"
  /\ Return(p, attached[p])
  /\ UNCHANGED <<semName, shmName, value, bytes, history>>

WritePost(p) ==
  /\ pc[p] = "w_post"
  /\ Post(sem[p])
  /\ Return(p, attached[p])
  /\ UNCHANGED <<semName, shmName, bytes, history>>

-----------------------------------------------------------------------------
(* posix_shm_read takes no semaphore.                                      *)

ReadStart(p) ==
  /\ pc[p] = "idle" /\ attached[p]
  /\ shmName # None             \* else shm_open fails and the call returns false
  /\ fd' = [fd EXCEPT ![p] = shmName]
  /\ Goto(p, "r_map")
  /\ UNCHANGED <<attached, size, first, sem, data, semName, shmName, value, bytes, history>>

ReadMap(p) ==
  /\ pc[p] = "r_map" /\ Mappable(p)
  /\ Goto(p, "r_head")
  /\ UNCHANGED <<locals, semName, shmName, value, bytes, history>>

ReadMapFails(p) ==
  /\ pc[p] = "r_map" /\ (~Mappable(p) \/ "mmap" \in Faults)
  /\ Return(p, attached[p])
  /\ UNCHANGED <<semName, shmName, value, bytes, history>>

ReadCopyHead(p) ==
  /\ pc[p] = "r_head"
  /\ data' = [data EXCEPT ![p] = bytes[fd[p]].head]
  /\ Goto(p, "r_tail")
  /\ UNCHANGED <<attached, size, first, sem, fd, semName, shmName, value, bytes, history>>

(* The string returned is data[p] followed by the tail found now. *)
ReadCopyTail(p) ==
  /\ pc[p] = "r_tail"
  /\ Return(p, attached[p])
  /\ UNCHANGED <<semName, shmName, value, bytes, history>>

-----------------------------------------------------------------------------
(* posix_shm_close                                                         *)

CloseStart(p) ==
  /\ pc[p] = "idle" /\ attached[p]
  /\ semName # None             \* else sem_open fails and the call returns false
  /\ sem' = [sem EXCEPT ![p] = semName]
  /\ Goto(p, "c_wait")
  /\ UNCHANGED <<attached, size, first, fd, data, semName, shmName, value, bytes, history>>

CloseWait(p) == Wait(p, "c_wait", "c_unlink")

(* Mutant: the error path of posix_shm_write, posting. *)
CloseInterruptedPosting(p) ==
  /\ pc[p] = "c_wait" /\ value[sem[p]] = 0 /\ "signal" \in Faults
  /\ Post(sem[p])
  /\ Return(p, attached[p])
  /\ UNCHANGED <<semName, shmName, bytes, history>>

CloseInterrupted(p) ==
  /\ pc[p] = "c_wait" /\ value[sem[p]] = 0 /\ "signal" \in Faults
  /\ Return(p, attached[p])
  /\ UNCHANGED <<semName, shmName, value, bytes, history>>

CloseUnlink(p) ==
  /\ pc[p] = "c_unlink"
  /\ shmName' = None
  /\ Goto(p, "c_post")
  /\ UNCHANGED <<locals, semName, value, bytes, history>>

ClosePost(p) ==
  /\ pc[p] = "c_post"
  /\ Post(sem[p])
  /\ Goto(p, "c_semunlink")
  /\ UNCHANGED <<locals, semName, shmName, bytes, history>>

(* Removes the name, whichever semaphore it stands for by now. *)
CloseSemUnlink(p) ==
  /\ pc[p] = "c_semunlink"
  /\ semName' = None
  /\ sole' = FALSE
  /\ Return(p, FALSE)
  /\ UNCHANGED <<shmName, value, bytes, credit, died>>

-----------------------------------------------------------------------------
(* The process ends: between calls at the end of a request, inside one     *)
(* when it is killed.  The resource destructor frees memory only, so names *)
(* stay and a semaphore that is held stays taken.                          *)
End(p) ==
  /\ attached[p] \/ pc[p] # "idle"
  /\ pc[p] # "idle" => "crash" \in Faults
  /\ died' = died \cup {s \in SemIds : Holds(p, s)}
  /\ sole' = (sole /\ pc[p] # "w_copy2")
  /\ Return(p, FALSE)
  /\ UNCHANGED <<semName, shmName, value, bytes, credit>>

Attach(p) == \/ AttachStart(p) \/ AttachSemCreate(p) \/ AttachShm(p)
             \/ AttachShmCreate(p) \/ AttachTruncate(p) \/ AttachMap(p)
             \/ AttachMapFails(p) \/ AttachPost(p) \/ AttachFails(p)

Write(p) == \/ WriteStart(p) \/ WriteWait(p) \/ WriteInterrupted(p)
            \/ WriteShm(p) \/ WriteShmFails(p) \/ WriteMap(p) \/ WriteMapFails(p)
            \/ WriteCopyHead(p) \/ WriteCopyTail(p) \/ WritePost(p)

Read(p) == \/ ReadStart(p) \/ ReadMap(p) \/ ReadMapFails(p)
           \/ ReadCopyHead(p) \/ ReadCopyTail(p)

Close(p) == \/ CloseStart(p) \/ CloseWait(p) \/ CloseInterrupted(p)
            \/ CloseUnlink(p) \/ ClosePost(p) \/ CloseSemUnlink(p)

Next == \E p \in Procs : Attach(p) \/ Write(p) \/ Read(p) \/ Close(p) \/ End(p)

Spec == Init /\ [][Next]_vars

(* A process inside a call keeps running; nobody has to start a call, and  *)
(* a waiter need not be the one that gets the semaphore.                   *)
Inside(p) == pc[p] # "idle" /\ (Attach(p) \/ Write(p) \/ Read(p) \/ Close(p))
FairSpec == Spec /\ \A p \in Procs : WF_vars(Inside(p))

-----------------------------------------------------------------------------
(* The calls that have a semaphore open, and those that have the memory.   *)
WithSem == Holding \cup {"a_shm", "a_shmcreate", "a_truncate", "a_map", "a_post",
                         "w_wait", "c_wait", "c_semunlink"}
WithFd  == {"a_truncate", "a_map", "w_map", "w_copy1", "w_copy2", "w_post",
            "r_map", "r_head", "r_tail"}
OpenInv ==
  /\ \A p \in Procs : pc[p] \in WithSem => sem[p] \in SemIds
  /\ \A p \in Procs : pc[p] \in WithFd => fd[p] \in ShmIds

(* Where the tokens of a semaphore are: nowhere before it was given one,   *)
(* and one token is in the semaphore or with one holder.                   *)
TokenInv ==
  \A s \in SemIds :
    /\ credit[s] = 0 => value[s] = 0 /\ \A p \in Procs : ~Holds(p, s)
    /\ credit[s] = 1 =>
         /\ value[s] <= 1
         /\ value[s] = 1 => \A p \in Procs : ~Holds(p, s)
         /\ \A p, q \in Procs : Holds(p, s) /\ Holds(q, s) => p = q

IInv == TypeOK /\ OpenInv /\ TokenInv

(* While there has been one semaphore, whoever has a semaphore open has    *)
(* that one, and the copy under way is the only change to its object.      *)
SoleInv ==
  sole => /\ \A p \in Procs : pc[p] \in WithSem => sem[p] = semName
          /\ semName \in SemIds => credit[semName] <= 1
          /\ \A p \in Procs : pc[p] = "w_copy2" => bytes[fd[p]].head = data[p]

(* posix_shm_write and posix_shm_close exclude each other on a semaphore   *)
(* that was given one token: sem_wait .. sem_post of 248-285 and 343-349   *)
(* is a critical section.  Tokens come from an attach that takes itself    *)
(* for the creator (183) and from an interrupted write (253), nowhere else.*)
MutualExclusion ==
  \A s \in SemIds : credit[s] <= 1 =>
    \A p, q \in Procs : Holds(p, s) /\ Holds(q, s) => p = q

(* A token is never lost but with a process that dies: a semaphore that    *)
(* was given one, and no holder of which died, is available or held,       *)
(* whatever error paths of 248-293 and 343-352 its users went through.     *)
TokenKept ==
  \A s \in SemIds : (credit[s] > 0 /\ s \notin died) =>
    value[s] > 0 \/ \E p \in Procs : Holds(p, s)

(* As long as the region has had one semaphore with one token, and no      *)
(* writer died in its copy (280), a memory object holds one whole string   *)
(* but while a writer is in the middle of its copy to it.                  *)
WholeAtRest ==
  sole => \A o \in ShmIds : bytes[o].head # bytes[o].tail =>
            \E p \in Procs : pc[p] = "w_copy2" /\ fd[p] = o

(* posix_shm_write returns true after storing its data (README:15-21): the *)
(* memory holds all of them when it gives the semaphore back.              *)
TrueMeansWritten ==
  \A p \in Procs : pc[p] = "w_post" =>
    bytes[fd[p]].head = data[p] /\ bytes[fd[p]].tail = data[p]

(* Whoever waits for the semaphore sees it become available.               *)
WaitersSeeToken ==
  \A p \in Procs : pc[p] \in {"w_wait", "c_wait"} ~>
    (pc[p] \notin {"w_wait", "c_wait"} \/ value[sem[p]] > 0)
=============================================================================
