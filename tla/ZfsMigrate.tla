----------------------------- MODULE ZfsMigrate -----------------------------
(***************************************************************************)
(* php-zfs: zfs_send() on one host and zfs_recv() on another copy, or move,*)
(* a dataset with its children over one TCP connection.                    *)
(*                                                                         *)
(* The source takes a recursive snapshot "migrate", connects, streams it,  *)
(* destroys the snapshot and, for a move, the datasets.  The receiver      *)
(* listens, stores the stream and destroys its copy of the snapshot.       *)
(* Nothing travels back: the sender learns only what its writes return.    *)
(*                                                                         *)
(* Contents are abstracted to a version per dataset.  Snapshots, streams   *)
(* and what receive does with them are libzfs and the kernel: a recursive  *)
(* snapshot is atomic, a dataset is replaced when all of its part of the   *)
(* stream has arrived, and a dataset with snapshots is not replaced.       *)
(***************************************************************************)
EXTENDS Integers, FiniteSets

CONSTANTS
  Datasets,    \* the dataset and its children
  Root,        \* the dataset itself
  MaxVersion,  \* bound on writes to one dataset
  Buffer,      \* records the sockets hold between the two hosts
  None,
  Faults,      \* what may go wrong, see FaultKinds
  Moves,       \* values of $move the callers pass
  Orderly,     \* zfs_recv() is waiting before zfs_send() is called, and the
               \* datasets are not written during the call
  LongLived    \* the receiving PHP process serves other requests afterwards

FaultKinds == {"snapshot", "link", "send_crash", "recv_crash", "receive", "destroy"}

Versions == 0 .. MaxVersion

ASSUME ConstantsAssumption ==
  /\ Root \in Datasets
  /\ MaxVersion \in Nat
  /\ Buffer \in Nat \ {0}
  /\ None \notin Versions /\ None \notin [Datasets -> Versions \cup {None}]
  /\ Faults \subseteq FaultKinds
  /\ Moves \subseteq BOOLEAN
  /\ Orderly \in BOOLEAN /\ LongLived \in BOOLEAN

VARIABLES
  written,  \* last version written to each dataset by the source's users
  source,   \* datasets that exist at the source
  snap,     \* the snapshot "migrate" at the source: versions, or None
  spc, move, failed,        \* zfs_send: next step, $move, err
  stream,   \* the versions being sent
  sent,     \* datasets whose records were written to the socket
  sconn,    \* the sender's end of its connection
  rpc, rfailed,             \* zfs_recv: next step, err
  rfd,      \* the receiving process has the accepted socket open
  inbox,    \* records that reached the receiving host and were not read
  header,   \* the tree announced by the stream being received, or None
  stored,   \* datasets of it that were stored
  eof,      \* nothing more arrives at the receiver's end
  target,   \* version of each dataset at the receiver, None if absent
  tsnap,    \* datasets with a snapshot "migrate" at the receiver
  died,     \* history: a receiver died, and none destroyed its snapshot since
  cuts      \* history: every state the source's datasets went through

source_vars == <<written, source, snap, cuts>>
send_vars   == <<spc, move, failed, stream, sent>>
conn_vars   == <<sconn, inbox, eof>>
recv_vars   == <<rpc, rfailed, rfd, header, stored, target, tsnap, died>>
vars == <<written, source, snap, spc, move, failed, stream, sent, sconn, rpc,
          rfailed, rfd, inbox, header, stored, eof, target, tsnap, died, cuts>>

Trees == [Datasets -> Versions \cup {None}]
Empty == [d \in Datasets |-> None]

TypeOK ==
  /\ written \in [Datasets -> Versions]
  /\ source \subseteq Datasets
  /\ snap \in Trees \cup {None}
  /\ spc \in {"idle", "snapshot", "connect", "send", "rollback", "remove"}
  /\ move \in BOOLEAN /\ failed \in BOOLEAN
  /\ stream \in Trees
  /\ sent \subseteq Datasets
  /\ sconn \in {"none", "served", "backlog", "reset"}
  /\ rpc \in {"idle", "accept", "receive", "rollback", "return"}
  /\ rfailed \in BOOLEAN /\ rfd \in BOOLEAN
  /\ inbox \in Trees
  /\ header \in Trees \cup {None}
  /\ stored \subseteq Datasets
  /\ eof \in BOOLEAN
  /\ target \in Trees
  /\ tsnap \subseteq Datasets
  /\ died \in BOOLEAN
  /\ cuts \subseteq Trees

Init ==
  /\ written = [d \in Datasets |-> 0]
  /\ source = Datasets
  /\ snap = None
  /\ spc = "idle" /\ move = FALSE /\ failed = FALSE
  /\ stream = Empty /\ sent = {}
  /\ sconn = "none"
  /\ rpc = "idle" /\ rfailed = FALSE /\ rfd = FALSE
  /\ inbox = Empty /\ header = None /\ stored = {} /\ eof = FALSE
  /\ target = Empty /\ tsnap = {}
  /\ died = FALSE
  /\ cuts = {written}

Present(tree) == {d \in Datasets : tree[d] # None}

(* The versions of the datasets that exist at the source. *)
Contents == [d \in Datasets |-> IF d \in source THEN written[d] ELSE None]

-----------------------------------------------------------------------------
(* The users of the source host write to mounted datasets. *)
UserWrite(d) ==
  /\ d \in source /\ written[d] < MaxVersion
  /\ Orderly => spc = "idle"
  /\ written' = [written EXCEPT ![d] = @ + 1]
  /\ cuts' = cuts \cup {[Contents EXCEPT ![d] = written[d] + 1]}
  /\ UNCHANGED <<source, snap, send_vars, conn_vars, recv_vars>>

-----------------------------------------------------------------------------
(* zfs_send                                                                *)

SendStart ==
  /\ spc = "idle" /\ Root \in source
  /\ Orderly => rpc = "accept"
  /\ move' \in Moves
  /\ spc' = "snapshot"
  /\ failed' = FALSE /\ stream' = Empty /\ sent' = {}
  /\ UNCHANGED <<source_vars, conn_vars, recv_vars>>

(* A snapshot that exists already makes zfs_snapshot_nvl fail; its result  *)
(* is not looked at.                                                       *)
SendSnapshot ==
  /\ spc = "snapshot"
  /\ \/ snap = None /\ snap' = Contents
     \/ (snap # None \/ "snapshot" \in Faults) /\ UNCHANGED snap
  /\ spc' = "connect"
  /\ UNCHANGED <<written, source, cuts, move, failed, stream, sent,
                 conn_vars, recv_vars>>

(* Nobody listens, or the network is down: return without any clean-up. *)
SendRefused ==
  /\ spc = "connect"
  /\ rpc \notin {"accept", "receive"} \/ "link" \in Faults
  /\ spc' = "idle"
  /\ UNCHANGED <<source_vars, move, failed, stream, sent, conn_vars, recv_vars>>

(* Mutant: a snapshot that is not there is streamed. *)
SendConnectUnchecked ==
  /\ spc = "connect" /\ rpc = "accept"
  /\ spc' = "send"
  /\ stream' = snap /\ failed' = FALSE
  /\ sconn' = "served"
  /\ rpc' = "receive" /\ rfd' = TRUE /\ rfailed' = FALSE
  /\ header' = snap /\ stored' = {} /\ inbox' = Empty /\ eof' = FALSE
  /\ UNCHANGED <<source_vars, move, sent, target, tsnap, died>>

(* listen(sockfd, 1): while a connection is served another one waits in    *)
(* the queue, connected as far as its sender can tell.                     *)
SendConnect ==
  /\ spc = "connect" /\ rpc \in {"accept", "receive"}
  /\ spc' = "send"
  /\ stream' = IF snap = None THEN Empty ELSE snap
  /\ failed' = (snap = None)          \* zfs_send of a snapshot that is not there
  /\ IF rpc = "accept"
     THEN /\ sconn' = "served"
          /\ rpc' = "receive" /\ rfd' = TRUE
          /\ rfailed' = FALSE
          /\ header' = snap /\ stored' = {}
          /\ inbox' = Empty /\ eof' = FALSE
     ELSE /\ sconn' = "backlog"
          /\ UNCHANGED <<rpc, rfd, rfailed, header, stored, inbox, eof>>
  /\ UNCHANGED <<source_vars, move, sent, target, tsnap, died>>

Unsent == Present(stream) \ sent

(* Records go out parent first, as long as the sockets have room. *)
SendRecord(d) ==
  /\ spc = "send" /\ ~failed /\ sconn \in {"served", "backlog"}
  /\ d \in Unsent /\ (d = Root \/ Root \notin Unsent)
  /\ Cardinality(IF sconn = "served" THEN Present(inbox) ELSE sent) < Buffer
  /\ sent' = sent \cup {d}
  /\ inbox' = IF sconn = "served" THEN [inbox EXCEPT ![d] = stream[d]] ELSE inbox
  /\ UNCHANGED <<source_vars, spc, move, failed, stream, sconn, eof, recv_vars>>

SendReset ==
  /\ spc = "send" /\ sconn = "reset" /\ Unsent # {}
  /\ failed' = TRUE
  /\ UNCHANGED <<source_vars, spc, move, stream, sent, conn_vars, recv_vars>>

(* Mutant: the socket is closed before the whole stream went out. *)
SendCloseEarly ==
  /\ spc = "send"
  /\ spc' = "rollback"
  /\ sconn' = "none"
  /\ eof' = (eof \/ sconn = "served")
  /\ UNCHANGED <<source_vars, move, failed, stream, sent, inbox, recv_vars>>

(* close(s) *)
SendClose ==
  /\ spc = "send" /\ (failed \/ Unsent = {})
  /\ spc' = "rollback"
  /\ sconn' = "none"
  /\ eof' = (eof \/ sconn = "served")
  /\ UNCHANGED <<source_vars, move, failed, stream, sent, inbox, recv_vars>>

(* zfs_snapshot_rb(zname, "migrate", 1), whatever zfs_send returned *)
SendRollback ==
  /\ spc = "rollback"
  /\ snap' = None
  /\ spc' = IF move THEN "remove" ELSE "idle"
  /\ UNCHANGED <<written, source, cuts, move, failed, stream, sent,
                 conn_vars, recv_vars>>

(* zfs_dataset_rb(zname, 1), whatever zfs_send returned; children first,   *)
(* and it may stop on the way, its result is not looked at.                *)
SendRemove ==
  /\ spc = "remove"
  /\ \E kept \in SUBSET source :
       /\ kept # {} => Root \in kept /\ "destroy" \in Faults
       /\ source' = kept
       /\ cuts' = IF kept = {} THEN cuts ELSE
            cuts \cup {[d \in Datasets |-> IF d \in kept THEN written[d] ELSE None]}
  /\ spc' = "idle"
  /\ UNCHANGED <<written, snap, move, failed, stream, sent,
                 conn_vars, recv_vars>>

(* The sending process dies: its socket is closed, its snapshot stays. *)
SendCrash ==
  /\ spc # "idle" /\ "send_crash" \in Faults
  /\ spc' = "idle"
  /\ sconn' = "none"
  /\ eof' = (eof \/ sconn = "served")
  /\ UNCHANGED <<source_vars, move, failed, stream, sent, inbox, recv_vars>>

-----------------------------------------------------------------------------
(* zfs_recv                                                                *)

(* bind() fails as long as the process has the last connection open: only  *)
(* the listening socket is closed on return.                               *)
RecvListen ==
  /\ rpc = "idle" /\ ~rfd
  /\ rpc' = "accept"
  /\ UNCHANGED <<source_vars, send_vars, conn_vars, rfailed, rfd, header, stored,
                 target, tsnap, died>>

Readable == {d \in Present(inbox) : d = Root \/ inbox[Root] = None}

(* flags.force: an existing dataset is replaced. *)
RecvRecord(d) ==
  /\ rpc = "receive" /\ d \in Readable /\ d \notin tsnap
  /\ target' = [target EXCEPT ![d] = inbox[d]]
  /\ tsnap' = tsnap \cup {d}
  /\ stored' = stored \cup {d}
  /\ inbox' = [inbox EXCEPT ![d] = None]
  /\ UNCHANGED <<source_vars, send_vars, sconn, eof, rpc, rfailed, rfd, header, died>>

StreamComplete == header # None /\ stored = Present(header)

(* Mutant: the result of zfs_receive is not returned. *)
RecvEndUnchecked ==
  /\ rpc = "receive"
  /\ \/ StreamComplete
     \/ eof /\ Present(inbox) = {}
     \/ Readable \cap tsnap # {}
  /\ rpc' = "rollback"
  /\ sconn' = IF sconn = "backlog" THEN "reset" ELSE sconn
  /\ UNCHANGED <<source_vars, send_vars, inbox, eof, rfailed, rfd, header, stored,
                 target, tsnap, died>>

(* Mutant: the end of the connection is taken for the end of the stream. *)
RecvEndOnEof ==
  /\ rpc = "receive" /\ (StreamComplete \/ eof)
  /\ rfailed' = ~StreamComplete
  /\ rpc' = "rollback"
  /\ sconn' = IF sconn = "backlog" THEN "reset" ELSE sconn
  /\ UNCHANGED <<source_vars, send_vars, inbox, eof, rfd, header, stored, target, tsnap, died>>

(* zfs_receive returns; the listening socket is closed, and with it the    *)
(* connections nobody accepted.                                            *)
RecvEnd ==
  /\ rpc = "receive"
  /\ \/ StreamComplete /\ UNCHANGED rfailed
     \/ /\ ~StreamComplete /\ rfailed' = TRUE
        /\ \/ eof /\ Present(inbox) = {}
           \/ Readable \cap tsnap # {}
           \/ "receive" \in Faults
  /\ rpc' = "rollback"
  /\ sconn' = IF sconn = "backlog" THEN "reset" ELSE sconn
  /\ UNCHANGED <<source_vars, send_vars, inbox, eof, rfd, header, stored, target, tsnap, died>>

(* Mutant: the snapshot is destroyed after a successful receive only. *)
RecvRollbackIfReceived ==
  /\ rpc = "rollback"
  /\ tsnap' = (IF rfailed THEN tsnap ELSE {}) /\ died' = FALSE
  /\ rpc' = "return"
  /\ UNCHANGED <<source_vars, send_vars, conn_vars, rfailed, rfd, header, stored, target>>

(* zfs_snapshot_rb(zname, "migrate", 1), whatever zfs_receive returned *)
RecvRollback ==
  /\ rpc = "rollback"
  /\ tsnap' = {} /\ died' = FALSE
  /\ rpc' = "return"
  /\ UNCHANGED <<source_vars, send_vars, conn_vars, rfailed, rfd, header, stored, target>>

RecvReturn ==
  /\ rpc = "return"
  /\ rpc' = "idle"
  /\ UNCHANGED <<source_vars, send_vars, conn_vars, rfailed, rfd, header, stored,
                 target, tsnap, died>>

(* Mutant: the accepted connection outlives the process. *)
RecvExitConnected ==
  /\ rpc = "idle" /\ rfd
  /\ rfd' = FALSE
  /\ UNCHANGED <<source_vars, send_vars, conn_vars, rpc, rfailed, header, stored, target, tsnap, died>>

(* The receiving process ends, after the call or in the middle of it. *)
RecvExit ==
  /\ IF rpc = "idle" THEN rfd ELSE "recv_crash" \in Faults
  /\ died' = (died \/ rpc # "idle")
  /\ rpc' = "idle"
  /\ rfd' = FALSE
  /\ sconn' = IF sconn \in {"served", "backlog"} THEN "reset" ELSE sconn
  /\ inbox' = Empty /\ eof' = TRUE
  /\ UNCHANGED <<source_vars, send_vars, rfailed, header, stored, target, tsnap>>

(* The connection breaks: what was not read is lost. *)
LinkBreaks ==
  /\ sconn = "served" /\ "link" \in Faults
  /\ sconn' = "reset"
  /\ inbox' = Empty /\ eof' = TRUE
  /\ UNCHANGED <<source_vars, send_vars, recv_vars>>

-----------------------------------------------------------------------------
Send == \/ SendSnapshot \/ SendRefused \/ SendConnect
        \/ (\E d \in Datasets : SendRecord(d))
        \/ SendReset \/ SendClose \/ SendRollback \/ SendRemove

Receive == \/ (\E d \in Datasets : RecvRecord(d))
           \/ RecvEnd \/ RecvRollback \/ RecvReturn

Next == \/ \E d \in Datasets : UserWrite(d)
        \/ SendStart \/ Send \/ SendCrash
        \/ RecvListen \/ Receive \/ RecvExit
        \/ LinkBreaks

Spec == Init /\ [][Next]_vars

(* A call that was made goes on while its process lives.  Nobody has to    *)
(* make a call; a receiving process that serves nothing else ends.         *)
FairSpec == /\ Spec /\ WF_vars(Send) /\ WF_vars(Receive)
            /\ ~LongLived => WF_vars(rpc = "idle" /\ RecvExit)

-----------------------------------------------------------------------------
(* zfs_recv returns true only with the tree as it was at one instant: all  *)
(* datasets of one snapshot, whatever earlier attempts left behind (2378). *)
RecvConsistent ==
  (rpc = "return" /\ ~rfailed) =>
    \E c \in cuts : Root \in Present(c) /\ \A d \in Present(c) : target[d] = c[d]

(* Unless it dies, zfs_recv leaves no snapshot behind that would make the  *)
(* next one refuse to replace the dataset: whatever zfs_receive returned,  *)
(* and whatever an earlier receiver left, 2381 destroys it.                *)
TargetClean == (rpc \in {"idle", "accept"} /\ ~died) => tsnap = {}

(* With both hosts and the link up, the receiver called first and nobody   *)
(* writing meanwhile, the last version of every dataset is at the source,  *)
(* at the target, or on its way to a receiver that will store it, even     *)
(* though the source is destroyed without waiting for an answer (2258-60). *)
OnItsWay(d) == rpc = "receive" /\ inbox[d] = written[d] /\ d \notin tsnap
MoveSafe == \A d \in Datasets :
              d \in source \/ target[d] = written[d] \/ OnItsWay(d)

(* The strengthenings these two rest on.  For the first, in any run: what  *)
(* is snapshotted, announced, under way and stored is one state of the     *)
(* source's tree.                                                          *)
TreeInv ==
  /\ source # {} => Root \in source /\ Contents \in cuts
  /\ spc = "snapshot" => Root \in source
  /\ \A c \in cuts : Root \in Present(c)
  /\ snap \in cuts \cup {None}
  /\ header \in cuts \cup {None}
  /\ (sconn = "served" /\ ~failed) => stream = header
  /\ sconn = "served" => spc = "send"
  /\ \A d \in Present(inbox) : header # None /\ inbox[d] = header[d]
  /\ \A d \in stored : header # None /\ target[d] = header[d]
  /\ (rpc \in {"rollback", "return"} /\ ~rfailed) => StreamComplete

(* For the second, where nothing fails: from the connection on, the stream *)
(* is the current contents, and each dataset is stored, with the receiver, *)
(* or not yet written to a connection the receiver serves.                 *)
Underway == spc \in {"send", "rollback", "remove"} \/ source = {}
Flows(d) == \/ d \in stored
            \/ rpc = "receive" /\ inbox[d] = written[d] /\ d \notin tsnap
            \/ rpc = "receive" /\ spc = "send" /\ sconn = "served" /\ d \notin sent
MoveInv ==
  /\ source \in {{}, Datasets}
  /\ source = {} => spc = "idle"
  /\ spc \in {"idle", "snapshot", "remove"} => snap = None
  /\ spc \in {"snapshot", "connect"} => rpc = "accept" /\ sent = {}
  /\ spc = "connect" => snap = written
  /\ Underway => header = written /\ \A d \in Datasets : Flows(d)
  /\ spc = "send" =>
       /\ ~failed /\ stream = written /\ stored \subseteq sent
       /\ sconn = "served" \/ sent = Datasets
       /\ (rpc = "receive") => ~eof /\ Present(inbox) \subseteq sent
  /\ rpc = "receive" => tsnap = stored /\ \A d \in stored : inbox[d] = None
  /\ rpc \in {"idle", "accept", "return"} => tsnap = {}

(* ... and a dataset that was moved does arrive. *)
MoveArrives == (source = {}) ~> (\A d \in Datasets : target[d] = written[d])

(* A send that was connected returns. *)
SendReturns == (spc = "send") ~> (spc = "idle")

(* $move: the dataset is copied or moved (README:321), and false is        *)
(* returned for a failure (README:323): a send that fails has not moved    *)
(* it, so the source keeps it.                                             *)
FailedMoveKeepsSource == (failed /\ spc = "idle") => source = Datasets
=============================================================================
