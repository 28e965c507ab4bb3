----------------------------- MODULE ObjectStore -----------------------------
(***************************************************************************)
(* The object store of the fulfillment service: the generic DAO and the    *)
(* generic gRPC server (internal/database/dao, internal/servers), the      *)
(* transaction that the interceptor opens around every gRPC call           *)
(* (internal/database), and the row trigger that writes one outbox row to  *)
(* `changes` for every row version (migrations 117 and 118).               *)
(*                                                                         *)
(* A request is one gRPC call, hence one transaction.  It may touch        *)
(* several objects (creating an external IP locks its pool, deleting a     *)
(* subnet locks its network).  Row locks, commit visibility and            *)
(* transaction identifiers are PostgreSQL's, modelled from how the service *)
(* uses them.                                                              *)
(***************************************************************************)
EXTENDS Naturals

CONSTANTS
  Objects,          \* identifiers of the rows of all object tables
  Finalizers,       \* finalizer names
  Requests,         \* gRPC calls, each of which runs in one transaction
  LockedRequests,   \* the calls whose Update message has `lock` set
  Readers,          \* the calls whose client may have read the objects before
  MaxOps,           \* bound: DAO operations per request
  NoRow,            \* the row does not exist
  FirstXid,         \* the next transaction identifier in the initial state
  XidModulus        \* `xmin` keeps a transaction identifier modulo this

ASSUME StoreAssumption ==
  /\ LockedRequests \subseteq Requests /\ Readers \subseteq Requests
  /\ MaxOps \in Nat
  /\ FirstXid \in Nat \ {0}
  /\ XidModulus \in Nat \ {0}

VARIABLES
  rows,      \* rows[o]: the committed row of o, or NoRow
  status,    \* status[r]: what became of the transaction of r
  xid,       \* xid[r]: its transaction identifier, 0 until it locks a row
  held,      \* held[r]: the rows it has locked
  image,     \* image[r][o]: what it has made of a row it holds
  copy,      \* copy[r][o]: what its client read of o before the call
  ops,       \* ops[r]: DAO operations performed
  changes,   \* rows of the outbox table, those of open transactions included
  nextXid,   \* next transaction identifier
  nextId     \* next outbox identifier (uuidv7: increases with time)

storeVars == <<rows, status, xid, held, image, copy, ops, changes, nextXid, nextId>>

(* The columns the properties tell apart.  Every other column (name,       *)
(* labels, data...) changes when `version` does; `born` stands for         *)
(* creation_timestamp and tells an object from a later one created with    *)
(* the same identifier.                                                    *)
Row == [version : Nat, deleting : BOOLEAN, finalizers : SUBSET Finalizers, born : Nat]

MaybeRow == Row \cup {NoRow}

ASSUME NoRowAssumption == NoRow \notin Row

Op == {"INSERT", "UPDATE", "DELETE", "SIGNAL"}

Change == [id : Nat, xmin : Nat, req : Requests, obj : Objects, op : Op, row : Row]

-----------------------------------------------------------------------------
(* Transactions. *)

Working(r) == status[r] = "open" /\ ops[r] < MaxOps

(* A statement that locks a row waits for the transaction that holds it,   *)
(* and then finds the row as that transaction left it.                     *)
Lockable(r, o) == \A s \in Requests \ {r} : o \notin held[s]

(* What a statement of r finds in the row of o (READ COMMITTED). *)
Current(r, o) == IF o \in held[r] THEN image[r][o] ELSE rows[o]

(* A transaction gets its identifier with the first row it locks or writes. *)
XidOf(r) == IF xid[r] = 0 THEN nextXid ELSE xid[r]

LockRow(r, o) ==
  /\ Lockable(r, o)
  /\ xid' = [xid EXCEPT ![r] = XidOf(r)]
  /\ nextXid' = IF xid[r] = 0 THEN nextXid + 1 ELSE nextXid
  /\ held' = [held EXCEPT ![r] = @ \cup {o}]

(* An error of a DAO request is reported to the transaction, which can then *)
(* only be rolled back.                                                     *)
ReportError(r) ==
  /\ status' = [status EXCEPT ![r] = "failed"]
  /\ UNCHANGED <<rows, xid, held, image, copy, ops, changes, nextXid, nextId>>

-----------------------------------------------------------------------------
(* Writing rows. *)

(* Mutant: the trigger reads OLD when a row is updated. *)
EnqueueChangeOld(r, o, op, row, k) ==
  [id |-> nextId + k, xmin |-> XidOf(r) % XidModulus, req |-> r,
   obj |-> o, op |-> op, row |-> IF op = "UPDATE" THEN Current(r, o) ELSE row]

(* The row that trigger enqueue_change adds to the outbox. *)
EnqueueChange(r, o, op, row, k) ==
  [id |-> nextId + k, xmin |-> XidOf(r) % XidModulus, req |-> r,
   obj |-> o, op |-> op, row |-> row]

(* Mutant: a table that has no trigger. *)
WriteRowUntriggered(r, o, op, row) ==
  /\ image' = [image EXCEPT ![r][o] = row]
  /\ UNCHANGED <<changes, nextId>>

WriteRow(r, o, op, row) ==
  /\ image' = [image EXCEPT ![r][o] = row]
  /\ changes' = changes \cup {EnqueueChange(r, o, op, row, 0)}
  /\ nextId' = nextId + 1

(* Mutant: the trigger reads NEW, which is null, when a row is deleted. *)
ArchiveRowNew(r, o, op, row) ==
  /\ image' = [image EXCEPT ![r][o] = NoRow]
  /\ changes' = changes \cup {EnqueueChange(r, o, op, row, 0),
                              EnqueueChange(r, o, "DELETE", NoRow, 1)}
  /\ nextId' = nextId + 2

(* The row is written, copied to the archive table and deleted, in the same *)
(* transaction: the trigger fires for the write and for the deletion.       *)
ArchiveRow(r, o, op, row) ==
  /\ image' = [image EXCEPT ![r][o] = NoRow]
  /\ changes' = changes \cup {EnqueueChange(r, o, op, row, 0),
                              EnqueueChange(r, o, "DELETE", row, 1)}
  /\ nextId' = nextId + 2

(* Mutant: the archive branch is missing. *)
SaveRowUnarchived(r, o, row) == WriteRow(r, o, "UPDATE", row)

(* An object marked for deletion goes away with its last finalizer. *)
SaveRow(r, o, row) ==
  IF row.deleting /\ row.finalizers = {}
    THEN ArchiveRow(r, o, "UPDATE", row)
    ELSE WriteRow(r, o, "UPDATE", row)

Performed(r) == ops' = [ops EXCEPT ![r] = @ + 1]

-----------------------------------------------------------------------------
(* The operations. *)

(* The client reads the object in an earlier call and will send back a     *)
(* modified copy of it.  Only its last read of an object matters.          *)
ClientGet(r, o) ==
  /\ r \in Readers /\ status[r] = "open" /\ ops[r] = 0
  /\ rows[o] # NoRow /\ copy[r][o] = NoRow
  /\ copy' = [copy EXCEPT ![r][o] = rows[o]]
  /\ UNCHANGED <<rows, status, xid, held, image, ops, changes, nextXid, nextId>>

(* CreateRequest.do: an identifier that is in use is an error. *)
Create(r, o, fins) ==
  /\ Working(r)
  /\ Lockable(r, o)
  /\ IF Current(r, o) # NoRow
       THEN ReportError(r)
       ELSE /\ LockRow(r, o)
            /\ WriteRow(r, o, "INSERT",
                 [version |-> 0, deleting |-> FALSE, finalizers |-> fins, born |-> nextId])
            /\ Performed(r)
            /\ UNCHANGED <<rows, status, copy>>

(* GetRequest.do with the lock flag: select ... for update. *)
GetForUpdate(r, o) ==
  /\ Working(r)
  /\ o \notin held[r]
  /\ IF rows[o] = NoRow
       THEN ReportError(r)
       ELSE /\ LockRow(r, o)
            /\ image' = [image EXCEPT ![r][o] = rows[o]]
            /\ Performed(r)
            /\ UNCHANGED <<rows, status, copy, changes, nextId>>

(* The finalizers of the merged object: those of the stored object when    *)
(* the update mask leaves them out, else those of the client's copy with   *)
(* at most one finalizer added or removed.                                 *)
MergedFinalizers(r, o) ==
  {image[r][o].finalizers} \cup
  (IF copy[r][o] = NoRow THEN {} ELSE
     LET mine == copy[r][o].finalizers
     IN  {mine} \cup {mine \cup {f} : f \in Finalizers}
                \cup {mine \ {f} : f \in Finalizers})

(* Mutant: the lock flag is ignored. *)
VersionConflictIgnored(r, o) == FALSE

(* The caller asked for optimistic locking and its version is not the      *)
(* stored one.                                                             *)
VersionConflict(r, o) ==
  /\ r \in LockedRequests
  /\ copy[r][o] # NoRow
  /\ copy[r][o].version # image[r][o].version

(* Mutant: the deletion mark is written from an object that has none. *)
UpdatedRowUnmarked(row, fins) ==
  [version |-> row.version + 1, deleting |-> FALSE, finalizers |-> fins, born |-> row.born]

(* The columns UpdateRequest.do sets; the deletion mark is not one of them. *)
UpdatedRow(row, fins) ==
  [version |-> row.version + 1, deleting |-> row.deleting,
   finalizers |-> fins, born |-> row.born]

(* The rest of updateWithCandidatePreparation, after the locking read.  A  *)
(* version conflict ends the call with nothing written; it is not reported *)
(* to the transaction, which commits.  The object is saved only if the     *)
(* merged one differs from the stored one: `touch` says that something     *)
(* other than the finalizers does.                                         *)
Update(r, o, fins, touch) ==
  /\ Working(r)
  /\ o \in held[r] /\ image[r][o] # NoRow
  /\ fins \in MergedFinalizers(r, o)
  /\ IF VersionConflict(r, o)
       THEN /\ ops' = [ops EXCEPT ![r] = MaxOps]
            /\ UNCHANGED <<image, changes, nextId>>
       ELSE /\ Performed(r)
            /\ IF touch \/ fins # image[r][o].finalizers
                 THEN SaveRow(r, o, UpdatedRow(image[r][o], fins))
                 ELSE UNCHANGED <<image, changes, nextId>>
  /\ UNCHANGED <<rows, status, xid, held, copy, nextXid>>

(* DeleteRequest.do: one statement marks the row (and leaves the version   *)
(* alone); a row with no finalizers is archived at once.                   *)
Delete(r, o) ==
  /\ Working(r)
  /\ IF Current(r, o) = NoRow
       THEN ReportError(r)
       ELSE /\ LockRow(r, o)
            /\ SaveRow(r, o, [Current(r, o) EXCEPT !.deleting = TRUE])
            /\ Performed(r)
            /\ UNCHANGED <<rows, status, copy>>

(* SignalRequest.do: an update that changes no column, flagged so that the *)
(* trigger records it as a signal.                                         *)
Signal(r, o) ==
  /\ Working(r)
  /\ IF Current(r, o) = NoRow
       THEN ReportError(r)
       ELSE /\ LockRow(r, o)
            /\ WriteRow(r, o, "SIGNAL", Current(r, o))
            /\ Performed(r)
            /\ UNCHANGED <<rows, status, copy>>

(* A statement the database refuses for a reason the model does not track: *)
(* a reference to the object (InUse), a duplicate name, a deadlock.        *)
Refuse(r) ==
  /\ Working(r)
  /\ ReportError(r)

(* The end of a transaction frees its rows. *)
Release(r) ==
  /\ held' = [held EXCEPT ![r] = {}]
  /\ image' = [image EXCEPT ![r] = [o \in Objects |-> NoRow]]

(* The interceptor ends the transaction: commit if no error was reported. *)
Commit(r) ==
  /\ status[r] = "open"
  /\ status' = [status EXCEPT ![r] = "committed"]
  /\ rows' = [o \in Objects |-> Current(r, o)]
  /\ Release(r)
  /\ UNCHANGED <<xid, copy, ops, changes, nextXid, nextId>>

(* Roll back after a reported error, or because the server died or lost    *)
(* its connection.                                                         *)
Rollback(r) ==
  /\ status[r] \in {"open", "failed"}
  /\ status' = [status EXCEPT ![r] = "rolledback"]
  /\ Release(r)
  /\ changes' = {c \in changes : c.req # r}
  /\ UNCHANGED <<rows, xid, copy, ops, nextXid, nextId>>

-----------------------------------------------------------------------------
(* A row the program can have stored before the first modelled step. *)
SettledRow ==
  {row \in [version : {0}, deleting : BOOLEAN, finalizers : SUBSET Finalizers, born : {0}] :
     row.deleting => row.finalizers # {}}

StoreInit ==
  /\ rows \in [Objects -> SettledRow \cup {NoRow}]
  /\ status = [r \in Requests |-> "open"]
  /\ xid = [r \in Requests |-> 0]
  /\ held = [r \in Requests |-> {}]
  /\ image = [r \in Requests |-> [o \in Objects |-> NoRow]]
  /\ copy = [r \in Requests |-> [o \in Objects |-> NoRow]]
  /\ ops = [r \in Requests |-> 0]
  /\ changes = {}
  /\ nextXid = FirstXid
  /\ nextId = 1

RequestStep(r, o) ==
  \/ ClientGet(r, o)
  \/ \E fins \in SUBSET Finalizers : Create(r, o, fins)
  \/ GetForUpdate(r, o)
  \/ \E fins \in SUBSET Finalizers, touch \in BOOLEAN : Update(r, o, fins, touch)
  \/ Delete(r, o)
  \/ Signal(r, o)

StoreNext ==
  \E r \in Requests :
    \/ \E o \in Objects : RequestStep(r, o)
    \/ Refuse(r)
    \/ Commit(r)
    \/ Rollback(r)

StoreSpec == StoreInit /\ [][StoreNext]_storeVars

-----------------------------------------------------------------------------
(* Properties. *)

(* The type invariant. *)
StoreTypeOK ==
  /\ rows \in [Objects -> MaybeRow]
  /\ status \in [Requests -> {"open", "failed", "committed", "rolledback"}]
  /\ xid \in [Requests -> Nat]
  /\ held \in [Requests -> SUBSET Objects]
  /\ image \in [Requests -> [Objects -> MaybeRow]]
  /\ copy \in [Requests -> [Objects -> MaybeRow]]
  /\ ops \in [Requests -> Nat]
  /\ changes \subseteq Change
  /\ nextXid \in Nat
  /\ nextId \in Nat

(* No committed row is marked for deletion and has no finalizer left: such *)
(* an object would never be archived, because no controller has a reason   *)
(* to update it again (the archive branches of UpdateRequest.do and        *)
(* DeleteRequest.do, whichever of the two comes last).                     *)
NoZombie ==
  \A o \in Objects : rows[o] # NoRow /\ rows[o].deleting => rows[o].finalizers # {}

IsCommitted(c) == status[c.req] = "committed"

(* The row as a change leaves it. *)
Content(c) == IF c.op = "DELETE" THEN NoRow ELSE c.row

(* The outbox tells the truth: the committed change of an object with the  *)
(* largest identifier carries exactly the committed row, or says that      *)
(* there is none.  A consumer that applies the changes in identifier order *)
(* ends with the contents of the table, although identifiers are taken     *)
(* long before the transaction commits (enqueue_change under the row lock).*)
OutboxMatchesRows ==
  \A c \in changes :
    /\ IsCommitted(c)
    /\ \A d \in changes : IsCommitted(d) /\ d.obj = c.obj => d.id <= c.id
    => rows[c.obj] = Content(c)

(* No committed row changes without a change row of the same transaction:  *)
(* what the trigger of migration 117 is for.                               *)
EveryWriteIsEnqueued ==
  [][\A o \in Objects : rows'[o] # rows[o] =>
       \E c \in changes : c.obj = o /\ ~IsCommitted(c) /\ IsCommitted(c)']_storeVars

(* An update with the lock flag builds on the finalizers its client saw:   *)
(* it never restores one that was removed, nor drops one that was added,   *)
(* since the client read this object, however the requests interleave.     *)
(* This is what finalizers.PrepareTenant relies on ("missing barriers      *)
(* represent completed work and must not be restored").                    *)
LockedUpdateSeesFinalizers ==
  [][\A c \in changes' \ changes :
       LET mine == copy[c.req][c.obj]
           stored == image[c.req][c.obj]
       IN  /\ c.req \in LockedRequests /\ c.op = "UPDATE"
           /\ mine # NoRow /\ mine.born = c.row.born
           /\ c.obj \in held[c.req] /\ stored # NoRow
           /\ c.row.version # stored.version
           => mine.finalizers = stored.finalizers]_storeVars

(* Deletion is one way: a committed deletion mark disappears only together *)
(* with the object, whatever stale copy a client writes back.              *)
DeletionSticks ==
  [][\A o \in Objects :
       /\ rows[o] # NoRow /\ rows[o].deleting
       /\ rows'[o] # NoRow /\ rows'[o].born = rows[o].born
       => rows'[o].deleting]_storeVars

-----------------------------------------------------------------------------
(* The inductive invariant. *)

Active(r) == status[r] \in {"open", "failed"}

(* A row is locked by one transaction at a time, and only by a live one. *)
RowLocks ==
  /\ \A r, s \in Requests : r # s => held[r] \cap held[s] = {}
  /\ \A r \in Requests : ~Active(r) => held[r] = {}

(* Outbox identifiers are unique and already handed out. *)
FreshIds ==
  /\ \A c \in changes : c.id < nextId
  /\ \A c, d \in changes : c.id = d.id => c = d

(* The outbox rows of a live transaction are about rows it holds, and are  *)
(* newer than every committed one about the same object.                   *)
PendingChanges ==
  \A c \in changes :
    /\ status[c.req] # "rolledback"
    /\ Active(c.req) =>
         /\ c.obj \in held[c.req]
         /\ \A d \in changes : d.obj = c.obj /\ IsCommitted(d) => d.id < c.id

(* The private image of a row is what the newest outbox row of its         *)
(* transaction says, or else the committed row.                            *)
ImageIsEnqueued ==
  /\ \A c \in changes :
       /\ Active(c.req)
       /\ \A d \in changes : d.obj = c.obj /\ d.req = c.req => d.id <= c.id
       => image[c.req][c.obj] = Content(c)
  /\ \A r \in Requests : \A o \in held[r] :
       (\A c \in changes : ~(c.req = r /\ c.obj = o)) => image[r][o] = rows[o]

(* No image of a row is a zombie either. *)
NoZombieImage ==
  \A r \in Requests, o \in Objects :
    image[r][o] # NoRow /\ image[r][o].deleting => image[r][o].finalizers # {}

StoreInv ==
  /\ StoreTypeOK
  /\ RowLocks
  /\ FreshIds
  /\ PendingChanges
  /\ ImageIsEnqueued
  /\ NoZombie
  /\ NoZombieImage
  /\ OutboxMatchesRows
=============================================================================
