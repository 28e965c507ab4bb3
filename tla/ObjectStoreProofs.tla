-------------------------- MODULE ObjectStoreProofs --------------------------
(***************************************************************************)
(* Proofs about ObjectStore, for any number of objects, requests,          *)
(* finalizers and operations.                                              *)
(***************************************************************************)
EXTENDS ObjectStore, TLAPS

(* What a merged object is made of. *)
LEMMA MergedType ==
  ASSUME StoreTypeOK, NEW r \in Requests, NEW o \in Objects, image[r][o] # NoRow,
         NEW fins \in MergedFinalizers(r, o)
  PROVE  fins \in SUBSET Finalizers
<1>1. image[r][o] \in Row
  BY DEF StoreTypeOK, MaybeRow
<1>2. copy[r][o] # NoRow => copy[r][o] \in Row
  BY DEF StoreTypeOK, MaybeRow
<1>3. CASE copy[r][o] = NoRow
  BY <1>1, <1>3 DEF MergedFinalizers, Row
<1>4. CASE copy[r][o] # NoRow
  BY <1>1, <1>2, <1>4 DEF MergedFinalizers, Row
<1> QED BY <1>3, <1>4

(* What a statement finds is a row or nothing. *)
LEMMA CurrentType ==
  ASSUME StoreTypeOK, NEW r \in Requests, NEW o \in Objects
  PROVE  Current(r, o) \in MaybeRow
BY DEF StoreTypeOK, Current

(* The outbox rows that one write adds are changes. *)
LEMMA EnqueueType ==
  ASSUME StoreTypeOK, NEW r \in Requests, NEW o \in Objects, NEW op \in Op,
         NEW row \in Row, NEW k \in Nat
  PROVE  EnqueueChange(r, o, op, row, k) \in Change
<1>1. XidOf(r) \in Nat
  BY DEF StoreTypeOK, XidOf
<1>2. XidOf(r) % XidModulus \in Nat
  BY <1>1, StoreAssumption
<1> QED BY <1>2 DEF StoreTypeOK, EnqueueChange, Change

(* Locking a row keeps the types. *)
LEMMA LockType ==
  ASSUME StoreTypeOK, NEW r \in Requests, NEW o \in Objects, LockRow(r, o)
  PROVE  /\ xid' \in [Requests -> Nat]
         /\ nextXid' \in Nat
         /\ held' \in [Requests -> SUBSET Objects]
BY DEF StoreTypeOK, LockRow, XidOf

(* Writing a row, with or without archiving it, keeps the types. *)
LEMMA WriteType ==
  ASSUME StoreTypeOK, NEW r \in Requests, NEW o \in Objects, NEW op \in Op, NEW row \in Row,
         WriteRow(r, o, op, row) \/ ArchiveRow(r, o, op, row)
  PROVE  /\ image' \in [Requests -> [Objects -> MaybeRow]]
         /\ changes' \subseteq Change
         /\ nextId' \in Nat
<1>1. EnqueueChange(r, o, op, row, 0) \in Change
  BY EnqueueType
<1>2. EnqueueChange(r, o, "DELETE", row, 1) \in Change
  BY EnqueueType DEF Op
<1>3. CASE WriteRow(r, o, op, row)
  BY <1>1, <1>3 DEF WriteRow, StoreTypeOK, MaybeRow
<1>4. CASE ArchiveRow(r, o, op, row)
  BY <1>1, <1>2, <1>4 DEF ArchiveRow, StoreTypeOK, MaybeRow
<1> QED BY <1>3, <1>4

(* Every step keeps the types. *)
LEMMA TypeStep == StoreTypeOK /\ [StoreNext]_storeVars => StoreTypeOK'
<1> SUFFICES ASSUME StoreTypeOK, [StoreNext]_storeVars PROVE StoreTypeOK'
  OBVIOUS
<1>1. CASE UNCHANGED storeVars
  BY <1>1 DEF StoreTypeOK, storeVars
<1>2. ASSUME NEW r \in Requests, ReportError(r) PROVE StoreTypeOK'
  BY <1>2 DEF ReportError, StoreTypeOK
<1>3. ASSUME NEW r \in Requests, NEW o \in Objects, ClientGet(r, o) PROVE StoreTypeOK'
  BY <1>3 DEF ClientGet, StoreTypeOK
<1>4. ASSUME NEW r \in Requests, NEW o \in Objects, NEW fins \in SUBSET Finalizers,
             Create(r, o, fins)
      PROVE  StoreTypeOK'
  <2> DEFINE row == [version |-> 0, deleting |-> FALSE, finalizers |-> fins, born |-> nextId]
  <2>1. row \in Row
    BY DEF Row, StoreTypeOK
  <2>2. CASE Current(r, o) # NoRow
    BY <1>2, <1>4, <2>2 DEF Create
  <2>3. CASE Current(r, o) = NoRow
    <3>1. LockRow(r, o) /\ WriteRow(r, o, "INSERT", row) /\ Performed(r)
          /\ UNCHANGED <<rows, status, copy>>
      BY <1>4, <2>3 DEF Create
    <3>2. image' \in [Requests -> [Objects -> MaybeRow]] /\ changes' \subseteq Change
          /\ nextId' \in Nat
      <4> HIDE DEF row
      <4> QED BY <2>1, <3>1, WriteType DEF Op
    <3>3. ops' \in [Requests -> Nat]
      BY <3>1 DEF Performed, StoreTypeOK
    <3> QED BY <3>1, <3>2, <3>3, LockType DEF StoreTypeOK
  <2> QED BY <2>2, <2>3
<1>5. ASSUME NEW r \in Requests, NEW o \in Objects, GetForUpdate(r, o) PROVE StoreTypeOK'
  <2>1. CASE rows[o] = NoRow
    BY <1>2, <1>5, <2>1 DEF GetForUpdate
  <2>2. CASE rows[o] # NoRow
    <3>1. LockRow(r, o) /\ Performed(r) /\ image' = [image EXCEPT ![r][o] = rows[o]]
          /\ UNCHANGED <<rows, status, copy, changes, nextId>>
      BY <1>5, <2>2 DEF GetForUpdate
    <3>2. ops' \in [Requests -> Nat]
      BY <3>1 DEF Performed, StoreTypeOK
    <3>3. image' \in [Requests -> [Objects -> MaybeRow]]
      BY <3>1 DEF StoreTypeOK
    <3> QED BY <3>1, <3>2, <3>3, LockType DEF StoreTypeOK
  <2> QED BY <2>1, <2>2
<1>6. ASSUME NEW r \in Requests, NEW o \in Objects, NEW fins \in SUBSET Finalizers,
             NEW touch \in BOOLEAN, Update(r, o, fins, touch)
      PROVE  StoreTypeOK'
  <2> DEFINE row == UpdatedRow(image[r][o], fins)
  <2>1. row \in Row
    <3>1. image[r][o] \in Row
      BY <1>6 DEF Update, StoreTypeOK, MaybeRow
    <3> QED BY <3>1 DEF UpdatedRow, Row
  <2>2. ops' \in [Requests -> Nat]
    <3>1. ops' = [ops EXCEPT ![r] = MaxOps] \/ Performed(r)
      BY <1>6 DEF Update
    <3>2. ops \in [Requests -> Nat] /\ MaxOps \in Nat
      BY StoreAssumption DEF StoreTypeOK
    <3>3. CASE ops' = [ops EXCEPT ![r] = MaxOps]
      BY <3>2, <3>3
    <3>4. CASE Performed(r)
      BY <3>2, <3>4 DEF Performed
    <3> QED BY <3>1, <3>3, <3>4
  <2>3. UNCHANGED <<rows, status, xid, held, copy, nextXid>>
    BY <1>6 DEF Update
  <2>4. UNCHANGED <<image, changes, nextId>> \/ SaveRow(r, o, row)
    BY <1>6 DEF Update
  <2>5. image' \in [Requests -> [Objects -> MaybeRow]] /\ changes' \subseteq Change
        /\ nextId' \in Nat
    <3> HIDE DEF row
    <3>1. CASE UNCHANGED <<image, changes, nextId>>
      BY <3>1 DEF StoreTypeOK
    <3>2. CASE SaveRow(r, o, row)
      BY <2>1, <3>2, WriteType DEF SaveRow, Op
    <3> QED BY <2>4, <3>1, <3>2
  <2> QED BY <2>2, <2>3, <2>5 DEF StoreTypeOK
<1>7. ASSUME NEW r \in Requests, NEW o \in Objects, Delete(r, o) PROVE StoreTypeOK'
  <2> DEFINE row == [Current(r, o) EXCEPT !.deleting = TRUE]
  <2>1. CASE Current(r, o) = NoRow
    BY <1>2, <1>7, <2>1 DEF Delete
  <2>2. CASE Current(r, o) # NoRow
    <3>1. row \in Row
      BY <2>2, CurrentType DEF MaybeRow, Row
    <3>2. LockRow(r, o) /\ SaveRow(r, o, row) /\ Performed(r)
          /\ UNCHANGED <<rows, status, copy>>
      BY <1>7, <2>2 DEF Delete
    <3>3. image' \in [Requests -> [Objects -> MaybeRow]] /\ changes' \subseteq Change
          /\ nextId' \in Nat
      <4> HIDE DEF row
      <4> QED BY <3>1, <3>2, WriteType DEF SaveRow, Op
    <3>4. ops' \in [Requests -> Nat]
      BY <3>2 DEF Performed, StoreTypeOK
    <3> QED BY <3>2, <3>3, <3>4, LockType DEF StoreTypeOK
  <2> QED BY <2>1, <2>2
<1>8. ASSUME NEW r \in Requests, NEW o \in Objects, Signal(r, o) PROVE StoreTypeOK'
  <2>1. CASE Current(r, o) = NoRow
    BY <1>2, <1>8, <2>1 DEF Signal
  <2>2. CASE Current(r, o) # NoRow
    <3>1. Current(r, o) \in Row
      BY <2>2, CurrentType DEF MaybeRow
    <3>2. LockRow(r, o) /\ WriteRow(r, o, "SIGNAL", Current(r, o)) /\ Performed(r)
          /\ UNCHANGED <<rows, status, copy>>
      BY <1>8, <2>2 DEF Signal
    <3>3. image' \in [Requests -> [Objects -> MaybeRow]] /\ changes' \subseteq Change
          /\ nextId' \in Nat
      BY <3>1, <3>2, WriteType DEF Op
    <3>4. ops' \in [Requests -> Nat]
      BY <3>2 DEF Performed, StoreTypeOK
    <3> QED BY <3>2, <3>3, <3>4, LockType DEF StoreTypeOK
  <2> QED BY <2>1, <2>2
<1>9. ASSUME NEW r \in Requests, Commit(r) PROVE StoreTypeOK'
  <2>1. rows' \in [Objects -> MaybeRow]
    BY <1>9, CurrentType DEF Commit
  <2> QED BY <1>9, <2>1 DEF Commit, Release, StoreTypeOK, MaybeRow
<1>10. ASSUME NEW r \in Requests, Rollback(r) PROVE StoreTypeOK'
  BY <1>10 DEF Rollback, Release, StoreTypeOK, MaybeRow
<1> QED BY <1>1, <1>2, <1>3, <1>4, <1>5, <1>6, <1>7, <1>8, <1>9, <1>10
        DEF StoreNext, RequestStep, Refuse

(* The initial states have the declared types. *)
LEMMA TypeInit == StoreInit => StoreTypeOK
BY StoreAssumption DEF StoreInit, StoreTypeOK, SettledRow, MaybeRow, Row

(* Every state of the store has the declared types. *)
THEOREM StoreTypeCorrect == StoreSpec => []StoreTypeOK
BY TypeInit, TypeStep, PTL DEF StoreSpec

-----------------------------------------------------------------------------
(* What every write does to the invariant: transaction r, which can lock   *)
(* the row of o, adds outbox rows `new` about o, the newest of which       *)
(* carries the new image of the row.                                       *)
LEMMA WriteStep ==
  ASSUME StoreInv, StoreTypeOK',
         NEW r \in Requests, NEW o \in Objects, status[r] = "open", Lockable(r, o),
         NEW new, NEW last \in new, new \subseteq Change,
         \A c \in new : c.req = r /\ c.obj = o /\ nextId <= c.id /\ c.id < nextId',
         \A c, d \in new : c.id = d.id => c = d,
         \A c \in new : c.id <= last.id,
         Content(last) # NoRow /\ Content(last).deleting => Content(last).finalizers # {},
         image' = [image EXCEPT ![r][o] = Content(last)],
         changes' = changes \cup new,
         held' = [held EXCEPT ![r] = @ \cup {o}],
         UNCHANGED <<rows, status>>
  PROVE  StoreInv'
<1> USE DEF StoreInv
<1>1. /\ status \in [Requests -> {"open", "failed", "committed", "rolledback"}]
      /\ held \in [Requests -> SUBSET Objects]
      /\ image \in [Requests -> [Objects -> MaybeRow]]
      /\ changes \subseteq Change /\ nextId \in Nat /\ nextId' \in Nat
  BY DEF StoreTypeOK
<1>2. \A c \in changes \cup new : c.id \in Nat /\ c.req \in Requests /\ c.obj \in Objects
  BY <1>1 DEF Change
<1>3. \A c \in changes : \A d \in new : c.id < d.id
  BY <1>1, <1>2 DEF FreshIds
<1>4. RowLocks'
  BY <1>1 DEF RowLocks, Lockable, Active
<1>5. FreshIds'
  BY <1>1, <1>2, <1>3 DEF FreshIds
<1>6. \A c \in changes' : IsCommitted(c)' <=> c \in changes /\ IsCommitted(c)
  BY DEF IsCommitted
<1>7. PendingChanges'
  <2> SUFFICES ASSUME NEW c \in changes'
               PROVE  /\ status[c.req] # "rolledback"
                      /\ Active(c.req) =>
                           /\ c.obj \in held'[c.req]
                           /\ \A d \in changes' : d.obj = c.obj /\ IsCommitted(d)' => d.id < c.id
    BY DEF PendingChanges, Active
  <2>1. CASE c \in changes
    BY <1>1, <1>2, <1>6, <2>1 DEF PendingChanges
  <2>2. CASE c \in new
    BY <1>1, <1>3, <1>6, <2>2
  <2> QED BY <2>1, <2>2
<1>8. ImageIsEnqueued'
  <2>1. ASSUME NEW c \in changes', Active(c.req)',
               \A d \in changes' : d.obj = c.obj /\ d.req = c.req => d.id <= c.id
        PROVE  image'[c.req][c.obj] = Content(c)
    <3>1. CASE c.req = r /\ c.obj = o
      <4>1. last.id <= c.id
        BY <2>1, <3>1
      <4>2. c = last
        BY <1>2, <1>3, <2>1, <4>1
      <4> QED BY <1>1, <3>1, <4>2
    <3>2. CASE ~(c.req = r /\ c.obj = o)
      <4>1. c \in changes
        BY <3>2
      <4>2. image[c.req][c.obj] = Content(c)
        BY <2>1, <4>1 DEF ImageIsEnqueued, Active
      <4> QED BY <1>1, <1>2, <3>2, <4>1, <4>2
    <3> QED BY <3>1, <3>2
  <2>2. ASSUME NEW s \in Requests, NEW p \in held'[s],
               \A c \in changes' : ~(c.req = s /\ c.obj = p)
        PROVE  image'[s][p] = rows'[p]
    <3>1. ~(s = r /\ p = o)
      BY <2>2
    <3>2. p \in held[s] /\ p \in Objects
      BY <1>1, <3>1
    <3> QED BY <1>1, <2>2, <3>1, <3>2 DEF ImageIsEnqueued
  <2> QED BY <2>1, <2>2 DEF ImageIsEnqueued, Content
<1>9. NoZombie'
  BY DEF NoZombie
<1>10. NoZombieImage'
  BY <1>1 DEF NoZombieImage
<1>11. OutboxMatchesRows'
  <2> SUFFICES ASSUME NEW c \in changes', IsCommitted(c)',
                      \A d \in changes' : IsCommitted(d)' /\ d.obj = c.obj => d.id <= c.id
               PROVE  rows[c.obj] = Content(c)
    BY DEF OutboxMatchesRows, Content
  <2>1. c \in changes /\ IsCommitted(c)
    BY <1>6
  <2>2. \A d \in changes : IsCommitted(d) /\ d.obj = c.obj => d.id <= c.id
    BY <1>6
  <2> QED BY <2>1, <2>2 DEF OutboxMatchesRows
<1> QED BY <1>4, <1>5, <1>7, <1>8, <1>9, <1>10, <1>11

(* A write that leaves the row in the table keeps the invariant. *)
LEMMA WriteRowStep ==
  ASSUME StoreInv, StoreTypeOK',
         NEW r \in Requests, NEW o \in Objects, status[r] = "open", Lockable(r, o),
         NEW op \in Op \ {"DELETE"}, NEW row \in Row,
         row.deleting => row.finalizers # {},
         WriteRow(r, o, op, row),
         held' = [held EXCEPT ![r] = @ \cup {o}],
         UNCHANGED <<rows, status>>
  PROVE  StoreInv'
<1> DEFINE c == EnqueueChange(r, o, op, row, 0)
<1>1. nextId \in Nat /\ nextId' = nextId + 1
  BY DEF StoreInv, StoreTypeOK, WriteRow
<1>2. c \in Change
  BY EnqueueType DEF StoreInv
<1>3. c.req = r /\ c.obj = o /\ c.id = nextId /\ Content(c) = row
  BY <1>1 DEF EnqueueChange, Content
<1>4. image' = [image EXCEPT ![r][o] = Content(c)] /\ changes' = changes \cup {c}
  BY <1>3 DEF WriteRow
<1> HIDE DEF c
<1> DEFINE new == {c}
<1>5. \A d \in new : d.req = r /\ d.obj = o /\ nextId <= d.id /\ d.id < nextId'
  BY <1>1, <1>3
<1>6. \A d \in new : d.id <= c.id
  BY <1>1, <1>3
<1>7. Content(c) # NoRow /\ Content(c).deleting => Content(c).finalizers # {}
  BY <1>3
<1>8. c \in new /\ new \subseteq Change /\ (\A d, e \in new : d.id = e.id => d = e)
  BY <1>2
<1>9. changes' = changes \cup new
  BY <1>4
<1> HIDE DEF new
<1> QED BY <1>4, <1>5, <1>6, <1>7, <1>8, <1>9, WriteStep

(* The same for a write followed by archiving. *)
LEMMA ArchiveRowStep ==
  ASSUME StoreInv, StoreTypeOK',
         NEW r \in Requests, NEW o \in Objects, status[r] = "open", Lockable(r, o),
         NEW row \in Row,
         ArchiveRow(r, o, "UPDATE", row),
         held' = [held EXCEPT ![r] = @ \cup {o}],
         UNCHANGED <<rows, status>>
  PROVE  StoreInv'
<1> DEFINE c == EnqueueChange(r, o, "UPDATE", row, 0)
           d == EnqueueChange(r, o, "DELETE", row, 1)
<1>1. nextId \in Nat /\ nextId' = nextId + 2
  BY DEF StoreInv, StoreTypeOK, ArchiveRow
<1>2. c \in Change /\ d \in Change
  BY EnqueueType DEF StoreInv, Op
<1>3. /\ c.req = r /\ c.obj = o /\ c.id = nextId
      /\ d.req = r /\ d.obj = o /\ d.id = nextId + 1 /\ Content(d) = NoRow
  BY <1>1 DEF EnqueueChange, Content
<1>4. image' = [image EXCEPT ![r][o] = Content(d)] /\ changes' = changes \cup {c, d}
  BY <1>3 DEF ArchiveRow
<1> HIDE DEF c, d
<1> DEFINE new == {c, d}
<1>5. \A e \in new : e.req = r /\ e.obj = o /\ nextId <= e.id /\ e.id < nextId'
  BY <1>1, <1>3
<1>6. \A e \in new : e.id <= d.id
  BY <1>1, <1>3
<1>7. \A e, f \in new : e.id = f.id => e = f
  BY <1>1, <1>3
<1>8. ~(Content(d) # NoRow)
  BY <1>3
<1>9. d \in new /\ new \subseteq Change /\ changes' = changes \cup new
  BY <1>2, <1>4
<1> HIDE DEF new
<1> QED BY <1>4, <1>5, <1>6, <1>7, <1>8, <1>9, WriteStep

(* SaveRow archives exactly the rows that would otherwise be zombies. *)
LEMMA SaveRowStep ==
  ASSUME StoreInv, StoreTypeOK',
         NEW r \in Requests, NEW o \in Objects, status[r] = "open", Lockable(r, o),
         NEW row \in Row,
         SaveRow(r, o, row),
         held' = [held EXCEPT ![r] = @ \cup {o}],
         UNCHANGED <<rows, status>>
  PROVE  StoreInv'
<1>1. CASE row.deleting /\ row.finalizers = {}
  BY <1>1, ArchiveRowStep DEF SaveRow
<1>2. CASE ~(row.deleting /\ row.finalizers = {})
  BY <1>2, WriteRowStep DEF SaveRow, Op
<1> QED BY <1>1, <1>2

(* A reported error changes nothing but the fate of the transaction. *)
LEMMA ReportErrorStep ==
  ASSUME StoreInv, StoreTypeOK', NEW r \in Requests, status[r] = "open", ReportError(r)
  PROVE  StoreInv'
<1> USE DEF StoreInv
<1>1. status \in [Requests -> {"open", "failed", "committed", "rolledback"}]
      /\ \A c \in changes : c.req \in Requests
  BY DEF StoreTypeOK, Change
<1>2. \A s \in Requests : Active(s)' <=> Active(s)
  BY <1>1 DEF Active, ReportError
<1>3. \A c \in changes : IsCommitted(c)' <=> IsCommitted(c)
  BY <1>1 DEF IsCommitted, ReportError
<1>4. \A c \in changes : status'[c.req] = "rolledback" => status[c.req] = "rolledback"
  BY <1>1 DEF ReportError
<1>5. UNCHANGED <<rows, held, image, changes, nextId>>
  BY DEF ReportError
<1>6. RowLocks'
  BY <1>2, <1>5 DEF RowLocks
<1>7. FreshIds'
  BY <1>5 DEF FreshIds
<1>8. PendingChanges'
  BY <1>1, <1>2, <1>3, <1>4, <1>5 DEF PendingChanges
<1>9. ImageIsEnqueued'
  BY <1>1, <1>2, <1>5 DEF ImageIsEnqueued, Content
<1>10. NoZombie' /\ NoZombieImage'
  BY <1>5 DEF NoZombie, NoZombieImage
<1>11. OutboxMatchesRows'
  BY <1>3, <1>5 DEF OutboxMatchesRows, Content
<1> QED BY <1>6, <1>7, <1>8, <1>9, <1>10, <1>11

(* A locking read copies the committed row. *)
LEMMA GetForUpdateStep ==
  ASSUME StoreInv, StoreTypeOK', NEW r \in Requests, NEW o \in Objects, status[r] = "open",
         rows[o] # NoRow, o \notin held[r], GetForUpdate(r, o)
  PROVE  StoreInv'
<1> USE DEF StoreInv
<1>1. /\ held \in [Requests -> SUBSET Objects]
      /\ image \in [Requests -> [Objects -> MaybeRow]]
      /\ \A c \in changes : c.req \in Requests /\ c.obj \in Objects
  BY DEF StoreTypeOK, Change
<1>2. /\ held' = [held EXCEPT ![r] = @ \cup {o}]
      /\ image' = [image EXCEPT ![r][o] = rows[o]]
      /\ Lockable(r, o)
      /\ UNCHANGED <<rows, status, changes, nextId>>
  BY DEF GetForUpdate, LockRow
<1>3. RowLocks'
  BY <1>1, <1>2 DEF RowLocks, Lockable, Active
<1>4. FreshIds'
  BY <1>2 DEF FreshIds
<1>5. PendingChanges'
  BY <1>1, <1>2 DEF PendingChanges, Active, IsCommitted
<1>6. ImageIsEnqueued'
  <2>1. ASSUME NEW c \in changes, Active(c.req),
               \A d \in changes : d.obj = c.obj /\ d.req = c.req => d.id <= c.id
        PROVE  image'[c.req][c.obj] = Content(c)
    <3>1. ~(c.req = r /\ c.obj = o)
      BY <2>1 DEF PendingChanges
    <3> QED BY <1>1, <1>2, <2>1, <3>1 DEF ImageIsEnqueued
  <2>2. ASSUME NEW s \in Requests, NEW p \in held'[s],
               \A c \in changes : ~(c.req = s /\ c.obj = p)
        PROVE  image'[s][p] = rows[p]
    BY <1>1, <1>2, <2>2 DEF ImageIsEnqueued
  <2> QED BY <1>2, <2>1, <2>2 DEF ImageIsEnqueued, Active, Content
<1>7. NoZombie' /\ NoZombieImage'
  BY <1>1, <1>2 DEF NoZombie, NoZombieImage
<1>8. OutboxMatchesRows'
  BY <1>2 DEF OutboxMatchesRows, IsCommitted, Content
<1> QED BY <1>3, <1>4, <1>5, <1>6, <1>7, <1>8

(* Committing publishes the images: the newest committed change of a held  *)
(* object becomes the transaction's own, if it has one.                    *)
LEMMA CommitStep ==
  ASSUME StoreInv, StoreTypeOK', NEW r \in Requests, Commit(r)
  PROVE  StoreInv'
<1> USE DEF StoreInv
<1>1. /\ status \in [Requests -> {"open", "failed", "committed", "rolledback"}]
      /\ rows \in [Objects -> MaybeRow]
      /\ held \in [Requests -> SUBSET Objects]
      /\ image \in [Requests -> [Objects -> MaybeRow]]
      /\ changes \subseteq Change
  BY DEF StoreTypeOK
<1>2. \A c \in changes : c.id \in Nat /\ c.req \in Requests /\ c.obj \in Objects
  BY <1>1 DEF Change
<1>3. /\ status[r] = "open" /\ status' = [status EXCEPT ![r] = "committed"]
      /\ held' = [held EXCEPT ![r] = {}]
      /\ image' = [image EXCEPT ![r] = [o \in Objects |-> NoRow]]
      /\ UNCHANGED <<changes, nextId>>
  BY DEF Commit, Release
<1>4. \A o \in Objects : rows'[o] = IF o \in held[r] THEN image[r][o] ELSE rows[o]
  BY DEF Commit, Current
<1>5. \A c \in changes : IsCommitted(c)' <=> IsCommitted(c) \/ c.req = r
  BY <1>1, <1>2, <1>3 DEF IsCommitted
<1>6. \A s \in Requests : Active(s)' <=> Active(s) /\ s # r
  BY <1>1, <1>3 DEF Active
<1>7. RowLocks'
  BY <1>1, <1>3, <1>6 DEF RowLocks
<1>8. FreshIds'
  BY <1>3 DEF FreshIds
<1>9. PendingChanges'
  <2> SUFFICES ASSUME NEW c \in changes
               PROVE  /\ status'[c.req] # "rolledback"
                      /\ Active(c.req)' =>
                           /\ c.obj \in held'[c.req]
                           /\ \A d \in changes : d.obj = c.obj /\ IsCommitted(d)' => d.id < c.id
    BY <1>3 DEF PendingChanges
  <2>1. status'[c.req] # "rolledback"
    BY <1>1, <1>2, <1>3 DEF PendingChanges
  <2>2. ASSUME Active(c.req)' PROVE c.obj \in held'[c.req]
    BY <1>1, <1>2, <1>3, <1>6, <2>2 DEF PendingChanges
  <2>3. ASSUME Active(c.req)', NEW d \in changes, d.obj = c.obj, IsCommitted(d)'
        PROVE  d.id < c.id
    <3>1. Active(c.req) /\ c.req # r
      BY <1>2, <1>6, <2>3
    <3>2. CASE IsCommitted(d)
      BY <2>3, <3>1, <3>2 DEF PendingChanges
    <3>3. CASE d.req = r
      <4>1. d.obj \in held[r] /\ c.obj \in held[c.req]
        BY <1>3, <3>1, <3>3 DEF PendingChanges, Active
      <4> QED BY <1>2, <2>3, <3>1, <4>1 DEF RowLocks
    <3> QED BY <1>5, <2>3, <3>2, <3>3
  <2> QED BY <2>1, <2>2, <2>3
<1>10. ImageIsEnqueued'
  <2>1. ASSUME NEW c \in changes, Active(c.req)',
               \A d \in changes : d.obj = c.obj /\ d.req = c.req => d.id <= c.id
        PROVE  image'[c.req][c.obj] = Content(c)
    <3>1. Active(c.req) /\ c.req # r
      BY <1>2, <1>6, <2>1
    <3> QED BY <1>1, <1>2, <1>3, <2>1, <3>1 DEF ImageIsEnqueued
  <2>2. ASSUME NEW s \in Requests, NEW o \in held'[s],
               \A c \in changes : ~(c.req = s /\ c.obj = o)
        PROVE  image'[s][o] = rows'[o]
    <3>1. s # r /\ o \in held[s] /\ o \in Objects
      BY <1>1, <1>3
    <3>2. o \notin held[r]
      BY <3>1 DEF RowLocks
    <3> QED BY <1>1, <1>3, <1>4, <2>2, <3>1, <3>2 DEF ImageIsEnqueued
  <2> QED BY <1>3, <2>1, <2>2 DEF ImageIsEnqueued, Content
<1>11. NoZombie' /\ NoZombieImage'
  BY <1>1, <1>3, <1>4 DEF NoZombie, NoZombieImage
<1>12. OutboxMatchesRows'
  <2> SUFFICES ASSUME NEW c \in changes, IsCommitted(c)',
                      \A d \in changes : IsCommitted(d)' /\ d.obj = c.obj => d.id <= c.id
               PROVE  rows'[c.obj] = Content(c)
    BY <1>3 DEF OutboxMatchesRows, Content
  <2>1. CASE c.req = r
    <3>1. image[r][c.obj] = Content(c)
      BY <1>3, <1>5, <2>1 DEF ImageIsEnqueued, Active
    <3>2. c.obj \in held[r]
      BY <1>3, <2>1 DEF PendingChanges, Active
    <3> QED BY <1>2, <1>4, <3>1, <3>2
  <2>2. CASE c.req # r
    <3>1. IsCommitted(c)
      BY <1>5, <2>2
    <3>2. rows[c.obj] = Content(c)
      BY <1>5, <3>1 DEF OutboxMatchesRows
    <3>3. \A d \in changes : ~(d.req = r /\ d.obj = c.obj)
      <4> SUFFICES ASSUME NEW d \in changes, d.req = r, d.obj = c.obj PROVE FALSE
        OBVIOUS
      <4>1. c.id < d.id
        BY <1>3, <3>1 DEF PendingChanges, Active
      <4>2. d.id <= c.id
        BY <1>5
      <4> QED BY <1>2, <4>1, <4>2
    <3>4. c.obj \in held[r] => image[r][c.obj] = rows[c.obj]
      BY <3>3 DEF ImageIsEnqueued
    <3> QED BY <1>2, <1>4, <3>2, <3>4
  <2> QED BY <2>1, <2>2
<1> QED BY <1>7, <1>8, <1>9, <1>10, <1>11, <1>12

(* Rolling back removes the transaction's outbox rows with its images. *)
LEMMA RollbackStep ==
  ASSUME StoreInv, StoreTypeOK', NEW r \in Requests, Rollback(r)
  PROVE  StoreInv'
<1> USE DEF StoreInv
<1>1. /\ status \in [Requests -> {"open", "failed", "committed", "rolledback"}]
      /\ held \in [Requests -> SUBSET Objects]
      /\ image \in [Requests -> [Objects -> MaybeRow]]
  BY DEF StoreTypeOK
<1>2. \A c \in changes : c.id \in Nat /\ c.req \in Requests /\ c.obj \in Objects
  BY DEF Change, StoreTypeOK
<1>3. /\ Active(r) /\ status' = [status EXCEPT ![r] = "rolledback"]
      /\ held' = [held EXCEPT ![r] = {}]
      /\ image' = [image EXCEPT ![r] = [o \in Objects |-> NoRow]]
      /\ changes' = {c \in changes : c.req # r}
      /\ UNCHANGED <<rows, nextId>>
  BY DEF Rollback, Release, Active
<1>4. \A c \in changes' : c \in changes /\ c.req # r /\ (IsCommitted(c)' <=> IsCommitted(c))
  BY <1>1, <1>2, <1>3 DEF IsCommitted
<1>5. \A c \in changes : IsCommitted(c) => c \in changes'
  BY <1>3 DEF IsCommitted, Active
<1>6. \A s \in Requests : Active(s)' <=> Active(s) /\ s # r
  BY <1>1, <1>3 DEF Active
<1>7. RowLocks'
  BY <1>1, <1>3, <1>6 DEF RowLocks
<1>8. FreshIds'
  BY <1>3 DEF FreshIds
<1>9. PendingChanges'
  BY <1>1, <1>2, <1>3, <1>4, <1>6 DEF PendingChanges
<1>10. ImageIsEnqueued'
  <2>1. ASSUME NEW c \in changes', Active(c.req)',
               \A d \in changes' : d.obj = c.obj /\ d.req = c.req => d.id <= c.id
        PROVE  image'[c.req][c.obj] = Content(c)
    <3>1. \A d \in changes : d.obj = c.obj /\ d.req = c.req => d.id <= c.id
      BY <1>3, <1>4, <2>1
    <3> QED BY <1>1, <1>2, <1>3, <1>4, <1>6, <2>1, <3>1 DEF ImageIsEnqueued
  <2>2. ASSUME NEW s \in Requests, NEW o \in held'[s],
               \A c \in changes' : ~(c.req = s /\ c.obj = o)
        PROVE  image'[s][o] = rows[o]
    BY <1>1, <1>3, <2>2 DEF ImageIsEnqueued
  <2>3. rows' = rows
    BY <1>3
  <2> QED BY <2>1, <2>2, <2>3, SMTT(30) DEF ImageIsEnqueued, Content
<1>11. NoZombie' /\ NoZombieImage'
  BY <1>1, <1>3 DEF NoZombie, NoZombieImage
<1>12. OutboxMatchesRows'
  BY <1>3, <1>4, <1>5 DEF OutboxMatchesRows, Content
<1> QED BY <1>7, <1>8, <1>9, <1>10, <1>11, <1>12

-----------------------------------------------------------------------------
(* The invariant holds initially: there are no changes and no locks. *)
LEMMA InvInit == StoreInit => StoreInv
<1> SUFFICES ASSUME StoreInit PROVE StoreInv
  OBVIOUS
<1>1. NoZombie
  BY DEF StoreInit, NoZombie, SettledRow
<1>2. changes = {} /\ (\A r \in Requests : held[r] = {}) /\ (\A r \in Requests, o \in Objects : image[r][o] = NoRow)
  BY DEF StoreInit
<1>3. RowLocks /\ FreshIds /\ PendingChanges /\ ImageIsEnqueued /\ NoZombieImage /\ OutboxMatchesRows
  BY <1>2 DEF RowLocks, FreshIds, PendingChanges, ImageIsEnqueued, NoZombieImage, OutboxMatchesRows
<1> QED BY <1>1, <1>3, TypeInit DEF StoreInv

(* A row that r holds can be locked by r, and locking it again changes     *)
(* nothing.                                                                *)
LEMMA HeldIsLockable ==
  ASSUME StoreInv, NEW r \in Requests, NEW o \in held[r]
  PROVE  Lockable(r, o) /\ held = [held EXCEPT ![r] = @ \cup {o}]
<1>1. held \in [Requests -> SUBSET Objects]
  BY DEF StoreInv, StoreTypeOK
<1>2. Lockable(r, o)
  BY DEF StoreInv, RowLocks, Lockable
<1>3. held[r] \cup {o} = held[r]
  OBVIOUS
<1> QED BY <1>1, <1>2, <1>3

(* A step that leaves the rows, the transactions and the outbox alone. *)
LEMMA InvUnchanged ==
  ASSUME StoreInv, StoreTypeOK', UNCHANGED <<rows, status, held, image, changes, nextId>>
  PROVE  StoreInv'
<1>1. RowLocks' /\ FreshIds'
  BY DEF StoreInv, RowLocks, FreshIds, Active
<1>2. PendingChanges'
  BY DEF StoreInv, PendingChanges, Active, IsCommitted
<1>3. ImageIsEnqueued'
  BY DEF StoreInv, ImageIsEnqueued, Active, Content
<1>4. NoZombie' /\ NoZombieImage'
  BY DEF StoreInv, NoZombie, NoZombieImage
<1>5. OutboxMatchesRows'
  BY DEF StoreInv, OutboxMatchesRows, IsCommitted, Content
<1> QED BY <1>1, <1>2, <1>3, <1>4, <1>5 DEF StoreInv

(* Every step of the store keeps the invariant. *)
LEMMA InvStep == StoreInv /\ [StoreNext]_storeVars => StoreInv'
<1> SUFFICES ASSUME StoreInv, [StoreNext]_storeVars PROVE StoreInv'
  OBVIOUS
<1>1. StoreTypeOK'
  BY TypeStep DEF StoreInv
<1>2. CASE UNCHANGED storeVars
  BY <1>1, <1>2, InvUnchanged DEF storeVars
<1>3. ASSUME NEW r \in Requests, NEW o \in Objects, ClientGet(r, o) PROVE StoreInv'
  BY <1>1, <1>3, InvUnchanged DEF ClientGet
<1>4. ASSUME NEW r \in Requests, NEW o \in Objects, NEW fins \in SUBSET Finalizers,
             Create(r, o, fins)
      PROVE  StoreInv'
  <2> DEFINE row == [version |-> 0, deleting |-> FALSE, finalizers |-> fins, born |-> nextId]
  <2>1. row \in Row /\ ~row.deleting
    BY DEF Row, StoreInv, StoreTypeOK
  <2>2. status[r] = "open" /\ Lockable(r, o)
    BY <1>4 DEF Create, Working
  <2>3. CASE Current(r, o) # NoRow
    BY <1>1, <1>4, <2>2, <2>3, ReportErrorStep DEF Create
  <2>4. CASE Current(r, o) = NoRow
    <3>1. /\ WriteRow(r, o, "INSERT", row)
          /\ held' = [held EXCEPT ![r] = @ \cup {o}]
          /\ UNCHANGED <<rows, status>>
      BY <1>4, <2>4 DEF Create, LockRow
    <3> HIDE DEF row
    <3> QED BY <1>1, <2>1, <2>2, <3>1, WriteRowStep DEF Op
  <2> QED BY <2>3, <2>4
<1>5. ASSUME NEW r \in Requests, NEW o \in Objects, GetForUpdate(r, o) PROVE StoreInv'
  <2>1. status[r] = "open" /\ o \notin held[r]
    BY <1>5 DEF GetForUpdate, Working
  <2>2. CASE rows[o] = NoRow
    BY <1>1, <1>5, <2>1, <2>2, ReportErrorStep DEF GetForUpdate
  <2>3. CASE rows[o] # NoRow
    BY <1>1, <1>5, <2>1, <2>3, GetForUpdateStep
  <2> QED BY <2>2, <2>3
<1>6. ASSUME NEW r \in Requests, NEW o \in Objects, NEW fins \in SUBSET Finalizers,
             NEW touch \in BOOLEAN, Update(r, o, fins, touch)
      PROVE  StoreInv'
  <2> DEFINE row == UpdatedRow(image[r][o], fins)
  <2>1. status[r] = "open" /\ o \in held[r] /\ image[r][o] # NoRow
        /\ UNCHANGED <<rows, status, held>>
    BY <1>6 DEF Update, Working
  <2>2. row \in Row
    <3>1. image[r][o] \in Row
      BY <2>1 DEF StoreInv, StoreTypeOK, MaybeRow
    <3> QED BY <3>1 DEF UpdatedRow, Row
  <2>3. CASE UNCHANGED <<image, changes, nextId>>
    BY <1>1, <2>1, <2>3, InvUnchanged
  <2>4. CASE SaveRow(r, o, row)
    <3>1. Lockable(r, o) /\ held' = [held EXCEPT ![r] = @ \cup {o}]
      BY <2>1, HeldIsLockable
    <3> HIDE DEF row
    <3> QED BY <1>1, <2>1, <2>2, <2>4, <3>1, SaveRowStep
  <2> QED BY <1>6, <2>3, <2>4 DEF Update
<1>7. ASSUME NEW r \in Requests, NEW o \in Objects, Delete(r, o) PROVE StoreInv'
  <2> DEFINE row == [Current(r, o) EXCEPT !.deleting = TRUE]
  <2>1. status[r] = "open"
    BY <1>7 DEF Delete, Working
  <2>2. CASE Current(r, o) = NoRow
    BY <1>1, <1>7, <2>1, <2>2, ReportErrorStep DEF Delete
  <2>3. CASE Current(r, o) # NoRow
    <3>1. row \in Row
      BY <2>3, CurrentType DEF MaybeRow, Row, StoreInv
    <3>2. /\ SaveRow(r, o, row) /\ Lockable(r, o)
          /\ held' = [held EXCEPT ![r] = @ \cup {o}]
          /\ UNCHANGED <<rows, status>>
      BY <1>7, <2>3 DEF Delete, LockRow
    <3> HIDE DEF row
    <3> QED BY <1>1, <2>1, <3>1, <3>2, SaveRowStep
  <2> QED BY <2>2, <2>3
<1>8. ASSUME NEW r \in Requests, NEW o \in Objects, Signal(r, o) PROVE StoreInv'
  <2>1. status[r] = "open"
    BY <1>8 DEF Signal, Working
  <2>2. CASE Current(r, o) = NoRow
    BY <1>1, <1>8, <2>1, <2>2, ReportErrorStep DEF Signal
  <2>3. CASE Current(r, o) # NoRow
    <3>1. Current(r, o) \in Row
      BY <2>3, CurrentType DEF MaybeRow, StoreInv
    <3>2. Current(r, o).deleting => Current(r, o).finalizers # {}
      BY <2>3 DEF StoreInv, NoZombie, NoZombieImage, Current
    <3>3. /\ WriteRow(r, o, "SIGNAL", Current(r, o)) /\ Lockable(r, o)
          /\ held' = [held EXCEPT ![r] = @ \cup {o}]
          /\ UNCHANGED <<rows, status>>
      BY <1>8, <2>3 DEF Signal, LockRow
    <3> QED BY <1>1, <2>1, <3>1, <3>2, <3>3, WriteRowStep DEF Op
  <2> QED BY <2>2, <2>3
<1>9. ASSUME NEW r \in Requests, Refuse(r) PROVE StoreInv'
  BY <1>1, <1>9, ReportErrorStep DEF Refuse, Working
<1> QED BY <1>1, <1>2, <1>3, <1>4, <1>5, <1>6, <1>7, <1>8, <1>9, CommitStep, RollbackStep
        DEF StoreNext, RequestStep

(* The inductive invariant holds in every state of the store. *)
THEOREM StoreInvariant == StoreSpec => []StoreInv
BY InvInit, InvStep, PTL DEF StoreSpec

(* No interleaving of updates and deletions leaves an object marked for    *)
(* deletion with no finalizer and not archived.                            *)
THEOREM NeverZombie == StoreSpec => []NoZombie
<1>1. StoreInv => NoZombie
  BY DEF StoreInv
<1> QED BY <1>1, StoreInvariant, PTL

(* The newest committed outbox row of an object is always its table row. *)
THEOREM OutboxFaithful == StoreSpec => []OutboxMatchesRows
<1>1. StoreInv => OutboxMatchesRows
  BY DEF StoreInv
<1> QED BY <1>1, StoreInvariant, PTL

(* The committed rows change in a commit only. *)
LEMMA OnlyCommitsWrite ==
  ASSUME StoreNext PROVE rows' = rows \/ \E r \in Requests : Commit(r)
<1>1. ASSUME NEW r \in Requests, NEW p \in Objects, RequestStep(r, p) PROVE rows' = rows
  <2>1. ReportError(r) => rows' = rows
    BY DEF ReportError
  <2> QED BY <1>1, <2>1 DEF RequestStep, ClientGet, Create, GetForUpdate, Update, Delete, Signal
<1>2. ASSUME NEW r \in Requests, Refuse(r) \/ Rollback(r) PROVE rows' = rows
  BY <1>2 DEF Refuse, ReportError, Rollback
<1> QED BY <1>1, <1>2 DEF StoreNext

(* No committed row changes without an outbox row of the same transaction. *)
THEOREM WritesAreEnqueued == StoreSpec => EveryWriteIsEnqueued
<1> DEFINE Enqueued == \A o \in Objects : rows'[o] # rows[o] =>
             \E c \in changes : c.obj = o /\ ~IsCommitted(c) /\ IsCommitted(c)'
<1>1. StoreInv /\ [StoreNext]_storeVars => [Enqueued]_storeVars
  <2> SUFFICES ASSUME StoreInv, StoreNext, NEW o \in Objects, rows'[o] # rows[o]
               PROVE  \E c \in changes : c.obj = o /\ ~IsCommitted(c) /\ IsCommitted(c)'
    OBVIOUS
  <2>1. PICK r \in Requests : Commit(r)
    BY OnlyCommitsWrite
  <2>2. status \in [Requests -> {"open", "failed", "committed", "rolledback"}]
    BY DEF StoreInv, StoreTypeOK
  <2>3. o \in held[r] /\ image[r][o] # rows[o]
    BY <2>1 DEF Commit, Current
  <2>4. PICK c \in changes : c.req = r /\ c.obj = o
    BY <2>3 DEF StoreInv, ImageIsEnqueued
  <2> QED BY <2>1, <2>2, <2>4 DEF Commit, IsCommitted
<1> QED BY <1>1, StoreInvariant, PTL DEF StoreSpec, EveryWriteIsEnqueued

-----------------------------------------------------------------------------
(* The versions of one object. *)

(* If both are rows of the same object, new is old or a later version of   *)
(* it: every change of the finalizers raises the version, and the deletion *)
(* mark stays.                                                             *)
Later(old, new) ==
  old # NoRow /\ new # NoRow /\ old.born = new.born =>
    /\ old.version <= new.version
    /\ old.version = new.version => old.finalizers = new.finalizers
    /\ old.deleting => new.deleting

Born(row, n) == row # NoRow => row.born < n

(* What a client read, what is committed and what a transaction has made   *)
(* of it are versions of the object in this order.                         *)
HistoryInv ==
  /\ \A o \in Objects : Born(rows[o], nextId)
  /\ \A r \in Requests, o \in Objects : Born(copy[r][o], nextId) /\ Later(copy[r][o], rows[o])
  /\ \A r \in Requests : \A o \in held[r] :
       /\ Born(image[r][o], nextId) /\ Later(rows[o], image[r][o])
       /\ \A q \in Requests : Later(copy[q][o], image[r][o])

(* Later is transitive along the versions of one object. *)
LEMMA LaterTransitive ==
  ASSUME NEW x \in MaybeRow, NEW y \in Row, NEW z \in Row, y.born = z.born,
         y # NoRow, Later(x, y), Later(y, z)
  PROVE  Later(x, z)
<1> SUFFICES ASSUME x # NoRow, z # NoRow, x.born = z.born PROVE Later(x, z)
  BY DEF Later
<1>1. x.version \in Nat /\ y.version \in Nat /\ z.version \in Nat
  BY DEF MaybeRow, Row
<1>2. /\ x.version <= y.version /\ y.version <= z.version
      /\ x.version = y.version => x.finalizers = y.finalizers
      /\ y.version = z.version => y.finalizers = z.finalizers
      /\ x.deleting => y.deleting
      /\ y.deleting => z.deleting
  BY DEF Later
<1>3. x.version <= z.version /\ (x.version = z.version => x.version = y.version /\ y.version = z.version)
  BY <1>1, <1>2
<1> QED BY <1>2, <1>3 DEF Later

(* An update raises the version, and leaves the deletion mark. *)
LEMMA LaterUpdated ==
  ASSUME NEW old \in Row, NEW fins \in SUBSET Finalizers
  PROVE  /\ UpdatedRow(old, fins) \in Row /\ UpdatedRow(old, fins).born = old.born
         /\ Later(old, UpdatedRow(old, fins))
<1> DEFINE row == UpdatedRow(old, fins)
<1>1. row \in Row
  BY DEF UpdatedRow, Row
<1>2. /\ row.born = old.born /\ row.version = old.version + 1 /\ row.deleting = old.deleting
      /\ old.version \in Nat
  BY DEF UpdatedRow, Row
<1> HIDE DEF row
<1>3. Later(old, row)
  BY <1>2 DEF Later
<1> QED BY <1>1, <1>2, <1>3 DEF row

(* A deletion marks the row and leaves the version and the finalizers. *)
LEMMA LaterMarked ==
  ASSUME NEW old \in Row, NEW row, row = [old EXCEPT !.deleting = TRUE]
  PROVE  row \in Row /\ row.born = old.born /\ row.version = old.version /\ Later(old, row)
<1>1. row \in Row
  BY DEF Row
<1>2. /\ row.born = old.born /\ row.version = old.version /\ row.finalizers = old.finalizers
      /\ row.deleting /\ old.version \in Nat
  BY DEF Row
<1>3. Later(old, row)
  BY <1>2 DEF Later
<1> QED BY <1>1, <1>2, <1>3

(* A write of r keeps the order, when it makes of the row a version that   *)
(* is not older, a row born now, or nothing.                               *)
LEMMA PutKeepsHistory ==
  ASSUME StoreInv, StoreTypeOK', HistoryInv, NEW r \in Requests, NEW o \in Objects, NEW row \in MaybeRow,
         image' = [image EXCEPT ![r][o] = row], held' = [held EXCEPT ![r] = @ \cup {o}],
         UNCHANGED <<rows, copy>>, nextId <= nextId',
         row # NoRow =>
           \/ row.born = nextId /\ nextId < nextId'
           \/ /\ Current(r, o) # NoRow /\ row.born = Current(r, o).born
              /\ Later(Current(r, o), row)
  PROVE  HistoryInv'
<1>1. /\ held \in [Requests -> SUBSET Objects] /\ image \in [Requests -> [Objects -> MaybeRow]]
      /\ nextId \in Nat /\ nextId' \in Nat
      /\ rows[o] \in MaybeRow /\ Current(r, o) \in MaybeRow
      /\ \A q \in Requests, p \in Objects : copy[q][p] \in MaybeRow
  BY CurrentType DEF StoreInv, StoreTypeOK
<1>2. \A x \in MaybeRow : x # NoRow => /\ x.born \in Nat /\ x.version \in Nat
  BY DEF MaybeRow, Row
<1>3. \A x \in MaybeRow : Born(x, nextId) => Born(x, nextId')
  BY <1>1, <1>2 DEF Born
<1>4. Born(row, nextId') /\ Later(rows[o], row) /\ \A q \in Requests : Later(copy[q][o], row)
  <2>1. Born(Current(r, o), nextId) /\ Later(rows[o], Current(r, o))
        /\ \A q \in Requests : Later(copy[q][o], Current(r, o))
    <3>1. CASE o \in held[r]
      BY <3>1 DEF HistoryInv, Current
    <3>2. CASE o \notin held[r]
      <4>1. Current(r, o) = rows[o]
        BY <3>2 DEF Current
      <4>2. Later(rows[o], rows[o])
        BY <1>1, <1>2 DEF Later
      <4> QED BY <4>1, <4>2 DEF HistoryInv
    <3> QED BY <3>1, <3>2
  <2>2. CASE row = NoRow
    BY <2>2 DEF Born, Later
  <2>3. CASE row # NoRow /\ row.born = nextId /\ nextId < nextId'
    <3>1. \A x \in MaybeRow : Born(x, nextId) => Later(x, row)
      BY <1>1, <1>2, <2>3 DEF Born, Later
    <3> QED BY <1>1, <2>3, <3>1 DEF HistoryInv, Born
  <2>4. CASE /\ row # NoRow /\ Current(r, o) # NoRow /\ row.born = Current(r, o).born
             /\ Later(Current(r, o), row)
    <3>1. \A x \in MaybeRow : Later(x, Current(r, o)) => Later(x, row)
      BY <1>1, <2>4, LaterTransitive DEF MaybeRow
    <3>2. Born(row, nextId')
      BY <1>1, <1>2, <2>1, <2>4 DEF Born
    <3> QED BY <1>1, <2>1, <3>1, <3>2
  <2> QED BY <2>2, <2>3, <2>4
<1>5. ASSUME NEW q \in Requests, NEW p \in held'[q], ~(q = r /\ p = o)
      PROVE  p \in held[q] /\ p \in Objects /\ image'[q][p] = image[q][p]
  BY <1>1, <1>5
<1>6. image'[r][o] = row
  BY <1>1
<1>7. \A p \in Objects : Born(rows'[p], nextId')
  BY <1>3 DEF HistoryInv, StoreInv, StoreTypeOK
<1>8. \A q \in Requests, p \in Objects : Born(copy'[q][p], nextId') /\ Later(copy'[q][p], rows'[p])
  BY <1>1, <1>3 DEF HistoryInv
<1>9. ASSUME NEW q \in Requests, NEW p \in held'[q]
      PROVE  /\ Born(image'[q][p], nextId') /\ Later(rows'[p], image'[q][p])
             /\ \A u \in Requests : Later(copy'[u][p], image'[q][p])
  <2>1. CASE q = r /\ p = o
    BY <1>4, <1>6, <2>1
  <2>2. CASE ~(q = r /\ p = o)
    <3>1. p \in held[q] /\ p \in Objects /\ image'[q][p] = image[q][p]
      BY <1>5, <2>2
    <3>2. image[q][p] \in MaybeRow
      BY <1>1, <3>1
    <3> QED BY <1>3, <3>1, <3>2 DEF HistoryInv
  <2> QED BY <2>1, <2>2
<1> QED BY <1>7, <1>8, <1>9 DEF HistoryInv

(* SaveRow writes the row or archives it. *)
LEMMA SaveKeepsHistory ==
  ASSUME StoreInv, StoreTypeOK', HistoryInv, NEW r \in Requests, NEW o \in Objects, NEW row \in Row,
         held' = [held EXCEPT ![r] = @ \cup {o}], UNCHANGED <<rows, copy>>,
         \/ SaveRow(r, o, row)
         \/ \E op \in Op : WriteRow(r, o, op, row),
         Current(r, o) # NoRow, row.born = Current(r, o).born, Later(Current(r, o), row)
  PROVE  HistoryInv'
<1>1. nextId \in Nat
  BY DEF StoreInv, StoreTypeOK
<1>2. CASE image' = [image EXCEPT ![r][o] = row] /\ nextId' = nextId + 1
  <2>1. row \in MaybeRow /\ nextId <= nextId'
    BY <1>1, <1>2 DEF MaybeRow
  <2> QED BY <1>2, <2>1, PutKeepsHistory
<1>3. CASE image' = [image EXCEPT ![r][o] = NoRow] /\ nextId' = nextId + 2
  <2>1. NoRow \in MaybeRow /\ nextId <= nextId'
    BY <1>1, <1>3 DEF MaybeRow
  <2> QED BY <1>3, <2>1, PutKeepsHistory
<1> QED BY <1>2, <1>3 DEF SaveRow, WriteRow, ArchiveRow

(* A step that leaves rows and copies alone, or frees the rows of a        *)
(* transaction that is not committed.                                      *)
LEMMA FreeKeepsHistory ==
  ASSUME HistoryInv, NEW r \in Requests, UNCHANGED <<rows, copy, nextId>>, StoreInv,
         UNCHANGED <<held, image>> \/ Release(r)
  PROVE  HistoryInv'
<1>1. held \in [Requests -> SUBSET Objects] /\ image \in [Requests -> [Objects -> MaybeRow]]
  BY DEF StoreInv, StoreTypeOK
<1>2. ASSUME NEW q \in Requests, NEW o \in held'[q]
      PROVE  o \in held[q] /\ image'[q][o] = image[q][o]
  BY <1>1, <1>2 DEF Release
<1> QED BY <1>2 DEF HistoryInv

(* A commit makes the images of its transaction the rows; nobody else      *)
(* holds them.                                                             *)
LEMMA CommitKeepsHistory ==
  ASSUME StoreInv, HistoryInv, NEW r \in Requests, Commit(r)
  PROVE  HistoryInv'
<1>1. held \in [Requests -> SUBSET Objects] /\ image \in [Requests -> [Objects -> MaybeRow]]
  BY DEF StoreInv, StoreTypeOK
<1>2. /\ \A o \in Objects : rows'[o] = IF o \in held[r] THEN image[r][o] ELSE rows[o]
      /\ Release(r) /\ UNCHANGED <<copy, nextId>>
  BY DEF Commit, Current
<1>3. ASSUME NEW q \in Requests, NEW o \in held'[q]
      PROVE  o \in held[q] /\ o \in Objects /\ image'[q][o] = image[q][o] /\ rows'[o] = rows[o]
  <2>1. q # r /\ o \in held[q] /\ o \in Objects /\ image'[q][o] = image[q][o]
    BY <1>1, <1>2, <1>3 DEF Release
  <2>2. o \notin held[r]
    BY <2>1 DEF StoreInv, RowLocks
  <2> QED BY <1>2, <2>1, <2>2
<1>4. \A o \in Objects : Born(rows'[o], nextId')
  BY <1>2 DEF HistoryInv
<1>5. \A q \in Requests, o \in Objects : Born(copy'[q][o], nextId') /\ Later(copy'[q][o], rows'[o])
  BY <1>2 DEF HistoryInv
<1>6. ASSUME NEW q \in Requests, NEW o \in held'[q]
      PROVE  /\ Born(image'[q][o], nextId') /\ Later(rows'[o], image'[q][o])
             /\ \A u \in Requests : Later(copy'[u][o], image'[q][o])
  BY <1>2, <1>3 DEF HistoryInv
<1> QED BY <1>4, <1>5, <1>6 DEF HistoryInv

(* Every step of the store keeps the versions in order. *)
LEMMA HistoryStep == StoreInv /\ HistoryInv /\ [StoreNext]_storeVars => HistoryInv'
<1> SUFFICES ASSUME StoreInv, HistoryInv, [StoreNext]_storeVars PROVE HistoryInv'
  OBVIOUS
<1>1. StoreTypeOK' /\ nextId \in Nat
  BY TypeStep DEF StoreInv, StoreTypeOK
<1>2. CASE UNCHANGED storeVars
  BY <1>2 DEF storeVars, HistoryInv
<1>3. ASSUME NEW r \in Requests, ReportError(r) PROVE HistoryInv'
  BY <1>3, FreeKeepsHistory DEF ReportError
<1>4. ASSUME NEW r \in Requests, NEW o \in Objects, ClientGet(r, o) PROVE HistoryInv'
  <2>1. copy \in [Requests -> [Objects -> MaybeRow]] /\ held \in [Requests -> SUBSET Objects]
        /\ rows[o] \in MaybeRow
    BY DEF StoreInv, StoreTypeOK
  <2>2. Later(rows[o], rows[o])
    BY <2>1 DEF Later, MaybeRow, Row
  <2>3. \A q \in Requests, p \in Objects :
          copy'[q][p] = copy[q][p] \/ (p = o /\ copy'[q][p] = rows[o])
    BY <1>4, <2>1 DEF ClientGet
  <2>4. UNCHANGED <<rows, held, image, nextId>>
    BY <1>4 DEF ClientGet
  <2>5. \A q \in Requests, p \in Objects : Born(copy'[q][p], nextId) /\ Later(copy'[q][p], rows[p])
    BY <2>2, <2>3 DEF HistoryInv
  <2>6. \A q \in Requests : \A p \in held[q] :
          \A u \in Requests : Later(copy'[u][p], image[q][p])
    BY <2>1, <2>3 DEF HistoryInv
  <2> QED BY <2>4, <2>5, <2>6 DEF HistoryInv
<1>5. ASSUME NEW r \in Requests, NEW o \in Objects, NEW fins \in SUBSET Finalizers,
             Create(r, o, fins)
      PROVE  HistoryInv'
  <2> DEFINE row == [version |-> 0, deleting |-> FALSE, finalizers |-> fins, born |-> nextId]
  <2>1. row \in MaybeRow /\ row.born = nextId
    BY <1>1 DEF MaybeRow, Row
  <2>2. CASE Current(r, o) # NoRow
    BY <1>3, <1>5, <2>2 DEF Create
  <2>3. CASE Current(r, o) = NoRow
    <3>1. /\ image' = [image EXCEPT ![r][o] = row] /\ nextId' = nextId + 1
          /\ held' = [held EXCEPT ![r] = @ \cup {o}] /\ UNCHANGED <<rows, copy>>
      BY <1>5, <2>3 DEF Create, WriteRow, LockRow
    <3> HIDE DEF row
    <3>2. nextId < nextId' /\ nextId <= nextId'
      BY <1>1, <3>1
    <3> QED BY <1>1, <2>1, <3>1, <3>2, PutKeepsHistory
  <2> QED BY <2>2, <2>3
<1>6. ASSUME NEW r \in Requests, NEW o \in Objects, GetForUpdate(r, o) PROVE HistoryInv'
  <2>1. CASE rows[o] = NoRow
    BY <1>3, <1>6, <2>1 DEF GetForUpdate
  <2>2. CASE rows[o] # NoRow
    <3>1. /\ image' = [image EXCEPT ![r][o] = rows[o]] /\ Current(r, o) = rows[o]
          /\ held' = [held EXCEPT ![r] = @ \cup {o}] /\ UNCHANGED <<rows, copy, nextId>>
      BY <1>6, <2>2 DEF GetForUpdate, LockRow, Current
    <3>2. rows[o] \in MaybeRow
      BY DEF StoreInv, StoreTypeOK
    <3>3. Later(rows[o], rows[o]) /\ nextId <= nextId'
      BY <1>1, <3>1, <3>2 DEF Later, MaybeRow, Row
    <3> QED BY <1>1, <2>2, <3>1, <3>2, <3>3, PutKeepsHistory
  <2> QED BY <2>1, <2>2
<1>7. ASSUME NEW r \in Requests, NEW o \in Objects, NEW fins \in SUBSET Finalizers,
             NEW touch \in BOOLEAN, Update(r, o, fins, touch)
      PROVE  HistoryInv'
  <2> DEFINE row == UpdatedRow(image[r][o], fins)
  <2>1. /\ o \in held[r] /\ image[r][o] # NoRow /\ Current(r, o) = image[r][o]
        /\ UNCHANGED <<rows, held, copy>>
    BY <1>7 DEF Update, Current
  <2>2. image[r][o] \in Row
    BY <2>1 DEF StoreInv, StoreTypeOK, MaybeRow
  <2>3. row \in Row /\ row.born = image[r][o].born /\ Later(image[r][o], row)
    BY <2>2, LaterUpdated
  <2>4. CASE UNCHANGED <<image, changes, nextId>>
    BY <2>1, <2>4, FreeKeepsHistory
  <2>5. CASE SaveRow(r, o, row)
    <3>1. held' = [held EXCEPT ![r] = @ \cup {o}]
      BY <2>1, HeldIsLockable
    <3> HIDE DEF row
    <3> QED BY <1>1, <2>1, <2>3, <2>5, <3>1, SaveKeepsHistory
  <2> QED BY <1>7, <2>4, <2>5 DEF Update
<1>8. ASSUME NEW r \in Requests, NEW o \in Objects, Delete(r, o) PROVE HistoryInv'
  <2> DEFINE row == [Current(r, o) EXCEPT !.deleting = TRUE]
  <2>1. CASE Current(r, o) = NoRow
    BY <1>3, <1>8, <2>1 DEF Delete
  <2>2. CASE Current(r, o) # NoRow
    <3>1. Current(r, o) \in Row
      BY <2>2, CurrentType DEF MaybeRow, StoreInv
    <3>2. row \in Row /\ row.born = Current(r, o).born /\ Later(Current(r, o), row)
      BY <3>1, LaterMarked
    <3>3. /\ SaveRow(r, o, row) /\ held' = [held EXCEPT ![r] = @ \cup {o}]
          /\ UNCHANGED <<rows, copy>>
      BY <1>8, <2>2 DEF Delete, LockRow
    <3> HIDE DEF row
    <3> QED BY <1>1, <2>2, <3>2, <3>3, SaveKeepsHistory
  <2> QED BY <2>1, <2>2
<1>9. ASSUME NEW r \in Requests, NEW o \in Objects, Signal(r, o) PROVE HistoryInv'
  <2>1. CASE Current(r, o) = NoRow
    BY <1>3, <1>9, <2>1 DEF Signal
  <2>2. CASE Current(r, o) # NoRow
    <3>1. Current(r, o) \in Row
      BY <2>2, CurrentType DEF MaybeRow, StoreInv
    <3>2. Later(Current(r, o), Current(r, o))
      BY <3>1 DEF Row, Later
    <3>3. /\ WriteRow(r, o, "SIGNAL", Current(r, o)) /\ held' = [held EXCEPT ![r] = @ \cup {o}]
          /\ UNCHANGED <<rows, copy>>
      BY <1>9, <2>2 DEF Signal, LockRow
    <3> QED BY <1>1, <2>2, <3>1, <3>2, <3>3, SaveKeepsHistory DEF Op
  <2> QED BY <2>1, <2>2
<1>10. ASSUME NEW r \in Requests, Refuse(r) PROVE HistoryInv'
  BY <1>3, <1>10 DEF Refuse
<1>11. ASSUME NEW r \in Requests, Rollback(r) PROVE HistoryInv'
  BY <1>11, FreeKeepsHistory DEF Rollback
<1> QED BY <1>2, <1>4, <1>5, <1>6, <1>7, <1>8, <1>9, <1>10, <1>11, CommitKeepsHistory
        DEF StoreNext, RequestStep

(* At the start nobody has read or locked anything. *)
LEMMA HistoryInit == StoreInit => HistoryInv
<1> SUFFICES ASSUME StoreInit PROVE HistoryInv
  OBVIOUS
<1>1. /\ \A r \in Requests : held[r] = {}
      /\ \A r \in Requests, o \in Objects : copy[r][o] = NoRow
      /\ nextId = 1
  BY DEF StoreInit
<1>2. \A o \in Objects : Born(rows[o], nextId)
  <2>1. \A o \in Objects : rows[o] # NoRow => rows[o].born = 0
    BY DEF StoreInit, SettledRow
  <2> QED BY <1>1, <2>1 DEF Born
<1> QED BY <1>1, <1>2 DEF HistoryInv, Born, Later

(* The committed, read and written versions of every object are always in  *)
(* order.                                                                  *)
LEMMA HistoryInvariant == StoreSpec => []HistoryInv
BY StoreInvariant, HistoryInit, HistoryStep, PTL DEF StoreSpec

(* A committed deletion mark disappears only with the object, whatever     *)
(* stale copies are written back and however transactions interleave.      *)
THEOREM DeletionIsOneWay == StoreSpec => DeletionSticks
<1> DEFINE Sticks == \A o \in Objects :
             /\ rows[o] # NoRow /\ rows[o].deleting
             /\ rows'[o] # NoRow /\ rows'[o].born = rows[o].born
             => rows'[o].deleting
<1>1. HistoryInv /\ [StoreNext]_storeVars => [Sticks]_storeVars
  <2> SUFFICES ASSUME HistoryInv, StoreNext, NEW o \in Objects,
                      rows[o] # NoRow, rows[o].deleting,
                      rows'[o] # NoRow, rows'[o].born = rows[o].born
               PROVE  rows'[o].deleting
    OBVIOUS
  <2>1. rows' = rows \/ \E r \in Requests : Commit(r)
    BY OnlyCommitsWrite
  <2>2. ASSUME NEW r \in Requests, Commit(r) PROVE rows'[o].deleting
    <3>1. rows'[o] = rows[o] \/ (o \in held[r] /\ rows'[o] = image[r][o])
      BY <2>2 DEF Commit, Current
    <3>2. rows'[o] = rows[o] \/ Later(rows[o], rows'[o])
      BY <3>1 DEF HistoryInv
    <3> QED BY <3>2 DEF Later
  <2> QED BY <2>1, <2>2
<1> QED BY <1>1, HistoryInvariant, PTL DEF StoreSpec, DeletionSticks

(* An update with the lock flag builds on the finalizers its client saw:   *)
(* the version that VersionConflict compares changes with them.            *)
THEOREM LockedUpdatesAreCurrent == StoreSpec => LockedUpdateSeesFinalizers
<1> DEFINE Sees == \A c \in changes' \ changes :
             LET mine == copy[c.req][c.obj]
                 stored == image[c.req][c.obj]
             IN  /\ c.req \in LockedRequests /\ c.op = "UPDATE"
                 /\ mine # NoRow /\ mine.born = c.row.born
                 /\ c.obj \in held[c.req] /\ stored # NoRow
                 /\ c.row.version # stored.version
                 => mine.finalizers = stored.finalizers
<1>1. StoreInv /\ HistoryInv /\ [StoreNext]_storeVars => [Sees]_storeVars
  <2> SUFFICES ASSUME StoreInv, HistoryInv, StoreNext, NEW c \in changes' \ changes,
                      c.req \in LockedRequests, c.op = "UPDATE",
                      copy[c.req][c.obj] # NoRow, copy[c.req][c.obj].born = c.row.born,
                      c.obj \in held[c.req], image[c.req][c.obj] # NoRow,
                      c.row.version # image[c.req][c.obj].version
               PROVE  copy[c.req][c.obj].finalizers = image[c.req][c.obj].finalizers
    OBVIOUS
  <2>1. PICK r \in Requests, o \in Objects : RequestStep(r, o)
    <3>1. \A r \in Requests : Refuse(r) \/ Commit(r) \/ Rollback(r) => changes' \subseteq changes
      BY DEF Refuse, ReportError, Commit, Rollback
    <3> QED BY <3>1 DEF StoreNext
  <2>2. ~ReportError(r)
    BY DEF ReportError
  <2>3. /\ \A op, row : WriteRow(r, o, op, row) => c = EnqueueChange(r, o, op, row, 0)
        /\ \A op, row : ArchiveRow(r, o, op, row) => c = EnqueueChange(r, o, op, row, 0)
                                                 \/ c = EnqueueChange(r, o, "DELETE", row, 1)
    BY DEF WriteRow, ArchiveRow
  <2>4. /\ \A op, row : WriteRow(r, o, op, row) => c.req = r /\ c.obj = o /\ c.op = op /\ c.row = row
        /\ \A row : SaveRow(r, o, row) => c.req = r /\ c.obj = o /\ c.row = row
    <3>1. \A op, row, k : LET d == EnqueueChange(r, o, op, row, k)
                         IN  d.req = r /\ d.obj = o /\ d.op = op /\ d.row = row
      BY DEF EnqueueChange
    <3>2. \A op, row : WriteRow(r, o, op, row) => c.req = r /\ c.obj = o /\ c.op = op /\ c.row = row
      BY <2>3, <3>1
    <3>3. \A op, row : ArchiveRow(r, o, op, row) => c.req = r /\ c.obj = o /\ c.row = row
      BY <2>3, <3>1
    <3> QED BY <3>2, <3>3 DEF SaveRow
  <2>5. PICK fins \in SUBSET Finalizers, touch \in BOOLEAN : Update(r, o, fins, touch)
    <3>1. ~ClientGet(r, o) /\ ~GetForUpdate(r, o)
      BY <2>2 DEF ClientGet, GetForUpdate
    <3>2. \A op, row : WriteRow(r, o, op, row) => op = "UPDATE"
      BY <2>4
    <3>3. ASSUME NEW fins, Create(r, o, fins) \/ Signal(r, o) PROVE FALSE
      <4>1. \E op \in {"INSERT", "SIGNAL"} : \E row : WriteRow(r, o, op, row)
        BY <2>2, <3>3 DEF Create, Signal
      <4> QED BY <3>2, <4>1
    <3>4. ASSUME Delete(r, o) PROVE FALSE
      <4>1. SaveRow(r, o, [Current(r, o) EXCEPT !.deleting = TRUE]) /\ Current(r, o) # NoRow
        BY <2>2, <3>4 DEF Delete
      <4>2. c.req = r /\ c.obj = o /\ c.row = [Current(r, o) EXCEPT !.deleting = TRUE]
        BY <2>4, <4>1
      <4>3. Current(r, o) \in Row
        BY <4>1, CurrentType DEF MaybeRow, StoreInv
      <4>4. c.row.version = Current(r, o).version
        BY <4>2, <4>3, LaterMarked
      <4> QED BY <4>2, <4>4 DEF Current
    <3> QED BY <2>1, <3>1, <3>2, <3>3, <3>4 DEF RequestStep
  <2>6. ~VersionConflict(r, o) /\ SaveRow(r, o, UpdatedRow(image[r][o], fins))
    BY <2>5 DEF Update
  <2>7. c.req = r /\ c.obj = o /\ c.row = UpdatedRow(image[r][o], fins)
    BY <2>4, <2>6
  <2>8. copy[r][o].version = image[r][o].version /\ copy[r][o].born = image[r][o].born
    <3>1. UpdatedRow(image[r][o], fins).born = image[r][o].born
      BY DEF UpdatedRow
    <3> QED BY <2>6, <2>7, <3>1 DEF VersionConflict
  <2>9. Later(copy[r][o], image[r][o])
    BY <2>7 DEF HistoryInv
  <2> QED BY <2>7, <2>8, <2>9 DEF Later
<1> QED BY <1>1, StoreInvariant, HistoryInvariant, PTL DEF StoreSpec, LockedUpdateSeesFinalizers
=============================================================================
