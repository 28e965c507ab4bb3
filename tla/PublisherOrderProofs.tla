------------------------ MODULE PublisherOrderProofs ------------------------
(***************************************************************************)
(* Why the xmin filter of calculateFetchSQL orders the events: proofs for  *)
(* any number of requests, objects and tenants, every batch size and any   *)
(* number of failed drains, as long as no publisher has died with its      *)
(* session open and transaction identifiers have not wrapped around.       *)
(***************************************************************************)
EXTENDS EventPublisherProofs, FiniteSetTheorems

Undisturbed == crashes = 0 /\ nextXid <= XidModulus

(* The pairs that OlderTransactionFirst orders. *)
Older(c, d) ==
  /\ TenantOf[c.obj] = TenantOf[d.obj] /\ c.obj \notin Unpublishable
  /\ c.id < d.id /\ xid[c.req] <= xid[d.req]

(* Every transaction up to the one of d has ended. *)
Settled(d) == \A r \in Requests : xid[r] # 0 /\ xid[r] <= xid[d.req] => ~Active(r)

(* Transaction identifiers, as the outbox stores them. *)
Stamped ==
  /\ \A r \in Requests : xid[r] < nextXid /\ (held[r] # {} => xid[r] # 0)
  /\ \A c \in changes : xid[c.req] # 0 /\ c.xmin = xid[c.req]

InOrder(t, j, c) == \E i \in 1 .. (j - 1) : topics[t][i] = c

(* A change is fetched, and then sent, only when all older transactions    *)
(* have ended.                                                             *)
FetchedSettled == \A d \in batch : Settled(d)

SentSettled ==
  \A t \in Tenants : \A j \in Offsets(t) :
    TenantOf[topics[t][j].obj] = t /\ Settled(topics[t][j])

(* The changes that must precede a fetched one are fetched with it or were *)
(* sent, and those that must precede a sent one were sent before it.       *)
OlderAtHand ==
  \A d \in batch, c \in changes : Older(c, d) => c \in batch \/ InTopic(c)

OlderSent ==
  \A t \in Tenants : \A j \in Offsets(t) : \A c \in changes :
    Older(c, topics[t][j]) => InOrder(t, j, c)

OrderInv ==
  /\ IsFiniteSet(changes)
  /\ dead = {}
  /\ Stamped
  /\ FetchedSettled /\ SentSettled
  /\ OlderAtHand /\ OlderSent

(* What a write adds to the outbox. *)
LEMMA WriteAdds ==
  ASSUME StoreTypeOK, NEW r \in Requests, NEW o \in Objects, NEW op, NEW row,
         WriteRow(r, o, op, row) \/ ArchiveRow(r, o, op, row) \/ SaveRow(r, o, row)
  PROVE  /\ IsFiniteSet(changes) => IsFiniteSet(changes')
         /\ changes \subseteq changes'
         /\ \A c \in changes' \ changes :
              c.id >= nextId /\ c.xmin = XidOf(r) % XidModulus /\ c.req = r
<1> DEFINE New(c) == c.id >= nextId /\ c.xmin = XidOf(r) % XidModulus /\ c.req = r
           Goal == /\ IsFiniteSet(changes) => IsFiniteSet(changes')
                   /\ changes \subseteq changes'
                   /\ \A c \in changes' \ changes : New(c)
<1>1. ASSUME NEW w, NEW k \in Nat PROVE New(EnqueueChange(r, o, w, row, k))
  <2>1. nextId \in Nat /\ nextId + k >= nextId
    BY DEF StoreTypeOK
  <2> QED BY <2>1 DEF EnqueueChange
<1>2. ASSUME NEW w, WriteRow(r, o, w, row) PROVE Goal
  <2> DEFINE x == EnqueueChange(r, o, w, row, 0)
  <2>1. changes' = changes \cup {x} /\ New(x)
    BY <1>1, <1>2 DEF WriteRow
  <2> HIDE DEF x, New
  <2> QED BY <2>1, FS_AddElement
<1>3. ASSUME NEW w, ArchiveRow(r, o, w, row) PROVE Goal
  <2> DEFINE x == EnqueueChange(r, o, w, row, 0)
             y == EnqueueChange(r, o, "DELETE", row, 1)
  <2>1. changes' = (changes \cup {x}) \cup {y} /\ New(x) /\ New(y)
    BY <1>1, <1>3 DEF ArchiveRow
  <2> HIDE DEF x, y, New
  <2> QED BY <2>1, FS_AddElement
<1> HIDE DEF Goal
<1>4. Goal
  BY <1>2, <1>3 DEF SaveRow
<1> QED BY <1>4 DEF Goal

(* What a step of the store may do to outbox, identifiers and statuses. *)
StoreEffect ==
  /\ IsFiniteSet(changes) => IsFiniteSet(changes')
  /\ \A c \in changes' \ changes :
       /\ c.id >= nextId
       /\ c.req \in Requests /\ xid'[c.req] # 0 /\ c.xmin = xid'[c.req] % XidModulus
  /\ \A r \in Requests :
       /\ \/ xid'[r] = xid[r] /\ nextXid' >= nextXid
          \/ xid[r] = 0 /\ xid'[r] = nextXid /\ nextXid' = nextXid + 1
       /\ held'[r] # {} /\ held[r] = {} => xid'[r] # 0
       /\ ~Active(r) => ~Active(r)'

(* What a step of the store does, as far as the order of publishing goes. *)
LEMMA StoreStepEffect ==
  ASSUME StoreInv, nextXid > 0, \A r \in Requests : held[r] # {} => xid[r] # 0,
         [StoreNext]_storeVars
  PROVE  StoreEffect
<1> USE DEF StoreEffect
<1>1. /\ StoreTypeOK /\ nextXid \in Nat /\ xid \in [Requests -> Nat]
      /\ status \in [Requests -> {"open", "failed", "committed", "rolledback"}]
      /\ held \in [Requests -> SUBSET Objects]
  BY DEF StoreInv, StoreTypeOK
<1>2. ASSUME UNCHANGED <<changes, xid, nextXid, held, status>> PROVE StoreEffect
  BY <1>1, <1>2 DEF Active
<1>3. ASSUME NEW r \in Requests, status[r] = "open", ReportError(r) PROVE StoreEffect
  BY <1>1, <1>3 DEF ReportError, Active
<1>4. ASSUME NEW r \in Requests, NEW o \in Objects, LockRow(r, o), UNCHANGED status,
             UNCHANGED changes \/ \E op, row : WriteRow(r, o, op, row) \/ SaveRow(r, o, row)
      PROVE  StoreEffect
  <2>1. /\ xid' = [xid EXCEPT ![r] = XidOf(r)] /\ xid'[r] = XidOf(r) /\ XidOf(r) # 0
        /\ held' = [held EXCEPT ![r] = @ \cup {o}]
        /\ nextXid' = IF xid[r] = 0 THEN nextXid + 1 ELSE nextXid
    BY <1>1, <1>4 DEF LockRow, XidOf
  <2>2. /\ IsFiniteSet(changes) => IsFiniteSet(changes')
        /\ \A c \in changes' \ changes :
             c.id >= nextId /\ c.xmin = XidOf(r) % XidModulus /\ c.req = r
    BY <1>1, <1>4, WriteAdds
  <2>3. ASSUME NEW s \in Requests
        PROVE  /\ \/ xid'[s] = xid[s] /\ nextXid' >= nextXid
                  \/ xid[s] = 0 /\ xid'[s] = nextXid /\ nextXid' = nextXid + 1
               /\ held'[s] # {} /\ held[s] = {} => xid'[s] # 0
    BY <1>1, <2>1 DEF XidOf
  <2> QED BY <1>4, <2>1, <2>2, <2>3 DEF Active
<1>5. ASSUME NEW r \in Requests, NEW o \in held[r], UNCHANGED <<xid, nextXid, held, status>>,
             \E row : SaveRow(r, o, row)
      PROVE  StoreEffect
  <2>1. XidOf(r) = xid[r] /\ xid[r] # 0 /\ o \in Objects
    BY <1>1 DEF XidOf
  <2>2. /\ IsFiniteSet(changes) => IsFiniteSet(changes')
        /\ \A c \in changes' \ changes :
             c.id >= nextId /\ c.xmin = XidOf(r) % XidModulus /\ c.req = r
    BY <1>1, <1>5, <2>1, WriteAdds
  <2> QED BY <1>1, <1>5, <2>1, <2>2 DEF Active
<1>6. ASSUME NEW r \in Requests, Commit(r) \/ Rollback(r) PROVE StoreEffect
  <2>1. /\ held' = [held EXCEPT ![r] = {}] /\ UNCHANGED <<xid, nextXid>>
        /\ changes' \subseteq changes
        /\ \A s \in Requests : ~Active(s) => ~Active(s)'
    BY <1>1, <1>6 DEF Commit, Rollback, Release, Active
  <2>2. IsFiniteSet(changes) => IsFiniteSet(changes')
    BY <2>1, FS_Subset
  <2> QED BY <1>1, <2>1, <2>2
<1>7. ASSUME NEW r \in Requests, NEW o \in Objects, RequestStep(r, o) PROVE StoreEffect
  <2>1. status[r] = "open"
    BY <1>7 DEF RequestStep, ClientGet, Create, GetForUpdate, Update, Delete, Signal, Working
  <2>2. CASE ClientGet(r, o)
    BY <1>2, <2>2 DEF ClientGet
  <2>3. CASE \E fins \in SUBSET Finalizers : Create(r, o, fins)
    BY <1>3, <1>4, <2>1, <2>3 DEF Create
  <2>4. CASE GetForUpdate(r, o)
    BY <1>3, <1>4, <2>1, <2>4 DEF GetForUpdate
  <2>5. CASE \E fins \in SUBSET Finalizers, touch \in BOOLEAN : Update(r, o, fins, touch)
    BY <1>2, <1>5, <2>5 DEF Update
  <2>6. CASE Delete(r, o) \/ Signal(r, o)
    BY <1>3, <1>4, <2>1, <2>6 DEF Delete, Signal
  <2> QED BY <1>7, <2>2, <2>3, <2>4, <2>5, <2>6 DEF RequestStep
<1>8. ASSUME NEW r \in Requests, Refuse(r) PROVE StoreEffect
  BY <1>3, <1>8 DEF Refuse, Working
<1> QED BY <1>2, <1>6, <1>7, <1>8 DEF StoreNext, storeVars

(* Outbox rows and sent records have requests and identifiers. *)
LEMMA ChangeFacts ==
  ASSUME PublisherInv
  PROVE  /\ \A c \in changes : c \in Change /\ c.req \in Requests /\ c.id < nextId
         /\ \A d \in batch : d \in changes /\ IsCommitted(d)
         /\ \A t \in Tenants : \A j \in Offsets(t) :
              topics[t][j] \in changes /\ IsCommitted(topics[t][j])
         /\ xid \in [Requests -> Nat] /\ nextXid \in Nat /\ nextId \in Nat
         /\ \A c \in changes : c.id \in Nat
BY DEF PublisherInv, CommittedOutbox, NoPhantomEvents, IsCommitted, StoreInv, StoreTypeOK,
       FreshIds, Change

(* A step of the store makes no change older than one that was there. *)
LEMMA StoreKeepsOlder ==
  ASSUME PublisherInv, PublisherInv', OrderInv, StoreEffect,
         NEW d \in changes, NEW c \in changes', Older(c, d)'
  PROVE  c \in changes /\ Older(c, d)
<1>1. ASSUME NEW e \in changes PROVE xid'[e.req] = xid[e.req]
  BY ChangeFacts DEF StoreEffect, OrderInv, Stamped
<1>2. c \in changes
  <2> SUFFICES ASSUME c \notin changes PROVE FALSE
    OBVIOUS
  <2>1. c \in Change
    BY DEF PublisherInv, StoreInv, StoreTypeOK
  <2>2. c.id >= nextId /\ d.id < nextId /\ c.id < d.id /\ c.id \in Nat /\ d.id \in Nat
    BY <2>1, ChangeFacts DEF StoreEffect, Older, Change
  <2>3. nextId \in Nat
    BY ChangeFacts
  <2> QED BY <2>2, <2>3
<1> QED BY <1>1, <1>2 DEF Older

(* A step of the store: new changes are younger than everything fetched or *)
(* sent, and a transaction that gets its identifier now is the youngest.   *)
LEMMA StoreStepOrder ==
  ASSUME PublisherInv, OrderInv, [StoreNext]_storeVars, UNCHANGED publisherVars,
         nextXid' <= XidModulus
  PROVE  OrderInv'
<1>1. StoreEffect
  BY StoreStepEffect DEF PublisherInv, OrderInv, Stamped
<1>2. UNCHANGED <<batch, topics, dead>>
  BY DEF publisherVars
<1>3. PublisherInv'
  BY StoreStepKeeps
<1>4. /\ xid \in [Requests -> Nat] /\ nextXid \in Nat /\ xid' \in [Requests -> Nat]
      /\ nextXid' \in Nat /\ XidModulus \in Nat \ {0} /\ nextId \in Nat
  BY <1>3, StoreAssumption DEF PublisherInv, StoreInv, StoreTypeOK
<1>5. \A r \in Requests : xid'[r] < nextXid' /\ (held'[r] # {} => xid'[r] # 0)
  BY <1>1, <1>4 DEF StoreEffect, OrderInv, Stamped
<1>6. ASSUME NEW c \in changes', c \notin changes
      PROVE  c.req \in Requests /\ xid'[c.req] # 0 /\ c.xmin = xid'[c.req]
  <2>1. c.req \in Requests /\ xid'[c.req] # 0 /\ c.xmin = xid'[c.req] % XidModulus
    BY <1>1, <1>6 DEF StoreEffect
  <2>2. xid'[c.req] \in 0 .. (XidModulus - 1)
    BY <1>4, <1>5, <2>1
  <2>3. xid'[c.req] % XidModulus = xid'[c.req]
    BY <1>4, <2>2
  <2> QED BY <2>1, <2>3
<1>7. ASSUME NEW c \in changes PROVE c.req \in Requests /\ xid'[c.req] = xid[c.req]
  BY <1>1, ChangeFacts DEF StoreEffect, OrderInv, Stamped
<1>8. Stamped'
  BY <1>5, <1>6, <1>7 DEF OrderInv, Stamped
<1>9. ASSUME NEW d \in changes, Settled(d) PROVE Settled(d)'
  <2> SUFFICES ASSUME NEW r \in Requests, xid'[r] # 0, xid'[r] <= xid'[d.req] PROVE ~Active(r)'
    BY DEF Settled
  <2>1. xid'[d.req] = xid[d.req] /\ xid[d.req] < nextXid /\ xid[d.req] \in Nat
    BY <1>4, <1>7 DEF OrderInv, Stamped
  <2>2. xid'[r] = xid[r]
    BY <1>1, <1>4, <2>1 DEF StoreEffect
  <2> QED BY <1>1, <1>9, <2>1, <2>2 DEF StoreEffect, Settled
<1>10. ASSUME NEW d \in changes, NEW c \in changes', Older(c, d)' PROVE c \in changes /\ Older(c, d)
  BY <1>1, <1>3, <1>10, StoreKeepsOlder
<1>11. \A c : InTopic(c) <=> InTopic(c)'
  BY <1>2 DEF InTopic, Offsets
<1>12. FetchedSettled'
  <2> SUFFICES ASSUME NEW d \in batch' PROVE Settled(d)'
    BY DEF FetchedSettled
  <2>1. d \in changes /\ Settled(d)
    BY <1>2, ChangeFacts DEF OrderInv, FetchedSettled
  <2> QED BY <1>9, <2>1
<1>13. SentSettled'
  <2> SUFFICES ASSUME NEW t \in Tenants, NEW j \in Offsets(t)'
               PROVE  TenantOf[topics'[t][j].obj] = t /\ Settled(topics[t][j])'
    BY DEF SentSettled
  <2>1. j \in Offsets(t) /\ topics'[t][j] = topics[t][j]
    BY <1>2 DEF Offsets
  <2>2. PICK d \in changes : d = topics[t][j]
    BY <2>1, ChangeFacts
  <2>3. TenantOf[d.obj] = t /\ Settled(d)
    BY <2>1, <2>2 DEF OrderInv, SentSettled
  <2>4. Settled(d)'
    BY <1>9, <2>3
  <2> QED BY <2>1, <2>2, <2>3, <2>4 DEF Settled
<1>14. OlderAtHand'
  <2> SUFFICES ASSUME NEW d \in batch', NEW c \in changes', Older(c, d)'
               PROVE  c \in batch' \/ InTopic(c)'
    BY DEF OlderAtHand
  <2>1. d \in batch /\ d \in changes
    BY <1>2, ChangeFacts
  <2>2. c \in changes /\ Older(c, d)
    BY <1>10, <2>1
  <2>3. c \in batch \/ InTopic(c)
    BY <2>1, <2>2 DEF OrderInv, OlderAtHand
  <2> QED BY <1>2, <1>11, <2>3
<1>15. OlderSent'
  <2> SUFFICES ASSUME NEW t \in Tenants, NEW j \in Offsets(t)', NEW c \in changes',
                      Older(c, topics[t][j])'
               PROVE  InOrder(t, j, c)'
    BY DEF OlderSent
  <2>1. j \in Offsets(t) /\ topics' = topics
    BY <1>2 DEF Offsets
  <2>2. PICK d \in changes : d = topics[t][j]
    BY <2>1, ChangeFacts
  <2>3. Older(c, d)'
    BY <2>1, <2>2 DEF Older
  <2>4. c \in changes /\ Older(c, d)
    BY <1>10, <2>3
  <2>5. InOrder(t, j, c)
    BY <2>1, <2>2, <2>4 DEF OrderInv, OlderSent
  <2> QED BY <2>1, <2>5 DEF InOrder
<1>16. IsFiniteSet(changes') /\ dead' = {}
  BY <1>1, <1>2 DEF StoreEffect, OrderInv
<1> QED BY <1>8, <1>12, <1>13, <1>14, <1>15, <1>16 DEF OrderInv

(* What was sent stays in order while transactions and topics are as they  *)
(* were.                                                                   *)
LEMMA SentPartKept ==
  ASSUME OrderInv, UNCHANGED <<changes, xid, status, topics>>
  PROVE  SentSettled' /\ OlderSent'
<1>1. \A t : Offsets(t)' = Offsets(t)
  BY DEF Offsets
<1>2. \A c, d : Older(c, d)' <=> Older(c, d)
  BY DEF Older
<1>3. \A d : Settled(d)' <=> Settled(d)
  BY DEF Settled, Active
<1>4. SentSettled'
  BY <1>1, <1>3 DEF OrderInv, SentSettled
<1>5. OlderSent'
  <2>1. \A t, j, c : InOrder(t, j, c)' <=> InOrder(t, j, c)
    BY DEF InOrder
  <2> QED BY <1>1, <1>2, <2>1 DEF OrderInv, OlderSent
<1> QED BY <1>4, <1>5

(* Fetching: below the horizon all transactions have ended. *)
LEMMA FetchableSettled ==
  ASSUME PublisherInv, Stamped, NEW d \in Fetchable
  PROVE  Settled(d)
<1> SUFFICES ASSUME NEW r \in Requests, xid[r] # 0, xid[r] <= xid[d.req], Active(r) PROVE FALSE
  BY DEF Settled
<1>1. xid \in [Requests -> Nat]
  BY ChangeFacts
<1>2. d \in changes /\ d.xmin = xid[d.req] /\ d.req \in Requests
  BY ChangeFacts DEF Fetchable, Stamped
<1>3. d.xmin < xid[r]
  BY DEF Fetchable, BelowHorizon, InProgress, Active
<1> QED BY <1>1, <1>2, <1>3

(* Everything that must precede a fetched change is fetched with it or was *)
(* deleted: its transaction has ended, so it is visible, and smaller       *)
(* identifiers come first in the batch.                                    *)
LEMMA FetchTakesOlder ==
  ASSUME PublisherInv, OrderInv, NEW d \in Oldest(Fetchable), NEW c \in changes, Older(c, d)
  PROVE  c \in Oldest(Fetchable) \/ c \in gone
<1>1. /\ d \in Fetchable /\ d \in changes /\ d.req \in Requests /\ c.req \in Requests
      /\ c.id \in Nat /\ d.id \in Nat
  BY ChangeFacts DEF Oldest, Fetchable
<1>2. xid \in [Requests -> Nat] /\ nextXid \in Nat
  BY ChangeFacts
<1>3. Stamped /\ dead = {}
  BY DEF OrderInv
<1>4. status[c.req] = "committed"
  <2>1. ~Active(c.req)
    <3>1. xid[c.req] # 0 /\ xid[c.req] <= xid[d.req]
      BY <1>3 DEF Stamped, Older
    <3>2. Settled(d)
      BY <1>1, <1>3, FetchableSettled
    <3> QED BY <1>1, <3>1, <3>2 DEF Settled
  <2>2. status[c.req] # "rolledback"
    BY DEF PublisherInv, StoreInv, PendingChanges
  <2>3. status[c.req] \in {"open", "failed", "committed", "rolledback"}
    BY <1>1 DEF PublisherInv, StoreInv, StoreTypeOK
  <2> QED BY <2>1, <2>2, <2>3 DEF Active
<1> SUFFICES ASSUME c \notin gone PROVE c \in Oldest(Fetchable)
  OBVIOUS
<1>5. BelowHorizon(c.xmin)
  <2>1. c.xmin = xid[c.req] /\ d.xmin = xid[d.req] /\ c.xmin <= d.xmin
    BY <1>3, <1>1 DEF Older, Stamped
  <2>2. c.xmin \in Nat /\ d.xmin \in Nat
    BY <1>2, <1>1, <2>1
  <2>3. InProgress \subseteq Nat
    BY <1>2, <1>3 DEF InProgress
  <2> QED BY <1>2, <1>1, <2>1, <2>2, <2>3 DEF Fetchable, BelowHorizon
<1>6. c \in Fetchable
  BY <1>3, <1>4, <1>5 DEF Fetchable
<1> DEFINE Before(x) == {e \in Fetchable : e.id < x.id}
<1>7. \A e \in Fetchable : e.id \in Nat
  BY ChangeFacts DEF Fetchable
<1>8. Before(c) \in SUBSET Before(d)
  BY <1>1, <1>7 DEF Older
<1>9. IsFiniteSet(Before(d))
  <2>1. Before(d) \in SUBSET changes
    BY DEF Fetchable
  <2>2. IsFiniteSet(changes)
    BY DEF OrderInv
  <2> QED BY <2>1, <2>2, FS_Subset
<1>10. IsFiniteSet(Before(c)) /\ Cardinality(Before(c)) <= Cardinality(Before(d))
  BY <1>8, <1>9, FS_Subset
<1>11. Cardinality(Before(c)) \in Nat /\ Cardinality(Before(d)) \in Nat
  BY <1>9, <1>10, FS_CardinalityType
<1>12. Cardinality(Before(d)) < BatchSize
  BY DEF Oldest
<1>13. Cardinality(Before(c)) < BatchSize
  BY <1>10, <1>11, <1>12, PublisherAssumption
<1> QED BY <1>6, <1>13 DEF Oldest

(* Fetching keeps the order. *)
LEMMA FetchOrder ==
  ASSUME PublisherInv, OrderInv, BeginDrain, nextXid <= XidModulus
  PROVE  OrderInv'
<1>1. /\ UNCHANGED <<changes, xid, held, status, topics, dead, gone>>
      /\ nextXid' = nextXid + 1 /\ batch' = Oldest(Fetchable)
  BY DEF BeginDrain
<1>2. xid \in [Requests -> Nat] /\ nextXid \in Nat
  BY ChangeFacts
<1>3. Stamped /\ Stamped' /\ dead = {}
  BY <1>1, <1>2 DEF OrderInv, Stamped
<1>4. ASSUME NEW d \in Fetchable PROVE Settled(d)
  BY <1>3, FetchableSettled
<1>5. ASSUME NEW d \in Oldest(Fetchable), NEW c \in changes, Older(c, d)
      PROVE  c \in Oldest(Fetchable) \/ InTopic(c)
  BY <1>5, FetchTakesOlder DEF PublisherInv, Older
<1>6. \A c, d : /\ Older(c, d)' <=> Older(c, d)
                /\ Settled(d)' <=> Settled(d)
                /\ InTopic(c)' <=> InTopic(c)
  BY <1>1 DEF Older, Settled, InTopic, Offsets, Active
<1>7. FetchedSettled'
  BY <1>1, <1>4, <1>6 DEF FetchedSettled, Oldest
<1>8. OlderAtHand'
  BY <1>1, <1>5, <1>6 DEF OlderAtHand
<1> QED BY <1>1, <1>3, <1>7, <1>8, SentPartKept DEF OrderInv

(* A step of the drain that sends nothing and drops from the batch nothing *)
(* that had to be sent, or all of it.                                      *)
LEMMA SilentOrder ==
  ASSUME OrderInv, UNCHANGED <<changes, xid, nextXid, held, status, dead, topics>>,
         batch' \subseteq batch,
         batch' = {} \/ \A c \in batch \ batch' : c.obj \in Unpublishable
  PROVE  OrderInv'
<1>1. \A c, d : /\ Older(c, d)' <=> Older(c, d)
                /\ Settled(d)' <=> Settled(d)
                /\ InTopic(c)' <=> InTopic(c)
  BY DEF Older, Settled, InTopic, Offsets, Active
<1>2. Stamped'
  BY DEF OrderInv, Stamped
<1>3. FetchedSettled'
  BY <1>1 DEF OrderInv, FetchedSettled
<1>4. OlderAtHand'
  <2> SUFFICES ASSUME NEW d \in batch', NEW c \in changes', Older(c, d)'
               PROVE  c \in batch' \/ InTopic(c)'
    BY DEF OlderAtHand
  <2>1. d \in batch /\ c \in changes /\ Older(c, d)
    BY <1>1
  <2>2. c \in batch \/ InTopic(c)
    BY <2>1 DEF OrderInv, OlderAtHand
  <2>3. c.obj \notin Unpublishable
    BY <2>1 DEF Older
  <2> QED BY <1>1, <2>2, <2>3
<1> QED BY <1>2, <1>3, <1>4, SentPartKept DEF OrderInv

(* What sending a change does to the topics. *)
Grows(u, b) ==
  /\ Len(topics'[u]) = Len(topics[u]) + 1
  /\ topics'[u][Len(topics[u]) + 1] = b
  /\ \A i \in 1 .. Len(topics[u]) : topics'[u][i] = topics[u][i]
  /\ \A t \in Tenants \ {u} : topics'[t] = topics[t]

(* The change sent becomes the last record of its topic. *)
LEMMA SentGrows ==
  ASSUME topics \in [Tenants -> Seq(Change)], NEW b \in Change, Sent(b)
  PROVE  Len(topics[TenantOf[b.obj]]) \in Nat /\ Grows(TenantOf[b.obj], b)
<1> DEFINE u == TenantOf[b.obj]
<1>1. u \in Tenants
  BY PublisherAssumption DEF Change
<1>2. topics[u] \in Seq(Change)
  BY <1>1
<1>3. topics'[u] = Append(topics[u], b) /\ \A t \in Tenants \ {u} : topics'[t] = topics[t]
  BY <1>1 DEF Sent
<1> HIDE DEF u
<1>4. Len(topics[u]) \in Nat /\ Grows(u, b)
  BY <1>2, <1>3 DEF Grows
<1> QED BY <1>4 DEF u

(* Sending the change of the batch with the smallest identifier. *)
LEMMA SendOrder ==
  ASSUME PublisherInv, OrderInv, UNCHANGED <<changes, xid, nextXid, held, status, dead>>,
         NEW b \in batch, \A d \in batch : b.id <= d.id, Sent(b),
         batch' = {} \/ batch' = batch \ {b}
  PROVE  OrderInv'
<1> DEFINE u == TenantOf[b.obj]
<1>1. b \in changes /\ b \in Change /\ u \in Tenants /\ topics \in [Tenants -> Seq(Change)]
  <2>1. b \in changes /\ b \in Change
    BY ChangeFacts
  <2> QED BY <2>1, PublisherAssumption DEF Change, PublisherInv
<1>2. /\ \A c \in Change : InTopic(c) => InTopic(c)'
      /\ InTopic(b)'
  BY <1>1, SentAppends
<1>3. \A c, d : /\ Older(c, d)' <=> Older(c, d)
                /\ Settled(d)' <=> Settled(d)
  BY DEF Older, Settled, Active
<1>4. Len(topics[u]) \in Nat /\ Grows(u, b)
  BY <1>1, SentGrows
<1>len. Len(topics[u]) \in Nat
  BY <1>4
<1> HIDE DEF u
<1>5. ASSUME NEW t \in Tenants, NEW j \in Offsets(t)'
      PROVE  \/ j \in Offsets(t) /\ \A i \in 1 .. j : topics'[t][i] = topics[t][i]
             \/ t = u /\ j = Len(topics[u]) + 1 /\ topics'[t][j] = b
  <2>1. CASE t = u
    <3>1. j \in 1 .. (Len(topics[u]) + 1)
      BY <1>4, <2>1 DEF Offsets, Grows
    <3>2. CASE j = Len(topics[u]) + 1
      BY <1>4, <2>1, <3>2 DEF Grows
    <3>3. CASE j \in 1 .. Len(topics[u])
      <4>1. \A i \in 1 .. j : i \in 1 .. Len(topics[u])
        BY <1>len, <3>3
      <4> QED BY <1>4, <2>1, <3>3, <4>1 DEF Offsets, Grows
    <3>4. j = Len(topics[u]) + 1 \/ j \in 1 .. Len(topics[u])
      BY <1>len, <3>1
    <3> QED BY <3>2, <3>3, <3>4
  <2>2. CASE t # u
    BY <1>4, <2>2 DEF Offsets, Grows
  <2> QED BY <2>1, <2>2
<1>6. Stamped'
  BY DEF OrderInv, Stamped
<1>7. FetchedSettled'
  BY <1>3 DEF OrderInv, FetchedSettled
<1>8. OlderAtHand'
  <2> SUFFICES ASSUME NEW d \in batch', NEW c \in changes', Older(c, d)'
               PROVE  c \in batch' \/ InTopic(c)'
    BY DEF OlderAtHand
  <2>1. d \in batch /\ c \in changes /\ Older(c, d)
    BY <1>3
  <2>2. c \in batch \/ InTopic(c)
    BY <2>1 DEF OrderInv, OlderAtHand
  <2>3. c \in Change
    BY <2>1, ChangeFacts
  <2> QED BY <1>2, <2>2, <2>3
<1>9. SentSettled'
  <2> SUFFICES ASSUME NEW t \in Tenants, NEW j \in Offsets(t)'
               PROVE  TenantOf[topics'[t][j].obj] = t /\ Settled(topics[t][j])'
    BY DEF SentSettled
  <2> DEFINE d == topics'[t][j]
  <2>1. TenantOf[d.obj] = t /\ Settled(d)
    <3>1. CASE j \in Offsets(t) /\ \A i \in 1 .. j : topics'[t][i] = topics[t][i]
      <4>1. topics'[t][j] = topics[t][j]
        BY <3>1 DEF Offsets
      <4> QED BY <3>1, <4>1 DEF OrderInv, SentSettled
    <3>2. CASE t = u /\ topics'[t][j] = b
      BY <3>2 DEF u, OrderInv, FetchedSettled
    <3> QED BY <1>5, <3>1, <3>2
  <2> QED BY <2>1 DEF Settled, Active
<1>10. OlderSent'
  <2> SUFFICES ASSUME NEW t \in Tenants, NEW j \in Offsets(t)', NEW c \in changes,
                      Older(c, topics[t][j])'
               PROVE  InOrder(t, j, c)'
    BY DEF OlderSent
  <2>1. CASE j \in Offsets(t) /\ \A i \in 1 .. j : topics'[t][i] = topics[t][i]
    <3>1. topics'[t][j] = topics[t][j] /\ j \in Nat /\ \A i \in 1 .. (j - 1) : i \in 1 .. j
      BY <2>1 DEF Offsets
    <3>2. Older(c, topics[t][j])
      BY <3>1 DEF Older
    <3>3. PICK i \in 1 .. (j - 1) : topics[t][i] = c
      BY <2>1, <3>2 DEF OrderInv, OlderSent, InOrder
    <3>4. topics'[t][i] = c
      BY <2>1, <3>1, <3>3
    <3> QED BY <3>4 DEF InOrder
  <2>2. CASE t = u /\ j = Len(topics[u]) + 1 /\ topics'[t][j] = b
    <3>1. Older(c, b)
      BY <2>2 DEF Older
    <3>2. c \notin batch
      <4>1. c.id < b.id /\ b.id \in Nat /\ c.id \in Nat
        BY <1>1, <3>1, ChangeFacts DEF Older
      <4> QED BY <4>1
    <3>3. InTopic(c) /\ TenantOf[c.obj] = u
      BY <3>1, <3>2 DEF u, OrderInv, OlderAtHand, Older
    <3>4. PICK i \in 1 .. Len(topics[u]) : topics[u][i] = c
      BY <3>3 DEF InTopic, Offsets
    <3>5. j - 1 = Len(topics[u])
      BY <1>len, <2>2
    <3>6. i \in 1 .. (j - 1) /\ topics'[t][i] = c
      BY <1>4, <2>2, <3>4, <3>5, Zenon DEF Grows
    <3> QED BY <3>6 DEF InOrder
  <2> QED BY <1>5, <2>1, <2>2
<1>11. IsFiniteSet(changes') /\ dead' = {}
  BY DEF OrderInv
<1> QED BY <1>6, <1>7, <1>8, <1>9, <1>10, <1>11 DEF OrderInv

(* A state without crash and wraparound comes from such a state. *)
LEMMA UndisturbedStep ==
  ASSUME PublisherInv, [Next]_vars, Undisturbed'
  PROVE  Undisturbed /\ nextXid' <= XidModulus /\ ~Crash
<1>1. /\ crashes \in Nat /\ nextXid \in Nat /\ XidModulus \in Nat
      /\ crashes' = 0 /\ nextXid' <= XidModulus
  BY StoreAssumption DEF PublisherInv, StoreInv, StoreTypeOK, Undisturbed
<1>2. ~Crash
  BY <1>1 DEF Crash
<1>3. crashes = 0 /\ nextXid <= nextXid'
  <2>1. CASE UNCHANGED vars
    <3>1. crashes' = crashes /\ nextXid' = nextXid
      BY <2>1 DEF vars, storeVars, publisherVars
    <3> QED BY <1>1, <3>1
  <2>2. CASE StoreNext /\ UNCHANGED publisherVars
    <3>1. StoreTypeOK /\ crashes' = crashes
      BY <2>2 DEF PublisherInv, StoreInv, publisherVars
    <3>2. nextXid' >= nextXid
      BY <2>2, <3>1, XidsGrow
    <3> QED BY <1>1, <3>1, <3>2
  <2>3. CASE PublisherNext
    <3>1. crashes' = crashes /\ (nextXid' = nextXid \/ nextXid' = nextXid + 1)
      BY <1>2, <2>3 DEF PublisherNext, BeginDrain, Process, ProcessChange, FailChange,
                        RollbackDrain, CommitDrain, FailCommit, ExpireSession, storeVars
    <3> QED BY <1>1, <3>1
  <2> QED BY <2>1, <2>2, <2>3 DEF Next
<1>4. Undisturbed
  <2>1. nextXid' \in Nat
    BY PublisherStep DEF PublisherInv, StoreInv, StoreTypeOK
  <2> QED BY <1>1, <1>3, <2>1 DEF Undisturbed
<1> QED BY <1>1, <1>2, <1>4

(* Until the first crash and the first wraparound, every step keeps the    *)
(* order.                                                                  *)
LEMMA OrderStep ==
  ASSUME PublisherInv, Undisturbed => OrderInv, [Next]_vars, Undisturbed'
  PROVE  OrderInv'
<1>1. nextXid' <= XidModulus
  BY UndisturbedStep
<1>2. ~Crash
  BY UndisturbedStep
<1>3. Undisturbed
  BY UndisturbedStep
<1>4. OrderInv
  BY <1>3
<1>5. CASE UNCHANGED vars
  BY <1>1, <1>4, <1>5, StoreStepOrder DEF vars
<1>6. CASE StoreNext /\ UNCHANGED publisherVars
  BY <1>1, <1>4, <1>6, StoreStepOrder
<1>7. CASE BeginDrain
  BY <1>3, <1>4, <1>7, FetchOrder DEF Undisturbed
<1>8. ASSUME NEW b \in batch, ProcessChange(b) \/ FailChange(b) PROVE OrderInv'
  <2>1. /\ UNCHANGED <<changes, xid, nextXid, held, status, dead>>
        /\ batch' = {} \/ batch' = batch \ {b}
        /\ \A d \in batch : b.id <= d.id
    BY <1>8 DEF ProcessChange, FailChange, RollbackDrain, storeVars
  <2>2. CASE Sent(b)
    BY <1>4, <2>1, <2>2, SendOrder
  <2>3. CASE UNCHANGED topics /\ ~Sent(b)
    <3>1. batch' = {} \/ b.obj \in Unpublishable
      BY <1>8, <2>3 DEF ProcessChange, FailChange, RollbackDrain
    <3> QED BY <1>4, <2>1, <2>3, <3>1, SilentOrder
  <2> QED BY <1>8, <2>2, <2>3 DEF ProcessChange, FailChange
<1>9. CASE CommitDrain \/ FailCommit
  BY <1>4, <1>9, SilentOrder DEF CommitDrain, FailCommit, RollbackDrain, storeVars
<1>10. ~ExpireSession
  BY <1>4 DEF ExpireSession, OrderInv
<1> QED BY <1>2, <1>5, <1>6, <1>7, <1>8, <1>9, <1>10 DEF Next, PublisherNext, Process

(* At first there is nothing to order. *)
LEMMA OrderStart == Init => OrderInv
<1> SUFFICES ASSUME Init PROVE OrderInv
  OBVIOUS
<1>1. /\ changes = {} /\ dead = {} /\ batch = {} /\ nextXid > 0
      /\ xid = [r \in Requests |-> 0] /\ held = [r \in Requests |-> {}]
      /\ topics = [t \in Tenants |-> <<>>]
  BY StoreAssumption DEF Init, StoreInit
<1>2. \A t \in Tenants : Offsets(t) = {}
  BY <1>1 DEF Offsets
<1>3. Stamped
  BY <1>1 DEF Stamped
<1>4. FetchedSettled /\ SentSettled /\ OlderAtHand /\ OlderSent
  BY <1>1, <1>2 DEF FetchedSettled, SentSettled, OlderAtHand, OlderSent
<1> QED BY <1>1, <1>3, <1>4, FS_EmptySet DEF OrderInv

(* Of two changes in the same topic, the one with the smaller identifier   *)
(* and the older transaction is published first: the xmin filter of        *)
(* calculateFetchSQL does what it is for, until a publisher dies with its  *)
(* session open or transaction identifiers wrap around.                    *)
THEOREM OlderFirst == Spec => [](Undisturbed => OlderTransactionFirst)
<1>1. Init => OrderInv
  BY OrderStart
<1>2. PublisherInv /\ (Undisturbed => OrderInv) /\ [Next]_vars => (Undisturbed => OrderInv)'
  BY OrderStep
<1>3. PublisherInv /\ (Undisturbed => OrderInv) => (Undisturbed => OlderTransactionFirst)
  <2> SUFFICES ASSUME OrderInv, NEW t \in Tenants, NEW j \in Offsets(t), NEW c \in changes,
                      NEW d, d = topics[t][j],
                      TenantOf[c.obj] = t, c.obj \notin Unpublishable,
                      c.id < d.id, xid[c.req] <= xid[d.req]
               PROVE  \E i \in 1 .. (j - 1) : topics[t][i] = c
    BY DEF OlderTransactionFirst
  <2>1. Older(c, topics[t][j])
    BY DEF OrderInv, SentSettled, Older
  <2>2. InOrder(t, j, c)
    BY <2>1 DEF OrderInv, OlderSent
  <2> QED BY <2>2 DEF InOrder
<1> QED BY <1>1, <1>2, <1>3, PublisherInvariant, PTL DEF Spec
=============================================================================
