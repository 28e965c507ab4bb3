--------------------- MODULE PublisherConvergenceProofs ---------------------
(***************************************************************************)
(* Why a consumer that keeps the last record of each key ends with the     *)
(* table although batches are sent again: a change is deleted from the     *)
(* outbox only after it was sent behind every record older than it.  For   *)
(* any number of requests, objects, tenants and failed drains, under the   *)
(* conditions of PublisherOrderProofs.                                     *)
(***************************************************************************)
EXTENDS PublisherOrderProofs

Taken == batch \cup doomed \cup gone

SentAfter(t, j, d) == \E k \in Offsets(t) : k > j /\ topics[t][k] = d

(* A change that was deleted has all older ones deleted with it or before  *)
(* it, a drain that holds a change holds or finds deleted all older ones,  *)
(* and a deleted change was sent after every record older than it, the     *)
(* resent ones included.                                                   *)
OlderGone == \A d \in gone, c \in changes : Older(c, d) => c \in gone

OlderTaken == \A d \in batch \cup doomed, c \in changes : Older(c, d) => c \in Taken

DoomedInOrder == \A c \in doomed, d \in batch : c.id <= d.id

LastSent ==
  \A t \in Tenants : \A j \in Offsets(t) : \A d \in doomed \cup gone :
    Older(topics[t][j], d) /\ d.obj \notin Unpublishable => SentAfter(t, j, d)

FinalInv == OlderGone /\ OlderTaken /\ DoomedInOrder /\ LastSent

(* The records sent so far are changes, so Older compares numbers. *)
LEMMA OlderIsSmaller ==
  ASSUME PublisherInv, NEW c \in changes, NEW d \in changes, Older(c, d)
  PROVE  c.id < d.id /\ c.id \in Nat /\ d.id \in Nat
BY ChangeFacts DEF Older

(* A step of the store adds only changes that are younger than all fetched *)
(* and deleted ones.                                                       *)
LEMMA StoreStepFinal ==
  ASSUME PublisherInv, OrderInv, FinalInv, [StoreNext]_storeVars, UNCHANGED publisherVars
  PROVE  FinalInv'
<1>1. StoreEffect
  BY StoreStepEffect DEF PublisherInv, OrderInv, Stamped
<1>2. PublisherInv'
  BY StoreStepKeeps
<1>3. UNCHANGED <<batch, doomed, gone, topics>>
  BY DEF publisherVars
<1>4. \A d \in changes, c \in changes' : Older(c, d)' => c \in changes /\ Older(c, d)
  BY <1>1, <1>2, StoreKeepsOlder
<1>5. batch \subseteq changes /\ doomed \subseteq changes /\ gone \subseteq changes
  BY DEF PublisherInv, CommittedOutbox
<1>6. OlderGone'
  <2> SUFFICES ASSUME NEW d \in gone', NEW c \in changes', Older(c, d)' PROVE c \in gone'
    BY DEF OlderGone
  <2>1. d \in gone /\ d \in changes
    BY <1>3, <1>5
  <2>2. c \in changes /\ Older(c, d)
    BY <1>4, <2>1
  <2> QED BY <1>3, <2>1, <2>2 DEF FinalInv, OlderGone
<1>7. OlderTaken'
  <2> SUFFICES ASSUME NEW d \in (batch \cup doomed)', NEW c \in changes', Older(c, d)'
               PROVE  c \in Taken'
    BY DEF OlderTaken
  <2>1. d \in batch \cup doomed /\ d \in changes
    BY <1>3, <1>5
  <2>2. c \in changes /\ Older(c, d)
    BY <1>4, <2>1
  <2>3. c \in Taken
    BY <2>1, <2>2 DEF FinalInv, OlderTaken
  <2> QED BY <1>3, <2>3 DEF Taken
<1>8. DoomedInOrder'
  BY <1>3 DEF FinalInv, DoomedInOrder
<1>9. LastSent'
  <2> SUFFICES ASSUME NEW t \in Tenants, NEW j \in Offsets(t)', NEW d \in (doomed \cup gone)',
                      Older(topics[t][j], d)', d.obj \notin Unpublishable
               PROVE  SentAfter(t, j, d)'
    BY DEF LastSent
  <2>1. j \in Offsets(t) /\ topics' = topics /\ d \in doomed \cup gone /\ d \in changes
    BY <1>3, <1>5 DEF Offsets
  <2>2. PICK c \in changes : c = topics[t][j]
    BY <2>1, ChangeFacts
  <2>3. c \in changes' /\ Older(c, d)'
    <3>1. topics'[t][j] \in changes'
      BY <1>2 DEF PublisherInv, NoPhantomEvents
    <3> QED BY <2>1, <2>2, <3>1 DEF Older
  <2>4. Older(topics[t][j], d)
    BY <1>4, <2>1, <2>2, <2>3
  <2>5. SentAfter(t, j, d)
    BY <2>1, <2>4 DEF FinalInv, LastSent
  <2> QED BY <2>1, <2>5 DEF SentAfter, Offsets
<1> QED BY <1>6, <1>7, <1>8, <1>9 DEF FinalInv

(* What is older than what does not change while transactions do not. *)
LEMMA OlderKept ==
  ASSUME UNCHANGED xid
  PROVE  \A c, d : Older(c, d)' <=> Older(c, d)
BY DEF Older

(* Records stay where they are while nothing is sent. *)
LEMMA LastSentKept ==
  ASSUME LastSent, UNCHANGED <<xid, topics>>, (doomed \cup gone)' \subseteq doomed \cup gone
  PROVE  LastSent'
<1> SUFFICES ASSUME NEW t \in Tenants, NEW j \in Offsets(t)', NEW d \in (doomed \cup gone)',
                    Older(topics[t][j], d)', d.obj \notin Unpublishable
             PROVE  SentAfter(t, j, d)'
  BY DEF LastSent
<1>1. j \in Offsets(t) /\ d \in doomed \cup gone
  BY DEF Offsets
<1>2. Older(topics[t][j], d)
  BY DEF Older
<1>3. SentAfter(t, j, d)
  BY <1>1, <1>2 DEF LastSent
<1> QED BY <1>3 DEF SentAfter, Offsets

(* Fetching takes all that is older. *)
LEMMA FetchFinal ==
  ASSUME PublisherInv, OrderInv, FinalInv, BeginDrain
  PROVE  FinalInv'
<1>1. /\ UNCHANGED <<changes, xid, gone, topics, doomed>> /\ doomed = {}
      /\ batch' = Oldest(Fetchable)
  BY DEF BeginDrain, PublisherInv
<1>2. OlderGone'
  BY <1>1, OlderKept DEF FinalInv, OlderGone
<1>3. OlderTaken'
  <2> SUFFICES ASSUME NEW d \in (batch \cup doomed)', NEW c \in changes', Older(c, d)'
               PROVE  c \in Taken'
    BY DEF OlderTaken
  <2>1. d \in Oldest(Fetchable) /\ c \in changes /\ Older(c, d)
    BY <1>1, OlderKept
  <2>2. c \in Oldest(Fetchable) \/ c \in gone
    BY <2>1, FetchTakesOlder
  <2> QED BY <1>1, <2>2 DEF Taken
<1>4. DoomedInOrder'
  BY <1>1 DEF DoomedInOrder
<1>5. LastSent'
  BY <1>1, LastSentKept DEF FinalInv
<1> QED BY <1>2, <1>3, <1>4, <1>5 DEF FinalInv

(* A drain that is rolled back, with nothing sent, leaves only what was    *)
(* deleted before it; a commit deletes with a change all older ones.       *)
LEMMA EndFinal ==
  ASSUME FinalInv, UNCHANGED <<changes, xid, topics>>, batch' = {}, doomed' = {},
         gone' = gone \/ (batch = {} /\ gone' = gone \cup doomed)
  PROVE  FinalInv'
<1>1. OlderGone'
  <2> SUFFICES ASSUME NEW d \in gone', NEW c \in changes', Older(c, d)' PROVE c \in gone'
    BY DEF OlderGone
  <2>1. c \in changes /\ Older(c, d)
    BY OlderKept
  <2>2. CASE d \in gone
    BY <2>1, <2>2 DEF FinalInv, OlderGone
  <2>3. CASE d \in doomed /\ batch = {} /\ gone' = gone \cup doomed
    BY <2>1, <2>3 DEF FinalInv, OlderTaken, Taken
  <2> QED BY <2>2, <2>3
<1>2. OlderTaken' /\ DoomedInOrder'
  BY DEF OlderTaken, DoomedInOrder
<1>3. LastSent'
  BY LastSentKept DEF FinalInv
<1> QED BY <1>1, <1>2, <1>3 DEF FinalInv

(* Deleting a change that cannot be converted. *)
LEMMA SkipFinal ==
  ASSUME PublisherInv, FinalInv, UNCHANGED <<changes, xid, gone, topics>>,
         NEW b \in batch, b.obj \in Unpublishable, \A d \in batch : b.id <= d.id,
         batch' = batch \ {b}, doomed' = doomed \cup {b}
  PROVE  FinalInv'
<1>1. OlderGone'
  BY OlderKept DEF FinalInv, OlderGone
<1>2. OlderTaken'
  BY OlderKept DEF FinalInv, OlderTaken, Taken
<1>3. DoomedInOrder'
  BY DEF FinalInv, DoomedInOrder
<1>4. LastSent'
  <2> SUFFICES ASSUME NEW t \in Tenants, NEW j \in Offsets(t)', NEW d \in (doomed \cup gone)',
                      Older(topics[t][j], d)', d.obj \notin Unpublishable
               PROVE  SentAfter(t, j, d)'
    BY DEF LastSent
  <2>1. j \in Offsets(t) /\ d \in doomed \cup gone
    BY DEF Offsets
  <2>2. Older(topics[t][j], d)
    BY DEF Older
  <2>3. SentAfter(t, j, d)
    BY <2>1, <2>2 DEF FinalInv, LastSent
  <2> QED BY <2>3 DEF SentAfter, Offsets
<1> QED BY <1>1, <1>2, <1>3, <1>4 DEF FinalInv

(* Sending the change of the batch with the smallest identifier: nothing   *)
(* that has been deleted is younger, so the new record overtakes nothing.  *)
LEMMA SendFinal ==
  ASSUME PublisherInv, OrderInv, FinalInv, UNCHANGED <<changes, xid, gone>>,
         NEW b \in batch, b.obj \notin Unpublishable, \A d \in batch : b.id <= d.id, Sent(b),
         \/ batch' = batch \ {b} /\ doomed' = doomed \cup {b}
         \/ batch' = {} /\ doomed' = {}
  PROVE  FinalInv'
<1> DEFINE u == TenantOf[b.obj]
           n == Len(topics[u]) + 1
<1>1. b \in changes /\ b \in Change /\ u \in Tenants /\ topics \in [Tenants -> Seq(Change)]
  <2>1. b \in changes /\ b \in Change
    BY ChangeFacts
  <2> QED BY <2>1, PublisherAssumption DEF Change, PublisherInv
<1>2. Len(topics[u]) \in Nat /\ Grows(u, b)
  BY <1>1, SentGrows
<1> HIDE DEF u
<1>3. n \in Nat /\ n \in Offsets(u)' /\ \A i \in Offsets(u) : i \in Nat /\ i < n /\ i \in Offsets(u)'
  BY <1>2 DEF Offsets, Grows
<1>4. \A t \in Tenants : \A i \in Offsets(t) : i \in Offsets(t)' /\ topics'[t][i] = topics[t][i]
  BY <1>2, <1>3 DEF Offsets, Grows
<1>5. \A t \in Tenants : \A j \in Offsets(t)' : j \in Offsets(t) \/ (t = u /\ j = n)
  BY <1>2 DEF Offsets, Grows
<1>6. \A d \in doomed \cup gone : d \in changes
  BY DEF PublisherInv, CommittedOutbox
<1>7. \A d \in doomed \cup gone : ~Older(b, d)
  <2> SUFFICES ASSUME NEW d \in doomed \cup gone, Older(b, d) PROVE FALSE
    OBVIOUS
  <2>1. d \notin gone
    BY <1>1 DEF FinalInv, OlderGone, PublisherInv
  <2>2. d.id <= b.id
    BY <2>1 DEF FinalInv, DoomedInOrder
  <2>3. b.id < d.id /\ b.id \in Nat /\ d.id \in Nat
    BY <1>1, <1>6, OlderIsSmaller
  <2> QED BY <2>2, <2>3
<1>8. OlderGone'
  BY OlderKept DEF FinalInv, OlderGone
<1>9. OlderTaken'
  BY OlderKept DEF FinalInv, OlderTaken, Taken
<1>10. DoomedInOrder'
  BY DEF FinalInv, DoomedInOrder
<1>11. LastSent'
  <2> SUFFICES ASSUME NEW t \in Tenants, NEW j \in Offsets(t)', NEW d \in (doomed \cup gone)',
                      Older(topics[t][j], d)', d.obj \notin Unpublishable
               PROVE  \E k \in Offsets(t)' : k > j /\ topics'[t][k] = d
    BY DEF LastSent, SentAfter
  <2>1. d \in doomed \cup gone \/ d = b
    OBVIOUS
  <2>2. d \in changes
    BY <1>1, <1>6, <2>1
  <2>3. CASE j \in Offsets(t)
    <3>1. Older(topics[t][j], d)
      BY <1>4, <2>3 DEF Older
    <3>2. CASE d \in doomed \cup gone
      <4>1. PICK k \in Offsets(t) : k > j /\ topics[t][k] = d
        BY <2>3, <3>1, <3>2 DEF FinalInv, LastSent, SentAfter
      <4> QED BY <1>4, <4>1
    <3>3. CASE d = b
      <4>1. t = u
        <5>1. TenantOf[topics[t][j].obj] = t
          BY <2>3 DEF OrderInv, SentSettled
        <5> QED BY <3>1, <3>3, <5>1 DEF u, Older
      <4> QED BY <1>2, <1>3, <2>3, <3>3, <4>1 DEF Grows
    <3> QED BY <2>1, <3>2, <3>3
  <2>4. CASE t = u /\ j = n
    <3>1. topics'[t][j] = b
      BY <1>2, <2>4 DEF Grows
    <3>2. Older(b, d)
      BY <3>1 DEF Older
    <3>3. d # b
      BY <1>1, <3>2, OlderIsSmaller
    <3> QED BY <1>7, <2>1, <3>2, <3>3
  <2> QED BY <1>5, <2>3, <2>4
<1> QED BY <1>8, <1>9, <1>10, <1>11 DEF FinalInv

(* Until the first crash and the first wraparound, every step keeps it. *)
LEMMA FinalStep ==
  ASSUME PublisherInv, Undisturbed => OrderInv /\ FinalInv, [Next]_vars, Undisturbed'
  PROVE  FinalInv'
<1>1. Undisturbed /\ ~Crash
  BY UndisturbedStep
<1>2. OrderInv /\ FinalInv
  BY <1>1
<1>3. CASE UNCHANGED vars
  BY <1>2, <1>3, StoreStepFinal DEF vars
<1>4. CASE StoreNext /\ UNCHANGED publisherVars
  BY <1>2, <1>4, StoreStepFinal
<1>5. CASE BeginDrain
  BY <1>2, <1>5, FetchFinal
<1>6. ASSUME NEW b \in batch, ProcessChange(b) PROVE FinalInv'
  <2>1. UNCHANGED <<changes, xid, gone>> /\ (\A d \in batch : b.id <= d.id)
        /\ batch' = batch \ {b} /\ doomed' = doomed \cup {b}
    BY <1>6 DEF ProcessChange, storeVars
  <2>2. CASE b.obj \in Unpublishable
    BY <1>2, <1>6, <2>1, <2>2, SkipFinal DEF ProcessChange
  <2>3. CASE b.obj \notin Unpublishable
    BY <1>2, <1>6, <2>1, <2>3, SendFinal DEF ProcessChange
  <2> QED BY <2>2, <2>3
<1>7. ASSUME NEW b \in batch, FailChange(b) PROVE FinalInv'
  <2>1. UNCHANGED <<changes, xid, gone>> /\ (\A d \in batch : b.id <= d.id)
        /\ batch' = {} /\ doomed' = {}
    BY <1>7 DEF FailChange, RollbackDrain, storeVars
  <2>2. CASE UNCHANGED topics
    BY <1>2, <2>1, <2>2, EndFinal
  <2>3. CASE b.obj \notin Unpublishable /\ Sent(b)
    BY <1>2, <2>1, <2>3, SendFinal
  <2> QED BY <1>7, <2>2, <2>3 DEF FailChange
<1>8. CASE CommitDrain \/ FailCommit
  <2>1. UNCHANGED <<changes, xid, topics>> /\ batch' = {} /\ doomed' = {}
        /\ (gone' = gone \/ (batch = {} /\ gone' = gone \cup doomed))
    BY <1>8 DEF CommitDrain, FailCommit, RollbackDrain, storeVars
  <2> QED BY <1>2, <2>1, EndFinal
<1>9. ~ExpireSession
  BY <1>2 DEF ExpireSession, OrderInv
<1> QED BY <1>1, <1>3, <1>4, <1>5, <1>6, <1>7, <1>8, <1>9 DEF Next, PublisherNext, Process

(* The last record of a quiet object is its newest change. *)
LEMMA LastIsNewest ==
  ASSUME PublisherInv, OrderInv, FinalInv
  PROVE  ConsumersConverge
<1> SUFFICES ASSUME NEW o \in Objects \ Unpublishable, Quiet(o), InXidOrder(o)
             PROVE  LastRecordIsRow(o)
  BY DEF ConsumersConverge
<1> DEFINE t == TenantOf[o]
<1> SUFFICES ASSUME NEW i \in Offsets(t), topics[t][i].obj = o,
                    \A j \in Offsets(t) : topics[t][j].obj = o => j <= i
             PROVE  rows[o] = Content(topics[t][i])
  BY DEF LastRecordIsRow
<1>0. \A c \in changes : c.id \in Nat
  BY ChangeFacts
<1>off. \A j \in Offsets(t) : j \in Nat
  BY DEF Offsets
<1>1. t \in Tenants
  BY PublisherAssumption
<1> HIDE DEF t
<1>2. PICK d \in changes : d = topics[t][i] /\ d.obj = o /\ IsCommitted(d)
  BY <1>1, ChangeFacts
<1>3. ASSUME NEW e \in changes, IsCommitted(e), e.obj = o PROVE e.id <= d.id
  <2> SUFFICES ASSUME ~(e.id <= d.id) PROVE FALSE
    OBVIOUS
  <2>1. d.id < e.id
    BY <1>0
  <2>2. d \in CommittedChanges(o) /\ e \in CommittedChanges(o)
    BY <1>2, <1>3 DEF CommittedChanges
  <2>3. Older(d, e)
    BY <1>2, <1>3, <2>1, <2>2 DEF InXidOrder, Older
  <2>4. e \in gone
    BY <2>2 DEF Quiet
  <2>5. Older(topics[t][i], e) /\ e \in doomed \cup gone /\ e.obj \notin Unpublishable
    BY <1>2, <1>3, <2>3, <2>4
  <2>6. SentAfter(t, i, e)
    BY <1>1, <2>5 DEF FinalInv, LastSent
  <2>7. PICK k \in Offsets(t) : k > i /\ topics[t][k] = e
    BY <2>6 DEF SentAfter
  <2>8. k <= i
    BY <1>3, <2>7
  <2> QED BY <1>off, <2>7, <2>8
<1> QED BY <1>2, <1>3 DEF PublisherInv, StoreInv, OutboxMatchesRows

(* A consumer that keeps the last record of each key ends with the table:  *)
(* once nothing of an object is left in the outbox, its last record is its *)
(* row, however often batches were sent again, if the transactions that    *)
(* changed it got their identifiers in that order (drain, processChange,   *)
(* calculateFetchSQL).                                                     *)
THEOREM LastRecordIsTheRow == Spec => [](Undisturbed => ConsumersConverge)
<1>1. Init => OrderInv /\ FinalInv
  BY OrderStart
     DEF Init, StoreInit, FinalInv, OlderGone, OlderTaken, DoomedInOrder, LastSent
<1>2. PublisherInv /\ (Undisturbed => OrderInv /\ FinalInv) /\ [Next]_vars
        => (Undisturbed => OrderInv /\ FinalInv)'
  BY OrderStep, FinalStep
<1>3. PublisherInv /\ (Undisturbed => OrderInv /\ FinalInv) => (Undisturbed => ConsumersConverge)
  BY LastIsNewest
<1> QED BY <1>1, <1>2, <1>3, PublisherInvariant, PTL DEF Spec
=============================================================================
