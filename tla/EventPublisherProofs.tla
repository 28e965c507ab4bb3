------------------------ MODULE EventPublisherProofs ------------------------
(***************************************************************************)
(* Proofs about the event publisher composed with the object store: it     *)
(* publishes only committed changes and loses none, for any number of      *)
(* requests, tenants, failures and crashes and for every batch size.       *)
(***************************************************************************)
EXTENDS EventPublisher, ObjectStoreProofs

(* Everything the publisher has fetched, deleted, sent or locked is a      *)
(* committed change, and everything it has deleted was sent first.         *)
PublisherInv ==
  /\ StoreInv
  /\ nextXid > 0
  /\ draining \in Nat /\ failures \in Nat /\ crashes \in Nat
  /\ topics \in [Tenants -> Seq(Change)]
  /\ batch \subseteq CommittedOutbox
  /\ doomed \subseteq CommittedOutbox
  /\ gone \subseteq CommittedOutbox
  /\ dead \subseteq [xid : Nat, locked : SUBSET CommittedOutbox]
  /\ batch \cap (doomed \cup gone) = {}
  /\ draining = 0 => batch = {} /\ doomed = {}
  /\ NoPhantomEvents
  /\ \A c \in doomed \cup gone : c.obj \in Unpublishable \/ InTopic(c)

(* No step of the store takes back a committed change. *)
LEMMA CommittedStays ==
  ASSUME StoreInv, [StoreNext]_storeVars
  PROVE  CommittedOutbox \subseteq CommittedOutbox'
<1> SUFFICES ASSUME NEW c \in changes, IsCommitted(c) PROVE c \in changes' /\ IsCommitted(c)'
  BY DEF CommittedOutbox
<1> USE DEF IsCommitted
<1>1. c.req \in Requests /\ status \in [Requests -> {"open", "failed", "committed", "rolledback"}]
  BY DEF StoreInv, StoreTypeOK, Change
<1>2. CASE UNCHANGED storeVars
  BY <1>2 DEF storeVars
<1>3. ASSUME NEW r \in Requests, status[r] = "open", ReportError(r)
      PROVE  c \in changes' /\ IsCommitted(c)'
  BY <1>1, <1>3 DEF ReportError
<1>4. ASSUME NEW r \in Requests, NEW o \in Objects, RequestStep(r, o)
      PROVE  c \in changes' /\ IsCommitted(c)'
  <2>1. CASE ReportError(r)
    <3>1. status[r] = "open"
      BY <1>4 DEF RequestStep, ClientGet, Create, GetForUpdate, Update, Delete, Signal, Working
    <3> QED BY <1>3, <2>1, <3>1
  <2>2. CASE ~ReportError(r)
    <3>1. status' = status /\ changes \subseteq changes'
      BY <1>4, <2>2 DEF RequestStep, ClientGet, Create, GetForUpdate, Update, Delete, Signal,
                        WriteRow, ArchiveRow, SaveRow
    <3> QED BY <3>1
  <2> QED BY <2>1, <2>2
<1>5. ASSUME NEW r \in Requests, Refuse(r) PROVE c \in changes' /\ IsCommitted(c)'
  BY <1>3, <1>5 DEF Refuse, Working
<1>6. ASSUME NEW r \in Requests, Commit(r) \/ Rollback(r) PROVE c \in changes' /\ IsCommitted(c)'
  BY <1>1, <1>6 DEF Commit, Rollback
<1> QED BY <1>2, <1>4, <1>5, <1>6 DEF StoreNext

(* Transaction identifiers are handed out in increasing order. *)
LEMMA XidsGrow ==
  ASSUME StoreTypeOK, [StoreNext]_storeVars
  PROVE  nextXid' >= nextXid
<1>1. nextXid \in Nat
  BY DEF StoreTypeOK
<1>2. ASSUME NEW r \in Requests, NEW o \in Objects, RequestStep(r, o)
      PROVE  nextXid' = nextXid \/ nextXid' = nextXid + 1
  <2>1. CASE ReportError(r) \/ LockRow(r, o)
    BY <2>1 DEF ReportError, LockRow
  <2>2. CASE UNCHANGED nextXid
    BY <2>2
  <2> QED BY <1>2, <2>1, <2>2 DEF RequestStep, ClientGet, Create, GetForUpdate, Update, Delete, Signal
<1>3. ASSUME NEW r \in Requests, Refuse(r) \/ Commit(r) \/ Rollback(r)
      PROVE  nextXid' = nextXid
  BY <1>3 DEF Refuse, ReportError, Commit, Rollback
<1>4. nextXid' = nextXid \/ nextXid' = nextXid + 1
  BY <1>2, <1>3 DEF StoreNext, storeVars
<1> QED BY <1>1, <1>4

(* Sending a change appends it to its topic and keeps every record. *)
LEMMA SentAppends ==
  ASSUME topics \in [Tenants -> Seq(Change)], NEW c \in Change, Sent(c)
  PROVE  /\ topics' \in [Tenants -> Seq(Change)]
         /\ InTopic(c)'
         /\ \A d \in Change : InTopic(d) => InTopic(d)'
         /\ \A t \in Tenants : \A i \in Offsets(t)' :
              topics'[t][i] = c \/ \E j \in Offsets(t) : topics'[t][i] = topics[t][j]
<1> DEFINE u == TenantOf[c.obj]
<1>1. u \in Tenants /\ topics[u] \in Seq(Change)
  BY PublisherAssumption DEF Change
<1>2. topics' = [topics EXCEPT ![u] = Append(topics[u], c)]
  BY DEF Sent
<1>3. /\ Append(topics[u], c) \in Seq(Change)
      /\ Len(Append(topics[u], c)) = Len(topics[u]) + 1
      /\ Append(topics[u], c)[Len(topics[u]) + 1] = c
      /\ \A i \in 1 .. Len(topics[u]) : Append(topics[u], c)[i] = topics[u][i]
      /\ Len(topics[u]) \in Nat
  BY <1>1
<1>4. topics'[u] = Append(topics[u], c) /\ \A t \in Tenants \ {u} : topics'[t] = topics[t]
  BY <1>1, <1>2
<1>5. topics' \in [Tenants -> Seq(Change)]
  BY <1>1, <1>2, <1>3
<1>6. InTopic(c)'
  BY <1>3, <1>4 DEF InTopic, Offsets
<1>7. ASSUME NEW d \in Change, InTopic(d) PROVE InTopic(d)'
  <2>1. TenantOf[d.obj] \in Tenants
    BY PublisherAssumption DEF Change
  <2>2. PICK i \in 1 .. Len(topics[TenantOf[d.obj]]) : topics[TenantOf[d.obj]][i] = d
    BY <1>7 DEF InTopic, Offsets
  <2>3. CASE TenantOf[d.obj] = u
    <3>1. i \in 1 .. Len(topics'[u]) /\ topics'[u][i] = d
      BY <1>3, <1>4, <2>2, <2>3
    <3> QED BY <2>3, <3>1 DEF InTopic, Offsets
  <2>4. CASE TenantOf[d.obj] # u
    <3>1. topics'[TenantOf[d.obj]] = topics[TenantOf[d.obj]]
      BY <1>4, <2>1, <2>4
    <3> QED BY <2>2, <3>1 DEF InTopic, Offsets
  <2> QED BY <2>3, <2>4
<1>8. ASSUME NEW t \in Tenants, NEW i \in 1 .. Len(topics'[t])
      PROVE  topics'[t][i] = c \/ \E j \in 1 .. Len(topics[t]) : topics'[t][i] = topics[t][j]
  <2>1. CASE t = u
    <3>1. i = Len(topics[u]) + 1 \/ i \in 1 .. Len(topics[u])
      BY <1>3, <1>4, <2>1
    <3> QED BY <1>3, <1>4, <2>1, <3>1
  <2>2. CASE t # u
    BY <1>4, <2>2
  <2> QED BY <2>1, <2>2
<1> QED BY <1>5, <1>6, <1>7, <1>8 DEF Offsets

(* A step of the store. *)
LEMMA StoreStepKeeps ==
  ASSUME PublisherInv, [StoreNext]_storeVars, UNCHANGED publisherVars
  PROVE  PublisherInv'
<1> USE DEF PublisherInv
<1>1. StoreInv' /\ nextXid' > 0
  BY InvStep, XidsGrow DEF StoreInv, StoreTypeOK
<1>2. CommittedOutbox \subseteq CommittedOutbox'
  BY CommittedStays
<1>3. UNCHANGED <<draining, batch, doomed, gone, topics, dead, failures, crashes>>
  BY DEF publisherVars
<1>4. NoPhantomEvents'
  <2> SUFFICES ASSUME NEW t \in Tenants, NEW i \in 1 .. Len(topics[t])
               PROVE  topics[t][i] \in CommittedOutbox'
    BY <1>3 DEF NoPhantomEvents, Offsets, CommittedOutbox, IsCommitted
  <2>1. topics[t][i] \in CommittedOutbox
    BY DEF NoPhantomEvents, Offsets, CommittedOutbox, IsCommitted
  <2> QED BY <1>2, <2>1
<1>5. \A c \in doomed' \cup gone' : c.obj \in Unpublishable \/ InTopic(c)'
  BY <1>3 DEF InTopic, Offsets
<1>6. dead' \subseteq [xid : Nat, locked : SUBSET CommittedOutbox']
  BY <1>2, <1>3
<1> QED BY <1>1, <1>2, <1>3, <1>4, <1>5, <1>6

(* A step of the publisher that leaves the store alone, sends no change    *)
(* that is not committed, and deletes only what was sent.                  *)
LEMMA DrainStepKeeps ==
  ASSUME PublisherInv, UNCHANGED storeVars,
         draining' \in Nat, failures' \in Nat, crashes' \in Nat,
         batch' \subseteq CommittedOutbox, doomed' \subseteq CommittedOutbox,
         gone' \subseteq CommittedOutbox, batch' \cap (doomed' \cup gone') = {},
         draining' = 0 => batch' = {} /\ doomed' = {},
         dead' \subseteq [xid : Nat, locked : SUBSET CommittedOutbox],
         UNCHANGED topics \/ \E c \in CommittedOutbox : Sent(c),
         \A c \in doomed' \cup gone' : c.obj \in Unpublishable \/ InTopic(c) \/ Sent(c)
  PROVE  PublisherInv'
<1> USE DEF PublisherInv
<1>1. StoreInv' /\ nextXid' > 0
  <2>1. [StoreNext]_storeVars
    OBVIOUS
  <2> QED BY <2>1, InvStep DEF storeVars
<1>2. CommittedOutbox' = CommittedOutbox /\ CommittedOutbox \subseteq Change
  BY DEF storeVars, CommittedOutbox, IsCommitted, StoreInv, StoreTypeOK
<1>3. /\ topics' \in [Tenants -> Seq(Change)]
      /\ \A c \in Change : InTopic(c) \/ Sent(c) => InTopic(c)'
  <2>1. CASE UNCHANGED topics
    <3>1. \A c \in Change : Sent(c) => InTopic(c)'
      BY SentAppends
    <3> QED BY <2>1, <3>1 DEF InTopic, Offsets
  <2>2. CASE \E c \in CommittedOutbox : Sent(c)
    BY <1>2, <2>2, SentAppends
  <2> QED BY <2>1, <2>2
<1>4. NoPhantomEvents'
  <2> SUFFICES ASSUME NEW t \in Tenants, NEW i \in Offsets(t)'
               PROVE  topics'[t][i] \in CommittedOutbox
    BY <1>2 DEF NoPhantomEvents, CommittedOutbox, IsCommitted, storeVars
  <2>1. \A j \in Offsets(t) : topics[t][j] \in CommittedOutbox
    BY DEF NoPhantomEvents, CommittedOutbox, IsCommitted
  <2>2. CASE UNCHANGED topics
    BY <2>1, <2>2 DEF Offsets
  <2>3. CASE \E c \in CommittedOutbox : Sent(c)
    BY <1>2, <2>1, <2>3, SentAppends
  <2> QED BY <2>2, <2>3
<1>5. \A c \in doomed' \cup gone' : c.obj \in Unpublishable \/ InTopic(c)'
  BY <1>2, <1>3
<1> QED BY <1>1, <1>2, <1>3, <1>4, <1>5

(* Beginning a drain takes a transaction identifier and fetches committed  *)
(* changes.                                                                *)
LEMMA BeginDrainKeeps ==
  ASSUME PublisherInv, BeginDrain
  PROVE  PublisherInv'
<1> USE DEF PublisherInv
<1>1. StoreInv'
  <2>1. StoreTypeOK' /\ UNCHANGED <<rows, status, held, image, changes, nextId>>
    BY DEF BeginDrain, StoreInv, StoreTypeOK
  <2> QED BY <2>1, InvUnchanged
<1>2. UNCHANGED <<status, changes, doomed, gone, topics, dead, failures, crashes>>
  BY DEF BeginDrain
<1>3. CommittedOutbox' = CommittedOutbox
  BY <1>2 DEF CommittedOutbox, IsCommitted
<1>4. batch' \subseteq CommittedOutbox /\ batch' \cap (doomed' \cup gone') = {}
  BY DEF BeginDrain, Oldest, Fetchable, CommittedOutbox, IsCommitted
<1>5. draining' \in Nat /\ draining' # 0 /\ nextXid' > 0
  BY DEF BeginDrain, StoreInv, StoreTypeOK
<1>6. NoPhantomEvents' /\ \A c \in doomed' \cup gone' : c.obj \in Unpublishable \/ InTopic(c)'
  BY <1>2 DEF NoPhantomEvents, InTopic, Offsets
<1> QED BY <1>1, <1>2, <1>3, <1>4, <1>5, <1>6

(* Every step of the composition keeps the invariant. *)
LEMMA PublisherStep == PublisherInv /\ [Next]_vars => PublisherInv'
<1> SUFFICES ASSUME PublisherInv, [Next]_vars PROVE PublisherInv'
  OBVIOUS
<1>1. CASE UNCHANGED vars
  BY <1>1, StoreStepKeeps DEF vars
<1>2. CASE StoreNext /\ UNCHANGED publisherVars
  BY <1>2, StoreStepKeeps
<1>3. CASE BeginDrain
  BY <1>3, BeginDrainKeeps
<1>4. ASSUME NEW c \in batch, ProcessChange(c) PROVE PublisherInv'
  <2>1. c \in CommittedOutbox
    BY DEF PublisherInv
  <2>2. UNCHANGED topics \/ \E d \in CommittedOutbox : Sent(d)
    BY <1>4, <2>1 DEF ProcessChange
  <2>3. \A d \in doomed' \cup gone' : d.obj \in Unpublishable \/ InTopic(d) \/ Sent(d)
    BY <1>4 DEF ProcessChange, PublisherInv
  <2> QED BY <1>4, <2>1, <2>2, <2>3, DrainStepKeeps DEF ProcessChange, PublisherInv
<1>5. ASSUME NEW c \in batch, FailChange(c) PROVE PublisherInv'
  <2>1. UNCHANGED topics \/ \E d \in CommittedOutbox : Sent(d)
    BY <1>5 DEF FailChange, PublisherInv
  <2> QED BY <1>5, <2>1, DrainStepKeeps DEF FailChange, RollbackDrain, PublisherInv
<1>6. CASE CommitDrain
  BY <1>6, DrainStepKeeps DEF CommitDrain, PublisherInv
<1>7. CASE FailCommit
  BY <1>7, DrainStepKeeps DEF FailCommit, RollbackDrain, PublisherInv
<1>8. CASE Crash
  <2>1. dead' \subseteq [xid : Nat, locked : SUBSET CommittedOutbox]
    BY <1>8 DEF Crash, PublisherInv
  <2> QED BY <1>8, <2>1, DrainStepKeeps DEF Crash, PublisherInv
<1>9. CASE ExpireSession
  BY <1>9, DrainStepKeeps DEF ExpireSession, PublisherInv
<1> QED BY <1>1, <1>2, <1>3, <1>4, <1>5, <1>6, <1>7, <1>8, <1>9 DEF Next, PublisherNext, Process

(* The publisher starts with an empty outbox and empty topics. *)
LEMMA PublisherStart == Init => PublisherInv
<1> SUFFICES ASSUME Init PROVE PublisherInv
  OBVIOUS
<1>1. StoreInv /\ nextXid > 0
  BY InvInit, StoreAssumption DEF Init, StoreInit
<1>2. topics \in [Tenants -> Seq(Change)] /\ \A t \in Tenants : Len(topics[t]) = 0
  BY DEF Init
<1>3. NoPhantomEvents
  BY <1>2 DEF NoPhantomEvents, Offsets
<1> QED BY <1>1, <1>2, <1>3 DEF Init, PublisherInv

(* The invariant holds in every state of the composition. *)
THEOREM PublisherInvariant == Spec => []PublisherInv
BY PublisherStart, PublisherStep, PTL DEF Spec

(* No event is ever published for a change that did not commit. *)
THEOREM OnlyCommittedIsPublished == Spec => []NoPhantomEvents
<1>1. PublisherInv => NoPhantomEvents
  BY DEF PublisherInv
<1> QED BY <1>1, PublisherInvariant, PTL

(* No change leaves the outbox before its event is in its topic. *)
THEOREM NothingIsLost == Spec => []NoLostChange
<1>1. PublisherInv => NoLostChange
  BY DEF PublisherInv, NoLostChange
<1> QED BY <1>1, PublisherInvariant, PTL

(* A step of the store makes visible only changes that no topic has. *)
LEMMA StoreStepCommits ==
  ASSUME PublisherInv, StoreNext, UNCHANGED publisherVars
  PROVE  Log!Commit
<1>1. CommittedOutbox \subseteq CommittedOutbox'
  BY CommittedStays DEF PublisherInv
<1>2. UNCHANGED <<gone, topics>>
  BY DEF publisherVars
<1>3. ASSUME NEW c \in CommittedOutbox', c \notin CommittedOutbox PROVE ~InTopic(c)
  <2>1. c \in Change
    <3>1. StoreInv'
      BY InvStep DEF PublisherInv
    <3> QED BY <3>1 DEF CommittedOutbox, StoreInv, StoreTypeOK
  <2>2. TenantOf[c.obj] \in Tenants
    BY <2>1, PublisherAssumption DEF Change
  <2> QED BY <1>3, <2>2 DEF InTopic, CommittedOutbox, IsCommitted, PublisherInv, NoPhantomEvents
<1>4. \A c \in (CommittedOutbox \ gone)' \ (CommittedOutbox \ gone) : ~InTopic(c)
  BY <1>2, <1>3
<1> QED BY <1>1, <1>2, <1>4 DEF Log!Commit, Log!Logged, InTopic, Offsets

(* A change of the batch that is sent is still in the outbox. *)
LEMMA SendPublishes ==
  ASSUME PublisherInv, NEW c \in batch, c.obj \notin Unpublishable, Sent(c),
         UNCHANGED <<changes, status, gone>>
  PROVE  Log!Publish
<1>1. c \in CommittedOutbox \ gone
  BY DEF PublisherInv
<1>2. (CommittedOutbox \ gone)' = CommittedOutbox \ gone
  BY DEF CommittedOutbox, IsCommitted
<1> QED BY <1>1, <1>2 DEF Log!Publish, Sent

(* Every step of the publisher is a step of the log or leaves it alone. *)
LEMMA StepSimulation ==
  ASSUME PublisherInv, [Next]_vars
  PROVE  [Log!Next]_<<CommittedOutbox \ gone, topics>>
<1> DEFINE Stutters == UNCHANGED <<CommittedOutbox \ gone, topics>>
<1>1. ASSUME UNCHANGED <<changes, status, gone, topics>> PROVE Stutters
  BY <1>1 DEF CommittedOutbox, IsCommitted
<1>2. CASE UNCHANGED vars
  BY <1>1, <1>2 DEF vars, storeVars, publisherVars
<1>3. CASE StoreNext /\ UNCHANGED publisherVars
  BY <1>3, StoreStepCommits DEF Log!Next
<1>4. CASE BeginDrain \/ FailCommit \/ Crash \/ ExpireSession
  BY <1>1, <1>4 DEF BeginDrain, FailCommit, RollbackDrain, Crash, ExpireSession, storeVars
<1>5. ASSUME NEW c \in batch, ProcessChange(c) \/ FailChange(c)
      PROVE  [Log!Next]_<<CommittedOutbox \ gone, topics>>
  <2>1. UNCHANGED <<changes, status, gone>>
    BY <1>5 DEF ProcessChange, FailChange, RollbackDrain, storeVars
  <2>2. UNCHANGED topics \/ (c.obj \notin Unpublishable /\ Sent(c))
    BY <1>5 DEF ProcessChange, FailChange
  <2> QED BY <1>1, <2>1, <2>2, SendPublishes DEF Log!Next
<1>6. CASE CommitDrain
  <2>1. UNCHANGED <<changes, status, topics>> /\ gone' = gone \cup doomed
    BY <1>6 DEF CommitDrain, storeVars
  <2>2. (CommittedOutbox \ gone)' = CommittedOutbox \ (gone \cup doomed)
    BY <2>1 DEF CommittedOutbox, IsCommitted
  <2>3. \A c \in doomed : c.obj \in Unpublishable \/ InTopic(c)
    BY DEF PublisherInv
  <2> QED BY <2>1, <2>2, <2>3 DEF Log!Next, Log!Forget, Log!Logged, InTopic, Offsets
<1> QED BY <1>2, <1>3, <1>4, <1>5, <1>6 DEF Next, PublisherNext, Process

(* The publisher next to the store implements the at-least-once log, for   *)
(* every number of requests, tenants, failures and crashes.                *)
THEOREM PublisherImplementsEventLog == Spec => ImplementsEventLog
<1>1. Init => Log!Init
  BY DEF Init, StoreInit, Log!Init, CommittedOutbox
<1>2. PublisherInv /\ [Next]_vars => [Log!Next]_<<CommittedOutbox \ gone, topics>>
  BY StepSimulation
<1> QED BY <1>1, <1>2, PublisherInvariant, PTL DEF Spec, ImplementsEventLog, Log!Spec

(* The type invariant of the publisher. *)
THEOREM PublisherTypes == Spec => []PublisherTypeOK
<1>1. PublisherInv => PublisherTypeOK
  BY DEF PublisherInv, PublisherTypeOK, CommittedOutbox
<1> QED BY <1>1, PublisherInvariant, PTL

(* The store keeps its promises next to a running publisher. *)
THEOREM OutboxStaysFaithful == Spec => []OutboxMatchesRows
<1>1. PublisherInv => OutboxMatchesRows
  BY DEF PublisherInv, StoreInv
<1> QED BY <1>1, PublisherInvariant, PTL
=============================================================================
