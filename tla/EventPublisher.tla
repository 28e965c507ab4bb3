---------------------------- MODULE EventPublisher ----------------------------
(***************************************************************************)
(* The event publisher (internal/servers/event_publisher.go) composed with *)
(* the object store that fills its outbox.  One process drains the table   *)
(* `changes` in transactions of its own: it fetches a batch, sends each    *)
(* change to the Kafka topic of its tenant, deletes it, and commits.       *)
(*                                                                         *)
(* ObjectStore's `changes` keeps every row ever enqueued by a transaction  *)
(* that was not rolled back; the rows still in the table are those not in  *)
(* `gone`.                                                                 *)
(***************************************************************************)
EXTENDS ObjectStore, FiniteSets, Sequences

CONSTANTS
  Tenants,         \* one Kafka topic each, with one partition
  TenantOf,        \* the tenant of an object
  Unpublishable,   \* objects of tables that cannot be converted to events
  BatchSize,       \* rows fetched by one drain
  MaxFailures,     \* bound: failed sends and failed commits
  MaxCrashes       \* bound: publisher deaths that leave a database session

ASSUME PublisherAssumption ==
  /\ TenantOf \in [Objects -> Tenants]
  /\ Unpublishable \subseteq Objects
  /\ BatchSize \in Nat \ {0}
  /\ MaxFailures \in Nat
  /\ MaxCrashes \in Nat

VARIABLES
  draining,   \* identifier of the drain transaction, 0 when there is none
  batch,      \* rows fetched by the drain and not yet processed
  doomed,     \* rows the drain transaction has deleted
  gone,       \* rows whose deletion is committed
  topics,     \* topics[t]: the changes in the topic of t, in offset order
  dead,       \* transactions of dead publishers that still hold row locks
  failures,   \* failed sends and commits so far
  crashes     \* publisher deaths so far

publisherVars == <<draining, batch, doomed, gone, topics, dead, failures, crashes>>

vars == <<storeVars, publisherVars>>

-----------------------------------------------------------------------------
(* Transaction identifiers in progress: those of open requests and of dead *)
(* drains.  A request that has locked nothing has none.                    *)
InProgress ==
  {xid[r] : r \in {s \in Requests : status[s] \in {"open", "failed"} /\ xid[s] # 0}}
    \cup {d.xid : d \in dead}

(* Mutant: calculateFetchSQL without the xmin filter. *)
BelowHorizonUnfiltered(x) == TRUE

(* pg_snapshot_xmin: every transaction below it has ended. *)
BelowHorizon(x) == x < nextXid /\ \A y \in InProgress : x < y

(* Mutant: rows of open transactions are visible and not locked. *)
FetchableUncommitted == changes \ gone

(* The where clause of calculateFetchSQL, with `for update skip locked`.   *)
(* `xmin` is what the row stores, the horizon is not reduced.              *)
Fetchable ==
  {c \in changes \ gone :
     /\ status[c.req] = "committed"
     /\ BelowHorizon(c.xmin)
     /\ \A d \in dead : c \notin d.locked}

(* Mutant: order by id desc. *)
OldestDescending(S) == {c \in S : Cardinality({d \in S : d.id > c.id}) < BatchSize}

(* order by id limit BatchSize *)
Oldest(S) == {c \in S : Cardinality({d \in S : d.id < c.id}) < BatchSize}

(* Begin the transaction and fetch.  A drain that finds nothing changes    *)
(* nothing.                                                                *)
BeginDrain ==
  /\ draining = 0
  /\ Fetchable # {}
  /\ batch' = Oldest(Fetchable)
  /\ draining' = nextXid
  /\ nextXid' = nextXid + 1
  /\ UNCHANGED <<rows, status, xid, held, image, copy, ops, changes, nextId,
                 doomed, gone, topics, dead, failures, crashes>>

Sent(c) == topics' = [topics EXCEPT ![TenantOf[c.obj]] = Append(@, c)]

(* Mutant: a change that cannot be converted fails every drain. *)
ProcessChangePoisoned(c) ==
  /\ c.obj \notin Unpublishable
  /\ \A d \in batch : c.id <= d.id
  /\ batch' = batch \ {c}
  /\ doomed' = doomed \cup {c}
  /\ Sent(c)
  /\ UNCHANGED <<storeVars, draining, gone, dead, failures, crashes>>

(* processChange: a change that cannot be converted is deleted unsent. *)
ProcessChange(c) ==
  /\ \A d \in batch : c.id <= d.id
  /\ batch' = batch \ {c}
  /\ doomed' = doomed \cup {c}
  /\ IF c.obj \in Unpublishable THEN UNCHANGED topics ELSE Sent(c)
  /\ UNCHANGED <<storeVars, draining, gone, dead, failures, crashes>>

(* Mutant: the batch was deleted as it was fetched, and a failed drain is  *)
(* committed.                                                              *)
RollbackDrainCommitted ==
  /\ draining' = 0
  /\ batch' = {}
  /\ doomed' = {}
  /\ gone' = gone \cup doomed \cup batch
  /\ UNCHANGED <<storeVars, dead>>

RollbackDrain ==
  /\ draining' = 0
  /\ batch' = {}
  /\ doomed' = {}
  /\ UNCHANGED <<storeVars, gone, dead>>

(* The topic cannot be prepared, the broker refuses the message, or the    *)
(* message is stored and the answer, the callback or the deletion fails.   *)
FailChange(c) ==
  /\ failures < MaxFailures
  /\ \A d \in batch : c.id <= d.id
  /\ \/ UNCHANGED topics
     \/ c.obj \notin Unpublishable /\ Sent(c)
  /\ failures' = failures + 1
  /\ UNCHANGED crashes
  /\ RollbackDrain

CommitDrain ==
  /\ draining # 0 /\ batch = {}
  /\ gone' = gone \cup doomed
  /\ draining' = 0
  /\ doomed' = {}
  /\ UNCHANGED <<storeVars, batch, topics, dead, failures, crashes>>

FailCommit ==
  /\ draining # 0 /\ batch = {}
  /\ failures < MaxFailures
  /\ failures' = failures + 1
  /\ UNCHANGED <<topics, crashes>>
  /\ RollbackDrain

(* The process dies; a new one starts (replicas: 1, Recreate) while the    *)
(* database has not yet noticed that the connection is gone.               *)
Crash ==
  /\ draining # 0
  /\ crashes < MaxCrashes
  /\ crashes' = crashes + 1
  /\ dead' = dead \cup {[xid |-> draining, locked |-> batch \cup doomed]}
  /\ draining' = 0
  /\ batch' = {}
  /\ doomed' = {}
  /\ UNCHANGED <<storeVars, gone, topics, failures>>

ExpireSession ==
  \E d \in dead :
    /\ dead' = dead \ {d}
    /\ UNCHANGED <<storeVars, draining, batch, doomed, gone, topics, failures, crashes>>

-----------------------------------------------------------------------------
Init ==
  /\ StoreInit
  /\ draining = 0
  /\ batch = {}
  /\ doomed = {}
  /\ gone = {}
  /\ topics = [t \in Tenants |-> <<>>]
  /\ dead = {}
  /\ failures = 0
  /\ crashes = 0

Process == \E c \in batch : ProcessChange(c)

PublisherNext ==
  \/ BeginDrain
  \/ Process
  \/ \E c \in batch : FailChange(c)
  \/ CommitDrain
  \/ FailCommit
  \/ Crash
  \/ ExpireSession

Next ==
  \/ StoreNext /\ UNCHANGED publisherVars
  \/ PublisherNext

Spec == Init /\ [][Next]_vars

(* The drain loop runs again after every notification and at least every   *)
(* listenWaitTimeout; every gRPC call ends; the database ends the sessions *)
(* of dead clients.                                                        *)
Fairness ==
  /\ WF_vars(BeginDrain)
  /\ WF_vars(Process)
  /\ WF_vars(CommitDrain)
  /\ WF_vars(ExpireSession)
  /\ \A r \in Requests : WF_vars((Commit(r) \/ Rollback(r)) /\ UNCHANGED publisherVars)

FairSpec == Spec /\ Fairness

-----------------------------------------------------------------------------
(* Properties. *)

Offsets(t) == 1 .. Len(topics[t])

InTopic(c) == \E i \in Offsets(TenantOf[c.obj]) : topics[TenantOf[c.obj]][i] = c

(* The type invariant of the publisher. *)
PublisherTypeOK ==
  /\ draining \in Nat
  /\ batch \subseteq changes
  /\ doomed \subseteq changes
  /\ gone \subseteq changes
  /\ topics \in [Tenants -> Seq(Change)]
  /\ dead \subseteq [xid : Nat, locked : SUBSET changes]
  /\ failures \in Nat
  /\ crashes \in Nat

(* Every record in a topic is a change of a transaction that committed:    *)
(* "an event is never published for a change that rolls back"              *)
(* (docs/CODEWALK.md), across retries and publisher crashes.               *)
NoPhantomEvents ==
  \A t \in Tenants : \A i \in Offsets(t) :
    /\ topics[t][i] \in changes
    /\ status[topics[t][i].req] = "committed"

(* A row leaves the outbox only after its event is in the topic, unless no *)
(* event can be made of it: a failed send, a failed commit or a crash      *)
(* between the two loses nothing (drain, processChange).                   *)
NoLostChange ==
  \A c \in gone : c.obj \in Unpublishable \/ InTopic(c)

(* The changes of the calls that committed. *)
CommittedOutbox == {c \in changes : IsCommitted(c)}

Log == INSTANCE EventLog WITH outbox <- CommittedOutbox \ gone, log <- topics

(* The publisher implements an at-least-once log: whatever it does to its  *)
(* transactions, each step commits changes that no topic has, appends one  *)
(* committed change that is still in the outbox, or forgets changes that   *)
(* are in their topic.  So a change is never sent again once its deletion  *)
(* has committed (drain, processChange).                                   *)
ImplementsEventLog == Log!Spec

(* What the xmin filter achieves.  When a change has both the smaller      *)
(* identifier and the older transaction, its event comes first in their    *)
(* topic, even when its transaction was still open after the other one     *)
(* committed (calculateFetchSQL).                                          *)
OlderTransactionFirst ==
  \A t \in Tenants : \A j \in Offsets(t) : \A c \in changes :
    LET d == topics[t][j]
    IN  /\ TenantOf[c.obj] = t /\ c.obj \notin Unpublishable
        /\ c.id < d.id /\ xid[c.req] <= xid[d.req]
        => \E i \in 1 .. (j - 1) : topics[t][i] = c

(* The committed changes of o, and whether the order of their identifiers  *)
(* is the order of their transactions.                                     *)
CommittedChanges(o) == {c \in changes : c.obj = o /\ IsCommitted(c)}

InXidOrder(o) ==
  \A c, d \in CommittedChanges(o) : c.id < d.id => xid[c.req] <= xid[d.req]

LastRecordIsRow(o) ==
  LET t == TenantOf[o]
      mine == {i \in Offsets(t) : topics[t][i].obj = o}
  IN  \A i \in mine : (\A j \in mine : j <= i) => rows[o] = Content(topics[t][i])

Quiet(o) == CommittedChanges(o) # {} /\ CommittedChanges(o) \subseteq gone

(* Once the outbox holds nothing more of an object whose transactions got  *)
(* their identifiers in the order in which they changed it, the last       *)
(* record of the object in its topic is its row: a consumer that keeps the *)
(* last record per key ends with the table, in spite of resent batches.    *)
ConsumersConverge ==
  \A o \in Objects \ Unpublishable : Quiet(o) /\ InXidOrder(o) => LastRecordIsRow(o)

(* Every event of a committed call is eventually in its topic: neither an  *)
(* unconvertible row, a failed batch, a crashed publisher nor a long       *)
(* transaction holds it back for ever.                                     *)
EventuallyPublished ==
  \A r \in Requests :
    status[r] = "committed" ~>
      \A c \in changes : c.req = r /\ c.obj \notin Unpublishable => InTopic(c)
=============================================================================
