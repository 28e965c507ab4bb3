# Verification of OSAC

TLA+ models of the parts of OSAC in which concurrency, failures and retries
decide whether the system is right, the TLC runs that check them on small
instances, and TLAPS proofs of the central properties for every value of the
constants. Definitions are translated from the code under `src/`; `PROJECT.json`
maps each definition to its lines and lists runs, mutants, hazards and findings.

## The system and its parts

A user calls the **fulfillment service** (gRPC). A call runs in one PostgreSQL
transaction; a row trigger writes an outbox row for every version of a row it
makes. The **event publisher** moves the outbox to Kafka, one topic per tenant.
The **events servers** stream a topic to watchers, among them the **controllers**
of the service, whose generic **reconciler** hands objects to a reconciliation
function; for clusters this creates a ClusterOrder in a management cluster. There
the **operator** reconciles the order and starts jobs in the automation platform
(AAP) through its **provisioning lifecycle**; networks go through its **network
task engine**, which runs every task as an AAP job too. The **metering service**
reads the tenants' topics, dates what it learns, and bills the difference between
what the dated facts justify and a ledger of what it has billed.

| part | state | operations | what is hard about it | module |
|---|---|---|---|---|
| object store: DAO, generic server, transactions, trigger | rows, row locks, private images, outbox | create, get for update, update, delete and archive, signal, commit, rollback | concurrent calls on one row, stale copies written back, deletion racing the last finalizer | `ObjectStore` |
| event publisher | drain transaction, batch, topics | fetch, send, delete, commit, fail, crash | identifiers taken long before the commit, resent batches, locks of dead sessions, 32-bit `xmin` | `EventPublisher` (on `ObjectStore`) |
| reconciler and work loops | watch, sync and reconcile loops, kick token, retry timers | events, lists, re-read, success, two kinds of errors, timers, restart | lost events, timers racing cancellation, old snapshots handed over late | `Reconciler` |
| provisioning lifecycle, ClusterOrder controller | the order in the API server, in the cache and as copied; AAP jobs | evaluate, trigger, poll, back off, flush, persist, cancel, deprovision, remove finalizer | cached copies, launches not recorded, spec changing back, deletion during a job | `ClusterProvisioning` |
| network task engine, Subnet controller | Subnets in the API server and in the cache, the engine's clocks, AAP jobs and launches on their way | launch, record, poll by label and by ID, cancel, retry, clean up, delete | lost answers, restarts between two writes, siblings that share a slot, deletes at any time | `NetworkTask` |
| metering: fold, round, catch-up, relay | history, ledger, outbox and offsets of a tenant; two topics; loops of several pods | fold a batch, read and apply heartbeat groups, scan, compare, commit, send, restore | resent heartbeats, facts committed during a round, databases restored to an earlier moment | `Metering` |
| events servers | offsets per consumer group, subscriptions | send, mark, rebalance | offset marked before the client has read | one action of `Reconciler` |
| controllers of the service, other operator controllers, bare metal operator | progress of one resource each | reconciliation functions | order of barriers | not modelled, see below |
| console proxy, CSI driver, installer, playbooks, UI, API definitions, authentication | little or outside state | | | not modelled |

## Correspondence of modules and code

**`ObjectStore`.** A request is one gRPC call, hence one transaction
(`TxInterceptor`). `rows` are committed rows, `image` what a transaction made of
a row it holds, `changes` the outbox including rows not committed yet. An action
is one DAO operation with the trigger it fires. `Update` is the generic server's
`updateWithCandidatePreparation`: locking read, version check when `lock` is
set, merge of finalizers, write, archive when the last finalizer of a deleted
object goes. Row locks and READ COMMITTED are external, modelled from their use.
Columns that no property tells apart change when `version` does; `born` tells
an object from a later one with the same identifier.

**`EventPublisher`** extends `ObjectStore`: both run interleaved. A drain fetches
committed, unlocked rows whose `xmin` is below the snapshot horizon, oldest
identifiers first, sends and deletes them, and commits. A failed send or commit
rolls back, leaving sent records in Kafka. A crash leaves a session that holds
its row locks and its transaction identifier until PostgreSQL ends it.

**`Reconciler`**: the loops of `reconciler.go` on `work_loop.go`. An object is an
identifier and a generation. The unbuffered channel is the joint action `Take`.
A kick leaves a token in a channel with room for one, whatever the sync loop does
(`Kick`). The comment above `Loop.Kick` says that a kick does nothing while the
work function runs; the code does better, and `Converges` of `reconciler_prompt`
needs it to: with what the comment says (the mutant `KickSleeper`) a watch that is
opened again during a list loses what happened since until the interval passes.
Synchronization is enabled, as it is by default and in every controller.

**`ClusterProvisioning`**: `StartReconcile` copies the cached order; one step is
one call that another actor can observe (launch, flush, final status patch,
finalizer update). `PatchStatus` is `patchStatusWithRetry`: fresh read, job list
and version replaced by the copy's. Timestamps of jobs follow the order of the
list. Unready secrets and outside resources, rate limits, failed status reads
and back-offs that are not over are a bounded number of `HoldBack` steps.

**`EventLog`** is what the publisher promises and knows nothing of drains, batches
or crashes: changes are committed, a committed change is published, possibly
again, and what was published is forgotten. `EventPublisher!ImplementsEventLog`
instantiates it with the committed rows of the outbox and the published
identifiers of all topics.

**`NetworkTask`**: `versions[s]` are the versions of a Subnet from the one in the
cache to the one in the API server; every status write is conditional on its
base being the current one (`Update`). The one worker of the controller makes
one step for each call that another actor can observe: the record of an attempt
as Running, the launch, the record of the job, the mark, the cancel. A launch
that fails, or that a restart interrupts, leaves a request in `sent`, which acts
later or never. A cancel that fails is only logged; the next poll repeats it,
unless it was that of a duplicate. The managers of a Subnet are those of its
VirtualNetwork. The clock
`emptySince` is `timer`, in memory; a restart clears it. Jobs whose result is
rejected or deferred are jobs that failed. Subnets are created with their
VirtualNetwork ready and its label set. `Starts` lists the instances a run
covers: which Subnets there are, and how many faults.

**`Metering`**: `db` is the tenant's part of the database, and a step that changes
it is one committed transaction: `FoldApply`, `ApplyGroup`, `RoundCommit`,
`RelayCommit`. The comparison of a round is split where the fold may commit
between two of its statements (READ COMMITTED): `RoundBegin` reads the progress,
`RoundScan` finds the resources, `CompareFull` and `CompareTail` read the facts of
one. Ledger rows and heartbeats are intervals of unit moments with a rate, and
`Expected`, `Since`, `Diff`, `SyncLedger` and `MergeIntoLedger` are the code's
interval arithmetic on rates. A heartbeat's identity leaves the quantity out,
as in `heartbeat.ID`; the provider counts an identity once. There is one meter, so
a resource has one key: of `openKeysJustified` only whether there is an open key
and a justified one matters.

## Runs

| run | configuration | result |
|---|---|---|
| `store` | 3 calls (one locking), 1 object, 1 finalizer, 2 operations each | no zombie, outbox equals rows, every write enqueued, locked updates see finalizers, deletion sticks |
| `publisher` | 2 calls, 2 objects, one of them unconvertible, 2 failures, 1 crash, fair | no phantom event, no lost change, everything published; the whole implements `EventLog` |
| `publisher_order` | 2 calls with 2 operations and no earlier reads, 2 objects, batches of 2, 2 failures | of two changes the one with the smaller identifier and the older (or the same) transaction comes first; once an object is drained its last record is its row, **if** the transactions that changed it got their identifiers in that order; no crash |
| `reconciler` | 1 object and a change, with one fault of each kind but a restart, or with 2 retries, a failed re-read and a restart; fair | a pending retry is never forgotten, a canceled one never fires, the function goes back to an older generation only after a failed re-read; converges with the interval |
| `reconciler_prompt` | 2 objects, lost events, restart; the sync interval never fires | converges |
| `provisioning` | 2 versions, 2 spec changes, a deletion, any two faults (at most one of them a stale copy), history of 2, fair | no provisioning after cleanup; a successful cleanup before the order is gone; **if no stale copy was reconciled**, recorded jobs run one at a time and none is left when the order is gone; the order settles unless AAP forgot a job first |
| `metering` | 1 resource, 2 events up to 1 unit late, 3 units of time, batches of 2, 1 fault, 1 restore of a backup taken at any time | the ledger is what the provider was and will be sent; no unaccounted heartbeat lies below the stored offset; after a round the ledger is what history bills (**unless** restored to a moment after a round); history is what the folded log says |
| `metering_progress` | the same with an untracked source, 2 units, events on time, fair | the same of ledger and rounds, where comparisons also extend the tail of a resource without new facts; the last moment is billed and sent, catch-up reaches the end |
| `network_task` | 2 Subnets of one VirtualNetwork and 1 fault, 1 of them and 2 faults, or a Subnet with 2 managers and 1 fault; launches act within `LostLaunchTimeout` | one job at a time per VirtualNetwork, no job that the status does not account for, a Subnet goes after its cleanup on each manager, a job OSAC canceled is not taken for one canceled by hand, also after a restart between mark and cancel |
| `network_settle` | the 2 Subnets, 1 of them and a fault, or the Subnet with 2 managers; launches act at any time, fair | every Subnet is created, fails or goes; none waits for ever for the slot |

Two runs show disagreements with comments, and are findings in `PROJECT.json`:

* `duplicate_job`: a reconciliation of a stale copy finds the running job in the API
  server and requeues, but then writes its own job list, which lacks the job, over
  the stored one; the next reconciliation launches a second job.
* `metering_restore`: a resource is on, and a round at 1 and one at 2 bill it; the
  database is restored to between the two. Catch-up replays the heartbeat of the
  second and joins it to the ledger row, which then ends at 2. The round at 3 starts
  from the stored time 1: the resource has no new facts and no row that ends at 1, so
  neither scan finds it, and it is billed no more until its next event, while the
  comment on `catchUp` says that this round recomputes the gap.

Limits of the properties above, seen while modelling (all but the first are hazards in
`PROJECT.json`):

* marking an object for deletion leaves `version` alone, though the API says it
  grows with every change;
* 32-bit `xmin` is compared with a 64-bit horizon: after the first wraparound the
  ordering filter of the publisher passes everything;
* after a publisher died, its successor skips the rows its session still locks,
  and newer changes of the same object go first until that session ends
  (`ConsumersConverge` and the theorem `OlderFirst` are without crashes);
* the sync loop lists one page, so an object beyond it is not healed (`Converges` is
  for objects on the first page);
* `ConsumersConverge` says nothing of an object whose transactions got their
  identifiers in another order than that in which they changed it (`InXidOrder`);
* the deprovision path looks for the provision job only in the cached copy and
  may start cleanup next to a job recorded since; a job that AAP purged before
  its end was seen is polled for ever (`Vanished`);
* a fold that commits a batch after another pod folded past it puts an older value
  of the same second back; `HistoryFollowsLog` is for one fold at a time;
* after a restore to a moment after a round, a resource that has no event since is
  not billed on (`metering_restore`), or keeps a replayed charge that its facts do not
  justify, until its next event; `RoundsAreComplete` leaves such restores out;
* a launch that acts after `LostLaunchTimeout` may run next to its replacement; its
  cancel as a duplicate is tried once.

### Bounds

Bounds that the code does not have are marked as such where the constants are
declared; `Last` (objects) and the sets of calls and objects are small as well.
Three calls are enough
for a reader, a writer and a deleter to interleave on a row; two transactions
over two objects for identifiers and commits to come in opposite orders; a
failed batch of two for a resent record to follow a newer one. Two reconciled
objects share the channel. `publisher_order` has no `Readers` and `publisher`
has one: without finalizers and locking calls an earlier read changes nothing that
is written. In `reconciler` the two retries are in the second choice of `Starts`: a
failure that finds the timer of an earlier one in the map needs both. In `provisioning` two changes of the spec give A-B-A; `MaxJobs` stops
no launch there (raising it from 6 to 8 adds no state). `MaxFaults` limits a
behaviour to two faults, of the same or of different kinds; interactions of three
are not checked.

In `metering` three units of time hold a round, a restore and the round that
repairs it; two events one of which is dated back give a fact for a moment that
was billed, and one fact that replaces another of the same moment; the single
fault is a crash of a loop, a failed send or commit, or a lost connection.
Events of untracked sources occur in `metering_progress` and `metering_restore` only:
they move the offset of the fold past the facts of the resource, so that a round
finds no new facts, extends its tail, and depends on the date of a fact alone. With
one, `metering` has 2.3 million states and holds as well, and the theorems about it
are for any set of such sources.
Instances with two relays (7.1 million states) and with two round loops over two
units of time (6.7 million) hold as well and are too large to be kept as runs. In
`network_task` two Subnets compete for the slot; the faults are failures of a
job, cancels by hand, a job that does not start, a purge, a lost launch, a failed
cancel and a restart. Two of them are needed for a job that does not start and a
restart between its mark and its cancel. Attempts and jobs need no bound of their
own: only faults make new ones. In `network_settle` the two Subnets have no fault and
the fault comes with one manager; with two faults and late launches, which a failed
cancel of a duplicate takes, the state space is too large for a run.

Deadlock checking is off where the system may stop: finished calls make no
steps, an order that is gone is not reconciled. Symmetry is used only in runs
without liveness.

### Fairness

* Publisher: the drain loop runs again after every notification and at least
  every `listenWaitTimeout`; every call ends in a commit or a rollback;
  PostgreSQL ends the sessions of dead clients. The last two are assumptions about
  the clients and the database, not facts of this code. Weak fairness throughout.
* Reconciler: goroutines run; retry timers fire; streams are opened again (weak).
  Handing an object over the unbuffered channel is strongly fair for each
  sender, since the channel queues blocked senders in order. The interval of the sync loop is fair only in `FairSpec`; `PromptSpec` does without.
* Provisioning: the work queue runs a reconciliation after every status change,
  error and delay (the controller has no predicate that hides status changes),
  informers catch up, some running job ends. Fairness is on the controller as a
  whole, not on single outcomes.

* Metering: tickers fire and loops run on while their pod lives; time passes
  (weak). Crashes, connections lost and restores are bounded, not fair.
* Network tasks: the queue serves every Subnet again, since each reconcile that is
  not final asks for a requeue and writes cause events; strong, because the one
  worker may be busy with another Subnet each time. Calls return, the cache
  catches up, AAP ends every job, and clocks run (weak, as a whole).

## Proofs

Each component's theorems are in modules of their own. `ObjectStoreProofs` and
`EventPublisherProofs` hold for any sets of objects, calls,
finalizers and tenants and any bounds, from `StoreAssumption`, `NoRowAssumption` and
`PublisherAssumption`, which only type the constants.

The inductive invariant of the store, `StoreInv`, is needed because neither
`NoZombie` nor `OutboxMatchesRows` is inductive: a commit publishes private
images, so these must be right beforehand. It adds that a row is held by one
live transaction (`RowLocks`), that identifiers are unique (`FreshIds`), that the
outbox rows of a live transaction concern rows it holds and are newer than
every committed one (`PendingChanges`), that an image is what the newest outbox
row says (`ImageIsEnqueued`), and that no image is a zombie. Every kind of step
has a lemma that it keeps all of them. From it follow `StoreTypeCorrect`, `NeverZombie`,
`OutboxFaithful` and the action property `WritesAreEnqueued`.

The other two action properties relate what a client read to what is stored.
`HistoryInv` says that a client's copy, the committed row and the private image of
a transaction are versions of the object in this order (`Later`: the version does
not fall, equal versions have equal finalizers, the deletion mark stays), as far
as they are of the same object (`born`). A commit needs transitivity. It gives
`DeletionIsOneWay` and `LockedUpdatesAreCurrent`.

For the publisher, `PublisherInv` adds that batches, deletions and locks of dead
sessions concern committed rows only, and that what is deleted is in its topic.
Steps of the store keep this because committed changes stay
(`CommittedStays`). It gives `OnlyCommittedIsPublished`, `NothingIsLost` and
`OutboxStaysFaithful`.

`PublisherImplementsEventLog` shows the refinement from the same invariant: only
`Commit` adds to the committed outbox, `ProcessChange` publishes a change that is
committed, and what `CommitDrain` deletes was published.

`PublisherOrderProofs` proves `OlderFirst`: as long as no publisher crashed and
identifiers of transactions have not wrapped around (`Undisturbed`), an older
transaction's change goes first. The invariant (`OrderInv`) says that a change in
the batch or in a topic is settled, that is, every transaction up to its own has
ended, so that no older change can appear any more; and that the older changes
still in the outbox are in the batch with it or were sent before it. The horizon
makes a fetched change settled, the order by identifier does the rest.

`PublisherConvergenceProofs` goes on to `LastRecordIsTheRow`, under the same
condition. That older changes come first is not enough, since a failed batch is
sent again and puts old records behind newer ones. `FinalInv` adds that a deleted
change has all older ones deleted with it or before it, and that it was sent after
every record older than it. So the last record of an object whose changes are all
deleted is its newest change, and `OutboxMatchesRows` says that this is the row.

`ReconcilerProofs` proves the safety properties of `reconciler`, from
`ReconcilerAssumption` and `StartsAssumption`, for any number of objects, events,
retries and faults.
`RetryNotForgotten` is not inductive: a success cancels by key and an expiring timer
looks its own key up, so `TimersInv` adds that a key is that of one goroutine and
that a key in the map is that of an uncanceled one waiting for that object. This gives
`RetriesAreKept`, and `CanceledRetriesEnd` because a canceled goroutine's key can then
not be in the map. For `AppliedOnlyAdvances`, `AppliedInv` says that what is applied, what
is about to be applied and what is stored come in this order while no re-read has
failed. `HandoverInv` types what goes over the channel; its one hard case is that
every item of a page is a stored object, a counting argument over identifiers
(`EveryRankIsTaken`). With `LoopsInv`, which types the loops and bounds the faults, it
gives `ReconcilerTypes`.

`ClusterProvisioningProofs` proves the four invariants of `provisioning`, from the
assumptions that type the constants, for any versions, bounds and length of the job
history. `ProvisioningInv` has four parts. `TypesInv`: every job list, in the order, the
cache and the copies, has jobs that AAP was asked for, and one that is over there is
over in AAP with the same outcome. `CopiesInv`: what a copy says of deletion and
finalizer is true of the order, and nothing is launched before the finalizer is
there. `CleanupInv`: once a deprovision job was launched the cache shows the order as
deleting, and an order that is gone was cleaned up. `FreshInv`, while no stale copy
was reconciled: a recorded job that runs is the latest of its type in the copy and,
unless it was just launched, in the order. So a launch, which looks at
the latest jobs only, finds nothing running. Steps fall into a few kinds (the copy is
refreshed, the reconciliation ends, a job is launched or lost, the status is
written...), each with a lemma that it keeps the invariant.

`MeteringProofs` and `MeteringTheorems` prove `OffsetSkipsNothing`, for any pods,
resources and bounds, from `MeteringConstants`. `NothingSkipped` is not inductive:
a relay moves the offset over what it and others have just sent, and catch-up over
what it has just read. `MeteringInv` adds that the outbox holds heartbeats of this
database's own rounds only, that everything appended to the topic since a relay
began is of such rounds, that what a database does not know of is from rounds
before the present one (`ForeignBefore`, which is why a round may take its time
from the clock alone), that the ids a catch-up pass knows are accounted for, and
that one comparison runs at a time. The backup satisfies the same (`DatabaseInv`), so a
restore keeps it.

`MeteringTheorems` also proves `HistoryFollows`, for one fold at a time: the invariant
(`DatabaseFollows`) holds of the database and of the backup, and a collected batch
starts at the stored offset.

Only model-checked: liveness (beyond the prover, as is `ENABLED`);
`LedgerIsWhatWasSent` and `RoundsAreComplete` (sums over sets need induction over
data, which these provers do not do) and `MeteringTypeOK` (the ledger is a fold over
a set, for the same reason); and everything about `NetworkTask`. No module declares a recursive operator.

## Not modelled

Filters, visibility and tenancy checks; savepoints and their sub-transaction
identifiers; a statement that takes its transaction identifier before it waits
for a lock; conversion and redaction of events; durations and back-off
arithmetic; conditions and phases of orders; management-state annotations;
resources with several job targets; jobs with equal timestamps; ConfigVersion
hash collisions; a reconciler whose synchronization is disabled (`SetSync`, which only
tests call).

Network tasks: parents and children of a Subnet, held launches, deleted targets,
marks for a rerun, segment and VNI data, durations, status writes that only touch
conditions; more than one worker. The other networking controllers use the same
engine with other tasks.

Metering: rule revisions and their gate, ownership roots, thresholds and pending
pieces, splits at midnight, rounding of fractional rates, billing accounts,
retention and truncated topics (catch-up refuses to run), clock skew (no fact is
dated ahead of its event), and the
service that starts and stops the loops of a tenant.

Events servers: subscriptions, rebalances, filters. The reconciliation functions
of the fulfillment service and the remaining controllers of the operators each
drive one resource through calls to an outside system, and `Reconciler`,
`ClusterProvisioning` and `NetworkTask` show the machinery they share. The console
keeps sessions in memory under one mutex. Playbooks, UI, installer, API
definitions, CSI driver and authentication hold no protocol of their own.
