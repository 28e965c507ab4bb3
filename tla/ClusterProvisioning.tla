------------------------- MODULE ClusterProvisioning -------------------------
(***************************************************************************)
(* One ClusterOrder of the operator: the controller                        *)
(* (internal/controller/clusterorder_controller.go), the provisioning      *)
(* lifecycle it runs (pkg/provisioning) and the jobs this starts in the    *)
(* automation platform (AAP).                                              *)
(*                                                                         *)
(* The controller reads the order from a cache that lags behind the API    *)
(* server, works on that copy, and writes the job list of the copy over    *)
(* the one in the API server.  One reconciliation of an order runs at a    *)
(* time.  The states of a job that is not over are one state, "running";   *)
(* back-off delays, readiness of secrets and of outside resources, rate    *)
(* limits and failed status reads are a bounded number of "hold"s.         *)
(***************************************************************************)
EXTENDS Naturals, Sequences, FiniteSets, FiniteSetsExt

CONSTANTS
  Versions,    \* config versions (hashes of the spec), positive numbers
  FirstVersion,\* the version of the spec the order is created with
  MaxHistory,  \* MaxJobHistory of the controller
  MaxJobs,     \* bound: jobs launched in AAP
  Budget,      \* bound: how often each kind of event below may happen
  MaxFaults    \* bound: stale copies and faults in one behaviour

(* Spec changes, deletion, reconciliations of a stale copy, and all else   *)
(* that may go wrong: crashes, error returns, failed flushes, launches     *)
(* whose answer is lost, failed jobs, jobs purged by AAP, failed API       *)
(* server reads, holds.                                                    *)
Kinds == {"edit", "delete", "stale", "fault"}

NoVersion == 0   \* jobs from before versions were recorded, deprovision jobs

ASSUME ProvisioningAssumption ==
  /\ Versions \subseteq Nat \ {NoVersion} /\ FirstVersion \in Versions
  /\ MaxHistory \in Nat \ {0} /\ MaxJobs \in Nat \ {0}
  /\ Budget \in [Kinds -> Nat] /\ MaxFaults \in Nat

VARIABLES
  server,   \* the order in the API server
  cache,    \* the order in the informer cache
  read,     \* the copy the current reconciliation started from
  inst,     \* that copy as changed so far (instance)
  pc,       \* where the reconciliation is: "idle", "update", "flush", "delete", "persist"
  aap,      \* jobs of AAP, in the order of their launches; a job's id is its index
  purged,   \* ids of jobs AAP no longer knows
  orphans,  \* history: ids of jobs whose launch was lost before it was recorded
  spent     \* spent[k]: events of kind k so far

vars == <<server, cache, read, inst, pc, aap, purged, orphans, spent>>

orderVars == <<server, cache>>
copyVars == <<read, inst>>
jobVars == <<aap, purged, orphans>>

Spend(k) ==
  /\ spent[k] < Budget[k]
  /\ k \in {"stale", "fault"} => spent["stale"] + spent["fault"] < MaxFaults
  /\ spent' = [spent EXCEPT ![k] = @ + 1]

-----------------------------------------------------------------------------
(* Job lists. *)

Outcome == {"succeeded", "failed", "canceled"}

JobState == {"running"} \cup Outcome

IsTerminal(s) == s \in Outcome

JobType == {"provision", "deprovision"}

JobStatus == [id : 1 .. MaxJobs, type : JobType, state : JobState,
              version : Versions \cup {NoVersion}]

NoJob == [id |-> 0, type |-> "none", state |-> "none", version |-> NoVersion]

(* The latest job of a type; timestamps follow the order of the list. *)
FindLatestJobByType(jobs, t) ==
  LET found == {i \in DOMAIN jobs : jobs[i].type = t}
  IN  IF found = {} THEN NoJob ELSE jobs[Max(found)]

(* Mutant: the history is not trimmed. *)
AppendJobUntrimmed(jobs, job) == Append(jobs, job)

(* AppendJob: append and keep the newest MaxHistory jobs. *)
AppendJob(jobs, job) ==
  LET all == Append(jobs, job)
      cut == IF Len(all) > MaxHistory THEN Len(all) - MaxHistory ELSE 0
  IN  SubSeq(all, cut + 1, Len(all))

(* Mutant: the state is set in a copy of the list's element. *)
UpdateJobCopied(jobs, id) == jobs

(* UpdateJob: the job with the given id gets the state AAP reports. *)
UpdateJob(jobs, id) ==
  [i \in DOMAIN jobs |-> IF jobs[i].id = id THEN [jobs[i] EXCEPT !.state = aap[id].state]
                                            ELSE jobs[i]]

Ids(jobs) == {jobs[i].id : i \in DOMAIN jobs}

-----------------------------------------------------------------------------
(* Users, the cache and AAP. *)

EditSpec(v) ==
  /\ server.exists /\ ~server.deleting /\ v # server.spec
  /\ Spend("edit")
  /\ server' = [server EXCEPT !.spec = v]
  /\ UNCHANGED <<cache, copyVars, pc, jobVars>>

DeleteOrder ==
  /\ server.exists /\ ~server.deleting
  /\ Spend("delete")
  /\ server' = IF server.finalizer THEN [server EXCEPT !.deleting = TRUE]
                                   ELSE [server EXCEPT !.exists = FALSE]
  /\ UNCHANGED <<cache, copyVars, pc, jobVars>>

SyncCache ==
  /\ cache # server
  /\ cache' = server
  /\ UNCHANGED <<server, copyVars, pc, jobVars, spent>>

Running(id) == id \in DOMAIN aap /\ aap[id].state = "running"

EndJob(id, s) ==
  /\ Running(id)
  /\ CASE s = "failed" -> Spend("fault")
       [] s = "canceled" -> aap[id].canceling /\ UNCHANGED spent
       [] s = "succeeded" -> UNCHANGED spent
  /\ aap' = [aap EXCEPT ![id].state = s]
  /\ UNCHANGED <<orderVars, copyVars, pc, purged, orphans>>

PurgeJob(id) ==
  /\ id \in DOMAIN aap \ purged /\ ~Running(id)
  /\ Spend("fault")
  /\ purged' = purged \cup {id}
  /\ UNCHANGED <<orderVars, copyVars, pc, aap, orphans>>

(* launchTemplate: a new job. *)
Launch(t, v) ==
  /\ Len(aap) < MaxJobs
  /\ aap' = Append(aap, [type |-> t, state |-> "running", version |-> v, canceling |-> FALSE])

NewJob(t, v) == [id |-> Len(aap) + 1, type |-> t, state |-> "running", version |-> v]

-----------------------------------------------------------------------------
(* A new order, or one that was provisioned before versions were recorded. *)
NewOrder == [exists |-> TRUE, deleting |-> FALSE, finalizer |-> FALSE,
             spec |-> FirstVersion, desired |-> NoVersion, jobs |-> <<>>]

LegacyOrder ==
  [NewOrder EXCEPT !.finalizer = TRUE,
     !.jobs = <<[id |-> 1, type |-> "provision", state |-> "succeeded", version |-> NoVersion]>>]

LegacyJob ==
  [type |-> "provision", state |-> "succeeded", version |-> NoVersion, canceling |-> FALSE]

(* Between reconciliations there is no copy; this stands for it. *)
NoCopy == NewOrder

EndReconcile == pc' = "idle" /\ read' = NoCopy /\ inst' = NoCopy

-----------------------------------------------------------------------------
(* Reconcile: read the order from the cache, then update or delete. *)

(* Mutant: a deleted order whose deprovision job failed is updated again. *)
StartReconcileAfterFailure ==
  /\ pc = "idle" /\ cache.exists
  /\ IF cache = server THEN UNCHANGED spent ELSE Spend("stale")
  /\ read' = cache /\ inst' = cache
  /\ pc' = IF cache.deleting /\ FindLatestJobByType(cache.jobs, "deprovision").state # "failed"
           THEN "delete" ELSE "update"
  /\ UNCHANGED <<orderVars, jobVars>>

StartReconcile ==
  /\ pc = "idle" /\ cache.exists
  /\ IF cache = server THEN UNCHANGED spent ELSE Spend("stale")
  /\ read' = cache /\ inst' = cache
  /\ pc' = IF cache.deleting THEN "delete" ELSE "update"
  /\ UNCHANGED <<orderVars, jobVars>>

(* Jobs launched by this reconciliation that the API server has not got. *)
Unrecorded == Ids(inst.jobs) \ (Ids(read.jobs) \cup Ids(server.jobs))

(* The reconciliation ends without (another) status write. *)
GiveUp ==
  /\ EndReconcile
  /\ orphans' = orphans \cup Unrecorded
  /\ UNCHANGED <<orderVars, aap, purged>>

(* Any error return, and the panic on a namespace not in the cache yet. *)
AbortReconcile ==
  /\ pc \in {"update", "delete", "persist"}
  /\ Spend("fault")
  /\ GiveUp

(* The operator restarts and fills its cache again. *)
CrashOperator ==
  /\ Spend("fault")
  /\ EndReconcile
  /\ cache' = server
  /\ orphans' = orphans \cup Unrecorded
  /\ UNCHANGED <<server, aap, purged>>

(* handleUpdate: the finalizer is added under an optimistic lock, and the  *)
(* answer replaces the copy.                                               *)
AddFinalizer ==
  /\ pc = "update" /\ ~inst.finalizer
  /\ IF read = server
     THEN /\ server' = [server EXCEPT !.finalizer = TRUE]
          /\ inst' = server'
          /\ UNCHANGED <<pc, read>>
     ELSE /\ EndReconcile
          /\ UNCHANGED server
  /\ UNCHANGED <<cache, jobVars, spent>>

(* The copy with its job list, and the version handleDesiredConfigVersion  *)
(* has put into it.                                                        *)
WithJobs(jobs) == [inst EXCEPT !.jobs = jobs, !.desired = inst.spec]

-----------------------------------------------------------------------------
(* RunProvisioningLifecycle. *)

(* CheckAPIServerForNonTerminalProvisionJob. *)
CheckAPIServer == FindLatestJobByType(server.jobs, "provision").state = "running"

(* evaluateActionForTarget; `seen` is the answer of checkAPIServer. *)
EvaluateAction(seen) ==
  LET latest == FindLatestJobByType(inst.jobs, "provision")
      same == latest.version = inst.spec
  IN  CASE latest.state = "running" -> "Poll"
        [] latest.state = "succeeded" /\ (same \/ latest.version = NoVersion) -> "Skip"
        [] IsTerminal(latest.state) /\ latest.state # "succeeded" /\ same -> "Backoff"
        [] OTHER -> IF seen THEN "Requeue" ELSE "Trigger"

(* A failed read of the API server counts as "no job". *)
Evaluated(action) ==
  /\ pc = "update" /\ inst.finalizer
  /\ \/ EvaluateAction(CheckAPIServer) = action /\ UNCHANGED spent
     \/ /\ EvaluateAction(CheckAPIServer) = "Requeue" /\ EvaluateAction(FALSE) = action
        /\ Spend("fault")

DoNothing ==
  /\ Evaluated("Skip") \/ Evaluated("Requeue")
  /\ inst' = WithJobs(inst.jobs)
  /\ pc' = "persist"
  /\ UNCHANGED <<orderVars, read, jobVars>>

(* PollJob; a job that AAP has purged keeps its state. *)
PollProvision ==
  /\ Evaluated("Poll")
  /\ LET id == FindLatestJobByType(inst.jobs, "provision").id
     IN  inst' = WithJobs(IF id \in purged THEN inst.jobs ELSE UpdateJob(inst.jobs, id))
  /\ pc' = "persist"
  /\ UNCHANGED <<orderVars, read, jobVars>>

(* Trigger, or a retry whose back-off is over. *)
TriggerProvision ==
  /\ Evaluated("Trigger") \/ Evaluated("Backoff")
  /\ Launch("provision", inst.spec)
  /\ inst' = WithJobs(AppendJob(inst.jobs, NewJob("provision", inst.spec)))
  /\ pc' = "flush"
  /\ UNCHANGED <<orderVars, read, purged, orphans>>

(* A secret or an outside resource is not ready, the request is rate       *)
(* limited, a status cannot be read, a back-off is not over.               *)
HoldBack ==
  /\ pc \in {"update", "delete"} /\ inst.finalizer
  /\ Spend("fault")
  /\ inst' = IF pc = "update" THEN WithJobs(inst.jobs) ELSE inst
  /\ pc' = "persist"
  /\ UNCHANGED <<orderVars, read, jobVars>>

-----------------------------------------------------------------------------
(* Status writes. *)

(* patchStatusWithRetry: the jobs and the version of the copy replace      *)
(* those of a fresh read, under an optimistic lock that is tried again.    *)
PatchStatus ==
  server' = IF server.exists
            THEN [server EXCEPT !.jobs = inst.jobs, !.desired = inst.desired]
            ELSE server

(* statusFlush, right after a launch; an error is only logged. *)
FlushStatus ==
  /\ pc = "flush"
  /\ PatchStatus
  /\ pc' = "persist"
  /\ UNCHANGED <<cache, copyVars, jobVars, spent>>

FailFlush ==
  /\ pc = "flush"
  /\ Spend("fault")
  /\ pc' = "persist"
  /\ UNCHANGED <<orderVars, copyVars, jobVars>>

(* The status is written at the end if it differs from what was read: in   *)
(* jobs or version, or in conditions and messages, which may differ or not.*)
PersistStatus ==
  /\ pc = "persist"
  /\ \/ PatchStatus
     \/ inst.jobs = read.jobs /\ inst.desired = read.desired /\ UNCHANGED server
  /\ EndReconcile
  /\ UNCHANGED <<cache, jobVars, spent>>

-----------------------------------------------------------------------------
(* handleDelete and RunDeprovisioningLifecycle. *)

Deprovision == FindLatestJobByType(inst.jobs, "deprovision")

(* A job must be launched: none yet, or one that failed and must not be    *)
(* passed over (BlockDeletionOnFailure) and whose back-off is over.        *)
LaunchNeeded == Deprovision = NoJob \/ Deprovision.state \in {"failed", "canceled"}

(* Mutant: a provision job that is being canceled is taken to be over. *)
ReadyForDeprovisionCanceling ==
  LET job == FindLatestJobByType(inst.jobs, "provision")
  IN  Running(job.id) => aap[job.id].canceling

(* isReadyForDeprovision: no provision job, or AAP has ended or purged it. *)
ReadyForDeprovision == ~Running(FindLatestJobByType(inst.jobs, "provision").id)

(* updateProvisionJobFromDeprovisionResult. *)
ProvisionUpdated ==
  LET job == FindLatestJobByType(inst.jobs, "provision")
  IN  IF job = NoJob \/ job.id \in purged THEN inst.jobs ELSE UpdateJob(inst.jobs, job.id)

(* The provision job still runs: cancel it (202) or be refused (405). *)
CancelProvision ==
  /\ pc = "delete" /\ LaunchNeeded /\ ~ReadyForDeprovision
  /\ \E accepted \in BOOLEAN :
       aap' = [aap EXCEPT ![FindLatestJobByType(inst.jobs, "provision").id].canceling = @ \/ accepted]
  /\ inst' = [inst EXCEPT !.jobs = ProvisionUpdated]
  /\ pc' = "persist"
  /\ UNCHANGED <<orderVars, read, purged, orphans, spent>>

(* There is no flush after this launch. *)
TriggerDeprovision ==
  /\ pc = "delete" /\ LaunchNeeded /\ ReadyForDeprovision
  /\ Launch("deprovision", NoVersion)
  /\ inst' = [inst EXCEPT !.jobs = AppendJob(ProvisionUpdated, NewJob("deprovision", NoVersion))]
  /\ pc' = "persist"
  /\ UNCHANGED <<orderVars, read, purged, orphans, spent>>

(* A job is launched, of either type, and the answer of the request is     *)
(* lost: an error return.                                                  *)
LoseLaunch ==
  /\ \/ /\ pc = "update" /\ inst.finalizer
        /\ EvaluateAction(CheckAPIServer) \in {"Trigger", "Backoff"}
        /\ Launch("provision", inst.spec)
     \/ /\ pc = "delete" /\ LaunchNeeded /\ ReadyForDeprovision
        /\ Launch("deprovision", NoVersion)
  /\ Spend("fault")
  /\ orphans' = orphans \cup {Len(aap) + 1}
  /\ EndReconcile
  /\ UNCHANGED <<orderVars, purged>>

(* A job found to be over is dealt with in the same reconciliation. *)
PollDeprovision ==
  /\ pc = "delete" /\ Deprovision.state = "running"
  /\ IF Deprovision.id \in purged \/ Running(Deprovision.id)
     THEN pc' = "persist" /\ UNCHANGED inst
     ELSE /\ inst' = [inst EXCEPT !.jobs = UpdateJob(inst.jobs, Deprovision.id)]
          /\ UNCHANGED pc
  /\ UNCHANGED <<orderVars, read, jobVars, spent>>

(* Mutant: a deprovision job that is over is enough. *)
DeprovisionDoneTerminal == IsTerminal(Deprovision.state)

DeprovisionDone == Deprovision.state = "succeeded"

(* The finalizer is removed by an update of the copy that was read, which  *)
(* a newer version in the API server refuses.                              *)
RemoveFinalizer ==
  /\ pc = "delete" /\ DeprovisionDone
  /\ server' = IF read = server THEN [server EXCEPT !.exists = FALSE] ELSE server
  /\ EndReconcile
  /\ UNCHANGED <<cache, jobVars, spent>>

-----------------------------------------------------------------------------
Init ==
  /\ \/ server = NewOrder /\ aap = <<>>
     \/ server = LegacyOrder /\ aap = <<LegacyJob>>
  /\ cache = server /\ read = NoCopy /\ inst = NoCopy
  /\ pc = "idle"
  /\ purged = {} /\ orphans = {}
  /\ spent = [k \in Kinds |-> 0]

Environment ==
  \/ \E v \in Versions : EditSpec(v)
  \/ DeleteOrder
  \/ SyncCache
  \/ \E id \in DOMAIN aap : PurgeJob(id) \/ \E s \in Outcome : EndJob(id, s)
  \/ CrashOperator

Controller ==
  \/ StartReconcile \/ AbortReconcile \/ AddFinalizer
  \/ DoNothing \/ PollProvision \/ TriggerProvision \/ LoseLaunch \/ HoldBack
  \/ FlushStatus \/ FailFlush \/ PersistStatus
  \/ CancelProvision \/ TriggerDeprovision \/ PollDeprovision \/ RemoveFinalizer

Next == Environment \/ Controller

Spec == Init /\ [][Next]_vars

(* The work queue runs a reconciliation after every change, error and      *)
(* delay; informers catch up; jobs end.                                    *)
FairSpec ==
  /\ Spec
  /\ WF_vars(Controller)
  /\ WF_vars(SyncCache)
  /\ WF_vars(\E id \in DOMAIN aap : Running(id) /\ \E s \in Outcome : EndJob(id, s))

-----------------------------------------------------------------------------
(* Properties. *)

Order == [exists : BOOLEAN, deleting : BOOLEAN, finalizer : BOOLEAN, spec : Versions,
          desired : Versions \cup {NoVersion}, jobs : Seq(JobStatus)]

(* The order, its copies and the jobs have their types; no job list is     *)
(* longer than MaxJobHistory, and every listed job was launched.           *)
ProvisioningTypeOK ==
  /\ \A o \in {server, cache, read, inst} :
       /\ o \in Order
       /\ Len(o.jobs) <= MaxHistory
       /\ \A i \in DOMAIN o.jobs : o.jobs[i].id <= Len(aap)
                                   /\ o.jobs[i].type = aap[o.jobs[i].id].type
  /\ aap \in Seq([type : JobType, state : JobState, version : Versions \cup {NoVersion},
                  canceling : BOOLEAN])
  /\ pc \in {"idle", "update", "flush", "delete", "persist"}
  /\ purged \subseteq DOMAIN aap /\ orphans \subseteq DOMAIN aap
  /\ spent \in [Kinds -> Nat]

RunningJobs(t) == {id \in DOMAIN aap \ orphans : Running(id) /\ aap[id].type = t}

(* Never do two provision jobs of the order run at once (orphans, whose    *)
(* launch was never recorded, aside): what statusFlush and checkAPIServer  *)
(* are for.                                                                *)
OneProvisionJob == Cardinality(RunningJobs("provision")) <= 1

(* As long as every reconciliation has read an up-to-date copy, at most    *)
(* one recorded job of either type runs at a time, whatever crashes, error *)
(* returns and failed flushes there are.                                   *)
JobsAreSequential ==
  spent["stale"] = 0 =>
    Cardinality(RunningJobs("provision") \cup RunningJobs("deprovision")) <= 1

(* After the first deprovision job no provision job is launched, even by a *)
(* reconciliation of a stale copy: deleting orders are not provisioned.    *)
NoProvisionAfterCleanup ==
  \A j \in 2 .. Len(aap) : aap[j - 1].type = "deprovision" => aap[j].type = "deprovision"

(* An order disappears only when nothing was ever launched for it or a     *)
(* deprovision job has succeeded, and, unless a stale copy was reconciled, *)
(* no recorded job of it still runs: handleDelete removes the finalizer    *)
(* last.                                                                   *)
CleanupBeforeGone ==
  ~server.exists /\ aap # <<>> =>
    /\ \E d \in DOMAIN aap : aap[d].type = "deprovision" /\ aap[d].state = "succeeded"
    /\ spent["stale"] = 0 => RunningJobs("provision") \cup RunningJobs("deprovision") = {}

(* The recorded latest provision job stands for the spec, and unless       *)
(* a launch was lost or a stale copy reconciled it is the last one.        *)
ConfigApplied ==
  LET latest == FindLatestJobByType(server.jobs, "provision")
      launched == {id \in DOMAIN aap : aap[id].type = "provision"}
  IN  /\ latest.state = "succeeded"
      /\ latest.version \in {server.spec, NoVersion}
      /\ spent["stale"] = 0 /\ orphans = {} => \A id \in launched : id <= latest.id

(* The recorded latest job is taken to run, and AAP has forgotten it. *)
Vanished ==
  \E t \in JobType : LET latest == FindLatestJobByType(server.jobs, t)
                     IN  latest.state = "running" /\ latest.id \in purged

(* An order ends up gone, if it is deleted, or with its spec applied by    *)
(* the last job, whatever the spec was in between (A-B-A), unless AAP      *)
(* forgot a job before the operator saw its end.                           *)
Settles ==
  <>[](\/ ~server.exists
       \/ ~server.deleting /\ ConfigApplied
       \/ Vanished)
=============================================================================
