----------------------------- MODULE NetworkTask -----------------------------
(***************************************************************************)
(* The operator's network task engine, driven by the Subnet controller.    *)
(* Each task of a Subnet runs as a job in AAP, labelled with the task, the *)
(* Subnet and the attempt; what the operator knows of it is an entry in    *)
(* the Subnet's status, written on the condition that the object has not   *)
(* changed.  The operator reads Subnets from a cache that lags, restarts,  *)
(* and loses the answers of AAP; users delete Subnets and cancel jobs.     *)
(*                                                                         *)
(* One worker reconciles all Subnets, one at a time (controller-runtime's  *)
(* default), so that the engine's locks are never waited for.  The parent  *)
(* VirtualNetworks are ready and stay, and no attachments hold a Subnet.   *)
(***************************************************************************)
EXTENDS Naturals, Sequences, FiniteSets, SequencesExt, FiniteSetsExt

CONSTANTS
  Subnets,
  VirtualNetwork,   \* the VirtualNetwork of each Subnet
  Managers,         \* of a VirtualNetwork the managers, in the order of a create
  Starts,           \* the Subnets there are at first, and a bound on the faults then:
                    \* failures of jobs and calls, cancels by hand, restarts
  LaunchesLate      \* whether AAP may act on a launch later than LostLaunchTimeout

ASSUME NetworkTaskConstants ==
  /\ \A s \in Subnets : Managers[VirtualNetwork[s]] \in Seq(STRING)
  /\ Starts \subseteq [subnets : SUBSET Subnets, faults : Nat]
  /\ LaunchesLate \in BOOLEAN

VARIABLES
  versions,   \* of each Subnet the versions from the cached to the current one
  timer,      \* the engine's clocks, in memory: emptySince of a task's attempt
  work,       \* what the worker does
  sent,       \* launch requests that were given up and may still reach AAP
  jobs,       \* AAP's jobs, in the order of their IDs
  records,    \* the jobs AAP still has a record of
  faults      \* how many faults there may still be

vars == <<versions, timer, work, sent, jobs, records, faults>>

ManagersOf(s) == Managers[VirtualNetwork[s]]
AllManagers   == UNION {Range(ManagersOf(s)) : s \in Subnets}

Creates == {[task |-> "create", manager |-> m] : m \in AllManagers}
Deletes == {[task |-> "delete", manager |-> m] : m \in AllManagers}
Tasks   == Creates \cup Deletes

IsCleanupTask(t) == t.task = "delete"

NoEntry  == [state |-> "none", attempt |-> 0, job |-> 0, notStarted |-> FALSE]
NoObject == [gone |-> TRUE, deleting |-> FALSE, finalizer |-> FALSE,
             entries |-> [t \in Tasks |-> NoEntry]]
TimerOff == [attempt |-> 0, phase |-> "off"]
NoTask   == [task |-> "none", manager |-> "none"]
Idle     == [pc |-> "idle", subnet |-> "none", obj |-> NoObject, task |-> NoTask, job |-> 0]

Cached(s)  == Head(versions[s])
Current(s) == Last(versions[s])

Active(j)  == jobs[j].status \in {"pending", "running"}
ActiveJobs == {j \in DOMAIN jobs : Active(j)}

Init ==
  /\ \E start \in Starts :
       /\ versions = [s \in Subnets |-> <<[NoObject EXCEPT !.gone = s \notin start.subnets]>>]
       /\ faults = start.faults
  /\ timer = [s \in Subnets |-> [t \in Tasks |-> TimerOff]]
  /\ work = Idle
  /\ sent = {}
  /\ jobs = << >>
  /\ records = {}

Fault == faults > 0 /\ faults' = faults - 1

-----------------------------------------------------------------------------
(* The API server. *)

(* Mutant: the write is not conditional. *)
UpdateAlways(s, base, new, then) ==
  versions' = [versions EXCEPT ![s] = Append(@, new)] /\ work' = then

\* A write on the condition that base is still the current version; on a
\* conflict the reconcile ends.
Update(s, base, new, then) ==
  IF base = Current(s)
    THEN versions' = [versions EXCEPT ![s] = Append(@, new)] /\ work' = then
    ELSE versions' = versions /\ work' = Idle

At(pc, s, obj, t, j) == [pc |-> pc, subnet |-> s, obj |-> obj, task |-> t, job |-> j]

SetJob(obj, t, entry) == [obj EXCEPT !.entries[t] = entry]

InformerCatchesUp(s) ==
  /\ Len(versions[s]) > 1
  /\ versions' = [versions EXCEPT ![s] = Tail(@)]
  /\ UNCHANGED <<timer, work, sent, jobs, records, faults>>

\* A user deletes the Subnet; without a finalizer it is gone at once.
Delete(s) ==
  /\ ~Current(s).deleting /\ ~Current(s).gone
  /\ versions' = [versions EXCEPT ![s] =
       Append(@, [Current(s) EXCEPT !.deleting = TRUE, !.gone = ~Current(s).finalizer])]
  /\ UNCHANGED <<timer, work, sent, jobs, records, faults>>

-----------------------------------------------------------------------------
(* AAP. *)

NewJob(s, t, attempt) ==
  [subnet |-> s, task |-> t, attempt |-> attempt, status |-> "pending", cancel |-> FALSE]

\* The jobs that carry the label of an attempt.
ListJobsByLabel(s, t, attempt) ==
  {j \in records : jobs[j].subnet = s /\ jobs[j].task = t /\ jobs[j].attempt = attempt}

\* OSAC asks for the cancel of some jobs; one that ended is left alone.  A call
\* that fails is logged.
CancelJobs(js) ==
  \E asked \in SUBSET js :
    /\ IF asked = js THEN UNCHANGED faults ELSE Fault
    /\ jobs' = [j \in DOMAIN jobs |->
                  IF j \in asked /\ Active(j) THEN [jobs[j] EXCEPT !.cancel = TRUE] ELSE jobs[j]]

JobStarts(j) ==
  /\ jobs[j].status = "pending" /\ ~jobs[j].cancel
  /\ jobs' = [jobs EXCEPT ![j].status = "running"]
  /\ UNCHANGED <<versions, timer, work, sent, records, faults>>

JobSucceeds(j) ==
  /\ jobs[j].status = "running"
  /\ jobs' = [jobs EXCEPT ![j].status = "successful"]
  /\ UNCHANGED <<versions, timer, work, sent, records, faults>>

JobCanceled(j) ==
  /\ Active(j) /\ jobs[j].cancel
  /\ jobs' = [jobs EXCEPT ![j].status = "canceled"]
  /\ UNCHANGED <<versions, timer, work, sent, records, faults>>

\* "failed" is final, or its result is rejected; "error" may be retried.
JobFails(j, status) ==
  /\ jobs[j].status = "running"
  /\ Fault
  /\ jobs' = [jobs EXCEPT ![j].status = status]
  /\ UNCHANGED <<versions, timer, work, sent, records>>

CanceledByHand(j) ==
  /\ Active(j) /\ ~jobs[j].cancel
  /\ Fault
  /\ jobs' = [jobs EXCEPT ![j].status = "canceled"]
  /\ UNCHANGED <<versions, timer, work, sent, records>>

\* AAP deletes the records of old jobs, long after the cache has caught up.
Purge(j) ==
  /\ j \in records /\ ~Active(j)
  /\ \A s \in Subnets : Len(versions[s]) = 1
  /\ work.pc = "idle"
  /\ Fault
  /\ records' = records \ {j}
  /\ UNCHANGED <<versions, timer, work, sent, jobs>>

\* A launch whose answer was lost reached AAP, or it never does.
Arrives(request) ==
  /\ sent' = sent \ {request}
  /\ \/ /\ jobs' = Append(jobs, NewJob(request.subnet, request.task, request.attempt))
        /\ records' = records \cup {Len(jobs) + 1}
     \/ UNCHANGED <<jobs, records>>
  /\ UNCHANGED <<versions, timer, work, faults>>

-----------------------------------------------------------------------------
(* The engine. *)

\* How long the attempt was seen Running without a job; the clocks of another
\* attempt do not count.
Phase(s, t, attempt) ==
  IF timer[s][t].attempt = attempt THEN timer[s][t].phase ELSE "off"

\* LostLaunchTimeout is longer than AAP takes to act on a launch.
TimerExpires(s, t) ==
  /\ timer[s][t].phase = "on"
  /\ LaunchesLate \/ \A r \in sent : r.subnet # s \/ r.task # t
  /\ timer' = [timer EXCEPT ![s][t].phase = "expired"]
  /\ UNCHANGED <<versions, work, sent, jobs, records, faults>>

SetTimer(s, t, attempt, phase) ==
  timer' = [timer EXCEPT ![s][t] = [attempt |-> attempt, phase |-> phase]]

(* Mutant: the siblings are read from the cache. *)
SlotHeldCached(s) ==
  \E o \in Subnets \ {s} :
    /\ VirtualNetwork[o] = VirtualNetwork[s]
    /\ \E t \in Tasks : Cached(o).entries[t].state = "Running"

(* Mutant: an entry holds the slot whatever its state. *)
SlotHeldEver(s) ==
  \E o \in Subnets \ {s} :
    /\ VirtualNetwork[o] = VirtualNetwork[s]
    /\ ~Current(o).gone
    /\ \E t \in Tasks : Current(o).entries[t].state # "none"

\* The siblings are read from the API server.
SlotHeld(s) ==
  \E o \in Subnets \ {s} :
    /\ VirtualNetwork[o] = VirtualNetwork[s]
    /\ ~Current(o).gone
    /\ \E t \in Tasks : Current(o).entries[t].state = "Running"

\* The attempt is recorded as Running before AAP is called.
Launch(s, obj, t, attempt) ==
  LET entry == [state |-> "Running", attempt |-> attempt, job |-> 0, notStarted |-> FALSE]
      new   == SetJob(obj, t, entry)
  IN  IF SlotHeld(s)
        THEN work' = Idle /\ UNCHANGED <<versions, timer>>
        ELSE /\ Update(s, obj, new, At("launch", s, new, t, 0))
             /\ IF obj = Current(s)
                  THEN SetTimer(s, t, attempt, "off")
                  ELSE UNCHANGED timer

\* The launch that the worker asks AAP for.
Request == [subnet |-> work.subnet, task |-> work.task,
            attempt |-> work.obj.entries[work.task].attempt]

\* AAP answers with the ID of the job, or the call fails: the job may or may
\* not exist then, and the clock starts.
LaunchJob ==
  LET s == work.subnet
      t == work.task
      n == Request.attempt
  IN  /\ work.pc = "launch"
      /\ \/ /\ jobs' = Append(jobs, NewJob(s, t, n))
            /\ records' = records \cup {Len(jobs) + 1}
            /\ work' = [work EXCEPT !.pc = "record", !.job = Len(jobs) + 1]
            /\ UNCHANGED <<timer, sent, faults>>
         \/ /\ Fault
            /\ sent' = sent \cup {Request}
            /\ SetTimer(s, t, n, "on")
            /\ work' = Idle
            /\ UNCHANGED <<jobs, records>>
      /\ UNCHANGED versions

RecordJob ==
  LET s == work.subnet
      t == work.task
  IN  /\ work.pc = "record"
      /\ Update(s, work.obj, [work.obj EXCEPT !.entries[t].job = work.job], Idle)
      /\ UNCHANGED <<timer, sent, jobs, records, faults>>

\* The job with the lowest ID is kept, the others are canceled.
PollByLabel(s, obj, t) ==
  LET entry == obj.entries[t]
      found == ListJobsByLabel(s, t, entry.attempt)
      phase == Phase(s, t, entry.attempt)
  IN  IF found # {}
        THEN /\ Update(s, obj, [obj EXCEPT !.entries[t].job = Min(found)], Idle)
             /\ CancelJobs(found \ {Min(found)})
             /\ UNCHANGED timer
        ELSE /\ IF phase = "expired"
                  THEN SetTimer(s, t, entry.attempt, "off") /\ work' = At("launch", s, obj, t, 0)
                  ELSE SetTimer(s, t, entry.attempt, "on") /\ work' = Idle
             /\ UNCHANGED <<versions, jobs, faults>>

(* Mutant: the entry gets AAP's status. *)
EndedRaw(t, entry, status) == [entry EXCEPT !.state = status]

\* What a job that ended makes of its entry.
Ended(t, entry, status) ==
  CASE status = "successful" -> [entry EXCEPT !.state = "Succeeded", !.notStarted = FALSE]
    [] status = "failed" /\ ~IsCleanupTask(t) -> [entry EXCEPT !.state = "Failed", !.notStarted = FALSE]
    [] OTHER -> [entry EXCEPT !.state = "Retrying", !.notStarted = FALSE]

\* The worker goes on with the next task after a success.
PollEnded(s, obj, t, status, then) ==
  LET entry == Ended(t, obj.entries[t], status)
      new   == SetJob(obj, t, entry)
  IN  /\ Update(s, obj, new, IF status = "successful" THEN At(then, s, new, NoTask, 0) ELSE Idle)
      /\ UNCHANGED <<timer, jobs, faults>>

(* Mutant: the cancel comes first, and the operator may restart before the *)
(* mark is written.                                                        *)
CancelNotStartedFirst(s, obj, t) ==
  LET j   == obj.entries[t].job
      new == [obj EXCEPT !.entries[t].notStarted = TRUE]
  IN  /\ jobs' = [jobs EXCEPT ![j].cancel = TRUE]
      /\ work' = Idle
      /\ \/ obj = Current(s) /\ Fault /\ Update(s, obj, new, Idle)
         \/ faults > 1 /\ faults' = faults - 2 /\ UNCHANGED versions
      /\ UNCHANGED timer

\* A job that AAP does not start is marked in the status and then canceled.
CancelNotStarted(s, obj, t) ==
  LET j   == obj.entries[t].job
      new == [obj EXCEPT !.entries[t].notStarted = TRUE]
  IN  /\ IF obj.entries[t].notStarted
           THEN work' = At("cancel", s, obj, t, j) /\ UNCHANGED <<versions, faults>>
           ELSE Fault /\ Update(s, obj, new, At("cancel", s, new, t, j))
      /\ UNCHANGED <<timer, jobs>>

CancelMarked ==
  /\ work.pc = "cancel"
  /\ CancelJobs({work.job})
  /\ work' = Idle
  /\ UNCHANGED <<versions, timer, sent, records>>

Poll(s, obj, t, then) ==
  LET entry == obj.entries[t]
      j     == entry.job
  IN  \/ /\ j = 0
         /\ PollByLabel(s, obj, t)
      \/ /\ j # 0 /\ j \notin records
         /\ PollEnded(s, obj, t, "error", then)
      \/ /\ j \in records /\ jobs[j].status = "pending"
         /\ CancelNotStarted(s, obj, t)
      \/ /\ j \in records /\ jobs[j].status \in {"successful", "failed", "error"}
         /\ PollEnded(s, obj, t, jobs[j].status, then)
      \/ /\ j \in records /\ jobs[j].status = "canceled"
         /\ IF entry.notStarted
              THEN PollEnded(s, obj, t, "canceled", then)
              ELSE Launch(s, obj, t, entry.attempt + 1) /\ UNCHANGED <<jobs, faults>>

\* One task of the Subnet; the wait of a Retrying entry may be over.
Run(s, obj, t, then) ==
  /\ \/ /\ obj.entries[t].state \in {"none", "Retrying", "Cancelled"}
        /\ Launch(s, obj, t, obj.entries[t].attempt + 1)
        /\ UNCHANGED <<jobs, faults>>
     \/ /\ obj.entries[t].state = "Running"
        /\ Poll(s, obj, t, then)
  /\ UNCHANGED <<sent, records>>

-----------------------------------------------------------------------------
(* Delete wins. *)

\* What becomes of the entry of a create task, whether its job no longer runs,
\* and the jobs to cancel.
CancelEntryForDelete(s, obj, t) ==
  LET e     == obj.entries[t]
      found == ListJobsByLabel(s, t, e.attempt)
      j     == IF e.job # 0 THEN e.job ELSE Min(found)
      looks == e.state = "Running" \/ (e.state = "Cancelled" /\ e.job = 0)
      cancelled(job) == [e EXCEPT !.state = "Cancelled", !.job = job]
      extra == IF e.job = 0 THEN found \ {j} ELSE {}
  IN  CASE e.state = "Retrying" -> [entry |-> cancelled(e.job), done |-> TRUE, cancel |-> {}]
        [] ~looks /\ e.state # "Retrying" -> [entry |-> e, done |-> TRUE, cancel |-> {}]
        [] looks /\ e.job = 0 /\ found = {} ->
             IF e.state = "Cancelled" \/ Phase(s, t, e.attempt) = "expired"
               THEN [entry |-> cancelled(0), done |-> TRUE, cancel |-> {}]
               ELSE [entry |-> e, done |-> FALSE, cancel |-> {}]
        [] OTHER ->
             IF j \in records /\ Active(j)
               THEN [entry |-> [e EXCEPT !.state = "Running", !.job = j],
                     done |-> FALSE, cancel |-> {j} \cup extra]
               ELSE [entry |-> cancelled(j), done |-> TRUE, cancel |-> extra]

\* The clocks start for the attempts whose job is not found.
DeleteTimers(s, obj) ==
  [t \in Tasks |->
     LET e == obj.entries[t]
     IN  IF /\ t \in Creates /\ e.state = "Running" /\ e.job = 0
            /\ ListJobsByLabel(s, t, e.attempt) = {}
            /\ Phase(s, t, e.attempt) = "off"
           THEN [attempt |-> e.attempt, phase |-> "on"]
           ELSE timer[s][t]]

CancelForDelete(s) ==
  LET obj   == Cached(s)
      after == [t \in Creates |-> CancelEntryForDelete(s, obj, t)]
      new   == [obj EXCEPT !.entries = [t \in Tasks |-> IF t \in Creates THEN after[t].entry ELSE @[t]]]
      then  == IF \A t \in Creates : after[t].done THEN At("cleanup", s, new, NoTask, 0) ELSE Idle
  IN  /\ work.pc = "idle"
      /\ obj.deleting /\ obj.finalizer /\ ~obj.gone
      /\ CancelJobs(UNION {after[t].cancel : t \in Creates})
      /\ timer' = [timer EXCEPT ![s] = DeleteTimers(s, obj)]
      /\ IF new = obj
           THEN work' = then /\ UNCHANGED versions
           ELSE Update(s, obj, new, then)
      /\ UNCHANGED <<sent, records>>

-----------------------------------------------------------------------------
(* The Subnet controller. *)

(* Mutant: only what was created is cleaned up. *)
StartedSucceeded(obj, m) == obj.entries[[task |-> "create", manager |-> m]].state = "Succeeded"

Started(obj, m) == obj.entries[[task |-> "create", manager |-> m]].state # "none"

Succeeded(obj, t) == obj.entries[t].state = "Succeeded"

\* A reconcile of a Subnet that is not being deleted puts the finalizer first.
Reconcile(s) ==
  LET obj == Cached(s)
      new == [obj EXCEPT !.finalizer = TRUE]
  IN  /\ work.pc = "idle"
      /\ ~obj.gone /\ ~obj.deleting
      /\ IF obj.finalizer
           THEN work' = At("create", s, obj, NoTask, 0) /\ UNCHANGED versions
           ELSE Update(s, obj, new, At("create", s, new, NoTask, 0))
      /\ UNCHANGED <<timer, sent, jobs, records, faults>>

\* The managers in order; the first task that has not succeeded is run.
RunTasks ==
  LET obj     == work.obj
      ms      == ManagersOf(work.subnet)
      Task(i) == [task |-> "create", manager |-> ms[i]]
      open    == {i \in DOMAIN ms : ~Succeeded(obj, Task(i))}
  IN  /\ work.pc = "create"
      /\ \/ /\ open # {} => obj.entries[Task(Min(open))].state = "Failed"
            /\ work' = Idle
            /\ UNCHANGED <<versions, timer, sent, jobs, records, faults>>
         \/ open # {} /\ Run(work.subnet, obj, Task(Min(open)), "create")

\* The managers in the opposite order, those where the create started; then
\* the finalizer goes, and the Subnet with it.
RunCleanup ==
  LET obj     == work.obj
      s       == work.subnet
      ms      == ManagersOf(s)
      Task(i) == [task |-> "delete", manager |-> ms[i]]
      open    == {i \in DOMAIN ms : Started(obj, ms[i]) /\ ~Succeeded(obj, Task(i))}
  IN  /\ work.pc = "cleanup"
      /\ \/ /\ open = {}
            /\ Update(s, obj, [obj EXCEPT !.finalizer = FALSE, !.gone = TRUE], Idle)
            /\ timer' = IF obj = Current(s)
                          THEN [timer EXCEPT ![s] = [t \in Tasks |-> TimerOff]]   \* Forget
                          ELSE timer
            /\ UNCHANGED <<sent, jobs, records, faults>>
         \/ open # {} /\ Run(s, obj, Task(Max(open)), "cleanup")

\* A job that still runs, a read of AAP that fails, a wait that is not over: the
\* reconcile ends.
Waits ==
  /\ work.pc \in {"create", "cleanup"}
  /\ \E t \in Tasks : /\ t.task = (IF work.pc = "create" THEN "create" ELSE "delete")
                      /\ work.obj.entries[t].state \in {"Running", "Retrying"}
  /\ work' = Idle
  /\ UNCHANGED <<versions, timer, sent, jobs, records, faults>>

\* What was in memory is gone; a launch under way may still reach AAP.
Restart ==
  /\ Fault
  /\ work.pc # "idle" \/ \E s \in Subnets, t \in Tasks : timer[s][t].phase # "off"
  /\ work' = Idle
  /\ timer' = [s \in Subnets |-> [t \in Tasks |-> TimerOff]]
  /\ sent' = IF work.pc = "launch" THEN sent \cup {Request} ELSE sent
  /\ UNCHANGED <<versions, jobs, records>>

-----------------------------------------------------------------------------
Begins(s)    == Reconcile(s) \/ CancelForDelete(s)
Continues(s) == work.subnet = s /\ (RunTasks \/ RunCleanup)
Calls        == LaunchJob \/ RecordJob \/ CancelMarked

\* What happens by itself: the cache, AAP and the clocks.
World ==
  \/ \E s \in Subnets : InformerCatchesUp(s)
  \/ \E j \in DOMAIN jobs : JobStarts(j) \/ JobSucceeds(j) \/ JobCanceled(j)
  \/ \E r \in sent : Arrives(r)
  \/ \E s \in Subnets, t \in Tasks : TimerExpires(s, t)

Next ==
  \/ \E s \in Subnets : Begins(s) \/ Continues(s) \/ Delete(s)
  \/ Calls \/ Waits
  \/ World
  \/ \E j \in DOMAIN jobs : \/ \E status \in {"failed", "error"} : JobFails(j, status)
                            \/ CanceledByHand(j) \/ Purge(j)
  \/ Restart

Spec == Init /\ [][Next]_vars

\* The queue serves every Subnet again, after an event or a requeue; a read of
\* AAP does not fail for ever; calls return; the cache catches up, AAP ends
\* every job and time passes.
Fairness ==
  /\ \A s \in Subnets : SF_vars(Begins(s)) /\ SF_vars(Continues(s))
  /\ WF_vars(Calls) /\ WF_vars(World)

FairSpec == Spec /\ Fairness

-----------------------------------------------------------------------------
(* Properties. *)

Entry == [state : {"none", "Running", "Retrying", "Succeeded", "Failed", "Cancelled"},
          attempt : Nat, job : 0..Len(jobs), notStarted : BOOLEAN]
Object == [gone : BOOLEAN, deleting : BOOLEAN, finalizer : BOOLEAN, entries : [Tasks -> Entry]]

\* The Subnets, the engine and AAP have their types, and no entry names a job
\* that does not exist.
NetworkTaskTypeOK ==
  /\ \A s \in Subnets : versions[s] # << >> /\ Range(versions[s]) \subseteq Object
  /\ work.pc \in {"idle", "create", "cleanup", "launch", "record", "cancel"}
  /\ work.obj \in Object
  /\ records \subseteq DOMAIN jobs
  /\ \A j \in DOMAIN jobs :
       jobs[j].status \in {"pending", "running", "successful", "failed", "error", "canceled"}
  /\ faults \in Nat

\* Of all the tasks of the Subnets of a VirtualNetwork, whatever their managers,
\* one job at most waits or runs in AAP: creates and cleanups of one Subnet
\* follow each other, attempts too, and siblings take turns, through lost
\* answers, restarts, stale reads and deletes (engine.launch, takeSlot,
\* resolveByLabel, CancelForDelete).
OneJobPerVirtualNetwork ==
  \A i, j \in ActiveJobs :
    VirtualNetwork[jobs[i].subnet] = VirtualNetwork[jobs[j].subnet] => i = j

\* No job waits or runs that the status does not account for: its Subnet exists
\* and has a Running entry of its attempt, with its ID or without one.
JobsAreTracked ==
  \A j \in ActiveJobs :
    LET obj == Current(jobs[j].subnet)
        e   == obj.entries[jobs[j].task]
    IN  /\ ~obj.gone
        /\ e.state = "Running" /\ e.attempt = jobs[j].attempt /\ e.job \in {0, j}

\* A Subnet goes only after every manager that was asked to create it has
\* deleted it, in a job that began after the last create (runCleanup).
CleanedBeforeGone ==
  \A s \in Subnets : Current(s).gone =>
    \A i \in DOMAIN jobs : jobs[i].subnet = s /\ jobs[i].task \in Creates =>
      \E j \in DOMAIN jobs : /\ i < j /\ jobs[j].subnet = s
                             /\ jobs[j].task = [jobs[i].task EXCEPT !.task = "delete"]
                             /\ jobs[j].status = "successful"

\* A job that OSAC itself canceled, because AAP did not start it, is retried
\* after a wait, never launched again at once as one canceled by hand is, even
\* when a restart separates the mark from the cancel (cancelNotStarted).
NotStartedIsRetried ==
  [][\A s \in Subnets, t \in Tasks :
       LET e == Current(s).entries[t]
       IN  e.state = "Running" /\ e.job # 0 /\ jobs[e.job].cancel =>
             Current(s)'.entries[t].attempt = e.attempt]_vars

\* Every Subnet settles: a deleted one goes, for any point of a create that the
\* delete interrupts, and another one is created or has failed; no Subnet waits
\* for ever for the slot, a lost launch or a job.
SubnetsSettle ==
  \A s \in Subnets : <>[]
    \/ Current(s).gone
    \/ /\ ~Current(s).deleting
       /\ \/ \A t \in Creates : t.manager \in Range(ManagersOf(s)) => Succeeded(Current(s), t)
          \/ \E t \in Creates : Current(s).entries[t].state = "Failed"

=============================================================================
