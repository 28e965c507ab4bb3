--------------------- MODULE ClusterProvisioningProofs ---------------------
(***************************************************************************)
(* Proofs about ClusterProvisioning, for any number of versions, jobs,     *)
(* edits, stale copies and faults and for every length of the job history. *)
(***************************************************************************)
EXTENDS ClusterProvisioning, FiniteSetTheorems, WellFoundedInduction, TLAPS

Job == [type : JobType, state : JobState, version : Versions \cup {NoVersion},
        canceling : BOOLEAN]

(* A job list in the order or in a copy of it, with a for the jobs of AAP: *)
(* a job that is over in the list is over in AAP, with the same outcome.   *)
Listed(jobs, a) ==
  /\ jobs \in Seq(JobStatus) /\ Len(jobs) <= MaxHistory
  /\ \A i \in DOMAIN jobs :
       /\ jobs[i].id <= Len(a)
       /\ jobs[i].type = a[jobs[i].id].type
       /\ jobs[i].state = "running" \/ jobs[i].state = a[jobs[i].id].state

IsOrder(o, a) == o \in Order /\ Listed(o.jobs, a)

TypesInv ==
  /\ IsOrder(server, aap) /\ IsOrder(cache, aap) /\ IsOrder(read, aap) /\ IsOrder(inst, aap)
  /\ aap \in Seq(Job)
  /\ pc \in {"idle", "update", "flush", "delete", "persist"}
  /\ purged \subseteq DOMAIN aap /\ orphans \subseteq DOMAIN aap
  /\ spent \in [Kinds -> Nat]

(* What a copy says of deletion and finalizer is true of the order, and    *)
(* nothing is launched before the finalizer is there.                      *)
CopiesInv ==
  /\ cache.deleting => server.deleting
  /\ server.deleting => server.finalizer
  /\ cache.finalizer \/ inst.finalizer => server.finalizer
  /\ aap # << >> => server.finalizer
  /\ pc = "delete" => cache.deleting
  /\ pc \in {"delete", "flush", "persist"} => server.finalizer
  /\ pc # "idle" => read.exists
  /\ pc \in {"update", "delete"} => Ids(inst.jobs) \subseteq Ids(read.jobs)

(* A deprovision job was launched, recorded or not. *)
Deprovisioned == \E d \in DOMAIN aap : aap[d].type = "deprovision"

CleanedUp == \E d \in DOMAIN aap : aap[d].type = "deprovision" /\ aap[d].state = "succeeded"

CleanupInv ==
  /\ Deprovisioned => cache.deleting /\ pc # "update"
  /\ NoProvisionAfterCleanup
  /\ ~server.exists /\ server.finalizer => CleanedUp

(* The recorded jobs that run. *)
Tracked == {id \in DOMAIN aap \ orphans : Running(id)}

IsLatest(jobs, id) == FindLatestJobByType(jobs, aap[id].type).id = id

(* The order is there while it is worked on. *)
StillThere == pc # "idle" /\ server.finalizer => server.exists

(* Every recorded job that runs is the latest of its type in the copy that *)
(* is worked on, and in the order, unless it was just launched.            *)
InCopy == pc # "idle" => \A id \in Tracked : IsLatest(inst.jobs, id)

InServer == \A id \in Tracked : IsLatest(server.jobs, id) \/ (pc # "idle" /\ id \in Unrecorded)

(* Deprovisioning begins, and the order goes, when nothing runs. *)
NothingBefore == Deprovisioned => \A id \in Tracked : aap[id].type # "provision"

NothingAfter == ~server.exists => Tracked = {}

(* This holds as long as no stale copy was reconciled. *)
FreshInv ==
  spent["stale"] = 0 => StillThere /\ InCopy /\ InServer /\ NothingBefore /\ NothingAfter

ProvisioningInv == TypesInv /\ CopiesInv /\ CleanupInv /\ FreshInv

-----------------------------------------------------------------------------
(* Job lists. *)

(* A nonempty set of positions has a last one, which Max returns. *)
LEMMA LastPosition ==
  ASSUME NEW n \in Nat, NEW S, S \subseteq 1 .. n, S # {}
  PROVE  Max(S) \in S /\ \A i \in S : i <= Max(S)
<1> DEFINE R == {ss \in Nat \X Nat : ss[1] < ss[2]}
           T == {n - i : i \in S}
<1>1. IsWellFoundedOn(R, Nat)
  BY NatLessThanWellFounded, Zenon DEF OpToRel
<1>2. T \subseteq Nat /\ T # {}
  <2>1. \A i \in S : n - i \in Nat
    OBVIOUS
  <2>2. PICK j \in S : TRUE
    OBVIOUS
  <2>3. n - j \in T
    OBVIOUS
  <2> QED BY <2>1, <2>3
<1>3. PICK x \in T : \A y \in T : ~(<<y, x>> \in R)
  <2> HIDE DEF R, T
  <2> QED BY <1>1, <1>2, WFMin
<1>4. PICK m \in S : x = n - m
  OBVIOUS
<1>5. ASSUME NEW i \in S PROVE i <= m
  <2>1. n - i \in T /\ n - i \in Nat /\ x \in Nat /\ i \in Nat /\ m \in Nat
    BY <1>2
  <2>2. ~(n - i < x)
    BY <1>3, <2>1
  <2> QED BY <1>4, <2>1, <2>2
<1>6. \E k \in S : \A i \in S : k >= i
  <2>1. \A i \in S : m >= i
    BY <1>5
  <2> QED BY <2>1
<1>7. Max(S) \in S /\ \A i \in S : Max(S) >= i
  BY <1>6 DEF Max
<1> QED BY <1>7

(* FindLatestJobByType returns the last job of the type, if there is one. *)
LEMMA LatestFacts ==
  ASSUME NEW jobs \in Seq(JobStatus), NEW t
  PROVE  \/ /\ FindLatestJobByType(jobs, t) = NoJob
            /\ \A i \in DOMAIN jobs : jobs[i].type # t
         \/ \E i \in DOMAIN jobs :
              /\ FindLatestJobByType(jobs, t) = jobs[i] /\ jobs[i].type = t
              /\ \A k \in DOMAIN jobs : jobs[k].type = t => k <= i
<1> DEFINE found == {i \in DOMAIN jobs : jobs[i].type = t}
<1>1. CASE found = {}
  BY <1>1 DEF FindLatestJobByType
<1>2. CASE found # {}
  <2>1. Len(jobs) \in Nat /\ found \subseteq 1 .. Len(jobs)
    OBVIOUS
  <2>2. FindLatestJobByType(jobs, t) = jobs[Max(found)]
    BY <1>2 DEF FindLatestJobByType
  <2>3. Max(found) \in found /\ \A i \in found : i <= Max(found)
    <3> HIDE DEF found
    <3> QED BY <1>2, <2>1, LastPosition
  <2> QED BY <2>2, <2>3
<1> QED BY <1>1, <1>2

(* The latest job is determined by the positions and types. *)
LEMMA LatestUnique ==
  ASSUME NEW jobs \in Seq(JobStatus), NEW t, NEW i \in DOMAIN jobs, jobs[i].type = t,
         \A k \in DOMAIN jobs : jobs[k].type = t => k <= i
  PROVE  FindLatestJobByType(jobs, t) = jobs[i]
<1>1. PICK k \in DOMAIN jobs :
        /\ FindLatestJobByType(jobs, t) = jobs[k] /\ jobs[k].type = t
        /\ \A m \in DOMAIN jobs : jobs[m].type = t => m <= k
  BY LatestFacts
<1>2. i <= k /\ k <= i /\ i \in Nat /\ k \in Nat
  BY <1>1
<1> QED BY <1>1, <1>2

(* AppendJob: the new job is the last one, and the others come from the    *)
(* list.                                                                   *)
LEMMA AppendJobFacts ==
  ASSUME NEW jobs \in Seq(JobStatus), NEW job \in JobStatus
  PROVE  LET new == AppendJob(jobs, job)
         IN  /\ new \in Seq(JobStatus) /\ Len(new) \in 1 .. MaxHistory
             /\ new[Len(new)] = job
             /\ \A i \in DOMAIN new : new[i] = job \/ \E k \in DOMAIN jobs : new[i] = jobs[k]
<1> DEFINE all == Append(jobs, job)
           cut == IF Len(all) > MaxHistory THEN Len(all) - MaxHistory ELSE 0
           new == SubSeq(all, cut + 1, Len(all))
<1>1. /\ Len(jobs) \in Nat /\ all \in Seq(JobStatus) /\ Len(all) = Len(jobs) + 1
      /\ all[Len(all)] = job /\ \A i \in 1 .. Len(jobs) : all[i] = jobs[i]
  OBVIOUS
<1>2. MaxHistory \in Nat \ {0}
  BY ProvisioningAssumption
<1>3. /\ cut \in Nat /\ cut < Len(all) /\ Len(all) - cut <= MaxHistory
      /\ Len(all) \in Nat
  BY <1>1, <1>2
<1> HIDE DEF all, cut
<1>4. /\ new \in Seq(JobStatus) /\ Len(new) = Len(all) - cut
      /\ \A i \in 1 .. (Len(all) - cut) : new[i] = all[cut + i]
  <2>1. cut + 1 \in 1 .. (Len(all) + 1) /\ Len(all) \in 0 .. Len(all)
    BY <1>3
  <2> QED BY <1>1, <1>3, <2>1
<1> HIDE DEF new
<1>5. Len(new) \in 1 .. MaxHistory /\ new[Len(new)] = job
  <2>1. Len(new) \in 1 .. (Len(all) - cut) /\ cut + Len(new) = Len(all)
    BY <1>3, <1>4
  <2> QED BY <1>1, <1>2, <1>3, <1>4, <2>1
<1>6. ASSUME NEW i \in DOMAIN new PROVE new[i] = job \/ \E k \in DOMAIN jobs : new[i] = jobs[k]
  <2>1. i \in 1 .. (Len(all) - cut)
    BY <1>3, <1>4
  <2>2. new[i] = all[cut + i] /\ cut + i \in 1 .. Len(all)
    BY <1>3, <1>4, <2>1
  <2>3. cut + i = Len(all) \/ cut + i \in 1 .. Len(jobs)
    BY <1>1, <1>3, <2>2
  <2>4. CASE cut + i \in 1 .. Len(jobs)
    <3>1. cut + i \in DOMAIN jobs
      BY <2>4
    <3> QED BY <1>1, <2>2, <2>4, <3>1
  <2> QED BY <1>1, <2>2, <2>3, <2>4
<1>7. AppendJob(jobs, job) = new
  BY DEF AppendJob, all, cut, new
<1> QED BY <1>4, <1>5, <1>6, <1>7

(* The job that was appended is the latest of its type. *)
LEMMA LatestAppended ==
  ASSUME NEW jobs \in Seq(JobStatus), NEW job \in JobStatus
  PROVE  FindLatestJobByType(AppendJob(jobs, job), job.type) = job
<1> DEFINE new == AppendJob(jobs, job)
<1>1. new \in Seq(JobStatus) /\ Len(new) \in DOMAIN new /\ new[Len(new)] = job
  <2>1. new \in Seq(JobStatus) /\ Len(new) \in 1 .. MaxHistory /\ new[Len(new)] = job
    BY AppendJobFacts
  <2> HIDE DEF new
  <2> QED BY <2>1
<1> HIDE DEF new
<1>2. \A k \in DOMAIN new : k <= Len(new)
  BY <1>1
<1> QED BY <1>1, <1>2, LatestUnique DEF new

(* UpdateJob changes states only. *)
LEMMA UpdateJobFacts ==
  ASSUME NEW jobs \in Seq(JobStatus), aap \in Seq(Job), NEW id \in DOMAIN aap
  PROVE  LET new == UpdateJob(jobs, id)
         IN  /\ new \in Seq(JobStatus) /\ Len(new) = Len(jobs) /\ DOMAIN new = DOMAIN jobs
             /\ \A i \in DOMAIN jobs :
                  /\ new[i].id = jobs[i].id /\ new[i].type = jobs[i].type
                  /\ new[i].state = IF jobs[i].id = id THEN aap[id].state ELSE jobs[i].state
<1> DEFINE new == UpdateJob(jobs, id)
<1>1. aap[id].state \in JobState
  <2>1. aap[id] \in Job
    OBVIOUS
  <2> QED BY <2>1 DEF Job
<1>2. ASSUME NEW i \in DOMAIN jobs
      PROVE  /\ new[i] \in JobStatus
             /\ new[i].id = jobs[i].id /\ new[i].type = jobs[i].type
             /\ new[i].state = IF jobs[i].id = id THEN aap[id].state ELSE jobs[i].state
  <2>1. jobs[i] \in JobStatus
    OBVIOUS
  <2>2. new[i] = IF jobs[i].id = id THEN [jobs[i] EXCEPT !.state = aap[id].state] ELSE jobs[i]
    BY DEF UpdateJob
  <2> HIDE DEF new
  <2> QED BY <1>1, <2>1, <2>2 DEF JobStatus
<1>3. new = [i \in 1 .. Len(jobs) |-> new[i]] /\ Len(jobs) \in Nat /\ DOMAIN jobs = 1 .. Len(jobs)
  BY DEF UpdateJob
<1> HIDE DEF new
<1>4. new \in Seq(JobStatus) /\ Len(new) = Len(jobs) /\ DOMAIN new = DOMAIN jobs
  <2>1. new \in [1 .. Len(jobs) -> JobStatus]
    BY <1>2, <1>3
  <2> QED BY <1>3, <2>1
<1> QED BY <1>2, <1>4 DEF new

(* Lists with the same types and ids have the same ids and latest jobs. *)
LEMMA SameJobs ==
  ASSUME NEW jobs \in Seq(JobStatus), NEW new \in Seq(JobStatus), DOMAIN new = DOMAIN jobs,
         \A i \in DOMAIN jobs : new[i].id = jobs[i].id /\ new[i].type = jobs[i].type
  PROVE  /\ Ids(new) = Ids(jobs)
         /\ \A t : FindLatestJobByType(new, t).id = FindLatestJobByType(jobs, t).id
<1>1. Ids(new) = Ids(jobs)
  BY DEF Ids
<1>2. ASSUME NEW t PROVE FindLatestJobByType(new, t).id = FindLatestJobByType(jobs, t).id
  <2>1. CASE \A i \in DOMAIN jobs : jobs[i].type # t
    <3>1. FindLatestJobByType(jobs, t) = NoJob
      BY <2>1, LatestFacts
    <3>2. FindLatestJobByType(new, t) = NoJob
      BY <2>1, LatestFacts
    <3> QED BY <3>1, <3>2
  <2>2. CASE \E i \in DOMAIN jobs : jobs[i].type = t
    <3>1. PICK i \in DOMAIN jobs :
            /\ FindLatestJobByType(jobs, t) = jobs[i] /\ jobs[i].type = t
            /\ \A k \in DOMAIN jobs : jobs[k].type = t => k <= i
      BY <2>2, LatestFacts
    <3>2. FindLatestJobByType(new, t) = new[i]
      BY <3>1, LatestUnique
    <3> QED BY <3>1, <3>2
  <2> QED BY <2>1, <2>2
<1> QED BY <1>1, <1>2

(* What a step may do to the jobs of AAP: their types stay, and so does    *)
(* the outcome of a job that is over.                                      *)
Progress(a, b) ==
  /\ a \in Seq(Job) /\ b \in Seq(Job) /\ Len(a) <= Len(b)
  /\ \A id \in DOMAIN a : /\ b[id].type = a[id].type
                          /\ a[id].state # "running" => b[id].state = a[id].state

(* Every job of a list is one AAP launched, of the same type, and the list *)
(* is not longer than MaxJobHistory.                                       *)
LEMMA ListedFacts ==
  ASSUME NEW jobs, NEW a \in Seq(Job), Listed(jobs, a), NEW i \in DOMAIN jobs
  PROVE  /\ jobs[i] \in JobStatus /\ jobs[i].id \in DOMAIN a /\ jobs[i].id # 0
         /\ jobs[i].type = a[jobs[i].id].type
         /\ jobs[i].state = "running" \/ jobs[i].state = a[jobs[i].id].state
<1>1. /\ jobs[i] \in JobStatus /\ jobs[i].id <= Len(a)
      /\ jobs[i].type = a[jobs[i].id].type
      /\ jobs[i].state = "running" \/ jobs[i].state = a[jobs[i].id].state
  BY DEF Listed
<1>2. jobs[i].id \in 1 .. MaxJobs /\ MaxJobs \in Nat
  BY <1>1, ProvisioningAssumption DEF JobStatus
<1>3. jobs[i].id \in DOMAIN a
  BY <1>1, <1>2
<1> QED BY <1>1, <1>2, <1>3

(* A job list stays true as AAP goes on. *)
LEMMA ListedKept ==
  ASSUME NEW jobs, NEW a, NEW b, Listed(jobs, a), Progress(a, b)
  PROVE  Listed(jobs, b)
<1>1. ASSUME NEW i \in DOMAIN jobs
      PROVE  /\ jobs[i].id <= Len(b)
             /\ jobs[i].type = b[jobs[i].id].type
             /\ jobs[i].state = "running" \/ jobs[i].state = b[jobs[i].id].state
  <2>1. /\ jobs[i] \in JobStatus /\ jobs[i].id \in DOMAIN a
        /\ jobs[i].type = a[jobs[i].id].type
        /\ jobs[i].state = "running" \/ jobs[i].state = a[jobs[i].id].state
    BY ListedFacts DEF Progress
  <2>2. /\ b[jobs[i].id].type = a[jobs[i].id].type
        /\ a[jobs[i].id].state # "running" => b[jobs[i].id].state = a[jobs[i].id].state
    BY <2>1 DEF Progress
  <2>3. Len(a) \in Nat /\ Len(b) \in Nat /\ jobs[i].id \in 1 .. Len(a) /\ Len(a) <= Len(b)
    BY <2>1 DEF Progress
  <2>4. jobs[i].id <= Len(b)
    BY <2>3
  <2> QED BY <2>1, <2>2, <2>4
<1> QED BY <1>1 DEF Listed

(* An order whose job list is true stays one when AAP launches or ends a   *)
(* job.                                                                    *)
LEMMA OrderKept ==
  ASSUME NEW o, NEW a, NEW b, IsOrder(o, a), Progress(a, b)
  PROVE  IsOrder(o, b)
BY ListedKept DEF IsOrder

(* FindLatestJobByType returns no job, or a listed one of the type asked   *)
(* for, whose state is the one AAP has or an older one.                    *)
LEMMA LatestListed ==
  ASSUME NEW jobs, NEW a \in Seq(Job), Listed(jobs, a), NEW t
  PROVE  LET l == FindLatestJobByType(jobs, t)
         IN  \/ l = NoJob
             \/ /\ l.id \in DOMAIN a /\ l.id # 0 /\ a[l.id].type = t /\ l.type = t
                /\ l.state \in JobState /\ l.id \in Ids(jobs)
                /\ l.state = "running" \/ l.state = a[l.id].state
<1> DEFINE l == FindLatestJobByType(jobs, t)
<1>1. CASE l = NoJob
  BY <1>1
<1>2. CASE l # NoJob
  <2>1. PICK i \in DOMAIN jobs : l = jobs[i] /\ jobs[i].type = t
    BY <1>2, LatestFacts DEF Listed
  <2>2. /\ l \in JobStatus /\ l.id \in DOMAIN a /\ l.id # 0
        /\ l.type = a[l.id].type
        /\ l.state = "running" \/ l.state = a[l.id].state
    BY <2>1, ListedFacts
  <2>3. l.id \in Ids(jobs)
    BY <2>1 DEF Ids
  <2> HIDE DEF l
  <2>4. l.state \in JobState
    BY <2>2 DEF JobStatus
  <2> QED BY <2>1, <2>2, <2>3, <2>4 DEF l
<1> QED BY <1>1, <1>2

(* UpdateJob with what AAP says keeps a list true, with the same jobs and  *)
(* the same latest job of each type.                                       *)
LEMMA ListUpdated ==
  ASSUME aap \in Seq(Job), NEW jobs, Listed(jobs, aap), NEW id \in DOMAIN aap
  PROVE  /\ Listed(UpdateJob(jobs, id), aap)
         /\ Ids(UpdateJob(jobs, id)) = Ids(jobs)
         /\ \A t : FindLatestJobByType(UpdateJob(jobs, id), t).id
                     = FindLatestJobByType(jobs, t).id
<1> DEFINE new == UpdateJob(jobs, id)
<1>1. jobs \in Seq(JobStatus) /\ Len(jobs) <= MaxHistory
  BY DEF Listed
<1>2. /\ new \in Seq(JobStatus) /\ Len(new) = Len(jobs) /\ DOMAIN new = DOMAIN jobs
      /\ \A i \in DOMAIN jobs :
           /\ new[i].id = jobs[i].id /\ new[i].type = jobs[i].type
           /\ new[i].state = IF jobs[i].id = id THEN aap[id].state ELSE jobs[i].state
  BY <1>1, UpdateJobFacts
<1> HIDE DEF new
<1>3. Listed(new, aap)
  <2>1. ASSUME NEW i \in DOMAIN new
        PROVE  /\ new[i].id <= Len(aap)
               /\ new[i].type = aap[new[i].id].type
               /\ new[i].state = "running" \/ new[i].state = aap[new[i].id].state
    <3>1. /\ jobs[i].id <= Len(aap)
          /\ jobs[i].type = aap[jobs[i].id].type
          /\ jobs[i].state = "running" \/ jobs[i].state = aap[jobs[i].id].state
      BY <1>2 DEF Listed
    <3> QED BY <1>2, <3>1
  <2> QED BY <1>1, <1>2, <2>1 DEF Listed
<1>4. Ids(new) = Ids(jobs) /\ \A t : FindLatestJobByType(new, t).id = FindLatestJobByType(jobs, t).id
  BY <1>1, <1>2, SameJobs
<1> QED BY <1>3, <1>4 DEF new

(* A list after a job that was just launched is appended. *)
LEMMA ListAppended ==
  ASSUME NEW jobs, NEW a, NEW b, Listed(jobs, a), Progress(a, b), NEW job \in JobStatus,
         job.id <= Len(b), job.type = b[job.id].type, job.state = "running"
  PROVE  Listed(AppendJob(jobs, job), b)
<1> DEFINE new == AppendJob(jobs, job)
<1>1. Listed(jobs, b) /\ jobs \in Seq(JobStatus)
  BY ListedKept DEF Listed
<1>2. /\ new \in Seq(JobStatus) /\ Len(new) \in 1 .. MaxHistory
      /\ \A i \in DOMAIN new : new[i] = job \/ \E k \in DOMAIN jobs : new[i] = jobs[k]
  BY <1>1, AppendJobFacts
<1> HIDE DEF new
<1>3. ASSUME NEW i \in DOMAIN new
      PROVE  /\ new[i].id <= Len(b)
             /\ new[i].type = b[new[i].id].type
             /\ new[i].state = "running" \/ new[i].state = b[new[i].id].state
  <2>1. CASE new[i] = job
    BY <2>1
  <2>2. ASSUME NEW k \in DOMAIN jobs, new[i] = jobs[k]
        PROVE  /\ new[i].id <= Len(b)
               /\ new[i].type = b[new[i].id].type
               /\ new[i].state = "running" \/ new[i].state = b[new[i].id].state
    BY <1>1, <2>2 DEF Listed
  <2> QED BY <1>2, <2>1, <2>2
<1>4. Len(new) <= MaxHistory
  BY <1>2, ProvisioningAssumption
<1>5. Listed(new, b)
  BY <1>2, <1>3, <1>4 DEF Listed
<1> QED BY <1>5 DEF new

-----------------------------------------------------------------------------
(* Steps after which AAP has the same jobs, of the same types and states.  *)
JobsSame ==
  /\ aap' \in Seq(Job) /\ Len(aap') = Len(aap)
  /\ \A id \in DOMAIN aap : aap'[id].type = aap[id].type /\ aap'[id].state = aap[id].state

(* With the same jobs in AAP, the same ones run, and what was launched and *)
(* cleaned up is the same.                                                 *)
LEMMA JobsSameFacts ==
  ASSUME aap \in Seq(Job), JobsSame
  PROVE  /\ Progress(aap, aap') /\ DOMAIN aap' = DOMAIN aap
         /\ aap' # << >> => aap # << >>
         /\ \A id : Running(id)' <=> Running(id)
         /\ Deprovisioned' <=> Deprovisioned
         /\ CleanedUp' <=> CleanedUp
         /\ NoProvisionAfterCleanup => NoProvisionAfterCleanup'
<1>1. DOMAIN aap' = DOMAIN aap /\ Len(aap) \in Nat /\ DOMAIN aap = 1 .. Len(aap)
  BY DEF JobsSame
<1>2. aap' # << >> => aap # << >>
  BY <1>1 DEF JobsSame
<1>3. Progress(aap, aap')
  BY <1>1 DEF JobsSame, Progress
<1>4. \A id : Running(id)' <=> Running(id)
  BY <1>1 DEF JobsSame, Running
<1>5. (Deprovisioned' <=> Deprovisioned) /\ (CleanedUp' <=> CleanedUp)
  BY <1>1 DEF JobsSame, Deprovisioned, CleanedUp
<1>6. ASSUME NoProvisionAfterCleanup PROVE NoProvisionAfterCleanup'
  <2> SUFFICES ASSUME NEW j \in 2 .. Len(aap), aap'[j - 1].type = "deprovision"
               PROVE  aap'[j].type = "deprovision"
    BY DEF NoProvisionAfterCleanup, JobsSame
  <2>1. j \in DOMAIN aap /\ j - 1 \in DOMAIN aap
    BY <1>1
  <2> QED BY <1>6, <2>1 DEF NoProvisionAfterCleanup, JobsSame
<1> QED BY <1>1, <1>2, <1>3, <1>4, <1>5, <1>6

(* A step spends nothing, or a fault, an edit or a deletion. *)
SpendsOther ==
  spent' \in [Kinds -> Nat] /\ spent'["stale"] = spent["stale"]

(* No fault, edit or deletion makes a reconciliation read a stale copy. *)
LEMMA SpendFacts ==
  ASSUME spent \in [Kinds -> Nat],
         UNCHANGED spent \/ Spend("fault") \/ Spend("edit") \/ Spend("delete")
  PROVE  SpendsOther
BY DEF Spend, SpendsOther, Kinds

(* The copy goes on to its end, with the same jobs, some of which may be   *)
(* in a newer state.                                                       *)
Refreshes ==
  /\ pc # "idle" /\ server.finalizer
  /\ pc' = "persist" \/ (pc = "delete" /\ pc' = pc)
  /\ UNCHANGED <<server, cache, read, purged, orphans>>
  /\ inst' \in Order /\ Listed(inst'.jobs, aap) /\ inst'.finalizer = inst.finalizer
  /\ Ids(inst'.jobs) = Ids(inst.jobs)
  /\ \A t : FindLatestJobByType(inst'.jobs, t).id = FindLatestJobByType(inst.jobs, t).id
  /\ JobsSame /\ SpendsOther

(* A reconciliation that only polls, holds back or cancels                 *)
(* (handleProvision, pollDeprovision) keeps the invariant.                 *)
LEMMA RefreshKeeps ==
  ASSUME ProvisioningInv, Refreshes
  PROVE  ProvisioningInv'
<1>1. aap \in Seq(Job) /\ JobsSame
  BY DEF ProvisioningInv, TypesInv, Refreshes
<1>2. /\ Progress(aap, aap') /\ DOMAIN aap' = DOMAIN aap
      /\ \A id : Running(id)' <=> Running(id)
      /\ Deprovisioned' <=> Deprovisioned
      /\ CleanedUp' <=> CleanedUp
      /\ NoProvisionAfterCleanup => NoProvisionAfterCleanup'
  BY <1>1, JobsSameFacts
<1>3. TypesInv'
  <2>1. IsOrder(server, aap') /\ IsOrder(cache, aap') /\ IsOrder(read, aap')
    BY <1>2, OrderKept DEF ProvisioningInv, TypesInv
  <2>2. IsOrder(inst', aap')
    BY <1>2, ListedKept DEF Refreshes, IsOrder
  <2>3. pc' \in {"idle", "update", "flush", "delete", "persist"} /\ spent' \in [Kinds -> Nat]
    BY DEF Refreshes, SpendsOther
  <2> QED BY <1>1, <1>2, <2>1, <2>2, <2>3 DEF ProvisioningInv, TypesInv, Refreshes, JobsSame
<1>4. CopiesInv'
  BY DEF ProvisioningInv, CopiesInv, Refreshes
<1>5. CleanupInv'
  BY <1>2 DEF ProvisioningInv, CleanupInv, Refreshes
<1>6. FreshInv'
  <2> SUFFICES ASSUME spent["stale"] = 0
               PROVE  (StillThere /\ InCopy /\ InServer /\ NothingBefore /\ NothingAfter)'
    BY DEF FreshInv, Refreshes, SpendsOther
  <2>1. StillThere /\ InCopy /\ InServer /\ NothingBefore /\ NothingAfter
    BY DEF ProvisioningInv, FreshInv
  <2>2. Tracked' = Tracked /\ \A id \in Tracked : id \in DOMAIN aap /\ aap'[id].type = aap[id].type
    BY <1>1, <1>2 DEF Tracked, Refreshes, JobsSame
  <2>3. StillThere' /\ NothingAfter'
    BY <2>1, <2>2 DEF StillThere, NothingAfter, Refreshes
  <2>4. InCopy'
    BY <2>1, <2>2 DEF InCopy, IsLatest, Refreshes
  <2>5. InServer'
    <3>1. Unrecorded' = Unrecorded
      BY DEF Unrecorded, Refreshes
    <3> QED BY <2>1, <2>2, <3>1 DEF InServer, IsLatest, Refreshes
  <2>6. NothingBefore'
    BY <1>2, <2>1, <2>2 DEF NothingBefore
  <2> QED BY <2>3, <2>4, <2>5, <2>6
<1> QED BY <1>3, <1>4, <1>5, <1>6 DEF ProvisioningInv

(* Between reconciliations the copy is a new order. *)
LEMMA NoCopyFacts ==
  ASSUME NEW a \in Seq(Job)
  PROVE  IsOrder(NoCopy, a) /\ ~NoCopy.finalizer /\ NoCopy.jobs = << >>
BY ProvisioningAssumption DEF IsOrder, Listed, Order, NoCopy, NewOrder

(* The reconciliation ends, with the order as it was; a job that was       *)
(* launched and not recorded is lost.                                      *)
Ends ==
  /\ EndReconcile
  /\ UNCHANGED <<server, purged>> /\ cache' \in {cache, server}
  /\ orphans \cup Unrecorded \subseteq orphans' /\ orphans' \subseteq DOMAIN aap
  /\ JobsSame /\ SpendsOther

(* Returning from Reconcile, by an error or a crash of the operator, keeps *)
(* the invariant: the jobs it did not record are counted as lost.          *)
LEMMA EndKeeps ==
  ASSUME ProvisioningInv, Ends
  PROVE  ProvisioningInv'
<1>1. aap \in Seq(Job) /\ JobsSame
  BY DEF ProvisioningInv, TypesInv, Ends
<1>2. /\ Progress(aap, aap') /\ DOMAIN aap' = DOMAIN aap
      /\ aap' # << >> => aap # << >>
      /\ \A id : Running(id)' <=> Running(id)
      /\ Deprovisioned' <=> Deprovisioned
      /\ CleanedUp' <=> CleanedUp
      /\ NoProvisionAfterCleanup => NoProvisionAfterCleanup'
  BY <1>1, JobsSameFacts
<1>3. pc' = "idle" /\ read' = NoCopy /\ inst' = NoCopy /\ server' = server /\ ~inst'.finalizer
  BY <1>1, NoCopyFacts DEF Ends, EndReconcile
<1>4. TypesInv'
  <2>1. IsOrder(server, aap') /\ IsOrder(cache, aap')
    BY <1>2, OrderKept DEF ProvisioningInv, TypesInv
  <2>2. IsOrder(NoCopy, aap') /\ aap' \in Seq(Job)
    BY NoCopyFacts, <1>1 DEF JobsSame
  <2>3. IsOrder(cache', aap')
    BY <2>1 DEF Ends
  <2>4. spent' \in [Kinds -> Nat] /\ purged' \subseteq DOMAIN aap' /\ orphans' \subseteq DOMAIN aap'
    BY <1>2 DEF Ends, SpendsOther, ProvisioningInv, TypesInv
  <2> QED BY <1>3, <2>1, <2>2, <2>3, <2>4 DEF TypesInv
<1>5. CopiesInv'
  <2>1. cache'.deleting => server.deleting
    BY DEF ProvisioningInv, CopiesInv, Ends
  <2>2. cache'.finalizer => server.finalizer
    BY DEF ProvisioningInv, CopiesInv, Ends
  <2> QED BY <1>2, <1>3, <2>1, <2>2 DEF ProvisioningInv, CopiesInv
<1>6. CleanupInv'
  <2>1. Deprovisioned => cache'.deleting
    BY DEF ProvisioningInv, CleanupInv, CopiesInv, Ends
  <2> QED BY <1>2, <1>3, <2>1 DEF ProvisioningInv, CleanupInv
<1>7. FreshInv'
  <2> SUFFICES ASSUME spent["stale"] = 0
               PROVE  (StillThere /\ InCopy /\ InServer /\ NothingBefore /\ NothingAfter)'
    BY DEF FreshInv, Ends, SpendsOther
  <2>1. StillThere /\ InCopy /\ InServer /\ NothingBefore /\ NothingAfter
    BY DEF ProvisioningInv, FreshInv
  <2>2. \A id \in Tracked' : /\ id \in Tracked /\ id \notin Unrecorded
                             /\ id \in DOMAIN aap /\ aap'[id].type = aap[id].type
    BY <1>1, <1>2 DEF Tracked, Ends, JobsSame
  <2>3. StillThere' /\ InCopy'
    BY <1>3 DEF StillThere, InCopy
  <2>4. InServer'
    BY <1>3, <2>1, <2>2 DEF InServer, IsLatest
  <2>5. NothingBefore'
    BY <1>2, <2>1, <2>2 DEF NothingBefore
  <2>6. NothingAfter'
    BY <1>3, <2>1, <2>2 DEF NothingAfter
  <2> QED BY <2>3, <2>4, <2>5, <2>6
<1> QED BY <1>4, <1>5, <1>6, <1>7 DEF ProvisioningInv

-----------------------------------------------------------------------------
(* Launches. *)

(* A launch adds one running job to AAP, with the next id, and changes no  *)
(* other.                                                                  *)
LEMMA LaunchFacts ==
  ASSUME aap \in Seq(Job), NEW t \in JobType, NEW v \in Versions \cup {NoVersion}, Launch(t, v),
         NEW n, n = Len(aap) + 1
  PROVE  /\ Progress(aap, aap') /\ aap' \in Seq(Job)
         /\ n \in Nat \ {0} /\ Len(aap') = n /\ n \notin DOMAIN aap
         /\ DOMAIN aap' = DOMAIN aap \cup {n}
         /\ NewJob(t, v) \in JobStatus /\ NewJob(t, v).id = n /\ NewJob(t, v).type = t
         /\ NewJob(t, v).state = "running"
         /\ aap'[n].type = t /\ \A id \in DOMAIN aap : aap'[id] = aap[id]
<1> DEFINE job == [type |-> t, state |-> "running", version |-> v, canceling |-> FALSE]
<1>1. job \in Job /\ job.type = t
  BY DEF Job, JobState
<1>2. aap' = Append(aap, job) /\ Len(aap) < MaxJobs
  BY DEF Launch
<1> HIDE DEF job
<1>3. /\ Len(aap) \in Nat /\ aap' \in Seq(Job) /\ Len(aap') = Len(aap) + 1
      /\ aap'[Len(aap) + 1] = job /\ \A id \in 1 .. Len(aap) : aap'[id] = aap[id]
      /\ DOMAIN aap = 1 .. Len(aap) /\ DOMAIN aap' = 1 .. (Len(aap) + 1)
  BY <1>1, <1>2
<1>4. /\ n \in Nat \ {0} /\ n \notin DOMAIN aap /\ DOMAIN aap' = DOMAIN aap \cup {n}
      /\ Len(aap) <= Len(aap') /\ n \in 1 .. MaxJobs
  <2>1. MaxJobs \in Nat
    BY ProvisioningAssumption
  <2> QED BY <1>2, <1>3, <2>1
<1>5. Progress(aap, aap')
  BY <1>3, <1>4 DEF Progress
<1>6. /\ NewJob(t, v) \in JobStatus /\ NewJob(t, v).id = n /\ NewJob(t, v).type = t
      /\ NewJob(t, v).state = "running"
  BY <1>4 DEF NewJob, JobStatus, JobState
<1> QED BY <1>1, <1>3, <1>4, <1>5, <1>6

(* Deprovisioning comes last: a launch that may be made now does not break *)
(* what the jobs of AAP say of it.                                         *)
LEMMA LaunchInOrder ==
  ASSUME ProvisioningInv, NEW t \in JobType, NEW v \in Versions \cup {NoVersion}, Launch(t, v),
         t = "provision" => pc = "update", t = "deprovision" => pc = "delete"
  PROVE  /\ NoProvisionAfterCleanup' /\ (CleanedUp => CleanedUp')
         /\ Deprovisioned' => t = "deprovision" /\ cache.deleting
<1> DEFINE n == Len(aap) + 1
<1>1. aap \in Seq(Job) /\ Len(aap) \in Nat /\ DOMAIN aap = 1 .. Len(aap)
  BY DEF ProvisioningInv, TypesInv
<1>2. /\ n \in Nat /\ Len(aap') = n /\ DOMAIN aap' = DOMAIN aap \cup {n}
      /\ aap'[n].type = t /\ \A id \in DOMAIN aap : aap'[id] = aap[id]
  BY <1>1, LaunchFacts
<1>3. Deprovisioned => t = "deprovision"
  BY DEF ProvisioningInv, CleanupInv, JobType
<1>4. NoProvisionAfterCleanup'
  <2> SUFFICES ASSUME NEW j \in 2 .. n, aap'[j - 1].type = "deprovision"
               PROVE  aap'[j].type = "deprovision"
    BY <1>2 DEF NoProvisionAfterCleanup
  <2>1. j - 1 \in DOMAIN aap /\ aap[j - 1].type = "deprovision"
    BY <1>1, <1>2
  <2>2. CASE j = n
    BY <1>2, <1>3, <2>1, <2>2 DEF Deprovisioned
  <2>3. CASE j # n
    <3>1. j \in 2 .. Len(aap) /\ j \in DOMAIN aap
      BY <1>1, <2>3
    <3> QED BY <1>2, <2>1, <3>1 DEF ProvisioningInv, CleanupInv, NoProvisionAfterCleanup
  <2> QED BY <2>2, <2>3
<1>5. CleanedUp => CleanedUp'
  <2> SUFFICES ASSUME NEW d \in DOMAIN aap, aap[d].type = "deprovision", aap[d].state = "succeeded"
               PROVE  CleanedUp'
    BY DEF CleanedUp
  <2>1. d \in DOMAIN aap' /\ aap'[d] = aap[d]
    BY <1>2
  <2> QED BY <2>1 DEF CleanedUp
<1>6. ASSUME Deprovisioned' PROVE t = "deprovision" /\ cache.deleting
  <2>1. PICK d \in DOMAIN aap' : aap'[d].type = "deprovision"
    BY <1>6 DEF Deprovisioned
  <2>2. CASE d = n
    BY <1>2, <2>1, <2>2 DEF ProvisioningInv, CopiesInv
  <2>3. CASE d \in DOMAIN aap
    <3>1. Deprovisioned
      BY <1>2, <2>1, <2>3 DEF Deprovisioned
    <3> QED BY <1>3, <3>1 DEF ProvisioningInv, CleanupInv
  <2> QED BY <1>2, <2>2, <2>3
<1> QED BY <1>4, <1>5, <1>6

(* A launch is made from the copy when no recorded job runs. *)
Launches(t, v) ==
  /\ Launch(t, v) /\ server.finalizer
  /\ t = "provision" => pc = "update"
  /\ t = "deprovision" => pc = "delete"
  /\ spent["stale"] = 0 => Tracked = {}
  /\ UNCHANGED <<server, cache, purged>> /\ SpendsOther

(* A launch whose job is appended to the copy (triggerProvision,           *)
(* triggerDeprovision) keeps the invariant: nothing recorded ran before,   *)
(* and the new job is the latest in the copy until the status is written.  *)
LEMMA LaunchKeeps ==
  ASSUME ProvisioningInv, NEW t \in JobType, NEW v \in Versions \cup {NoVersion}, Launches(t, v),
         pc' \in {"flush", "persist"}, UNCHANGED <<read, orphans>>,
         NEW jobs, Listed(jobs, aap),
         inst' \in Order, inst'.jobs = AppendJob(jobs, NewJob(t, v)),
         inst'.finalizer = inst.finalizer
  PROVE  ProvisioningInv'
<1> DEFINE n == Len(aap) + 1
           job == NewJob(t, v)
<1>1. aap \in Seq(Job) /\ pc # "idle" /\ Launch(t, v) /\ server.finalizer
  BY DEF ProvisioningInv, TypesInv, Launches, JobType
<1>2. /\ Progress(aap, aap') /\ aap' \in Seq(Job)
      /\ n \in Nat \ {0} /\ Len(aap') = n /\ n \notin DOMAIN aap
      /\ DOMAIN aap' = DOMAIN aap \cup {n}
      /\ job \in JobStatus /\ job.id = n /\ job.type = t /\ job.state = "running"
      /\ aap'[n].type = t /\ \A id \in DOMAIN aap : aap'[id] = aap[id]
  BY <1>1, LaunchFacts, ZenonT(30)
<1>3. /\ NoProvisionAfterCleanup' /\ (CleanedUp => CleanedUp')
      /\ Deprovisioned' => t = "deprovision" /\ cache.deleting
  BY LaunchInOrder DEF Launches
<1> HIDE DEF n, job
<1>4. TypesInv'
  <2>1. IsOrder(server, aap') /\ IsOrder(cache, aap') /\ IsOrder(read, aap')
    BY <1>2, OrderKept DEF ProvisioningInv, TypesInv
  <2>2. Listed(AppendJob(jobs, job), aap')
    <3>1. job.id <= Len(aap')
      BY <1>2
    <3> QED BY <1>2, <3>1, ListAppended
  <2>3. IsOrder(inst', aap')
    BY <2>2 DEF IsOrder, job
  <2>4. purged' \subseteq DOMAIN aap' /\ orphans' \subseteq DOMAIN aap'
    BY <1>2 DEF ProvisioningInv, TypesInv, Launches
  <2> QED BY <1>2, <2>1, <2>3, <2>4 DEF TypesInv, Launches, SpendsOther
<1>5. CopiesInv'
  BY <1>1 DEF ProvisioningInv, CopiesInv, Launches
<1>6. CleanupInv'
  BY <1>3 DEF ProvisioningInv, CleanupInv, Launches
<1>7. FreshInv'
  <2> SUFFICES ASSUME spent["stale"] = 0
               PROVE  (StillThere /\ InCopy /\ InServer /\ NothingBefore /\ NothingAfter)'
    BY DEF FreshInv, Launches, SpendsOther
  <2>1. StillThere /\ Tracked = {} /\ server' = server
    BY DEF ProvisioningInv, FreshInv, Launches
  <2>2. server.exists /\ StillThere' /\ NothingAfter'
    BY <1>1, <2>1 DEF StillThere, NothingAfter
  <2>3. \A id \in Tracked' : id = n
    BY <1>2, <2>1 DEF Tracked, Running
  <2>4. FindLatestJobByType(inst'.jobs, t).id = n
    <3>1. FindLatestJobByType(AppendJob(jobs, job), t) = job
      BY <1>2, LatestAppended DEF Listed
    <3> QED BY <1>2, <3>1 DEF job
  <2>5. InCopy'
    BY <1>2, <2>3, <2>4 DEF InCopy, IsLatest
  <2>6. n \in Unrecorded'
    <3>1. n \in Ids(inst'.jobs)
      <4>1. Listed(inst'.jobs, aap')
        BY <1>4 DEF TypesInv, IsOrder
      <4> QED BY <1>2, <2>4, <4>1, LatestListed DEF NoJob
    <3>2. \A i \in DOMAIN read.jobs : read.jobs[i].id \in DOMAIN aap
      BY <1>1, ListedFacts DEF ProvisioningInv, TypesInv, IsOrder
    <3>3. \A i \in DOMAIN server.jobs : server.jobs[i].id \in DOMAIN aap
      BY <1>1, ListedFacts DEF ProvisioningInv, TypesInv, IsOrder
    <3>4. n \notin Ids(read.jobs) /\ n \notin Ids(server.jobs)
      BY <1>2, <3>2, <3>3, ZenonT(30) DEF Ids
    <3> QED BY <2>1, <3>1, <3>4 DEF Unrecorded
  <2>7. InServer'
    BY <2>3, <2>6 DEF InServer
  <2>8. NothingBefore'
    BY <1>2, <1>3, <2>3 DEF NothingBefore
  <2> QED BY <2>2, <2>5, <2>7, <2>8
<1> QED BY <1>4, <1>5, <1>6, <1>7 DEF ProvisioningInv

(* A launch whose answer is lost keeps the invariant: the job is not       *)
(* recorded anywhere, and counts as lost.                                  *)
LEMMA LoseKeeps ==
  ASSUME ProvisioningInv, NEW t \in JobType, NEW v \in Versions \cup {NoVersion}, Launches(t, v),
         EndReconcile, orphans' = orphans \cup {Len(aap) + 1}
  PROVE  ProvisioningInv'
<1> DEFINE n == Len(aap) + 1
<1>1. aap \in Seq(Job) /\ Launch(t, v) /\ server.finalizer
  BY DEF ProvisioningInv, TypesInv, Launches
<1>2. /\ Progress(aap, aap') /\ aap' \in Seq(Job) /\ DOMAIN aap' = DOMAIN aap \cup {n}
      /\ aap'[n].type = t /\ \A id \in DOMAIN aap : aap'[id] = aap[id]
  BY <1>1, LaunchFacts
<1>3. /\ NoProvisionAfterCleanup' /\ (CleanedUp => CleanedUp')
      /\ Deprovisioned' => t = "deprovision" /\ cache.deleting
  BY LaunchInOrder DEF Launches
<1>4. orphans' = orphans \cup {n}
  OBVIOUS
<1> HIDE DEF n
<1>5. /\ pc' = "idle" /\ read' = NoCopy /\ inst' = NoCopy /\ ~inst'.finalizer
      /\ server' = server /\ cache' = cache
  BY <1>1, NoCopyFacts DEF Launches, EndReconcile
<1>6. TypesInv'
  <2>1. IsOrder(server, aap') /\ IsOrder(cache, aap') /\ IsOrder(NoCopy, aap')
    BY <1>2, OrderKept, NoCopyFacts DEF ProvisioningInv, TypesInv
  <2>2. purged' \subseteq DOMAIN aap' /\ orphans' \subseteq DOMAIN aap'
    BY <1>2, <1>4 DEF ProvisioningInv, TypesInv, Launches
  <2> QED BY <1>2, <1>5, <2>1, <2>2 DEF TypesInv, Launches, SpendsOther
<1>7. CopiesInv'
  BY <1>1, <1>5 DEF ProvisioningInv, CopiesInv
<1>8. CleanupInv'
  BY <1>3, <1>5 DEF ProvisioningInv, CleanupInv
<1>9. FreshInv'
  <2> SUFFICES ASSUME spent["stale"] = 0
               PROVE  (StillThere /\ InCopy /\ InServer /\ NothingBefore /\ NothingAfter)'
    BY DEF FreshInv, Launches, SpendsOther
  <2>1. Tracked' = {}
    <3>1. Tracked = {}
      BY DEF Launches
    <3> QED BY <1>2, <1>4, <3>1 DEF Tracked, Running
  <2> QED BY <1>5, <2>1 DEF StillThere, InCopy, InServer, NothingBefore, NothingAfter
<1> QED BY <1>6, <1>7, <1>8, <1>9 DEF ProvisioningInv

-----------------------------------------------------------------------------
(* Steps that change the order. *)

(* A step that leaves AAP alone keeps what is said of its jobs. *)
LEMMA SameAap ==
  ASSUME UNCHANGED <<aap, orphans>>
  PROVE  /\ Tracked' = Tracked /\ (Deprovisioned' <=> Deprovisioned)
         /\ (CleanedUp' <=> CleanedUp)
         /\ (NoProvisionAfterCleanup' <=> NoProvisionAfterCleanup)
         /\ \A jobs, id : IsLatest(jobs, id)' <=> IsLatest(jobs, id)
BY DEF Tracked, Running, Deprovisioned, CleanedUp, NoProvisionAfterCleanup, IsLatest

(* Writing the status from the copy, by flushStatus or at the end of       *)
(* Reconcile, keeps the invariant: the jobs of the order become those of   *)
(* the copy.                                                               *)
LEMMA WriteKeeps ==
  ASSUME ProvisioningInv, pc \in {"flush", "persist"}, PatchStatus,
         UNCHANGED <<cache, aap, purged, orphans, spent>>,
         (pc' = "persist" /\ UNCHANGED <<read, inst>>) \/ EndReconcile
  PROVE  ProvisioningInv'
<1>1. /\ aap \in Seq(Job) /\ IsOrder(server, aap) /\ IsOrder(inst, aap) /\ server.finalizer
      /\ IsOrder(cache, aap) /\ IsOrder(read, aap)
  BY DEF ProvisioningInv, TypesInv, CopiesInv
<1>2. /\ server' \in Order /\ server'.jobs \in {server.jobs, inst.jobs}
      /\ server'.exists = server.exists /\ server'.deleting = server.deleting
      /\ server'.finalizer = server.finalizer
      /\ server.exists => server'.jobs = inst.jobs
  BY <1>1 DEF PatchStatus, IsOrder, Order
<1>3. IsOrder(server', aap)
  BY <1>1, <1>2 DEF IsOrder
<1>4. /\ read' \in {read, NoCopy} /\ inst' \in {inst, NoCopy} /\ pc' \in {"idle", "persist"}
      /\ pc' # "idle" => read' = read /\ inst' = inst
      /\ inst'.finalizer => inst.finalizer
  BY <1>1, NoCopyFacts DEF EndReconcile
<1>5. TypesInv'
  <2>1. IsOrder(read', aap) /\ IsOrder(inst', aap)
    BY <1>1, <1>4, NoCopyFacts
  <2> QED BY <1>1, <1>3, <1>4, <2>1 DEF ProvisioningInv, TypesInv
<1>6. CopiesInv'
  BY <1>1, <1>2, <1>4 DEF ProvisioningInv, CopiesInv
<1>7. CleanupInv'
  BY <1>2, <1>4, SameAap DEF ProvisioningInv, CleanupInv
<1>8. FreshInv'
  <2> SUFFICES ASSUME spent["stale"] = 0
               PROVE  (StillThere /\ InCopy /\ InServer /\ NothingBefore /\ NothingAfter)'
    BY DEF FreshInv
  <2>1. StillThere /\ InCopy /\ InServer /\ NothingBefore /\ NothingAfter
    BY DEF ProvisioningInv, FreshInv
  <2>2. server.exists /\ server'.exists /\ server'.jobs = inst.jobs
    BY <1>1, <1>2, <2>1 DEF StillThere
  <2>3. StillThere' /\ NothingAfter'
    BY <2>2 DEF StillThere, NothingAfter
  <2>4. \A id \in Tracked : IsLatest(inst.jobs, id)
    BY <2>1 DEF InCopy
  <2>5. InCopy'
    BY <1>4, <2>4, SameAap DEF InCopy, IsLatest
  <2>6. InServer'
    BY <2>2, <2>4, SameAap DEF InServer, IsLatest
  <2>7. NothingBefore'
    BY <2>1, SameAap DEF NothingBefore
  <2> QED BY <2>3, <2>5, <2>6, <2>7
<1> QED BY <1>5, <1>6, <1>7, <1>8 DEF ProvisioningInv

(* Users change the spec, or delete the order: without a finalizer it is   *)
(* gone, and nothing was launched for it.                                  *)
LEMMA UserKeeps ==
  ASSUME ProvisioningInv, (\E v \in Versions : EditSpec(v)) \/ DeleteOrder
  PROVE  ProvisioningInv'
<1>1. /\ aap \in Seq(Job) /\ IsOrder(server, aap) /\ SpendsOther
      /\ UNCHANGED <<cache, read, inst, pc, aap, purged, orphans>>
  BY SpendFacts DEF ProvisioningInv, TypesInv, EditSpec, DeleteOrder, copyVars, jobVars
<1>2. /\ server' \in Order /\ server'.jobs = server.jobs /\ server'.finalizer = server.finalizer
      /\ server.deleting => server'.deleting
      /\ server'.deleting => server.deleting \/ server.finalizer
      /\ server.exists /\ server.finalizer => server'.exists
      /\ server.exists
  BY <1>1 DEF EditSpec, DeleteOrder, IsOrder, Order
<1>3. TypesInv'
  <2>1. IsOrder(server', aap)
    BY <1>1, <1>2 DEF IsOrder
  <2> QED BY <1>1, <2>1 DEF ProvisioningInv, TypesInv, SpendsOther
<1>4. CopiesInv'
  BY <1>1, <1>2 DEF ProvisioningInv, CopiesInv
<1>5. CleanupInv'
  BY <1>1, <1>2, SameAap DEF ProvisioningInv, CleanupInv
<1>6. FreshInv'
  <2> SUFFICES ASSUME spent["stale"] = 0
               PROVE  (StillThere /\ InCopy /\ InServer /\ NothingBefore /\ NothingAfter)'
    BY <1>1 DEF FreshInv, SpendsOther
  <2>1. StillThere /\ InCopy /\ InServer /\ NothingBefore
    BY DEF ProvisioningInv, FreshInv
  <2>2. StillThere'
    BY <1>1, <1>2, <2>1 DEF StillThere
  <2>3. InCopy'
    BY <1>1, <2>1, SameAap DEF InCopy, IsLatest
  <2>4. InServer'
    <3>1. Unrecorded' = Unrecorded
      BY <1>1, <1>2 DEF Unrecorded
    <3> QED BY <1>1, <1>2, <2>1, <3>1, SameAap DEF InServer, IsLatest
  <2>5. NothingBefore'
    BY <1>1, <2>1, SameAap DEF NothingBefore
  <2>6. NothingAfter'
    <3>1. CASE server.finalizer
      BY <1>2, <3>1 DEF NothingAfter
    <3>2. CASE ~server.finalizer
      <4>1. aap = << >>
        BY <3>2 DEF ProvisioningInv, CopiesInv
      <4> QED BY <1>1, <4>1 DEF NothingAfter, Tracked
    <3> QED BY <3>1, <3>2
  <2> QED BY <2>2, <2>3, <2>4, <2>5, <2>6
<1> QED BY <1>3, <1>4, <1>5, <1>6 DEF ProvisioningInv

(* The informer cache catching up with the API server keeps the invariant. *)
LEMMA SyncKeeps ==
  ASSUME ProvisioningInv, SyncCache
  PROVE  ProvisioningInv'
<1>1. cache' = server /\ UNCHANGED <<server, read, inst, pc, aap, purged, orphans, spent>>
  BY DEF SyncCache, copyVars, jobVars
<1>2. TypesInv'
  BY <1>1 DEF ProvisioningInv, TypesInv
<1>3. CopiesInv'
  BY <1>1 DEF ProvisioningInv, CopiesInv
<1>4. CleanupInv'
  BY <1>1, SameAap DEF ProvisioningInv, CopiesInv, CleanupInv
<1>5. FreshInv'
  BY <1>1, SameAap DEF ProvisioningInv, FreshInv, StillThere, InCopy, InServer, NothingBefore,
                       NothingAfter, IsLatest, Unrecorded
<1> QED BY <1>2, <1>3, <1>4, <1>5 DEF ProvisioningInv

(* AAP ending a job keeps the invariant: one job less runs, and only a     *)
(* deprovision job that was running can have succeeded.                    *)
LEMMA EndJobKeeps ==
  ASSUME ProvisioningInv, NEW id \in DOMAIN aap, NEW s \in Outcome, EndJob(id, s)
  PROVE  ProvisioningInv'
<1>1. /\ aap \in Seq(Job) /\ Running(id) /\ aap' = [aap EXCEPT ![id].state = s] /\ SpendsOther
      /\ UNCHANGED <<server, cache, read, inst, pc, purged, orphans>>
  <2>1. UNCHANGED spent \/ Spend("fault")
    BY DEF EndJob, Outcome
  <2> QED BY <2>1, SpendFacts DEF ProvisioningInv, TypesInv, EndJob, orderVars, copyVars
<1>2. /\ aap' \in Seq(Job) /\ Len(aap') = Len(aap) /\ DOMAIN aap' = DOMAIN aap
      /\ \A k \in DOMAIN aap : /\ aap'[k].type = aap[k].type
                               /\ aap'[k].state = IF k = id THEN s ELSE aap[k].state
  <2>1. ASSUME NEW k \in DOMAIN aap
        PROVE  /\ aap'[k] \in Job /\ aap'[k].type = aap[k].type
               /\ aap'[k].state = IF k = id THEN s ELSE aap[k].state
    <3>1. aap[k] \in Job /\ s \in JobState
      BY <1>1 DEF JobState
    <3>2. aap'[k] = IF k = id THEN [aap[k] EXCEPT !.state = s] ELSE aap[k]
      BY <1>1
    <3> QED BY <3>1, <3>2 DEF Job
  <2>2. Len(aap) \in Nat /\ DOMAIN aap = 1 .. Len(aap) /\ aap \in [1 .. Len(aap) -> Job]
    BY <1>1
  <2>3. aap' \in [1 .. Len(aap) -> Job]
    <3> DEFINE e == [aap[id] EXCEPT !.state = s]
    <3>1. e \in Job /\ aap' = [aap EXCEPT ![id] = e]
      BY <1>1, <2>1
    <3> HIDE DEF e
    <3> QED BY <2>2, <3>1
  <2>4. aap' \in Seq(Job) /\ Len(aap') = Len(aap)
    BY <2>2, <2>3
  <2> QED BY <2>1, <2>2, <2>3, <2>4
<1>3. aap[id].state = "running" /\ s # "running" /\ Len(aap) \in Nat /\ DOMAIN aap = 1 .. Len(aap)
  BY <1>1 DEF Running, Outcome
<1>4. Progress(aap, aap')
  BY <1>1, <1>2, <1>3 DEF Progress
<1>5. /\ Deprovisioned' <=> Deprovisioned
      /\ aap' # << >> => aap # << >>
  BY <1>1, <1>2, <1>3 DEF Deprovisioned
<1>6. CleanedUp => CleanedUp'
  BY <1>2, <1>3 DEF CleanedUp
<1>7. NoProvisionAfterCleanup'
  <2> SUFFICES ASSUME NEW j \in 2 .. Len(aap), aap'[j - 1].type = "deprovision"
               PROVE  aap'[j].type = "deprovision"
    BY <1>2 DEF NoProvisionAfterCleanup
  <2>1. j \in DOMAIN aap /\ j - 1 \in DOMAIN aap
    BY <1>3
  <2> QED BY <1>2, <2>1 DEF ProvisioningInv, CleanupInv, NoProvisionAfterCleanup
<1>8. TypesInv'
  <2>1. /\ IsOrder(server, aap') /\ IsOrder(cache, aap') /\ IsOrder(read, aap')
        /\ IsOrder(inst, aap')
    BY <1>4, OrderKept DEF ProvisioningInv, TypesInv
  <2> QED BY <1>1, <1>2, <2>1 DEF ProvisioningInv, TypesInv, SpendsOther
<1>9. CopiesInv'
  BY <1>1, <1>5 DEF ProvisioningInv, CopiesInv
<1>10. CleanupInv'
  BY <1>1, <1>5, <1>6, <1>7 DEF ProvisioningInv, CleanupInv
<1>11. FreshInv'
  <2> SUFFICES ASSUME spent["stale"] = 0
               PROVE  (StillThere /\ InCopy /\ InServer /\ NothingBefore /\ NothingAfter)'
    BY <1>1 DEF FreshInv, SpendsOther
  <2>1. StillThere /\ InCopy /\ InServer /\ NothingBefore /\ NothingAfter
    BY DEF ProvisioningInv, FreshInv
  <2>2. \A k \in Tracked' : k \in Tracked /\ k \in DOMAIN aap /\ aap'[k].type = aap[k].type
    BY <1>1, <1>2, <1>3 DEF Tracked, Running
  <2>3. StillThere' /\ NothingAfter'
    BY <1>1, <2>1, <2>2 DEF StillThere, NothingAfter
  <2>4. InCopy'
    BY <1>1, <2>1, <2>2 DEF InCopy, IsLatest
  <2>5. InServer'
    BY <1>1, <2>1, <2>2 DEF InServer, IsLatest, Unrecorded
  <2>6. NothingBefore'
    BY <1>5, <2>1, <2>2 DEF NothingBefore
  <2> QED BY <2>3, <2>4, <2>5, <2>6
<1> QED BY <1>8, <1>9, <1>10, <1>11 DEF ProvisioningInv

(* Starting a reconciliation from the cache keeps the invariant; if the    *)
(* cached copy is stale, that is counted.                                  *)
LEMMA StartKeeps ==
  ASSUME ProvisioningInv, StartReconcile
  PROVE  ProvisioningInv'
<1>1. /\ pc = "idle" /\ cache.exists /\ read' = cache /\ inst' = cache
      /\ pc' = (IF cache.deleting THEN "delete" ELSE "update")
      /\ UNCHANGED <<server, cache, aap, purged, orphans>>
  BY DEF StartReconcile, orderVars, jobVars
<1>2. /\ spent' \in [Kinds -> Nat]
      /\ spent'["stale"] = 0 => spent["stale"] = 0 /\ cache = server
  BY DEF StartReconcile, Spend, Kinds, ProvisioningInv, TypesInv
<1>3. TypesInv'
  BY <1>1, <1>2 DEF ProvisioningInv, TypesInv
<1>4. CopiesInv'
  BY <1>1 DEF ProvisioningInv, CopiesInv
<1>5. CleanupInv'
  BY <1>1, SameAap DEF ProvisioningInv, CleanupInv
<1>6. FreshInv'
  <2> SUFFICES ASSUME spent["stale"] = 0, cache = server
               PROVE  (StillThere /\ InCopy /\ InServer /\ NothingBefore /\ NothingAfter)'
    BY <1>2 DEF FreshInv
  <2>1. InServer /\ NothingBefore /\ NothingAfter
    BY DEF ProvisioningInv, FreshInv
  <2>2. StillThere' /\ NothingAfter'
    BY <1>1 DEF StillThere, NothingAfter
  <2>3. \A id \in Tracked : IsLatest(server.jobs, id)
    BY <1>1, <2>1 DEF InServer
  <2>4. InCopy' /\ InServer'
    BY <1>1, <2>3, SameAap DEF InCopy, InServer, IsLatest
  <2>5. NothingBefore'
    BY <1>1, <2>1, SameAap DEF NothingBefore
  <2> QED BY <2>2, <2>4, <2>5
<1> QED BY <1>3, <1>4, <1>5, <1>6 DEF ProvisioningInv

(* While a reconciliation has launched nothing, nothing is unrecorded. *)
LEMMA NoneUnrecorded ==
  ASSUME ProvisioningInv, pc \in {"update", "delete"}
  PROVE  Unrecorded = {}
BY DEF ProvisioningInv, CopiesInv, Unrecorded

(* The finalizer is added, or the copy was not the latest version. *)
LEMMA AddFinalizerKeeps ==
  ASSUME ProvisioningInv, AddFinalizer
  PROVE  ProvisioningInv'
<1>1. /\ pc = "update" /\ UNCHANGED <<cache, aap, purged, orphans, spent>>
      /\ aap \in Seq(Job) /\ orphans \subseteq DOMAIN aap /\ spent \in [Kinds -> Nat]
      /\ IsOrder(server, aap) /\ Unrecorded = {}
  BY NoneUnrecorded DEF AddFinalizer, jobVars, ProvisioningInv, TypesInv
<1>2. CASE read = server
  <2>1. /\ server' = [server EXCEPT !.finalizer = TRUE] /\ inst' = server'
        /\ UNCHANGED <<pc, read>>
    BY <1>2 DEF AddFinalizer
  <2>2. /\ server' \in Order /\ server'.jobs = server.jobs /\ server'.finalizer
        /\ server'.exists = server.exists /\ server'.deleting = server.deleting
    BY <1>1, <2>1 DEF IsOrder, Order
  <2>3. server.exists
    BY <1>1, <1>2 DEF ProvisioningInv, CopiesInv
  <2>4. TypesInv'
    <3>1. IsOrder(server', aap)
      BY <1>1, <2>2 DEF IsOrder
    <3> QED BY <1>1, <2>1, <3>1 DEF ProvisioningInv, TypesInv
  <2>5. CopiesInv'
    BY <1>1, <1>2, <2>1, <2>2 DEF ProvisioningInv, CopiesInv
  <2>6. CleanupInv'
    BY <1>1, <2>1, <2>2, <2>3, SameAap DEF ProvisioningInv, CleanupInv
  <2>7. FreshInv'
    <3> SUFFICES ASSUME spent["stale"] = 0
                 PROVE  (StillThere /\ InCopy /\ InServer /\ NothingBefore /\ NothingAfter)'
      BY <1>1 DEF FreshInv
    <3>1. InServer /\ NothingBefore
      BY DEF ProvisioningInv, FreshInv
    <3>2. StillThere' /\ NothingAfter'
      BY <2>2, <2>3 DEF StillThere, NothingAfter
    <3>3. \A id \in Tracked : IsLatest(server.jobs, id)
      BY <1>1, <3>1 DEF InServer
    <3>4. InCopy' /\ InServer'
      BY <1>1, <2>1, <2>2, <3>3, SameAap DEF InCopy, InServer, IsLatest
    <3>5. NothingBefore'
      BY <1>1, <3>1, SameAap DEF NothingBefore
    <3> QED BY <3>2, <3>4, <3>5
  <2> QED BY <2>4, <2>5, <2>6, <2>7 DEF ProvisioningInv
<1>3. CASE read # server
  <2>1. Ends
    BY <1>1, <1>3 DEF AddFinalizer, Ends, JobsSame, SpendsOther
  <2> QED BY <2>1, EndKeeps
<1> QED BY <1>2, <1>3

(* The finalizer is removed: the deprovision job has succeeded, and no     *)
(* recorded job runs.                                                      *)
LEMMA RemoveFinalizerKeeps ==
  ASSUME ProvisioningInv, RemoveFinalizer
  PROVE  ProvisioningInv'
<1>1. /\ pc = "delete" /\ UNCHANGED <<cache, aap, purged, orphans, spent>>
      /\ aap \in Seq(Job) /\ orphans \subseteq DOMAIN aap /\ spent \in [Kinds -> Nat]
      /\ IsOrder(server, aap) /\ Unrecorded = {} /\ EndReconcile
  BY NoneUnrecorded DEF RemoveFinalizer, jobVars, ProvisioningInv, TypesInv
<1>2. CASE read = server
  <2>1. server' = [server EXCEPT !.exists = FALSE]
    BY <1>2 DEF RemoveFinalizer
  <2>2. /\ server' \in Order /\ server'.jobs = server.jobs /\ ~server'.exists
        /\ server'.finalizer = server.finalizer /\ server'.deleting = server.deleting
    BY <1>1, <2>1 DEF IsOrder, Order
  <2>3. pc' = "idle" /\ read' = NoCopy /\ inst' = NoCopy /\ ~inst'.finalizer
    BY <1>1, NoCopyFacts DEF EndReconcile
  <2>4. TypesInv'
    <3>1. IsOrder(server', aap) /\ IsOrder(NoCopy, aap)
      BY <1>1, <2>2, NoCopyFacts DEF IsOrder
    <3> QED BY <1>1, <2>3, <3>1 DEF ProvisioningInv, TypesInv
  <2>5. CopiesInv'
    BY <1>1, <2>2, <2>3 DEF ProvisioningInv, CopiesInv
  <2>6. /\ Deprovision.id \in DOMAIN aap /\ aap[Deprovision.id].type = "deprovision"
        /\ aap[Deprovision.id].state = "succeeded"
    <3>1. Listed(inst.jobs, aap) /\ Deprovision.state = "succeeded"
      BY DEF ProvisioningInv, TypesInv, IsOrder, RemoveFinalizer, DeprovisionDone
    <3> QED BY <1>1, <3>1, LatestListed DEF Deprovision, NoJob
  <2>7. CleanupInv'
    <3>1. CleanedUp
      BY <2>6 DEF CleanedUp
    <3> QED BY <1>1, <2>3, <3>1, SameAap DEF ProvisioningInv, CleanupInv
  <2>8. FreshInv'
    <3> SUFFICES ASSUME spent["stale"] = 0
                 PROVE  (StillThere /\ InCopy /\ InServer /\ NothingBefore /\ NothingAfter)'
      BY <1>1 DEF FreshInv
    <3>1. InCopy /\ NothingBefore
      BY DEF ProvisioningInv, FreshInv
    <3>2. ASSUME NEW id \in Tracked PROVE FALSE
      <4>1. aap[id].type # "provision"
        BY <2>6, <3>1 DEF NothingBefore, Deprovisioned
      <4>2. aap[id] \in Job /\ aap[id].state = "running"
        BY <1>1 DEF Tracked, Running
      <4>3. aap[id].type = "deprovision"
        BY <4>1, <4>2 DEF Job, JobType
      <4>4. Deprovision.id = id
        BY <1>1, <3>1, <4>3 DEF InCopy, IsLatest, Deprovision
      <4> QED BY <2>6, <4>2, <4>4
    <3>3. Tracked' = {}
      BY <1>1, <3>2, SameAap
    <3> QED BY <2>3, <3>3 DEF StillThere, InCopy, InServer, NothingBefore, NothingAfter
  <2> QED BY <2>4, <2>5, <2>7, <2>8 DEF ProvisioningInv
<1>3. CASE read # server
  <2>1. Ends
    BY <1>1, <1>3 DEF RemoveFinalizer, Ends, JobsSame, SpendsOther
  <2> QED BY <2>1, EndKeeps
<1> QED BY <1>2, <1>3

-----------------------------------------------------------------------------
(* The steps of the lifecycles. *)

(* Replacing the job list of the copy leaves the rest of it alone. *)
LEMMA CopyWithJobs ==
  ASSUME inst \in Order, NEW jobs \in Seq(JobStatus),
         inst' = WithJobs(jobs) \/ inst' = [inst EXCEPT !.jobs = jobs]
  PROVE  inst' \in Order /\ inst'.jobs = jobs /\ inst'.finalizer = inst.finalizer
BY DEF WithJobs, Order

(* A copy whose job list is as it was, or has the state of one job updated. *)
LEMMA CopyRefreshed ==
  ASSUME ProvisioningInv, NEW jobs,
         jobs = inst.jobs \/ \E id \in DOMAIN aap : jobs = UpdateJob(inst.jobs, id)
  PROVE  /\ Listed(jobs, aap) /\ jobs \in Seq(JobStatus) /\ Ids(jobs) = Ids(inst.jobs)
         /\ \A t : FindLatestJobByType(jobs, t).id = FindLatestJobByType(inst.jobs, t).id
<1>1. aap \in Seq(Job) /\ Listed(inst.jobs, aap)
  BY DEF ProvisioningInv, TypesInv, IsOrder
<1>2. CASE jobs = inst.jobs
  BY <1>1, <1>2 DEF Listed
<1>3. ASSUME NEW id \in DOMAIN aap, jobs = UpdateJob(inst.jobs, id)
      PROVE  /\ Listed(jobs, aap) /\ jobs \in Seq(JobStatus) /\ Ids(jobs) = Ids(inst.jobs)
             /\ \A t : FindLatestJobByType(jobs, t).id = FindLatestJobByType(inst.jobs, t).id
  <2>1. /\ Listed(jobs, aap) /\ Ids(jobs) = Ids(inst.jobs)
        /\ \A t : FindLatestJobByType(jobs, t).id = FindLatestJobByType(inst.jobs, t).id
    BY <1>1, <1>3, ListUpdated, Zenon
  <2> QED BY <2>1 DEF Listed
<1> QED BY <1>2, <1>3

(* evaluateActionForTarget polls a job that runs and launches none then. *)
LEMMA EvaluateFacts ==
  ASSUME NEW seen \in BOOLEAN
  PROVE  LET state == FindLatestJobByType(inst.jobs, "provision").state
         IN  /\ EvaluateAction(seen) = "Poll" => state = "running"
             /\ EvaluateAction(seen) \in {"Trigger", "Backoff"} => state # "running"
<1> DEFINE latest == FindLatestJobByType(inst.jobs, "provision")
           same == latest.version = inst.spec
           action == EvaluateAction(seen)
<1>1. action = CASE latest.state = "running" -> "Poll"
                 [] latest.state = "succeeded" /\ (same \/ latest.version = NoVersion) -> "Skip"
                 [] IsTerminal(latest.state) /\ latest.state # "succeeded" /\ same -> "Backoff"
                 [] OTHER -> IF seen THEN "Requeue" ELSE "Trigger"
  BY DEF EvaluateAction
<1> HIDE DEF latest, action
<1>2. CASE latest.state = "running"
  <2>1. action = "Poll"
    BY <1>1, <1>2 DEF IsTerminal, Outcome
  <2> QED BY <1>2, <2>1 DEF latest, action
<1>3. CASE latest.state # "running"
  <2>1. action # "Poll"
    BY <1>1, <1>3
  <2> QED BY <1>3, <2>1 DEF latest, action
<1> QED BY <1>2, <1>3

(* Whenever evaluateActionForTarget is reached, the finalizer is on the    *)
(* order.                                                                  *)
LEMMA EvaluatedFacts ==
  ASSUME ProvisioningInv, NEW action, Evaluated(action)
  PROVE  /\ pc = "update" /\ server.finalizer /\ SpendsOther
         /\ \E seen \in BOOLEAN : EvaluateAction(seen) = action
<1>1. pc = "update" /\ server.finalizer
  BY DEF Evaluated, ProvisioningInv, CopiesInv
<1>2. SpendsOther
  BY SpendFacts DEF Evaluated, ProvisioningInv, TypesInv
<1>3. CheckAPIServer \in BOOLEAN
  BY DEF CheckAPIServer
<1> QED BY <1>1, <1>2, <1>3 DEF Evaluated

(* A step that leaves AAP alone leaves its jobs as they were. *)
LEMMA StableJobs == ASSUME aap \in Seq(Job), UNCHANGED aap PROVE JobsSame
BY DEF JobsSame

(* The outcomes of a reconciliation that launch no job and do not end it   *)
(* keep the invariant: polling, holding back, cancelling and a failed      *)
(* flush.                                                                  *)
LEMMA QuietKeeps ==
  ASSUME ProvisioningInv,
         DoNothing \/ PollProvision \/ HoldBack \/ FailFlush \/ CancelProvision \/ PollDeprovision
  PROVE  ProvisioningInv'
<1>1. /\ aap \in Seq(Job) /\ inst \in Order /\ Listed(inst.jobs, aap) /\ spent \in [Kinds -> Nat]
      /\ inst.finalizer => server.finalizer
      /\ pc \in {"delete", "flush", "persist"} => server.finalizer
  BY DEF ProvisioningInv, TypesInv, IsOrder, CopiesInv
<1>2. ASSUME NEW jobs, jobs = inst.jobs \/ \E id \in DOMAIN aap : jobs = UpdateJob(inst.jobs, id),
             inst' = WithJobs(jobs) \/ inst' = [inst EXCEPT !.jobs = jobs],
             pc # "idle", server.finalizer, pc' = "persist" \/ (pc = "delete" /\ pc' = pc),
             UNCHANGED <<server, cache, read, purged, orphans>>, JobsSame, SpendsOther
      PROVE  ProvisioningInv'
  <2>1. /\ Listed(jobs, aap) /\ jobs \in Seq(JobStatus) /\ Ids(jobs) = Ids(inst.jobs)
        /\ \A t : FindLatestJobByType(jobs, t).id = FindLatestJobByType(inst.jobs, t).id
    BY <1>2, CopyRefreshed
  <2>2. inst' \in Order /\ inst'.jobs = jobs /\ inst'.finalizer = inst.finalizer
    BY <1>1, <1>2, <2>1, CopyWithJobs
  <2>3. Refreshes
    BY <1>2, <2>1, <2>2 DEF Refreshes
  <2> QED BY <2>3, RefreshKeeps
<1>3. ASSUME UNCHANGED inst, pc # "idle", server.finalizer, pc' = "persist",
             UNCHANGED <<server, cache, read, purged, orphans, aap>>, SpendsOther
      PROVE  ProvisioningInv'
  <2>1. Refreshes
    BY <1>1, <1>3, StableJobs DEF Refreshes
  <2> QED BY <2>1, RefreshKeeps
<1>4. CASE DoNothing
  <2>1. pc = "update" /\ server.finalizer /\ SpendsOther
    BY <1>4, EvaluatedFacts DEF DoNothing
  <2>2. /\ inst' = WithJobs(inst.jobs) /\ pc' = "persist"
        /\ UNCHANGED <<server, cache, read, purged, orphans, aap>>
    BY <1>4 DEF DoNothing, orderVars, jobVars
  <2>3. JobsSame
    BY <1>1, <2>2, StableJobs
  <2> QED BY <1>2, <2>1, <2>2, <2>3
<1>5. CASE PollProvision
  <2> DEFINE id == FindLatestJobByType(inst.jobs, "provision").id
             jobs == IF id \in purged THEN inst.jobs ELSE UpdateJob(inst.jobs, id)
  <2>1. /\ pc = "update" /\ server.finalizer /\ SpendsOther
        /\ \E seen \in BOOLEAN : EvaluateAction(seen) = "Poll"
    BY <1>5, EvaluatedFacts DEF PollProvision
  <2>2. id \in DOMAIN aap
    <3>1. FindLatestJobByType(inst.jobs, "provision").state = "running"
      BY <2>1, EvaluateFacts
    <3> QED BY <1>1, <3>1, LatestListed DEF NoJob
  <2>3. /\ inst' = WithJobs(jobs) /\ pc' = "persist"
        /\ UNCHANGED <<server, cache, read, purged, orphans, aap>>
    BY <1>5 DEF PollProvision, orderVars, jobVars
  <2>4. jobs = inst.jobs \/ \E k \in DOMAIN aap : jobs = UpdateJob(inst.jobs, k)
    BY <2>2
  <2>5. JobsSame
    BY <1>1, <2>3, StableJobs
  <2> HIDE DEF jobs
  <2> QED BY <1>2, <2>1, <2>3, <2>4, <2>5
<1>6. CASE HoldBack
  <2>1. /\ pc \in {"update", "delete"} /\ server.finalizer /\ pc' = "persist"
        /\ inst' = WithJobs(inst.jobs) \/ inst' = inst
        /\ UNCHANGED <<server, cache, read, purged, orphans, aap>>
    BY <1>1, <1>6 DEF HoldBack, orderVars, jobVars
  <2>2. SpendsOther /\ JobsSame
    BY <1>1, <1>6, <2>1, SpendFacts, StableJobs DEF HoldBack
  <2> QED BY <1>2, <1>3, <2>1, <2>2
<1>7. CASE FailFlush
  <2>1. /\ pc = "flush" /\ server.finalizer /\ pc' = "persist" /\ SpendsOther
        /\ UNCHANGED <<server, cache, read, inst, purged, orphans, aap>>
    BY <1>1, <1>7, SpendFacts DEF FailFlush, orderVars, copyVars, jobVars
  <2> QED BY <1>3, <2>1
<1>8. CASE CancelProvision
  <2> DEFINE id == FindLatestJobByType(inst.jobs, "provision").id
  <2>1. /\ pc = "delete" /\ server.finalizer /\ pc' = "persist" /\ Running(id)
        /\ inst' = [inst EXCEPT !.jobs = ProvisionUpdated]
        /\ UNCHANGED <<server, cache, read, purged, orphans, spent>>
    BY <1>1, <1>8 DEF CancelProvision, ReadyForDeprovision, orderVars
  <2>2. PICK accepted \in BOOLEAN : aap' = [aap EXCEPT ![id].canceling = @ \/ accepted]
    BY <1>8 DEF CancelProvision
  <2>3. ProvisionUpdated = inst.jobs \/ \E k \in DOMAIN aap : ProvisionUpdated = UpdateJob(inst.jobs, k)
    BY <2>1 DEF ProvisionUpdated, Running
  <2> HIDE DEF id
  <2>4. JobsSame
    <3>1. id \in DOMAIN aap /\ aap[id] \in Job /\ DOMAIN aap = 1 .. Len(aap) /\ Len(aap) \in Nat
      BY <1>1, <2>1 DEF Running
    <3> DEFINE e == [aap[id] EXCEPT !.canceling = @ \/ accepted]
    <3>2. e \in Job /\ e.type = aap[id].type /\ e.state = aap[id].state
      BY <3>1 DEF Job
    <3>3. aap' = [aap EXCEPT ![id] = e]
      BY <2>2
    <3> HIDE DEF e
    <3>4. aap' \in Seq(Job) /\ Len(aap') = Len(aap)
      BY <1>1, <3>1, <3>2, <3>3
    <3> QED BY <1>1, <3>1, <3>2, <3>3, <3>4 DEF JobsSame
  <2>5. SpendsOther
    BY <1>1, <2>1, SpendFacts
  <2> QED BY <1>2, <2>1, <2>3, <2>4, <2>5
<1>9. CASE PollDeprovision
  <2>1. /\ pc = "delete" /\ server.finalizer /\ Deprovision.state = "running"
        /\ UNCHANGED <<server, cache, read, purged, orphans, aap, spent>>
    BY <1>1, <1>9 DEF PollDeprovision, orderVars, jobVars
  <2>2. SpendsOther /\ JobsSame
    BY <1>1, <2>1, SpendFacts, StableJobs
  <2>3. Deprovision.id \in DOMAIN aap
    BY <1>1, <2>1, LatestListed DEF Deprovision, NoJob
  <2>4. CASE pc' = "persist" /\ UNCHANGED inst
    BY <1>3, <2>1, <2>2, <2>4
  <2>5. CASE inst' = [inst EXCEPT !.jobs = UpdateJob(inst.jobs, Deprovision.id)] /\ UNCHANGED pc
    BY <1>2, <2>1, <2>2, <2>3, <2>5
  <2> QED BY <1>9, <2>4, <2>5 DEF PollDeprovision
<1> QED BY <1>4, <1>5, <1>6, <1>7, <1>8, <1>9

(* A provision job is launched when the latest one is over and there is no *)
(* deprovision job, so no recorded job runs.                               *)
LEMMA NothingRunsBeforeProvision ==
  ASSUME ProvisioningInv, spent["stale"] = 0, pc = "update", NEW seen \in BOOLEAN,
         EvaluateAction(seen) \in {"Trigger", "Backoff"}
  PROVE  Tracked = {}
<1> SUFFICES ASSUME NEW id \in Tracked PROVE FALSE
  OBVIOUS
<1> DEFINE latest == FindLatestJobByType(inst.jobs, "provision")
<1>1. /\ aap \in Seq(Job) /\ Listed(inst.jobs, aap) /\ id \in DOMAIN aap
      /\ aap[id].state = "running"
  BY DEF ProvisioningInv, TypesInv, IsOrder, Tracked, Running
<1>2. aap[id].type = "provision"
  <2>1. aap[id].type # "deprovision"
    BY <1>1 DEF ProvisioningInv, CleanupInv, Deprovisioned
  <2>2. aap[id] \in Job
    BY <1>1
  <2> QED BY <2>1, <2>2 DEF Job, JobType
<1>3. latest.id = id
  BY <1>2 DEF ProvisioningInv, FreshInv, InCopy, IsLatest
<1>4. latest.state # "running"
  BY EvaluateFacts
<1>5. id # 0
  BY <1>1
<1> QED BY <1>1, <1>3, <1>4, <1>5, LatestListed DEF NoJob

(* A deprovision job is launched when the latest provision job does not    *)
(* run and the latest deprovision job, if any, is over.                    *)
LEMMA NothingRunsBeforeDeprovision ==
  ASSUME ProvisioningInv, spent["stale"] = 0, pc = "delete", LaunchNeeded, ReadyForDeprovision
  PROVE  Tracked = {}
<1> SUFFICES ASSUME NEW id \in Tracked PROVE FALSE
  OBVIOUS
<1>1. /\ aap \in Seq(Job) /\ Listed(inst.jobs, aap) /\ id \in DOMAIN aap /\ Running(id)
      /\ aap[id].state = "running" /\ IsLatest(inst.jobs, id)
  BY DEF ProvisioningInv, TypesInv, IsOrder, Tracked, Running, FreshInv, InCopy
<1>2. aap[id] \in Job /\ id # 0
  BY <1>1
<1>3. CASE aap[id].type = "provision"
  BY <1>1, <1>3 DEF IsLatest, ReadyForDeprovision
<1>4. CASE aap[id].type = "deprovision"
  <2>1. Deprovision.id = id
    BY <1>1, <1>4 DEF IsLatest, Deprovision
  <2>2. Deprovision # NoJob
    BY <1>2, <2>1 DEF NoJob
  <2>3. Deprovision.state = "running" \/ Deprovision.state = aap[Deprovision.id].state
    BY <1>1, <2>2, LatestListed, SMTT(30) DEF Deprovision
  <2> QED BY <1>1, <2>1, <2>2, <2>3 DEF LaunchNeeded
<1> QED BY <1>2, <1>3, <1>4 DEF Job, JobType

(* The outcomes of a reconciliation that launch a job keep the invariant,  *)
(* whether or not the answer of AAP arrives.                               *)
LEMMA LaunchStepKeeps ==
  ASSUME ProvisioningInv, TriggerProvision \/ TriggerDeprovision \/ LoseLaunch
  PROVE  ProvisioningInv'
<1>1. /\ aap \in Seq(Job) /\ inst \in Order /\ Listed(inst.jobs, aap) /\ inst.jobs \in Seq(JobStatus)
      /\ spent \in [Kinds -> Nat]
      /\ inst.finalizer \/ pc = "delete" => server.finalizer
      /\ inst.spec \in Versions \cup {NoVersion}
  <2>1. inst \in Order /\ Listed(inst.jobs, aap)
    BY DEF ProvisioningInv, TypesInv, IsOrder
  <2>2. inst.spec \in Versions \cup {NoVersion} /\ inst.jobs \in Seq(JobStatus)
    BY <2>1 DEF Order
  <2> QED BY <2>1, <2>2 DEF ProvisioningInv, TypesInv, CopiesInv
<1>2. ASSUME NEW t \in JobType, NEW v \in Versions \cup {NoVersion}, Launch(t, v)
      PROVE  NewJob(t, v) \in JobStatus
  BY <1>1, <1>2, LaunchFacts
<1>3. CASE TriggerProvision
  <2>1. /\ pc = "update" /\ server.finalizer /\ SpendsOther
        /\ \E seen \in BOOLEAN : EvaluateAction(seen) \in {"Trigger", "Backoff"}
    BY <1>3, EvaluatedFacts DEF TriggerProvision
  <2>2. /\ Launch("provision", inst.spec) /\ pc' = "flush"
        /\ inst' = WithJobs(AppendJob(inst.jobs, NewJob("provision", inst.spec)))
        /\ UNCHANGED <<server, cache, read, purged, orphans>>
    BY <1>3 DEF TriggerProvision, orderVars
  <2>3. "provision" \in JobType /\ Launches("provision", inst.spec)
    <3>1. spent["stale"] = 0 => Tracked = {}
      BY <2>1, NothingRunsBeforeProvision
    <3> QED BY <2>1, <2>2, <3>1 DEF JobType, Launches
  <2>4. NewJob("provision", inst.spec) \in JobStatus
    BY <1>1, <1>2, <2>2, <2>3
  <2> DEFINE jobs == AppendJob(inst.jobs, NewJob("provision", inst.spec))
  <2>5. jobs \in Seq(JobStatus)
    BY <1>1, <2>4, AppendJobFacts
  <2>6. inst' \in Order /\ inst'.jobs = jobs /\ inst'.finalizer = inst.finalizer
    <3> HIDE DEF jobs
    <3> QED BY <1>1, <2>2, <2>5, CopyWithJobs DEF jobs
  <2> QED BY <1>1, <2>2, <2>3, <2>6, LaunchKeeps
<1>4. CASE TriggerDeprovision
  <2>1. /\ pc = "delete" /\ server.finalizer /\ LaunchNeeded /\ ReadyForDeprovision
        /\ Launch("deprovision", NoVersion) /\ pc' = "persist"
        /\ inst' = [inst EXCEPT !.jobs =
                      AppendJob(ProvisionUpdated, NewJob("deprovision", NoVersion))]
        /\ UNCHANGED <<server, cache, read, purged, orphans, spent>>
    BY <1>1, <1>4 DEF TriggerDeprovision, orderVars
  <2>2. "deprovision" \in JobType /\ NoVersion \in Versions \cup {NoVersion}
        /\ Launches("deprovision", NoVersion)
    <3>1. spent["stale"] = 0 => Tracked = {}
      BY <2>1, NothingRunsBeforeDeprovision
    <3>2. SpendsOther
      BY <1>1, <2>1, SpendFacts
    <3> QED BY <2>1, <3>1, <3>2 DEF JobType, Launches
  <2>3. Listed(ProvisionUpdated, aap) /\ ProvisionUpdated \in Seq(JobStatus)
    <3> DEFINE job == FindLatestJobByType(inst.jobs, "provision")
    <3>1. job # NoJob => job.id \in DOMAIN aap
      BY <1>1, LatestListed
    <3>2. \/ ProvisionUpdated = inst.jobs
          \/ \E k \in DOMAIN aap : ProvisionUpdated = UpdateJob(inst.jobs, k)
      BY <3>1 DEF ProvisionUpdated
    <3> QED BY <3>2, CopyRefreshed
  <2>4. NewJob("deprovision", NoVersion) \in JobStatus
    BY <1>2, <2>1, <2>2
  <2> DEFINE jobs == AppendJob(ProvisionUpdated, NewJob("deprovision", NoVersion))
  <2>5. jobs \in Seq(JobStatus)
    BY <2>3, <2>4, AppendJobFacts
  <2>6. inst' \in Order /\ inst'.jobs = jobs /\ inst'.finalizer = inst.finalizer
    <3> HIDE DEF jobs
    <3> QED BY <1>1, <2>1, <2>5, CopyWithJobs DEF jobs
  <2> QED BY <2>1, <2>2, <2>3, <2>6, LaunchKeeps
<1>5. CASE LoseLaunch
  <2>1. /\ SpendsOther /\ orphans' = orphans \cup {Len(aap) + 1} /\ EndReconcile
        /\ UNCHANGED <<server, cache, purged>>
    BY <1>1, <1>5, SpendFacts DEF LoseLaunch, orderVars
  <2>2. CASE /\ pc = "update" /\ inst.finalizer
             /\ EvaluateAction(CheckAPIServer) \in {"Trigger", "Backoff"}
             /\ Launch("provision", inst.spec)
    <3>1. spent["stale"] = 0 => Tracked = {}
      <4>1. CheckAPIServer \in BOOLEAN
        BY DEF CheckAPIServer
      <4> QED BY <2>2, <4>1, NothingRunsBeforeProvision
    <3>2. "provision" \in JobType /\ Launches("provision", inst.spec)
      BY <1>1, <2>1, <2>2, <3>1 DEF JobType, Launches
    <3> QED BY <1>1, <2>1, <3>2, LoseKeeps
  <2>3. CASE /\ pc = "delete" /\ LaunchNeeded /\ ReadyForDeprovision
             /\ Launch("deprovision", NoVersion)
    <3>1. spent["stale"] = 0 => Tracked = {}
      BY <2>3, NothingRunsBeforeDeprovision
    <3>2. "deprovision" \in JobType /\ NoVersion \in Versions \cup {NoVersion}
          /\ Launches("deprovision", NoVersion)
      BY <1>1, <2>1, <2>3, <3>1 DEF JobType, Launches
    <3> QED BY <2>1, <3>2, LoseKeeps
  <2> QED BY <1>5, <2>2, <2>3 DEF LoseLaunch
<1> QED BY <1>3, <1>4, <1>5

(* Writing the status, leaving a reconciliation by an error or a crash,    *)
(* and AAP forgetting a job keep the invariant.                            *)
LEMMA LastStepKeeps ==
  ASSUME ProvisioningInv,
         \/ AbortReconcile \/ CrashOperator \/ FlushStatus \/ PersistStatus
         \/ \E id \in DOMAIN aap : PurgeJob(id)
  PROVE  ProvisioningInv'
<1>1. /\ aap \in Seq(Job) /\ Listed(inst.jobs, aap) /\ spent \in [Kinds -> Nat]
      /\ orphans \subseteq DOMAIN aap
  BY DEF ProvisioningInv, TypesInv, IsOrder
<1>2. Unrecorded \subseteq DOMAIN aap
  <2>1. \A i \in DOMAIN inst.jobs : inst.jobs[i].id \in DOMAIN aap
    BY <1>1, ListedFacts
  <2> QED BY <2>1 DEF Unrecorded, Ids
<1>3. CASE AbortReconcile
  <2>1. Ends
    BY <1>1, <1>2, <1>3, SpendFacts, StableJobs DEF AbortReconcile, GiveUp, Ends, orderVars
  <2> QED BY <2>1, EndKeeps
<1>4. CASE CrashOperator
  <2>1. Ends
    BY <1>1, <1>2, <1>4, SpendFacts, StableJobs DEF CrashOperator, Ends
  <2> QED BY <2>1, EndKeeps
<1>5. CASE FlushStatus
  BY <1>5, WriteKeeps DEF FlushStatus, copyVars, jobVars
<1>6. CASE PersistStatus
  <2>1. /\ pc = "persist" /\ EndReconcile /\ UNCHANGED <<cache, aap, purged, orphans, spent>>
    BY <1>6 DEF PersistStatus, jobVars
  <2>2. CASE PatchStatus
    BY <2>1, <2>2, WriteKeeps
  <2>3. CASE inst.jobs = read.jobs /\ UNCHANGED server
    <3>1. Unrecorded = {}
      BY <2>3 DEF Unrecorded
    <3>2. Ends
      BY <1>1, <2>1, <2>3, <3>1, SpendFacts, StableJobs DEF Ends
    <3> QED BY <3>2, EndKeeps
  <2> QED BY <1>6, <2>2, <2>3 DEF PersistStatus
<1>7. ASSUME NEW id \in DOMAIN aap, PurgeJob(id) PROVE ProvisioningInv'
  <2>1. /\ purged' = purged \cup {id} /\ SpendsOther
        /\ UNCHANGED <<server, cache, read, inst, pc, aap, orphans>>
    BY <1>1, <1>7, SpendFacts DEF PurgeJob, orderVars, copyVars
  <2>2. TypesInv'
    BY <2>1 DEF ProvisioningInv, TypesInv, SpendsOther
  <2>3. CopiesInv'
    BY <2>1 DEF ProvisioningInv, CopiesInv
  <2>4. CleanupInv'
    BY <2>1, SameAap DEF ProvisioningInv, CleanupInv
  <2>5. FreshInv'
    BY <2>1, SameAap DEF ProvisioningInv, FreshInv, SpendsOther, StillThere, InCopy, InServer,
                         NothingBefore, NothingAfter, IsLatest, Unrecorded
  <2> QED BY <2>2, <2>3, <2>4, <2>5 DEF ProvisioningInv
<1> QED BY <1>3, <1>4, <1>5, <1>6, <1>7

-----------------------------------------------------------------------------
(* The invariant. *)

(* The invariant holds of a new order, and of one left by an older         *)
(* operator with a job that succeeded.                                     *)
LEMMA ProvisioningStart == Init => ProvisioningInv
<1> SUFFICES ASSUME Init PROVE ProvisioningInv
  OBVIOUS
<1>1. /\ cache = server /\ read = NoCopy /\ inst = NoCopy /\ pc = "idle"
      /\ purged = {} /\ orphans = {} /\ spent = [k \in Kinds |-> 0]
  BY DEF Init
<1>2. /\ aap \in Seq(Job) /\ IsOrder(server, aap) /\ server.exists /\ ~server.deleting
      /\ aap # << >> => server.finalizer
      /\ \A id \in DOMAIN aap : aap[id].state # "running" /\ aap[id].type = "provision"
  <2>1. CASE server = NewOrder /\ aap = << >>
    <3>1. /\ server \in Order /\ server.jobs = << >> /\ server.exists /\ ~server.deleting
      BY <2>1, ProvisioningAssumption DEF NewOrder, Order
    <3>2. aap \in Seq(Job) /\ DOMAIN aap = {}
      BY <2>1
    <3>3. Listed(<< >>, aap)
      BY ProvisioningAssumption DEF Listed
    <3> QED BY <2>1, <3>1, <3>2, <3>3 DEF IsOrder
  <2>2. CASE server = LegacyOrder /\ aap = <<LegacyJob>>
    <3>1. LegacyJob \in Job /\ LegacyJob.type = "provision" /\ LegacyJob.state = "succeeded"
      BY DEF LegacyJob, Job, JobType, JobState, Outcome
    <3> HIDE DEF LegacyJob
    <3>2. aap \in Seq(Job) /\ Len(aap) = 1 /\ DOMAIN aap = {1} /\ aap[1] = LegacyJob
      BY <2>2, <3>1
    <3> DEFINE job == [id |-> 1, type |-> "provision", state |-> "succeeded", version |-> NoVersion]
    <3>3. job \in JobStatus /\ job.id = 1 /\ job.type = "provision" /\ job.state = "succeeded"
      BY ProvisioningAssumption DEF JobStatus, JobType, JobState, Outcome
    <3>4. server = [NewOrder EXCEPT !.finalizer = TRUE, !.jobs = <<job>>]
      BY <2>2 DEF LegacyOrder
    <3> HIDE DEF job
    <3>5. <<job>> \in Seq(JobStatus) /\ Len(<<job>>) = 1 /\ DOMAIN <<job>> = {1} /\ <<job>>[1] = job
      BY <3>3
    <3>6. Listed(<<job>>, aap)
      <4>1. 1 <= MaxHistory
        BY ProvisioningAssumption
      <4> QED BY <3>1, <3>2, <3>3, <3>5, <4>1 DEF Listed
    <3>7. /\ server \in Order /\ server.jobs = <<job>> /\ server.exists /\ ~server.deleting
          /\ server.finalizer
      BY <3>4, <3>5, ProvisioningAssumption DEF NewOrder, Order
    <3> QED BY <3>1, <3>2, <3>6, <3>7 DEF IsOrder
  <2> QED BY <2>1, <2>2 DEF Init
<1>3. IsOrder(NoCopy, aap) /\ ~NoCopy.finalizer
  BY <1>2, NoCopyFacts
<1>4. TypesInv
  BY <1>1, <1>2, <1>3 DEF TypesInv
<1>5. CopiesInv
  BY <1>1, <1>2, <1>3 DEF CopiesInv
<1>6. ~Deprovisioned /\ Tracked = {}
  BY <1>2 DEF Deprovisioned, Tracked, Running
<1>7. CleanupInv
  <2>1. NoProvisionAfterCleanup
    <3>1. \A j \in 2 .. Len(aap) : j - 1 \in DOMAIN aap
      BY <1>2
    <3> QED BY <1>2, <3>1 DEF NoProvisionAfterCleanup
  <2> QED BY <1>2, <1>6, <2>1 DEF CleanupInv
<1>8. FreshInv
  BY <1>1, <1>2, <1>6 DEF FreshInv, StillThere, InCopy, InServer, NothingBefore, NothingAfter
<1> QED BY <1>4, <1>5, <1>7, <1>8 DEF ProvisioningInv

(* Every step of the user, of AAP and of the operator keeps the invariant. *)
LEMMA ProvisioningStep == ProvisioningInv /\ [Next]_vars => ProvisioningInv'
<1> SUFFICES ASSUME ProvisioningInv, [Next]_vars PROVE ProvisioningInv'
  OBVIOUS
<1>1. CASE UNCHANGED vars
  <2>1. UNCHANGED <<server, cache, read, inst, pc, aap, purged, orphans, spent>>
    BY <1>1 DEF vars
  <2>2. TypesInv' /\ CopiesInv'
    BY <2>1 DEF ProvisioningInv, TypesInv, CopiesInv
  <2>3. CleanupInv'
    BY <2>1, SameAap DEF ProvisioningInv, CleanupInv
  <2>4. FreshInv'
    BY <2>1, SameAap DEF ProvisioningInv, FreshInv, StillThere, InCopy, InServer,
                         NothingBefore, NothingAfter, IsLatest, Unrecorded
  <2> QED BY <2>2, <2>3, <2>4 DEF ProvisioningInv
<1>2. CASE Environment
  BY <1>2, UserKeeps, SyncKeeps, EndJobKeeps, LastStepKeeps DEF Environment
<1>3. CASE Controller
  BY <1>3, StartKeeps, AddFinalizerKeeps, QuietKeeps, LaunchStepKeeps, LastStepKeeps,
     RemoveFinalizerKeeps DEF Controller
<1> QED BY <1>1, <1>2, <1>3 DEF Next

(* The invariant holds in every reachable state. *)
LEMMA ProvisioningInvariant == Spec => []ProvisioningInv
BY ProvisioningStart, ProvisioningStep, PTL DEF Spec

(* The order, its copies and the jobs have their types, no job list is     *)
(* longer than MaxJobHistory, and every listed job was launched with its   *)
(* type: AppendJob and UpdateJob keep the lists of pkg/provisioning sound. *)
THEOREM TypesHold == Spec => []ProvisioningTypeOK
<1>1. ProvisioningInv => ProvisioningTypeOK
  <2> SUFFICES ASSUME ProvisioningInv PROVE ProvisioningTypeOK
    OBVIOUS
  <2>1. ASSUME NEW o, IsOrder(o, aap)
        PROVE  /\ o \in Order /\ Len(o.jobs) <= MaxHistory
               /\ \A i \in DOMAIN o.jobs : o.jobs[i].id <= Len(aap)
                                           /\ o.jobs[i].type = aap[o.jobs[i].id].type
    BY <2>1 DEF IsOrder, Listed
  <2> QED BY <2>1 DEF ProvisioningInv, TypesInv, ProvisioningTypeOK, Job
<1> QED BY <1>1, ProvisioningInvariant, PTL

(* After the first deprovision job no provision job is launched, whatever  *)
(* stale copies are reconciled: Reconcile updates only what the cache does *)
(* not show as deleting, and the cache never goes back.                    *)
THEOREM CleanupIsFinal == Spec => []NoProvisionAfterCleanup
<1>1. ProvisioningInv => NoProvisionAfterCleanup
  BY DEF ProvisioningInv, CleanupInv
<1> QED BY <1>1, ProvisioningInvariant, PTL

(* Unless a stale copy was reconciled, at most one recorded job runs, of   *)
(* either type, whatever crashes, error returns and failed flushes happen  *)
(* (evaluateActionForTarget, isReadyForDeprovision).                       *)
THEOREM OneJobAtATime == Spec => []JobsAreSequential
<1>1. ProvisioningInv => JobsAreSequential
  <2> SUFFICES ASSUME ProvisioningInv, spent["stale"] = 0
               PROVE  Cardinality(RunningJobs("provision") \cup RunningJobs("deprovision")) <= 1
    BY DEF JobsAreSequential
  <2>1. InCopy /\ InServer /\ NothingBefore /\ aap \in Seq(Job)
    BY DEF ProvisioningInv, FreshInv, TypesInv
  <2>2. \E jobs : \A id \in Tracked : IsLatest(jobs, id)
    BY <2>1 DEF InCopy, InServer
  <2>3. PICK jobs : \A id \in Tracked : IsLatest(jobs, id)
    BY <2>2
  <2>4. ASSUME NEW i \in Tracked, NEW j \in Tracked PROVE i = j
    <3>1. aap[i] \in Job /\ aap[j] \in Job /\ i \in DOMAIN aap /\ j \in DOMAIN aap
      BY <2>1 DEF Tracked
    <3>2. aap[i].type \in JobType /\ aap[j].type \in JobType
      BY <3>1 DEF Job
    <3>3. aap[i].type = aap[j].type
      BY <2>1, <3>1, <3>2 DEF NothingBefore, Deprovisioned, JobType
    <3> QED BY <2>3, <3>3 DEF IsLatest
  <2> DEFINE S == RunningJobs("provision") \cup RunningJobs("deprovision")
  <2>5. S \subseteq Tracked
    BY DEF RunningJobs, Tracked
  <2> HIDE DEF S
  <2>6. S = {} \/ \E x : S = {x}
    <3> SUFFICES ASSUME NEW x \in S PROVE S = {x}
      OBVIOUS
    <3> QED BY <2>4, <2>5
  <2>7. Cardinality(S) \in {0, 1}
    BY <2>6, FS_EmptySet, FS_Singleton
  <2> QED BY <2>7 DEF S
<1> QED BY <1>1, ProvisioningInvariant, PTL

(* An order for which a job was launched disappears only when a            *)
(* deprovision job has succeeded and, unless a stale copy was reconciled,  *)
(* no recorded job runs: handleDelete removes the finalizer last.          *)
THEOREM GoneAfterCleanup == Spec => []CleanupBeforeGone
<1>1. ProvisioningInv => CleanupBeforeGone
  <2> SUFFICES ASSUME ProvisioningInv, ~server.exists, aap # << >>
               PROVE  /\ CleanedUp
                      /\ spent["stale"] = 0 =>
                           RunningJobs("provision") \cup RunningJobs("deprovision") = {}
    BY DEF CleanupBeforeGone, CleanedUp
  <2>1. CleanedUp
    BY DEF ProvisioningInv, CopiesInv, CleanupInv
  <2>2. spent["stale"] = 0 => Tracked = {}
    BY DEF ProvisioningInv, FreshInv, NothingAfter
  <2> QED BY <2>1, <2>2 DEF RunningJobs, Tracked
<1> QED BY <1>1, ProvisioningInvariant, PTL
=============================================================================
