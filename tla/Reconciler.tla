------------------------------ MODULE Reconciler ------------------------------
(***************************************************************************)
(* The generic reconciler of the fulfillment controllers                   *)
(* (internal/controllers/reconciler.go) on its two work loops              *)
(* (internal/work/work_loop.go).  Three kinds of goroutines hand objects to*)
(* the reconcile loop over an unbuffered channel: the watch loop, the sync *)
(* loop, and one goroutine per scheduled retry.                            *)
(*                                                                         *)
(* An object is its identifier and a generation: what the server stores    *)
(* (`gen`, 0 when there is no object), and the one that the reconciliation *)
(* function last brought about (`applied`).  Timers carry no durations.    *)
(***************************************************************************)
EXTENDS Naturals, Sequences, FiniteSets

CONSTANTS
  Last,       \* objects are 1..Last, in the order of their identifiers
  PageSize,   \* items a List without a limit returns (defaultLimit)
  Budget,     \* bound: how often each kind of event below may happen
  Starts      \* how much of it is used up at the start, one choice each

Objects == 1 .. Last

(* Changes of objects, function errors with and without a retry interval,  *)
(* failed re-reads, failed lists, broken streams, restarts.                *)
Kinds == {"change", "retryable", "fatal", "reread", "list", "break", "restart"}

ASSUME ReconcilerAssumption ==
  /\ Last \in Nat /\ PageSize \in Nat \ {0}
  /\ Budget \in [Kinds -> Nat]

ASSUME StartsAssumption ==
  /\ Starts \subseteq [Kinds -> Nat]
  /\ \A start \in Starts : \A k \in Kinds : start[k] <= Budget[k]

VARIABLES
  gen,       \* gen[o]: generation stored by the server, 0 if there is none
  applied,   \* applied[o]: generation the function last succeeded with
  topic,     \* events of the consumer group, offsets not marked
  wire,      \* events sent on the stream (offsets marked), not received
  watch,     \* watch loop: "closed", "open" or "sending"
  watchItems,\* objects it still has to hand over
  sync,      \* sync loop: "listing", "sending" or "sleeping"
  syncItems, \* objects it still has to hand over
  kick,      \* the kick channel of the sync loop holds a token
  loop,      \* reconcile loop: "idle", "taken" or "ready"
  item,      \* the object it works on
  timers,    \* timers[o]: key of the retry in the retryTimers map, 0 if none
  retries,   \* goroutines in waitForRetry
  outcome,   \* outcome[o]: how the last reconciliation of o ended
  spent      \* spent[k]: what is used up of Budget[k]

vars == <<gen, applied, topic, wire, watch, watchItems, sync, syncItems, kick,
          loop, item, timers, retries, outcome, spent>>

serverVars == <<gen, topic>>
watchVars == <<wire, watch, watchItems>>
syncVars == <<sync, syncItems, kick>>
loopVars == <<loop, item, applied, outcome>>
retryVars == <<timers, retries>>

Spend(k) == spent[k] < Budget[k] /\ spent' = [spent EXCEPT ![k] = @ + 1]

Snapshot(o) == [obj |-> o, gen |-> gen[o]]

NoItem == [obj |-> 0, gen |-> 0]

Related == [obj |-> 0, gen |-> 1]   \* an event without the expected payload

-----------------------------------------------------------------------------
(* The server. *)

(* An object is created or changed, or archived, or something related to   *)
(* the objects changes.  Each produces an event.                           *)
Change(o, g) ==
  /\ Spend("change")
  /\ gen' = [gen EXCEPT ![o] = g]
  /\ topic' = Append(topic, [obj |-> o, gen |-> g])
  /\ UNCHANGED <<applied, watchVars, syncVars, loop, item, outcome, retryVars>>

RelatedChange ==
  /\ Spend("change")
  /\ topic' = Append(topic, Related)
  /\ UNCHANGED <<gen, watchVars, syncVars, loopVars, retryVars>>

(* The events server sends on the open stream, then marks the offset. *)
SendEvent ==
  /\ watch # "closed"
  /\ topic # <<>>
  /\ wire' = Append(wire, Head(topic))
  /\ topic' = Tail(topic)
  /\ UNCHANGED <<gen, watch, watchItems, syncVars, loopVars, retryVars, spent>>

(* Mutant: the page is one item short. *)
PageShort ==
  LET stored == {o \in Objects : gen[o] # 0}
      first == {o \in stored : Cardinality({p \in stored : p < o}) < PageSize - 1}
      RankIn(o) == Cardinality({p \in first : p <= o})
  IN  [i \in 1 .. Cardinality(first) |-> Snapshot(CHOOSE o \in first : RankIn(o) = i)]

(* List without filter, limit or offset: the first page in identifier      *)
(* order.                                                                  *)
Page ==
  LET stored == {o \in Objects : gen[o] # 0}
      first == {o \in stored : Cardinality({p \in stored : p < o}) < PageSize}
      RankIn(o) == Cardinality({p \in first : p <= o})
  IN  [i \in 1 .. Cardinality(first) |-> Snapshot(CHOOSE o \in first : RankIn(o) = i)]

-----------------------------------------------------------------------------
(* The watch loop: watchEvents, again and again. *)

(* Mutant: a kick while the work function runs does nothing, as the        *)
(* comment above Loop.Kick says.                                           *)
KickSleeper == kick' = (kick \/ sync = "sleeping")

(* Loop.Kick: a channel with room for one token.  The comment above it     *)
(* says that it does nothing while the work function runs; the code leaves *)
(* the token, which ends the next sleep at once.                           *)
Kick == kick' = TRUE

(* Kick the sync loop, then open the stream. *)
OpenWatch ==
  /\ watch = "closed"
  /\ Kick
  /\ \/ watch' = "open" /\ UNCHANGED spent
     \/ watch' = "closed" /\ Spend("break")
  /\ UNCHANGED <<serverVars, wire, watchItems, sync, syncItems, loopVars, retryVars>>

(* The stream ends.  Sent and unread events whose offsets are committed    *)
(* are lost; the others are delivered again.                               *)
CloseWatch ==
  /\ watch' = "closed" /\ wire' = <<>> /\ watchItems' = <<>>
  /\ \E n \in 0 .. Len(wire) : topic' = SubSeq(wire, n + 1, Len(wire)) \o topic

(* Receive an event: hand over its object, or list when it has none. *)
ReceiveEvent ==
  /\ watch = "open" /\ wire # <<>>
  /\ \/ /\ Head(wire) # Related
        /\ watchItems' = <<Head(wire)>> /\ watch' = "sending" /\ wire' = Tail(wire)
        /\ UNCHANGED <<topic, spent>>
     \/ /\ Head(wire) = Related
        /\ watchItems' = Page /\ wire' = Tail(wire)
        /\ watch' = IF Page = <<>> THEN "open" ELSE "sending"
        /\ UNCHANGED <<topic, spent>>
     \/ /\ Head(wire) = Related
        /\ Spend("list")
        /\ CloseWatch
  /\ UNCHANGED <<gen, syncVars, loopVars, retryVars>>

BreakWatch ==
  /\ watch = "open"
  /\ Spend("break")
  /\ CloseWatch
  /\ UNCHANGED <<gen, syncVars, loopVars, retryVars>>

-----------------------------------------------------------------------------
(* The sync loop: Loop.Run with syncObjects as its work function. *)

ListObjects ==
  /\ sync = "listing"
  /\ \/ /\ syncItems' = Page
        /\ sync' = IF Page = <<>> THEN "sleeping" ELSE "sending"
        /\ UNCHANGED spent
     \/ /\ Spend("list")
        /\ sync' = "sleeping" /\ UNCHANGED syncItems
  /\ UNCHANGED <<serverVars, watchVars, kick, loopVars, retryVars>>

(* A kick left while the work function ran ends the next sleep at once. *)
WakeByKick ==
  /\ sync = "sleeping" /\ kick
  /\ kick' = FALSE
  /\ sync' = "listing"
  /\ UNCHANGED <<serverVars, watchVars, syncItems, loopVars, retryVars, spent>>

(* The interval has passed; a pending kick stays. *)
WakeByTimer ==
  /\ sync = "sleeping"
  /\ sync' = "listing"
  /\ UNCHANGED <<serverVars, watchVars, syncItems, kick, loopVars, retryVars, spent>>

-----------------------------------------------------------------------------
(* The reconcile loop: Start.  Each branch of its select is a rendezvous   *)
(* with one sender.                                                        *)

Take(x) == loop = "idle" /\ loop' = "taken" /\ item' = x /\ UNCHANGED <<applied, outcome>>

TakeFromWatch ==
  /\ watch = "sending"
  /\ Take(Head(watchItems))
  /\ watchItems' = Tail(watchItems)
  /\ watch' = IF Tail(watchItems) = <<>> THEN "open" ELSE "sending"
  /\ UNCHANGED <<serverVars, wire, syncVars, retryVars, spent>>

TakeFromSync ==
  /\ sync = "sending"
  /\ Take(Head(syncItems))
  /\ syncItems' = Tail(syncItems)
  /\ sync' = IF Tail(syncItems) = <<>> THEN "sleeping" ELSE "sending"
  /\ UNCHANGED <<serverVars, watchVars, kick, retryVars, spent>>

TakeFromRetry(y) ==
  /\ y.phase = "sending"
  /\ Take([obj |-> y.obj, gen |-> y.gen])
  /\ retries' = retries \ {y}
  /\ UNCHANGED <<serverVars, watchVars, syncVars, timers, spent>>

(* Mutant: the object is not read again. *)
RereadNot ==
  /\ loop = "taken"
  /\ loop' = "ready"
  /\ UNCHANGED <<item, outcome, spent, serverVars, watchVars, syncVars, applied, retryVars>>

(* getObject: not found, found, or failed; then the object that came over  *)
(* the channel is used as it is.                                           *)
Reread ==
  /\ loop = "taken"
  /\ \/ /\ gen[item.obj] = 0
        /\ loop' = "idle" /\ item' = NoItem
        /\ outcome' = [outcome EXCEPT ![item.obj] = "none"]
        /\ UNCHANGED spent
     \/ /\ gen[item.obj] # 0
        /\ loop' = "ready" /\ item' = Snapshot(item.obj)
        /\ UNCHANGED <<outcome, spent>>
     \/ /\ Spend("reread")
        /\ loop' = "ready" /\ UNCHANGED <<item, outcome>>
  /\ UNCHANGED <<serverVars, watchVars, syncVars, applied, retryVars>>

Finish(o, result) ==
  /\ loop' = "idle" /\ item' = NoItem
  /\ outcome' = [outcome EXCEPT ![o] = result]

(* Mutant: the retry stays in the map. *)
CancelRetryUndeleted(o) ==
  /\ retries' = {IF y.key = timers[o] THEN [y EXCEPT !.phase = "canceled"] ELSE y : y \in retries}
  /\ UNCHANGED timers

(* cancelRetry: the retry leaves the map and its goroutine is told. *)
CancelRetry(o) ==
  /\ timers' = [timers EXCEPT ![o] = 0]
  /\ retries' = {IF y.key = timers[o] THEN [y EXCEPT !.phase = "canceled"] ELSE y : y \in retries}

Succeed ==
  /\ loop = "ready"
  /\ applied' = [applied EXCEPT ![item.obj] = item.gen]
  /\ CancelRetry(item.obj)
  /\ Finish(item.obj, "success")
  /\ UNCHANGED <<serverVars, watchVars, syncVars, spent>>

(* scheduleRetry: at most one timer per object in the map. *)
ScheduleRetry(x) ==
  IF timers[x.obj] # 0 THEN UNCHANGED retryVars
  ELSE LET key == spent["retryable"] + 1
       IN  /\ timers' = [timers EXCEPT ![x.obj] = key]
           /\ retries' = retries \cup
                {[key |-> key, obj |-> x.obj, gen |-> x.gen, phase |-> "armed"]}

(* The function fails with an error that carries a retry interval. *)
FailRetryably ==
  /\ loop = "ready"
  /\ Spend("retryable")
  /\ ScheduleRetry(item)
  /\ Finish(item.obj, "retryable")
  /\ UNCHANGED <<serverVars, watchVars, syncVars, applied>>

(* The function fails with any other error: requeue returns. *)
FailForGood ==
  /\ loop = "ready"
  /\ Spend("fatal")
  /\ Finish(item.obj, "fatal")
  /\ UNCHANGED <<serverVars, watchVars, syncVars, applied, retryVars>>

(* Mutant: an expired timer is not looked for in the map. *)
FireRetryUnchecked(y) ==
  /\ y.phase \in {"armed", "canceled"}
  /\ timers' = [timers EXCEPT ![y.obj] = 0]
  /\ retries' = (retries \ {y}) \cup {[y EXCEPT !.phase = "sending"]}
  /\ UNCHANGED <<serverVars, watchVars, syncVars, loopVars, spent>>

(* Mutant: an expired timer stays in the map. *)
FireRetryUndeleted(y) ==
  /\ y.phase \in {"armed", "canceled"}
  /\ retries' = IF timers[y.obj] = y.key
                  THEN (retries \ {y}) \cup {[y EXCEPT !.phase = "sending"]}
                  ELSE retries \ {y}
  /\ UNCHANGED <<serverVars, watchVars, syncVars, loopVars, timers, spent>>

(* waitForRetry: the timer has expired.  select may prefer it to a         *)
(* cancellation, so the goroutine looks for itself in the map.             *)
FireRetry(y) ==
  /\ y.phase \in {"armed", "canceled"}
  /\ IF timers[y.obj] = y.key
       THEN /\ timers' = [timers EXCEPT ![y.obj] = 0]
            /\ retries' = (retries \ {y}) \cup {[y EXCEPT !.phase = "sending"]}
       ELSE /\ retries' = retries \ {y}
            /\ UNCHANGED timers
  /\ UNCHANGED <<serverVars, watchVars, syncVars, loopVars, spent>>

(* waitForRetry: the cancellation is noticed. *)
DropRetry(y) ==
  /\ y.phase = "canceled"
  /\ retries' = retries \ {y}
  /\ UNCHANGED <<serverVars, watchVars, syncVars, loopVars, timers, spent>>

(* The controller stops and starts again.  Synchronization is enabled: it  *)
(* is by default, and no controller disables it.                           *)
Restart ==
  /\ Spend("restart")
  /\ CloseWatch
  /\ sync' = "listing" /\ syncItems' = <<>> /\ kick' = FALSE
  /\ loop' = "idle" /\ item' = NoItem
  /\ timers' = [o \in Objects |-> 0] /\ retries' = {}
  /\ outcome' = [o \in Objects |-> "none"]
  /\ UNCHANGED <<gen, applied>>

-----------------------------------------------------------------------------
Init ==
  /\ gen \in [Objects -> {0, 1}]
  /\ applied = [o \in Objects |-> 0]
  /\ topic = <<>> /\ wire = <<>>
  /\ watch = "closed" /\ watchItems = <<>>
  /\ sync = "listing" /\ syncItems = <<>> /\ kick = FALSE
  /\ loop = "idle" /\ item = NoItem
  /\ timers = [o \in Objects |-> 0] /\ retries = {}
  /\ outcome = [o \in Objects |-> "none"]
  /\ spent \in Starts

ServerNext ==
  \/ \E o \in Objects : Change(o, spent["change"] + 2)
  \/ \E o \in Objects : gen[o] # 0 /\ Change(o, 0)
  \/ RelatedChange
  \/ SendEvent

WatchNext == OpenWatch \/ ReceiveEvent \/ BreakWatch

TakeNext ==
  \/ TakeFromWatch
  \/ TakeFromSync
  \/ \E y \in retries : TakeFromRetry(y)

LoopNext == Reread \/ Succeed \/ FailRetryably \/ FailForGood

RetryNext == \E y \in retries : FireRetry(y) \/ DropRetry(y)

Next ==
  \/ ServerNext
  \/ WatchNext
  \/ ListObjects \/ WakeByKick \/ WakeByTimer
  \/ TakeNext
  \/ LoopNext
  \/ RetryNext
  \/ Restart

Spec == Init /\ [][Next]_vars

(* Goroutines run, the events server forwards, and a select in which       *)
(* several senders are ready serves each of them in the end.  Nothing is   *)
(* said of WakeByTimer: the default interval is one hour.                  *)
Progress ==
  /\ WF_vars(SendEvent) /\ WF_vars(OpenWatch) /\ WF_vars(ReceiveEvent)
  /\ WF_vars(ListObjects) /\ WF_vars(WakeByKick)
  /\ SF_vars(TakeFromWatch) /\ SF_vars(TakeFromSync)
  /\ \A k \in 1 .. Budget["retryable"] :
       SF_vars(\E y \in retries : y.key = k /\ (TakeFromRetry(y) \/ FireRetry(y)))
  /\ WF_vars(Reread) /\ WF_vars(LoopNext)

PromptSpec == Spec /\ Progress

FairSpec == Spec /\ Progress /\ WF_vars(WakeByTimer)

-----------------------------------------------------------------------------
(* Properties. *)

Generations == 0 .. Budget["change"] + 1

Items == [obj : 0 .. Last, gen : Generations]

(* The state of the goroutines of reconciler.go is well formed: a loop     *)
(* that is sending has something to send, and every key in the retryTimers *)
(* map is that of a goroutine waiting in waitForRetry for that object.     *)
ReconcilerTypeOK ==
  /\ gen \in [Objects -> Generations] /\ applied \in [Objects -> Generations]
  /\ topic \in Seq(Items) /\ wire \in Seq(Items)
  /\ watchItems \in Seq(Items) /\ syncItems \in Seq(Items)
  /\ watch \in {"closed", "open", "sending"} /\ (watch = "sending" <=> watchItems # <<>>)
  /\ sync \in {"listing", "sending", "sleeping"} /\ (sync = "sending" <=> syncItems # <<>>)
  /\ loop \in {"idle", "taken", "ready"} /\ item \in Items /\ (loop = "idle" <=> item = NoItem)
  /\ outcome \in [Objects -> {"none", "success", "retryable", "fatal"}]
  /\ \A o \in Objects : timers[o] # 0 =>
       \E y \in retries : y.key = timers[o] /\ y.obj = o /\ y.phase = "armed"
  /\ \A k \in Kinds : spent[k] <= Budget[k]

(* A retryable failure is never forgotten (requeue, scheduleRetry,         *)
(* waitForRetry, cancelRetry): until the object is reconciled again there  *)
(* is a timer for it in the map, or a retry goroutine about to hand it     *)
(* over, or the reconcile loop has it in hand.  A success of an earlier    *)
(* reconciliation, or a timer that fires at the same time, takes none of   *)
(* these away.                                                             *)
RetryNotForgotten ==
  \A o \in Objects : outcome[o] = "retryable" =>
    \/ \E y \in retries : y.obj = o /\ y.phase = "armed" /\ timers[o] = y.key
    \/ \E y \in retries : y.obj = o /\ y.phase = "sending"
    \/ item.obj = o

(* A retry that a later success has canceled never hands its object over,  *)
(* even when its timer had expired and select prefers the timer            *)
(* (waitForRetry looks for itself in the map under the lock).              *)
CanceledStaysCanceled ==
  [][\A y \in retries : y.phase = "canceled" =>
       [y EXCEPT !.phase = "sending"] \notin retries']_vars

(* The function runs with what the server stored when or after the object  *)
(* was handed over, or a failed re-read left the handed-over state: the    *)
(* generation that is applied only goes back when a re-read failed.        *)
AppliedAdvances ==
  [][\A o \in Objects : applied'[o] < applied[o] => spent["reread"] > 0]_vars

(* Every stored object ends up reconciled at its last generation, and stays *)
(* so, whatever events are lost with a broken stream, handed over twice,   *)
(* or overtaken by the sync loop (Start, watchEvents, syncObjects).        *)
Converges ==
  <>[](\A o \in Objects : gen[o] # 0 => applied[o] = gen[o])
=============================================================================
