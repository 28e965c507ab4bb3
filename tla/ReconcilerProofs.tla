--------------------------- MODULE ReconcilerProofs ---------------------------
(***************************************************************************)
(* Proofs about Reconciler, for any number of objects, events, retries,    *)
(* failures and restarts.                                                  *)
(***************************************************************************)
EXTENDS Reconciler, SequenceTheorems, FiniteSetTheorems, WellFoundedInduction, TLAPS

Handed == [obj : Objects, gen : Generations]
Events == Handed \cup {Related}
Retries == [key : Nat \ {0}, obj : Objects, gen : Generations, phase : {"armed", "canceled", "sending"}]
Outcomes == {"none", "success", "retryable", "fatal"}

(* Whatever is handed over names an object, and a loop that is sending has *)
(* something to send.                                                      *)
HandoverInv ==
  /\ gen \in [Objects -> Generations] /\ spent \in [Kinds -> Nat]
  /\ topic \in Seq(Events) /\ wire \in Seq(Events)
  /\ watchItems \in Seq(Handed) /\ (watch = "sending" => watchItems # <<>>)
  /\ syncItems \in Seq(Handed) /\ (sync = "sending" => syncItems # <<>>)
  /\ IF loop = "idle" THEN item = NoItem ELSE item \in Handed
  /\ timers \in [Objects -> Nat] /\ retries \subseteq Retries

(* A key is that of one goroutine, and a key in the map is that of a       *)
(* goroutine which waits for that object and has not been canceled.        *)
TimersInv ==
  /\ outcome \in [Objects -> Outcomes]
  /\ \A y \in retries : y.key <= spent["retryable"]
  /\ \A y, z \in retries : y.key = z.key => y = z
  /\ \A o \in Objects : timers[o] # 0 =>
       \E y \in retries : y.key = timers[o] /\ y.obj = o /\ y.phase = "armed"
  /\ RetryNotForgotten

(* As long as no re-read has failed, what is applied is not newer than     *)
(* what is stored or about to be applied.                                  *)
AppliedInv ==
  /\ applied \in [Objects -> Nat]
  /\ spent["reread"] = 0 =>
       /\ \A o \in Objects : /\ gen[o] <= spent["change"] + 1 /\ applied[o] <= spent["change"] + 1
                             /\ gen[o] # 0 => applied[o] <= gen[o]
       /\ loop = "ready" =>
            /\ applied[item.obj] <= item.gen /\ item.gen <= spent["change"] + 1
            /\ gen[item.obj] # 0 => item.gen <= gen[item.obj]

(* Generations are natural numbers, up to the number of changes. *)
LEMMA GenerationsAreNatural ==
  /\ Generations \subseteq Nat /\ {0, 1} \subseteq Generations
  /\ \A n \in Nat : n < Budget["change"] => n + 2 \in Generations
<1>1. Budget["change"] \in Nat
  BY ReconcilerAssumption DEF Kinds
<1> QED BY <1>1 DEF Generations

-----------------------------------------------------------------------------
(* What the List of the server returns. *)

(* A set of naturals that is not empty has a least element. *)
LEMMA LeastNatural ==
  ASSUME NEW T, T \subseteq Nat, T # {}
  PROVE  \E n \in T : \A m \in T : n <= m
<1> DEFINE Less == {ss \in Nat \X Nat : ss[1] < ss[2]}
<1>1. IsWellFoundedOn(Less, Nat)
  BY NatLessThanWellFounded, Zenon DEF OpToRel
<1>2. PICK n \in T : \A m \in T : <<m, n>> \notin Less
  BY <1>1, WFMin
<1>3. ASSUME NEW m \in T PROVE n <= m
  <2>1. m \in Nat /\ n \in Nat
    OBVIOUS
  <2>2. m < n => <<m, n>> \in Less
    BY <2>1
  <2> QED BY <1>2, <2>1, <2>2
<1> QED BY <1>3

(* In a set of objects every rank is taken. *)
LEMMA EveryRankIsTaken ==
  ASSUME NEW S, S \subseteq Objects, NEW i \in 1 .. Cardinality(S)
  PROVE  \E o \in S : Cardinality({p \in S : p <= o}) = i
<1> DEFINE Upto(k) == {p \in S : p <= k}
           Enough == {k \in 0 .. Last : Cardinality(Upto(k)) >= i}
<1>1. Last \in Nat
  BY ReconcilerAssumption
<1>2. IsFiniteSet(S) /\ Cardinality(S) \in Nat
  <2>1. IsFiniteSet(1 .. Last)
    BY <1>1, FS_Interval
  <2> QED BY <2>1, FS_Subset, FS_CardinalityType DEF Objects
<1>3. ASSUME NEW k PROVE IsFiniteSet(Upto(k)) /\ Cardinality(Upto(k)) \in Nat
  BY <1>2, FS_Subset, FS_CardinalityType
<1>4. \A p \in S : p \in Nat /\ p <= Last /\ ~(p <= 0)
  BY <1>1 DEF Objects
<1>5. Upto(Last) = S /\ Upto(0) = {}
  BY <1>4, Zenon
<1>6. Enough \subseteq Nat /\ Last \in Enough
  <2>1. Last \in 0 .. Last /\ Cardinality(S) >= i
    BY <1>1, <1>2
  <2> QED BY <1>1, <1>5, <2>1
<1>7. PICK k \in Enough : \A m \in Enough : k <= m
  <2> HIDE DEF Enough
  <2> QED BY <1>6, LeastNatural
<1>8. k \in 0 .. Last /\ k # 0 /\ Cardinality(Upto(k)) >= i
  <2>1. Cardinality(Upto(0)) = 0
    BY <1>5, FS_EmptySet
  <2> HIDE DEF Upto
  <2> QED BY <1>2, <2>1
<1>9. Cardinality(Upto(k - 1)) < i
  <2>1. k - 1 \in 0 .. Last /\ ~(k <= k - 1)
    BY <1>1, <1>8
  <2>2. k - 1 \notin Enough
    <3> HIDE DEF Enough
    <3> QED BY <1>7, <2>1
  <2>3. Cardinality(Upto(k - 1)) \in Nat
    BY <1>3
  <2> HIDE DEF Upto
  <2> QED BY <1>2, <2>1, <2>2, <2>3
<1>10. \A p \in S : p <= k <=> p <= k - 1 \/ p = k
  BY <1>1, <1>4, <1>8
<1>11. k \in S
  <2> SUFFICES ASSUME k \notin S PROVE FALSE
    OBVIOUS
  <2>1. Upto(k) = Upto(k - 1)
    BY <1>10, Zenon
  <2>2. Cardinality(Upto(k)) \in Nat
    BY <1>3
  <2> HIDE DEF Upto
  <2> QED BY <1>2, <1>8, <1>9, <2>1, <2>2
<1>12. Cardinality(Upto(k)) = Cardinality(Upto(k - 1)) + 1
  <2>1. Upto(k) = Upto(k - 1) \cup {k}
    BY <1>10, <1>11, Zenon
  <2>2. k \notin Upto(k - 1)
    BY <1>1, <1>8
  <2>3. IsFiniteSet(Upto(k - 1))
    BY <1>3
  <2> HIDE DEF Upto
  <2> QED BY <2>1, <2>2, <2>3, FS_AddElement
<1>13. Cardinality(Upto(k)) = i
  <2>1. Cardinality(Upto(k - 1)) \in Nat
    BY <1>3
  <2> HIDE DEF Upto
  <2> QED BY <1>2, <1>8, <1>9, <1>12, <2>1
<1> QED BY <1>11, <1>13

(* A page is a sequence of stored objects. *)
LEMMA PageIsHanded ==
  ASSUME gen \in [Objects -> Generations]
  PROVE  Page \in Seq(Handed)
<1> DEFINE stored == {o \in Objects : gen[o] # 0}
           first == {o \in stored : Cardinality({p \in stored : p < o}) < PageSize}
           RankIn(o) == Cardinality({p \in first : p <= o})
           Nth(i) == CHOOSE o \in first : RankIn(o) = i
<1>1. first \subseteq Objects
  OBVIOUS
<1>2. Cardinality(first) \in Nat
  <2>1. IsFiniteSet(1 .. Last)
    BY ReconcilerAssumption, FS_Interval
  <2> QED BY <1>1, <2>1, FS_Subset, FS_CardinalityType DEF Objects
<1>3. ASSUME NEW i \in 1 .. Cardinality(first) PROVE Snapshot(Nth(i)) \in Handed
  <2>1. \E o \in first : RankIn(o) = i
    <3> HIDE DEF first
    <3> QED BY <1>1, EveryRankIsTaken
  <2>2. Nth(i) \in first
    BY <2>1
  <2> QED BY <1>1, <2>2 DEF Snapshot, Handed
<1>4. Page = [i \in 1 .. Cardinality(first) |-> Snapshot(Nth(i))]
  BY DEF Page
<1> HIDE DEF first, Nth
<1> QED BY <1>2, <1>3, <1>4

-----------------------------------------------------------------------------
(* Whatever is handed over names an object. *)

(* Events delivered again are events of the topic. *)
LEMMA CloseWatchHands ==
  ASSUME HandoverInv, CloseWatch
  PROVE  /\ topic' \in Seq(Events) /\ wire' \in Seq(Events)
         /\ watchItems' \in Seq(Handed) /\ watch' # "sending"
<1>1. PICK n \in 0 .. Len(wire) : topic' = SubSeq(wire, n + 1, Len(wire)) \o topic
  BY DEF CloseWatch
<1>2. SubSeq(wire, n + 1, Len(wire)) \in Seq(Events)
  <2>1. wire \in Seq(Events) /\ Len(wire) \in Nat
    BY DEF HandoverInv
  <2>2. n + 1 \in 1 .. Len(wire) + 1
    BY <2>1
  <2> QED BY <2>1, <2>2, SubSeqProperties
<1>3. topic' \in Seq(Events)
  BY <1>1, <1>2, ConcatProperties DEF HandoverInv
<1>4. wire' = <<>> /\ watchItems' = <<>> /\ watch' = "closed"
  BY DEF CloseWatch
<1> QED BY <1>3, <1>4

(* Handing over the head leaves a sequence of the same kind. *)
LEMMA HandOverHead ==
  ASSUME NEW S, NEW q \in Seq(S), q # <<>>
  PROVE  Head(q) \in S /\ Tail(q) \in Seq(S)
BY HeadTailProperties

(* Counting an event keeps the type of the counters. *)
LEMMA SpendIsType ==
  ASSUME HandoverInv, NEW k \in Kinds, Spend(k)
  PROVE  spent' \in [Kinds -> Nat]
BY DEF HandoverInv, Spend

(* Nothing is handed over before the loops start. *)
LEMMA HandoverInit == Init => HandoverInv
<1> SUFFICES ASSUME Init PROVE HandoverInv
  OBVIOUS
<1>1. /\ gen \in [Objects -> Generations] /\ spent \in [Kinds -> Nat]
      /\ timers \in [Objects -> Nat]
  BY GenerationsAreNatural, StartsAssumption DEF Init
<1> QED BY <1>1 DEF Init, HandoverInv

(* Every step hands over objects only. *)
LEMMA HandoverStep ==
  ASSUME HandoverInv, [Next]_vars
  PROVE  HandoverInv'
<1> USE DEF HandoverInv
<1>0. CASE UNCHANGED vars
  BY <1>0 DEF vars
<1>1. ASSUME NEW o \in Objects, NEW g \in Generations, Change(o, g) PROVE HandoverInv'
  <2>1. gen' \in [Objects -> Generations] /\ spent' \in [Kinds -> Nat]
    BY <1>1, SpendIsType DEF Change, Kinds
  <2>2. [obj |-> o, gen |-> g] \in Events
    BY DEF Events, Handed
  <2>3. topic' \in Seq(Events)
    BY <1>1, <2>2, AppendProperties DEF Change
  <2> QED BY <1>1, <2>1, <2>3 DEF Change, watchVars, syncVars, retryVars
<1>2. CASE RelatedChange
  <2>1. spent' \in [Kinds -> Nat]
    BY <1>2, SpendIsType DEF RelatedChange, Kinds
  <2>2. topic' \in Seq(Events)
    BY <1>2, AppendProperties DEF RelatedChange, Events
  <2> QED BY <1>2, <2>1, <2>2 DEF RelatedChange, watchVars, syncVars, loopVars, retryVars
<1>3. CASE SendEvent
  <2>1. topic # <<>> /\ topic' = Tail(topic) /\ wire' = Append(wire, Head(topic))
    BY <1>3 DEF SendEvent
  <2>2. topic' \in Seq(Events) /\ wire' \in Seq(Events)
    BY <2>1, HandOverHead, AppendProperties
  <2> QED BY <1>3, <2>2 DEF SendEvent, syncVars, loopVars, retryVars
<1>4. CASE OpenWatch
  <2>1. spent' \in [Kinds -> Nat]
    BY <1>4, SpendIsType DEF OpenWatch, Kinds
  <2>2. watch' # "sending"
    BY <1>4 DEF OpenWatch
  <2> QED BY <1>4, <2>1, <2>2 DEF OpenWatch, serverVars, loopVars, retryVars
<1>5. CASE ReceiveEvent
  <2>1. /\ UNCHANGED <<gen, sync, syncItems, loop, item, timers, retries>>
        /\ wire # <<>>
    BY <1>5 DEF ReceiveEvent, syncVars, loopVars, retryVars
  <2>2. Head(wire) \in Events /\ Tail(wire) \in Seq(Events)
    BY <2>1, HandOverHead
  <2>3. CASE /\ Head(wire) # Related /\ watchItems' = <<Head(wire)>>
             /\ wire' = Tail(wire) /\ UNCHANGED <<topic, spent>>
    <3>1. Head(wire) \in Handed
      BY <2>2, <2>3 DEF Events
    <3>2. watchItems' \in Seq(Handed) /\ watchItems' # <<>>
      BY <2>3, <3>1
    <3> QED BY <2>1, <2>2, <2>3, <3>2
  <2>4. CASE /\ watchItems' = Page /\ wire' = Tail(wire)
             /\ watch' = (IF Page = <<>> THEN "open" ELSE "sending")
             /\ UNCHANGED <<topic, spent>>
    BY <2>1, <2>2, <2>4, PageIsHanded
  <2>5. CASE Spend("list") /\ CloseWatch
    <3>1. spent' \in [Kinds -> Nat]
      BY <2>5, SpendIsType DEF Kinds
    <3> QED BY <2>1, <2>5, <3>1, CloseWatchHands
  <2> QED BY <1>5, <2>3, <2>4, <2>5 DEF ReceiveEvent
<1>6. CASE BreakWatch
  <2>1. spent' \in [Kinds -> Nat]
    BY <1>6, SpendIsType DEF BreakWatch, Kinds
  <2> QED BY <1>6, <2>1, CloseWatchHands DEF BreakWatch, syncVars, loopVars, retryVars
<1>7. CASE ListObjects
  <2>1. spent' \in [Kinds -> Nat]
    BY <1>7, SpendIsType DEF ListObjects, Kinds
  <2>2. syncItems' \in Seq(Handed) /\ (sync' = "sending" => syncItems' # <<>>)
    BY <1>7, PageIsHanded DEF ListObjects
  <2> QED BY <1>7, <2>1, <2>2 DEF ListObjects, serverVars, watchVars, loopVars, retryVars
<1>8. CASE WakeByKick \/ WakeByTimer
  BY <1>8 DEF WakeByKick, WakeByTimer, serverVars, watchVars, loopVars, retryVars
<1>9. CASE TakeFromWatch
  <2>1. watchItems # <<>>
    BY <1>9 DEF TakeFromWatch
  <2>2. Head(watchItems) \in Handed /\ Tail(watchItems) \in Seq(Handed)
    BY <2>1, HandOverHead
  <2> QED BY <1>9, <2>2 DEF TakeFromWatch, Take, serverVars, syncVars, retryVars
<1>10. CASE TakeFromSync
  <2>1. syncItems # <<>>
    BY <1>10 DEF TakeFromSync
  <2>2. Head(syncItems) \in Handed /\ Tail(syncItems) \in Seq(Handed)
    BY <2>1, HandOverHead
  <2> QED BY <1>10, <2>2 DEF TakeFromSync, Take, serverVars, watchVars, retryVars
<1>11. ASSUME NEW y \in retries, TakeFromRetry(y) PROVE HandoverInv'
  <2>1. [obj |-> y.obj, gen |-> y.gen] \in Handed
    BY DEF Retries, Handed
  <2> QED BY <1>11, <2>1 DEF TakeFromRetry, Take, serverVars, watchVars, syncVars
<1>12. CASE Reread
  <2>1. spent' \in [Kinds -> Nat]
    BY <1>12, SpendIsType DEF Reread, Kinds
  <2>2. loop = "taken" /\ item \in Handed
    BY <1>12 DEF Reread
  <2>3. Snapshot(item.obj) \in Handed
    BY <2>2 DEF Snapshot, Handed
  <2>4. IF loop' = "idle" THEN item' = NoItem ELSE item' \in Handed
    BY <1>12, <2>2, <2>3 DEF Reread
  <2> QED BY <1>12, <2>1, <2>4 DEF Reread, serverVars, watchVars, syncVars, retryVars
<1>13. CASE Succeed
  <2>1. timers' \in [Objects -> Nat]
    BY <1>13 DEF Succeed, CancelRetry
  <2>2. retries' \subseteq Retries
    BY <1>13 DEF Succeed, CancelRetry, Retries
  <2> QED BY <1>13, <2>1, <2>2 DEF Succeed, Finish, serverVars, watchVars, syncVars
<1>14. CASE FailRetryably
  <2>1. spent' \in [Kinds -> Nat]
    BY <1>14, SpendIsType DEF FailRetryably, Kinds
  <2>2. item \in Handed /\ spent["retryable"] + 1 \in Nat \ {0}
    BY <1>14 DEF FailRetryably, Kinds
  <2>3. item.obj \in Objects /\ item.gen \in Generations
    BY <2>2 DEF Handed
  <2>4. timers' \in [Objects -> Nat] /\ retries' \subseteq Retries
    <3>1. CASE UNCHANGED retryVars
      BY <3>1 DEF retryVars
    <3>2. CASE ~UNCHANGED retryVars
      <4> DEFINE key == spent["retryable"] + 1
                 new == [key |-> key, obj |-> item.obj, gen |-> item.gen, phase |-> "armed"]
      <4>1. timers' = [timers EXCEPT ![item.obj] = key] /\ retries' = retries \cup {new}
        BY <1>14, <3>2 DEF FailRetryably, ScheduleRetry
      <4>2. new \in Retries
        BY <2>2, <2>3 DEF Retries
      <4> HIDE DEF new
      <4> QED BY <2>2, <4>1, <4>2
    <3> QED BY <3>1, <3>2
  <2> QED BY <1>14, <2>1, <2>4 DEF FailRetryably, Finish, serverVars, watchVars, syncVars
<1>15. CASE FailForGood
  <2>1. spent' \in [Kinds -> Nat]
    BY <1>15, SpendIsType DEF FailForGood, Kinds
  <2> QED BY <1>15, <2>1 DEF FailForGood, Finish, serverVars, watchVars, syncVars, retryVars
<1>16. ASSUME NEW y \in retries, FireRetry(y) \/ DropRetry(y) PROVE HandoverInv'
  <2> DEFINE fired == [y EXCEPT !.phase = "sending"]
  <2>1. y.obj \in Objects /\ fired \in Retries
    BY DEF Retries
  <2>2. timers' = timers \/ timers' = [timers EXCEPT ![y.obj] = 0]
    BY <1>16 DEF FireRetry, DropRetry
  <2>3. timers' \in [Objects -> Nat]
    <3>1. timers \in [Objects -> Nat]
      OBVIOUS
    <3> HIDE DEF HandoverInv, fired
    <3> QED BY <2>2, <3>1
  <2>4. retries' = retries \ {y} \/ retries' = (retries \ {y}) \cup {fired}
    BY <1>16 DEF FireRetry, DropRetry
  <2>5. retries' \subseteq Retries
    <3> HIDE DEF fired
    <3> QED BY <2>1, <2>4
  <2> QED BY <1>16, <2>3, <2>5 DEF FireRetry, DropRetry, serverVars, watchVars, syncVars, loopVars
<1>17. CASE Restart
  <2>1. spent' \in [Kinds -> Nat]
    BY <1>17, SpendIsType DEF Restart, Kinds
  <2> QED BY <1>17, <2>1, CloseWatchHands DEF Restart
<1>18. /\ \A o \in Objects : \A g : Change(o, g) => spent["change"] + 2 \in Generations
      /\ 0 \in Generations
  BY GenerationsAreNatural DEF Kinds, Change, Spend
<1> QED BY <1>0, <1>1, <1>2, <1>3, <1>4, <1>5, <1>6, <1>7, <1>8, <1>9, <1>10, <1>11, <1>12,
           <1>13, <1>14, <1>15, <1>16, <1>17, <1>18
    DEF Next, ServerNext, WatchNext, TakeNext, LoopNext, RetryNext

-----------------------------------------------------------------------------
(* Timers and goroutines. *)

(* There is no retry before the loops start. *)
LEMMA TimersInit == Init => TimersInv
<1> SUFFICES ASSUME Init PROVE TimersInv
  OBVIOUS
<1>1. /\ outcome = [o \in Objects |-> "none"] /\ timers = [o \in Objects |-> 0]
      /\ retries = {}
  BY DEF Init
<1> QED BY <1>1 DEF TimersInv, Outcomes, RetryNotForgotten

(* Steps that leave timers, goroutines and outcomes alone, and keep the    *)
(* object in hand.                                                         *)
LEMMA TimersKept ==
  ASSUME HandoverInv, TimersInv, spent'["retryable"] >= spent["retryable"],
         spent'["retryable"] \in Nat,
         UNCHANGED <<timers, retries, outcome>>,
         \A o \in Objects : item.obj = o => item'.obj = o
  PROVE  TimersInv'
<1>1. \A y \in retries' : y.key <= spent'["retryable"]
  <2> TAKE y \in retries'
  <2>1. y.key \in Nat /\ y.key <= spent["retryable"] /\ spent["retryable"] \in Nat
    BY DEF HandoverInv, TimersInv, Retries, Kinds
  <2> QED BY <2>1
<1>2. RetryNotForgotten'
  BY DEF TimersInv, RetryNotForgotten
<1> QED BY <1>1, <1>2 DEF TimersInv

(* Counters only go up. *)
LEMMA SpendCounts ==
  ASSUME HandoverInv, NEW k \in Kinds, Spend(k)
  PROVE  /\ spent' = [spent EXCEPT ![k] = @ + 1]
         /\ \A l \in Kinds : spent'[l] \in Nat /\ spent'[l] >= spent[l]
BY DEF HandoverInv, Spend

(* A success cancels the goroutine of the object and no other. *)
LEMMA TimersCancel ==
  ASSUME HandoverInv, TimersInv, Succeed
  PROVE  TimersInv'
<1> DEFINE c == item.obj
           Told(y) == IF y.key = timers[c] THEN [y EXCEPT !.phase = "canceled"] ELSE y
<1>1. /\ loop = "ready" /\ item' = NoItem /\ UNCHANGED spent
      /\ timers' = [timers EXCEPT ![c] = 0] /\ retries' = {Told(y) : y \in retries}
      /\ outcome' = [outcome EXCEPT ![c] = "success"]
  BY DEF Succeed, CancelRetry, Finish
<1>2. c \in Objects /\ timers \in [Objects -> Nat] /\ retries \subseteq Retries
  BY <1>1 DEF HandoverInv, Handed
<1>3. ASSUME NEW y \in retries PROVE Told(y).key = y.key /\ Told(y).obj = y.obj
  BY <1>2 DEF Retries
<1>4. ASSUME NEW y \in retries, y.obj # c PROVE Told(y) = y
  <2>1. y.key # 0
    BY <1>2 DEF Retries
  <2> SUFFICES ASSUME y.key = timers[c] PROVE FALSE
    OBVIOUS
  <2>2. PICK z \in retries : z.key = timers[c] /\ z.obj = c
    BY <1>2, <2>1 DEF TimersInv
  <2>3. y = z
    BY <2>2 DEF TimersInv
  <2> QED BY <1>4, <2>2, <2>3
<1> HIDE DEF Told
<1>5. outcome' \in [Objects -> Outcomes]
  BY <1>1 DEF TimersInv, Outcomes
<1>6. \A y \in retries' : y.key <= spent'["retryable"]
  BY <1>1, <1>3 DEF TimersInv
<1>7. \A y, z \in retries' : y.key = z.key => y = z
  BY <1>1, <1>3 DEF TimersInv
<1>8. ASSUME NEW o \in Objects, timers'[o] # 0
      PROVE  \E y \in retries' : y.key = timers'[o] /\ y.obj = o /\ y.phase = "armed"
  <2>1. o # c /\ timers'[o] = timers[o]
    BY <1>1, <1>2, <1>8
  <2>2. PICK y \in retries : y.key = timers[o] /\ y.obj = o /\ y.phase = "armed"
    BY <1>8, <2>1 DEF TimersInv
  <2>3. y \in retries'
    BY <1>1, <1>4, <2>1, <2>2
  <2> QED BY <2>1, <2>2, <2>3
<1>9. ASSUME NEW o \in Objects, outcome'[o] = "retryable"
      PROVE  \/ \E y \in retries' : y.obj = o /\ y.phase = "armed" /\ timers'[o] = y.key
             \/ \E y \in retries' : y.obj = o /\ y.phase = "sending"
             \/ item'.obj = o
  <2>1. o # c /\ timers'[o] = timers[o] /\ outcome[o] = "retryable"
    BY <1>1, <1>2, <1>9 DEF TimersInv
  <2>2. \A y \in retries : y.obj = o => y \in retries'
    BY <1>1, <1>4, <2>1
  <2> QED BY <2>1, <2>2 DEF TimersInv, RetryNotForgotten
<1>10. RetryNotForgotten'
  BY <1>9 DEF RetryNotForgotten
<1> QED BY <1>5, <1>6, <1>7, <1>8, <1>10 DEF TimersInv

(* A failure schedules a retry, or finds one in the map. *)
LEMMA TimersSchedule ==
  ASSUME HandoverInv, TimersInv, FailRetryably
  PROVE  TimersInv'
<1> DEFINE c == item.obj
           key == spent["retryable"] + 1
           new == [key |-> key, obj |-> c, gen |-> item.gen, phase |-> "armed"]
<1>1. /\ loop = "ready" /\ item' = NoItem /\ Spend("retryable") /\ ScheduleRetry(item)
      /\ outcome' = [outcome EXCEPT ![c] = "retryable"]
  BY DEF FailRetryably, Finish
<1>2. /\ c \in Objects /\ item.gen \in Nat
      /\ timers \in [Objects -> Nat] /\ retries \subseteq Retries
      /\ spent["retryable"] \in Nat
  BY <1>1, GenerationsAreNatural DEF HandoverInv, Handed, Kinds
<1>3. spent'["retryable"] = key
  BY <1>1 DEF HandoverInv, Spend, Kinds
<1>4. outcome' \in [Objects -> Outcomes] /\ outcome \in [Objects -> Outcomes]
  BY <1>1 DEF TimersInv, Outcomes
<1>5. \A y \in retries : y.key \in Nat /\ y.key <= spent["retryable"]
  BY <1>2 DEF TimersInv, Retries
<1>6. CASE timers[c] # 0
  <2>1. UNCHANGED <<timers, retries>>
    BY <1>1, <1>6 DEF ScheduleRetry, retryVars
  <2>2. \A y \in retries' : y.key <= spent'["retryable"]
    BY <1>2, <1>3, <1>5, <2>1
  <2>3. ASSUME NEW o \in Objects, outcome'[o] = "retryable"
        PROVE  \/ \E y \in retries' : y.obj = o /\ y.phase = "armed" /\ timers'[o] = y.key
               \/ \E y \in retries' : y.obj = o /\ y.phase = "sending"
    <3>1. CASE o = c
      <4>1. PICK y \in retries : y.key = timers[c] /\ y.obj = c /\ y.phase = "armed"
        BY <1>2, <1>6 DEF TimersInv
      <4> QED BY <2>1, <3>1, <4>1
    <3>2. CASE o # c
      <4>1. outcome[o] = "retryable"
        BY <1>1, <1>4, <2>3, <3>2
      <4> QED BY <2>1, <3>2, <4>1 DEF TimersInv, RetryNotForgotten
    <3> QED BY <3>1, <3>2
  <2>4. RetryNotForgotten'
    BY <2>3 DEF RetryNotForgotten
  <2> QED BY <1>4, <2>1, <2>2, <2>4 DEF TimersInv
<1>7. CASE timers[c] = 0
  <2>1. timers' = [timers EXCEPT ![c] = key] /\ retries' = retries \cup {new}
    BY <1>1, <1>7 DEF ScheduleRetry
  <2>2. new.key = key /\ new.obj = c /\ new.phase = "armed"
    OBVIOUS
  <2>3. \A o \in Objects : timers'[o] = IF o = c THEN key ELSE timers[o]
    BY <1>2, <2>1
  <2> HIDE DEF new
  <2>4. \A y \in retries' : y.key <= spent'["retryable"]
    BY <1>2, <1>3, <1>5, <2>1, <2>2
  <2>5. \A y, z \in retries' : y.key = z.key => y = z
    <3>1. \A y \in retries : y.key # key
      BY <1>2, <1>5
    <3> HIDE DEF key
    <3> QED BY <2>1, <2>2, <3>1 DEF TimersInv
  <2> HIDE DEF key
  <2>6. \A o \in Objects : timers'[o] # 0 =>
          \E y \in retries' : y.key = timers'[o] /\ y.obj = o /\ y.phase = "armed"
    BY <2>1, <2>2, <2>3 DEF TimersInv
  <2>7. ASSUME NEW o \in Objects, outcome'[o] = "retryable"
        PROVE  \/ \E y \in retries' : y.obj = o /\ y.phase = "armed" /\ timers'[o] = y.key
               \/ \E y \in retries' : y.obj = o /\ y.phase = "sending"
    <3>1. CASE o = c
      BY <2>1, <2>2, <2>3, <3>1
    <3>2. CASE o # c
      <4>1. outcome[o] = "retryable"
        BY <1>1, <1>4, <2>7, <3>2
      <4> QED BY <2>1, <2>3, <3>2, <4>1 DEF TimersInv, RetryNotForgotten
    <3> QED BY <3>1, <3>2
  <2>8. RetryNotForgotten'
    BY <2>7 DEF RetryNotForgotten
  <2> QED BY <1>4, <2>4, <2>5, <2>6, <2>8 DEF TimersInv
<1> QED BY <1>6, <1>7

(* A timer that expires is in the map, and its goroutine goes on to send;  *)
(* or it is not, and the goroutine ends.                                   *)
LEMMA TimersFire ==
  ASSUME HandoverInv, TimersInv, NEW y \in retries, FireRetry(y) \/ DropRetry(y)
  PROVE  TimersInv'
<1> DEFINE fired == [y EXCEPT !.phase = "sending"]
<1>1. /\ y.obj \in Objects /\ y.key \in Nat \ {0}
      /\ timers \in [Objects -> Nat] /\ retries \subseteq Retries
  BY DEF HandoverInv, Retries
<1>2. fired.key = y.key /\ fired.obj = y.obj /\ fired.phase = "sending"
  BY <1>1 DEF Retries
<1>3. UNCHANGED <<spent, outcome, item>>
  BY DEF FireRetry, DropRetry, loopVars
<1>4. CASE FireRetry(y) /\ timers[y.obj] = y.key
  <2>1. timers' = [timers EXCEPT ![y.obj] = 0] /\ retries' = (retries \ {y}) \cup {fired}
    BY <1>4 DEF FireRetry
  <2>2. \A o \in Objects : timers'[o] = IF o = y.obj THEN 0 ELSE timers[o]
    BY <1>1, <2>1
  <2> HIDE DEF fired
  <2>3. \A z \in retries' : z.key <= spent'["retryable"]
    BY <1>2, <1>3, <2>1 DEF TimersInv
  <2>4. \A z, x \in retries' : z.key = x.key => z = x
    BY <1>2, <2>1 DEF TimersInv
  <2>5. \A o \in Objects : timers'[o] # 0 =>
          \E z \in retries' : z.key = timers'[o] /\ z.obj = o /\ z.phase = "armed"
    BY <2>1, <2>2 DEF TimersInv
  <2>6. RetryNotForgotten'
    BY <1>2, <1>3, <2>1, <2>2 DEF TimersInv, RetryNotForgotten
  <2> QED BY <1>3, <2>3, <2>4, <2>5, <2>6 DEF TimersInv
<1>5. CASE DropRetry(y) \/ timers[y.obj] # y.key
  <2> HIDE DEF fired
  <2>1. UNCHANGED timers /\ retries' = retries \ {y} /\ y.phase \in {"armed", "canceled"}
    BY <1>5 DEF FireRetry, DropRetry
  <2>2. \A o \in Objects, z \in retries : timers[o] = z.key /\ z.phase = "armed" => z # y
    <3> SUFFICES ASSUME NEW o \in Objects, timers[o] = y.key, y.phase = "armed" PROVE FALSE
      OBVIOUS
    <3>1. PICK z \in retries : z.key = timers[o] /\ z.obj = o
      BY <1>1 DEF TimersInv
    <3>2. z = y
      BY <3>1 DEF TimersInv
    <3> QED BY <1>5, <3>1, <3>2 DEF DropRetry
  <2>3. \A o \in Objects : timers'[o] # 0 =>
          \E z \in retries' : z.key = timers'[o] /\ z.obj = o /\ z.phase = "armed"
    BY <2>1, <2>2 DEF TimersInv
  <2>4. RetryNotForgotten'
    BY <1>3, <2>1, <2>2 DEF TimersInv, RetryNotForgotten
  <2> QED BY <1>3, <2>1, <2>3, <2>4 DEF TimersInv
<1> QED BY <1>4, <1>5

(* Every step keeps the map and the goroutines in step. *)
LEMMA TimersStep ==
  ASSUME HandoverInv, TimersInv, [Next]_vars
  PROVE  TimersInv'
<1>0. spent["retryable"] \in Nat /\ NoItem.obj = 0 /\ 0 \notin Objects
  BY DEF HandoverInv, Kinds, NoItem, Objects
<1>1. ASSUME loop = "idle" \/ item' = item,
             UNCHANGED spent \/ \E k \in Kinds : Spend(k),
             UNCHANGED <<timers, retries, outcome>>
      PROVE  TimersInv'
  <2>1. spent'["retryable"] \in Nat /\ spent'["retryable"] >= spent["retryable"]
    BY <1>0, <1>1, SpendCounts DEF Kinds
  <2>2. \A o \in Objects : item.obj = o => item'.obj = o
    BY <1>0, <1>1 DEF HandoverInv
  <2> QED BY <1>1, <2>1, <2>2, TimersKept
<1>2. CASE UNCHANGED vars
  BY <1>1, <1>2 DEF vars
<1>3. ASSUME NEW o \in Objects, NEW g, Change(o, g) PROVE TimersInv'
  BY <1>1, <1>3 DEF Change, Kinds, retryVars
<1>4. CASE RelatedChange
  BY <1>1, <1>4 DEF RelatedChange, Kinds, loopVars, retryVars
<1>5. CASE SendEvent
  BY <1>1, <1>5 DEF SendEvent, loopVars, retryVars
<1>6. CASE OpenWatch
  BY <1>1, <1>6 DEF OpenWatch, Kinds, loopVars, retryVars
<1>7. CASE ReceiveEvent
  <2>1. UNCHANGED spent \/ Spend("list")
    BY <1>7 DEF ReceiveEvent
  <2> QED BY <1>1, <1>7, <2>1 DEF ReceiveEvent, Kinds, loopVars, retryVars
<1>8. CASE BreakWatch
  BY <1>1, <1>8 DEF BreakWatch, Kinds, loopVars, retryVars
<1>9. CASE ListObjects
  <2>1. UNCHANGED spent \/ Spend("list")
    BY <1>9 DEF ListObjects
  <2> QED BY <1>1, <1>9, <2>1 DEF ListObjects, Kinds, loopVars, retryVars
<1>10. CASE WakeByKick \/ WakeByTimer
  BY <1>1, <1>10 DEF WakeByKick, WakeByTimer, loopVars, retryVars
<1>11. CASE TakeFromWatch
  BY <1>1, <1>11 DEF TakeFromWatch, Take, retryVars
<1>12. CASE TakeFromSync
  BY <1>1, <1>12 DEF TakeFromSync, Take, retryVars
<1>13. ASSUME NEW y \in retries, TakeFromRetry(y) PROVE TimersInv'
  <2>1. /\ y.phase = "sending" /\ loop = "idle" /\ item'.obj = y.obj
        /\ retries' = retries \ {y} /\ UNCHANGED <<timers, spent, outcome>>
    BY <1>13 DEF TakeFromRetry, Take
  <2>2. \A o \in Objects : item.obj # o
    BY <1>0, <2>1 DEF HandoverInv
  <2>3. RetryNotForgotten'
    BY <2>1, <2>2 DEF TimersInv, RetryNotForgotten
  <2>4. \A o \in Objects : timers'[o] # 0 =>
          \E z \in retries' : z.key = timers'[o] /\ z.obj = o /\ z.phase = "armed"
    BY <2>1 DEF TimersInv
  <2> QED BY <2>1, <2>3, <2>4 DEF TimersInv
<1>14. CASE Reread
  <2>1. /\ UNCHANGED <<timers, retries>>
        /\ UNCHANGED spent \/ Spend("reread")
        /\ \/ item' = NoItem /\ outcome' = [outcome EXCEPT ![item.obj] = "none"]
           \/ item' = Snapshot(item.obj) /\ outcome' = outcome
           \/ item' = item /\ outcome' = outcome
    BY <1>14 DEF Reread, retryVars
  <2>2. CASE item' = NoItem /\ outcome' = [outcome EXCEPT ![item.obj] = "none"]
    <3>1. outcome' \in [Objects -> Outcomes]
      BY <2>2 DEF TimersInv, Outcomes
    <3>2. \A o \in Objects : outcome'[o] = "retryable" => outcome[o] = "retryable" /\ item.obj # o
      BY <2>2 DEF TimersInv
    <3>3. RetryNotForgotten'
      BY <2>1, <3>2 DEF TimersInv, RetryNotForgotten
    <3>4. \A y \in retries' : y.key <= spent'["retryable"]
      <4>1. spent'["retryable"] \in Nat /\ spent'["retryable"] >= spent["retryable"]
        BY <1>0, <2>1, SpendCounts DEF Kinds
      <4> TAKE y \in retries'
      <4>2. y.key \in Nat /\ y.key <= spent["retryable"]
        BY <2>1 DEF HandoverInv, TimersInv, Retries
      <4> QED BY <1>0, <4>1, <4>2
    <3> QED BY <2>1, <3>1, <3>3, <3>4 DEF TimersInv
  <2>3. CASE (item' = Snapshot(item.obj) \/ item' = item) /\ outcome' = outcome
    <3>1. \A o \in Objects : item.obj = o => item'.obj = o
      BY <2>3 DEF Snapshot
    <3>2. spent'["retryable"] \in Nat /\ spent'["retryable"] >= spent["retryable"]
      BY <1>0, <2>1, SpendCounts DEF Kinds
    <3> QED BY <2>1, <2>3, <3>1, <3>2, TimersKept
  <2> QED BY <2>1, <2>2, <2>3
<1>15. CASE FailForGood
  <2>1. /\ UNCHANGED <<timers, retries>> /\ Spend("fatal") /\ item' = NoItem
        /\ outcome' = [outcome EXCEPT ![item.obj] = "fatal"]
    BY <1>15 DEF FailForGood, Finish, retryVars
  <2>2. outcome' \in [Objects -> Outcomes]
    BY <2>1 DEF TimersInv, Outcomes
  <2>3. \A o \in Objects : outcome'[o] = "retryable" => outcome[o] = "retryable" /\ item.obj # o
    BY <2>1 DEF TimersInv
  <2>4. RetryNotForgotten'
    BY <2>1, <2>3 DEF TimersInv, RetryNotForgotten
  <2>5. spent'["retryable"] = spent["retryable"]
    BY <2>1 DEF HandoverInv, Spend, Kinds
  <2> QED BY <2>1, <2>2, <2>4, <2>5 DEF TimersInv
<1>16. CASE Restart
  <2>1. /\ outcome' = [o \in Objects |-> "none"] /\ timers' = [o \in Objects |-> 0]
        /\ retries' = {}
    BY <1>16 DEF Restart
  <2> QED BY <2>1 DEF TimersInv, Outcomes, RetryNotForgotten
<1> QED BY <1>2, <1>3, <1>4, <1>5, <1>6, <1>7, <1>8, <1>9, <1>10, <1>11, <1>12, <1>13, <1>14,
           <1>15, <1>16, TimersCancel, TimersSchedule, TimersFire
    DEF Next, ServerNext, WatchNext, TakeNext, LoopNext, RetryNext

(* The key of a retry that was canceled is not in the map, so no step      *)
(* makes its goroutine send.                                               *)
LEMMA CanceledStep ==
  ASSUME HandoverInv, TimersInv, [Next]_vars,
         NEW y \in retries, y.phase = "canceled"
  PROVE  [y EXCEPT !.phase = "sending"] \notin retries'
<1> DEFINE z == [y EXCEPT !.phase = "sending"]
<1>1. z.key = y.key /\ z.phase = "sending" /\ y.key # 0 /\ y.obj \in Objects
  BY DEF HandoverInv, Retries
<1> HIDE DEF z
<1>2. z \notin retries
  BY <1>1 DEF TimersInv
<1>3. CASE retries' \subseteq retries
  BY <1>2, <1>3 DEF z
<1>4. CASE Succeed
  <2>1. ASSUME NEW w \in retries' PROVE w \in retries \/ w.phase = "canceled"
    <3>1. PICK x \in retries :
            w = IF x.key = timers[item.obj] THEN [x EXCEPT !.phase = "canceled"] ELSE x
      BY <1>4 DEF Succeed, CancelRetry
    <3>2. [x EXCEPT !.phase = "canceled"].phase = "canceled"
      BY DEF HandoverInv, Retries
    <3> QED BY <3>1, <3>2
  <2>2. z \notin retries'
    BY <1>1, <1>2, <2>1
  <2> QED BY <2>2 DEF z
<1>5. CASE FailRetryably
  <2>1. ASSUME NEW w \in retries' PROVE w \in retries \/ w.phase = "armed"
    BY <1>5 DEF FailRetryably, ScheduleRetry, retryVars
  <2>2. z \notin retries'
    BY <1>1, <1>2, <2>1
  <2> QED BY <2>2 DEF z
<1>6. ASSUME NEW x \in retries, FireRetry(x) PROVE z \notin retries'
  <2> DEFINE fired == [x EXCEPT !.phase = "sending"]
  <2>1. fired.key = x.key /\ x.obj \in Objects /\ x.key # 0
    BY DEF HandoverInv, Retries
  <2>2. retries' \subseteq retries \/ (timers[x.obj] = x.key /\ retries' \subseteq retries \cup {fired})
    BY <1>6 DEF FireRetry
  <2> HIDE DEF fired
  <2>3. ASSUME timers[x.obj] = x.key PROVE x # y
    <3>1. PICK w \in retries : w.key = x.key /\ w.phase = "armed"
      BY <2>1, <2>3 DEF TimersInv
    <3> QED BY <3>1 DEF TimersInv
  <2>4. ASSUME timers[x.obj] = x.key PROVE z # fired
    BY <1>1, <2>1, <2>3, <2>4 DEF TimersInv
  <2> QED BY <1>2, <2>2, <2>4
<1>7. CASE UNCHANGED retries
  BY <1>3, <1>7
<1>8. CASE UNCHANGED vars
  BY <1>7, <1>8 DEF vars
<1>9. CASE ServerNext \/ WatchNext \/ ListObjects \/ WakeByKick \/ WakeByTimer
  BY <1>7, <1>9 DEF ServerNext, Change, RelatedChange, SendEvent, WatchNext, OpenWatch,
     ReceiveEvent, BreakWatch, ListObjects, WakeByKick, WakeByTimer, retryVars
<1>10. CASE TakeNext
  BY <1>3, <1>7, <1>10 DEF TakeNext, TakeFromWatch, TakeFromSync, TakeFromRetry, retryVars
<1>11. CASE LoopNext
  BY <1>4, <1>5, <1>7, <1>11 DEF LoopNext, Reread, FailForGood, retryVars
<1>12. CASE RetryNext
  <2>1. ASSUME NEW x \in retries, DropRetry(x) PROVE retries' \subseteq retries
    BY <2>1 DEF DropRetry
  <2>2. z \notin retries'
    BY <1>2, <1>6, <1>12, <2>1 DEF RetryNext
  <2> QED BY <2>2 DEF z
<1>13. CASE Restart
  BY <1>3, <1>13 DEF Restart
<1> QED BY <1>8, <1>9, <1>10, <1>11, <1>12, <1>13 DEF Next

-----------------------------------------------------------------------------
(* What is applied. *)

(* Nothing has been applied before the loops start. *)
LEMMA AppliedInit == Init => AppliedInv
<1> SUFFICES ASSUME Init PROVE AppliedInv
  OBVIOUS
<1>1. /\ applied = [o \in Objects |-> 0] /\ loop = "idle" /\ spent["change"] \in Nat
      /\ \A o \in Objects : gen[o] \in {0, 1}
  BY StartsAssumption DEF Init, Kinds
<1> QED BY <1>1 DEF AppliedInv

(* Steps that neither change an object nor run the function. *)
LEMMA AppliedKept ==
  ASSUME HandoverInv, AppliedInv, UNCHANGED <<gen, applied>>,
         UNCHANGED spent \/ \E k \in Kinds \ {"change"} : Spend(k),
         loop' # "ready" \/ UNCHANGED <<loop, item>>
  PROVE  AppliedInv'
<1>1. spent'["change"] = spent["change"] /\ (spent'["reread"] = 0 => spent["reread"] = 0)
  BY DEF HandoverInv, Spend, Kinds
<1> QED BY <1>1 DEF AppliedInv

(* A change stores a generation that is newer than all others, or none. *)
LEMMA AppliedChange ==
  ASSUME HandoverInv, AppliedInv, NEW o \in Objects,
         NEW g \in {0, spent["change"] + 2}, Change(o, g)
  PROVE  AppliedInv'
<1>1. /\ spent["change"] \in Nat /\ gen \in [Objects -> Nat] /\ applied \in [Objects -> Nat]
      /\ loop = "ready" => item.obj \in Objects /\ item.gen \in Nat
  BY GenerationsAreNatural DEF HandoverInv, AppliedInv, Handed, Kinds
<1>2. /\ UNCHANGED <<applied, loop, item>> /\ gen' = [gen EXCEPT ![o] = g]
      /\ spent' = [spent EXCEPT !["change"] = @ + 1]
  BY DEF Change, Spend
<1>3. spent'["change"] = spent["change"] + 1 /\ spent'["reread"] = spent["reread"]
  BY <1>2 DEF HandoverInv, Kinds
<1>4. \A p \in Objects : gen'[p] = IF p = o THEN g ELSE gen[p]
  BY <1>1, <1>2
<1>5. CASE spent["reread"] = 0
  <2>1. \A p \in Objects : /\ gen'[p] <= spent'["change"] + 1
                           /\ applied'[p] <= spent'["change"] + 1
                           /\ gen'[p] # 0 => applied'[p] <= gen'[p]
    BY <1>1, <1>2, <1>3, <1>4, <1>5 DEF AppliedInv
  <2>2. loop' = "ready" =>
          /\ applied'[item'.obj] <= item'.gen /\ item'.gen <= spent'["change"] + 1
          /\ gen'[item'.obj] # 0 => item'.gen <= gen'[item'.obj]
    BY <1>1, <1>2, <1>3, <1>4, <1>5 DEF AppliedInv
  <2> QED BY <1>1, <1>2, <2>1, <2>2 DEF AppliedInv
<1>6. CASE spent["reread"] # 0
  BY <1>1, <1>2, <1>3, <1>6 DEF AppliedInv
<1> QED BY <1>5, <1>6

(* Every step keeps what is applied behind what is stored. *)
LEMMA AppliedStep ==
  ASSUME HandoverInv, AppliedInv, [Next]_vars
  PROVE  AppliedInv'
<1>1. CASE UNCHANGED vars
  BY <1>1, AppliedKept DEF vars
<1>2. CASE ServerNext
  <2>1. CASE RelatedChange
    <3>1. /\ UNCHANGED <<gen, applied, loop, item>>
          /\ spent' = [spent EXCEPT !["change"] = @ + 1]
      BY <2>1 DEF RelatedChange, Spend, loopVars
    <3>2. /\ spent["change"] \in Nat /\ spent'["change"] = spent["change"] + 1
          /\ spent'["reread"] = spent["reread"]
          /\ gen \in [Objects -> Nat] /\ applied \in [Objects -> Nat]
          /\ loop = "ready" => item.obj \in Objects /\ item.gen \in Nat
      BY <3>1, GenerationsAreNatural DEF HandoverInv, AppliedInv, Handed, Kinds
    <3> QED BY <3>1, <3>2 DEF AppliedInv
  <2>2. CASE SendEvent
    BY <2>2, AppliedKept DEF SendEvent, loopVars
  <2> QED BY <1>2, <2>1, <2>2, AppliedChange DEF ServerNext
<1>3. CASE WatchNext
  <2>1. UNCHANGED spent \/ Spend("list") \/ Spend("break")
    BY <1>3 DEF WatchNext, OpenWatch, ReceiveEvent, BreakWatch
  <2>2. UNCHANGED <<gen, applied, loop, item>>
    BY <1>3 DEF WatchNext, OpenWatch, ReceiveEvent, BreakWatch, serverVars, loopVars
  <2> QED BY <2>1, <2>2, AppliedKept DEF Kinds
<1>4. CASE ListObjects \/ WakeByKick \/ WakeByTimer
  <2>1. UNCHANGED spent \/ Spend("list")
    BY <1>4 DEF ListObjects, WakeByKick, WakeByTimer
  <2>2. UNCHANGED <<gen, applied, loop, item>>
    BY <1>4 DEF ListObjects, WakeByKick, WakeByTimer, serverVars, loopVars
  <2> QED BY <2>1, <2>2, AppliedKept DEF Kinds
<1>5. CASE TakeNext
  <2>1. UNCHANGED <<gen, applied, spent>> /\ loop' = "taken"
    BY <1>5 DEF TakeNext, TakeFromWatch, TakeFromSync, TakeFromRetry, Take, serverVars
  <2> QED BY <2>1, AppliedKept
<1>6. CASE Reread
  <2>1. UNCHANGED <<gen, applied>>
    BY <1>6 DEF Reread, serverVars
  <2>2. CASE loop' = "idle" /\ UNCHANGED spent
    BY <2>1, <2>2, AppliedKept
  <2>3. CASE gen[item.obj] # 0 /\ loop' = "ready" /\ item' = Snapshot(item.obj) /\ UNCHANGED spent
    <3>1. item.obj \in Objects
      BY <1>6 DEF Reread, HandoverInv, Handed
    <3>2. item'.obj = item.obj /\ item'.gen = gen[item.obj] /\ gen[item.obj] \in Nat
      BY <2>3, <3>1, GenerationsAreNatural DEF Snapshot, HandoverInv
    <3> QED BY <2>1, <2>3, <3>1, <3>2, SMTT(30) DEF AppliedInv
  <2>4. CASE Spend("reread")
    <3>1. spent'["reread"] # 0
      BY <2>4 DEF Spend, HandoverInv, Kinds
    <3> QED BY <2>1, <3>1 DEF AppliedInv
  <2> QED BY <1>6, <2>2, <2>3, <2>4 DEF Reread
<1>7. CASE Succeed
  <2>1. /\ loop = "ready" /\ loop' = "idle" /\ UNCHANGED <<gen, spent>>
        /\ applied' = [applied EXCEPT ![item.obj] = item.gen]
    BY <1>7 DEF Succeed, Finish, serverVars
  <2>2. item.obj \in Objects /\ item.gen \in Nat
    BY <2>1, GenerationsAreNatural DEF HandoverInv, Handed
  <2> QED BY <2>1, <2>2 DEF AppliedInv
<1>8. CASE FailRetryably \/ FailForGood
  <2>1. Spend("retryable") \/ Spend("fatal")
    BY <1>8 DEF FailRetryably, FailForGood
  <2>2. UNCHANGED <<gen, applied>> /\ loop' = "idle"
    BY <1>8 DEF FailRetryably, FailForGood, Finish, serverVars
  <2> QED BY <2>1, <2>2, AppliedKept DEF Kinds
<1>9. CASE RetryNext
  <2>1. UNCHANGED <<gen, applied, spent, loop, item>>
    BY <1>9 DEF RetryNext, FireRetry, DropRetry, serverVars, loopVars
  <2> QED BY <2>1, AppliedKept
<1>10. CASE Restart
  <2>1. UNCHANGED <<gen, applied>> /\ loop' = "idle" /\ Spend("restart")
    BY <1>10 DEF Restart
  <2> QED BY <2>1, AppliedKept DEF Kinds
<1> QED BY <1>1, <1>2, <1>3, <1>4, <1>5, <1>6, <1>7, <1>8, <1>9, <1>10 DEF Next, LoopNext

(* Only a success applies, and what it applies is not older. *)
LEMMA AdvanceStep ==
  ASSUME HandoverInv, AppliedInv, [Next]_vars,
         NEW o \in Objects, applied'[o] < applied[o]
  PROVE  spent["reread"] > 0
<1>1. applied \in [Objects -> Nat] /\ spent["reread"] \in Nat
  BY DEF AppliedInv, HandoverInv, Kinds
<1>2. applied' # applied
  BY <1>1
<1>3. Succeed
  BY <1>2 DEF vars, Next, ServerNext, Change, RelatedChange, SendEvent, WatchNext, OpenWatch,
     ReceiveEvent, BreakWatch, ListObjects, WakeByKick, WakeByTimer, TakeNext, TakeFromWatch,
     TakeFromSync, TakeFromRetry, Take, LoopNext, Reread, FailRetryably, FailForGood,
     RetryNext, FireRetry, DropRetry, Restart, loopVars
<1>4. loop = "ready" /\ applied' = [applied EXCEPT ![item.obj] = item.gen]
  BY <1>3 DEF Succeed
<1>5. o = item.obj /\ item.gen \in Nat /\ applied'[o] = item.gen
  BY <1>1, <1>4, GenerationsAreNatural DEF HandoverInv, Handed
<1> QED BY <1>1, <1>4, <1>5 DEF AppliedInv

-----------------------------------------------------------------------------
(* The loops. *)

(* A loop that has something to send is sending, and no kind of event      *)
(* happens more often than its bound.                                      *)
LoopsInv ==
  /\ applied \in [Objects -> Generations]
  /\ watch \in {"closed", "open", "sending"} /\ (watch # "sending" => watchItems = <<>>)
  /\ sync \in {"listing", "sending", "sleeping"} /\ (sync # "sending" => syncItems = <<>>)
  /\ loop \in {"idle", "taken", "ready"}
  /\ \A k \in Kinds : spent[k] <= Budget[k]

(* The loops have nothing to send before they start. *)
LEMMA LoopsInit == Init => LoopsInv
<1> SUFFICES ASSUME Init PROVE LoopsInv
  OBVIOUS
<1>1. applied \in [Objects -> Generations]
  BY GenerationsAreNatural DEF Init
<1>2. \A k \in Kinds : spent[k] <= Budget[k]
  BY StartsAssumption DEF Init
<1> QED BY <1>1, <1>2 DEF Init, LoopsInv

(* Spending stops at the bound. *)
LEMMA SpendBounded ==
  ASSUME HandoverInv, LoopsInv, UNCHANGED spent \/ \E k \in Kinds : Spend(k)
  PROVE  \A k \in Kinds : spent'[k] <= Budget[k]
<1>1. /\ spent \in [Kinds -> Nat] /\ Budget \in [Kinds -> Nat]
      /\ \A k \in Kinds : spent[k] <= Budget[k]
  BY ReconcilerAssumption DEF HandoverInv, LoopsInv
<1>2. ASSUME NEW k \in Kinds, Spend(k), NEW j \in Kinds PROVE spent'[j] <= Budget[j]
  <2>1. spent' = [spent EXCEPT ![k] = spent[k] + 1] /\ spent[k] < Budget[k]
    BY <1>2 DEF Spend
  <2>2. CASE j = k
    BY <1>1, <2>1, <2>2
  <2>3. CASE j # k
    BY <1>1, <2>1, <2>3
  <2> QED BY <2>2, <2>3
<1> QED BY <1>1, <1>2

(* Every step of the loops keeps them so. *)
LEMMA LoopsStep ==
  ASSUME HandoverInv, LoopsInv, [Next]_vars
  PROVE  LoopsInv'
<1> USE DEF LoopsInv
<1>1. CASE UNCHANGED vars
  BY <1>1 DEF vars
<1>2. CASE ServerNext
  <2>1. UNCHANGED spent \/ Spend("change")
    BY <1>2 DEF ServerNext, Change, RelatedChange, SendEvent
  <2>2. \A k \in Kinds : spent'[k] <= Budget[k]
    BY <2>1, SpendBounded DEF Kinds
  <2> QED BY <1>2, <2>2 DEF ServerNext, Change, RelatedChange, SendEvent, watchVars, syncVars, loopVars
<1>3. CASE WatchNext
  <2>1. UNCHANGED spent \/ Spend("list") \/ Spend("break")
    BY <1>3 DEF WatchNext, OpenWatch, ReceiveEvent, BreakWatch
  <2>2. \A k \in Kinds : spent'[k] <= Budget[k]
    BY <2>1, SpendBounded DEF Kinds
  <2>3. UNCHANGED <<applied, sync, syncItems, loop>>
    BY <1>3 DEF WatchNext, OpenWatch, ReceiveEvent, BreakWatch, syncVars, loopVars
  <2>4. watch' \in {"closed", "open", "sending"} /\ (watch' # "sending" => watchItems' = <<>>)
    <3>1. CASE OpenWatch
      BY <3>1 DEF OpenWatch
    <3>2. CASE ReceiveEvent
      BY <3>2 DEF ReceiveEvent, CloseWatch
    <3>3. CASE BreakWatch
      BY <3>3 DEF BreakWatch, CloseWatch
    <3> QED BY <1>3, <3>1, <3>2, <3>3 DEF WatchNext
  <2> QED BY <2>2, <2>3, <2>4
<1>4. CASE ListObjects \/ WakeByKick \/ WakeByTimer
  <2>1. UNCHANGED spent \/ Spend("list")
    BY <1>4 DEF ListObjects, WakeByKick, WakeByTimer
  <2>2. \A k \in Kinds : spent'[k] <= Budget[k]
    BY <2>1, SpendBounded DEF Kinds
  <2>3. UNCHANGED <<applied, watch, watchItems, loop>>
    BY <1>4 DEF ListObjects, WakeByKick, WakeByTimer, watchVars, loopVars
  <2>4. sync' \in {"listing", "sending", "sleeping"} /\ (sync' # "sending" => syncItems' = <<>>)
    BY <1>4 DEF ListObjects, WakeByKick, WakeByTimer
  <2> QED BY <2>2, <2>3, <2>4
<1>5. CASE TakeNext
  BY <1>5 DEF TakeNext, TakeFromWatch, TakeFromSync, TakeFromRetry, Take, watchVars, syncVars
<1>6. CASE Reread \/ FailRetryably \/ FailForGood
  <2>1. UNCHANGED spent \/ Spend("reread") \/ Spend("retryable") \/ Spend("fatal")
    BY <1>6 DEF Reread, FailRetryably, FailForGood
  <2>2. \A k \in Kinds : spent'[k] <= Budget[k]
    BY <2>1, SpendBounded DEF Kinds
  <2>3. UNCHANGED <<applied, watch, watchItems, sync, syncItems>>
    BY <1>6 DEF Reread, FailRetryably, FailForGood, watchVars, syncVars
  <2>4. loop' \in {"idle", "taken", "ready"}
    BY <1>6 DEF Reread, FailRetryably, FailForGood, Finish
  <2> QED BY <2>2, <2>3, <2>4
<1>7. CASE Succeed
  <2>1. item.obj \in Objects /\ item.gen \in Generations
    BY <1>7 DEF Succeed, HandoverInv, Handed
  <2>2. applied' \in [Objects -> Generations]
    BY <1>7, <2>1 DEF Succeed
  <2> QED BY <1>7, <2>2 DEF Succeed, Finish, watchVars, syncVars
<1>8. CASE RetryNext
  BY <1>8 DEF RetryNext, FireRetry, DropRetry, watchVars, syncVars, loopVars
<1>9. CASE Restart
  <2>1. \A k \in Kinds : spent'[k] <= Budget[k]
    BY <1>9, SpendBounded DEF Restart, Kinds
  <2> QED BY <1>9, <2>1 DEF Restart, CloseWatch
<1> QED BY <1>1, <1>2, <1>3, <1>4, <1>5, <1>6, <1>7, <1>8, <1>9 DEF Next, LoopNext

-----------------------------------------------------------------------------
ReconcilerInv == HandoverInv /\ TimersInv /\ AppliedInv /\ LoopsInv

(* The four parts together are an inductive invariant. *)
LEMMA ReconcilerInvariance == Spec => []ReconcilerInv
<1>1. Init => ReconcilerInv
  BY HandoverInit, TimersInit, AppliedInit, LoopsInit DEF ReconcilerInv
<1>2. ReconcilerInv /\ [Next]_vars => ReconcilerInv'
  BY HandoverStep, TimersStep, AppliedStep, LoopsStep DEF ReconcilerInv
<1> QED BY <1>1, <1>2, PTL DEF Spec

(* The state of the goroutines of reconciler.go is well formed: whatever   *)
(* is handed over is a version of an object the server stored, a loop is   *)
(* sending exactly while it has something to send, and every key in the    *)
(* retryTimers map is that of a goroutine which waits for that object.     *)
THEOREM ReconcilerTypes == Spec => []ReconcilerTypeOK
<1>1. ReconcilerInv => ReconcilerTypeOK
  <2> SUFFICES ASSUME ReconcilerInv PROVE ReconcilerTypeOK
    OBVIOUS
  <2>1. Last \in Nat /\ NoItem \in Items /\ Related \in Items /\ Handed \subseteq Items
    <3>1. Last \in Nat /\ 0 \in Generations /\ 1 \in Generations
      BY GenerationsAreNatural, ReconcilerAssumption
    <3>2. Objects \subseteq 0 .. Last /\ 0 \in 0 .. Last
      BY <3>1 DEF Objects
    <3> QED BY <3>1, <3>2 DEF NoItem, Related, Items, Handed
  <2>2. Events \subseteq Items
    BY <2>1 DEF Events
  <2>3. topic \in Seq(Items) /\ wire \in Seq(Items) /\ watchItems \in Seq(Items)
        /\ syncItems \in Seq(Items)
    BY <2>1, <2>2 DEF ReconcilerInv, HandoverInv
  <2>4. item \in Items /\ (loop = "idle" <=> item = NoItem)
    <3>1. NoItem \notin Handed
      BY <2>1 DEF NoItem, Handed, Objects
    <3> QED BY <2>1, <3>1 DEF ReconcilerInv, HandoverInv
  <2>5. /\ watch = "sending" <=> watchItems # <<>>
        /\ sync = "sending" <=> syncItems # <<>>
    BY DEF ReconcilerInv, HandoverInv, LoopsInv
  <2> QED BY <2>3, <2>4, <2>5
          DEF ReconcilerInv, HandoverInv, LoopsInv, TimersInv, Outcomes, ReconcilerTypeOK
<1> QED BY <1>1, ReconcilerInvariance, PTL

(* requeue, scheduleRetry, waitForRetry and cancelRetry together lose no   *)
(* retryable failure: whatever events, syncs, timers, cancellations and    *)
(* restarts come in between, an object whose last reconciliation failed    *)
(* with a retry interval has a timer in the map, a goroutine that hands it *)
(* over, or is in the hands of the reconcile loop.                         *)
THEOREM RetriesAreKept == Spec => []RetryNotForgotten
<1>1. ReconcilerInv => RetryNotForgotten
  BY DEF ReconcilerInv, TimersInv
<1> QED BY <1>1, ReconcilerInvariance, PTL

(* A goroutine of waitForRetry that cancelRetry has told to stop never     *)
(* sends its object, even when its timer has expired: the key that it      *)
(* would have to find in the retryTimers map is gone for good.             *)
THEOREM CanceledRetriesEnd == Spec => CanceledStaysCanceled
<1>1. ReconcilerInv /\ [Next]_vars =>
        [\A y \in retries : y.phase = "canceled" =>
           [y EXCEPT !.phase = "sending"] \notin retries']_vars
  BY CanceledStep DEF ReconcilerInv
<1> QED BY <1>1, ReconcilerInvariance, PTL DEF Spec, CanceledStaysCanceled

(* Reading the object again before the function runs (getObject) makes     *)
(* what is applied only go forward, whatever order the watch loop, the     *)
(* sync loop and the retries hand over old snapshots in, as long as no     *)
(* such read fails.                                                        *)
THEOREM AppliedOnlyAdvances == Spec => AppliedAdvances
<1>1. ReconcilerInv /\ [Next]_vars =>
        [\A o \in Objects : applied'[o] < applied[o] => spent["reread"] > 0]_vars
  BY AdvanceStep DEF ReconcilerInv
<1> QED BY <1>1, ReconcilerInvariance, PTL DEF Spec, AppliedAdvances
=============================================================================
