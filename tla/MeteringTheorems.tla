-------------------------- MODULE MeteringTheorems --------------------------
(***************************************************************************)
(* The results about metering.  The relay's steps and a restore keep the   *)
(* invariant of MeteringProofs, and with it NothingSkipped holds in every  *)
(* reachable state.  History follows the event log while one pod folds,    *)
(* whatever the number of resources, events, crashes and restores.         *)
(***************************************************************************)
EXTENDS MeteringProofs

(* The heartbeat offset. *)

(* What a relay sends is of a round its database knows. *)
LEMMA RelaySendKeeps ==
  ASSUME MeteringInv, NEW p \in RelayPods, RelaySend(p)
  PROVE  MeteringInv'
<1> DEFINE h == relay[p].rows[relay[p].sent + 1]
<1>1. /\ RelayInv(p) /\ relay[p].pc # "idle" /\ relay[p].sent < Len(relay[p].rows)
      /\ UNCHANGED <<now, db, backup, round>> /\ topic' = Append(topic, h)
      /\ StoresInv /\ DOMAIN relay = RelayPods
  BY DEF MeteringInv, RelaySend
<1>2. h.round \in Int /\ h.round <= db.lastRoundTime
  <2>1. /\ RoundsIn(relay[p].rows, UpTo(db.lastRoundTime)) /\ relay[p].sent \in Nat
    BY <1>1 DEF RelayInv
  <2>2. /\ Len(relay[p].rows) \in Nat
        /\ \A i \in 1 .. Len(relay[p].rows) : relay[p].rows[i].round \in UpTo(db.lastRoundTime)
    BY <2>1, RoundsAt
  <2>3. relay[p].sent + 1 \in 1 .. Len(relay[p].rows)
    BY <1>1, <2>1, <2>2
  <2> QED BY <2>2, <2>3 DEF UpTo
<1> HIDE DEF h
<1>3. /\ now \in Nat /\ db.lastRoundTime \in Int /\ db.lastRoundTime <= now
      /\ RoundsIn(topic, UpTo(now)) /\ DatabaseInv(db) /\ DatabaseInv(backup)
      /\ ForeignBefore(now)
  BY <1>1 DEF StoresInv, DatabaseInv
<1>4. /\ RoundsIn(topic', UpTo(now)) /\ Len(topic) \in Nat /\ Len(topic') = Len(topic) + 1
      /\ topic'[Len(topic) + 1] = h
      /\ \A i \in 1 .. Len(topic) : topic'[i] = topic[i]
  <2>1. h.round \in UpTo(now)
    BY <1>2, <1>3 DEF UpTo
  <2> QED BY <1>1, <1>3, <2>1, RoundsAppend, RoundsAt
<1>5. DatabaseInv(db)' /\ DatabaseInv(backup)'
  BY <1>1, <1>3, <1>4 DEF DatabaseInv, AccountedBy
<1>6. ASSUME NEW t, ForeignBefore(t) PROVE ForeignBefore(t)'
  BY <1>1, <1>2, <1>3, <1>4, <1>6 DEF ForeignBefore
<1>7. StoresInv'
  BY <1>1, <1>3, <1>4, <1>5, <1>6 DEF StoresInv
<1>8. ASSUME NEW q \in RoundPods PROVE RoundInv(q)'
  <2>1. RoundInv(q) /\ round'[q] = round[q]
    BY <1>1 DEF MeteringInv
  <2>2. round[q].pc # "idle" => ForeignBefore(round[q].time)'
    BY <1>1, <1>6, <2>1 DEF RoundInv
  <2>3. ASSUME round[q].pc = "replay", NEW i \in 1 .. Len(topic'), ID(topic'[i]) \in round[q].known
        PROVE  AccountedBy(db, topic'[i])
    <3>1. CASE i \in 1 .. Len(topic)
      BY <1>4, <2>1, <2>3, <3>1 DEF RoundInv
    <3>2. CASE i = Len(topic) + 1
      BY <1>2, <1>4, <3>2 DEF AccountedBy
    <3> QED BY <1>4, <3>1, <3>2
  <2> QED BY <1>1, <1>4, <2>1, <2>2, <2>3 DEF RoundInv, AccountedBy
<1>9. /\ DOMAIN relay' = RelayPods /\ \A q \in RelayPods \ {p} : relay'[q] = relay[q]
      /\ IsRelay(relay'[p]) /\ relay'[p].pc = relay[p].pc /\ relay'[p].rows = relay[p].rows
      /\ relay'[p].sent = relay[p].sent + 1 /\ relay'[p].offset = relay[p].offset
      /\ relay'[p].first = (IF relay[p].sent = 0 THEN Len(topic) ELSE relay[p].first)
      /\ relay'[p].last = Len(topic) + 1
  BY <1>1 DEF RelaySend, RelayInv, IsRelay
<1>10. ASSUME NEW q \in RelayPods PROVE RelayInv(q)'
  <2>1. RelayInv(q)
    BY DEF MeteringInv
  <2>2. CASE q # p
    <3>1. relay'[q] = relay[q]
      BY <1>9, <2>2
    <3>2. ASSUME relay[q].pc # "idle", relay[q].sent # 0,
                 NEW i \in (relay[q].first + 1) .. Len(topic')
          PROVE  topic'[i].round <= db.lastRoundTime
      <4>1. \/ i = Len(topic) + 1
            \/ /\ i \in (relay[q].first + 1) .. Len(topic) /\ i \in 1 .. Len(topic)
        BY <1>4, <2>1, <3>2 DEF RelayInv
      <4> QED BY <1>2, <1>4, <2>1, <3>2, <4>1 DEF RelayInv
    <3> QED BY <1>1, <1>4, <2>1, <3>1, <3>2 DEF RelayInv
  <2>3. CASE q = p
    <3>1. ASSUME NEW i \in (relay'[p].first + 1) .. Len(topic')
          PROVE  topic'[i].round <= db.lastRoundTime
      <4>1. \/ i = Len(topic) + 1
            \/ /\ relay[p].sent # 0
               /\ i \in (relay[p].first + 1) .. Len(topic) /\ i \in 1 .. Len(topic)
        BY <1>1, <1>4, <1>9, <3>1 DEF RelayInv
      <4> QED BY <1>1, <1>2, <1>4, <4>1 DEF RelayInv
    <3> QED BY <1>1, <1>4, <1>9, <2>3, <3>1 DEF RelayInv
  <2> QED BY <2>2, <2>3
<1>11. OneComparison' /\ DOMAIN round' = RoundPods
  BY <1>1 DEF MeteringInv, OneComparison
<1> QED BY <1>7, <1>8, <1>9, <1>10, <1>11 DEF MeteringInv

(* The offset moves over a batch only when nothing precedes the batch that *)
(* the database has not read.                                              *)
LEMMA RelayCommitKeeps ==
  ASSUME MeteringInv, NEW p \in RelayPods, RelayCommit(p)
  PROVE  MeteringInv'
<1> DEFINE r == relay[p]
<1>1. /\ RelayInv(p) /\ r.pc # "idle" /\ UNCHANGED <<now, topic, backup, round>>
      /\ DatabaseInv(db) /\ DatabaseInv(backup) /\ now \in Nat /\ Len(topic) \in Nat
      /\ DOMAIN relay = RelayPods /\ \A i \in 1 .. Len(topic) : topic[i].round \in UpTo(now)
  BY RoundsAt DEF MeteringInv, StoresInv, RelayCommit
<1>2. /\ db.heartbeatOffset \in Nat /\ db.heartbeatOffset <= Len(topic)
      /\ r.first \in Nat /\ r.last \in Nat /\ r.last <= Len(topic) /\ r.offset <= db.heartbeatOffset
      /\ r.offset \in Nat /\ RoundsIn(r.rows, UpTo(db.lastRoundTime))
      /\ RoundsIn(db.outbox, UpTo(db.lastRoundTime))
      /\ Len(r.rows) \in Nat /\ Len(db.outbox) \in Nat
  BY <1>1, RoundsAt DEF RelayInv, DatabaseInv
<1>3. \E n : /\ db' = [db EXCEPT !.outbox = SubSeq(@, Len(r.rows) + 1, Len(@)),
                                 !.heartbeatOffset = n]
             /\ n = NextHeartbeatOffset(p)
  BY DEF RelayCommit
<1>4. /\ IsDatabase(db') /\ db'.outbox = SubSeq(db.outbox, Len(r.rows) + 1, Len(db.outbox))
      /\ db'.heartbeatOffset = NextHeartbeatOffset(p)
      /\ db'.lastRoundTime = db.lastRoundTime /\ db'.replayed = db.replayed
  BY <1>1, <1>3 DEF DatabaseInv, IsDatabase
<1>5. \/ db'.heartbeatOffset = db.heartbeatOffset
      \/ /\ db'.heartbeatOffset = r.last /\ r.last >= db.heartbeatOffset /\ r.first = r.offset
  <2>1. Max({db.heartbeatOffset, r.last}) \in {db.heartbeatOffset, r.last}
        /\ Max({db.heartbeatOffset, r.last}) >= db.heartbeatOffset
    <3>1. db.heartbeatOffset \in Int /\ r.last \in Int
      BY <1>2
    <3> QED BY <3>1, MaxPair
  <2> QED BY <1>4, <2>1 DEF NextHeartbeatOffset
<1>6. ASSUME NEW i \in 1 .. db'.heartbeatOffset PROVE AccountedBy(db, topic[i])
  <2>1. CASE i <= db.heartbeatOffset
    BY <1>1, <1>2, <2>1 DEF DatabaseInv
  <2>2. CASE i > db.heartbeatOffset
    <3>1. r.sent # 0 /\ i \in (r.first + 1) .. Len(topic)
      BY <1>1, <1>2, <1>5, <2>2 DEF RelayInv
    <3> QED BY <1>1, <3>1 DEF RelayInv, AccountedBy
  <2> QED BY <1>2, <2>1, <2>2
<1>7. RoundsIn(db'.outbox, UpTo(db.lastRoundTime))
  BY <1>2, <1>4, RoundsPart
<1>8. DatabaseInv(db)'
  BY <1>1, <1>2, <1>4, <1>5, <1>6, <1>7 DEF DatabaseInv, AccountedBy
<1>9. DatabaseInv(backup)'
  BY <1>1 DEF DatabaseInv, AccountedBy
<1>10. Forward
  BY <1>1, <1>2, <1>4, <1>5, <1>8, <1>9, SMTT(30) DEF Forward, AccountedBy, DatabaseInv
<1>11. BecomesRelay(p, RelayIdle)
  BY <1>1 DEF RelayCommit, BecomesRelay
<1>12. ASSUME NEW q \in RelayPods PROVE RelayInv(q)'
  <2>1. CASE q = p
    BY <1>11, <2>1 DEF BecomesRelay, RelayInv, RelayIdle, IsRelay
  <2>2. CASE q # p
    BY <1>10, <1>11, <2>2, ForwardKeeps DEF BecomesRelay
  <2> QED BY <2>1, <2>2
<1>13. ASSUME NEW q \in RoundPods PROVE RoundInv(q)'
  <2>1. RoundInv(q) /\ round'[q] = round[q]
    BY <1>1 DEF MeteringInv
  <2> QED BY <1>4, <1>10, <2>1, ForwardKeeps DEF RoundInv
<1> QED BY <1>1, <1>10, <1>11, <1>12, <1>13, ForwardKeeps
        DEF MeteringInv, OneComparison, BecomesRelay

(* After a restore all that the database has not heard of is in the past. *)
LEMMA RestoreKeeps ==
  ASSUME MeteringInv, Restore
  PROVE  MeteringInv'
<1>1. /\ now \in Nat /\ now' = now + 1 /\ topic' = topic /\ db' = backup /\ backup' = backup
      /\ DatabaseInv(backup) /\ RoundsIn(topic, UpTo(now)) /\ Len(topic) \in Nat
      /\ \A i \in 1 .. Len(topic) : topic[i].round \in UpTo(now)
  BY RoundsAt DEF MeteringInv, StoresInv, Restore
<1>2. DatabaseInv(db)' /\ DatabaseInv(backup)'
  BY <1>1 DEF DatabaseInv, AccountedBy
<1>3. RoundsIn(topic', UpTo(now'))
  <2>1. UpTo(now) \subseteq UpTo(now')
    BY <1>1 DEF UpTo
  <2> QED BY <1>1, <2>1, RoundsMore
<1>4. ForeignBefore(now)'
  BY <1>1 DEF ForeignBefore, UpTo
<1>5. StoresInv'
  BY <1>1, <1>2, <1>3, <1>4 DEF StoresInv
<1>6. /\ DOMAIN round' = RoundPods /\ DOMAIN relay' = RelayPods
      /\ \A p \in RoundPods : round'[p] = RoundIdle(NoTarget)
      /\ \A p \in RelayPods : relay'[p] = RelayIdle
  BY DEF Restore
<1>7. \A p \in RoundPods : RoundInv(p)'
  BY <1>6 DEF RoundInv, RoundIdle, IsRound
<1>8. \A p \in RelayPods : RelayInv(p)'
  BY <1>6 DEF RelayInv, RelayIdle, IsRelay
<1>9. OneComparison'
  BY <1>6 DEF OneComparison, RoundIdle
<1> QED BY <1>5, <1>6, <1>7, <1>8, <1>9 DEF MeteringInv

(* Every step keeps the invariant. *)
LEMMA InvStep == MeteringInv /\ [Next]_vars => MeteringInv'
<1> SUFFICES ASSUME MeteringInv, [Next]_vars PROVE MeteringInv'
  OBVIOUS
<1>1. CASE \/ UNCHANGED vars \/ Tick \/ TakeBackup
           \/ \E r, since : Produce(r, since)
           \/ \E p \in FoldPods : FoldStep(p) \/ FoldCrashes(p)
  BY <1>1, WorldAndFold
<1>2. ASSUME NEW p \in RoundPods, RoundStep(p) \/ RoundCrashes(p) PROVE MeteringInv'
  BY <1>2, CatchUpReadKeeps, ApplyGroupKeeps, RoundBeginKeeps, CompareKeeps, RoundCommitKeeps
     DEF RoundStep
<1>3. ASSUME NEW p \in RelayPods,
             RelayStep(p) \/ RelayLosesConnection(p) \/ RelayFails(p)
      PROVE  MeteringInv'
  BY <1>3, RelayBetween, RelaySendKeeps, RelayCommitKeeps DEF RelayStep
<1>4. CASE Restore
  BY <1>4, RestoreKeeps
<1> QED BY <1>1, <1>2, <1>3, <1>4 DEF Next

(* The stored heartbeat offset never passes a heartbeat that the ledger    *)
(* does not account for (relay.drainOnce, catchUp.applyGroup, round.Once), *)
(* for any number of overlapping pods, crashes, lost connections and       *)
(* restores.                                                               *)
THEOREM OffsetSkipsNothing == Spec => []NothingSkipped
<1>1. MeteringInv => NothingSkipped
  BY DEF MeteringInv, StoresInv, DatabaseInv, NothingSkipped, Accounted, AccountedBy
<1> QED BY <1>1, InvStart, InvStep, PTL DEF Spec

-----------------------------------------------------------------------------
(* History. *)

(* Whether the value of event i stands in the first n events of the log. *)
Stands(i, n) ==
  /\ events[i].res \in Resources
  /\ \A j \in (i + 1) .. n :
       events[j].res # events[i].res \/ events[j].since # events[i].since

Holds(history, i) ==
  \E f \in history[events[i].res] : f.since = events[i].since /\ f.on = events[i].on

(* A database, in use or in a backup, holds what the events it folded say. *)
DatabaseFollows(d) ==
  /\ {"history", "eventOffset"} \subseteq DOMAIN d
  /\ d.eventOffset \in Nat /\ d.eventOffset <= Len(events)
  /\ \A i \in 1 .. d.eventOffset : Stands(i, d.eventOffset) => Holds(d.history, i)

(* The only fold there is works at the offset the database holds. *)
FoldInv(p) ==
  /\ {"pc", "from", "to"} \subseteq DOMAIN fold[p]
  /\ fold[p].pc \in {"collect", "apply"}
  /\ fold[p].pc = "collect" => fold[p].to = db.eventOffset
  /\ fold[p].pc = "apply" =>
       /\ fold[p].from = db.eventOffset
       /\ fold[p].to \in Nat /\ fold[p].from < fold[p].to /\ fold[p].to <= Len(events)

HistoryInv ==
  /\ \E X : events \in Seq(X)
  /\ DOMAIN fold = FoldPods
  /\ DatabaseFollows(db) /\ DatabaseFollows(backup)
  /\ \A p \in FoldPods : FoldInv(p)

(* An empty history follows an empty log. *)
LEMMA HistoryStart == Init => HistoryInv
<1> SUFFICES ASSUME Init PROVE HistoryInv
  OBVIOUS
<1>1. events = << >> /\ Len(events) = 0 /\ db = EmptyDatabase /\ backup = EmptyDatabase
      /\ db.eventOffset = 0
  BY DEF Init, EmptyDatabase
<1>2. \E X : events \in Seq(X)
  <2>1. PICK X : X = {}
    OBVIOUS
  <2> QED BY <1>1
<1>3. DatabaseFollows(EmptyDatabase)
  <2>1. /\ {"history", "eventOffset"} \subseteq DOMAIN EmptyDatabase
        /\ EmptyDatabase.eventOffset = 0
    BY DEF EmptyDatabase
  <2> QED BY <1>1, <2>1 DEF DatabaseFollows
<1>4. \A p \in FoldPods : fold[p] = FoldFrom(0)
  BY DEF Init
<1>5. \A p \in FoldPods : FoldInv(p)
  BY <1>1, <1>4 DEF FoldInv, FoldFrom
<1> QED BY <1>1, <1>2, <1>3, <1>5 DEF HistoryInv, Init

(* The log only grows, and what a database says of its part of it stays. *)
LogKeeps ==
  /\ \E X : events' \in Seq(X)
  /\ Len(events') \in Nat /\ Len(events') >= Len(events)
  /\ \A i \in 1 .. Len(events) : events'[i] = events[i]

(* Databases that are not written stay right as the log grows. *)
LEMMA DatabaseStays ==
  ASSUME LogKeeps, Len(events) \in Nat, NEW d, DatabaseFollows(d)
  PROVE  DatabaseFollows(d)'
<1>1. /\ d.eventOffset \in Nat /\ d.eventOffset <= Len(events)
      /\ \A i \in 1 .. d.eventOffset : events'[i] = events[i]
  BY DEF DatabaseFollows, LogKeeps
<1>2. ASSUME NEW i \in 1 .. d.eventOffset, Stands(i, d.eventOffset)'
      PROVE  Holds(d.history, i)'
  <2>1. Stands(i, d.eventOffset)
    BY <1>1, <1>2 DEF Stands
  <2> QED BY <1>1, <2>1 DEF DatabaseFollows, Holds
<1> QED BY <1>1, <1>2 DEF DatabaseFollows, LogKeeps

(* Steps that leave the folded state alone. *)
LEMMA OtherStep ==
  ASSUME HistoryInv, LogKeeps, UNCHANGED fold,
         DatabaseFollows(db'), db'.eventOffset = db.eventOffset, DatabaseFollows(backup')
  PROVE  HistoryInv'
<1>1. Len(events) \in Nat /\ db.eventOffset \in Nat
  BY DEF HistoryInv, DatabaseFollows
<1>2. DatabaseFollows(db)' /\ DatabaseFollows(backup)'
  <2>1. ASSUME NEW d, DatabaseFollows(d) PROVE DatabaseFollows(d)'
    BY <1>1, <2>1, DatabaseStays
  <2> QED BY <2>1
<1>3. ASSUME NEW p \in FoldPods PROVE FoldInv(p)'
  BY <1>1 DEF HistoryInv, FoldInv, LogKeeps
<1> QED BY <1>2, <1>3 DEF HistoryInv, LogKeeps

(* A log that is left alone keeps what it held. *)
LEMMA SameLog ==
  ASSUME HistoryInv, UNCHANGED events
  PROVE  LogKeeps
BY DEF HistoryInv, LogKeeps

(* The steps of the clock, the tenant, the rounds, the relays and backups. *)
LEMMA NotOfTheFold ==
  ASSUME HistoryInv,
         \/ UNCHANGED vars \/ Tick \/ TakeBackup \/ \E r, since : Produce(r, since)
         \/ \E p \in RoundPods : RoundStep(p) \/ RoundCrashes(p)
         \/ \E p \in RelayPods : RelayStep(p) \/ RelayLosesConnection(p) \/ RelayFails(p)
  PROVE  HistoryInv'
<1>2. CASE UNCHANGED <<events, db, fold>> /\ (backup' = backup \/ backup' = db)
  BY <1>2, SameLog, OtherStep DEF HistoryInv
<1>3. CASE \E r, since : Produce(r, since)
  <2>1. PICK e : events' = Append(events, e) /\ UNCHANGED <<db, backup, fold>>
    BY <1>3 DEF Produce
  <2>2. PICK X : events \in Seq(X)
    BY DEF HistoryInv
  <2>3. events \in Seq(X \cup {e}) /\ e \in X \cup {e}
    BY <2>2
  <2>4. events' \in Seq(X \cup {e}) /\ Len(events') = Len(events) + 1
        /\ \A i \in 1 .. Len(events) : events'[i] = events[i]
    BY <2>1, <2>3
  <2>5. LogKeeps
    BY <2>3, <2>4 DEF LogKeeps
  <2> QED BY <2>1, <2>5, OtherStep DEF HistoryInv
<1>4. CASE \/ \E p \in RoundPods : ApplyGroup(p) \/ RoundCommit(p)
           \/ \E p \in RelayPods : RelayCommit(p)
  <2>1. {"history", "eventOffset"} \subseteq DOMAIN db
    BY DEF HistoryInv, DatabaseFollows
  <2>2. /\ UNCHANGED <<events, backup, fold>>
        /\ {"history", "eventOffset"} \subseteq DOMAIN db'
        /\ db'.history = db.history /\ db'.eventOffset = db.eventOffset
    <3>1. CASE \E p \in RoundPods : ApplyGroup(p)
      <4>1. /\ UNCHANGED <<events, backup, fold>>
            /\ \E l, s, h : db' = [db EXCEPT !.ledger = l, !.replayed = s, !.heartbeatOffset = h]
        BY <3>1 DEF ApplyGroup
      <4> QED BY <2>1, <4>1
    <3>2. CASE \E p \in RoundPods : RoundCommit(p)
      <4>1. PICK p \in RoundPods : RoundCommit(p)
        BY <3>2
      <4>2. /\ UNCHANGED <<events, backup, fold>>
            /\ \E l, e : db' = [db EXCEPT !.ledger = l, !.outbox = @ \o round[p].rows,
                                         !.lastRoundTime = round[p].time,
                                         !.lastRoundEventOffset = e, !.replayed = {}]
        BY <4>1 DEF RoundCommit
      <4> QED BY <2>1, <4>2
    <3>3. CASE \E p \in RelayPods : RelayCommit(p)
      <4>1. /\ UNCHANGED <<events, backup, fold>>
            /\ \E o, h : db' = [db EXCEPT !.outbox = o, !.heartbeatOffset = h]
        BY <3>3 DEF RelayCommit
      <4> QED BY <2>1, <4>1
    <3> QED BY <1>4, <3>1, <3>2, <3>3
  <2>3. DatabaseFollows(db')
    BY <2>2 DEF HistoryInv, DatabaseFollows
  <2> QED BY <2>2, <2>3, SameLog, OtherStep DEF HistoryInv
<1> QED BY <1>2, <1>3, <1>4
        DEF vars, Tick, TakeBackup, RoundStep, CatchUpRead, RoundBegin, RoundScan,
            CompareFull, CompareTail, RoundCrashes, RelayStep, RelayRead, RelaySend,
            RelayCommitFails, RelayLosesConnection, RelayFails

(* What a batch makes of the history. *)
LEMMA BatchHolds ==
  ASSUME NEW history, NEW from \in Nat, NEW to \in Nat, from < to,
         \A i \in 1 .. from : Stands(i, from) => Holds(history, i),
         NEW i \in 1 .. to, Stands(i, to)
  PROVE  Holds(InsertFacts(history, from, to), i)
<1> DEFINE r == events[i].res
           new == FactsOf(r, from, to)
<1>1. r \in Resources
  BY DEF Stands
<1>2. InsertFacts(history, from, to)[r] =
        {f \in history[r] : \A g \in new : g.since # f.since} \cup new
  BY <1>1 DEF InsertFacts
<1>3. CASE i <= from
  <2>1. Stands(i, from)
    BY <1>3 DEF Stands
  <2>2. PICK f \in history[r] : f.since = events[i].since /\ f.on = events[i].on
    BY <1>3, <2>1 DEF Holds
  <2>3. ASSUME NEW g \in new PROVE g.since # f.since
    <3>1. PICK j \in (from + 1) .. to : events[j].res = r /\ g.since = events[j].since
      BY <2>3 DEF FactsOf
    <3>2. j \in (i + 1) .. to
      BY <1>3, <3>1
    <3> QED BY <2>2, <3>1, <3>2 DEF Stands
  <2> QED BY <1>2, <2>2, <2>3 DEF Holds
<1>4. CASE i > from
  <2> DEFINE f == [since |-> events[i].since, on |-> events[i].on, offset |-> i]
  <2>1. /\ i \in (from + 1) .. to
        /\ \A j \in (i + 1) .. to : events[j].res = r => events[j].since # events[i].since
    BY <1>4 DEF Stands
  <2>2. f \in new
    BY <2>1 DEF FactsOf
  <2> QED BY <1>2, <2>2 DEF Holds
<1> QED BY <1>3, <1>4

(* The fold's own steps, while no other pod moves the offset. *)
LEMMA OfTheFold ==
  ASSUME HistoryInv, \A p, q \in FoldPods : p = q, NEW p \in FoldPods,
         FoldStep(p) \/ FoldCrashes(p)
  PROVE  HistoryInv'
<1>1. /\ FoldInv(p) /\ DatabaseFollows(db) /\ DatabaseFollows(backup)
      /\ UNCHANGED <<events, backup>> /\ Len(events) \in Nat /\ DOMAIN fold = FoldPods
      /\ db.eventOffset \in Nat
  BY DEF HistoryInv, DatabaseFollows, FoldStep, FoldCollect, FoldApply, FoldCrashes
<1>2. LogKeeps
  BY <1>1, SameLog
<1>3. DatabaseFollows(backup)'
  BY <1>1, <1>2, DatabaseStays
<1>4. ASSUME NEW new, DOMAIN fold' = FoldPods, fold'[p] = new, DatabaseFollows(db)', FoldInv(p)'
      PROVE  HistoryInv'
  BY <1>2, <1>3, <1>4 DEF HistoryInv, LogKeeps
<1>5. ASSUME NEW to \in 1 .. Len(events), FoldCollect(p, to) PROVE HistoryInv'
  <2>1. /\ DOMAIN fold' = FoldPods /\ fold'[p] = [pc |-> "apply", from |-> fold[p].to, to |-> to]
        /\ fold[p].to = db.eventOffset /\ fold[p].to < to /\ db' = db
    BY <1>1, <1>5 DEF FoldCollect, FoldInv
  <2>2. DatabaseFollows(db)'
    BY <1>1, <1>2, <2>1, DatabaseStays
  <2>3. FoldInv(p)'
    BY <1>1, <2>1 DEF FoldInv
  <2> QED BY <1>4, <2>1, <2>2, <2>3
<1>6. CASE FoldApply(p)
  <2>1. /\ fold[p].from = db.eventOffset /\ fold[p].to \in Nat
        /\ db.eventOffset < fold[p].to /\ fold[p].to <= Len(events)
    BY <1>1, <1>6 DEF FoldApply, FoldInv
  <2>2. Max({db.eventOffset, fold[p].to}) = fold[p].to
    BY <1>1, <2>1 DEF Max
  <2>3. /\ {"history", "eventOffset"} \subseteq DOMAIN db' /\ db'.eventOffset = fold[p].to
        /\ db'.history = InsertFacts(db.history, db.eventOffset, fold[p].to)
        /\ DOMAIN fold' = FoldPods /\ fold'[p] = FoldFrom(db'.eventOffset)
    BY <1>1, <1>6, <2>1, <2>2 DEF FoldApply, DatabaseFollows
  <2>4. \A i \in 1 .. fold[p].to : Stands(i, fold[p].to) => Holds(db'.history, i)
    BY <1>1, <2>1, <2>3, BatchHolds DEF DatabaseFollows
  <2>5. DatabaseFollows(db')
    BY <2>1, <2>3, <2>4 DEF DatabaseFollows
  <2>6. DatabaseFollows(db)'
    BY <1>1, <1>2, <2>5, DatabaseStays
  <2>7. FoldInv(p)'
    <3>1. /\ {"pc", "from", "to"} \subseteq DOMAIN fold'[p]
          /\ fold'[p].pc = "collect" /\ fold'[p].to = db'.eventOffset
      BY <2>3 DEF FoldFrom
    <3> QED BY <3>1 DEF FoldInv
  <2> QED BY <1>4, <2>3, <2>6, <2>7
<1>7. CASE FoldCrashes(p)
  <2>1. DOMAIN fold' = FoldPods /\ fold'[p] = FoldFrom(db.eventOffset) /\ db' = db
    BY <1>1, <1>7 DEF FoldCrashes
  <2>2. DatabaseFollows(db)'
    BY <1>1, <1>2, <2>1, DatabaseStays
  <2>3. FoldInv(p)'
    BY <2>1 DEF FoldInv, FoldFrom
  <2> QED BY <1>4, <2>1, <2>2, <2>3
<1> QED BY <1>5, <1>6, <1>7 DEF FoldStep

(* A restore brings back a history that followed the log. *)
LEMMA HistoryRestored ==
  ASSUME HistoryInv, Restore
  PROVE  HistoryInv'
<1>1. /\ DatabaseFollows(backup) /\ UNCHANGED <<events, backup>> /\ db' = backup
      /\ DOMAIN fold' = FoldPods
      /\ \A p \in FoldPods : fold'[p] = FoldFrom(db'.eventOffset)
      /\ Len(events) \in Nat
  BY DEF HistoryInv, Restore
<1>2. LogKeeps
  BY <1>1, SameLog
<1>3. DatabaseFollows(backup)' /\ DatabaseFollows(db)'
  BY <1>1, <1>2, DatabaseStays
<1>4. \A p \in FoldPods : FoldInv(p)'
  BY <1>1 DEF FoldInv, FoldFrom
<1> QED BY <1>1, <1>2, <1>3, <1>4 DEF HistoryInv, LogKeeps

(* History holds, for each field and second, the value the folded part of  *)
(* the log carries last (fold.apply, store.InsertFacts), as long as one    *)
(* pod folds: with crashes of it, and restores that rewind the offset.     *)
THEOREM HistoryFollows ==
  ASSUME \A p, q \in FoldPods : p = q
  PROVE  Spec => []HistoryFollowsLog
<1>1. HistoryInv /\ [Next]_vars => HistoryInv'
  BY NotOfTheFold, OfTheFold, HistoryRestored DEF Next
<1>2. HistoryInv => HistoryFollowsLog
  BY DEF HistoryInv, DatabaseFollows, Stands, Holds, HistoryFollowsLog
<1> QED BY <1>1, <1>2, HistoryStart, PTL DEF Spec
=============================================================================
