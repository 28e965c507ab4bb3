------------------------------- MODULE Metering -------------------------------
(***************************************************************************)
(* One tenant of the metering service.  Three loops share a database: the  *)
(* fold turns the events of the tenant's Kafka topic into dated facts, the *)
(* round compares what those facts bill with a ledger of what was billed   *)
(* and writes the differences ("heartbeats") to an outbox, and the relay   *)
(* sends the outbox to the heartbeat topic.  Pods overlap during a roll-   *)
(* out, crash, and the database may be restored from a backup: the round   *)
(* then catches up from the heartbeat topic before it compares.            *)
(*                                                                         *)
(* Time is a count of units; a resource that is on bills rate 1 in a unit. *)
(***************************************************************************)
EXTENDS Integers, Sequences, FiniteSets, FiniteSetsExt

CONSTANTS
  Resources,        \* the tenant's metered resources
  Skipped,          \* what else sends events: of types that are not tracked, of
                    \* other tenants, undatable ones; they carry no facts
  FoldPods,         \* the pods whose fold loop runs, and so on: more than one
  RoundPods,        \* of each while pods overlap
  RelayPods,
  MaxTime,          \* bound: the last moment of the clock
  MaxEvents,        \* bound: events the tenant produces
  MaxLate,          \* bound: how long before now an event may be dated
  RelayBatch,       \* outbox rows the relay sends in one transaction
  MaxCrashes,       \* bound: crashes of pods and failed sends
  MaxRestores,      \* bound: restores of the database
  BackupsLate       \* whether the backup may be taken after a round

ASSUME MeteringConstants ==
  /\ MaxTime \in Nat /\ MaxEvents \in Nat /\ MaxLate \in Nat
  /\ MaxCrashes \in Nat /\ MaxRestores \in Nat
  /\ RelayBatch \in Nat \ {0}
  /\ BackupsLate \in BOOLEAN
  /\ Resources \cap Skipped = {}

VARIABLES
  now,        \* the clock of the database server
  events,     \* the tenant's event topic: [res, since, on]
  topic,      \* the tenant's heartbeat topic
  db,         \* the tenant's rows in the metering database
  backup,     \* the database as the last backup holds it
  fold,       \* the fold loop of each pod
  round,      \* the round loop of each pod
  relay,      \* the relay loop of each pod
  crashes, restores

vars == <<now, events, topic, db, backup, fold, round, relay, crashes, restores>>

NoRound == -1      \* last_round_time is NULL

EmptyDatabase ==
  [history              |-> [r \in Resources |-> {}],    \* [since, on, offset]
   ledger               |-> [r \in Resources |-> {}],    \* [from, to, rate]
   outbox               |-> << >>,
   eventOffset          |-> 0,
   heartbeatOffset      |-> 0,
   lastRoundTime        |-> NoRound,
   lastRoundEventOffset |-> 0,
   replayed             |-> {}]                           \* replayed_heartbeats

\* A fold that reads on from an offset of the event topic; it opens its consumer
\* at the offset the database holds.
FoldFrom(offset) == [pc |-> "collect", from |-> offset, to |-> offset]
RoundIdle(target) ==
  [pc |-> "idle", time |-> 0, known |-> {}, next |-> 0, upTo |-> 0,
   finished |-> FALSE, target |-> target, eventOffset |-> 0,
   full |-> {}, tail |-> {}, ledger |-> << >>, rows |-> << >>]
NoTarget  == -1
RelayIdle == [pc |-> "idle", rows |-> << >>, sent |-> 0, first |-> 0, last |-> 0, offset |-> 0]

Init ==
  /\ now = 0 /\ events = << >> /\ topic = << >>
  /\ db = EmptyDatabase /\ backup = EmptyDatabase
  /\ fold = [p \in FoldPods |-> FoldFrom(0)]
  /\ round = [p \in RoundPods |-> RoundIdle(NoTarget)]
  /\ relay = [p \in RelayPods |-> RelayIdle]
  /\ crashes = 0 /\ restores = 0

-----------------------------------------------------------------------------
(* Usage: what facts bill, and the arithmetic of intervals. *)

\* The value of the timeline at moment s.
ValueAt(facts, s) ==
  \E f \in facts : /\ f.since <= s /\ f.on
                   /\ \A g \in facts : g.since <= s => g.since <= f.since

\* The maximal stretches of adjacent moments with equal rates.
Stretches(rate) ==
  LET Joined(s, t) == {s, t} \subseteq DOMAIN rate /\ rate[s] = rate[t]
      starts == {s \in DOMAIN rate : ~Joined(s - 1, s)}
      End(s) == Min({t \in DOMAIN rate : t >= s /\ ~Joined(t, t + 1)}) + 1
  IN  {[from |-> s, to |-> End(s), rate |-> rate[s]] : s \in starts}

\* The pieces of usage the facts justify before upTo.
Expected(facts, upTo) ==
  Stretches([s \in {s \in 0..(upTo - 1) : ValueAt(facts, s)} |-> 1])

\* The pieces a tail extension materializes: those that reach past from, and
\* those over a ledger row that bills nothing.
Since(facts, from, upTo, ledger) ==
  {piece \in Expected(facts, upTo) :
     \/ piece.to > from
     \/ \E row \in ledger : /\ row.rate = 0
                            /\ piece.from < row.to /\ piece.to > row.from}

Covers(piece, s) == piece.from <= s /\ s < piece.to

RateAt(pieces, s) ==
  IF \E piece \in pieces : Covers(piece, s)
    THEN (CHOOSE piece \in pieces : Covers(piece, s)).rate
    ELSE 0

(* Mutant: what begins at the clamp is left alone too. *)
DiffAfterClamp(expected, ledger, clamp) ==
  LET Delta(s) == RateAt(expected, s) - RateAt(ledger, s)
  IN  Stretches([s \in {s \in 0..MaxTime : s > clamp /\ Delta(s) # 0} |-> Delta(s)])

\* The differences between the expected pieces and the ledger: what ends at or
\* before clamp is left alone unless an expected piece covers it.
Diff(expected, ledger, clamp) ==
  LET Delta(s) == RateAt(expected, s) - RateAt(ledger, s)
      Compared(s) == s >= clamp \/ \E piece \in expected : Covers(piece, s)
  IN  Stretches([s \in {s \in 0..MaxTime : Compared(s) /\ Delta(s) # 0} |-> Delta(s)])

\* The rows a meter holds after its pieces were written: rows that end at or
\* before tailFrom are not deleted.
SyncLedger(ledger, pieces, tailFrom) ==
  pieces \cup {row \in ledger : /\ row.to <= tailFrom
                                /\ \A piece \in pieces : piece.from # row.from}

\* The ledger rows with one caught heartbeat added.
MergeIntoLedger(ledger, h) ==
  LET starts == {row.from : row \in ledger \cup {h}}
      ends   == {row.to : row \in ledger \cup {h}}
  IN  Stretches([s \in Min(starts)..(Max(ends) - 1) |->
                   RateAt(ledger, s) + (IF Covers(h, s) THEN h.rate ELSE 0)])

\* The identifier of a heartbeat leaves the quantity out.
ID(h) == [res |-> h.res, from |-> h.from, to |-> h.to, round |-> h.round]

-----------------------------------------------------------------------------
(* The world: the clock and the tenant's events. *)

Tick ==
  /\ now < MaxTime
  /\ now' = now + 1
  /\ UNCHANGED <<events, topic, db, backup, fold, round, relay, crashes, restores>>

\* A resource is switched on or off, and the event says since when.
Produce(r, since) ==
  LET own == SelectSeq(events, LAMBDA e : e.res = r)
      on  == IF own = << >> THEN FALSE ELSE own[Len(own)].on
  IN
  /\ Len(events) < MaxEvents
  /\ now < MaxTime
  /\ r \in Skipped => since = now
  /\ events' = Append(events, [res |-> r, since |-> since, on |-> ~on])
  /\ UNCHANGED <<now, topic, db, backup, fold, round, relay, crashes, restores>>

-----------------------------------------------------------------------------
(* The fold. *)

FoldCollect(p, to) ==
  /\ fold[p].pc = "collect"
  /\ fold[p].to < to
  /\ fold' = [fold EXCEPT ![p] = [pc |-> "apply", from |-> @.to, to |-> to]]
  /\ UNCHANGED <<now, events, topic, db, backup, round, relay, crashes, restores>>

\* The facts of r that the events after offset from up to offset to carry: of
\* two for the same second the later one in the log.
FactsOf(r, from, to) ==
  {[since |-> events[i].since, on |-> events[i].on, offset |-> i] :
     i \in {i \in (from + 1)..to :
              /\ events[i].res = r
              /\ \A j \in (i + 1)..to : events[j].res = r => events[j].since # events[i].since}}

(* Mutant: ON CONFLICT DO NOTHING. *)
InsertFactsKept(history, from, to) ==
  [r \in Resources |->
     history[r] \cup {g \in FactsOf(r, from, to) : \A f \in history[r] : g.since # f.since}]

\* A fact that exists already is updated to the arriving value and offset.
InsertFacts(history, from, to) ==
  [r \in Resources |->
     LET new == FactsOf(r, from, to)
     IN  {f \in history[r] : \A g \in new : g.since # f.since} \cup new]

\* One transaction per batch.  Then the stored offset is read again: where
\* another pod folded ahead, the fold reopens its consumer there.
FoldApply(p) ==
  /\ fold[p].pc = "apply"
  /\ db' = [db EXCEPT !.history = InsertFacts(@, fold[p].from, fold[p].to),
                      !.eventOffset = Max({@, fold[p].to})]
  /\ fold' = [fold EXCEPT ![p] = FoldFrom(db'.eventOffset)]
  /\ UNCHANGED <<now, events, topic, backup, round, relay, crashes, restores>>

-----------------------------------------------------------------------------
(* The round: catch-up from the heartbeat topic, then the comparison. *)

\* The round lock is held by the transaction of a comparison; the other
\* transactions that take it are single steps.
RoundLockFree == \A p \in RoundPods : round[p].pc \notin {"scan", "compare"}

RoundEnds(p) == round' = [round EXCEPT ![p] = RoundIdle(@.target)]

RoundReady(loop, time) == [RoundIdle(loop.target) EXCEPT !.pc = "begin", !.time = time]

\* The end of a round group of the heartbeat topic after offset from.
GroupEnd(from, upTo) ==
  Min({i \in (from + 1)..upTo : i = upTo \/ topic[i + 1].round # topic[from + 1].round})

\* A tick reads the clock, the stored offset and the replayed ids, and then the
\* topic, whole groups of it: up to the end it had, or, at the batch bound or
\* when the read idles, up to the end of an earlier group.
CatchUpRead(p, upTo) ==
  /\ round[p].pc = "idle"
  /\ upTo > db.heartbeatOffset \/ now > db.lastRoundTime   \* else the tick does nothing
  /\ \/ upTo = Len(topic)
     \/ /\ upTo \in (db.heartbeatOffset + 1)..(Len(topic) - 1)
        /\ topic[upTo].round # topic[upTo + 1].round
  /\ round' = [round EXCEPT ![p] =
       IF upTo = db.heartbeatOffset
         THEN RoundReady(@, now)
         ELSE [@ EXCEPT !.pc = "replay", !.time = now, !.known = db.replayed,
                        !.next = db.heartbeatOffset, !.upTo = upTo,
                        !.finished = (upTo = Len(topic))]]
  /\ UNCHANGED <<now, events, topic, db, backup, fold, relay, crashes, restores>>

(* Mutant: the ids of heartbeats that were replayed are not looked at. *)
FreshCopies(from, to, known) ==
  {i \in (from + 1)..to : i > db.heartbeatOffset /\ topic[i].round > db.lastRoundTime}

\* The heartbeats of a group that count: not yet read, from a round this
\* database does not know, not known, and not a copy of one before it.
Fresh(from, to, known) ==
  LET unread == {i \in (from + 1)..to : i > db.heartbeatOffset}
  IN  {i \in unread : /\ topic[i].round > db.lastRoundTime
                      /\ ID(topic[i]) \notin known
                      /\ \A j \in unread : j < i => ID(topic[j]) # ID(topic[i])}

ApplyHeartbeats(ledger, fresh) ==
  FoldSet(LAMBDA i, l : [l EXCEPT ![topic[i].res] = MergeIntoLedger(@, topic[i])],
          ledger, fresh)

(* Mutant: a group with nothing to apply leaves the offset alone. *)
ApplyGroupUnmoved(p) ==
  LET last  == GroupEnd(round[p].next, round[p].upTo)
      fresh == Fresh(round[p].next, last, round[p].known)
      ids   == {ID(topic[i]) : i \in fresh}
  IN  /\ round[p].pc = "replay"
      /\ RoundLockFree
      /\ db' = [db EXCEPT !.ledger = ApplyHeartbeats(@, fresh),
                          !.replayed = @ \cup ids,
                          !.heartbeatOffset = IF fresh = {} THEN @ ELSE Max({@, last})]
      /\ IF last < round[p].upTo
           THEN round' = [round EXCEPT ![p].next = last, ![p].known = @ \cup ids]
           ELSE IF round[p].finished
             THEN round' = [round EXCEPT ![p] = RoundReady(@, @.time)]
             ELSE RoundEnds(p)
      /\ UNCHANGED <<now, events, topic, backup, fold, relay, crashes, restores>>

\* One transaction per group: the ledger, the ids and the offset move together.
ApplyGroup(p) ==
  LET last  == GroupEnd(round[p].next, round[p].upTo)
      fresh == Fresh(round[p].next, last, round[p].known)
      ids   == {ID(topic[i]) : i \in fresh}
  IN  /\ round[p].pc = "replay"
      /\ RoundLockFree
      /\ db' = [db EXCEPT !.ledger = ApplyHeartbeats(@, fresh),
                          !.replayed = @ \cup ids,
                          !.heartbeatOffset = Max({@, last})]
      /\ IF last < round[p].upTo
           THEN round' = [round EXCEPT ![p].next = last, ![p].known = @ \cup ids]
           ELSE IF round[p].finished
             THEN round' = [round EXCEPT ![p] = RoundReady(@, @.time)]
             ELSE RoundEnds(p)
      /\ UNCHANGED <<now, events, topic, backup, fold, relay, crashes, restores>>

\* Whether the fold reached the end the event topic had when the round began to
\* wait for it, and the end the next round waits for.
EventsFolded(p) ==
  LET target == IF round[p].target = NoTarget THEN Len(events) ELSE round[p].target
  IN  [folded |-> db.eventOffset >= target,
       target |-> IF db.eventOffset >= target THEN NoTarget ELSE target]

\* The comparison's transaction takes the round lock and reads the progress.
RoundBegin(p) ==
  /\ round[p].pc = "begin"
  /\ RoundLockFree
  /\ IF round[p].time <= db.lastRoundTime
       THEN RoundEnds(p)
       ELSE IF EventsFolded(p).folded
         THEN round' = [round EXCEPT ![p] =
                [@ EXCEPT !.pc = "scan", !.target = NoTarget,
                          !.eventOffset = db.eventOffset]]
         ELSE round' = [round EXCEPT ![p] = RoundIdle(EventsFolded(p).target)]
  /\ UNCHANGED <<now, events, topic, db, backup, fold, relay, crashes, restores>>

(* Mutant: the bound on the date is exclusive. *)
WithNewFactsExclusive ==
  {r \in Resources : \E f \in db.history[r] : \/ f.offset >= db.lastRoundEventOffset
                                              \/ f.since > db.lastRoundTime}

(* Mutant: facts are looked for by their date only. *)
WithNewFactsDated ==
  {r \in Resources : \E f \in db.history[r] : f.since >= db.lastRoundTime}

\* The resources to recompute from history and those whose tail is extended.
WithNewFacts ==
  {r \in Resources : \E f \in db.history[r] : \/ f.offset >= db.lastRoundEventOffset
                                              \/ f.since >= db.lastRoundTime}

ScanResources ==
  IF db.lastRoundTime = NoRound
    THEN [full |-> {r \in Resources : db.history[r] # {} \/ db.ledger[r] # {}},
          tail |-> {}]
    ELSE [full |-> WithNewFacts,
          tail |-> {r \in Resources \ WithNewFacts :
                      \E row \in db.ledger[r] : row.to = db.lastRoundTime}]

RoundScan(p) ==
  /\ round[p].pc = "scan"
  /\ round' = [round EXCEPT ![p] =
       [@ EXCEPT !.pc = "compare", !.full = ScanResources.full, !.tail = ScanResources.tail,
                 !.ledger = db.ledger]]
  /\ UNCHANGED <<now, events, topic, db, backup, fold, relay, crashes, restores>>

\* The heartbeats of one resource's differences, ordered by time.
InTimeOrder(heartbeats) ==
  LET sizes == {n \in 0..MaxTime : n = Cardinality(heartbeats)}
  IN  {q \in UNION {[1..n -> heartbeats] : n \in sizes} :
         \A i, j \in DOMAIN q : i < j => q[i].from < q[j].from}

\* The differences of one resource join the transaction's outbox rows, and its
\* ledger becomes the expected pieces.
DiffAndCommit(p, r, pieces, tailFrom) ==
  LET Heartbeat(d) == [res |-> r, from |-> d.from, to |-> d.to, rate |-> d.rate,
                       round |-> round[p].time]
      differences == Diff(pieces, round[p].ledger[r], tailFrom)
  IN  \E rows \in InTimeOrder({Heartbeat(d) : d \in differences}) :
        round' = [round EXCEPT ![p].full = @ \ {r}, ![p].tail = @ \ {r},
                               ![p].rows = @ \o rows,
                               ![p].ledger[r] = SyncLedger(@, pieces, tailFrom)]

RecomputeWhole(p, r) ==
  DiffAndCommit(p, r, Expected(db.history[r], round[p].time), 0)

OpenKeysJustified(pieces) == pieces # {}

\* The facts are read now: the fold may have added some since the scan.
CompareFull(p, r) ==
  /\ round[p].pc = "compare"
  /\ r \in round[p].full
  /\ RecomputeWhole(p, r)
  /\ UNCHANGED <<now, events, topic, db, backup, fold, relay, crashes, restores>>

CompareTail(p, r) ==
  LET pieces == Since(db.history[r], db.lastRoundTime, round[p].time, round[p].ledger[r])
  IN  /\ round[p].pc = "compare"
      /\ round[p].full = {} /\ r \in round[p].tail
      /\ IF OpenKeysJustified(pieces)
           THEN DiffAndCommit(p, r, pieces, db.lastRoundTime)
           ELSE RecomputeWhole(p, r)
      /\ UNCHANGED <<now, events, topic, db, backup, fold, relay, crashes, restores>>

\* The ledger, the outbox rows and the position of the round commit together.
RoundCommit(p) ==
  /\ round[p].pc = "compare"
  /\ round[p].full = {} /\ round[p].tail = {}
  /\ db' = [db EXCEPT !.ledger = round[p].ledger,
                      !.outbox = @ \o round[p].rows,
                      !.lastRoundTime = round[p].time,
                      !.lastRoundEventOffset = Max({@, round[p].eventOffset}),
                      !.replayed = {}]
  /\ RoundEnds(p)
  /\ UNCHANGED <<now, events, topic, backup, fold, relay, crashes, restores>>

-----------------------------------------------------------------------------
(* The relay. *)

RelayRead(p) ==
  /\ relay[p].pc = "idle"
  /\ \A q \in RelayPods : relay[q].pc # "send"        \* the relay lock
  /\ db.outbox # << >>
  /\ relay' = [relay EXCEPT ![p] =
       [pc |-> "send", rows |-> SubSeq(db.outbox, 1, Min({RelayBatch, Len(db.outbox)})),
        sent |-> 0, first |-> 0, last |-> 0, offset |-> db.heartbeatOffset]]
  /\ UNCHANGED <<now, events, topic, db, backup, fold, round, crashes, restores>>

RelaySend(p) ==
  /\ relay[p].pc \in {"send", "lost"}
  /\ relay[p].sent < Len(relay[p].rows)
  /\ topic' = Append(topic, relay[p].rows[relay[p].sent + 1])
  /\ relay' = [relay EXCEPT ![p].sent = @ + 1,
                            ![p].first = IF relay[p].sent = 0 THEN Len(topic) ELSE @,
                            ![p].last = Len(topic) + 1]
  /\ UNCHANGED <<now, events, db, backup, fold, round, crashes, restores>>

(* Mutant: the offset always moves to the end of the batch. *)
NextHeartbeatOffsetAlways(p) == Max({db.heartbeatOffset, relay[p].last})

(* Mutant: one past the offset after the batch. *)
NextHeartbeatOffsetPast(p) ==
  IF relay[p].first = relay[p].offset THEN relay[p].last + 1 ELSE db.heartbeatOffset

\* The offset moves only when the batch continues the stored one.
NextHeartbeatOffset(p) ==
  IF relay[p].first = relay[p].offset
    THEN Max({db.heartbeatOffset, relay[p].last})
    ELSE db.heartbeatOffset

RelayCommit(p) ==
  /\ relay[p].pc = "send"
  /\ relay[p].sent = Len(relay[p].rows)
  /\ db' = [db EXCEPT !.outbox = SubSeq(@, Len(relay[p].rows) + 1, Len(@)),
                      !.heartbeatOffset = NextHeartbeatOffset(p)]
  /\ relay' = [relay EXCEPT ![p] = RelayIdle]
  /\ UNCHANGED <<now, events, topic, backup, fold, round, crashes, restores>>

-----------------------------------------------------------------------------
(* Faults. *)

\* The database connection breaks, and with it the transaction and its lock; the
\* pod does not notice before it commits, and goes on sending.
RelayLosesConnection(p) ==
  /\ crashes < MaxCrashes
  /\ relay[p].pc = "send"
  /\ relay' = [relay EXCEPT ![p].pc = "lost"]
  /\ crashes' = crashes + 1
  /\ UNCHANGED <<now, events, topic, db, backup, fold, round, restores>>

RelayCommitFails(p) ==
  /\ relay[p].pc = "lost"
  /\ relay[p].sent = Len(relay[p].rows)
  /\ relay' = [relay EXCEPT ![p] = RelayIdle]
  /\ UNCHANGED <<now, events, topic, db, backup, fold, round, crashes, restores>>

\* A send or the commit fails and the transaction rolls back: the rows stay in
\* the outbox, whatever Kafka holds of them.
RelayFails(p) ==
  /\ crashes < MaxCrashes
  /\ relay[p].pc = "send"
  /\ relay' = [relay EXCEPT ![p] = RelayIdle]
  /\ crashes' = crashes + 1
  /\ UNCHANGED <<now, events, topic, db, backup, fold, round, restores>>

\* The round's loop starts anew in a new pod: its transaction rolls back and
\* what it held in memory is gone.
RoundCrashes(p) ==
  /\ crashes < MaxCrashes
  /\ round[p].pc \in {"replay", "compare"}
  /\ round' = [round EXCEPT ![p] = RoundIdle(NoTarget)]
  /\ crashes' = crashes + 1
  /\ UNCHANGED <<now, events, topic, db, backup, fold, relay, restores>>

FoldCrashes(p) ==
  /\ crashes < MaxCrashes
  /\ fold[p].pc = "apply"
  /\ fold' = [fold EXCEPT ![p] = FoldFrom(db.eventOffset)]
  /\ crashes' = crashes + 1
  /\ UNCHANGED <<now, events, topic, db, backup, round, relay, restores>>

TakeBackup ==
  /\ restores < MaxRestores
  /\ db.lastRoundTime = NoRound \/ BackupsLate
  /\ backup = EmptyDatabase /\ db # EmptyDatabase
  /\ \A p \in RoundPods : round[p].pc = "idle"
  /\ \A p \in RelayPods : relay[p].pc = "idle"
  /\ backup' = db
  /\ UNCHANGED <<now, events, topic, db, fold, round, relay, crashes, restores>>

\* The pods are down while the database is restored, which takes some time.
Restore ==
  /\ restores < MaxRestores
  /\ now < MaxTime
  /\ now' = now + 1
  /\ db' = backup
  /\ fold' = [p \in FoldPods |-> FoldFrom(backup.eventOffset)]
  /\ round' = [p \in RoundPods |-> RoundIdle(NoTarget)]
  /\ relay' = [p \in RelayPods |-> RelayIdle]
  /\ restores' = restores + 1
  /\ UNCHANGED <<events, topic, backup, crashes>>

-----------------------------------------------------------------------------
FoldStep(p) ==
  (\E to \in 1..Len(events) : FoldCollect(p, to)) \/ FoldApply(p)

RoundStep(p) ==
  \/ \E upTo \in 0..Len(topic) : CatchUpRead(p, upTo)
  \/ ApplyGroup(p) \/ RoundBegin(p) \/ RoundScan(p)
  \/ \E r \in Resources : CompareFull(p, r) \/ CompareTail(p, r)
  \/ RoundCommit(p)

RelayStep(p) == RelayRead(p) \/ RelaySend(p) \/ RelayCommit(p) \/ RelayCommitFails(p)

Next ==
  \/ Tick
  \/ \E r \in Resources \cup Skipped, since \in Max({0, now - MaxLate})..now : Produce(r, since)
  \/ \E p \in FoldPods : FoldStep(p) \/ FoldCrashes(p)
  \/ \E p \in RoundPods : RoundStep(p) \/ RoundCrashes(p)
  \/ \E p \in RelayPods : RelayStep(p) \/ RelayLosesConnection(p) \/ RelayFails(p)
  \/ TakeBackup \/ Restore

Spec == Init /\ [][Next]_vars

Fairness ==
  /\ WF_vars(Tick)
  /\ \A p \in FoldPods : WF_vars(FoldStep(p))
  /\ \A p \in RoundPods : WF_vars(RoundStep(p))
  /\ \A p \in RelayPods : WF_vars(RelayStep(p))

FairSpec == Spec /\ Fairness

-----------------------------------------------------------------------------
(* Properties. *)

Rows == [from : 0..MaxTime, to : 0..MaxTime, rate : Int]
Heartbeats == [res : Resources, from : 0..MaxTime, to : 0..MaxTime, rate : Int,
               round : 0..MaxTime]

DatabaseOK(d) ==
  /\ \A r \in Resources :
       /\ d.history[r] \subseteq [since : 0..MaxTime, on : BOOLEAN, offset : 1..MaxEvents]
       /\ d.ledger[r] \subseteq Rows
  /\ d.outbox \in Seq(Heartbeats)
  /\ d.eventOffset \in 0..Len(events)
  /\ d.heartbeatOffset \in 0..Len(topic)
  /\ d.lastRoundTime \in {NoRound} \cup 0..now
  /\ d.lastRoundEventOffset \in 0..d.eventOffset

\* The tenant's rows, its topics and the loops have their types, and no stored
\* offset is past the end of its topic: catch-up refuses to run on such a one.
MeteringTypeOK ==
  /\ now \in 0..MaxTime
  /\ events \in Seq([res : Resources \cup Skipped, since : 0..MaxTime, on : BOOLEAN])
  /\ topic \in Seq(Heartbeats)
  /\ DatabaseOK(db) /\ DatabaseOK(backup)
  /\ \A p \in FoldPods : fold[p].pc \in {"collect", "apply"}
  /\ \A p \in RoundPods : round[p].pc \in {"idle", "replay", "begin", "scan", "compare"}
  /\ \A p \in RelayPods : relay[p].pc \in {"idle", "send", "lost"}

\* What the provider bills a resource for moment s once it has got all of a
\* sequence of heartbeats: it drops the copies of an ID it has seen.
Billed(sent, r, s) ==
  LET counted == {i \in DOMAIN sent : /\ sent[i].res = r /\ Covers(sent[i], s)
                                      /\ \A j \in 1..(i - 1) : ID(sent[j]) # ID(sent[i])}
  IN  MapThenSumSet(LAMBDA i : sent[i].rate, counted)

\* The heartbeats the ledger accounts for: those of this database's own rounds
\* and those catch-up replayed.
Accounted(h) == h.round <= db.lastRoundTime \/ ID(h) \in db.replayed

\* The ledger holds exactly what the provider was sent, or will be when the
\* outbox is drained: nothing is billed twice and nothing the ledger holds goes
\* unsent, whatever relays resend and from whichever point a database was
\* restored (round.Once, catchup.applyGroup and relay.drainOnce together).
LedgerIsWhatWasSent ==
  \A r \in Resources, s \in 0..(MaxTime - 1) :
    RateAt(db.ledger[r], s) = Billed(SelectSeq(topic \o db.outbox, Accounted), r, s)

\* The stored heartbeat offset never passes a heartbeat that the ledger does not
\* account for: such a one would never be replayed (relay.drainOnce's guard).
NothingSkipped ==
  \A i \in 1..db.heartbeatOffset : Accounted(topic[i])

\* A round leaves the ledger at what the facts justify: for a resource all of
\* whose facts were folded before the last round began, the ledger up to that
\* round is what history bills (scanResources, compare), though the fold commits
\* facts between the statements of the round's transaction.
CompleteRound ==
  db.replayed = {} => \A r \in Resources :
    (\A f \in db.history[r] : f.offset <= db.lastRoundEventOffset) =>
      \A s \in 0..(db.lastRoundTime - 1) :
        RateAt(db.ledger[r], s) = IF ValueAt(db.history[r], s) THEN 1 ELSE 0

\* Unless the database was restored to a moment after a round
\* (see RecoveryBillsTheGap).
RoundsAreComplete ==
  (restores = 0 \/ backup.lastRoundTime = NoRound) => CompleteRound

\* The first comparison after a recovery recomputes the gap that replay left, as
\* the comment on catchUp says: what history bills up to the last round is
\* billed, from whichever backup the database was restored.
RecoveryBillsTheGap ==
  db.replayed = {} => \A r \in Resources :
    (\A f \in db.history[r] : f.offset <= db.lastRoundEventOffset) =>
      \A s \in 0..(db.lastRoundTime - 1) :
        ValueAt(db.history[r], s) => RateAt(db.ledger[r], s) > 0

\* History holds what the folded part of the log says: for each field and second
\* the value the log carries last (store.InsertFacts).
HistoryFollowsLog ==
  \A i \in {i \in 1..db.eventOffset : events[i].res \in Resources} :
    (\A j \in (i + 1)..db.eventOffset :
        events[j].res # events[i].res \/ events[j].since # events[i].since) =>
      \E f \in db.history[events[i].res] : f.since = events[i].since /\ f.on = events[i].on

\* Billing never stops: in the end the last moment was billed, everything was
\* sent, and the stored offset is the end of the topic, so that no resend or
\* restore leaves the loops waiting for each other.
BillingGoesOn ==
  <>[](db.lastRoundTime = MaxTime /\ db.outbox = << >> /\ db.heartbeatOffset = Len(topic))

=============================================================================
