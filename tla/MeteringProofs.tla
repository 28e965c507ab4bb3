---------------------------- MODULE MeteringProofs ----------------------------
(***************************************************************************)
(* Proofs about Metering, for any number of resources, pods, rounds,       *)
(* crashes and restores.                                                   *)
(***************************************************************************)
EXTENDS Metering, WellFoundedInduction, TLAPS

(* A nonempty set of naturals has a least element, which Min returns. *)
LEMMA LeastNatural ==
  ASSUME NEW S, S \subseteq Nat, S # {}
  PROVE  Min(S) \in S /\ \A y \in S : Min(S) <= y
<1> DEFINE R == {ss \in Nat \X Nat : ss[1] < ss[2]}
<1>1. IsWellFoundedOn(R, Nat)
  BY NatLessThanWellFounded, Zenon DEF OpToRel
<1>2. PICK x \in S : \A y \in S : ~(<<y, x>> \in R)
  BY <1>1, WFMin
<1>3. ASSUME NEW y \in S PROVE x <= y
  <2>1. x \in Nat /\ y \in Nat
    OBVIOUS
  <2>2. y < x => <<y, x>> \in R
    BY <2>1
  <2> QED BY <1>2, <2>1, <2>2
<1> QED BY <1>3 DEF Min

(* The maximum of two numbers. *)
LEMMA MaxPair ==
  ASSUME NEW a \in Int, NEW b \in Int
  PROVE  Max({a, b}) \in {a, b} /\ Max({a, b}) >= a /\ Max({a, b}) >= b
<1>1. \E x \in {a, b} : \A y \in {a, b} : x >= y
  <2>1. a >= b \/ b >= a
    OBVIOUS
  <2> QED BY <2>1
<1> QED BY <1>1 DEF Max

-----------------------------------------------------------------------------
(* Sequences of heartbeats of which only the rounds matter. *)

UpTo(n) == {t \in Int : t <= n}

RoundsIn(q, T) == \E X : q \in Seq(X) /\ \A x \in X : x.round \in T

(* What RoundsIn says of one heartbeat. *)
LEMMA RoundsAt ==
  ASSUME NEW q, NEW T, RoundsIn(q, T)
  PROVE  Len(q) \in Nat /\ \A i \in 1 .. Len(q) : q[i].round \in T
BY DEF RoundsIn

(* No heartbeat, no round. *)
LEMMA RoundsEmpty == ASSUME NEW T PROVE RoundsIn(<< >>, T)
<1>1. PICK X : X = {}
  OBVIOUS
<1>2. << >> \in Seq(X) /\ \A x \in X : x.round \in T
  BY <1>1
<1> QED BY <1>2 DEF RoundsIn

(* A larger set of rounds. *)
LEMMA RoundsMore ==
  ASSUME NEW q, NEW T, NEW U, RoundsIn(q, T), T \subseteq U
  PROVE  RoundsIn(q, U)
<1>1. PICK X : q \in Seq(X) /\ \A x \in X : x.round \in T
  BY DEF RoundsIn
<1>2. q \in Seq(X) /\ \A x \in X : x.round \in U
  BY <1>1
<1> QED BY <1>2 DEF RoundsIn

(* Two sequences of heartbeats, one after the other. *)
LEMMA RoundsConcat ==
  ASSUME NEW q, NEW r, NEW T, RoundsIn(q, T), RoundsIn(r, T)
  PROVE  RoundsIn(q \o r, T)
<1>1. PICK X : q \in Seq(X) /\ \A x \in X : x.round \in T
  BY DEF RoundsIn
<1>2. PICK Y : r \in Seq(Y) /\ \A y \in Y : y.round \in T
  BY DEF RoundsIn
<1>3. q \in Seq(X \cup Y) /\ r \in Seq(X \cup Y)
  BY <1>1, <1>2
<1>4. q \o r \in Seq(X \cup Y) /\ \A z \in X \cup Y : z.round \in T
  BY <1>1, <1>2, <1>3
<1> QED BY <1>4 DEF RoundsIn

(* One more heartbeat. *)
LEMMA RoundsAppend ==
  ASSUME NEW q, NEW h, NEW T, RoundsIn(q, T), h.round \in T
  PROVE  /\ RoundsIn(Append(q, h), T)
         /\ Len(Append(q, h)) = Len(q) + 1 /\ Append(q, h)[Len(q) + 1] = h
         /\ \A i \in 1 .. Len(q) : Append(q, h)[i] = q[i]
<1>1. PICK X : q \in Seq(X) /\ \A x \in X : x.round \in T
  BY DEF RoundsIn
<1>2. q \in Seq(X \cup {h}) /\ \A x \in X \cup {h} : x.round \in T
  BY <1>1
<1>3. Append(q, h) \in Seq(X \cup {h})
  BY <1>2
<1>4. RoundsIn(Append(q, h), T)
  BY <1>2, <1>3 DEF RoundsIn
<1> QED BY <1>2, <1>4

(* A part of a sequence of heartbeats. *)
LEMMA RoundsPart ==
  ASSUME NEW q, NEW T, RoundsIn(q, T), NEW m \in Nat \ {0}, NEW n \in Nat, n <= Len(q)
  PROVE  RoundsIn(SubSeq(q, m, n), T)
<1>1. PICK X : q \in Seq(X) /\ \A x \in X : x.round \in T
  BY DEF RoundsIn
<1>2. SubSeq(q, m, n) \in Seq(X)
  BY <1>1
<1> QED BY <1>1, <1>2 DEF RoundsIn

-----------------------------------------------------------------------------
(* The invariant behind NothingSkipped. *)

(* The fields the argument is about. *)
IsDatabase(d) == {"outbox", "heartbeatOffset", "lastRoundTime", "replayed"} \subseteq DOMAIN d
IsRound(r) == {"pc", "time", "known", "next", "upTo", "rows"} \subseteq DOMAIN r
IsRelay(r) == {"pc", "rows", "sent", "first", "last", "offset"} \subseteq DOMAIN r

AccountedBy(d, h) == h.round <= d.lastRoundTime \/ ID(h) \in d.replayed

(* A database, in use or in a backup: its outbox is of its own rounds, and *)
(* it accounts for all that its heartbeat offset covers.                   *)
DatabaseInv(d) ==
  /\ IsDatabase(d)
  /\ d.heartbeatOffset \in Nat /\ d.heartbeatOffset <= Len(topic)
  /\ d.lastRoundTime \in Int /\ d.lastRoundTime <= now
  /\ RoundsIn(d.outbox, UpTo(d.lastRoundTime))
  /\ \A i \in 1 .. d.heartbeatOffset : AccountedBy(d, topic[i])

(* What the database does not know of is from rounds before t: they ran    *)
(* before the database was restored.                                       *)
ForeignBefore(t) ==
  \A i \in 1 .. Len(topic) : topic[i].round > db.lastRoundTime => topic[i].round < t

RoundInv(p) ==
  LET r == round[p]
  IN  /\ IsRound(r)
      /\ r.pc # "idle" => r.time \in Int /\ r.time <= now /\ ForeignBefore(r.time)
      /\ r.pc = "replay" =>
           /\ r.next \in Nat /\ r.upTo \in Nat
           /\ r.next < r.upTo /\ r.upTo <= Len(topic) /\ r.next <= db.heartbeatOffset
           /\ \A i \in 1 .. Len(topic) : ID(topic[i]) \in r.known => AccountedBy(db, topic[i])
      /\ r.pc \in {"begin", "scan", "compare"} => RoundsIn(r.rows, UpTo(r.time))
      /\ r.pc \in {"scan", "compare"} => db.lastRoundTime < r.time

(* A relay sends rows of this database's rounds, and so does every other   *)
(* one since this one began.                                               *)
RelayInv(p) ==
  LET r == relay[p]
  IN  /\ IsRelay(r)
      /\ r.pc # "idle" =>
           /\ RoundsIn(r.rows, UpTo(db.lastRoundTime))
           /\ r.sent \in Nat /\ r.first \in Nat /\ r.last \in Nat
           /\ r.offset \in Nat /\ r.offset <= db.heartbeatOffset /\ r.last <= Len(topic)
           /\ r.sent = 0 => r.last = 0
           /\ r.sent # 0 => \A i \in (r.first + 1) .. Len(topic) :
                              topic[i].round <= db.lastRoundTime

OneComparison ==
  \A p, q \in RoundPods :
    round[p].pc \in {"scan", "compare"} /\ round[q].pc \in {"scan", "compare"} => p = q

StoresInv ==
  /\ now \in Nat
  /\ RoundsIn(topic, UpTo(now))
  /\ DatabaseInv(db) /\ DatabaseInv(backup)
  /\ ForeignBefore(now)

MeteringInv ==
  /\ StoresInv
  /\ DOMAIN round = RoundPods /\ DOMAIN relay = RelayPods
  /\ \A p \in RoundPods : RoundInv(p)
  /\ \A p \in RelayPods : RelayInv(p)
  /\ OneComparison

(* A round that is over. *)
LEMMA IdleRound ==
  ASSUME NEW target
  PROVE  IsRound(RoundIdle(target)) /\ RoundIdle(target).pc = "idle"
BY DEF IsRound, RoundIdle

(* The invariant holds of the empty stores. *)
LEMMA InvStart == Init => MeteringInv
<1> SUFFICES ASSUME Init PROVE MeteringInv
  OBVIOUS
<1>1. now = 0 /\ topic = << >> /\ Len(topic) = 0
  BY DEF Init
<1>2. RoundsIn(topic, UpTo(now))
  BY <1>1, RoundsEmpty
<1>3. DatabaseInv(EmptyDatabase)
  <2>1. RoundsIn(EmptyDatabase.outbox, UpTo(NoRound))
    BY RoundsEmpty DEF EmptyDatabase
  <2>2. IsDatabase(EmptyDatabase)
    BY DEF EmptyDatabase, IsDatabase
  <2> QED BY <1>1, <2>1, <2>2 DEF DatabaseInv, EmptyDatabase, NoRound
<1>4. ForeignBefore(now)
  BY <1>1 DEF ForeignBefore
<1>5. StoresInv
  BY <1>1, <1>2, <1>3, <1>4 DEF Init, StoresInv
<1>6. /\ DOMAIN round = RoundPods /\ DOMAIN relay = RelayPods
      /\ OneComparison
      /\ \A p \in RoundPods : round[p] = RoundIdle(NoTarget)
      /\ \A p \in RelayPods : relay[p] = RelayIdle
  BY IdleRound DEF Init, OneComparison
<1>7. \A p \in RoundPods : RoundInv(p)
  BY <1>6, IdleRound DEF RoundInv
<1>8. \A p \in RelayPods : RelayInv(p)
  BY <1>6 DEF RelayInv, RelayIdle, IsRelay
<1> QED BY <1>5, <1>6, <1>7, <1>8 DEF MeteringInv

(* A step that leaves the heartbeat topic alone and only moves the         *)
(* database forward keeps what is said of it, and of the loops it does not *)
(* touch.                                                                  *)
Forward ==
  /\ now' \in Nat /\ now' >= now /\ UNCHANGED topic
  /\ DatabaseInv(db)' /\ DatabaseInv(backup)'
  /\ db'.heartbeatOffset >= db.heartbeatOffset
  /\ db'.lastRoundTime >= db.lastRoundTime
  /\ \A i \in 1 .. Len(topic) : AccountedBy(db, topic[i]) => AccountedBy(db', topic[i])

(* A step that only moves the stores forward keeps what the pods rely on. *)
LEMMA ForwardKeeps ==
  ASSUME MeteringInv, Forward
  PROVE  /\ StoresInv'
         /\ \A p \in RoundPods :
              /\ round'[p] = round[p]
              /\ round[p].pc \in {"scan", "compare"} => db'.lastRoundTime < round[p].time
              => RoundInv(p)'
         /\ \A p \in RelayPods : relay'[p] = relay[p] => RelayInv(p)'
<1>1. /\ now \in Nat /\ now' \in Nat /\ now' >= now /\ topic' = topic
      /\ db.lastRoundTime \in Int /\ db'.lastRoundTime \in Int
      /\ db'.lastRoundTime >= db.lastRoundTime
      /\ db.heartbeatOffset \in Nat /\ db'.heartbeatOffset \in Nat
      /\ db'.heartbeatOffset >= db.heartbeatOffset
      /\ Len(topic) \in Nat /\ \A i \in 1 .. Len(topic) : topic[i].round \in Int
  BY RoundsAt DEF MeteringInv, StoresInv, Forward, DatabaseInv, UpTo
<1>2. ASSUME NEW t \in Int, NEW u \in Int, t <= u, ForeignBefore(t) PROVE ForeignBefore(u)'
  BY <1>1, <1>2 DEF ForeignBefore
<1>3. RoundsIn(topic', UpTo(now'))
  <2>1. UpTo(now) \subseteq UpTo(now')
    BY <1>1 DEF UpTo
  <2> QED BY <1>1, <2>1, RoundsMore DEF MeteringInv, StoresInv
<1>4. StoresInv'
  BY <1>1, <1>2, <1>3 DEF Forward, MeteringInv, StoresInv
<1>5. ASSUME NEW p \in RoundPods, round'[p] = round[p],
             round[p].pc \in {"scan", "compare"} => db'.lastRoundTime < round[p].time
      PROVE  RoundInv(p)'
  <2>1. RoundInv(p)
    BY DEF MeteringInv
  <2>2. IsRound(round[p])'
    BY <1>5, <2>1 DEF RoundInv, IsRound
  <2>3. (round[p].pc # "idle" => round[p].time \in Int /\ round[p].time <= now
           /\ ForeignBefore(round[p].time))'
    BY <1>1, <1>2, <1>5, <2>1 DEF RoundInv
  <2>4. ASSUME round[p].pc = "replay"
        PROVE  /\ round[p].next <= db'.heartbeatOffset
               /\ \A i \in 1 .. Len(topic) :
                    ID(topic[i]) \in round[p].known => AccountedBy(db', topic[i])
    BY <1>1, <2>1, <2>4 DEF RoundInv, Forward
  <2> QED BY <1>1, <1>5, <2>1, <2>2, <2>3, <2>4 DEF RoundInv, AccountedBy
<1>6. ASSUME NEW p \in RelayPods, relay'[p] = relay[p] PROVE RelayInv(p)'
  <2>1. RelayInv(p)
    BY DEF MeteringInv
  <2>2. IsRelay(relay[p])'
    BY <1>6, <2>1 DEF RelayInv, IsRelay
  <2>3. ASSUME relay[p].pc # "idle" PROVE RoundsIn(relay[p].rows, UpTo(db'.lastRoundTime))
    <3>1. UpTo(db.lastRoundTime) \subseteq UpTo(db'.lastRoundTime)
      BY <1>1 DEF UpTo
    <3> QED BY <2>1, <2>3, <3>1, RoundsMore DEF RelayInv
  <2>4. ASSUME relay[p].pc # "idle", relay[p].sent # 0,
               NEW i \in (relay[p].first + 1) .. Len(topic)
        PROVE  topic[i].round <= db'.lastRoundTime
    <3>1. topic[i].round <= db.lastRoundTime /\ i \in 1 .. Len(topic)
      BY <1>1, <2>1, <2>4 DEF RelayInv
    <3> QED BY <1>1, <3>1
  <2> QED BY <1>1, <1>6, <2>1, <2>2, <2>3, <2>4 DEF RelayInv
<1> QED BY <1>4, <1>5, <1>6

(* The database's progress does not change. *)
LEMMA SameProgress ==
  ASSUME MeteringInv, now' \in Nat, now' >= now, UNCHANGED topic,
         IsDatabase(db'), db'.outbox = db.outbox, db'.replayed = db.replayed,
         db'.heartbeatOffset = db.heartbeatOffset, db'.lastRoundTime = db.lastRoundTime,
         backup' = backup \/ backup' = db'
  PROVE  Forward
<1>1. now \in Nat /\ DatabaseInv(db) /\ DatabaseInv(backup)
  BY DEF MeteringInv, StoresInv
<1>2. DatabaseInv(db)'
  BY <1>1 DEF DatabaseInv, AccountedBy
<1>3. DatabaseInv(backup)'
  <2>1. CASE backup' = backup
    BY <1>1, <2>1 DEF DatabaseInv, AccountedBy
  <2>2. CASE backup' = db'
    BY <1>2, <2>2 DEF DatabaseInv, AccountedBy
  <2> QED BY <2>1, <2>2
<1> QED BY <1>1, <1>2, <1>3 DEF Forward, DatabaseInv, AccountedBy

(* Steps that touch neither the round loops nor the relays. *)
LEMMA QuietStep ==
  ASSUME MeteringInv, Forward, UNCHANGED <<round, relay>>,
         db'.lastRoundTime = db.lastRoundTime
  PROVE  MeteringInv'
<1>1. \A p \in RoundPods : RoundInv(p)'
  BY ForwardKeeps DEF MeteringInv, RoundInv
<1>2. \A p \in RelayPods : RelayInv(p)'
  BY ForwardKeeps
<1> QED BY <1>1, <1>2, ForwardKeeps DEF MeteringInv, OneComparison

(* Time, resource events, backups and the fold write no heartbeats. *)
LEMMA WorldAndFold ==
  ASSUME MeteringInv,
         \/ UNCHANGED vars \/ Tick \/ TakeBackup
         \/ \E r, since : Produce(r, since)
         \/ \E p \in FoldPods : FoldStep(p) \/ FoldCrashes(p)
  PROVE  MeteringInv'
<1>1. now \in Nat /\ IsDatabase(db)
  BY DEF MeteringInv, StoresInv, DatabaseInv
<1>2. CASE UNCHANGED <<topic, db, round, relay>> /\ (backup' = backup \/ backup' = db)
           /\ (now' = now \/ now' = now + 1)
  BY <1>1, <1>2, SameProgress, QuietStep
<1>3. ASSUME NEW p \in FoldPods, FoldApply(p) PROVE MeteringInv'
  <2>1. /\ UNCHANGED <<now, topic, backup, round, relay>>
        /\ \E h, e : db' = [db EXCEPT !.history = h, !.eventOffset = e]
    BY <1>3 DEF FoldApply
  <2>2. /\ IsDatabase(db') /\ db'.outbox = db.outbox /\ db'.replayed = db.replayed
        /\ db'.heartbeatOffset = db.heartbeatOffset /\ db'.lastRoundTime = db.lastRoundTime
    BY <1>1, <2>1 DEF IsDatabase
  <2> QED BY <1>1, <2>1, <2>2, SameProgress, QuietStep
<1> QED BY <1>2, <1>3 DEF vars, Tick, TakeBackup, Produce, FoldStep, FoldCollect, FoldCrashes

(* Steps of one round loop that change nothing else. *)
BecomesRound(p, new) ==
  /\ DOMAIN round' = RoundPods /\ round'[p] = new
  /\ \A q \in RoundPods \ {p} : round'[q] = round[q]

(* Steps that change the memory of one round only. *)
LEMMA RoundOnly ==
  ASSUME MeteringInv, NEW p \in RoundPods, UNCHANGED <<now, topic, db, backup, relay>>,
         NEW new, BecomesRound(p, new), RoundInv(p)',
         new.pc \in {"scan", "compare"} =>
           RoundLockFree \/ round[p].pc \in {"scan", "compare"}
  PROVE  MeteringInv'
<1>1. Forward
  BY SameProgress DEF MeteringInv, StoresInv, DatabaseInv
<1>2. /\ DOMAIN round' = RoundPods /\ round'[p] = new
      /\ \A q \in RoundPods \ {p} : round'[q] = round[q]
  BY DEF BecomesRound
<1>3. \A q \in RoundPods : RoundInv(q)'
  <2> SUFFICES ASSUME NEW q \in RoundPods \ {p} PROVE RoundInv(q)'
    OBVIOUS
  <2>1. round'[q] = round[q] /\ RoundInv(q)
    BY <1>2 DEF MeteringInv
  <2> QED BY <1>1, <2>1, ForwardKeeps DEF RoundInv
<1>4. OneComparison'
  BY <1>2 DEF MeteringInv, OneComparison, RoundLockFree
<1>5. \A q \in RelayPods : RelayInv(q)'
  BY <1>1, ForwardKeeps
<1> QED BY <1>1, <1>2, <1>3, <1>4, <1>5, ForwardKeeps DEF MeteringInv

(* The round reads the heartbeats it has to replay. *)
LEMMA CatchUpReadKeeps ==
  ASSUME MeteringInv, NEW p \in RoundPods, NEW upTo \in 0 .. Len(topic), CatchUpRead(p, upTo)
  PROVE  MeteringInv'
<1>1. /\ now \in Nat /\ Len(topic) \in Nat /\ IsRound(round[p]) /\ DatabaseInv(db)
      /\ db.heartbeatOffset \in Nat /\ ForeignBefore(now) /\ DOMAIN round = RoundPods
  BY RoundsAt DEF MeteringInv, StoresInv, RoundInv, DatabaseInv
<1>2. UNCHANGED <<now, topic, db, backup, relay>>
  BY DEF CatchUpRead
<1>3. CASE upTo = db.heartbeatOffset
  <2> DEFINE new == RoundReady(round[p], now)
  <2>1. BecomesRound(p, new) /\ round'[p] = new
    BY <1>1, <1>3 DEF CatchUpRead, BecomesRound
  <2>2. IsRound(new) /\ new.pc = "begin" /\ new.time = now /\ new.rows = << >>
    BY DEF RoundReady, RoundIdle, IsRound
  <2>3. RoundInv(p)'
    BY <1>1, <1>2, <2>1, <2>2, RoundsEmpty, SMTT(30) DEF RoundInv, ForeignBefore
  <2> HIDE DEF new
  <2> QED BY <1>2, <2>1, <2>2, <2>3, RoundOnly
<1>4. CASE upTo # db.heartbeatOffset
  <2> DEFINE new == [round[p] EXCEPT !.pc = "replay", !.time = now, !.known = db.replayed,
                                     !.next = db.heartbeatOffset, !.upTo = upTo,
                                     !.finished = (upTo = Len(topic))]
  <2>1. BecomesRound(p, new) /\ round'[p] = new
    BY <1>1, <1>4 DEF CatchUpRead, BecomesRound
  <2>2. /\ IsRound(new) /\ new.pc = "replay" /\ new.time = now /\ new.known = db.replayed
        /\ new.next = db.heartbeatOffset /\ new.upTo = upTo
    BY <1>1 DEF IsRound
  <2>3. db.heartbeatOffset < upTo
    BY <1>1, <1>4 DEF CatchUpRead, DatabaseInv
  <2> HIDE DEF new
  <2>4. RoundInv(p)'
    BY <1>1, <1>2, <2>1, <2>2, <2>3 DEF RoundInv, ForeignBefore, AccountedBy
  <2> QED BY <1>2, <2>1, <2>2, <2>4, RoundOnly
<1> QED BY <1>3, <1>4

(* The round begins, reads what to compare, or crashes. *)
LEMMA RoundBeginKeeps ==
  ASSUME MeteringInv, NEW p \in RoundPods, RoundBegin(p) \/ RoundScan(p) \/ RoundCrashes(p)
  PROVE  MeteringInv'
<1>1. /\ RoundInv(p) /\ UNCHANGED <<now, topic, db, backup, relay>>
      /\ DOMAIN round = RoundPods /\ db.lastRoundTime \in Int
  BY DEF MeteringInv, StoresInv, DatabaseInv, RoundBegin, RoundScan, RoundCrashes
<1>2. ASSUME NEW t, round' = [round EXCEPT ![p] = RoundIdle(t)] PROVE MeteringInv'
  <2>1. BecomesRound(p, RoundIdle(t)) /\ round'[p] = RoundIdle(t)
    BY <1>1, <1>2 DEF BecomesRound
  <2>2. RoundInv(p)' /\ RoundIdle(t).pc = "idle"
    BY <2>1, IdleRound DEF RoundInv
  <2> QED BY <1>1, <2>1, <2>2, RoundOnly
<1>3. ASSUME NEW new, BecomesRound(p, new),
             IsRound(new), new.pc \in {"scan", "compare"}, new.time = round[p].time,
             new.rows = round[p].rows, db.lastRoundTime < round[p].time,
             round[p].pc \in {"begin", "scan"},
             RoundLockFree \/ round[p].pc = "scan"
      PROVE  MeteringInv'
  <2>1. round'[p] = new
    BY <1>3 DEF BecomesRound
  <2>2. RoundInv(p)'
    BY <1>1, <1>3, <2>1 DEF RoundInv, ForeignBefore
  <2> QED BY <1>1, <1>3, <2>2, RoundOnly
<1>4. CASE RoundBegin(p)
  <2>1. CASE round[p].time <= db.lastRoundTime
    BY <1>2, <1>4, <2>1 DEF RoundBegin, RoundEnds
  <2>2. CASE ~(round[p].time <= db.lastRoundTime) /\ EventsFolded(p).folded
    <3> DEFINE new == [round[p] EXCEPT !.pc = "scan", !.target = NoTarget,
                                       !.eventOffset = db.eventOffset]
    <3>1. BecomesRound(p, new) /\ RoundLockFree /\ round[p].pc = "begin"
      BY <1>1, <1>4, <2>2 DEF RoundBegin, BecomesRound
    <3>2. /\ IsRound(new) /\ new.pc = "scan" /\ new.time = round[p].time
          /\ new.rows = round[p].rows
      BY <1>1 DEF RoundInv, IsRound
    <3>3. db.lastRoundTime < round[p].time
      BY <1>1, <2>2, <3>1 DEF RoundInv
    <3> HIDE DEF new
    <3> QED BY <1>3, <3>1, <3>2, <3>3
  <2>3. CASE ~(round[p].time <= db.lastRoundTime) /\ ~EventsFolded(p).folded
    BY <1>2, <1>4, <2>3 DEF RoundBegin
  <2> QED BY <2>1, <2>2, <2>3
<1>5. CASE RoundScan(p)
  <2> DEFINE new == [round[p] EXCEPT !.pc = "compare", !.full = ScanResources.full,
                                     !.tail = ScanResources.tail, !.ledger = db.ledger]
  <2>1. BecomesRound(p, new) /\ round[p].pc = "scan"
    BY <1>1, <1>5 DEF RoundScan, BecomesRound
  <2>2. /\ IsRound(new) /\ new.pc = "compare" /\ new.time = round[p].time
        /\ new.rows = round[p].rows
    BY <1>1 DEF RoundInv, IsRound
  <2>3. db.lastRoundTime < round[p].time
    BY <1>1, <2>1 DEF RoundInv
  <2> HIDE DEF new
  <2> QED BY <1>3, <2>1, <2>2, <2>3
<1>6. CASE RoundCrashes(p)
  BY <1>2, <1>6 DEF RoundCrashes
<1> QED BY <1>4, <1>5, <1>6

(* A comparison adds heartbeats of its own round. *)
LEMMA CompareKeeps ==
  ASSUME MeteringInv, NEW p \in RoundPods, NEW r \in Resources,
         CompareFull(p, r) \/ CompareTail(p, r)
  PROVE  MeteringInv'
<1>1. /\ RoundInv(p) /\ UNCHANGED <<now, topic, db, backup, relay>> /\ round[p].pc = "compare"
      /\ DOMAIN round = RoundPods
  BY DEF MeteringInv, CompareFull, CompareTail
<1>2. PICK pieces, tailFrom : DiffAndCommit(p, r, pieces, tailFrom)
  BY DEF CompareFull, CompareTail, RecomputeWhole
<1> DEFINE Heartbeat(d) == [res |-> r, from |-> d.from, to |-> d.to, rate |-> d.rate,
                            round |-> round[p].time]
           all == {Heartbeat(d) : d \in Diff(pieces, round[p].ledger[r], tailFrom)}
<1>3. PICK rows \in InTimeOrder(all) :
        round' = [round EXCEPT ![p].full = @ \ {r}, ![p].tail = @ \ {r},
                               ![p].rows = @ \o rows,
                               ![p].ledger[r] = SyncLedger(@, pieces, tailFrom)]
  BY <1>2 DEF DiffAndCommit
<1> DEFINE new == round'[p]
<1>4. /\ BecomesRound(p, new)
      /\ IsRound(new) /\ new.pc = "compare" /\ new.time = round[p].time
      /\ new.rows = round[p].rows \o rows
  <2> HIDE DEF all
  <2>1. p \in DOMAIN round
    BY <1>1
  <2>2. BecomesRound(p, new)
    BY <1>1, <1>3 DEF BecomesRound
  <2>3. {"pc", "time", "known", "next", "upTo", "rows"} \subseteq DOMAIN round[p]
    BY <1>1 DEF RoundInv, IsRound
  <2>4. DOMAIN new = DOMAIN round[p]
    BY <1>3, <2>1
  <2>5. new.pc = round[p].pc /\ new.time = round[p].time /\ new.rows = round[p].rows \o rows
    BY <1>3, <2>1, <2>3
  <2> QED BY <1>1, <2>2, <2>3, <2>4, <2>5 DEF IsRound
<1>5. RoundsIn(rows, UpTo(round[p].time))
  <2>1. round[p].time \in UpTo(round[p].time)
    BY <1>1, SMTT(30) DEF RoundInv, UpTo
  <2>2. \A h \in all : h.round = round[p].time
    BY SMTT(30)
  <2>3. PICK n \in 0 .. MaxTime : rows \in [1 .. n -> all]
    BY DEF InTimeOrder
  <2>4. rows \in Seq(all)
    <3>1. n \in Nat
      BY <2>3, MeteringConstants
    <3> HIDE DEF all
    <3> QED BY <2>3, <3>1
  <2> HIDE DEF all
  <2> QED BY <2>1, <2>2, <2>4 DEF RoundsIn
<1> HIDE DEF all, new
<1>6. RoundsIn(new.rows, UpTo(round[p].time))
  BY <1>1, <1>4, <1>5, RoundsConcat DEF RoundInv
<1>7. RoundInv(p)'
  BY <1>1, <1>4, <1>6 DEF RoundInv, ForeignBefore, new
<1> QED BY <1>1, <1>4, <1>7, RoundOnly

(* Where a group ends. *)
LEMMA GroupEndIn ==
  ASSUME NEW from \in Nat, NEW upTo \in Nat, from < upTo
  PROVE  GroupEnd(from, upTo) \in (from + 1) .. upTo
<1> DEFINE ends == {i \in (from + 1) .. upTo :
                     i = upTo \/ topic[i + 1].round # topic[from + 1].round}
<1>1. ends \subseteq Nat /\ upTo \in ends
  OBVIOUS
<1>2. Min(ends) \in ends
  <2> HIDE DEF ends
  <2> QED BY <1>1, LeastNatural
<1> QED BY <1>2 DEF GroupEnd

(* After a group is applied, all that its end covers is accounted for: a   *)
(* copy of a heartbeat has the identifier, and so the round, of the first. *)
LEMMA GroupAccounted ==
  ASSUME MeteringInv, NEW known, NEW from \in Nat, NEW last \in Nat, last <= Len(topic),
         from <= db.heartbeatOffset,
         \A i \in 1 .. Len(topic) : ID(topic[i]) \in known => AccountedBy(db, topic[i]),
         NEW i \in 1 .. last
  PROVE  AccountedBy(db, topic[i]) \/ ID(topic[i]) \in {ID(topic[j]) : j \in Fresh(from, last, known)}
<1>1. /\ db.heartbeatOffset \in Nat /\ db.lastRoundTime \in Int /\ Len(topic) \in Nat
      /\ \A j \in 1 .. Len(topic) : topic[j].round \in Int
  BY RoundsAt DEF MeteringInv, StoresInv, DatabaseInv, UpTo
<1>2. CASE i <= db.heartbeatOffset
  BY <1>1, <1>2 DEF MeteringInv, StoresInv, DatabaseInv
<1>3. CASE i > db.heartbeatOffset
  <2> DEFINE unread == {j \in (from + 1) .. last : j > db.heartbeatOffset}
             copies == {j \in unread : ID(topic[j]) = ID(topic[i])}
             first == Min(copies)
  <2>1. copies \subseteq Nat /\ i \in copies
    BY <1>1, <1>3
  <2>2. first \in copies /\ \A j \in copies : first <= j
    <3> HIDE DEF copies
    <3> QED BY <2>1, LeastNatural
  <2> HIDE DEF first
  <2>3. /\ first \in unread /\ ID(topic[first]) = ID(topic[i])
        /\ first \in 1 .. Len(topic) /\ topic[first].round = topic[i].round
    BY <1>1, <2>2, SMTT(30) DEF ID
  <2>4. \A j \in unread : j < first => ID(topic[j]) # ID(topic[first])
    BY <1>1, <2>2, <2>3, SMTT(30)
  <2>5. CASE first \in Fresh(from, last, known)
    BY <2>3, <2>5
  <2>6. CASE first \notin Fresh(from, last, known)
    <3>1. ~(topic[first].round > db.lastRoundTime) \/ ID(topic[first]) \in known
      BY <2>3, <2>4, <2>6 DEF Fresh
    <3>2. AccountedBy(db, topic[first])
      BY <1>1, <2>3, <3>1 DEF AccountedBy
    <3> QED BY <2>3, <3>2 DEF AccountedBy
  <2> QED BY <2>5, <2>6
<1> QED BY <1>1, <1>2, <1>3

(* The round replays a group of heartbeats. *)
LEMMA ApplyGroupKeeps ==
  ASSUME MeteringInv, NEW p \in RoundPods, ApplyGroup(p)
  PROVE  MeteringInv'
<1> DEFINE last  == GroupEnd(round[p].next, round[p].upTo)
           fresh == Fresh(round[p].next, last, round[p].known)
           ids   == {ID(topic[i]) : i \in fresh}
<1>1. /\ RoundInv(p) /\ round[p].pc = "replay" /\ RoundLockFree
      /\ UNCHANGED <<now, topic, backup, relay>>
      /\ DatabaseInv(db) /\ DatabaseInv(backup) /\ now \in Nat /\ Len(topic) \in Nat
      /\ DOMAIN round = RoundPods
  BY RoundsAt DEF MeteringInv, StoresInv, ApplyGroup
<1>2. /\ db.heartbeatOffset \in Nat /\ db.lastRoundTime \in Int /\ Len(topic) \in Nat
      /\ round[p].next \in Nat /\ round[p].upTo \in Nat /\ round[p].upTo <= Len(topic)
      /\ round[p].next < round[p].upTo /\ round[p].next <= db.heartbeatOffset
      /\ round[p].time \in Int
  BY <1>1 DEF DatabaseInv, RoundInv
<1>3. last \in (round[p].next + 1) .. round[p].upTo
  BY <1>2, GroupEndIn
<1>4. \E l : db' = [db EXCEPT !.ledger = l, !.replayed = @ \cup ids,
                              !.heartbeatOffset = Max({@, last})]
  BY DEF ApplyGroup
<1> HIDE DEF last, fresh, ids
<1>5. last \in Nat /\ last <= Len(topic) /\ last <= round[p].upTo
  BY <1>2, <1>3
<1>6. /\ IsDatabase(db') /\ db'.outbox = db.outbox /\ db'.lastRoundTime = db.lastRoundTime
      /\ db'.replayed = db.replayed \cup ids
      /\ db'.heartbeatOffset = Max({db.heartbeatOffset, last})
  BY <1>1, <1>4 DEF DatabaseInv, IsDatabase
<1>7. /\ db'.heartbeatOffset \in Nat /\ db'.heartbeatOffset <= Len(topic)
      /\ db'.heartbeatOffset >= db.heartbeatOffset /\ db'.heartbeatOffset >= last
      /\ db'.heartbeatOffset \in {db.heartbeatOffset, last}
  <2>1. Max({db.heartbeatOffset, last}) \in {db.heartbeatOffset, last}
        /\ Max({db.heartbeatOffset, last}) >= db.heartbeatOffset
        /\ Max({db.heartbeatOffset, last}) >= last
    <3>1. db.heartbeatOffset \in Int /\ last \in Int
      BY <1>2, <1>5
    <3> QED BY <3>1, MaxPair
  <2>2. db.heartbeatOffset <= Len(topic)
    BY <1>1 DEF DatabaseInv
  <2> QED BY <1>2, <1>5, <1>6, <2>1, <2>2
<1>8. ASSUME NEW i \in 1 .. last PROVE AccountedBy(db', topic[i])
  <2>1. AccountedBy(db, topic[i]) \/ ID(topic[i]) \in ids
    BY <1>1, <1>2, <1>5, GroupAccounted DEF RoundInv, ids, fresh
  <2> QED BY <1>6, <2>1 DEF AccountedBy
<1>9. \A i \in 1 .. Len(topic) : AccountedBy(db, topic[i]) => AccountedBy(db', topic[i])
  BY <1>6 DEF AccountedBy
<1>10. ASSUME NEW i \in 1 .. db'.heartbeatOffset PROVE AccountedBy(db', topic[i])
  <2>1. i \in 1 .. last \/ i \in 1 .. db.heartbeatOffset
    BY <1>2, <1>5, <1>7
  <2> QED BY <1>1, <1>6, <1>8, <2>1 DEF DatabaseInv, AccountedBy
<1>11. DatabaseInv(db)'
  BY <1>1, <1>2, <1>6, <1>7, <1>10 DEF DatabaseInv
<1>12. DatabaseInv(backup)'
  BY <1>1 DEF DatabaseInv, AccountedBy
<1>13. Forward
  BY <1>1, <1>2, <1>6, <1>7, <1>9, <1>11, <1>12, SMTT(30) DEF Forward
<1>14. \E new : BecomesRound(p, new) /\ new.pc \notin {"scan", "compare"}
  BY <1>1 DEF ApplyGroup, BecomesRound, RoundInv, IsRound, RoundReady, RoundEnds, RoundIdle
<1>15. RoundInv(p)'
  <2>1. CASE last < round[p].upTo
    <3>1. round' = [round EXCEPT ![p].next = last, ![p].known = @ \cup ids]
      BY <2>1 DEF ApplyGroup, last, fresh, ids
    <3>2. /\ IsRound(round'[p]) /\ round'[p].pc = "replay" /\ round'[p].time = round[p].time
          /\ round'[p].next = last /\ round'[p].upTo = round[p].upTo
          /\ round'[p].known = round[p].known \cup ids
      BY <1>1, <3>1 DEF RoundInv, IsRound
    <3>3. ASSUME NEW i \in 1 .. Len(topic), ID(topic[i]) \in round[p].known \cup ids
          PROVE  AccountedBy(db', topic[i])
      BY <1>1, <1>6, <1>9, <3>3 DEF RoundInv, AccountedBy
    <3>4. ForeignBefore(round[p].time)'
      BY <1>1, <1>6, <3>2 DEF RoundInv, ForeignBefore
    <3> QED BY <1>1, <1>2, <1>5, <1>7, <2>1, <3>2, <3>3, <3>4 DEF RoundInv, AccountedBy
  <2>2. CASE ~(last < round[p].upTo) /\ round[p].finished
    <3>1. round'[p] = RoundReady(round[p], round[p].time)
      BY <1>1, <2>2 DEF ApplyGroup, last, fresh, ids
    <3>2. /\ IsRound(round'[p]) /\ round'[p].pc = "begin" /\ round'[p].time = round[p].time
          /\ round'[p].rows = << >>
      BY <3>1 DEF RoundReady, RoundIdle, IsRound
    <3>3. ForeignBefore(round[p].time)'
      BY <1>1, <1>6, <3>2 DEF RoundInv, ForeignBefore
    <3> QED BY <1>1, <1>2, <3>2, <3>3, RoundsEmpty DEF RoundInv
  <2>3. CASE ~(last < round[p].upTo) /\ ~round[p].finished
    <3>1. round'[p] = RoundIdle(round[p].target)
      BY <1>1, <2>3 DEF ApplyGroup, RoundEnds, last, fresh, ids
    <3>2. IsRound(round'[p]) /\ round'[p].pc = "idle"
      BY <3>1, IdleRound
    <3> QED BY <3>2 DEF RoundInv
  <2> QED BY <2>1, <2>2, <2>3
<1>16. \A q \in RoundPods : RoundInv(q)'
  <2> SUFFICES ASSUME NEW q \in RoundPods \ {p} PROVE RoundInv(q)'
    BY <1>15
  <2>1. round'[q] = round[q] /\ RoundInv(q)
    BY <1>14 DEF BecomesRound, MeteringInv
  <2> QED BY <1>6, <1>13, <2>1, ForwardKeeps DEF RoundInv
<1>17. OneComparison' /\ DOMAIN round' = RoundPods
  BY <1>14 DEF OneComparison, BecomesRound, MeteringInv
<1>18. \A q \in RelayPods : RelayInv(q)'
  BY <1>1, <1>13, ForwardKeeps
<1> QED BY <1>1, <1>13, <1>16, <1>17, <1>18, ForwardKeeps DEF MeteringInv

(* A round that commits knows more than every heartbeat in the topic. *)
LEMMA RoundCommitKeeps ==
  ASSUME MeteringInv, NEW p \in RoundPods, RoundCommit(p)
  PROVE  MeteringInv'
<1>1. /\ RoundInv(p) /\ round[p].pc = "compare"
      /\ UNCHANGED <<now, topic, backup, relay>>
      /\ DatabaseInv(db) /\ DatabaseInv(backup) /\ now \in Nat /\ DOMAIN round = RoundPods
      /\ Len(topic) \in Nat /\ \A i \in 1 .. Len(topic) : topic[i].round \in UpTo(now)
  BY RoundsAt DEF MeteringInv, StoresInv, RoundCommit
<1>2. /\ db.heartbeatOffset \in Nat /\ db.lastRoundTime \in Int /\ Len(topic) \in Nat
      /\ \A i \in 1 .. Len(topic) : topic[i].round \in Int
      /\ round[p].time \in Int /\ round[p].time <= now /\ db.lastRoundTime < round[p].time
  BY <1>1 DEF DatabaseInv, RoundInv, UpTo
<1>3. \E l, e : db' = [db EXCEPT !.ledger = l, !.outbox = @ \o round[p].rows,
                                 !.lastRoundTime = round[p].time,
                                 !.lastRoundEventOffset = e, !.replayed = {}]
  BY DEF RoundCommit
<1>4. /\ IsDatabase(db') /\ db'.outbox = db.outbox \o round[p].rows
      /\ db'.lastRoundTime = round[p].time /\ db'.heartbeatOffset = db.heartbeatOffset
  BY <1>1, <1>3 DEF DatabaseInv, IsDatabase
<1>5. RoundsIn(db'.outbox, UpTo(round[p].time))
  <2>1. UpTo(db.lastRoundTime) \subseteq UpTo(round[p].time)
    BY <1>2, SMTT(30) DEF UpTo
  <2>2. RoundsIn(db.outbox, UpTo(round[p].time))
    BY <1>1, <2>1, RoundsMore DEF DatabaseInv
  <2>3. RoundsIn(round[p].rows, UpTo(round[p].time))
    BY <1>1 DEF RoundInv
  <2> QED BY <1>4, <2>2, <2>3, RoundsConcat
<1>6. \A i \in 1 .. Len(topic) : AccountedBy(db', topic[i])
  BY <1>1, <1>2, <1>4, SMTT(30) DEF RoundInv, ForeignBefore, AccountedBy
<1>7. DatabaseInv(db)'
  BY <1>1, <1>2, <1>4, <1>5, <1>6, SMTT(30) DEF DatabaseInv
<1>8. DatabaseInv(backup)'
  BY <1>1 DEF DatabaseInv, AccountedBy
<1>9. Forward
  BY <1>1, <1>2, <1>4, <1>6, <1>7, <1>8 DEF Forward
<1>10. BecomesRound(p, RoundIdle(round[p].target))
  BY <1>1 DEF RoundCommit, RoundEnds, BecomesRound
<1>11. ASSUME NEW q \in RoundPods PROVE RoundInv(q)'
  <2>1. CASE q = p
    <3>1. IsRound(round'[q]) /\ round'[q].pc = "idle"
      BY <1>10, <2>1, IdleRound DEF BecomesRound
    <3> QED BY <3>1 DEF RoundInv
  <2>2. CASE q # p
    <3>1. round'[q] = round[q] /\ round[q].pc \notin {"scan", "compare"}
      BY <1>1, <1>10, <2>2 DEF BecomesRound, OneComparison, MeteringInv
    <3> QED BY <1>9, <3>1, ForwardKeeps
  <2> QED BY <2>1, <2>2
<1>12. OneComparison' /\ DOMAIN round' = RoundPods
  <2>1. /\ DOMAIN round' = RoundPods /\ round'[p].pc = "idle"
        /\ \A q \in RoundPods \ {p} : round'[q] = round[q]
    BY <1>10, IdleRound DEF BecomesRound
  <2> QED BY <2>1 DEF OneComparison, MeteringInv
<1>13. \A q \in RelayPods : RelayInv(q)'
  BY <1>1, <1>9, ForwardKeeps
<1> QED BY <1>1, <1>9, <1>11, <1>12, <1>13, ForwardKeeps DEF MeteringInv

(* Steps of a relay that neither send nor commit. *)
BecomesRelay(p, new) ==
  /\ DOMAIN relay' = RelayPods /\ relay'[p] = new
  /\ \A q \in RelayPods \ {p} : relay'[q] = relay[q]

(* Steps that change the memory of one relay only. *)
LEMMA RelayOnly ==
  ASSUME MeteringInv, NEW p \in RelayPods, UNCHANGED <<now, topic, db, backup, round>>,
         NEW new, BecomesRelay(p, new), RelayInv(p)'
  PROVE  MeteringInv'
<1>1. Forward
  BY SameProgress, SMTT(30) DEF MeteringInv, StoresInv, DatabaseInv
<1>2. \A q \in RelayPods : RelayInv(q)'
  BY <1>1, ForwardKeeps DEF BecomesRelay
<1>3. \A q \in RoundPods : RoundInv(q)'
  BY <1>1, ForwardKeeps DEF MeteringInv, RoundInv
<1> QED BY <1>1, <1>2, <1>3, ForwardKeeps DEF MeteringInv, OneComparison, BecomesRelay

(* The relay reads a batch, or gives one up. *)
LEMMA RelayBetween ==
  ASSUME MeteringInv, NEW p \in RelayPods,
         RelayRead(p) \/ RelayLosesConnection(p) \/ RelayCommitFails(p) \/ RelayFails(p)
  PROVE  MeteringInv'
<1>1. /\ RelayInv(p) /\ DatabaseInv(db) /\ UNCHANGED <<now, topic, db, backup, round>>
      /\ DOMAIN relay = RelayPods /\ Len(topic) \in Nat
  BY RoundsAt DEF MeteringInv, StoresInv, RelayRead, RelayLosesConnection, RelayCommitFails, RelayFails
<1>2. CASE RelayRead(p)
  <2> DEFINE n == Min({RelayBatch, Len(db.outbox)})
             new == [pc |-> "send", rows |-> SubSeq(db.outbox, 1, n), sent |-> 0, first |-> 0,
                     last |-> 0, offset |-> db.heartbeatOffset]
  <2>1. Len(db.outbox) \in Nat /\ RelayBatch \in Nat /\ db.heartbeatOffset \in Nat
        /\ Len(topic) \in Nat
    BY <1>1, MeteringConstants, RoundsAt DEF DatabaseInv
  <2>2. n \in Nat /\ n <= Len(db.outbox)
    <3>1. {RelayBatch, Len(db.outbox)} \subseteq Nat
      BY <2>1
    <3> QED BY <2>1, <3>1, LeastNatural
  <2>3. BecomesRelay(p, new)
    BY <1>1, <1>2 DEF RelayRead, BecomesRelay
  <2> HIDE DEF n
  <2>4. RoundsIn(SubSeq(db.outbox, 1, n), UpTo(db.lastRoundTime))
    BY <1>1, <2>2, RoundsPart DEF DatabaseInv
  <2>5. /\ IsRelay(new) /\ new.rows = SubSeq(db.outbox, 1, n)
        /\ new.sent = 0 /\ new.first = 0 /\ new.last = 0 /\ new.offset = db.heartbeatOffset
    BY DEF IsRelay
  <2>6. RoundsIn(new.rows, UpTo(db.lastRoundTime))
    BY <2>4, <2>5
  <2> HIDE DEF new
  <2>7. RelayInv(p)'
    <3>1. relay'[p] = new /\ UNCHANGED <<topic, db>>
      BY <1>1, <2>3 DEF BecomesRelay
    <3>2. /\ IsRelay(new) /\ new.sent = 0 /\ new.first = 0 /\ new.last = 0
          /\ new.offset \in Nat /\ new.offset <= db.heartbeatOffset /\ 0 <= Len(topic)
      BY <2>1, <2>5
    <3> QED BY <2>6, <3>1, <3>2 DEF RelayInv
  <2> QED BY <1>1, <2>3, <2>7, RelayOnly
<1>3. CASE RelayLosesConnection(p)
  <2> DEFINE new == [relay[p] EXCEPT !.pc = "lost"]
  <2>1. BecomesRelay(p, new) /\ relay[p].pc = "send"
    BY <1>1, <1>3 DEF RelayLosesConnection, BecomesRelay
  <2>2. /\ IsRelay(new) /\ new.rows = relay[p].rows /\ new.sent = relay[p].sent
        /\ new.first = relay[p].first /\ new.last = relay[p].last
        /\ new.offset = relay[p].offset
    BY <1>1 DEF RelayInv, IsRelay
  <2> HIDE DEF new
  <2>3. RelayInv(p)'
    BY <1>1, <2>1, <2>2 DEF BecomesRelay, RelayInv
  <2> QED BY <1>1, <2>1, <2>3, RelayOnly
<1>4. CASE RelayCommitFails(p) \/ RelayFails(p)
  <2>1. BecomesRelay(p, RelayIdle)
    BY <1>1, <1>4 DEF RelayCommitFails, RelayFails, BecomesRelay
  <2>2. RelayInv(p)'
    BY <2>1, SMTT(30) DEF BecomesRelay, RelayInv, RelayIdle, IsRelay
  <2> QED BY <1>1, <2>1, <2>2, RelayOnly
<1> QED BY <1>2, <1>3, <1>4
=============================================================================
