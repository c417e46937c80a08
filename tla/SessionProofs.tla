----------------------------- MODULE SessionProofs -----------------------------
(***************************************************************************)
(* The two loops in which a session plays, PracticeSession's and           *)
(* HyperPlay's, and the scheduler's round robin.                           *)
(*                                                                         *)
(* Practice.  The history cursor never loses the visit it is on: for any   *)
(* number of segments, sessions, loads and queued events, with a user who  *)
(* acts at any moment.  With a user who waits until everything has         *)
(* settled, three more: the mode tells whether a session runs, every row   *)
(* is credited to the segment and session that was played, and a session   *)
(* that waits is being served.                                             *)
(*                                                                         *)
(* The argument is per session: VisitOk speaks of one session record and   *)
(* of the loads, so a step of one actor has to re-establish it for the one *)
(* session it changes.  With a settled user only the current session runs, *)
(* and every event in the queue, the timing and a resume are its own.      *)
(*                                                                         *)
(* Hyper play.  For any levels and sessions, with a user and a player who  *)
(* wait for what is in flight, the counts of checkpoints agree.  The       *)
(* argument is by stages: a sub-segment is under way, or one event says    *)
(* how it ended, or its state is being loaded again, and each stage fixes  *)
(* where the player is, what the timing holds and what is on its way.      *)
(*                                                                         *)
(* Round robin.  For any segments, files, weights and updates: the segment *)
(* picked is told by how many are below it, which is what the index was    *)
(* then, modulo their number.                                              *)
(***************************************************************************)
EXTENDS PracticeSession, Integers, FiniteSetTheorems, SequenceTheorems, TLAPS

Playing(r) == r.pc \in {"loading", "waiting"}

\* A session has an attempt in flight only between its load and its result, and
\* its load is one that was issued, for the entry it is on.
VisitOk(r, s, ls) ==
    /\ ~Playing(r) => ~(r.running /\ r.armed)
    /\ Playing(r) => r.load \in 1 .. Len(ls)
    /\ Playing(r) /\ r.grind = None =>
         /\ r.at \in 1 .. Len(r.hist)
         /\ ls[r.load] = [seg |-> r.hist[r.at], sess |-> s]
         /\ ~r.nav => r.cursor = r.at
         /\ r.nav => r.cursor \in {r.at - 1, r.at + 1} /\ r.woke /\ ~r.armed

\* The timing and a pending resume name a load.
Named == /\ timing.st # "idle" => timing.load \in LoadId
         /\ loop.op = "resume" => loop.load \in LoadId

Inv == TypeOK /\ Named /\ \A s \in SessId : VisitOk(ps[s], s, loads)

-----------------------------------------------------------------------------
\* The invariant contains what the runs check.
LEMMA InvImplies == Inv => TypeOK /\ CursorFollowsVisit
  BY DEF Inv, VisitOk, Playing, CursorFollowsVisit

\* Before anything ran no session plays.
LEMMA InitInv == Init => Inv
<1> SUFFICES ASSUME Init PROVE Inv
  OBVIOUS
<1>1. Fresh \in Session
  BY PracticeAssumption DEF Fresh, Session, Load0, Result
<1>2. TypeOK
  BY <1>1, PracticeAssumption
     DEF Init, TypeOK, Disarmed, Timing, Free, Loop, Load0, SessId
<1>3. Named
  BY DEF Init, Named, Disarmed, Free
<1>4. ASSUME NEW s \in SessId PROVE VisitOk(ps[s], s, loads)
  BY <1>4 DEF Init, Fresh, VisitOk, Playing
<1> QED BY <1>2, <1>3, <1>4 DEF Inv

\* The loads issued are remembered: issuing another one disturbs no session.
LEMMA IssueKeeps ==
  ASSUME NEW ls \in Seq(Load), NEW l \in Load, NEW r \in Session,
         NEW s \in SessId, VisitOk(r, s, ls)
  PROVE  VisitOk(r, s, Append(ls, l))
<1> DEFINE more == Append(ls, l)
<1>1. Len(more) = Len(ls) + 1 /\ \A i \in 1 .. Len(ls) : more[i] = ls[i]
  OBVIOUS
<1>2. Len(ls) \in Nat
  OBVIOUS
<1> HIDE DEF more
<1>3. Playing(r) => r.load \in 1 .. Len(more) /\ more[r.load] = ls[r.load]
  BY <1>1, <1>2 DEF VisitOk
<1>4. VisitOk(r, s, more)
  BY <1>3 DEF VisitOk
<1> QED BY <1>4 DEF more

\* What a session may load next is an entry of its history, or its pinned
\* segment, and a segment in both cases.
LEMMA EntriesOk ==
  ASSUME TypeOK, NEW r \in Session, NEW e \in Entries(r)
  PROVE  /\ e.hist \in Seq(Segs) /\ e.at \in Nat \ {0}
         /\ r.grind # None => r.grind \in Segs
         /\ r.grind = None => e.at \in 1 .. Len(e.hist) /\ e.hist[e.at] \in Segs
<1> DEFINE visible == {c \in r.cursor .. Len(r.hist) : r.hist[c] \in files}
<1>1. r.hist \in Seq(Segs) /\ r.cursor \in Nat \ {0} /\ r.grind \in Segs \cup {None}
  BY DEF Session
<1>2. CASE r.grind # None
  <2>1. e = [hist |-> r.hist, at |-> r.cursor]
    BY <1>2 DEF Entries
  <2> QED BY <1>1, <1>2, <2>1
<1>3. CASE r.grind = None /\ visible # {}
  <2>1. PICK c \in visible : e = [hist |-> r.hist, at |-> c]
    BY <1>3 DEF Entries
  <2>2. c \in 1 .. Len(r.hist)
    BY <1>1
  <2> QED BY <1>1, <1>3, <2>1, <2>2
<1>4. CASE r.grind = None /\ visible = {}
  <2>1. PICK seg \in files :
          e = [hist |-> Append(r.hist, seg), at |-> Len(r.hist) + 1]
    BY <1>4 DEF Entries
  <2>2. seg \in Segs
    BY DEF TypeOK
  <2> QED BY <1>1, <1>4, <2>1, <2>2
<1> QED BY <1>2, <1>3, <1>4

\* Another cycle puts the cursor on the entry it loads.
LEMMA CycleKeeps ==
  ASSUME Inv, NEW s \in SessId, NEW r \in Session, BeginCycle(s, r)
  PROVE  /\ ps' \in [SessId -> Session] /\ timing' = timing
         /\ loads' \in Seq(Load) /\ Len(loads') <= MaxLoads
         /\ \A t \in SessId : VisitOk(ps'[t], t, loads')
<1> DEFINE n == Len(loads) + 1
           go(e) == [r EXCEPT !.pc = "loading", !.hist = e.hist, !.at = e.at,
                              !.cursor = e.at, !.load = n,
                              !.armed = TRUE, !.nav = FALSE, !.woke = FALSE,
                              !.result = None, !.ep = None]
           l(e) == [seg |-> SegmentOf(go(e)), sess |-> s]
<1>1. PICK e \in Entries(r) : /\ ps' = [ps EXCEPT ![s] = go(e)]
                              /\ Issue(SegmentOf(go(e)), s) /\ timing' = timing
  BY DEF BeginCycle
<1>2. loads \in Seq(Load) /\ Len(loads) \in Nat /\ MaxLoads \in Nat
      /\ Len(loads) < MaxLoads
  BY <1>1, PracticeAssumption DEF Inv, TypeOK, Issue
<1>3. /\ e.hist \in Seq(Segs) /\ e.at \in Nat \ {0}
      /\ r.grind # None => r.grind \in Segs
      /\ r.grind = None => e.at \in 1 .. Len(e.hist) /\ e.hist[e.at] \in Segs
  BY EntriesOk DEF Inv
<1>4. go(e) \in Session
  <2>1. n \in Load0 /\ e.at \in Nat /\ None \in Result
    BY <1>2, <1>3 DEF Load0, Result
  <2> HIDE DEF n
  <2> QED BY <2>1, <1>3 DEF Session
<1>5. /\ go(e).pc = "loading" /\ go(e).load = n /\ go(e).grind = r.grind
      /\ go(e).hist = e.hist /\ go(e).at = e.at /\ go(e).cursor = e.at
      /\ go(e).nav = FALSE
  BY DEF Session
<1>6. l(e) \in Load
  BY <1>3, <1>5 DEF SegmentOf, Load
<1>7. loads' = Append(loads, l(e)) /\ loads' \in Seq(Load) /\ Len(loads') = n
      /\ loads'[n] = l(e)
  BY <1>1, <1>2, <1>6 DEF Issue
<1>8. VisitOk(go(e), s, loads')
  <2> HIDE DEF go
  <2>1. Playing(go(e)) /\ go(e).load \in 1 .. Len(loads')
    BY <1>2, <1>5, <1>7 DEF Playing
  <2>2. go(e).grind = None => loads'[go(e).load] = [seg |-> go(e).hist[go(e).at], sess |-> s]
    BY <1>5, <1>7 DEF SegmentOf
  <2> QED BY <2>1, <2>2, <1>3, <1>5 DEF VisitOk
<1>9. ASSUME NEW t \in SessId, t # s PROVE VisitOk(ps'[t], t, loads')
  BY <1>9, <1>1, <1>2, <1>6, <1>7, IssueKeeps DEF Inv, TypeOK
<1>10. ps' \in [SessId -> Session] /\ ps'[s] = go(e)
  BY <1>1, <1>4 DEF Inv, TypeOK
<1> QED BY <1>1, <1>2, <1>7, <1>8, <1>9, <1>10

\* A step that leaves the loads alone and one session with VisitOk keeps the
\* invariant's claim about every session.
LEMMA OneSession ==
  ASSUME Inv, NEW s \in SessId, NEW r \in Session, ps' = [ps EXCEPT ![s] = r],
         loads' = loads, VisitOk(r, s, loads)
  PROVE  /\ ps' \in [SessId -> Session] /\ loads' \in Seq(Load)
         /\ Len(loads') <= MaxLoads
         /\ \A t \in SessId : VisitOk(ps'[t], t, loads')
<1>1. ps \in [SessId -> Session] /\ loads \in Seq(Load) /\ Len(loads) <= MaxLoads
  BY DEF Inv, TypeOK
<1>2. \A t \in SessId : ps'[t] = IF t = s THEN r ELSE ps[t]
  BY <1>1
<1>3. ASSUME NEW t \in SessId PROVE VisitOk(ps'[t], t, loads')
  BY <1>2, <1>3 DEF Inv
<1> QED BY <1>1, <1>3

\* The loop's end leaves nothing in flight.
LEMMA EndKeeps ==
  ASSUME Inv, NEW s \in SessId, NEW r \in Session,
         NEW how \in {"ended", "crashed"}, EndLoop(s, r, how)
  PROVE  /\ ps' \in [SessId -> Session] /\ timing' = Disarmed
         /\ loads' \in Seq(Load) /\ Len(loads') <= MaxLoads
         /\ \A t \in SessId : VisitOk(ps'[t], t, loads')
<1> DEFINE e == [r EXCEPT !.pc = how, !.running = FALSE, !.paused = FALSE]
<1>1. e \in Session /\ e.pc = how /\ e.running = FALSE
  BY DEF Session
<1>2. VisitOk(e, s, loads)
  BY <1>1 DEF VisitOk, Playing
<1>3. ps' = [ps EXCEPT ![s] = e] /\ loads' = loads /\ timing' = Disarmed
  BY DEF EndLoop
<1> HIDE DEF e
<1> QED BY <1>1, <1>2, <1>3, OneSession

\* However run_one returns, the loop leaves the sessions in order.
LEMMA ContinueKeeps ==
  ASSUME Inv, NEW s \in SessId, NEW r \in Session, Continue(s, r)
  PROVE  /\ ps' \in [SessId -> Session] /\ timing' \in {timing, Disarmed}
         /\ loads' \in Seq(Load) /\ Len(loads') <= MaxLoads
         /\ \A t \in SessId : VisitOk(ps'[t], t, loads')
  BY CycleKeeps, EndKeeps DEF Continue

-----------------------------------------------------------------------------
\* What is left of the types and of Named, for the actions that touch neither the
\* sessions nor the loads.
LEMMA SameSessions ==
  ASSUME Inv, UNCHANGED <<ps, loads>>
  PROVE  /\ ps' \in [SessId -> Session] /\ loads' \in Seq(Load)
         /\ Len(loads') <= MaxLoads
         /\ \A t \in SessId : VisitOk(ps'[t], t, loads')
  BY DEF Inv, TypeOK

\* Disarming, or leaving the timing alone, is safe.
LEMMA TimingKeeps ==
  ASSUME Inv, timing' \in {timing, Disarmed}, loop' = loop
  PROVE  timing' \in Timing /\ Named'
<1>1. Disarmed \in Timing /\ Disarmed.st = "idle"
  BY PracticeAssumption DEF Disarmed, Timing, Load0
<1> QED BY <1>1 DEF Inv, TypeOK, Named

\* The steps of a session's own task.
LEMMA RunLoopKeeps == ASSUME Inv, NEW s \in SessId, RunLoop(s) PROVE Inv'
<1>0. ps[s] \in Session /\ VisitOk(ps[s], s, loads) /\ MaxLoads \in Nat
  BY PracticeAssumption DEF Inv, TypeOK
<1>1. CASE Begin(s)
  <2>1. [ps[s] EXCEPT !.running = TRUE] \in Session
    BY <1>0 DEF Session
  <2>2. /\ ps' \in [SessId -> Session] /\ timing' \in {timing, Disarmed}
        /\ loads' \in Seq(Load) /\ Len(loads') <= MaxLoads
        /\ \A t \in SessId : VisitOk(ps'[t], t, loads')
    BY <1>1, <2>1, ContinueKeeps DEF Begin
  <2>3. timing' \in Timing /\ Named'
    BY <1>1, <2>2, TimingKeeps DEF Begin
  <2> QED BY <1>1, <2>2, <2>3 DEF Begin, Inv, TypeOK
<1>2. CASE Loaded(s)
  <2> DEFINE r == [ps[s] EXCEPT !.pc = "waiting"]
  <2>0. ps[s].pc = "loading" /\ ps[s].load \in 1 .. Len(loads)
    BY <1>0, <1>2 DEF Loaded, VisitOk, Playing
  <2>1. r \in Session /\ VisitOk(r, s, loads) /\ ps[s].load \in LoadId
    <3>1. r \in Session
      BY <1>0 DEF Session
    <3>2. VisitOk(r, s, loads)
      BY <1>0, <2>0 DEF Session, VisitOk, Playing
    <3>3. ps[s].load \in LoadId
      BY <1>0, <2>0 DEF LoadId, Inv, TypeOK
    <3> QED BY <3>1, <3>2, <3>3
  <2>2. ps' = [ps EXCEPT ![s] = r] /\ loads' = loads
    BY <1>2 DEF Loaded
  <2> HIDE DEF r
  <2>3. /\ ps' \in [SessId -> Session] /\ loads' \in Seq(Load)
        /\ Len(loads') <= MaxLoads /\ \A t \in SessId : VisitOk(ps'[t], t, loads')
    BY <2>1, <2>2, OneSession
  <2> QED BY <1>0, <1>2, <2>1, <2>3
          DEF Loaded, Inv, TypeOK, Named, Armed, Timing, Load0, LoadId
<1>3. CASE LoadFails(s)
  <2>1. /\ ps' \in [SessId -> Session] /\ timing' = Disarmed
        /\ loads' \in Seq(Load) /\ Len(loads') <= MaxLoads
        /\ \A t \in SessId : VisitOk(ps'[t], t, loads')
    BY <1>0, <1>3, EndKeeps DEF LoadFails
  <2>2. timing' \in Timing /\ Named'
    BY <1>3, <2>1, TimingKeeps DEF LoadFails
  <2> QED BY <1>3, <2>1, <2>2 DEF LoadFails, Inv, TypeOK
<1>4. CASE Wake(s)
  <2> DEFINE done == ~ps[s].nav /\ ps[s].result # None
             r == [ps[s] EXCEPT !.nav = FALSE, !.ep = IF done THEN None ELSE @,
                                !.cursor = IF done THEN @ + 1 ELSE @]
  <2> DEFINE c == IF done THEN ps[s].cursor + 1 ELSE ps[s].cursor
             i == IF done THEN None ELSE ps[s].ep
  <2>1. r \in Session
    <3>1. r = [ps[s] EXCEPT !.nav = FALSE, !.ep = i, !.cursor = c]
      BY <1>0 DEF Session
    <3>2. c \in Nat \ {0} /\ i \in LoadId \cup {None}
      BY <1>0 DEF Session
    <3> HIDE DEF r, c, i
    <3> QED BY <1>0, <3>1, <3>2 DEF Session
  <2>2. Continue(s, r)
    BY <1>4 DEF Wake
  <2> HIDE DEF r
  <2>3. /\ ps' \in [SessId -> Session] /\ timing' \in {timing, Disarmed}
        /\ loads' \in Seq(Load) /\ Len(loads') <= MaxLoads
        /\ \A t \in SessId : VisitOk(ps'[t], t, loads')
    BY <2>1, <2>2, ContinueKeeps
  <2>4. rows' \subseteq Row
    BY <1>0, <1>4 DEF Wake, Row, Session, Result, Inv, TypeOK
  <2>5. timing' \in Timing /\ Named'
    BY <1>4, <2>3, TimingKeeps DEF Wake
  <2> QED BY <1>4, <2>3, <2>4, <2>5 DEF Wake, Inv, TypeOK
<1>5. CASE SessionDone(s)
  <2> DEFINE r == [ps[s] EXCEPT !.pc = "done"]
  <2>1. r \in Session /\ VisitOk(r, s, loads)
    BY <1>0, <1>5 DEF SessionDone, Session, VisitOk, Playing
  <2>2. ps' = [ps EXCEPT ![s] = r] /\ loads' = loads
    BY <1>5 DEF SessionDone
  <2> HIDE DEF r
  <2>3. /\ ps' \in [SessId -> Session] /\ loads' \in Seq(Load)
        /\ Len(loads') <= MaxLoads /\ \A t \in SessId : VisitOk(ps'[t], t, loads')
    BY <2>1, <2>2, OneSession
  <2> QED BY <1>5, <2>3 DEF SessionDone, Freeze, Inv, TypeOK, Named
<1> QED BY <1>1, <1>2, <1>3, <1>4, <1>5 DEF RunLoop

\* The user's buttons and keys.
LEMMA UserKeeps == Inv /\ User => Inv'
<1> SUFFICES ASSUME Inv, User PROVE Inv'
  OBVIOUS
<1>1. ASSUME NEW s \in SessId, StartPractice(s) PROVE Inv'
  <2>1. PICK g \in files \cup {None} :
          ps' = [ps EXCEPT ![s] = [Fresh EXCEPT !.pc = "created", !.grind = g]]
    BY <1>1 DEF StartPractice
  <2> DEFINE r == [Fresh EXCEPT !.pc = "created", !.grind = g]
  <2>2. r \in Session /\ VisitOk(r, s, loads)
    <3>1. Fresh \in Session /\ Fresh.armed = FALSE
      BY PracticeAssumption DEF Fresh, Session, Load0, Result
    <3>2. g \in Segs \cup {None}
      BY DEF Inv, TypeOK
    <3>3. r \in Session /\ r.pc = "created" /\ r.armed = FALSE
      BY <3>1, <3>2 DEF Session
    <3> HIDE DEF r
    <3> QED BY <3>3 DEF VisitOk, Playing
  <2>3. ps' = [ps EXCEPT ![s] = r] /\ loads' = loads
    BY <1>1, <2>1 DEF StartPractice
  <2> HIDE DEF r
  <2>4. /\ ps' \in [SessId -> Session] /\ loads' \in Seq(Load)
        /\ Len(loads') <= MaxLoads /\ \A t \in SessId : VisitOk(ps'[t], t, loads')
    BY <2>2, <2>3, OneSession
  <2> QED BY <1>1, <2>4 DEF StartPractice, Inv, TypeOK, Named
<1>2. ASSUME LiveSession, ps' = [ps EXCEPT ![current].running = FALSE],
             loads' = loads
      PROVE  /\ ps' \in [SessId -> Session] /\ loads' \in Seq(Load)
             /\ Len(loads') <= MaxLoads
             /\ \A t \in SessId : VisitOk(ps'[t], t, loads')
  <2>1. current \in SessId /\ ps[current] \in Session
        /\ VisitOk(ps[current], current, loads)
    BY <1>2 DEF LiveSession, Inv, TypeOK
  <2> DEFINE r == [ps[current] EXCEPT !.running = FALSE]
  <2>2. r \in Session /\ VisitOk(r, current, loads)
    BY <2>1 DEF Session, VisitOk, Playing
  <2>3. ps' = [ps EXCEPT ![current] = r]
    BY <1>2
  <2> HIDE DEF r
  <2> QED BY <1>2, <2>1, <2>2, <2>3, OneSession
<1>3. CASE StopPractice
  <2>1. /\ ps' \in [SessId -> Session] /\ loads' \in Seq(Load)
        /\ Len(loads') <= MaxLoads /\ \A t \in SessId : VisitOk(ps'[t], t, loads')
    BY <1>2, <1>3, SameSessions DEF StopPractice
  <2> QED BY <1>3, <2>1 DEF StopPractice, Freeze, Inv, TypeOK, Named
<1>4. CASE SwitchGame
  <2>1. CASE current # 0
    <3>1. current \in SessId /\ ps[current] \in Session
          /\ VisitOk(ps[current], current, loads)
      BY <2>1 DEF Inv, TypeOK
    <3> DEFINE r == [ps[current] EXCEPT !.running = FALSE]
    <3>2. r \in Session /\ VisitOk(r, current, loads)
      BY <3>1 DEF Session, VisitOk, Playing
    <3>3. ps' = [ps EXCEPT ![current] = r] /\ loads' = loads
      BY <1>4, <2>1 DEF SwitchGame
    <3> HIDE DEF r
    <3>4. /\ ps' \in [SessId -> Session] /\ loads' \in Seq(Load)
          /\ Len(loads') <= MaxLoads /\ \A t \in SessId : VisitOk(ps'[t], t, loads')
      BY <3>1, <3>2, <3>3, OneSession
    <3> QED BY <1>4, <3>4 DEF SwitchGame, Inv, TypeOK, Named
  <2>2. CASE current = 0
    BY <1>4, <2>2, SameSessions DEF SwitchGame, Inv, TypeOK, Named
  <2> QED BY <2>1, <2>2
<1>5. ASSUME NEW k \in {"pause", "next", "prev"}, Command(k) PROVE Inv'
  <2>1. Raw(k) \in Event
    BY DEF Raw, Event
  <2> QED BY <1>5, <2>1, SameSessions DEF Command, Inv, TypeOK, Named
<1> QED BY <1>1, <1>3, <1>4, <1>5 DEF User

\* The game, the file system and the tick only queue what was measured on a load.
LEMMA WorldKeeps == Inv /\ (World \/ Tick) => Inv'
<1> SUFFICES ASSUME Inv, World \/ Tick PROVE Inv'
  OBVIOUS
<1>1. ASSUME timing.st # "idle", NEW k \in {"event", "result"}
      PROVE  Emitted(k) \in Event
  BY <1>1 DEF Emitted, Event, Inv, Named
<1>2. Raw("death") \in Event /\ Raw("abort") \in Event
  BY DEF Raw, Event
<1>3. CASE PlayerDies
  <2>1. queue' \in Seq(Event)
    <3>1. CASE timing.st = "playing"
      <4>1. Emitted("event") \in Event
        BY <1>1, <3>1
      <4> QED BY <1>2, <1>3, <3>1, <4>1 DEF PlayerDies, Inv, TypeOK
    <3>2. CASE timing.st # "playing"
      BY <1>2, <1>3, <3>2 DEF PlayerDies, Inv, TypeOK
    <3> QED BY <3>1, <3>2
  <2> QED BY <1>3, <2>1, SameSessions DEF PlayerDies, Inv, TypeOK, Named
<1>4. CASE PlayerAborts
  <2>1. timing' \in Timing /\ Named'
    BY <1>4 DEF PlayerAborts, Inv, TypeOK, Timing, Named
  <2> QED BY <1>2, <1>4, <2>1, SameSessions DEF PlayerAborts, Inv, TypeOK
<1>5. CASE PlayerFinishes
  <2>1. timing' \in Timing /\ Named'
    BY <1>5 DEF PlayerFinishes, Inv, TypeOK, Timing, Named
  <2>2. Emitted("event") \in Event
    BY <1>1, <1>5 DEF PlayerFinishes
  <2> QED BY <1>5, <2>1, <2>2, SameSessions DEF PlayerFinishes, Inv, TypeOK
<1>6. CASE FileVanishes
  BY <1>6, SameSessions DEF FileVanishes, Inv, TypeOK, Named
<1>7. CASE Tick
  <2>1. Emitted("result") \in Event
    BY <1>1, <1>7 DEF Tick
  <2>2. timing' \in Timing /\ Named'
    BY <1>7, TimingKeeps DEF Tick
  <2> QED BY <1>7, <2>1, <2>2, SameSessions DEF Tick, Inv, TypeOK
<1> QED BY <1>3, <1>4, <1>5, <1>6, <1>7 DEF World

-----------------------------------------------------------------------------
\* What an event handler takes is an event.
LEMMA TakesOk ==
  ASSUME Inv, NEW kinds, Takes(kinds)
  PROVE  Head(queue) \in Event /\ Head(queue).k \in kinds /\ queue' \in Seq(Event)
  BY DEF Inv, TypeOK, Takes

\* The session the event loop works on.
LEMMA PractisingOk ==
  ASSUME Inv, Practising
  PROVE  /\ current \in SessId /\ ps[current] \in Session
         /\ VisitOk(ps[current], current, loads)
  BY DEF Inv, TypeOK, Practising

\* A row is written for the attempt it was emitted for.
LEMMA EventKeeps == ASSUME Inv, HandleEvent PROVE Inv'
<1> DEFINE l == Head(queue).load
           r == [ps[current] EXCEPT !.ep = l]
<1>1. queue' \in Seq(Event) /\ l \in LoadId
  BY TakesOk DEF HandleEvent, Event
<1>2. CASE Practising
  <2>1. /\ current \in SessId /\ ps[current] \in Session
        /\ VisitOk(ps[current], current, loads)
    BY <1>2, PractisingOk
  <2>2. ps' = [ps EXCEPT ![current] = r] /\ loads' = loads
        /\ rows' = rows \cup {[sess |-> current, load |-> l, how |-> "event"]}
    BY <1>2 DEF HandleEvent
  <2> HIDE DEF l
  <2>3. r \in Session /\ VisitOk(r, current, loads)
    BY <1>1, <2>1 DEF Session, VisitOk, Playing
  <2>4. rows' \subseteq Row
    BY <1>1, <2>1, <2>2 DEF Row, Inv, TypeOK
  <2> HIDE DEF r
  <2>5. /\ ps' \in [SessId -> Session] /\ loads' \in Seq(Load)
        /\ Len(loads') <= MaxLoads /\ \A t \in SessId : VisitOk(ps'[t], t, loads')
    BY <2>1, <2>2, <2>3, OneSession
  <2> QED BY <1>1, <2>4, <2>5 DEF HandleEvent, Inv, TypeOK, Named
<1>3. CASE ~Practising
  BY <1>1, <1>3, SameSessions DEF HandleEvent, Inv, TypeOK, Named
<1> QED BY <1>2, <1>3

\* A result disarms the attempt and wakes run_one; a death touches nothing.
LEMMA ResultKeeps == ASSUME Inv, HandleResult \/ HandleDeath PROVE Inv'
<1>1. CASE HandleDeath
  <2>1. queue' \in Seq(Event)
    BY <1>1, TakesOk DEF HandleDeath
  <2>2. loop' \in Loop /\ loop'.op # "resume"
    BY <1>1, PracticeAssumption DEF HandleDeath, Loop, Free, Load0
  <2> QED BY <1>1, <2>1, <2>2, SameSessions DEF HandleDeath, Inv, TypeOK, Named
<1>2. CASE HandleResult /\ Practising
  <2> DEFINE l == Head(queue).load
             r == [ps[current] EXCEPT !.armed = FALSE, !.woke = TRUE, !.result = l]
  <2>1. queue' \in Seq(Event) /\ l \in LoadId
    BY <1>2, TakesOk DEF HandleResult, Event
  <2>2. /\ current \in SessId /\ ps[current] \in Session
        /\ VisitOk(ps[current], current, loads)
    BY <1>2, PractisingOk
  <2>3. ps' = [ps EXCEPT ![current] = r] /\ loads' = loads
    BY <1>2, <2>2 DEF HandleResult, Inv, TypeOK
  <2> HIDE DEF l
  <2>4. r \in Session /\ VisitOk(r, current, loads)
    BY <2>1, <2>2 DEF Session, Result, VisitOk, Playing
  <2> HIDE DEF r
  <2>5. /\ ps' \in [SessId -> Session] /\ loads' \in Seq(Load)
        /\ Len(loads') <= MaxLoads /\ \A t \in SessId : VisitOk(ps'[t], t, loads')
    BY <2>2, <2>3, <2>4, OneSession
  <2> QED BY <1>2, <2>1, <2>5 DEF HandleResult, Inv, TypeOK, Named
<1>3. CASE HandleResult /\ ~Practising
  <2>1. queue' \in Seq(Event)
    BY <1>3, TakesOk DEF HandleResult
  <2> QED BY <1>3, <2>1, SameSessions DEF HandleResult, Inv, TypeOK, Named
<1> QED BY <1>1, <1>2, <1>3

\* Resuming loads the entry the session is on.
LEMMA PauseKeeps == ASSUME Inv, HandlePause PROVE Inv'
<1>1. queue' \in Seq(Event)
  BY TakesOk DEF HandlePause
<1>2. CASE ~InFlight
  BY <1>1, <1>2, SameSessions DEF HandlePause, Inv, TypeOK, Named
<1>3. ASSUME InFlight
      PROVE  /\ current \in SessId /\ ps[current] \in Session
             /\ VisitOk(ps[current], current, loads) /\ Playing(ps[current])
  BY <1>3, PractisingOk DEF InFlight, VisitOk
<1>4. CASE InFlight /\ ~ps[current].paused
  <2> DEFINE r == [ps[current] EXCEPT !.paused = TRUE]
  <2>1. ps' = [ps EXCEPT ![current] = r] /\ loads' = loads
        /\ timing' = Disarmed /\ loop' = loop
    BY <1>3, <1>4 DEF HandlePause
  <2>2. r \in Session /\ VisitOk(r, current, loads)
    BY <1>3, <1>4 DEF Session, VisitOk, Playing
  <2> HIDE DEF r
  <2>3. /\ ps' \in [SessId -> Session] /\ loads' \in Seq(Load)
        /\ Len(loads') <= MaxLoads /\ \A t \in SessId : VisitOk(ps'[t], t, loads')
    BY <1>3, <1>4, <2>1, <2>2, OneSession
  <2>4. timing' \in Timing /\ Named'
    BY <2>1, TimingKeeps
  <2> QED BY <1>1, <2>1, <2>3, <2>4 DEF HandlePause, Inv, TypeOK
<1>5. CASE InFlight /\ ps[current].paused
  <2> DEFINE n == Len(loads) + 1
             old == ps[current]
             l == [seg |-> SegmentOf(old), sess |-> current]
             r == [old EXCEPT !.paused = FALSE, !.ep = None, !.load = n]
  <2>1. ps' = [ps EXCEPT ![current] = r] /\ loads' = Append(loads, l)
        /\ Len(loads) < MaxLoads /\ timing' = timing
        /\ loop' = [op |-> "resume", load |-> n]
    BY <1>3, <1>5 DEF HandlePause, Issue
  <2>2. n \in LoadId /\ Len(loads) \in Nat /\ loads \in Seq(Load)
    BY <2>1, PracticeAssumption DEF LoadId, Inv, TypeOK
  <2>3. l \in Load
    <3>1. old.grind \in Segs \cup {None} /\ old.hist \in Seq(Segs)
      BY <1>3, <1>5 DEF Session
    <3>2. old.grind = None => old.at \in 1 .. Len(old.hist)
      BY <1>3, <1>5 DEF VisitOk
    <3>3. SegmentOf(old) \in Segs
      BY <3>1, <3>2 DEF SegmentOf
    <3> QED BY <1>3, <1>5, <3>3 DEF Load
  <2>4. loads' \in Seq(Load) /\ Len(loads') = n /\ loads'[n] = l
    BY <2>1, <2>2, <2>3
  <2>5. r \in Session
    <3>1. old \in Session /\ n \in Load0 /\ None \in LoadId \cup {None}
      BY <1>3, <1>5, <2>2 DEF Load0, LoadId
    <3> HIDE DEF old, n
    <3> QED BY <3>1 DEF Session
  <2>6. VisitOk(r, current, loads')
    <3>1. /\ r.pc = old.pc /\ r.grind = old.grind /\ r.hist = old.hist
          /\ r.at = old.at /\ r.nav = old.nav /\ r.cursor = old.cursor
          /\ r.woke = old.woke /\ r.armed = old.armed /\ r.load = n
      BY <1>3, <1>5 DEF Session
    <3>2. Playing(r) /\ n \in 1 .. Len(loads')
      BY <1>3, <1>5, <2>2, <2>4, <3>1 DEF Playing
    <3> HIDE DEF r
    <3> QED BY <1>3, <1>5, <2>4, <3>1, <3>2 DEF VisitOk, SegmentOf
  <2>7. ASSUME NEW t \in SessId PROVE VisitOk(ps'[t], t, loads')
    <3>1. CASE t = current
      BY <2>1, <2>6, <3>1, <1>3, <1>5 DEF Inv, TypeOK
    <3>2. CASE t # current
      BY <2>1, <2>2, <2>3, <3>2, IssueKeeps DEF Inv, TypeOK
    <3> QED BY <3>1, <3>2
  <2>8. ps' \in [SessId -> Session]
    BY <2>1, <2>5 DEF Inv, TypeOK
  <2>9. loop' \in Loop /\ Named'
    BY <2>1, <2>2 DEF Loop, Load0, LoadId, Named, Inv
  <2>10. Len(loads') <= MaxLoads
    BY <2>1, <2>2, <2>4, PracticeAssumption
  <2> QED BY <1>1, <2>1, <2>4, <2>7, <2>8, <2>9, <2>10
          DEF HandlePause, Inv, TypeOK
<1> QED BY <1>2, <1>4, <1>5

\* A navigation starts from the entry in flight, so the cursor leaves it by one.
LEMMA NavKeeps == ASSUME Inv, HandleNav PROVE Inv'
<1> DEFINE k == Head(queue).k
           ok == NavOk /\ (k = "prev" => PrevOk)
<1>1. queue' \in Seq(Event) /\ k \in {"next", "prev"}
  BY TakesOk DEF HandleNav
<1>2. CASE ~ok
  BY <1>1, <1>2, SameSessions DEF HandleNav, Inv, TypeOK, Named
<1>3. CASE ok
  <2> DEFINE old == ps[current]
             c == IF k = "next" THEN old.cursor + 1 ELSE old.cursor - 1
             r == Dropped(old, c)
  <2>1. /\ current \in SessId /\ old \in Session /\ VisitOk(old, current, loads)
        /\ old.running /\ old.armed
    BY <1>3, PractisingOk DEF NavOk, InFlight
  <2>2. c \in Nat \ {0} /\ c \in {old.cursor - 1, old.cursor + 1}
    BY <1>1, <1>3, <2>1 DEF Session, PrevOk
  <2>3. ps' = [ps EXCEPT ![current] = r] /\ loads' = loads
        /\ timing' = Disarmed /\ loop' = loop
    BY <1>3 DEF HandleNav
  <2> HIDE DEF c
  <2>4. r \in Session
    BY <2>1, <2>2 DEF Session, Dropped
  <2>5. /\ r.pc = old.pc /\ r.grind = old.grind /\ r.hist = old.hist
        /\ r.at = old.at /\ r.load = old.load /\ r.cursor = c
        /\ r.nav = TRUE /\ r.woke = TRUE /\ r.armed = FALSE
    BY <2>1 DEF Session, Dropped
  <2> HIDE DEF r
  <2>6. VisitOk(r, current, loads)
    <3>1. Playing(old) /\ (old.grind = None => old.cursor = old.at)
      BY <2>1 DEF VisitOk, Session
    <3> QED BY <2>1, <2>2, <2>5, <3>1 DEF VisitOk, Playing
  <2>7. /\ ps' \in [SessId -> Session] /\ loads' \in Seq(Load)
        /\ Len(loads') <= MaxLoads /\ \A t \in SessId : VisitOk(ps'[t], t, loads')
    BY <2>1, <2>3, <2>4, <2>6, OneSession
  <2>8. timing' \in Timing /\ Named'
    BY <2>3, TimingKeeps
  <2> QED BY <1>1, <2>7, <2>8 DEF HandleNav, Inv, TypeOK
<1> QED BY <1>2, <1>3

\* The event loop's load returns or fails.
LEMMA ReturnKeeps == ASSUME Inv, LoopReturns \/ LoopFails PROVE Inv'
<1>1. Free \in Loop /\ Free.op = "none"
  BY PracticeAssumption DEF Free, Loop, Load0
<1>2. CASE LoopReturns
  <2>1. timing' \in Timing /\ Named'
    BY <1>1, <1>2 DEF LoopReturns, Armed, Timing, Load0, LoadId, Inv, TypeOK, Named
  <2> QED BY <1>1, <1>2, <2>1, SameSessions DEF LoopReturns, Inv, TypeOK
<1>3. CASE LoopFails
  BY <1>1, <1>3, SameSessions DEF LoopFails, Inv, TypeOK, Named
<1> QED BY <1>2, <1>3

-----------------------------------------------------------------------------
\* No step of any actor breaks the invariant.
LEMMA NextKeepsInv == Inv /\ [Next]_vars => Inv'
<1> SUFFICES ASSUME Inv, [Next]_vars PROVE Inv'
  OBVIOUS
<1>1. ASSUME NEW s \in SessId, RunLoop(s) PROVE Inv'
  BY <1>1, RunLoopKeeps
<1>2. CASE User \/ World \/ Tick
  BY <1>2, UserKeeps, WorldKeeps
<1>3. CASE Handles
  BY <1>3, EventKeeps, ResultKeeps, PauseKeeps, NavKeeps DEF Handles
<1>4. CASE LoopReturns \/ LoopFails
  BY <1>4, ReturnKeeps
<1>5. CASE UNCHANGED vars
  BY <1>5, SameSessions DEF vars, Inv, TypeOK, Named
<1> QED BY <1>1, <1>2, <1>3, <1>4, <1>5 DEF Next

\* So the invariant holds in every state the program reaches.
LEMMA SpecInv == Spec => []Inv
  BY InitInv, NextKeepsInv, PTL DEF Spec

\* Every variable keeps its type: a cursor never goes below the first entry, a
\* row or a result never names an attempt that was not loaded.
THEOREM TypeCorrect == Spec => []TypeOK
  BY SpecInv, InvImplies, PTL

\* Whatever keys, results, pauses, stops, restarts and vanished files come in, a
\* session's cursor is on the entry it plays, or one off it after one navigation.
THEOREM CursorStaysWithVisit == Spec => []CursorFollowsVisit
  BY SpecInv, InvImplies, PTL

-----------------------------------------------------------------------------
(* A user who acts only when everything has settled.                        *)
(*                                                                         *)
(* Then no session outlives the one started after it, so what is queued,   *)
(* timed or resumed is of the current session.  What makes it inductive is *)
(* that a key waits in the queue only while nothing else can move: a       *)
(* session that is resumed is still waiting when its load is issued.       *)

Keys == {"pause", "next", "prev"}

SettledInv ==
    /\ \A s \in SessId : s # current => ps[s].pc \in {"none", "done"}
    /\ \A s \in SessId : /\ ps[s].running => Playing(ps[s])
                         /\ ps[s].armed => ~ps[s].woke
    /\ \A i \in 1 .. Len(queue) :
          queue[i].k \in Keys => i = 1 /\ loop = Free /\ \A s \in SessId : Settled(ps[s])
    /\ current # 0 /\ (ps[current].running \/ ps[current].pc = "created")
         => mode = "practice" /\ snap = "live"
    /\ mode = "practice" => current # 0 /\ ps[current].pc # "done"
    /\ loop.op = "resume" => /\ current # 0 /\ ps[current].pc = "waiting"
                             /\ ps[current].running /\ ~ps[current].woke
                             /\ loop.load = ps[current].load

NoKeys == \A i \in 1 .. Len(queue) : queue[i].k \notin Keys

\* A step of the current session, from which on no key waits.
LEMMA SettledSession ==
  ASSUME Inv, SettledInv, current # 0, NEW q \in Session, ps' = [ps EXCEPT ![current] = q],
         current' = current, NoKeys',
         q.running => Playing(q), q.armed => ~q.woke,
         q.running \/ q.pc = "created" => mode' = "practice" /\ snap' = "live",
         mode' = "practice" => q.pc # "done",
         loop'.op = "resume" => /\ q.pc = "waiting" /\ q.running /\ ~q.woke
                                /\ loop'.load = q.load
  PROVE  SettledInv'
<1>1. current \in SessId /\ ps \in [SessId -> Session]
  BY DEF Inv, TypeOK
<1>2. ps'[current'] = q /\ \A s \in SessId : s # current => ps'[s] = ps[s]
  BY <1>1
<1>3. \A s \in SessId : s # current' => ps'[s].pc \in {"none", "done"}
  BY <1>2 DEF SettledInv
<1>4. \A s \in SessId : /\ ps'[s].running => Playing(ps'[s])
                        /\ ps'[s].armed => ~ps'[s].woke
  BY <1>2 DEF SettledInv
<1> QED BY <1>2, <1>3, <1>4 DEF SettledInv, NoKeys

\* A step that leaves the sessions, the mode and the snapshot alone.
LEMMA SettledSame ==
  ASSUME SettledInv, UNCHANGED <<ps, current, mode, snap>>,
         loop'.op = "resume" => loop' = loop,
         \A i \in 1 .. Len(queue') :
            queue'[i].k \in Keys => i = 1 /\ loop' = Free /\ \A s \in SessId : Settled(ps[s])
  PROVE  SettledInv'
  BY DEF SettledInv

\* A task that can run has not settled, so it is the current session's, and
\* neither a key nor a resume waits.
LEMMA TaskRuns ==
  ASSUME Inv, SettledInv, NEW s \in SessId, RunLoop(s)
  PROVE  s = current /\ current # 0 /\ NoKeys /\ loop.op # "resume"
<1>1. ~Settled(ps[s]) /\ ps[s].pc \notin {"none", "done"}
  BY DEF RunLoop, Begin, Loaded, LoadFails, Wake, Waits, SessionDone, Settled
<1>2. s = current
  BY <1>1 DEF SettledInv
<1>3. current # 0
  BY <1>2 DEF SessId
<1>4. NoKeys
  BY <1>1 DEF SettledInv, NoKeys
<1>5. loop.op # "resume"
  BY <1>1, <1>2 DEF SettledInv, Settled
<1> QED BY <1>2, <1>3, <1>4, <1>5

\* What comes of a task that goes on, r being its session and q what that
\* becomes: another cycle, ...
Cycles(s, r, q) ==
    /\ r.running /\ q.pc = "loading" /\ q.running = r.running
    /\ q.load = Len(loads) + 1 /\ q.armed /\ ~q.woke /\ q.result = None
    /\ timing' = timing /\ Len(loads') = Len(loads) + 1 /\ loads'[Len(loads) + 1].sess = s

\* ... or the end.
Ends(r, q) ==
    /\ q.pc = "ended" /\ ~q.running /\ q.armed = r.armed /\ q.woke = r.woke
    /\ q.result = r.result /\ timing' = Disarmed /\ loads' = loads

LEMMA ContinueEffect ==
  ASSUME Inv, NEW s \in SessId, NEW r \in Session, Continue(s, r)
  PROVE  \E q \in Session :
           ps' = [ps EXCEPT ![s] = q] /\ (Cycles(s, r, q) \/ Ends(r, q))
<1>1. CASE r.running /\ BeginCycle(s, r)
  <2> DEFINE n == Len(loads) + 1
             go(e) == [r EXCEPT !.pc = "loading", !.hist = e.hist, !.at = e.at,
                                !.cursor = e.at, !.load = n,
                                !.armed = TRUE, !.nav = FALSE, !.woke = FALSE,
                                !.result = None, !.ep = None]
  <2>1. PICK e \in Entries(r) : /\ ps' = [ps EXCEPT ![s] = go(e)]
                                /\ Issue(SegmentOf(go(e)), s) /\ timing' = timing
    BY <1>1 DEF BeginCycle
  <2>2. ps \in [SessId -> Session] /\ ps' \in [SessId -> Session] /\ loads \in Seq(Load)
        /\ loads' \in Seq(Load)
    BY <1>1, CycleKeeps DEF Inv, TypeOK
  <2>3. go(e) \in Session
    <3>1. ps'[s] = go(e)
      BY <2>1, <2>2
    <3> HIDE DEF go
    <3> QED BY <2>2, <3>1
  <2>4. /\ go(e).pc = "loading" /\ go(e).load = n /\ go(e).armed = TRUE /\ go(e).woke = FALSE
        /\ go(e).result = None /\ go(e).running = r.running
    BY DEF Session
  <2> HIDE DEF go
  <2>5. loads' = Append(loads, [seg |-> SegmentOf(go(e)), sess |-> s])
    BY <2>1 DEF Issue
  <2>6. Len(loads') = n /\ loads'[n].sess = s
    BY <2>2, <2>5
  <2> QED BY <1>1, <2>1, <2>3, <2>4, <2>6 DEF Cycles
<1>2. CASE EndLoop(s, r, "ended")
  <2> DEFINE q == [r EXCEPT !.pc = "ended", !.running = FALSE, !.paused = FALSE]
  <2>1. /\ q \in Session /\ q.pc = "ended" /\ q.running = FALSE /\ q.armed = r.armed
        /\ q.woke = r.woke /\ q.result = r.result
    BY DEF Session
  <2>2. ps' = [ps EXCEPT ![s] = q] /\ timing' = Disarmed /\ loads' = loads
    BY <1>2 DEF EndLoop
  <2> HIDE DEF q
  <2> QED BY <2>1, <2>2 DEF Ends
<1> QED BY <1>1, <1>2 DEF Continue

\* The session as Begin and Wake hand it on.
LEMMA HandedOn ==
  ASSUME Inv, NEW s \in SessId, Begin(s) \/ Wake(s)
  PROVE  \E r \in Session :
           /\ Continue(s, r) /\ r.armed = ps[s].armed /\ r.woke = ps[s].woke
           /\ r.result = ps[s].result /\ (Wake(s) => r.running = ps[s].running)
<1>0. ps[s] \in Session
  BY DEF Inv, TypeOK
<1>1. CASE Begin(s)
  <2> DEFINE r == [ps[s] EXCEPT !.running = TRUE]
  <2>1. /\ r \in Session /\ r.armed = ps[s].armed /\ r.woke = ps[s].woke
        /\ r.result = ps[s].result
    BY <1>0 DEF Session
  <2>2. Continue(s, r) /\ ~Wake(s)
    BY <1>1 DEF Begin, Wake
  <2> HIDE DEF r
  <2> QED BY <2>1, <2>2
<1>2. CASE Wake(s)
  <2> DEFINE done == ~ps[s].nav /\ ps[s].result # None
             c == IF done THEN ps[s].cursor + 1 ELSE ps[s].cursor
             i == IF done THEN None ELSE ps[s].ep
             r == [ps[s] EXCEPT !.nav = FALSE, !.ep = i, !.cursor = c]
  <2>1. c \in Nat \ {0} /\ i \in LoadId \cup {None}
    BY <1>0 DEF Session
  <2>2. Continue(s, [ps[s] EXCEPT !.nav = FALSE, !.ep = IF done THEN None ELSE @,
                                  !.cursor = IF done THEN @ + 1 ELSE @])
    BY <1>2 DEF Wake
  <2>3. [ps[s] EXCEPT !.nav = FALSE, !.ep = IF done THEN None ELSE @,
                      !.cursor = IF done THEN @ + 1 ELSE @] = r
    BY <1>0 DEF Session
  <2>4. Continue(s, r)
    BY <2>2, <2>3
  <2> HIDE DEF c, i
  <2>5. /\ r \in Session /\ r.armed = ps[s].armed /\ r.woke = ps[s].woke
        /\ r.result = ps[s].result /\ r.running = ps[s].running
    BY <1>0, <2>1 DEF Session
  <2> HIDE DEF r
  <2> QED BY <2>4, <2>5
<1> QED BY <1>1, <1>2

LEMMA SettledTask == ASSUME Inv, SettledInv, NEW s \in SessId, RunLoop(s) PROVE SettledInv'
<1>0. /\ s = current /\ current # 0 /\ NoKeys /\ loop.op # "resume" /\ ps[s] \in Session
      /\ (ps[s].running => Playing(ps[s])) /\ (ps[s].armed => ~ps[s].woke)
  BY TaskRuns DEF SettledInv, Inv, TypeOK
<1>1. UNCHANGED <<current, queue, loop>>
  BY DEF RunLoop, Begin, Loaded, LoadFails, Wake, SessionDone
<1>2. NoKeys' /\ loop'.op # "resume"
  BY <1>0, <1>1 DEF NoKeys
<1>3. CASE Begin(s) \/ Wake(s)
  <2>1. mode' = mode /\ snap' = snap
    BY <1>3 DEF Begin, Wake
  <2>2. ps[s].running \/ ps[s].pc = "created" => mode = "practice" /\ snap = "live"
    BY <1>0 DEF SettledInv
  <2>3. PICK r \in Session :
           /\ Continue(s, r) /\ r.armed = ps[s].armed /\ r.woke = ps[s].woke
           /\ r.result = ps[s].result /\ (Wake(s) => r.running = ps[s].running)
    BY <1>3, HandedOn
  <2>4. r.running => mode = "practice" /\ snap = "live"
    BY <1>3, <2>2, <2>3 DEF Begin
  <2>5. PICK q \in Session :
           ps' = [ps EXCEPT ![s] = q] /\ (Cycles(s, r, q) \/ Ends(r, q))
    BY <2>3, ContinueEffect
  <2>6. /\ (q.running => Playing(q) /\ r.running) /\ (q.armed => ~q.woke)
        /\ q.pc \notin {"created", "done"}
    BY <1>0, <2>3, <2>5 DEF Playing, Cycles, Ends
  <2> QED BY <1>0, <1>1, <1>2, <2>1, <2>4, <2>5, <2>6, SettledSession
<1>4. CASE Loaded(s)
  <2> DEFINE q == [ps[s] EXCEPT !.pc = "waiting"]
  <2>1. /\ q \in Session /\ q.pc = "waiting" /\ q.running = ps[s].running
        /\ q.armed = ps[s].armed /\ q.woke = ps[s].woke
    BY <1>0 DEF Session
  <2>2. ps' = [ps EXCEPT ![s] = q] /\ mode' = mode /\ snap' = snap
    BY <1>4 DEF Loaded
  <2>3. ps[s].running => mode = "practice" /\ snap = "live"
    BY <1>0 DEF SettledInv
  <2> HIDE DEF q
  <2> QED BY <1>0, <1>1, <1>2, <2>1, <2>2, <2>3, SettledSession DEF Playing
<1>5. CASE LoadFails(s)
  <2> DEFINE q == [ps[s] EXCEPT !.pc = "crashed", !.running = FALSE, !.paused = FALSE]
  <2>1. /\ q \in Session /\ q.pc = "crashed" /\ q.running = FALSE
        /\ q.armed = ps[s].armed /\ q.woke = ps[s].woke
    BY <1>0 DEF Session
  <2>2. ps' = [ps EXCEPT ![s] = q] /\ mode' = mode /\ snap' = snap
    BY <1>5 DEF LoadFails, EndLoop
  <2> HIDE DEF q
  <2> QED BY <1>0, <1>1, <1>2, <2>1, <2>2, SettledSession
<1>6. CASE SessionDone(s)
  <2> DEFINE q == [ps[s] EXCEPT !.pc = "done"]
  <2>1. /\ q \in Session /\ q.pc = "done" /\ q.running = ps[s].running
        /\ q.armed = ps[s].armed /\ q.woke = ps[s].woke
    BY <1>0 DEF Session
  <2>2. ps' = [ps EXCEPT ![s] = q] /\ mode' # "practice" /\ ~ps[s].running
    BY <1>0, <1>6 DEF SessionDone, Playing
  <2> HIDE DEF q
  <2> QED BY <1>0, <1>1, <1>2, <2>1, <2>2, SettledSession
<1> QED BY <1>3, <1>4, <1>5, <1>6 DEF RunLoop

\* A session starts only when none is under way.
LEMMA StartsAlone ==
  ASSUME SettledInv, Pace = "settled", NEW s \in SessId, StartPractice(s)
  PROVE  /\ queue = <<>> /\ loop = Free /\ \A t \in SessId : ps[t].pc \in {"none", "done"}
<1>1. queue = <<>> /\ loop = Free /\ \A t \in SessId : Settled(ps[t])
  BY DEF StartPractice, Calm
<1>2. ASSUME NEW t \in SessId PROVE ps[t].pc \in {"none", "done"}
  <2>1. CASE t # current
    BY <2>1 DEF SettledInv
  <2>2. CASE t = current
    <3>1. current # 0 /\ ~ps[current].running
      BY <2>2 DEF StartPractice, LiveSession, SessId
    <3> QED BY <1>1, <2>2, <3>1 DEF Settled
  <2> QED BY <2>1, <2>2
<1> QED BY <1>1, <1>2

LEMMA SettledUser == ASSUME Inv, SettledInv, Pace = "settled", User PROVE SettledInv'
<1>0. Calm => loop = Free /\ queue = <<>> /\ \A s \in SessId : Settled(ps[s])
  BY DEF Calm
<1>1. Free.op # "resume" /\ 1 .. Len(<<>>) = {}
  BY DEF Free
<1>2. ASSUME NEW s \in SessId, StartPractice(s) PROVE SettledInv'
  <2>1. /\ loop = Free /\ queue = <<>> /\ \A t \in SessId : Settled(ps[t])
        /\ UNCHANGED <<loop, queue>> /\ current' = s /\ mode' = "practice" /\ snap' = "live"
    BY <1>0, <1>2 DEF StartPractice
  <2>2. \A t \in SessId : ps[t].pc \in {"none", "done"}
    BY <1>2, StartsAlone
  <2>3. PICK g : ps' = [ps EXCEPT ![s] = [Fresh EXCEPT !.pc = "created", !.grind = g]]
    BY <1>2 DEF StartPractice
  <2>4. /\ ps'[s].pc = "created" /\ ~ps'[s].running /\ ~ps'[s].armed
        /\ \A t \in SessId : t # s => ps'[t] = ps[t]
    BY <2>3 DEF Inv, TypeOK, Fresh
  <2>5. s # 0
    BY DEF SessId
  <2>6. \A t \in SessId : t # current' => ps'[t].pc \in {"none", "done"}
    BY <2>1, <2>2, <2>4
  <2>7. \A t \in SessId : /\ ps'[t].running => Playing(ps'[t])
                         /\ ps'[t].armed => ~ps'[t].woke
    BY <2>4 DEF SettledInv
  <2> QED BY <1>1, <2>1, <2>4, <2>5, <2>6, <2>7 DEF SettledInv
<1>3. ASSUME Calm, UNCHANGED <<current, queue, loop>>, mode' = "idle", current # 0,
             ps' = [ps EXCEPT ![current].running = FALSE]
      PROVE  SettledInv'
  <2> DEFINE q == [ps[current] EXCEPT !.running = FALSE]
  <2>1. current \in SessId /\ ps[current] \in Session
    BY <1>3 DEF Inv, TypeOK
  <2>2. q \in Session /\ q.running = FALSE /\ q.pc = ps[current].pc
        /\ q.armed = ps[current].armed /\ q.woke = ps[current].woke
    BY <2>1 DEF Session
  <2>3. ps' = [ps EXCEPT ![current] = q]
    BY <1>3
  <2> HIDE DEF q
  <2>4. q.pc # "created" /\ (q.armed => ~q.woke)
    BY <1>0, <1>3, <2>1, <2>2 DEF Settled, SettledInv
  <2>5. NoKeys' /\ loop'.op # "resume"
    BY <1>0, <1>1, <1>3 DEF NoKeys
  <2> QED BY <1>3, <2>2, <2>3, <2>4, <2>5, SettledSession
<1>4. ASSUME Calm, UNCHANGED <<current, queue, loop, ps>>, mode' = "idle",
             current # 0 => ~ps[current].running
      PROVE  SettledInv'
  <2>1. current # 0 => ~ps[current].running /\ ps[current].pc # "created"
    BY <1>0, <1>4 DEF Settled, Inv, TypeOK
  <2> QED BY <1>0, <1>1, <1>4, <2>1 DEF SettledInv
<1>5. CASE StopPractice
  BY <1>3, <1>4, <1>5 DEF StopPractice, LiveSession
<1>6. CASE SwitchGame
  BY <1>3, <1>4, <1>6 DEF SwitchGame
<1>7. ASSUME NEW k \in {"pause", "next", "prev"}, Command(k) PROVE SettledInv'
  <2>1. queue' = <<Raw(k)>> /\ loop = Free /\ \A s \in SessId : Settled(ps[s])
    BY <1>0, <1>7 DEF Command
  <2>2. \A i \in 1 .. Len(queue') : i = 1
    BY <2>1
  <2> QED BY <1>7, <2>1, <2>2, SettledSame DEF Command
<1> QED BY <1>2, <1>5, <1>6, <1>7 DEF User

LEMMA SettledWorld == ASSUME Inv, SettledInv, World \/ Tick PROVE SettledInv'
<1>0. queue \in Seq(Event) /\ UNCHANGED <<ps, current, mode, snap, loop>>
  BY DEF Inv, TypeOK, World, Tick, PlayerDies, PlayerAborts, PlayerFinishes, FileVanishes
<1>1. ASSUME NEW e, e.k \notin Keys, queue' = Append(queue, e) PROVE SettledInv'
  <2>1. \A i \in 1 .. Len(queue') :
           queue'[i] = e \/ (i \in 1 .. Len(queue) /\ queue'[i] = queue[i])
    BY <1>0, <1>1
  <2> QED BY <1>0, <1>1, <2>1, SettledSame DEF SettledInv
<1>2. ASSUME NEW e, NEW f, e.k \notin Keys, f.k \notin Keys, queue' = queue \o <<e, f>>
      PROVE  SettledInv'
  <2>1. \A i \in 1 .. Len(queue') :
           queue'[i] \in {e, f} \/ (i \in 1 .. Len(queue) /\ queue'[i] = queue[i])
    BY <1>0, <1>2
  <2> QED BY <1>0, <1>2, <2>1, SettledSame DEF SettledInv
<1>3. /\ \A k : k \notin Keys => Raw(k).k \notin Keys /\ Emitted(k).k \notin Keys
      /\ {"event", "result", "death", "abort"} \cap Keys = {}
  BY DEF Raw, Emitted, Keys
<1>4. CASE PlayerDies
  BY <1>1, <1>2, <1>3, <1>4 DEF PlayerDies
<1>5. CASE PlayerAborts \/ PlayerFinishes \/ Tick
  BY <1>1, <1>3, <1>5 DEF PlayerAborts, PlayerFinishes, Tick
<1>6. CASE FileVanishes
  BY <1>0, <1>6, SettledSame DEF FileVanishes, SettledInv
<1> QED BY <1>4, <1>5, <1>6 DEF World

\* When an event is taken no key is left: one waits only at the head.
LEMMA TakesKeys ==
  ASSUME Inv, SettledInv, NEW kinds, Takes(kinds)
  PROVE  /\ NoKeys' /\ loop = Free
         /\ Head(queue).k \in Keys => \A s \in SessId : Settled(ps[s])
<1>1. queue \in Seq(Event) /\ queue # <<>> /\ queue' = Tail(queue) /\ loop = Free
  BY DEF Inv, TypeOK, Takes
<1>2. /\ Head(queue) = queue[1] /\ 1 \in 1 .. Len(queue)
      /\ \A i \in 1 .. Len(queue') : /\ queue'[i] = queue[i + 1] /\ i + 1 # 1
                                     /\ i + 1 \in 1 .. Len(queue)
  BY <1>1
<1>3. NoKeys'
  BY <1>2 DEF SettledInv, NoKeys
<1> QED BY <1>1, <1>2, <1>3 DEF SettledInv

LEMMA SettledHandles == ASSUME Inv, SettledInv, Handles PROVE SettledInv'
<1>0. NoKeys' /\ loop = Free /\ loop.op # "resume" /\ Free.op # "resume"
      /\ (Head(queue).k \in Keys => \A s \in SessId : Settled(ps[s]))
  BY TakesKeys DEF Handles, HandleEvent, HandleResult, HandleDeath, HandlePause, HandleNav, Free
<1>1. UNCHANGED <<mode, current, snap>>
  BY DEF Handles, HandleEvent, HandleResult, HandleDeath, HandlePause, HandleNav
<1>2. ASSUME UNCHANGED ps, loop'.op # "resume" PROVE SettledInv'
  BY <1>0, <1>1, <1>2, SettledSame DEF NoKeys
<1>3. ASSUME Practising
      PROVE  /\ current # 0 /\ current \in SessId /\ ps[current] \in Session
             /\ (ps[current].running => Playing(ps[current]))
             /\ (ps[current].armed => ~ps[current].woke)
             /\ (ps[current].running \/ ps[current].pc = "created"
                   => mode = "practice" /\ snap = "live")
             /\ (mode = "practice" => ps[current].pc # "done")
  BY <1>3, PractisingOk DEF Practising, SettledInv
<1>4. ASSUME Practising, NEW q \in Session, ps' = [ps EXCEPT ![current] = q],
             q.pc = ps[current].pc, q.running = ps[current].running, q.armed => ~q.woke,
             loop'.op = "resume" => /\ q.pc = "waiting" /\ q.running /\ ~q.woke
                                    /\ loop'.load = q.load
      PROVE  SettledInv'
  <2>1. q.running => Playing(q)
    BY <1>3, <1>4 DEF Playing
  <2> QED BY <1>0, <1>1, <1>3, <1>4, <2>1, SettledSession
<1>5. CASE HandleEvent
  <2>1. CASE Practising
    <3> DEFINE q == [ps[current] EXCEPT !.ep = Head(queue).load]
    <3>1. Head(queue).load \in LoadId
      BY <1>5, TakesOk DEF HandleEvent, Event
    <3>2. /\ q \in Session /\ q.pc = ps[current].pc /\ q.running = ps[current].running
          /\ q.armed = ps[current].armed /\ q.woke = ps[current].woke
      BY <1>3, <2>1, <3>1 DEF Session
    <3>3. ps' = [ps EXCEPT ![current] = q] /\ loop' = loop
      BY <1>5, <2>1 DEF HandleEvent
    <3> HIDE DEF q
    <3> QED BY <1>0, <1>3, <1>4, <2>1, <3>2, <3>3
  <2>2. CASE ~Practising
    BY <1>0, <1>2, <1>5, <2>2 DEF HandleEvent
  <2> QED BY <2>1, <2>2
<1>6. CASE HandleResult
  <2>1. CASE Practising
    <3> DEFINE l == Head(queue).load
               q == [ps[current] EXCEPT !.armed = FALSE, !.woke = TRUE, !.result = l]
    <3>1. l \in Result
      BY <1>6, TakesOk DEF HandleResult, Event, Result
    <3>2. ps' = [ps EXCEPT ![current] = q] /\ loop' = loop
      BY <1>3, <1>6, <2>1 DEF HandleResult, Inv, TypeOK
    <3> HIDE DEF l
    <3>3. /\ q \in Session /\ q.pc = ps[current].pc /\ q.running = ps[current].running
          /\ ~q.armed
      BY <1>3, <2>1, <3>1 DEF Session
    <3> HIDE DEF q
    <3> QED BY <1>0, <1>4, <2>1, <3>2, <3>3
  <2>2. CASE ~Practising
    BY <1>0, <1>2, <1>6, <2>2 DEF HandleResult
  <2> QED BY <2>1, <2>2
<1>7. CASE HandleDeath
  <2>1. UNCHANGED ps /\ loop'.op # "resume"
    BY <1>0, <1>7 DEF HandleDeath
  <2> QED BY <1>2, <2>1
<1>8. CASE HandlePause
  <2>1. CASE ~InFlight
    BY <1>0, <1>2, <1>8, <2>1 DEF HandlePause
  <2>2. CASE InFlight /\ ~ps[current].paused
    <3> DEFINE q == [ps[current] EXCEPT !.paused = TRUE]
    <3>1. Practising /\ ps' = [ps EXCEPT ![current] = q] /\ loop' = loop
      BY <1>8, <2>2 DEF HandlePause, InFlight
    <3>2. /\ q \in Session /\ q.pc = ps[current].pc /\ q.running = ps[current].running
          /\ q.armed = ps[current].armed /\ q.woke = ps[current].woke
      BY <1>3, <3>1 DEF Session
    <3> HIDE DEF q
    <3> QED BY <1>0, <1>3, <1>4, <3>1, <3>2
  <2>3. CASE InFlight /\ ps[current].paused
    <3> DEFINE n == Len(loads) + 1
               q == [ps[current] EXCEPT !.paused = FALSE, !.ep = None, !.load = n]
    <3>1. /\ Practising /\ ps[current].running /\ ps' = [ps EXCEPT ![current] = q]
          /\ loop' = [op |-> "resume", load |-> n] /\ Len(loads) < MaxLoads
      BY <1>3, <1>8, <2>3 DEF HandlePause, InFlight, Issue
    <3>2. n \in Load0 /\ None \in LoadId \cup {None}
      BY <3>1, PracticeAssumption DEF Load0, Inv, TypeOK
    <3>3. Settled(ps[current])
      BY <1>0, <1>3, <1>8, <3>1, TakesOk DEF HandlePause, Keys
    <3>4. ps[current].pc = "waiting" /\ ~ps[current].woke
      BY <1>3, <3>1, <3>3 DEF Settled, Playing
    <3> HIDE DEF n
    <3>5. /\ q \in Session /\ q.pc = ps[current].pc /\ q.running = ps[current].running
          /\ q.armed = ps[current].armed /\ q.woke = ps[current].woke /\ q.load = n
      BY <1>3, <3>1, <3>2 DEF Session
    <3> HIDE DEF q
    <3> QED BY <1>3, <1>4, <3>1, <3>4, <3>5
  <2> QED BY <2>1, <2>2, <2>3
<1>9. CASE HandleNav
  <2> DEFINE ok == NavOk /\ (Head(queue).k = "prev" => PrevOk)
             c == IF Head(queue).k = "next" THEN ps[current].cursor + 1
                                            ELSE ps[current].cursor - 1
             q == Dropped(ps[current], c)
  <2>1. CASE ~ok
    BY <1>0, <1>2, <1>9, <2>1 DEF HandleNav
  <2>2. CASE ok
    <3>1. Practising /\ ps' = [ps EXCEPT ![current] = q] /\ loop' = loop
      BY <1>9, <2>2 DEF HandleNav, NavOk, InFlight
    <3>2. c \in Nat \ {0}
      <4>1. Head(queue).k \in {"next", "prev"} /\ ps[current].cursor \in Nat \ {0}
        BY <1>3, <1>9, <3>1, TakesOk DEF HandleNav, Session
      <4> QED BY <2>2, <4>1 DEF PrevOk
    <3> HIDE DEF c
    <3>3. /\ q \in Session /\ q.pc = ps[current].pc /\ q.running = ps[current].running
          /\ ~q.armed
      BY <1>3, <3>1, <3>2 DEF Session, Dropped
    <3> HIDE DEF q
    <3> QED BY <1>0, <1>4, <3>1, <3>3
  <2> QED BY <2>1, <2>2
<1> QED BY <1>5, <1>6, <1>7, <1>8, <1>9 DEF Handles

LEMMA SettledReturn == ASSUME Inv, SettledInv, LoopReturns \/ LoopFails PROVE SettledInv'
<1>1. /\ loop # Free /\ loop' = Free /\ Free.op # "resume"
      /\ UNCHANGED <<ps, current, mode, snap, queue>>
  BY DEF LoopReturns, LoopFails, Free
<1>2. NoKeys
  BY <1>1 DEF SettledInv, NoKeys
<1> QED BY <1>1, <1>2, SettledSame DEF NoKeys

LEMMA SettledStep ==
  ASSUME Pace = "settled", Inv, SettledInv, [Next]_vars PROVE SettledInv'
<1>1. CASE UNCHANGED vars
  BY <1>1 DEF vars, SettledInv
<1> QED BY <1>1, SettledTask, SettledUser, SettledWorld, SettledHandles, SettledReturn DEF Next

LEMMA SettledInit == Init => SettledInv
<1> SUFFICES ASSUME Init PROVE SettledInv
  OBVIOUS
<1>1. /\ \A s \in SessId : ps[s].pc = "none" /\ ~ps[s].running /\ ~ps[s].armed
      /\ queue = <<>> /\ current = 0 /\ mode = "idle" /\ loop.op = "none"
  BY DEF Init, Fresh, Free
<1> QED BY <1>1 DEF SettledInv

\* With a user who acts only when everything has settled, the mode and the
\* snapshot tell whether a session runs, whatever loads fail.
THEOREM ModeFollowsSession ==
  ASSUME Pace = "settled" PROVE Spec => []ModeTellsSession
<1>1. Init => SettledInv
  BY SettledInit
<1>2. Inv /\ SettledInv /\ [Next]_vars => SettledInv'
  BY SettledStep
<1>3. SettledInv => ModeTellsSession
  BY DEF SettledInv, ModeTellsSession
<1> QED BY SpecInv, <1>1, <1>2, <1>3, PTL DEF Spec

-----------------------------------------------------------------------------
(* Attempt rows, with such a user.                                          *)

\* A load that was issued, for the session.
Owns(ls, l, s) == l \in 1 .. Len(ls) /\ ls[l].sess = s

RowsOwned == \A row \in rows : Owns(loads, row.load, row.sess)
SessionsOwned ==
    \A s \in SessId : /\ Playing(ps[s]) => Owns(loads, ps[s].load, s)
                      /\ ps[s].result # None => Owns(loads, ps[s].result, s)
QueueOwned ==
    \A i \in 1 .. Len(queue) :
        queue[i].k \in {"event", "result"} => Owns(loads, queue[i].load, current)
TimingOwned == timing.st # "idle" => /\ Owns(loads, timing.load, current)
                                     /\ current # 0 /\ Playing(ps[current])

RowInv == RowsOwned /\ SessionsOwned /\ QueueOwned /\ TimingOwned

\* Loads are only ever added, so what was owned stays owned.
StillOwned == \A l, s : Owns(loads, l, s) => Owns(loads', l, s)

LEMMA LoadsGrow == ASSUME Inv, [Next]_vars PROVE StillOwned
<1>0. loads \in Seq(Load)
  BY DEF Inv, TypeOK
<1>1. ASSUME NEW x, loads' = Append(loads, x) PROVE StillOwned
  <2>1. Len(loads') = Len(loads) + 1 /\ \A i \in 1 .. Len(loads) : loads'[i] = loads[i]
    BY <1>0, <1>1
  <2>2. \A l \in 1 .. Len(loads) : l \in 1 .. Len(loads')
    BY <1>0, <2>1
  <2> QED BY <2>1, <2>2 DEF StillOwned, Owns
<1>2. ASSUME UNCHANGED loads PROVE StillOwned
  BY <1>2 DEF StillOwned
<1>3. ASSUME NEW seg, NEW s, Issue(seg, s) PROVE StillOwned
  BY <1>1, <1>3 DEF Issue
<1>4. ASSUME NEW s, NEW r, Continue(s, r) PROVE StillOwned
  BY <1>2, <1>3, <1>4 DEF Continue, BeginCycle, EndLoop
<1>5. ASSUME NEW s \in SessId, RunLoop(s) PROVE StillOwned
  BY <1>2, <1>4, <1>5 DEF RunLoop, Begin, Loaded, LoadFails, EndLoop, Wake, SessionDone
<1>6. CASE HandlePause
  BY <1>2, <1>3, <1>6 DEF HandlePause
<1>7. CASE HandleEvent \/ HandleResult \/ HandleDeath \/ HandleNav
  BY <1>2, <1>7 DEF HandleEvent, HandleResult, HandleDeath, HandleNav
<1>8. CASE User
  BY <1>2, <1>8 DEF User, StartPractice, StopPractice, SwitchGame, Command
<1>9. CASE World \/ Tick
  BY <1>2, <1>9 DEF World, Tick, PlayerDies, PlayerAborts, PlayerFinishes, FileVanishes
<1>10. CASE LoopReturns \/ LoopFails \/ UNCHANGED vars
  BY <1>2, <1>10 DEF LoopReturns, LoopFails, vars
<1> QED BY <1>5, <1>6, <1>7, <1>8, <1>9, <1>10 DEF Next, Handles

\* What a step leaves alone keeps its owner.
LEMMA OwnedSame ==
  ASSUME RowInv, StillOwned
  PROVE  /\ UNCHANGED rows => RowsOwned'
         /\ UNCHANGED ps => SessionsOwned'
         /\ UNCHANGED <<queue, current>> => QueueOwned'
         /\ UNCHANGED <<timing, current, ps>> => TimingOwned'
         /\ timing' = Disarmed => TimingOwned'
<1>1. UNCHANGED rows => RowsOwned'
  BY DEF RowInv, RowsOwned, StillOwned
<1>2. UNCHANGED ps => SessionsOwned'
  BY DEF RowInv, SessionsOwned, StillOwned
<1>3. UNCHANGED <<queue, current>> => QueueOwned'
  BY DEF RowInv, QueueOwned, StillOwned
<1>4. UNCHANGED <<timing, current, ps>> => TimingOwned'
  BY DEF RowInv, TimingOwned, StillOwned
<1>5. timing' = Disarmed => TimingOwned'
  BY DEF TimingOwned, Disarmed
<1> QED BY <1>1, <1>2, <1>3, <1>4, <1>5

\* The current session is changed.
LEMMA OwnedSession ==
  ASSUME Inv, RowInv, StillOwned, current # 0, NEW q, ps' = [ps EXCEPT ![current] = q],
         Playing(q) => Owns(loads', q.load, current),
         q.result # None => Owns(loads', q.result, current)
  PROVE  /\ SessionsOwned'
         /\ UNCHANGED <<timing, current>> /\ (Playing(ps[current]) => Playing(q)) => TimingOwned'
<1>0. current \in SessId /\ ps \in [SessId -> Session]
  BY DEF Inv, TypeOK
<1>1. ps'[current] = q /\ \A s \in SessId : s # current => ps'[s] = ps[s]
  BY <1>0
<1>2. SessionsOwned'
  BY <1>1 DEF RowInv, SessionsOwned, StillOwned
<1>3. UNCHANGED <<timing, current>> /\ (Playing(ps[current]) => Playing(q)) => TimingOwned'
  BY <1>1 DEF RowInv, TimingOwned, StillOwned
<1> QED BY <1>2, <1>3

LEMMA OwnedTask ==
  ASSUME Inv, SettledInv, RowInv, StillOwned, NEW s \in SessId, RunLoop(s)
  PROVE  RowInv'
<1>0. s = current /\ current # 0 /\ ps[s] \in Session /\ loads \in Seq(Load)
  BY TaskRuns DEF Inv, TypeOK
<1>1. QueueOwned' /\ UNCHANGED current
  BY OwnedSame DEF RunLoop, Begin, Loaded, LoadFails, Wake, SessionDone
<1>2. /\ Playing(ps[s]) => Owns(loads, ps[s].load, s) /\ Owns(loads', ps[s].load, s)
      /\ ps[s].result # None => Owns(loads', ps[s].result, s)
  BY DEF RowInv, SessionsOwned, StillOwned
<1>3. CASE Begin(s) \/ Wake(s)
  <2>1. RowsOwned'
    <3>1. CASE Begin(s)
      BY <3>1, OwnedSame DEF Begin
    <3>2. CASE Wake(s)
      <4>1. \/ rows' = rows
            \/ /\ ps[s].result # None
               /\ rows' = rows \cup {[sess |-> s, load |-> ps[s].result, how |-> "synth"]}
        BY <3>2 DEF Wake
      <4> QED BY <1>2, <4>1 DEF RowInv, RowsOwned, StillOwned
    <3> QED BY <1>3, <3>1, <3>2
  <2>2. PICK r \in Session :
           /\ Continue(s, r) /\ r.armed = ps[s].armed /\ r.woke = ps[s].woke
           /\ r.result = ps[s].result /\ (Wake(s) => r.running = ps[s].running)
    BY <1>3, HandedOn
  <2>3. PICK q \in Session :
           ps' = [ps EXCEPT ![s] = q] /\ (Cycles(s, r, q) \/ Ends(r, q))
    BY <2>2, ContinueEffect
  <2>4. CASE Cycles(s, r, q)
    <3>1. Playing(q) /\ Owns(loads', q.load, s) /\ q.result = None /\ timing' = timing
      BY <1>0, <2>4 DEF Cycles, Playing, Owns
    <3> QED BY <1>0, <1>1, <2>1, <2>3, <3>1, OwnedSession DEF RowInv
  <2>5. CASE Ends(r, q)
    <3>1. ~Playing(q) /\ q.result = ps[s].result /\ timing' = Disarmed
      BY <2>2, <2>5 DEF Ends, Playing
    <3> QED BY <1>0, <1>1, <1>2, <2>1, <2>3, <3>1, OwnedSame, OwnedSession DEF RowInv
  <2> QED BY <2>3, <2>4, <2>5
<1>4. CASE Loaded(s)
  <2> DEFINE q == [ps[s] EXCEPT !.pc = "waiting"]
  <2>1. q.pc = "waiting" /\ q.load = ps[s].load /\ q.result = ps[s].result /\ ps'[s] = q
    BY <1>0, <1>4 DEF Session, Loaded, Inv, TypeOK
  <2>2. ps' = [ps EXCEPT ![s] = q] /\ UNCHANGED rows /\ timing' = Armed(ps[s].load)
        /\ Playing(ps[s])
    BY <1>4 DEF Loaded, Playing
  <2> HIDE DEF q
  <2>3. SessionsOwned' /\ RowsOwned'
    BY <1>0, <1>2, <2>1, <2>2, OwnedSame, OwnedSession
  <2>4. TimingOwned'
    BY <1>0, <1>1, <1>2, <2>1, <2>2 DEF TimingOwned, Armed, Playing
  <2> QED BY <1>1, <2>3, <2>4 DEF RowInv
<1>5. CASE LoadFails(s)
  <2> DEFINE q == [ps[s] EXCEPT !.pc = "crashed", !.running = FALSE, !.paused = FALSE]
  <2>1. ~Playing(q) /\ q.result = ps[s].result
    BY <1>0 DEF Session, Playing
  <2>2. ps' = [ps EXCEPT ![s] = q] /\ UNCHANGED rows /\ timing' = Disarmed
    BY <1>5 DEF LoadFails, EndLoop
  <2> HIDE DEF q
  <2> QED BY <1>0, <1>1, <1>2, <2>1, <2>2, OwnedSame, OwnedSession DEF RowInv
<1>6. CASE SessionDone(s)
  <2> DEFINE q == [ps[s] EXCEPT !.pc = "done"]
  <2>1. ~Playing(q) /\ q.result = ps[s].result /\ ~Playing(ps[s])
    BY <1>0, <1>6 DEF Session, Playing, SessionDone
  <2>2. ps' = [ps EXCEPT ![s] = q] /\ UNCHANGED <<rows, timing>>
    BY <1>6 DEF SessionDone
  <2> HIDE DEF q
  <2> QED BY <1>0, <1>1, <1>2, <2>1, <2>2, OwnedSame, OwnedSession DEF RowInv
<1> QED BY <1>3, <1>4, <1>5, <1>6 DEF RunLoop

LEMMA OwnedUser ==
  ASSUME Inv, SettledInv, RowInv, StillOwned, Pace = "settled", User PROVE RowInv'
<1>1. ASSUME NEW s \in SessId, StartPractice(s) PROVE RowInv'
  <2>1. queue = <<>> /\ \A t \in SessId : ~Playing(ps[t])
    BY <1>1, StartsAlone DEF Playing
  <2>2. timing.st = "idle"
    BY <2>1 DEF RowInv, TimingOwned, Inv, TypeOK
  <2>3. UNCHANGED <<rows, queue, timing>>
    BY <1>1 DEF StartPractice
  <2>4. PICK g : ps' = [ps EXCEPT ![s] = [Fresh EXCEPT !.pc = "created", !.grind = g]]
    BY <1>1 DEF StartPractice
  <2>5. /\ ~Playing(ps'[s]) /\ ps'[s].result = None
        /\ \A t \in SessId : t # s => ps'[t] = ps[t]
    BY <2>4 DEF Fresh, Playing, Inv, TypeOK
  <2>6. SessionsOwned'
    BY <2>5 DEF RowInv, SessionsOwned, StillOwned
  <2>7. QueueOwned' /\ TimingOwned'
    BY <2>1, <2>2, <2>3 DEF QueueOwned, TimingOwned
  <2> QED BY <2>3, <2>6, <2>7, OwnedSame DEF RowInv
<1>2. ASSUME current # 0, ps' = [ps EXCEPT ![current].running = FALSE],
             UNCHANGED <<rows, queue, timing, current>>
      PROVE  RowInv'
  <2> DEFINE q == [ps[current] EXCEPT !.running = FALSE]
  <2>1. ps[current] \in Session /\ current \in SessId
    BY <1>2 DEF Inv, TypeOK
  <2>2. q.pc = ps[current].pc /\ q.load = ps[current].load /\ q.result = ps[current].result
    BY <2>1 DEF Session
  <2>3. ps' = [ps EXCEPT ![current] = q]
    BY <1>2
  <2>4. /\ Playing(ps[current]) => Owns(loads', ps[current].load, current)
        /\ ps[current].result # None => Owns(loads', ps[current].result, current)
    BY <2>1 DEF RowInv, SessionsOwned, StillOwned
  <2> HIDE DEF q
  <2>5. Playing(q) <=> Playing(ps[current])
    BY <2>2 DEF Playing
  <2> QED BY <1>2, <2>2, <2>3, <2>4, <2>5, OwnedSame, OwnedSession DEF RowInv
<1>3. CASE UNCHANGED <<ps, rows, queue, timing, current>>
  BY <1>3, OwnedSame DEF RowInv
<1>4. CASE StopPractice
  BY <1>2, <1>3, <1>4 DEF StopPractice, LiveSession
<1>5. CASE SwitchGame
  BY <1>2, <1>3, <1>5 DEF SwitchGame
<1>6. ASSUME NEW k \in {"pause", "next", "prev"}, Command(k) PROVE RowInv'
  <2>1. UNCHANGED <<ps, rows, timing, current>> /\ queue = <<>> /\ queue' = Append(queue, Raw(k))
    BY <1>6 DEF Command, Calm
  <2>2. queue' = <<Raw(k)>> /\ Raw(k).k \notin {"event", "result"}
    BY <2>1 DEF Raw
  <2>3. QueueOwned'
    BY <2>2 DEF QueueOwned
  <2> QED BY <2>1, <2>3, OwnedSame DEF RowInv
<1> QED BY <1>1, <1>4, <1>5, <1>6 DEF User

LEMMA OwnedWorld == ASSUME Inv, RowInv, StillOwned, World \/ Tick PROVE RowInv'
<1>0. /\ queue \in Seq(Event) /\ UNCHANGED <<ps, current, rows>>
      /\ RowsOwned' /\ SessionsOwned'
  BY OwnedSame
     DEF Inv, TypeOK, World, Tick, PlayerDies, PlayerAborts, PlayerFinishes, FileVanishes
<1>1. ASSUME NEW e, e.k \in {"event", "result"} => Owns(loads, e.load, current),
             queue' = Append(queue, e)
      PROVE  QueueOwned'
  <2>1. \A i \in 1 .. Len(queue') :
           queue'[i] = e \/ (i \in 1 .. Len(queue) /\ queue'[i] = queue[i])
    BY <1>0, <1>1
  <2> QED BY <1>0, <1>1, <2>1 DEF RowInv, QueueOwned, StillOwned
<1>2. /\ \A k : k \notin {"event", "result"} => Raw(k).k \notin {"event", "result"}
      /\ timing.st # "idle" => \A k : Owns(loads, Emitted(k).load, current)
  BY DEF Raw, Emitted, RowInv, TimingOwned
<1>3. CASE PlayerDies
  <2>1. QueueOwned'
    <3>1. CASE timing.st = "playing"
      <4> DEFINE e == Emitted("event")
                 f == Raw("death")
      <4>1. queue' = queue \o <<e, f>>
        BY <1>3, <3>1 DEF PlayerDies
      <4>2. Owns(loads, e.load, current) /\ f.k \notin {"event", "result"}
        BY <1>2, <3>1
      <4> HIDE DEF e, f
      <4>3. \A i \in 1 .. Len(queue') :
               queue'[i] \in {e, f} \/ (i \in 1 .. Len(queue) /\ queue'[i] = queue[i])
        BY <1>0, <4>1
      <4> QED BY <1>0, <4>2, <4>3 DEF RowInv, QueueOwned, StillOwned
    <3>2. CASE timing.st # "playing"
      BY <1>1, <1>2, <1>3, <3>2 DEF PlayerDies
    <3> QED BY <3>1, <3>2
  <2> QED BY <1>0, <1>3, <2>1, OwnedSame DEF RowInv, PlayerDies
<1>4. ASSUME timing.st # "idle", timing' = [timing EXCEPT !.st = "result"] PROVE TimingOwned'
  <2>1. timing'.load = timing.load
    BY <1>4 DEF Inv, TypeOK, Timing
  <2> QED BY <1>0, <1>4, <2>1 DEF RowInv, TimingOwned, StillOwned
<1>5. CASE PlayerAborts
  <2>1. QueueOwned'
    BY <1>1, <1>2, <1>5 DEF PlayerAborts
  <2>2. TimingOwned'
    BY <1>0, <1>4, <1>5, OwnedSame DEF PlayerAborts
  <2> QED BY <1>0, <2>1, <2>2 DEF RowInv
<1>6. CASE PlayerFinishes
  <2>1. QueueOwned'
    BY <1>1, <1>2, <1>6 DEF PlayerFinishes
  <2>2. TimingOwned'
    BY <1>4, <1>6 DEF PlayerFinishes
  <2> QED BY <1>0, <2>1, <2>2 DEF RowInv
<1>7. CASE Tick
  <2>1. QueueOwned'
    BY <1>1, <1>2, <1>7 DEF Tick
  <2> QED BY <1>0, <1>7, <2>1, OwnedSame DEF RowInv, Tick
<1>8. CASE FileVanishes
  BY <1>0, <1>8, OwnedSame DEF RowInv, FileVanishes
<1> QED BY <1>3, <1>5, <1>6, <1>7, <1>8 DEF World

LEMMA OwnedHandles == ASSUME Inv, RowInv, StillOwned, Handles PROVE RowInv'
<1>0. queue \in Seq(Event) /\ queue # <<>> /\ queue' = Tail(queue) /\ UNCHANGED current
  BY DEF Inv, TypeOK, Handles, HandleEvent, HandleResult, HandleDeath, HandlePause, HandleNav,
         Takes
<1>1. /\ Head(queue) = queue[1] /\ 1 \in 1 .. Len(queue)
      /\ \A i \in 1 .. Len(queue') : queue'[i] = queue[i + 1] /\ i + 1 \in 1 .. Len(queue)
  BY <1>0
<1>2. QueueOwned'
  BY <1>0, <1>1 DEF RowInv, QueueOwned, StillOwned
<1>3. Head(queue).k \in {"event", "result"} =>
         /\ Owns(loads, Head(queue).load, current) /\ Owns(loads', Head(queue).load, current)
  BY <1>1 DEF RowInv, QueueOwned, StillOwned
<1>4. ASSUME UNCHANGED <<ps, rows, timing>> PROVE RowInv'
  BY <1>0, <1>2, <1>4, OwnedSame DEF RowInv
<1>5. ASSUME Practising
      PROVE  /\ current # 0 /\ current \in SessId /\ ps[current] \in Session
             /\ (Playing(ps[current]) => Owns(loads', ps[current].load, current))
             /\ (ps[current].result # None => Owns(loads', ps[current].result, current))
  BY <1>5, PractisingOk DEF Practising, RowInv, SessionsOwned, StillOwned
<1>6. CASE HandleEvent
  <2>1. CASE Practising
    <3> DEFINE l == Head(queue).load
               q == [ps[current] EXCEPT !.ep = l]
    <3>1. /\ ps' = [ps EXCEPT ![current] = q] /\ UNCHANGED timing
          /\ rows' = rows \cup {[sess |-> current, load |-> l, how |-> "event"]}
      BY <1>6, <2>1 DEF HandleEvent
    <3>2. Owns(loads', l, current)
      BY <1>3, <1>6 DEF HandleEvent, Takes
    <3> HIDE DEF l
    <3>3. q.pc = ps[current].pc /\ q.load = ps[current].load /\ q.result = ps[current].result
      BY <1>5, <2>1 DEF Session
    <3> HIDE DEF q
    <3>4. RowsOwned'
      BY <3>1, <3>2 DEF RowInv, RowsOwned, StillOwned
    <3>5. Playing(q) <=> Playing(ps[current])
      BY <3>3 DEF Playing
    <3> QED BY <1>0, <1>2, <1>5, <2>1, <3>1, <3>3, <3>4, <3>5, OwnedSession DEF RowInv
  <2>2. CASE ~Practising
    BY <1>4, <1>6, <2>2 DEF HandleEvent
  <2> QED BY <2>1, <2>2
<1>7. CASE HandleResult
  <2>1. CASE Practising
    <3> DEFINE l == Head(queue).load
               q == [ps[current] EXCEPT !.armed = FALSE, !.woke = TRUE, !.result = l]
    <3>1. ps' = [ps EXCEPT ![current] = q] /\ UNCHANGED <<timing, rows>>
      BY <1>5, <1>7, <2>1 DEF HandleResult, Inv, TypeOK
    <3>2. Owns(loads', l, current)
      BY <1>3, <1>7 DEF HandleResult, Takes
    <3> HIDE DEF l
    <3>3. q.pc = ps[current].pc /\ q.load = ps[current].load /\ q.result = l
      BY <1>5, <2>1 DEF Session
    <3> HIDE DEF q
    <3>4. Playing(q) <=> Playing(ps[current])
      BY <3>3 DEF Playing
    <3> QED BY <1>0, <1>2, <1>5, <2>1, <3>1, <3>2, <3>3, <3>4, OwnedSame, OwnedSession DEF RowInv
  <2>2. CASE ~Practising
    BY <1>4, <1>7, <2>2 DEF HandleResult
  <2> QED BY <2>1, <2>2
<1>8. CASE HandleDeath
  BY <1>4, <1>8 DEF HandleDeath
<1>9. CASE HandlePause
  <2>1. CASE ~InFlight
    BY <1>4, <1>9, <2>1 DEF HandlePause
  <2>2. CASE InFlight /\ ~ps[current].paused
    <3> DEFINE q == [ps[current] EXCEPT !.paused = TRUE]
    <3>1. Practising /\ ps' = [ps EXCEPT ![current] = q] /\ timing' = Disarmed /\ UNCHANGED rows
      BY <1>9, <2>2 DEF HandlePause, InFlight
    <3>2. q.pc = ps[current].pc /\ q.load = ps[current].load /\ q.result = ps[current].result
      BY <1>5, <3>1 DEF Session
    <3> HIDE DEF q
    <3>3. Playing(q) <=> Playing(ps[current])
      BY <3>2 DEF Playing
    <3> QED BY <1>2, <1>5, <3>1, <3>2, <3>3, OwnedSame, OwnedSession DEF RowInv
  <2>3. CASE InFlight /\ ps[current].paused
    <3> DEFINE n == Len(loads) + 1
               q == [ps[current] EXCEPT !.paused = FALSE, !.ep = None, !.load = n]
               x == [seg |-> SegmentOf(ps[current]), sess |-> current]
    <3>1. /\ Practising /\ ps' = [ps EXCEPT ![current] = q] /\ UNCHANGED <<timing, rows>>
          /\ loads' = Append(loads, x)
      BY <1>9, <2>3 DEF HandlePause, InFlight, Issue
    <3>2. Owns(loads', n, current)
      <4>1. loads \in Seq(Load) /\ x.sess = current
        BY DEF Inv, TypeOK
      <4> HIDE DEF x
      <4>2. Len(loads') = n /\ loads'[n] = x /\ n \in 1 .. n
        BY <3>1, <4>1
      <4> QED BY <4>1, <4>2 DEF Owns
    <3> HIDE DEF n, x
    <3>3. q.pc = ps[current].pc /\ q.load = n /\ q.result = ps[current].result
      BY <1>5, <3>1 DEF Session
    <3> HIDE DEF q
    <3>4. Playing(q) <=> Playing(ps[current])
      BY <3>3 DEF Playing
    <3> QED BY <1>0, <1>2, <1>5, <3>1, <3>2, <3>3, <3>4, OwnedSame, OwnedSession DEF RowInv
  <2> QED BY <2>1, <2>2, <2>3
<1>10. CASE HandleNav
  <2> DEFINE ok == NavOk /\ (Head(queue).k = "prev" => PrevOk)
             c == IF Head(queue).k = "next" THEN ps[current].cursor + 1
                                            ELSE ps[current].cursor - 1
             q == Dropped(ps[current], c)
  <2>1. CASE ~ok
    BY <1>4, <1>10, <2>1 DEF HandleNav
  <2>2. CASE ok
    <3>1. Practising /\ ps' = [ps EXCEPT ![current] = q] /\ timing' = Disarmed /\ UNCHANGED rows
      BY <1>10, <2>2 DEF HandleNav, NavOk, InFlight
    <3> HIDE DEF c
    <3>2. q.pc = ps[current].pc /\ q.load = ps[current].load /\ q.result = ps[current].result
      BY <1>5, <3>1 DEF Session, Dropped
    <3> HIDE DEF q
    <3>3. Playing(q) <=> Playing(ps[current])
      BY <3>2 DEF Playing
    <3> QED BY <1>2, <1>5, <3>1, <3>2, <3>3, OwnedSame, OwnedSession DEF RowInv
  <2> QED BY <2>1, <2>2
<1> QED BY <1>6, <1>7, <1>8, <1>9, <1>10 DEF Handles

LEMMA OwnedReturn ==
  ASSUME Inv, SettledInv, RowInv, StillOwned, LoopReturns \/ LoopFails PROVE RowInv'
<1>1. UNCHANGED <<ps, current, queue, rows>>
  BY DEF LoopReturns, LoopFails
<1>2. CASE timing' = timing
  BY <1>1, <1>2, OwnedSame DEF RowInv
<1>3. CASE loop.op = "resume" /\ timing' = Armed(loop.load)
  <2>1. current # 0 /\ Playing(ps[current]) /\ loop.load = ps[current].load /\ current \in SessId
    BY <1>3 DEF SettledInv, Playing, Inv, TypeOK
  <2>2. Owns(loads', loop.load, current)
    BY <2>1 DEF RowInv, SessionsOwned, StillOwned
  <2>3. TimingOwned'
    BY <1>1, <1>3, <2>1, <2>2 DEF TimingOwned, Armed
  <2> QED BY <1>1, <2>3, OwnedSame DEF RowInv
<1> QED BY <1>2, <1>3 DEF LoopReturns, LoopFails

LEMMA RowStep ==
  ASSUME Pace = "settled", Inv, SettledInv, RowInv, [Next]_vars PROVE RowInv'
<1>1. StillOwned
  BY LoadsGrow
<1>2. CASE UNCHANGED vars
  BY <1>1, <1>2, OwnedSame DEF vars, RowInv
<1> QED BY <1>1, <1>2, OwnedTask, OwnedUser, OwnedWorld, OwnedHandles, OwnedReturn DEF Next

\* With a user who acts only when everything has settled, every attempt row is
\* of the session its attempt was loaded for, written from the event or
\* synthesized, whatever was paused, navigated, resumed or stopped before it.
THEOREM RowsAreCredited ==
  ASSUME Pace = "settled" PROVE Spec => []RowsCredited
<1>1. Init => SettledInv /\ RowInv
  <2> SUFFICES ASSUME Init PROVE RowInv
    BY SettledInit
  <2>1. /\ \A s \in SessId : ps[s].pc = "none" /\ ps[s].result = None
        /\ queue = <<>> /\ rows = {} /\ timing.st = "idle"
    BY DEF Init, Fresh, Disarmed
  <2> QED BY <2>1 DEF RowInv, RowsOwned, SessionsOwned, QueueOwned, TimingOwned, Playing
<1>2. Inv /\ SettledInv /\ RowInv /\ [Next]_vars => SettledInv' /\ RowInv'
  BY SettledStep, RowStep
<1>3. RowInv => RowsCredited
  BY DEF RowInv, RowsOwned, RowsCredited, Owns
<1> QED BY SpecInv, <1>1, <1>2, <1>3, PTL DEF Spec

-----------------------------------------------------------------------------
(* What a session waits for, with such a user and a RetroArch that rejects  *)
(* no state.                                                                *)

Busy(r)   == r.pc = "waiting" /\ r.running /\ ~r.woke /\ ~r.paused
ServedBy(t, lp, evs, l) == \/ t.st # "idle" /\ t.load = l
                           \/ lp = [op |-> "resume", load |-> l]
                           \/ \E i \in DOMAIN evs : evs[i].k = "result"
Served(l) == ServedBy(timing, loop, queue, l)

LEMMA ServedIs == NeverWaitsInVain <=> \A s \in SessId : Busy(ps[s]) => Served(ps[s].load)
BY DEF NeverWaitsInVain, Busy, Served, ServedBy

\* Only the current session waits.
LEMMA ServedSession ==
  ASSUME Inv, SettledInv, current # 0, NEW q, ps' = [ps EXCEPT ![current] = q],
         Busy(q) => ServedBy(timing', loop', queue', q.load)
  PROVE  NeverWaitsInVain'
<1>1. ps'[current] = q /\ \A s \in SessId : s # current => ps'[s] = ps[s]
  BY DEF Inv, TypeOK
<1>2. \A s \in SessId : s # current => ps'[s].pc # "waiting"
  BY <1>1 DEF SettledInv
<1> QED BY <1>1, <1>2 DEF NeverWaitsInVain, Busy, Served, ServedBy

LEMMA ServedSame ==
  ASSUME NeverWaitsInVain, UNCHANGED ps, \A l : Served(l) => Served(l)' PROVE NeverWaitsInVain'
<1>1. \A s \in SessId : Busy(ps[s]) => Served(ps[s].load)'
  BY DEF NeverWaitsInVain, Busy, Served, ServedBy
<1> QED BY <1>1 DEF NeverWaitsInVain, Busy, Served, ServedBy

LEMMA VainTask ==
  ASSUME Inv, SettledInv, LoadsFail = FALSE, NEW s \in SessId, RunLoop(s) PROVE NeverWaitsInVain'
<1>0. s = current /\ current # 0 /\ ps[s] \in Session
  BY TaskRuns DEF Inv, TypeOK
<1>1. CASE Begin(s) \/ Wake(s)
  <2>1. PICK r \in Session :
           /\ Continue(s, r) /\ r.armed = ps[s].armed /\ r.woke = ps[s].woke
           /\ r.result = ps[s].result /\ (Wake(s) => r.running = ps[s].running)
    BY <1>1, HandedOn
  <2>2. PICK q \in Session :
           ps' = [ps EXCEPT ![s] = q] /\ (Cycles(s, r, q) \/ Ends(r, q))
    BY <2>1, ContinueEffect
  <2>3. ~Busy(q)
    BY <2>2 DEF Cycles, Ends, Busy
  <2> QED BY <1>0, <2>2, <2>3, ServedSession
<1>2. CASE Loaded(s)
  <2> DEFINE q == [ps[s] EXCEPT !.pc = "waiting"]
  <2>1. ps' = [ps EXCEPT ![s] = q] /\ timing' = Armed(ps[s].load) /\ q.load = ps[s].load
    BY <1>0, <1>2 DEF Loaded, Session
  <2> HIDE DEF q
  <2>2. ServedBy(timing', loop', queue', q.load)
    <3>1. timing'.st # "idle" /\ timing'.load = q.load
      BY <2>1 DEF Armed
    <3> QED BY <3>1 DEF Served, ServedBy
  <2> QED BY <1>0, <2>1, <2>2, ServedSession
<1>3. CASE SessionDone(s)
  <2> DEFINE q == [ps[s] EXCEPT !.pc = "done"]
  <2>1. ps' = [ps EXCEPT ![s] = q] /\ ~Busy(q)
    BY <1>0, <1>3 DEF SessionDone, Session, Busy
  <2> HIDE DEF q
  <2> QED BY <1>0, <2>1, ServedSession
<1> QED BY <1>1, <1>2, <1>3 DEF RunLoop, LoadFails

LEMMA VainUser ==
  ASSUME Inv, SettledInv, NeverWaitsInVain, Pace = "settled", User PROVE NeverWaitsInVain'
<1>1. ASSUME NEW s \in SessId, StartPractice(s) PROVE NeverWaitsInVain'
  <2>1. \A t \in SessId : ps[t].pc # "waiting"
    BY <1>1, StartsAlone
  <2>2. PICK g : ps' = [ps EXCEPT ![s] = [Fresh EXCEPT !.pc = "created", !.grind = g]]
    BY <1>1 DEF StartPractice
  <2>3. \A t \in SessId : ps'[t].pc # "waiting"
    BY <2>1, <2>2 DEF Inv, TypeOK, Fresh
  <2> QED BY <2>3 DEF NeverWaitsInVain
<1>2. ASSUME current # 0, ps' = [ps EXCEPT ![current].running = FALSE] PROVE NeverWaitsInVain'
  <2> DEFINE q == [ps[current] EXCEPT !.running = FALSE]
  <2>1. current \in SessId /\ ps[current] \in Session
    BY <1>2 DEF Inv, TypeOK
  <2>2. ps' = [ps EXCEPT ![current] = q] /\ ~Busy(q)
    BY <1>2, <2>1 DEF Session, Busy
  <2> HIDE DEF q
  <2> QED BY <1>2, <2>2, ServedSession
<1>3. CASE UNCHANGED <<ps, timing, loop, queue>>
  BY <1>3, ServedSame DEF Served, ServedBy
<1>4. CASE StopPractice
  BY <1>2, <1>3, <1>4 DEF StopPractice, LiveSession
<1>5. CASE SwitchGame
  BY <1>2, <1>3, <1>5 DEF SwitchGame
<1>6. ASSUME NEW k \in {"pause", "next", "prev"}, Command(k) PROVE NeverWaitsInVain'
  <2>1. UNCHANGED <<ps, timing, loop>> /\ queue = <<>>
    BY <1>6 DEF Command, Calm
  <2>2. \A l : Served(l) => Served(l)'
    BY <2>1 DEF Served, ServedBy
  <2> QED BY <2>1, <2>2, ServedSame
<1> QED BY <1>1, <1>4, <1>5, <1>6 DEF User

LEMMA VainWorld == ASSUME Inv, NeverWaitsInVain, World \/ Tick PROVE NeverWaitsInVain'
<1> DEFINE HasResult(q) == \E i \in DOMAIN q : q[i].k = "result"
<1>0. queue \in Seq(Event) /\ UNCHANGED <<ps, loop>> /\ timing \in Timing
  BY DEF Inv, TypeOK, World, Tick, PlayerDies, PlayerAborts, PlayerFinishes, FileVanishes
<1>1. ASSUME NEW e, queue' = Append(queue, e)
      PROVE  /\ HasResult(queue) => HasResult(queue')
             /\ e.k = "result" => HasResult(queue')
  <2>1. /\ DOMAIN queue' = 1 .. Len(queue) + 1 /\ queue'[Len(queue) + 1] = e
        /\ \A i \in DOMAIN queue : i \in DOMAIN queue' /\ queue'[i] = queue[i]
    BY <1>0, <1>1
  <2> QED BY <1>0, <2>1
<1>2. HasResult(queue) =>
          HasResult(queue') \/ ~(PlayerDies \/ PlayerAborts \/ PlayerFinishes \/ Tick)
  <2>1. ASSUME NEW e, NEW f, queue' = queue \o <<e, f>>
        PROVE  HasResult(queue) => HasResult(queue')
    <3>1. \A i \in DOMAIN queue : i \in DOMAIN queue' /\ queue'[i] = queue[i]
      BY <1>0, <2>1
    <3> QED BY <3>1
  <2> HIDE DEF HasResult
  <2>2. CASE PlayerDies
    BY <1>1, <2>1, <2>2 DEF PlayerDies
  <2>3. CASE PlayerAborts \/ PlayerFinishes \/ Tick
    BY <1>1, <2>3 DEF PlayerAborts, PlayerFinishes, Tick
  <2> QED BY <2>2, <2>3
<1>3. CASE PlayerDies \/ PlayerAborts \/ PlayerFinishes
  <2>1. timing.st # "idle" => timing'.st # "idle" /\ timing'.load = timing.load
    BY <1>0, <1>3 DEF PlayerDies, PlayerAborts, PlayerFinishes, Timing
  <2>2. \A l : Served(l) => Served(l)'
    BY <1>0, <1>2, <1>3, <2>1 DEF Served, ServedBy
  <2> QED BY <1>0, <2>2, ServedSame
<1>4. CASE Tick
  <2>1. Emitted("result").k = "result"
    BY DEF Emitted
  <2>2. HasResult(queue')
    BY <1>1, <1>4, <2>1 DEF Tick
  <2>3. \A l : Served(l)'
    BY <2>2 DEF Served, ServedBy
  <2> QED BY <1>0, <2>3, ServedSame
<1>5. CASE FileVanishes
  BY <1>5, ServedSame DEF FileVanishes, Served, ServedBy
<1> QED BY <1>3, <1>4, <1>5 DEF World

LEMMA VainHandles ==
  ASSUME Inv, SettledInv, NeverWaitsInVain, Handles PROVE NeverWaitsInVain'
<1>0. queue \in Seq(Event) /\ queue # <<>> /\ queue' = Tail(queue) /\ loop = Free
  BY DEF Inv, TypeOK, Handles, HandleEvent, HandleResult, HandleDeath, HandlePause, HandleNav,
         Takes
<1>1. Head(queue).k # "result" =>
         \A i \in DOMAIN queue : queue[i].k = "result" =>
             \E j \in DOMAIN queue' : queue'[j].k = "result"
  <2> SUFFICES ASSUME Head(queue).k # "result", NEW i \in DOMAIN queue, queue[i].k = "result"
               PROVE  \E j \in DOMAIN queue' : queue'[j].k = "result"
    OBVIOUS
  <2>1. i # 1 /\ i \in 1 .. Len(queue)
    BY <1>0
  <2>2. i - 1 \in DOMAIN queue' /\ queue'[i - 1] = queue[i]
    BY <1>0, <2>1
  <2> QED BY <2>2
<1>2. ASSUME Head(queue).k # "result", UNCHANGED timing PROVE \A l : Served(l) => Served(l)'
  BY <1>0, <1>1, <1>2 DEF Served, ServedBy, Free
<1>3. ASSUME Practising PROVE current # 0 /\ current \in SessId /\ ps[current] \in Session
  BY <1>3, PractisingOk DEF Practising
<1>4. ASSUME Practising, NEW q, ps' = [ps EXCEPT ![current] = q], ~Busy(q)
      PROVE  NeverWaitsInVain'
  BY <1>3, <1>4, ServedSession
<1>5. CASE HandleEvent
  <2>0. Head(queue).k # "result" /\ UNCHANGED timing
    BY <1>5 DEF HandleEvent, Takes
  <2>1. CASE Practising
    <3> DEFINE q == [ps[current] EXCEPT !.ep = Head(queue).load]
    <3>1. ps' = [ps EXCEPT ![current] = q]
      BY <1>5, <2>1 DEF HandleEvent
    <3>2. q.load = ps[current].load /\ (Busy(q) => Busy(ps[current]))
      BY <1>3, <2>1 DEF Session, Busy
    <3> HIDE DEF q
    <3>3. Busy(q) => Served(ps[current].load)
      BY <1>3, <2>1, <3>2, ServedIs
    <3>4. Busy(q) => \A l : Served(l) => Served(l)'
      BY <1>2, <2>0
    <3>5. Busy(q) => ServedBy(timing', loop', queue', q.load)
      BY <3>1, <3>2, <3>3, <1>2, <2>0 DEF Served, ServedBy
    <3> QED BY <1>3, <2>1, <3>1, <3>5, ServedSession
  <2>2. CASE ~Practising
    BY <1>2, <1>5, <2>0, <2>2, ServedSame DEF HandleEvent
  <2> QED BY <2>1, <2>2
<1>6. CASE HandleResult
  <2>1. CASE Practising
    <3> DEFINE q == [ps[current] EXCEPT !.armed = FALSE, !.woke = TRUE,
                                        !.result = Head(queue).load]
    <3>1. ps' = [ps EXCEPT ![current] = q] /\ ~Busy(q)
      BY <1>3, <1>6, <2>1 DEF HandleResult, Inv, TypeOK, Session, Busy
    <3> HIDE DEF q
    <3> QED BY <1>4, <2>1, <3>1
  <2>2. CASE ~Practising
    <3>1. UNCHANGED ps
      BY <1>6, <2>2 DEF HandleResult
    <3>2. \A s \in SessId : ~(ps[s].pc = "waiting" /\ ps[s].running)
      BY <2>2 DEF SettledInv, Practising, SessId
    <3> QED BY <3>1, <3>2 DEF NeverWaitsInVain
  <2> QED BY <2>1, <2>2
<1>7. CASE HandleDeath
  <2>1. Head(queue).k # "result" /\ UNCHANGED <<ps, timing>>
    BY <1>7 DEF HandleDeath, Takes
  <2> QED BY <1>2, <2>1, ServedSame
<1>8. CASE HandlePause
  <2>0. Head(queue).k # "result"
    BY <1>8 DEF HandlePause, Takes
  <2>1. CASE ~InFlight
    <3>1. UNCHANGED <<ps, timing>>
      BY <1>8, <2>1 DEF HandlePause
    <3> QED BY <1>2, <2>0, <3>1, ServedSame
  <2>2. CASE InFlight /\ ~ps[current].paused
    <3> DEFINE q == [ps[current] EXCEPT !.paused = TRUE]
    <3>1. Practising /\ ps' = [ps EXCEPT ![current] = q]
      BY <1>8, <2>2 DEF HandlePause, InFlight
    <3>2. ~Busy(q)
      BY <1>3, <3>1 DEF Session, Busy
    <3> HIDE DEF q
    <3> QED BY <1>4, <3>1, <3>2
  <2>3. CASE InFlight /\ ps[current].paused
    <3> DEFINE n == Len(loads) + 1
               q == [ps[current] EXCEPT !.paused = FALSE, !.ep = None, !.load = n]
    <3>1. /\ Practising /\ ps' = [ps EXCEPT ![current] = q]
          /\ loop' = [op |-> "resume", load |-> n]
      BY <1>8, <2>3 DEF HandlePause, InFlight
    <3> HIDE DEF n
    <3>2. q.load = n
      BY <1>3, <3>1 DEF Session
    <3> HIDE DEF q
    <3>3. ServedBy(timing', loop', queue', q.load)
      BY <3>1, <3>2 DEF Served, ServedBy
    <3> QED BY <1>3, <3>1, <3>3, ServedSession
  <2> QED BY <2>1, <2>2, <2>3
<1>9. CASE HandleNav
  <2> DEFINE ok == NavOk /\ (Head(queue).k = "prev" => PrevOk)
             c == IF Head(queue).k = "next" THEN ps[current].cursor + 1
                                            ELSE ps[current].cursor - 1
             q == Dropped(ps[current], c)
  <2>0. Head(queue).k # "result"
    BY <1>9 DEF HandleNav, Takes
  <2>1. CASE ~ok
    <3>1. UNCHANGED <<ps, timing>>
      BY <1>9, <2>1 DEF HandleNav
    <3> QED BY <1>2, <2>0, <3>1, ServedSame
  <2>2. CASE ok
    <3>1. Practising /\ ps' = [ps EXCEPT ![current] = q]
      BY <1>9, <2>2 DEF HandleNav, NavOk, InFlight
    <3> HIDE DEF c
    <3>2. ~Busy(q)
      BY <1>3, <3>1 DEF Session, Dropped, Busy
    <3> HIDE DEF q
    <3> QED BY <1>4, <3>1, <3>2
  <2> QED BY <2>1, <2>2
<1> QED BY <1>5, <1>6, <1>7, <1>8, <1>9 DEF Handles

LEMMA VainReturn ==
  ASSUME Inv, SettledInv, NeverWaitsInVain, LoadsFail = FALSE, LoopReturns \/ LoopFails
  PROVE  NeverWaitsInVain'
<1>0. LoopReturns /\ UNCHANGED <<ps, queue>>
  BY DEF LoopReturns, LoopFails
<1>1. CASE loop.op = "resume"
  <2>1. timing' = Armed(loop.load)
    BY <1>0, <1>1 DEF LoopReturns
  <2>2. timing'.st # "idle" /\ timing'.load = ps[current].load
    BY <1>1, <2>1 DEF Armed, SettledInv
  <2>3. \A s \in SessId : s # current => ps[s].pc # "waiting"
    BY DEF SettledInv
  <2> QED BY <1>0, <2>2, <2>3 DEF NeverWaitsInVain
<1>2. CASE loop.op # "resume"
  <2>1. UNCHANGED timing
    BY <1>0, <1>2 DEF LoopReturns
  <2>2. \A l : Served(l) => Served(l)'
    BY <1>0, <1>2, <2>1 DEF Served, ServedBy
  <2> QED BY <1>0, <2>2, ServedSame
<1> QED BY <1>1, <1>2

LEMMA VainStep ==
  ASSUME Pace = "settled", LoadsFail = FALSE, Inv, SettledInv, NeverWaitsInVain, [Next]_vars
  PROVE  NeverWaitsInVain'
<1>1. CASE UNCHANGED vars
  BY <1>1 DEF vars, NeverWaitsInVain
<1> QED BY <1>1, VainTask, VainUser, VainWorld, VainHandles, VainReturn DEF Next

\* With a user who acts only when everything has settled, and a RetroArch that
\* rejects no state, a session that waits is waiting for something: its attempt
\* is being timed, its result is on its way, or a resume is arming it.
THEOREM WaitsAreServed ==
  ASSUME Pace = "settled", LoadsFail = FALSE PROVE Spec => []NeverWaitsInVain
<1>1. Init => SettledInv /\ NeverWaitsInVain
  BY SettledInit DEF Init, NeverWaitsInVain, Fresh
<1>2. Inv /\ SettledInv /\ NeverWaitsInVain /\ [Next]_vars => SettledInv' /\ NeverWaitsInVain'
  BY SettledStep, VainStep
<1> QED BY SpecInv, <1>1, <1>2, PTL DEF Spec

-----------------------------------------------------------------------------
(* Hyper play: a machine of its own, with its own timing, mode and rows.    *)

CONSTANTS Checkpoints, MaxBus, Patient, Switches
VARIABLES player, hyperTiming, bus, sess, live, hyperMode, hyperRows

H == INSTANCE HyperPlay WITH timing <- hyperTiming, mode <- hyperMode, rows <- hyperRows

Kinds  == {"checkpoint", "death", "complete"}
Events == [k : Kinds, at : Nat \X Nat, cold : BOOLEAN]
Places == {"none", "next", "loading", "loaded", "waiting", "reloading", "reloaded",
           "ending", "done", "ended"}
Sessions == [at : Places, running : BOOLEAN, level : Nat, sub : Nat, cold : BOOLEAN,
             inbox : Seq(Events)]
Players == [level : H!Levels, sub : Nat, cold : BOOLEAN, alive : BOOLEAN, done : BOOLEAN]
Timings == [st : {"idle", "playing", "dying", "result"}, cp : Nat, cps : Nat]

HyperTypes ==
    /\ player \in Players /\ hyperTiming \in Timings /\ bus \in Seq(Events)
    /\ sess \in [H!Runs -> Sessions]
    /\ live \in 0 .. MaxSessions /\ hyperMode \in {"idle", "hyper_play"}

\* Only the session started last has a task, and once that has torn the timing
\* down it stays down.
OneTask ==
    /\ \A s \in H!Runs : s # live => sess[s].at \in {"none", "ended"} /\ sess[s].inbox = <<>>
    /\ live # 0 => sess[live].at # "none"
    /\ live = 0 \/ sess[live].at \in {"done", "ended"} => hyperTiming.st = "idle"

\* A session nobody routes events to gets none; it waits until it is stopped.
Deaf(r) == /\ r.inbox = <<>>
           /\ r.at \in {"waiting", "next", "ending", "done", "ended"}
           /\ r.at = "next" => ~r.running

\* At most one event is on its way, to the bus or to the session's inbox.
Nothing(r)  == bus = <<>> /\ r.inbox = <<>>
OnTheWay(b, r) == {b[i] : i \in DOMAIN b} \cup {r.inbox[i] : i \in DOMAIN r.inbox}
Only(b, r, e)  == \/ b = <<e>> /\ r.inbox = <<>>
                  \/ b = <<>> /\ r.inbox = <<e>>
Awaits(b, r, k) == \E e \in OnTheWay(b, r) :
                       /\ Only(b, r, e) /\ e.k = k
                       /\ e.at = <<r.level, r.sub>> /\ (r.cold => e.cold)

Here(r)  == player.level = r.level /\ player.sub = r.sub
Began(r) == r.cold => player.cold \/ ~player.alive
Timed(r) == hyperTiming.st \in {"playing", "dying"} /\ hyperTiming.cp = r.sub

\* The stages of a sub-segment: a session that is attended to is in one of them.
Underway(r)  == Nothing(r) /\ Timed(r) /\ Here(r) /\ Began(r)
Crossed(r)   == /\ Awaits(bus, r, "checkpoint") /\ r.sub < Checkpoints[r.level]
                /\ hyperTiming.st = "playing" /\ hyperTiming.cp = r.sub + 1
                /\ player.level = r.level /\ player.sub = r.sub + 1
Died(r)      == Awaits(bus, r, "death") /\ Timed(r) /\ Here(r) /\ ~player.alive
Finished(r)  == /\ Nothing(r) /\ hyperTiming.st = "result" /\ Here(r) /\ Began(r)
                /\ player.done /\ player.alive /\ r.sub = Checkpoints[r.level]
Announced(r) == Awaits(bus, r, "complete") /\ hyperTiming.st = "idle"
Reviving(r)  == /\ Nothing(r) /\ Timed(r) /\ r.cold /\ Here(r)
                /\ IF r.at = "reloading" THEN ~player.alive ELSE player.cold

OnLevel(r) == /\ r.level \in H!Levels /\ r.sub <= Checkpoints[r.level]
              /\ hyperTiming.st # "idle" => hyperTiming.cps = Checkpoints[r.level]
Stage(r) == Underway(r) \/ Crossed(r) \/ Died(r) \/ Finished(r) \/ Announced(r)

\* Between levels nothing is timed, and nothing on its way.
Between(r) == /\ Nothing(r) /\ hyperTiming.st = "idle"
              /\ r.at \in {"loading", "loaded"} => r.level \in H!Levels
              /\ r.at = "loaded" => player.level = r.level /\ player.sub = 0 /\ player.cold

Attached(r) ==
    /\ r.at # "ended" /\ (r.at # "done" => r.running)
    /\ r.at = "waiting" => OnLevel(r) /\ Stage(r)
    /\ r.at \in {"reloading", "reloaded"} => OnLevel(r) /\ Reviving(r)
    /\ r.at \notin {"waiting", "reloading", "reloaded"} => Between(r)

Follows == /\ hyperMode = "hyper_play" => live # 0 /\ Attached(sess[live])
           /\ hyperMode # "hyper_play" /\ live # 0 => Deaf(sess[live])

TrueRows == \A r \in hyperRows : r.seg = r.at /\ r.cold

HyperInv == HyperTypes /\ OneTask /\ Follows /\ TrueRows

-----------------------------------------------------------------------------
LEMMA LevelsAre ==
    ASSUME H!HyperPlayAssumption
    PROVE  /\ H!Levels \subseteq Nat /\ 1 \in H!Levels
           /\ \A l \in H!Levels : Checkpoints[l] \in Nat
           /\ MaxSessions \in Nat \ {0} /\ H!Runs = 1 .. MaxSessions
<1>1. Checkpoints \in Seq(Nat) /\ Checkpoints # <<>> /\ MaxSessions \in Nat \ {0}
  BY DEF H!HyperPlayAssumption
<1>2. /\ DOMAIN Checkpoints = 1 .. Len(Checkpoints) /\ Len(Checkpoints) \in Nat \ {0}
      /\ \A l \in DOMAIN Checkpoints : Checkpoints[l] \in Nat
  BY <1>1, EmptySeq
<1> QED BY <1>1, <1>2 DEF H!Levels, H!Runs

\* The only session with a task.
LEMMA LiveIs ==
    ASSUME H!HyperPlayAssumption, HyperTypes, OneTask
    PROVE  /\ live # 0 => live \in H!Runs /\ sess[live] \in Sessions
           /\ \A s \in H!Runs : sess[s].at \notin {"none", "ended"} => s = live /\ live # 0
BY LevelsAre DEF HyperTypes, OneTask

\* A change of one session.
LEMMA SessionIs ==
    ASSUME sess \in [H!Runs -> Sessions], NEW s \in H!Runs, NEW r \in Sessions,
           sess' = [sess EXCEPT ![s] = r]
    PROVE  sess' \in [H!Runs -> Sessions] /\ sess'[s] = r /\ \A u \in H!Runs : u # s => sess'[u] = sess[u]
OBVIOUS

LEMMA GoesIs ==
    ASSUME sess \in [H!Runs -> Sessions], NEW s \in H!Runs, NEW p \in Places, H!Goes(s, p)
    PROVE  /\ sess' \in [H!Runs -> Sessions] /\ \A u \in H!Runs : u # s => sess'[u] = sess[u]
           /\ sess'[s].at = p /\ sess'[s].running = sess[s].running /\ sess'[s].level = sess[s].level
           /\ sess'[s].sub = sess[s].sub /\ sess'[s].cold = sess[s].cold /\ sess'[s].inbox = sess[s].inbox
<1> DEFINE r == [sess[s] EXCEPT !.at = p]
<1>1. /\ r \in Sessions /\ r.at = p /\ r.running = sess[s].running /\ r.level = sess[s].level
      /\ r.sub = sess[s].sub /\ r.cold = sess[s].cold /\ r.inbox = sess[s].inbox
  BY DEF Sessions
<1>2. sess' = [sess EXCEPT ![s] = r]
  BY DEF H!Goes
<1> HIDE DEF r
<1> QED BY <1>1, <1>2, SessionIs

LEMMA OneEvent ==
    ASSUME NEW e \in Events
    PROVE  /\ Append(<<>>, e) = <<e>> /\ Tail(<<e>>) = <<>> /\ Head(<<e>>) = e /\ <<e>> # <<>>
           /\ <<e>> \in Seq(Events) /\ DOMAIN <<e>> = {1} /\ <<e>>[1] = e
OBVIOUS

\* What there is to wait for, once it is quiet.
LEMMA QuietIs ==
    ASSUME H!HyperPlayAssumption, HyperInv, H!Quiet, hyperMode = "hyper_play"
    PROVE  /\ live \in H!Runs /\ live # 0 /\ sess[live].at = "waiting" /\ sess[live].running
           /\ OnLevel(sess[live]) /\ (Underway(sess[live]) \/ Finished(sess[live]))
<1> DEFINE r == sess[live]
<1>1. live # 0 /\ Attached(r) /\ live \in H!Runs /\ r.at # "none"
  BY LiveIs DEF HyperInv, Follows, OneTask
<1>2. bus = <<>> /\ r.inbox = <<>> /\ r.at = "waiting"
  BY <1>1 DEF H!Quiet, Attached
<1>3. r.running /\ OnLevel(r) /\ Stage(r)
  BY <1>1, <1>2 DEF Attached
<1>4. ASSUME NEW k, Awaits(bus, r, k) PROVE FALSE
  BY <1>2, <1>4 DEF Awaits, OnTheWay, Only
<1> QED BY <1>1, <1>2, <1>3, <1>4 DEF Stage, Crossed, Died, Announced

LEMMA AwaitsNow ==
    ASSUME NEW b, NEW r, NEW e, Only(b, r, e), NEW k, e.k = k, e.at = <<r.level, r.sub>>,
           r.cold => e.cold
    PROVE  Awaits(b, r, k)
<1>1. CASE b = <<e>>
  <2>1. 1 \in DOMAIN b /\ b[1] = e
    BY <1>1
  <2> QED BY <2>1 DEF Awaits, OnTheWay
<1>2. CASE r.inbox = <<e>>
  <2>1. 1 \in DOMAIN r.inbox /\ r.inbox[1] = e
    BY <1>2
  <2> QED BY <2>1 DEF Awaits, OnTheWay
<1> QED BY <1>1, <1>2 DEF Only

-----------------------------------------------------------------------------
(* The player. *)

LEMMA EventIs ==
    ASSUME H!HyperPlayAssumption, HyperTypes, NEW k \in Kinds
    PROVE  /\ H!Event(k) \in Events /\ H!Event(k).k = k
           /\ H!Event(k).at = <<player.level, player.sub>> /\ H!Event(k).cold = player.cold
BY LevelsAre DEF HyperTypes, Players, H!Event, Events

\* A step that leaves the sessions alone, with the timing down only if it was.
LEMMA PlayTypes ==
    ASSUME HyperTypes, OneTask, UNCHANGED <<sess, live, hyperMode>>,
           player' \in Players, hyperTiming' \in Timings, bus' \in Seq(Events),
           hyperTiming.st = "idle" => hyperTiming'.st = "idle"
    PROVE  HyperTypes' /\ OneTask' /\ (hyperMode = "idle" /\ Follows => Follows')
BY DEF HyperTypes, OneTask, Follows, Deaf

LEMMA CrossKeeps ==
    ASSUME H!HyperPlayAssumption, Patient = TRUE, HyperInv, H!CrossCheckpoint
    PROVE  HyperInv'
<1> DEFINE r == sess[live]
<1>1. /\ H!Quiet /\ player.alive /\ hyperTiming.st # "dying" /\ UNCHANGED <<sess, live, hyperMode, hyperRows>>
      /\ player.sub < Checkpoints[player.level]
      /\ player' = [player EXCEPT !.sub = @ + 1, !.cold = FALSE]
  BY DEF H!CrossCheckpoint, H!Plays
<1>2. \/ /\ hyperTiming.st = "playing" /\ hyperTiming.cp < hyperTiming.cps
         /\ bus' = Append(bus, H!Event("checkpoint"))
         /\ hyperTiming' = [hyperTiming EXCEPT !.cp = @ + 1]
      \/ /\ ~(hyperTiming.st = "playing" /\ hyperTiming.cp < hyperTiming.cps)
         /\ UNCHANGED <<bus, hyperTiming>>
  BY DEF H!CrossCheckpoint, H!ObserveCheckpoint, H!Says
<1>3. HyperTypes /\ OneTask /\ Follows /\ TrueRows
  BY DEF HyperInv
<1> DEFINE e == H!Event("checkpoint")
<1>4. e \in Events /\ e.k = "checkpoint" /\ e.at = <<player.level, player.sub>> /\ e.cold = player.cold
  BY <1>3, EventIs DEF Kinds
<1> HIDE DEF e
<1>5. player \in Players /\ hyperTiming \in Timings /\ bus \in Seq(Events)
  BY <1>3 DEF HyperTypes
<1>6. player' \in Players /\ player'.level = player.level /\ player'.sub = player.sub + 1
  <2> DEFINE n == player.sub + 1
             p == [player EXCEPT !.sub = n, !.cold = FALSE]
  <2>1. n \in Nat /\ player' = p
    BY <1>1, <1>5 DEF Players
  <2> HIDE DEF n
  <2>2. p \in Players /\ p.level = player.level /\ p.sub = n
    BY <1>5, <2>1 DEF Players
  <2> QED BY <2>1, <2>2 DEF n
<1>7. /\ hyperTiming' \in Timings /\ hyperTiming'.st = hyperTiming.st /\ hyperTiming'.cps = hyperTiming.cps
      /\ hyperTiming.st = "playing" /\ hyperTiming.cp < hyperTiming.cps => hyperTiming'.cp = hyperTiming.cp + 1
  BY <1>2, <1>5 DEF Timings
<1>8. bus' \in Seq(Events)
  <2>1. Append(bus, e) \in Seq(Events)
    BY <1>4, <1>5, AppendProperties
  <2> QED BY <1>2, <1>5, <2>1 DEF e
<1>9. HyperTypes' /\ OneTask' /\ (hyperMode = "idle" => Follows')
  BY <1>1, <1>3, <1>6, <1>7, <1>8, PlayTypes
<1>10. ASSUME hyperMode = "hyper_play" PROVE Follows'
  <2>1. /\ live # 0 /\ r.at = "waiting" /\ r.running /\ OnLevel(r)
        /\ Underway(r) \/ Finished(r)
    BY <1>1, <1>10, QuietIs
  <2>2. r.level \in H!Levels
    BY <2>1 DEF OnLevel
  <2>3. Checkpoints[r.level] \in Nat
    BY <2>2, LevelsAre
  <2>4. Underway(r)
    BY <1>1, <2>1, <2>3, <1>5 DEF Finished, Here, Players
  <2>5. /\ Here(r) /\ hyperTiming.st = "playing" /\ hyperTiming.cp = r.sub /\ r.inbox = <<>> /\ bus = <<>>
        /\ (r.cold => player.cold) /\ hyperTiming.cps = Checkpoints[r.level]
    BY <1>1, <2>1, <2>4 DEF Underway, Timed, Nothing, Began, OnLevel
  <2>6. r.sub < Checkpoints[r.level]
    BY <1>1, <2>5 DEF Here
  <2>7. /\ bus' = <<e>> /\ hyperTiming'.cp = r.sub + 1
    BY <1>2, <1>4, <1>7, <2>5, <2>6, OneEvent DEF e
  <2>8. Awaits(bus', r, "checkpoint")
    <3>1. e.at = <<r.level, r.sub>> /\ (r.cold => e.cold)
      BY <1>4, <2>5 DEF Here
    <3>2. Only(bus', r, e)
      BY <2>5, <2>7 DEF Only
    <3> QED BY <1>4, <3>1, <3>2, AwaitsNow
  <2>9. Crossed(sess[live])'
    BY <1>1, <1>6, <1>7, <2>5, <2>6, <2>7, <2>8 DEF Crossed, Here
  <2>10. OnLevel(sess[live])'
    BY <1>1, <1>7, <2>1, <2>5 DEF OnLevel
  <2> QED BY <1>1, <1>10, <2>1, <2>9, <2>10 DEF Follows, Attached, Stage
<1> QED BY <1>1, <1>3, <1>9, <1>10 DEF HyperInv, HyperTypes, TrueRows

LEMMA DieKeeps ==
    ASSUME H!HyperPlayAssumption, Patient = TRUE, HyperInv, H!Die
    PROVE  HyperInv'
<1> DEFINE r == sess[live]
<1>1. /\ H!Quiet /\ player.alive /\ ~player.done /\ hyperTiming.st # "dying"
      /\ UNCHANGED <<sess, live, hyperMode, hyperRows>>
      /\ player' = [player EXCEPT !.alive = FALSE]
  BY DEF H!Die, H!Plays
<1>2. \/ /\ hyperTiming.st = "playing" /\ bus' = Append(bus, H!Event("death"))
         /\ hyperTiming' = [hyperTiming EXCEPT !.st = "dying"]
      \/ /\ hyperTiming.st # "playing" /\ UNCHANGED <<bus, hyperTiming>>
  BY DEF H!Die, H!ObserveDeath, H!Says
<1>3. HyperTypes /\ OneTask /\ Follows /\ TrueRows
  BY DEF HyperInv
<1> DEFINE e == H!Event("death")
<1>4. e \in Events /\ e.k = "death" /\ e.at = <<player.level, player.sub>> /\ e.cold = player.cold
  BY <1>3, EventIs DEF Kinds
<1> HIDE DEF e
<1>5. player \in Players /\ hyperTiming \in Timings /\ bus \in Seq(Events)
  BY <1>3 DEF HyperTypes
<1>6. /\ player' \in Players /\ player'.level = player.level /\ player'.sub = player.sub
      /\ ~player'.alive
  BY <1>1, <1>5 DEF Players
<1>7. /\ hyperTiming' \in Timings /\ hyperTiming'.cps = hyperTiming.cps /\ hyperTiming'.cp = hyperTiming.cp
      /\ hyperTiming.st = "playing" => hyperTiming'.st = "dying"
      /\ hyperTiming.st = "idle" => hyperTiming'.st = "idle"
  BY <1>2, <1>5 DEF Timings
<1>8. bus' \in Seq(Events)
  <2>1. Append(bus, e) \in Seq(Events)
    BY <1>4, <1>5, AppendProperties
  <2> QED BY <1>2, <1>5, <2>1 DEF e
<1>9. HyperTypes' /\ OneTask' /\ (hyperMode = "idle" => Follows')
  BY <1>1, <1>3, <1>6, <1>7, <1>8, PlayTypes
<1>10. ASSUME hyperMode = "hyper_play" PROVE Follows'
  <2>1. /\ live # 0 /\ r.at = "waiting" /\ r.running /\ OnLevel(r)
        /\ Underway(r) \/ Finished(r)
    BY <1>1, <1>10, QuietIs
  <2>2. /\ Here(r) /\ hyperTiming.st = "playing" /\ hyperTiming.cp = r.sub /\ r.inbox = <<>> /\ bus = <<>>
        /\ (r.cold => player.cold) /\ hyperTiming.cps = Checkpoints[r.level]
    BY <1>1, <2>1 DEF Finished, Underway, Timed, Nothing, Began, OnLevel
  <2>3. bus' = <<e>>
    BY <1>2, <1>4, <2>2, OneEvent DEF e
  <2>4. Awaits(bus', r, "death")
    <3>1. e.at = <<r.level, r.sub>> /\ (r.cold => e.cold)
      BY <1>4, <2>2 DEF Here
    <3>2. Only(bus', r, e)
      BY <2>2, <2>3 DEF Only
    <3> QED BY <1>4, <3>1, <3>2, AwaitsNow
  <2>5. Died(sess[live])'
    BY <1>1, <1>6, <1>7, <2>2, <2>4 DEF Died, Here, Timed
  <2>6. OnLevel(sess[live])'
    BY <1>1, <1>7, <2>1, <2>2 DEF OnLevel
  <2> QED BY <1>1, <1>10, <2>1, <2>5, <2>6 DEF Follows, Attached, Stage
<1> QED BY <1>1, <1>3, <1>9, <1>10 DEF HyperInv, HyperTypes, TrueRows

LEMMA FinishKeeps ==
    ASSUME H!HyperPlayAssumption, Patient = TRUE, HyperInv, H!FinishLevel
    PROVE  HyperInv'
<1> DEFINE r == sess[live]
<1>1. /\ H!Quiet /\ player.alive /\ ~player.done /\ hyperTiming.st # "dying"
      /\ player.sub = Checkpoints[player.level]
      /\ UNCHANGED <<sess, live, hyperMode, hyperRows, bus>>
      /\ player' = [player EXCEPT !.done = TRUE]
      /\ hyperTiming' = IF hyperTiming.st = "playing" THEN [hyperTiming EXCEPT !.st = "result"]
                                                      ELSE hyperTiming
  BY DEF H!FinishLevel, H!ObserveExit, H!Plays
<1>2. HyperTypes /\ OneTask /\ Follows /\ TrueRows
  BY DEF HyperInv
<1>3. player \in Players /\ hyperTiming \in Timings /\ bus \in Seq(Events)
  BY <1>2 DEF HyperTypes
<1>4. /\ player' \in Players /\ player'.level = player.level /\ player'.sub = player.sub
      /\ player'.alive /\ player'.done /\ player'.cold = player.cold
  BY <1>1, <1>3 DEF Players
<1>5. /\ hyperTiming' \in Timings /\ hyperTiming'.cps = hyperTiming.cps
      /\ hyperTiming.st = "playing" => hyperTiming'.st = "result"
      /\ hyperTiming.st = "idle" => hyperTiming'.st = "idle"
  BY <1>1, <1>3 DEF Timings
<1>6. HyperTypes' /\ OneTask' /\ (hyperMode = "idle" => Follows')
  BY <1>1, <1>2, <1>3, <1>4, <1>5, PlayTypes
<1>7. ASSUME hyperMode = "hyper_play" PROVE Follows'
  <2>1. /\ live # 0 /\ r.at = "waiting" /\ r.running /\ OnLevel(r)
        /\ Underway(r) \/ Finished(r)
    BY <1>1, <1>7, QuietIs
  <2>2. /\ Here(r) /\ hyperTiming.st = "playing" /\ r.inbox = <<>> /\ bus = <<>>
        /\ (r.cold => player.cold) /\ hyperTiming.cps = Checkpoints[r.level]
    BY <1>1, <2>1 DEF Finished, Underway, Timed, Nothing, Began, OnLevel
  <2>3. r.sub = Checkpoints[r.level]
    BY <1>1, <2>2 DEF Here
  <2>4. Finished(sess[live])'
    BY <1>1, <1>4, <1>5, <2>2, <2>3 DEF Finished, Here, Nothing, Began
  <2>5. OnLevel(sess[live])'
    BY <1>1, <1>5, <2>1, <2>2 DEF OnLevel
  <2> QED BY <1>1, <1>7, <2>1, <2>4, <2>5 DEF Follows, Attached, Stage
<1> QED BY <1>1, <1>2, <1>6, <1>7 DEF HyperInv, HyperTypes, TrueRows

LEMMA RespawnKeeps ==
    ASSUME H!HyperPlayAssumption, Patient = TRUE, HyperInv, H!Respawn
    PROVE  HyperInv'
<1> DEFINE r == sess[live]
<1>1. /\ H!Quiet /\ ~player.alive
      /\ UNCHANGED <<sess, live, hyperMode, hyperRows, bus, hyperTiming>>
      /\ player' = [player EXCEPT !.alive = TRUE, !.cold = TRUE]
  BY DEF H!Respawn
<1>2. HyperTypes /\ OneTask /\ Follows /\ TrueRows
  BY DEF HyperInv
<1>3. player \in Players /\ hyperTiming \in Timings /\ bus \in Seq(Events)
  BY <1>2 DEF HyperTypes
<1>4. /\ player' \in Players /\ player'.level = player.level /\ player'.sub = player.sub
      /\ player'.cold
  BY <1>1, <1>3 DEF Players
<1>5. HyperTypes' /\ OneTask' /\ (hyperMode = "idle" => Follows')
  BY <1>1, <1>2, <1>3, <1>4, PlayTypes
<1>6. ASSUME hyperMode = "hyper_play" PROVE Follows'
  <2>1. /\ live # 0 /\ r.at = "waiting" /\ r.running /\ OnLevel(r)
        /\ Underway(r) \/ Finished(r)
    BY <1>1, <1>6, QuietIs
  <2>2. Underway(r)
    BY <1>1, <2>1 DEF Finished
  <2>3. Underway(sess[live])'
    BY <1>1, <1>4, <2>2 DEF Underway, Here, Nothing, Began, Timed
  <2>4. OnLevel(sess[live])'
    BY <1>1, <2>1 DEF OnLevel
  <2> QED BY <1>1, <1>6, <2>1, <2>3, <2>4 DEF Follows, Attached, Stage
<1> QED BY <1>1, <1>2, <1>5, <1>6 DEF HyperInv, HyperTypes, TrueRows

LEMMA TickKeeps ==
    ASSUME H!HyperPlayAssumption, HyperInv, H!Tick
    PROVE  HyperInv'
<1> DEFINE r == sess[live]
<1>1. HyperTypes /\ OneTask /\ Follows /\ TrueRows
  BY DEF HyperInv
<1>2. player \in Players /\ hyperTiming \in Timings /\ bus \in Seq(Events)
  BY <1>1 DEF HyperTypes
<1>3. UNCHANGED <<player, sess, live, hyperMode, hyperRows>>
  BY DEF H!Tick
<1>4. hyperMode = "hyper_play" => live # 0 /\ Attached(r)
  BY <1>1 DEF Follows
<1>5. CASE hyperTiming.st = "dying"
  <2>1. hyperTiming' = [hyperTiming EXCEPT !.st = "playing"] /\ bus' = bus
    BY <1>5 DEF H!Tick
  <2>2. /\ hyperTiming' \in Timings /\ hyperTiming'.st = "playing" /\ hyperTiming'.cp = hyperTiming.cp
        /\ hyperTiming'.cps = hyperTiming.cps
    BY <1>2, <2>1 DEF Timings
  <2>3. HyperTypes' /\ OneTask' /\ (hyperMode = "idle" => Follows')
    BY <1>1, <1>2, <1>3, <1>5, <2>1, <2>2, PlayTypes
  <2>4. ASSUME hyperMode = "hyper_play" PROVE Follows'
    <3>1. CASE r.at = "waiting"
      <4>1. OnLevel(r) /\ (Underway(r) \/ Died(r))
        BY <1>4, <1>5, <2>4, <3>1 DEF Attached, Stage, Crossed, Finished, Announced
      <4>2. OnLevel(sess[live])' /\ (Underway(sess[live]) \/ Died(sess[live]))'
        BY <1>3, <1>5, <2>1, <2>2, <4>1 DEF OnLevel, Underway, Died, Nothing, Timed, Here, Began
      <4> QED BY <1>3, <1>4, <2>4, <3>1, <4>2 DEF Follows, Attached, Stage
    <3>2. CASE r.at \in {"reloading", "reloaded"}
      <4>1. OnLevel(r) /\ Reviving(r)
        BY <1>4, <2>4, <3>2 DEF Attached
      <4>2. OnLevel(sess[live])' /\ Reviving(sess[live])'
        BY <1>3, <1>5, <2>1, <2>2, <4>1 DEF OnLevel, Reviving, Nothing, Timed, Here
      <4> QED BY <1>3, <1>4, <2>4, <3>2, <4>2 DEF Follows, Attached
    <3>3. r.at \in {"waiting", "reloading", "reloaded"}
      BY <1>4, <1>5, <2>4 DEF Attached, Between
    <3> QED BY <3>1, <3>2, <3>3
  <2> QED BY <1>1, <1>3, <2>3, <2>4 DEF HyperInv, HyperTypes, TrueRows
<1>6. CASE hyperTiming.st = "result"
  <2> DEFINE e == H!Event("complete")
  <2>1. hyperTiming' = H!Idle /\ bus' = Append(bus, e)
    BY <1>6 DEF H!Tick, H!Says
  <2>2. e \in Events /\ e.k = "complete" /\ e.at = <<player.level, player.sub>> /\ e.cold = player.cold
    BY <1>1, EventIs DEF Kinds
  <2> HIDE DEF e
  <2>3. hyperTiming' \in Timings /\ hyperTiming'.st = "idle"
    BY <2>1 DEF H!Idle, Timings
  <2>4. bus' \in Seq(Events)
    BY <1>2, <2>1, <2>2, AppendProperties
  <2>5. HyperTypes' /\ OneTask' /\ (hyperMode = "idle" => Follows')
    BY <1>1, <1>2, <1>3, <2>3, <2>4, PlayTypes
  <2>6. ASSUME hyperMode = "hyper_play" PROVE Follows'
    <3>1. r.at = "waiting" /\ r.running /\ OnLevel(r) /\ Finished(r)
      BY <1>4, <1>6, <2>6 DEF Attached, Between, Stage, Underway, Crossed, Died, Announced, Reviving, Timed
    <3>2. bus' = <<e>> /\ r.inbox = <<>>
      BY <2>1, <2>2, <3>1, OneEvent DEF Finished, Nothing
    <3>3. Awaits(bus', r, "complete")
      <4>1. e.at = <<r.level, r.sub>> /\ (r.cold => e.cold)
        BY <2>2, <3>1 DEF Finished, Here, Began
      <4>2. Only(bus', r, e)
        BY <3>2 DEF Only
      <4> QED BY <2>2, <4>1, <4>2, AwaitsNow
    <3>4. Announced(sess[live])' /\ OnLevel(sess[live])'
      BY <1>3, <2>3, <3>1, <3>3 DEF Announced, OnLevel
    <3> QED BY <1>3, <1>4, <2>6, <3>1, <3>4 DEF Follows, Attached, Stage
  <2> QED BY <1>1, <1>3, <2>5, <2>6 DEF HyperInv, HyperTypes, TrueRows
<1> QED BY <1>5, <1>6 DEF H!Tick

-----------------------------------------------------------------------------
(* The session manager. *)

LEMMA StartKeeps ==
    ASSUME H!HyperPlayAssumption, Patient = TRUE, HyperInv, H!StartHyperPlay
    PROVE  HyperInv'
<1> DEFINE q == [H!NoSession EXCEPT !.at = "next", !.running = TRUE]
           n == live + 1
<1>1. HyperTypes /\ OneTask /\ TrueRows
  BY DEF HyperInv
<1>2. /\ H!Quiet /\ H!Gone /\ live < MaxSessions /\ live' = n /\ hyperMode' = "hyper_play"
      /\ sess' = [sess EXCEPT ![n] = q]
      /\ UNCHANGED <<player, hyperTiming, bus, hyperRows>>
  BY DEF H!StartHyperPlay, H!Asks
<1>3. n \in H!Runs /\ n # 0 /\ live' \in 0 .. MaxSessions
  <2>1. live \in 0 .. MaxSessions
    BY <1>1 DEF HyperTypes
  <2> QED BY <1>2, <2>1, LevelsAre
<1>4. q \in Sessions /\ q.at = "next" /\ q.running /\ q.inbox = <<>>
  <2>1. H!NoSession \in Sessions /\ H!NoSession.inbox = <<>>
    BY EmptySeq DEF H!NoSession, Sessions, Places
  <2> QED BY <2>1 DEF Sessions, Places
<1>5. /\ sess' \in [H!Runs -> Sessions] /\ sess'[n] = q
      /\ \A u \in H!Runs : u # n => sess'[u] = sess[u]
  <2> HIDE DEF q, n
  <2> QED BY <1>1, <1>2, <1>3, <1>4, SessionIs DEF HyperTypes
<1>6. live = 0 \/ sess[live].at = "ended"
  BY <1>1, <1>2, LiveIs DEF H!Gone, OneTask
<1>7. hyperTiming.st = "idle" /\ bus = <<>>
  BY <1>1, <1>2, <1>6 DEF OneTask, H!Quiet
<1>8. \A u \in H!Runs : sess[u].at \in {"none", "ended"} /\ sess[u].inbox = <<>>
  BY <1>2 DEF H!Gone, H!Quiet
<1> HIDE DEF q, n
<1>9. OneTask'
  BY <1>2, <1>3, <1>4, <1>5, <1>8 DEF OneTask
<1>10. Follows'
  <2>1. sess'[live'] = q
    BY <1>2, <1>5
  <2>2. Between(sess[live])'
    BY <1>2, <1>4, <1>7, <2>1 DEF Between, Nothing
  <2>3. Attached(sess[live])'
    BY <1>4, <2>1, <2>2 DEF Attached
  <2> QED BY <1>2, <1>3, <2>3 DEF Follows
<1> QED BY <1>1, <1>2, <1>3, <1>5, <1>9, <1>10 DEF HyperInv, HyperTypes, TrueRows

LEMMA StopKeeps ==
    ASSUME H!HyperPlayAssumption, Patient = TRUE, HyperInv, H!StopHyperPlay
    PROVE  HyperInv'
<1> DEFINE q == [sess[live] EXCEPT !.running = FALSE]
<1>1. HyperTypes /\ OneTask /\ TrueRows
  BY DEF HyperInv
<1>2. /\ H!Quiet /\ live # 0 /\ hyperMode' = "idle" /\ sess' = [sess EXCEPT ![live] = q]
      /\ UNCHANGED <<player, hyperTiming, bus, live, hyperRows>>
  BY DEF H!StopHyperPlay, H!Asks
<1>3. live \in H!Runs /\ sess[live] \in Sessions
  BY <1>1, <1>2, LiveIs
<1>4. q \in Sessions /\ q.at = sess[live].at /\ q.inbox = sess[live].inbox /\ ~q.running
  BY <1>3 DEF Sessions
<1> HIDE DEF q
<1>5. /\ sess' \in [H!Runs -> Sessions] /\ sess'[live] = q
      /\ \A u \in H!Runs : u # live => sess'[u] = sess[u]
  BY <1>1, <1>2, <1>3, <1>4, SessionIs DEF HyperTypes
<1>6. sess[live].inbox = <<>> /\ sess[live].at \in {"waiting", "ended"}
  BY <1>1, <1>2, <1>3 DEF H!Quiet, OneTask
<1>7. OneTask'
  BY <1>1, <1>2, <1>3, <1>4, <1>5 DEF OneTask
<1>8. Follows'
  BY <1>2, <1>4, <1>5, <1>6 DEF Follows, Deaf
<1> QED BY <1>1, <1>2, <1>5, <1>7, <1>8 DEF HyperInv, HyperTypes, TrueRows

LEMMA SwitchKeeps ==
    ASSUME H!HyperPlayAssumption, Patient = TRUE, HyperInv, H!SwitchGame
    PROVE  HyperInv'
<1>1. HyperTypes /\ OneTask /\ TrueRows
  BY DEF HyperInv
<1>2. /\ H!Quiet /\ hyperMode' = "idle"
      /\ UNCHANGED <<player, hyperTiming, bus, live, sess, hyperRows>>
  BY DEF H!SwitchGame, H!Asks
<1>3. HyperTypes' /\ OneTask'
  BY <1>1, <1>2 DEF HyperTypes, OneTask
<1>4. ASSUME live # 0 PROVE Deaf(sess[live])
  <2>1. live \in H!Runs /\ sess[live].at # "none"
    BY <1>1, <1>4, LiveIs DEF OneTask
  <2> QED BY <1>2, <2>1 DEF H!Quiet, Deaf
<1>5. Follows'
  BY <1>2, <1>4 DEF Follows, Deaf
<1> QED BY <1>1, <1>2, <1>3, <1>5 DEF HyperInv, TrueRows

\* An event that is awaited is the only one; on the bus, it is the one routed.
LEMMA AwaitedIs ==
    ASSUME HyperTypes, NEW r \in Sessions, NEW k, Awaits(bus, r, k)
    PROVE  \E e \in Events : /\ Only(bus, r, e) /\ e.k = k
                             /\ e.at = <<r.level, r.sub>> /\ (r.cold => e.cold)
<1>1. PICK e \in OnTheWay(bus, r) : /\ Only(bus, r, e) /\ e.k = k
                                    /\ e.at = <<r.level, r.sub>> /\ (r.cold => e.cold)
  BY DEF Awaits
<1>2. bus \in Seq(Events) /\ r.inbox \in Seq(Events)
  BY DEF HyperTypes, Sessions
<1>3. e \in Events
  BY <1>1, <1>2 DEF OnTheWay
<1> QED BY <1>1, <1>3

LEMMA RouteKeeps ==
    ASSUME H!HyperPlayAssumption, HyperInv, H!RouteEvent
    PROVE  HyperInv'
<1>1. HyperTypes /\ OneTask /\ Follows /\ TrueRows
  BY DEF HyperInv
<1>2. /\ bus # <<>> /\ bus' = Tail(bus)
      /\ UNCHANGED <<player, hyperTiming, live, hyperMode, hyperRows>>
  BY DEF H!RouteEvent
<1>3. bus \in Seq(Events)
  BY <1>1 DEF HyperTypes
<1>4. Head(bus) \in Events /\ bus' \in Seq(Events)
  BY <1>2, <1>3, HeadTailProperties
<1>5. CASE ~(hyperMode = "hyper_play" /\ live # 0)
  <2>1. sess' = sess
    BY <1>5 DEF H!RouteEvent
  <2>2. HyperTypes' /\ OneTask' /\ Follows'
    BY <1>1, <1>2, <1>4, <1>5, <2>1 DEF HyperTypes, OneTask, Follows, Deaf
  <2> QED BY <1>1, <1>2, <2>2 DEF HyperInv, TrueRows
<1>6. CASE hyperMode = "hyper_play" /\ live # 0
  <2> DEFINE r == sess[live]
             i == Append(r.inbox, Head(bus))
             q == [r EXCEPT !.inbox = i]
  <2>1. sess' = [sess EXCEPT ![live] = q]
    BY <1>6 DEF H!RouteEvent
  <2>2. live \in H!Runs /\ r \in Sessions /\ Attached(r)
    BY <1>1, <1>6, LiveIs DEF Follows
  <2>3. r.inbox \in Seq(Events)
    BY <2>2 DEF Sessions
  <2>4. i \in Seq(Events)
    <3> HIDE DEF r
    <3> QED BY <1>4, <2>3, AppendProperties
  <2>5. r.at = "waiting" /\ OnLevel(r) /\ Stage(r)
    BY <1>2, <2>2 DEF Attached, Between, Reviving, Nothing
  <2>6. PICK k \in Kinds : Awaits(bus, r, k) /\ (k = "checkpoint" => Crossed(r))
                           /\ (k = "death" => Died(r)) /\ (k = "complete" => Announced(r))
    BY <1>2, <2>5 DEF Stage, Underway, Finished, Nothing, Kinds, Crossed, Died, Announced
  <2>7. PICK e \in Events : /\ Only(bus, r, e) /\ e.k = k
                            /\ e.at = <<r.level, r.sub>> /\ (r.cold => e.cold)
    <3> HIDE DEF r
    <3> QED BY <1>1, <2>2, <2>6, AwaitedIs
  <2>8. bus = <<e>> /\ r.inbox = <<>>
    BY <1>2, <2>7 DEF Only
  <2>9. i = <<e>> /\ bus' = <<>>
    BY <1>2, <2>8, OneEvent
  <2> HIDE DEF i
  <2>10. /\ q \in Sessions /\ q.at = r.at /\ q.level = r.level /\ q.sub = r.sub
         /\ q.cold = r.cold /\ q.running = r.running /\ q.inbox = i
    BY <2>2, <2>4 DEF Sessions
  <2> HIDE DEF q
  <2>11. /\ sess' \in [H!Runs -> Sessions] /\ sess'[live] = q
         /\ \A u \in H!Runs : u # live => sess'[u] = sess[u]
    BY <1>1, <2>1, <2>2, <2>10, SessionIs DEF HyperTypes
  <2>12. HyperTypes'
    BY <1>1, <1>2, <1>4, <2>11 DEF HyperTypes
  <2>13. OneTask'
    BY <1>1, <1>2, <2>10, <2>11 DEF OneTask
  <2>14. Awaits(bus', q, k)
    <3>1. Only(bus', q, e)
      BY <2>9, <2>10 DEF Only
    <3> QED BY <2>7, <2>10, <3>1, AwaitsNow
  <2>15. sess'[live'] = q
    BY <1>2, <2>11
  <2>16. Stage(sess[live])'
    <3>1. k = "checkpoint" => Crossed(sess[live])'
      BY <1>2, <2>6, <2>10, <2>14, <2>15 DEF Crossed
    <3>2. k = "death" => Died(sess[live])'
      BY <1>2, <2>6, <2>10, <2>14, <2>15 DEF Died, Timed, Here
    <3>3. k = "complete" => Announced(sess[live])'
      BY <1>2, <2>6, <2>10, <2>14, <2>15 DEF Announced
    <3> QED BY <2>6, <3>1, <3>2, <3>3 DEF Stage, Kinds
  <2>17. OnLevel(sess[live])'
    BY <1>2, <2>5, <2>10, <2>15 DEF OnLevel
  <2>18. Attached(sess[live])'
    BY <2>2, <2>5, <2>10, <2>15, <2>16, <2>17 DEF Attached
  <2>19. Follows'
    BY <1>2, <1>6, <2>18 DEF Follows
  <2> QED BY <1>1, <1>2, <2>12, <2>13, <2>19 DEF HyperInv, TrueRows
<1> QED BY <1>5, <1>6

-----------------------------------------------------------------------------
(* The task of a session. *)

\* A step of the session with a task, to q.
LEMMA TaskFrame ==
    ASSUME H!HyperPlayAssumption, HyperTypes, OneTask, NEW s \in H!Runs, s = live, NEW q \in Sessions,
           q.at # "none", q.at \in {"done", "ended"} => hyperTiming'.st = "idle",
           sess' = [sess EXCEPT ![s] = q], player' \in Players, hyperTiming' \in Timings,
           hyperMode' \in {"idle", "hyper_play"}, UNCHANGED <<bus, live>>
    PROVE  HyperTypes' /\ OneTask' /\ sess'[live'] = q /\ live' # 0
<1>1. /\ sess' \in [H!Runs -> Sessions] /\ sess'[s] = q
      /\ \A u \in H!Runs : u # s => sess'[u] = sess[u]
  BY SessionIs DEF HyperTypes
<1>2. s # 0
  BY LevelsAre
<1> QED BY <1>1, <1>2 DEF HyperTypes, OneTask

\* The session that takes a step, and what is known of it.
LEMMA TaskIs ==
    ASSUME H!HyperPlayAssumption, HyperInv, NEW s \in H!Runs, sess[s].at \notin {"none", "ended"}
    PROVE  /\ HyperTypes /\ OneTask /\ TrueRows /\ s = live /\ live # 0 /\ sess[s] \in Sessions
           /\ player \in Players /\ hyperTiming \in Timings /\ hyperMode \in {"idle", "hyper_play"}
           /\ hyperMode = "hyper_play" => Attached(sess[s])
           /\ hyperMode # "hyper_play" => Deaf(sess[s])
<1>1. HyperTypes /\ OneTask /\ Follows /\ TrueRows
  BY DEF HyperInv
<1>2. s = live /\ live # 0 /\ sess[s] \in Sessions
  BY <1>1, LiveIs
<1> QED BY <1>1, <1>2 DEF HyperTypes, Follows

LEMMA StartIs ==
    ASSUME NEW l \in H!Levels, NEW n \in Nat
    PROVE  /\ H!Start(l, n) \in Players /\ H!Start(l, n).level = l /\ H!Start(l, n).sub = n
           /\ H!Start(l, n).cold
BY DEF H!Start, Players

LEMMA NextLevelKeeps ==
    ASSUME H!HyperPlayAssumption, HyperInv, NEW s \in H!Runs, H!NextLevel(s)
    PROVE  HyperInv'
<1> DEFINE r == sess[s]
           p == IF r.running /\ r.level \in H!Levels THEN "loading" ELSE "ending"
           q == [r EXCEPT !.at = p]
<1>1. /\ r.at = "next" /\ sess' = [sess EXCEPT ![s] = q]
      /\ UNCHANGED <<player, hyperTiming, bus, live, hyperMode, hyperRows>>
  BY DEF H!NextLevel, H!Goes
<1>2. /\ HyperTypes /\ OneTask /\ TrueRows /\ s = live /\ live # 0 /\ r \in Sessions
      /\ player \in Players /\ hyperTiming \in Timings /\ hyperMode \in {"idle", "hyper_play"}
      /\ hyperMode = "hyper_play" => Attached(r)
      /\ hyperMode # "hyper_play" => Deaf(r)
  BY <1>1, TaskIs
<1>3. p \in {"loading", "ending"} /\ (p = "loading" => r.running /\ r.level \in H!Levels)
  OBVIOUS
<1> HIDE DEF p
<1>4. /\ q \in Sessions /\ q.at = p /\ q.running = r.running /\ q.inbox = r.inbox
      /\ q.level = r.level
  BY <1>2, <1>3 DEF Sessions, Places
<1> HIDE DEF q, r
<1>5. HyperTypes' /\ OneTask' /\ sess'[live'] = q /\ live' # 0
  BY <1>1, <1>2, <1>3, <1>4, TaskFrame
<1>6. ASSUME hyperMode = "hyper_play" PROVE Attached(sess[live])'
  BY <1>1, <1>2, <1>3, <1>4, <1>5, <1>6 DEF Attached, Between, Nothing
<1>7. ASSUME hyperMode # "hyper_play" PROVE Deaf(sess[live])'
  BY <1>1, <1>2, <1>3, <1>4, <1>5, <1>7 DEF Deaf
<1> QED BY <1>1, <1>2, <1>5, <1>6, <1>7 DEF HyperInv, TrueRows, Follows

LEMMA LoadKeeps ==
    ASSUME H!HyperPlayAssumption, HyperInv, NEW s \in H!Runs, H!LoadExecutes(s)
    PROVE  HyperInv'
<1> DEFINE r == sess[s]
           p == IF r.at = "loading" THEN "loaded" ELSE "reloaded"
           n == IF r.at = "loading" THEN 0 ELSE r.sub
           q == [r EXCEPT !.at = p]
<1>1. /\ r.at \in {"loading", "reloading"} /\ sess' = [sess EXCEPT ![s] = q]
      /\ player' = H!Start(r.level, n)
      /\ UNCHANGED <<hyperTiming, bus, live, hyperMode, hyperRows>>
  BY DEF H!LoadExecutes, H!Goes
<1>2. /\ HyperTypes /\ OneTask /\ TrueRows /\ s = live /\ live # 0 /\ r \in Sessions
      /\ player \in Players /\ hyperTiming \in Timings /\ hyperMode \in {"idle", "hyper_play"}
      /\ hyperMode = "hyper_play" => Attached(r)
      /\ hyperMode # "hyper_play" => Deaf(r)
  BY <1>1, TaskIs
<1>3. Attached(r) /\ hyperMode = "hyper_play"
  BY <1>1, <1>2 DEF Deaf
<1>4. r.level \in H!Levels /\ r.running
  BY <1>1, <1>3 DEF Attached, OnLevel, Between
<1>5. n \in Nat
  BY <1>2 DEF Sessions
<1>6. player' \in Players /\ player'.level = r.level /\ player'.sub = n /\ player'.cold
  <2> HIDE DEF n, r
  <2> QED BY <1>1, <1>4, <1>5, StartIs
<1>7. p \in {"loaded", "reloaded"} /\ (p = "loaded" <=> r.at = "loading")
  BY <1>1
<1> HIDE DEF p
<1>8. /\ q \in Sessions /\ q.at = p /\ q.running = r.running /\ q.inbox = r.inbox
      /\ q.level = r.level /\ q.sub = r.sub /\ q.cold = r.cold
  BY <1>2, <1>7 DEF Sessions, Places
<1>9. n = IF r.at = "loading" THEN 0 ELSE r.sub
  OBVIOUS
<1> HIDE DEF q, r, n
<1>10. HyperTypes' /\ OneTask' /\ sess'[live'] = q /\ live' # 0
  BY <1>1, <1>2, <1>6, <1>7, <1>8, TaskFrame
<1>11. CASE r.at = "loading"
  <2>1. Between(sess[live])'
    BY <1>1, <1>3, <1>4, <1>6, <1>7, <1>8, <1>9, <1>10, <1>11 DEF Attached, Between, Nothing
  <2>2. Attached(sess[live])'
    BY <1>4, <1>7, <1>8, <1>10, <1>11, <2>1 DEF Attached
  <2> QED BY <1>1, <1>2, <1>3, <1>10, <2>2 DEF HyperInv, TrueRows, Follows
<1>12. CASE r.at = "reloading"
  <2>1. OnLevel(r) /\ Reviving(r)
    BY <1>3, <1>12 DEF Attached
  <2>2. OnLevel(sess[live])'
    BY <1>1, <1>8, <1>10, <2>1 DEF OnLevel
  <2>3. Reviving(sess[live])'
    BY <1>1, <1>6, <1>7, <1>8, <1>9, <1>10, <1>12, <2>1 DEF Reviving, Nothing, Timed, Here
  <2>4. Attached(sess[live])'
    BY <1>4, <1>7, <1>8, <1>10, <1>12, <2>2, <2>3 DEF Attached
  <2> QED BY <1>1, <1>2, <1>3, <1>10, <2>4 DEF HyperInv, TrueRows, Follows
<1> QED BY <1>1, <1>11, <1>12

LEMMA LoadedKeeps ==
    ASSUME H!HyperPlayAssumption, HyperInv, NEW s \in H!Runs, H!LevelLoaded(s)
    PROVE  HyperInv'
<1> DEFINE r == sess[s]
           q == [r EXCEPT !.at = "waiting", !.sub = 0, !.cold = TRUE]
           c == Checkpoints[r.level]
<1>1. /\ r.at = "loaded" /\ hyperTiming' = [st |-> "playing", cp |-> 0, cps |-> c]
      /\ UNCHANGED <<player, bus, live, hyperMode, hyperRows>>
  BY DEF H!LevelLoaded
<1>2. /\ HyperTypes /\ OneTask /\ TrueRows /\ s = live /\ live # 0 /\ r \in Sessions
      /\ player \in Players /\ hyperTiming \in Timings /\ hyperMode \in {"idle", "hyper_play"}
      /\ hyperMode = "hyper_play" => Attached(r)
      /\ hyperMode # "hyper_play" => Deaf(r)
  BY <1>1, TaskIs
<1>3. Attached(r) /\ hyperMode = "hyper_play"
  BY <1>1, <1>2 DEF Deaf
<1>4. Between(r) /\ r.level \in H!Levels /\ r.running
  BY <1>1, <1>3 DEF Attached, Between
<1>5. c \in Nat
  BY <1>4, LevelsAre
<1> HIDE DEF c
<1>6. /\ hyperTiming' \in Timings /\ hyperTiming'.st = "playing" /\ hyperTiming'.cp = 0
      /\ hyperTiming'.cps = c
  BY <1>1, <1>5 DEF Timings
<1>7. sess' = [sess EXCEPT ![s] = q]
  BY <1>2 DEF H!LevelLoaded, HyperTypes
<1>8. /\ q \in Sessions /\ q.at = "waiting" /\ q.running = r.running /\ q.inbox = r.inbox
      /\ q.level = r.level /\ q.sub = 0 /\ q.cold
  BY <1>2 DEF Sessions, Places
<1>9. c = Checkpoints[r.level]
  BY DEF c
<1> HIDE DEF q, r
<1>10. HyperTypes' /\ OneTask' /\ sess'[live'] = q /\ live' # 0
  BY <1>1, <1>2, <1>6, <1>7, <1>8, TaskFrame
<1>11. OnLevel(sess[live])'
  BY <1>4, <1>5, <1>6, <1>8, <1>9, <1>10 DEF OnLevel
<1>12. Underway(sess[live])'
  BY <1>1, <1>4, <1>6, <1>8, <1>10 DEF Underway, Between, Nothing, Timed, Here, Began
<1>13. Attached(sess[live])'
  BY <1>4, <1>8, <1>10, <1>11, <1>12 DEF Attached, Stage
<1> QED BY <1>1, <1>2, <1>3, <1>10, <1>13 DEF HyperInv, TrueRows, Follows

LEMMA FailKeeps ==
    ASSUME H!HyperPlayAssumption, HyperInv, NEW s \in H!Runs, H!LevelFails(s)
    PROVE  HyperInv'
<1> DEFINE r == sess[s]
           q == [r EXCEPT !.at = "ending"]
<1>1. /\ r.at = "loading" /\ sess' = [sess EXCEPT ![s] = q]
      /\ UNCHANGED <<player, hyperTiming, bus, live, hyperMode, hyperRows>>
  BY DEF H!LevelFails, H!Goes
<1>2. /\ HyperTypes /\ OneTask /\ TrueRows /\ s = live /\ live # 0 /\ r \in Sessions
      /\ player \in Players /\ hyperTiming \in Timings /\ hyperMode \in {"idle", "hyper_play"}
      /\ hyperMode = "hyper_play" => Attached(r)
      /\ hyperMode # "hyper_play" => Deaf(r)
  BY <1>1, TaskIs
<1>3. Attached(r) /\ hyperMode = "hyper_play"
  BY <1>1, <1>2 DEF Deaf
<1>4. q \in Sessions /\ q.at = "ending" /\ q.running = r.running /\ q.inbox = r.inbox
  BY <1>2 DEF Sessions, Places
<1> HIDE DEF q, r
<1>5. HyperTypes' /\ OneTask' /\ sess'[live'] = q /\ live' # 0
  BY <1>1, <1>2, <1>4, TaskFrame
<1>6. Attached(sess[live])'
  BY <1>1, <1>3, <1>4, <1>5 DEF Attached, Between, Nothing
<1> QED BY <1>1, <1>2, <1>3, <1>5, <1>6 DEF HyperInv, TrueRows, Follows

LEMMA ReloadedKeeps ==
    ASSUME H!HyperPlayAssumption, HyperInv, NEW s \in H!Runs, H!Reloaded(s)
    PROVE  HyperInv'
<1> DEFINE r == sess[s]
           q == [r EXCEPT !.at = "waiting", !.inbox = <<>>]
<1>1. /\ r.at \in {"reloading", "reloaded"}
      /\ UNCHANGED <<player, hyperTiming, bus, live, hyperMode, hyperRows>>
  BY DEF H!Reloaded
<1>2. /\ HyperTypes /\ OneTask /\ TrueRows /\ s = live /\ live # 0 /\ r \in Sessions
      /\ player \in Players /\ hyperTiming \in Timings /\ hyperMode \in {"idle", "hyper_play"}
      /\ hyperMode = "hyper_play" => Attached(r)
      /\ hyperMode # "hyper_play" => Deaf(r)
  BY <1>1, TaskIs
<1>3. Attached(r) /\ hyperMode = "hyper_play"
  BY <1>1, <1>2 DEF Deaf
<1>4. OnLevel(r) /\ Reviving(r) /\ r.running
  BY <1>1, <1>3 DEF Attached
<1>5. sess' = [sess EXCEPT ![s] = q]
  BY <1>2 DEF H!Reloaded, HyperTypes
<1>6. /\ q \in Sessions /\ q.at = "waiting" /\ q.running = r.running /\ q.inbox = <<>>
      /\ q.level = r.level /\ q.sub = r.sub /\ q.cold = r.cold
  BY <1>2, EmptySeq DEF Sessions, Places
<1> HIDE DEF q, r
<1>7. HyperTypes' /\ OneTask' /\ sess'[live'] = q /\ live' # 0
  BY <1>1, <1>2, <1>5, <1>6, TaskFrame
<1>8. OnLevel(sess[live])'
  BY <1>1, <1>4, <1>6, <1>7 DEF OnLevel
<1>9. Underway(sess[live])'
  BY <1>1, <1>4, <1>6, <1>7 DEF Underway, Reviving, Nothing, Timed, Here, Began
<1>10. Attached(sess[live])'
  BY <1>4, <1>6, <1>7, <1>8, <1>9 DEF Attached, Stage
<1> QED BY <1>1, <1>2, <1>3, <1>7, <1>10 DEF HyperInv, TrueRows, Follows

LEMMA NoticesKeeps ==
    ASSUME H!HyperPlayAssumption, HyperInv, NEW s \in H!Runs, H!Notices(s)
    PROVE  HyperInv'
<1> DEFINE r == sess[s]
           q == [r EXCEPT !.at = "next"]
<1>1. /\ r.at = "waiting" /\ ~r.running /\ sess' = [sess EXCEPT ![s] = q]
      /\ UNCHANGED <<player, hyperTiming, bus, live, hyperMode, hyperRows>>
  BY DEF H!Notices, H!Goes
<1>2. /\ HyperTypes /\ OneTask /\ TrueRows /\ s = live /\ live # 0 /\ r \in Sessions
      /\ player \in Players /\ hyperTiming \in Timings /\ hyperMode \in {"idle", "hyper_play"}
      /\ hyperMode = "hyper_play" => Attached(r)
      /\ hyperMode # "hyper_play" => Deaf(r)
  BY <1>1, TaskIs
<1>3. Deaf(r) /\ hyperMode # "hyper_play"
  BY <1>1, <1>2 DEF Attached
<1>4. q \in Sessions /\ q.at = "next" /\ q.running = r.running /\ q.inbox = r.inbox
  BY <1>2 DEF Sessions, Places
<1> HIDE DEF q, r
<1>5. HyperTypes' /\ OneTask' /\ sess'[live'] = q /\ live' # 0
  BY <1>1, <1>2, <1>4, TaskFrame
<1>6. Deaf(sess[live])'
  BY <1>1, <1>3, <1>4, <1>5 DEF Deaf
<1> QED BY <1>1, <1>2, <1>3, <1>5, <1>6 DEF HyperInv, TrueRows, Follows

\* The event a session takes is the one its sub-segment awaits, and was sent of
\* that sub-segment.
LEMMA TakenIs ==
    ASSUME H!HyperPlayAssumption, HyperInv, NEW s \in H!Runs, NEW k \in Kinds, H!Takes(s, k)
    PROVE  LET r == sess[s] e == Head(r.inbox) IN
           /\ hyperMode = "hyper_play" /\ r.running /\ OnLevel(r) /\ bus = <<>>
           /\ e.at = <<r.level, r.sub>> /\ (r.cold => e.cold) /\ Tail(r.inbox) = <<>>
           /\ k = "checkpoint" => Crossed(r)
           /\ k = "death" => Died(r)
           /\ k = "complete" => Announced(r)
<1> DEFINE r == sess[s]
<1>1. r.at = "waiting" /\ r.inbox # <<>> /\ Head(r.inbox).k = k
  BY DEF H!Takes
<1>2. /\ HyperTypes /\ s = live /\ r \in Sessions
      /\ hyperMode = "hyper_play" => Attached(r)
      /\ hyperMode # "hyper_play" => Deaf(r)
  BY <1>1, TaskIs
<1>3. Attached(r) /\ hyperMode = "hyper_play"
  BY <1>1, <1>2 DEF Deaf
<1>4. r.running /\ OnLevel(r) /\ Stage(r)
  BY <1>1, <1>3 DEF Attached
<1>5. PICK j \in Kinds : Awaits(bus, r, j) /\ (j = "checkpoint" => Crossed(r))
                         /\ (j = "death" => Died(r)) /\ (j = "complete" => Announced(r))
  BY <1>1, <1>4 DEF Stage, Underway, Finished, Nothing, Kinds, Crossed, Died, Announced
<1>6. PICK e \in Events : /\ Only(bus, r, e) /\ e.k = j
                          /\ e.at = <<r.level, r.sub>> /\ (r.cold => e.cold)
  <2> HIDE DEF r
  <2> QED BY <1>2, <1>5, AwaitedIs
<1>7. r.inbox = <<e>> /\ bus = <<>>
  BY <1>1, <1>6 DEF Only
<1>8. Head(r.inbox) = e /\ Tail(r.inbox) = <<>>
  BY <1>7, OneEvent
<1>9. j = k
  BY <1>1, <1>6, <1>8
<1> QED BY <1>3, <1>4, <1>5, <1>6, <1>7, <1>8, <1>9

\* What is recorded was played, and begun cold.
LEMMA RecordIs ==
    ASSUME NEW s \in H!Runs, H!Record(s), TrueRows, sess[s].cold \in BOOLEAN,
           Head(sess[s].inbox).at = <<sess[s].level, sess[s].sub>>,
           sess[s].cold => Head(sess[s].inbox).cold
    PROVE  TrueRows'
<1> DEFINE e == Head(sess[s].inbox)
           n == [run |-> s, seg |-> <<sess[s].level, sess[s].sub>>, at |-> e.at, cold |-> e.cold]
<1>1. CASE sess[s].cold /\ sess[s].sub <= Checkpoints[sess[s].level]
  <2>1. hyperRows' = hyperRows \cup {n}
    BY <1>1 DEF H!Record
  <2>2. n.seg = n.at /\ n.cold
    BY <1>1
  <2> QED BY <2>1, <2>2 DEF TrueRows
<1>2. CASE ~(sess[s].cold /\ sess[s].sub <= Checkpoints[sess[s].level])
  <2>1. hyperRows' = hyperRows
    BY <1>2 DEF H!Record
  <2> QED BY <2>1 DEF TrueRows
<1> QED BY <1>1, <1>2

LEMMA TakeCheckpointKeeps ==
    ASSUME H!HyperPlayAssumption, HyperInv, NEW s \in H!Runs, H!TakeCheckpoint(s)
    PROVE  HyperInv'
<1> DEFINE r == sess[s]
           i == Tail(r.inbox)
           n == r.sub + 1
           q == [r EXCEPT !.inbox = i, !.sub = n, !.cold = FALSE]
<1>1. /\ r.at = "waiting" /\ H!Takes(s, "checkpoint") /\ H!Record(s)
      /\ UNCHANGED <<player, hyperTiming, bus, live, hyperMode>>
  BY DEF H!TakeCheckpoint, H!Takes
<1>2. /\ HyperTypes /\ OneTask /\ TrueRows /\ s = live /\ live # 0 /\ r \in Sessions
      /\ player \in Players /\ hyperTiming \in Timings /\ hyperMode \in {"idle", "hyper_play"}
  BY <1>1, TaskIs
<1>3. /\ hyperMode = "hyper_play" /\ r.running /\ OnLevel(r) /\ bus = <<>> /\ i = <<>>
      /\ Head(r.inbox).at = <<r.level, r.sub>> /\ (r.cold => Head(r.inbox).cold) /\ Crossed(r)
  BY <1>1, TakenIs DEF Kinds
<1>4. TrueRows'
  BY <1>1, <1>2, <1>3, RecordIs DEF Sessions
<1>5. sess' = [sess EXCEPT ![s] = q]
  BY <1>2 DEF H!TakeCheckpoint, HyperTypes
<1>6. n \in Nat /\ n = r.sub + 1
  BY <1>2 DEF Sessions
<1> HIDE DEF n, i
<1>7. /\ q \in Sessions /\ q.at = "waiting" /\ q.running = r.running /\ q.inbox = <<>>
      /\ q.level = r.level /\ q.sub = n /\ ~q.cold
  BY <1>1, <1>2, <1>3, <1>6, EmptySeq DEF Sessions
<1>8. r.sub \in Nat /\ Checkpoints[r.level] \in Nat
  BY <1>2, <1>3, LevelsAre DEF Sessions, OnLevel
<1> HIDE DEF q, r
<1>9. HyperTypes' /\ OneTask' /\ sess'[live'] = q /\ live' # 0
  BY <1>1, <1>2, <1>5, <1>7, TaskFrame
<1>10. OnLevel(sess[live])'
  BY <1>1, <1>3, <1>6, <1>7, <1>8, <1>9 DEF OnLevel, Crossed
<1>11. Underway(sess[live])'
  BY <1>1, <1>3, <1>6, <1>7, <1>9 DEF Crossed, Underway, Nothing, Timed, Here, Began
<1>12. Attached(sess[live])'
  BY <1>3, <1>7, <1>9, <1>10, <1>11 DEF Attached, Stage
<1> QED BY <1>1, <1>3, <1>4, <1>9, <1>12 DEF HyperInv, Follows

LEMMA TakeDeathKeeps ==
    ASSUME H!HyperPlayAssumption, HyperInv, NEW s \in H!Runs, H!TakeDeath(s)
    PROVE  HyperInv'
<1> DEFINE r == sess[s]
           i == Tail(r.inbox)
           p == IF r.sub > Checkpoints[r.level] THEN "waiting"
                ELSE IF r.running THEN "reloading" ELSE "next"
           q == [r EXCEPT !.inbox = i, !.cold = TRUE, !.at = p]
<1>1. /\ r.at = "waiting" /\ H!Takes(s, "death")
      /\ UNCHANGED <<player, hyperTiming, bus, live, hyperMode, hyperRows>>
  BY DEF H!TakeDeath, H!Takes
<1>2. /\ HyperTypes /\ OneTask /\ TrueRows /\ s = live /\ live # 0 /\ r \in Sessions
      /\ player \in Players /\ hyperTiming \in Timings /\ hyperMode \in {"idle", "hyper_play"}
  BY <1>1, TaskIs
<1>3. /\ hyperMode = "hyper_play" /\ r.running /\ OnLevel(r) /\ bus = <<>> /\ i = <<>> /\ Died(r)
  BY <1>1, TakenIs DEF Kinds
<1>4. sess' = [sess EXCEPT ![s] = q]
  BY <1>2 DEF H!TakeDeath, HyperTypes
<1>5. p = "reloading"
  <2>1. r.sub \in Nat /\ Checkpoints[r.level] \in Nat /\ r.sub <= Checkpoints[r.level]
    BY <1>2, <1>3, LevelsAre DEF Sessions, OnLevel
  <2> QED BY <1>3, <2>1
<1> HIDE DEF p, i
<1>6. /\ q \in Sessions /\ q.at = "reloading" /\ q.running = r.running /\ q.inbox = <<>>
      /\ q.level = r.level /\ q.sub = r.sub /\ q.cold
  BY <1>1, <1>2, <1>3, <1>5, EmptySeq DEF Sessions, Places
<1> HIDE DEF q, r
<1>7. HyperTypes' /\ OneTask' /\ sess'[live'] = q /\ live' # 0
  BY <1>1, <1>2, <1>4, <1>6, TaskFrame
<1>8. OnLevel(sess[live])'
  BY <1>1, <1>3, <1>6, <1>7 DEF OnLevel
<1>9. Reviving(sess[live])'
  BY <1>1, <1>3, <1>6, <1>7 DEF Died, Reviving, Nothing, Timed, Here
<1>10. Attached(sess[live])'
  BY <1>3, <1>6, <1>7, <1>8, <1>9 DEF Attached
<1> QED BY <1>1, <1>2, <1>3, <1>7, <1>10 DEF HyperInv, TrueRows, Follows

LEMMA TakeCompleteKeeps ==
    ASSUME H!HyperPlayAssumption, HyperInv, NEW s \in H!Runs, H!TakeComplete(s)
    PROVE  HyperInv'
<1> DEFINE r == sess[s]
           i == Tail(r.inbox)
           n == r.level + 1
           q == [r EXCEPT !.inbox = i, !.level = n, !.at = "next"]
<1>1. /\ r.at = "waiting" /\ H!Takes(s, "complete") /\ H!Record(s)
      /\ UNCHANGED <<player, hyperTiming, bus, live, hyperMode>>
  BY DEF H!TakeComplete, H!Takes
<1>2. /\ HyperTypes /\ OneTask /\ TrueRows /\ s = live /\ live # 0 /\ r \in Sessions
      /\ player \in Players /\ hyperTiming \in Timings /\ hyperMode \in {"idle", "hyper_play"}
  BY <1>1, TaskIs
<1>3. /\ hyperMode = "hyper_play" /\ r.running /\ bus = <<>> /\ i = <<>> /\ Announced(r)
      /\ Head(r.inbox).at = <<r.level, r.sub>> /\ (r.cold => Head(r.inbox).cold)
  BY <1>1, TakenIs DEF Kinds
<1>4. TrueRows'
  BY <1>1, <1>2, <1>3, RecordIs DEF Sessions
<1>5. sess' = [sess EXCEPT ![s] = q]
  BY <1>2 DEF H!TakeComplete, HyperTypes
<1>6. n \in Nat
  BY <1>2 DEF Sessions
<1> HIDE DEF n, i
<1>7. q \in Sessions /\ q.at = "next" /\ q.running = r.running /\ q.inbox = <<>>
  BY <1>1, <1>2, <1>3, <1>6, EmptySeq DEF Sessions, Places
<1> HIDE DEF q, r
<1>8. HyperTypes' /\ OneTask' /\ sess'[live'] = q /\ live' # 0
  BY <1>1, <1>2, <1>5, <1>7, TaskFrame
<1>9. Attached(sess[live])'
  BY <1>1, <1>3, <1>7, <1>8 DEF Attached, Announced, Between, Nothing
<1> QED BY <1>1, <1>3, <1>4, <1>8, <1>9 DEF HyperInv, Follows

LEMMA TeardownKeeps ==
    ASSUME H!HyperPlayAssumption, HyperInv, NEW s \in H!Runs, H!Teardown(s)
    PROVE  HyperInv'
<1> DEFINE r == sess[s]
           q == [r EXCEPT !.at = "done", !.running = FALSE]
<1>1. /\ r.at = "ending" /\ hyperTiming' = H!Idle
      /\ UNCHANGED <<player, bus, live, hyperMode, hyperRows>>
  BY DEF H!Teardown
<1>2. /\ HyperTypes /\ OneTask /\ TrueRows /\ s = live /\ live # 0 /\ r \in Sessions
      /\ player \in Players /\ hyperTiming \in Timings /\ hyperMode \in {"idle", "hyper_play"}
      /\ hyperMode = "hyper_play" => Attached(r)
      /\ hyperMode # "hyper_play" => Deaf(r)
  BY <1>1, TaskIs
<1>3. hyperTiming' \in Timings /\ hyperTiming'.st = "idle"
  BY <1>1 DEF H!Idle, Timings
<1>4. sess' = [sess EXCEPT ![s] = q]
  BY <1>2 DEF H!Teardown, HyperTypes
<1>5. q \in Sessions /\ q.at = "done" /\ ~q.running /\ q.inbox = r.inbox
  BY <1>2 DEF Sessions, Places
<1> HIDE DEF q, r
<1>6. HyperTypes' /\ OneTask' /\ sess'[live'] = q /\ live' # 0
  BY <1>1, <1>2, <1>3, <1>4, <1>5, TaskFrame
<1>7. ASSUME hyperMode = "hyper_play" PROVE Attached(sess[live])'
  BY <1>1, <1>2, <1>3, <1>5, <1>6, <1>7 DEF Attached, Between, Nothing
<1>8. ASSUME hyperMode # "hyper_play" PROVE Deaf(sess[live])'
  BY <1>2, <1>5, <1>6, <1>8 DEF Deaf
<1> QED BY <1>1, <1>2, <1>6, <1>7, <1>8 DEF HyperInv, TrueRows, Follows

LEMMA DoneKeeps ==
    ASSUME H!HyperPlayAssumption, HyperInv, NEW s \in H!Runs, H!SessionDone(s)
    PROVE  HyperInv'
<1> DEFINE r == sess[s]
           q == [r EXCEPT !.at = "ended"]
<1>1. /\ r.at = "done" /\ hyperMode' = "idle" /\ sess' = [sess EXCEPT ![s] = q]
      /\ UNCHANGED <<player, hyperTiming, bus, live, hyperRows>>
  BY DEF H!SessionDone, H!Goes
<1>2. /\ HyperTypes /\ OneTask /\ TrueRows /\ s = live /\ live # 0 /\ r \in Sessions
      /\ player \in Players /\ hyperTiming \in Timings /\ hyperMode \in {"idle", "hyper_play"}
      /\ hyperMode = "hyper_play" => Attached(r)
      /\ hyperMode # "hyper_play" => Deaf(r)
  BY <1>1, TaskIs
<1>3. hyperTiming.st = "idle"
  BY <1>1, <1>2 DEF OneTask
<1>4. r.inbox = <<>>
  BY <1>1, <1>2 DEF Attached, Between, Nothing, Deaf
<1>5. q \in Sessions /\ q.at = "ended" /\ q.inbox = r.inbox
  BY <1>2 DEF Sessions, Places
<1> HIDE DEF q, r
<1>6. HyperTypes' /\ OneTask' /\ sess'[live'] = q /\ live' # 0
  BY <1>1, <1>2, <1>3, <1>5, TaskFrame
<1>7. Deaf(sess[live])'
  BY <1>4, <1>5, <1>6 DEF Deaf
<1> QED BY <1>1, <1>2, <1>6, <1>7 DEF HyperInv, TrueRows, Follows

-----------------------------------------------------------------------------
LEMMA HyperInit ==
    ASSUME H!HyperPlayAssumption, H!Init
    PROVE  HyperInv
<1>1. player = H!Start(1, 0) /\ bus = <<>> /\ live = 0 /\ hyperMode = "idle" /\ hyperRows = {}
  BY DEF H!Init
<1>2. player \in Players
  BY <1>1, LevelsAre, StartIs
<1>3. hyperTiming \in Timings /\ hyperTiming.st = "idle"
  BY DEF H!Init, H!Idle, Timings
<1>4. H!NoSession \in Sessions /\ H!NoSession.inbox = <<>> /\ H!NoSession.at = "none"
  BY EmptySeq DEF H!NoSession, Sessions, Places
<1>5. sess \in [H!Runs -> Sessions] /\ \A s \in H!Runs : sess[s] = H!NoSession
  BY <1>4 DEF H!Init
<1>6. bus \in Seq(Events) /\ live \in 0 .. MaxSessions
  BY <1>1, LevelsAre, EmptySeq
<1> QED BY <1>1, <1>2, <1>3, <1>4, <1>5, <1>6
        DEF HyperInv, HyperTypes, OneTask, Follows, TrueRows

LEMMA HyperStep ==
    ASSUME H!HyperPlayAssumption, Patient = TRUE, HyperInv, [H!Next]_H!vars
    PROVE  HyperInv'
<1>1. CASE H!CrossCheckpoint
  BY <1>1, CrossKeeps
<1>2. CASE H!Die
  BY <1>2, DieKeeps
<1>3. CASE H!FinishLevel
  BY <1>3, FinishKeeps
<1>4. CASE H!Respawn
  BY <1>4, RespawnKeeps
<1>5. CASE H!Tick
  BY <1>5, TickKeeps
<1>6. CASE H!StartHyperPlay
  BY <1>6, StartKeeps
<1>7. CASE H!StopHyperPlay
  BY <1>7, StopKeeps
<1>8. CASE H!SwitchGame
  BY <1>8, SwitchKeeps
<1>9. CASE H!RouteEvent
  BY <1>9, RouteKeeps
<1>10. ASSUME NEW s \in H!Runs, H!Task(s) PROVE HyperInv'
  <2>1. CASE H!NextLevel(s)
    BY <2>1, NextLevelKeeps
  <2>2. CASE H!LoadExecutes(s)
    BY <2>2, LoadKeeps
  <2>3. CASE H!LevelLoaded(s)
    BY <2>3, LoadedKeeps
  <2>4. CASE H!Reloaded(s)
    BY <2>4, ReloadedKeeps
  <2>5. CASE H!Notices(s)
    BY <2>5, NoticesKeeps
  <2>6. CASE H!TakeCheckpoint(s)
    BY <2>6, TakeCheckpointKeeps
  <2>7. CASE H!TakeDeath(s)
    BY <2>7, TakeDeathKeeps
  <2>8. CASE H!TakeComplete(s)
    BY <2>8, TakeCompleteKeeps
  <2>9. CASE H!Teardown(s)
    BY <2>9, TeardownKeeps
  <2>10. CASE H!SessionDone(s)
    BY <2>10, DoneKeeps
  <2> QED BY <1>10, <2>1, <2>2, <2>3, <2>4, <2>5, <2>6, <2>7, <2>8, <2>9, <2>10 DEF H!Task
<1>11. ASSUME NEW s \in H!Runs, H!LevelFails(s) PROVE HyperInv'
  BY <1>11, FailKeeps
<1>12. CASE UNCHANGED H!vars
  BY <1>12 DEF H!vars, HyperInv, HyperTypes, OneTask, Follows, TrueRows, Deaf, Attached, OnLevel,
     Stage, Between, Reviving, Underway, Crossed, Died, Finished, Announced, Nothing, Timed, Here,
     Began
<1> QED BY <1>1, <1>2, <1>3, <1>4, <1>5, <1>6, <1>7, <1>8, <1>9, <1>10, <1>11, <1>12 DEF H!Next

LEMMA HyperAgrees ==
    ASSUME H!HyperPlayAssumption, HyperInv
    PROVE  H!CountsAgree
<1>1. TrueRows
  BY DEF HyperInv
<1>2. ASSUME NEW s \in H!Runs, H!Attended(s), hyperTiming.st = "playing"
      PROVE  /\ sess[s].sub = hyperTiming.cp
             /\ <<sess[s].level, sess[s].sub>> = <<player.level, player.sub>>
  <2>1. s = live /\ hyperMode = "hyper_play" /\ H!Quiet
    BY <1>2 DEF H!Attended
  <2>2. Underway(sess[s])
    BY <1>2, <2>1, QuietIs DEF Finished
  <2> QED BY <2>2 DEF Underway, Timed, Here
<1> QED BY <1>1, <1>2 DEF H!CountsAgree, TrueRows

\* As long as user and player wait for what is in flight, the session's count
\* of sub-segments, the timing's, and the player's agree whenever the session
\* waits with nothing on its way, and what was recorded was played, and begun
\* cold (run_one, HyperPlayTiming, _record_attempt).
THEOREM CountsStayAgreed ==
    ASSUME H!HyperPlayAssumption, Patient = TRUE
    PROVE  H!Spec => []H!CountsAgree
<1>1. H!Init => HyperInv
  BY HyperInit
<1>2. HyperInv /\ [H!Next]_H!vars => HyperInv'
  BY HyperStep
<1>3. HyperInv => H!CountsAgree
  BY HyperAgrees
<1> HIDE DEF HyperInv
<1> QED BY <1>1, <1>2, <1>3, PTL DEF H!Spec

-----------------------------------------------------------------------------
(* The scheduler that picks for practice.                                   *)

CONSTANTS Penalty, NoTime, Alphas, Whole, Fast, Slow, PoolSize, GateMin, Sure, TrendWindow,
          Effective, NSegs, Registered, Weightings, Told, ClearTimes, MaxEpisodes, MaxRows,
          MaxChanges, MaxLooks
VARIABLES planRows, fits, planFiles, saved, sched, engine, draw, updates, play, latest, planSnap,
          turns, told, behind, count

Plan == INSTANCE PracticePlan WITH rows <- planRows, files <- planFiles, snap <- planSnap

\* Division with remainder.
LEMMA DivIs ==
    ASSUME NEW n \in Nat \ {0}, NEW x \in Nat
    PROVE  x % n \in 0 .. n - 1 /\ \E q \in Nat : x % n = x - n * q
<1>1. n \in Int /\ n > 0 /\ x \in Int
  OBVIOUS
<1>2. x % n \in 0 .. n - 1 /\ x \div n \in Nat
  OBVIOUS
<1>3. x % n = x - n * (x \div n)
  BY <1>1, Z3
<1> QED BY <1>2, <1>3

LEMMA OneRemainder ==
    ASSUME NEW n \in Nat \ {0}, NEW q \in Nat, NEW p \in Nat,
           NEW r \in 0 .. n - 1, NEW s \in 0 .. n - 1, n * q + r = n * p + s
    PROVE  r = s
<1>1. n * (q - p) = s - r
  OBVIOUS
<1>2. q = p
  <2>1. CASE q - p >= 1
    <3>1. n * (q - p) >= n
      BY <2>1
    <3> QED BY <3>1, <1>1
  <2>2. CASE q - p <= -1
    <3>1. n * (q - p) <= -n
      BY <2>2
    <3> QED BY <3>1, <1>1
  <2> QED BY <2>1, <2>2
<1> QED BY <1>1, <1>2

\* Two numbers have the same remainder iff their difference has none.
LEMMA SameRemainder ==
    ASSUME NEW n \in Nat \ {0}, NEW x \in Nat, NEW d \in Nat
    PROVE  (x + d) % n = x % n <=> d % n = 0
<1> DEFINE y == x + d
           xr == x % n
           dr == d % n
           yr == y % n
<1>1. y \in Nat
  OBVIOUS
<1>2. PICK xq \in Nat : xr \in 0 .. n - 1 /\ xr = x - n * xq
  BY DivIs
<1>3. PICK dq \in Nat : dr \in 0 .. n - 1 /\ dr = d - n * dq
  BY DivIs
<1>4. PICK yq \in Nat : yr \in 0 .. n - 1 /\ yr = y - n * yq
  BY <1>1, DivIs
<1>5. y = x + d
  OBVIOUS
<1> DEFINE q == xq + dq
<1> HIDE DEF y, xr, dr, yr
<1>6. q \in Nat /\ n * yq + yr = n * q + (xr + dr)
  BY <1>1, <1>2, <1>3, <1>4, <1>5
<1> HIDE DEF q
<1>7. ASSUME dr = 0 PROVE yr = xr
  <2>1. n * yq + yr = n * q + xr
    BY <1>2, <1>6, <1>7
  <2> QED BY <1>2, <1>4, <1>6, <2>1, OneRemainder
<1>8. ASSUME yr = xr PROVE dr = 0
  <2>1. n * yq + 0 = n * q + dr /\ 0 \in 0 .. n - 1
    BY <1>2, <1>3, <1>4, <1>6, <1>8
  <2> QED BY <1>3, <1>6, <2>1, OneRemainder
<1> QED BY <1>7, <1>8 DEF y, xr, dr, yr

\* In a finite set of numbers, no two have as many below them.
LEMMA OneOfRank ==
    ASSUME NEW S \in SUBSET Nat, IsFiniteSet(S), NEW s \in S, NEW t \in S,
           Cardinality({u \in S : u < s}) = Cardinality({u \in S : u < t})
    PROVE  s = t
<1> DEFINE Below(x) == {u \in S : u < x}
<1>1. ASSUME NEW x \in S, NEW y \in S, x < y PROVE Cardinality(Below(x)) # Cardinality(Below(y))
  <2>1. Below(x) \subseteq Below(y)
    <3>1. ASSUME NEW u \in S, u < x PROVE u < y
      <4>1. u \in Nat /\ x \in Nat /\ y \in Nat
        OBVIOUS
      <4> QED BY <1>1, <3>1, <4>1
    <3> QED BY <3>1
  <2>2. x \in Below(y) /\ x \notin Below(x)
    BY <1>1
  <2>3. IsFiniteSet(Below(y))
    BY FS_Subset
  <2> HIDE DEF Below
  <2> QED BY <2>1, <2>2, <2>3, FS_Subset
<1>2. s \in Nat /\ t \in Nat
  OBVIOUS
<1>3. ~(s < t)
  BY <1>1
<1>4. ~(t < s)
  BY <1>1
<1> QED BY <1>2, <1>3, <1>4
\* The scheduler has the weights that were saved, where they name every allocator.
Complete == saved # None /\ DOMAIN saved = Registered
SavedIsUsed == Complete => /\ saved = [a \in Registered |-> saved[a]]
                           /\ sched.all = saved

\* As many segments are below the one picked as the index said then.
Below(s) == Cardinality({t \in planFiles : t < s})
InTurn == Complete =>
    /\ Len(turns) <= sched.index
    /\ \A i \in DOMAIN turns :
          /\ turns[i] \in planFiles
          /\ Below(turns[i]) = (sched.index - Len(turns) + i - 1) % Cardinality(planFiles)

TurnTypes == /\ planFiles \subseteq Plan!Segs /\ turns \in Seq(Nat)
             /\ sched = [all |-> sched.all, index |-> sched.index] /\ sched.index \in Nat

TurnInv == TurnTypes /\ SavedIsUsed /\ InTurn

LEMMA Counts == \A S : Plan!Cardinality(S) = Cardinality(S)
BY Zenon DEF Plan!Cardinality, Cardinality

LEMMA FilesAre ==
    ASSUME Plan!PlanAssumption, TurnTypes
    PROVE  /\ IsFiniteSet(planFiles) /\ planFiles \subseteq Nat /\ Cardinality(planFiles) \in Nat
           /\ planFiles # {} => Cardinality(planFiles) # 0
<1>1. Plan!Segs = 1 .. NSegs /\ NSegs \in Nat
  BY DEF Plan!Segs, Plan!PlanAssumption
<1>2. IsFiniteSet(Plan!Segs) /\ Plan!Segs \subseteq Nat
  <2>1. IsFiniteSet(1 .. NSegs)
    BY <1>1, FS_Interval
  <2> QED BY <1>1, <2>1
<1>3. IsFiniteSet(planFiles) /\ planFiles \subseteq Nat
  BY <1>2, FS_Subset DEF TurnTypes
<1> QED BY <1>3, FS_CardinalityType, FS_EmptySet

\* Of segments picked in turn, two are the same iff whole turns lie between.
LEMMA TurnsCycle ==
    ASSUME Plan!PlanAssumption, TurnInv
    PROVE  Plan!RoundRobinCycles
<1> SUFFICES ASSUME Complete
             PROVE  \A i \in DOMAIN turns : \A j \in i + 1 .. Len(turns) :
                        (turns[i] = turns[j]) <=> (j - i) % Cardinality(planFiles) = 0
  BY Counts DEF Plan!RoundRobinCycles, Complete
<1> TAKE i \in DOMAIN turns
<1> TAKE j \in i + 1 .. Len(turns)
<1> DEFINE n == Cardinality(planFiles)
           x == sched.index - Len(turns) + i - 1
           d == j - i
<1>1. turns \in Seq(Nat) /\ sched.index \in Nat
  BY DEF TurnInv, TurnTypes
<1>2. /\ Len(turns) \in Nat /\ i \in 1 .. Len(turns) /\ j \in 1 .. Len(turns)
      /\ i \in DOMAIN turns /\ j \in DOMAIN turns /\ i < j
  BY <1>1
<1>3. /\ turns[i] \in planFiles /\ Below(turns[i]) = x % n
      /\ turns[j] \in planFiles /\ Below(turns[j]) = (sched.index - Len(turns) + j - 1) % n
      /\ Len(turns) <= sched.index
  BY <1>2 DEF TurnInv, InTurn
<1>4. x \in Nat /\ d \in Nat /\ sched.index - Len(turns) + j - 1 = x + d
  <2>1. i \in Nat /\ j \in Nat /\ i >= 1 /\ i < j /\ Len(turns) \in Nat
    BY <1>2
  <2>2. Len(turns) <= sched.index
    BY <1>3
  <2> DEFINE k == sched.index
             l == Len(turns)
  <2>3. k \in Nat /\ l \in Nat /\ l <= k
    BY <1>1, <2>1, <2>2
  <2> HIDE DEF k, l
  <2>4. k - l + i - 1 \in Nat
    BY <2>1, <2>3
  <2>5. j - i \in Nat /\ k - l + j - 1 = (k - l + i - 1) + (j - i)
    BY <2>1, <2>3
  <2> QED BY <2>4, <2>5 DEF k, l
<1>5. /\ IsFiniteSet(planFiles) /\ planFiles \in SUBSET Nat /\ n \in Nat \ {0}
  BY <1>3, FilesAre DEF TurnInv
<1>6. Below(turns[j]) = (x + d) % n
  BY <1>3, <1>4
<1> HIDE DEF n, x, d
<1>7. (x + d) % n = x % n <=> d % n = 0
  BY <1>4, <1>5, SameRemainder
<1>8. Below(turns[i]) = Below(turns[j]) => turns[i] = turns[j]
  <2>1. ASSUME NEW s \in planFiles, NEW t \in planFiles, Below(s) = Below(t) PROVE s = t
    <3>1. Cardinality({u \in planFiles : u < s}) = Cardinality({u \in planFiles : u < t})
      BY <2>1 DEF Below
    <3> QED BY <1>5, <3>1, OneOfRank
  <2> QED BY <1>3, <2>1
<1> QED BY <1>3, <1>6, <1>7, <1>8 DEF n, d

LEMMA PickKeepsTurns ==
    ASSUME Plan!PlanAssumption, TurnInv, NEW a \in Registered, Plan!Pick(a)
    PROVE  TurnInv'
<1> DEFINE m == Plan!Synced
           k == IF a = "round_robin" THEN m.index + 1 ELSE m.index
<1>1. /\ planFiles # {} /\ UNCHANGED <<planFiles, saved>>
      /\ sched' = [m EXCEPT !.index = k]
  BY DEF Plan!Pick
<1>2. PICK s \in Plan!Answers(a, m) :
          turns' = IF a = "round_robin" THEN Append(turns, s) ELSE turns
  BY DEF Plan!Pick
<1>3. TurnTypes /\ SavedIsUsed /\ InTurn
  BY DEF TurnInv
<1>4. m = [all |-> m.all, index |-> m.index] /\ m.index \in Nat /\ (Complete => m = sched)
  <2>1. Complete => m = sched
    BY <1>3 DEF SavedIsUsed, Plan!Synced, Complete
  <2>2. m = sched \/ m = Plan!NewMix(Plan!FromDB)
    BY DEF Plan!Synced
  <2> HIDE DEF m
  <2>3. CASE m = sched
    BY <1>3, <2>1, <2>3 DEF TurnTypes
  <2>4. CASE m = Plan!NewMix(Plan!FromDB)
    BY <2>1, <2>4 DEF Plan!NewMix
  <2> QED BY <2>2, <2>3, <2>4
<1>5. s \in planFiles /\ (a = "round_robin" => Below(s) = m.index % Cardinality(planFiles))
  <2> HIDE DEF m
  <2>1. CASE a = "round_robin"
    <3>1. Plan!Answers(a, m) = {t \in planFiles : Cardinality({u \in planFiles : u < t})
                                                = m.index % Cardinality(planFiles)}
      BY <2>1, Counts DEF Plan!Answers
    <3> QED BY <1>2, <3>1 DEF Below
  <2>2. CASE a = "least_played"
    BY <1>2, <2>2 DEF Plan!Answers
  <2>3. CASE a \notin {"round_robin", "least_played"}
    BY <1>2, <2>3 DEF Plan!Answers
  <2> QED BY <2>1, <2>2, <2>3
<1> HIDE DEF m
<1>6. k \in Nat /\ sched' = [all |-> m.all, index |-> k]
  BY <1>1, <1>4
<1> HIDE DEF k
<1>7. turns' \in Seq(Nat) /\ planFiles \subseteq Nat
  BY <1>2, <1>3, <1>5, FilesAre, AppendProperties DEF TurnTypes
<1>8. TurnTypes'
  BY <1>1, <1>3, <1>6, <1>7 DEF TurnTypes
<1>9. SavedIsUsed'
  BY <1>1, <1>3, <1>4, <1>6 DEF SavedIsUsed, Complete
<1>10. ASSUME Complete PROVE InTurn'
  <2>1. /\ turns \in Seq(Nat) /\ Len(turns) \in Nat /\ DOMAIN turns = 1 .. Len(turns)
        /\ sched.index \in Nat /\ m = sched /\ Len(turns) <= sched.index
    BY <1>3, <1>4, <1>10 DEF TurnTypes, InTurn
  <2>2. CASE a = "round_robin"
    <3>1. turns' = Append(turns, s) /\ sched'.index = sched.index + 1
      BY <1>2, <1>6, <2>1, <2>2 DEF k
    <3>2. s \in Nat /\ Below(s) = sched.index % Cardinality(planFiles)
      BY <1>5, <1>7, <2>1, <2>2
    <3>3. /\ Len(turns') = Len(turns) + 1 /\ turns'[Len(turns) + 1] = s
          /\ \A i \in 1 .. Len(turns) : turns'[i] = turns[i]
      BY <2>1, <3>1, <3>2, AppendProperties
    <3>4. ASSUME NEW i \in DOMAIN turns'
          PROVE  /\ turns'[i] \in planFiles
                 /\ Below(turns'[i])
                    = (sched'.index - Len(turns') + i - 1) % Cardinality(planFiles)
      <4>1. i \in 1 .. Len(turns) + 1 /\ sched'.index - Len(turns') = sched.index - Len(turns)
        BY <1>7, <2>1, <3>1, <3>3
      <4>2. CASE i = Len(turns) + 1
        <5>1. sched'.index - Len(turns') + i - 1 = sched.index
          BY <2>1, <4>1, <4>2
        <5> QED BY <1>5, <3>2, <3>3, <4>2, <5>1
      <4>3. CASE i \in 1 .. Len(turns)
        BY <1>3, <1>10, <2>1, <3>3, <4>1, <4>3 DEF InTurn
      <4> QED BY <2>1, <4>1, <4>2, <4>3
    <3>5. Len(turns') <= sched'.index
      BY <2>1, <3>1, <3>3
    <3> QED BY <1>1, <3>4, <3>5 DEF InTurn, Below
  <2>3. CASE a # "round_robin"
    <3>1. turns' = turns /\ sched'.index = sched.index
      BY <1>2, <1>6, <2>1, <2>3 DEF k
    <3> QED BY <1>1, <1>3, <1>10, <3>1 DEF InTurn, Below, Complete
  <2> QED BY <2>2, <2>3
<1>11. Complete' => Complete
  BY <1>1 DEF Complete
<1> QED BY <1>8, <1>9, <1>10, <1>11 DEF TurnInv, InTurn

\* New weights, a new scheduler, other files: the turns begin anew.
LEMMA AnewKeepsTurns ==
    ASSUME Plan!PlanAssumption, TurnInv,
           \/ \E w \in Weightings : Plan!SetWeights(w)
           \/ Plan!Restart
           \/ \E s \in Plan!Segs : Plan!FileChanges(s)
    PROVE  TurnInv'
<1>1. turns' = <<>> /\ planFiles' \subseteq Plan!Segs
  BY DEF Plan!SetWeights, Plan!Restart, Plan!FileChanges, TurnInv, TurnTypes
<1>2. TurnTypes /\ SavedIsUsed
  BY DEF TurnInv
<1>3. /\ sched' = [all |-> sched'.all, index |-> sched'.index] /\ sched'.index \in Nat
      /\ SavedIsUsed'
  <2>1. ASSUME NEW w \in Weightings, Plan!SetWeights(w)
        PROVE  /\ sched' = [all |-> sched'.all, index |-> sched'.index] /\ sched'.index \in Nat
               /\ SavedIsUsed'
    <3>1. saved' = w /\ sched' = [all |-> w, index |-> 0]
      BY <2>1 DEF Plan!SetWeights, Plan!NewMix
    <3>2. w = [a \in DOMAIN w |-> w[a]]
      BY DEF Plan!PlanAssumption
    <3> QED BY <3>1, <3>2 DEF SavedIsUsed, Complete
  <2>2. ASSUME Plan!Restart
        PROVE  /\ sched' = [all |-> sched'.all, index |-> sched'.index] /\ sched'.index \in Nat
               /\ SavedIsUsed'
    <3>1. saved' = saved /\ sched' = [all |-> Plan!FromDB, index |-> 0]
      BY <2>2 DEF Plan!Restart, Plan!NewMix
    <3>2. Complete => Plan!FromDB = saved
      BY <1>2 DEF Plan!FromDB, SavedIsUsed, Complete
    <3> QED BY <1>2, <3>1, <3>2 DEF SavedIsUsed, Complete
  <2>3. ASSUME NEW s \in Plan!Segs, Plan!FileChanges(s)
        PROVE  /\ sched' = [all |-> sched'.all, index |-> sched'.index] /\ sched'.index \in Nat
               /\ SavedIsUsed'
    BY <1>2, <2>3 DEF Plan!FileChanges, TurnTypes, SavedIsUsed, Complete
  <2> QED BY <2>1, <2>2, <2>3
<1>4. InTurn' /\ turns' \in Seq(Nat)
  BY <1>1, <1>3, EmptySeq DEF InTurn
<1> QED BY <1>1, <1>3, <1>4 DEF TurnInv, TurnTypes

\* Whatever else happens leaves the scheduler alone.
LEMMA RestKeepsTurns ==
    ASSUME TurnInv, UNCHANGED <<planFiles, saved, sched, turns>>
    PROVE  TurnInv'
BY DEF TurnInv, TurnTypes, SavedIsUsed, InTurn, Complete, Below

LEMMA TurnsBegin ==
    ASSUME Plan!PlanAssumption, Plan!PlanInit
    PROVE  TurnInv
<1>1. planFiles = Plan!Segs /\ saved = None /\ turns = <<>> /\ sched = [all |-> Plan!FromDB, index |-> 0]
  BY DEF Plan!PlanInit, Plan!NewMix
<1> QED BY <1>1, EmptySeq DEF TurnInv, TurnTypes, SavedIsUsed, InTurn, Complete

LEMMA TurnsGoOn ==
    ASSUME Plan!PlanAssumption, TurnInv, [Plan!PlanNext]_Plan!vars
    PROVE  TurnInv'
<1>1. ASSUME NEW a \in Registered, Plan!Pick(a) PROVE TurnInv'
  BY <1>1, PickKeepsTurns
<1>2. ASSUME NEW w \in Weightings, Plan!SetWeights(w) PROVE TurnInv'
  BY <1>2, AnewKeepsTurns
<1>3. ASSUME NEW s \in Plan!Segs, Plan!FileChanges(s) PROVE TurnInv'
  BY <1>3, AnewKeepsTurns
<1>4. CASE Plan!Restart
  BY <1>4, AnewKeepsTurns
<1>5. ASSUME NEW s \in Plan!Segs, Plan!HyperPlays(s) PROVE TurnInv'
  BY <1>5, RestKeepsTurns DEF Plan!HyperPlays
<1>6. ASSUME NEW b \in BOOLEAN, Plan!Fail(b) PROVE TurnInv'
  BY <1>6, RestKeepsTurns DEF Plan!Fail
<1>7. ASSUME NEW b \in BOOLEAN, NEW ms \in ClearTimes, Plan!Finish(b, ms) PROVE TurnInv'
  BY <1>7, RestKeepsTurns DEF Plan!Finish
<1>8. ASSUME NEW s \in Plan!Segs, NEW att \in Told, Plan!LogAttempt(s, att) PROVE TurnInv'
  BY <1>8, RestKeepsTurns DEF Plan!LogAttempt
<1>9. ASSUME NEW e, NEW b \in BOOLEAN, Plan!Patch(e, b) PROVE TurnInv'
  BY <1>9, RestKeepsTurns DEF Plan!Patch
<1>10. ASSUME NEW h \in Plan!Hands, Plan!Reads(h) PROVE TurnInv'
  BY <1>10, RestKeepsTurns DEF Plan!Reads
<1>11. ASSUME NEW h \in Plan!Hands, Plan!Saves(h) PROVE TurnInv'
  BY <1>11, RestKeepsTurns DEF Plan!Saves
<1>12. CASE Plan!InvalidateLast
  BY <1>12, RestKeepsTurns DEF Plan!InvalidateLast
<1>13. CASE Plan!RebuildAll
  BY <1>13, RestKeepsTurns DEF Plan!RebuildAll
<1>14. CASE Plan!StartSession
  BY <1>14, RestKeepsTurns DEF Plan!StartSession
<1>15. CASE Plan!BuildEngine
  BY <1>15, RestKeepsTurns DEF Plan!BuildEngine
<1>16. CASE Plan!Draws
  BY <1>16, RestKeepsTurns DEF Plan!Draws
<1>17. CASE Plan!Drawn
  BY <1>17, RestKeepsTurns DEF Plan!Drawn
<1>18. CASE UNCHANGED Plan!vars
  BY <1>18, RestKeepsTurns DEF Plan!vars
<1>19. ASSUME NEW s \in Plan!Segs, NEW b \in BOOLEAN, Plan!Captures(s, b) PROVE TurnInv'
  BY <1>19, RestKeepsTurns DEF Plan!Captures
<1> QED BY <1>1, <1>2, <1>3, <1>4, <1>5, <1>6, <1>7, <1>8, <1>9, <1>10, <1>11, <1>12, <1>13,
           <1>14, <1>15, <1>16, <1>17, <1>18, <1>19 DEF Plan!PlanNext

\* While weights that name every allocator are in use, and neither they nor the
\* files nor the scheduler change, round robin comes back to a segment after as
\* many picks as there are segments that can be practised, and never before
\* (RoundRobinAllocator, and _sync_config_from_db, which keeps it).
THEOREM PicksComeRound ==
    ASSUME Plan!PlanAssumption
    PROVE  Plan!PlanSpec => []Plan!RoundRobinCycles
<1>1. Plan!PlanInit => TurnInv
  BY TurnsBegin
<1>2. TurnInv /\ [Plan!PlanNext]_Plan!vars => TurnInv'
  BY TurnsGoOn
<1>3. TurnInv => Plan!RoundRobinCycles
  BY TurnsCycle
<1> HIDE DEF TurnInv
<1> QED BY <1>1, <1>2, <1>3, PTL DEF Plan!PlanSpec
================================================================================
