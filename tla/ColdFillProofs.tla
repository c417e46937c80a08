---------------------------- MODULE ColdFillProofs ----------------------------
(***************************************************************************)
(* Theorems about cold fill: for any segments, whichever of them have an   *)
(* exit under way in their hot state or have lost it, and whether or not   *)
(* loads and saves fail, with a user and a player who wait for what is in  *)
(* flight.                                                                 *)
(*                                                                         *)
(* One load at a time is in flight.  While it is a request's no spawn can  *)
(* reach the event loop, so that queue, segment and load stay together     *)
(* (Alone, Fits).  Once the detector has reported a spawn it watches       *)
(* nothing until the next load has returned (Reported), and what it waits  *)
(* for has happened to the player (Living).                                *)
(***************************************************************************)
EXTENDS ColdFill, FiniteSetTheorems, SequenceTheorems, WellFoundedInduction,
        TLAPS

Tasks     == {"loop", "user"}
LoadKinds == {"stage", "fire", "bump", "settle", "check"}
Maybe     == Segs \cup {None}

Frames    == Snapshot({1}, {1})
Games     == [frame : Frames, at : Maybe, cold : BOOLEAN, hurt : BOOLEAN]
Jobs      == [k : {"idle", "save", "saved"} \cup LoadKinds, seg : Maybe, cold : BOOLEAN]
Spawns    == [k : {"spawn"}, seg : Maybe]
Watchers  == [seg : Maybe, waiting : BOOLEAN, dead : BOOLEAN, splash : BOOLEAN,
              exiting : BOOLEAN]
Detectors == [prev : Frames, died : BOOLEAN, ord : Nat, firstRoom : Nat,
              cpAcquired : BOOLEAN, finished : BOOLEAN, replayPending : {FALSE},
              force : {FALSE}]
Rows      == [wp : Segs, path : Segs, by : {"cold_fill", "fill_gap"}]

GameOK == /\ game \in Games /\ slot \in Maybe /\ pending \in BOOLEAN
          /\ hot \subseteq Segs /\ DOMAIN saved \subseteq Segs
          /\ mode \in {"idle", "cold_fill", "fill_gap"}
          /\ lapsed \subseteq {"failed", "refused", "exiting"}
PollOK == /\ det \in Detectors /\ cf \in Watchers /\ spawns \in Seq(Spawns)
          /\ bumped \in BOOLEAN /\ (snap = None \/ snap \in Frames)
WorkOK == /\ work \in [Tasks -> Jobs]
          /\ \A t \in Tasks : work[t].k = "idle" => work[t] = Idle
          /\ \A t \in Tasks : work[t].k \in LoadKinds => work[t].seg \in Segs
          /\ work["loop"].k \in LoadKinds => work["loop"].cold
          /\ work["loop"].k \in {"save", "saved"} =>
                 work["loop"].seg \in Segs /\ ~work["loop"].cold
          /\ work["user"].k \notin {"save", "saved"}
RestOK == rows \subseteq Rows /\ gap \in Maybe
TypeOK == GameOK /\ PollOK /\ WorkOK /\ RestOK

LoadsIn(t) == work[t].k \in LoadKinds

\* What is given is the head of the queue, and the load in flight loads it.
Heads == /\ current \in Maybe /\ todo \subseteq DOMAIN Gaps
         /\ current # None => todo # {} /\ current = First(todo)
         /\ \A t \in Tasks : work[t].cold => current = work[t].seg

\* The files of the one load in flight.
InSlot(t) ==
    /\ work[t].k \in {"stage", "check"} => slot = None /\ ~pending
    /\ work[t].k = "fire" => slot = work[t].seg /\ ~pending
    /\ work[t].k \in {"bump", "settle"} =>
           slot = work[t].seg /\ (~pending => game = HotState(work[t].seg))
    /\ work[t].k = "check" => game = HotState(work[t].seg)
Slots == /\ \A t \in Tasks : LoadsIn(t) => InSlot(t)
         /\ (\A t \in Tasks : ~LoadsIn(t)) => slot = None /\ ~pending

Calm(c) == ~c.dead /\ ~c.exiting

\* The game's own: a death shows until the respawn; only a respawn has a splash.
Honest == /\ game.frame.dead => game.hurt
          /\ game.frame.splash => game.cold
          /\ game.hurt => ~Calm(game.frame)
          /\ "exiting" \notin lapsed => (game.frame.exiting => game.hurt)

\* While a request's load is in flight nothing dies and nothing spawns: the only
\* exit that can show is the loaded state's own.
Alone ==
    work["user"] # Idle =>
        /\ work["loop"] = Idle /\ spawns = <<>>
        /\ ~game.hurt /\ ~det.prev.dead
        /\ game.frame.splash => det.prev.splash /\ (snap # None => snap.splash)
        /\ game.frame.exiting => ~game.frame.splash
        /\ work["user"].k \in {"stage", "fire"} \/ pending => ~game.frame.exiting
        /\ cf.waiting => game.frame.exiting
        /\ snap # None =>
               /\ ~snap.dead /\ (snap.splash => det.prev.splash)
               /\ snap.exiting => game.frame.exiting /\ ~snap.splash
               /\ cf.waiting => snap.exiting

\* A spawn that names a segment is reported once, and then nothing is watched.
Named == {i \in DOMAIN spawns : spawns[i].seg # None}
Reported == /\ \A i, j \in Named : i = j
            /\ Named # {} \/ work["loop"] # Idle => cf.seg = None
            /\ work["loop"] # Idle => Named = {}
            /\ cf.seg = None => ~cf.waiting

\* In a cold fill the player is being heard, or is served.
Fits ==
    mode = "cold_fill" =>
        /\ work["user"] # Idle => work["user"].cold
        /\ "failed" \notin lapsed =>
               /\ current = None => Segs \ hot # {}
               /\ work["user"] = Idle /\ work["loop"] = Idle =>
                      cf.seg = current \/ (current # None /\ Named # {})

QueueInv == TypeOK /\ Heads /\ Slots /\ Honest /\ Alone /\ Reported /\ Fits

\* The player a cold fill waits for: at the segment given, and dead or respawned
\* as soon as the detector has noticed.
Was == game.hurt \/ game.cold
Living ==
    lapsed \subseteq {"failed"} /\ mode = "cold_fill" /\ work["user"] = Idle
    /\ ~LoadsIn("loop") =>
        /\ current # None => game.at = current
        /\ cf.seg # None => cf.seg = current
        /\ cf.waiting => Was
        /\ \A i \in Named : spawns[i].seg = current /\ game.cold
        /\ snap # None => /\ ~Calm(snap) => Was
                          /\ snap.splash => game.cold
                          /\ cf.waiting /\ Calm(snap) => game.cold
        /\ work["loop"].k \in {"save", "saved"} => work["loop"].seg = current /\ game.cold
        /\ work["loop"].k = "saved" =>
               /\ current \in DOMAIN saved
               /\ saved[current] = [at |-> current, cold |-> TRUE]

\* The loop saves only for the cold fill.
Saving == work["loop"] # Idle => mode = "cold_fill"

OwnRows ==
    lapsed \subseteq {"failed"} =>
        \A r \in rows : r.by = "cold_fill" =>
            /\ r.path = r.wp /\ r.path \in DOMAIN saved
            /\ saved[r.path] = [at |-> r.wp, cold |-> TRUE]

RowInv == Living /\ Saving /\ OwnRows

FillInv == QueueInv /\ RowInv
-----------------------------------------------------------------------------
(* The queue. *)

LEMMA MinIs ==
    ASSUME NEW S \in SUBSET Nat, S # {}
    PROVE  Min(S) \in S /\ \A j \in S : Min(S) <= j
<1> DEFINE R == StrictSubsetOrdering(Nat)
           T == {0..i : i \in S}
<1>1. T \subseteq FiniteSubsetsOf(Nat)
  <2> SUFFICES ASSUME NEW i \in S PROVE 0..i \in FiniteSubsetsOf(Nat)
    OBVIOUS
  <2>1. IsFiniteSet(0..i)
    BY FS_Interval
  <2>2. 0..i \subseteq Nat
    OBVIOUS
  <2> QED BY <2>1, <2>2 DEF FiniteSubsetsOf
<1>2. T # {}
  OBVIOUS
<1>3. IsWellFoundedOn(R, FiniteSubsetsOf(Nat))
  BY FS_StrictSubsetOrderingWellFounded
<1>4. PICK M \in T : \A N \in T : <<N, M>> \notin R
  <2> HIDE DEF R, T
  <2> QED BY <1>1, <1>2, <1>3, WFMin
<1>5. PICK x \in S : M = 0..x
  OBVIOUS
<1>6. ASSUME NEW y \in S PROVE x <= y
  <2>1. 0..y \in T
    OBVIOUS
  <2>2. <<0..y, 0..x>> \notin R
    BY <1>4, <1>5, <2>1
  <2>3. ~(0..y \subseteq 0..x /\ 0..y # 0..x)
    BY <2>2 DEF StrictSubsetOrdering
  <2>4. ASSUME y < x PROVE FALSE
    <3>1. 0..y \subseteq 0..x /\ x \in 0..x /\ x \notin 0..y
      BY <2>4
    <3> QED BY <2>3, <3>1
  <2> QED BY <2>4
<1> QED BY <1>6 DEF Min

LEMMA FirstIs ==
    ASSUME NEW q \in SUBSET DOMAIN Gaps, q # {}
    PROVE  First(q) \in Segs /\ Min(q) \in q /\ First(q) # None
<1>1. DOMAIN Gaps \subseteq Nat /\ None \notin Segs
  BY ColdFillAssumption
<1>2. Min(q) \in q
  BY <1>1, MinIs
<1> QED BY <1>1, <1>2 DEF First, Segs

LEMMA SegsNotNone == None \notin Segs /\ \A s \in Segs : s # None
BY ColdFillAssumption

LEMMA ServableIs ==
    ASSUME NEW q \in SUBSET DOMAIN Gaps
    PROVE  /\ Servable(q) \subseteq DOMAIN Gaps
           /\ Servable(q) = {} /\ q # {} => Segs \ hot # {}
<1>1. Servable(q) \subseteq q
  BY DEF Servable
<1>2. ASSUME Servable(q) = {}, q # {} PROVE Segs \ hot # {}
  <2>1. PICK i \in q : TRUE
    BY <1>2
  <2>2. i <= i
    BY ColdFillAssumption
  <2>3. Gaps[i] \notin hot
    BY <1>2, <2>1, <2>2 DEF Servable
  <2>4. Gaps[i] \in Segs
    BY <2>1 DEF Segs
  <2> QED BY <2>3, <2>4
<1> QED BY <1>1, <1>2

\* A task ends or is loading the head of the queue.
Given(t) == /\ current' \in Segs /\ todo' # {} /\ current' = First(todo')
            /\ work'[t] = [k |-> "stage", seg |-> current', cold |-> TRUE]

LEMMA LoadNextIs ==
    ASSUME work \in [Tasks -> Jobs], NEW t \in Tasks, NEW q \in SUBSET DOMAIN Gaps,
           LoadNext(t, q)
    PROVE  /\ todo' \subseteq DOMAIN Gaps /\ todo' = Servable(q)
           /\ work' \in [Tasks -> Jobs] /\ \A u \in Tasks \ {t} : work'[u] = work[u]
           /\ \/ todo' = {} /\ current' = None /\ work'[t] = Idle
              \/ todo' # {} /\ Given(t)
           /\ q # {} /\ todo' = {} => Segs \ hot # {}
<1>1. todo' = Servable(q) /\ Servable(q) \in SUBSET DOMAIN Gaps
  BY ServableIs DEF LoadNext
<1>2. q # {} /\ todo' = {} => Segs \ hot # {}
  BY <1>1, ServableIs
<1>3. CASE Servable(q) = {}
  <2>1. current' = None /\ work' = [work EXCEPT ![t] = Idle]
    BY <1>3 DEF LoadNext
  <2>2. Idle \in Jobs
    BY DEF Idle, Jobs, Maybe
  <2> QED BY <1>1, <1>2, <1>3, <2>1, <2>2
<1>4. CASE Servable(q) # {}
  <2> DEFINE s == First(Servable(q))
             job == [k |-> "stage", seg |-> s, cold |-> TRUE]
  <2>1. s \in Segs
    BY <1>1, <1>4, FirstIs
  <2>2. current' = s /\ work' = [work EXCEPT ![t] = job]
    BY <1>4 DEF LoadNext
  <2>3. job \in Jobs
    BY <2>1 DEF Jobs, LoadKinds, Maybe
  <2> HIDE DEF job
  <2>4. work' \in [Tasks -> Jobs] /\ work'[t] = job /\ \A u \in Tasks \ {t} : work'[u] = work[u]
    BY <2>2, <2>3
  <2>5. Given(t)
    BY <1>1, <1>4, <2>1, <2>2, <2>4 DEF Given, job
  <2> QED BY <1>1, <1>2, <1>4, <2>4, <2>5
<1> QED BY <1>3, <1>4

\* A change of one task.
LEMMA TaskIs ==
    ASSUME work \in [Tasks -> Jobs], NEW t \in Tasks, NEW j \in Jobs,
           work' = [work EXCEPT ![t] = j]
    PROVE  work' \in [Tasks -> Jobs] /\ work'[t] = j /\ \A u \in Tasks \ {t} : work'[u] = work[u]
OBVIOUS

LEMMA BecomesIs ==
    ASSUME work \in [Tasks -> Jobs], NEW t \in Tasks,
           NEW k \in {"idle", "save", "saved"} \cup LoadKinds, Becomes(t, k)
    PROVE  /\ work' \in [Tasks -> Jobs] /\ \A u \in Tasks \ {t} : work'[u] = work[u]
           /\ work'[t].k = k /\ work'[t].seg = work[t].seg /\ work'[t].cold = work[t].cold
<1>1. work[t] \in Jobs
  OBVIOUS
<1> DEFINE j == [work[t] EXCEPT !.k = k]
<1>2. j \in Jobs /\ j.k = k /\ j.seg = work[t].seg /\ j.cold = work[t].cold
  BY <1>1 DEF Jobs
<1>3. work' = [work EXCEPT ![t] = j]
  BY DEF Becomes
<1> HIDE DEF j
<1> QED BY <1>2, <1>3

LEMMA IdleIs == /\ Idle \in Jobs /\ Idle.k = "idle" /\ Idle.seg = None /\ ~Idle.cold
BY DEF Idle, Jobs, Maybe

-----------------------------------------------------------------------------
(* Frames and detectors. *)

LEMMA AliveIs == /\ Alive \in Frames /\ Calm(Alive) /\ ~Alive.splash
                 /\ \A e \in BOOLEAN : [Alive EXCEPT !.exiting = e] \in Frames
BY DEF Alive, Frames, Snapshot, Calm

LEMMA HotStateIs ==
    ASSUME NEW s \in Maybe
    PROVE  /\ HotState(s) \in Games /\ HotState(s).at = s /\ ~HotState(s).cold
           /\ ~HotState(s).hurt /\ ~HotState(s).frame.dead /\ ~HotState(s).frame.splash
           /\ HotState(s).frame.exiting <=> s \in Exiting
<1> DEFINE e == s \in Exiting
           c == [Alive EXCEPT !.exiting = e]
<1>1. e \in BOOLEAN
  OBVIOUS
<1>2. c \in Frames /\ c.exiting = e /\ ~c.dead /\ ~c.splash
  BY <1>1, AliveIs DEF Alive, Frames, Snapshot
<1>3. HotState(s) = [frame |-> c, at |-> s, cold |-> FALSE, hurt |-> FALSE]
  BY DEF HotState
<1> HIDE DEF c
<1>4. /\ HotState(s).frame = c /\ HotState(s).at = s /\ HotState(s).cold = FALSE
      /\ HotState(s).hurt = FALSE
  BY <1>3
<1>5. HotState(s) \in Games
  BY <1>2, <1>3 DEF Games
<1> QED BY <1>2, <1>4, <1>5

LEMMA TitleIs == /\ Title \in Games /\ Title.frame = Alive /\ ~Title.hurt
BY AliveIs DEF Title, Games, Maybe

\* The transition detector keeps the frame; a spawn needs a death and a splash.
LEMMA StepIs ==
    ASSUME NEW d \in Detectors, NEW c \in Frames
    PROVE  /\ Step(d, c) \in Detectors /\ Step(d, c).prev = c
           /\ FrameEvents(d, c).respawns => c.splash /\ (~d.prev.splash \/ d.prev.dead)
<1> DEFINE f == FrameEvents(d, c)
<1>0. /\ d.prev \in Frames /\ d.died \in BOOLEAN /\ d.ord \in Nat /\ d.firstRoom \in Nat
      /\ d.cpAcquired \in BOOLEAN /\ d.finished \in BOOLEAN /\ d.force = FALSE
      /\ d.replayPending = FALSE
  BY DEF Detectors
<1>1. /\ f.respawns => c.splash /\ (~d.prev.splash \/ d.prev.dead)
  BY <1>0 DEF FrameEvents, Splash, FastRetry
<1>2. f.death \in BOOLEAN /\ f.enters \in BOOLEAN /\ f.respawns \in BOOLEAN /\ f.cp \in BOOLEAN
      /\ f.cold \in BOOLEAN
  BY <1>0 DEF FrameEvents, Splash, FastRetry, DeathFrame, CheckpointHit, Frames, Snapshot
<1>3. f.ord \in Nat /\ f.room \in Nat
  BY <1>0 DEF FrameEvents, Frames, Snapshot
<1> HIDE DEF f
<1>4. CASE d.prev = None
  <2>1. Step(d, c) = [d EXCEPT !.prev = c]
    BY <1>4 DEF Step
  <2> QED BY <1>1, <2>1 DEF Detectors, f
<1>5. CASE d.prev # None
  <2> DEFINE died == (d.died \/ f.death) /\ ~f.enters
             ord == IF f.enters /\ ~f.respawns THEN 0 ELSE f.ord
             room == IF f.cp THEN 0 ELSE f.room
             acq == f.cold /\ ~f.enters
             fin == (d.finished \/ f.finish # "none") /\ ~(f.enters /\ ~f.respawns)
  <2>1. Step(d, c) = [d EXCEPT !.prev = c, !.died = died, !.ord = ord, !.firstRoom = room,
                               !.cpAcquired = acq, !.finished = fin, !.force = FALSE]
    BY <1>5 DEF Step, f
  <2>2. died \in BOOLEAN /\ ord \in Nat /\ room \in Nat /\ acq \in BOOLEAN /\ fin \in BOOLEAN
    BY <1>0, <1>2, <1>3
  <2> HIDE DEF died, ord, room, acq, fin
  <2>3. Step(d, c) \in Detectors /\ Step(d, c).prev = c
    BY <2>1, <2>2 DEF Detectors
  <2> QED BY <1>1, <2>3 DEF f
<1> QED BY <1>4, <1>5

LEMMA ActivateIs ==
    ASSUME NEW s \in Segs
    PROVE  ActivateCold(s) \in Watchers /\ ActivateCold(s).seg = s /\ ~ActivateCold(s).waiting
BY DEF ActivateCold, IdleCold, Watchers, Maybe

LEMMA ResyncIs ==
    ASSUME NEW c \in Watchers, NEW f \in Frames
    PROVE  ResyncCold(c, f) \in Watchers /\ ResyncCold(c, f).seg = c.seg /\ ~ResyncCold(c, f).waiting
BY DEF ResyncCold, Follow, Watchers, Frames, Snapshot

LEMMA DetResyncIs ==
    ASSUME NEW d \in Detectors, NEW c \in Frames
    PROVE  Resync(d, c) \in Detectors /\ Resync(d, c).prev = c
<1> DEFINE force == d.force \/ d.replayPending
<1>1. force = FALSE
  BY DEF Detectors
<1>2. Resync(d, c) = [NewDetector EXCEPT !.prev = c, !.force = force]
  BY DEF Resync
<1> HIDE DEF force
<1>3. Resync(d, c) = [prev |-> c, died |-> FALSE, ord |-> 0, firstRoom |-> 0,
                      cpAcquired |-> FALSE, finished |-> FALSE, replayPending |-> FALSE,
                      force |-> FALSE]
  BY <1>1, <1>2 DEF NewDetector
<1> QED BY <1>3 DEF Detectors

\* The watcher listens on until it spawns, and then to nothing.
LEMMA StepColdIs ==
    ASSUME NEW c \in Watchers, NEW f \in Frames
    PROVE  /\ StepCold(c, f) \in Watchers
           /\ c.seg = None => StepCold(c, f) = c
           /\ ColdSpawns(c, f) => /\ StepCold(c, f).seg = None /\ ~StepCold(c, f).waiting
                                  /\ c.seg # None /\ c.waiting /\ (f.splash \/ Calm(f))
           /\ ~ColdSpawns(c, f) => StepCold(c, f).seg = c.seg
           /\ StepCold(c, f).waiting => c.waiting \/ ~Calm(f)
<1>1. CASE c.seg = None
  BY <1>1 DEF StepCold, ColdSpawns
<1>2. CASE ColdSpawns(c, f)
  <2>1. c.seg # None /\ c.waiting /\ (f.splash \/ Calm(f))
    BY <1>2 DEF ColdSpawns, ColdRespawn, Calm
  <2>2. StepCold(c, f) = [Follow(c, f) EXCEPT !.seg = None, !.waiting = FALSE]
    BY <1>2, <2>1 DEF StepCold
  <2> QED BY <1>2, <2>1, <2>2 DEF Follow, Watchers, Frames, Snapshot, Maybe
<1>3. CASE c.seg # None /\ ~ColdSpawns(c, f)
  <2> DEFINE w == c.waiting \/ ColdDeath(c, f)
  <2>1. StepCold(c, f) = [Follow(c, f) EXCEPT !.waiting = w]
    BY <1>3 DEF StepCold
  <2>2. w \in BOOLEAN /\ (w => c.waiting \/ ~Calm(f))
    BY DEF ColdDeath, Calm, Watchers, Frames, Snapshot
  <2> HIDE DEF w
  <2> QED BY <1>3, <2>1, <2>2 DEF Follow, Watchers, Frames, Snapshot
<1> QED BY <1>1, <1>2, <1>3

-----------------------------------------------------------------------------
(* The player. *)

LEMMA OneLoad ==
    ASSUME TypeOK, Alone, NEW t \in Tasks, LoadsIn(t)
    PROVE  /\ \A u \in Tasks \ {t} : ~LoadsIn(u)
           /\ t = "user" => work["loop"] = Idle
           /\ t = "loop" => work["user"] = Idle
<1>1. \A u \in Tasks : LoadsIn(u) => work[u] # Idle
  BY IdleIs DEF LoadsIn, LoadKinds
<1>2. work["user"] # Idle => work["loop"] = Idle
  BY DEF Alone
<1> QED BY <1>1, <1>2 DEF Tasks

\* What a patient player does: nothing is in flight, and only the game changes.
LEMMA PlayKeeps ==
    ASSUME Patient = TRUE, FillInv, NEW g \in Games, Plays(g), g.at = game.at,
           game.cold => g.cold, game.hurt => g.hurt \/ g.cold, Honest'
    PROVE  FillInv'
<1>1. /\ game' = g /\ work["loop"] = Idle /\ work["user"] = Idle
      /\ UNCHANGED <<slot, pending, hot, saved, rows, bumped, snap, det, cf, spawns, mode,
                     todo, current, gap, work, lapsed>>
  BY DEF Plays, poll
<1>2. TypeOK'
  BY <1>1 DEF FillInv, QueueInv, TypeOK, GameOK, PollOK, WorkOK, RestOK
<1>3. Heads' /\ Reported' /\ Fits' /\ Saving' /\ OwnRows'
  BY <1>1 DEF FillInv, QueueInv, RowInv, Heads, Reported, Named, Fits, Saving, OwnRows
<1>4. \A t \in Tasks : ~LoadsIn(t)
  BY <1>1, IdleIs DEF LoadsIn, LoadKinds, Tasks
<1>5. Slots'
  BY <1>1, <1>4 DEF FillInv, QueueInv, Slots, LoadsIn
<1>6. Alone'
  BY <1>1 DEF Alone
<1>7. Living'
  BY <1>1 DEF FillInv, RowInv, Living, Was, Named, LoadsIn
<1> QED BY <1>2, <1>3, <1>5, <1>6, <1>7 DEF FillInv, QueueInv, RowInv

LEMMA GameParts == game \in Games => /\ game.frame \in Frames /\ game.hurt \in BOOLEAN
                                     /\ game.cold \in BOOLEAN /\ game.at \in Maybe
BY DEF Games

LEMMA PlayerKeeps ==
    ASSUME Patient = TRUE, FillInv, Die \/ Fall \/ Respawn \/ SplashEnds \/ ExitEnds
    PROVE  FillInv'
<1>1. game \in Games /\ Honest
  BY DEF FillInv, QueueInv, TypeOK, GameOK
<1>2. game.frame \in Frames
  BY <1>1, GameParts
<1>3. CASE Die
  <2> DEFINE f == [game.frame EXCEPT !.dead = TRUE]
             g == [game EXCEPT !.frame.dead = TRUE, !.hurt = TRUE]
  <2>1. f \in Frames /\ f.dead /\ f.splash = game.frame.splash /\ f.exiting = game.frame.exiting
    BY <1>2 DEF Frames, Snapshot
  <2>2. g \in Games /\ g.frame = f /\ g.hurt /\ g.at = game.at /\ g.cold = game.cold
    <3> HIDE DEF f
    <3>1. g = [[game EXCEPT !.frame = f] EXCEPT !.hurt = TRUE]
      BY <1>1 DEF Games, f
    <3> QED BY <1>1, <2>1, <3>1 DEF Games
  <2> HIDE DEF f
  <2>3. Plays(g) /\ Live
    BY <1>3 DEF Die
  <2> HIDE DEF g
  <2>4. game' = g /\ lapsed' = lapsed
    BY <2>3 DEF Plays
  <2>5. Honest'
    BY <1>1, <2>1, <2>2, <2>3, <2>4 DEF Honest, Live, Calm
  <2> QED BY <2>2, <2>3, <2>5, PlayKeeps
<1>4. CASE Fall
  <2> DEFINE f == [game.frame EXCEPT !.exiting = TRUE]
             g == [game EXCEPT !.frame.exiting = TRUE, !.hurt = TRUE]
  <2>1. f \in Frames /\ f.exiting /\ f.splash = game.frame.splash /\ f.dead = game.frame.dead
    BY <1>2 DEF Frames, Snapshot
  <2>2. g \in Games /\ g.frame = f /\ g.hurt /\ g.at = game.at /\ g.cold = game.cold
    <3> HIDE DEF f
    <3>1. g = [[game EXCEPT !.frame = f] EXCEPT !.hurt = TRUE]
      BY <1>1 DEF Games, f
    <3> QED BY <1>1, <2>1, <3>1 DEF Games
  <2> HIDE DEF f
  <2>3. Plays(g) /\ Live
    BY <1>4 DEF Fall
  <2> HIDE DEF g
  <2>4. game' = g /\ lapsed' = lapsed
    BY <2>3 DEF Plays
  <2>5. Honest'
    BY <1>1, <2>1, <2>2, <2>3, <2>4 DEF Honest, Live, Calm
  <2> QED BY <2>2, <2>3, <2>5, PlayKeeps
<1>5. CASE Respawn
  <2>1. PICK b \in BOOLEAN : Plays([game EXCEPT !.frame = [Alive EXCEPT !.splash = b],
                                               !.hurt = FALSE, !.cold = TRUE])
    BY <1>5 DEF Respawn
  <2> DEFINE f == [Alive EXCEPT !.splash = b]
             g == [game EXCEPT !.frame = f, !.hurt = FALSE, !.cold = TRUE]
  <2>2. f \in Frames /\ ~f.exiting /\ f.splash = b /\ ~f.dead
    BY DEF Frames, Snapshot, Alive
  <2> HIDE DEF f
  <2>3. g \in Games /\ g.frame = f /\ ~g.hurt /\ g.at = game.at /\ g.cold
    BY <1>1, <2>2 DEF Games
  <2>4. Plays(g)
    BY <2>1 DEF f
  <2> HIDE DEF g
  <2>5. game' = g /\ lapsed' = lapsed
    BY <2>4 DEF Plays
  <2>6. Honest'
    BY <2>2, <2>3, <2>5 DEF Honest, Calm
  <2> QED BY <2>3, <2>4, <2>6, PlayKeeps
<1>6. CASE SplashEnds
  <2> DEFINE f == [game.frame EXCEPT !.splash = FALSE]
             g == [game EXCEPT !.frame.splash = FALSE]
  <2>1. f \in Frames /\ f.exiting = game.frame.exiting /\ ~f.splash /\ f.dead = game.frame.dead
    BY <1>2 DEF Frames, Snapshot
  <2>2. g \in Games /\ g.frame = f /\ g.hurt = game.hurt /\ g.at = game.at /\ g.cold = game.cold
    <3> HIDE DEF f
    <3>1. g = [game EXCEPT !.frame = f]
      BY <1>1 DEF Games, f
    <3> QED BY <1>1, <2>1, <3>1 DEF Games
  <2> HIDE DEF f
  <2>3. Plays(g) /\ ~game.hurt
    BY <1>6 DEF SplashEnds
  <2> HIDE DEF g
  <2>4. game' = g /\ lapsed' = lapsed
    BY <2>3 DEF Plays
  <2>5. Honest'
    BY <1>1, <2>1, <2>2, <2>3, <2>4 DEF Honest, Calm
  <2> QED BY <2>2, <2>3, <2>5, PlayKeeps
<1>7. CASE ExitEnds
  <2> DEFINE f == [game.frame EXCEPT !.exiting = FALSE]
             g == [game EXCEPT !.frame.exiting = FALSE]
  <2>1. f \in Frames /\ ~f.exiting /\ f.splash = game.frame.splash /\ f.dead = game.frame.dead
    BY <1>2 DEF Frames, Snapshot
  <2>2. g \in Games /\ g.frame = f /\ g.hurt = game.hurt /\ g.at = game.at /\ g.cold = game.cold
    <3> HIDE DEF f
    <3>1. g = [game EXCEPT !.frame = f]
      BY <1>1 DEF Games, f
    <3> QED BY <1>1, <2>1, <3>1 DEF Games
  <2> HIDE DEF f
  <2>3. Plays(g) /\ ~game.hurt
    BY <1>7 DEF ExitEnds
  <2> HIDE DEF g
  <2>4. game' = g /\ lapsed' = lapsed
    BY <2>3 DEF Plays
  <2>5. Honest'
    BY <1>1, <2>1, <2>2, <2>3, <2>4 DEF Honest, Calm
  <2> QED BY <2>2, <2>3, <2>5, PlayKeeps
<1> QED BY <1>3, <1>4, <1>5, <1>6, <1>7

-----------------------------------------------------------------------------
(* A load, step by step. *)

\* Until it returns, a load changes the slot, the emulator's command and its own task.
LEMMA LoadKeeps ==
    ASSUME FillInv, NEW t \in Tasks, LoadsIn(t),
           work' \in [Tasks -> Jobs], \A u \in Tasks \ {t} : work'[u] = work[u],
           work'[t].k \in LoadKinds, work'[t].seg = work[t].seg,
           work'[t].cold = work[t].cold,
           UNCHANGED <<game, hot, saved, rows, snap, det, cf, spawns, mode, todo, current,
                       gap, lapsed>>,
           slot' \in Maybe, pending' \in BOOLEAN, bumped' \in BOOLEAN, InSlot(t)',
           t = "user" /\ (work'[t].k \in {"stage", "fire"} \/ pending') => ~game.frame.exiting
    PROVE  FillInv'
<1>1. TypeOK /\ Heads /\ Alone /\ Reported /\ Fits /\ Honest /\ Saving /\ OwnRows
  BY DEF FillInv, QueueInv, RowInv
<1>2. /\ \A u \in Tasks \ {t} : ~LoadsIn(u)
      /\ t = "user" => work["loop"] = Idle
      /\ t = "loop" => work["user"] = Idle
  BY <1>1, OneLoad
<1>3. /\ LoadsIn(t)' /\ \A u \in Tasks \ {t} : ~LoadsIn(u)'
      /\ work'[t] # Idle /\ work[t] # Idle
  BY <1>2, IdleIs DEF LoadsIn, LoadKinds
<1>4. WorkOK'
  <2>1. WorkOK /\ work[t].k \in LoadKinds
    BY <1>1 DEF TypeOK, LoadsIn
  <2>2. work[t].seg \in Segs /\ (t = "loop" => work[t].cold)
    BY <2>1 DEF WorkOK
  <2>3. \A k \in LoadKinds : k \notin {"idle", "save", "saved"}
    BY DEF LoadKinds
  <2>4. \A u \in Tasks : u = t \/ work'[u] = work[u]
    OBVIOUS
  <2> QED BY <2>1, <2>2, <2>3, <2>4 DEF WorkOK, Tasks
<1>5. TypeOK'
  BY <1>1, <1>4 DEF TypeOK, GameOK, PollOK, RestOK
<1>6. Heads'
  BY <1>1 DEF Heads
<1>7. Slots'
  BY <1>3 DEF Slots
<1>8. Honest' /\ OwnRows'
  BY <1>1 DEF Honest, OwnRows
<1>9. t = "user" \/ (t = "loop" /\ work'["user"] = Idle)
  BY <1>2 DEF Tasks
<1>10. Alone'
  <2>1. CASE t = "user"
    <3>1. work'["loop"] = work["loop"]
      BY <2>1 DEF Tasks
    <3> QED BY <1>1, <1>3, <2>1, <3>1 DEF Alone
  <2>2. CASE t = "loop"
    BY <1>9, <2>2 DEF Alone
  <2> QED BY <2>1, <2>2 DEF Tasks
<1>11. work'["loop"] # Idle <=> work["loop"] # Idle
  BY <1>3 DEF Tasks
<1>12. work'["user"] # Idle <=> work["user"] # Idle
  BY <1>3 DEF Tasks
<1>13. Reported' /\ Saving'
  BY <1>1, <1>11 DEF Reported, Saving, Named
<1>14. Fits'
  <2>1. work'["user"].cold = work["user"].cold
    BY DEF Tasks
  <2> QED BY <1>1, <1>11, <1>12, <2>1 DEF Fits, Named
<1>15. Living'
  <2>1. CASE t = "user"
    BY <1>3, <2>1 DEF Living
  <2>2. CASE t = "loop"
    BY <1>3, <2>2 DEF Living
  <2> QED BY <2>1, <2>2 DEF Tasks
<1> QED BY <1>5, <1>6, <1>7, <1>8, <1>10, <1>13, <1>14, <1>15 DEF FillInv, QueueInv, RowInv

LEMMA LoadingTask ==
    ASSUME TypeOK, NEW t \in Tasks, LoadsIn(t)
    PROVE  /\ work[t] \in Jobs /\ work[t].seg \in Segs /\ work[t].k # "idle"
           /\ t = "loop" => work[t].cold
BY DEF TypeOK, WorkOK, LoadsIn, LoadKinds

LEMMA StageKeeps ==
    ASSUME FillInv, NEW t \in Tasks, LoadStage(t), work[t].seg \in hot
    PROVE  FillInv'
<1>1. TypeOK /\ Slots /\ Alone
  BY DEF FillInv, QueueInv
<1>2. work[t].k = "stage" /\ LoadsIn(t)
  BY DEF LoadStage, LoadsIn, LoadKinds
<1>3. /\ slot' = work[t].seg /\ Becomes(t, "fire")
      /\ UNCHANGED <<game, pending, bumped, cf, hot, saved, rows, snap, det, spawns, mode, todo,
                     current, gap, lapsed>>
  BY DEF LoadStage, Rest
<1>4. /\ work' \in [Tasks -> Jobs] /\ \A u \in Tasks \ {t} : work'[u] = work[u]
      /\ work'[t].k = "fire" /\ work'[t].seg = work[t].seg /\ work'[t].cold = work[t].cold
  BY <1>1, <1>3, BecomesIs DEF TypeOK, WorkOK, LoadKinds
<1>5. ~pending /\ work[t].seg \in Segs
  BY <1>1, <1>2, LoadingTask DEF Slots, InSlot
<1>6. InSlot(t)'
  BY <1>3, <1>4, <1>5 DEF InSlot
<1>7. t = "user" => ~game.frame.exiting
  BY <1>1, <1>2, IdleIs DEF Alone
<1>8. slot' \in Maybe /\ pending' \in BOOLEAN /\ bumped' \in BOOLEAN
  BY <1>1, <1>3, <1>5 DEF TypeOK, GameOK, PollOK, Maybe
<1> QED BY <1>2, <1>3, <1>4, <1>6, <1>7, <1>8, LoadKeeps DEF LoadKinds

LEMMA FireKeeps ==
    ASSUME FillInv, NEW t \in Tasks, LoadFire(t)
    PROVE  FillInv'
<1>1. TypeOK /\ Slots /\ Alone
  BY DEF FillInv, QueueInv
<1>2. work[t].k = "fire" /\ LoadsIn(t)
  BY DEF LoadFire, LoadsIn, LoadKinds
<1>3. /\ pending' = TRUE /\ Becomes(t, "bump")
      /\ UNCHANGED <<game, slot, bumped, cf, hot, saved, rows, snap, det, spawns, mode, todo,
                     current, gap, lapsed>>
  BY DEF LoadFire, Rest
<1>4. /\ work' \in [Tasks -> Jobs] /\ \A u \in Tasks \ {t} : work'[u] = work[u]
      /\ work'[t].k = "bump" /\ work'[t].seg = work[t].seg /\ work'[t].cold = work[t].cold
  BY <1>1, <1>3, BecomesIs DEF TypeOK, WorkOK, LoadKinds
<1>5. slot = work[t].seg
  BY <1>1, <1>2 DEF Slots, InSlot
<1>6. InSlot(t)'
  BY <1>3, <1>4, <1>5 DEF InSlot
<1>7. t = "user" => ~game.frame.exiting
  BY <1>1, <1>2, IdleIs DEF Alone
<1>8. slot' \in Maybe /\ pending' \in BOOLEAN /\ bumped' \in BOOLEAN
  BY <1>1, <1>3 DEF TypeOK, GameOK, PollOK
<1> QED BY <1>2, <1>3, <1>4, <1>6, <1>7, <1>8, LoadKeeps DEF LoadKinds

LEMMA BumpKeeps ==
    ASSUME FillInv, NEW t \in Tasks, LoadBump(t)
    PROVE  FillInv'
<1>1. TypeOK /\ Slots /\ Alone
  BY DEF FillInv, QueueInv
<1>2. work[t].k = "bump" /\ LoadsIn(t)
  BY DEF LoadBump, LoadsIn, LoadKinds
<1>3. /\ bumped' = TRUE /\ Becomes(t, "settle")
      /\ UNCHANGED <<game, slot, pending, cf, hot, saved, rows, snap, det, spawns, mode, todo,
                     current, gap, lapsed>>
  BY DEF LoadBump, Rest
<1>4. /\ work' \in [Tasks -> Jobs] /\ \A u \in Tasks \ {t} : work'[u] = work[u]
      /\ work'[t].k = "settle" /\ work'[t].seg = work[t].seg /\ work'[t].cold = work[t].cold
  BY <1>1, <1>3, BecomesIs DEF TypeOK, WorkOK, LoadKinds
<1>5. slot = work[t].seg /\ (~pending => game = HotState(work[t].seg))
  BY <1>1, <1>2 DEF Slots, InSlot
<1>6. InSlot(t)'
  BY <1>3, <1>4, <1>5 DEF InSlot
<1>7. t = "user" /\ pending => ~game.frame.exiting
  BY <1>1, <1>2, IdleIs DEF Alone
<1>8. slot' \in Maybe /\ pending' \in BOOLEAN /\ bumped' \in BOOLEAN
  BY <1>1, <1>3 DEF TypeOK, GameOK, PollOK
<1> QED BY <1>2, <1>3, <1>4, <1>6, <1>7, <1>8, LoadKeeps DEF LoadKinds

LEMMA UnlinkKeeps ==
    ASSUME FillInv, NEW t \in Tasks, LoadUnlink(t)
    PROVE  FillInv'
<1>1. TypeOK /\ Slots
  BY DEF FillInv, QueueInv
<1>2. work[t].k = "settle" /\ LoadsIn(t) /\ ~pending
  BY DEF LoadUnlink, LoadsIn, LoadKinds
<1>3. /\ slot' = None /\ Becomes(t, "check")
      /\ UNCHANGED <<game, pending, bumped, cf, hot, saved, rows, snap, det, spawns, mode, todo,
                     current, gap, lapsed>>
  BY DEF LoadUnlink, Rest
<1>4. /\ work' \in [Tasks -> Jobs] /\ \A u \in Tasks \ {t} : work'[u] = work[u]
      /\ work'[t].k = "check" /\ work'[t].seg = work[t].seg /\ work'[t].cold = work[t].cold
  BY <1>1, <1>3, BecomesIs DEF TypeOK, WorkOK, LoadKinds
<1>5. game = HotState(work[t].seg)
  BY <1>1, <1>2 DEF Slots, InSlot
<1>6. InSlot(t)'
  BY <1>2, <1>3, <1>4, <1>5 DEF InSlot
<1>8. slot' \in Maybe /\ pending' \in BOOLEAN /\ bumped' \in BOOLEAN
  BY <1>1, <1>3 DEF TypeOK, GameOK, PollOK, Maybe
<1> QED BY <1>2, <1>3, <1>4, <1>6, <1>8, LoadKeeps DEF LoadKinds

\* RetroArch loads what the one load in flight has staged.
LEMMA EmulatorKeeps ==
    ASSUME FillInv, RetroArchLoads
    PROVE  FillInv'
<1>1. TypeOK /\ Heads /\ Slots /\ Honest /\ Alone /\ Reported /\ Fits /\ Saving /\ OwnRows
  BY DEF FillInv, QueueInv, RowInv
<1>2. /\ pending /\ pending' = FALSE /\ game' = IF slot = None THEN game ELSE HotState(slot)
      /\ UNCHANGED <<slot, hot, saved, rows, bumped, snap, det, cf, spawns, mode, todo, current,
                     gap, work>>
      /\ lapsed' = IF slot \in Exiting THEN lapsed \cup {"exiting"} ELSE lapsed
  BY DEF RetroArchLoads, poll
<1>3. PICK t \in Tasks : LoadsIn(t)
  BY <1>1, <1>2 DEF Slots
<1>4. InSlot(t) /\ work[t].seg \in Segs
  BY <1>1, <1>3, LoadingTask DEF Slots
<1>5. work[t].k \in {"bump", "settle"} /\ slot = work[t].seg
  BY <1>2, <1>3, <1>4 DEF InSlot, LoadsIn, LoadKinds
<1>6. slot \in Segs /\ slot # None
  BY <1>4, <1>5, SegsNotNone
<1>7. game' = HotState(slot)
  BY <1>2, <1>6
<1>8. /\ game' \in Games /\ game'.at = slot /\ ~game'.hurt /\ ~game'.frame.dead
      /\ ~game'.frame.splash /\ (game'.frame.exiting <=> slot \in Exiting)
  BY <1>6, <1>7, HotStateIs DEF Maybe
<1>9. /\ \A u \in Tasks \ {t} : ~LoadsIn(u)
      /\ t = "user" => work["loop"] = Idle
      /\ t = "loop" => work["user"] = Idle
  BY <1>1, <1>3, OneLoad
<1>10. "failed" \in lapsed' <=> "failed" \in lapsed
  BY <1>2
<1>11. lapsed' \subseteq {"failed", "refused", "exiting"} /\ lapsed \subseteq lapsed'
  BY <1>1, <1>2 DEF TypeOK, GameOK
<1>12. TypeOK'
  <2>1. GameOK'
    BY <1>1, <1>2, <1>8, <1>11 DEF TypeOK, GameOK
  <2>2. PollOK' /\ WorkOK' /\ RestOK'
    BY <1>1, <1>2 DEF TypeOK, PollOK, WorkOK, RestOK
  <2> QED BY <2>1, <2>2 DEF TypeOK
<1>13. Heads' /\ Reported' /\ Saving'
  BY <1>1, <1>2 DEF Heads, Reported, Named, Saving
<1>14. Fits'
  BY <1>1, <1>2, <1>10 DEF Fits, Named
<1>15. OwnRows'
  BY <1>1, <1>2, <1>11 DEF OwnRows
<1>16. Honest'
  BY <1>2, <1>8 DEF Honest
<1>17. LoadsIn(t)' /\ \A u \in Tasks \ {t} : ~LoadsIn(u)'
  BY <1>2, <1>3, <1>9 DEF LoadsIn
<1>18. Slots'
  <2>1. InSlot(t)'
    BY <1>2, <1>5, <1>7 DEF InSlot
  <2> QED BY <1>17, <2>1 DEF Slots
<1>19. Alone'
  <2>1. CASE t = "user"
    BY <1>1, <1>2, <1>5, <1>8, <2>1, IdleIs DEF Alone
  <2>2. CASE t = "loop"
    BY <1>2, <1>9, <2>2 DEF Alone
  <2> QED BY <2>1, <2>2 DEF Tasks
<1>20. Living'
  <2>1. CASE t = "user"
    BY <1>2, <1>5, <2>1, IdleIs DEF Living
  <2>2. CASE t = "loop"
    BY <1>17, <2>2 DEF Living
  <2> QED BY <2>1, <2>2 DEF Tasks
<1> QED BY <1>12, <1>13, <1>14, <1>15, <1>16, <1>18, <1>19, <1>20 DEF FillInv, QueueInv, RowInv

\* A load that fails is over, and nothing is staged.
LEMMA RaiseKeeps ==
    ASSUME FillInv, NEW t \in Tasks, work[t].k \in {"stage", "check"}, Raises(t),
           UNCHANGED slot
    PROVE  FillInv'
<1>1. TypeOK /\ Heads /\ Slots /\ Honest /\ Alone /\ Reported /\ Fits /\ Saving /\ OwnRows
  BY DEF FillInv, QueueInv, RowInv
<1>2. LoadsIn(t)
  BY DEF LoadsIn, LoadKinds
<1>3. /\ work' = [work EXCEPT ![t] = Idle] /\ lapsed' = lapsed \cup {"failed", "refused"}
      /\ UNCHANGED <<game, pending, bumped, cf, hot, saved, rows, snap, det, spawns, mode, todo,
                     current, gap, slot>>
  BY DEF Raises, Rest
<1>4. work' \in [Tasks -> Jobs] /\ work'[t] = Idle /\ \A u \in Tasks \ {t} : work'[u] = work[u]
  BY <1>1, <1>3, IdleIs, TaskIs DEF TypeOK, WorkOK
<1>5. /\ \A u \in Tasks \ {t} : ~LoadsIn(u)
      /\ t = "user" => work["loop"] = Idle
      /\ t = "loop" => work["user"] = Idle
  BY <1>1, <1>2, OneLoad
<1>6. slot = None /\ ~pending
  BY <1>1, <1>2 DEF Slots, InSlot
<1>7. work'["loop"] = Idle /\ work'["user"] = Idle
  BY <1>4, <1>5 DEF Tasks
<1>8. \A u \in Tasks : ~LoadsIn(u)'
  BY <1>7, IdleIs DEF LoadsIn, LoadKinds, Tasks
<1>9. WorkOK'
  BY <1>4, <1>7, IdleIs DEF WorkOK, LoadKinds, Tasks
<1>10. TypeOK'
  BY <1>1, <1>3, <1>9 DEF TypeOK, GameOK, PollOK, RestOK
<1>11. Heads'
  BY <1>1, <1>3, <1>7, IdleIs DEF Heads, Tasks
<1>12. Slots'
  BY <1>3, <1>6, <1>8 DEF Slots
<1>13. Honest'
  BY <1>1, <1>3 DEF Honest
<1>14. Alone' /\ Saving' /\ Living' /\ OwnRows'
  BY <1>3, <1>7 DEF Alone, Saving, Living, OwnRows
<1>15. Reported'
  BY <1>1, <1>3, <1>7 DEF Reported, Named
<1>16. Fits'
  BY <1>3, <1>7 DEF Fits
<1> QED BY <1>10, <1>11, <1>12, <1>13, <1>14, <1>15, <1>16 DEF FillInv, QueueInv, RowInv

\* A load that returns leaves the player at its segment, watched for.
LEMMA ReturnKeeps ==
    ASSUME FillInv, NEW t \in Tasks, LoadReturns(t)
    PROVE  FillInv'
<1>1. TypeOK /\ Heads /\ Slots /\ Honest /\ Alone /\ Reported /\ Fits /\ Saving /\ OwnRows
  BY DEF FillInv, QueueInv, RowInv
<1>2. LoadsIn(t) /\ work[t].k = "check" /\ snap = None
  BY DEF LoadReturns, LoadsIn, LoadKinds
<1> DEFINE s == work[t].seg
<1>3. /\ cf' = IF work[t].cold THEN ActivateCold(s) ELSE cf
      /\ mode' = IF t = "loop" THEN mode ELSE IF work[t].cold THEN "cold_fill" ELSE "fill_gap"
      /\ work' = [work EXCEPT ![t] = Idle]
      /\ lapsed' = IF work[t].cold THEN lapsed \ {"failed"} ELSE lapsed
      /\ UNCHANGED <<game, slot, pending, saved, hot, rows, bumped, snap, det, spawns, todo,
                     current, gap>>
  BY DEF LoadReturns, emu
<1>4. work' \in [Tasks -> Jobs] /\ work'[t] = Idle /\ \A u \in Tasks \ {t} : work'[u] = work[u]
  BY <1>1, <1>3, IdleIs, TaskIs DEF TypeOK, WorkOK
<1>5. /\ \A u \in Tasks \ {t} : ~LoadsIn(u)
      /\ t = "user" => work["loop"] = Idle
      /\ t = "loop" => work["user"] = Idle
  BY <1>1, <1>2, OneLoad
<1>6. slot = None /\ ~pending /\ game = HotState(s)
  BY <1>1, <1>2 DEF Slots, InSlot
<1>7. work'["loop"] = Idle /\ work'["user"] = Idle
  BY <1>4, <1>5 DEF Tasks
<1>8. \A u \in Tasks : ~LoadsIn(u)'
  BY <1>7, IdleIs DEF LoadsIn, LoadKinds, Tasks
<1>9. s \in Segs /\ work[t].cold \in BOOLEAN /\ (t = "loop" => work[t].cold) /\ work[t] # Idle
  BY <1>1, <1>2, LoadingTask, IdleIs DEF Jobs
<1>10. work[t].cold => current = s /\ current # None
  BY <1>1, <1>9, SegsNotNone DEF Heads
<1>11. Named = {}
  <2>1. CASE t = "loop"
    BY <1>1, <1>9, <2>1 DEF Reported
  <2>2. CASE t = "user"
    BY <1>1, <1>9, <2>2 DEF Alone, Named
  <2> QED BY <2>1, <2>2 DEF Tasks
<1>12. work[t].cold => cf' \in Watchers /\ cf'.seg = s /\ ~cf'.waiting
  BY <1>3, <1>9, ActivateIs
<1>13. ~work[t].cold => cf' = cf
  BY <1>3
<1>14. mode' = "cold_fill" => work[t].cold
  BY <1>3, <1>9
<1> HIDE DEF s
<1>15. WorkOK'
  BY <1>4, <1>7, IdleIs DEF WorkOK, LoadKinds, Tasks
<1>16. TypeOK'
  <2>1. mode' \in {"idle", "cold_fill", "fill_gap"}
    BY <1>1, <1>3 DEF TypeOK, GameOK
  <2>2. GameOK'
    BY <1>1, <1>3, <2>1 DEF TypeOK, GameOK
  <2>3. PollOK' /\ RestOK'
    BY <1>1, <1>3, <1>9, <1>12, <1>13 DEF TypeOK, PollOK, RestOK
  <2> QED BY <1>15, <2>2, <2>3 DEF TypeOK
<1>17. Heads'
  BY <1>1, <1>3, <1>7, IdleIs DEF Heads, Tasks
<1>18. Slots'
  BY <1>3, <1>6, <1>8 DEF Slots
<1>19. lapsed' \subseteq {"failed"} => lapsed \subseteq {"failed"}
  BY <1>3
<1>20. Honest'
  BY <1>1, <1>3 DEF Honest
<1>21. OwnRows'
  BY <1>1, <1>3, <1>19 DEF OwnRows
<1>22. Alone' /\ Saving'
  BY <1>7 DEF Alone, Saving
<1>23. Reported'
  BY <1>1, <1>3, <1>7, <1>9, <1>11, <1>12, <1>13 DEF Reported, Named
<1>24. Fits'
  BY <1>3, <1>7, <1>10, <1>12, <1>14 DEF Fits
<1>25. Living'
  <2> SUFFICES ASSUME mode' = "cold_fill" PROVE Living'
    BY DEF Living
  <2>1. cf'.seg = current' /\ ~cf'.waiting /\ snap' = None
    BY <1>2, <1>3, <1>10, <1>12, <1>14
  <2>2. game'.at = current'
    BY <1>3, <1>6, <1>9, <1>10, <1>14, HotStateIs DEF Maybe
  <2>3. Named' = {}
    BY <1>3, <1>11 DEF Named
  <2> QED BY <1>7, <2>1, <2>2, <2>3, IdleIs DEF Living
<1> QED BY <1>16, <1>17, <1>18, <1>20, <1>21, <1>22, <1>23, <1>24, <1>25 DEF FillInv, QueueInv, RowInv

-----------------------------------------------------------------------------
(* Requests. *)

\* A patient user's request starts at most one load, and with it, in a cold fill,
\* the segment it is for.
LEMMA AskKeeps ==
    ASSUME Patient = TRUE, FillInv, Asks,
           work' \in [Tasks -> Jobs], work'["loop"] = work["loop"],
           work'["user"] = Idle \/ (work'["user"].k = "stage" /\ work'["user"].seg \in Segs),
           Heads', gap' \in Maybe, mode' \in {"idle", "cold_fill", "fill_gap"},
           mode' = "cold_fill" => work'["user"].cold /\ current' # None,
           UNCHANGED <<game, slot, pending, saved, hot, rows, bumped, snap, det, cf, spawns, lapsed>>
    PROVE  FillInv'
<1>1. TypeOK /\ Slots /\ Honest /\ Reported /\ OwnRows
  BY DEF FillInv, QueueInv, RowInv
<1>2. /\ snap = None /\ work["loop"] = Idle /\ work["user"] = Idle /\ spawns = <<>>
      /\ det.prev = game.frame /\ ~cf.waiting /\ ~game.hurt /\ ~game.frame.exiting
  BY DEF Asks, Quiet, Seen
<1>3. slot = None /\ ~pending
  BY <1>1, <1>2, IdleIs DEF Slots, LoadsIn, LoadKinds, Tasks
<1>4. work'["loop"] = Idle /\ ~LoadsIn("loop")'
  BY <1>2, IdleIs DEF LoadsIn, LoadKinds
<1>5. WorkOK'
  BY <1>4, IdleIs DEF WorkOK, LoadKinds, Tasks
<1>6. TypeOK'
  BY <1>1, <1>5 DEF TypeOK, GameOK, PollOK, RestOK
<1>7. Slots'
  BY <1>3, <1>4, IdleIs DEF Slots, InSlot, LoadsIn, Tasks
<1>8. Honest' /\ OwnRows'
  BY <1>1 DEF Honest, OwnRows
<1>9. ~det.prev.dead
  BY <1>1, <1>2 DEF Honest
<1>10. Alone'
  BY <1>2, <1>4, <1>9 DEF Alone
<1>11. Reported' /\ Saving'
  BY <1>1, <1>2, <1>4 DEF Reported, Named, Saving
<1>12. mode' = "cold_fill" => work'["user"] # Idle
  BY IdleIs
<1>13. Fits' /\ Living'
  BY <1>12 DEF Fits, Living
<1> QED BY <1>6, <1>7, <1>8, <1>10, <1>11, <1>13 DEF FillInv, QueueInv, RowInv

\* The next of the queue, for a request.
LEMMA NextAsked ==
    ASSUME Patient = TRUE, FillInv, Asks, NEW q \in SUBSET DOMAIN Gaps, LoadNext("user", q),
           mode' \in {"idle", "cold_fill", "fill_gap"}, todo' = {} => mode' # "cold_fill",
           UNCHANGED <<game, slot, pending, saved, hot, rows, bumped, snap, det, cf, spawns, gap,
                       lapsed>>
    PROVE  FillInv'
<1>1. work \in [Tasks -> Jobs] /\ gap \in Maybe
  BY DEF FillInv, QueueInv, TypeOK, WorkOK, RestOK
<1>2. work["loop"] = Idle
  BY DEF Asks, Quiet
<1>3. /\ todo' \subseteq DOMAIN Gaps
      /\ work' \in [Tasks -> Jobs] /\ work'["loop"] = work["loop"]
      /\ \/ todo' = {} /\ current' = None /\ work'["user"] = Idle
         \/ todo' # {} /\ Given("user")
  BY <1>1, LoadNextIs DEF Tasks
<1>4. CASE todo' = {}
  <2>1. current' = None /\ work'["user"] = Idle
    BY <1>3, <1>4 DEF Given
  <2>2. Heads'
    BY <1>2, <1>3, <1>4, <2>1, IdleIs DEF Heads, Maybe, Tasks
  <2> QED BY <1>1, <1>3, <1>4, <2>1, <2>2, AskKeeps
<1>5. CASE todo' # {}
  <2>1. /\ current' \in Segs /\ current' = First(todo')
        /\ work'["user"].k = "stage" /\ work'["user"].seg = current' /\ work'["user"].cold
    BY <1>3, <1>5 DEF Given
  <2>2. Heads'
    BY <1>2, <1>3, <1>5, <2>1, IdleIs DEF Heads, Maybe, Tasks
  <2> QED BY <1>1, <1>3, <2>1, <2>2, SegsNotNone, AskKeeps
<1> QED BY <1>4, <1>5

LEMMA StartKeeps ==
    ASSUME Patient = TRUE, FillInv, StartColdFill
    PROVE  FillInv'
<1>1. /\ Asks /\ mode = "idle" /\ LoadNext("user", Missing)
      /\ UNCHANGED <<game, slot, pending, saved, hot, rows, bumped, snap, det, cf, spawns, mode, gap,
                     lapsed>>
  BY DEF StartColdFill, emu, poll
<1>2. Missing \in SUBSET DOMAIN Gaps
  BY DEF Missing
<1> QED BY <1>1, <1>2, NextAsked

LEMMA SkipKeeps ==
    ASSUME Patient = TRUE, FillInv, SkipColdFill
    PROVE  FillInv'
<1> DEFINE q == Popped(todo)
<1>1. /\ Asks /\ mode = "cold_fill" /\ LoadNext("user", q)
      /\ mode' = IF Servable(q) = {} THEN "idle" ELSE mode
      /\ UNCHANGED <<game, slot, pending, saved, hot, rows, bumped, snap, det, cf, spawns, gap, lapsed>>
  BY DEF SkipColdFill, emu, poll
<1>2. todo' = Servable(q)
  BY <1>1 DEF LoadNext
<1>3. todo \subseteq DOMAIN Gaps
  BY DEF FillInv, QueueInv, Heads
<1>4. q \in SUBSET DOMAIN Gaps
  BY <1>3 DEF Popped
<1> HIDE DEF q
<1> QED BY <1>1, <1>2, <1>4, NextAsked

LEMMA AbortKeeps ==
    ASSUME Patient = TRUE, FillInv, AbortColdFill
    PROVE  FillInv'
<1>1. /\ Asks /\ todo' = {} /\ current' = None /\ mode' = "idle"
      /\ UNCHANGED <<game, slot, pending, saved, hot, rows, bumped, snap, det, cf, spawns, gap, work,
                     lapsed>>
  BY DEF AbortColdFill, emu, poll
<1>2. work["loop"] = Idle /\ work["user"] = Idle
  BY <1>1 DEF Asks, Quiet
<1>3. Heads'
  BY <1>1, <1>2, IdleIs DEF Heads, Maybe, Tasks
<1>4. work \in [Tasks -> Jobs] /\ gap \in Maybe
  BY DEF FillInv, QueueInv, TypeOK, WorkOK, RestOK
<1> QED BY <1>1, <1>2, <1>3, <1>4, AskKeeps

LEMMA FillGapKeeps ==
    ASSUME Patient = TRUE, FillInv, StartFillGap
    PROVE  FillInv'
<1>1. PICK s \in Segs : /\ gap' = s
                        /\ work' = [work EXCEPT !["user"] = [k |-> "stage", seg |-> s,
                                                             cold |-> FALSE]]
  BY DEF StartFillGap
<1>2. /\ Asks /\ mode = "idle"
      /\ UNCHANGED <<game, slot, pending, saved, hot, rows, bumped, snap, det, cf, spawns, mode, todo,
                     current, lapsed>>
  BY DEF StartFillGap, emu, poll
<1> DEFINE j == [k |-> "stage", seg |-> s, cold |-> FALSE]
<1>3. j \in Jobs /\ j.k = "stage" /\ j.seg = s /\ ~j.cold
  BY DEF Jobs, LoadKinds, Maybe
<1> HIDE DEF j
<1>4. work \in [Tasks -> Jobs] /\ Heads /\ work' = [work EXCEPT !["user"] = j]
  BY <1>1 DEF FillInv, QueueInv, TypeOK, WorkOK, j
<1>5. work' \in [Tasks -> Jobs] /\ work'["user"] = j /\ work'["loop"] = work["loop"]
  BY <1>3, <1>4 DEF Tasks
<1>6. work["loop"] = Idle
  BY <1>2 DEF Asks, Quiet
<1>7. Heads'
  BY <1>2, <1>3, <1>4, <1>5, <1>6, IdleIs DEF Heads, Tasks
<1> QED BY <1>1, <1>2, <1>3, <1>5, <1>7, AskKeeps DEF Maybe

-----------------------------------------------------------------------------
(* Spawns, handled. *)

\* The first spawn is taken from the queue.
LEMMA TailIs ==
    ASSUME spawns \in Seq(Spawns), spawns # <<>>, spawns' = Tail(spawns)
    PROVE  /\ spawns' \in Seq(Spawns) /\ Head(spawns) = spawns[1] /\ 1 \in DOMAIN spawns
           /\ Head(spawns).seg \in Maybe
           /\ \A i \in DOMAIN spawns' : i + 1 \in DOMAIN spawns /\ i # 0 /\ i \in Nat
                                        /\ spawns'[i] = spawns[i + 1]
           /\ \A i \in DOMAIN spawns : i = 1 \/ (i - 1 \in DOMAIN spawns' /\ spawns'[i - 1] = spawns[i])
<1>1. /\ DOMAIN spawns = 1..Len(spawns) /\ Len(spawns) \in Nat \ {0}
      /\ Head(spawns) = spawns[1]
  BY EmptySeq
<1>2. /\ spawns' \in Seq(Spawns) /\ DOMAIN spawns' = 1..Len(spawns')
      /\ Len(spawns') = Len(spawns) - 1
      /\ \A i \in 1..Len(spawns) - 1 : spawns'[i] = spawns[i + 1]
  BY <1>1, HeadTailProperties
<1>3. Head(spawns) \in Spawns
  BY <1>1
<1>4. Head(spawns).seg \in Maybe
  BY <1>3 DEF Spawns
<1> QED BY <1>1, <1>2, <1>4

LEMMA TailNamed ==
    ASSUME spawns \in Seq(Spawns), spawns # <<>>, spawns' = Tail(spawns),
           \A i, j \in Named : i = j
    PROVE  /\ \A i, j \in Named' : i = j
           /\ Head(spawns).seg # None => 1 \in Named /\ Named' = {}
           /\ Head(spawns).seg = None => (Named # {} <=> Named' # {})
           /\ Named' # {} => Named # {}
           /\ \A i \in Named' : i + 1 \in Named /\ spawns'[i] = spawns[i + 1]
<1> USE TailIs
<1>1. \A i \in Named' : i + 1 \in Named /\ spawns'[i] = spawns[i + 1] /\ i \in Nat /\ i # 0
  BY DEF Named
<1>2. \A i, j \in Named' : i = j
  <2> SUFFICES ASSUME NEW i \in Named', NEW j \in Named' PROVE i = j
    OBVIOUS
  <2>1. i + 1 = j + 1 /\ i \in Nat /\ j \in Nat
    BY <1>1
  <2> QED BY <2>1
<1>3. Head(spawns).seg # None => 1 \in Named /\ Named' = {}
  <2> SUFFICES ASSUME Head(spawns).seg # None PROVE 1 \in Named /\ Named' = {}
    OBVIOUS
  <2>1. 1 \in Named
    BY DEF Named
  <2>2. ASSUME NEW i \in Named' PROVE FALSE
    <3>1. i + 1 = 1 /\ i \in Nat /\ i # 0
      BY <1>1, <2>1
    <3> QED BY <3>1
  <2> QED BY <2>1, <2>2
<1>4. ASSUME Head(spawns).seg = None, NEW i \in Named PROVE Named' # {}
  <2>1. i # 1 /\ i \in DOMAIN spawns /\ spawns[i].seg # None
    BY <1>4 DEF Named
  <2>2. i - 1 \in DOMAIN spawns' /\ spawns'[i - 1] = spawns[i]
    BY <2>1
  <2> QED BY <2>1, <2>2 DEF Named
<1> QED BY <1>1, <1>2, <1>3, <1>4

\* What every handler of a spawn may count on.
LEMMA HandlesIs ==
    ASSUME FillInv, Handles
    PROVE  /\ work["loop"] = Idle /\ work["user"] = Idle /\ snap = None
           /\ \A t \in Tasks : ~LoadsIn(t)
           /\ slot = None /\ ~pending
           /\ spawns \in Seq(Spawns) /\ spawns # <<>> /\ \A i, j \in Named : i = j
<1>1. snap = None /\ work["loop"] = Idle /\ spawns # <<>>
  BY DEF Handles
<1>2. work["user"] = Idle
  BY <1>1 DEF FillInv, QueueInv, Alone
<1>3. \A t \in Tasks : ~LoadsIn(t)
  BY <1>1, <1>2, IdleIs DEF LoadsIn, LoadKinds, Tasks
<1> QED BY <1>1, <1>2, <1>3 DEF FillInv, QueueInv, TypeOK, PollOK, Slots, Reported

LEMMA IgnoredKeeps ==
    ASSUME FillInv, SpawnIgnored
    PROVE  FillInv'
<1>1. TypeOK /\ Heads /\ Slots /\ Honest /\ Reported /\ Fits /\ Living /\ Saving /\ OwnRows
  BY DEF FillInv, QueueInv, RowInv
<1>2. /\ Handles /\ spawns' = Tail(spawns)
      /\ UNCHANGED <<game, slot, pending, saved, hot, rows, bumped, snap, det, cf, mode, todo,
                     current, gap, work, lapsed>>
      /\ mode = "cold_fill" => current = None \/ Head(spawns).seg = None
  BY DEF SpawnIgnored, emu, poll
<1>3. /\ work["loop"] = Idle /\ work["user"] = Idle /\ snap = None
      /\ \A t \in Tasks : ~LoadsIn(t)
      /\ spawns \in Seq(Spawns) /\ spawns # <<>> /\ \A i, j \in Named : i = j
  BY <1>2, HandlesIs
<1>4. spawns' \in Seq(Spawns)
  BY <1>2, <1>3, TailIs
<1>5. /\ \A i, j \in Named' : i = j
      /\ Head(spawns).seg = None => (Named # {} <=> Named' # {})
      /\ Named' # {} => Named # {}
      /\ \A i \in Named' : i + 1 \in Named /\ spawns'[i] = spawns[i + 1]
  BY <1>2, <1>3, TailNamed
<1>6. TypeOK'
  BY <1>1, <1>2, <1>4 DEF TypeOK, GameOK, PollOK, WorkOK, RestOK
<1>7. Heads' /\ Slots' /\ Honest' /\ OwnRows' /\ Saving'
  BY <1>1, <1>2 DEF Heads, Slots, InSlot, LoadsIn, Honest, OwnRows, Saving
<1>8. Alone'
  BY <1>2, <1>3 DEF Alone
<1>9. Reported'
  BY <1>1, <1>2, <1>3, <1>5 DEF Reported
<1>10. Fits'
  BY <1>1, <1>2, <1>3, <1>5 DEF Fits
<1>11. Living'
  <2> SUFFICES ASSUME lapsed \subseteq {"failed"}, mode = "cold_fill" PROVE Living'
    BY <1>2 DEF Living
  <2>1. /\ current # None => game.at = current
        /\ cf.seg # None => cf.seg = current
        /\ cf.waiting => Was
        /\ \A i \in Named : spawns[i].seg = current /\ game.cold
    BY <1>1, <1>3 DEF Living, Tasks
  <2>2. \A i \in Named' : spawns'[i].seg = current /\ game.cold
    BY <1>5, <2>1
  <2> QED BY <1>2, <1>3, <2>1, <2>2, IdleIs DEF Living, Was
<1> QED BY <1>6, <1>7, <1>8, <1>9, <1>10, <1>11 DEF FillInv, QueueInv, RowInv

\* The spawn of the segment given is saved for.
LEMMA SavesKeeps ==
    ASSUME FillInv, SpawnSaves
    PROVE  FillInv'
<1>1. TypeOK /\ Heads /\ Slots /\ Honest /\ Reported /\ Fits /\ Living /\ Saving /\ OwnRows
  BY DEF FillInv, QueueInv, RowInv
<1> DEFINE j == [Idle EXCEPT !.k = "save", !.seg = Head(spawns).seg]
<1>2. /\ Handles /\ mode = "cold_fill" /\ current # None /\ Head(spawns).seg # None
      /\ work' = [work EXCEPT !["loop"] = j] /\ spawns' = Tail(spawns)
      /\ UNCHANGED <<game, slot, pending, saved, hot, rows, bumped, snap, det, cf, mode, todo,
                     current, gap, lapsed>>
  BY DEF SpawnSaves, emu, poll
<1>3. /\ work["loop"] = Idle /\ work["user"] = Idle /\ snap = None
      /\ \A t \in Tasks : ~LoadsIn(t)
      /\ slot = None /\ ~pending
      /\ spawns \in Seq(Spawns) /\ spawns # <<>> /\ \A i1, i2 \in Named : i1 = i2
  BY <1>2, HandlesIs
<1>4. spawns' \in Seq(Spawns) /\ Head(spawns).seg \in Maybe /\ Head(spawns) = spawns[1]
  BY <1>2, <1>3, TailIs
<1>5. 1 \in Named /\ Named' = {}
  BY <1>2, <1>3, TailNamed
<1>6. Head(spawns).seg \in Segs
  BY <1>2, <1>4 DEF Maybe
<1>7. j \in Jobs /\ j.k = "save" /\ j.seg = Head(spawns).seg /\ ~j.cold
  BY <1>4 DEF Idle, Jobs
<1> HIDE DEF j
<1>8. work' \in [Tasks -> Jobs] /\ work'["loop"] = j /\ work'["user"] = Idle
  BY <1>1, <1>2, <1>3, <1>7 DEF TypeOK, WorkOK, Tasks
<1>9. WorkOK'
  BY <1>6, <1>7, <1>8, IdleIs DEF WorkOK, LoadKinds, Tasks
<1>10. TypeOK'
  BY <1>1, <1>2, <1>4, <1>9 DEF TypeOK, GameOK, PollOK, RestOK
<1>11. \A t \in Tasks : ~LoadsIn(t)'
  BY <1>7, <1>8, IdleIs DEF LoadsIn, LoadKinds, Tasks
<1>12. Heads'
  BY <1>1, <1>2, <1>7, <1>8, IdleIs DEF Heads, Tasks
<1>13. Slots' /\ Honest' /\ OwnRows'
  BY <1>1, <1>2, <1>3, <1>11 DEF Slots, Honest, OwnRows
<1>14. Alone' /\ Saving'
  BY <1>2, <1>8 DEF Alone, Saving
<1>15. cf.seg = None
  BY <1>1, <1>5 DEF Reported
<1>16. Reported'
  BY <1>1, <1>2, <1>5, <1>15 DEF Reported
<1>17. work'["loop"] # Idle
  BY <1>7, <1>8, IdleIs
<1>18. Fits'
  BY <1>2, <1>8, <1>17 DEF Fits
<1>19. Living'
  <2> SUFFICES ASSUME lapsed \subseteq {"failed"} PROVE Living'
    BY <1>2 DEF Living
  <2>1. /\ current # None => game.at = current
        /\ cf.waiting => Was
        /\ spawns[1].seg = current /\ game.cold
    BY <1>1, <1>2, <1>3, <1>5 DEF Living, Tasks
  <2>2. work'["loop"].seg = current /\ work'["loop"].k = "save"
    BY <1>4, <1>7, <1>8, <2>1
  <2> QED BY <1>2, <1>3, <1>5, <1>15, <2>1, <2>2 DEF Living, Was
<1> QED BY <1>10, <1>12, <1>13, <1>14, <1>16, <1>18, <1>19 DEF FillInv, QueueInv, RowInv

LEMMA GapFilledKeeps ==
    ASSUME FillInv, SpawnFillsGap
    PROVE  FillInv'
<1>1. TypeOK /\ Heads /\ Slots /\ Honest /\ Reported /\ OwnRows
  BY DEF FillInv, QueueInv, RowInv
<1> DEFINE row == [wp |-> gap, path |-> Head(spawns).seg, by |-> "fill_gap"]
<1>2. /\ Handles /\ gap # None /\ Head(spawns).seg # None
      /\ rows' = {r \in rows : r.wp # gap} \cup {row}
      /\ gap' = None /\ mode' = "idle" /\ spawns' = Tail(spawns)
      /\ UNCHANGED <<game, slot, pending, saved, hot, bumped, snap, det, cf, todo, current, work,
                     lapsed>>
  BY DEF SpawnFillsGap, emu, poll
<1>3. /\ work["loop"] = Idle /\ work["user"] = Idle /\ snap = None
      /\ spawns \in Seq(Spawns) /\ spawns # <<>> /\ \A i1, i2 \in Named : i1 = i2
  BY <1>2, HandlesIs
<1>4. spawns' \in Seq(Spawns) /\ Head(spawns).seg \in Maybe
  BY <1>2, <1>3, TailIs
<1>5. Named' = {}
  BY <1>2, <1>3, TailNamed
<1>6. row \in Rows /\ row.by # "cold_fill"
  BY <1>1, <1>2, <1>4 DEF Rows, Maybe, TypeOK, RestOK
<1> HIDE DEF row
<1>7. RestOK'
  BY <1>1, <1>2, <1>6 DEF TypeOK, RestOK, Maybe
<1>8. TypeOK'
  BY <1>1, <1>2, <1>4, <1>7 DEF TypeOK, GameOK, PollOK, WorkOK
<1>9. Heads' /\ Slots' /\ Honest'
  BY <1>1, <1>2 DEF Heads, Slots, InSlot, LoadsIn, Honest
<1>10. Alone' /\ Saving' /\ Fits' /\ Living'
  BY <1>2, <1>3 DEF Alone, Saving, Fits, Living
<1>11. Reported'
  BY <1>1, <1>2, <1>3, <1>5 DEF Reported
<1>12. OwnRows'
  BY <1>1, <1>2, <1>6 DEF OwnRows
<1> QED BY <1>8, <1>9, <1>10, <1>11, <1>12 DEF FillInv, QueueInv, RowInv

-----------------------------------------------------------------------------
(* The save and the capture. *)

\* While the loop saves, nothing loads.
LEMMA SavingIs ==
    ASSUME FillInv, work["loop"].k \in {"save", "saved"}
    PROVE  /\ work["loop"] # Idle /\ work["user"] = Idle /\ mode = "cold_fill"
           /\ \A t \in Tasks : ~LoadsIn(t)
           /\ slot = None /\ ~pending /\ cf.seg = None /\ Named = {} /\ ~cf.waiting
           /\ work["loop"].seg \in Segs /\ work \in [Tasks -> Jobs]
<1>1. TypeOK /\ Slots /\ Alone /\ Reported /\ Saving
  BY DEF FillInv, QueueInv, RowInv
<1>2. work["loop"] # Idle
  BY IdleIs
<1>3. work["user"] = Idle
  BY <1>1, <1>2 DEF Alone
<1>4. \A t \in Tasks : ~LoadsIn(t)
  BY <1>3, IdleIs DEF LoadsIn, LoadKinds, Tasks
<1>5. work["loop"].seg \in Segs /\ work \in [Tasks -> Jobs]
  BY <1>1 DEF TypeOK, WorkOK
<1> QED BY <1>1, <1>2, <1>3, <1>4, <1>5 DEF Slots, Reported, Saving

\* A cold fill's save shows the player it was asked for.
LEMMA CompletesKeeps ==
    ASSUME FillInv, SaveCompletes
    PROVE  FillInv'
<1>1. TypeOK /\ Heads /\ Slots /\ Honest /\ Reported /\ Fits /\ Living /\ Saving /\ OwnRows
  BY DEF FillInv, QueueInv, RowInv
<1> DEFINE p == work["loop"].seg
<1>2. work["loop"].k = "save" /\ Becomes("loop", "saved")
  BY DEF SaveCompletes
<1>3. /\ work["loop"] # Idle /\ work["user"] = Idle /\ mode = "cold_fill"
      /\ \A t \in Tasks : ~LoadsIn(t)
      /\ slot = None /\ ~pending /\ cf.seg = None /\ Named = {} /\ ~cf.waiting
      /\ p \in Segs /\ work \in [Tasks -> Jobs]
  BY <1>2, SavingIs
<1>4. /\ SaveTakes(game)
      /\ UNCHANGED <<slot, game, pending, hot, rows, bumped, snap, det, cf, spawns, mode, todo, current,
                     gap, lapsed>>
  BY <1>3 DEF SaveCompletes, poll
<1>5. /\ DOMAIN saved' = DOMAIN saved \cup {p}
      /\ saved'[p] = [at |-> game.at, cold |-> game.cold]
      /\ \A q \in DOMAIN saved : q # p => saved'[q] = saved[q]
  BY <1>4 DEF SaveTakes, Shows
<1>6. /\ work' \in [Tasks -> Jobs] /\ work'["user"] = Idle /\ work'["loop"].k = "saved"
      /\ work'["loop"].seg = p /\ work'["loop"].cold = work["loop"].cold
  BY <1>2, <1>3, BecomesIs DEF Tasks
<1> HIDE DEF p
<1>7. ~work["loop"].cold
  BY <1>1, <1>2 DEF TypeOK, WorkOK
<1>8. WorkOK'
  BY <1>3, <1>6, <1>7, IdleIs DEF WorkOK, LoadKinds, Tasks
<1>9. TypeOK'
  BY <1>1, <1>3, <1>4, <1>5, <1>8 DEF TypeOK, GameOK, PollOK, RestOK
<1>10. \A t \in Tasks : ~LoadsIn(t)'
  BY <1>6, IdleIs DEF LoadsIn, LoadKinds, Tasks
<1>11. work'["loop"] # Idle
  BY <1>6, IdleIs
<1>12. Heads'
  BY <1>1, <1>4, <1>6, <1>7, IdleIs DEF Heads, Tasks
<1>13. Slots' /\ Honest'
  BY <1>1, <1>3, <1>4, <1>10 DEF Slots, Honest
<1>14. Alone' /\ Saving'
  BY <1>3, <1>4, <1>6 DEF Alone, Saving
<1>15. Named' = {}
  BY <1>3, <1>4 DEF Named
<1>16. Reported'
  BY <1>1, <1>3, <1>4, <1>15 DEF Reported
<1>17. Fits'
  BY <1>1, <1>3, <1>4, <1>6, <1>11 DEF Fits
<1>18. ASSUME lapsed \subseteq {"failed"}
       PROVE  /\ p = current /\ current # None /\ game.cold = TRUE /\ game.at = current
              /\ snap # None => (~Calm(snap) => Was) /\ (snap.splash => game.cold)
  <2>1. p = current /\ game.cold /\ (current # None => game.at = current)
        /\ (snap # None => (~Calm(snap) => Was) /\ (snap.splash => game.cold))
    BY <1>1, <1>2, <1>3, <1>18 DEF Living, Tasks, p
  <2>2. game.cold \in BOOLEAN
    BY <1>1, GameParts DEF TypeOK, GameOK
  <2> QED BY <1>3, <2>1, <2>2, SegsNotNone
<1>19. lapsed \subseteq {"failed"} => saved'[p] = [at |-> current, cold |-> TRUE]
  BY <1>5, <1>18
<1>20. Living'
  <2> SUFFICES ASSUME lapsed \subseteq {"failed"} PROVE Living'
    BY <1>4 DEF Living
  <2>1. current' \in DOMAIN saved' /\ saved'[current'] = [at |-> current', cold |-> TRUE]
    BY <1>4, <1>5, <1>18, <1>19
  <2> QED BY <1>3, <1>4, <1>6, <1>15, <1>18, <2>1 DEF Living, Was
<1>21. OwnRows'
  <2> SUFFICES ASSUME lapsed \subseteq {"failed"}, NEW r \in rows, r.by = "cold_fill"
               PROVE  /\ r.path = r.wp /\ r.path \in DOMAIN saved'
                      /\ saved'[r.path] = [at |-> r.wp, cold |-> TRUE]
    BY <1>4 DEF OwnRows
  <2>1. /\ r.path = r.wp /\ r.path \in DOMAIN saved
        /\ saved[r.path] = [at |-> r.wp, cold |-> TRUE]
    BY <1>1 DEF OwnRows
  <2> QED BY <1>5, <1>18, <1>19, <2>1
<1> QED BY <1>9, <1>12, <1>13, <1>14, <1>16, <1>17, <1>20, <1>21 DEF FillInv, QueueInv, RowInv

LEMMA GivesUpKeeps ==
    ASSUME FillInv, SaveGivesUp
    PROVE  FillInv'
<1>1. TypeOK /\ Heads /\ Slots /\ Honest /\ Reported /\ Fits /\ Living /\ Saving /\ OwnRows
  BY DEF FillInv, QueueInv, RowInv
<1>2. /\ work["loop"].k = "save" /\ snap = None
      /\ work' = [work EXCEPT !["loop"] = Idle] /\ lapsed' = lapsed \cup {"failed"}
      /\ UNCHANGED <<game, slot, pending, saved, hot, rows, bumped, snap, det, cf, spawns, mode, todo,
                     current, gap>>
  BY DEF SaveGivesUp, emu, poll
<1>3. /\ work["user"] = Idle /\ \A t \in Tasks : ~LoadsIn(t)
      /\ slot = None /\ ~pending /\ cf.seg = None /\ Named = {} /\ ~cf.waiting
      /\ work \in [Tasks -> Jobs]
  BY <1>2, SavingIs
<1>4. work' \in [Tasks -> Jobs] /\ work'["loop"] = Idle /\ work'["user"] = Idle
  BY <1>2, <1>3, IdleIs DEF Tasks
<1>5. WorkOK'
  BY <1>4, IdleIs DEF WorkOK, LoadKinds, Tasks
<1>6. TypeOK'
  BY <1>1, <1>2, <1>5 DEF TypeOK, GameOK, PollOK, RestOK
<1>7. \A t \in Tasks : ~LoadsIn(t)'
  BY <1>4, IdleIs DEF LoadsIn, LoadKinds, Tasks
<1>8. Heads'
  BY <1>1, <1>2, <1>4, IdleIs DEF Heads, Tasks
<1>9. Slots' /\ Honest'
  BY <1>1, <1>2, <1>3, <1>7 DEF Slots, Honest
<1>10. Alone' /\ Saving' /\ Fits'
  BY <1>2, <1>4 DEF Alone, Saving, Fits
<1>11. Reported'
  BY <1>1, <1>2, <1>3 DEF Reported, Named
<1>12. OwnRows'
  BY <1>1, <1>2 DEF OwnRows
<1>13. Living'
  BY <1>1, <1>2, <1>3, <1>4, IdleIs DEF Living, Was, Named, Tasks
<1> QED BY <1>6, <1>8, <1>9, <1>10, <1>11, <1>12, <1>13 DEF FillInv, QueueInv, RowInv

\* What is captured becomes the row of the segment given.
LEMMA CapturedRows ==
    ASSUME FillInv, SpawnCaptured
    PROVE  /\ rows' \subseteq Rows
           /\ lapsed \subseteq {"failed"} =>
                  \A r \in rows' : r.by = "cold_fill" =>
                      /\ r.path = r.wp /\ r.path \in DOMAIN saved
                      /\ saved[r.path] = [at |-> r.wp, cold |-> TRUE]
<1>1. TypeOK /\ Heads /\ Living /\ OwnRows
  BY DEF FillInv, QueueInv, RowInv
<1>2. work["loop"].k = "saved" /\ rows' = WithCold
  BY DEF SpawnCaptured, Captured
<1>3. /\ work["user"] = Idle /\ mode = "cold_fill" /\ \A t \in Tasks : ~LoadsIn(t)
      /\ work["loop"].seg \in Segs
  BY <1>2, SavingIs
<1>4. CASE current = None
  BY <1>1, <1>2, <1>4 DEF WithCold, TypeOK, RestOK, OwnRows
<1>5. CASE current # None
  <2> DEFINE row == [wp |-> current, path |-> work["loop"].seg, by |-> "cold_fill"]
  <2>1. rows' = {r \in rows : r.wp # current} \cup {row}
    BY <1>2, <1>5 DEF WithCold
  <2>2. row \in Rows /\ row.wp = current /\ row.path = work["loop"].seg
    BY <1>1, <1>3, <1>5 DEF Heads, Rows, Maybe
  <2>3. lapsed \subseteq {"failed"} =>
            /\ work["loop"].seg = current /\ current \in DOMAIN saved
            /\ saved[current] = [at |-> current, cold |-> TRUE]
    BY <1>1, <1>2, <1>3 DEF Living, Tasks
  <2> HIDE DEF row
  <2>4. rows' \subseteq Rows
    BY <1>1, <2>1, <2>2 DEF TypeOK, RestOK
  <2> QED BY <1>1, <2>1, <2>2, <2>3, <2>4 DEF OwnRows
<1> QED BY <1>4, <1>5

LEMMA CapturedKeeps ==
    ASSUME FillInv, SpawnCaptured
    PROVE  FillInv'
<1>1. TypeOK /\ Heads /\ Slots /\ Honest /\ Reported /\ Fits /\ Saving
  BY DEF FillInv, QueueInv, RowInv
<1>2. /\ snap = None /\ work["loop"].k = "saved"
      /\ UNCHANGED <<slot, pending, hot, saved, bumped, snap, det, cf, spawns, gap, lapsed>>
  BY DEF SpawnCaptured, Captured, poll
<1>3. /\ work["loop"] # Idle /\ work["user"] = Idle /\ mode = "cold_fill"
      /\ \A t \in Tasks : ~LoadsIn(t)
      /\ slot = None /\ ~pending /\ cf.seg = None /\ Named = {} /\ ~cf.waiting
      /\ work \in [Tasks -> Jobs]
  BY <1>2, SavingIs
<1>4. RestOK' /\ OwnRows'
  BY <1>1, <1>2, CapturedRows DEF TypeOK, RestOK, OwnRows
<1>5. \/ /\ todo = {} /\ work' = [work EXCEPT !["loop"] = Idle]
         /\ UNCHANGED <<game, mode, todo, current>>
      \/ /\ todo' = {} /\ current' = None /\ mode' = "idle" /\ game' = Title
         /\ work' = [work EXCEPT !["loop"] = Idle]
      \/ Popped(todo) # {} /\ LoadNext("loop", Popped(todo)) /\ UNCHANGED <<game, mode>>
  BY DEF SpawnCaptured, Captured
\* What the three endings have in common.
<1> DEFINE Ended == work' \in [Tasks -> Jobs] /\ work'["loop"] = Idle /\ work'["user"] = Idle
<1>6. \/ Ended /\ todo = {} /\ UNCHANGED <<game, mode, todo, current>>
      \/ Ended /\ todo' = {} /\ current' = None /\ mode' = "idle" /\ game' = Title
      \/ Ended /\ todo' = {} /\ current' = None /\ Segs \ hot # {} /\ UNCHANGED <<game, mode>>
      \/ /\ work' \in [Tasks -> Jobs] /\ work'["user"] = Idle
         /\ todo' \subseteq DOMAIN Gaps /\ todo' # {} /\ Given("loop") /\ UNCHANGED <<game, mode>>
  <2>1. ASSUME work' = [work EXCEPT !["loop"] = Idle] PROVE Ended
    BY <1>3, <2>1, IdleIs DEF Tasks
  <2>2. Popped(todo) \in SUBSET DOMAIN Gaps
    BY <1>1 DEF Heads, Popped
  <2>3. ASSUME Popped(todo) # {}, LoadNext("loop", Popped(todo))
        PROVE  /\ todo' \subseteq DOMAIN Gaps /\ work' \in [Tasks -> Jobs] /\ work'["user"] = work["user"]
               /\ \/ todo' = {} /\ current' = None /\ work'["loop"] = Idle /\ Segs \ hot # {}
                  \/ todo' # {} /\ Given("loop")
    BY <1>3, <2>2, <2>3, LoadNextIs DEF Tasks
  <2> QED BY <1>3, <1>5, <2>1, <2>3
<1>7. \/ Ended
      \/ /\ work' \in [Tasks -> Jobs] /\ work'["user"] = Idle /\ work'["loop"].k = "stage"
         /\ work'["loop"].seg = current' /\ current' \in Segs /\ work'["loop"].cold
  BY <1>6 DEF Given
<1>8. WorkOK'
  BY <1>7, IdleIs DEF WorkOK, LoadKinds, Tasks
<1>9. game' \in Games /\ mode' \in {"idle", "cold_fill"} /\ (mode' = "cold_fill" => game' = game)
  BY <1>1, <1>3, <1>6, TitleIs DEF TypeOK, GameOK
<1>10. TypeOK'
  BY <1>1, <1>2, <1>4, <1>8, <1>9 DEF TypeOK, GameOK, PollOK
<1>11. Heads'
  <2>1. CASE Ended /\ todo = {} /\ UNCHANGED <<game, mode, todo, current>>
    BY <1>1, <2>1, IdleIs DEF Heads, Tasks
  <2>2. CASE Ended /\ todo' = {} /\ current' = None
    BY <2>2, IdleIs DEF Heads, Tasks, Maybe
  <2>3. CASE /\ work'["user"] = Idle /\ todo' \subseteq DOMAIN Gaps /\ todo' # {} /\ Given("loop")
    BY <2>3, IdleIs DEF Heads, Tasks, Maybe, Given
  <2> QED BY <1>6, <2>1, <2>2, <2>3
<1>12. Slots'
  BY <1>2, <1>3, <1>7, IdleIs DEF Slots, InSlot, LoadsIn, LoadKinds, Tasks
<1>13. Honest'
  <2>1. game' = game \/ game' = Title
    BY <1>6
  <2> QED BY <1>1, <1>2, <2>1, TitleIs, AliveIs DEF Honest, Calm
<1>14. Alone' /\ Saving'
  <2>1. mode' = "cold_fill" \/ work'["loop"] = Idle
    BY <1>3, <1>6
  <2> QED BY <1>7, <2>1 DEF Alone, Saving
<1>15. Named' = {}
  BY <1>2, <1>3 DEF Named
<1>16. Reported'
  BY <1>1, <1>2, <1>3, <1>15 DEF Reported
<1>17. Fits'
  <2>1. CASE Ended /\ todo = {} /\ UNCHANGED <<game, mode, todo, current>>
    <3>1. current = None
      BY <1>1, <2>1 DEF Heads
    <3>2. "failed" \notin lapsed => Segs \ hot # {}
      BY <1>1, <1>3, <3>1 DEF Fits
    <3> QED BY <1>2, <1>3, <2>1, <3>1, <3>2 DEF Fits
  <2>2. CASE mode' = "idle"
    BY <2>2 DEF Fits
  <2>3. CASE Ended /\ current' = None /\ Segs \ hot # {}
    BY <1>2, <1>3, <2>3 DEF Fits
  <2>4. CASE work'["user"] = Idle /\ Given("loop")
    BY <2>4, SegsNotNone, IdleIs DEF Fits, Given
  <2> QED BY <1>6, <2>1, <2>2, <2>3, <2>4
<1>18. Living'
  <2>1. CASE Given("loop")
    BY <2>1 DEF Given, Living, LoadsIn, LoadKinds
  <2>2. CASE mode' = "idle"
    BY <2>2 DEF Living
  <2>3. CASE Ended /\ current' = None
    BY <1>2, <1>3, <1>15, <2>3, IdleIs DEF Living
  <2>4. todo = {} => current = None
    BY <1>1 DEF Heads
  <2> QED BY <1>6, <2>1, <2>2, <2>3, <2>4
<1> QED BY <1>4, <1>10, <1>11, <1>12, <1>13, <1>14, <1>16, <1>17, <1>18 DEF FillInv, QueueInv, RowInv

-----------------------------------------------------------------------------
(* The poller. *)

\* A tick's read leaves everything but the frame read.
LEMMA ReadKeeps ==
    ASSUME FillInv, PollRead
    PROVE  FillInv'
<1>1. TypeOK /\ Heads /\ Slots /\ Honest /\ Alone /\ Reported /\ Fits /\ Living /\ Saving /\ OwnRows
  BY DEF FillInv, QueueInv, RowInv
<1>2. /\ snap' = game.frame
      /\ UNCHANGED <<game, slot, pending, saved, hot, rows, bumped, det, cf, spawns, mode, todo, current,
                     gap, work, lapsed>>
  BY DEF PollRead, emu
<1>3. game.frame \in Frames
  BY <1>1, GameParts DEF TypeOK, GameOK
<1>4. TypeOK'
  BY <1>1, <1>2, <1>3 DEF TypeOK, GameOK, PollOK, WorkOK, RestOK
<1>5. Heads' /\ Slots' /\ Honest' /\ Reported' /\ Fits' /\ Saving' /\ OwnRows'
  BY <1>1, <1>2 DEF Heads, Slots, InSlot, LoadsIn, Honest, Reported, Named, Fits, Saving, OwnRows
<1>6. Alone'
  BY <1>1, <1>2 DEF Alone, Honest
<1>7. Living'
  <2> SUFFICES ASSUME lapsed \subseteq {"failed"}, mode = "cold_fill", work["user"] = Idle, ~LoadsIn("loop")
               PROVE  Living'
    BY <1>2 DEF Living, LoadsIn
  <2>1. /\ current # None => game.at = current
        /\ cf.seg # None => cf.seg = current
        /\ cf.waiting => Was
        /\ \A i \in Named : spawns[i].seg = current /\ game.cold
        /\ work["loop"].k \in {"save", "saved"} => work["loop"].seg = current /\ game.cold
        /\ work["loop"].k = "saved" =>
               /\ current \in DOMAIN saved
               /\ saved[current] = [at |-> current, cold |-> TRUE]
    BY <1>1 DEF Living
  <2>2. /\ ~Calm(game.frame) => game.hurt
        /\ game.hurt => ~Calm(game.frame)
        /\ game.frame.splash => game.cold
    BY <1>1 DEF Honest, Calm
  <2>3. /\ ~Calm(game.frame) => Was
        /\ cf.waiting /\ Calm(game.frame) => game.cold
    BY <2>1, <2>2 DEF Was
  <2>4. Named' = Named
    BY <1>2 DEF Named
  <2> QED BY <1>2, <2>1, <2>2, <2>3, <2>4 DEF Living, Was
<1> QED BY <1>4, <1>5, <1>6, <1>7 DEF FillInv, QueueInv, RowInv

\* After a load the detectors start again from the frame read.
LEMMA ResyncKeeps ==
    ASSUME FillInv, PollResync
    PROVE  FillInv'
<1>1. TypeOK /\ Heads /\ Slots /\ Honest /\ Alone /\ Reported /\ Fits /\ Living /\ Saving /\ OwnRows
  BY DEF FillInv, QueueInv, RowInv
<1>2. /\ snap # None /\ det' = Resync(det, snap) /\ cf' = ResyncCold(cf, snap)
      /\ bumped' = FALSE /\ snap' = None
      /\ UNCHANGED <<game, slot, pending, saved, hot, rows, spawns, mode, todo, current, gap, work,
                     lapsed>>
  BY DEF PollResync, emu
<1>3. snap \in Frames /\ det \in Detectors /\ cf \in Watchers
  BY <1>1, <1>2 DEF TypeOK, PollOK
<1>4. /\ det' \in Detectors /\ det'.prev = snap
      /\ cf' \in Watchers /\ cf'.seg = cf.seg /\ ~cf'.waiting
  BY <1>2, <1>3, DetResyncIs, ResyncIs
<1>5. TypeOK'
  BY <1>1, <1>2, <1>4 DEF TypeOK, GameOK, PollOK, WorkOK, RestOK
<1>6. Heads' /\ Slots' /\ Honest' /\ Saving' /\ OwnRows'
  BY <1>1, <1>2 DEF Heads, Slots, InSlot, LoadsIn, Honest, Saving, OwnRows
<1>7. Alone'
  BY <1>1, <1>2, <1>4 DEF Alone
<1>8. Named' = Named
  BY <1>2 DEF Named
<1>9. Reported' /\ Fits'
  BY <1>1, <1>2, <1>4, <1>8 DEF Reported, Fits
<1>10. Living'
  BY <1>1, <1>2, <1>4, <1>8 DEF Living, Was, LoadsIn
<1> QED BY <1>5, <1>6, <1>7, <1>9, <1>10 DEF FillInv, QueueInv, RowInv

\* A spawn added at the end of the queue.
LEMMA OneMore ==
    ASSUME NEW q \in Seq(Spawns), NEW e \in Spawns
    PROVE  /\ q \o <<e>> \in Seq(Spawns) /\ Len(q \o <<e>>) = Len(q) + 1
           /\ DOMAIN (q \o <<e>>) = DOMAIN q \cup {Len(q) + 1}
           /\ \A i \in DOMAIN q : (q \o <<e>>)[i] = q[i]
           /\ (q \o <<e>>)[Len(q) + 1] = e
<1>1. q \o <<e>> = Append(q, e)
  BY AppendIsConcat
<1>2. /\ Append(q, e) \in Seq(Spawns) /\ Len(Append(q, e)) = Len(q) + 1
      /\ \A i \in 1..Len(q) : Append(q, e)[i] = q[i]
      /\ Append(q, e)[Len(q) + 1] = e
  BY AppendProperties
<1>3. /\ DOMAIN q = 1..Len(q) /\ Len(q) \in Nat
      /\ DOMAIN Append(q, e) = 1..(Len(q) + 1)
  BY <1>2
<1>4. 1..(Len(q) + 1) = 1..Len(q) \cup {Len(q) + 1}
  BY <1>3
<1> QED BY <1>1, <1>2, <1>3, <1>4

\* Which of the spawns in q name a segment.
NamedIn(q) == {i \in DOMAIN q : q[i].seg # None}

LEMMA OneMoreNamed ==
    ASSUME NEW q \in Seq(Spawns), NEW e \in Spawns
    PROVE  /\ q \o <<e>> \in Seq(Spawns)
           /\ e.seg = None => NamedIn(q \o <<e>>) = NamedIn(q)
           /\ e.seg # None => NamedIn(q \o <<e>>) = NamedIn(q) \cup {Len(q) + 1}
           /\ \A i \in NamedIn(q) : (q \o <<e>>)[i] = q[i]
           /\ (q \o <<e>>)[Len(q) + 1] = e
<1> DEFINE r == q \o <<e>>
<1>1. /\ r \in Seq(Spawns) /\ DOMAIN r = DOMAIN q \cup {Len(q) + 1}
      /\ \A i \in DOMAIN q : r[i] = q[i]
      /\ r[Len(q) + 1] = e
  BY OneMore
<1> HIDE DEF r
<1>2. Len(q) + 1 \notin DOMAIN q
  <2>1. DOMAIN q = 1..Len(q) /\ Len(q) \in Nat
    OBVIOUS
  <2> QED BY <2>1
<1>3. /\ e.seg = None => NamedIn(r) = NamedIn(q)
      /\ e.seg # None => NamedIn(r) = NamedIn(q) \cup {Len(q) + 1}
      /\ \A i \in NamedIn(q) : r[i] = q[i]
  BY <1>1, <1>2 DEF NamedIn
<1> QED BY <1>1, <1>3 DEF r

\* A tick reports at most one spawn that names a segment: that of the segment
\* watched, whose respawn has just been seen.
LEMMA TickReports ==
    ASSUME TypeOK, PollStep
    PROVE  /\ spawns' \in Seq(Spawns)
           /\ ~FrameEvents(det, snap).respawns /\ ~ColdSpawns(cf, snap) => spawns' = spawns
           /\ ~ColdSpawns(cf, snap) => /\ Named' = Named
                                       /\ \A i \in Named : spawns'[i] = spawns[i]
           /\ ColdSpawns(cf, snap) =>
                  \E n : /\ Named' = Named \cup {n} /\ spawns'[n].seg = cf.seg
                         /\ \A i \in Named : spawns'[i] = spawns[i]
<1>1. /\ spawns' = spawns \o DetectorEvents \o ColdEvents /\ snap # None
      /\ spawns \in Seq(Spawns) /\ snap \in Frames /\ cf \in Watchers
  BY DEF PollStep, TypeOK, PollOK
<1> DEFINE a == [k |-> "spawn", seg |-> None]
           b == [k |-> "spawn", seg |-> cf.seg]
           q == spawns \o DetectorEvents
<1>2. a \in Spawns /\ b \in Spawns /\ a.seg = None /\ b.seg = cf.seg
  BY <1>1 DEF Spawns, Watchers, Maybe
<1>3. ColdSpawns(cf, snap) => cf.seg # None
  BY DEF ColdSpawns
<1>4. DetectorEvents = IF FrameEvents(det, snap).respawns THEN <<a>> ELSE <<>>
  BY DEF DetectorEvents
<1>5. ColdEvents = IF ColdSpawns(cf, snap) THEN <<b>> ELSE <<>>
  BY DEF ColdEvents
<1> HIDE DEF a, b
<1>6. /\ q \in Seq(Spawns) /\ NamedIn(q) = NamedIn(spawns)
      /\ \A i \in NamedIn(spawns) : q[i] = spawns[i]
      /\ ~FrameEvents(det, snap).respawns => q = spawns
  <2>1. CASE FrameEvents(det, snap).respawns
    <3>1. q = spawns \o <<a>>
      BY <1>4, <2>1
    <3>2. /\ spawns \o <<a>> \in Seq(Spawns) /\ NamedIn(spawns \o <<a>>) = NamedIn(spawns)
          /\ \A i \in NamedIn(spawns) : (spawns \o <<a>>)[i] = spawns[i]
      BY <1>1, <1>2, OneMoreNamed
    <3> HIDE DEF q
    <3> QED BY <2>1, <3>1, <3>2
  <2>2. CASE ~FrameEvents(det, snap).respawns
    <3>1. q = spawns
      BY <1>1, <1>4, <2>2, ConcatEmptySeq
    <3> QED BY <1>1, <3>1
  <2> QED BY <2>1, <2>2
<1>7. spawns' = q \o ColdEvents
  BY <1>1
<1> HIDE DEF q
<1>8. Named = NamedIn(spawns) /\ Named' = NamedIn(spawns')
  BY DEF Named, NamedIn
<1>9. CASE ColdSpawns(cf, snap)
  <2>1. spawns' = q \o <<b>>
    BY <1>5, <1>7, <1>9
  <2>2. /\ q \o <<b>> \in Seq(Spawns)
        /\ NamedIn(q \o <<b>>) = NamedIn(q) \cup {Len(q) + 1}
        /\ \A i \in NamedIn(q) : (q \o <<b>>)[i] = q[i]
        /\ (q \o <<b>>)[Len(q) + 1] = b
    BY <1>2, <1>3, <1>6, <1>9, OneMoreNamed
  <2>3. /\ spawns' \in Seq(Spawns) /\ Named' = Named \cup {Len(q) + 1}
        /\ \A i \in Named : spawns'[i] = spawns[i]
        /\ spawns'[Len(q) + 1].seg = cf.seg
    BY <1>2, <1>6, <1>8, <2>1, <2>2
  <2> QED BY <1>9, <2>3
<1>10. CASE ~ColdSpawns(cf, snap)
  <2>1. spawns' = q
    BY <1>5, <1>6, <1>7, <1>10, ConcatEmptySeq
  <2> QED BY <1>6, <1>8, <1>10, <2>1
<1> QED BY <1>9, <1>10

LEMMA TickKeeps ==
    ASSUME FillInv, PollStep
    PROVE  FillInv'
<1>1. TypeOK /\ Heads /\ Slots /\ Honest /\ Alone /\ Reported /\ Fits /\ Living /\ Saving /\ OwnRows
  BY DEF FillInv, QueueInv, RowInv
<1>2. /\ snap # None /\ det' = Step(det, snap) /\ cf' = StepCold(cf, snap) /\ snap' = None
      /\ UNCHANGED <<game, slot, pending, saved, hot, rows, bumped, mode, todo, current, gap, work,
                     lapsed>>
  BY DEF PollStep, emu
<1>3. snap \in Frames /\ det \in Detectors /\ cf \in Watchers
  BY <1>1, <1>2 DEF TypeOK, PollOK
<1> DEFINE hears == ColdSpawns(cf, snap)
           respawns == FrameEvents(det, snap).respawns
<1>4. /\ det' \in Detectors /\ det'.prev = snap
      /\ respawns => snap.splash /\ (~det.prev.splash \/ det.prev.dead)
  BY <1>2, <1>3, StepIs
<1>5. /\ cf' \in Watchers
      /\ cf.seg = None => cf' = cf
      /\ hears => /\ cf'.seg = None /\ ~cf'.waiting /\ cf.seg # None /\ cf.waiting
                  /\ snap.splash \/ Calm(snap)
      /\ ~hears => cf'.seg = cf.seg
      /\ cf'.waiting => cf.waiting \/ ~Calm(snap)
  BY <1>2, <1>3, StepColdIs
<1>6. /\ spawns' \in Seq(Spawns)
      /\ ~respawns /\ ~hears => spawns' = spawns
      /\ ~hears => Named' = Named /\ \A i \in Named : spawns'[i] = spawns[i]
      /\ hears => \E n : /\ Named' = Named \cup {n} /\ spawns'[n].seg = cf.seg
                         /\ \A i \in Named : spawns'[i] = spawns[i]
  BY <1>1, TickReports
<1> HIDE DEF hears, respawns
<1>7. TypeOK'
  BY <1>1, <1>2, <1>4, <1>5, <1>6 DEF TypeOK, GameOK, PollOK, WorkOK, RestOK
<1>8. Heads' /\ Slots' /\ Honest' /\ Saving' /\ OwnRows'
  BY <1>1, <1>2 DEF Heads, Slots, InSlot, LoadsIn, Honest, Saving, OwnRows
<1>9. Alone'
  <2> SUFFICES ASSUME work["user"] # Idle PROVE Alone'
    BY <1>2 DEF Alone
  <2>1. /\ work["loop"] = Idle /\ spawns = <<>> /\ ~game.hurt /\ ~det.prev.dead
        /\ game.frame.splash => snap.splash
        /\ game.frame.exiting => ~game.frame.splash
        /\ work["user"].k \in {"stage", "fire"} \/ pending => ~game.frame.exiting
        /\ ~snap.dead /\ (snap.splash => det.prev.splash)
        /\ snap.exiting => game.frame.exiting /\ ~snap.splash
        /\ cf.waiting => snap.exiting
    BY <1>1, <1>2 DEF Alone
  <2>2. ~respawns
    BY <1>4, <2>1
  <2>3. ~hears
    BY <1>5, <2>1 DEF Calm
  <2>4. cf'.waiting => snap.exiting
    BY <1>5, <2>1 DEF Calm
  <2> QED BY <1>2, <1>4, <1>6, <2>1, <2>2, <2>3, <2>4 DEF Alone
<1>10. hears => Named = {} /\ work["loop"] = Idle
  BY <1>1, <1>5 DEF Reported
<1>11. Reported'
  <2>1. CASE hears
    BY <1>2, <1>5, <1>6, <1>10, <2>1 DEF Reported
  <2>2. CASE ~hears
    BY <1>1, <1>2, <1>5, <1>6, <2>2 DEF Reported
  <2> QED BY <2>1, <2>2
<1>12. Fits'
  <2>1. CASE hears
    BY <1>1, <1>2, <1>5, <1>6, <1>10, <2>1 DEF Fits
  <2>2. CASE ~hears
    BY <1>1, <1>2, <1>5, <1>6, <2>2 DEF Fits
  <2> QED BY <2>1, <2>2
<1>13. Living'
  <2> SUFFICES ASSUME lapsed \subseteq {"failed"}, mode = "cold_fill", work["user"] = Idle, ~LoadsIn("loop")
               PROVE  Living'
    BY <1>2 DEF Living, LoadsIn
  <2>1. /\ current # None => game.at = current
        /\ cf.seg # None => cf.seg = current
        /\ cf.waiting => Was
        /\ \A i \in Named : spawns[i].seg = current /\ game.cold
        /\ ~Calm(snap) => Was
        /\ snap.splash => game.cold
        /\ cf.waiting /\ Calm(snap) => game.cold
        /\ work["loop"].k \in {"save", "saved"} => work["loop"].seg = current /\ game.cold
        /\ work["loop"].k = "saved" =>
               /\ current \in DOMAIN saved
               /\ saved[current] = [at |-> current, cold |-> TRUE]
    BY <1>1, <1>2 DEF Living
  <2>2. \A i \in Named' : spawns'[i].seg = current /\ game.cold
    <3>1. CASE hears
      BY <1>5, <1>6, <1>10, <2>1, <3>1
    <3>2. CASE ~hears
      BY <1>6, <2>1, <3>2
    <3> QED BY <3>1, <3>2
  <2>3. cf'.seg # None => cf'.seg = current
    BY <1>5, <2>1
  <2>4. cf'.waiting => Was
    BY <1>5, <2>1
  <2> QED BY <1>2, <2>1, <2>2, <2>3, <2>4 DEF Living, Was
<1> QED BY <1>7, <1>8, <1>9, <1>11, <1>12, <1>13 DEF FillInv, QueueInv, RowInv

-----------------------------------------------------------------------------
(* The theorems. *)

LEMMA FirstStepIs == ASSUME NEW c \in Frames PROVE Step(NewDetector, c) \in Detectors
<1>1. Step(NewDetector, c) = [NewDetector EXCEPT !.prev = c]
  BY DEF Step, NewDetector
<1>2. Step(NewDetector, c) = [prev |-> c, died |-> FALSE, ord |-> 0, firstRoom |-> 0,
                              cpAcquired |-> FALSE, finished |-> FALSE, replayPending |-> FALSE,
                              force |-> FALSE]
  BY <1>1 DEF NewDetector
<1> QED BY <1>2 DEF Detectors

LEMMA FillInit == ASSUME Init PROVE FillInv
<1>1. /\ game = Title /\ slot = None /\ pending = FALSE /\ hot \in Present
      /\ saved = [s \in {} |-> Shows(Title)] /\ rows = {} /\ bumped = FALSE /\ snap = None
      /\ det = Step(NewDetector, Alive) /\ cf = IdleCold /\ spawns = <<>> /\ mode = "idle"
      /\ todo = {} /\ current = None /\ gap = None /\ work = [t \in Tasks |-> Idle]
      /\ lapsed = {}
  BY DEF Init, Tasks
<1>2. det \in Detectors
  BY <1>1, AliveIs, FirstStepIs
<1>3. hot \subseteq Segs
  BY <1>1, ColdFillAssumption
<1>4. /\ work \in [Tasks -> Jobs] /\ \A t \in Tasks : work[t] = Idle /\ ~LoadsIn(t)
      /\ work["loop"] = Idle /\ work["user"] = Idle
  BY <1>1, IdleIs DEF LoadsIn, LoadKinds, Tasks
<1>5. Named = {}
  BY <1>1 DEF Named
<1>6. TypeOK
  <2>1. GameOK
    BY <1>1, <1>3, TitleIs DEF GameOK, Maybe
  <2>2. cf \in Watchers
    BY <1>1 DEF IdleCold, Watchers, Maybe
  <2>3. PollOK
    BY <1>1, <1>2, <2>2, EmptySeq DEF PollOK
  <2>4. WorkOK
    BY <1>4, IdleIs DEF WorkOK, LoadKinds, Tasks
  <2>5. RestOK
    BY <1>1 DEF RestOK, Maybe
  <2> QED BY <2>1, <2>3, <2>4, <2>5 DEF TypeOK
<1>7. Heads
  BY <1>1, <1>4, IdleIs DEF Heads, Maybe
<1>8. Slots /\ Alone /\ Saving
  BY <1>1, <1>4 DEF Slots, Alone, Saving
<1>9. Honest
  BY <1>1, TitleIs, AliveIs DEF Honest, Calm
<1>10. Reported
  BY <1>1, <1>4, <1>5 DEF Reported, IdleCold
<1>11. Fits /\ Living /\ OwnRows
  BY <1>1 DEF Fits, Living, OwnRows
<1> QED BY <1>6, <1>7, <1>8, <1>9, <1>10, <1>11 DEF FillInv, QueueInv, RowInv

LEMMA FillStep == ASSUME Patient = TRUE, FillInv, [Next]_vars PROVE FillInv'
<1>1. CASE Die \/ Fall \/ Respawn \/ SplashEnds \/ ExitEnds
  BY <1>1, PlayerKeeps
<1>2. CASE RetroArchLoads
  BY <1>2, EmulatorKeeps
<1>3. ASSUME NEW t \in Tasks, Load(t) \/ LoadRejected(t) PROVE FillInv'
  <2>1. CASE LoadStage(t)
    <3>1. CASE work[t].seg \in hot
      BY <2>1, <3>1, StageKeeps
    <3>2. CASE work[t].seg \notin hot
      BY <2>1, <3>2, RaiseKeeps DEF LoadStage
    <3> QED BY <3>1, <3>2
  <2>2. CASE LoadFire(t)
    BY <2>2, FireKeeps
  <2>3. CASE LoadBump(t)
    BY <2>3, BumpKeeps
  <2>4. CASE LoadUnlink(t)
    BY <2>4, UnlinkKeeps
  <2>5. CASE LoadReturns(t)
    BY <2>5, ReturnKeeps
  <2>6. CASE LoadRejected(t)
    BY <2>6, RaiseKeeps DEF LoadRejected
  <2> QED BY <1>3, <2>1, <2>2, <2>3, <2>4, <2>5, <2>6 DEF Load
<1>4. CASE StartColdFill
  BY <1>4, StartKeeps
<1>5. CASE SkipColdFill
  BY <1>5, SkipKeeps
<1>6. CASE AbortColdFill
  BY <1>6, AbortKeeps
<1>7. CASE StartFillGap
  BY <1>7, FillGapKeeps
<1>8. CASE Loop
  BY <1>8, IgnoredKeeps, SavesKeeps, GapFilledKeeps, CompletesKeeps, CapturedKeeps DEF Loop
<1>9. CASE SaveGivesUp
  BY <1>9, GivesUpKeeps
<1>10. CASE Poll
  BY <1>10, ReadKeeps, ResyncKeeps, TickKeeps DEF Poll
<1>11. CASE UNCHANGED vars
  <2>1. UNCHANGED <<game, slot, pending, hot, saved, rows, bumped, snap, det, cf, spawns, mode, todo,
                    current, gap, work, lapsed>>
    BY <1>11 DEF vars
  <2>2. TypeOK' /\ Heads' /\ Slots' /\ Honest' /\ Alone'
    BY <2>1 DEF FillInv, QueueInv, TypeOK, GameOK, PollOK, WorkOK, RestOK, Heads, Slots, InSlot, LoadsIn,
                Honest, Alone
  <2>3. Reported' /\ Fits' /\ Living' /\ Saving' /\ OwnRows'
    BY <2>1 DEF FillInv, QueueInv, RowInv, Reported, Named, Fits, Living, Was, LoadsIn, Saving, OwnRows
  <2> QED BY <2>2, <2>3 DEF FillInv, QueueInv, RowInv
<1> QED BY <1>1, <1>2, <1>3, <1>4, <1>5, <1>6, <1>7, <1>8, <1>9, <1>10, <1>11 DEF Next, Tasks

LEMMA FillAlways == ASSUME Patient = TRUE PROVE Spec => []FillInv
<1>1. Init => FillInv
  BY FillInit
<1>2. FillInv /\ [Next]_vars => FillInv'
  BY FillStep
<1> QED BY <1>1, <1>2, PTL DEF Spec

\* Every variable keeps to its values: a load in flight has a segment, what the
\* detector watches and what the poller has read are such as the code produces.
THEOREM TypeCorrect == ASSUME Patient = TRUE PROVE Spec => []TypeOK
<1>1. FillInv => TypeOK
  BY DEF FillInv, QueueInv
<1> QED BY <1>1, FillAlways, PTL

\* The loads of requests and of the event loop never overlap, and a file is in the
\* reserved slot only while its load is in flight (_load_state_sync unlinks it).
THEOREM OneLoadAtATime == ASSUME Patient = TRUE PROVE Spec => [](Slots /\ Alone)
<1>1. FillInv => Slots /\ Alone
  BY DEF FillInv, QueueInv
<1> QED BY <1>1, FillAlways, PTL

\* While a cold fill waits for the player, ColdFillSpawnDetector watches the
\* segment the player was given, and that is the head of the queue.
THEOREM DetectorKeepsWatching == ASSUME Patient = TRUE PROVE Spec => []StillWatched
<1>1. ASSUME FillInv PROVE StillWatched
  <2>1. current # None => todo # {} /\ current = First(todo)
    BY <1>1 DEF FillInv, QueueInv, Heads
  <2>2. ASSUME mode = "cold_fill", Quiet, "failed" \notin lapsed
        PROVE  cf.seg = current /\ (current = None => Segs \ hot # {})
    <3>1. work["loop"] = Idle /\ work["user"] = Idle /\ spawns = <<>>
      BY <2>2 DEF Quiet
    <3>2. Named = {}
      BY <3>1 DEF Named
    <3> QED BY <1>1, <2>2, <3>1, <3>2 DEF FillInv, QueueInv, Fits
  <2> QED BY <2>1, <2>2 DEF StillWatched
<1> QED BY <1>1, FillAlways, PTL

\* The cold state handle_spawn records for a waypoint is a state of that waypoint,
\* saved after the player died there.
THEOREM CapturesAreCold == ASSUME Patient = TRUE PROVE Spec => []CapturedCold
<1>1. FillInv => CapturedCold
  BY DEF FillInv, RowInv, OwnRows, CapturedCold
<1> QED BY <1>1, FillAlways, PTL
=============================================================================
