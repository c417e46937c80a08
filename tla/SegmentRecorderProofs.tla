------------------------- MODULE SegmentRecorderProofs -------------------------
(***************************************************************************)
(* Theorems about recording: for any condition values and meanings, and    *)
(* any number of recordings, entrances, checkpoints and upsets.            *)
(*                                                                         *)
(* What joins the segments up is that the waypoint a segment is armed at   *)
(* was the end of the one closed before it.  That holds because the game   *)
(* shows a checkpoint or an exit only inside a level, so the level the     *)
(* closing event names is the level the segment was armed with.            *)
(* What makes episodes whole is that an armed recorder has an episode id   *)
(* no row has yet, and buffers only what came after its start.             *)
(***************************************************************************)
EXTENDS SegmentRecorder, FiniteSetTheorems, SequenceTheorems, FunctionTheorems, TLAPS

\* Inside a level a frame has the level's number: it is stale only while the
\* level loads.
InsideLevel(f) == \/ f.room # 0 /\ ~f.splash
                  \/ f.dead \/ f.exiting \/ f.fanfare \/ f.midway
Snapshots == Snapshot({0, 1}, {0, 1, 2})
Numbered(f) == f.io = "none" /\ (InsideLevel(f) => f.level = 1)
Frames == {f \in Snapshots : Numbered(f)}

Detectors == [prev : Frames \cup {None}, died : BOOLEAN, ord : Nat, firstRoom : {0, 1, 2},
              cpAcquired : BOOLEAN, finished : BOOLEAN, replayPending : BOOLEAN,
              force : BOOLEAN]

Goals   == {"abort", "normal", "boss", "orb", "key"}
DetectorEvents ==
    [k : {"death"}, level : {0, 1}] \cup [k : {"checkpoint"}, level : {1}, ord : Nat]
    \cup [k : {"exit"}, level : {1}, goal : Goals]
    \cup [k : {"spawn"}, level : {0, 1}, cold : BOOLEAN, ord : Nat, seg : {None}]
    \cup [k : {"entrance"}, level : {0, 1}, room : {0, 1, 2}]
Queued  == [ev : DetectorEvents, cond : Conds, at : Nat]

Paths   == ({"entrance"} \X {0, 1} \X ({0, 1, 2})) \cup ({"cp"} \X {0, 1} \X Nat)
Starts  == [type : {"entrance"}, ord : Nat, level : {0, 1}, path : Paths \cup {None},
            cond : Conds, at : Nat]
           \cup [type : {"checkpoint"}, ord : Nat, level : {1}, path : Paths \cup {None},
                 cond : Conds, at : Nat]
Tags    == [at : Nat, hot : BOOLEAN]
Sources == {"reference", "replay"}
Recorders == [run : Nat, src : Sources, start : Starts \cup {None}, ep : Nat,
              pend : Seq(Tags), first : BOOLEAN, hot : BOOLEAN]
Segments == [active : BOOLEAN, primary : BOOLEAN, owner : Nat, ordinal : Nat]

GameOK == /\ game \in [frame : Frames, cond : Conds]
          /\ upsets \in Nat /\ loaded \in BOOLEAN /\ det \in Detectors
PollOK == marks \in Nat /\ queue \in Seq(Queued)
RecOK  == rec \in Recorders /\ eps \in Nat /\ runs \in Nat
TableOK == /\ IsFiniteSet(DOMAIN segs)
           /\ segs \in [DOMAIN segs -> Segments]
           /\ states \in [DOMAIN states -> Paths] /\ files \in [DOMAIN files -> Conds]

TypeOK == GameOK /\ PollOK /\ RecOK /\ TableOK

-----------------------------------------------------------------------------
(* The game and the detector. *)

LEMMA BootFrame == Boot \in Frames
BY DEF Boot, Frames, Snapshots, Numbered, Snapshot, InsideLevel

\* The frames the game can go to from a frame: entering a level and the end of
\* its splash, ...
LEMMA EntryFrames ==
    ASSUME NEW f \in Frames
    PROVE  /\ [f EXCEPT !.splash = TRUE, !.room = 1] \in Frames
           /\ [f EXCEPT !.splash = FALSE, !.level = 1, !.cpe = 1] \in Frames
<1>0. f \in Snapshots /\ Numbered(f)
  BY DEF Frames
<1>1. [f EXCEPT !.splash = TRUE, !.room = 1] \in Frames
  <2>1. PICK g \in Snapshots : g = [f EXCEPT !.splash = TRUE]
    BY <1>0 DEF Snapshots, Snapshot
  <2>2. PICK h \in Snapshots : h = [g EXCEPT !.room = 1]
    BY DEF Snapshots, Snapshot
  <2>3. /\ h.splash /\ h.io = f.io /\ h.level = f.level /\ h.dead = f.dead
        /\ h.exiting = f.exiting /\ h.fanfare = f.fanfare /\ h.midway = f.midway
    BY <1>0, <2>1, <2>2 DEF Snapshots, Snapshot
  <2>4. Numbered(h)
    BY <1>0, <2>3 DEF Numbered, InsideLevel
  <2> QED BY <2>1, <2>2, <2>4 DEF Frames
<1>2. [f EXCEPT !.splash = FALSE, !.level = 1, !.cpe = 1] \in Frames
  <2>1. PICK g \in Snapshots : g = [f EXCEPT !.splash = FALSE]
    BY <1>0 DEF Snapshots, Snapshot
  <2>2. PICK h \in Snapshots : h = [g EXCEPT !.level = 1]
    BY DEF Snapshots, Snapshot
  <2>3. PICK i \in Snapshots : i = [h EXCEPT !.cpe = 1]
    BY DEF Snapshots, Snapshot
  <2>4. i.level = 1 /\ i.io = f.io
    BY <1>0, <2>1, <2>2, <2>3 DEF Snapshots, Snapshot
  <2>5. Numbered(i)
    BY <1>0, <2>4 DEF Numbered, InsideLevel
  <2> QED BY <2>1, <2>2, <2>3, <2>5 DEF Frames
<1> QED BY <1>1, <1>2

\* ... what happens inside a level, ...
LEMMA LevelFrames ==
    ASSUME NEW f \in Frames, f.room # 0, ~f.splash
    PROVE  /\ [f EXCEPT !.dead = TRUE] \in Frames /\ [f EXCEPT !.exiting = TRUE] \in Frames
           /\ [f EXCEPT !.midway = TRUE] \in Frames /\ [f EXCEPT !.cpe = 2] \in Frames
           /\ [f EXCEPT !.fanfare = TRUE] \in Frames
<1>0. f \in Snapshots /\ f.io = "none" /\ f.level = 1
  BY DEF Frames, Numbered, InsideLevel
<1>1. ASSUME NEW g \in Snapshots, g.io = f.io, g.level = f.level PROVE g \in Frames
  BY <1>0, <1>1 DEF Frames, Numbered
<1>2. [f EXCEPT !.dead = TRUE] \in Frames /\ [f EXCEPT !.exiting = TRUE] \in Frames
  BY <1>0, <1>1 DEF Snapshots, Snapshot
<1>3. [f EXCEPT !.midway = TRUE] \in Frames /\ [f EXCEPT !.fanfare = TRUE] \in Frames
  BY <1>0, <1>1 DEF Snapshots, Snapshot
<1>4. [f EXCEPT !.cpe = 2] \in Frames
  BY <1>0, <1>1 DEF Snapshots, Snapshot
<1> QED BY <1>2, <1>3, <1>4

\* ... a respawn, the overworld, and a state that is loaded.
LEMMA LeavingFrames ==
    ASSUME NEW f \in Frames, NEW b \in BOOLEAN
    PROVE  /\ f.dead \/ f.exiting
              => [f EXCEPT !.dead = FALSE, !.exiting = FALSE, !.splash = b] \in Frames
           /\ [Boot EXCEPT !.level = 1, !.cpe = f.cpe] \in Frames
           /\ InLevel \in Frames /\ [InLevel EXCEPT !.midway = b] \in Frames
<1>0. f \in Snapshots /\ Numbered(f) /\ Boot \in Snapshots /\ Boot.io = "none"
  BY BootFrame DEF Frames, Boot
<1>1. ASSUME NEW g \in Snapshots, g.io = "none", g.level = 1 PROVE g \in Frames
  BY <1>1 DEF Frames, Numbered
<1>2. f.dead \/ f.exiting => [f EXCEPT !.dead = FALSE, !.exiting = FALSE, !.splash = b] \in Frames
  <2> SUFFICES ASSUME f.dead \/ f.exiting
               PROVE  [f EXCEPT !.dead = FALSE, !.exiting = FALSE, !.splash = b] \in Frames
    OBVIOUS
  <2>1. f.io = "none" /\ f.level = 1
    BY <1>0 DEF Numbered, InsideLevel
  <2>2. PICK g \in Snapshots : g = [f EXCEPT !.dead = FALSE]
    BY <1>0 DEF Snapshots, Snapshot
  <2>3. PICK h \in Snapshots : h = [g EXCEPT !.exiting = FALSE]
    BY DEF Snapshots, Snapshot
  <2>4. PICK i \in Snapshots : i = [h EXCEPT !.splash = b]
    BY DEF Snapshots, Snapshot
  <2>5. i.io = "none" /\ i.level = 1
    BY <1>0, <2>1, <2>2, <2>3, <2>4 DEF Snapshots, Snapshot
  <2> QED BY <1>1, <2>2, <2>3, <2>4, <2>5
<1>3. [Boot EXCEPT !.level = 1, !.cpe = f.cpe] \in Frames
  <2>1. PICK g \in Snapshots : g = [Boot EXCEPT !.level = 1]
    BY <1>0 DEF Snapshots, Snapshot
  <2>2. f.cpe \in {0, 1, 2}
    BY <1>0 DEF Snapshots, Snapshot
  <2>3. PICK h \in Snapshots : h = [g EXCEPT !.cpe = f.cpe]
    BY <2>2 DEF Snapshots, Snapshot
  <2>4. h.io = "none" /\ h.level = 1
    BY <1>0, <2>1, <2>3 DEF Snapshots, Snapshot
  <2> QED BY <1>1, <2>1, <2>3, <2>4
<1>4. InLevel \in Snapshots /\ InLevel.io = "none" /\ InLevel.level = 1
  <2>1. PICK g \in Snapshots : g = [Boot EXCEPT !.level = 1]
    BY <1>0 DEF Snapshots, Snapshot
  <2>2. PICK h \in Snapshots : h = [g EXCEPT !.room = 1]
    BY DEF Snapshots, Snapshot
  <2>3. PICK i \in Snapshots : i = [h EXCEPT !.cpe = 1]
    BY DEF Snapshots, Snapshot
  <2>4. i.io = "none" /\ i.level = 1
    BY <1>0, <2>1, <2>2, <2>3 DEF Snapshots, Snapshot
  <2> QED BY <2>1, <2>2, <2>3, <2>4 DEF InLevel
<1>5. [InLevel EXCEPT !.midway = b] \in Frames
  <2>1. PICK g \in Snapshots : g = [InLevel EXCEPT !.midway = b]
    BY <1>4 DEF Snapshots, Snapshot
  <2>2. g.io = "none" /\ g.level = 1
    BY <1>4, <2>1 DEF Snapshots, Snapshot
  <2> QED BY <1>1, <2>1, <2>2
<1> QED BY <1>1, <1>2, <1>3, <1>4, <1>5

LEMMA ShowsFrame ==
    ASSUME NEW f \in Frames, NEW c \in Conds, Shows(f, c), GameOK
    PROVE  /\ game' \in [frame : Frames, cond : Conds]
           /\ UNCHANGED <<det, marks, queue, rec, eps, runs, segs, states, files, rows>>
           /\ loaded' \in BOOLEAN
<1>1. game' \in [frame : Frames, cond : Conds]
  BY DEF Shows, GameOK
<1>2. UNCHANGED <<det, loaded, marks, queue, rec, eps, runs, segs, states, files, rows>>
  BY DEF Shows, db
<1>3. loaded' \in BOOLEAN
  BY <1>2 DEF GameOK
<1> QED BY <1>1, <1>2, <1>3

LEMMA GameFrames ==
    ASSUME GameOK, GameStep
    PROVE  /\ game' \in [frame : Frames, cond : Conds]
           /\ UNCHANGED <<det, marks, queue, rec, eps, runs, segs, states, files, rows>>
           /\ upsets' \in Nat /\ loaded' \in BOOLEAN
<1>0. game.frame \in Frames /\ game.cond \in Conds /\ upsets \in Nat /\ loaded \in BOOLEAN
  BY DEF GameOK
<1>1. \A f \in Frames, c \in Conds : Shows(f, c) =>
          /\ game' \in [frame : Frames, cond : Conds]
          /\ UNCHANGED <<det, marks, queue, rec, eps, runs, segs, states, files, rows>>
          /\ loaded' \in BOOLEAN
  BY ShowsFrame
<1>2. ASSUME NEW f, NEW c, Play(f, c)
      PROVE  game.frame.room # 0 /\ ~game.frame.splash /\ Shows(f, c)
  BY <1>2 DEF Play, Alive
<1>3. ASSUME EnterLevel \/ SplashEnds \/ CrossMidway \/ CrossRoom \/ PowerUp \/ ReachGoal
             \/ Die \/ Fall \/ Leave \/ Overworld
      PROVE  \E f \in Frames, c \in Conds : Shows(f, c) /\ upsets' \in Nat
  <2>1. CASE EnterLevel \/ SplashEnds
    BY <1>0, <2>1, EntryFrames DEF EnterLevel, SplashEnds
  <2>2. CASE CrossMidway \/ CrossRoom \/ ReachGoal
    BY <1>0, <1>2, <2>2, LevelFrames DEF CrossMidway, CrossRoom, ReachGoal
  <2>3. CASE PowerUp
    BY <1>0, <1>2, <2>3 DEF PowerUp
  <2>4. CASE Die
    <3>1. PICK c \in Conds : Play([game.frame EXCEPT !.dead = TRUE], c)
      BY <2>4 DEF Die
    <3>2. [game.frame EXCEPT !.dead = TRUE] \in Frames
      BY <1>0, <1>2, <3>1, LevelFrames
    <3> QED BY <1>0, <1>2, <2>4, <3>1, <3>2 DEF Die, Upset
  <2>5. CASE Fall
    <3>1. [game.frame EXCEPT !.exiting = TRUE] \in Frames
      BY <1>0, <1>2, <2>5, LevelFrames DEF Fall
    <3> QED BY <1>0, <1>2, <2>5, <3>1 DEF Fall, Upset
  <2>6. CASE Leave
    BY <1>0, <2>6, LevelFrames DEF Leave
  <2>7. CASE Overworld
    BY <1>0, <2>7, LeavingFrames DEF Overworld
  <2> QED BY <1>3, <2>1, <2>2, <2>3, <2>4, <2>5, <2>6, <2>7
<1>4. CASE Respawn
  <2>1. PICK b \in BOOLEAN :
            Shows([game.frame EXCEPT !.dead = FALSE, !.exiting = FALSE, !.splash = b], game.cond)
    BY <1>4 DEF Respawn
  <2>2. [game.frame EXCEPT !.dead = FALSE, !.exiting = FALSE, !.splash = b] \in Frames
    BY <1>0, <1>4, LeavingFrames DEF Respawn
  <2>3. upsets' \in Nat
    BY <1>0, <1>4 DEF Respawn
  <2> QED BY <1>0, <1>1, <2>1, <2>2, <2>3
<1>5. CASE LoadState
  <2>1. PICK b \in BOOLEAN, c \in Conds : game' = [frame |-> [InLevel EXCEPT !.midway = b], cond |-> c]
    BY <1>5 DEF LoadState
  <2>2. game' \in [frame : Frames, cond : Conds]
    BY <1>0, <2>1, LeavingFrames
  <2> QED BY <1>0, <1>5, <2>2 DEF LoadState, Upset, db
<1> QED BY <1>1, <1>3, <1>4, <1>5 DEF GameStep

\* What the detector reads out of a frame: a checkpoint or an exit only inside a
\* level.
LEMMA FrameEventsType ==
    ASSUME NEW d \in Detectors, NEW c \in Frames, d.prev \in Frames
    PROVE  LET f == FrameEvents(d, c) IN
           /\ f.ord \in Nat /\ f.room \in {0, 1, 2} /\ f.goal \in Goals /\ f.cold \in BOOLEAN
           /\ f.cp \/ f.exit => c.level = 1
<1> DEFINE f == FrameEvents(d, c)
           p == d.prev
<1>0. /\ c \in Snapshots /\ c.io = "none" /\ c.level \in {0, 1} /\ c.room \in {0, 1, 2}
      /\ (c.exiting \/ c.fanfare \/ c.midway => c.level = 1)
      /\ p.io = "none"
  BY DEF Frames, Numbered, InsideLevel, Snapshots, Snapshot
<1>1. f.ord \in Nat
  BY DEF FrameEvents, Detectors
<1>2. f.room \in {0, 1, 2}
  BY <1>0 DEF FrameEvents, Detectors
<1>3. f.goal \in Goals
  <2>1. Finish(p, c) \in Goals \cup {"none"} /\ GoalType(c) \in Goals
    BY DEF Finish, GoalType, Goals
  <2> QED BY <2>1 DEF FrameEvents
<1>4. f.cold \in BOOLEAN
  BY DEF FrameEvents
<1>5. f.cp => c.level = 1
  <2>1. ASSUME NEW room, CheckpointHit(p, c, room) PROVE c.level = 1
    BY <1>0, <2>1 DEF CheckpointHit
  <2> QED BY <2>1 DEF FrameEvents
<1>6. f.exit => c.level = 1
  <2>1. Finish(p, c) # "none" => c.fanfare
    BY <1>0 DEF Finish
  <2>2. ExitFrame(p, c) => c.exiting
    BY DEF ExitFrame
  <2> QED BY <1>0, <2>1, <2>2 DEF FrameEvents
<1> QED BY <1>1, <1>2, <1>3, <1>4, <1>5, <1>6

LEMMA EmitsType ==
    ASSUME NEW c \in Frames, NEW f,
           f.ord \in Nat, f.goal \in Goals, f.cold \in BOOLEAN, f.cp \/ f.exit => c.level = 1
    PROVE  Emits(f, c) \in Seq(DetectorEvents)
<1>0. c.level \in {0, 1} /\ c.room \in {0, 1, 2}
  BY DEF Frames, Snapshots, Snapshot
<1> DEFINE death == IF f.death THEN <<[k |-> "death", level |-> c.level]>> ELSE <<>>
           cp    == IF f.cp THEN <<[k |-> "checkpoint", level |-> c.level, ord |-> f.ord]>>
                            ELSE <<>>
           exit  == IF f.exit THEN <<[k |-> "exit", level |-> c.level, goal |-> f.goal]>>
                              ELSE <<>>
           spawn == [k |-> "spawn", level |-> c.level, cold |-> f.cold,
                     ord |-> f.ord, seg |-> None]
           enter == [k |-> "entrance", level |-> c.level, room |-> c.room]
           last  == IF f.respawns THEN <<spawn>> ELSE IF f.enters THEN <<enter>> ELSE <<>>
<1>1. death \in Seq(DetectorEvents)
  <2>1. [k |-> "death", level |-> c.level] \in DetectorEvents
    BY <1>0 DEF DetectorEvents
  <2> QED BY <2>1
<1>2. cp \in Seq(DetectorEvents)
  <2>1. f.cp => [k |-> "checkpoint", level |-> c.level, ord |-> f.ord] \in DetectorEvents
    BY <1>0 DEF DetectorEvents
  <2> QED BY <2>1
<1>3. exit \in Seq(DetectorEvents)
  <2>1. f.exit => [k |-> "exit", level |-> c.level, goal |-> f.goal] \in DetectorEvents
    BY <1>0 DEF DetectorEvents
  <2> QED BY <2>1
<1>4. last \in Seq(DetectorEvents)
  <2>1. spawn \in DetectorEvents /\ enter \in DetectorEvents
    BY <1>0 DEF DetectorEvents
  <2> HIDE DEF spawn, enter
  <2> QED BY <2>1
<1>5. Emits(f, c) = death \o cp \o exit \o last
  BY DEF Emits
<1> HIDE DEF death, cp, exit, last
<1>6. death \o cp \o exit \o last \in Seq(DetectorEvents)
  BY <1>1, <1>2, <1>3, <1>4, ConcatProperties
<1> QED BY <1>5, <1>6

LEMMA StepEventsType ==
    ASSUME NEW d \in Detectors, NEW c \in Frames PROVE StepEvents(d, c) \in Seq(DetectorEvents)
<1>1. CASE d.prev = None
  BY <1>1 DEF StepEvents
<1>2. CASE d.prev # None
  <2>1. d.prev \in Frames
    BY <1>2 DEF Detectors
  <2> QED BY <1>2, <2>1, FrameEventsType, EmitsType DEF StepEvents
<1> QED BY <1>1, <1>2

LEMMA StepType ==
    ASSUME NEW d \in Detectors, NEW c \in Frames PROVE Step(d, c) \in Detectors
<1>1. CASE d.prev = None
  BY <1>1 DEF Step, Detectors
<1>2. CASE d.prev # None
  <2> DEFINE f == FrameEvents(d, c)
             fresh == f.enters /\ ~f.respawns
             died == (d.died \/ f.death) /\ ~f.enters
             acquired == f.cold /\ ~f.enters
             finished == (d.finished \/ f.finish # "none") /\ ~fresh
             o == IF fresh THEN 0 ELSE f.ord
             r == IF f.cp THEN 0 ELSE f.room
  <2>1. d.prev \in Frames
    BY <1>2 DEF Detectors
  <2>2. f.ord \in Nat /\ f.room \in {0, 1, 2}
    BY <2>1, FrameEventsType
  <2> HIDE DEF f
  <2>3. o \in Nat /\ r \in {0, 1, 2}
    BY <2>2
  <2>4. died \in BOOLEAN /\ acquired \in BOOLEAN /\ finished \in BOOLEAN
    OBVIOUS
  <2>5. Step(d, c) = [d EXCEPT !.prev = c, !.died = died, !.ord = o, !.firstRoom = r,
                               !.cpAcquired = acquired, !.finished = finished, !.force = FALSE]
    BY <1>2 DEF Step, f
  <2> HIDE DEF died, acquired, finished, fresh, o, r
  <2> USE DEF Detectors
  <2>6. PICK d1 \in Detectors : d1 = [d EXCEPT !.prev = c]
    OBVIOUS
  <2>7. PICK d2 \in Detectors : d2 = [d1 EXCEPT !.died = died]
    BY <2>4
  <2>8. PICK d3 \in Detectors : d3 = [d2 EXCEPT !.ord = o]
    BY <2>3
  <2>9. PICK d4 \in Detectors : d4 = [d3 EXCEPT !.firstRoom = r]
    BY <2>3
  <2>10. PICK d5 \in Detectors : d5 = [d4 EXCEPT !.cpAcquired = acquired]
    BY <2>4
  <2>11. PICK d6 \in Detectors : d6 = [d5 EXCEPT !.finished = finished]
    BY <2>4
  <2>12. [d6 EXCEPT !.force = FALSE] \in Detectors
    OBVIOUS
  <2> QED BY <2>5, <2>6, <2>7, <2>8, <2>9, <2>10, <2>11, <2>12
<1> QED BY <1>1, <1>2

LEMMA ResyncType ==
    ASSUME NEW d \in Detectors, NEW c \in Frames PROVE Resync(d, c) \in Detectors
<1>1. PICK d1 \in Detectors : d1 = [NewDetector EXCEPT !.prev = c]
  BY DEF NewDetector, Detectors
<1>2. (d.force \/ d.replayPending) \in BOOLEAN
  OBVIOUS
<1>3. [d1 EXCEPT !.force = d.force \/ d.replayPending] \in Detectors
  BY <1>2 DEF Detectors
<1> QED BY <1>1, <1>3 DEF Resync

LEMMA StampedType ==
    ASSUME NEW evs \in Seq(DetectorEvents), GameOK, marks \in Nat
    PROVE  /\ Stamped(evs) \in Seq(Queued)
           /\ marks + Cardinality({i \in DOMAIN evs : IsMark(evs[i])}) \in Nat
<1> DEFINE M(i) == {j \in 1 .. i : IsMark(evs[j])}
<1>1. \A i \in Nat : Cardinality(M(i)) \in Nat
  <2> TAKE i \in Nat
  <2>1. IsFiniteSet(1 .. i)
    BY FS_Interval
  <2>2. IsFiniteSet(M(i))
    BY <2>1, FS_Subset
  <2> QED BY <2>2, FS_CardinalityType
<1>2. DOMAIN evs = 1 .. Len(evs) /\ Len(evs) \in Nat
  OBVIOUS
<1>3. {i \in DOMAIN evs : IsMark(evs[i])} = M(Len(evs))
  BY <1>2
<1>4. Stamped(evs) = [i \in DOMAIN evs |->
                         [ev |-> evs[i], cond |-> game.cond, at |-> marks + Cardinality(M(i))]]
  BY DEF Stamped
<1> HIDE DEF M
<1>5. \A i \in 1 .. Len(evs) : [ev |-> evs[i], cond |-> game.cond, at |-> marks + Cardinality(M(i))]
                                 \in Queued
  BY <1>1, <1>2 DEF Queued, GameOK
<1>6. Stamped(evs) \in Seq(Queued)
  BY <1>2, <1>4, <1>5
<1>7. Cardinality(M(Len(evs))) \in Nat
  BY <1>1, <1>2
<1>8. Cardinality({i \in DOMAIN evs : IsMark(evs[i])}) \in Nat
  BY <1>3, <1>7
<1> QED BY <1>6, <1>8

-----------------------------------------------------------------------------
(* Types. *)

LEMMA Same ==
    /\ GameOK /\ UNCHANGED <<game, upsets, loaded, det>> => GameOK'
    /\ PollOK /\ UNCHANGED <<marks, queue>> => PollOK'
    /\ RecOK /\ UNCHANGED <<rec, eps, runs>> => RecOK'
    /\ TableOK /\ UNCHANGED <<segs, states, files>> => TableOK'
<1>1. GameOK /\ UNCHANGED <<game, upsets, loaded, det>> => GameOK'
  BY DEF GameOK
<1>2. PollOK /\ UNCHANGED <<marks, queue>> => PollOK'
  BY DEF PollOK
<1>3. RecOK /\ UNCHANGED <<rec, eps, runs>> => RecOK'
  BY DEF RecOK
<1>4. TableOK /\ UNCHANGED <<segs, states, files>> => TableOK'
  BY DEF TableOK
<1> QED BY <1>1, <1>2, <1>3, <1>4

LEMMA TypeInit == Init => TypeOK
<1> SUFFICES ASSUME Init PROVE TypeOK
  OBVIOUS
<1>1. GameOK
  <2>1. NewDetector \in Detectors
    BY DEF NewDetector, Detectors
  <2>2. /\ \E c \in Conds : game = [frame |-> Boot, cond |-> c]
        /\ upsets = 0 /\ det = NewDetector /\ loaded = FALSE
    BY DEF Init
  <2>3. game \in [frame : Frames, cond : Conds]
    BY <2>2, BootFrame
  <2>4. loaded \in BOOLEAN
    BY <2>2
  <2> QED BY <2>1, <2>2, <2>3, <2>4 DEF GameOK
<1>2. PollOK
  BY DEF Init, PollOK
<1>3. Cleared \in Recorders
  BY DEF Cleared, Recorders, Sources
<1>4. RecOK
  BY <1>3 DEF Init, RecOK
<1>5. TableOK
  <2>1. DOMAIN Empty = {} /\ IsFiniteSet({})
    BY FS_EmptySet DEF Empty
  <2>2. \A S : Empty \in [{} -> S]
    BY DEF Empty
  <2> QED BY <2>1, <2>2 DEF Init, TableOK
<1> QED BY <1>1, <1>2, <1>4, <1>5 DEF TypeOK

LEMMA PollTypes == ASSUME TypeOK, PollResync \/ PollStep PROVE TypeOK'
<1> USE DEF TypeOK, db
<1>1. CASE PollResync
  <2>1. GameOK'
    BY <1>1, ResyncType DEF PollResync, GameOK
  <2> QED BY <1>1, <2>1, Same DEF PollResync
<1>2. CASE PollStep
  <2> DEFINE evs == StepEvents(det, game.frame)
  <2>1. det \in Detectors /\ game.frame \in Frames
    BY DEF GameOK
  <2>2. evs \in Seq(DetectorEvents)
    BY <2>1, StepEventsType
  <2>3. GameOK'
    BY <1>2, <2>1, StepType DEF PollStep, GameOK
  <2>4. queue' = queue \o Stamped(evs)
        /\ marks' = marks + Cardinality({i \in DOMAIN evs : IsMark(evs[i])})
    BY <1>2 DEF PollStep
  <2> HIDE DEF evs
  <2>5. Stamped(evs) \in Seq(Queued)
        /\ marks + Cardinality({i \in DOMAIN evs : IsMark(evs[i])}) \in Nat
    BY <2>2, StampedType DEF PollOK
  <2>6. PollOK'
    BY <2>4, <2>5, ConcatProperties DEF PollOK
  <2> QED BY <1>2, <2>3, <2>6, Same DEF PollStep
<1> QED BY <1>1, <1>2

\* The tables after a segment is closed.
LEMMA UpsertType ==
    ASSUME IsFiniteSet(DOMAIN segs), segs \in [DOMAIN segs -> Segments],
           NEW s, NEW run \in Nat, Upsert(s, run)
    PROVE  /\ DOMAIN segs' = DOMAIN segs \cup {s} /\ IsFiniteSet(DOMAIN segs')
           /\ segs' \in [DOMAIN segs' -> Segments]
<1> DEFINE rival == \E t \in DOMAIN segs :
                        t # s /\ segs[t].active /\ Geography(t) = Geography(s)
           mine    == {t \in DOMAIN segs : segs[t].owner = run}
           ordinal == Cardinality(mine) + 1
           owner   == IF s \in DOMAIN segs THEN segs[s].owner ELSE run
           new     == [active |-> TRUE, primary |-> ~rival, owner |-> owner, ordinal |-> ordinal]
<1>1. Cardinality(mine) \in Nat
  <2>1. IsFiniteSet(mine)
    BY FS_Subset
  <2> QED BY <2>1, FS_CardinalityType
<1>2. ordinal \in Nat /\ owner \in Nat /\ (~rival) \in BOOLEAN
  BY <1>1 DEF Segments
<1>3. segs' = [t \in DOMAIN segs \cup {s} |-> IF t = s THEN new ELSE segs[t]]
  BY DEF Upsert
<1> HIDE DEF rival, ordinal, owner
<1>4. new \in Segments
  BY <1>2 DEF Segments
<1> HIDE DEF new
<1>5. DOMAIN segs' = DOMAIN segs \cup {s} /\ segs' \in [DOMAIN segs \cup {s} -> Segments]
  BY <1>3, <1>4
<1>6. IsFiniteSet(DOMAIN segs \cup {s})
  BY FS_AddElement
<1> QED BY <1>5, <1>6

LEMMA AttachType ==
    ASSUME states \in [DOMAIN states -> Paths], NEW wp, NEW start \in Starts, Attach(wp, start)
    PROVE  /\ states' \in [DOMAIN states' -> Paths]
           /\ \A k \in DOMAIN states' : \/ states'[k] = start.path /\ start.path # None
                                        \/ k \in DOMAIN states /\ states'[k] = states[k]
<1> DEFINE key == <<wp, IF start.type = "entrance" THEN "cold" ELSE "hot">>
<1>1. start.path \in Paths \cup {None}
  BY DEF Starts
<1>2. CASE start.path = None
  <2>1. states' = states
    BY <1>2 DEF Attach
  <2> QED BY <2>1
<1>3. CASE start.path # None
  <2>1. states' = [k \in DOMAIN states \cup {key} |-> IF k = key THEN start.path ELSE states[k]]
    BY <1>3 DEF Attach
  <2> HIDE DEF key
  <2>2. DOMAIN states' = DOMAIN states \cup {key}
    BY <2>1
  <2>3. ASSUME NEW k \in DOMAIN states'
        PROVE  \/ states'[k] = start.path /\ start.path # None
               \/ k \in DOMAIN states /\ states'[k] = states[k]
    BY <1>3, <2>1, <2>2
  <2>4. states' \in [DOMAIN states' -> Paths]
    BY <1>1, <1>3, <2>1, <2>2
  <2> QED BY <2>3, <2>4
<1> QED BY <1>2, <1>3

LEMMA CloseType ==
    ASSUME TableOK, NEW r \in Recorders, r.start # None, files' \in [DOMAIN files' -> Conds],
           NEW type, NEW ord, NEW level, NEW cond, NEW at, Close(r, type, ord, level, cond, at)
    PROVE  TableOK'
<1> DEFINE s1 == Waypoint(level, r.start.type, r.start.ord, Meaning[r.start.cond])
           s2 == Waypoint(level, type, ord, Meaning[cond])
<1>1. r.start \in Starts /\ r.run \in Nat
  BY DEF Recorders
<1>2. CASE s1 = s2
  <2>1. UNCHANGED <<segs, states, rows>>
    BY <1>2 DEF Close
  <2> QED BY <2>1 DEF TableOK
<1>3. CASE s1 # s2
  <2>1. Upsert(<<s1, s2>>, r.run) /\ Attach(s1, r.start)
    BY <1>3 DEF Close
  <2> HIDE DEF s1, s2
  <2> QED BY <1>1, <2>1, UpsertType, AttachType DEF TableOK
<1> QED BY <1>2, <1>3

LEMMA TakesEvent ==
    ASSUME TypeOK, NEW kind, Next1(kind)
    PROVE  /\ Head(queue) \in Queued /\ Head(queue).ev \in DetectorEvents
           /\ Head(queue).ev.k = kind /\ Head(queue).cond \in Conds /\ Head(queue).at \in Nat
           /\ GameOK' /\ PollOK' /\ UNCHANGED runs
<1>1. queue \in Seq(Queued) /\ queue # <<>> /\ Head(queue).ev.k = kind
  BY DEF TypeOK, PollOK, Next1
<1>2. Head(queue) \in Queued /\ Tail(queue) \in Seq(Queued)
  BY <1>1
<1>3. GameOK'
  BY Same DEF Next1, TypeOK
<1>4. PollOK'
  BY <1>2 DEF Next1, TypeOK, PollOK
<1> QED BY <1>1, <1>2, <1>3, <1>4 DEF Queued, Next1

\* What save_state leaves: a path that is kept is the path of a file.
LEMMA SavedType ==
    ASSUME TypeOK, NEW e \in Queued, e.ev.k \in {"entrance", "checkpoint"},
           NEW path \in {Path(e), None}, Saved(e, path)
    PROVE  /\ path \in Paths \cup {None} /\ files' \in [DOMAIN files' -> Conds]
           /\ DOMAIN files \subseteq DOMAIN files' /\ (path # None => path \in DOMAIN files')
<1>1. e.ev \in DetectorEvents
  BY DEF Queued
<1>2. Path(e) \in Paths
  <2>1. e.ev.k = "entrance" => e.ev.level \in {0, 1} /\ e.ev.room \in {0, 1, 2}
    BY <1>1 DEF DetectorEvents
  <2>2. e.ev.k = "checkpoint" => e.ev.level \in {0, 1} /\ e.ev.ord \in Nat
    BY <1>1 DEF DetectorEvents
  <2> QED BY <2>1, <2>2 DEF Path, Paths
<1>3. files \in [DOMAIN files -> Conds] /\ game.cond \in Conds
  BY DEF TypeOK, TableOK, GameOK
<1>4. CASE /\ path = Path(e)
           /\ files' = [p \in DOMAIN files \cup {path} |-> IF p = path THEN game.cond ELSE files[p]]
  <2>1. DOMAIN files' = DOMAIN files \cup {path}
    BY <1>4
  <2>2. files' \in [DOMAIN files' -> Conds]
    BY <1>3, <1>4, <2>1
  <2> QED BY <1>2, <1>4, <2>1, <2>2
<1>5. CASE path = None /\ UNCHANGED files
  BY <1>3, <1>5
<1> QED BY <1>4, <1>5 DEF Saved

LEMMA ArmType ==
    ASSUME RecOK, NEW start \in Starts
    PROVE  Arm(rec, start, TRUE) \in Recorders /\ Arm(rec, start, FALSE) \in Recorders
<1>0. rec \in Recorders /\ eps + 1 \in Nat /\ <<>> \in Seq(Tags)
  BY DEF RecOK
<1> USE DEF Recorders
<1>1. PICK r1 \in Recorders : r1 = [rec EXCEPT !.start = start]
  BY <1>0
<1>2. PICK r2 \in Recorders : r2 = [r1 EXCEPT !.ep = eps + 1]
  BY <1>0
<1>3. PICK r3 \in Recorders : r3 = [r2 EXCEPT !.pend = <<>>]
  BY <1>0
<1>4. PICK r4 \in Recorders : r4 = [r3 EXCEPT !.first = TRUE]
  OBVIOUS
<1>5. [r4 EXCEPT !.hot = TRUE] \in Recorders /\ [r4 EXCEPT !.hot = FALSE] \in Recorders
  OBVIOUS
<1> QED BY <1>1, <1>2, <1>3, <1>4, <1>5 DEF Arm

LEMMA EntranceTypes == ASSUME TypeOK, HandleEntrance PROVE TypeOK'
<1> DEFINE e == Head(queue)
<1> USE DEF TypeOK, db
<1>1. Next1("entrance")
  BY DEF HandleEntrance
<1>2. e \in Queued /\ e.ev \in DetectorEvents /\ e.ev.k = "entrance" /\ GameOK' /\ PollOK'
      /\ e.cond \in Conds /\ e.at \in Nat /\ UNCHANGED runs
  BY <1>1, TakesEvent
<1>3. CASE ~Recording
  BY <1>2, <1>3, Same DEF HandleEntrance
<1>4. CASE Recording
  <2>1. PICK path \in {Path(e), None} :
           /\ Saved(e, path)
           /\ \/ UNCHANGED <<rec, eps>>
              \/ /\ rec' = Arm(rec, StartOf(e, "entrance", 0, e.ev.level, path), FALSE)
                 /\ eps' = eps + 1
           /\ UNCHANGED <<segs, states, rows>>
    BY <1>4 DEF HandleEntrance
  <2>2. path \in Paths \cup {None} /\ files' \in [DOMAIN files' -> Conds]
    BY <1>2, <2>1, SavedType
  <2>3. e.ev.level \in {0, 1}
    BY <1>2 DEF DetectorEvents
  <2> HIDE DEF e
  <2>4. StartOf(e, "entrance", 0, e.ev.level, path) \in Starts
    BY <1>2, <2>2, <2>3 DEF StartOf, Starts
  <2>5. RecOK'
    <3>0. eps' = eps \/ eps' = eps + 1
      BY <2>1
    <3>1. eps' \in Nat /\ runs' \in Nat
      BY <1>2, <3>0 DEF RecOK
    <3>2. rec' = rec \/ \E start \in Starts : rec' = Arm(rec, start, FALSE)
      BY <2>1, <2>4
    <3>3. \A start \in Starts : Arm(rec, start, FALSE) \in Recorders
      BY ArmType
    <3>4. rec \in Recorders
      BY DEF RecOK
    <3>5. rec' \in Recorders
      BY <3>2, <3>3, <3>4
    <3> QED BY <3>1, <3>5 DEF RecOK
  <2>6. TableOK'
    BY <2>1, <2>2 DEF TableOK
  <2> QED BY <1>2, <2>5, <2>6
<1> QED BY <1>3, <1>4

\* A checkpoint's level is the level's number, so is that of the segment it arms.
LEMMA CheckpointTypes == ASSUME TypeOK, HandleCheckpoint PROVE TypeOK'
<1> DEFINE e == Head(queue)
           level == IF e.ev.level # 0 THEN e.ev.level ELSE rec.start.level
<1> USE DEF TypeOK, db
<1>1. Next1("checkpoint")
  BY DEF HandleCheckpoint
<1>2. e \in Queued /\ e.ev \in DetectorEvents /\ e.ev.k = "checkpoint" /\ GameOK' /\ PollOK'
      /\ e.cond \in Conds /\ e.at \in Nat /\ UNCHANGED runs
  BY <1>1, TakesEvent
<1>3. CASE ~Recording
  BY <1>2, <1>3, Same DEF HandleCheckpoint
<1>4. CASE Recording
  <2>1. PICK path \in {Path(e), None} :
           /\ Saved(e, path)
           /\ \/ UNCHANGED <<rec, eps, segs, states, rows>>
              \/ /\ rec.start # None
                 /\ Close(rec, "checkpoint", e.ev.ord, level, e.cond, e.at)
                 /\ rec' = Arm(rec, StartOf(e, "checkpoint", e.ev.ord, level, path), TRUE)
                 /\ eps' = eps + 1
    BY <1>4 DEF HandleCheckpoint
  <2>2. path \in Paths \cup {None} /\ files' \in [DOMAIN files' -> Conds]
    BY <1>2, <2>1, SavedType
  <2>3. level = 1 /\ e.ev.ord \in Nat
    BY <1>2 DEF DetectorEvents
  <2> HIDE DEF e, level
  <2>4. StartOf(e, "checkpoint", e.ev.ord, level, path) \in Starts
    BY <1>2, <2>2, <2>3 DEF StartOf, Starts
  <2>5. RecOK'
    <3>0. eps' = eps \/ eps' = eps + 1
      BY <2>1
    <3>1. eps' \in Nat /\ runs' \in Nat
      BY <1>2, <3>0 DEF RecOK
    <3>2. rec' = rec \/ \E start \in Starts : rec' = Arm(rec, start, TRUE)
      BY <2>1, <2>4
    <3>3. \A start \in Starts : Arm(rec, start, TRUE) \in Recorders
      BY ArmType
    <3>4. rec \in Recorders
      BY DEF RecOK
    <3>5. rec' \in Recorders
      BY <3>2, <3>3, <3>4
    <3> QED BY <3>1, <3>5 DEF RecOK
  <2>6. TableOK'
    <3>1. CASE UNCHANGED <<segs, states>>
      BY <2>2, <3>1 DEF TableOK
    <3>2. CASE rec.start # None /\ Close(rec, "checkpoint", e.ev.ord, level, e.cond, e.at)
      BY <2>2, <3>2, CloseType DEF RecOK
    <3> QED BY <2>1, <3>1, <3>2
  <2> QED BY <1>2, <2>5, <2>6
<1> QED BY <1>3, <1>4

LEMMA ExitTypes == ASSUME TypeOK, HandleExit PROVE TypeOK'
<1> DEFINE e == Head(queue)
<1> USE DEF TypeOK
<1>1. Next1("exit")
  BY DEF HandleExit
<1>2. GameOK' /\ PollOK' /\ UNCHANGED <<runs, eps, files>>
  BY <1>1, TakesEvent DEF HandleExit
<1>3. \/ UNCHANGED <<rec, segs, states, rows>>
      \/ /\ rec' = [rec EXCEPT !.start = None, !.pend = <<>>, !.first = FALSE, !.hot = FALSE]
         /\ UNCHANGED <<segs, states, rows>>
      \/ /\ rec.start # None /\ Close(rec, "goal", 0, e.ev.level, e.cond, e.at)
         /\ rec' = [rec EXCEPT !.start = None, !.pend = <<>>, !.first = FALSE]
  BY DEF HandleExit
<1>4. RecOK'
  <2>0. rec \in Recorders /\ <<>> \in Seq(Tags)
    BY DEF RecOK
  <2>1. PICK r1 \in Recorders : r1 = [rec EXCEPT !.start = None]
    BY <2>0 DEF Recorders
  <2>2. PICK r2 \in Recorders : r2 = [r1 EXCEPT !.pend = <<>>]
    BY <2>0 DEF Recorders
  <2>3. PICK r3 \in Recorders : r3 = [r2 EXCEPT !.first = FALSE]
    BY DEF Recorders
  <2>4. [r3 EXCEPT !.hot = FALSE] \in Recorders
    BY DEF Recorders
  <2>5. rec' \in Recorders
    BY <1>3, <2>0, <2>1, <2>2, <2>3, <2>4
  <2> QED BY <1>2, <2>5 DEF RecOK
<1>5. TableOK'
  <2>1. files' \in [DOMAIN files' -> Conds]
    BY <1>2 DEF TableOK
  <2> HIDE DEF e
  <2>2. CASE UNCHANGED <<segs, states, rows>>
    BY <1>2, <2>2, Same
  <2>3. CASE rec.start # None /\ Close(rec, "goal", 0, e.ev.level, e.cond, e.at)
    BY <2>1, <2>3, CloseType DEF RecOK
  <2> QED BY <1>3, <2>2, <2>3
<1> QED BY <1>2, <1>4, <1>5

LEMMA DeathTypes == ASSUME TypeOK, HandleDeath PROVE TypeOK'
<1> DEFINE tag == Tag(rec, Head(queue).at)
<1> USE DEF TypeOK, db
<1>1. Next1("death")
  BY DEF HandleDeath
<1>2. Head(queue).at \in Nat /\ GameOK' /\ PollOK' /\ UNCHANGED runs
  BY <1>1, TakesEvent
<1>3. \/ rec' = rec
      \/ rec' = [rec EXCEPT !.pend = Append(rec.pend, tag), !.first = FALSE]
  BY DEF HandleDeath
<1>4. rec \in Recorders
  BY DEF RecOK
<1>5. tag \in Tags
  <2>1. (rec.first /\ rec.hot) \in BOOLEAN
    OBVIOUS
  <2> QED BY <1>2, <2>1 DEF Tag, Tags
<1> HIDE DEF tag
<1>6. Append(rec.pend, tag) \in Seq(Tags)
  BY <1>4, <1>5, AppendProperties DEF Recorders
<1>7. PICK r1 \in Recorders : r1 = [rec EXCEPT !.pend = Append(rec.pend, tag)]
  BY <1>4, <1>6 DEF Recorders
<1>8. [r1 EXCEPT !.first = FALSE] \in Recorders
  BY DEF Recorders
<1>9. rec' \in Recorders
  BY <1>3, <1>4, <1>7, <1>8
<1>10. RecOK'
  BY <1>2, <1>9 DEF RecOK, HandleDeath
<1> QED BY <1>2, <1>10, Same DEF HandleDeath

\* A recording that begins or stops leaves a cleared recorder; a replay loads a
\* state the detector marks as an entrance.
LEMMA ControlTypes ==
    ASSUME TypeOK, StartReference \/ StartReplay \/ StopRecording \/ DeleteSegment
    PROVE  TypeOK'
<1> USE DEF TypeOK, db
<1>0. rec \in Recorders /\ runs \in Nat /\ eps \in Nat
  BY DEF RecOK
<1>1. Cleared \in Recorders
  BY DEF Cleared, Recorders, Sources
<1>2. ASSUME NEW src \in Sources, Begin(src) PROVE RecOK' /\ PollOK' /\ TableOK'
  <2>0. runs + 1 \in Nat
    BY <1>0
  <2>1. PICK r1 \in Recorders : r1 = [Cleared EXCEPT !.run = runs + 1]
    <3> DEFINE n == runs + 1
    <3>1. n \in Nat
      BY <2>0
    <3> HIDE DEF n
    <3>2. [Cleared EXCEPT !.run = n] \in Recorders
      BY <1>1, <3>1 DEF Recorders
    <3> QED BY <3>2 DEF n
  <2>2. [r1 EXCEPT !.src = src] \in Recorders
    BY DEF Recorders
  <2>3. rec' \in Recorders /\ runs' \in Nat /\ UNCHANGED <<marks, queue, eps, segs, states, files>>
    BY <1>0, <1>2, <2>1, <2>2 DEF Begin
  <2> QED BY <1>0, <2>3, Same DEF RecOK
<1>3. CASE StartReference
  BY <1>2, <1>3, Same DEF StartReference, Sources, Begin
<1>4. CASE StartReplay
  <2>1. RecOK' /\ PollOK' /\ TableOK'
    BY <1>2, <1>4 DEF StartReplay, Sources
  <2>2. det' \in Detectors
    <3>1. det \in Detectors /\ det' = MarkReplayEntrance(det)
      BY <1>4 DEF StartReplay, GameOK
    <3> QED BY <3>1 DEF MarkReplayEntrance, Detectors
  <2>3. GameOK'
    <3>1. PICK c \in Conds : game' = [frame |-> InLevel, cond |-> c]
      BY <1>4 DEF StartReplay
    <3>2. InLevel \in Frames
      BY LeavingFrames, BootFrame
    <3> QED BY <1>4, <2>2, <3>1, <3>2 DEF StartReplay, Begin, GameOK
  <2> QED BY <2>1, <2>3
<1>5. CASE StopRecording
  <2>1. RecOK'
    BY <1>0, <1>1, <1>5 DEF StopRecording, RecOK
  <2> QED BY <1>5, <2>1, Same DEF StopRecording
<1>6. CASE DeleteSegment
  <2>1. PICK s \in DOMAIN segs : segs' = [segs EXCEPT ![s].active = FALSE]
    BY <1>6 DEF DeleteSegment
  <2>2. segs[s] \in Segments
    BY DEF TableOK
  <2>3. [segs[s] EXCEPT !.active = FALSE] \in Segments
    BY <2>2 DEF Segments
  <2>4. TableOK'
    <3>1. segs' = [segs EXCEPT ![s] = [segs[s] EXCEPT !.active = FALSE]]
      BY <2>1
    <3>2. DOMAIN segs' = DOMAIN segs /\ segs' \in [DOMAIN segs -> Segments]
      BY <2>3, <3>1 DEF TableOK
    <3> QED BY <1>6, <3>2 DEF DeleteSegment, TableOK
  <2>5. GameOK'
    BY <1>6 DEF DeleteSegment, Upset, GameOK
  <2> QED BY <1>6, <2>4, <2>5, Same DEF DeleteSegment
<1> QED BY <1>3, <1>4, <1>5, <1>6

LEMMA TypeStep == ASSUME TypeOK, [Next]_vars PROVE TypeOK'
<1>1. CASE GameStep
  <2>1. /\ game' \in [frame : Frames, cond : Conds]
        /\ UNCHANGED <<det, marks, queue, rec, eps, runs, segs, states, files, rows>>
        /\ upsets' \in Nat /\ loaded' \in BOOLEAN
    BY <1>1, GameFrames DEF TypeOK
  <2>2. GameOK'
    BY <2>1 DEF TypeOK, GameOK
  <2> QED BY <2>1, <2>2, Same DEF TypeOK
<1>2. CASE PollResync \/ PollStep
  BY <1>2, PollTypes
<1>3. CASE HandleEntrance
  BY <1>3, EntranceTypes
<1>4. CASE HandleCheckpoint
  BY <1>4, CheckpointTypes
<1>5. CASE HandleExit
  BY <1>5, ExitTypes
<1>6. CASE HandleDeath
  BY <1>6, DeathTypes
<1>7. CASE HandleSpawn
  BY <1>7, TakesEvent, Same DEF HandleSpawn, TypeOK, db
<1>8. CASE StartReference \/ StartReplay \/ StopRecording \/ DeleteSegment
  BY <1>8, ControlTypes
<1>9. CASE UNCHANGED vars
  BY <1>9, Same DEF vars, TypeOK
<1> QED BY <1>1, <1>2, <1>3, <1>4, <1>5, <1>6, <1>7, <1>8, <1>9 DEF Next

\* Every record stays of its kind: a checkpoint or an exit that reaches the queue
\* is of level 1, whatever frames the poller missed, and an armed recorder's
\* start is of the level its event named.
THEOREM TypeCorrect == Spec => []TypeOK
<1>1. TypeOK /\ [Next]_vars => TypeOK'
  BY TypeStep
<1> QED BY TypeInit, <1>1, PTL DEF Spec

-----------------------------------------------------------------------------
(* What a step does to the recorder and the tables. *)

LEMMA Quiet ==
    ASSUME TypeOK, GameStep \/ PollResync \/ PollStep \/ HandleSpawn \/ UNCHANGED vars
    PROVE  UNCHANGED <<rec, eps, segs, states, files, rows>>
<1>1. CASE GameStep
  BY <1>1, GameFrames DEF TypeOK
<1>2. CASE PollResync \/ PollStep \/ HandleSpawn
  BY <1>2 DEF PollResync, PollStep, HandleSpawn, db
<1>3. CASE UNCHANGED vars
  BY <1>3 DEF vars
<1> QED BY <1>1, <1>2, <1>3

\* An entrance arms the recorder, unless an earlier start holds it.
Entered(start) ==
    /\ start.type = "entrance" /\ start.at = Head(queue).at
    /\ start.path # None => start.path \in DOMAIN files'
    /\ rec' = Arm(rec, start, FALSE) /\ eps' = eps + 1

LEMMA EntranceEffect ==
    ASSUME TypeOK, HandleEntrance
    PROVE  /\ UNCHANGED <<segs, states, rows>> /\ DOMAIN files \subseteq DOMAIN files'
           /\ UNCHANGED <<rec, eps>> \/ \E start \in Starts : Entered(start)
<1> DEFINE e == Head(queue)
<1> USE DEF TypeOK, db
<1>1. Next1("entrance")
  BY DEF HandleEntrance
<1>2. e \in Queued /\ e.ev \in DetectorEvents /\ e.ev.k = "entrance"
      /\ e.cond \in Conds /\ e.at \in Nat
  BY <1>1, TakesEvent
<1>3. CASE ~Recording
  BY <1>3 DEF HandleEntrance
<1>4. CASE Recording
  <2>1. PICK path \in {Path(e), None} :
           /\ Saved(e, path)
           /\ \/ UNCHANGED <<rec, eps>>
              \/ /\ rec' = Arm(rec, StartOf(e, "entrance", 0, e.ev.level, path), FALSE)
                 /\ eps' = eps + 1
           /\ UNCHANGED <<segs, states, rows>>
    BY <1>4 DEF HandleEntrance
  <2>2. /\ path \in Paths \cup {None} /\ DOMAIN files \subseteq DOMAIN files'
        /\ (path # None => path \in DOMAIN files')
    BY <1>2, <2>1, SavedType
  <2>3. e.ev.level \in {0, 1}
    BY <1>2 DEF DetectorEvents
  <2> DEFINE start == StartOf(e, "entrance", 0, e.ev.level, path)
  <2>4. /\ start \in Starts /\ start.type = "entrance" /\ start.at = e.at /\ start.path = path
    BY <1>2, <2>2, <2>3 DEF StartOf, Starts
  <2>5. UNCHANGED <<rec, eps>> \/ (rec' = Arm(rec, start, FALSE) /\ eps' = eps + 1)
    BY <2>1
  <2> HIDE DEF start
  <2> QED BY <2>1, <2>2, <2>4, <2>5 DEF Entered
<1> QED BY <1>3, <1>4

\* A checkpoint closes the segment under way and arms the next one at the same
\* waypoint: both of level 1.
Crossed(start) ==
    /\ rec.start # None
    /\ start.type = "checkpoint" /\ start.at = Head(queue).at
    /\ start.path # None => start.path \in DOMAIN files'
    /\ Close(rec, "checkpoint", start.ord, 1, start.cond, start.at)
    /\ rec' = Arm(rec, start, TRUE) /\ eps' = eps + 1

LEMMA CheckpointEffect ==
    ASSUME TypeOK, HandleCheckpoint
    PROVE  /\ DOMAIN files \subseteq DOMAIN files'
           /\ \/ UNCHANGED <<rec, eps, segs, states, rows>>
              \/ \E start \in Starts : Crossed(start)
<1> DEFINE e == Head(queue)
           level == IF e.ev.level # 0 THEN e.ev.level ELSE rec.start.level
<1> USE DEF TypeOK, db
<1>1. Next1("checkpoint")
  BY DEF HandleCheckpoint
<1>2. e \in Queued /\ e.ev \in DetectorEvents /\ e.ev.k = "checkpoint"
      /\ e.cond \in Conds /\ e.at \in Nat
  BY <1>1, TakesEvent
<1>3. CASE ~Recording
  BY <1>3 DEF HandleCheckpoint
<1>4. CASE Recording
  <2>1. PICK path \in {Path(e), None} :
           /\ Saved(e, path)
           /\ \/ UNCHANGED <<rec, eps, segs, states, rows>>
              \/ /\ rec.start # None
                 /\ Close(rec, "checkpoint", e.ev.ord, level, e.cond, e.at)
                 /\ rec' = Arm(rec, StartOf(e, "checkpoint", e.ev.ord, level, path), TRUE)
                 /\ eps' = eps + 1
    BY <1>4 DEF HandleCheckpoint
  <2>2. /\ path \in Paths \cup {None} /\ DOMAIN files \subseteq DOMAIN files'
        /\ (path # None => path \in DOMAIN files')
    BY <1>2, <2>1, SavedType
  <2>3. level = 1 /\ e.ev.ord \in Nat
    BY <1>2 DEF DetectorEvents
  <2> DEFINE start == StartOf(e, "checkpoint", e.ev.ord, level, path)
  <2> HIDE DEF level
  <2>4. /\ start \in Starts /\ start.type = "checkpoint" /\ start.at = e.at
        /\ start.path = path /\ start.ord = e.ev.ord /\ start.cond = e.cond
    BY <1>2, <2>2, <2>3 DEF StartOf, Starts
  <2>5. \/ UNCHANGED <<rec, eps, segs, states, rows>>
        \/ /\ rec.start # None
           /\ Close(rec, "checkpoint", start.ord, 1, start.cond, start.at)
           /\ rec' = Arm(rec, start, TRUE) /\ eps' = eps + 1
    BY <2>1, <2>3, <2>4
  <2> HIDE DEF start
  <2> QED BY <2>2, <2>4, <2>5 DEF Crossed
<1> QED BY <1>3, <1>4

\* An exit ends the segment under way, at its goal or abandoned.
Closes == /\ rec.start # None
          /\ Close(rec, "goal", 0, 1, Head(queue).cond, Head(queue).at)

LEMMA ExitEffect ==
    ASSUME TypeOK, HandleExit
    PROVE  /\ UNCHANGED <<eps, files>>
           /\ \/ UNCHANGED <<rec, segs, states, rows>>
              \/ rec'.start = None /\ (UNCHANGED <<segs, states, rows>> \/ Closes)
<1>1. Next1("exit")
  BY DEF HandleExit
<1>2. Head(queue).ev.level = 1
  BY <1>1, TakesEvent DEF DetectorEvents
<1>3. \/ UNCHANGED <<rec, segs, states, rows>>
      \/ /\ rec' = [rec EXCEPT !.start = None, !.pend = <<>>, !.first = FALSE, !.hot = FALSE]
         /\ UNCHANGED <<segs, states, rows>>
      \/ /\ rec.start # None
         /\ Close(rec, "goal", 0, Head(queue).ev.level, Head(queue).cond, Head(queue).at)
         /\ rec' = [rec EXCEPT !.start = None, !.pend = <<>>, !.first = FALSE]
  BY DEF HandleExit
<1>4. rec \in Recorders
  BY DEF TypeOK, RecOK
<1>5. /\ [rec EXCEPT !.start = None, !.pend = <<>>, !.first = FALSE, !.hot = FALSE].start = None
      /\ [rec EXCEPT !.start = None, !.pend = <<>>, !.first = FALSE].start = None
  BY <1>4 DEF Recorders
<1> QED BY <1>2, <1>3, <1>5 DEF HandleExit, Closes

\* A recording that begins or stops has armed nothing.
LEMMA ControlEffect ==
    ASSUME StartReference \/ StartReplay \/ StopRecording
    PROVE  rec'.start = None /\ UNCHANGED <<eps, segs, states, files, rows, queue, marks>>
<1>1. ASSUME NEW src, Begin(src)
      PROVE  rec'.start = None /\ UNCHANGED <<eps, segs, states, files, rows, queue, marks>>
  BY <1>1 DEF Begin, Cleared, db
<1>2. CASE StopRecording
  BY <1>2 DEF StopRecording, Cleared, db
<1> QED BY <1>1, <1>2 DEF StartReference, StartReplay

\* A death is buffered; deleting a segment touches only its row.
LEMMA DeathEffect ==
    ASSUME TypeOK, HandleDeath
    PROVE  /\ UNCHANGED <<eps, segs, states, files, rows>>
           /\ \/ UNCHANGED rec
              \/ rec' = [rec EXCEPT !.pend = Append(@, Tag(rec, Head(queue).at)), !.first = FALSE]
           /\ rec'.start = rec.start
<1>1. rec \in Recorders
  BY DEF TypeOK, RecOK
<1> QED BY <1>1 DEF HandleDeath, db, Recorders

LEMMA DeleteEffect ==
    ASSUME DeleteSegment
    PROVE  DOMAIN segs' = DOMAIN segs /\ UNCHANGED <<rec, eps, states, files, rows, queue, marks>>
BY DEF DeleteSegment

LEMMA Fields ==
    ASSUME RecOK, NEW start, NEW hot \in BOOLEAN
    PROVE  LET a == Arm(rec, start, hot) IN
           /\ a.start = start /\ a.ep = eps + 1 /\ a.pend = <<>> /\ a.first = TRUE
           /\ a.hot = hot
BY DEF RecOK, Recorders, Arm

-----------------------------------------------------------------------------
(* Save states. *)

\* The path an armed recorder holds is the path of a file.
StatesInv ==
    /\ StatesBacked
    /\ rec.start # None /\ rec.start.path # None => rec.start.path \in DOMAIN files

LEMMA CloseKeepsBacked ==
    ASSUME TypeOK, StatesInv, rec.start # None, DOMAIN files \subseteq DOMAIN files',
           NEW type, NEW ord, NEW level, NEW cond, NEW at, Close(rec, type, ord, level, cond, at)
    PROVE  StatesBacked'
<1> DEFINE s1 == Waypoint(level, rec.start.type, rec.start.ord, Meaning[rec.start.cond])
<1>1. rec.start \in Starts /\ states \in [DOMAIN states -> Paths]
  BY DEF TypeOK, RecOK, TableOK, Recorders
<1>2. UNCHANGED states \/ Attach(s1, rec.start)
  BY DEF Close
<1>3. CASE UNCHANGED states
  BY <1>3 DEF StatesInv, StatesBacked
<1>4. CASE Attach(s1, rec.start)
  <2> HIDE DEF s1
  <2>1. \A k \in DOMAIN states' : \/ states'[k] = rec.start.path /\ rec.start.path # None
                                  \/ k \in DOMAIN states /\ states'[k] = states[k]
    BY <1>1, <1>4, AttachType
  <2> QED BY <2>1 DEF StatesInv, StatesBacked
<1> QED BY <1>2, <1>3, <1>4

LEMMA StatesStep == ASSUME TypeOK, StatesInv, [Next]_vars PROVE StatesInv'
<1>0. RecOK
  BY DEF TypeOK
<1>1. ASSUME DOMAIN files \subseteq DOMAIN files', UNCHANGED states PROVE StatesBacked'
  BY <1>1 DEF StatesInv, StatesBacked
<1>2. ASSUME DOMAIN files \subseteq DOMAIN files', UNCHANGED states,
             rec'.start = rec.start \/ rec'.start = None
      PROVE  StatesInv'
  BY <1>1, <1>2 DEF StatesInv
<1>3. CASE GameStep \/ PollResync \/ PollStep \/ HandleSpawn \/ UNCHANGED vars
  BY <1>2, <1>3, Quiet
<1>4. CASE HandleEntrance
  <2>1. /\ UNCHANGED <<segs, states, rows>> /\ DOMAIN files \subseteq DOMAIN files'
        /\ UNCHANGED <<rec, eps>> \/ \E start \in Starts : Entered(start)
    BY <1>4, EntranceEffect
  <2>2. ASSUME NEW start \in Starts, Entered(start) PROVE StatesInv'
    <3>1. rec'.start = start
      BY <1>0, <2>2, Fields DEF Entered
    <3> QED BY <1>1, <2>1, <2>2, <3>1 DEF Entered, StatesInv
  <2> QED BY <1>2, <2>1, <2>2
<1>5. CASE HandleCheckpoint
  <2>1. /\ DOMAIN files \subseteq DOMAIN files'
        /\ \/ UNCHANGED <<rec, eps, segs, states, rows>>
           \/ \E start \in Starts : Crossed(start)
    BY <1>5, CheckpointEffect
  <2>2. ASSUME NEW start \in Starts, Crossed(start) PROVE StatesInv'
    <3>1. rec'.start = start
      BY <1>0, <2>2, Fields DEF Crossed
    <3>2. StatesBacked'
      BY <2>1, <2>2, CloseKeepsBacked DEF Crossed
    <3> QED BY <2>2, <3>1, <3>2 DEF Crossed, StatesInv
  <2> QED BY <1>2, <2>1, <2>2
<1>6. CASE HandleExit
  <2>1. /\ UNCHANGED <<eps, files>>
        /\ \/ UNCHANGED <<rec, segs, states, rows>>
           \/ rec'.start = None /\ (UNCHANGED <<segs, states, rows>> \/ Closes)
    BY <1>6, ExitEffect
  <2>2. CASE rec'.start = None /\ Closes
    <3>1. StatesBacked'
      BY <2>1, <2>2, CloseKeepsBacked DEF Closes
    <3> QED BY <2>2, <3>1 DEF StatesInv
  <2> QED BY <1>2, <2>1, <2>2
<1>7. CASE HandleDeath
  BY <1>2, <1>7, DeathEffect
<1>8. CASE StartReference \/ StartReplay \/ StopRecording
  BY <1>2, <1>8, ControlEffect
<1>9. CASE DeleteSegment
  BY <1>2, <1>9, DeleteEffect
<1> QED BY <1>3, <1>4, <1>5, <1>6, <1>7, <1>8, <1>9 DEF Next

\* However many saves fail, and whatever is recorded or deleted in which order,
\* every state path in the database is the path of a file that was written.
THEOREM StatesAreBacked == Spec => []StatesBacked
<1>1. Init => StatesInv
  BY DEF Init, StatesInv, StatesBacked, Empty, Cleared
<1>2. TypeOK /\ StatesInv /\ [Next]_vars => StatesInv'
  BY StatesStep
<1>3. StatesInv => StatesBacked
  BY DEF StatesInv
<1> QED BY TypeCorrect, <1>1, <1>2, <1>3, PTL DEF Spec

-----------------------------------------------------------------------------
(* The route. *)

Reached(wp) == \E t \in DOMAIN segs : t[2] = wp

\* The checkpoint an armed recorder starts at ends a recorded segment.
RouteInv ==
    /\ RouteConnected
    /\ rec.start # None /\ rec.start.type = "checkpoint"
         => Reached(Waypoint(1, "checkpoint", rec.start.ord, Meaning[rec.start.cond]))

\* The segment that closing at an event makes.
Link(type, ord, level, cond) ==
    <<Waypoint(level, rec.start.type, rec.start.ord, Meaning[rec.start.cond]),
      Waypoint(level, type, ord, Meaning[cond])>>

\* Closing a segment adds it; one from a waypoint to itself is dropped.
LEMMA CloseAdds ==
    ASSUME TypeOK, rec.start # None,
           NEW type, NEW ord, NEW level, NEW cond, NEW at, Close(rec, type, ord, level, cond, at)
    PROVE  LET s == Link(type, ord, level, cond) IN
           \/ s[1] = s[2] /\ UNCHANGED <<segs, rows>>
           \/ DOMAIN segs' = DOMAIN segs \cup {s} /\ Flush(s, rec, at)
<1> DEFINE s == Link(type, ord, level, cond)
<1>1. IF s[1] = s[2] THEN UNCHANGED <<segs, states, rows>>
                     ELSE Upsert(s, rec.run) /\ Attach(s[1], rec.start) /\ Flush(s, rec, at)
  BY DEF Close, Link
<1>2. rec.run \in Nat /\ IsFiniteSet(DOMAIN segs) /\ segs \in [DOMAIN segs -> Segments]
  BY DEF TypeOK, RecOK, Recorders, TableOK
<1> HIDE DEF s
<1>3. Upsert(s, rec.run) => DOMAIN segs' = DOMAIN segs \cup {s}
  BY <1>2, UpsertType
<1>4. \/ s[1] = s[2] /\ UNCHANGED <<segs, rows>>
      \/ DOMAIN segs' = DOMAIN segs \cup {s} /\ Flush(s, rec, at)
  BY <1>1, <1>3
<1> QED BY <1>4 DEF s

\* Closing at level 1 keeps the route connected, and reaches the waypoint it
\* closes at: the segment it adds begins where the recorder was armed.
LEMMA CloseConnects ==
    ASSUME TypeOK, RouteInv, rec.start # None,
           NEW type, NEW ord, NEW cond, NEW at, Close(rec, type, ord, 1, cond, at)
    PROVE  RouteConnected' /\ (type = "checkpoint" => Reached(Waypoint(1, type, ord, Meaning[cond]))')
<1> DEFINE s1 == Waypoint(1, rec.start.type, rec.start.ord, Meaning[rec.start.cond])
           s2 == Waypoint(1, type, ord, Meaning[cond])
           s  == Link(type, ord, 1, cond)
<1>0. s[1] = s1 /\ s[2] = s2
  BY DEF Link
<1>1. (s1 = s2 /\ UNCHANGED segs) \/ DOMAIN segs' = DOMAIN segs \cup {s}
  BY <1>0, CloseAdds
<1>2. s1[2] = rec.start.type /\ s2[2] = type
  BY DEF Waypoint
<1>3. rec.start.type = "checkpoint" => Reached(s1)
  BY DEF RouteInv
<1>4. s[1] = s1 /\ s[2] = s2
  BY <1>0
<1> HIDE DEF s1, s2, s
<1>5. CASE s1 = s2 /\ UNCHANGED segs
  BY <1>2, <1>3, <1>5 DEF RouteInv, RouteConnected, Reached, s2
<1>6. CASE DOMAIN segs' = DOMAIN segs \cup {s}
  <2>1. \A wp : Reached(wp) => Reached(wp)'
    BY <1>6 DEF Reached
  <2>2. Reached(s2)'
    BY <1>4, <1>6 DEF Reached
  <2>3. \A t \in DOMAIN segs : t[1][2] = "checkpoint" => Reached(t[1])
    BY DEF RouteInv, RouteConnected, Reached
  <2>4. ASSUME NEW t \in DOMAIN segs', t[1][2] = "checkpoint" PROVE Reached(t[1])'
    BY <1>2, <1>3, <1>4, <1>6, <2>1, <2>3, <2>4
  <2>5. RouteConnected'
    BY <2>4 DEF RouteConnected, Reached
  <2> QED BY <2>2, <2>5 DEF s2
<1> QED BY <1>1, <1>5, <1>6

LEMMA RouteStep == ASSUME TypeOK, RouteInv, [Next]_vars PROVE RouteInv'
<1>0. RecOK
  BY DEF TypeOK
<1>1. ASSUME DOMAIN segs' = DOMAIN segs, rec'.start = rec.start \/ rec'.start = None
      PROVE  RouteInv'
  BY <1>1 DEF RouteInv, RouteConnected, Reached
<1>2. ASSUME UNCHANGED segs PROVE RouteConnected'
  BY <1>2 DEF RouteInv, RouteConnected
<1>3. CASE GameStep \/ PollResync \/ PollStep \/ HandleSpawn \/ UNCHANGED vars
  BY <1>1, <1>3, Quiet
<1>4. CASE HandleEntrance
  <2>1. /\ UNCHANGED <<segs, states, rows>>
        /\ UNCHANGED <<rec, eps>> \/ \E start \in Starts : Entered(start)
    BY <1>4, EntranceEffect
  <2>2. ASSUME NEW start \in Starts, Entered(start) PROVE RouteInv'
    <3>1. rec'.start = start /\ start.type = "entrance"
      BY <1>0, <2>2, Fields DEF Entered
    <3> QED BY <1>2, <2>1, <3>1 DEF RouteInv
  <2> QED BY <1>1, <2>1, <2>2
<1>5. CASE HandleCheckpoint
  <2>1. \/ UNCHANGED <<rec, eps, segs, states, rows>>
        \/ \E start \in Starts : Crossed(start)
    BY <1>5, CheckpointEffect
  <2>2. ASSUME NEW start \in Starts, Crossed(start) PROVE RouteInv'
    <3>1. rec'.start = start /\ start.type = "checkpoint"
      BY <1>0, <2>2, Fields DEF Crossed
    <3>2. /\ rec.start # None
          /\ Close(rec, "checkpoint", start.ord, 1, start.cond, start.at)
      BY <2>2 DEF Crossed
    <3>3. RouteConnected' /\ Reached(Waypoint(1, "checkpoint", start.ord, Meaning[start.cond]))'
      BY <3>2, CloseConnects
    <3> QED BY <3>1, <3>3 DEF RouteInv, Reached
  <2> QED BY <1>1, <2>1, <2>2
<1>6. CASE HandleExit
  <2>1. \/ UNCHANGED <<rec, segs, states, rows>>
        \/ rec'.start = None /\ (UNCHANGED <<segs, states, rows>> \/ Closes)
    BY <1>6, ExitEffect
  <2>2. CASE rec'.start = None /\ Closes
    <3>1. RouteConnected'
      BY <2>2, CloseConnects DEF Closes
    <3> QED BY <2>2, <3>1 DEF RouteInv
  <2> QED BY <1>1, <2>1, <2>2
<1>7. CASE HandleDeath
  BY <1>1, <1>7, DeathEffect
<1>8. CASE StartReference \/ StartReplay \/ StopRecording
  BY <1>1, <1>8, ControlEffect
<1>9. CASE DeleteSegment
  BY <1>1, <1>9, DeleteEffect
<1> QED BY <1>3, <1>4, <1>5, <1>6, <1>7, <1>8, <1>9 DEF Next

\* Any recording of any passes through the level leaves a connected route: where
\* a segment begins at a checkpoint, one was recorded up to that waypoint, with
\* the same meaning of its conditions.
THEOREM RoutesConnect == Spec => []RouteConnected
<1>1. Init => RouteInv
  BY DEF Init, RouteInv, RouteConnected, Empty, Cleared
<1>2. TypeOK /\ RouteInv /\ [Next]_vars => RouteInv'
  BY RouteStep
<1>3. RouteInv => RouteConnected
  BY DEF RouteInv
<1> QED BY TypeCorrect, <1>1, <1>2, <1>3, PTL DEF Spec

-----------------------------------------------------------------------------
(* Episodes. *)

\* Events wait in the order of their frames.
InOrder == /\ \A i \in 1 .. Len(queue) : queue[i].at <= marks
           /\ \A i, j \in 1 .. Len(queue) : i <= j => queue[i].at <= queue[j].at

Awaits(at) == marks >= at /\ \A i \in 1 .. Len(queue) : queue[i].at >= at

\* What has been buffered, and all that waits, came after the armed start; an
\* armed recorder's episode has no row yet.
Armed ==
    /\ rec.ep = eps /\ \A r \in rows : r.ep < eps
    /\ rec.hot <=> (rec.start.type = "checkpoint")
    /\ rec.first <=> (rec.pend = <<>>)
    /\ \A i \in 1 .. Len(rec.pend) :
          (rec.pend[i].hot <=> (i = 1 /\ rec.hot)) /\ rec.pend[i].at >= rec.start.at
    /\ Awaits(rec.start.at)

EpisodeInv == /\ EpisodesWellFormed /\ InOrder
              /\ \A r \in rows : r.ep \in Nat /\ r.ep <= eps
              /\ rec.start # None => Armed

\* The events of one step count on from the marks before it, in order.
LEMMA StampedOrder ==
    ASSUME NEW evs \in Seq(DetectorEvents), marks \in Nat
    PROVE  LET after == marks + Cardinality({i \in DOMAIN evs : IsMark(evs[i])})
               s == Stamped(evs)
           IN  /\ after >= marks
               /\ \A i \in 1 .. Len(evs) : s[i].at >= marks /\ s[i].at <= after
               /\ \A i, j \in 1 .. Len(evs) : i <= j => s[i].at <= s[j].at
<1> DEFINE M(i) == {j \in 1 .. i : IsMark(evs[j])}
           n == Len(evs)
<1>0. DOMAIN evs = 1 .. n /\ n \in Nat
  OBVIOUS
<1>1. \A i \in Nat : IsFiniteSet(M(i)) /\ Cardinality(M(i)) \in Nat
  <2> TAKE i \in Nat
  <2>1. IsFiniteSet(1 .. i)
    BY FS_Interval
  <2>2. IsFiniteSet(M(i))
    BY <2>1, FS_Subset
  <2> QED BY <2>2, FS_CardinalityType
<1>2. \A i, j \in Nat : i <= j => Cardinality(M(i)) <= Cardinality(M(j))
  <2> SUFFICES ASSUME NEW i \in Nat, NEW j \in Nat, i <= j
               PROVE  Cardinality(M(i)) <= Cardinality(M(j))
    OBVIOUS
  <2>1. M(i) \subseteq M(j)
    OBVIOUS
  <2> QED BY <1>1, <2>1, FS_Subset
<1>3. \A i \in 1 .. n : Stamped(evs)[i].at = marks + Cardinality(M(i))
  BY <1>0 DEF Stamped
<1>4. {i \in DOMAIN evs : IsMark(evs[i])} = M(n)
  BY <1>0
<1> HIDE DEF M, n
<1> DEFINE card(i) == Cardinality(M(i))
<1>5. \A i \in Nat : card(i) \in Nat
  BY <1>1
<1>6. \A i, j \in Nat : i <= j => card(i) <= card(j)
  BY <1>2
<1>7. \A i \in 1 .. n : Stamped(evs)[i].at = marks + card(i)
  BY <1>3
<1>8. marks + Cardinality({i \in DOMAIN evs : IsMark(evs[i])}) = marks + card(n)
  BY <1>4
<1> HIDE DEF card
<1>9. marks + card(n) >= marks
  BY <1>0, <1>5
<1>10. \A i \in 1 .. n : Stamped(evs)[i].at >= marks /\ Stamped(evs)[i].at <= marks + card(n)
  <2> TAKE i \in 1 .. n
  <2>1. i \in Nat /\ i <= n /\ n \in Nat
    BY <1>0
  <2>2. card(i) \in Nat /\ card(n) \in Nat /\ card(i) <= card(n)
    BY <1>5, <1>6, <2>1
  <2> QED BY <1>7, <2>2
<1>11. \A i, j \in 1 .. n : i <= j => Stamped(evs)[i].at <= Stamped(evs)[j].at
  BY <1>0, <1>5, <1>6, <1>7
<1> QED BY <1>8, <1>9, <1>10, <1>11 DEF n

LEMMA Counts ==
    ASSUME NEW q \in Seq(Queued)
    PROVE  Len(q) \in Nat /\ \A i \in 1 .. Len(q) : q[i].at \in Nat
<1>1. \A i \in 1 .. Len(q) : q[i] \in Queued
  OBVIOUS
<1>2. \A x \in Queued : x.at \in Nat
  BY DEF Queued
<1> QED BY <1>1, <1>2

LEMMA PollOrder ==
    ASSUME TypeOK, InOrder, PollStep
    PROVE  InOrder' /\ \A at \in Nat : Awaits(at) => Awaits(at)'
<1> DEFINE evs == StepEvents(det, game.frame)
           s == Stamped(evs)
           after == marks + Cardinality({i \in DOMAIN evs : IsMark(evs[i])})
           m == Len(queue)
           n == Len(evs)
<1>0. marks \in Nat /\ queue \in Seq(Queued) /\ m \in Nat /\ \A i \in 1 .. m : queue[i].at \in Nat
  BY Counts DEF TypeOK, PollOK
<1>1. evs \in Seq(DetectorEvents)
  BY StepEventsType DEF TypeOK, GameOK
<1>2. s \in Seq(Queued) /\ after \in Nat
  BY <1>0, <1>1, StampedType DEF TypeOK
<1>3. Len(s) = n /\ n \in Nat
  <2>1. DOMAIN s = 1 .. n /\ n \in Nat
    BY <1>1 DEF Stamped
  <2> QED BY <1>2, <2>1, LenProperties
<1>4. queue' = queue \o s /\ marks' = after
  BY DEF PollStep
<1>5. /\ after >= marks
      /\ \A i \in 1 .. n : s[i].at >= marks /\ s[i].at <= after
      /\ \A i, j \in 1 .. n : i <= j => s[i].at <= s[j].at
  BY <1>0, <1>1, StampedOrder
<1> HIDE DEF evs, s, after, m, n
<1>6. /\ Len(queue') = m + n
      /\ \A i \in 1 .. m + n : queue'[i] = IF i <= m THEN queue[i] ELSE s[i - m]
  BY <1>0, <1>2, <1>3, <1>4, ConcatProperties DEF m
<1>7. /\ \A i \in 1 .. m : queue[i].at <= marks
      /\ \A i, j \in 1 .. m : i <= j => queue[i].at <= queue[j].at
  BY DEF InOrder, m
<1>8. \A i \in 1 .. n : s[i].at \in Nat
  BY <1>2, <1>3, Counts
<1>9. ASSUME NEW i \in 1 .. m + n
      PROVE  /\ queue'[i].at \in Nat /\ queue'[i].at <= after
             /\ i > m => queue'[i].at >= marks
  <2>1. CASE i <= m
    BY <1>0, <1>2, <1>5, <1>6, <1>7, <2>1
  <2>2. CASE i > m
    <3>1. i - m \in 1 .. n /\ queue'[i] = s[i - m]
      BY <1>0, <1>3, <1>6, <2>2
    <3> QED BY <1>5, <1>8, <3>1
  <2> QED BY <1>0, <2>1, <2>2
<1>10. ASSUME NEW i \in 1 .. m + n, NEW j \in 1 .. m + n, i <= j
       PROVE  queue'[i].at <= queue'[j].at
  <2>1. CASE j <= m
    BY <1>0, <1>3, <1>6, <1>7, <1>10, <2>1
  <2>2. CASE i <= m /\ j > m
    BY <1>0, <1>3, <1>6, <1>7, <1>9, <2>2
  <2>3. CASE i > m
    <3>1. /\ i - m \in 1 .. n /\ queue'[i] = s[i - m] /\ j - m \in 1 .. n
          /\ queue'[j] = s[j - m] /\ i - m <= j - m
      BY <1>0, <1>3, <1>6, <1>10, <2>3
    <3> QED BY <1>5, <3>1
  <2> QED BY <1>0, <1>3, <2>1, <2>2, <2>3
<1>11. InOrder'
  BY <1>4, <1>6, <1>9, <1>10 DEF InOrder
<1>12. ASSUME NEW at \in Nat, Awaits(at) PROVE Awaits(at)'
  <2>1. marks >= at /\ \A i \in 1 .. m : queue[i].at >= at
    BY <1>12 DEF Awaits, m
  <2>2. after >= at
    BY <1>0, <1>2, <1>5, <2>1
  <2>3. ASSUME NEW i \in 1 .. m + n PROVE queue'[i].at >= at
    <3>1. CASE i <= m
      BY <1>0, <1>3, <1>6, <2>1, <3>1
    <3>2. CASE i > m
      BY <1>0, <1>9, <2>1, <3>2
    <3> QED BY <1>0, <1>3, <3>1, <3>2
  <2> QED BY <1>4, <1>6, <2>2, <2>3 DEF Awaits
<1> QED BY <1>11, <1>12

\* Taking an event leaves the ones that came after it.
LEMMA TakeOrder ==
    ASSUME TypeOK, InOrder, NEW kind, Next1(kind)
    PROVE  /\ InOrder' /\ \A at \in {Head(queue).at} : Awaits(at)'
           /\ \A at \in Nat : Awaits(at) => Awaits(at)' /\ Head(queue).at >= at
<1> DEFINE m == Len(queue)
           k == Len(queue')
<1>0. queue \in Seq(Queued) /\ queue # <<>> /\ queue' = Tail(queue) /\ marks' = marks
      /\ marks \in Nat
  BY DEF TypeOK, PollOK, Next1
<1>1. m \in Nat /\ m > 0 /\ k = m - 1 /\ Head(queue) = queue[1]
  BY <1>0, HeadTailProperties
<1>2. \A i \in 1 .. k : queue'[i] = queue[i + 1]
  BY <1>0, HeadTailProperties
<1>3. /\ \A i \in 1 .. m : queue[i].at <= marks
      /\ \A i, j \in 1 .. m : i <= j => queue[i].at <= queue[j].at
  BY DEF InOrder
<1>4. \A i \in 1 .. m : queue[i].at \in Nat
  BY <1>0, Counts
<1>5. k \in Nat /\ \A i \in 1 .. k : i \in 1 .. m /\ i + 1 \in 1 .. m
  BY <1>1
<1> HIDE DEF m, k
<1>6. InOrder'
  <2>1. \A i \in 1 .. k : queue'[i].at <= marks'
    BY <1>0, <1>2, <1>3, <1>5
  <2>2. \A i, j \in 1 .. k : i <= j => queue'[i].at <= queue'[j].at
    BY <1>2, <1>3, <1>5
  <2> QED BY <2>1, <2>2 DEF InOrder, k
<1>7. \A at \in {Head(queue).at} : Awaits(at)'
  <2>0. 1 \in 1 .. m
    BY <1>1
  <2>1. \A i \in 1 .. k : queue'[i].at >= queue[1].at
    BY <1>2, <1>3, <1>4, <1>5, <2>0
  <2>2. marks' >= queue[1].at
    BY <1>0, <1>3, <2>0
  <2> QED BY <1>1, <2>1, <2>2 DEF Awaits, k
<1>8. ASSUME NEW at \in Nat, Awaits(at) PROVE Awaits(at)' /\ Head(queue).at >= at
  <2>1. marks >= at /\ \A i \in 1 .. m : queue[i].at >= at
    BY <1>8 DEF Awaits, m
  <2>2. \A i \in 1 .. k : queue'[i].at >= at
    BY <1>2, <1>5, <2>1
  <2>3. Awaits(at)'
    BY <1>0, <2>1, <2>2 DEF Awaits, k
  <2> QED BY <1>1, <2>1, <2>3
<1> QED BY <1>6, <1>7, <1>8

\* The rows of one episode, as they are flushed.
Row(s, i, evs, n) == [ep |-> rec.ep, n |-> i, seg |-> s, run |-> rec.run, src |-> rec.src,
                      out |-> IF i = n THEN "survived" ELSE "died",
                      hot |-> evs[i].hot, at |-> evs[i].at, from |-> rec.start.at]
Flushed(s, evs, n) == {Row(s, i, evs, n) : i \in 1 .. n}

LEMMA RowsCounted ==
    ASSUME NEW s, NEW evs, NEW n \in Nat
    PROVE  /\ Cardinality(Flushed(s, evs, n)) = n
           /\ {x.n : x \in Flushed(s, evs, n)} = 1 .. n
<1> DEFINE new == Flushed(s, evs, n)
           f   == [i \in 1 .. n |-> Row(s, i, evs, n)]
<1>1. \A i \in 1 .. n : Row(s, i, evs, n).n = i
  BY DEF Row
<1> USE DEF Flushed
<1>2. f \in [1 .. n -> new] /\ \A i, j \in 1 .. n : f[i] = f[j] => i = j
  BY <1>1
<1>3. \A x \in new : \E i \in 1 .. n : f[i] = x
  OBVIOUS
<1>4. {x.n : x \in new} = 1 .. n
  BY <1>1
<1> HIDE DEF f, new
<1>5. f \in Bijection(1 .. n, new)
  BY <1>2, <1>3, Fun_IsBij
<1>6. ExistsBijection(1 .. n, new)
  BY <1>5 DEF ExistsBijection
<1>7. IsFiniteSet(1 .. n) /\ Cardinality(1 .. n) = n
  BY FS_Interval
<1>8. Cardinality(new) = n
  BY <1>6, <1>7, FS_Bijection
<1> QED BY <1>4, <1>8 DEF new

\* One row among the rows of its episode.
InEpisode(r, episode) ==
    /\ \A x \in episode : x.seg = r.seg /\ x.run = r.run
    /\ {x.n : x \in episode} = 1 .. Cardinality(episode)
    /\ (r.out = "survived") <=> (r.n = Cardinality(episode))
    /\ \A x \in episode : x.at >= x.from
    /\ r.hot <=> (r.n = 1 /\ r.seg[1][2] = "checkpoint")

LEMMA WellFormedIs ==
    EpisodesWellFormed <=> \A r \in rows : InEpisode(r, {x \in rows : x.ep = r.ep})
BY DEF EpisodesWellFormed, InEpisode

\* Flushing an armed recorder adds a whole episode, under an id no row had.
LEMMA FlushEpisode ==
    ASSUME TypeOK, EpisodeInv, rec.start # None,
           NEW s, s[1][2] = rec.start.type, NEW at \in Nat, at >= rec.start.at,
           Flush(s, rec, at)
    PROVE  EpisodesWellFormed' /\ \A r \in rows' : r.ep \in Nat /\ r.ep <= eps
<1> DEFINE tag == Tag(rec, at)
           evs == Append(rec.pend, tag)
           n   == Len(rec.pend) + 1
           new == Flushed(s, evs, n)
<1>0. /\ rec.pend \in Seq(Tags) /\ rec.start.at \in Nat /\ eps \in Nat
      /\ rec.first \in BOOLEAN /\ rec.hot \in BOOLEAN
  BY DEF TypeOK, RecOK, Recorders, Starts
<1>1. Armed
  BY DEF EpisodeInv
<1>2. tag \in Tags /\ tag.at = at /\ (tag.hot <=> (rec.first /\ rec.hot))
  <2>1. (rec.first /\ rec.hot) \in BOOLEAN
    OBVIOUS
  <2> QED BY <2>1 DEF Tag, Tags
<1>3. Len(rec.pend) \in Nat /\ (rec.pend = <<>> <=> Len(rec.pend) = 0)
  BY <1>0, EmptySeq
<1> HIDE DEF tag
<1>4. /\ evs \in Seq(Tags) /\ Len(evs) = n
      /\ \A i \in 1 .. Len(rec.pend) : evs[i] = rec.pend[i]
      /\ evs[n] = tag
  BY <1>0, <1>2, AppendProperties
<1>5. DOMAIN evs = 1 .. n
  BY <1>4
<1> HIDE DEF evs
<1>6. ASSUME NEW i \in 1 .. n
      PROVE  evs[i].at >= rec.start.at /\ (evs[i].hot <=> (i = 1 /\ rec.start.type = "checkpoint"))
  <2>1. CASE i \in 1 .. Len(rec.pend)
    BY <1>1, <1>4, <2>1 DEF Armed
  <2>2. CASE i = n
    <3>1. i = 1 <=> rec.first
      BY <1>1, <1>3, <2>2 DEF Armed
    <3> QED BY <1>1, <1>2, <1>4, <2>2, <3>1 DEF Armed
  <2> QED BY <1>3, <2>1, <2>2
<1>7. rows' = rows \cup new
  BY <1>4, <1>5 DEF Flush, Flushed, Row, evs, tag
<1>8. n \in Nat /\ n >= 1
  BY <1>3
<1> HIDE DEF n
<1>9. Cardinality(new) = n /\ {x.n : x \in new} = 1 .. n
  BY <1>8, RowsCounted
<1>10. ASSUME NEW x \in new
       PROVE  /\ x.ep = eps /\ x.seg = s /\ x.run = rec.run /\ x.n \in 1 .. n
              /\ (x.out = "survived" <=> x.n = n) /\ x.at >= x.from
              /\ (x.hot <=> (x.n = 1 /\ rec.start.type = "checkpoint"))
  <2>1. PICK i \in 1 .. n : x = Row(s, i, evs, n)
    BY DEF Flushed
  <2>2. /\ x.ep = rec.ep /\ x.seg = s /\ x.run = rec.run /\ x.n = i
        /\ x.out = (IF i = n THEN "survived" ELSE "died")
        /\ x.hot = evs[i].hot /\ x.at = evs[i].at /\ x.from = rec.start.at
    BY <2>1 DEF Row
  <2>3. rec.ep = eps
    BY <1>1 DEF Armed
  <2> QED BY <1>6, <2>2, <2>3
<1> HIDE DEF new
<1>11. \A r \in rows : r.ep \in Nat /\ r.ep < eps
  BY <1>1 DEF Armed, EpisodeInv
<1>12. \A r \in rows' : r.ep \in Nat /\ r.ep <= eps
  BY <1>0, <1>7, <1>10, <1>11
<1>13. ASSUME NEW r \in rows' PROVE InEpisode(r, {x \in rows' : x.ep = r.ep})
  <2>1. CASE r \in rows
    <3>1. {x \in rows' : x.ep = r.ep} = {x \in rows : x.ep = r.ep}
      BY <1>0, <1>7, <1>10, <1>11, <2>1
    <3> QED BY <2>1, <3>1, WellFormedIs DEF EpisodeInv
  <2>2. CASE r \in new
    <3>1. {x \in rows' : x.ep = r.ep} = new
      BY <1>0, <1>7, <1>10, <1>11, <2>2
    <3>2. InEpisode(r, new)
      <4>1. \A x \in new : x.seg = r.seg /\ x.run = r.run
        BY <1>10, <2>2
      <4>2. (r.out = "survived") <=> (r.n = Cardinality(new))
        BY <1>9, <1>10, <2>2
      <4>3. r.hot <=> (r.n = 1 /\ r.seg[1][2] = "checkpoint")
        BY <1>10, <2>2
      <4> QED BY <1>9, <1>10, <4>1, <4>2, <4>3 DEF InEpisode
    <3> QED BY <3>1, <3>2
  <2> QED BY <1>7, <2>1, <2>2
<1>14. EpisodesWellFormed'
  BY <1>13 DEF EpisodesWellFormed, InEpisode
<1> QED BY <1>12, <1>14

LEMMA CloseEpisode ==
    ASSUME TypeOK, EpisodeInv, rec.start # None, NEW at \in Nat, at >= rec.start.at,
           NEW type, NEW ord, NEW level, NEW cond, Close(rec, type, ord, level, cond, at)
    PROVE  EpisodesWellFormed' /\ \A r \in rows' : r.ep \in Nat /\ r.ep <= eps
<1> DEFINE s == Link(type, ord, level, cond)
<1>1. s[1][2] = rec.start.type
  BY DEF Link, Waypoint
<1>2. UNCHANGED rows \/ Flush(s, rec, at)
  BY CloseAdds
<1> HIDE DEF s
<1>3. CASE UNCHANGED rows
  BY <1>3 DEF EpisodesWellFormed, EpisodeInv
<1>4. CASE Flush(s, rec, at)
  BY <1>1, <1>4, FlushEpisode
<1> QED BY <1>2, <1>3, <1>4

\* A recorder armed by the event that is taken.
LEMMA FreshlyArmed ==
    ASSUME TypeOK, NEW start \in Starts, NEW hot \in BOOLEAN,
           hot <=> (start.type = "checkpoint"), Awaits(start.at)',
           \A r \in rows' : r.ep \in Nat /\ r.ep <= eps,
           rec' = Arm(rec, start, hot), eps' = eps + 1
    PROVE  Armed' /\ \A r \in rows' : r.ep \in Nat /\ r.ep <= eps'
<1>0. eps \in Nat /\ RecOK
  BY DEF TypeOK, RecOK
<1>1. /\ rec'.start = start /\ rec'.ep = eps + 1 /\ rec'.pend = <<>> /\ rec'.first = TRUE
      /\ rec'.hot = hot
  BY <1>0, Fields
<1>2. \A r \in rows' : r.ep < eps' /\ r.ep <= eps'
  BY <1>0
<1>3. Len(<<>>) = 0 /\ 1 .. 0 = {}
  OBVIOUS
<1>4. \A i \in 1 .. Len(rec'.pend) : FALSE
  BY <1>1, <1>3
<1>5. Armed'
  BY <1>1, <1>2, <1>4 DEF Armed, Awaits
<1> QED BY <1>2, <1>5

LEMMA EpisodeStep == ASSUME TypeOK, EpisodeInv, [Next]_vars PROVE EpisodeInv'
<1>0. /\ RecOK /\ eps \in Nat /\ EpisodesWellFormed /\ InOrder
      /\ \A r \in rows : r.ep \in Nat /\ r.ep <= eps
      /\ rec.start # None => Armed /\ rec.start.at \in Nat
  BY DEF TypeOK, RecOK, EpisodeInv, Recorders, Starts
<1>1. ASSUME UNCHANGED <<rows, eps>>
      PROVE  EpisodesWellFormed' /\ \A r \in rows' : r.ep \in Nat /\ r.ep <= eps'
  BY <1>0, <1>1 DEF EpisodesWellFormed
<1>2. ASSUME UNCHANGED <<rec, rows, eps>>, InOrder', \A at \in Nat : Awaits(at) => Awaits(at)'
      PROVE  EpisodeInv'
  <2>1. rec'.start # None => Armed'
    BY <1>0, <1>2 DEF Armed
  <2> QED BY <1>1, <1>2, <2>1 DEF EpisodeInv
<1>3. ASSUME UNCHANGED <<queue, marks>> PROVE InOrder' /\ \A at \in Nat : Awaits(at) => Awaits(at)'
  BY <1>0, <1>3 DEF InOrder, Awaits
<1>4. CASE GameStep \/ PollResync \/ UNCHANGED vars
  <2>1. UNCHANGED <<queue, marks>>
    BY <1>4, GameFrames DEF PollResync, vars, TypeOK
  <2> QED BY <1>2, <1>3, <1>4, <2>1, Quiet
<1>5. CASE PollStep
  BY <1>0, <1>2, <1>5, PollOrder, Quiet
<1>6. CASE HandleSpawn
  BY <1>0, <1>2, <1>6, TakeOrder, Quiet DEF HandleSpawn
<1>7. CASE HandleEntrance
  <2>0. Next1("entrance")
    BY <1>7 DEF HandleEntrance
  <2>1. /\ UNCHANGED <<segs, states, rows>>
        /\ UNCHANGED <<rec, eps>> \/ \E start \in Starts : Entered(start)
    BY <1>7, EntranceEffect
  <2>2. /\ InOrder' /\ \A at \in {Head(queue).at} : Awaits(at)'
        /\ \A at \in Nat : Awaits(at) => Awaits(at)'
    BY <1>0, <2>0, TakeOrder
  <2>3. ASSUME NEW start \in Starts, Entered(start) PROVE EpisodeInv'
    <3>1. Awaits(start.at)'
      BY <2>2, <2>3 DEF Entered
    <3>2. Armed' /\ \A r \in rows' : r.ep \in Nat /\ r.ep <= eps'
      BY <1>0, <2>1, <2>3, <3>1, FreshlyArmed DEF Entered
    <3>3. EpisodesWellFormed'
      BY <1>0, <2>1 DEF EpisodesWellFormed
    <3> QED BY <2>2, <3>2, <3>3 DEF EpisodeInv
  <2> QED BY <1>2, <2>1, <2>2, <2>3
<1>8. CASE HandleCheckpoint
  <2>0. Next1("checkpoint")
    BY <1>8 DEF HandleCheckpoint
  <2>1. \/ UNCHANGED <<rec, eps, segs, states, rows>>
        \/ \E start \in Starts : Crossed(start)
    BY <1>8, CheckpointEffect
  <2>2. /\ InOrder' /\ \A at \in {Head(queue).at} : Awaits(at)'
        /\ \A at \in Nat : Awaits(at) => Awaits(at)' /\ Head(queue).at >= at
    BY <1>0, <2>0, TakeOrder
  <2>3. ASSUME NEW start \in Starts, Crossed(start) PROVE EpisodeInv'
    <3>1. Awaits(start.at)'
      BY <2>2, <2>3 DEF Crossed
    <3>2. rec.start # None /\ start.at \in Nat /\ start.at >= rec.start.at
      BY <1>0, <2>2, <2>3 DEF Crossed, Armed, Starts
    <3>3. Close(rec, "checkpoint", start.ord, 1, start.cond, start.at)
      BY <2>3 DEF Crossed
    <3>4. EpisodesWellFormed' /\ \A r \in rows' : r.ep \in Nat /\ r.ep <= eps
      BY <3>2, <3>3, CloseEpisode
    <3>5. Armed' /\ \A r \in rows' : r.ep \in Nat /\ r.ep <= eps'
      BY <2>3, <3>1, <3>4, FreshlyArmed DEF Crossed
    <3> QED BY <2>2, <3>4, <3>5 DEF EpisodeInv
  <2> QED BY <1>2, <2>1, <2>2, <2>3
<1>9. CASE HandleExit
  <2>0. Next1("exit")
    BY <1>9 DEF HandleExit
  <2>1. /\ UNCHANGED eps
        /\ \/ UNCHANGED <<rec, segs, states, rows>>
           \/ rec'.start = None /\ (UNCHANGED <<segs, states, rows>> \/ Closes)
    BY <1>9, ExitEffect
  <2>2. /\ InOrder' /\ Head(queue).at \in Nat
        /\ \A at \in Nat : Awaits(at) => Awaits(at)' /\ Head(queue).at >= at
    BY <1>0, <2>0, TakeOrder, TakesEvent
  <2>3. CASE rec'.start = None /\ Closes
    <3>1. rec.start # None /\ Head(queue).at >= rec.start.at
      BY <1>0, <2>2, <2>3 DEF Closes, Armed
    <3>2. EpisodesWellFormed' /\ \A r \in rows' : r.ep \in Nat /\ r.ep <= eps
      BY <2>2, <2>3, <3>1, CloseEpisode DEF Closes
    <3> QED BY <2>1, <2>2, <2>3, <3>2 DEF EpisodeInv
  <2>4. CASE rec'.start = None /\ UNCHANGED <<segs, states, rows>>
    BY <1>1, <2>1, <2>2, <2>4 DEF EpisodeInv
  <2> QED BY <1>2, <2>1, <2>2, <2>3, <2>4
<1>10. CASE HandleDeath
  <2>0. Next1("death")
    BY <1>10 DEF HandleDeath
  <2>1. /\ UNCHANGED <<eps, rows>> /\ rec'.start = rec.start
        /\ \/ UNCHANGED rec
           \/ rec' = [rec EXCEPT !.pend = Append(@, Tag(rec, Head(queue).at)), !.first = FALSE]
    BY <1>10, DeathEffect
  <2>2. /\ InOrder' /\ Head(queue).at \in Nat
        /\ \A at \in Nat : Awaits(at) => Awaits(at)' /\ Head(queue).at >= at
    BY <1>0, <2>0, TakeOrder, TakesEvent
  <2>3. CASE rec' = [rec EXCEPT !.pend = Append(@, Tag(rec, Head(queue).at)), !.first = FALSE]
    <3> SUFFICES ASSUME rec.start # None PROVE Armed'
      BY <1>1, <2>1, <2>2 DEF EpisodeInv
    <3> DEFINE tag == Tag(rec, Head(queue).at)
               m   == Len(rec.pend)
    <3>1. /\ rec \in Recorders /\ rec.pend \in Seq(Tags) /\ rec.first \in BOOLEAN
          /\ rec.hot \in BOOLEAN /\ m \in Nat /\ (rec.pend = <<>> <=> m = 0)
      BY EmptySeq DEF TypeOK, RecOK, Recorders
    <3>2. tag \in Tags /\ tag.at = Head(queue).at /\ (tag.hot <=> (rec.first /\ rec.hot))
      <4>1. (rec.first /\ rec.hot) \in BOOLEAN
        OBVIOUS
      <4> QED BY <2>2, <4>1 DEF Tag, Tags
    <3>3. rec' = [rec EXCEPT !.pend = Append(rec.pend, tag), !.first = FALSE]
      BY <2>3
    <3> HIDE DEF tag
    <3>4. /\ rec'.pend = Append(rec.pend, tag) /\ rec'.first = FALSE /\ rec'.hot = rec.hot
          /\ rec'.ep = rec.ep
      BY <3>1, <3>3 DEF Recorders
    <3>5. /\ Len(rec'.pend) = m + 1 /\ rec'.pend # <<>>
          /\ \A i \in 1 .. m : rec'.pend[i] = rec.pend[i]
          /\ rec'.pend[m + 1] = tag
      BY <3>1, <3>2, <3>4, AppendProperties
    <3>6. Armed
      BY <1>0
    <3> HIDE DEF m
    <3>7. ASSUME NEW i \in 1 .. m + 1
          PROVE  (rec'.pend[i].hot <=> (i = 1 /\ rec.hot)) /\ rec'.pend[i].at >= rec.start.at
      <4>1. CASE i \in 1 .. m
        BY <3>5, <3>6, <4>1 DEF Armed, m
      <4>2. CASE i = m + 1
        <5>1. i = 1 <=> rec.first
          BY <3>1, <3>6, <4>2 DEF Armed
        <5>2. rec'.pend[i] = tag /\ Awaits(rec.start.at)
          BY <3>5, <3>6, <4>2 DEF Armed
        <5> QED BY <1>0, <2>2, <3>2, <5>1, <5>2
      <4> QED BY <3>1, <4>1, <4>2
    <3>8. Awaits(rec.start.at)'
      BY <1>0, <2>1, <2>2, <3>6 DEF Armed
    <3>9. rec'.ep = eps' /\ \A r \in rows' : r.ep < eps'
      BY <2>1, <3>4, <3>6 DEF Armed
    <3>10. rec'.hot <=> (rec'.start.type = "checkpoint")
      BY <2>1, <3>4, <3>6 DEF Armed
    <3> QED BY <2>1, <3>4, <3>5, <3>7, <3>8, <3>9, <3>10 DEF Armed
  <2> QED BY <1>2, <2>1, <2>2, <2>3
<1>11. CASE StartReference \/ StartReplay \/ StopRecording
  <2>1. rec'.start = None /\ UNCHANGED <<eps, segs, states, files, rows, queue, marks>>
    BY <1>11, ControlEffect
  <2> QED BY <1>1, <1>3, <2>1 DEF EpisodeInv
<1>12. CASE DeleteSegment
  BY <1>2, <1>3, <1>12, DeleteEffect
<1> QED BY <1>4, <1>5, <1>6, <1>7, <1>8, <1>9, <1>10, <1>11, <1>12 DEF Next

\* Whatever passes are aborted, dropped or replayed, and however late the events
\* are handled, the rows of an episode are its deaths and one survival of one
\* segment, all of events after the episode began, numbered from 1, and only the
\* first of an episode from a checkpoint claims carried-over state.
THEOREM EpisodesAreWhole == Spec => []EpisodesWellFormed
<1>1. Init => EpisodeInv
  <2> SUFFICES ASSUME Init PROVE EpisodeInv
    OBVIOUS
  <2>1. rows = {} /\ queue = <<>> /\ marks = 0 /\ rec.start = None
    BY DEF Init, Cleared
  <2>2. InOrder
    BY <2>1 DEF InOrder
  <2> QED BY <2>1, <2>2 DEF EpisodeInv, EpisodesWellFormed
<1>2. TypeOK /\ EpisodeInv /\ [Next]_vars => EpisodeInv'
  BY EpisodeStep
<1>3. EpisodeInv => EpisodesWellFormed
  BY DEF EpisodeInv
<1> QED BY TypeCorrect, <1>1, <1>2, <1>3, PTL DEF Spec
================================================================================
