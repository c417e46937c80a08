-------------------------- MODULE TransitionDetector --------------------------
(***************************************************************************)
(* What the backend reads out of one polled frame: the predicates over two *)
(* consecutive snapshots, one step of TransitionDetector, and one step of  *)
(* ColdFillSpawnDetector.  Both detectors are pure: a record in, a record  *)
(* and the events of the frame out.  SegmentRecorder and ColdFill give     *)
(* them their frames.                                                      *)
(*                                                                         *)
(* A snapshot keeps of each byte what the predicates tell apart.  Frame    *)
(* numbers, elapsed times and trace signatures are left out.               *)
(***************************************************************************)
EXTENDS Naturals, Sequences

CONSTANT None            \* "no value": Python's None

\* splash: level_start = 1; dead: player_anim = 9; exiting: exit_mode # 0.
Snapshot(Levels, Rooms) ==
    [level : Levels, room : Rooms, splash : BOOLEAN, dead : BOOLEAN,
     exiting : BOOLEAN, io : {"none", "goal", "orb", "key", "fadeout"},
     fanfare : BOOLEAN, boss : BOOLEAN, midway : BOOLEAN, cpe : Rooms]

-----------------------------------------------------------------------------
(* predicates.py *)

DeathFrame(p, c) == c.dead /\ ~p.dead
ExitFrame(p, c)  == c.exiting /\ ~p.exiting
Splash(p, c)     == c.splash /\ ~p.splash
FastRetry(p, c)  == c.splash /\ p.dead /\ ~c.dead

GoalType(c) == IF c.io \in {"key", "orb"} THEN c.io
               ELSE IF c.fanfare /\ c.boss THEN "boss"
               ELSE IF c.fanfare \/ c.io = "goal" THEN "normal"
               ELSE "abort"

\* A midway tape, or a respawn room other than the room the level was entered
\* in; never on a frame that also shows a goal.
CheckpointHit(p, c, firstRoom) ==
    /\ ~c.fanfare /\ c.io = "none"
    /\ \/ c.midway /\ ~p.midway
       \/ /\ c.level # 0
          /\ c.cpe # p.cpe
          /\ ~(c.cpe = firstRoom /\ p.cpe # firstRoom)

\* "none" when nothing was finished on this frame.
Finish(p, c) ==
    LET fanfare == c.fanfare /\ ~p.fanfare IN
    IF fanfare /\ ~c.boss /\ c.io # "orb" THEN "normal"
    ELSE IF fanfare /\ c.boss THEN "boss"
    ELSE IF c.io = "orb" /\ p.io # "orb" /\ ~c.boss THEN "orb"
    ELSE IF c.io = "key" /\ p.io # "key" THEN "key"
    ELSE "none"

-----------------------------------------------------------------------------
(* detector.py *)

NewDetector == [prev |-> None, died |-> FALSE, ord |-> 0, firstRoom |-> 0,
                cpAcquired |-> FALSE, finished |-> FALSE,
                replayPending |-> FALSE, force |-> FALSE]

MarkReplayEntrance(d) == [d EXCEPT !.replayPending = TRUE]

\* The loaded snapshot becomes the previous frame; a replay that was marked is
\* armed to enter its level on the next frame.
Resync(d, c) == [NewDetector EXCEPT !.prev = c,
                                    !.force = d.force \/ d.replayPending]

\* The events of a frame, in the order they are appended.
FrameEvents(d, c) ==
    LET p        == d.prev
        death    == DeathFrame(p, c) /\ ~d.died
        died     == d.died \/ death
        room     == IF c.level # p.level \/ (Splash(p, c) /\ ~died)
                    THEN c.room ELSE d.firstRoom
        cp       == CheckpointHit(p, c, room)
        ord      == IF cp THEN d.ord + 1 ELSE d.ord
        finish   == IF d.finished THEN "none" ELSE Finish(p, c)
        leaves   == finish # "none" \/ ExitFrame(p, c)
        enters   == /\ Splash(p, c) \/ (died /\ FastRetry(p, c)) \/ d.force
                    /\ ~leaves
        respawns == enters /\ died /\ ~d.force
        goal     == IF finish # "none" THEN finish ELSE GoalType(c)
    IN  [death |-> death, cp |-> cp, leaves |-> leaves,
         exit  |-> finish # "none" \/ (ExitFrame(p, c) /\ ~d.finished),
         enters |-> enters, respawns |-> respawns, room |-> room,
         ord |-> ord, goal |-> goal, finish |-> finish,
         cold |-> d.cpAcquired \/ cp]

Emits(f, c) ==
    (IF f.death THEN <<[k |-> "death", level |-> c.level]>> ELSE <<>>)
    \o (IF f.cp THEN <<[k |-> "checkpoint", level |-> c.level, ord |-> f.ord]>>
                ELSE <<>>)
    \o (IF f.exit THEN <<[k |-> "exit", level |-> c.level, goal |-> f.goal]>>
                  ELSE <<>>)
    \o (IF f.respawns
        THEN <<[k |-> "spawn", level |-> c.level, cold |-> f.cold,
                ord |-> f.ord, seg |-> None]>>
        ELSE IF f.enters
        THEN <<[k |-> "entrance", level |-> c.level, room |-> c.room]>>
        ELSE <<>>)

\* One frame: the detector after it.
Step(d, c) ==
    IF d.prev = None THEN [d EXCEPT !.prev = c]
    ELSE LET f     == FrameEvents(d, c)
             fresh == f.enters /\ ~f.respawns
         IN  [d EXCEPT !.prev = c,
                       !.died = (d.died \/ f.death) /\ ~f.enters,
                       !.ord = IF fresh THEN 0 ELSE f.ord,
                       !.firstRoom = IF f.cp THEN 0 ELSE f.room,
                       !.cpAcquired = f.cold /\ ~f.enters,
                       !.finished = (d.finished \/ f.finish # "none") /\ ~fresh,
                       !.force = FALSE]

StepEvents(d, c) == IF d.prev = None THEN <<>> ELSE Emits(FrameEvents(d, c), c)

-----------------------------------------------------------------------------
(* cold_fill_detector.py *)

\* seg is the segment it watches, None while it is not active.
IdleCold == [seg |-> None, waiting |-> FALSE, dead |-> FALSE,
             splash |-> FALSE, exiting |-> FALSE]

ActivateCold(seg) == [IdleCold EXCEPT !.seg = seg]

Follow(cf, c) == [cf EXCEPT !.dead = c.dead, !.splash = c.splash,
                            !.exiting = c.exiting]

ResyncCold(cf, c) == [Follow(cf, c) EXCEPT !.waiting = FALSE]

\* A death by sprite, or a fall: leaving the level without a goal.
ColdDeath(cf, c) == \/ c.dead /\ ~cf.dead
                    \/ /\ c.exiting /\ ~cf.exiting
                       /\ ~c.fanfare /\ c.io \notin {"goal", "orb", "key"}

\* A mistake: a respawn without a level reload is not recognised.
ColdRespawn_Edges(cf, c) == \/ c.splash /\ ~cf.splash
                            \/ c.splash /\ cf.dead /\ ~c.dead

ColdRespawn(cf, c) == \/ c.splash /\ ~cf.splash
                      \/ c.splash /\ cf.dead /\ ~c.dead
                      \/ ~c.exiting /\ ~c.dead

\* A mistake: the spawn is reported without a death before it.
ColdSpawns_AtOnce(cf, c) == cf.seg # None /\ ColdRespawn(cf, c)

ColdSpawns(cf, c) == cf.seg # None /\ cf.waiting /\ ColdRespawn(cf, c)

StepCold(cf, c) ==
    IF cf.seg = None THEN cf
    ELSE IF ColdSpawns(cf, c)
    THEN [Follow(cf, c) EXCEPT !.seg = None, !.waiting = FALSE]
    ELSE [Follow(cf, c) EXCEPT !.waiting = cf.waiting \/ ColdDeath(cf, c)]
==============================================================================
