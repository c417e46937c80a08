------------------------------- MODULE ColdFill -------------------------------
(***************************************************************************)
(* Capturing cold save states: ColdFillController and FillGapController,   *)
(* the loads and saves they await, the emulator that executes them, the    *)
(* poller that watches it and the ColdFillSpawnDetector that tells when    *)
(* the player has died and respawned.                                      *)
(*                                                                         *)
(* The event loop, the request of a user, each load (a worker thread), the *)
(* emulator and its player are concurrent.  The poller is a task of the    *)
(* event loop: between its read of the frame and its look at state_version *)
(* no handler or request runs, but threads and the emulator do.            *)
(***************************************************************************)
EXTENDS TransitionDetector, FiniteSetsExt

CONSTANTS Gaps,          \* the segments without a cold state, in order
          Exiting,       \* those whose hot state was taken with exit_mode # 0
          Present,       \* the sets of segments whose hot file may be on disk
          Patient,       \* do user and player wait for what is in flight?
          SaveFails,     \* may a save fail (StateSaveTimeoutError)?
          LoadFails,     \* may a load be rejected (StateLoadError)?
          MaxSpawns      \* bound: waiting spawns before the player stands still

Segs == {Gaps[i] : i \in DOMAIN Gaps}

ASSUME ColdFillAssumption ==
    /\ Gaps \in Seq(Segs) /\ Len(Gaps) = Cardinality(Segs) /\ None \notin Segs
    /\ Exiting \subseteq Segs /\ Present \subseteq SUBSET Segs
    /\ MaxSpawns \in Nat \ {0} /\ {Patient, SaveFails, LoadFails} \subseteq BOOLEAN

VARIABLES
    game,      \* the emulator: its frame, whose waypoint it is at, lived through
    slot,      \* the reserved slot file: the segment staged in it, or None
    pending,   \* has RetroArch a LOAD_STATE_SLOT to execute?
    hot,       \* segments whose hot state file is on disk
    saved,     \* cold state files: path to what the state in it shows
    rows,      \* cold rows of waypoint_save_states
    bumped,    \* state_version differs from the poller's last
    snap,      \* the frame the poller has read, None between its ticks
    det, cf,   \* TransitionDetector, ColdFillSpawnDetector
    spawns,    \* the spawn events in RetroArchOrchestrator.events
    mode,      \* SessionManager.mode
    todo,      \* ColdFillController.queue: positions in Gaps, which it is ordered by
    current,   \* ColdFillController.current and its waypoint
    gap,       \* FillGapController's segment
    work,      \* what the event loop ("loop") and the request ("user") await
    lapsed     \* history: "failed" from a failed load or save to the next load,
               \* "refused" once a load has failed, "exiting" once a state with
               \* an exit under way was loaded

vars == <<game, slot, pending, hot, saved, rows, bumped, snap, det, cf, spawns,
          mode, todo, current, gap, work, lapsed>>
emu  == <<game, slot, pending, saved>>
poll == <<bumped, snap, det, cf>>

Idle == [k |-> "idle", seg |-> None, cold |-> FALSE]
Quiet == work["loop"] = Idle /\ work["user"] = Idle /\ spawns = <<>>

-----------------------------------------------------------------------------
(* The emulated game and its player, external.                              *)

Alive == [level |-> 1, room |-> 1, splash |-> FALSE, dead |-> FALSE,
          exiting |-> FALSE, io |-> "none", fanfare |-> FALSE, boss |-> FALSE,
          midway |-> TRUE, cpe |-> 1]

HotState(s) == [frame |-> [Alive EXCEPT !.exiting = s \in Exiting],
                at |-> s, cold |-> FALSE, hurt |-> FALSE]
Title == [frame |-> Alive, at |-> None, cold |-> FALSE, hurt |-> FALSE]

Seen == ~bumped /\ det.prev = game.frame
Plays(g) == /\ Seen /\ Len(spawns) < MaxSpawns
            /\ Patient => work["loop"] = Idle /\ work["user"] = Idle
            /\ game' = g
            /\ UNCHANGED <<slot, pending, hot, saved, rows, poll, spawns, mode,
                           todo, current, gap, work, lapsed>>

Live == ~game.hurt /\ ~game.frame.exiting
Die  == Live /\ Plays([game EXCEPT !.frame.dead = TRUE, !.hurt = TRUE])
Fall == Live /\ Plays([game EXCEPT !.frame.exiting = TRUE, !.hurt = TRUE])
\* After a death the level is reloaded, with its splash, or not.
Respawn ==
    /\ game.hurt
    /\ \E splash \in BOOLEAN :
         Plays([game EXCEPT !.frame = [Alive EXCEPT !.splash = splash],
                            !.hurt = FALSE, !.cold = TRUE])
SplashEnds ==
    game.frame.splash /\ ~game.hurt /\ Plays([game EXCEPT !.frame.splash = FALSE])
\* The transition a hot state was taken in runs out.
ExitEnds ==
    game.frame.exiting /\ ~game.hurt /\ Plays([game EXCEPT !.frame.exiting = FALSE])

\* RetroArch reads the slot on its next frame.
RetroArchLoads ==
    /\ pending
    /\ pending' = FALSE
    /\ game' = IF slot = None THEN game ELSE HotState(slot)
    /\ UNCHANGED <<slot, hot, saved, rows, poll, spawns, mode, todo, current,
                   gap, work>>
    /\ lapsed' = IF slot \in Exiting THEN lapsed \cup {"exiting"} ELSE lapsed

-----------------------------------------------------------------------------
(* RAClient._load_state_sync, a thread per load.                            *)

Becomes(t, k) == work' = [work EXCEPT ![t].k = k]
Rest == <<hot, saved, rows, snap, det, spawns, mode, todo, current, gap>>

\* A failed load surfaces in its caller: the event loop logs it, the request
\* answers with an error.  What the controllers had set stays.
Raises(t) ==
    /\ work' = [work EXCEPT ![t] = Idle] /\ lapsed' = lapsed \cup {"failed", "refused"}
    /\ UNCHANGED <<game, pending, bumped, cf, Rest>>

LoadStage(t) ==
    /\ work[t].k = "stage"
    /\ IF work[t].seg \in hot
       THEN /\ slot' = work[t].seg /\ Becomes(t, "fire")
            /\ UNCHANGED <<game, pending, bumped, cf, Rest, lapsed>>
       ELSE Raises(t) /\ UNCHANGED slot
LoadFire(t) ==
    /\ work[t].k = "fire"
    /\ pending' = TRUE /\ Becomes(t, "bump")
    /\ UNCHANGED <<game, slot, bumped, cf, Rest, lapsed>>
LoadBump(t) ==
    /\ work[t].k = "bump"
    /\ bumped' = TRUE /\ Becomes(t, "settle")
    /\ UNCHANGED <<game, slot, pending, cf, Rest, lapsed>>
\* The margin of the settle time is taken to be enough for RetroArch.
LoadUnlink(t) ==
    /\ work[t].k = "settle" /\ ~pending
    /\ slot' = None /\ Becomes(t, "check")
    /\ UNCHANGED <<game, pending, bumped, cf, Rest, lapsed>>
\* Bound: where nothing else has gone wrong, as for SaveGivesUp.
LoadRejected(t) ==
    /\ LoadFails /\ lapsed = {} /\ work[t].k = "check" /\ Raises(t) /\ UNCHANGED slot

-----------------------------------------------------------------------------
(* ColdFillController and FillGapController, and SessionManager over them.  *)

First(q) == Gaps[Min(q)]
Popped(q) == {i \in q : i # Min(q)}

\* _load_next drops the segments whose hot file is gone.
Servable(q) == {i \in q : \E j \in q : j <= i /\ Gaps[j] \in hot}

\* _load_next, in the task t, over the queue q.
LoadNext(t, q) ==
    /\ todo' = Servable(q)
    /\ IF Servable(q) = {}
       THEN current' = None /\ work' = [work EXCEPT ![t] = Idle]
       ELSE /\ current' = First(Servable(q))
            /\ work' = [work EXCEPT ![t] = [k |-> "stage", seg |-> First(Servable(q)),
                                            cold |-> TRUE]]

\* A mistake: only the load a request asked for activates the detector.
LoadReturns_ActivatesOnce(t) ==
    /\ snap = None /\ work[t].k = "check"
    /\ cf' = IF work[t].cold /\ t = "user" THEN ActivateCold(work[t].seg) ELSE cf
    /\ mode' = IF t = "loop" THEN mode
               ELSE IF work[t].cold THEN "cold_fill" ELSE "fill_gap"
    /\ work' = [work EXCEPT ![t] = Idle]
    /\ lapsed' = IF work[t].cold THEN lapsed \ {"failed"} ELSE lapsed
    /\ UNCHANGED <<emu, hot, rows, bumped, snap, det, spawns, todo, current, gap>>

\* _on_cold_fill_load resumes after its load; fill gap's load has nothing to do.
\* The request's caller then applies the mode of the result.
LoadReturns(t) ==
    /\ snap = None /\ work[t].k = "check"
    /\ cf' = IF work[t].cold THEN ActivateCold(work[t].seg) ELSE cf
    /\ mode' = IF t = "loop" THEN mode
               ELSE IF work[t].cold THEN "cold_fill" ELSE "fill_gap"
    /\ work' = [work EXCEPT ![t] = Idle]
    /\ lapsed' = IF work[t].cold THEN lapsed \ {"failed"} ELSE lapsed
    /\ UNCHANGED <<emu, hot, rows, bumped, snap, det, spawns, todo, current, gap>>

\* The user waits for the last request; a patient one also for the game, until
\* no death and no exit is under way.
Asks == /\ snap = None /\ work["user"] = Idle
        /\ Patient => /\ Quiet /\ Seen /\ ~cf.waiting
                      /\ ~game.hurt /\ ~game.frame.exiting

HasCold(s) == \E r \in rows : r.wp = s

\* What ColdFillController.start puts in the queue.
Missing == {i \in DOMAIN Gaps : ~HasCold(Gaps[i])}

StartColdFill ==
    /\ Asks /\ mode = "idle"
    /\ Missing # {} /\ LoadNext("user", Missing)
    /\ UNCHANGED <<emu, hot, rows, poll, spawns, mode, gap, lapsed>>

\* A skip that finds or leaves nothing to load ends the cold fill.
SkipColdFill ==
    /\ Asks /\ mode = "cold_fill"
    /\ LoadNext("user", Popped(todo))
    /\ mode' = IF Servable(Popped(todo)) = {} THEN "idle" ELSE mode
    /\ UNCHANGED <<emu, hot, rows, poll, spawns, gap, lapsed>>

AbortColdFill ==
    /\ Asks /\ mode = "cold_fill"
    /\ todo' = {} /\ current' = None /\ mode' = "idle"
    /\ UNCHANGED <<emu, hot, rows, poll, spawns, gap, work, lapsed>>

StartFillGap ==
    /\ Asks
    /\ Patient => mode = "idle"
    /\ \E s \in Segs :
         /\ gap' = s
         /\ work' = [work EXCEPT !["user"] = [k |-> "stage", seg |-> s,
                                              cold |-> FALSE]]
    /\ UNCHANGED <<emu, hot, rows, poll, spawns, mode, todo, current, lapsed>>

-----------------------------------------------------------------------------
(* The event loop handles spawns; other events only log in these modes.     *)

Handles == snap = None /\ work["loop"] = Idle /\ spawns # <<>>

\* A spawn without a segment has no state path, and one that finds no current
\* segment is dropped.
SpawnIgnored ==
    /\ Handles
    /\ LET e == Head(spawns) IN
         \/ mode = "cold_fill" /\ (current = None \/ e.seg = None)
         \/ mode = "fill_gap" /\ (gap = None \/ e.seg = None)
         \/ mode = "idle"
    /\ spawns' = Tail(spawns)
    /\ UNCHANGED <<emu, hot, rows, poll, mode, todo, current, gap, work, lapsed>>

SpawnSaves ==
    /\ Handles /\ mode = "cold_fill" /\ current # None
    /\ LET e == Head(spawns) IN
         /\ e.seg # None
         /\ work' = [work EXCEPT !["loop"] = [Idle EXCEPT !.k = "save",
                                                         !.seg = e.seg]]
    /\ spawns' = Tail(spawns)
    /\ UNCHANGED <<emu, hot, rows, poll, mode, todo, current, gap, lapsed>>

SpawnFillsGap ==
    /\ Handles /\ mode = "fill_gap" /\ gap # None /\ Head(spawns).seg # None
    /\ rows' = {r \in rows : r.wp # gap}
               \cup {[wp |-> gap, path |-> Head(spawns).seg, by |-> "fill_gap"]}
    /\ gap' = None /\ mode' = "idle" /\ spawns' = Tail(spawns)
    /\ UNCHANGED <<emu, hot, poll, todo, current, work, lapsed>>

\* RAClient._save_state_sync takes the first state file that appears: the one
\* RetroArch writes, or one a load is staging, which it moves away.
Shows(g) == [at |-> g.at, cold |-> g.cold]
SaveTakes(g) ==
    saved' = [p \in DOMAIN saved \cup {work["loop"].seg} |->
                 IF p = work["loop"].seg THEN Shows(g) ELSE saved[p]]

SaveCompletes ==
    /\ work["loop"].k = "save" /\ Becomes("loop", "saved")
    /\ \/ SaveTakes(game) /\ UNCHANGED slot
       \/ slot # None /\ SaveTakes(HotState(slot)) /\ slot' = None
    /\ UNCHANGED <<game, pending, hot, rows, poll, spawns, mode, todo, current,
                   gap, lapsed>>

\* handle_spawn returns: "segment will be retried on next spawn".
SaveGivesUp ==
    /\ SaveFails /\ lapsed = {} /\ work["loop"].k = "save" /\ snap = None
    /\ work' = [work EXCEPT !["loop"] = Idle] /\ lapsed' = lapsed \cup {"failed"}
    /\ UNCHANGED <<emu, hot, rows, poll, spawns, mode, todo, current, gap>>

\* handle_spawn resumes after its save.  Popping an empty queue raises; the
\* last capture resets the emulator.
Captured(row) ==
    /\ snap = None /\ work["loop"].k = "saved"
    /\ rows' = row
    /\ IF todo = {}
       THEN work' = [work EXCEPT !["loop"] = Idle]
            /\ UNCHANGED <<game, mode, todo, current>>
       ELSE IF Popped(todo) = {}
       THEN /\ todo' = {} /\ current' = None /\ mode' = "idle" /\ game' = Title
            /\ work' = [work EXCEPT !["loop"] = Idle]
       ELSE LoadNext("loop", Popped(todo)) /\ UNCHANGED <<game, mode>>
    /\ UNCHANGED <<slot, pending, hot, saved, poll, spawns, gap, lapsed>>

WithCold == IF current = None THEN rows
            ELSE {r \in rows : r.wp # current}
                 \cup {[wp |-> current, path |-> work["loop"].seg,
                        by |-> "cold_fill"]}
SpawnCaptured == Captured(WithCold)

-----------------------------------------------------------------------------
(* Poller.run: one tick reads the frame, then looks at state_version.       *)

Loading == \E t \in DOMAIN work : work[t].k \in {"fire", "bump", "settle"}

\* A tick that could notice nothing is left out.
PollRead ==
    /\ snap = None
    /\ ~Seen \/ StepCold(cf, game.frame) # cf \/ Loading
    /\ snap' = game.frame
    /\ UNCHANGED <<emu, hot, rows, bumped, det, cf, spawns, mode, todo, current,
                   gap, work, lapsed>>

PollResync ==
    /\ snap # None /\ bumped
    /\ det' = Resync(det, snap) /\ cf' = ResyncCold(cf, snap)
    /\ bumped' = FALSE /\ snap' = None
    /\ UNCHANGED <<emu, hot, rows, spawns, mode, todo, current, gap, work, lapsed>>

\* Of what the two detectors report only spawns lead to anything; those of the
\* transition detector name no segment.
DetectorEvents == IF FrameEvents(det, snap).respawns
                  THEN <<[k |-> "spawn", seg |-> None]>> ELSE <<>>
ColdEvents == IF ColdSpawns(cf, snap)
              THEN <<[k |-> "spawn", seg |-> cf.seg]>> ELSE <<>>

PollStep ==
    /\ snap # None /\ ~bumped
    /\ spawns' = spawns \o DetectorEvents \o ColdEvents
    /\ det' = Step(det, snap) /\ cf' = StepCold(cf, snap) /\ snap' = None
    /\ UNCHANGED <<emu, hot, rows, bumped, mode, todo, current, gap, work, lapsed>>

-----------------------------------------------------------------------------
Init ==
    /\ game = Title /\ slot = None /\ pending = FALSE
    /\ hot \in Present /\ saved = [s \in {} |-> Shows(Title)] /\ rows = {}
    /\ bumped = FALSE /\ snap = None
    /\ det = Step(NewDetector, Alive) /\ cf = IdleCold
    /\ spawns = <<>> /\ mode = "idle" /\ todo = {} /\ current = None
    /\ gap = None /\ work = [t \in {"loop", "user"} |-> Idle]
    /\ lapsed = {}

Load(t) == \/ LoadStage(t) \/ LoadFire(t) \/ LoadBump(t) \/ LoadUnlink(t)
           \/ LoadReturns(t)
Loop == SpawnIgnored \/ SpawnSaves \/ SpawnFillsGap \/ SaveCompletes
        \/ SpawnCaptured
Poll == PollRead \/ PollResync \/ PollStep

Next == \/ Die \/ Fall \/ Respawn \/ SplashEnds \/ ExitEnds \/ RetroArchLoads
        \/ \E t \in {"loop", "user"} : Load(t) \/ LoadRejected(t)
        \/ StartColdFill \/ SkipColdFill \/ AbortColdFill \/ StartFillGap
        \/ Loop \/ SaveGivesUp \/ Poll

\* Threads, the poller and RetroArch run; the event loop takes ready tasks in
\* turn, so the poller's ticks never shut out a handler or a load's return; the
\* player keeps dying and respawning, as the dashboard asks.
Fairness ==
    /\ WF_vars(Poll) /\ SF_vars(Loop) /\ WF_vars(RetroArchLoads)
    /\ SF_vars(Load("loop")) /\ SF_vars(Load("user"))
    /\ WF_vars(Die) /\ WF_vars(Respawn) /\ WF_vars(SplashEnds) /\ WF_vars(ExitEnds)

Spec     == Init /\ [][Next]_vars
FairSpec == Spec /\ Fairness

-----------------------------------------------------------------------------
(* Properties *)

\* The cold state a cold fill records for a waypoint is a state of that
\* waypoint, saved after the player died there (ColdFillSpawnDetector, the load
\* and the queue agree on which segment is meant); unless a state was loaded that
\* shows an exit under way, which reads like a death, or a load has failed,
\* after which the detector watches the segment before.
CapturedCold ==
    \A r \in rows : r.by = "cold_fill" /\ lapsed \subseteq {"failed"} =>
        /\ r.path \in DOMAIN saved
        /\ saved[r.path] = [at |-> r.wp, cold |-> TRUE]

\* While a cold fill waits for the player, the detector watches the segment the
\* player was given: a death and a respawn will be heard; unless a load or a
\* save has failed, after which nothing loads or listens again by itself.  A
\* segment has been given, unless the hot files of those left are gone: a capture
\* that leaves only such ends without leaving the mode.  What the player was given
\* is always the head of the queue.
StillWatched ==
    /\ mode = "cold_fill" /\ Quiet /\ "failed" \notin lapsed =>
           cf.seg = current /\ (current = None => Segs \ hot # {})
    /\ current # None => todo # {} /\ current = First(todo)

\* Each segment the player is given is left again, captured or given up, where
\* the load and the save succeed.
SegmentsMoveOn == \A s \in Segs : current = s ~> current # s \/ "failed" \in lapsed

\* "waits for the next SpawnEvent with a state_path, returns to IDLE": a fill
\* gap of a player who dies and respawns comes to its end.
FillGapEnds == mode = "fill_gap" ~> mode # "fill_gap"
==============================================================================
