--------------------------- MODULE SegmentRecorder ---------------------------
(***************************************************************************)
(* Recording a run of the game: frames of the emulated game, the poller    *)
(* that turns them into events, the event loop that hands the events to    *)
(* ReferenceController and SegmentRecorder, and the segments, save states  *)
(* and attempt rows they leave in the database.                            *)
(*                                                                         *)
(* The poller and the event loop are separate tasks: events wait in a      *)
(* queue, and the state saved for an event is the game's state when the    *)
(* event is handled.  A row's timing and the wording of ids are left out;  *)
(* a waypoint is the tuple its id is hashed from.  A boundary whose        *)
(* condition bytes hold a value the game's definitions do not name cannot  *)
(* be recorded: the handler raises when its state has been saved.          *)
(***************************************************************************)
EXTENDS TransitionDetector, FiniteSets

CONSTANTS Conds,         \* values of the condition bytes, such as the powerup's
          Meaning,       \* what the game's definitions make of a value, or None
          MaxRuns,       \* bound: recordings ever started
          MaxMarks,      \* bound: entrances and checkpoints before it stands still
          MaxUpsets,     \* bound: upsets, states loaded and segments deleted
          MaxQueue,      \* bound: undelivered events before the game stands still
          MayMiss,       \* may the game run ahead of the poller, frames unseen?
          Replays        \* may a recording be a replay?

ASSUME RecorderAssumption ==
    /\ Conds # {} /\ None \notin Conds
    /\ DOMAIN Meaning = Conds /\ \E c \in Conds : Meaning[c] # None
    /\ MaxRuns \in Nat \ {0} /\ MaxMarks \in Nat \ {0}
    /\ MaxUpsets \in Nat /\ MaxQueue \in Nat \ {0}
    /\ {MayMiss, Replays} \subseteq BOOLEAN

VARIABLES
    game,      \* the emulator: the frame RetroArch would show, and the conditions
    upsets,    \* upsets, states loaded and segments deleted so far
    det,       \* TransitionDetector
    loaded,    \* state_version differs from the one the poller last saw
    marks,     \* entrances and checkpoints emitted so far
    queue,     \* RetroArchOrchestrator.events
    rec,       \* SegmentRecorder's fields
    eps,       \* episode ids minted
    runs,      \* recordings started
    segs,      \* the segments table
    states,    \* waypoint_save_states: (waypoint, variant) to state path
    files,     \* state files on disk: path to the conditions they were saved in
    rows       \* the attempts table

vars == <<game, upsets, det, loaded, marks, queue, rec, eps, runs, segs, states,
          files, rows>>
db   == <<segs, states, files, rows>>

-----------------------------------------------------------------------------
(* The emulated game, external: what the player can make the bytes do.      *)

Boot == [level |-> 0, room |-> 0, splash |-> FALSE, dead |-> FALSE,
         exiting |-> FALSE, io |-> "none", fanfare |-> FALSE, boss |-> FALSE,
         midway |-> FALSE, cpe |-> 0]

InLevel == [Boot EXCEPT !.level = 1, !.room = 1, !.cpe = 1]

Seen    == det.prev = game.frame /\ ~loaded /\ ~det.force
Stopped == \/ marks >= MaxMarks \/ Len(queue) >= MaxQueue
           \/ ~MayMiss /\ ~Seen

Shows(frame, cond) ==
    /\ ~Stopped
    /\ game' = [game EXCEPT !.frame = frame, !.cond = cond]
    /\ UNCHANGED <<det, loaded, marks, queue, rec, eps, runs, db>>

\* The level number is stale on the entry frame, and the respawn room follows
\* the splash.
EnterLevel ==
    /\ game.frame.room = 0
    /\ Shows([game.frame EXCEPT !.splash = TRUE, !.room = 1], game.cond)
    /\ UNCHANGED upsets
SplashEnds ==
    /\ game.frame.splash
    /\ Shows([game.frame EXCEPT !.splash = FALSE, !.level = 1, !.cpe = 1],
             game.cond)
    /\ UNCHANGED upsets

Alive == LET f == game.frame IN
         f.room # 0 /\ ~f.splash /\ ~f.dead /\ ~f.exiting /\ ~f.fanfare
Play(frame, cond) == Alive /\ Shows(frame, cond)

Upset == upsets < MaxUpsets /\ upsets' = upsets + 1

Die  == Upset /\ \E c \in Conds : Play([game.frame EXCEPT !.dead = TRUE], c)
Fall == Upset /\ Play([game.frame EXCEPT !.exiting = TRUE], game.cond)
CrossMidway == /\ ~game.frame.midway /\ UNCHANGED upsets
               /\ Play([game.frame EXCEPT !.midway = TRUE], game.cond)
CrossRoom   == /\ game.frame.cpe = 1 /\ UNCHANGED upsets
               /\ Play([game.frame EXCEPT !.cpe = 2], game.cond)
PowerUp     == /\ UNCHANGED upsets
               /\ \E c \in Conds \ {game.cond} : Play(game.frame, c)
ReachGoal   == /\ UNCHANGED upsets
               /\ Play([game.frame EXCEPT !.fanfare = TRUE], game.cond)

\* A respawn reloads the level, with its splash, or not.
Respawn ==
    /\ game.frame.dead \/ (game.frame.exiting /\ ~game.frame.fanfare)
    /\ \E splash \in BOOLEAN :
         Shows([game.frame EXCEPT !.dead = FALSE, !.exiting = FALSE,
                                  !.splash = splash], game.cond)
    /\ UNCHANGED upsets
\* The level is left after its goal, or with start+select.
Leave ==
    /\ game.frame.room # 0 /\ ~game.frame.exiting /\ ~game.frame.dead
    /\ ~game.frame.splash
    /\ Shows([game.frame EXCEPT !.exiting = TRUE], game.cond)
    /\ UNCHANGED upsets
Overworld ==
    /\ game.frame.exiting
    /\ Shows([Boot EXCEPT !.level = 1, !.cpe = game.frame.cpe], game.cond)
    /\ UNCHANGED upsets

\* The user loads a state of RetroArch by way of the dashboard.
LoadState ==
    /\ ~Stopped /\ Upset
    /\ \E midway \in BOOLEAN, c \in Conds :
         game' = [frame |-> [InLevel EXCEPT !.midway = midway], cond |-> c]
    /\ loaded' = TRUE
    /\ UNCHANGED <<det, marks, queue, rec, eps, runs, db>>

-----------------------------------------------------------------------------
(* Poller.run                                                               *)

IsMark(e) == e.k \in {"entrance", "checkpoint"}

\* _stamp_conditions: every event carries the conditions of its frame.  `at'
\* counts the entrances and checkpoints up to the event.
Stamped(evs) ==
    [i \in DOMAIN evs |->
        [ev |-> evs[i], cond |-> game.cond,
         at |-> marks + Cardinality({j \in 1 .. i : IsMark(evs[j])})]]

PollResync ==
    /\ loaded
    /\ det' = Resync(det, game.frame)
    /\ loaded' = FALSE
    /\ UNCHANGED <<game, upsets, marks, queue, rec, eps, runs, db>>

PollStep ==
    /\ ~loaded /\ (det.prev # game.frame \/ det.force)
    /\ LET evs == StepEvents(det, game.frame) IN
         /\ queue' = queue \o Stamped(evs)
         /\ marks' = marks + Cardinality({i \in DOMAIN evs : IsMark(evs[i])})
    /\ det' = Step(det, game.frame)
    /\ UNCHANGED <<game, upsets, loaded, rec, eps, runs, db>>

-----------------------------------------------------------------------------
(* SegmentRecorder                                                          *)

Waypoint(level, type, ord, cond) == <<level, type, ord, cond>>
Geography(s) == <<s[1][1], s[1][2], s[1][3], s[2][2], s[2][3]>>
Path(e) == IF e.ev.k = "entrance" THEN <<"entrance", e.ev.level, e.ev.room>>
                                  ELSE <<"cp", e.ev.level, e.ev.ord>>

Cleared == [run |-> 0, src |-> "reference", start |-> None, ep |-> 0,
            pend |-> <<>>, first |-> FALSE, hot |-> FALSE]

\* A mistake: the buffered deaths survive the episode they happened in.
Arm_KeepsPending(r, start, hot) ==
    [r EXCEPT !.start = start, !.ep = eps + 1, !.first = TRUE, !.hot = hot]

\* _arm_new_episode
Arm(r, start, hot) == [r EXCEPT !.start = start, !.ep = eps + 1, !.pend = <<>>,
                                !.first = TRUE, !.hot = hot]

\* _append_event: the first event of an episode takes the tag it was armed with.
Tag(r, at) == [at |-> at, hot |-> r.first /\ r.hot]

Upsert(s, run) ==
    LET rival   == \E t \in DOMAIN segs :
                      t # s /\ segs[t].active /\ Geography(t) = Geography(s)
        ordinal == Cardinality({t \in DOMAIN segs : segs[t].owner = run}) + 1
        owner   == IF s \in DOMAIN segs THEN segs[s].owner ELSE run
    IN  segs' = [t \in DOMAIN segs \cup {s} |->
                    IF t = s THEN [active |-> TRUE, primary |-> ~rival,
                                   owner |-> owner, ordinal |-> ordinal]
                             ELSE segs[t]]

\* add_save_state for the start waypoint, under the variant of its kind.
Attach(wp, start) ==
    LET key == <<wp, IF start.type = "entrance" THEN "cold" ELSE "hot">> IN
    states' = IF start.path = None THEN states
              ELSE [k \in DOMAIN states \cup {key} |->
                       IF k = key THEN start.path ELSE states[k]]

\* The buffered upsets, then the closing survival.
Flush(s, r, at) ==
    LET evs == Append(r.pend, Tag(r, at)) IN
    rows' = rows \cup
        {[ep |-> r.ep, n |-> i, seg |-> s, run |-> r.run, src |-> r.src,
          out |-> IF i = Len(evs) THEN "survived" ELSE "died",
          hot |-> evs[i].hot, at |-> evs[i].at, from |-> r.start.at] :
            i \in DOMAIN evs}

\* ConditionRegistry.decode raises for a value it has no label for.
Decodes(cond) == Meaning[cond] # None
Readable(r, cond) == Decodes(r.start.cond) /\ Decodes(cond)

\* _close_segment.  A segment from a waypoint to itself is dropped.
Close(r, type, ord, level, cond, at) ==
    LET s == <<Waypoint(level, r.start.type, r.start.ord, Meaning[r.start.cond]),
               Waypoint(level, type, ord, Meaning[cond])>>
    IN  IF s[1] = s[2] THEN UNCHANGED <<segs, states, rows>>
        ELSE Upsert(s, r.run) /\ Attach(s[1], r.start) /\ Flush(s, r, at)

-----------------------------------------------------------------------------
(* The event loop: ReferenceController and SegmentRecorder.                 *)

Recording == rec.run # 0
Next1(kind) == /\ queue # <<>> /\ Head(queue).ev.k = kind
               /\ queue' = Tail(queue)
               /\ UNCHANGED <<game, upsets, det, loaded, marks, runs>>

\* A mistake: the path is kept when the save fails.
Saved_PathAnyway(e, path) ==
    /\ path = Path(e)
    /\ \/ UNCHANGED files
       \/ files' = [p \in DOMAIN files \cup {path} |->
                       IF p = path THEN game.cond ELSE files[p]]

\* save_state for the event: the path, or None when it fails.
Saved(e, path) ==
    \/ path = Path(e)
       /\ files' = [p \in DOMAIN files \cup {path} |->
                       IF p = path THEN game.cond ELSE files[p]]
    \/ path = None /\ UNCHANGED files

\* A mistake: the conditions are read when the event is handled.
StartOf_Live(e, type, ord, level, path) ==
    [type |-> type, ord |-> ord, level |-> level, path |-> path,
     cond |-> game.cond, at |-> e.at]

StartOf(e, type, ord, level, path) ==
    [type |-> type, ord |-> ord, level |-> level, path |-> path,
     cond |-> e.cond, at |-> e.at]

HandleEntrance ==
    /\ Next1("entrance")
    /\ LET e == Head(queue) IN
       IF ~Recording THEN UNCHANGED <<rec, eps, db>>
       ELSE \E path \in {Path(e), None} :
              /\ Saved(e, path)
              /\ IF rec.start # None /\ rec.start.type # "entrance"
                 THEN UNCHANGED <<rec, eps>>
                 ELSE /\ rec' = Arm(rec, StartOf(e, "entrance", 0, e.ev.level,
                                                 path), FALSE)
                      /\ eps' = eps + 1
              /\ UNCHANGED <<segs, states, rows>>

HandleCheckpoint ==
    /\ Next1("checkpoint")
    /\ LET e == Head(queue) IN
       IF ~Recording THEN UNCHANGED <<rec, eps, db>>
       ELSE \E path \in {Path(e), None} :
              /\ Saved(e, path)
              /\ IF rec.start = None \/ ~Readable(rec, e.cond)
                 THEN UNCHANGED <<rec, eps, segs, states, rows>>
                 ELSE LET level == IF e.ev.level # 0 THEN e.ev.level
                                   ELSE rec.start.level IN
                      /\ Close(rec, "checkpoint", e.ev.ord, level, e.cond, e.at)
                      /\ rec' = Arm(rec, StartOf(e, "checkpoint", e.ev.ord,
                                                 level, path), TRUE)
                      /\ eps' = eps + 1

HandleExit ==
    /\ Next1("exit")
    /\ UNCHANGED <<eps, files>>
    /\ LET e == Head(queue) IN
       IF ~Recording THEN UNCHANGED <<rec, segs, states, rows>>
       ELSE IF e.ev.goal = "abort"
       THEN /\ rec' = [rec EXCEPT !.start = None, !.pend = <<>>,
                                  !.first = FALSE, !.hot = FALSE]
            /\ UNCHANGED <<segs, states, rows>>
       ELSE IF rec.start = None \/ ~Readable(rec, e.cond)
       THEN UNCHANGED <<rec, segs, states, rows>>
       ELSE /\ Close(rec, "goal", 0, e.ev.level, e.cond, e.at)
            /\ rec' = [rec EXCEPT !.start = None, !.pend = <<>>, !.first = FALSE]

HandleDeath ==
    /\ Next1("death")
    /\ rec' = IF Recording
              THEN [rec EXCEPT !.pend = Append(@, Tag(rec, Head(queue).at)),
                               !.first = FALSE]
              ELSE rec
    /\ UNCHANGED <<eps, db>>

\* A spawn the transition detector emits names no segment, so it has no state
\* path, and neither timing nor a cold state comes of it.
HandleSpawn == Next1("spawn") /\ UNCHANGED <<rec, eps, db>>

-----------------------------------------------------------------------------
(* Recordings begin and end; the user edits segments.                       *)

Begin(src) ==
    /\ ~Recording /\ runs < MaxRuns
    /\ runs' = runs + 1
    /\ rec' = [Cleared EXCEPT !.run = runs + 1, !.src = src]
    /\ UNCHANGED <<upsets, marks, queue, eps, db>>

StartReference == Begin("reference") /\ UNCHANGED <<game, det, loaded>>

\* PLAY_REPLAY loads the state the movie begins with, at a level's entrance.
StartReplay ==
    /\ Replays /\ Begin("replay")
    /\ det' = MarkReplayEntrance(det)
    /\ loaded' = TRUE
    /\ \E c \in Conds : game' = [frame |-> InLevel, cond |-> c]

StopRecording ==
    /\ Recording
    /\ rec' = Cleared
    /\ UNCHANGED <<game, upsets, det, loaded, marks, queue, eps, runs, db>>

DeleteSegment ==
    /\ Upset
    /\ \E s \in DOMAIN segs :
         /\ segs[s].active
         /\ segs' = [segs EXCEPT ![s].active = FALSE]
    /\ UNCHANGED <<game, det, loaded, marks, queue, rec, eps, runs, states,
                   files, rows>>

-----------------------------------------------------------------------------
Empty == [x \in {} |-> None]

Init ==
    /\ \E c \in Conds : game = [frame |-> Boot, cond |-> c]
    /\ upsets = 0 /\ det = NewDetector /\ loaded = FALSE /\ marks = 0
    /\ queue = <<>> /\ rec = Cleared /\ eps = 0 /\ runs = 0
    /\ segs = Empty /\ states = Empty /\ files = Empty /\ rows = {}

GameStep == \/ EnterLevel \/ SplashEnds \/ Die \/ Fall \/ CrossMidway
            \/ CrossRoom \/ PowerUp \/ ReachGoal \/ Respawn \/ Leave
            \/ Overworld \/ LoadState

Next == \/ GameStep \/ PollResync \/ PollStep
        \/ HandleEntrance \/ HandleCheckpoint \/ HandleExit \/ HandleDeath
        \/ HandleSpawn
        \/ StartReference \/ StartReplay \/ StopRecording \/ DeleteSegment

Spec == Init /\ [][Next]_vars

-----------------------------------------------------------------------------
(* Properties *)

\* The rows of an episode are deaths and one closing survival of one segment,
\* and carried-over state is claimed for its first row alone, exactly when the
\* segment begins at a checkpoint (_append_event and the closing event).  A
\* death is credited to the pass it happened in: no row is of an event emitted
\* before the entrance or checkpoint its episode began at, whatever was buffered
\* when a pass was aborted, dropped or never begun (_arm_new_episode,
\* handle_exit).
EpisodesWellFormed ==
    \A r \in rows :
        LET episode == {x \in rows : x.ep = r.ep} IN
        /\ \A x \in episode : x.seg = r.seg /\ x.run = r.run
        /\ {x.n : x \in episode} = 1 .. Cardinality(episode)
        /\ (r.out = "survived") <=> (r.n = Cardinality(episode))
        /\ \A x \in episode : x.at >= x.from
        /\ r.hot <=> (r.n = 1 /\ r.seg[1][2] = "checkpoint")

\* The recorded segments join up: where a segment begins at a checkpoint,
\* another one was recorded up to that same waypoint, conditions included, so a
\* route through them is never cut (handle_checkpoint hands one waypoint from
\* the segment it closes to the one it opens).
RouteConnected ==
    \A s \in DOMAIN segs :
        s[1][2] = "checkpoint" => \E t \in DOMAIN segs : t[2] = s[1]

\* A save state row never points at a file that was not written
\* (ReferenceController strips the path when save_state fails).
StatesBacked == \A k \in DOMAIN states : states[k] \in DOMAIN files

\* The glossary's "Auto-True for the first segment in a geography": recording
\* a segment again does not take its primary flag away.
ReRecordingKeepsPrimary ==
    [][\A s \in DOMAIN segs \cap DOMAIN segs' :
          segs[s].active /\ segs[s].primary => segs'[s].primary
                                               \/ ~segs'[s].active]_vars
==============================================================================
