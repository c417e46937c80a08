--------------------------- MODULE ReferenceCapture ---------------------------
(***************************************************************************)
(* Reference recording and replay capture: ReferenceController, the part   *)
(* of SessionManager that drives it, the capture tables of the database,   *)
(* and the one consumer of the backend's event queue.                      *)
(*                                                                         *)
(* Everything runs on one asyncio loop, so a step is the code between two  *)
(* awaits that really suspend: sending a command to the backend, and       *)
(* saving an emulator state.  HTTP handlers (one slot of `reqs' each) and  *)
(* the event loop (`loop') interleave at those awaits and nowhere else.    *)
(***************************************************************************)
EXTENDS Naturals, Sequences, FiniteSets

CONSTANTS Games,          \* the games RetroArch can load
          Geos,           \* a game's segments: what a level pass can close
          Reqs,           \* HTTP handlers that can be in flight together
          None,           \* "no value": Python's None
          MaxRuns,        \* bound: capture runs ever created
          MaxOrd,         \* bound: sessions (stop / resume cycles) of a run
          MaxQueue,       \* bound: undelivered events the poller adds to
          MovieConfigs,   \* the values of the setting that lets RetroArch
                          \* record and play movies
          Settled         \* TRUE: a request comes from a button the dashboard
                          \* enables, once everything before it has settled

ASSUME CaptureAssumption ==
    /\ Games # {} /\ Geos # {} /\ Reqs # {}
    /\ None \notin Games \cup Geos \cup (Nat \X Nat)
    /\ MaxRuns \in Nat \ {0} /\ MaxOrd \in Nat \ {0} /\ MaxQueue \in Nat \ {0}
    /\ MovieConfigs \subseteq BOOLEAN /\ Settled \in BOOLEAN

VARIABLES
    mode,     \* SessionManager.mode
    game,     \* SessionManager.game_id, None until the first RomInfo
    paused,   \* ReferenceController.paused_run_id, 0 when None
    rec,      \* SegmentRecorder: run, session ordinal, source, pending start
    status,   \* capture_runs: does the row exist, and its status column
    kind,     \* capture_runs.kind
    gameOf,   \* capture_runs.game_id
    active,   \* capture_runs.active: the rows where it is 1
    sess,     \* capture_sessions: the row of each <<run, ordinal>>
    owner,    \* segments: capturing session of each <<game, geo>> row
    att,      \* attempts rows written by capture
    queue,    \* RetroArchOrchestrator.events
    loop,     \* the entrance whose save_state the event loop awaits, or None
    reqs,     \* HTTP handlers suspended at send_command
    movie     \* what RetroArch plays, and MovieController's view of it

dbVars  == <<status, kind, gameOf, active, sess, owner, att>>
vars == <<mode, game, paused, rec, dbVars, queue, loop, reqs, movie>>

-----------------------------------------------------------------------------
RunId == 1 .. MaxRuns
Run0  == 0 .. MaxRuns                    \* 0 stands for "no run"
Ords  == 1 .. MaxOrd
Ord0  == 0 .. MaxOrd
Segs  == Games \X Geos

Mode   == {"idle", "reference", "replay", "practice"}
Status == {"none", "draft", "saved", "gone"}
Sess   == {"none", "open", "ended"}     \* whatever the end_reason
Source == {"reference", "replay"}

\* A segment's buffered start: the recording (run and session) that was under
\* way when the handler of its entrance began.
Start  == Run0 \X Ord0
NoRec  == [run |-> 0, ord |-> 0, src |-> "reference", pend |-> None]
Rec    == [run : Run0, ord : Ord0, src : Source, pend : Start \cup {None}]

\* No row; a row no run owns any more; or the owning session.
Unowned == <<0, 0>>
Owner  == {None, Unowned} \cup (RunId \X Ords)

\* Which runs have attempts rows on which segments.
Att    == [run : RunId, seg : Segs]

Kinds  == {"entrance", "exit", "rom", "finished", "error"}
Event  == {e \in [k : Kinds, geo : Geos \cup {None}, replayed : BOOLEAN,
                  game : Games \cup {None}] :
             /\ e.k = "exit" => e.geo # None
             /\ e.k = "rom" => e.game # None}
Exit(g)        == [k |-> "exit", geo |-> g, replayed |-> movie.plays, game |-> None]
Notice(k)      == [k |-> k, geo |-> None, replayed |-> FALSE, game |-> None]
RomInfo(g)     == [k |-> "rom", geo |-> None, replayed |-> FALSE, game |-> g]

Op      == {"none", "startRef", "stopRef", "saveFinish",
            "startReplay", "replayOn", "stopReplay"}
Request == [op : Op, run : Run0]
NoReq   == [op |-> "none", run |-> 0]

\* Is RetroArch playing a movie; is _active_playback set; the end-watch task,
\* which "ends" once the log holds a marker past its anchor; whether it is inside
\* its own stop_playback; and whether movies are enabled at all.
Movie   == [plays : BOOLEAN, active : BOOLEAN, watch : {"off", "on", "ends"},
            stops : BOOLEAN, enabled : BOOLEAN]
NoMovie == [plays : {FALSE}, active : {FALSE}, watch : {"off"}, stops : {FALSE},
            enabled : MovieConfigs]

TypeOK ==
    /\ mode \in Mode
    /\ game \in Games \cup {None}
    /\ paused \in Run0
    /\ rec \in Rec
    /\ status \in [RunId -> Status]
    /\ kind \in [RunId -> {"live", "replay"}]
    /\ gameOf \in [RunId -> Games]
    /\ active \in SUBSET RunId
    /\ sess \in [RunId \X Ords -> Sess]
    /\ owner \in [Segs -> Owner]
    /\ att \in SUBSET Att
    /\ queue \in Seq(Event)
    /\ loop \in Start \cup {None}
    /\ reqs \in [Reqs -> Request]
    /\ movie \in Movie

Init ==
    /\ mode = "idle" /\ game = None /\ paused = 0 /\ rec = NoRec
    /\ status = [r \in RunId |-> "none"]
    /\ kind = [r \in RunId |-> "live"]
    /\ gameOf \in {[r \in RunId |-> g] : g \in Games}
    /\ active = {}
    /\ sess = [s \in RunId \X Ords |-> "none"]
    /\ owner = [s \in Segs |-> None]
    /\ att = {}
    /\ queue \in {<<RomInfo(g)>> : g \in Games}
    /\ loop = None
    /\ reqs = [q \in Reqs |-> NoReq]
    /\ movie \in NoMovie

-----------------------------------------------------------------------------
(* The capture tables.                                                      *)

LiveDrafts(g) == {r \in RunId : /\ status[r] = "draft" /\ kind[r] = "live"
                                /\ gameOf[r] = g}
Saved(g) == {r \in RunId : status[r] = "saved" /\ gameOf[r] = g}
SessionsOf(r) == {o \in Ords : sess[<<r, o>>] # "none"}
\* MAX(ordinal) + 1
IsNextOrd(r, o) == /\ \A p \in SessionsOf(r) : p < o
                   /\ o = 1 \/ o - 1 \in SessionsOf(r)
OwnedBy(r) == {s \in Segs : \E o \in Ords : owner[s] = <<r, o>>}

\* Rows of attempts stamped with r on a segment another run owns keep the
\* foreign key attempts.capture_run_id -> capture_runs alive, and the delete of
\* r's row fails with it.
Deletable_NoForeignKey(r) == TRUE
Deletable(r) == \A a \in att : a.run = r => a.seg \in OwnedBy(r)

HardDelete(r) ==
    /\ status' = [status EXCEPT ![r] = "gone"]
    /\ sess' = [s \in RunId \X Ords |-> IF s[1] = r THEN "none" ELSE sess[s]]
    /\ owner' = [s \in Segs |-> IF s \in OwnedBy(r) THEN None ELSE owner[s]]
    /\ att' = {a \in att : a.seg \notin OwnedBy(r)}
    /\ kind' = [kind EXCEPT ![r] = "live"]     \* no row, no kind
    /\ UNCHANGED <<gameOf, active>>

EndSession(r, o) == [sess EXCEPT ![<<r, o>>] = IF @ = "open" THEN "ended" ELSE @]

\* promote_draft and set_active_capture_run in one transaction.
SaveRun(r) ==
    /\ status' = [status EXCEPT ![r] = "saved"]
    /\ active' = {s \in active : gameOf[s] # gameOf[r]} \cup {r}
    /\ UNCHANGED <<kind, gameOf, owner, att>>

-----------------------------------------------------------------------------
(* The three run phases of ReferenceController.                             *)

EnterIdle == rec' = NoRec /\ paused' = 0

EnterRecording_KeepsPaused(r, o, src, pend) ==
    /\ paused' = paused
    /\ rec' = [run |-> r, ord |-> o, src |-> src, pend |-> pend]

\* A recording keeps the recorder's pending start: only clear() drops it.
EnterRecording(r, o, src, pend) ==
    /\ paused' = 0
    /\ rec' = [run |-> r, ord |-> o, src |-> src, pend |-> pend]

EndCurrentSession ==
    /\ sess' = IF rec.ord = 0 THEN sess ELSE EndSession(rec.run, rec.ord)
    /\ rec' = NoRec
    /\ paused' = IF rec.run # 0 /\ status[rec.run] = "draft" THEN rec.run ELSE 0
    /\ UNCHANGED <<status, kind, gameOf, active, owner, att>>

-----------------------------------------------------------------------------
(* HTTP handlers.  A request the code refuses changes nothing and is no     *)
(* step.  Settled restricts when a request comes, never what it does.       *)

AllIdle == \A q \in Reqs : reqs[q] = NoReq
Calm == ~Settled \/ (AllIdle /\ queue = <<>> /\ loop = None)
Free(q) == reqs[q] = NoReq /\ game # None /\ Calm
Button(modes) == Settled => mode \in modes

Suspend(q, op, run) == reqs' = [reqs EXCEPT ![q] = [op |-> op, run |-> run]]
Return(q) == reqs' = [reqs EXCEPT ![q] = NoReq]

\* INSERT of the run (its id is fresh) and of its first session.
CreateRun(r, k) ==
    /\ status[r] = "none" /\ \A p \in RunId : p < r => status[p] # "none"
    /\ status' = [status EXCEPT ![r] = "draft"]
    /\ kind' = [kind EXCEPT ![r] = k]
    /\ gameOf' = [gameOf EXCEPT ![r] = game]
    /\ sess' = [sess EXCEPT ![<<r, 1>>] = "open"]
    /\ UNCHANGED <<active, owner, att>>

\* The partial unique index idx_one_live_draft_per_game lets the row in.
DraftAllowed == LiveDrafts(game) = {}

\* When the index refuses the row, _enter_idle has run already.
StartReference(q) ==
    /\ Free(q) /\ Button({"idle", "practice"})
    /\ paused = 0 /\ mode \notin {"practice", "replay"}
    /\ IF DraftAllowed
       THEN \E r \in RunId : /\ CreateRun(r, "live")
                             /\ EnterRecording(r, 1, "reference", None)
                             /\ Suspend(q, "startRef", 0)
       ELSE EnterIdle /\ UNCHANGED <<dbVars, reqs>>
    /\ UNCHANGED <<mode, game, queue, loop, movie>>

ResumeReference(q) ==
    /\ Free(q) /\ Button({"idle", "practice"})
    /\ paused # 0 /\ mode \notin {"practice", "replay"}
    /\ \E o \in Ords : /\ IsNextOrd(paused, o)
                       /\ sess' = [sess EXCEPT ![<<paused, o>>] = "open"]
                       /\ EnterRecording(paused, o, "reference", rec.pend)
    /\ Suspend(q, "startRef", 0)
    /\ UNCHANGED <<mode, game, status, kind, gameOf, active, owner, att,
                   queue, loop, movie>>

StartReferenceReturns(q) ==
    /\ reqs[q].op = "startRef"
    /\ mode' = "reference" /\ Return(q)
    /\ UNCHANGED <<game, paused, rec, dbVars, queue, loop, movie>>

StopReference(q) ==
    /\ Free(q) /\ mode = "reference"
    /\ Suspend(q, "stopRef", 0)
    /\ UNCHANGED <<mode, game, paused, rec, dbVars, queue, loop, movie>>

StopReferenceReturns(q) ==
    /\ reqs[q].op = "stopRef"
    /\ EndCurrentSession
    /\ mode' = "idle" /\ Return(q)
    /\ UNCHANGED <<game, queue, loop, movie>>

\* finalize_run, and save_and_finish_run once the run is paused.
FinalizeRun ==
    /\ game # None /\ Calm /\ paused # 0
    /\ SaveRun(paused) /\ UNCHANGED sess
    /\ EnterIdle
    /\ UNCHANGED <<mode, game, queue, loop, reqs, movie>>

SaveAndFinish(q) ==
    /\ Free(q) /\ mode = "reference"
    /\ Suspend(q, "saveFinish", 0)
    /\ UNCHANGED <<mode, game, paused, rec, dbVars, queue, loop, movie>>

SaveAndFinishReturns(q) ==
    /\ reqs[q].op = "saveFinish"
    /\ IF rec.run = 0
       THEN UNCHANGED <<mode, paused, rec, dbVars>>     \* NoPausedRunError
       ELSE /\ SaveRun(rec.run)
            /\ sess' = EndSession(rec.run, rec.ord)
            /\ EnterIdle /\ mode' = "idle"
    /\ Return(q)
    /\ UNCHANGED <<game, queue, loop, movie>>

DiscardRun ==
    /\ game # None /\ Calm /\ paused # 0
    /\ Deletable(paused)          \* else the transaction rolls back and raises
    /\ HardDelete(paused)
    /\ EnterIdle
    /\ UNCHANGED <<mode, game, queue, loop, reqs, movie>>

\* Segments captured by the session go with it; one with attempts blocks it.
DeleteCaptureSession(r, o) ==
    LET its == {s \in Segs : owner[s] = <<r, o>>} IN
    /\ game # None /\ Calm /\ (Settled => paused = r)
    /\ sess[<<r, o>>] # "none" /\ status[r] = "draft"
    /\ ~(rec.run = r /\ rec.ord = o)
    /\ \A a \in att : a.seg \notin its
    /\ sess' = [sess EXCEPT ![<<r, o>>] = "none"]
    /\ owner' = [s \in Segs |-> IF s \in its THEN None ELSE owner[s]]
    /\ UNCHANGED <<mode, game, paused, rec, status, kind, gameOf, active, att,
                   queue, loop, reqs, movie>>

\* The dashboard replays the active reference only.
StartReplay(q) ==
    /\ Free(q) /\ Button({"idle", "practice"})
    /\ Settled => \E r \in active : gameOf[r] = game
    /\ paused = 0 /\ mode = "idle"
    /\ \E r \in RunId : /\ CreateRun(r, "replay")
                        /\ EnterRecording(r, 1, "replay", None)
    /\ Suspend(q, "startReplay", 0)
    /\ UNCHANGED <<mode, game, queue, loop, movie>>

\* play_movie returns: RetroArch has loaded the movie and plays it.
ReplayPlays(q) ==
    /\ reqs[q].op = "startReplay" /\ movie.enabled
    /\ Suspend(q, "replayOn", 0)
    /\ movie' = [movie EXCEPT !.plays = TRUE, !.active = TRUE]
    /\ UNCHANGED <<mode, game, paused, rec, dbVars, queue, loop>>

\* The fast-forward toggle returns, and a watcher starts if there is a log to
\* anchor it in.  The anchor is the log's end by now: a movie that ran out during
\* the toggle has left its marker before it.  (ReplayStarted, which goes out
\* here, only sets the frame count the dashboard shows.  A watch that a ROM change
\* left behind is this one's: MovieControl has each watch for itself.)
StartReplayReturns(q) ==
    /\ reqs[q].op = "replayOn"
    /\ movie' \in {movie, [movie EXCEPT !.watch = "on"]}
    /\ mode' = "replay" /\ Return(q)
    /\ UNCHANGED <<game, paused, rec, dbVars, queue, loop>>

\* RetroArch refuses the movie: an error event, and a normal return.
ReplayRefused(q) ==
    /\ reqs[q].op = "startReplay" /\ movie.enabled
    /\ queue' = Append(queue, Notice("error"))
    /\ mode' = "replay" /\ Return(q)
    /\ UNCHANGED <<game, paused, rec, dbVars, loop, movie>>

\* Movies are disabled: start_playback raises through start_replay.
ReplayRaises(q) ==
    /\ reqs[q].op = "startReplay" /\ ~movie.enabled
    /\ Return(q)
    /\ UNCHANGED <<mode, game, paused, rec, dbVars, queue, loop, movie>>

\* _discard_if_empty(r), the end of stop_replay.  Deleting a row that is gone already is no error; a
\* delete that fails raises before the mode changes.
Empty(r) == r # 0 /\ OwnedBy(r) = {}
DiscardThenIdle_KeepsRecorder(r) ==
    IF Empty(r) /\ ~Deletable(r)
    THEN UNCHANGED <<mode, paused, rec, dbVars>>
    ELSE /\ IF Empty(r) THEN HardDelete(r) /\ UNCHANGED <<paused, rec>>
                        ELSE UNCHANGED <<paused, rec, dbVars>>
         /\ mode' = "idle"
DiscardThenIdle(r) ==
    IF Empty(r) /\ ~Deletable(r)
    THEN UNCHANGED <<mode, paused, rec, dbVars>>
    ELSE /\ IF Empty(r) THEN HardDelete(r) /\ EnterIdle
                        ELSE UNCHANGED <<paused, rec, dbVars>>
         /\ mode' = "idle"

\* Nothing plays: stop_playback returns at once and the handler runs through.
StopReplayAtOnce ==
    /\ game # None /\ Calm /\ mode = "replay" /\ ~movie.active
    /\ DiscardThenIdle(rec.run)
    /\ movie' = [movie EXCEPT !.watch = "off"]
    /\ UNCHANGED <<game, queue, loop, reqs>>

\* The run is read before the await; the end-watch task is cancelled.
StopReplay(q) ==
    /\ Free(q) /\ mode = "replay" /\ movie.active
    /\ Suspend(q, "stopReplay", rec.run)
    /\ movie' = [movie EXCEPT !.watch = "off"]
    /\ UNCHANGED <<mode, game, paused, rec, dbVars, queue, loop>>

StopReplayReturns(q) ==
    /\ reqs[q].op = "stopReplay"
    /\ queue' = Append(queue, Notice("finished"))
    /\ movie' = [movie EXCEPT !.plays = FALSE, !.active = FALSE]
    /\ DiscardThenIdle(reqs[q].run)
    /\ Return(q)
    /\ UNCHANGED <<game, loop>>

\* RetroArch logs that playback ended; a watch sees the marker only when its
\* anchor is older.
Marked == IF movie.watch = "on" THEN "ends" ELSE movie.watch

\* The movie runs out by itself.
MovieRunsOut ==
    /\ movie.plays
    /\ movie' = [movie EXCEPT !.plays = FALSE, !.watch = Marked]
    /\ UNCHANGED <<mode, game, paused, rec, dbVars, queue, loop, reqs>>

\* The watcher saw the marker and settled: it drops its handle and runs
\* stop_playback, which has something to stop unless a request was faster.
ReplayEnds ==
    /\ movie.watch = "ends" /\ ~movie.stops
    /\ movie' = [movie EXCEPT !.watch = "off", !.stops = movie.active]
    /\ UNCHANGED <<mode, game, paused, rec, dbVars, queue, loop, reqs>>

ReplayEndHandled_Silent ==
    /\ movie.stops
    /\ movie' = [movie EXCEPT !.plays = FALSE, !.active = FALSE, !.stops = FALSE]
    /\ UNCHANGED <<mode, game, paused, rec, dbVars, queue, loop, reqs>>
ReplayEndHandled ==
    /\ movie.stops
    /\ movie' = [movie EXCEPT !.plays = FALSE, !.active = FALSE, !.stops = FALSE]
    /\ queue' = Append(queue, Notice("finished"))
    /\ UNCHANGED <<mode, game, paused, rec, dbVars, loop, reqs>>

-----------------------------------------------------------------------------
(* Saved runs (routes/reference.py lists saved runs only), practice and     *)
(* reset, as far as they touch capture state.                               *)

ActivateRun(r) ==
    /\ Calm /\ status[r] = "saved"
    /\ active' = {s \in active : gameOf[s] # gameOf[r]} \cup {r}
    /\ UNCHANGED <<mode, game, paused, rec, status, kind, gameOf, sess, owner,
                   att, queue, loop, reqs, movie>>

\* Segments of r that no other run's attempts reference.
Exclusive(r) ==
    LET touched == OwnedBy(r) \cup {a.seg : a \in {b \in att : b.run = r}}
    IN  {s \in touched : \A a \in att : a.seg = s => a.run = r}

\* The flag of a deleted active run goes to the newest saved run of its game.
HandOverActive_Forgets(r) == active' = active \ {r}
HandOverActive(r) ==
    LET others == Saved(gameOf[r]) \ {r} IN
    IF r \in active /\ others # {}
    THEN \E newest \in others : /\ \A s \in others : s <= newest
                                /\ active' = (active \ {r}) \cup {newest}
    ELSE active' = active \ {r}

DeleteRun(r, purge) ==
    LET doomed == IF purge THEN Exclusive(r) ELSE {}
    IN
    /\ Calm /\ Button({"idle", "practice"}) /\ status[r] = "saved"
    /\ status' = [status EXCEPT ![r] = "gone"]
    /\ HandOverActive(r)
    /\ sess' = [s \in RunId \X Ords |-> IF s[1] = r THEN "none" ELSE sess[s]]
    /\ owner' = [s \in Segs |-> IF s \in doomed THEN None
                                ELSE IF s \in OwnedBy(r) THEN Unowned
                                ELSE owner[s]]
    /\ att' = {a \in att : a.run # r /\ a.seg \notin doomed}
    /\ kind' = [kind EXCEPT ![r] = "live"]
    /\ UNCHANGED <<mode, game, paused, rec, gameOf, queue, loop, reqs, movie>>

\* A lingering REFERENCE mode is cleared before the session starts.
StartPractice ==
    /\ game # None /\ Calm /\ Button({"idle"})
    /\ paused = 0 /\ mode # "practice"
    /\ IF mode = "reference" THEN EnterIdle ELSE UNCHANGED <<paused, rec>>
    /\ mode' = "practice"
    /\ UNCHANGED <<game, dbVars, queue, loop, reqs, movie>>

StopPractice ==
    /\ Calm /\ mode = "practice"
    /\ mode' = "idle"
    /\ UNCHANGED <<game, paused, rec, dbVars, queue, loop, reqs, movie>>

\* Attempts of the game's segments go; runs, sessions and segments stay.
ResetData ==
    /\ game # None /\ Calm
    /\ IF mode = "reference" THEN EnterIdle ELSE UNCHANGED <<paused, rec>>
    /\ att' = {a \in att : a.seg[1] # game}
    /\ mode' = "idle"
    /\ UNCHANGED <<game, status, kind, gameOf, active, sess, owner,
                   queue, loop, reqs, movie>>

-----------------------------------------------------------------------------
(* The backend's events and the event loop that consumes them.              *)

PollerEmits ==
    /\ game # None /\ Len(queue) < MaxQueue
    /\ \/ queue' = Append(queue, Notice("entrance"))
       \/ \E g \in Geos : queue' = Append(queue, Exit(g))
    /\ UNCHANGED <<mode, game, paused, rec, dbVars, loop, reqs, movie>>

\* Loading another ROM ends what RetroArch plays, whether it logs that or not.
RomChanges ==
    \E g \in Games \ {game} :
        /\ Len(queue) < MaxQueue
        /\ queue' = Append(queue, RomInfo(g))
        /\ \E w \in {movie.watch} \cup IF movie.plays THEN {Marked} ELSE {} :
               movie' = [movie EXCEPT !.plays = FALSE, !.watch = w]
        /\ UNCHANGED <<mode, game, paused, rec, dbVars, loop, reqs>>

Takes(k) == loop = None /\ queue # <<>> /\ Head(queue).k = k /\ queue' = Tail(queue)

\* is_recording is read here; save_state is awaited after it.
HandleEntrance ==
    /\ Takes("entrance")
    /\ loop' = IF rec.run = 0 THEN None
               ELSE <<rec.run, rec.ord>>
    /\ UNCHANGED <<mode, game, paused, rec, dbVars, reqs, movie>>

\* save_state returned: the recorder buffers the entrance, whoever it records
\* for by now.
EntranceSaved ==
    /\ loop # None
    /\ rec' = [rec EXCEPT !.pend = loop]
    /\ loop' = None
    /\ UNCHANGED <<mode, game, paused, dbVars, queue, reqs, movie>>

Closes == rec.run # 0 /\ rec.pend # None

HandleExit ==
    LET seg == <<game, Head(queue).geo>> IN
    /\ Takes("exit")
    /\ IF Closes
       THEN /\ owner' = [owner EXCEPT ![seg] =
                            IF @ = None THEN <<rec.run, rec.ord>> ELSE @]
            /\ att' = att \cup {[run |-> rec.run, seg |-> seg]}
            /\ rec' = [rec EXCEPT !.pend = None]
       ELSE UNCHANGED <<rec, owner, att>>
    /\ UNCHANGED <<mode, game, paused, status, kind, gameOf, active, sess,
                   loop, reqs, movie>>

\* mark_orphan_capture_sessions_crashed
CloseOrphans_Skips(r) == sess
CloseOrphans(r) == [s \in RunId \X Ords |-> IF s[1] = r /\ sess[s] = "open"
                                            THEN "ended" ELSE sess[s]]

\* switch_game clears what the recorder holds for the game that goes.
SwitchGame_KeepsRecorder(g) == game' = g /\ mode' = "idle" /\ rec' = rec
SwitchGame(g) == game' = g /\ mode' = "idle" /\ rec' = NoRec

\* switch_game, then recover_paused_run: the unique index leaves at most one
\* live draft to recover.
HandleRomInfo ==
    LET g == Head(queue).game
        found == LiveDrafts(g)
    IN
    /\ Takes("rom")
    /\ IF g = game
       THEN UNCHANGED <<mode, game, paused, rec, sess>>
       ELSE /\ SwitchGame(g)
            /\ IF found = {}
               THEN paused' = 0 /\ UNCHANGED sess
               ELSE \E r \in found : paused' = r /\ sess' = CloseOrphans(r)
    /\ UNCHANGED <<status, kind, gameOf, active, owner, att, loop, reqs, movie>>

\* handle_replay_finished: end the session, then discard an empty run.  The
\* first half is committed when the second one raises, and mode is then kept.
HandleReplayFinished ==
    /\ Takes("finished")
    /\ IF Empty(rec.run) /\ Deletable(rec.run)
       THEN HardDelete(rec.run) /\ EnterIdle
       ELSE EndCurrentSession
    /\ mode' = IF Empty(rec.run) /\ ~Deletable(rec.run) THEN mode ELSE "idle"
    /\ UNCHANGED <<game, loop, reqs, movie>>

HandleReplayError ==
    /\ Takes("error")
    /\ IF Empty(rec.run) /\ Deletable(rec.run)
       THEN HardDelete(rec.run) /\ EnterIdle
       ELSE EndCurrentSession
    /\ mode' = IF Empty(rec.run) /\ ~Deletable(rec.run) THEN mode ELSE "idle"
    /\ UNCHANGED <<game, loop, reqs, movie>>

\* The process dies and comes back: only the database survives.
CrashAndRestart ==
    /\ mode' = "idle" /\ game' = None /\ EnterIdle
    /\ queue' \in {<<RomInfo(g)>> : g \in Games}
    /\ loop' = None /\ reqs' = [q \in Reqs |-> NoReq]
    /\ movie' = [movie EXCEPT !.active = FALSE, !.watch = "off", !.stops = FALSE]
    /\ UNCHANGED dbVars

-----------------------------------------------------------------------------
Begins(q) == \/ StartReference(q) \/ ResumeReference(q) \/ StopReference(q)
             \/ SaveAndFinish(q) \/ StartReplay(q) \/ StopReplay(q)

Returns(q) == \/ StartReferenceReturns(q) \/ StopReferenceReturns(q)
              \/ SaveAndFinishReturns(q) \/ ReplayPlays(q)
              \/ StartReplayReturns(q) \/ ReplayRefused(q) \/ ReplayRaises(q)
              \/ StopReplayReturns(q)

Immediate == \/ StopReplayAtOnce \/ FinalizeRun \/ DiscardRun \/ StartPractice \/ StopPractice
             \/ ResetData
             \/ \E r \in RunId : \/ ActivateRun(r)
                                 \/ \E p \in BOOLEAN : DeleteRun(r, p)
                                 \/ \E o \in Ords : DeleteCaptureSession(r, o)

Handles == \/ HandleEntrance \/ EntranceSaved \/ HandleExit \/ HandleRomInfo
           \/ HandleReplayFinished \/ HandleReplayError

Watches == MovieRunsOut \/ ReplayEnds \/ ReplayEndHandled

Next == \/ \E q \in Reqs : Begins(q) \/ Returns(q)
        \/ Immediate \/ PollerEmits \/ RomChanges \/ Handles \/ Watches
        \/ CrashAndRestart

Spec == Init /\ [][Next]_vars

-----------------------------------------------------------------------------
(* Fairness: the asyncio loop runs every task that can run, so a suspended  *)
(* handler returns, the event loop drains its queue, a movie runs out and   *)
(* its watcher acts.  Nothing obliges the user, the poller or a crash.      *)

Fairness ==
    /\ \A q \in Reqs : WF_vars(Returns(q))
    /\ WF_vars(Handles)
    /\ WF_vars(MovieRunsOut) /\ WF_vars(ReplayEnds) /\ WF_vars(ReplayEndHandled)

FairSpec == Spec /\ Fairness

-----------------------------------------------------------------------------
(* Correctness, under every interleaving.                                   *)

\* A run cannot be recording and paused at once: the pair that the controller's
\* three transition methods guard with _assert_run_state_invariant, here under
\* every interleaving of the handlers that read it across an await.
RunPhaseExclusive == ~(paused # 0 /\ rec.run # 0)

\* What is recorded into, or offered for resuming, is a draft row that is still
\* in the database; the recorder's session is that run's, and is open.
CurrentRunIsDraft ==
    /\ paused # 0 => status[paused] = "draft"
    /\ rec.run # 0 => /\ status[rec.run] = "draft"
                      /\ rec.ord # 0 /\ sess[<<rec.run, rec.ord>>] = "open"
    /\ rec.run = 0 => rec.ord = 0

\* Sessions are accounted for: one that is still open is the recorder's, or
\* belongs to a draft the controller has lost sight of.  So a run offered for
\* resuming, and a saved run, has no open session.
SessionAccounting ==
    \A s \in RunId \X Ords :
        sess[s] = "open" => \/ <<rec.run, rec.ord>> = s
                            \/ status[s[1]] = "draft" /\ s[1] \notin {paused, rec.run}

\* Rows refer to rows: the owning session of a segment, the run and the segment
\* of an attempt, and the run of a session are still there, whatever was
\* discarded, deleted or purged in between.
RowsReferToRows ==
    /\ \A s \in Segs : owner[s] \in RunId \X Ords => sess[owner[s]] # "none"
    /\ \A a \in att : owner[a.seg] # None /\ status[a.run] \in {"draft", "saved"}
    /\ \A s \in RunId \X Ords : sess[s] # "none" => status[s[1]] \in {"draft", "saved"}

\* No row crosses games: whichever run the recorder or a suspended handler was
\* on when the ROM changed, an attempt and the session that owns a segment belong
\* to a run of the segment's own game.
RowsStayInGame ==
    /\ \A a \in att : gameOf[a.run] = a.seg[1]
    /\ \A s \in Segs : owner[s] \in RunId \X Ords => gameOf[owner[s][1]] = s[1]

-----------------------------------------------------------------------------
(* Correctness, when requests come from enabled buttons one at a time.      *)

\* The capture tables keep the run ledger's promise, step by step: a game with a
\* saved run has exactly one flagged run, a saved one of its own, which is its
\* reference; two flags in a game are no reference the ledger knows.
Flagged(g)     == {r \in active : gameOf[r] = g}
ReferenceOf(g) == CASE Flagged(g) = {}              -> 0
                    [] Cardinality(Flagged(g)) = 1 -> CHOOSE r \in Flagged(g) : TRUE
                    [] OTHER                       -> MaxRuns + 1
Ledger == INSTANCE RunLedger WITH reference <- [g \in Games |-> ReferenceOf(g)]
ImplementsLedger == Ledger!LedgerSpec

\* A replay without an anchor in RetroArch's log, or over before the anchor was
\* taken: nobody watches for its end, and only a request stops it.
Unwatched == /\ movie.active /\ ~movie.stops
             /\ \A q \in Reqs : reqs[q].op # "stopReplay"
             /\ movie.watch = "off" \/ (movie.watch = "on" /\ ~movie.plays)

\* A replay's recording does not stay armed for ever: the movie ends, or is
\* refused or stopped, and the recorder lets go of the run, unless nobody watches.
ReplayRecordingEnds ==
    (mode = "replay" /\ rec.run # 0) ~> (mode # "replay" \/ rec.run = 0 \/ Unwatched)

-----------------------------------------------------------------------------
(* What comments, docs and tests say, and the code does not do.             *)

\* "A finished replay that owns no segments must NOT leave a paused draft."
FinishedReplayLeavesNoDraft ==
    [][HandleReplayFinished /\ Empty(rec.run) => status'[rec.run] = "gone"]_vars

\* IDLE is "no run loaded", and start_reference leads from IDLE to RECORDING: a
\* user with nothing recording and nothing paused can start a reference run.
IdleCanStart ==
    (game # None /\ mode = "idle" /\ AllIdle /\ rec.run = 0 /\ paused = 0)
    => LiveDrafts(game) = {}

\* Times of a fast-forwarded movie "must never seed the sampler's time pools".
ReplayNeverSeedsModel ==
    [][HandleExit /\ Closes /\ Head(queue).replayed => rec.src = "replay"]_vars

\* Per-segment boundaries reset when a recording is cleared: a recording closes
\* only segments whose start it observed.
StartIsOfThisRecording ==
    rec.run # 0 /\ rec.pend # None => rec.pend = <<rec.run, rec.ord>>
==============================================================================
