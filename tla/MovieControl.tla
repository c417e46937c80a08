------------------------------ MODULE MovieControl ------------------------------
(***************************************************************************)
(* Movies: MovieController and RAMovieIO record and replay input movies in *)
(* RetroArch, on behalf of HTTP requests and of a task that waits for the  *)
(* end of each replay.  RetroArch offers toggles and no way to ask, so the *)
(* controller has to remember whether fast-forward is on; requests and the *)
(* task interleave at every await.                                         *)
(*                                                                         *)
(* A hand is whoever runs controller code: a request, or the end-watch     *)
(* task that a request to replay left behind.                              *)
(***************************************************************************)
EXTENDS Naturals, Sequences, FiniteSets

CONSTANTS Calls,     \* the HTTP requests that are ever made
          None,      \* not a request: no movie, no task
          Patient,   \* does the user wait for a request to return?
          Faults     \* may a command to RetroArch fail?

ASSUME MovieAssumption == /\ IsFiniteSet(Calls) /\ None \notin Calls
                          /\ {Patient, Faults} \subseteq BOOLEAN

Hands == {"call", "watch"} \X Calls

VARIABLES
    emu,       \* RetroArch: the movie it plays, records, its speed, its log
    ctl,       \* MovieController: what it believes and its end-watch task
    staged,    \* the movies whose copies lie in RetroArch's directory
    at,        \* where each hand stands
    job,       \* what each hand works on: a movie, and whether to speed it up
    anchor,    \* the end markers in the log when a watch was set up
    events,    \* RetroArchOrchestrator.events
    mode,      \* SessionManager.mode
    crossed    \* history: has one operation on movies begun inside another?

vars == <<emu, ctl, staged, at, job, anchor, events, mode, crossed>>

Resting  == {"idle", "done", "failed", "cancelled"}
Watching == {"polling", "settling"}
InFlight(h) == at[h] \notin Resting \cup Watching
Busy  == \E h \in Hands : InFlight(h)
Quiet == ~Busy /\ events = <<>>

Goes(h, s) == at' = [at EXCEPT ![h] = s]
Emits(e)   == events' = Append(events, e)
Cross      == crossed' = (crossed \/ ~Quiet)

-----------------------------------------------------------------------------
(* A request.  The session's mode guards it; it does not change until the  *)
(* request returns.                                                        *)

Called(c, m) ==
    /\ at[<<"call", c>>] = "idle" /\ mode = m
    /\ Patient => \A d \in Calls : ~InFlight(<<"call", d>>)
    /\ Cross
    /\ UNCHANGED <<emu, staged, anchor, events, mode>>

\* Each call, and the watch it may leave, works on the movie it is named for.
StartRecording(c) ==
    Called(c, "idle") /\ Goes(<<"call", c>>, "recording") /\ UNCHANGED <<ctl, job>>
StartPlayback(c) ==
    /\ Called(c, "idle") /\ Goes(<<"call", c>>, "waking")
    /\ \E fast \in BOOLEAN :
           job' = [job EXCEPT ![<<"call", c>>] = [movie |-> c, fast |-> fast]]
    /\ UNCHANGED ctl

\* MovieController.start_recording: RECORD_REPLAY in a thread.  A failure of
\* the controller's own kind is swallowed and the reference goes on without.
RecordReplay(c) ==
    /\ at[<<"call", c>>] = "recording" /\ Goes(<<"call", c>>, "done")
    /\ \/ emu' = [emu EXCEPT !.recording = TRUE] /\ ctl' = [ctl EXCEPT !.rec = c]
       \/ Faults /\ UNCHANGED <<emu, ctl>>
    /\ mode' = "reference"
    /\ UNCHANGED <<staged, job, anchor, events, crossed>>

StopRecording(c) ==
    /\ Called(c, "reference") /\ UNCHANGED <<ctl, job>>
    /\ Goes(<<"call", c>>, IF ctl.rec = None THEN "leaving" ELSE "saving")
\* HALT_REPLAY stops whatever movie runs; no new file is a logged failure.
SaveRecording(c) ==
    /\ at[<<"call", c>>] = "saving" /\ Goes(<<"call", c>>, "leaving")
    /\ emu' = [emu EXCEPT !.recording = FALSE, !.movie = None]
    /\ ctl' = [ctl EXCEPT !.rec = None]
    /\ UNCHANGED <<staged, job, anchor, events, mode, crossed>>
ReferenceStopped(c) ==
    /\ at[<<"call", c>>] = "leaving" /\ Goes(<<"call", c>>, "done")
    /\ mode' = "idle"
    /\ UNCHANGED <<emu, ctl, staged, job, anchor, events, crossed>>

-----------------------------------------------------------------------------
(* start_playback and play_movie.                                          *)

Steps(c, from) == at[<<"call", c>>] = from

\* resume_if_paused; an NCI error is none of the kinds anyone catches.
Wakes(c) ==
    /\ Steps(c, "waking")
    /\ \/ Goes(<<"call", c>>, "staging") /\ emu' = [emu EXCEPT !.paused = FALSE]
       \/ Faults /\ Goes(<<"call", c>>, "failed") /\ UNCHANGED emu
    /\ UNCHANGED <<ctl, staged, job, anchor, events, mode, crossed>>

\* The copies are written to a window of slots, one of which RetroArch plays.
StageAndPlay(c) ==
    /\ Steps(c, "staging") /\ staged' = staged \cup {c}
    /\ \/ Goes(<<"call", c>>, "verifying") /\ emu' = [emu EXCEPT !.movie = c]
       \/ Faults /\ Goes(<<"call", c>>, "failed") /\ UNCHANGED emu
    /\ UNCHANGED <<ctl, job, anchor, events, mode, crossed>>

\* The replay is announced, and watched when there is a log to watch.  Without
\* an active playback the announcement fails.
Announce(c, k) ==
    IF k.movie = None
    THEN /\ Goes(<<"call", c>>, "failed") /\ ctl' = k
         /\ UNCHANGED <<anchor, events, mode>>
    ELSE /\ Emits("started") /\ mode' = "replay"
         /\ \/ /\ at' = [at EXCEPT ![<<"call", c>>] = "done", ![<<"watch", c>>] = "polling"]
               /\ ctl' = [k EXCEPT !.watch = c]
               /\ anchor' = [anchor EXCEPT ![c] = emu.ends]
            \/ /\ Faults /\ Goes(<<"call", c>>, "done") /\ ctl' = k
               /\ UNCHANGED anchor

\* Work RAM changes between two samples whenever the game is not paused.
Verified(c) ==
    /\ Steps(c, "verifying") /\ ~emu.paused
    /\ LET k == [ctl EXCEPT !.movie = c] IN
       IF job[<<"call", c>>].fast
       THEN /\ ctl' = k /\ Goes(<<"call", c>>, "speeding")
            /\ UNCHANGED <<anchor, events, mode>>
       ELSE Announce(c, k)
    /\ UNCHANGED <<emu, staged, job, crossed>>
\* A mistake: a failed replay leaves its copies.
VerifyFails_KeepsCopies(c) ==
    /\ Steps(c, "verifying") /\ emu.paused /\ Goes(<<"call", c>>, "done")
    /\ emu' = [emu EXCEPT !.movie = None, !.recording = FALSE]
    /\ Emits("error") /\ mode' = "replay"
    /\ UNCHANGED <<ctl, staged, job, anchor, crossed>>
VerifyFails(c) ==
    /\ Steps(c, "verifying") /\ emu.paused /\ Goes(<<"call", c>>, "done")
    /\ emu' = [emu EXCEPT !.movie = None, !.recording = FALSE]
    /\ staged' = staged \ {c} /\ Emits("error") /\ mode' = "replay"
    /\ UNCHANGED <<ctl, job, anchor, crossed>>

SpeedUp(c) ==
    /\ Steps(c, "speeding") /\ Goes(<<"call", c>>, "sped")
    /\ emu' = [emu EXCEPT !.fast = ~@]
    /\ UNCHANGED <<ctl, staged, job, anchor, events, mode, crossed>>
SpedUp(c) ==
    /\ Steps(c, "sped") /\ Announce(c, [ctl EXCEPT !.ff = TRUE])
    /\ UNCHANGED <<emu, staged, job, crossed>>

-----------------------------------------------------------------------------
(* stop_playback, run by a request or by the watch of a replay's end.      *)

\* The watch is forgotten, and cancelled unless it is the one that stops.
StopBegins(h, k) ==
    /\ at' = [x \in Hands |->
                 IF x = h THEN IF k.movie = None THEN "returning" ELSE "halting"
                 ELSE IF x = <<"watch", k.watch>> /\ at[x] \in Watching
                      THEN "cancelled" ELSE at[x]]
    /\ job' = [job EXCEPT ![h] = [movie |-> k.movie, fast |-> FALSE]]
    /\ ctl' = [k EXCEPT !.watch = None]

StopPlayback(c) == Called(c, "replay") /\ StopBegins(<<"call", c>>, ctl)

WatchSeesEnd(c) ==
    /\ at[<<"watch", c>>] = "polling" /\ emu.ends > anchor[c]
    /\ Goes(<<"watch", c>>, "settling")
    /\ UNCHANGED <<emu, ctl, staged, job, anchor, events, mode, crossed>>
\* A mistake: the watch cancels itself: it does not clear its handle first.
WatchStops_CancelsItself(c) ==
    /\ at[<<"watch", c>>] = "settling" /\ Goes(<<"watch", c>>, "cancelled")
    /\ ctl' = [ctl EXCEPT !.watch = None]
    /\ UNCHANGED <<emu, staged, job, anchor, events, mode, crossed>>
WatchStops(c) ==
    /\ at[<<"watch", c>>] = "settling" /\ Cross
    /\ StopBegins(<<"watch", c>>, [ctl EXCEPT !.watch = None])
    /\ UNCHANGED <<emu, staged, anchor, events, mode>>

\* Halting a movie and removing its copies: a thread.
Halts(h) ==
    /\ at[h] = "halting" /\ Goes(h, "halted")
    /\ emu' = [emu EXCEPT !.movie = None, !.recording = FALSE]
    /\ staged' = staged \ {job[h].movie}
    /\ UNCHANGED <<ctl, job, anchor, events, mode, crossed>>
Clears(h) ==
    /\ at[h] = "halted" /\ Goes(h, IF ctl.ff THEN "slowing" ELSE "resuming")
    /\ ctl' = [ctl EXCEPT !.movie = None]
    /\ UNCHANGED <<emu, staged, job, anchor, events, mode, crossed>>
SlowDown(h) ==
    /\ at[h] = "slowing" /\ Goes(h, "slowed")
    /\ emu' = [emu EXCEPT !.fast = ~@]
    /\ UNCHANGED <<ctl, staged, job, anchor, events, mode, crossed>>
\* A mistake: fast-forward is toggled before the handle is dropped, and not forgotten.
SlowedDown_Keeps(h) ==
    /\ at[h] = "slowed" /\ Goes(h, "resuming")
    /\ UNCHANGED <<emu, ctl, staged, job, anchor, events, mode, crossed>>
SlowedDown(h) ==
    /\ at[h] = "slowed" /\ Goes(h, "resuming")
    /\ ctl' = [ctl EXCEPT !.ff = FALSE]
    /\ UNCHANGED <<emu, staged, job, anchor, events, mode, crossed>>
\* resume_if_paused again; an error here leaves the end unannounced.
Resumes(h) ==
    /\ at[h] = "resuming"
    /\ \/ /\ Goes(h, "returning") /\ Emits("finished")
          /\ emu' = [emu EXCEPT !.paused = FALSE]
       \/ Faults /\ Goes(h, "failed") /\ UNCHANGED <<emu, events>>
    /\ UNCHANGED <<ctl, staged, job, anchor, mode, crossed>>
\* A request's return makes the session idle; a task just ends.
Returns(h) ==
    /\ at[h] = "returning" /\ Goes(h, "done")
    /\ mode' = IF h[1] = "call" THEN "idle" ELSE mode
    /\ UNCHANGED <<emu, ctl, staged, job, anchor, events, crossed>>

-----------------------------------------------------------------------------
(* RetroArch and the event loop.                                           *)

\* At its end a movie leaves RetroArch paused, and a line in its log.
MovieRunsOut ==
    /\ emu.movie # None /\ ~emu.paused
    /\ emu' = [emu EXCEPT !.movie = None, !.paused = TRUE, !.ends = @ + 1]
    /\ UNCHANGED <<ctl, staged, at, job, anchor, events, mode, crossed>>

HandleEvent ==
    /\ events # <<>> /\ events' = Tail(events)
    /\ mode' = IF Head(events) \in {"finished", "error"} THEN "idle" ELSE mode
    /\ UNCHANGED <<emu, ctl, staged, at, job, anchor, crossed>>

MovieInit ==
    /\ emu = [movie |-> None, recording |-> FALSE, paused |-> FALSE,
              fast |-> FALSE, ends |-> 0]
    /\ ctl = [movie |-> None, rec |-> None, ff |-> FALSE, watch |-> None]
    /\ staged = {} /\ at = [h \in Hands |-> "idle"]
    /\ job = [h \in Hands |-> [movie |-> None, fast |-> FALSE]]
    /\ anchor = [c \in Calls |-> 0]
    /\ events = <<>> /\ mode = "idle" /\ crossed = FALSE

Stops(h) == \/ Halts(h) \/ Clears(h) \/ SlowDown(h) \/ SlowedDown(h)
            \/ Resumes(h) \/ Returns(h)
Works(c) == \/ RecordReplay(c) \/ SaveRecording(c) \/ ReferenceStopped(c)
            \/ Wakes(c) \/ StageAndPlay(c) \/ Verified(c) \/ VerifyFails(c)
            \/ SpeedUp(c) \/ SpedUp(c) \/ WatchSeesEnd(c) \/ WatchStops(c)
Asks(c)  == \/ StartRecording(c) \/ StartPlayback(c)
            \/ StopRecording(c) \/ StopPlayback(c)

MovieNext == \/ \E c \in Calls : Asks(c) \/ Works(c)
             \/ \E h \in Hands : Stops(h)
             \/ MovieRunsOut \/ HandleEvent

\* Threads end, tasks are scheduled and movies run out; nobody has to ask.
MovieFair == /\ \A c \in Calls : WF_vars(Works(c))
             /\ \A h \in Hands : WF_vars(Stops(h))
             /\ WF_vars(MovieRunsOut) /\ WF_vars(HandleEvent)

MovieSpec == MovieInit /\ [][MovieNext]_vars /\ MovieFair

-----------------------------------------------------------------------------
(* Properties.                                                             *)

\* Fast-forward is a blind toggle.  As long as no two operations have crossed
\* it is on exactly when the controller remembers it, and never without a
\* replay: movies.py turns it off in stop_playback iff start_playback had
\* turned it on.
FastForwardPaired ==
    Quiet /\ ~crossed => /\ emu.fast = ctl.ff
                         /\ ctl.ff => ctl.movie # None

\* Between operations that have not crossed, the controller's two handles
\* describe what RetroArch does, and the session's mode agrees with them.  Every
\* staged copy is removed on stop or failure: RetroArch's directory holds copies
\* only of the movie the controller believes to be playing.
ControllerAgrees ==
    /\ ~Busy /\ ~crossed => staged = {ctl.movie} \ {None}
    /\ Quiet /\ ~crossed =>
        /\ ctl.rec # None <=> emu.recording
        /\ emu.movie \in {None, ctl.movie}
        /\ mode = "replay" <=> ctl.movie # None
        /\ mode = "reference" <=> ctl.rec # None

\* A replay that is still running when its watch is set up is finalized with
\* nobody's help: the movie is let go and the session leaves the replay.
WatchedReplayEnds ==
    \A c \in Calls : at[<<"watch", c>>] \in Watching /\ emu.movie = c
                         ~> ctl.movie # c /\ mode # "replay"

==============================================================================
