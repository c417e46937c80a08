------------------------------- MODULE HyperPlay -------------------------------
(***************************************************************************)
(* Hyper play: a session walks the levels of the game, HyperPlayTiming     *)
(* turns what the poller sees into checkpoints, deaths and completions,    *)
(* and the event loop brings them, through two queues, to the session.     *)
(*                                                                         *)
(* The session keeps count of the sub-segment the player is in and of      *)
(* whether it was begun cold; the timing counts checkpoints on its own.    *)
(* What the player really does is kept beside both, in `player' and in the *)
(* `at' and `cold' of each event.  Times are left out.                     *)
(***************************************************************************)
EXTENDS Naturals, Sequences, FiniteSets

CONSTANTS Checkpoints,   \* the number of checkpoints of each level, in order
          MaxSessions,   \* bound: sessions ever started
          MaxBus,        \* bound: undelivered events before the player stands still
          Patient,       \* do user and player wait for what is in flight?
          LoadsFail,     \* may RetroArch reject a state?
          Switches       \* may the user load another game?

Levels == DOMAIN Checkpoints
Runs   == 1 .. MaxSessions

ASSUME HyperPlayAssumption ==
    /\ Checkpoints \in Seq(Nat) /\ Checkpoints # <<>>
    /\ MaxSessions \in Nat \ {0} /\ MaxBus \in Nat \ {0}
    /\ {Patient, LoadsFail, Switches} \subseteq BOOLEAN

VARIABLES
    player,    \* where the player is, and whether the sub-segment began cold
    timing,    \* HyperPlayTiming
    bus,       \* RetroArchOrchestrator.events
    sess,      \* the HyperPlaySessions and where their tasks stand
    live,      \* SessionManager.hyper_play_session: the last started, 0 for none
    mode,      \* SessionManager.mode
    rows       \* the attempts recorded

vars == <<player, timing, bus, sess, live, mode, rows>>

NoSession == [at |-> "none", running |-> FALSE, level |-> 1, sub |-> 0,
              cold |-> TRUE, inbox |-> <<>>]
Idle      == [st |-> "idle", cp |-> 0, cps |-> 0]

Quiet == /\ bus = <<>>
         /\ \A s \in Runs : sess[s].inbox = <<>>
                            /\ sess[s].at \in {"none", "waiting", "ended"}
Gone  == \A s \in Runs : sess[s].at \in {"none", "ended"}

-----------------------------------------------------------------------------
(* The player, external, and what HyperPlayTiming makes of it: the poller   *)
(* hands it each event in the frame it happens.                             *)

Event(k) == [k |-> k, at |-> <<player.level, player.sub>>, cold |-> player.cold]
Says(k)  == bus' = Append(bus, Event(k))

\* observe_event: only a timing that is PLAYING listens.
ObserveCheckpoint ==
    IF timing.st = "playing" /\ timing.cp < timing.cps
    THEN Says("checkpoint") /\ timing' = [timing EXCEPT !.cp = @ + 1]
    ELSE UNCHANGED <<bus, timing>>
ObserveDeath ==
    IF timing.st = "playing"
    THEN Says("death") /\ timing' = [timing EXCEPT !.st = "dying"]
    ELSE UNCHANGED <<bus, timing>>
ObserveExit ==
    /\ timing' = IF timing.st = "playing" THEN [timing EXCEPT !.st = "result"]
                                          ELSE timing
    /\ UNCHANGED bus

Plays == /\ player.alive /\ Len(bus) < MaxBus
         /\ Patient => Quiet /\ timing.st # "dying"
         /\ UNCHANGED <<sess, live, mode, rows>>

CrossCheckpoint ==
    /\ Plays /\ player.sub < Checkpoints[player.level]
    /\ ObserveCheckpoint
    /\ player' = [player EXCEPT !.sub = @ + 1, !.cold = FALSE]
Die ==
    /\ Plays /\ ~player.done /\ ObserveDeath
    /\ player' = [player EXCEPT !.alive = FALSE]
FinishLevel ==
    /\ Plays /\ player.sub = Checkpoints[player.level] /\ ~player.done
    /\ ObserveExit
    /\ player' = [player EXCEPT !.done = TRUE]
\* The game's own respawn, at the last checkpoint.
Respawn ==
    /\ ~player.alive /\ (Patient => Quiet)
    /\ player' = [player EXCEPT !.alive = TRUE, !.cold = TRUE]
    /\ UNCHANGED <<timing, bus, sess, live, mode, rows>>

\* tick: a blackout ends; a result is announced and the timing reset.  The
\* announcement is of where the level was finished.
Tick ==
    \/ /\ timing.st = "dying"
       /\ timing' = [timing EXCEPT !.st = "playing"]
       /\ UNCHANGED <<player, bus, sess, live, mode, rows>>
    \/ /\ timing.st = "result"
       /\ timing' = Idle /\ Says("complete")
       /\ UNCHANGED <<player, sess, live, mode, rows>>

-----------------------------------------------------------------------------
(* SessionManager                                                           *)

Asks == Patient => Quiet

StartHyperPlay ==
    /\ Asks /\ live < MaxSessions
    /\ Patient => Gone
    /\ live # 0 => ~sess[live].running
    /\ live' = live + 1 /\ mode' = "hyper_play"
    /\ sess' = [sess EXCEPT ![live + 1] = [NoSession EXCEPT !.at = "next",
                                                           !.running = TRUE]]
    /\ UNCHANGED <<player, timing, bus, rows>>

StopHyperPlay ==
    /\ Asks /\ live # 0
    /\ sess[live].running \/ mode = "hyper_play"
    /\ sess' = [sess EXCEPT ![live].running = FALSE]
    /\ mode' = "idle"
    /\ UNCHANGED <<player, timing, bus, live, rows>>

\* switch_game stops a practice session, and no other.
SwitchGame ==
    /\ Switches /\ Asks /\ mode # "idle"
    /\ mode' = "idle"
    /\ UNCHANGED <<player, timing, bus, sess, live, rows>>

\* _handle_hyper_play_*: events go to the session that is there now.
RouteEvent ==
    /\ bus # <<>>
    /\ bus' = Tail(bus)
    /\ sess' = IF mode = "hyper_play" /\ live # 0
               THEN [sess EXCEPT ![live].inbox = Append(@, Head(bus))]
               ELSE sess
    /\ UNCHANGED <<player, timing, live, mode, rows>>

-----------------------------------------------------------------------------
(* HyperPlaySession.run_loop and run_one, between their awaits.             *)

Goes(s, at) == sess' = [sess EXCEPT ![s].at = at]

\* The head of run_loop and of run_one: load the level, or be done.
NextLevel(s) ==
    /\ sess[s].at = "next"
    /\ Goes(s, IF sess[s].running /\ sess[s].level \in Levels THEN "loading"
                                                              ELSE "ending")
    /\ UNCHANGED <<player, timing, bus, live, mode, rows>>

Start(level, sub) == [level |-> level, sub |-> sub, cold |-> TRUE, alive |-> TRUE,
                      done |-> FALSE]

\* A mistake: every death goes back to the level's entrance.
LoadExecutes_Entrance(s) ==
    /\ sess[s].at \in {"loading", "reloading"}
    /\ Goes(s, IF sess[s].at = "loading" THEN "loaded" ELSE "reloaded")
    /\ player' = Start(sess[s].level, 0)
    /\ UNCHANGED <<timing, bus, live, mode, rows>>

\* RetroArch executes the load; the await returns later.
LoadExecutes(s) ==
    \/ /\ sess[s].at = "loading" /\ Goes(s, "loaded")
       /\ player' = Start(sess[s].level, 0)
       /\ UNCHANGED <<timing, bus, live, mode, rows>>
    \/ /\ sess[s].at = "reloading" /\ Goes(s, "reloaded")
       /\ player' = Start(sess[s].level, sess[s].sub)
       /\ UNCHANGED <<timing, bus, live, mode, rows>>

\* _on_hyper_play_load arms the timing once the load has returned.
LevelLoaded(s) ==
    /\ sess[s].at = "loaded"
    /\ timing' = [st |-> "playing", cp |-> 0, cps |-> Checkpoints[sess[s].level]]
    /\ sess' = [sess EXCEPT ![s].at = "waiting", ![s].sub = 0, ![s].cold = TRUE]
    /\ UNCHANGED <<player, bus, live, mode, rows>>

\* A level that does not load ends the run; a reload that fails is logged.
LevelFails(s) ==
    /\ LoadsFail /\ sess[s].at = "loading" /\ Goes(s, "ending")
    /\ UNCHANGED <<player, timing, bus, live, mode, rows>>

\* Whatever arrived during the reload is dropped.
Reloaded(s) ==
    /\ sess[s].at = "reloaded" \/ (LoadsFail /\ sess[s].at = "reloading")
    /\ sess' = [sess EXCEPT ![s].at = "waiting", ![s].inbox = <<>>]
    /\ UNCHANGED <<player, timing, bus, live, mode, rows>>

\* wait_for times out, or the last event is done with, and the session was
\* stopped.
Notices(s) ==
    /\ sess[s].at = "waiting" /\ ~sess[s].running
    /\ Goes(s, "next")
    /\ UNCHANGED <<player, timing, bus, live, mode, rows>>

Takes(s, k) == /\ sess[s].at = "waiting" /\ sess[s].inbox # <<>>
               /\ Head(sess[s].inbox).k = k
               /\ UNCHANGED <<player, timing, bus, live, mode>>

\* _record_attempt of a sub-segment that was begun cold.
Record(s) ==
    LET e == Head(sess[s].inbox) IN
    rows' = IF sess[s].cold /\ sess[s].sub <= Checkpoints[sess[s].level]
            THEN rows \cup {[run |-> s, seg |-> <<sess[s].level, sess[s].sub>>,
                             at |-> e.at, cold |-> e.cold]}
            ELSE rows

TakeCheckpoint(s) ==
    /\ Takes(s, "checkpoint")
    /\ Record(s)
    /\ sess' = [sess EXCEPT ![s].inbox = Tail(@), ![s].sub = @ + 1,
                            ![s].cold = FALSE]

\* The cold state of the current sub-segment is loaded, if there is one and
\* the session still runs.
TakeDeath(s) ==
    /\ Takes(s, "death")
    /\ sess' = [sess EXCEPT ![s].inbox = Tail(@), ![s].cold = TRUE,
                            ![s].at = IF sess[s].sub > Checkpoints[sess[s].level]
                                      THEN "waiting"
                                      ELSE IF sess[s].running THEN "reloading"
                                      ELSE "next"]
    /\ UNCHANGED rows

\* A mistake: the level is not left behind.
TakeComplete_Again(s) ==
    /\ Takes(s, "complete")
    /\ Record(s)
    /\ sess' = [sess EXCEPT ![s].inbox = Tail(@), ![s].at = "next"]

TakeComplete(s) ==
    /\ Takes(s, "complete")
    /\ Record(s)
    /\ sess' = [sess EXCEPT ![s].inbox = Tail(@), ![s].level = @ + 1,
                            ![s].at = "next"]

\* The teardown of run_loop disarms whatever attempt the timing has.
Teardown(s) ==
    /\ sess[s].at = "ending"
    /\ timing' = Idle
    /\ sess' = [sess EXCEPT ![s].at = "done", ![s].running = FALSE]
    /\ UNCHANGED <<player, bus, live, mode, rows>>

\* _on_hyper_play_done: the mode is taken to be this session's own.
SessionDone(s) ==
    /\ sess[s].at = "done"
    /\ Goes(s, "ended")
    /\ mode' = "idle"
    /\ UNCHANGED <<player, timing, bus, live, rows>>

-----------------------------------------------------------------------------
Init ==
    /\ player = Start(1, 0)
    /\ timing = Idle /\ bus = <<>> /\ live = 0 /\ mode = "idle" /\ rows = {}
    /\ sess = [s \in Runs |-> NoSession]

Task(s) == \/ NextLevel(s) \/ LoadExecutes(s) \/ LevelLoaded(s) \/ Reloaded(s)
           \/ Notices(s) \/ TakeCheckpoint(s) \/ TakeDeath(s) \/ TakeComplete(s)
           \/ Teardown(s) \/ SessionDone(s)

Next == \/ CrossCheckpoint \/ Die \/ FinishLevel \/ Respawn \/ Tick
        \/ StartHyperPlay \/ StopHyperPlay \/ SwitchGame \/ RouteEvent
        \/ \E s \in Runs : Task(s) \/ LevelFails(s)

\* The event loop takes ready tasks in turn and the tick loop runs; the player
\* respawns, and does not fail for ever at what could be done again and again.
Fairness ==
    /\ WF_vars(RouteEvent) /\ WF_vars(Tick) /\ WF_vars(Respawn)
    /\ \A s \in Runs : WF_vars(Task(s))
    /\ SF_vars(CrossCheckpoint) /\ SF_vars(FinishLevel)

Spec == Init /\ [][Next]_vars /\ Fairness

-----------------------------------------------------------------------------
(* Properties *)

\* The session that waits for its player, and no event on its way.
Attended(s) == s = live /\ mode = "hyper_play" /\ sess[s].at = "waiting"
               /\ sess[s].running /\ Quiet

\* The two counts of passed checkpoints, the session's and the timing's, agree
\* with where the player is, so a death reloads the sub-segment it happened in
\* (HyperPlayTiming._cp_index, run_one's current_sub_index).  So an attempt is
\* recorded for the sub-segment that was played, and only where that was begun
\* from a load or a respawn ("all practice / hyper-play attempts are cold":
\* _record_attempt is guarded by cold_since).
CountsAgree ==
    /\ \A r \in rows : r.seg = r.at /\ r.cold
    /\ \A s \in Runs : Attended(s) /\ timing.st = "playing" =>
           sess[s].sub = timing.cp /\ <<sess[s].level, sess[s].sub>>
                                      = <<player.level, player.sub>>

\* A run ends, stopped or with its last level, unless the game is switched
\* under it; a stopped run's task ends whatever it awaited.
RunsEnd == \A s \in Runs :
    /\ sess[s].at = "next" ~> \/ sess[s].at = "ended"
                              \/ mode = "idle" /\ sess[s].running
    /\ (sess[s].at # "none" /\ ~sess[s].running) ~> sess[s].at = "ended"
==============================================================================
