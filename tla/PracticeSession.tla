--------------------------- MODULE PracticeSession ---------------------------
(***************************************************************************)
(* Practice: PracticeSession's loop over PracticeTiming, and the part of   *)
(* SessionManager and of the backend that starts, stops, feeds and         *)
(* navigates it.                                                           *)
(*                                                                         *)
(* The actors share one asyncio loop and interleave where one of them      *)
(* suspends: the run_loop task of each session (loading a state, waiting   *)
(* for a result), the event loop (which awaits the load of a reload or of  *)
(* a resume), the tick that ends the hold after a finish, the poller, and  *)
(* HTTP requests.  A session that was stopped lives on until its wait      *)
(* times out, next to the session started after it.                        *)
(***************************************************************************)
EXTENDS Naturals, Sequences, FiniteSets

CONSTANTS Segs,          \* the segments of the active run
          CpSegs,        \* those that end at a checkpoint, not at an exit
          None,          \* "no value": Python's None
          MaxSessions,   \* bound: practice sessions ever started
          MaxLoads,      \* bound: states loaded for attempts
          MaxQueue,      \* bound: undelivered events the environment adds to
          LoadsFail,     \* may RetroArch reject a state (StateLoadError)?
          Pace           \* the user acts at "any" moment, or only after the
                         \* task of a new session has "begun", or only once
                         \* everything has "settled"

ASSUME PracticeAssumption ==
    /\ CpSegs \subseteq Segs
    /\ None \notin Segs \cup Nat
    /\ MaxSessions \in Nat \ {0} /\ MaxLoads \in Nat /\ MaxQueue \in Nat \ {0}
    /\ LoadsFail \in BOOLEAN /\ Pace \in {"any", "begun", "settled"}

VARIABLES
    mode,      \* SessionManager.mode: "practice", or "idle" for the rest
    current,   \* SessionManager.practice_session, 0 when None
    snap,      \* SessionManager.practice_session_snapshot
    ps,        \* every PracticeSession with its run_loop task
    timing,    \* PracticeTiming: its state, and the load it was armed for
    queue,     \* RetroArchOrchestrator.events
    loop,      \* what the event loop is suspended in, or Free
    files,     \* the segments whose state file exists
    rows,      \* attempts rows: which session, for which load, written how
    loads      \* every load issued for an attempt, in order

vars == <<mode, current, snap, ps, timing, queue, loop, files, rows, loads>>

-----------------------------------------------------------------------------
SessId == 1 .. MaxSessions
LoadId == 1 .. MaxLoads
Load0  == 0 .. MaxLoads

\* The event a session holds in _result_data: the load it was measured on.
Result == LoadId \cup {None}

\* A session.  pc is where its task is; `cursor' and `at' index `hist' from 1:
\* at is the entry run_one loaded, cursor the one to load next.
Session == [pc : {"none", "created", "loading", "waiting", "ended", "crashed",
                  "done"},
            running : BOOLEAN, grind : Segs \cup {None},
            hist : Seq(Segs), cursor : Nat \ {0}, at : Nat, load : Load0,
            armed : BOOLEAN, paused : BOOLEAN, nav : BOOLEAN,
            woke : BOOLEAN, result : Result, ep : LoadId \cup {None}]

Fresh == [pc |-> "none", running |-> FALSE, grind |-> None, hist |-> <<>>,
          cursor |-> 1, at |-> 0, load |-> 0, armed |-> FALSE, paused |-> FALSE,
          nav |-> FALSE, woke |-> FALSE, result |-> None, ep |-> None]

\* An attempt is named by the load that started it: arm() mints one episode id
\* per load.
Timing   == [st : {"idle", "playing", "result"}, load : Load0]
Disarmed == [st |-> "idle", load |-> 0]
Armed(l) == [st |-> "playing", load |-> l]

Loop == [op : {"none", "reload", "resume"}, load : Load0]
Free == [op |-> "none", load |-> 0]

\* "event" is a died or survived row on its way to the database.
Event == [k : {"death", "abort", "pause", "next", "prev"}, load : {0}]
         \cup [k : {"event", "result"}, load : LoadId]
Raw(k)       == [k |-> k, load |-> 0]
Emitted(k)   == [k |-> k, load |-> timing.load]

Row  == [sess : SessId, load : LoadId, how : {"event", "synth"}]
Load == [seg : Segs, sess : SessId]

TypeOK ==
    /\ mode \in {"idle", "practice"}
    /\ current \in SessId \cup {0}
    /\ snap \in {"none", "live", "frozen"}
    /\ ps \in [SessId -> Session]
    /\ timing \in Timing
    /\ queue \in Seq(Event)
    /\ loop \in Loop
    /\ files \subseteq Segs
    /\ rows \subseteq Row
    /\ loads \in Seq(Load) /\ Len(loads) <= MaxLoads

Init ==
    /\ mode = "idle" /\ current = 0 /\ snap = "none"
    /\ ps = [s \in SessId |-> Fresh]
    /\ timing = Disarmed /\ queue = <<>> /\ loop = Free
    /\ files = Segs /\ rows = {} /\ loads = <<>>

-----------------------------------------------------------------------------
(* run_loop and run_one.                                                    *)

\* _segment_at_cursor: the first visited segment from the cursor on whose state
\* still exists, else a fresh pick of the scheduler.  None when nothing is left.
Entries(r) ==
    LET visible == {c \in r.cursor .. Len(r.hist) : r.hist[c] \in files} IN
    IF r.grind # None
    THEN IF r.grind \in files THEN {[hist |-> r.hist, at |-> r.cursor]} ELSE {}
    ELSE IF visible # {}
    THEN {[hist |-> r.hist, at |-> c] :
            c \in {v \in visible : \A w \in visible : v <= w}}
    ELSE {[hist |-> Append(r.hist, seg), at |-> Len(r.hist) + 1] : seg \in files}

\* What a session loads at an entry: the pinned segment, or the one visited.
SegmentOf(r) == IF r.grind # None THEN r.grind ELSE r.hist[r.at]

Issue(seg, s) == /\ Len(loads) < MaxLoads
                 /\ loads' = Append(loads, [seg |-> seg, sess |-> s])

\* The finally clause of run_loop.
EndLoop_KeepsTiming(s, r, how) ==
    /\ ps' = [ps EXCEPT ![s] = [r EXCEPT !.pc = how, !.running = FALSE,
                                         !.paused = FALSE]]
    /\ UNCHANGED <<timing, loads>>
EndLoop(s, r, how) ==
    /\ ps' = [ps EXCEPT ![s] = [r EXCEPT !.pc = how, !.running = FALSE,
                                         !.paused = FALSE]]
    /\ timing' = Disarmed
    /\ UNCHANGED loads

\* Everything is cleared and armed before the load is sent.
BeginCycle(s, r) ==
    \E e \in Entries(r) :
        LET next == [r EXCEPT !.pc = "loading", !.hist = e.hist, !.at = e.at,
                              !.cursor = e.at, !.load = Len(loads) + 1,
                              !.armed = TRUE, !.nav = FALSE, !.woke = FALSE,
                              !.result = None, !.ep = None]
        IN  /\ ps' = [ps EXCEPT ![s] = next]
            /\ Issue(SegmentOf(next), s)
            /\ UNCHANGED timing

\* The session, as run_one leaves it: another cycle, or the end.
Continue(s, r) == IF r.running /\ Entries(r) # {} THEN BeginCycle(s, r)
                                                  ELSE EndLoop(s, r, "ended")

\* start() is the task's first step, not start_practice's.
Begin(s) ==
    /\ ps[s].pc = "created"
    /\ Continue(s, [ps[s] EXCEPT !.running = TRUE])
    /\ UNCHANGED <<mode, current, snap, queue, loop, files, rows>>

\* The state is loaded: the backend arms the timing, run_one starts to wait.
Loaded(s) ==
    /\ ps[s].pc = "loading"
    /\ timing' = Armed(ps[s].load)
    /\ ps' = [ps EXCEPT ![s].pc = "waiting"]
    /\ UNCHANGED <<mode, current, snap, queue, loop, files, rows, loads>>

LoadFails(s) ==
    /\ LoadsFail /\ ps[s].pc = "loading"
    /\ EndLoop(s, ps[s], "crashed")
    /\ UNCHANGED <<mode, current, snap, queue, loop, files, rows>>

\* The wait ends: something woke it, or it timed out on a stopped session.  A
\* result is processed unless a navigation dropped the attempt; with no event
\* row of the attempt at hand, its rows are synthesized.
Waits_ForEventOnly(r) == ~r.woke
Waits(r) == ~r.woke /\ r.running

Wake(s) ==
    LET r == ps[s]
        processes == ~r.nav /\ r.result # None
    IN
    /\ r.pc = "waiting" /\ ~Waits(r)
    /\ rows' = IF processes /\ r.ep = None
               THEN rows \cup {[sess |-> s, load |-> r.result, how |-> "synth"]}
               ELSE rows
    /\ Continue(s, [r EXCEPT !.nav = FALSE,
                             !.ep = IF processes THEN None ELSE @,
                             !.cursor = IF processes THEN @ + 1 ELSE @])
    /\ UNCHANGED <<mode, current, snap, queue, loop, files>>

\* _on_session_done, the task's done-callback.
Freeze == snap' = IF snap = "live" THEN "frozen" ELSE snap

SessionDone_KeepsMode(s) ==
    /\ ps[s].pc \in {"ended", "crashed"}
    /\ ps' = [ps EXCEPT ![s].pc = "done"]
    /\ UNCHANGED <<mode, snap, current, timing, queue, loop, files, rows, loads>>
SessionDone(s) ==
    /\ ps[s].pc \in {"ended", "crashed"}
    /\ IF mode = "practice"
       THEN /\ mode' = "idle"
            /\ IF ps[s].pc = "ended" THEN Freeze ELSE snap' = "none"
       ELSE UNCHANGED <<mode, snap>>
    /\ ps' = [ps EXCEPT ![s].pc = "done"]
    /\ UNCHANGED <<current, timing, queue, loop, files, rows, loads>>

-----------------------------------------------------------------------------
(* The user: the dashboard's buttons and the controller's menu.  (R+Y, which  *)
(* starts or stops through the queue, is the same two steps.)               *)

Settled(r) == r.pc \in {"none", "done"} \/ (r.pc = "waiting" /\ r.running /\ ~r.woke)
Calm ==
    /\ Pace = "begun" => \A s \in SessId : ps[s].pc # "created"
    /\ Pace = "settled" => /\ loop = Free /\ queue = <<>>
                           /\ \A s \in SessId : Settled(ps[s])

\* practice_session and practice_session.is_running
LiveSession == current # 0 /\ ps[current].running

\* start_practice; grinding pins one segment.  (A failing snapshot, which rolls
\* all of this back before the task has run, is left out.)
StartPractice(s) ==
    /\ Calm
    /\ ps[s].pc = "none" /\ \A t \in SessId : t < s => ps[t].pc # "none"
    /\ ~LiveSession
    /\ \E g \in files \cup {None} :
          ps' = [ps EXCEPT ![s] = [Fresh EXCEPT !.pc = "created", !.grind = g]]
    /\ current' = s /\ mode' = "practice" /\ snap' = "live"
    /\ UNCHANGED <<timing, queue, loop, files, rows, loads>>

StopPractice ==
    /\ Calm
    /\ \/ LiveSession /\ ps' = [ps EXCEPT ![current].running = FALSE]
       \/ /\ ~LiveSession
          /\ mode = "practice" /\ UNCHANGED ps
    /\ mode' = "idle" /\ Freeze
    /\ UNCHANGED <<current, timing, queue, loop, files, rows, loads>>

\* switch_game, as far as practice goes: the event loop reads a new ROM's name.
SwitchGame ==
    /\ Calm /\ loop = Free
    /\ mode' = "idle" /\ snap' = "none"
    /\ ps' = IF current # 0 THEN [ps EXCEPT ![current].running = FALSE] ELSE ps
    /\ UNCHANGED <<current, timing, queue, loop, files, rows, loads>>

\* R+X, R+right, R+left on the controller.
Command(k) ==
    /\ Calm /\ Len(queue) < MaxQueue
    /\ queue' = Append(queue, Raw(k))
    /\ UNCHANGED <<mode, current, snap, ps, timing, loop, files, rows, loads>>

-----------------------------------------------------------------------------
(* The game, the poller that watches it, and the tick.  PracticeTiming sees *)
(* each event first and what it emits is queued before the event.           *)

PlayerDies ==
    /\ Len(queue) < MaxQueue
    /\ queue' = IF timing.st = "playing"
                THEN queue \o <<Emitted("event"), Raw("death")>>
                ELSE Append(queue, Raw("death"))
    /\ UNCHANGED <<mode, current, snap, ps, timing, loop, files, rows, loads>>

\* A pit shows up as an exit that aborts.  It emits no row; it fails the attempt
\* unless the segment ends at a checkpoint.
PlayerAborts ==
    /\ Len(queue) < MaxQueue
    /\ queue' = Append(queue, Raw("abort"))
    /\ timing' = IF timing.st = "playing" /\ loads[timing.load].seg \notin CpSegs
                 THEN [timing EXCEPT !.st = "result"] ELSE timing
    /\ UNCHANGED <<mode, current, snap, ps, loop, files, rows, loads>>

\* The goal or the checkpoint: no handler reads the event itself in practice.
PlayerFinishes ==
    /\ Len(queue) < MaxQueue /\ timing.st = "playing"
    /\ queue' = Append(queue, Emitted("event"))
    /\ timing' = [timing EXCEPT !.st = "result"]
    /\ UNCHANGED <<mode, current, snap, ps, loop, files, rows, loads>>

\* The hold after the finish is over.
Tick ==
    /\ Len(queue) < MaxQueue /\ timing.st = "result"
    /\ queue' = Append(queue, Emitted("result"))
    /\ timing' = Disarmed
    /\ UNCHANGED <<mode, current, snap, ps, loop, files, rows, loads>>

FileVanishes ==
    /\ \E seg \in files : files' = files \ {seg}
    /\ UNCHANGED <<mode, current, snap, ps, timing, queue, loop, rows, loads>>

-----------------------------------------------------------------------------
(* The event loop.                                                          *)

Takes(kinds) == /\ loop = Free /\ queue # <<>> /\ Head(queue).k \in kinds
                /\ queue' = Tail(queue)
Practising == mode = "practice" /\ current # 0

\* receive_event_attempt: the row is the current session's.
HandleEvent ==
    LET l == Head(queue).load IN
    /\ Takes({"event"})
    /\ IF Practising
       THEN /\ rows' = rows \cup {[sess |-> current, load |-> l, how |-> "event"]}
            /\ ps' = [ps EXCEPT ![current].ep = l]
       ELSE UNCHANGED <<rows, ps>>
    /\ UNCHANGED <<mode, current, snap, timing, loop, files, loads>>

HandleResult ==
    /\ Takes({"result"})
    /\ ps' = IF Practising
             THEN [ps EXCEPT ![current].armed = FALSE, ![current].woke = TRUE,
                             ![current].result = Head(queue).load]
             ELSE ps
    /\ UNCHANGED <<mode, current, snap, timing, loop, files, rows, loads>>

\* Death, or an exit that aborts: reload the segment's start.
HandleDeath ==
    /\ Takes({"death", "abort"})
    /\ loop' = IF Practising /\ ps[current].armed /\ ~ps[current].paused
               THEN [op |-> "reload", load |-> 0] ELSE Free
    /\ UNCHANGED <<mode, current, snap, ps, timing, files, rows, loads>>

\* toggle_pause ignores a session with no attempt in flight.  Pausing disarms;
\* resuming loads the segment again and suspends.
InFlight == Practising /\ ps[current].running /\ ps[current].armed

HandlePause ==
    /\ Takes({"pause"})
    /\ \/ /\ ~InFlight /\ UNCHANGED <<ps, timing, loop, loads>>
       \/ /\ InFlight /\ ~ps[current].paused
          /\ ps' = [ps EXCEPT ![current].paused = TRUE]
          /\ timing' = Disarmed
          /\ UNCHANGED <<loop, loads>>
       \/ /\ InFlight /\ ps[current].paused
          /\ ps' = [ps EXCEPT ![current].paused = FALSE, ![current].ep = None,
                              ![current].load = Len(loads) + 1]
          /\ Issue(SegmentOf(ps[current]), current)
          /\ loop' = [op |-> "resume", load |-> Len(loads) + 1]
          /\ UNCHANGED timing
    /\ UNCHANGED <<mode, current, snap, files, rows>>

\* go_prev and skip_next: drop the attempt, move the cursor, wake run_one.
NavOk_Unarmed == Practising /\ ps[current].running /\ ~ps[current].paused
NavOk == InFlight /\ ~ps[current].paused

PrevOk == ps[current].cursor > 1

\* The session, its attempt dropped, with the cursor moved to c.
Dropped(r, c) == [r EXCEPT !.cursor = c, !.nav = TRUE, !.ep = None,
                           !.armed = FALSE, !.woke = TRUE]

HandleNav ==
    LET k == Head(queue).k
        c == ps[current].cursor
        ok == NavOk /\ (k = "prev" => PrevOk)
    IN
    /\ Takes({"next", "prev"})
    /\ IF ok
       THEN /\ ps' = [ps EXCEPT ![current] =
                        Dropped(ps[current], IF k = "next" THEN c + 1 ELSE c - 1)]
            /\ timing' = Disarmed
       ELSE UNCHANGED <<ps, timing>>
    /\ UNCHANGED <<mode, current, snap, loop, files, rows, loads>>

\* The load the event loop awaited is done: a resume arms the timing, for the
\* session it resumed.
LoopReturns_NeverArms ==
    /\ loop.op # "none" /\ loop' = Free
    /\ UNCHANGED <<mode, current, snap, ps, timing, queue, files, rows, loads>>
LoopReturns ==
    /\ loop.op # "none" /\ loop' = Free
    /\ timing' = IF loop.op = "resume" THEN Armed(loop.load) ELSE timing
    /\ UNCHANGED <<mode, current, snap, ps, queue, files, rows, loads>>

\* Its failure is logged, and nothing else happens.
LoopFails ==
    /\ LoadsFail /\ loop.op # "none" /\ loop' = Free
    /\ UNCHANGED <<mode, current, snap, ps, timing, queue, files, rows, loads>>

-----------------------------------------------------------------------------
RunLoop(s) == Begin(s) \/ Loaded(s) \/ LoadFails(s) \/ Wake(s) \/ SessionDone(s)

User == \/ \E s \in SessId : StartPractice(s)
        \/ StopPractice \/ SwitchGame
        \/ \E k \in {"pause", "next", "prev"} : Command(k)

World == PlayerDies \/ PlayerAborts \/ PlayerFinishes \/ FileVanishes

Handles == HandleEvent \/ HandleResult \/ HandleDeath \/ HandlePause \/ HandleNav

Next == \/ \E s \in SessId : RunLoop(s)
        \/ User \/ World \/ Tick \/ Handles \/ LoopReturns \/ LoopFails

Spec == Init /\ [][Next]_vars

\* The asyncio loop runs what can run: each session's task, the event loop, the
\* tick.  The user, the game and the file system owe nothing.
Fairness == /\ \A s \in SessId : WF_vars(RunLoop(s))
            /\ WF_vars(Handles) /\ WF_vars(LoopReturns) /\ WF_vars(Tick)

FairSpec == Spec /\ Fairness

-----------------------------------------------------------------------------
(* Correctness.                                                             *)

\* A visit moves the cursor at most once: while a session plays an entry of its
\* history the cursor is on it, and a navigation, however many keys were
\* pressed, leaves it on a neighbour, with the attempt dropped.
CursorFollowsVisit ==
    \A s \in SessId :
        LET r == ps[s] IN
        r.pc \in {"loading", "waiting"} /\ r.grind = None =>
            /\ r.at \in 1 .. Len(r.hist)
            /\ loads[r.load] = [seg |-> r.hist[r.at], sess |-> s]
            /\ ~r.nav => r.cursor = r.at
            /\ r.nav => r.cursor \in {r.at - 1, r.at + 1} /\ r.woke /\ ~r.armed

\* A session never waits for nothing: while it plays, its attempt is the one
\* being timed, or the result of it is on its way, or a resume is arming it.
NeverWaitsInVain ==
    \A s \in SessId :
        LET r == ps[s] IN
        r.pc = "waiting" /\ r.running /\ ~r.woke /\ ~r.paused =>
            \/ timing.st # "idle" /\ timing.load = r.load
            \/ loop = [op |-> "resume", load |-> r.load]
            \/ \E i \in DOMAIN queue : queue[i].k = "result"

\* The mode and the snapshot tell whether a session runs.
ModeTellsSession ==
    /\ current # 0 /\ ps[current].running => mode = "practice" /\ snap = "live"
    /\ mode = "practice" => current # 0 /\ ps[current].pc # "done"

\* Every attempt row is credited to the session that loaded the attempt.
RowsCredited == \A row \in rows : row.sess = loads[row.load].sess

\* A session that is stopped ends, whatever it was doing.
StopEnds ==
    \A s \in SessId : ps[s].pc \in {"loading", "waiting"} /\ ~ps[s].running
                      ~> ps[s].pc = "done"

-----------------------------------------------------------------------------
(* What a comment says, and the code does not do.                           *)

\* The done-callback "no-ops when the live mode no longer matches the finishing
\* session".
DoneIsNoOp ==
    [][\A s \in SessId :
           /\ s # current /\ LiveSession
           /\ ps[s].pc \in {"ended", "crashed"} /\ ps'[s].pc = "done"
           => UNCHANGED <<mode, snap>>]_vars
==============================================================================
