---------------------------- MODULE DashboardServer ----------------------------
(***************************************************************************)
(* The process around the sessions: the link to RetroArch and its poller,  *)
(* the check for another ROM, the gamepad's thread, the event loop that    *)
(* hands each event to the session manager, the switch to another game,    *)
(* the scheduler that HTTP threads build on demand, and the states pushed  *)
(* to the browser pages.                                                   *)
(*                                                                         *)
(* A handler does not yield between its statements: while one is under way *)
(* (server.at # "idle") no other coroutine runs, but threads do.           *)
(***************************************************************************)
EXTENDS Naturals, Sequences, FiniteSets, SequencesExt

CONSTANTS Roms,      \* the ROM files RetroArch may run
          GameOf,    \* the game of each file: its checksum
          Defined,   \* the games with condition definitions
          Workers,   \* HTTP worker threads that ask for the scheduler
          Pages,     \* browser pages
          Verbs,     \* the gamepad's command buttons
          Mod,       \* its modifier
          QMax,      \* SSE_QUEUE_MAX
          GiveUp,    \* _MAX_RECONNECT_ATTEMPTS
          MaxInputs, \* bound: how often anything outside acts
          None

Games == {GameOf[r] : r \in Roms}

ASSUME ServerAssumption ==
    /\ GameOf \in [Roms -> Games] /\ Defined \subseteq Games
    /\ IsFiniteSet(Verbs) /\ Mod \notin Verbs /\ None \notin Roms \cup Games
    /\ {QMax, GiveUp} \subseteq Nat \ {0} /\ MaxInputs \in Nat

VARIABLES
    ra,       \* the ROM RetroArch runs, or None while it is down or loading
    link,     \* the orchestrator: connected, its poller, the last ROM seen
    check,    \* the ROM check: the answer under way
    pad,      \* the gamepad: buttons held, and the detector's two fields
    posted,   \* call_soon_threadsafe: events on their way to the loop
    events,   \* the event queue
    server,   \* the event loop: the handler under way
    game,     \* SystemState.game_id
    specs,    \* the game whose conditions the poller reads
    sched,    \* SessionManager.scheduler: its game, or None
    workers,  \* the HTTP threads inside get_scheduler
    armed,    \* SystemState.menu_armed
    pages,    \* the browser pages and their queues
    builds,   \* history: schedulers built since the last switch
    crossed,  \* history: the last switch overtook a thread that was building
    presses,  \* history: presses and commands of each button
    inputs    \* bound: what the outside has done so far

vars == <<ra, link, check, pad, posted, events, server, game, specs, sched,
          workers, armed, pages, builds, crossed, presses, inputs>>
outside   == <<ra, pad, presses, inputs>>
session   == <<game, specs, sched, armed, server>>
threads   == <<workers, builds, crossed>>

NoCheck == [asked |-> FALSE, rom |-> None]
Idle    == [at |-> "idle", game |-> None]
AtRest  == [at |-> "rest", game |-> None]
Closed  == [at |-> "closed", queue |-> <<>>, shown |-> None, late |-> FALSE]
Free == server.at = "idle"
Input == inputs < MaxInputs /\ inputs' = inputs + 1

\* The state that is pushed, as far as it is modelled here.
State == [game |-> game, armed |-> armed, on |-> link.connected]

-----------------------------------------------------------------------------
(* RetroArch and the player.                                               *)

\* Another ROM is loaded, or RetroArch goes down, or comes back.
RetroArchChanges(r) ==
    /\ Input /\ r # ra /\ ra' = r
    /\ UNCHANGED <<link, check, pad, posted, events, pages, presses>>
    /\ UNCHANGED session /\ UNCHANGED threads

\* A button goes down or up.
Touch(b) ==
    /\ Input
    /\ pad' = [pad EXCEPT !.held = IF b \in @ THEN @ \ {b} ELSE @ \cup {b}]
    /\ presses' = IF b \in Verbs \ pad.held THEN [presses EXCEPT ![b].down = @ + 1]
                  ELSE presses
    /\ UNCHANGED <<ra, link, check, posted, events, pages>>
    /\ UNCHANGED session /\ UNCHANGED threads

-----------------------------------------------------------------------------
(* The link.                                                               *)

\* connect, called by the event loop until it succeeds: not while RetroArch
\* reports no ROM.  It queues the ROM and starts the poller and the tick loop.
Connect ==
    /\ Free /\ ~link.connected /\ ra # None
    /\ link' = [link EXCEPT !.connected = TRUE, !.poller = "on", !.last = ra]
    /\ events' = Append(events, [kind |-> "rom", what |-> ra])
    /\ UNCHANGED <<check, posted, pages>>
    /\ UNCHANGED outside /\ UNCHANGED session /\ UNCHANGED threads

\* Poller.run: a cycle of failed reads reconnects the socket; after GiveUp of
\* them it stops for good.  One good read forgets them.
PollFails ==
    /\ Free /\ link.poller = "on" /\ ra = None
    /\ link' = [link EXCEPT !.misses = @ + 1,
                            !.poller = IF link.misses + 1 = GiveUp THEN "gone" ELSE @]
    /\ UNCHANGED <<check, posted, events, pages>>
    /\ UNCHANGED outside /\ UNCHANGED session /\ UNCHANGED threads
PollReads ==
    /\ Free /\ link.poller = "on" /\ ra # None /\ link.misses # 0
    /\ link' = [link EXCEPT !.misses = 0]
    /\ UNCHANGED <<check, posted, events, pages>>
    /\ UNCHANGED outside /\ UNCHANGED session /\ UNCHANGED threads

\* _check_rom_change, from the tick loop: the status is read in a thread ...
CheckAsks ==
    /\ Free /\ link.connected /\ ~check.asked
    /\ check' = [asked |-> TRUE, rom |-> ra]
    /\ UNCHANGED <<link, posted, events, pages>>
    /\ UNCHANGED outside /\ UNCHANGED session /\ UNCHANGED threads
\* A mistake: the ROM is reported only while the poller runs.
CheckReturns_Polled ==
    /\ Free /\ check.asked /\ check' = NoCheck
    /\ IF check.rom \in {None, link.last} \/ link.poller # "on"
       THEN UNCHANGED <<link, events>>
       ELSE /\ link' = [link EXCEPT !.last = check.rom]
            /\ events' = Append(events, [kind |-> "rom", what |-> check.rom])
    /\ UNCHANGED <<posted, pages>>
    /\ UNCHANGED outside /\ UNCHANGED session /\ UNCHANGED threads
\* ... and a ROM other than the last is queued.
CheckReturns ==
    /\ Free /\ check.asked /\ check' = NoCheck
    /\ IF check.rom \in {None, link.last} THEN UNCHANGED <<link, events>>
       ELSE /\ link' = [link EXCEPT !.last = check.rom]
            /\ events' = Append(events, [kind |-> "rom", what |-> check.rom])
    /\ UNCHANGED <<posted, pages>>
    /\ UNCHANGED outside /\ UNCHANGED session /\ UNCHANGED threads

-----------------------------------------------------------------------------
(* The gamepad.                                                            *)

Arms(b) == [kind |-> "armed", what |-> b]
Commands(bs) == SetToSeq({[kind |-> "command", what |-> b] : b \in bs})

\* ControllerMenuDetector.step: the menu opens and closes with the modifier;
\* what is held when it opens is no press.
Opens  == Mod \in pad.held /\ ~pad.open
Closes == Mod \notin pad.held /\ pad.open
\* A mistake: what is held when the menu opens counts as pressed.
Before_Nothing == IF Opens THEN {} ELSE pad.prev
Before == IF Opens THEN Verbs \cap pad.held ELSE pad.prev
Fires  == IF Mod \in pad.held THEN (Verbs \cap pad.held) \ Before ELSE {}

\* _poll_once, in the gamepad's thread.
PadPoll ==
    /\ link.connected
    /\ pad' = [pad EXCEPT !.open = Mod \in pad.held,
                          !.prev = IF Mod \in pad.held THEN Verbs \cap pad.held ELSE {}]
    /\ posted' = posted \o (IF Opens \/ Closes THEN <<Arms(Opens)>> ELSE <<>>)
                        \o Commands(Fires)
    /\ presses' = [b \in Verbs |-> IF b \in Fires
                                   THEN [presses[b] EXCEPT !.fired = @ + 1] ELSE presses[b]]
    /\ UNCHANGED <<ra, link, check, events, pages, inputs>>
    /\ UNCHANGED session /\ UNCHANGED threads

\* The loop runs a posted callback: _enqueue.
LoopRuns ==
    /\ Free /\ posted # <<>>
    /\ posted' = Tail(posted) /\ events' = Append(events, Head(posted))
    /\ UNCHANGED <<link, check, pages>>
    /\ UNCHANGED outside /\ UNCHANGED session /\ UNCHANGED threads

-----------------------------------------------------------------------------
(* The pages.                                                              *)

\* A mistake: a full queue refuses the new state.
Pushed_DropsNew(q, s) == IF Len(q) < QMax THEN Append(q, s) ELSE q
\* broadcast: a full queue loses its oldest state.
Pushed(q, s) == Append(IF Len(q) < QMax THEN q ELSE Tail(q), s)
Broadcast(s) ==
    pages' = [p \in Pages |->
        CASE pages[p].at = "open"    -> [pages[p] EXCEPT !.queue = Pushed(@, s), !.late = FALSE]
          [] pages[p].at = "fetched" -> [pages[p] EXCEPT !.late = TRUE]
          [] OTHER                   -> pages[p]]

\* A page fetches the state, and then subscribes.  What is pushed in between
\* it does not see.
Fetch(p) ==
    /\ Input /\ pages[p].at = "closed"
    /\ pages' = [pages EXCEPT ![p] = [at |-> "fetched", queue |-> <<>>, shown |-> State,
                                      late |-> server.at # "idle"]]
    /\ UNCHANGED <<ra, link, check, pad, posted, events, presses>>
    /\ UNCHANGED session /\ UNCHANGED threads
Subscribe(p) ==
    /\ Free /\ pages[p].at = "fetched" /\ pages' = [pages EXCEPT ![p].at = "open"]
    /\ UNCHANGED <<link, check, posted, events>>
    /\ UNCHANGED outside /\ UNCHANGED session /\ UNCHANGED threads
\* event_stream sends the next state and the page shows it.
Receive(p) ==
    /\ Free /\ pages[p].queue # <<>>
    /\ pages' = [pages EXCEPT ![p].shown = Head(pages[p].queue), ![p].queue = Tail(@)]
    /\ UNCHANGED <<link, check, posted, events>>
    /\ UNCHANGED outside /\ UNCHANGED session /\ UNCHANGED threads
\* The page is closed: the stream is cancelled and unsubscribes.
Leave(p) ==
    /\ Free /\ pages[p].at = "open"
    /\ pages' = [pages EXCEPT ![p] = Closed]
    /\ UNCHANGED <<link, check, posted, events>>
    /\ UNCHANGED outside /\ UNCHANGED session /\ UNCHANGED threads

-----------------------------------------------------------------------------
(* The event loop's handlers.                                              *)

Takes(kind) == Free /\ link.connected /\ events # <<>> /\ Head(events).kind = kind
               /\ events' = Tail(events)

\* load_registry_for_game finds the definitions of some games only, and
\* install_condition_registry sends none for the others.
HasDefinitions(g) == g \in Defined
Installed(g)      == IF HasDefinitions(g) THEN g ELSE specs

\* _handle_rom_info: switch_game begins, or has nothing to do.
HandleRom ==
    /\ Takes("rom")
    /\ LET g == GameOf[Head(events).what] IN
       IF g = game THEN specs' = Installed(g) /\ UNCHANGED server
       ELSE server' = [at |-> "named", game |-> g] /\ UNCHANGED specs
    /\ UNCHANGED <<link, check, posted, pages, game, sched, armed>>
    /\ UNCHANGED outside /\ UNCHANGED threads
\* switch_game: game_id is assigned ...
NameGame ==
    /\ server.at = "named" /\ game' = server.game
    /\ server' = [server EXCEPT !.at = "drop"]
    /\ UNCHANGED <<link, check, posted, events, pages, specs, sched, armed>>
    /\ UNCHANGED outside /\ UNCHANGED threads
Overtaken == \E w \in Workers : workers[w].at = "build" /\ workers[w].game # game
\* A mistake: the scheduler of the last game stays.
DropScheduler_Keeps ==
    /\ server.at = "drop" /\ sched' = sched
    /\ server' = [server EXCEPT !.at = "tell"]
    /\ builds' = 0 /\ crossed' = Overtaken
    /\ UNCHANGED <<link, check, posted, events, pages, game, specs, armed, workers>>
    /\ UNCHANGED outside
\* ... then the scheduler is dropped ...
DropScheduler ==
    /\ server.at = "drop" /\ sched' = None
    /\ server' = [server EXCEPT !.at = "tell"]
    /\ builds' = 0 /\ crossed' = Overtaken
    /\ UNCHANGED <<link, check, posted, events, pages, game, specs, armed, workers>>
    /\ UNCHANGED outside
\* ... and the pages are told, and the conditions installed.
TellPages ==
    /\ server.at = "tell" /\ Broadcast(State) /\ specs' = Installed(game)
    /\ server' = Idle
    /\ UNCHANGED <<link, check, posted, events, game, sched, armed>>
    /\ UNCHANGED outside /\ UNCHANGED threads
\* _handle_controller_menu_armed and _handle_controller_command.
HandleArmed ==
    /\ Takes("armed") /\ armed' = Head(events).what
    /\ Broadcast([State EXCEPT !.armed = Head(events).what])
    /\ UNCHANGED <<link, check, posted, game, specs, sched, server>>
    /\ UNCHANGED outside /\ UNCHANGED threads
HandleCommand ==
    /\ Takes("command") /\ Broadcast(State)
    /\ UNCHANGED <<link, check, posted>> /\ UNCHANGED session
    /\ UNCHANGED outside /\ UNCHANGED threads

-----------------------------------------------------------------------------
(* get_scheduler, in the HTTP threads.                                     *)

Locked == \E w \in Workers : workers[w].at = "build"

\* The first look, without the lock.
AskScheduler(w) ==
    /\ Input /\ workers[w].at = "rest"
    /\ sched = None /\ workers' = [workers EXCEPT ![w].at = "lock"]
    /\ UNCHANGED <<ra, link, check, pad, posted, events, pages, presses, builds, crossed>>
    /\ UNCHANGED session
\* The lock, the second look, and the game to build for: none raises.
Acquire(w) ==
    /\ workers[w].at = "lock" /\ ~Locked
    /\ workers' = [workers EXCEPT ![w] =
          IF sched # None \/ game = None THEN AtRest
          ELSE [at |-> "build", game |-> game]]
    /\ UNCHANGED <<link, check, posted, events, pages, builds, crossed>>
    /\ UNCHANGED outside /\ UNCHANGED session
\* The scheduler is built, assigned, and the lock released.
Build(w) ==
    /\ workers[w].at = "build" /\ sched' = workers[w].game
    /\ workers' = [workers EXCEPT ![w] = AtRest] /\ builds' = builds + 1
    /\ UNCHANGED <<link, check, posted, events, pages, crossed, game, specs, armed, server>>
    /\ UNCHANGED outside

-----------------------------------------------------------------------------
NewOrchestrator ==
    /\ link = [connected |-> FALSE, poller |-> "off", misses |-> 0, last |-> None]
    /\ check = NoCheck /\ events = <<>> /\ specs = None
NewPad     == pad = [held |-> {}, open |-> FALSE, prev |-> {}] /\ posted = <<>>
NewSession == /\ game = None /\ sched = None /\ armed = FALSE /\ server = Idle
              /\ workers = [w \in Workers |-> AtRest]

\* create_app puts the parts together; no page is open.
Init ==
    /\ ra \in Roms \cup {None}
    /\ NewOrchestrator /\ NewPad /\ NewSession
    /\ pages = [p \in Pages |-> Closed]
    /\ builds = 0 /\ crossed = FALSE
    /\ presses = [b \in Verbs |-> [down |-> 0, fired |-> 0]] /\ inputs = 0

Handlers == HandleRom \/ NameGame \/ DropScheduler \/ TellPages \/ HandleArmed \/ HandleCommand

Next ==
    \/ \E r \in Roms \cup {None} : RetroArchChanges(r)
    \/ \E b \in Verbs \cup {Mod} : Touch(b)
    \/ Connect \/ PollFails \/ PollReads \/ CheckAsks \/ CheckReturns
    \/ PadPoll \/ LoopRuns \/ Handlers
    \/ \E p \in Pages : Fetch(p) \/ Subscribe(p) \/ Receive(p) \/ Leave(p)
    \/ \E w \in Workers : AskScheduler(w) \/ Acquire(w) \/ Build(w)

\* The event loop and the tick loop never stop; threads and the outside may.
Spec == /\ Init /\ [][Next]_vars
        /\ WF_vars(Connect) /\ WF_vars(CheckAsks) /\ WF_vars(CheckReturns)
        /\ WF_vars(Handlers) /\ WF_vars(LoopRuns)
        /\ \A w \in Workers : WF_vars(Build(w))

-----------------------------------------------------------------------------
(* Properties.                                                             *)

\* The scheduler is the one of the game that is loaded, unless a thread that
\* began to build it for the last game was overtaken by the switch.  However many
\* threads ask, one is built for each switch.
SchedulerFitsGame ==
    /\ Free => crossed \/ sched \in {None, game}
    /\ builds <= 1

\* A page that has read its queue shows the state of the server, however slow
\* it was and whatever its queue has lost, once all events are handled; unless
\* the state was pushed between its fetch and its subscription.
LastStateArrives ==
    Free /\ events = <<>> =>
        \A p \in Pages : pages[p].at = "open" /\ ~pages[p].late =>
            State = IF pages[p].queue = <<>> THEN pages[p].shown ELSE Last(pages[p].queue)

\* A button fires at most once for each time it was pressed, however the polls
\* fall and however the menu opens and closes around it.
OneCommandPerPress == \A b \in Verbs : presses[b].fired <= presses[b].down

\* When RetroArch settles on a ROM the dashboard settles on its game, with the
\* conditions of that game where it has any.
GameFollowsRom ==
    \A r \in Roms : <>[](ra = r) =>
        <>[](game = GameOf[r] /\ (game \in Defined => specs = game))
==============================================================================
