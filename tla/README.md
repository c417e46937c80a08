# SpinLab in TLA+

SpinLab is a practice tool for Super Mario World speedruns.  A Python server
(`src/python/spinlab`) talks to RetroArch over UDP, turns memory snapshots into
game events (level entrance, checkpoint, death, respawn, exit), records
*reference runs* that cut the game into segments, replays recorded movies to
re-time them, and then drills the player on the segments a scheduler picks.  A
TypeScript dashboard drives it over HTTP and follows it over SSE.

This directory holds TLA+ modules for the parts that keep state and interleave
and for the arithmetic they rest on, TLC configurations that check them on small
instances, and proofs, checked by the TLA+ proof system, of what matters most.

## 1. The system

The unit of atomicity is the code between two awaits that really suspend: nearly
everything runs on one asyncio loop.  Its tasks are one HTTP handler per request,
the event loop (`dashboard.event_loop`) that consumes the backend's queue, the
orchestrator's tick loop and poller, the practice or hyper-play loop and the
movie's end-watcher.  Beside it run threads: every load and save of a state, every
socket exchange, the synchronous routes (marks, roll-outs, the scheduler's
construction), the gamepad; and processes: the Vite child, the commands.

| Component | State it keeps | What is hard | What makes it correct |
|---|---|---|---|
| Reference controller (`capture/reference.py`) | paused run, recorder, data dir | handlers that overlap across awaits, ROM changes, crashes | never recording and paused at once; what it points at is a draft row that exists; no row is credited to another game's run |
| Capture tables (`db/capture_*.py`) | runs (draft/saved, active flag), sessions, segment owners, attempts | deletes that fail half-way, ownership that moves between runs | one active reference per game with saved runs; rows refer to rows |
| Segment recorder (`capture/recorder.py`) | pending start, death count, episode, buffered events | long passes, saves that fail, conditions that have no label | a row belongs to the pass it was played in; the route is connected; a state row has its file |
| Session manager (`session_manager.py`) | mode, game, scheduler, the running task, the snapshot | everything that starts while the last thing still ends | the mode tells which subsystem is running |
| Practice (`practice.py`, `timing.py`) | history of visits and cursor, pause flag, pending result, timing phase | results, keys and stops that arrive in any order | the cursor and the attempt in flight are on one visit; a session does not wait in vain; rows go to who played |
| Hyper play (`hyper_play.py`) | level and sub-segment, timing phase | two counts of checkpoints, fed through two queues | the counts agree; runs end |
| Cold fill (`capture/cold_fill.py`, `fill_gap.py`, `cold_fill_detector.py`) | queue of segments, current one | loads in threads, the detector's baseline, skips during awaits | a captured state is the segment's own, after a death |
| Movie controller (`retroarch/movies.py`) | two handles, fast-forward, end-watch task | blind toggles, a movie that ends by itself | toggles are paired; the handles follow RetroArch; a watched replay is finalized |
| Link, poller and detector (`retroarch/nci.py`, `raclient.py`, `poller.py`, `detector.py`) | socket, state version, last snapshot, failures | replies without identity, loads beside reads | each asks and gets its own answer; a jump caused by a load is not read as play |
| Scheduler, allocators, estimators (`scheduler.py`, `estimators/`) | model states, weights, round-robin index | updates in two threads, many readers of the same rows | the model is what the rows teach; views agree |
| Database (`db/`) | the SQLite file | several processes migrate it | each migration once and whole |
| Dashboard, SSE, gamepad (`dashboard.py`, `sse.py`, `gamepad/`) | queues of subscribers, menu chord, scheduler | slow pages, threads, lost links | last state arrives; one command per press; the game follows the ROM |
| Fits (`cli_fit_*.py`, `db/segment_fits.py`) | rows of fits | a rebuild beside a live dashboard | no warm start from before the wipe; each kept segment has a fit again |
| Start-up (`cli.py`, `vite.py`) | the child process and its job object | death at any step | no Vite outlives its server; a start settles |

`PROJECT.json` lists each component with its status, the hazards at their lines,
and which properties cover them.

## 2. Modules

| Module | What it is | Built on |
|---|---|---|
| `RunLedger` | abstract specification: what capture promises about runs (draft, saved, gone) and the active reference | |
| `ReferenceCapture` | the reference controller, the capture tables, the event loop and the HTTP handlers; implements `RunLedger` | |
| `ReferenceCaptureProofs` | its inductive invariant and theorems, and the refinement of `RunLedger` | |
| `PracticeSession` | the practice loop over `PracticeTiming`, with user, game, queue and sessions that overlap | |
| `TransitionDetector` | the predicates over two snapshots and one step of each detector, as functions | |
| `SegmentRecorder` | game, poller, event loop and recorder, with rows, segments, save states and files | `TransitionDetector` |
| `SegmentRecorderProofs` | its invariants and theorems | |
| `ColdFill` | cold fill and fill gap, loads, the emulator, poller and spawn detector | `TransitionDetector` |
| `ColdFillProofs` | its inductive invariant and theorems | |
| `HyperPlay` | hyper-play sessions, their timing and the two queues between | |
| `MovieControl` | requests, end-watch task and RetroArch around a movie | |
| `MovieControlProofs` | its inductive invariant and theorems | |
| `RetroArchLink` | the UDP socket, its lock, and the four that talk through it | |
| `RetroArchLinkProofs` | its inductive invariant and theorems | |
| `DashboardServer` | link, ROM check, event loop, game switch, scheduler, gamepad, pages | |
| `DashboardServerProofs` | its invariants and theorems | |
| `AttemptLog` | attempts and episodes: roll-up, split, validity, as functions of the rows | |
| `Sampler` | what the model knows of a segment, as a function of its rows | `AttemptLog` |
| `LiveViews` | what the pages show, and the session snapshot they compare with | `Sampler` |
| `PracticePlan` | the actions: episodes, marks, updates, picks, snapshot, engine | `LiveViews` |
| `SessionProofs` | inductive invariants and theorems of practice, of hyper play and of the round robin | `PracticeSession`; instances of `HyperPlay` and `PracticePlan` |
| `Migrations` | processes that open and migrate the database | |
| `ServerProcess` | the life of a dashboard process and its Vite | `Migrations` |
| `FitStore` | fits, refits, rebuild and pooling across processes | `ServerProcess` |
| `DeploymentProofs` | the invariants of the processes and of the fits, and theorems about them | `FitStore` |
| `MC...` | the instances for TLC | the module named |

### ReferenceCapture and the code

| TLA+ | code |
|---|---|
| `mode`, `game` | `SessionManager.mode`, `.game_id` |
| `paused`, `rec` | `ReferenceController.paused_run_id`; the recorder's run, session ordinal, source and pending start |
| `status`, `kind`, `gameOf`, `active`, `sess`, `owner`, `att` | columns of `capture_runs`, `capture_sessions`, `segments`, `attempts` |
| `queue`, `loop` | `RetroArchOrchestrator.events`; the entrance whose `save_state` the event loop is awaiting |
| `reqs` | the HTTP handlers suspended in `send_command`, with what each read before it |
| `movie` | whether RetroArch plays a movie, `_active_playback`, the end-watch task and what it found in the log, and whether it is inside its own `stop_playback` |

A handler that awaits is two actions, `X(q)` and `XReturns(q)`; one that does not
is one action.  A handler the code refuses changes nothing and is no step.  The
constant `Settled` restricts *when requests come*, never what they do: FALSE is
any client at any time (the HTTP API), TRUE is a user who clicks buttons the
dashboard enables and waits for each to settle (`frontend/src/manage.ts`).

Abstractions: a run is a number in the order of creation; a segment is a pair of
game and geography; of an attempt only its run and segment are kept (that is what
foreign keys and purge read); all `end_reason`s are one; a movie is whether it
plays.  A replay is watched only if RetroArch's log could be anchored after the
fast-forward toggle, and the watch sees only a marker written after that; a ROM
change that ends a movie may or may not write one.  One watch stands for all
(`MovieControl` keeps each replay's own).  `ReplayStarted` and `GameContext` events change nothing modelled here.
An exit stands for every event that closes a segment (`SegmentRecorder` has them
all).  With movies disabled the
command returns without suspending; the model lets it suspend, which only adds
behaviours.  The emulator is connected (the disconnect handler is never
installed, see the hazards).  RetroArch survives a crash of the server and so
does what it plays.

### PracticeSession and the code

| TLA+ | code |
|---|---|
| `mode`, `current`, `snap` | `SessionManager.mode` (all but practice is "idle"), `.practice_session`, `.practice_session_snapshot` (none, live, frozen) |
| `ps[s].pc` | where the task of `run_loop` is: created, suspended in the load or in the wait of `run_one`, ended or crashed with its done-callback still to run, done |
| `ps[s].hist`, `cursor`, `at` | `_history`, `_cursor` (from 1), and the entry `run_one` loaded |
| `ps[s].armed`, `woke`, `result`, `ep`, `nav`, `paused` | `_current_state_path` is set, `_result_event`, `_result_data`, `_current_episode_id`, `_nav_pending`, `paused` |
| `timing` | the one `PracticeTiming` of the backend: idle, playing, or holding a result |
| `queue`, `loop` | the backend's event queue; the load `handle_death` or a resume is awaiting |
| `files`, `rows` | the state files on disk; the attempt rows written, by event or synthesized |
| `loads` | ghost: every load issued for an attempt.  `arm` mints an episode id per load, so a load names the attempt, its result and its rows |

Python 3.11's `wait_for(queue.get())` lets other tasks run between two queued
events, so each handler is one action and any task's step may come between two of
them.  `PracticeTiming` observes an event before it is queued; what it emits
precedes the event in the queue.  A key of the controller travels through the
same queue; HTTP requests do not.

The constant `Pace` restricts *when the user acts*: "any" moment; once the task
of a new session has "begun"; or once everything has "settled", that is, the queue
is empty and the session waits for its result.  `LoadsFail` lets RetroArch reject
a state.

Abstractions: the scheduler's pick is any segment whose file exists; durations,
penalties, the experimental flag, the allocator tag and expected times are left
out, and so is the model update, which reads rows and changes no control
(`PracticePlan` has it).  A
connection that is lost ends the loop as a stop does and is left out.  A failing
start-of-session snapshot rolls the start back before its task ran and is left
out.  Each load loads its own state (`ColdFill` has the reserved slot that loads
share).  The controller's R+Y is `StartPractice` or
`StopPractice`.  A segment that ends at a checkpoint ignores exits (`CpSegs`).

### SegmentRecorder and the code

`game` is the emulator's frame: a step changes one thing the detector can see
(an entrance, a checkpoint, a death, a respawn, an exit, a return to the map).
`Poll` is the poller's tick: it reads the frame, resynchronises if a state was
loaded and otherwise appends the events of `TransitionDetector.step` to `queue`.
`rec` is the recorder with its pending start, buffered events, death count, spawn
and episode; `segs`, `states`, `rows` are the tables, `files` the state files with
the conditions the game was in when they were written.  A handler takes the head
of the queue, saves the state of that moment (or fails to) and updates the
recorder; closing a segment writes waypoints, segment, states and rows at once.
Deleting a segment and loading a state are the upsets a user can cause.
`Meaning` gives the label of a condition byte; one without a label raises in the
handler after the file was written.  Abstractions: a waypoint is the tuple its id
is hashed from, a row's time is its place, one level of the game.  After an
undecodable goal the stale start stays when it is a checkpoint, and
`recorder.py:157-160` then ignores the next entrances: with a second level it
would be stored under that level's number.

### ColdFill and the code

`work` says what the event loop and the user's request await: a load stages
the file in the one `slot`, fires, bumps the version, unlinks and then returns or
is found rejected, as the worker thread does (`_load_state_sync`);
`RetroArchLoads` executes it a frame later.  `det` and `cf` are the two detectors, `bumped` whether `state_version`
changed, `snap` the frame between the poller's read and its look at the version.
`todo` is the set of the positions in `Gaps` still queued, as the queue only ever
shrinks and never changes its order; `current` and `gap` are the controllers'
segments.  What a saved file shows is kept beside it, so that a file saved for the
wrong segment, or before the death, differs.  `Patient` makes user and player wait
for what is in flight, and the user also for an exit under way to end.

### HyperPlay and the code

`sess[s]` is a session with its level, sub-segment, `cold_since`, inner queue and
where its task stands; `timing` is `HyperPlayTiming`, `bus` the backend's queue.
`player` is what really happens: each event carries where the player was and
whether the sub-segment began cold, so a row can be compared with the truth.
A death drains the inner queue and reloads.  A switch of the game leaves the
session running, as the code does.

### MovieControl and the code

A *hand* is whoever runs controller code, a request or an end-watch task; `at`
says where it stands between two commands to RetroArch.  `ctl` is what the
controller believes (playback handle, recording handle, fast-forward, watch),
`emu` what RetroArch does, `staged` the copies of movies in its directory,
`anchor` the number of end markers in the log when the watch began.  A replay may
run out at any moment.  `Faults` makes commands fail.

### RetroArchLink and the code

`cmds` and `buffer` are the two directions of the socket; `lock`, `phase` and `at`
say which thread is inside `_send`, whether it may send, waits or drains, and what
it asks next.  RetroArch serves one command at a time, stalls (while it starts, or
later) and may exit.  It echoes a load at once and executes it on any later frame
(`pending`, `Executes`), if the staged file is there by then (`slot`) and is
well-formed: before or after the client has drained the echo, bumped
`state_version`, let `load_settle_sec` pass and deleted the file.  A reply keeps its
kind, whether its command is still waited for and how many loads had been executed,
which is what a snapshot is compared by.  `FailLimit` and `GiveUpAfter` are the
poller's thresholds, `Cluster` its reads.  A snapshot of several reads may be torn by
a load; `Epochs` is the set of loads it saw.  `early` says of the poller's last
snapshot that it was completed with a load echoed but not executed, or was torn.

### DashboardServer and the code

`ra` and `link` are RetroArch's ROM and the orchestrator's connection; `check` the
answer of the ROM check on its way; `server` the handler the event loop is inside:
while it is not "idle" no other coroutine runs but threads do.  `workers` are HTTP
threads in `get_scheduler`, with the double-checked lock; `pad` and `posted` the
gamepad thread and its `call_soon_threadsafe`; `pages` fetch, subscribe, and read
a queue of `QMax` that drops its oldest.  `crossed`, `late` mark the two gaps the
properties except.

### PracticePlan, LiveViews, Sampler, AttemptLog and the code

`rows` is the attempts table; an episode, its roll-up (`_roll_up_episode`), its
split (`_split_episode_into_events`) and the rows a model may learn from are
functions of it.  Rows come from practice, hyper play, episodes told as a whole, and
recordings (`Captures`), whose rows are marked when the run is a replay.  `Sampler`
keeps for each rate the decayed sum and weight of each average; a rate is a
numerator over `Whole`, sums are scaled to integers, so equal averages are equal and
nothing is rounded.  The round robin takes the segment with as many below it as its
index, modulo their number, says, which is indexing the sorted list.  `fits` is `model_state`, `sched` the
mix and the round-robin index, `engine` and `draw` the practice engine and the
thread that evaluates it, `updates` the two ways `update_state_after_episode` can
be under way (the loop and the worker thread of a mark), with the rows it read.
The logarithm of a time stands for the time; confidence bands, bootstraps and
simulated draws are left out.

### Migrations, ServerProcess, FitStore and the code

A process is a model value that opens the database (`Look`, `Begin`, `Commit`,
`Opened`), as a dashboard goes on to Vite, uvicorn and the lifespan (`stage`), as a
command runs (`tool`).  A migration's SQL and its record are one transaction.
`vite` and `inJob` are the child and its kill-on-close job.  A refit reads the
rows, loads the last fit for a warm start and saves: three steps beside which a
rebuild may wipe.  `fits` is the set of rows of `segment_fits`; a row's `nth` is its
rank among those of its segment and kind, as ids are compared only there and such
rows are deleted together.  A fit keeps its `root`, the wipe its chain of warm
starts goes back to, and whether it converged.

## 3. What the runs check

The names below are those in `PROJECT.json`; each runs the `.cfg` of its MC module.

| Run | Instance | Shows |
|---|---|---|
| `overlap` | `ReferenceCapture`: 1 run, 2 sessions, 2 handlers in flight, any client | the current run is a draft; recording and paused exclude each other; open sessions are accounted for |
| `settled` | `ReferenceCapture`: 2 games, 2 runs, buttons, ROM changes, crashes, fairness | no row crosses games, though the ROM changes under suspended handlers and replays; rows refer to rows; the tables implement `RunLedger`; replay recordings end, unless nobody watches for the end |
| `practice_patient` | 2 sessions, 1 segment, 3 loads, settled user | no session waits for an attempt nobody times; the mode tells which session runs; rows are credited to who played |
| `practice_stops` | 1 session, 2 segments (one ends at a checkpoint), loads may fail, user at any moment, fairness | the cursor stays on the visit in flight; a stopped session's task ends |
| `recorder_passes` | 1 recording or replay, 3 entrances or checkpoints, 3 values of the condition byte (one without label), 1 upset, 2 waiting events | rows form episodes of one pass; the route is connected; every state row has its file |
| `coldfill_patient` | 2 segments, one with an exit under way in its hot state, both hot files there or either one gone, failing saves and loads | what is recorded as cold is the segment's own state after a death; the detector watches what the player was given; segments move on |
| `hyper_patient` | 2 runs over levels of 1 and 2 checkpoints, failing reloads, game switch | the counts of session and timing agree with the player; rows are of what was played, cold; runs end |
| `movies` | 3 requests, movies that run out at any moment | toggles paired; handles and copies follow RetroArch; a watched replay is finalized |
| `plan_learns` | 2 segments, 2 episodes of up to 3 rows, played, told (whole, clamped, without a time or a last stretch) or recorded, live or replayed; 2 rates, one change, one snapshot or engine | round robin cycles; the model is what the rows teach; told episodes come back, an impossible time as the least possible; pages agree, the chart counting replays too; session progress is the session's |
| `dashboard_pages` | 3 ROM files of 2 games, 2 threads, 1 page with a queue of 2, 1 button, 4 inputs | one scheduler per switch, of the right game; last state arrives; a press is one command; the game follows the ROM |
| `link` | start stalled, 2 more stalls or loads, executed at any moment after the echo, 1 late reply per drain, snapshots of 2 reads, may die | answers are one's own; silence is noticed; snapshots across a load are compared only where the earlier came before the load was executed |
| `deployment` | 2 dashboards on a new database, or one on a used one, beside one command; 2 migrations, 2 segments | schema whole; no Vite left; rebuilds leave cold fits, one per kept segment; a start settles |

Every property fails for at least one mutant of the code it is about: a dropped
guard, a missing reset, a swapped order (`PROJECT.json`, "mutants").

Bounds.  Two runs are the smallest number that lets one run's segments be
re-recorded by another, a saved run lose its flag and a replay own nothing; two
sessions give a pause and a resume, or an old loop and its successor; two queued
events let one be overtaken.  Three loads let a practice session visit, go on and
back.  Three marks give a segment from an entrance to a checkpoint, one from there
to another, and what follows.  Two episodes are an older and a newer one for every
average, with a mark on either.  A stall at the start and one later put a late reply
both into the connect attempts and into a snapshot; two loads let one begin while
the snapshot after the other is early.  The proofs remove the bounds for the invariants
they cover.  A bound is a guard of what the environment or a user may begin, never
of what the code does with it, save `MaxLoads` (a practice session that would load
once more stops) and `MaxSpawns`, `MaxQueue`, `MaxBus` (the player stands still
while that many events wait).  `CHECK_DEADLOCK FALSE` stands where those bounds
end a behaviour, or where the system may rest: no requests left, no process left.

Users.  `Settled`, `Pace` and `Patient` restrict *when* a user or player acts,
never what the code does.  Where the run needs the patient user, the impatient one
breaks the property, and how is listed below.  `settled`, `practice_patient`,
`coldfill_patient`, `hyper_patient` and `movies` are such runs.  A gap that no
patience closes is excepted by name in the property, with a history variable that
is true exactly there (`crossed`, `late`, `lapsed`, `behind`, `quiet`, `early`).

Fairness.  Weak fairness says that the asyncio loop runs each ready task, that a
thread gets on, that RetroArch executes what it was sent and that a process that
was started is scheduled.  `ColdFill` asks strong fairness of the event loop and
of the loads, which the poller and each other can disable for a moment; and that
the player dies, respawns and lets splash screens and exits pass.  `HyperPlay`
asks strong fairness of crossing a checkpoint and of finishing, for a player who
keeps trying.  `RetroArchLink` asks it of sending, which needs the lock, and of the
poller's reconnect.  The user, the ROM, crashes, kills and files owe nothing.

### Disagreements between the code and what is said of it

These are properties stated in the modules beside the others, and in no run: TLC
refutes each named one on the instance of the component's run, changed as said.

Capture (any client, `Settled = FALSE`, unless a button suffices):
* `FinishedReplayLeavesNoDraft` (tests/unit/capture/test_reference.py): a
  finished replay of known segments leaves a draft, because attempts on segments
  another run owns keep its row alive (`hard_delete_capture_run`).  The same
  failure blocks discarding a live run that re-recorded known segments.
* `IdleCanStart`: a reset while recording leaves a draft that blocks every new
  reference run until a restart; so does a stop or a replay's end that comes after
  a ROM change has recovered the other game's paused run: it is forgotten.
* `ReplayNeverSeedsModel` (`settled` with one game and 3 runs): a reset during a
  replay leaves the movie playing, and a run started then records its
  fast-forwarded times as live ones.
* `StartIsOfThisRecording`: an entrance that was being saved while the recording
  stopped leaks into the next recording.
* with overlapping requests `stop_replay` deletes the run it read before its
  await even if that run was finalized meanwhile (`ImplementsLedger`).

Practice: practice stopped and started within the second the old task needs to
end (`Pace = "begun"`).  `DoneIsNoOp`: the old task's done-callback compares only the mode, sets the
new session's mode to idle and freezes its snapshot.  `NeverWaitsInVain`: the old
session's load, or its teardown, takes the timing from the new session's attempt,
which waits for ever.  A resume whose load fails has already left the pause.  An
event row still queued when a key drops its attempt sets the episode of the next.

Recorder: `ReRecordingKeepsPrimary` (4 marks, no upsets): recording a known segment again while another
of its geography is active clears its primary flag, where the glossary calls it
"Auto-True for the first segment".

Cold fill: `FillGapEnds`: a fill gap needs a spawn event nobody emits, as its load
does not activate the detector; "segment will be retried on next spawn" does not
happen after a failed save, since the detector has fired; a load that fails leaves
the detector on the previous segment, whose file the next death then writes; a hot
state with an exit under way reads like a death, and a skip while it lasts lets
its spawn be taken for the next segment's; a start without gaps leaves the mode in
cold fill, and so does a capture after which only segments without a hot file are
left: `handle_spawn` ignores the answer `_load_next` gives "so the caller can
finalize/return cleanly" (cold_fill.py:84-93).

Movies (`Patient = FALSE`): two overlapping stops toggle fast-forward twice; a
movie that ends before the log is anchored, though "a finished replay sits forever"
without the watch (movies.py:181-183), is never finalized, and `ReplayRecordingEnds`
excepts it.  With `Faults`,
`ControllerAgrees`: a start that fails after it staged its copies leaves them, a stop
whose last command fails leaves the mode in replay, and a reference goes on without
a recording that could not start.

Hyper play: the teardown of an old session disarms its successor; a switched game
does not stop it; deaths enter the table with no time; rows do not update a model.

Plan: `EngineIsLive`: the engine's "live" mapping is a copy, new segments do not
enter it.  `MarksCoverEpisodes`: rows added to a marked episode are not marked.
`RateDiffsAreReal`, `TableFloorCounts`: a change of death rate is shown without a
baseline; the table's floor leaves experimental episodes out where the chart counts
them.  `ReplaysAreNotLearnt`: rows of replays are "excluded from model ingestion in
the scheduler" (reference.py:431-434), but `attempts_from_rows` lets them through,
so a replay's fast-forwarded times enter the model's floor and counts, and the
chart, as they enter the golds.  `TotalsRoundTrip`: "round-trip math still holds"
(attempts.py:207-212) for a told time that is too short for its deaths, but it comes
back longer.  Two updates that cross lose one; the controller's invalidate rebuilds
nothing; marking the last valid episode leaves the model as it was; partial saved
weights rebuild the mix at every pick.

Dashboard: a thread overtaken by a game switch installs the old game's scheduler;
a state pushed between a page's fetch and its subscription is lost until the next;
the poller gives up while the link stays "connected" and nobody calls
`on_disconnect`; the conditions of the last game stay for a game without any.

Link: `NoPhantomEdges`: "eliminates the phantom-edge window between RA loading and
the poller learning about it" (raclient.py:427-430).  The bump follows the command,
not its execution: a tick in the frame between them takes its resync from the old
state, and the next tick compares the loaded state with it.  A snapshot torn by the
load does the same.  `ConnectsAtLast`: one late reply to
a connect attempt answers the next, and shifts every later one.

Processes: `ReadyIsOwn`: a stale dev server on the port answers for a new Vite that
moved aside.  `SameGate`: the rebuild's gate counts rows of replays, the refit's
does not.  A refit in flight at the wipe saves a fit that was warm-started from
before.  A kill between `Popen` and the job assignment leaves a Vite, and so does
one where the assignment failed or there are no jobs (not Windows).

## 4. What is proved

Each proof holds for every value of the constants that the module's assumption
allows: any number of games, runs, sessions, requests, threads, pages, processes,
queued events.  Where a theorem has a hypothesis it is one on a constant, and the
run that checks the same property needs it too; the disagreements of section 3
say what happens without it.

| Theorem | Property | Hypothesis |
|---|---|---|
| `ReferenceCaptureProofs!TypeCorrect` | the type invariant | |
| `...!PhasesExclude`, `CurrentRunStaysDraft`, `SessionsAccounted`, `RowsStayReferred`, `RowsStayWithGame` | `RunPhaseExclusive`, `CurrentRunIsDraft`, `SessionAccounting`, `RowsReferToRows`, `RowsStayInGame` | |
| `...!TablesImplementLedger` | `ImplementsLedger`: the refinement of `RunLedger` | `Settled` |
| `...!SavedGamesHaveReference` | `SavedIsReferred` of `RunLedger`, inherited | `Settled` |
| `SessionProofs!TypeCorrect`, `CursorStaysWithVisit` | the type invariant, `CursorFollowsVisit` | |
| `...!ModeFollowsSession`, `RowsAreCredited` | `ModeTellsSession`, `RowsCredited` | `Pace = "settled"` |
| `...!WaitsAreServed` | `NeverWaitsInVain` | `Pace = "settled"`, no `LoadsFail` |
| `...!CountsStayAgreed` | `CountsAgree` of `HyperPlay` | `Patient` |
| `...!PicksComeRound` | `RoundRobinCycles` of `PracticePlan` | |
| `SegmentRecorderProofs!TypeCorrect` | the type invariant | |
| `...!StatesAreBacked`, `RoutesConnect`, `EpisodesAreWhole` | `StatesBacked`, `RouteConnected`, `EpisodesWellFormed` | |
| `ColdFillProofs!TypeCorrect` | the type invariant | `Patient` |
| `...!OneLoadAtATime` | no two loads overlap, the slot is of the one in flight | `Patient` |
| `...!DetectorKeepsWatching`, `CapturesAreCold` | `StillWatched`, `CapturedCold` | `Patient` |
| `RetroArchLinkProofs!TypeCorrect` | the type invariant | |
| `...!AnswersAreOwn`, `LoadsAreNoticed` | `OwnAnswers`, `LoadsResync` (an action property) | |
| `MovieControlProofs!FastForwardIsPaired` | `FastForwardPaired` | |
| `...!ControllerIsRight` | `ControllerAgrees` | no `Faults` |
| `DashboardServerProofs!TypeCorrect` | the type invariant | |
| `...!PressesFireOnce`, `OneSchedulerPerGame`, `PagesEndUpToDate` | `OneCommandPerPress`, `SchedulerFitsGame`, `LastStateArrives` | |
| `DeploymentProofs!SchemaStaysWhole`, `ViteEnds`, `RebuiltStaysCold` | `SchemaIsWhole`, `NoViteLeft`, `RebuiltIsCold` | |
| `...!RebuildRefits` | `RebuildReplaces` | at most one command |

The inductive invariants were checked by TLC on the instances of section 3 before
they were proved.  `SessionProofs` extends `PracticeSession` and instantiates
`HyperPlay` and `PracticePlan` with variables of its own, so its theorems about these
are of `H!Spec` and `Plan!PlanSpec`, under those modules' own assumptions.

**ReferenceCapture.**  None of the five invariants is inductive alone: closing a
segment writes an owner taken from the recorder, so types need the current run to
be a draft; deleting a run keeps rows referred only because no other run's row is
touched; rows stay in their game because the current run is always one of the
loaded game (`GamesAgree`), which a handler that returns after a ROM change must not
undo.  The invariant is their conjunction (`Core`, over the run phases and the
tables) with the types of the rest (`Control`).  Each table operation has a lemma
that it keeps `Core`; the step lemmas (`BeginsKeepInv`, `ReturnsKeepInv`,
`ImmediateKeepsInv`, `HandlesKeepInv`, `OutsideKeepsInv`) cite them.

The refinement maps the `active` flags to the reference of each game.  A step maps
only if the flags stay on saved runs, one of a game at most (`Flags`), and if the run a
stopped replay discards is no saved run.  The latter is why `Settled` is needed: the
handler reads the run before its await, and only because its request is alone
(`Pending`) can nothing save that run meanwhile.  `SavedIsReferred` is then proved
of `RunLedger` and carried over by the refinement, without the tables.

**PracticeSession.**  That a navigation moves the cursor by one needs that no
second navigation is accepted, which needs that an attempt is in flight only while
the task plays; that a result, a row or a resume names a load needs that the armed
timing and the pending resume do.  `VisitOk` states the first for one session and
the loads so far, `Named` the second.  `IssueKeeps` (one more load disturbs
nobody), `OneSession` (a step that changes one session) and `ContinueKeeps`
(however `run_one` returns) are the lemmas the actions share.  For a settled user,
`SettledInv` says that only the current session has a task and that a key waits in
the queue only while nothing else can move; `RowInv` that whatever is queued, timed,
held or written names a load of the session it is credited to.

**HyperPlay.**  For a patient player the two counts differ only while an event is on
its way, and at most one is.  `Stage` lists where a level in play can stand: under
way, a checkpoint crossed, died, finished, its completion announced; `Reviving` is
the reload after a death, `Between` the time between two levels.  Each says what
timing, player, queues and session then are, so each action moves from one to the
next.  `OneTask` adds that older sessions have ended and leave the timing alone,
`Deaf` that a session the mode no longer routes to gets no event.

**Round robin.**  `InTurn` says of each pick since the last change how many
segments are below the one picked: the index it was picked at, modulo the number of
segments.  So two picks agree if and only if their indices differ by a multiple of
that number (`SameRemainder`), since a segment is told by how many are below it
(`OneOfRank`).  `SavedIsUsed` is why the saved weights must name every allocator: else
`_sync_config_from_db` finds a difference at every pick, builds the mix anew and
starts the round robin over.

**SegmentRecorder.**  `StatesInv` adds to `StatesBacked` that the path an armed
recorder holds has its file.  `RouteInv` adds that the checkpoint a recorder starts
at ends a recorded segment; it rests on the types, which say of the game that a
frame inside a level has the level's number, and so on the detector's functions,
whose events are typed by lemmas.  `EpisodeInv` adds that events wait in the order
of their frames, that an armed recorder's episode has no row yet, and that all it
has buffered, and all that waits, came after its start.

**ColdFill.**  `QueueInv` keeps queue, segment and load together.  A request's load
and the event loop's never overlap, because while a request's is in flight no spawn
can reach the loop (`Alone`): nothing dies, and the only exit that can show is the
loaded state's own.  A spawn that names a segment is reported once, and from then
on the detector watches nothing until the next load has returned (`Reported`);
`Fits` is `StillWatched` for every moment, loads and waiting spawns included.
`RowInv` follows the player: what the detector waits for has happened to the
player of the segment it watches (`Living`), so what `save_state` writes then, and
what becomes a row, is that segment after a death (`Saving`, `OwnRows`).  A
load that was refused and a hot state with an exit under way are excepted (`lapsed`);
the disagreements above tell what they do.

**RetroArchLink.**  As long as no drain has left an answer on its way, at most one
command or reply is on the socket, and it is the lock holder's own (`OneOnTheWay`,
over `Held`): that is `OwnAnswers`.  A load therefore reaches RetroArch
inside its own exchange, at whose end `state_version` is bumped before any thread can
read again; so while it is still to be executed a bump waits to be seen or the last
snapshot was taken early, and without either all that the poller holds of the last
snapshot and of the one in the making is of now (`Fresh`).

**MovieControl.**  While nothing has crossed, at most one hand is in flight, and the
place where it stands says which part of the bookkeeping is done: `FastFits` and
`RestFits` are that table, `Rests` and `Agrees` what holds when no hand is in flight.
`FastFits` does not depend on whether commands fail, `RestFits` does: a start that
fails after it staged the copies leaves them, and a stop whose last command fails
leaves the mode.  `Closes`, `Moves` and `Stays` are the lemmas the actions share.

**DashboardServer.**  Three arguments over the type invariant.  `PressInv`: a held
button the detector does not remember has a press that has not fired.
`BuiltOnce` and `Fits`: one builder at a time, only while there is no scheduler, and
of the game that is loaded unless a switch overtook it.  `RomFirst` and
`UpToDate`: a page shows the state or will read it last, except while the link is
up and unnamed, and then a ROM is first in the queue, whose handling pushes.

**Deployment.**  That a script that commits applies the *next* file needs that what
a process saw is recorded and a first part of the files (`IsFirst`), so the first
file it misses is recorded already, and its script fails, or comes next.  The
locking is not needed for it.  `ViteInv`: a dashboard past the assignment has its
Vite in the job, one before the spawn has none.  `ColdInv`: where no refit
straddled the wipe, none under way holds an older payload.  `ReplaceInv`: each
segment a rebuild set out to refit has a fit, has raised, is still to do, or is
gone.  Two rebuilds at once may wipe what the other refitted, hence the hypothesis.

**Model-checked only.**  The liveness properties (`ReplayRecordingEnds`, `StopEnds`,
`SegmentsMoveOn`, `RunsEnd`, `WatchedReplayEnds`, `GameFollowsRom`,
`SilenceIsNoticed`, `StartSettles`), which are outside the prover's reach; and four
invariants of `PracticePlan`: `ModelFollowsRows`, `EpisodesRoundTrip`, `ViewsAgree` and
`DiffsAreOfTheSession`.  These speak of what folds and filters over the rows compute:
that two of them agree for every table is an induction over data, which the
installed provers cannot do.

## 5. Plan

Done: every module of the table in section 2, and a theorem for every safety
property of a run save the four above.  What is left:

1. The four invariants of `PracticePlan`, once a prover is at hand that does induction
   over sequences: that a roll-up forgets nothing a split needs, and that the decayed
   sums can be taken row by row.
2. Capture, practice, hyper play and cold fill in one state space, over one
   `SessionManager.mode`, where a start that overlaps another machine's end is a step
   of both.

## 6. Not modelled

Numbers: the Bayesian fits (`_segments_v07`), posterior checks and plots, the
bootstrap bands, the engine's draws, the random allocators' sampling.  They keep no
state between calls and their hazards are statistical.  Output: API schemas, logs,
overlay texts, rendering in the frontend, display queries.  Input and output that
only parses: YAML condition files, `.replay` headers, configuration files, command
line arguments, the trace recorder of the poller.  Several levels in one recording,
several sessions of cold fill at a time, and the composition of the capture,
practice and hyper-play machines in one state space are left to the modules'
separate environments: they meet in `SessionManager.mode`, which every module has.
