------------------------------ MODULE PracticePlan ------------------------------
(***************************************************************************)
(* What practice learns and what it practises next: the rows of the        *)
(* attempts table, the model kept for each segment, the scheduler's mix of *)
(* allocators and the practice engine's matrix of simulated runs.          *)
(*                                                                         *)
(* The practice loop runs on the event loop.  The routes that mark an      *)
(* attempt bad and that evaluate the engine run in worker threads, over    *)
(* the same tables and the same scheduler, without a lock.                 *)
(***************************************************************************)
EXTENDS LiveViews

CONSTANTS NSegs,       \* the number of segments of the active run, in order
          Registered,  \* the allocators the program knows
          Weightings,  \* the weights a user may choose: name -> weight
          Told,        \* episodes that may be recorded as a whole
          ClearTimes,  \* how long the last stretch of an episode may take
          MaxEpisodes, MaxRows, MaxChanges, MaxLooks   \* bounds

Segs == 1 .. NSegs

ASSUME PlanAssumption ==
    /\ {NSegs, MaxEpisodes, MaxRows} \subseteq Nat \ {0} /\ ClearTimes \subseteq Nat
    /\ {MaxChanges, MaxLooks} \subseteq Nat
    /\ \A w \in Weightings : w \in [DOMAIN w -> Nat] /\ DOMAIN w \subseteq Registered
    /\ "round_robin" \in Registered

VARIABLES
    rows,      \* the attempts table
    fits,      \* model_state: what was learnt of each segment, or None
    files,     \* the segments whose state file is on disk
    saved,     \* allocator_config: weights, or None
    sched,     \* Scheduler: all_weights and its round robin's index
    engine,    \* PracticeEngine: its sampler states, columns and dirty set
    draw,      \* the thread that evaluates: what it drew, or None
    updates,   \* update_state_after_episode, on the loop and in a thread
    play,      \* the episode being played: segment and number, or None
    latest,    \* the practice session's newest episode with rows, or None
    snap,      \* SessionManager.practice_session_snapshot, or None
    turns,     \* history: round robin's picks since anything changed
    told,      \* history: the episodes recorded as a whole
    behind,    \* history: segments whose model may lag: updates have crossed,
               \* or hyper play or a recording wrote rows and updated nothing
    count      \* bounds: episodes, changes and looks so far

vars == <<rows, fits, files, saved, sched, engine, draw, updates, play, latest,
          snap, turns, told, behind, count>>

Hands == {"loop", "thread"}
Rests(h) == updates[h].at = "rest"
InFlight == {updates[h].seg : h \in {g \in Hands : ~Rests(g)}}

-----------------------------------------------------------------------------
(* The mix of allocators.                                                  *)

Even == [a \in Registered |-> 1]

\* _build_mix_from_db: names missing from the saved weights are added with 0.
FromDB == IF saved = None THEN Even
          ELSE [a \in Registered |-> IF a \in DOMAIN saved THEN saved[a] ELSE 0]
NewMix(w) == [all |-> w, index |-> 0]

\* A mistake: the weights are loaded again for every pick.
Synced_Always == NewMix(FromDB)
\* _sync_config_from_db: new allocators iff the saved weights differ.
Synced == IF saved # None /\ saved # sched.all THEN NewMix(FromDB) ELSE sched

\* SegmentWithModel.load_all: what was saved, and the golds computed anew.
ModelOf(s) ==
    [output |-> IF fits[s] = None THEN None ELSE fits[s].output,
     done   |-> IF fits[s] = None THEN 0 ELSE fits[s].state.done,
     gold   |-> Gold(Episodes(rows, s)), clean |-> CleanGold(Episodes(rows, s))]
Completed(s) == IF fits[s] = None THEN 0 ELSE fits[s].state.done

\* The table of the segments' models.
Table == [s \in Segs |-> ModelOf(s)]

\* _snapshot_expected_times: of the segments whose state file is on disk.
ExpectedTimes == Known([s \in {t \in files : fits[t] # None} |-> fits[s].output.expected])

\* What each allocator may answer; greedy's scores and chance are not modelled.
\* Round robin counts the segments in their order, from 0.
Answers(a, mix) ==
    CASE a = "round_robin"  -> {s \in files : Cardinality({t \in files : t < s})
                                                = mix.index % Cardinality(files)}
      [] a = "least_played" -> {s \in files : \A t \in files : Completed(s) <= Completed(t)}
      [] OTHER              -> files

\* Scheduler.pick_next, and the practice loop begins an episode.
Pick(a) ==
    /\ play = None /\ Rests("loop") /\ files # {} /\ count.episodes < MaxEpisodes
    /\ Synced.all[a] > 0
    /\ \E s \in Answers(a, Synced) :
          /\ play' = [seg |-> s, ep |-> count.episodes + 1]
          /\ turns' = IF a = "round_robin" THEN Append(turns, s) ELSE turns
    /\ sched' = [Synced EXCEPT !.index = IF a = "round_robin" THEN @ + 1 ELSE @]
    /\ count' = [count EXCEPT !.episodes = @ + 1]
    /\ UNCHANGED <<latest, snap, rows, fits, files, saved, engine, draw, updates, told, behind>>

Change == count.changes < MaxChanges /\ count' = [count EXCEPT !.changes = @ + 1]

\* set_allocator_weights, from a route.
SetWeights(w) ==
    /\ Change /\ saved' = w /\ sched' = NewMix(w) /\ turns' = <<>>
    /\ UNCHANGED <<latest, snap, rows, fits, files, engine, draw, updates, play, told, behind>>

\* The server is restarted, or the game loaded anew: a new Scheduler.
Restart ==
    /\ Change /\ play = None /\ \A h \in Hands : Rests(h)
    /\ draw = None
    /\ sched' = NewMix(FromDB) /\ engine' = None /\ turns' = <<>> /\ snap' = None
    /\ latest' = None
    /\ UNCHANGED <<rows, fits, files, saved, draw, updates, play, told, behind>>

\* A state file vanishes from the disk, or comes back; not while it is played.
FileChanges(s) ==
    /\ Change /\ play = None /\ turns' = <<>>
    /\ files' = IF s \in files THEN files \ {s} ELSE files \cup {s}
    /\ UNCHANGED <<latest, snap, rows, fits, saved, sched, engine, draw, updates, play, told, behind>>

-----------------------------------------------------------------------------
(* Episodes and what is learnt from them.                                  *)

\* Two updates of one segment cross when one begins before the other has saved.
Update(h, s) ==
    /\ updates' = [updates EXCEPT ![h] = [at |-> "read", seg |-> s, got |-> None]]
    /\ behind' = IF \E g \in Hands \ {h} : ~Rests(g) /\ updates[g].seg = s
                THEN behind \cup {s} ELSE behind

\* receive_event_attempt: rows are written as they happen.
Fail(science) ==
    /\ play # None /\ Rests("loop") /\ Len(rows) < MaxRows
    /\ rows' = Append(rows, Row(play.ep, play.seg, "died", 1,
                                IF science THEN {"science"} ELSE {}))
    /\ latest' = play.ep
    /\ UNCHANGED <<snap, fits, files, saved, sched, engine, draw, updates, play,
                   turns, told, behind, count>>
Finish(science, ms) ==
    /\ play # None /\ Rests("loop")
    /\ rows' = Append(rows, Row(play.ep, play.seg, "survived", ms,
                                IF science THEN {"science"} ELSE {}))
    /\ Update("loop", play.seg) /\ play' = None /\ latest' = play.ep
    /\ UNCHANGED <<snap, fits, files, saved, sched, engine, draw, turns, told, count>>

\* record_attempt: an episode told as a whole.
LogAttempt(s, att) ==
    /\ play = None /\ Rests("loop") /\ count.episodes < MaxEpisodes
    /\ LET e == count.episodes + 1 IN
          /\ rows' = rows \o Split(e, s, att)
          /\ told' = told \cup {[ep |-> e, att |-> att]}
    /\ count' = [count EXCEPT !.episodes = @ + 1]
    /\ Update("loop", s)
    /\ UNCHANGED <<latest, snap, fits, files, saved, sched, engine, draw, play, turns>>

\* HyperPlaySession._record_attempt: a clear, or a death whose time is not kept.
HyperPlays(s) ==
    /\ play = None /\ Rests("loop") /\ count.episodes < MaxEpisodes
    /\ \E ms \in ClearTimes \cup {NoTime} :
          rows' = rows \o Split(count.episodes + 1, s,
                      [done |-> ms # NoTime, deaths |-> 0, ms |-> ms, tail |-> ms])
    /\ count' = [count EXCEPT !.episodes = @ + 1]
    /\ behind' = behind \cup {s}
    /\ UNCHANGED <<latest, snap, fits, files, saved, sched, engine, draw, updates, play, turns, told>>

\* SegmentRecorder._close_segment: what a reference run, or the replay of one, saw
\* of a segment is written at once.  A replay's rows say so.
Captures(s, replayed) ==
    /\ play = None /\ Rests("loop") /\ count.episodes < MaxEpisodes
    /\ \E fell \in BOOLEAN, ms \in ClearTimes :
          LET row(outcome, t) == Row(count.episodes + 1, s, outcome, t,
                                     IF replayed THEN {"replay"} ELSE {})
          IN  rows' = rows \o (IF fell THEN <<row("died", 1)>> ELSE <<>>)
                           \o <<row("survived", ms)>>
    /\ count' = [count EXCEPT !.episodes = @ + 1]
    /\ behind' = behind \cup {s}
    /\ UNCHANGED <<latest, snap, fits, files, saved, sched, engine, draw, updates, play, turns, told>>

\* patch_attempt: an episode is marked bad, or good again, in a thread.
Patch(e, bad) ==
    /\ Rests("thread") /\ Change
    /\ LET s == rows[Closing(rows, e)].seg IN
       /\ rows' = Invalidate(rows, e, bad)
       /\ Update("thread", s)
    /\ UNCHANGED <<latest, snap, fits, files, saved, sched, engine, draw, play, turns, told>>

\* _handle_attempt_invalidated: the session's newest episode that has rows is
\* marked, played on or not; no model is updated.
InvalidateLast ==
    /\ latest # None /\ Rests("loop") /\ Change
    /\ rows' = Invalidate(rows, latest, TRUE)
    /\ behind' = behind \cup {rows[Closing(rows, latest)].seg}
    /\ UNCHANGED <<latest, snap, fits, files, saved, sched, engine, draw, updates, play,
                   turns, told>>

\* Scheduler.rebuild_all_states, when a reference run is saved: whatever has
\* rows is learnt anew, and the engine is not told.
RebuildAll ==
    /\ play = None /\ Rests("loop") /\ Change
    /\ fits' = [s \in Segs |-> IF EpisodesOf(rows, s) = {} THEN fits[s] ELSE Learnt(rows, s)]
    /\ behind' = InFlight
    /\ UNCHANGED <<latest, snap, rows, files, saved, sched, engine, draw, updates, play,
                   turns, told>>

\* Scheduler.sampler_states: a saved model only marks the segment as tracked.
Tracked == {s \in Segs : fits[s] # None}

\* _snapshot_inputs: a segment without a saved model is given an empty state.
SnapshotInputs == [s \in Segs |-> IF s \in Tracked THEN Rebuilt(rows, s) ELSE Fresh]

\* A session's snapshot or an engine: each keeps what was known when it was made,
\* and neither is read by the other.
Look == count.looks < MaxLooks /\ count' = [count EXCEPT !.looks = @ + 1]

\* _take_session_snapshot, when practice or hyper play starts, and the expected
\* times that practice keeps.  What they were taken of is history.
StartSession ==
    /\ play = None /\ Rests("loop") /\ Look
    /\ snap' = Snapshot(rows, SnapshotInputs) @@
               [expected |-> ExpectedTimes, seen |-> rows, tracked |-> Tracked,
                files |-> files, behind |-> behind \cup InFlight]
    /\ UNCHANGED <<latest, rows, fits, files, saved, sched, engine, draw, updates, play,
                   turns, told, behind>>

\* update_state_after_episode reads the rows, gives up when there is nothing
\* to learn from, and saves what it has learnt.
Reads(h) ==
    /\ updates[h].at = "read"
    /\ LET s == updates[h].seg IN
       updates' = [updates EXCEPT ![h] =
           IF ModelEpisodes(rows, s) = {} THEN [at |-> "rest", seg |-> s, got |-> None]
           ELSE [at |-> "save", seg |-> s, got |-> Learnt(rows, s)]]
    /\ UNCHANGED <<latest, snap, rows, fits, files, saved, sched, engine, draw, play,
                   turns, told, behind, count>>
\* RolloutMatrix.invalidate knows the segments of its sampler states only.
Dirtied(s) == IF engine # None /\ s \in DOMAIN engine.states
              THEN [engine EXCEPT !.dirty = @ \cup {s}] ELSE engine
\* A mistake: the update reports the segment but does not keep what it learnt.
Saves_OnlyFirst(h) ==
    /\ updates[h].at = "save"
    /\ LET s == updates[h].seg IN
       /\ fits' = [fits EXCEPT ![s] = IF @ = None THEN updates[h].got ELSE @]
       /\ engine' = Dirtied(s)
    /\ updates' = [updates EXCEPT ![h].at = "rest", ![h].got = None]
    /\ UNCHANGED <<latest, snap, rows, files, saved, sched, draw, play, turns, told, behind, count>>
Saves(h) ==
    /\ updates[h].at = "save"
    /\ LET s == updates[h].seg IN
       /\ fits' = [fits EXCEPT ![s] = updates[h].got] /\ engine' = Dirtied(s)
    /\ updates' = [updates EXCEPT ![h].at = "rest", ![h].got = None]
    /\ UNCHANGED <<latest, snap, rows, files, saved, sched, draw, play, turns, told, behind, count>>

-----------------------------------------------------------------------------
(* The practice engine.                                                    *)

Gated(states) == {s \in DOMAIN states : Gate(states[s])}

\* Scheduler.engine: built on first use, from the states learnt by then.
BuildEngine ==
    /\ engine = None /\ Look
    /\ LET states == [s \in Tracked |-> Rebuilt(rows, s)] IN
       engine' = [states |-> states, cols |-> << >>, dirty |-> Gated(states)]
    /\ UNCHANGED <<latest, snap, rows, fits, files, saved, sched, draw, updates, play,
                   turns, told, behind>>

\* ensure_fresh in a thread: draws what is dirty, or everything when the gated
\* segments are not those of its columns.  A column is what it was drawn from; no
\* time could be drawn for those that are not samplable.
Draws ==
    /\ engine # None /\ draw = None /\ engine.dirty # {}
    /\ LET gated == Gated(engine.states)
           again == IF gated = DOMAIN engine.cols THEN engine.dirty ELSE gated
       IN  draw' = [s \in gated |-> IF s \in again THEN engine.states[s]
                                                   ELSE engine.cols[s]]
    /\ UNCHANGED <<latest, snap, rows, fits, files, saved, sched, engine, updates, play,
                   turns, told, behind, count>>
Drawn ==
    /\ draw # None /\ draw' = None
    /\ engine' = [engine EXCEPT !.cols = draw, !.dirty = {}]
    /\ UNCHANGED <<latest, snap, rows, fits, files, saved, sched, updates, play,
                   turns, told, behind, count>>

\* The segments that the engine simulates.
Simulated == {s \in DOMAIN engine.cols : Samplable(engine.cols[s])}

PlanInit ==
    /\ rows = <<>> /\ fits = [s \in Segs |-> None] /\ files = Segs
    /\ saved = None /\ sched = NewMix(FromDB)
    /\ engine = None /\ draw = None /\ play = None /\ snap = None /\ latest = None
    /\ updates = [h \in Hands |-> [at |-> "rest", seg |-> 1, got |-> None]]
    /\ turns = <<>> /\ told = {} /\ behind = {}
    /\ count = [episodes |-> 0, changes |-> 0, looks |-> 0]

PlanNext ==
    \/ \E a \in Registered : Pick(a)
    \/ \E w \in Weightings : SetWeights(w)
    \/ \E s \in Segs : FileChanges(s) \/ HyperPlays(s)
    \/ \E s \in Segs, b \in BOOLEAN : Captures(s, b)
    \/ \E b \in BOOLEAN : Fail(b) \/ \E ms \in ClearTimes : Finish(b, ms)
    \/ \E s \in Segs, att \in Told : LogAttempt(s, att)
    \/ \E e \in {rows[i].ep : i \in DOMAIN rows}, b \in BOOLEAN : Patch(e, b)
    \/ \E h \in Hands : Reads(h) \/ Saves(h)
    \/ InvalidateLast \/ RebuildAll
    \/ StartSession \/ Restart \/ BuildEngine \/ Draws \/ Drawn

PlanSpec == PlanInit /\ [][PlanNext]_vars

-----------------------------------------------------------------------------
(* Properties.                                                             *)

\* Round robin cycles: while neither the weights, the files nor the scheduler
\* change, every segment that can be practised is picked once in each turn.
RoundRobinCycles ==
    saved # None /\ DOMAIN saved = Registered =>
        \A i \in DOMAIN turns : \A j \in i + 1 .. Len(turns) :
            (turns[i] = turns[j]) <=> (j - i) % Cardinality(files) = 0

\* Both updates have ended and none has crossed another: a row counts from the
\* moment its episode ends, and a mark at once.
UpToDate(s) == /\ \A h \in Hands : Rests(h)
               /\ s \notin behind /\ (play = None \/ play.seg # s)
               /\ ModelEpisodes(rows, s) # {}

\* What is kept of a segment is what its rows teach, once it is up to date.
ModelFollowsRows == \A s \in Segs : UpToDate(s) => fits[s] = Learnt(rows, s)

\* What an episode told as a whole takes at the least: its deaths, and its last
\* stretch, which is all of it when none was told.  The told time is possible if
\* it is no less, and no more when nobody died.
LastStretch(att) == IF att.tail = NoTime THEN att.ms ELSE att.tail
AtLeast(att)     == Penalty * att.deaths + LastStretch(att)
Possible(att)    == att.ms = AtLeast(att) \/ (att.deaths > 0 /\ att.ms > AtLeast(att))

\* An episode told as a whole comes back as it was told: the split and the
\* roll-up agree on its deaths, its last stretch and its length.  A completed one
\* whose told time is not possible comes back with the least that is; an
\* incomplete one without a death comes back with one.
EpisodesRoundTrip ==
    \A t \in told : LET att == t.att  a == RollUp(OfEpisode(rows, t.ep)) IN
        /\ a.done = att.done
        /\ att.done => /\ a.deaths = att.deaths /\ a.tail = LastStretch(att)
                       /\ a.ms = IF Possible(att) THEN att.ms ELSE AtLeast(att)
        /\ ~att.done => /\ a.deaths = Max({1, att.deaths}) /\ a.tail = NoTime
                        /\ a.ms = att.ms

\* _roll_up_episode and _split_episode_into_events "round-trip the episode-total
\* time_ms", and where fields are inconsistent the "round-trip math still holds".
TotalsRoundTrip ==
    \A t \in told : RollUp(OfEpisode(rows, t.ep)).ms = t.att.ms

State(s)   == Replayed(ModelRows(rows, s))
View(s)    == SegmentView(State(s), Episodes(rows, s))
Summary    == RouteSummary([s \in Segs |-> State(s)])
\* The time a practice session claims to have saved so far.
SessionSaved == Difference(OrNone(snap.expected), OrNone(ExpectedTimes))
Points     == RouteSeries(rows, Segs, snap.started)
LastOf(S)  == IF S = {} THEN 0 ELSE Max(S)
LastLearnt == LastOf(ToSet(Timeline(rows, Segs)))

\* An episode that is marked, or becomes science, while it is played has rows
\* with the mark and rows without.
EvenlyMarked(s) ==
    \A i \in DOMAIN rows : rows[i].seg = s =>
        \A j \in i + 1 .. Len(rows) : rows[j].ep = rows[i].ep =>
            rows[i].bad = rows[j].bad /\ rows[i].science = rows[j].science

\* The floor of a segment is computed in five places: the live view and its
\* series, the route bar, the golds, the surgery table.  The fastest clear that
\* the model knows is a clear of an episode that counts.  A segment with a
\* prediction can be simulated.
PagesAgree(s, st, eps) ==
    LET floor == RunningMinClean(eps)  live == SegmentView(st, eps)
    IN  /\ CleanGold(eps) = floor /\ (floor = None <=> SurgeryFloor(eps) = {})
        /\ live.ready => live.floor = floor
        /\ Headline(st) # None => Samplable(st)
        /\ LET row == EngineRow(st) IN
               row.gated = live.ready /\ (live.ready => row.expected = live.expected)
        /\ EvenlyMarked(s) =>
               /\ MatrixPage(st).wins = Len(SelectSeq(Chart(eps), LAMBDA e : ~e.replay))
               /\ LET page == Progress(st, Gold(eps)) IN page.ready => page.pb >= floor

\* The run's curve ends at the number beside it, and the floor's at the floor.
CurvesAgree ==
    snap # None /\ LastLearnt > snap.started =>
        LET run == Summary.run  points == Points IN
        run # None => /\ points # <<>> /\ Last(points).run = run
                      /\ LastLearnt = Len(rows) =>
                             Last(FloorSeries(rows, Segs, points)) = FloorTotal(rows, Segs)

\* What the table shows, from what was saved, is what the pages compute anew.
TableAgrees(s, st, eps) ==
    LET page == MatrixPage(st)  model == Table[s] IN
    /\ page.baseline[Fast] = model.output.expected
    /\ model.output.gain = Difference(model.output.expected, page.slopes[<<Fast, Slow>>])
    /\ model.done = Len(Chart(eps))
    /\ model.clean = RunningMinClean(eps)

\* The pages agree with one another, and with the table once the model of a
\* segment is up to date, though each computes its numbers anew.
ViewsAgree ==
    /\ LET recent == Recent(rows, Len(rows)) IN
       \A s \in Segs : LET eps == Episodes(rows, s)  st == State(s) IN
           /\ PagesAgree(s, st, eps)
           /\ ToSet(eps) = {recent[i].shown : i \in {j \in DOMAIN recent : recent[j].seg = s}}
           /\ UpToDate(s) => TableAgrees(s, st, eps)
    /\ CurvesAgree

\* What a page shows as the session's progress is the session's: a segment whose
\* rows are those it had when the session started shows none, and a run of such
\* segments neither.  Only a segment that was not tracked then has no baseline;
\* and where no episode counts, but rows of one do, a rebuild of all models learns
\* from them what an update does not.
DiffsAreOfTheSession ==
    snap # None =>
        LET same == {s \in Segs : OfSegment(rows, s) = OfSegment(snap.seen, s)}
            based(s) == s \in snap.tracked \/ ~Gate(State(s))
            none(diffs) == \A d \in DOMAIN diffs :
                               diffs[d] = None \/ diffs[d][1] = diffs[d][2]
        IN  /\ \A s \in same : LET view == View(s) IN
                   based(s) /\ view.ready => none(SegmentDiff(view, snap.seg[s]))
            /\ same = Segs /\ files = snap.files /\ (\A s \in Segs : EvenlyMarked(s))
                   /\ snap.behind \cup behind \cup InFlight = {} =>
                          SessionSaved = None \/ SessionSaved[1] = SessionSaved[2]
            /\ same = Segs => /\ FloorImprovement(rows, snap) = 0
                              /\ (\A s \in Segs : based(s)) => none(RouteDiff(Summary, snap.route))

\* segment_diff calls a change of the death rate "always defined": it is shown
\* for a segment without a baseline too, as if nobody had died there before.
RateDiffsAreReal ==
    snap # None => \A s \in Segs :
        View(s).ready /\ View(s).die # snap.seg[s].die => OfSegment(rows, s) # OfSegment(snap.seen, s)

\* events_from_rows: experimental episodes "still count toward floor/gold".  The
\* floor that is saved for the table leaves them out.
TableFloorCounts ==
    \A s \in Tracked : fits[s] = Learnt(rows, s) =>
        fits[s].output.floor = RunningMinClean(Episodes(rows, s))

\* start_replay tags rows so that they are "excluded from model ingestion in the
\* scheduler": without a replay's rows, the same is learnt of each segment.
ReplaysAreNotLearnt ==
    LET played == SelectSeq(rows, LAMBDA r : ~r.replay)
    IN  \A s \in Segs : Learnt(rows, s) = Learnt(played, s)

\* set_attempt_invalidated marks "the *episode* containing attempt_id": no row
\* of a marked episode is left, or added, without the mark.
MarksCoverEpisodes ==
    \A i, j \in DOMAIN rows : rows[i].ep = rows[j].ep => rows[i].bad = rows[j].bad

\* rollout_matrix.py says its sampler states are a live mapping: once nothing is
\* in flight and no column is dirty, the engine simulates every segment that
\* passes the gate, from what is known of it now.
EngineIsLive ==
    \/ engine = None \/ draw # None \/ play # None
    \/ \E h \in Hands : ~Rests(h)
    \/ engine.dirty # {}
    \/ /\ Simulated = {s \in Tracked : Samplable(fits[s].state)}
       /\ \A s \in Simulated : engine.cols[s] = fits[s].state
==============================================================================
