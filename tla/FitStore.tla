------------------------------- MODULE FitStore -------------------------------
(***************************************************************************)
(* The fits kept in segment_fits and those who write them: the dashboard,  *)
(* which refits a segment after each episode (Scheduler._maybe_refit_-     *)
(* segment), and the commands `fit rebuild' and `fit-pool', processes of   *)
(* their own on the same database.  Composed with the life of the          *)
(* processes: a refit needs a dashboard that serves, a command opens (and  *)
(* migrates) the database first, and either may be killed at any step.     *)
(*                                                                         *)
(* Every statement is its own transaction.  Rows of attempts are counted:  *)
(* the valid ones played live and the valid ones of a replay.  A fit keeps *)
(* whether it converged, for only then it has a MAP to start from, and the *)
(* wipe its chain of warm starts goes back to.                             *)
(***************************************************************************)
EXTENDS ServerProcess, FiniteSets, Functions

CONSTANTS Segs,
          Tools,      \* the processes that are commands
          Commands,   \* what they may run: "rebuild", "pool", "report", "reset"
          MinEvents,  \* _MIN_EVENTS_FOR_FIT, _FIT_FLOOR_N, POOL_MIN_EVENTS
          MinPooled,  \* POOL_MIN_SEGMENTS
          MaxRows,    \* bound: valid rows of attempts at a time
          MaxFits     \* bound: rows of segment_fits before another refit

ASSUME FitAssumption ==
    /\ Procs = Servers \cup Tools /\ Servers \cap Tools = {}
    /\ {MinEvents, MinPooled, MaxRows, MaxFits} \subseteq Nat
    /\ Commands \subseteq {"rebuild", "pool", "report", "reset"}

VARIABLES
    exists,  \* the segments in the database
    live,    \* their valid rows of practice, hyper play and reference runs
    replay,  \* their valid rows of replays
    fits,    \* segment_fits: its rows
    wipes,   \* how often a rebuild has wiped the fits of the game
    job,     \* each dashboard's refit: "idle", "due", "read", "loaded"
    tool,    \* each command: where it is and what it holds
    quiet    \* history: no refit held an older payload at the last wipe

data == <<exists, live, replay>>
fitVars == <<exists, live, replay, fits, wipes, job, tool, quiet>>
vars == <<dbVars, serverVars, fitVars>>

NoRefit == [at |-> "idle", seg |-> None, warm |-> None]
Resting == [at |-> "off", cmd |-> None, todo |-> {}, seg |-> None,
            chosen |-> {}, failed |-> {}]

FitInit ==
    /\ exists \in {{}, Segs} /\ fits = {} /\ wipes = 0 /\ quiet = TRUE
    /\ live = [s \in Segs |-> 0] /\ replay = [s \in Segs |-> 0]
    /\ job = [p \in Servers |-> NoRefit]
    /\ tool = [t \in Tools |-> Resting]

-----------------------------------------------------------------------------
(* The rows of a segment and a kind, which are only ever deleted together:  *)
(* their ids are compared with each other and with no others.               *)
OfKind(s, kind) == {r \in fits : r.seg = s /\ r.kind = kind}

Row(s, kind, converged, root) ==
    [seg |-> s, kind |-> kind, nth |-> Cardinality(OfKind(s, kind)) + 1,
     converged |-> converged, root |-> root]

(* _fit_and_serialize: an envelope in any case, empty when it has not *)
(* converged (no MAP, or no Hessian to draw bands from).              *)
Envelopes(s, kind, root) == {Row(s, kind, c, root) : c \in BOOLEAN}

(* load_latest_segment_fit: ORDER BY id DESC LIMIT 1. *)
HasFit(s, kind) == OfKind(s, kind) # {}
Latest(s, kind) == {r \in OfKind(s, kind) : \A q \in OfKind(s, kind) : q.nth <= r.nth}

(* _prev_theta_from_result: only a converged payload warm-starts the next. *)
WarmStart(s) ==
    LET usable == {r \in Latest(s, "segment_fit") : r.converged}
    IN  IF usable = {} THEN None ELSE (CHOOSE r \in usable : TRUE).root

(* save_segment_fit: the foreign key refuses a segment that was deleted. *)
Save(r) == IF r.seg \in exists THEN fits \cup {r} ELSE fits

-----------------------------------------------------------------------------
(* The dashboard: an event is logged, and at an episode's end comes a refit. *)
Serving(p) == Goes(p, "serves") /\ job[p].at = "idle"

RowsLeft == SumFunction(live) + SumFunction(replay) < MaxRows

LogRow(p, s) ==
    /\ Serving(p) /\ s \in exists /\ RowsLeft
    /\ live' = [live EXCEPT ![s] = @ + 1]
    /\ \E ended \in BOOLEAN :
           /\ ended => Cardinality(fits) < MaxFits
           /\ job' = IF ended THEN [job EXCEPT ![p].at = "due", ![p].seg = s] ELSE job
    /\ UNCHANGED <<dbVars, serverVars, exists, replay, fits, wipes, tool, quiet>>

LogReplayRow(p, s) ==
    /\ Serving(p) /\ s \in exists /\ RowsLeft
    /\ replay' = [replay EXCEPT ![s] = @ + 1]
    /\ UNCHANGED <<dbVars, serverVars, exists, live, fits, wipes, job, tool, quiet>>

(* patch_attempt. *)
Invalidate(p, s) ==
    /\ Serving(p) /\ live[s] > 0 /\ Cardinality(fits) < MaxFits
    /\ live' = [live EXCEPT ![s] = @ - 1]
    /\ job' = [job EXCEPT ![p].at = "due", ![p].seg = s]
    /\ UNCHANGED <<dbVars, serverVars, exists, replay, fits, wipes, tool, quiet>>

(* _purge_exclusive_segments, when a run is deleted with its data. *)
DeleteSegment(p, s) ==
    /\ Serving(p) /\ s \in exists
    /\ exists' = exists \ {s}
    /\ live' = [live EXCEPT ![s] = 0] /\ replay' = [replay EXCEPT ![s] = 0]
    /\ fits' = {r \in fits : r.seg # s}
    /\ UNCHANGED <<dbVars, serverVars, wipes, job, tool, quiet>>

RefitReads(p) ==
    /\ Goes(p, "serves") /\ job[p].at = "due"
    /\ job' = [job EXCEPT ![p] = IF live[@.seg] < MinEvents THEN NoRefit
                                 ELSE [@ EXCEPT !.at = "read"]]
    /\ UNCHANGED <<dbVars, serverVars, data, fits, wipes, tool, quiet>>

RefitLoads(p) ==
    /\ Goes(p, "serves") /\ job[p].at = "read"
    /\ job' = [job EXCEPT ![p].at = "loaded", ![p].warm = WarmStart(job[p].seg)]
    /\ UNCHANGED <<dbVars, serverVars, data, fits, wipes, tool, quiet>>

(* refit_segment raises, or its payload is saved. *)
RefitEnds(p) ==
    /\ Goes(p, "serves") /\ job[p].at = "loaded"
    /\ LET j == job[p]
           root == IF j.warm = None THEN wipes ELSE j.warm
       IN  \/ fits' = fits
           \/ \E r \in Envelopes(j.seg, "segment_fit", root) : fits' = Save(r)
    /\ job' = [job EXCEPT ![p] = NoRefit]
    /\ UNCHANGED <<dbVars, serverVars, data, wipes, tool, quiet>>

Dashboard(p) ==
    \/ \E s \in Segs : \/ LogRow(p, s) \/ LogReplayRow(p, s)
                       \/ Invalidate(p, s) \/ DeleteSegment(p, s)
    \/ RefitReads(p) \/ RefitLoads(p) \/ RefitEnds(p)
-----------------------------------------------------------------------------
At(t, phase)    == tool[t].at = phase
Moves(t, phase) == tool' = [tool EXCEPT ![t].at = phase]
Done(t)         == Moves(t, "done") /\ Ends(t)
RestOfFits      == UNCHANGED <<serverVars, data, job>>

Fails(t)        == Ends(t) /\ tool' = [tool EXCEPT ![t] = [Resting EXCEPT !.at = "failed"]]

(* A command opens the database as the dashboard does. *)
Command(t, c) ==
    /\ At(t, "off") /\ c \in Commands \ {"reset"} /\ Connect(t)
    /\ tool' = [tool EXCEPT ![t].at = "opens", ![t].cmd = c]
    /\ RestOfFits /\ UNCHANGED <<fits, wipes, quiet>>

ResetAll(t) ==
    /\ At(t, "off") /\ "reset" \in Commands /\ Reset(t)
    /\ tool' = [tool EXCEPT ![t].at = "opens", ![t].cmd = "reset"]
    /\ exists' = {} /\ fits' = {}
    /\ live' = [s \in Segs |-> 0] /\ replay' = [s \in Segs |-> 0]
    /\ UNCHANGED <<serverVars, wipes, job, quiet>>

ToolMigrates(t) ==
    /\ At(t, "opens") /\ Migrate(t)
    /\ RestOfFits /\ UNCHANGED <<tool, fits, wipes, quiet>>

ToolFails(t) ==
    /\ \/ At(t, "opens") /\ CannotOpen(t)
       \/ At(t, "off") /\ "reset" \in Commands /\ CannotReset(t)
    /\ Fails(t)
    /\ RestOfFits /\ UNCHANGED <<fits, wipes, quiet>>

KillTool(t) ==
    /\ tool[t].at \notin {"off", "done", "failed"}
    /\ Fails(t)
    /\ RestOfFits /\ UNCHANGED <<fits, wipes, quiet>>

(* The next segment, in the order its query gave. *)
FirstOf(t) == CHOOSE s \in tool[t].todo : TRUE

Opens(t, c) == At(t, "opens") /\ opening[t] = "open" /\ tool[t].cmd = c

(* Reset is done; fit show, list, inventory and render only read. *)
Report(t) ==
    /\ Opens(t, "reset") \/ Opens(t, "report")
    /\ Done(t)
    /\ RestOfFits /\ UNCHANGED <<fits, wipes, quiet>>

(* cli_fit_rebuild.run: rows of replays count too. *)
Counted(s) == live[s] + replay[s]

Count(t) ==
    /\ Opens(t, "rebuild")
    /\ LET eligible == {s \in exists : Counted(s) >= MinEvents}
       IN  IF eligible = {} THEN Done(t)
           ELSE /\ tool' = [tool EXCEPT ![t].at = "wipes", ![t].todo = eligible,
                                        ![t].chosen = eligible]
                /\ UNCHANGED dbVars
    /\ RestOfFits /\ UNCHANGED <<fits, wipes, quiet>>

Wiped_OnlyChosen(t) ==
    {r \in fits : r.kind = "pool_fit" \/ r.seg \notin tool[t].chosen}

Wiped(t) == {r \in fits : r.kind = "pool_fit"}

Wipe(t) ==
    /\ At(t, "wipes") /\ Moves(t, "reads")
    /\ fits' = Wiped(t)
    /\ wipes' = wipes + 1
    /\ quiet' = (\A p \in Servers : job[p].warm = None)
    /\ RestOfFits /\ UNCHANGED dbVars

(* get_segment_event_rows of the next segment. *)
Read(t) ==
    /\ At(t, "reads") /\ tool[t].todo # {}
    /\ tool' = [tool EXCEPT ![t].at = "fits", ![t].seg = FirstOf(t)]
    /\ RestOfFits /\ UNCHANGED <<dbVars, fits, wipes, quiet>>

Continue(t, failed) ==
    tool' = [tool EXCEPT ![t].at = "reads", ![t].todo = @ \ {tool[t].seg},
                         ![t].seg = None, ![t].failed = @ \cup failed]

FitRaises(t) ==
    /\ At(t, "fits") /\ Continue(t, {tool[t].seg})
    /\ RestOfFits /\ UNCHANGED <<dbVars, fits, wipes, quiet>>

Fitted_Converged(t) ==
    \E r \in Envelopes(tool[t].seg, "segment_fit", wipes) :
        fits' = IF r.converged THEN fits \cup {r} ELSE fits

(* fit_segment: a cold fit, saved whether it converged or not. *)
Fitted(t) ==
    \E r \in Envelopes(tool[t].seg, "segment_fit", wipes) : fits' = fits \cup {r}

Fit(t) ==
    /\ At(t, "fits") /\ tool[t].seg \in exists
    /\ Fitted(t)
    /\ Continue(t, {})
    /\ RestOfFits /\ UNCHANGED <<dbVars, wipes, quiet>>

(* IntegrityError: the segment was deleted under it, and nothing catches it. *)
FitHasNoSegment(t) ==
    /\ At(t, "fits") /\ tool[t].seg \notin exists
    /\ Fails(t)
    /\ RestOfFits /\ UNCHANGED <<fits, wipes, quiet>>

RebuildDone(t) ==
    /\ At(t, "reads") /\ tool[t].todo = {} /\ Done(t)
    /\ RestOfFits /\ UNCHANGED <<fits, wipes, quiet>>

-----------------------------------------------------------------------------
(* cli_fit_pool.run: the segments, then the rows of each, then all at once. *)
ListPool(t) ==
    /\ Opens(t, "pool")
    /\ tool' = [tool EXCEPT ![t].at = "gathers", ![t].todo = exists]
    /\ RestOfFits /\ UNCHANGED <<dbVars, fits, wipes, quiet>>

Gather(t) ==
    /\ At(t, "gathers") /\ tool[t].todo # {}
    /\ LET s == FirstOf(t)
       IN  tool' = [tool EXCEPT ![t].todo = @ \ {s},
                       ![t].chosen = IF Counted(s) >= MinEvents THEN @ \cup {s} ELSE @]
    /\ RestOfFits /\ UNCHANGED <<dbVars, fits, wipes, quiet>>

FitPool(t) ==
    /\ At(t, "gathers") /\ tool[t].todo = {}
    /\ IF Cardinality(tool[t].chosen) < MinPooled THEN Done(t)
       ELSE /\ tool' = [tool EXCEPT ![t].at = "pools", ![t].todo = tool[t].chosen]
            /\ UNCHANGED dbVars
    /\ RestOfFits /\ UNCHANGED <<fits, wipes, quiet>>

(* One save per segment; a segment that is gone ends the command. *)
SavePool(t) ==
    /\ At(t, "pools") /\ tool[t].todo # {}
    /\ LET s == FirstOf(t)
       IN  IF s \in exists
           THEN /\ \E r \in Envelopes(s, "pool_fit", wipes) : fits' = fits \cup {r}
                /\ tool' = [tool EXCEPT ![t].todo = @ \ {s}]
                /\ UNCHANGED dbVars
           ELSE Fails(t) /\ UNCHANGED fits
    /\ RestOfFits /\ UNCHANGED <<wipes, quiet>>

PoolDone(t) ==
    /\ At(t, "pools") /\ tool[t].todo = {} /\ Done(t)
    /\ RestOfFits /\ UNCHANGED <<fits, wipes, quiet>>
-----------------------------------------------------------------------------
(* What a dashboard was about to save ends with it. *)
JobsEnd == job' = [p \in Servers |-> IF stage'[p] = "gone" THEN NoRefit ELSE job[p]]

CommandRuns(t) ==
    \/ ToolMigrates(t) \/ ToolFails(t) \/ Report(t)
    \/ Count(t) \/ Wipe(t) \/ FitRaises(t) \/ Fit(t) \/ FitHasNoSegment(t)
    \/ RebuildDone(t) \/ ListPool(t) \/ FitPool(t) \/ PoolDone(t)
    \/ Read(t) \/ Gather(t) \/ SavePool(t)

Init == MigrationsInit /\ ServerInit /\ FitInit

(* Everyone has ended; only then may nothing be left to do. *)
Over == /\ \A p \in Servers : Goes(p, "gone")
        /\ \A t \in Tools : tool[t].at \in {"done", "failed"}
        /\ UNCHANGED vars

Next ==
    \/ ServerNext /\ JobsEnd /\ UNCHANGED <<data, fits, wipes, tool, quiet>>
    \/ \E p \in Servers : Dashboard(p)
    \/ \E t \in Tools : \/ \E c \in Commands : Command(t, c)
                         \/ ResetAll(t) \/ KillTool(t) \/ CommandRuns(t)
    \/ Over

Spec == Init /\ [][Next]_vars

(* A process that was started is scheduled, and so are its children's ports;*)
(* no one need start, stop or kill anything.                                *)
Fairness ==
    /\ \A p \in Servers : WF_vars(ServerRuns(p) /\ JobsEnd /\ UNCHANGED <<data, fits, wipes, tool, quiet>>)
    /\ \A t \in Tools : WF_vars(CommandRuns(t))

FairSpec == Spec /\ Fairness

-----------------------------------------------------------------------------
(* After `fit rebuild', no fit of a segment goes back by warm starts to one *)
(* from before the wipe ("no warm-start chaining, no stale prior payloads"),*)
(* whatever the dashboard refits meanwhile: unless it held an older payload *)
(* at the very moment of the wipe.                                          *)
RebuiltIsCold ==
    quiet => \A r \in fits : r.kind = "segment_fit" => r.root = wipes

(* A rebuild that ran to its end has a fit again for every segment it set   *)
(* out to refit and still finds, save those whose fit raised.               *)
RebuildReplaces ==
    \A t \in Tools : At(t, "done") /\ tool[t].cmd = "rebuild"
        => \A s \in (tool[t].chosen \ tool[t].failed) \cap exists : HasFit(s, "segment_fit")

(* "The same gate the live `_maybe_refit_segment' uses" (cli_fit_rebuild):  *)
(* it is not, rows of replays pass this one and not the other.              *)
SameGate ==
    \A t \in Tools : \A s \in tool[t].chosen \cap exists :
        At(t, "wipes") => live[s] >= MinEvents
==============================================================================
