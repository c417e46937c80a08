------------------------------- MODULE LiveViews -------------------------------
(***************************************************************************)
(* What the pages show of the rows, each computed anew for each request:   *)
(* the live view of a segment, the bar of the whole run with its two       *)
(* curves, the surgery table, the golds, a segment's progress; and the     *)
(* snapshot, taken when a session starts, that these are compared with.    *)
(*                                                                         *)
(* The time of a row is its place in the table.  A sum over segments of    *)
(* predictions is kept as its terms: [segment -> prediction], None without *)
(* any.                                                                    *)
(***************************************************************************)
EXTENDS Sampler

CONSTANTS TrendWindow,  \* TREND_WINDOW
          Effective     \* _FAST_ALPHA_EFF_N

Places(rows) == [i \in DOMAIN rows |-> i]

\* get_segment_attempts: the episodes of a segment in the order they closed.
Episodes(rows, s) ==
    LET closes(i) == rows[i].seg = s /\ Closing(rows, rows[i].ep) = i
        ends == SelectSeq(Places(rows), closes)
    IN  [i \in DOMAIN ends |-> RollUp(OfEpisode(rows, rows[ends[i]].ep)) @@ [at |-> ends[i]]]

Clear(ep)   == ep.done /\ ~ep.bad
Clears(eps) == SelectSeq(eps, Clear)
Least(S)    == IF S = {} THEN None ELSE Min(S)
MinOf(x, y) == IF x = None THEN y ELSE IF y < x THEN y ELSE x
SumOf(f)    == IF DOMAIN f = {} THEN None ELSE SumFunction(f)
Known(f)    == [s \in {t \in DOMAIN f : f[t] # None} |-> f[s]]

-----------------------------------------------------------------------------
(* A segment.                                                              *)

\* running_min_clean.
RunningMinClean(eps) == FoldLeft(LAMBDA best, e : MinOf(best, e.tail), None, Clears(eps))

\* compute_golds: the best total and the best last stretch.
Gold(eps)      == Least({eps[i].ms : i \in {j \in DOMAIN eps : Clear(eps[j])}})
CleanGold(eps) == Least({eps[i].tail : i \in {j \in DOMAIN eps : Clear(eps[j])}})

\* surgery_rows: the rows of the table that are marked as the floor.
SurgeryFloor(eps) ==
    {i \in DOMAIN eps : Clear(eps[i]) /\ eps[i].tail = CleanGold(eps)}

\* live_segment_view: its series carries the floor along.
Series(eps) ==
    LET clears == Clears(eps)
    IN  [i \in DOMAIN clears |->
            [ms |-> clears[i].ms, deaths |-> clears[i].deaths, tail |-> clears[i].tail,
             floor |-> RunningMinClean(SubSeq(clears, 1, i))]]
SegmentView(st, eps) ==
    LET shown == Series(eps)
        last  == Last(shown)
    IN  IF ~Gate(st) THEN [ready |-> FALSE]
        ELSE [ready |-> TRUE, expected |-> Headline(st), gain |-> Gain(st),
              die |-> Ema(st.dies, Fast), series |-> shown,
              floor |-> IF shown = <<>> THEN None ELSE last.floor,
              last |-> IF shown = <<>> THEN None ELSE last,
              rank |-> IF shown = <<>> THEN None
                       ELSE 1 + Cardinality({i \in DOMAIN shown : shown[i].ms < last.ms})]

\* segment_progress: faster or slower when the fast average of the clears is
\* further from the slow one than the standard error of the newest clears.
Verdict(st) ==
    LET now == Ema(st.clears, Fast)  was == Ema(st.clears, Slow)
        new == IF Len(st.clearPool) <= Effective THEN st.clearPool
               ELSE SubSeq(st.clearPool, Len(st.clearPool) - Effective + 1, Len(st.clearPool))
        n   == Len(new)
        delta  == was[1] * now[2] - now[1] * was[2]
        spread == n * FoldSeq(LAMBDA x, sum : x * x + sum, 0, new)
                  - FoldSeq(LAMBDA x, sum : x + sum, 0, new) * FoldSeq(LAMBDA x, sum : x + sum, 0, new)
        beyond == n < 2 \/ delta * delta * n * n * (n - 1) > spread * (was[2] * now[2]) * (was[2] * now[2])
    IN  CASE delta > 0 /\ beyond -> "faster"
          [] delta < 0 /\ beyond -> "slower"
          [] OTHER               -> "holding"
Progress(st, gold) ==
    IF ~Gate(st) THEN [ready |-> FALSE]
    ELSE [ready |-> TRUE, verdict |-> Verdict(st),
          gap |-> Difference(Ema(st.clears, Fast), gold),
          pb |-> Least(ToSet(st.clearPool)),
          trend |-> IF Len(st.clearPool) <= TrendWindow THEN st.clearPool
                    ELSE SubSeq(st.clearPool, Len(st.clearPool) - TrendWindow + 1, Len(st.clearPool))]

\* get_em_suite_matrix.
MatrixPage(st) == [baseline |-> Baseline(st), slopes |-> Matrix(st), wins |-> st.wins]

\* The practice engine's page: what each tracked segment is expected to take.
EngineRow(st) == IF Gate(st) THEN [gated |-> TRUE, expected |-> Headline(st)]
                 ELSE [gated |-> FALSE]

\* segment_history: the points of a segment's chart.
Chart(eps) == SelectSeq(Clears(eps), LAMBDA e : ~e.science)

\* get_recent_attempts: the newest episodes of the game, the newest first.
Recent(rows, limit) ==
    LET closes(i) == Closing(rows, rows[i].ep) = i
        ends == Reverse(SelectSeq(Places(rows), closes))
    IN  [i \in 1 .. Min({limit, Len(ends)}) |->
            [seg |-> rows[ends[i]].seg,
             shown |-> RollUp(OfEpisode(rows, rows[ends[i]].ep)) @@ [at |-> ends[i]]]]

-----------------------------------------------------------------------------
(* The run: segs are the segments of the active reference run.             *)

Estimable(st) == Headline(st) # None /\ ~Certain(Ema(st.dies, Fast))
Terms(states) == [s \in {t \in DOMAIN states : Estimable(states[t])} |-> Headline(states[s])]
OrNone(f)     == IF DOMAIN f = {} THEN None ELSE f

\* route_summary.
RouteSummary(states) ==
    [run |-> OrNone(Terms(states)),
     deaths |-> OrNone([s \in DOMAIN Terms(states) |-> Ema(states[s].dies, Fast)])]

\* The events of all the segments by the time they were made.
Timeline(rows, segs) ==
    LET learns(i) == rows[i].seg \in segs /\ ~rows[i].replay /\ ~rows[i].science
    IN  SelectSeq(Places(rows), learns)

\* route_series: the points of the curve from the start of the session on.
StatesAt(rows, segs, times) ==
    FoldLeft(LAMBDA sts, i : [sts EXCEPT ![rows[i].seg] = Process(@, rows[i])],
             [s \in segs |-> Fresh], times)
RouteSeries(rows, segs, started) ==
    LET times == Timeline(rows, segs)
        at(i) == [at |-> times[i], run |-> Terms(StatesAt(rows, segs, SubSeq(times, 1, i)))]
        points == [i \in DOMAIN times |-> at(i)]
    IN  SelectSeq(points, LAMBDA p : p.at > started /\ DOMAIN p.run # {})

\* A mistake: an episode counts only from the next point on.
FloorAt_Before(rows, segs, t) ==
    SumOf(Known([s \in segs |->
        LET by == SelectSeq(Clears(Episodes(rows, s)), LAMBDA e : e.at < t)
        IN  IF by = <<>> THEN None ELSE Min({by[i].tail : i \in DOMAIN by})]))

\* floor_series_at: the sum of the floors that were known at each point.
FloorAt(rows, segs, t) ==
    SumOf(Known([s \in segs |->
        LET by == SelectSeq(Clears(Episodes(rows, s)), LAMBDA e : e.at <= t)
        IN  IF by = <<>> THEN None ELSE Min({by[i].tail : i \in DOMAIN by})]))
FloorSeries(rows, segs, points) ==
    [i \in DOMAIN points |-> FloorAt(rows, segs, points[i].at)]

\* get_route_summary's floor_total_ms.
FloorTotal(rows, segs) == SumOf(Known([s \in segs |-> RunningMinClean(Episodes(rows, s))]))

-----------------------------------------------------------------------------
(* A session.                                                              *)

\* A mistake: the chance to die is taken at the slow rate.
SegmentBaseline_Slow(st, eps) ==
    [expected |-> Headline(st), gain |-> Gain(st),
     die |-> IF Gate(st) THEN Ema(st.dies, Slow) ELSE <<0, 1>>,
     floor |-> RunningMinClean(eps)]

\* _baseline_for_segment and _route_baseline.
SegmentBaseline(st, eps) ==
    [expected |-> Headline(st), gain |-> Gain(st),
     die |-> IF Gate(st) THEN Ema(st.dies, Fast) ELSE <<0, 1>>,
     floor |-> RunningMinClean(eps)]
RouteBaseline(states) ==
    LET known == {s \in DOMAIN states : Gate(states[s]) /\ Headline(states[s]) # None}
    IN  [run |-> OrNone([s \in known |-> Headline(states[s])]),
         deaths |-> OrNone([s \in known |-> Ema(states[s].dies, Fast)])]
\* snapshot_from_segments.
Snapshot(rows, states) ==
    [started |-> Len(rows),
     seg |-> [s \in DOMAIN states |-> SegmentBaseline(states[s], Episodes(rows, s))],
     route |-> RouteBaseline(states)]

\* segment_diff and route_diff: what is shown, and what it was at the start.
SegmentDiff(view, base) ==
    [expected |-> Difference(view.expected, base.expected),
     gain     |-> Difference(view.gain, base.gain),
     floor    |-> Difference(view.floor, base.floor),
     die      |-> <<view.die, base.die>>]
RouteDiff(summary, base) ==
    [run    |-> Difference(summary.run, base.run),
     deaths |-> Difference(summary.deaths, base.deaths)]

\* get_route_summary's floor_improvement_ms.
FloorImprovement(rows, snap) ==
    LET better(s) == LET was == snap.seg[s].floor  is == RunningMinClean(Episodes(rows, s))
                     IN  IF was = None \/ is = None \/ is >= was THEN 0 ELSE was - is
    IN  SumFunction([s \in DOMAIN snap.seg |-> better(s)])
==============================================================================
