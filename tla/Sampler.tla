-------------------------------- MODULE Sampler --------------------------------
(***************************************************************************)
(* The EMA suite sampler: what the model knows of a segment, as a function *)
(* of its rows.  For each decay rate it keeps a sum and a weight of what   *)
(* was observed: whether an attempt died, and how long it took, by outcome.*)
(*                                                                         *)
(* A rate is a numerator over Whole; sums and weights are multiplied by a  *)
(* common scale and stay integers, so that an average is a ratio of two.   *)
(* Times stand for their logarithms (and for themselves in the pools).     *)
(* A prediction is kept as what it is computed from: the average and the   *)
(* slope for the clear, the death and the chance to die.                   *)
(***************************************************************************)
EXTENDS AttemptLog, Integers

CONSTANTS Alphas, Whole,  \* ALPHA_GRID: numerators, ascending, over Whole
          Fast, Slow,     \* DEFAULT_FAST_IDX and DEFAULT_SLOW_IDX
          PoolSize,       \* POOL_SIZE
          GateMin,        \* how many of each outcome a prediction asks for
          Sure,           \* 1 / LOGIT_EPS
          None

ASSUME SamplerAssumption ==
    /\ Whole \in Nat \ {0} /\ \A i \in DOMAIN Alphas : Alphas[i] \in 0 .. Whole
    /\ {Fast, Slow} \subseteq DOMAIN Alphas /\ Slow < Fast
    /\ {PoolSize, GateMin, Sure} \subseteq Nat \ {0}

Grid == DOMAIN Alphas

\* ema_step: the rate 0 adds up instead, and so averages over all time.
Nothing == [i \in Grid |-> [sum |-> 0, weight |-> 0, scale |-> 1]]
EmaStep(emas, observed) ==
    [i \in Grid |->
        LET e == emas[i]  a == Alphas[i] IN
        IF a = 0 THEN [e EXCEPT !.sum = @ + observed, !.weight = @ + 1]
        ELSE [sum    |-> a * observed * e.scale + (Whole - a) * e.sum,
              weight |-> a * e.scale + (Whole - a) * e.weight,
              scale  |-> Whole * e.scale]]

\* _ema: None without an observation.
Ema(emas, i) == IF emas[i].weight = 0 THEN None ELSE <<emas[i].sum, emas[i].weight>>

\* SamplerState(), with EstimatorState's two counters of episodes.
Fresh == [clears |-> Nothing, falls |-> Nothing, dies |-> Nothing,
          clearPool |-> <<>>, fallPool |-> <<>>, wins |-> 0, deaths |-> 0,
          done |-> 0, tries |-> 0]

\* _append_capped: the newest entries stay.
Capped(pool, t) == LET p == Append(pool, t)
                   IN  IF Len(p) > PoolSize THEN Tail(p) ELSE p

\* process_event; an invalidated row changes nothing.
Process(st, r) ==
    CASE r.bad -> st
      [] ~r.bad /\ r.outcome = "died" ->
           [st EXCEPT !.dies = EmaStep(@, 1), !.falls = EmaStep(@, r.ms),
                      !.fallPool = Capped(@, r.ms), !.deaths = @ + 1]
      [] OTHER ->
           [st EXCEPT !.dies = EmaStep(@, 0), !.clears = EmaStep(@, r.ms),
                      !.clearPool = Capped(@, r.ms), !.wins = @ + 1]

\* replay_with_history, of which the routes use the last state.
Replayed(events) == FoldLeft(Process, Fresh, events)

\* rebuild_state: the rows, and the episodes counted.
Rebuilt(rows, s) ==
    LET tried == ModelEpisodes(rows, s) IN
    [Replayed(ModelRows(rows, s)) EXCEPT
        !.done  = Cardinality({e \in tried : RollUp(OfEpisode(rows, e)).done}),
        !.tries = Cardinality(tried)]

-----------------------------------------------------------------------------
(* Predictions.                                                            *)

\* gate_passes.
Gate(st) == st.wins >= GateMin /\ st.deaths >= GateMin

\* trend_signal_slopes: the fast average and the slow one it is compared with.
Slopes(st, fast, slow) ==
    IF ~Gate(st) THEN None
    ELSE [clear |-> <<Ema(st.clears, fast), Ema(st.clears, slow)>>,
          fall  |-> <<Ema(st.falls, fast), Ema(st.falls, slow)>>,
          die   |-> <<Ema(st.dies, fast), Ema(st.dies, slow)>>]

\* p >= 1 - LOGIT_EPS: the mean diverges.
Certain(p) == Sure * p[1] >= (Sure - 1) * p[2]

\* _logit, as odds: clamped to LOGIT_EPS at both ends.  A slope is added to it
\* by multiplying the odds, and _logistic is certain when they are Sure - 1.
Odds(p) ==
    CASE Sure * p[1] <= p[2]          -> <<1, Sure - 1>>
      [] Sure * (p[2] - p[1]) <= p[2] -> <<Sure - 1, 1>>
      [] OTHER                        -> <<p[1], p[2] - p[1]>>
SlidCertain(fast, slow) ==
    LET f == Odds(fast)  s == Odds(slow)
    IN  f[1] * f[1] * s[2] >= (Sure - 1) * f[2] * f[2] * s[1]

\* expected_episode_time_ms, without the slopes or with them.
Expected(st, i) ==
    IF ~Gate(st) \/ Certain(Ema(st.dies, i)) THEN None
    ELSE [clear |-> Ema(st.clears, i), fall |-> Ema(st.falls, i), die |-> Ema(st.dies, i)]
Slid(st, fast, slow) ==
    IF ~Gate(st) \/ SlidCertain(Ema(st.dies, fast), Ema(st.dies, slow)) THEN None
    ELSE Slopes(st, fast, slow)

\* expected_episode_time_scalar, and what one more step of the trend would gain:
\* a difference is kept as its two sides.
Headline(st) == Expected(st, Fast)
Difference(x, y) == IF x = None \/ y = None THEN None ELSE <<x, y>>
Gain(st) == Difference(Headline(st), Slid(st, Fast, Slow))

\* sample_episode returns a time: an attempt that may survive does, some day.
Samplable(st) == Gate(st) /\ Ema(st.dies, Fast)[1] < Ema(st.dies, Fast)[2]

\* build_matrix: the baseline of each rate, and the cells below the diagonal.
Baseline(st) == [i \in Grid |-> Expected(st, i)]
Matrix(st) == [c \in Grid \X Grid |-> IF c[2] < c[1] THEN Slid(st, c[1], c[2]) ELSE None]

\* EmSuiteSamplerEstimator.model_output: its floor leaves out what the model may
\* not learn from.
Output(rows, s) ==
    LET st    == Rebuilt(rows, s)
        tails == {RollUp(OfEpisode(rows, e)).tail : e \in ModelEpisodes(rows, s)} \ {NoTime}
    IN  [expected |-> Headline(st), gain |-> Gain(st),
         floor |-> IF tails = {} THEN None ELSE Min(tails)]

\* What save_model_state keeps of a segment.
Learnt(rows, s) == [state |-> Rebuilt(rows, s), output |-> Output(rows, s)]
==============================================================================
