------------------------------- MODULE AttemptLog -------------------------------
(***************************************************************************)
(* The attempts table: one row per death or completion, grouped into       *)
(* episodes when it is read.  What an episode adds up to, how an episode   *)
(* told as a whole is split into rows, which rows the model may learn      *)
(* from.  Everything is a function of the rows.                            *)
(***************************************************************************)
EXTENDS Naturals, Sequences, FiniteSetsExt, SequencesExt

CONSTANTS Penalty,   \* death_penalty_ms
          NoTime     \* a time that was not recorded

ASSUME PenaltyAssumption == Penalty \in Nat /\ NoTime \notin Nat

\* One row: its episode and segment, how it ended, how long it took, and the
\* three marks that keep it from the model.
Row(e, s, o, t, marks) == [ep |-> e, seg |-> s, outcome |-> o, ms |-> t,
                           bad |-> "bad" \in marks, science |-> "science" \in marks,
                           replay |-> "replay" \in marks]

Deaths(rs) == Len(SelectSeq(rs, LAMBDA r : r.outcome = "died"))
Total(rs)  == LET sum[i \in 0 .. Len(rs)] == IF i = 0 THEN 0 ELSE sum[i - 1] + rs[i].ms
              IN  sum[Len(rs)]

\* _roll_up_episode: the episode that rows tell, in their order.
RollUp(rs) ==
    LET done == Last(rs).outcome = "survived" IN
    [done    |-> done,
     deaths  |-> Deaths(rs),
     ms      |-> IF done THEN Total(rs) + Penalty * Deaths(rs)
                 ELSE IF Total(rs) > 0 THEN Total(rs) ELSE NoTime,
     tail    |-> IF done THEN Last(rs).ms ELSE NoTime,
     replay  |-> Last(rs).replay,
     bad     |-> \E i \in DOMAIN rs : rs[i].bad,
     science |-> \E i \in DOMAIN rs : rs[i].science]

\* A mistake: the remainder of the division is dropped.
Shares_NoRemainder(total, n) == [i \in 1 .. n |-> total \div n]

\* A total shared out evenly, the first share taking the remainder.
Shares(total, n) == [i \in 1 .. n |-> (total \div n) + (IF i = 1 THEN total % n ELSE 0)]

\* _split_episode_into_events: rows for an episode told as a whole.
Split(e, s, att) ==
    LET died(shares) == [i \in DOMAIN shares |-> Row(e, s, "died", shares[i], {})]
        tail  == IF att.tail = NoTime THEN att.ms ELSE att.tail
        spent == Penalty * att.deaths + tail
        left  == IF att.ms > spent THEN att.ms - spent ELSE 0
    IN  IF att.done
        THEN died(Shares(left, att.deaths)) \o <<Row(e, s, "survived", tail, {})>>
        ELSE died(Shares(IF att.ms = NoTime THEN 0 ELSE att.ms,
                         IF att.deaths = 0 THEN 1 ELSE att.deaths))

\* get_segment_attempts: the rows of a segment, by episode; and of an episode.
OfSegment(rows, s) == SelectSeq(rows, LAMBDA r : r.seg = s)
OfEpisode(rows, e) == SelectSeq(rows, LAMBDA r : r.ep = e)
EpisodesOf(rows, s) == {r.ep : r \in ToSet(OfSegment(rows, s))}
Closing(rows, e)   == Max({i \in DOMAIN rows : rows[i].ep = e})

\* attempts_from_rows and events_from_rows: what the model may learn from.
ModelEpisodes(rows, s) ==
    {e \in EpisodesOf(rows, s) : LET a == RollUp(OfEpisode(rows, e))
                                 IN  ~a.bad /\ ~a.science}
ModelRows(rows, s) ==
    SelectSeq(OfSegment(rows, s), LAMBDA r : ~r.replay /\ ~r.science /\ ~r.bad)

\* set_attempt_invalidated: the whole episode is marked.
Invalidate(rows, e, bad) ==
    [i \in DOMAIN rows |-> IF rows[i].ep = e THEN [rows[i] EXCEPT !.bad = bad] ELSE rows[i]]
==============================================================================
