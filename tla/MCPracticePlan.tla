----------------------------- MODULE MCPracticePlan -----------------------------
(***************************************************************************)
(* Small instances of PracticePlan for TLC.                                *)
(***************************************************************************)
EXTENDS PracticePlan

Names == {"round_robin", "least_played"}

\* Decay rates 0 and 1/2, and how long a last stretch takes.
Rates == <<0, 1>>
Times == {1}

\* Weights that name every allocator.
WholeWeights == {[round_robin |-> 1, least_played |-> 0]}

\* Episodes a caller can tell: times that include the penalties of the deaths, or
\* are too short for them; no last stretch, or one that is not the whole of an
\* episode without deaths; no time at all.
Stories == {[done |-> TRUE,  deaths |-> 2, ms |-> 9, tail |-> 2],
            [done |-> TRUE,  deaths |-> 1, ms |-> 3, tail |-> NoTime],
            [done |-> TRUE,  deaths |-> 0, ms |-> 3, tail |-> 1],
            [done |-> FALSE, deaths |-> 0, ms |-> NoTime, tail |-> NoTime]}
==============================================================================
