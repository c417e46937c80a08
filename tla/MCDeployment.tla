----------------------------- MODULE MCDeployment -----------------------------
(* Two dashboards and a command on one database, wherever they are killed.   *)
EXTENDS FitStore

CONSTANTS d1, d2, t1, a, b

Everyone == {d1, d2, t1}
Dashboards == {d1, d2}
OneTool == {t1}
Segments == {a, b}
Takes == {TRUE}
AllCommands == {"rebuild", "pool", "reset"}

(* Two dashboards race on a new database, one works on a database in use. *)
MCInit == Init /\ (exists = {} \/ stage[d2] = "gone")
MCSpec == MCInit /\ [][Next]_vars /\ Fairness
==============================================================================
