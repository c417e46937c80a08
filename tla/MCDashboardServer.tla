--------------------------- MODULE MCDashboardServer ---------------------------
(***************************************************************************)
(* A small instance of DashboardServer for TLC: two files of one game and  *)
(* one of another, which has no condition definitions.                     *)
(***************************************************************************)
EXTENDS DashboardServer

Files == {"world", "copy", "kaizo"}
Game  == [r \in Files |-> IF r = "kaizo" THEN "k" ELSE "w"]
WithConditions == {"w"}
==============================================================================
