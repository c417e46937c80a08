----------------------------- MODULE MCHyperPlay -----------------------------
(***************************************************************************)
(* Small instances of HyperPlay for TLC.                                   *)
(***************************************************************************)
EXTENDS HyperPlay

TwoLevels == <<1, 2>>
==============================================================================
