------------------------------ MODULE MCColdFill ------------------------------
(***************************************************************************)
(* Small instances of ColdFill for TLC.                                    *)
(***************************************************************************)
EXTENDS ColdFill

CONSTANTS s1, s2

TwoGaps == <<s1, s2>>
==============================================================================
