-------------------------- MODULE MCReferenceCapture --------------------------
(***************************************************************************)
(* Small instances of ReferenceCapture for TLC.                            *)
(***************************************************************************)
EXTENDS ReferenceCapture, TLC

Slots == Permutations(Reqs)
==============================================================================
