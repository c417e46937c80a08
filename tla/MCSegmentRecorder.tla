-------------------------- MODULE MCSegmentRecorder --------------------------
(***************************************************************************)
(* Small instances of SegmentRecorder for TLC.                             *)
(***************************************************************************)
EXTENDS SegmentRecorder, TLC

CONSTANTS small, big, odd

\* One value of the byte has no label.
Labels   == [c \in {small, big, odd} |-> IF c = odd THEN None ELSE c]
Powerups == Permutations({small, big})
==============================================================================
