-------------------------- MODULE MCPracticeSession --------------------------
(***************************************************************************)
(* Small instances of PracticeSession for TLC.                             *)
(***************************************************************************)
EXTENDS PracticeSession
==============================================================================
