---------------------------- MODULE MCMovieControl ----------------------------
(***************************************************************************)
(* Small instances of MovieControl for TLC.                                *)
(***************************************************************************)
EXTENDS MovieControl
==============================================================================
