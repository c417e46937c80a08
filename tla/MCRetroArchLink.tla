---------------------------- MODULE MCRetroArchLink ----------------------------
(***************************************************************************)
(* Small instances of RetroArchLink for TLC.                               *)
(***************************************************************************)
EXTENDS RetroArchLink

WideThenNarrow == <<"wide", "narrow">>
================================================================================
