---------------------------- MODULE MCGameSessions ----------------------------
(* Values of the constants of GameSessions for TLC. *)
EXTENDS GameSessions

CONSTANTS doom, quake
===============================================================================
