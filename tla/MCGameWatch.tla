------------------------------ MODULE MCGameWatch ------------------------------
(* Values of the constants of GameSessions for TLC, with the watchdog. *)
EXTENDS GameWatch

CONSTANTS doom, quake
===============================================================================
