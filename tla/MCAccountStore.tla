---------------------------- MODULE MCAccountStore ----------------------------
(* Values of the constants of AccountStore for TLC. *)
EXTENDS AccountStore

CONSTANTS c1, c2, ann, bob
===============================================================================
