-------------------------- MODULE MCOptimizationFeed --------------------------
(* Values of the constants of OptimizationFeed for TLC. *)
EXTENDS OptimizationFeed

CONSTANTS d1, heat, disk
===============================================================================
