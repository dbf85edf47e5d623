--------------------------- MODULE MCTweakLifecycle ---------------------------
(* Values of the constants of TweakLifecycle for TLC. *)
EXTENDS TweakLifecycle, TLC

CONSTANTS c1, c2, c3, svc, reg, proc

KindValue == (svc :> "service") @@ (reg :> "registry") @@ (proc :> "process")
KindOf    == [t \in Targets |-> KindValue[t]]

TaskSymmetry == Permutations(Tasks)
===============================================================================
