---------------------------- MODULE MCAppLifecycle ----------------------------
(* Values of the constants of AppLifecycle for TLC. *)
EXTENDS AppLifecycle, TLC

CONSTANTS r1, r2, svc, reg, proc

KindValue == (svc :> "service") @@ (reg :> "registry") @@ (proc :> "process")
KindOf    == [t \in Targets |-> KindValue[t]]
===============================================================================
