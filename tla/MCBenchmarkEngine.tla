-------------------------- MODULE MCBenchmarkEngine --------------------------
(* Values of the constants of BenchmarkEngine for TLC. *)
EXTENDS BenchmarkEngine

CONSTANTS c1, c2, reg, proc

KindValue == (reg :> "registry") @@ (proc :> "process")
KindOf    == [t \in Targets |-> KindValue[t]]

(* A request that names one tweak twice, and one for two tweaks. *)
TweakSetsAsked == {<<reg, reg>>, <<reg, proc>>}
===============================================================================
