\* Lifespan, cycle and requests over one run of the backend after another.
SPECIFICATION AppFairSpec
CONSTANTS
  main = main
  orch = orch
  r1 = r1
  r2 = r2
  svc = svc
  reg = reg
  proc = proc
  Tasks = {main, orch, r1}
  Targets = {reg, proc}
  Kind <- KindOf
  LaunchModes = {FALSE}
  Faults = {"crash", "drop", "refuse", "exit"}
  MaxSnapshots = 3
INVARIANTS
  ExitLeavesRefusedOrLate
PROPERTIES
  RecoveryAttemptsAll
  RecoveryEnds
CHECK_DEADLOCK FALSE
