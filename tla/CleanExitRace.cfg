\* An adaptive cycle still runs while the shutdown restores.
SPECIFICATION AppSpec
CONSTANTS
  main = main
  orch = orch
  r1 = r1
  r2 = r2
  svc = svc
  reg = reg
  proc = proc
  Tasks = {main, orch, r1}
  Targets = {svc}
  Kind <- KindOf
  LaunchModes = {FALSE}
  Faults = {"crash", "drop"}
  MaxSnapshots = 2
INVARIANT
  PendingArmsRecovery
CHECK_DEADLOCK FALSE
