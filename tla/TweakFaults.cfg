\* One target of each manager, three tasks, every fault.
SPECIFICATION Spec
CONSTANTS
  c1 = c1
  c2 = c2
  c3 = c3
  svc = svc
  reg = reg
  proc = proc
  Tasks = {c1, c2, c3}
  Targets = {svc, reg, proc}
  Kind <- KindOf
  LaunchModes = {FALSE}
  Faults = {"crash", "drop", "refuse", "exit", "unread"}
  MaxSnapshots = 2
SYMMETRY TaskSymmetry
INVARIANTS
  OriginalSurvives
  AlteredIsRecoverable
  RemovedAfterMark
PROPERTY
  ImplementsLedger
CHECK_DEADLOCK FALSE
