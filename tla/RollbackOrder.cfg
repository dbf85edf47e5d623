\* One caller, no fault: the same tweak applied twice, then rolled back.
SPECIFICATION Spec
CONSTANTS
  c1 = c1
  c2 = c2
  c3 = c3
  svc = svc
  reg = reg
  proc = proc
  Tasks = {c1}
  Targets = {svc}
  Kind <- KindOf
  LaunchModes = {FALSE}
  Faults = {}
  MaxSnapshots = 2
INVARIANT
  RollbackRestoresOriginal
CHECK_DEADLOCK FALSE
