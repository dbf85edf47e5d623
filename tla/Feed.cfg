\* One finding that is executed unasked and one that is not; one decision beside the cycle.
SPECIFICATION FairSpec
CONSTANTS
  d1 = d1
  heat = heat
  disk = disk
  Findings = {heat, disk}
  Unasked = {heat}
  Decisions = {d1}
  MaxRaises = 1
INVARIANTS
  DoneWasRun
  DismissedIsNotRun
PROPERTIES
  CycleRespectsDecisions
  DismissedLeavesFeed
CHECK_DEADLOCK FALSE
