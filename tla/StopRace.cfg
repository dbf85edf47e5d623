\* No call raises: stop() meets the last cycle.
SPECIFICATION Spec
CONSTANTS
  doom = doom
  quake = quake
  Games = {doom, quake}
  MaxRows = 3
  MaxRaises = 0
INVARIANT
  StopReachesCleanup
CHECK_DEADLOCK FALSE
