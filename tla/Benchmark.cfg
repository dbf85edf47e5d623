\* Benchmarks beside other tweak calls, and one mishap of any kind.
SPECIFICATION BenchFairSpec
CONSTANTS
  c1 = c1
  c2 = c2
  reg = reg
  proc = proc
  Tasks = {c1, c2}
  Targets = {reg, proc}
  Kind <- KindOf
  LaunchModes = {FALSE, TRUE}
  Faults = {"crash", "drop", "refuse", "exit"}
  MaxSnapshots = 2
  TweakSets <- TweakSetsAsked
  MaxBenchmarks = 2
  MaxMishaps = 1
INVARIANTS
  RecordedIsReverted
  BenchmarkIsNeutral
PROPERTIES
  BenchImplementsTweaks
  ListedRowsAreReverted
  RunningIsReleased
CHECK_DEADLOCK FALSE
