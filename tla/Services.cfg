\* The services one by one: old databases, crashes, failures and cancellations, three calls
\* on two connections, two sockets and three senders, 11 samples, three GPU requests, two rules;
\* a window that launches, restarts and closes with four backends on three ports.
SPECIFICATION ServicesSpec
CONSTANTS
  k1 = k1
  g1 = g1
  g2 = g2
  Keys = {k1}
  Games = {g1, g2}
  ArtifactTables = {"metrics"}
  Releases <- MCReleases
  WrittenTables = {"settings", "benchmark_runs"}
  Now = 3
  Pooled = {c1, c2, c3}
  Unpooled = {m1}
  Cancellable = {c3}
  MaxConnections = 2
  MaxFailures = 1
  Sockets = {s1, s2}
  Deciders = {d1}
  Minute = 2
  Five = 4
  KeepRaw = 2
  KeepMinute = 5
  KeepFive = 10
  MaxTime = 11
  Readers = {r1, r2}
  Ttl = 1
  MaxSaves = 2
  MaxClock = 5
  GpuRequests = {q1, q2, q3}
  GpuSettings = {hags, mode}
  Rules = {a1, a2}
  Cooldown = 2
  MaxTick = 6
  Restarts = {x1}
  FallbackPorts = {1, 2}
  MaxSpawns = 4
INVARIANTS
  RecordedIsDone
  NewestProfileKept
  PermitsAccounted
  AllOrNothing
  MissedForRemovals
  HistoryIsCovered
  SaveIsSeen
  AcceptedIsSaved
  NoOrphan
  OnlyFailedLaunchLeaves
PROPERTIES
  MigratedOnce
  RuleWaits
  DeadAreDropped
  ImplementsStore
CHECK_DEADLOCK FALSE
