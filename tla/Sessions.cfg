\* Two games, three rows, one call that raises, any shutdown and crash.
SPECIFICATION WatchSpec
CONSTANTS
  doom = doom
  quake = quake
  Games = {doom, quake}
  MaxRows = 3
  MaxRaises = 1
INVARIANTS
  OneOpenRow
  NoSessionLost
PROPERTIES
  ImplementsBook
  EndedGameIsClosed
  SessionIsWatched
  CloseIsAnnounced
CHECK_DEADLOCK FALSE
