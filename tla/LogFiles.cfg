SPECIFICATION MCSpec
CONSTANTS
  Conns = {c1, c2, c3}
  NotesCap = 1
  Requests = {r1, r2}
  JobIds = {1, 2}
  JobsCap = 1
  Lifetime = 1
  MaxClock = 2
  MaxFiles = 3
  MaxPlace = 7
  Configs <- MCConfigs
  MaxConns = 3
  PongsCap = 2
  InboxCap = 1
  MaxMessages = 2
  MaxFaults = 2
INVARIANTS LogFilesLimited
CHECK_DEADLOCK FALSE
