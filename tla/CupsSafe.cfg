CONSTANTS
  p1 = p1  p2 = p2  j = j  sync = sync
  Names = {p1, p2}
  Jobs = {j}
  Syncer = sync
  MaxConnections = 1
  Handles = {1, 2}
  Entries = {1, 2, 3}
  MaxChanges = 1
  Configs <- MCConfigs
SPECIFICATION FairSpec
CHECK_DEADLOCK FALSE
INVARIANTS PoolExact   
PROPERTIES CallsEnd
