SPECIFICATION FairSpec
CONSTANTS
  MAX_CONNECTED_SESSIONS = 2
  MAX_SOCKETS = 2
  Conns = {c1, c2, c3}
  NoConn = NoConn
  MaxCloses = 0
INVARIANTS TypeOK WatchesConnected RefusedOnlyWhenFull
PROPERTIES DataServed GoneReleased
CHECK_DEADLOCK FALSE
