SPECIFICATION Spec
CONSTANTS
  MAX_CONNECTED_SESSIONS = 1
  MAX_SOCKETS = 2
  Conns = {c1, c2, c3}
  NoConn = NoConn
  MaxCloses = 4
INVARIANT RecvNeverBlocks
CHECK_DEADLOCK FALSE
