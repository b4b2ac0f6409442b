SPECIFICATION Spec
CONSTANTS
  MAX_CONNECTED_SESSIONS = 1
  MAX_CREATED_ROOMS = 1
  MAX_USERS_IN_ROOM = 1
  UserIds = {u1, u2}
  Registered = {u1}
  NoUserId = NoUserId
  Conns = {c1, c2}
  NoConn = NoConn
  MAX_SOCKETS = 2
  RedisMayFail = TRUE
  Discipline = {}
  MaxRequests = 2
  MaxQueued = 3
SYMMETRY Symmetry
CHECK_DEADLOCK FALSE
INVARIANTS
  UserTableConsistent
  
 
