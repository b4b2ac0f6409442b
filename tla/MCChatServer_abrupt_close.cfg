SPECIFICATION Spec
CONSTANTS
  MAX_CONNECTED_SESSIONS = 1
  MAX_CREATED_ROOMS = 1
  MAX_USERS_IN_ROOM = 1
  UserIds = {u1}
  Registered = {u1}
  NoUserId = NoUserId
  Conns = {c1}
  NoConn = NoConn
  MAX_SOCKETS = 1
  RedisMayFail = FALSE
  Discipline = {"stop_and_wait", "login_once", "own_id", "valid_room", "request_ids"}
  MaxRequests = 1
  MaxQueued = 2
SYMMETRY Symmetry
CHECK_DEADLOCK FALSE
INVARIANT ClosesAreConnected
