SPECIFICATION Spec
CONSTANTS
  MAX_CONNECTED_SESSIONS = 2
  MAX_CREATED_ROOMS = 1
  MAX_USERS_IN_ROOM = 1
  UserIds = {u1}
  Registered = {u1}
  NoUserId = NoUserId
  Conns = {c1, c2}
  NoConn = NoConn
  MAX_SOCKETS = 2
  RedisMayFail = TRUE
  Discipline = {"stop_and_wait"}
  MaxRequests = 4
  MaxQueued = 3
SYMMETRY Symmetry
CHECK_DEADLOCK FALSE
INVARIANTS
  RoomCapacity
  UserStateMatchesRoom
PROPERTY ImplementsService
