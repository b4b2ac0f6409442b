SPECIFICATION FairSpec
CONSTANTS
  MAX_CONNECTED_SESSIONS = 2
  MAX_CREATED_ROOMS = 1
  MAX_USERS_IN_ROOM = 2
  UserIds = {u1}
  Registered = {u1}
  NoUserId = NoUserId
  Conns = {c1, c2, c3}
  NoConn = NoConn
  MAX_SOCKETS = 2
  RedisMayFail = FALSE
  Discipline = {"stop_and_wait", "quiet_close", "login_once", "own_id", "valid_room", "request_ids"}
  MaxRequests = 2
  MaxQueued = 3
PROPERTIES
  RequestsAnswered
  LeaversForgotten
