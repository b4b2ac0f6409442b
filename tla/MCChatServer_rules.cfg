SPECIFICATION Spec
CONSTANTS
  MAX_CONNECTED_SESSIONS = 2
  MAX_CREATED_ROOMS = 1
  MAX_USERS_IN_ROOM = 2
  UserIds = {u1, u2, u3}
  Registered = {u1, u2}
  NoUserId = NoUserId
  Conns = {c1, c2, c3}
  NoConn = NoConn
  MAX_SOCKETS = 3
  RedisMayFail = FALSE
  Discipline = {"stop_and_wait", "quiet_close", "login_once", "own_id", "valid_room", "request_ids"}
  MaxRequests = 3
  MaxQueued = 4
SYMMETRY Symmetry
INVARIANTS
  TypeOK
  StaysDefined
  ListsAreUsers
  SessionsUnique
  HandoversAlternate
  ResponseReachesAsker
  NotificationReachesMember
  RequestsIntact
  ClientAgrees
  OneAnswerPerRequest
PROPERTY ImplementsStrictService
