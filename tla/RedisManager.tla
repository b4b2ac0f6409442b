----------------------------- MODULE RedisManager -----------------------------
(***************************************************************************)
(* RedisManager: a thread that takes login requests from one queue, asks   *)
(* Redis, and puts the answers on another. Requests and responses are the  *)
(* PacketInfo records of the code; their bodies are heap copies, which     *)
(* nobody overwrites.                                                      *)
(***************************************************************************)
EXTENDS ChatBase

CONSTANT RedisMayFail  \* whether the connection to Redis may be lost
ASSUME RedisAssumption == RedisMayFail \in BOOLEAN

VARIABLES req_packet_queue, res_packet_queue

redisVars == <<req_packet_queue, res_packet_queue>>

RedisTypeOK ==
  /\ req_packet_queue \in Seq(PacketInfo)
  /\ res_packet_queue \in Seq(PacketInfo)

RedisInit ==
  /\ req_packet_queue = <<>>
  /\ res_packet_queue = <<>>

\* Mutants: a request queued twice, an answer to the wrong session, an answer that
\* takes any reply for the key.
AddRedisReqPacketQueue_Twice(p) ==
  req_packet_queue' = Append(Append(req_packet_queue, p), p)

LoginResponse_NoSession(q) ==
  [EmptyPacket(0, "REDIS_LOGIN_RES", q.conn) EXCEPT
     !.code    = IF q.user_id \in Registered THEN "NONE" ELSE "USER_NOT_EXIST",
     !.user_id = q.user_id]

LoginResponse_AnyReply(q) ==
  [EmptyPacket(q.session_index, "REDIS_LOGIN_RES", q.conn) EXCEPT !.user_id = q.user_id]

\* FuncLoginReq copies the user id out of the request into a new body.
AddRedisReqPacketQueue(p) ==
  req_packet_queue' = Append(req_packet_queue, p)

\* CRedisConn::get: true iff the key exists. The password goes in as the
\* output parameter for the value, so it takes no part in the answer.
RedisGet(id) == id \in Registered

LoginResponse(q) ==
  [EmptyPacket(q.session_index, "REDIS_LOGIN_RES", q.conn) EXCEPT
     !.code    = IF RedisGet(q.user_id) THEN "NONE" ELSE "USER_NOT_EXIST",
     !.user_id = IF RedisGet(q.user_id) THEN q.user_id ELSE NoUserId]

\* One turn of the loop that finds a request. Nobody else takes from the request
\* queue or sees the request being served, so the turn is one step.
ProcessRedisPacket ==
  /\ Running
  /\ req_packet_queue # <<>>
  /\ req_packet_queue' = Tail(req_packet_queue)
  /\ res_packet_queue' = Append(res_packet_queue, LoginResponse(Head(req_packet_queue)))
  /\ UNCHANGED process

\* redisCommand returns NULL when the connection is lost; _getError(NULL) says
\* "no error" and get() goes on to read reply->type.
LoseRedis ==
  /\ Running
  /\ RedisMayFail
  /\ req_packet_queue # <<>>
  /\ process' = "redis_reply"
  /\ UNCHANGED redisVars
=============================================================================
