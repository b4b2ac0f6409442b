---------------------------- MODULE PacketManager ----------------------------
(***************************************************************************)
(* PacketManager: the packet thread, which takes packets from one queue    *)
(* and runs the handler of FuncList_ for each.                             *)
(*                                                                         *)
(* A turn of ProcessPacket is PollRedis, then TakePacket if the queue has  *)
(* a packet. A handler changes the server's state before or after its      *)
(* sends but never between them, and reads its request before them, so a   *)
(* handler is one step that leaves in "sending" the SendPacket calls it    *)
(* still has to make; each of those is a step of its own (ChatServer),     *)
(* because other threads run between them and each may fail.               *)
(*                                                                         *)
(* Two handlers read a field of the request, test it, and read it again;   *)
(* "again" is the packet as the second reading has it.                     *)
(***************************************************************************)
EXTENDS UserRooms, RedisManager, Clients

VARIABLES
  packet_queue,  \* PacketManager::packet_queue_
  pc,            \* where the packet thread is in its loop: "poll" or "take"
  sending        \* SendPacket calls left: a sequence of sets of messages

packetVars == <<packet_queue, pc, sending>>

PacketManagerTypeOK ==
  /\ packet_queue \in Seq(PacketInfo)
  /\ pc \in {"poll", "take"}
  /\ sending \in Seq(SUBSET Message)

PacketManagerInit ==
  /\ packet_queue = <<>>
  /\ pc = "poll"
  /\ sending = <<>>

-----------------------------------------------------------------------------
\* Bodies.

\* Mutant: one receive buffer for all sessions.
Overwritten_Shared(q, i) ==
  [k \in DOMAIN q |->
     IF q[k].packet_id \in RequestIds THEN [q[k] EXCEPT !.intact = FALSE] ELSE q[k]]

\* Session i's receive buffer is rewritten or cleared: what the queued requests
\* of that session point to is gone.
Overwritten(q, i) ==
  [k \in DOMAIN q |->
     IF q[k].session_index = i /\ q[k].packet_id \in RequestIds
     THEN [q[k] EXCEPT !.intact = FALSE, !.user_id = NoUserId, !.room_number = 0]
     ELSE q[k]]

\* The packet with any body.
AnyBody(p) ==
  {[p EXCEPT !.user_id = body[1], !.room_number = body[2]] :
     body \in (UserIds \cup {NoUserId}) \X RoomNumbers}

\* The packets a handler may believe it reads when it looks through the pointer.
Readings(p) == IF p.intact THEN {p} ELSE AnyBody(p)

\* Its next look: while the handler runs, the network thread rewrites the buffer for
\* a client that does not wait for its answer, and clears it for one that leaves.
NextReadings(p) ==
  IF p.intact /\ Keeps("stop_and_wait") /\ Keeps("quiet_close") THEN {p} ELSE AnyBody(p)

-----------------------------------------------------------------------------
\* Sends.

Response(p, id, code) ==
  [to |-> p.session_index, packet_id |-> id, code |-> code, conn |-> p.conn, copy |-> 0]

\* Mutant: an early return before the send.
Respond_NotSent(p, id, code) ==
  IF code = "ROOM_ENTER_USER_NOT_LOGIN" THEN <<>> ELSE <<{Response(p, id, code)}>>

Respond(p, id, code) == <<{Response(p, id, code)}>>

\* Room::NotifyUsers: one send per entry of the list, in any order.
NotifyUsers(list, id) ==
  IF list = {} THEN <<>>
  ELSE <<{[to |-> users[node[1]].index, packet_id |-> id, code |-> "NONE",
           conn |-> NoConn, copy |-> node[2]] : node \in list}>>

-----------------------------------------------------------------------------
\* Handlers. Each sets users, index_user_map, rooms, req_packet_queue, sending
\* and process.

FuncAccept(p) ==
  /\ p.packet_id = "SYS_ACCEPT"
  /\ AddUser(p.session_index)
  /\ UNCHANGED <<req_packet_queue, sending, process>>

FuncClose(p) ==
  /\ p.packet_id = "SYS_CLOSE"
  /\ HasUser(p.session_index)
  /\ RemoveUser(p.session_index)
  /\ UNCHANGED <<req_packet_queue, sending, process>>

LoginReqCode(i, id) ==
  IF ~HasUser(i) THEN "INVALID_SESSION_INDEX"
  ELSE IF users[i].state = "NONE" THEN "USER_NOT_CONNECTED"
  ELSE IF users[i].state = "LOGIN" THEN "USER_ALREADY_LOGIN"
  ELSE IF IsDuplicatedUserID(id) THEN "USER_ID_DUPLICATED"
  ELSE "NONE"

\* The copy of the request that goes to the Redis thread.
LoginRequest(p) ==
  [EmptyPacket(users[p.session_index].index, "REDIS_LOGIN_REQ", p.conn) EXCEPT
     !.user_id = p.user_id]

FuncLoginReq(p, again) ==
  LET code == LoginReqCode(p.session_index, p.user_id) IN
  /\ p.packet_id = "LOGIN_REQ"
  /\ \/ /\ code # "NONE"
        /\ sending' = Respond(p, "LOGIN_RES", code)
        /\ UNCHANGED req_packet_queue
     \/ /\ code = "NONE"
        /\ AddRedisReqPacketQueue(LoginRequest(again))
        /\ UNCHANGED sending
  /\ UNCHANGED <<userRoomVars, process>>

\* GetUser is called again when the answer arrives: the user is the one that
\* has the session index by then. A refusal is sent without a look at it.
FuncLoginRes(p) ==
  /\ p.packet_id = "REDIS_LOGIN_RES"
  /\ \/ /\ p.code = "NONE"
        /\ HasUser(p.session_index)
        /\ LoginUser(p.session_index, p.user_id)
     \/ /\ p.code # "NONE"
        /\ UNCHANGED userRoomVars
  /\ sending' = Respond(p, "LOGIN_RES", p.code)
  /\ UNCHANGED <<req_packet_queue, process>>

EnterRoomCode(i, tested, n) ==
  IF users[i].state # "LOGIN" THEN "ROOM_ENTER_USER_NOT_LOGIN"
  ELSE IF tested < 0 \/ tested > MAX_CREATED_ROOMS THEN "ROOM_ENTER_INVALID_ROOM_INDEX"
  ELSE IF n \in Rooms /\ IsFull(n) THEN "ROOM_ENTER_ROOM_IS_FULL"
  ELSE "NONE"

FuncEnterRoom(p, again) ==
  LET i    == p.session_index
      n    == again.room_number
      code == EnterRoomCode(i, p.room_number, n)
  IN
  /\ p.packet_id = "ROOM_ENTER_REQ"
  /\ HasUser(i)
  /\ \/ /\ code # "NONE"
        /\ sending' = Respond(p, "ROOM_ENTER_RES", code)
        /\ UNCHANGED <<userRoomVars, process>>
     \/ /\ code = "NONE"
        /\ n \in Rooms
        /\ EnterRoom(i, n)
        /\ sending' = Respond(p, "ROOM_ENTER_RES", code)
                        \o NotifyUsers(PushBack(rooms[n], i), "ROOM_ENTER_NTF")
        /\ UNCHANGED process
     \/ /\ code = "NONE"          \* rooms_.at(n) throws
        /\ n \notin Rooms
        /\ process' = "room_range"
        /\ UNCHANGED <<userRoomVars, sending>>
  /\ UNCHANGED req_packet_queue

\* The last two refusals are in the code; UserStateMatchesRoom makes them dead.
LeaveRoomCode(i) ==
  LET r == users[i].room_index IN
  IF users[i].state # "ROOM" THEN "ROOM_LEAVE_USER_NOT_IN_ROOM"
  ELSE IF r < 0 \/ r > MAX_CREATED_ROOMS THEN "ROOM_LEAVE_INVALID_ROOM_INDEX"
  ELSE IF IsEmpty(r) THEN "ROOM_LEAVE_EMPTY_ROOM"
  ELSE "NONE"

FuncLeaveRoom(p) ==
  LET i    == p.session_index
      code == LeaveRoomCode(i)
      left == RemoveAll(rooms[users[i].room_index], i)
  IN
  /\ p.packet_id = "ROOM_LEAVE_REQ"
  /\ HasUser(i)
  /\ \/ /\ code # "NONE"
        /\ sending' = Respond(p, "ROOM_LEAVE_RES", code)
        /\ UNCHANGED userRoomVars
     \/ /\ code = "NONE"
        /\ LeaveRoom(i)
        /\ sending' = Respond(p, "ROOM_LEAVE_RES", code)
                        \o NotifyUsers(left, "ROOM_LEAVE_NTF")
  /\ UNCHANGED <<req_packet_queue, process>>

ChatRoomCode(i) ==
  LET r == users[i].room_index IN
  IF users[i].state # "ROOM" THEN "ROOM_CHAT_USER_NOT_IN_ROOM"
  ELSE IF r < 0 \/ r > MAX_CREATED_ROOMS THEN "ROOM_CHAT_INVALID_ROOM_INDEX"
  ELSE "NONE"

\* The only handler that answers its client after notifying the room.
FuncChatRoom(p) ==
  LET i    == p.session_index
      code == ChatRoomCode(i)
  IN
  /\ p.packet_id = "ROOM_CHAT_REQ"
  /\ HasUser(i)
  /\ \/ /\ code # "NONE"
        /\ sending' = Respond(p, "ROOM_CHAT_RES", code)
     \/ /\ code = "NONE"
        /\ sending' = NotifyUsers(rooms[users[i].room_index], "ROOM_CHAT_NTF")
                        \o Respond(p, "ROOM_CHAT_RES", code)
  /\ UNCHANGED <<userRoomVars, req_packet_queue, process>>

\* FuncList_ has no entry for the id: the packet is dropped without an answer.
IgnorePacket(p) ==
  /\ p.packet_id = "UNHANDLED"
  /\ UNCHANGED <<userRoomVars, req_packet_queue, sending, process>>

\* Handlers that use what GetUser returned without a test, and the table read
\* at MAX_PACKET_ID, which the test "> MAX_PACKET_ID" lets through.
LeaveDefinedBehaviour(p) ==
  /\ \/ /\ ~HasUser(p.session_index)
        /\ \/ p.packet_id \in {"SYS_CLOSE", "ROOM_ENTER_REQ", "ROOM_LEAVE_REQ",
                               "ROOM_CHAT_REQ"}
           \/ p.packet_id = "REDIS_LOGIN_RES" /\ p.code = "NONE"
        /\ process' = "null_user"
     \/ /\ p.packet_id = "MAX_PACKET_ID"
        /\ process' = "func_list_range"
  /\ UNCHANGED <<userRoomVars, req_packet_queue, sending>>

-----------------------------------------------------------------------------
\* The loop.

\* GetRedisResPacket, and its packet to the end of the queue. Only this thread
\* takes from the response queue, so nothing can happen in between.
PollRedis ==
  /\ Running
  /\ pc = "poll" /\ sending = <<>>
  /\ pc' = "take"
  /\ \/ /\ res_packet_queue # <<>>
        /\ packet_queue' = Append(packet_queue, Head(res_packet_queue))
        /\ res_packet_queue' = Tail(res_packet_queue)
     \/ /\ res_packet_queue = <<>>
        /\ UNCHANGED <<packet_queue, res_packet_queue>>
  /\ UNCHANGED <<userRoomVars, req_packet_queue, sending, process>>

HandlePacket(p, again) ==
  \/ FuncAccept(p)
  \/ FuncClose(p)
  \/ FuncLoginReq(p, again)
  \/ FuncLoginRes(p)
  \/ FuncEnterRoom(p, again)
  \/ FuncLeaveRoom(p)
  \/ FuncChatRoom(p)
  \/ IgnorePacket(p)
  \/ LeaveDefinedBehaviour(p)

TakePacket ==
  /\ Running
  /\ pc = "take"
  /\ pc' = "poll"
  /\ \/ /\ packet_queue # <<>>
        /\ packet_queue' = Tail(packet_queue)
        /\ \E p \in Readings(Head(packet_queue)), again \in NextReadings(Head(packet_queue)) :
             HandlePacket(p, again)
     \/ /\ packet_queue = <<>>
        /\ UNCHANGED <<userRoomVars, packet_queue, req_packet_queue, sending, process>>
  /\ UNCHANGED res_packet_queue
=============================================================================
