------------------------------- MODULE ChatBase -------------------------------
(***************************************************************************)
(* The vocabulary shared by every component of the chat server: the sizes  *)
(* of server/config.hpp and network/config.hpp, the packets of             *)
(* server/packet.hpp, the result codes of server/error.hpp, and how the    *)
(* process ends when it leaves the behaviour the language defines.         *)
(*                                                                         *)
(* A packet is abstracted to its header and to the fields of its body that *)
(* a handler reads. Its bytes live elsewhere: PacketInfo::body is a        *)
(* pointer, for a client's packet into the receive buffer of its session.  *)
(* "intact" says that the bytes pointed to are still those of this packet. *)
(***************************************************************************)
EXTENDS Integers, Sequences, FiniteSets

CONSTANTS
  MAX_CONNECTED_SESSIONS, \* also MAX_CONNECTED_USERS: both are 1000
  MAX_CREATED_ROOMS,
  MAX_USERS_IN_ROOM,
  UserIds,                \* the user ids that clients send
  NoUserId,               \* an all-zero user_id array
  Registered,             \* the keys stored in Redis
  Conns,                  \* client connections, each made at most once
  NoConn

ASSUME SizesAssumption ==
  /\ MAX_CONNECTED_SESSIONS \in Nat
  /\ MAX_CREATED_ROOMS \in Nat
  /\ MAX_USERS_IN_ROOM \in Nat

ASSUME DataAssumption ==
  /\ NoUserId \notin UserIds
  /\ Registered \subseteq UserIds
  /\ NoConn \notin Conns

Sessions == 0 .. MAX_CONNECTED_SESSIONS - 1
Rooms    == 0 .. MAX_CREATED_ROOMS - 1

\* Numbers a client may put in PacketEnterRoomReq: valid ones and both edges.
RoomNumbers == -1 .. MAX_CREATED_ROOMS + 1

\* Indices of no user, no room, no descriptor.
NoIndex == -1

-----------------------------------------------------------------------------
\* Packets.

\* The packet ids a client sends, by the name of their handler's table entry.
RequestIds == {"LOGIN_REQ", "ROOM_ENTER_REQ", "ROOM_LEAVE_REQ", "ROOM_CHAT_REQ"}

\* "UNHANDLED": an id whose table entry is null (or above MAX_PACKET_ID);
\* "MAX_PACKET_ID": the id that equals the length of the table.
OtherIds == {"UNHANDLED", "MAX_PACKET_ID"}

PacketIds ==
  {"SYS_ACCEPT", "SYS_CLOSE", "REDIS_LOGIN_REQ", "REDIS_LOGIN_RES"} \cup RequestIds \cup OtherIds

Codes ==
  {"NONE", "USER_ID_DUPLICATED", "INVALID_SESSION_INDEX", "USER_NOT_CONNECTED",
   "USER_ALREADY_LOGIN", "USER_NOT_EXIST", "ROOM_ENTER_USER_NOT_LOGIN",
   "ROOM_ENTER_INVALID_ROOM_INDEX", "ROOM_ENTER_ROOM_IS_FULL",
   "ROOM_LEAVE_USER_NOT_IN_ROOM", "ROOM_LEAVE_INVALID_ROOM_INDEX",
   "ROOM_LEAVE_EMPTY_ROOM", "ROOM_CHAT_USER_NOT_IN_ROOM",
   "ROOM_CHAT_INVALID_ROOM_INDEX"}

\* PacketInfo and what its body points to. "conn" is an observer: it names the
\* connection the packet came from, and no handler reads it.
PacketInfo ==
  [session_index : Sessions, packet_id : PacketIds, conn : Conns \cup {NoConn},
   user_id : UserIds \cup {NoUserId}, room_number : RoomNumbers, code : Codes,
   intact : BOOLEAN]

\* A packet of session i with an empty body.
EmptyPacket(i, id, c) ==
  [session_index |-> i, packet_id |-> id, conn |-> c, user_id |-> NoUserId,
   room_number |-> 0, code |-> "NONE", intact |-> TRUE]

\* What SendPacket is called with: a response to connection conn (observer), or
\* a notification for one entry of a room's list ("copy" tells entries apart).
ResponseIds     == {"LOGIN_RES", "ROOM_ENTER_RES", "ROOM_LEAVE_RES", "ROOM_CHAT_RES"}
NotificationIds == {"ROOM_ENTER_NTF", "ROOM_LEAVE_NTF", "ROOM_CHAT_NTF"}

Message ==
  [to : Sessions \cup {NoIndex}, packet_id : ResponseIds \cup NotificationIds,
   code : Codes, conn : Conns \cup {NoConn}, copy : Nat]

-----------------------------------------------------------------------------
(***************************************************************************)
(* The process. "running" until a thread leaves defined behaviour or is    *)
(* killed; the reason is then kept and no step is specified any more.      *)
(*   null_user        a handler dereferences the nullptr GetUser returned  *)
(*   room_range       rooms_.at() throws in the packet thread              *)
(*   func_list_range  FuncList_ is read one past its end                   *)
(*   dangling_user    a room notifies a cleared User: sessions_[-1]        *)
(*   redis_reply      CRedisConn::get dereferences a null reply            *)
(*   sigpipe          send() on a connection whose peer is gone            *)
(***************************************************************************)
VARIABLE process

ProcessStates ==
  {"running", "null_user", "room_range", "func_list_range", "dangling_user",
   "redis_reply", "sigpipe"}

Running == process = "running"
=============================================================================
