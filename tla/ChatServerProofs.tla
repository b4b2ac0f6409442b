--------------------------- MODULE ChatServerProofs ---------------------------
(***************************************************************************)
(* Proofs about the chat server, for every value of the constants and      *)
(* every Discipline of the clients.                                        *)
(***************************************************************************)
EXTENDS ChatProperties, FiniteSetTheorems, SequenceTheorems, TLAPS

-----------------------------------------------------------------------------
\* The inductive invariant.

\* An answer of Redis that says "logged in" names a key, and its body is a heap copy
\* that no receive buffer overwrites.
Authentic(p) ==
  p.packet_id = "REDIS_LOGIN_RES" =>
    p.intact /\ (p.code = "NONE" => p.user_id \in Registered)

AnswersAuthentic ==
  /\ \A k \in 1 .. Len(res_packet_queue) : Authentic(res_packet_queue[k])
  /\ \A k \in 1 .. Len(packet_queue) : Authentic(packet_queue[k])

ListsFinite == \A r \in Rooms : IsFiniteSet(rooms[r])

\* What the user table and the rooms look like between two packets, and what the
\* queues may bring to them.
ServerInv ==
  /\ TypeOK
  /\ UserTableConsistent
  /\ ListsFinite
  /\ RoomCapacity
  /\ UserStateMatchesRoom
  /\ AnswersAuthentic
  /\ LoginIsAuthentic

-----------------------------------------------------------------------------
\* Packets and queues.

\* A packet with an empty body is a packet.
LEMMA EmptyPacketType ==
  ASSUME NEW i \in Sessions, NEW id \in PacketIds, NEW c \in Conns \cup {NoConn}
  PROVE  EmptyPacket(i, id, c) \in PacketInfo
BY SizesAssumption DEF EmptyPacket, PacketInfo, RoomNumbers, Codes

\* Overwriting bodies keeps the queue, its length and every field of its header.
LEMMA OverwrittenType ==
  ASSUME NEW q \in Seq(PacketInfo), NEW i
  PROVE  /\ Overwritten(q, i) \in Seq(PacketInfo)
         /\ Len(Overwritten(q, i)) = Len(q)
         /\ \A k \in 1 .. Len(q) :
              q[k].packet_id \notin RequestIds => Overwritten(q, i)[k] = q[k]
<1>1. DOMAIN q = 1 .. Len(q)
  OBVIOUS
<1>2. 0 \in RoomNumbers
  BY SizesAssumption DEF RoomNumbers
<1>3. ASSUME NEW k \in DOMAIN q
      PROVE  Overwritten(q, i)[k] \in PacketInfo
  <2>1. q[k] \in PacketInfo
    OBVIOUS
  <2> QED
    BY <2>1, <1>2 DEF Overwritten, PacketInfo
<1>4. Overwritten(q, i) \in [1 .. Len(q) -> PacketInfo]
  BY <1>1, <1>3 DEF Overwritten
<1>5. Len(q) \in Nat
  OBVIOUS
<1>6. \A k \in 1 .. Len(q) :
        q[k].packet_id \notin RequestIds => Overwritten(q, i)[k] = q[k]
  BY <1>1 DEF Overwritten
<1> QED
  BY <1>4, <1>5, <1>6, SeqDef

\* A packet with any body is a packet with the same header.
LEMMA AnyBodyType ==
  ASSUME NEW p \in PacketInfo, NEW r \in AnyBody(p)
  PROVE  /\ r \in PacketInfo
         /\ r.packet_id = p.packet_id
         /\ r.session_index = p.session_index
<1>1. PICK body \in (UserIds \cup {NoUserId}) \X RoomNumbers :
        r = [p EXCEPT !.user_id = body[1], !.room_number = body[2]]
  BY DEF AnyBody
<1>2. r \in PacketInfo
  BY <1>1 DEF PacketInfo
<1> QED
  BY <1>1, <1>2 DEF PacketInfo

\* What a handler may believe it reads is a packet with the same header.
LEMMA ReadingsType ==
  ASSUME NEW p \in PacketInfo, NEW r \in Readings(p)
  PROVE  /\ r \in PacketInfo
         /\ p.intact => r = p
         /\ r.packet_id = p.packet_id
         /\ r.session_index = p.session_index
BY AnyBodyType DEF Readings

\* So is what it reads when it looks again.
LEMMA NextReadingsType ==
  ASSUME NEW p \in PacketInfo, NEW r \in NextReadings(p)
  PROVE  /\ r \in PacketInfo
         /\ r.packet_id = p.packet_id
         /\ r.session_index = p.session_index
BY AnyBodyType DEF NextReadings

\* What a client sends is a packet.
LEMMA RequestsType ==
  ASSUME NEW i \in Sessions, NEW c \in Conns, NEW p \in Requests(i, c)
  PROVE  /\ p \in PacketInfo
         /\ p.packet_id \in RequestIds \cup OtherIds
<1>1. \A id \in RequestIds \cup OtherIds : EmptyPacket(i, id, c) \in PacketInfo
  BY EmptyPacketType DEF PacketIds
<1>2. CASE \E u \in UserIds : p = [EmptyPacket(i, "LOGIN_REQ", c) EXCEPT !.user_id = u]
  BY <1>1, <1>2 DEF EmptyPacket, PacketInfo, RequestIds
<1>3. CASE \E n \in RoomNumbers :
             p = [EmptyPacket(i, "ROOM_ENTER_REQ", c) EXCEPT !.room_number = n]
  BY <1>1, <1>3 DEF EmptyPacket, PacketInfo, RequestIds
<1>4. CASE \E id \in {"ROOM_LEAVE_REQ", "ROOM_CHAT_REQ"} \cup OtherIds :
             p = EmptyPacket(i, id, c)
  BY <1>1, <1>4 DEF EmptyPacket, RequestIds
<1> QED
  BY <1>2, <1>3, <1>4 DEF Requests

\* The answer of Redis is a packet, addressed like the question.
LEMMA LoginResponseType ==
  ASSUME NEW q \in PacketInfo
  PROVE  /\ LoginResponse(q) \in PacketInfo
         /\ LoginResponse(q).intact
         /\ LoginResponse(q).code = "NONE" => LoginResponse(q).user_id \in Registered
<1>1. EmptyPacket(q.session_index, "REDIS_LOGIN_RES", q.conn) \in PacketInfo
  BY EmptyPacketType DEF PacketInfo, PacketIds
<1> QED
  BY <1>1 DEF EmptyPacket, LoginResponse, RedisGet, PacketInfo, Codes

\* Adding a response to the sends leaves a sequence of sets of messages.
LEMMA RespondType ==
  ASSUME NEW p \in PacketInfo, NEW id \in ResponseIds, NEW code \in Codes
  PROVE  Respond(p, id, code) \in Seq(SUBSET Message)
<1>1. Response(p, id, code) \in Message
  BY DEF Response, Message, PacketInfo
<1> QED
  BY <1>1 DEF Respond

\* So does notifying a room, when the users it lists are users.
LEMMA NotifyUsersType ==
  ASSUME UserRoomsTypeOK, NEW list \in SUBSET Node, NEW id \in NotificationIds
  PROVE  NotifyUsers(list, id) \in Seq(SUBSET Message)
<1> DEFINE ToNode(node) == [to |-> users[node[1]].index, packet_id |-> id, code |-> "NONE",
                            conn |-> NoConn, copy |-> node[2]]
<1>1. ASSUME NEW node \in list PROVE ToNode(node) \in Message
  <2>1. node[1] \in Sessions /\ node[2] \in Nat
    BY DEF Node
  <2>2. users[node[1]].index \in Sessions \cup {NoIndex}
    BY <2>1 DEF UserRoomsTypeOK, User
  <2> QED
    BY <2>1, <2>2 DEF Message, Codes
<1>2. {ToNode(node) : node \in list} \in SUBSET Message
  BY <1>1
<1> HIDE DEF ToNode
<1>3. <<{ToNode(node) : node \in list}>> \in Seq(SUBSET Message)
  BY <1>2
<1>4. << >> \in Seq(SUBSET Message)
  OBVIOUS
<1> QED
  BY <1>3, <1>4 DEF NotifyUsers, ToNode

-----------------------------------------------------------------------------
\* The list of a room.

\* push_back adds one entry, and it is one of that user.
LEMMA PushBackList ==
  ASSUME NEW list \in SUBSET Node, IsFiniteSet(list), NEW i \in Sessions
  PROVE  /\ PushBack(list, i) \in SUBSET Node
         /\ IsFiniteSet(PushBack(list, i))
         /\ Cardinality(PushBack(list, i)) <= Cardinality(list) + 1
         /\ list \subseteq PushBack(list, i)
         /\ EntriesOf(PushBack(list, i), i) # {}
<1> DEFINE new == <<i, Cardinality(EntriesOf(list, i)) + 1>>
<1>1. IsFiniteSet(EntriesOf(list, i))
  BY FS_Subset DEF EntriesOf
<1>2. Cardinality(EntriesOf(list, i)) \in Nat
  BY <1>1, FS_CardinalityType
<1>3. new \in Node
  BY <1>2 DEF Node
<1>4. PushBack(list, i) = list \cup {new}
  BY DEF PushBack
<1>5. new \in EntriesOf(PushBack(list, i), i)
  BY <1>4 DEF EntriesOf
<1>6. Cardinality(list) \in Nat
  BY FS_CardinalityType
<1>7. /\ IsFiniteSet(list \cup {new})
      /\ \/ Cardinality(list \cup {new}) = Cardinality(list)
         \/ Cardinality(list \cup {new}) = Cardinality(list) + 1
  BY FS_AddElement
<1> HIDE DEF new
<1> QED
  BY <1>3, <1>4, <1>5, <1>6, <1>7

\* remove drops the entries of one user and no other.
LEMMA RemoveAllList ==
  ASSUME NEW list \in SUBSET Node, IsFiniteSet(list), NEW i
  PROVE  /\ RemoveAll(list, i) \in SUBSET Node
         /\ IsFiniteSet(RemoveAll(list, i))
         /\ Cardinality(RemoveAll(list, i)) <= Cardinality(list)
         /\ \A j : j # i => EntriesOf(RemoveAll(list, i), j) = EntriesOf(list, j)
<1>1. RemoveAll(list, i) \subseteq list
  BY DEF RemoveAll
<1>2. IsFiniteSet(RemoveAll(list, i)) /\ Cardinality(RemoveAll(list, i)) <= Cardinality(list)
  BY <1>1, FS_Subset
<1>3. \A j : j # i => EntriesOf(RemoveAll(list, i), j) = EntriesOf(list, j)
  BY DEF RemoveAll, EntriesOf
<1> QED
  BY <1>1, <1>2, <1>3

-----------------------------------------------------------------------------
(***************************************************************************)
(* Every step does one of these to the user table and the rooms. The       *)
(* guards are those that the handlers, the queues and ServerInv give.      *)
(***************************************************************************)
UserStep(i) ==
  \/ AddUser(i)
  \/ HasUser(i) /\ RemoveUser(i)
  \/ HasUser(i) /\ \E id \in Registered : LoginUser(i, id)
  \/ /\ HasUser(i) /\ users[i].state = "LOGIN"
     /\ \E r \in Rooms : ~IsFull(r) /\ EnterRoom(i, r)
  \/ HasUser(i) /\ users[i].state = "ROOM" /\ LeaveRoom(i)

UserRoomStep == (\E i \in Sessions : UserStep(i)) \/ UNCHANGED userRoomVars

\* The part of ServerInv that is about the user table and the rooms alone.
UserRoomInv ==
  /\ UserRoomsTypeOK
  /\ UserTableConsistent
  /\ ListsFinite
  /\ RoomCapacity
  /\ UserStateMatchesRoom
  /\ LoginIsAuthentic

\* A list that changes in one room only, to a finite list within the capacity.
LEMMA OneRoomChanges ==
  ASSUME UserRoomInv, NEW r \in Rooms, NEW list \in SUBSET Node,
         IsFiniteSet(list), Cardinality(list) <= MAX_USERS_IN_ROOM,
         rooms' = [rooms EXCEPT ![r] = list]
  PROVE  /\ rooms' \in [Rooms -> SUBSET Node]
         /\ ListsFinite' /\ RoomCapacity'
BY DEF UserRoomInv, UserRoomsTypeOK, ListsFinite, RoomCapacity

\* remove, whether or not the index is that of a room.
LEMMA RemoveFromRoom ==
  ASSUME UserRoomInv, NEW i \in Sessions, NEW r \in Rooms \cup {NoIndex},
         rooms' = [rooms EXCEPT ![r] = RemoveAll(@, i)]
  PROVE  /\ rooms' \in [Rooms -> SUBSET Node]
         /\ ListsFinite' /\ RoomCapacity'
         /\ \A j \in Sessions, s \in Rooms : j # i /\ Listed(j, s) => Listed(j, s)'
<1>1. CASE r \notin Rooms
  <2>1. rooms' = rooms
    BY <1>1 DEF UserRoomInv, UserRoomsTypeOK
  <2> QED
    BY <2>1 DEF UserRoomInv, UserRoomsTypeOK, ListsFinite, RoomCapacity, Listed
<1>2. CASE r \in Rooms
  <2> DEFINE list == RemoveAll(rooms[r], i)
  <2>1. rooms[r] \in SUBSET Node /\ IsFiniteSet(rooms[r])
        /\ Cardinality(rooms[r]) <= MAX_USERS_IN_ROOM
    BY <1>2 DEF UserRoomInv, UserRoomsTypeOK, ListsFinite, RoomCapacity
  <2>2. /\ list \in SUBSET Node /\ IsFiniteSet(list)
        /\ Cardinality(list) <= Cardinality(rooms[r])
        /\ \A j : j # i => EntriesOf(list, j) = EntriesOf(rooms[r], j)
    BY <2>1, RemoveAllList
  <2>3. Cardinality(list) \in Nat /\ Cardinality(rooms[r]) \in Nat
    BY <2>1, <2>2, FS_CardinalityType
  <2>4. Cardinality(list) <= MAX_USERS_IN_ROOM
    BY <2>1, <2>2, <2>3, SizesAssumption
  <2>5. rooms' = [rooms EXCEPT ![r] = list]
    OBVIOUS
  <2> HIDE DEF list
  <2>6. \A j \in Sessions, s \in Rooms : j # i /\ Listed(j, s) => Listed(j, s)'
    BY <2>2, <2>5 DEF Listed, UserRoomInv, UserRoomsTypeOK
  <2> QED
    BY <1>2, <2>2, <2>4, <2>5, <2>6, OneRoomChanges
<1> QED
  BY <1>1, <1>2

\* The operations of UserManager and RoomManager keep the table and the rooms
\* consistent.
LEMMA UserRoomStepInv ==
  ASSUME UserRoomInv, UserRoomStep
  PROVE  UserRoomInv'
<1> USE DEF HasUser
<1>1. CASE UNCHANGED userRoomVars
  BY <1>1 DEF userRoomVars, UserRoomInv, UserRoomsTypeOK, UserTableConsistent, ListsFinite,
              RoomCapacity, UserStateMatchesRoom, LoginIsAuthentic, Listed
<1>2. ASSUME NEW i \in Sessions, AddUser(i)
      PROVE  UserRoomInv'
  <2>1. users[i] \in User
    BY DEF UserRoomInv, UserRoomsTypeOK
  <2>2. /\ users' \in [Sessions -> User] /\ index_user_map' \in SUBSET Sessions
        /\ UserTableConsistent'
    BY <1>2, <2>1 DEF AddUser, User, UserRoomInv, UserRoomsTypeOK, UserTableConsistent,
                      ClearedUser, NoIndex, Sessions
  <2>3. UserStateMatchesRoom' /\ LoginIsAuthentic'
    BY <1>2 DEF AddUser, UserRoomInv, UserRoomsTypeOK, UserStateMatchesRoom,
                LoginIsAuthentic, Listed
  <2> QED
    BY <1>2, <2>2, <2>3 DEF AddUser, UserRoomInv, UserRoomsTypeOK, ListsFinite, RoomCapacity
<1>3. ASSUME NEW i \in Sessions, HasUser(i), RemoveUser(i)
      PROVE  UserRoomInv'
  <2>1. users[i] \in User /\ users[i].state # "NONE"
    BY <1>3 DEF UserRoomInv, UserRoomsTypeOK, UserTableConsistent
  <2>2. ClearedUser \in User
    BY DEF ClearedUser, User
  <2>3. users' = [users EXCEPT ![i] = ClearedUser] /\ index_user_map' = index_user_map \ {i}
    BY <1>3, <2>1 DEF RemoveUser
  <2>4. /\ users' \in [Sessions -> User] /\ index_user_map' \in SUBSET Sessions
        /\ UserTableConsistent'
    BY <2>2, <2>3 DEF UserRoomInv, UserRoomsTypeOK, UserTableConsistent, ClearedUser,
                      NoIndex, Sessions
  <2>5. /\ rooms' \in [Rooms -> SUBSET Node] /\ ListsFinite' /\ RoomCapacity'
        /\ \A j \in Sessions, s \in Rooms : j # i /\ Listed(j, s) => Listed(j, s)'
    <3>1. CASE users[i].state = "ROOM"
      BY <1>3, <2>1, <3>1, RemoveFromRoom DEF RemoveUser, User
    <3>2. CASE users[i].state # "ROOM"
      BY <1>3, <3>2 DEF RemoveUser, UserRoomInv, UserRoomsTypeOK, ListsFinite,
                        RoomCapacity, Listed
    <3> QED
      BY <3>1, <3>2
  <2>6. UserStateMatchesRoom' /\ LoginIsAuthentic'
    BY <2>3, <2>5 DEF UserRoomInv, UserRoomsTypeOK, UserStateMatchesRoom,
                      LoginIsAuthentic, ClearedUser
  <2> QED
    BY <2>4, <2>5, <2>6 DEF UserRoomInv, UserRoomsTypeOK
<1>4. ASSUME NEW i \in Sessions, HasUser(i), NEW id \in Registered, LoginUser(i, id)
      PROVE  UserRoomInv'
  <2>1. users[i] \in User /\ id \in UserIds
    BY DataAssumption DEF UserRoomInv, UserRoomsTypeOK
  <2>2. users' \in [Sessions -> User] /\ index_user_map' \in SUBSET Sessions
    BY <1>4, <2>1 DEF LoginUser, User, UserRoomInv, UserRoomsTypeOK
  <2>3. UserTableConsistent'
    BY <1>4 DEF LoginUser, UserRoomInv, UserRoomsTypeOK, UserTableConsistent
  <2>4. UserStateMatchesRoom' /\ LoginIsAuthentic'
    BY <1>4 DEF LoginUser, UserRoomInv, UserRoomsTypeOK, UserStateMatchesRoom,
                LoginIsAuthentic, Listed
  <2> QED
    BY <1>4, <2>2, <2>3, <2>4 DEF LoginUser, UserRoomInv, UserRoomsTypeOK, ListsFinite,
                                  RoomCapacity
<1>5. ASSUME NEW i \in Sessions, HasUser(i), users[i].state = "LOGIN",
             NEW r \in Rooms, ~IsFull(r), EnterRoom(i, r)
      PROVE  UserRoomInv'
  <2> DEFINE list == PushBack(rooms[r], i)
  <2>1. rooms[r] \in SUBSET Node /\ IsFiniteSet(rooms[r]) /\ Cardinality(rooms[r]) \in Nat
    BY FS_CardinalityType DEF UserRoomInv, UserRoomsTypeOK, ListsFinite
  <2>2. /\ list \in SUBSET Node /\ IsFiniteSet(list)
        /\ Cardinality(list) <= Cardinality(rooms[r]) + 1
        /\ rooms[r] \subseteq list /\ EntriesOf(list, i) # {}
    BY <2>1, PushBackList
  <2>3. Cardinality(list) \in Nat
    BY <2>2, FS_CardinalityType
  <2>4. Cardinality(list) <= MAX_USERS_IN_ROOM
    BY <1>5, <2>1, <2>2, <2>3, SizesAssumption DEF IsFull
  <2>5. rooms' = [rooms EXCEPT ![r] = list]
    BY <1>5 DEF EnterRoom
  <2> HIDE DEF list
  <2>6. rooms' \in [Rooms -> SUBSET Node] /\ ListsFinite' /\ RoomCapacity'
    BY <2>2, <2>4, <2>5, OneRoomChanges
  <2>7. \A j \in Sessions, s \in Rooms : Listed(j, s) => Listed(j, s)'
    BY <2>2, <2>5 DEF Listed, EntriesOf, UserRoomInv, UserRoomsTypeOK
  <2>8. Listed(i, r)'
    BY <2>2, <2>5 DEF Listed, UserRoomInv, UserRoomsTypeOK
  <2>9. users[i] \in User
    BY DEF UserRoomInv, UserRoomsTypeOK
  <2>10. users' \in [Sessions -> User] /\ index_user_map' \in SUBSET Sessions
    BY <1>5, <2>9 DEF EnterRoom, User, UserRoomInv, UserRoomsTypeOK
  <2>11. UserTableConsistent' /\ LoginIsAuthentic'
    BY <1>5 DEF EnterRoom, UserRoomInv, UserRoomsTypeOK, UserTableConsistent,
                LoginIsAuthentic
  <2>12. UserStateMatchesRoom'
    BY <1>5, <2>7, <2>8 DEF EnterRoom, UserRoomInv, UserRoomsTypeOK, UserStateMatchesRoom
  <2> QED
    BY <2>6, <2>10, <2>11, <2>12 DEF UserRoomInv, UserRoomsTypeOK
<1>6. ASSUME NEW i \in Sessions, HasUser(i), users[i].state = "ROOM", LeaveRoom(i)
      PROVE  UserRoomInv'
  <2>1. users[i] \in User
    BY DEF UserRoomInv, UserRoomsTypeOK
  <2>2. /\ rooms' \in [Rooms -> SUBSET Node] /\ ListsFinite' /\ RoomCapacity'
        /\ \A j \in Sessions, s \in Rooms : j # i /\ Listed(j, s) => Listed(j, s)'
    BY <1>6, <2>1, RemoveFromRoom DEF LeaveRoom, User
  <2>3. users' \in [Sessions -> User] /\ index_user_map' \in SUBSET Sessions
    BY <1>6, <2>1 DEF LeaveRoom, User, UserRoomInv, UserRoomsTypeOK
  <2>4. UserTableConsistent' /\ LoginIsAuthentic'
    BY <1>6 DEF LeaveRoom, UserRoomInv, UserRoomsTypeOK, UserTableConsistent,
                LoginIsAuthentic
  <2>5. UserStateMatchesRoom'
    BY <1>6, <2>2 DEF LeaveRoom, UserRoomInv, UserRoomsTypeOK, UserStateMatchesRoom
  <2> QED
    BY <2>2, <2>3, <2>4, <2>5 DEF UserRoomInv, UserRoomsTypeOK
<1> QED
  BY <1>1, <1>2, <1>3, <1>4, <1>5, <1>6 DEF UserRoomStep, UserStep

-----------------------------------------------------------------------------
(***************************************************************************)
(* What a handler may do with a packet whose answers are authentic. The    *)
(* packets are those the handler believes it reads, at its two looks.      *)
(***************************************************************************)
HandlerTypes ==
  /\ req_packet_queue' \in Seq(PacketInfo)
  /\ sending' \in Seq(SUBSET Message)
  /\ process' \in ProcessStates

\* Every handler keeps the tables, and questions and sends of their types.
LEMMA HandlePacketStep ==
  ASSUME TypeOK, UserRoomInv,
         NEW p \in PacketInfo, Authentic(p),
         NEW again \in PacketInfo, again.session_index = p.session_index,
         HandlePacket(p, again)
  PROVE  UserRoomStep /\ HandlerTypes
<1> DEFINE i == p.session_index
<1>1. i \in Sessions /\ users[i] \in User
  BY DEF PacketInfo, UserRoomInv, UserRoomsTypeOK
<1>2. /\ req_packet_queue \in Seq(PacketInfo)
      /\ sending \in Seq(SUBSET Message)
      /\ process \in ProcessStates
  BY DEF TypeOK, RedisTypeOK, PacketManagerTypeOK
<1> HIDE DEF i
<1>3. CASE FuncAccept(p)
  BY <1>1, <1>2, <1>3 DEF FuncAccept, HandlerTypes, UserRoomStep, UserStep, i
<1>4. CASE FuncClose(p)
  BY <1>1, <1>2, <1>4 DEF FuncClose, HandlerTypes, UserRoomStep, UserStep, i
<1>5. CASE FuncLoginReq(p, again)
  <2> DEFINE code == LoginReqCode(i, p.user_id)
  <2>1. code \in Codes
    BY DEF LoginReqCode, Codes
  <2>2. CASE code # "NONE"
    <3>1. Respond(p, "LOGIN_RES", code) \in Seq(SUBSET Message)
      BY <2>1, RespondType DEF ResponseIds
    <3> QED
      BY <1>2, <1>5, <2>2, <3>1 DEF FuncLoginReq, HandlerTypes, UserRoomStep, i
  <2>3. CASE code = "NONE"
    <3>1. HasUser(i)
      BY <2>3 DEF LoginReqCode
    <3>2. users[i].index \in Sessions
      BY <1>1, <3>1 DEF UserRoomInv, UserTableConsistent
    <3>3. EmptyPacket(users[i].index, "REDIS_LOGIN_REQ", again.conn) \in PacketInfo
      BY <3>2, EmptyPacketType DEF PacketInfo, PacketIds
    <3>4. LoginRequest(again) \in PacketInfo
      BY <3>3 DEF LoginRequest, PacketInfo, EmptyPacket, i
    <3> QED
      BY <1>2, <1>5, <2>3, <3>4
         DEF FuncLoginReq, AddRedisReqPacketQueue, HandlerTypes, UserRoomStep, i
  <2> QED
    BY <2>2, <2>3
<1>6. CASE FuncLoginRes(p)
  <2>1. Respond(p, "LOGIN_RES", p.code) \in Seq(SUBSET Message)
    BY RespondType DEF ResponseIds, PacketInfo
  <2>2. HandlerTypes
    BY <1>2, <1>6, <2>1 DEF FuncLoginRes, HandlerTypes
  <2>3. CASE p.code = "NONE"
    BY <1>1, <1>6, <2>2, <2>3
       DEF FuncLoginRes, Authentic, UserRoomStep, UserStep, i
  <2>4. CASE p.code # "NONE"
    BY <1>6, <2>2, <2>4 DEF FuncLoginRes, UserRoomStep
  <2> QED
    BY <2>3, <2>4
<1>7. CASE FuncEnterRoom(p, again)
  <2> DEFINE n    == again.room_number
             code == EnterRoomCode(i, p.room_number, n)
             ntf  == NotifyUsers(PushBack(rooms[n], i), "ROOM_ENTER_NTF")
  <2>1. code \in Codes
    BY DEF EnterRoomCode, Codes
  <2>2. Respond(p, "ROOM_ENTER_RES", code) \in Seq(SUBSET Message)
    BY <2>1, RespondType DEF ResponseIds
  <2>3. CASE code # "NONE"
    BY <1>2, <1>7, <2>2, <2>3 DEF FuncEnterRoom, HandlerTypes, UserRoomStep, i
  <2>4. CASE code = "NONE" /\ n \in Rooms
    <3>1. users[i].state = "LOGIN" /\ ~IsFull(n)
      BY <2>4 DEF EnterRoomCode
    <3>2. rooms[n] \in SUBSET Node /\ IsFiniteSet(rooms[n])
      BY <2>4 DEF UserRoomInv, UserRoomsTypeOK, ListsFinite
    <3>3. PushBack(rooms[n], i) \in SUBSET Node
      BY <1>1, <3>2, PushBackList
    <3>4. ntf \in Seq(SUBSET Message)
      BY <3>3, NotifyUsersType DEF UserRoomInv, NotificationIds
    <3>5. sending' = Respond(p, "ROOM_ENTER_RES", code) \o ntf
      BY <1>7, <2>4 DEF FuncEnterRoom, i
    <3> HIDE DEF ntf
    <3>6. sending' \in Seq(SUBSET Message)
      BY <2>2, <3>4, <3>5, ConcatProperties
    <3>7. HasUser(i) /\ EnterRoom(i, n) /\ UNCHANGED <<process, req_packet_queue>>
      BY <1>7, <2>4 DEF FuncEnterRoom, i
    <3> QED
      BY <1>1, <1>2, <2>4, <3>1, <3>6, <3>7 DEF HandlerTypes, UserRoomStep, UserStep
  <2>5. CASE code = "NONE" /\ n \notin Rooms
    <3>1. "room_range" \in ProcessStates
      BY DEF ProcessStates
    <3> QED
      BY <1>2, <1>7, <2>5, <3>1 DEF FuncEnterRoom, HandlerTypes, UserRoomStep, i
  <2> QED
    BY <2>3, <2>4, <2>5
<1>8. CASE FuncLeaveRoom(p)
  <2> DEFINE code == LeaveRoomCode(i)
             left == RemoveAll(rooms[users[i].room_index], i)
             ntf  == NotifyUsers(left, "ROOM_LEAVE_NTF")
  <2>1. code \in Codes
    BY DEF LeaveRoomCode, Codes
  <2>2. Respond(p, "ROOM_LEAVE_RES", code) \in Seq(SUBSET Message)
    BY <2>1, RespondType DEF ResponseIds
  <2>3. CASE code # "NONE"
    BY <1>2, <1>8, <2>2, <2>3 DEF FuncLeaveRoom, HandlerTypes, UserRoomStep, i
  <2>4. CASE code = "NONE"
    <3>1. users[i].state = "ROOM"
      BY <2>4 DEF LeaveRoomCode
    <3>2. users[i].room_index \in Rooms
      BY <1>1, <3>1 DEF UserRoomInv, UserStateMatchesRoom
    <3>3. left \in SUBSET Node
      BY <3>2 DEF UserRoomInv, UserRoomsTypeOK, RemoveAll
    <3>4. ntf \in Seq(SUBSET Message)
      BY <3>3, NotifyUsersType DEF UserRoomInv, NotificationIds
    <3>5. sending' = Respond(p, "ROOM_LEAVE_RES", code) \o ntf
      BY <1>8, <2>4 DEF FuncLeaveRoom, i
    <3> HIDE DEF ntf
    <3>6. sending' \in Seq(SUBSET Message)
      BY <2>2, <3>4, <3>5, ConcatProperties
    <3>7. HasUser(i) /\ LeaveRoom(i) /\ UNCHANGED <<process, req_packet_queue>>
      BY <1>8, <2>4 DEF FuncLeaveRoom, i
    <3> QED
      BY <1>1, <1>2, <3>1, <3>6, <3>7 DEF HandlerTypes, UserRoomStep, UserStep
  <2> QED
    BY <2>3, <2>4
<1>9. CASE FuncChatRoom(p)
  <2> DEFINE code == ChatRoomCode(i)
             ntf  == NotifyUsers(rooms[users[i].room_index], "ROOM_CHAT_NTF")
  <2>1. code \in Codes
    BY DEF ChatRoomCode, Codes
  <2>2. Respond(p, "ROOM_CHAT_RES", code) \in Seq(SUBSET Message)
    BY <2>1, RespondType DEF ResponseIds
  <2>3. sending' \in Seq(SUBSET Message)
    <3>1. CASE code # "NONE"
      BY <1>9, <2>2, <3>1 DEF FuncChatRoom, i
    <3>2. CASE code = "NONE"
      <4>1. users[i].room_index \in Rooms
        BY <1>1, <3>2 DEF ChatRoomCode, UserRoomInv, UserStateMatchesRoom
      <4>2. rooms[users[i].room_index] \in SUBSET Node
        BY <4>1 DEF UserRoomInv, UserRoomsTypeOK
      <4>3. ntf \in Seq(SUBSET Message)
        BY <4>2, NotifyUsersType DEF UserRoomInv, NotificationIds
      <4>4. sending' = ntf \o Respond(p, "ROOM_CHAT_RES", code)
        BY <1>9, <3>2 DEF FuncChatRoom, i
      <4> HIDE DEF ntf
      <4> QED
        BY <2>2, <4>3, <4>4, ConcatProperties
    <3> QED
      BY <3>1, <3>2
  <2> QED
    BY <1>2, <1>9, <2>3 DEF FuncChatRoom, HandlerTypes, UserRoomStep
<1>10. CASE IgnorePacket(p)
  BY <1>2, <1>10 DEF IgnorePacket, HandlerTypes, UserRoomStep
<1>11. CASE LeaveDefinedBehaviour(p)
  BY <1>2, <1>11 DEF LeaveDefinedBehaviour, HandlerTypes, UserRoomStep, ProcessStates
<1> QED
  BY <1>3, <1>4, <1>5, <1>6, <1>7, <1>8, <1>9, <1>10, <1>11 DEF HandlePacket

-----------------------------------------------------------------------------
(***************************************************************************)
(* The queues of the server: of packets, and authentic.                    *)
(***************************************************************************)
GoodQueue(q) == q \in Seq(PacketInfo) /\ \A k \in 1 .. Len(q) : Authentic(q[k])

\* A queue stays good when a good packet joins it, ...
LEMMA GoodAppend ==
  ASSUME NEW q, GoodQueue(q), NEW p \in PacketInfo, Authentic(p)
  PROVE  GoodQueue(Append(q, p))
<1>1. q \in Seq(PacketInfo)
  BY DEF GoodQueue
<1>2. /\ Append(q, p) \in Seq(PacketInfo)
      /\ Len(Append(q, p)) = Len(q) + 1
      /\ \A k \in 1 .. Len(q) : Append(q, p)[k] = q[k]
      /\ Append(q, p)[Len(q) + 1] = p
  BY <1>1, AppendProperties
<1>3. ASSUME NEW k \in 1 .. Len(Append(q, p)) PROVE Authentic(Append(q, p)[k])
  <2>1. k \in 1 .. Len(q) \/ k = Len(q) + 1
    BY <1>1, <1>2
  <2> QED
    BY <1>2, <2>1 DEF GoodQueue
<1> QED
  BY <1>2, <1>3 DEF GoodQueue

\* ... when its first packet is taken, which is good, ...
LEMMA GoodTake ==
  ASSUME NEW q, GoodQueue(q), q # <<>>
  PROVE  Head(q) \in PacketInfo /\ Authentic(Head(q)) /\ GoodQueue(Tail(q))
<1>1. q \in Seq(PacketInfo)
  BY DEF GoodQueue
<1>2. /\ Head(q) \in PacketInfo
      /\ Tail(q) \in Seq(PacketInfo)
      /\ Len(Tail(q)) = Len(q) - 1
      /\ \A k \in 1 .. Len(Tail(q)) : Tail(q)[k] = q[k + 1]
  BY <1>1, HeadTailProperties
<1>3. Len(q) \in Nat \ {0} /\ Head(q) = q[1]
  BY <1>1
<1>4. \A k \in 1 .. Len(Tail(q)) : k + 1 \in 1 .. Len(q)
  BY <1>2, <1>3
<1> QED
  BY <1>2, <1>3, <1>4 DEF GoodQueue

\* ... and when a receive buffer that some of its packets point to is rewritten.
LEMMA GoodOverwritten ==
  ASSUME NEW q, GoodQueue(q), NEW i
  PROVE  GoodQueue(Overwritten(q, i))
<1>1. q \in Seq(PacketInfo)
  BY DEF GoodQueue
<1>2. /\ Overwritten(q, i) \in Seq(PacketInfo)
      /\ Len(Overwritten(q, i)) = Len(q)
      /\ \A k \in 1 .. Len(q) :
           q[k].packet_id \notin RequestIds => Overwritten(q, i)[k] = q[k]
  BY <1>1, OverwrittenType
<1>3. ASSUME NEW k \in 1 .. Len(q) PROVE Authentic(Overwritten(q, i)[k])
  <2>1. CASE q[k].packet_id \in RequestIds
    <3>1. q[k] \in PacketInfo /\ k \in DOMAIN q
      BY <1>1
    <3>2. Overwritten(q, i)[k].packet_id = q[k].packet_id
      BY <3>1 DEF Overwritten, PacketInfo
    <3> QED
      BY <2>1, <3>2 DEF Authentic, RequestIds
  <2>2. CASE q[k].packet_id \notin RequestIds
    BY <1>2, <2>2 DEF GoodQueue
  <2> QED
    BY <2>1, <2>2
<1> QED
  BY <1>2, <1>3 DEF GoodQueue

\* A reading of an authentic packet is authentic: an answer is intact.
LEMMA AuthenticReadings ==
  ASSUME NEW p \in PacketInfo, Authentic(p), NEW r \in Readings(p)
  PROVE  r \in PacketInfo /\ Authentic(r)
BY ReadingsType DEF Authentic

\* CloseSession keeps the sessions' types and queues a good packet.
LEMMA CloseSessionStep ==
  ASSUME SessionTableTypeOK, GoodQueue(packet_queue), NEW i \in Sessions, CloseSession(i)
  PROVE  SessionTableTypeOK' /\ GoodQueue(packet_queue')
<1>1. EmptyPacket(i, "SYS_CLOSE", NoConn) \in PacketInfo
  BY EmptyPacketType DEF PacketIds
<1>2. Authentic(EmptyPacket(i, "SYS_CLOSE", NoConn))
  BY DEF Authentic, EmptyPacket
<1>3. GoodQueue(packet_queue')
  BY <1>1, <1>2, GoodAppend, GoodOverwritten DEF CloseSession
<1>4. sessions[i] \in Session
  BY DEF SessionTableTypeOK
<1>5. sessions' \in [Sessions -> Session]
  BY <1>4 DEF CloseSession, ReleaseSession, SessionTableTypeOK, Session
<1>6. read_fds' \in SUBSET Fds /\ sockets' \in [Fds -> Conns \cup {NoConn}]
  BY DEF CloseSession, ReleaseSession, SessionTableTypeOK
<1>7. available_session_index' \in Seq(Sessions)
  BY DEF CloseSession, ReleaseSession, SessionTableTypeOK
<1> QED
  BY <1>3, <1>5, <1>6, <1>7 DEF SessionTableTypeOK

\* A send takes one message out of those pending.
LEMMA NextSendStep ==
  ASSUME PacketManagerTypeOK, NEW m, NextSend(m)
  PROVE  sending' \in Seq(SUBSET Message) /\ UNCHANGED <<userRoomVars, redisVars, pc>>
<1>1. sending \in Seq(SUBSET Message) /\ sending # <<>>
  BY DEF NextSend, PendingSends, PacketManagerTypeOK
<1>2. Tail(sending) \in Seq(SUBSET Message)
  BY <1>1, HeadTailProperties
<1>3. [sending EXCEPT ![1] = @ \ {m}] \in Seq(SUBSET Message)
  <2>1. sending[1] \ {m} \in SUBSET Message
    BY <1>1
  <2>2. \A e \in SUBSET Message : [sending EXCEPT ![1] = e] \in Seq(SUBSET Message)
    BY <1>1
  <2> QED
    BY <2>1, <2>2
<1>4. sending' = Tail(sending) \/ sending' = [sending EXCEPT ![1] = @ \ {m}]
  BY DEF NextSend
<1> QED
  BY <1>2, <1>3, <1>4 DEF NextSend

\* A new connection, a request, a response and a leave keep the clients' types.
LEMMA ClientTypes ==
  ASSUME NEW cl \in Client
  PROVE  /\ [cl EXCEPT !.phase = "open"] \in Client
         /\ [cl EXCEPT !.phase = "gone"] \in Client
         /\ \A p \in PacketInfo : AfterSending(cl, p) \in Client
         /\ \A m \in Message : AfterReceiving(cl, m) \in Client
<1>1. [cl EXCEPT !.phase = "open"] \in Client /\ [cl EXCEPT !.phase = "gone"] \in Client
  BY DEF Client
<1>2. ASSUME NEW p \in PacketInfo PROVE AfterSending(cl, p) \in Client
  <2>1. \A id \in UserIds \cup {NoUserId} :
          [cl EXCEPT !.waiting = TRUE, !.requests = @ + 1, !.user_id = id] \in Client
    <3>1. cl.requests + 1 \in Nat
      BY DEF Client
    <3>2. \A id \in UserIds \cup {NoUserId}, n \in Nat, w \in BOOLEAN :
            [cl EXCEPT !.waiting = w, !.requests = n, !.user_id = id] \in Client
      BY DEF Client
    <3> QED
      BY <3>1, <3>2
  <2>2. p.user_id \in UserIds \cup {NoUserId} /\ cl.user_id \in UserIds \cup {NoUserId}
    BY DEF Client, PacketInfo
  <2> QED
    BY <2>1, <2>2 DEF AfterSending
<1>3. ASSUME NEW m \in Message PROVE AfterReceiving(cl, m) \in Client
  BY DEF AfterReceiving, Client
<1> QED
  BY <1>1, <1>2, <1>3

-----------------------------------------------------------------------------
(***************************************************************************)
(* The inductive invariant, regrouped for the proof: the user table and    *)
(* the rooms, the good queues, and the types of the rest.                  *)
(***************************************************************************)
OtherTypes ==
  /\ req_packet_queue \in Seq(PacketInfo)
  /\ pc \in {"poll", "take"}
  /\ sending \in Seq(SUBSET Message)
  /\ SessionTableTypeOK
  /\ ClientsTypeOK
  /\ process \in ProcessStates

\* ServerInv, as the step lemmas have it.
LEMMA ServerInvParts ==
  ServerInv <=> /\ UserRoomInv
                /\ GoodQueue(packet_queue) /\ GoodQueue(res_packet_queue)
                /\ OtherTypes
BY DEF ServerInv, UserRoomInv, GoodQueue, OtherTypes, TypeOK, RedisTypeOK,
       PacketManagerTypeOK, AnswersAuthentic

\* The server starts empty: nobody is in the table, in a room or in a queue.
LEMMA InitInv == Init => ServerInv
<1> SUFFICES ASSUME Init PROVE ServerInv
  OBVIOUS
<1>1. ClearedUser \in User
  BY DEF ClearedUser, User
<1>2. UserRoomsTypeOK /\ UserTableConsistent /\ UserStateMatchesRoom /\ LoginIsAuthentic
  BY <1>1 DEF Init, UserRoomsInit, UserRoomsTypeOK, UserTableConsistent, HasUser,
              UserStateMatchesRoom, LoginIsAuthentic, ClearedUser, NoIndex, Sessions
<1>3. ListsFinite /\ RoomCapacity
  BY FS_EmptySet, SizesAssumption DEF Init, UserRoomsInit, ListsFinite, RoomCapacity
<1>4. GoodQueue(packet_queue) /\ GoodQueue(res_packet_queue)
  BY DEF Init, PacketManagerInit, RedisInit, GoodQueue
<1>5. SessionTableTypeOK
  <2>1. available_session_index \in [1 .. MAX_CONNECTED_SESSIONS -> Sessions]
    BY SizesAssumption DEF Init, SessionTableInit, Sessions
  <2>2. available_session_index \in Seq(Sessions)
    BY <2>1, SizesAssumption, SeqDef
  <2> QED
    BY <2>2 DEF Init, SessionTableInit, SessionTableTypeOK, Session
<1>6. ClientsTypeOK
  BY DEF Init, ClientsInit, ClientsTypeOK, Client, NewClient
<1>7. OtherTypes
  BY <1>5, <1>6 DEF Init, RedisInit, PacketManagerInit, OtherTypes, ProcessStates
<1> QED
  BY <1>2, <1>3, <1>4, <1>7, ServerInvParts DEF UserRoomInv

\* Every step keeps the queues good and the types, and does to the user table and
\* the rooms one of the steps of UserRoomStep.
LEMMA NextStep ==
  ASSUME ServerInv, [Next]_vars
  PROVE  /\ UserRoomStep
         /\ GoodQueue(packet_queue') /\ GoodQueue(res_packet_queue')
         /\ OtherTypes'
<1>1. /\ TypeOK /\ UserRoomInv
      /\ GoodQueue(packet_queue) /\ GoodQueue(res_packet_queue)
      /\ OtherTypes
  BY ServerInvParts DEF ServerInv
<1>2. CASE CreateSession
  <2>1. PICK i \in Sessions, c \in Conns :
          /\ AcceptSession(i, c)
          /\ client' = [client EXCEPT ![c].phase = "open"]
          /\ packet_queue' = Append(packet_queue, EmptyPacket(i, "SYS_ACCEPT", NoConn))
    BY <1>2 DEF CreateSession
  <2>2. GoodQueue(packet_queue')
    <3>1. EmptyPacket(i, "SYS_ACCEPT", NoConn) \in PacketInfo
      BY EmptyPacketType DEF PacketIds
    <3>2. Authentic(EmptyPacket(i, "SYS_ACCEPT", NoConn))
      BY DEF Authentic, EmptyPacket
    <3> QED
      BY <1>1, <2>1, <3>1, <3>2, GoodAppend
  <2>3. SessionTableTypeOK'
    <3>1. PICK fd \in Fds :
            /\ sessions' = [sessions EXCEPT ![i] = [connected |-> TRUE, sockfd |-> fd]]
            /\ read_fds' = read_fds \cup {fd}
            /\ sockets' = [sockets EXCEPT ![fd] = c]
      BY <2>1 DEF AcceptSession, FreeFds
    <3>2. available_session_index' \in Seq(Sessions)
      BY <1>1, <2>1, HeadTailProperties DEF AcceptSession, OtherTypes, SessionTableTypeOK
    <3> QED
      BY <1>1, <3>1, <3>2 DEF OtherTypes, SessionTableTypeOK, Session
  <2>4. ClientsTypeOK'
    <3>1. client[c] \in Client
      BY <1>1 DEF OtherTypes, ClientsTypeOK
    <3> QED
      BY <1>1, <2>1, <3>1, ClientTypes DEF OtherTypes, ClientsTypeOK
  <2> QED
    BY <1>1, <1>2, <2>2, <2>3, <2>4
       DEF CreateSession, OtherTypes, UserRoomStep, redisVars
<1>3. CASE ReceiveRequest
  <2>1. PICK i \in Sessions, coalesced \in BOOLEAN :
          /\ Readable(i)
          /\ \E p \in Requests(i, ConnOf(i)) :
               /\ client' = [client EXCEPT ![ConnOf(i)] = AfterSending(@, p)]
               /\ packet_queue' = Append(IF coalesced THEN packet_queue
                                         ELSE Overwritten(packet_queue, i), p)
    BY <1>3 DEF ReceiveRequest
  <2>2. ConnOf(i) \in Conns
    BY <1>1, <2>1 DEF Readable, ConnOf, OtherTypes, SessionTableTypeOK
  <2>3. PICK p \in Requests(i, ConnOf(i)) :
          /\ client' = [client EXCEPT ![ConnOf(i)] = AfterSending(@, p)]
          /\ packet_queue' = Append(IF coalesced THEN packet_queue
                                    ELSE Overwritten(packet_queue, i), p)
    BY <2>1
  <2>4. p \in PacketInfo /\ Authentic(p)
    BY <2>2, RequestsType DEF Authentic, RequestIds, OtherIds
  <2>5. GoodQueue(packet_queue')
    <3>1. GoodQueue(Overwritten(packet_queue, i))
      BY <1>1, GoodOverwritten
    <3>2. packet_queue' = Append(packet_queue, p)
            \/ packet_queue' = Append(Overwritten(packet_queue, i), p)
      BY <2>3
    <3> QED
      BY <1>1, <2>4, <3>1, <3>2, GoodAppend
  <2>6. ClientsTypeOK'
    <3>1. client[ConnOf(i)] \in Client
      BY <1>1, <2>2 DEF OtherTypes, ClientsTypeOK
    <3> QED
      BY <1>1, <2>2, <2>3, <2>4, <3>1, ClientTypes DEF OtherTypes, ClientsTypeOK
  <2>7. SessionTableTypeOK'
    BY <1>1, <1>3 DEF ReceiveRequest, sessionVars, OtherTypes, SessionTableTypeOK
  <2> QED
    BY <1>1, <1>3, <2>5, <2>6, <2>7 DEF ReceiveRequest, OtherTypes, UserRoomStep, redisVars
<1>4. CASE ReceiveClose
  <2>1. PICK i \in Sessions : CloseSession(i)
    BY <1>4 DEF ReceiveClose
  <2>2. SessionTableTypeOK' /\ GoodQueue(packet_queue')
    BY <1>1, <2>1, CloseSessionStep DEF OtherTypes
  <2> QED
    BY <1>1, <1>4, <2>2
       DEF ReceiveClose, OtherTypes, ClientsTypeOK, UserRoomStep, redisVars
<1>5. CASE PollRedis /\ UNCHANGED <<sessionVars, client>>
  <2>1. GoodQueue(packet_queue') /\ GoodQueue(res_packet_queue')
    BY <1>1, <1>5, GoodAppend, GoodTake DEF PollRedis
  <2> QED
    BY <1>1, <1>5, <2>1
       DEF PollRedis, sessionVars, OtherTypes, SessionTableTypeOK, ClientsTypeOK, UserRoomStep
<1>6. CASE TakePacket /\ UNCHANGED <<sessionVars, client>>
  <2>1. SessionTableTypeOK' /\ ClientsTypeOK'
    BY <1>1, <1>6 DEF sessionVars, OtherTypes, SessionTableTypeOK, ClientsTypeOK
  <2>2. GoodQueue(res_packet_queue') /\ pc' \in {"poll", "take"}
    BY <1>1, <1>6 DEF TakePacket
  <2>3. CASE packet_queue = <<>>
    BY <1>1, <1>6, <2>1, <2>2, <2>3 DEF TakePacket, OtherTypes, UserRoomStep
  <2>4. CASE packet_queue # <<>>
    <3> DEFINE h == Head(packet_queue)
    <3>1. PICK p \in Readings(h), again \in NextReadings(h) : HandlePacket(p, again)
      BY <1>6, <2>4 DEF TakePacket
    <3>2. /\ p \in PacketInfo /\ Authentic(p) /\ GoodQueue(Tail(packet_queue))
          /\ again \in PacketInfo /\ again.session_index = p.session_index
      <4>1. h \in PacketInfo /\ Authentic(h) /\ GoodQueue(Tail(packet_queue))
        BY <1>1, <2>4, GoodTake
      <4> HIDE DEF h
      <4> QED
        BY <3>1, <4>1, AuthenticReadings, ReadingsType, NextReadingsType
    <3>3. UserRoomStep /\ HandlerTypes
      BY <1>1, <3>1, <3>2, HandlePacketStep
    <3>4. packet_queue' = Tail(packet_queue)
      BY <1>6, <2>4 DEF TakePacket
    <3> QED
      BY <2>1, <2>2, <3>2, <3>3, <3>4 DEF OtherTypes, HandlerTypes
  <2> QED
    BY <2>3, <2>4
<1>7. CASE SendSucceeds
  <2>1. PICK sent \in Sessions, m \in PendingSends :
          /\ ConnOf(sent) # NoConn
          /\ NextSend(m)
          /\ client' = IF client[ConnOf(sent)].phase = "open"
                       THEN [client EXCEPT ![ConnOf(sent)] = AfterReceiving(@, m)]
                       ELSE client
    BY <1>7 DEF SendSucceeds
  <2>2. sending' \in Seq(SUBSET Message) /\ UNCHANGED <<userRoomVars, redisVars, pc>>
    BY <1>1, <2>1, NextSendStep DEF TypeOK
  <2>3. m \in Message
    BY <1>1, <2>1 DEF PendingSends, OtherTypes
  <2>4. ClientsTypeOK'
    <3>1. ConnOf(sent) \in Conns
      BY <1>1, <2>1 DEF ConnOf, OtherTypes, SessionTableTypeOK
    <3>2. client[ConnOf(sent)] \in Client
      BY <1>1, <3>1 DEF OtherTypes, ClientsTypeOK
    <3>3. AfterReceiving(client[ConnOf(sent)], m) \in Client
      BY <2>3, <3>2, ClientTypes
    <3> QED
      BY <1>1, <2>1, <3>1, <3>3 DEF OtherTypes, ClientsTypeOK
  <2>5. UNCHANGED <<packet_queue, sessionVars, process>>
    BY <1>7 DEF SendSucceeds
  <2> QED
    BY <1>1, <2>2, <2>4, <2>5
       DEF OtherTypes, UserRoomStep, redisVars, sessionVars, SessionTableTypeOK
<1>8. CASE SendFails
  <2>1. PICK sent \in Sessions, m \in PendingSends : NextSend(m) /\ CloseSession(sent)
    BY <1>8 DEF SendFails
  <2>2. sending' \in Seq(SUBSET Message) /\ UNCHANGED <<userRoomVars, redisVars, pc>>
    BY <1>1, <2>1, NextSendStep DEF TypeOK
  <2>3. SessionTableTypeOK' /\ GoodQueue(packet_queue')
    BY <1>1, <2>1, CloseSessionStep DEF OtherTypes
  <2>4. UNCHANGED <<client, process>>
    BY <1>8 DEF SendFails
  <2> QED
    BY <1>1, <2>2, <2>3, <2>4 DEF OtherTypes, UserRoomStep, redisVars, ClientsTypeOK
<1>9. CASE SendKills
  <2>1. PICK m \in PendingSends : NextSend(m)
    BY <1>9 DEF SendKills
  <2>2. sending' \in Seq(SUBSET Message) /\ UNCHANGED <<userRoomVars, redisVars, pc>>
    BY <1>1, <2>1, NextSendStep DEF TypeOK
  <2>3. process' \in ProcessStates /\ UNCHANGED <<packet_queue, sessionVars, client>>
    BY <1>9 DEF SendKills, ProcessStates
  <2> QED
    BY <1>1, <2>2, <2>3
       DEF OtherTypes, UserRoomStep, redisVars, sessionVars, SessionTableTypeOK, ClientsTypeOK
<1>10. CASE RedisThread
  <2>1. UNCHANGED <<userRoomVars, packetVars, sessionVars, client>>
    BY <1>10 DEF RedisThread
  <2>2. CASE ProcessRedisPacket
    <3>1. req_packet_queue \in Seq(PacketInfo) /\ req_packet_queue # <<>>
      BY <1>1, <2>2 DEF ProcessRedisPacket, OtherTypes
    <3>2. Head(req_packet_queue) \in PacketInfo /\ Tail(req_packet_queue) \in Seq(PacketInfo)
      BY <3>1, HeadTailProperties
    <3>3. /\ LoginResponse(Head(req_packet_queue)) \in PacketInfo
          /\ Authentic(LoginResponse(Head(req_packet_queue)))
      BY <3>2, LoginResponseType DEF Authentic
    <3>4. GoodQueue(res_packet_queue') /\ req_packet_queue' \in Seq(PacketInfo)
      BY <1>1, <2>2, <3>2, <3>3, GoodAppend DEF ProcessRedisPacket
    <3>5. UNCHANGED process
      BY <2>2 DEF ProcessRedisPacket
    <3> QED
      BY <1>1, <2>1, <3>4, <3>5
         DEF packetVars, sessionVars, OtherTypes, SessionTableTypeOK, ClientsTypeOK, UserRoomStep
  <2>3. CASE LoseRedis
    BY <1>1, <2>1, <2>3
       DEF LoseRedis, redisVars, packetVars, sessionVars, OtherTypes, SessionTableTypeOK,
           ClientsTypeOK, UserRoomStep, ProcessStates
  <2> QED
    BY <1>10, <2>2, <2>3 DEF RedisThread
<1>11. CASE ClientLeaves
  <2>1. PICK c \in Conns : client' = [client EXCEPT ![c].phase = "gone"]
    BY <1>11 DEF ClientLeaves, Disconnect
  <2>2. client[c] \in Client
    BY <1>1 DEF OtherTypes, ClientsTypeOK
  <2>3. ClientsTypeOK'
    BY <1>1, <2>1, <2>2, ClientTypes DEF OtherTypes, ClientsTypeOK
  <2> QED
    BY <1>1, <1>11, <2>3
       DEF ClientLeaves, redisVars, packetVars, sessionVars, OtherTypes, SessionTableTypeOK,
           UserRoomStep
<1>12. CASE UNCHANGED vars
  BY <1>1, <1>12
     DEF vars, redisVars, packetVars, sessionVars, OtherTypes, SessionTableTypeOK,
         ClientsTypeOK, UserRoomStep
<1> QED
  BY <1>2, <1>3, <1>4, <1>5, <1>6, <1>7, <1>8, <1>9, <1>10, <1>11, <1>12
     DEF Next, NetworkThread, PacketThread

\* So ServerInv is inductive.
LEMMA NextInv == ServerInv /\ [Next]_vars => ServerInv'
<1> SUFFICES ASSUME ServerInv, [Next]_vars PROVE ServerInv'
  OBVIOUS
<1>1. UserRoomInv
  BY ServerInvParts
<1>2. UserRoomStep /\ GoodQueue(packet_queue') /\ GoodQueue(res_packet_queue') /\ OtherTypes'
  BY NextStep
<1>3. UserRoomInv'
  BY <1>1, <1>2, UserRoomStepInv
<1>4. (ServerInv <=> /\ UserRoomInv
                     /\ GoodQueue(packet_queue) /\ GoodQueue(res_packet_queue)
                     /\ OtherTypes)'
  BY ServerInvParts, PTL
<1>5. GoodQueue(packet_queue)' /\ GoodQueue(res_packet_queue)'
  BY <1>2 DEF GoodQueue
<1> QED
  BY <1>2, <1>3, <1>4, <1>5

-----------------------------------------------------------------------------
\* The invariant of the server, whatever its clients do.
THEOREM ServerInvariant == Spec => []ServerInv
BY InitInv, NextInv, PTL DEF Spec

\* Every variable keeps its type: no handler stores an index that is none.
THEOREM TypeCorrectness == Spec => []TypeOK
<1>1. ServerInv => TypeOK
  BY DEF ServerInv
<1> QED
  BY <1>1, ServerInvariant, PTL

\* The map holds exactly the users that are not cleared, under their own indices.
THEOREM UserTableIsConsistent == Spec => []UserTableConsistent
<1>1. ServerInv => UserTableConsistent
  BY DEF ServerInv
<1> QED
  BY <1>1, ServerInvariant, PTL

\* No room is ever listed beyond its capacity.
THEOREM RoomsKeepCapacity == Spec => []RoomCapacity
<1>1. ServerInv => RoomCapacity
  BY DEF ServerInv
<1> QED
  BY <1>1, ServerInvariant, PTL

\* A user in state ROOM is listed by the room it believes to be in.
THEOREM UsersAreListed == Spec => []UserStateMatchesRoom
<1>1. ServerInv => UserStateMatchesRoom
  BY DEF ServerInv
<1> QED
  BY <1>1, ServerInvariant, PTL

\* Nobody gets past the login with an id that Redis does not know.
THEOREM LoginsAreAuthentic == Spec => []LoginIsAuthentic
<1>1. ServerInv => LoginIsAuthentic
  BY DEF ServerInv
<1> QED
  BY <1>1, ServerInvariant, PTL
=============================================================================
