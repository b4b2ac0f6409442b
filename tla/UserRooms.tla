------------------------------ MODULE UserRooms ------------------------------
(***************************************************************************)
(* UserManager, RoomManager, User and Room: the server's own state. Only   *)
(* the packet thread touches it, so each method is one atomic operation.   *)
(*                                                                         *)
(* A Room keeps a std::list<User*>. The list is the set of its nodes: a    *)
(* node is <<i, n>>, the n-th entry of the list that points to users_[i].  *)
(* The same user may be entered twice, and list::remove drops all of its   *)
(* entries at once. The order of the list only fixes in which order        *)
(* members are notified; see NotifyUsers in PacketManager.                 *)
(***************************************************************************)
EXTENDS ChatBase

VARIABLES
  users,           \* UserManager::users_
  index_user_map,  \* domain of UserManager::index_user_map_ (i -> &users_[i])
  rooms            \* RoomManager::rooms_, the users_ list of each room

userRoomVars == <<users, index_user_map, rooms>>

User ==
  [state : {"NONE", "CONNECT", "LOGIN", "ROOM"}, index : Sessions \cup {NoIndex},
   room_index : Rooms \cup {NoIndex}, user_id : UserIds \cup {NoUserId}]

ClearedUser ==
  [state |-> "NONE", index |-> NoIndex, room_index |-> NoIndex, user_id |-> NoUserId]

Node == Sessions \X (Nat \ {0})

UserRoomsTypeOK ==
  /\ users \in [Sessions -> User]
  /\ index_user_map \in SUBSET Sessions
  /\ rooms \in [Rooms -> SUBSET Node]

UserRoomsInit ==
  /\ users = [i \in Sessions |-> ClearedUser]
  /\ index_user_map = {}
  /\ rooms = [r \in Rooms |-> {}]

-----------------------------------------------------------------------------
\* Room.

\* A mutant, a plausible bug that the runs catch; here and below, none is used by
\* the model.
IsFull_OffByOne(r) == Cardinality(rooms[r]) > MAX_USERS_IN_ROOM

EntriesOf(list, i) == {node \in list : node[1] = i}
Listed(i, r)       == EntriesOf(rooms[r], i) # {}
IsFull(r)          == Cardinality(rooms[r]) >= MAX_USERS_IN_ROOM
IsEmpty(r)         == rooms[r] = {}
PushBack(list, i)  == list \cup {<<i, Cardinality(EntriesOf(list, i)) + 1>>}
RemoveAll(list, i) == list \ EntriesOf(list, i)

-----------------------------------------------------------------------------
\* UserManager.

HasUser(i) == i \in index_user_map

\* Mutants of the operations below: a test that sees only users in a room, a
\* forgotten assignment or list operation, an index counted from 1.
IsDuplicatedUserID_MembersOnly(id) ==
  \E i \in index_user_map : users[i].state = "ROOM" /\ users[i].user_id = id

AddUser_Unmapped(i) ==
  /\ users' = [users EXCEPT ![i].index = i, ![i].state = "CONNECT"]
  /\ UNCHANGED <<index_user_map, rooms>>

LoginUser_NoId(i, id) ==
  /\ users' = [users EXCEPT ![i].state = "LOGIN"]
  /\ UNCHANGED <<index_user_map, rooms>>

RemoveUser_NotCleared(i) ==
  /\ index_user_map' = index_user_map \ {i}
  /\ UNCHANGED <<users, rooms>>

EnterRoom_CountsFromOne(i, r) ==
  /\ rooms' = [rooms EXCEPT ![r] = PushBack(@, i)]
  /\ users' = [users EXCEPT ![i].state = "ROOM", ![i].room_index = r + 1]
  /\ UNCHANGED index_user_map

LeaveRoom_StaysListed(i) ==
  /\ users' = [users EXCEPT ![i].state = "LOGIN", ![i].room_index = NoIndex]
  /\ UNCHANGED <<index_user_map, rooms>>

LeaveRoom_KeepsState(i) ==
  /\ rooms' = [rooms EXCEPT ![users[i].room_index] = RemoveAll(@, i)]
  /\ UNCHANGED <<users, index_user_map>>

\* Every entry of the map is compared, also users that never logged in.
IsDuplicatedUserID(id) == \E i \in index_user_map : users[i].user_id = id

AddUser(i) ==
  /\ users' = [users EXCEPT ![i].index = i, ![i].state = "CONNECT"]
  /\ index_user_map' = index_user_map \cup {i}
  /\ UNCHANGED rooms

\* FuncLoginRes: SetState(LOGIN) and SetUserID, whatever the state was.
LoginUser(i, id) ==
  /\ users' = [users EXCEPT ![i].state = "LOGIN", ![i].user_id = id]
  /\ UNCHANGED <<index_user_map, rooms>>

\* FuncClose: a user in a room leaves it first, then RemoveUser clears it.
RemoveUser(i) ==
  /\ rooms' = IF users[i].state = "ROOM"
              THEN [rooms EXCEPT ![users[i].room_index] = RemoveAll(@, i)]
              ELSE rooms
  /\ users' = [users EXCEPT ![i] = ClearedUser]
  /\ index_user_map' = IF users[i].state = "NONE" THEN index_user_map
                       ELSE index_user_map \ {i}

-----------------------------------------------------------------------------
\* RoomManager.

EnterRoom(i, r) ==
  /\ rooms' = [rooms EXCEPT ![r] = PushBack(@, i)]
  /\ users' = [users EXCEPT ![i].state = "ROOM", ![i].room_index = r]
  /\ UNCHANGED index_user_map

LeaveRoom(i) ==
  /\ rooms' = [rooms EXCEPT ![users[i].room_index] = RemoveAll(@, i)]
  /\ users' = [users EXCEPT ![i].state = "LOGIN", ![i].room_index = NoIndex]
  /\ UNCHANGED index_user_map
=============================================================================
