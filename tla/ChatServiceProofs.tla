--------------------------- MODULE ChatServiceProofs ---------------------------
(***************************************************************************)
(* The proof that the chat server implements ChatService, for every value  *)
(* of the constants and every Discipline of the clients.                   *)
(***************************************************************************)
EXTENDS ChatServerProofs

-----------------------------------------------------------------------------
(***************************************************************************)
(* A room of the service is never larger than the list of the server: each *)
(* member has an entry there, and two members have different entries.      *)
(***************************************************************************)
\* A list within the capacity names as many members at most.
LEMMA MembersFit ==
  ASSUME UserRoomInv, NEW r \in Rooms
  PROVE  /\ IsFiniteSet(Service!Members(r))
         /\ Cardinality(Service!Members(r)) <= Cardinality(rooms[r])
<1> DEFINE members == Service!Members(r)
           entry == [i \in members |-> CHOOSE node \in rooms[r] : node[1] = i]
<1>1. ASSUME NEW i \in members
      PROVE  entry[i] \in rooms[r] /\ entry[i][1] = i
  <2>1. i \in Sessions /\ roomOf[i] = r
    BY DEF Service!Members
  <2>2. users[i].state = "ROOM" /\ users[i].room_index = r
    BY <2>1 DEF roomOf, NoIndex, Rooms
  <2>3. \E node \in rooms[r] : node[1] = i
    BY <2>1, <2>2 DEF UserRoomInv, UserStateMatchesRoom, Listed, EntriesOf
  <2> QED
    BY <2>3
<1> HIDE DEF members
<1>2. entry \in Injection(members, rooms[r])
  <2>1. entry \in [members -> rooms[r]]
    BY <1>1
  <2>2. \A i, j \in members : entry[i] = entry[j] => i = j
    BY <1>1
  <2> HIDE DEF entry
  <2> QED
    BY <2>1, <2>2 DEF Injection, IsInjective
<1>3. IsFiniteSet(rooms[r])
  BY DEF UserRoomInv, ListsFinite
<1> QED
  BY <1>2, <1>3, FS_Injection DEF members

-----------------------------------------------------------------------------
\* The instance of ChatService has a Cardinality of its own, with the same body.
LEMMA ServiceCardinality ==
  ASSUME NEW S
  PROVE  Service!Cardinality(S) = Cardinality(S)
BY DEF Service!Cardinality, Cardinality

\* The server starts as the service does.
LEMMA ServiceInit == Init => Service!Init
BY DEF Init, UserRoomsInit, ClearedUser, Service!Init, phaseOf, roomOf, nameOf

\* What the service sees of a session changes as the fields of its user do.
LEMMA UserBecomes ==
  ASSUME UserRoomsTypeOK, NEW i \in Sessions, NEW user,
         users' = [users EXCEPT ![i] = user],
         NEW r, r = IF user.state = "ROOM" THEN user.room_index ELSE NoIndex,
         NEW id, id = IF user.state \in {"LOGIN", "ROOM"} THEN user.user_id ELSE NoUserId
  PROVE  Service!Become(i, user.state, r, id)
BY DEF UserRoomsTypeOK, Service!Become, phaseOf, roomOf, nameOf

\* Each operation on the user table and the rooms is an operation of the service.
LEMMA ServiceStep ==
  ASSUME UserRoomInv, UserRoomStep
  PROVE  [Service!Next]_(Service!serviceVars)
<1>1. CASE UNCHANGED userRoomVars
  BY <1>1 DEF userRoomVars, Service!serviceVars, phaseOf, roomOf, nameOf
<1>2. ASSUME NEW i \in Sessions, UserStep(i)
      PROVE  Service!Next
  <2>1. UserRoomsTypeOK /\ users[i] \in User
    BY DEF UserRoomInv, UserRoomsTypeOK
  <2>2. HasUser(i) => users[i].state # "NONE"
    BY DEF UserRoomInv, UserTableConsistent
  <2>3. CASE AddUser(i)
    <3> DEFINE user == [users[i] EXCEPT !.index = i, !.state = "CONNECT"]
    <3>1. user.state = "CONNECT" /\ users' = [users EXCEPT ![i] = user]
      BY <2>1, <2>3 DEF AddUser, User, UserRoomsTypeOK
    <3> HIDE DEF user
    <3>2. Service!Become(i, "CONNECT", NoIndex, NoUserId)
      BY <2>1, <3>1, UserBecomes
    <3>3. Service!Connect(i)
      BY <3>2 DEF Service!Connect
    <3> QED
      BY <3>3 DEF Service!Next
  <2>4. CASE RemoveUser(i)
    <3>1. ClearedUser.state = "NONE" /\ users' = [users EXCEPT ![i] = ClearedUser]
      BY <2>4 DEF RemoveUser, ClearedUser
    <3>2. Service!Become(i, "NONE", NoIndex, NoUserId)
      BY <2>1, <3>1, UserBecomes
    <3>3. Service!Disconnect(i)
      BY <3>2 DEF Service!Disconnect
    <3> QED
      BY <3>3 DEF Service!Next
  <2>5. ASSUME HasUser(i), NEW id \in Registered, LoginUser(i, id)
        PROVE  Service!Next
    <3>1. phaseOf[i] # "NONE"
      BY <2>2, <2>5 DEF phaseOf
    <3> DEFINE user == [users[i] EXCEPT !.state = "LOGIN", !.user_id = id]
    <3>2. /\ user.state = "LOGIN" /\ user.user_id = id
          /\ users' = [users EXCEPT ![i] = user]
      BY <2>1, <2>5 DEF LoginUser, User, UserRoomsTypeOK
    <3> HIDE DEF user
    <3>3. Service!Become(i, "LOGIN", NoIndex, id)
      BY <2>1, <3>2, UserBecomes
    <3> QED
      BY <3>1, <3>3 DEF Service!Next, Service!Login
  <2>6. ASSUME users[i].state = "LOGIN", NEW r \in Rooms, ~IsFull(r), EnterRoom(i, r)
        PROVE  Service!Next
    <3>1. phaseOf[i] = "LOGIN" /\ nameOf[i] = users[i].user_id
      BY <2>6 DEF phaseOf, nameOf
    <3>2. Cardinality(Service!Members(r)) < MAX_USERS_IN_ROOM
      <4>1. /\ Cardinality(rooms[r]) \in Nat /\ Cardinality(Service!Members(r)) \in Nat
            /\ Cardinality(Service!Members(r)) <= Cardinality(rooms[r])
        BY MembersFit, FS_CardinalityType DEF UserRoomInv, ListsFinite
      <4> QED
        BY <2>6, <4>1, SizesAssumption DEF IsFull
    <3> DEFINE user == [users[i] EXCEPT !.state = "ROOM", !.room_index = r]
    <3>3. /\ user.state = "ROOM" /\ user.room_index = r /\ user.user_id = users[i].user_id
          /\ users' = [users EXCEPT ![i] = user]
      BY <2>1, <2>6 DEF EnterRoom, User, UserRoomsTypeOK
    <3> HIDE DEF user
    <3>4. Service!Become(i, "ROOM", r, users[i].user_id)
      BY <2>1, <3>3, UserBecomes
    <3>5. Service!Enter(i, r)
      BY <3>1, <3>2, <3>4, ServiceCardinality DEF Service!Enter
    <3> QED
      BY <3>5 DEF Service!Next
  <2>7. CASE users[i].state = "ROOM" /\ LeaveRoom(i)
    <3>1. phaseOf[i] = "ROOM" /\ nameOf[i] = users[i].user_id
      BY <2>7 DEF phaseOf, nameOf
    <3> DEFINE user == [users[i] EXCEPT !.state = "LOGIN", !.room_index = NoIndex]
    <3>2. /\ user.state = "LOGIN" /\ user.user_id = users[i].user_id
          /\ users' = [users EXCEPT ![i] = user]
      BY <2>1, <2>7 DEF LeaveRoom, User, UserRoomsTypeOK
    <3> HIDE DEF user
    <3>3. Service!Become(i, "LOGIN", NoIndex, users[i].user_id)
      BY <2>1, <3>2, UserBecomes
    <3>4. Service!Leave(i)
      BY <3>1, <3>3 DEF Service!Leave
    <3> QED
      BY <3>4 DEF Service!Next
  <2> QED
    BY <1>2, <2>3, <2>4, <2>5, <2>6, <2>7 DEF UserStep
<1> QED
  BY <1>1, <1>2 DEF UserRoomStep

\* The server implements the service: what its handlers do to users and rooms, whatever
\* clients send and in whatever order packets and answers come, are connects, logins
\* by known ids, entries of rooms with space, leaves and disconnects.
THEOREM ServerImplementsService == Spec => ImplementsService
<1>1. ServerInv /\ [Next]_vars => [Service!Next]_(Service!serviceVars)
  <2> SUFFICES ASSUME ServerInv, [Next]_vars
               PROVE  [Service!Next]_(Service!serviceVars)
    OBVIOUS
  <2>1. UserRoomInv
    BY ServerInvParts
  <2>2. UserRoomStep
    BY NextStep
  <2> QED
    BY <2>1, <2>2, ServiceStep
<1> QED
  BY <1>1, ServiceInit, ServerInvariant, PTL DEF Spec, ImplementsService, Service!Spec

=============================================================================
