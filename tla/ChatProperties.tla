---------------------------- MODULE ChatProperties ----------------------------
(***************************************************************************)
(* What is claimed of the chat server. The first group holds for every     *)
(* Discipline of the clients; the second for clients that keep all rules;  *)
(* the third is what a comment of the source says; it does not hold.       *)
(***************************************************************************)
EXTENDS ChatServer

-----------------------------------------------------------------------------
\* Whatever the clients do.

\* A room never lists more than MAX_USERS_IN_ROOM entries: no sequence of
\* logins, entries and disconnects gets past the IsFull test of FuncEnterRoom.
RoomCapacity ==
  \A r \in Rooms : Cardinality(rooms[r]) <= MAX_USERS_IN_ROOM

\* A user in state ROOM is on the list of the room its room_index names, so
\* that FuncLeaveRoom, FuncChatRoom and FuncClose find it there.
UserStateMatchesRoom ==
  \A i \in Sessions :
    users[i].state = "ROOM" =>
      users[i].room_index \in Rooms /\ Listed(i, users[i].room_index)

\* index_user_map_ holds exactly the users that are not cleared, each under its
\* own index: the NONE branches of FuncClose and FuncLoginReq are dead code.
UserTableConsistent ==
  \A i \in Sessions :
    /\ HasUser(i) <=> users[i].state # "NONE"
    /\ HasUser(i) <=> users[i].index = i
    /\ ~HasUser(i) => users[i] = ClearedUser

\* A user past the login carries an id that is a key in Redis, also when the
\* session changed hands or the request was overwritten on the way.
LoginIsAuthentic ==
  \A i \in Sessions :
    users[i].state \in {"LOGIN", "ROOM"} => users[i].user_id \in Registered

\* What a client of the service sees of the user table: the phase of its session, its
\* room while it is in one, and its id while it is logged in.
phaseOf == [i \in Sessions |-> users[i].state]
roomOf ==
  [i \in Sessions |-> IF users[i].state = "ROOM" THEN users[i].room_index ELSE NoIndex]
nameOf ==
  [i \in Sessions |->
     IF users[i].state \in {"LOGIN", "ROOM"} THEN users[i].user_id ELSE NoUserId]

Service == INSTANCE ChatService WITH
  Capacity <- MAX_USERS_IN_ROOM, KnownIds <- Registered, NoId <- NoUserId,
  NoRoom <- NoIndex, Strict <- FALSE, phase <- phaseOf, room <- roomOf, name <- nameOf

\* The server implements the service: whatever the order of packets and answers, a
\* session is logged in by a key of Redis, enters a room only from a login and
\* while the room has space for it, and leaves it into the login it came from.
ImplementsService == Service!Spec

-----------------------------------------------------------------------------
\* Clients that keep every rule.

\* The server never leaves defined behaviour.
StaysDefined == Running

\* Lists and users agree: a user is on a list, once, iff it is in state ROOM and
\* its room_index is that room. Capacity then counts users.
ListsAreUsers ==
  \A i \in Sessions, r \in Rooms :
    /\ Listed(i, r) <=> users[i].state = "ROOM" /\ users[i].room_index = r
    /\ Cardinality(EntriesOf(rooms[r], i)) <= 1

\* No session index is handed out twice: an index is waiting to be used at most
\* once, and not while its session is connected.
SessionsUnique ==
  /\ \A k, n \in DOMAIN available_session_index :
       available_session_index[k] = available_session_index[n] => k = n
  /\ \A k \in DOMAIN available_session_index :
       ~sessions[available_session_index[k]].connected

\* A response about to be sent will reach the connection that asked for it, not
\* the one that has inherited its session or its descriptor.
ResponseReachesAsker ==
  \A m \in PendingSends :
    m.packet_id \in ResponseIds => m.to \in Sessions /\ ConnOf(m.to) = m.conn

\* A notification about to be sent will reach a client that is in a room, not one
\* that has left it or has inherited the session or the descriptor of a member.
NotificationReachesMember ==
  \A m \in PendingSends :
    m.packet_id \in NotificationIds =>
      /\ m.to \in Sessions /\ ConnOf(m.to) # NoConn
      /\ client[ConnOf(m.to)].phase = "open" /\ client[ConnOf(m.to)].in_room

StrictService == INSTANCE ChatService WITH
  Capacity <- MAX_USERS_IN_ROOM, KnownIds <- Registered, NoId <- NoUserId,
  NoRoom <- NoIndex, Strict <- TRUE, phase <- phaseOf, room <- roomOf, name <- nameOf

\* The server implements the strict service: every life of a session is a connect
\* after a disconnect, at most one login, with an id nobody else has, and no room
\* without it, also when the session changes hands with packets under way.
ImplementsStrictService == StrictService!Spec

\* A handler reads the request its client sent: no queued request has been
\* overwritten by a later one or by the closing of its session.
RequestsIntact ==
  \A k \in DOMAIN packet_queue : packet_queue[k].intact

\* The packets by which session i changes hands, oldest first.
Handovers(i) ==
  {k \in DOMAIN packet_queue :
     /\ packet_queue[k].session_index = i
     /\ packet_queue[k].packet_id \in {"SYS_ACCEPT", "SYS_CLOSE"}}

\* A connected client that waits for nothing knows its own state: logged in,
\* with its id, and in a room, iff the server has it so.
ClientAgrees ==
  \A i \in Sessions :
    LET c == ConnOf(i) IN
    /\ sessions[i].connected /\ c # NoConn /\ Handovers(i) = {}
    /\ client[c].phase = "open" /\ ~client[c].waiting
    => /\ client[c].logged <=> users[i].state \in {"LOGIN", "ROOM"}
       /\ client[c].in_room <=> users[i].state = "ROOM"
       /\ client[c].logged => users[i].user_id = client[c].user_id

PacketsOf(q, c) == {k \in DOMAIN q : q[k].conn = c}

\* Requests, questions to Redis, answers and responses under way for client c.
Outstanding(c) ==
  Cardinality(PacketsOf(packet_queue, c)) + Cardinality(PacketsOf(req_packet_queue, c))
    + Cardinality(PacketsOf(res_packet_queue, c))
    + Cardinality({k \in DOMAIN sending : \E m \in sending[k] : m.conn = c})

\* Exactly one thing is under way for a client that waits and nothing for one
\* that does not: no request is lost, answered twice or left in a queue.
OneAnswerPerRequest ==
  \A c \in Conns : Outstanding(c) = IF client[c].waiting THEN 1 ELSE 0

\* The two threads agree on who is there, once the packet thread has caught up:
\* accepts and closes of a session alternate in the queue, and the last of them,
\* or the user table if there is none, says whether the session is connected.
HandoversAlternate ==
  \A i \in Sessions :
    /\ sessions[i].connected <=>
         IF Handovers(i) = {} THEN HasUser(i)
         ELSE \E k \in Handovers(i) :
                /\ \A n \in Handovers(i) : n <= k
                /\ packet_queue[k].packet_id = "SYS_ACCEPT"
    /\ \A k \in Handovers(i) :
         packet_queue[k].packet_id = "SYS_ACCEPT" <=>
           IF \A n \in Handovers(i) : k <= n THEN ~HasUser(i)
           ELSE \E n \in Handovers(i) :
                  /\ n < k /\ \A j \in Handovers(i) : j <= n \/ k <= j
                  /\ packet_queue[n].packet_id = "SYS_CLOSE"

\* Every request of a client is answered: by a refusal, by the handler, or after
\* the round trip through both queues of the Redis thread.
RequestsAnswered ==
  \A c \in Conns : client[c].waiting ~> ~client[c].waiting

\* The user of a session that was closed is cleared in the end, also when the
\* session has been given to the next client in the meantime.
LeaversForgotten ==
  \A i \in Sessions : ~sessions[i].connected ~> ~HasUser(i)

-----------------------------------------------------------------------------
\* What the source says of itself; refuted by a client that leaves without waiting.

\* FuncClose calls a close of a session without a user a fatal error: the packet
\* thread never takes a SYS_CLOSE for which there is no user.
ClosesAreConnected ==
  pc = "take" /\ packet_queue # <<>> /\ Head(packet_queue).packet_id = "SYS_CLOSE"
    => HasUser(Head(packet_queue).session_index)

=============================================================================
