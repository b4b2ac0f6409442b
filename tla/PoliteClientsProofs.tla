-------------------------- MODULE PoliteClientsProofs --------------------------
(***************************************************************************)
(* Proofs about clients that keep all rules, for every number of sessions, *)
(* rooms and connections: the server stays in defined behaviour, answers   *)
(* each request once, to the client that sent it, and its threads and its  *)
(* clients agree on who is there, logged in and in which room.             *)
(***************************************************************************)
EXTENDS ChatServiceProofs, NaturalExtremes

RulesKept == Rules \subseteq Discipline

-----------------------------------------------------------------------------
(***************************************************************************)
(* The inductive invariant.                                                *)
(***************************************************************************)

\* Each connected session names a connection of its own, made by its client.
ConnectionsInv ==
  /\ SessionsUnique
  /\ \A i \in Sessions : sessions[i].connected =>
       sessions[i].sockfd \in Fds /\ sockets[sessions[i].sockfd] \in Conns
  /\ \A i, j \in Sessions :
       sessions[i].connected /\ sessions[j].connected /\ sessions[i].sockfd = sessions[j].sockfd
         => i = j
  /\ \A f, g \in Fds : sockets[f] = sockets[g] /\ sockets[f] # NoConn => f = g
  /\ \A f \in Fds : sockets[f] # NoConn => client[sockets[f]].phase # "new"

\* Session i serves the client of connection c.
Linked(i, c) == i \in Sessions /\ c \in Conns /\ sessions[i].connected /\ ConnOf(i) = c

HandoverIds == {"SYS_ACCEPT", "SYS_CLOSE"}

HandoversOf(q, i) ==
  {k \in DOMAIN q : q[k].session_index = i /\ q[k].packet_id \in HandoverIds}

\* The accepts and closes of session i in q alternate, and lead from a session that has
\* a user, or has none, to one that is connected, or is not.
Alternate(q, i, user, connected) ==
  LET H == HandoversOf(q, i) IN
  /\ \A k, n \in H :
       k < n /\ (\A j \in H : j <= k \/ n <= j) => q[k].packet_id # q[n].packet_id
  /\ \A k \in H : (\A j \in H : k <= j) => (q[k].packet_id = "SYS_ACCEPT" <=> ~user)
  /\ \A k \in H : (\A j \in H : j <= k) => (q[k].packet_id = "SYS_ACCEPT" <=> connected)
  /\ H = {} => (connected <=> user)

HandoversInv ==
  \A i \in Sessions : Alternate(packet_queue, i, HasUser(i), sessions[i].connected)

\* The packet thread has caught up with session i.
Settled(i) == HandoversOf(packet_queue, i) = {}

\* A login of p's client is decided or about to be: its session waits for it, and nobody
\* is logged in with its id.
LoginUnderWay(p) ==
  /\ Linked(p.session_index, p.conn) /\ Settled(p.session_index)
  /\ users[p.session_index].state = "CONNECT"
  /\ p.code = "NONE" => p.user_id = client[p.conn].user_id
  /\ \A j \in Sessions :
       users[j].state \in {"LOGIN", "ROOM"} => users[j].user_id # client[p.conn].user_id

\* A packet in packet_queue, and where it stands there: a request is behind all the
\* handovers of its session, and its sender is still connected.
PacketOK(p) ==
  /\ p.intact
  /\ p.packet_id \in HandoverIds \cup RequestIds \cup {"REDIS_LOGIN_RES"}
  /\ p.packet_id \in HandoverIds => p.conn = NoConn
  /\ p.packet_id \notin HandoverIds => Linked(p.session_index, p.conn)
  /\ p.packet_id = "LOGIN_REQ" =>
       p.user_id = client[p.conn].user_id /\ ~client[p.conn].logged
  /\ p.packet_id = "ROOM_ENTER_REQ" => p.room_number # MAX_CREATED_ROOMS
  /\ p.packet_id = "REDIS_LOGIN_RES" => LoginUnderWay(p)

RequestsLast(q) ==
  \A k \in DOMAIN q : q[k].packet_id \notin HandoverIds =>
    \A n \in HandoversOf(q, q[k].session_index) : n < k

Packets(q) == {q[k] : k \in DOMAIN q}

PacketsInv ==
  /\ \A p \in Packets(packet_queue) : PacketOK(p)
  /\ RequestsLast(packet_queue)

QuestionOK(p) == LoginUnderWay(p) /\ p.code = "NONE"
AnswerOK(p)   == LoginUnderWay(p) /\ p.intact /\ p.packet_id = "REDIS_LOGIN_RES"

RedisInv ==
  /\ \A p \in Packets(req_packet_queue) : QuestionOK(p)
  /\ \A p \in Packets(res_packet_queue) : AnswerOK(p)

\* The client knows the state of its user.
Agrees(cl, user) ==
  /\ cl.logged <=> user.state \in {"LOGIN", "ROOM"}
  /\ cl.in_room <=> user.state = "ROOM"
  /\ cl.logged => user.user_id = cl.user_id

\* What SendPacket is still to be called with: a response, alone in its stage, after
\* which its client knows the state of its user, or a notification for a member.
ResponseOK(k, m) ==
  /\ Linked(m.to, m.conn) /\ Settled(m.to)
  /\ sending[k] = {m}
  /\ Agrees(AfterReceiving(client[m.conn], m), users[m.to])
  /\ k = 1 \/ m.packet_id = "ROOM_CHAT_RES"

NotificationOK(m) == m.conn = NoConn /\ m.to \in Sessions /\ users[m.to].state = "ROOM"

SendingInv ==
  /\ pc = "take" => sending = <<>>
  /\ \A k \in DOMAIN sending : \A m \in sending[k] :
       /\ m.packet_id \in ResponseIds => ResponseOK(k, m)
       /\ m.packet_id \in NotificationIds => NotificationOK(m)

ClientsInv ==
  /\ \A c \in Conns :
       /\ client[c].phase # "open" => ~client[c].waiting /\ ~client[c].in_room
       /\ client[c].phase = "new" => ~client[c].logged /\ client[c].user_id = NoUserId
  /\ \A c, d \in Conns :
       /\ client[c].phase = "open" /\ client[d].phase = "open"
       /\ client[c].user_id = client[d].user_id /\ client[c].user_id # NoUserId
       => c = d

\* The stages of s in which client c is answered.
AnswersIn(s, c) == {k \in DOMAIN s : \E m \in s[k] : m.conn = c}
Answers(c)      == AnswersIn(sending, c)

\* A client knows nothing of its user until that is there, and all of it from then on,
\* unless its answer is being sent.
AgreeInv ==
  \A i \in Sessions, c \in Conns : Linked(i, c) =>
    /\ ~Settled(i) => ~client[c].logged /\ ~client[c].in_room
    /\ Settled(i) /\ Answers(c) = {} => Agrees(client[c], users[i])

MembersInv == \A i \in Sessions :
  users[i].state = "ROOM" => sessions[i].connected /\ Settled(i)

Alive == process \in {"running", "redis_reply"}

PoliteInv ==
  /\ ServerInv
  /\ ConnectionsInv /\ HandoversInv
  /\ PacketsInv /\ RedisInv /\ SendingInv
  /\ ClientsInv /\ AgreeInv /\ MembersInv /\ ListsAreUsers
  /\ OneAnswerPerRequest
  /\ Alive

-----------------------------------------------------------------------------
(***************************************************************************)
(* Queues of packets: what is appended, what is left after the head.       *)
(***************************************************************************)
\* Appended to a queue: its places, what stands there, and the packets it holds.
LEMMA Appended ==
  ASSUME NEW q \in Seq(PacketInfo), NEW p \in PacketInfo
  PROVE  /\ Len(q) \in Nat /\ DOMAIN q = 1 .. Len(q)
         /\ Append(q, p) \in Seq(PacketInfo)
         /\ DOMAIN Append(q, p) = 1 .. Len(q) + 1
         /\ \A k \in 1 .. Len(q) : Append(q, p)[k] = q[k]
         /\ Append(q, p)[Len(q) + 1] = p
         /\ Packets(Append(q, p)) = Packets(q) \cup {p} /\ Packets(q) \subseteq PacketInfo
<1>1. /\ Len(q) \in Nat /\ DOMAIN q = 1 .. Len(q)
      /\ Append(q, p) \in Seq(PacketInfo)
      /\ DOMAIN Append(q, p) = 1 .. Len(q) + 1
      /\ \A k \in 1 .. Len(q) : Append(q, p)[k] = q[k] /\ q[k] \in PacketInfo
      /\ Append(q, p)[Len(q) + 1] = p
  OBVIOUS
<1>2. \A k : k \in 1 .. Len(q) + 1 <=> k \in 1 .. Len(q) \/ k = Len(q) + 1
  BY <1>1
<1>3. Packets(Append(q, p)) = Packets(q) \cup {p} /\ Packets(q) \subseteq PacketInfo
  BY <1>1, <1>2 DEF Packets
<1> QED
  BY <1>1, <1>3

\* The head taken off a queue: what is left moves up by one place.
LEMMA Taken ==
  ASSUME NEW q \in Seq(PacketInfo), q # <<>>
  PROVE  /\ Len(q) \in Nat \ {0} /\ DOMAIN q = 1 .. Len(q)
         /\ Head(q) = q[1] /\ Head(q) \in PacketInfo
         /\ Tail(q) \in Seq(PacketInfo)
         /\ DOMAIN Tail(q) = 1 .. Len(q) - 1
         /\ \A k \in 1 .. Len(q) - 1 : Tail(q)[k] = q[k + 1]
         /\ Head(q) \in Packets(q) /\ Packets(Tail(q)) \subseteq Packets(q)
<1>1. Len(q) \in Nat \ {0} /\ DOMAIN q = 1 .. Len(q)
  OBVIOUS
<1>2. Head(q) = q[1] /\ Head(q) \in PacketInfo
  OBVIOUS
<1>3. /\ Tail(q) \in Seq(PacketInfo) /\ Len(Tail(q)) = Len(q) - 1
      /\ \A k \in 1 .. Len(q) - 1 : Tail(q)[k] = q[k + 1]
  BY HeadTailProperties
<1>4. DOMAIN Tail(q) = 1 .. Len(q) - 1
  BY <1>1, <1>3
<1>5. 1 \in DOMAIN q /\ \A k \in 1 .. Len(q) - 1 : k + 1 \in DOMAIN q
  BY <1>1
<1>6. Head(q) \in Packets(q) /\ Packets(Tail(q)) \subseteq Packets(q)
  BY <1>2, <1>3, <1>4, <1>5 DEF Packets
<1> QED
  BY <1>1, <1>2, <1>3, <1>4, <1>6

\* A packet that is appended may be one more handover of the session.
LEMMA HandoversAppended ==
  ASSUME NEW q \in Seq(PacketInfo), NEW p \in PacketInfo, NEW i
  PROVE  HandoversOf(Append(q, p), i) =
           IF p.session_index = i /\ p.packet_id \in HandoverIds
           THEN HandoversOf(q, i) \cup {Len(q) + 1} ELSE HandoversOf(q, i)
<1> DEFINE a == Append(q, p)
<1>1. /\ Len(q) \in Nat /\ DOMAIN q = 1 .. Len(q) /\ DOMAIN a = 1 .. Len(q) + 1
      /\ \A k \in 1 .. Len(q) : a[k] = q[k]
      /\ a[Len(q) + 1] = p
  BY Appended
<1> HIDE DEF a
<1>2. \A k : k \in DOMAIN a <=> k \in DOMAIN q \/ k = Len(q) + 1
  BY <1>1
<1>3. Len(q) + 1 \notin DOMAIN q
  BY <1>1
<1>4. ASSUME NEW k
      PROVE  k \in HandoversOf(a, i) <=>
               \/ k \in HandoversOf(q, i)
               \/ k = Len(q) + 1 /\ p.session_index = i /\ p.packet_id \in HandoverIds
  <2>1. CASE k \in DOMAIN q
    BY <1>1, <1>2, <1>3, <2>1 DEF HandoversOf
  <2>2. CASE k = Len(q) + 1
    BY <1>1, <1>2, <1>3, <2>2 DEF HandoversOf
  <2>3. CASE k \notin DOMAIN a
    BY <1>2, <2>3 DEF HandoversOf
  <2> QED
    BY <1>2, <2>1, <2>2, <2>3
<1> QED
  BY <1>4 DEF a

\* After a take the handovers stand one place earlier; the head may have been one.
LEMMA HandoversTaken ==
  ASSUME NEW q \in Seq(PacketInfo), q # <<>>, NEW i
  PROVE  /\ HandoversOf(q, i) \subseteq 1 .. Len(q)
         /\ HandoversOf(Tail(q), i) \subseteq 1 .. Len(q) - 1
         /\ \A k \in 1 .. Len(q) - 1 :
              k \in HandoversOf(Tail(q), i) <=> k + 1 \in HandoversOf(q, i)
         /\ 1 \in HandoversOf(q, i) <=>
              Head(q).session_index = i /\ Head(q).packet_id \in HandoverIds
<1> DEFINE t == Tail(q)
<1>1. /\ Len(q) \in Nat \ {0} /\ DOMAIN q = 1 .. Len(q)
      /\ Head(q) = q[1] /\ DOMAIN t = 1 .. Len(q) - 1
      /\ \A k \in 1 .. Len(q) - 1 : t[k] = q[k + 1]
  BY Taken
<1> HIDE DEF t
<1>2. \A k \in 1 .. Len(q) - 1 : k + 1 \in 1 .. Len(q)
  BY <1>1
<1>3. 1 \in DOMAIN q
  BY <1>1
<1>4. HandoversOf(t, i) \subseteq 1 .. Len(q) - 1 /\ HandoversOf(q, i) \subseteq 1 .. Len(q)
  BY <1>1 DEF HandoversOf
<1>5. \A k \in 1 .. Len(q) - 1 : k \in HandoversOf(t, i) <=> k + 1 \in HandoversOf(q, i)
  BY <1>1, <1>2 DEF HandoversOf
<1>6. 1 \in HandoversOf(q, i) <=>
        Head(q).session_index = i /\ Head(q).packet_id \in HandoverIds
  BY <1>1, <1>3 DEF HandoversOf
<1> QED
  BY <1>4, <1>5, <1>6 DEF t

-----------------------------------------------------------------------------
(***************************************************************************)
(* Handovers alternate.                                                    *)
(***************************************************************************)
\* A packet that is no handover of the session leaves its handovers as they are.
LEMMA AlternateOther ==
  ASSUME NEW q \in Seq(PacketInfo), NEW p \in PacketInfo, NEW i, NEW user, NEW connected,
         ~(p.session_index = i /\ p.packet_id \in HandoverIds),
         Alternate(q, i, user, connected)
  PROVE  Alternate(Append(q, p), i, user, connected)
<1>1. HandoversOf(Append(q, p), i) = HandoversOf(q, i)
  BY HandoversAppended
<1>2. \A k \in HandoversOf(q, i) : Append(q, p)[k] = q[k]
  BY Appended DEF HandoversOf
<1> QED
  BY <1>1, <1>2 DEF Alternate

\* A session that changes hands once more: an accept after a close, or the reverse.
LEMMA AlternateAppended ==
  ASSUME NEW q \in Seq(PacketInfo), NEW p \in PacketInfo, NEW i,
         NEW user \in BOOLEAN, NEW connected \in BOOLEAN,
         p.session_index = i, p.packet_id \in HandoverIds,
         p.packet_id = "SYS_ACCEPT" <=> ~connected,
         Alternate(q, i, user, connected)
  PROVE  Alternate(Append(q, p), i, user, ~connected)
<1> DEFINE H == HandoversOf(q, i)
           a == Append(q, p)
           n == Len(q) + 1
<1>1. HandoversOf(a, i) = H \cup {n}
  BY HandoversAppended
<1>2. H \subseteq 1 .. Len(q) /\ Len(q) \in Nat
  BY DEF HandoversOf
<1>3. \A k \in H : a[k] = q[k] /\ k < n /\ k \in Nat
  BY <1>2
<1>4. a[n] = p /\ n \in Nat /\ n \notin H
  BY <1>2
<1>5. /\ \A k, l \in H :
           k < l /\ (\A j \in H : j <= k \/ l <= j) => q[k].packet_id # q[l].packet_id
      /\ \A k \in H : (\A j \in H : k <= j) => (q[k].packet_id = "SYS_ACCEPT" <=> ~user)
      /\ \A k \in H : (\A j \in H : j <= k) => (q[k].packet_id = "SYS_ACCEPT" <=> connected)
      /\ H = {} => (connected <=> user)
  BY DEF Alternate
<1>6. \A k \in H : q[k].packet_id \in HandoverIds
  BY DEF HandoversOf
<1> HIDE DEF H, a, n
<1>7. ASSUME NEW k \in H \cup {n}, NEW l \in H \cup {n},
             k < l, \A j \in H \cup {n} : j <= k \/ l <= j
      PROVE  a[k].packet_id # a[l].packet_id
  <2>1. k \in H
    BY <1>3, <1>4, <1>7
  <2>2. CASE l \in H
    BY <1>3, <1>5, <1>7, <2>1, <2>2
  <2>3. CASE l = n
    <3>1. \A j \in H : j <= k
      BY <1>3, <1>4, <1>7, <2>1, <2>3
    <3>2. q[k].packet_id = "SYS_ACCEPT" <=> connected
      BY <1>5, <2>1, <3>1
    <3> QED
      BY <1>3, <1>4, <1>6, <2>1, <2>3, <3>2
  <2> QED
    BY <2>2, <2>3
<1>8. ASSUME NEW k \in H \cup {n}, \A j \in H \cup {n} : k <= j
      PROVE  a[k].packet_id = "SYS_ACCEPT" <=> ~user
  <2>1. CASE k \in H
    BY <1>3, <1>5, <1>8, <2>1
  <2>2. CASE k = n
    BY <1>3, <1>4, <1>5, <1>8, <2>2
  <2> QED
    BY <2>1, <2>2
<1>9. ASSUME NEW k \in H \cup {n}, \A j \in H \cup {n} : j <= k
      PROVE  a[k].packet_id = "SYS_ACCEPT" <=> ~connected
  BY <1>3, <1>4, <1>9
<1> QED
  BY <1>1, <1>7, <1>8, <1>9 DEF Alternate, H, a

\* The packet taken is no handover of the session.
LEMMA AlternateKept ==
  ASSUME NEW q \in Seq(PacketInfo), q # <<>>, NEW i, NEW user, NEW connected,
         ~(Head(q).session_index = i /\ Head(q).packet_id \in HandoverIds),
         Alternate(q, i, user, connected)
  PROVE  Alternate(Tail(q), i, user, connected)
<1> DEFINE H == HandoversOf(q, i)
           T == HandoversOf(Tail(q), i)
           t == Tail(q)
<1>1. /\ T \subseteq 1 .. Len(q) - 1 /\ H \subseteq 1 .. Len(q) /\ Len(q) \in Nat \ {0}
      /\ \A k \in 1 .. Len(q) - 1 : k \in T <=> k + 1 \in H
      /\ 1 \notin H
  BY HandoversTaken
<1>2. \A k \in T : t[k] = q[k + 1]
  BY <1>1, Taken
<1>3. /\ \A k, l \in H :
           k < l /\ (\A j \in H : j <= k \/ l <= j) => q[k].packet_id # q[l].packet_id
      /\ \A k \in H : (\A j \in H : k <= j) => (q[k].packet_id = "SYS_ACCEPT" <=> ~user)
      /\ \A k \in H : (\A j \in H : j <= k) => (q[k].packet_id = "SYS_ACCEPT" <=> connected)
      /\ H = {} => (connected <=> user)
  BY DEF Alternate
<1> HIDE DEF H, T, t
<1>4. \A k \in T : k \in Nat /\ k + 1 \in H
  BY <1>1
<1>5. \A j \in H : j \in Nat /\ j - 1 \in T /\ (j - 1) + 1 = j
  <2> SUFFICES ASSUME NEW j \in H PROVE j \in Nat /\ j - 1 \in T /\ (j - 1) + 1 = j
    OBVIOUS
  <2>1. j \in 1 .. Len(q) /\ j # 1
    BY <1>1
  <2>2. j - 1 \in 1 .. Len(q) - 1 /\ (j - 1) + 1 = j /\ j \in Nat
    BY <1>1, <2>1
  <2> QED
    BY <1>1, <2>2
<1>6. ASSUME NEW k \in T, NEW l \in T, k < l, \A j \in T : j <= k \/ l <= j
      PROVE  t[k].packet_id # t[l].packet_id
  <2>1. ASSUME NEW j \in H
        PROVE  j <= k + 1 \/ l + 1 <= j
    <3>1. j \in Nat /\ (j - 1 <= k \/ l <= j - 1)
      BY <1>5, <1>6
    <3> QED
      BY <1>4, <3>1
  <2>2. k + 1 < l + 1
    BY <1>4, <1>6
  <2> QED
    BY <1>2, <1>3, <1>4, <2>1, <2>2
<1>7. ASSUME NEW k \in T, \A j \in T : k <= j
      PROVE  t[k].packet_id = "SYS_ACCEPT" <=> ~user
  <2>1. \A j \in H : k + 1 <= j
    BY <1>4, <1>5, <1>7
  <2> QED
    BY <1>2, <1>3, <1>4, <2>1
<1>8. ASSUME NEW k \in T, \A j \in T : j <= k
      PROVE  t[k].packet_id = "SYS_ACCEPT" <=> connected
  <2>1. \A j \in H : j <= k + 1
    BY <1>4, <1>5, <1>8
  <2> QED
    BY <1>2, <1>3, <1>4, <2>1
<1>9. T = {} => H = {}
  BY <1>5
<1> QED
  BY <1>3, <1>6, <1>7, <1>8, <1>9 DEF Alternate, T, t

\* The packet taken is the first handover of the session: the user it meets is as it
\* says, and becomes as it says.
LEMMA AlternateTaken ==
  ASSUME NEW q \in Seq(PacketInfo), q # <<>>, NEW i,
         NEW user \in BOOLEAN, NEW connected \in BOOLEAN,
         Head(q).session_index = i, Head(q).packet_id \in HandoverIds,
         Alternate(q, i, user, connected)
  PROVE  /\ Head(q).packet_id = "SYS_ACCEPT" <=> ~user
         /\ Alternate(Tail(q), i, ~user, connected)
<1> DEFINE H == HandoversOf(q, i)
           T == HandoversOf(Tail(q), i)
           t == Tail(q)
<1>1. /\ T \subseteq 1 .. Len(q) - 1 /\ H \subseteq 1 .. Len(q) /\ Len(q) \in Nat \ {0}
      /\ \A k \in 1 .. Len(q) - 1 : k \in T <=> k + 1 \in H
      /\ 1 \in H
  BY HandoversTaken
<1>2. (\A k \in T : t[k] = q[k + 1]) /\ Head(q) = q[1]
  BY <1>1, Taken
<1>3. /\ \A k, l \in H :
           k < l /\ (\A j \in H : j <= k \/ l <= j) => q[k].packet_id # q[l].packet_id
      /\ \A k \in H : (\A j \in H : k <= j) => (q[k].packet_id = "SYS_ACCEPT" <=> ~user)
      /\ \A k \in H : (\A j \in H : j <= k) => (q[k].packet_id = "SYS_ACCEPT" <=> connected)
  BY DEF Alternate
<1>4. \A k \in H : q[k].packet_id \in {"SYS_ACCEPT", "SYS_CLOSE"}
  BY DEF HandoversOf, HandoverIds
<1> HIDE DEF H, T, t
<1>5. \A k \in T : k \in Nat /\ k >= 1 /\ k + 1 \in H
  BY <1>1
<1>6. \A j \in H : j # 1 => j \in Nat /\ j - 1 \in T /\ (j - 1) + 1 = j
  <2> SUFFICES ASSUME NEW j \in H, j # 1 PROVE j \in Nat /\ j - 1 \in T /\ (j - 1) + 1 = j
    OBVIOUS
  <2>1. j - 1 \in 1 .. Len(q) - 1 /\ (j - 1) + 1 = j /\ j \in Nat
    BY <1>1
  <2> QED
    BY <1>1, <2>1
<1>7. q[1].packet_id = "SYS_ACCEPT" <=> ~user
  <2>1. \A j \in H : 1 <= j
    BY <1>1
  <2> QED
    BY <1>1, <1>3, <2>1
<1>8. ASSUME NEW k \in T, NEW l \in T, k < l, \A j \in T : j <= k \/ l <= j
      PROVE  t[k].packet_id # t[l].packet_id
  <2>1. ASSUME NEW j \in H
        PROVE  j <= k + 1 \/ l + 1 <= j
    <3>1. j = 1 \/ (j \in Nat /\ (j - 1 <= k \/ l <= j - 1))
      BY <1>6, <1>8
    <3> QED
      BY <1>5, <3>1
  <2>2. k + 1 < l + 1 /\ k + 1 \in H /\ l + 1 \in H
    BY <1>5, <1>8
  <2>3. q[k + 1].packet_id # q[l + 1].packet_id
    BY <1>3, <2>1, <2>2
  <2> QED
    BY <1>2, <2>3
<1>9. ASSUME NEW k \in T, \A j \in T : k <= j
      PROVE  t[k].packet_id = "SYS_ACCEPT" <=> user
  <2>1. \A j \in H : j <= 1 \/ k + 1 <= j
    BY <1>5, <1>6, <1>9
  <2>2. 1 < k + 1 /\ k + 1 \in H
    BY <1>5
  <2>3. q[1].packet_id # q[k + 1].packet_id
    BY <1>1, <1>3, <2>1, <2>2
  <2> QED
    BY <1>1, <1>2, <1>4, <1>7, <2>2, <2>3
<1>10. ASSUME NEW k \in T, \A j \in T : j <= k
       PROVE  t[k].packet_id = "SYS_ACCEPT" <=> connected
  <2>1. \A j \in H : j <= k + 1
    BY <1>5, <1>6, <1>10
  <2> QED
    BY <1>2, <1>3, <1>5, <2>1
<1>11. T = {} => (connected <=> ~user)
  <2> SUFFICES ASSUME T = {} PROVE connected <=> ~user
    OBVIOUS
  <2>1. \A j \in H : j <= 1
    BY <1>6
  <2> QED
    BY <1>1, <1>3, <1>7, <2>1
<1> QED
  BY <1>2, <1>7, <1>8, <1>9, <1>10, <1>11 DEF Alternate, T, t

-----------------------------------------------------------------------------
(***************************************************************************)
(* Requests are behind the handovers of their sessions.                    *)
(***************************************************************************)
\* A request may be appended to any queue: it stands behind all handovers.
LEMMA RequestAppended ==
  ASSUME NEW q \in Seq(PacketInfo), NEW p \in PacketInfo, RequestsLast(q),
         p.packet_id \notin HandoverIds
  PROVE  RequestsLast(Append(q, p))
<1>1. \A i : HandoversOf(Append(q, p), i) = HandoversOf(q, i)
  BY HandoversAppended
<1>2. \A i : \A n \in HandoversOf(q, i) : n \in 1 .. Len(q)
  BY DEF HandoversOf
<1> QED
  BY <1>1, <1>2, Appended DEF RequestsLast

\* A handover may be appended while no request of its session is queued.
LEMMA HandoverAppended ==
  ASSUME NEW q \in Seq(PacketInfo), NEW p \in PacketInfo, RequestsLast(q),
         p.packet_id \in HandoverIds,
         \A r \in Packets(q) : r.packet_id \notin HandoverIds =>
                                 r.session_index # p.session_index
  PROVE  RequestsLast(Append(q, p))
<1>1. \A i : i # p.session_index => HandoversOf(Append(q, p), i) = HandoversOf(q, i)
  BY HandoversAppended
<1>2. \A k \in DOMAIN q : q[k] \in Packets(q)
  BY DEF Packets
<1> QED
  BY <1>1, <1>2, Appended DEF RequestsLast

\* Requests stay behind the handovers of their sessions; a head that is no handover has
\* none of its session behind it.
LEMMA RequestsTaken ==
  ASSUME NEW q \in Seq(PacketInfo), q # <<>>, RequestsLast(q)
  PROVE  /\ RequestsLast(Tail(q))
         /\ Head(q).packet_id \notin HandoverIds =>
              HandoversOf(q, Head(q).session_index) = {}
<1>1. /\ Len(q) \in Nat \ {0} /\ DOMAIN q = 1 .. Len(q) /\ Head(q) = q[1]
      /\ DOMAIN Tail(q) = 1 .. Len(q) - 1
      /\ \A k \in 1 .. Len(q) - 1 : Tail(q)[k] = q[k + 1]
  BY Taken
<1>2. ASSUME NEW k \in DOMAIN Tail(q), Tail(q)[k].packet_id \notin HandoverIds,
             NEW n \in HandoversOf(Tail(q), Tail(q)[k].session_index)
      PROVE  n < k
  <2>1. k + 1 \in 1 .. Len(q) /\ Tail(q)[k] = q[k + 1] /\ k \in Nat
    BY <1>1, <1>2
  <2>2. n \in 1 .. Len(q) - 1
    BY <1>2, HandoversTaken
  <2>3. n + 1 \in HandoversOf(q, q[k + 1].session_index) /\ n \in Nat
    BY <1>1, <1>2, <2>1, <2>2, HandoversTaken
  <2>4. n + 1 < k + 1
    BY <1>1, <1>2, <2>1, <2>3 DEF RequestsLast
  <2> QED
    BY <2>1, <2>3, <2>4
<1>3. ASSUME Head(q).packet_id \notin HandoverIds
      PROVE  HandoversOf(q, Head(q).session_index) = {}
  <2>1. 1 \in DOMAIN q
    BY <1>1
  <2>2. \A n \in HandoversOf(q, q[1].session_index) : n < 1
    BY <1>1, <1>3, <2>1 DEF RequestsLast
  <2>3. \A n \in HandoversOf(q, q[1].session_index) : n \in 1 .. Len(q)
    BY <1>1 DEF HandoversOf
  <2> QED
    BY <1>1, <2>2, <2>3
<1> QED
  BY <1>2, <1>3 DEF RequestsLast

-----------------------------------------------------------------------------
(***************************************************************************)
(* Counting what is under way for a client.                                *)
(***************************************************************************)
\* A set of places that moves up by one keeps its size, but for a first place.
LEMMA Shifted ==
  ASSUME NEW n \in Nat \ {0}, NEW S \in SUBSET (1 .. n), NEW T \in SUBSET (1 .. n - 1),
         \A k \in 1 .. n - 1 : k \in T <=> k + 1 \in S
  PROVE  /\ Cardinality(S) \in Nat /\ Cardinality(T) \in Nat
         /\ Cardinality(S) = Cardinality(T) + (IF 1 \in S THEN 1 ELSE 0)
<1> DEFINE R == S \ {1}
           f == [k \in T |-> k + 1]
<1>1. IsFiniteSet(1 .. n) /\ IsFiniteSet(1 .. n - 1)
  BY FS_Interval
<1>2. IsFiniteSet(S) /\ IsFiniteSet(T)
  BY <1>1, FS_Subset
<1>3. \A k \in T : k \in Nat /\ k >= 1 /\ k + 1 \in R
  OBVIOUS
<1>4. \A j \in R : j - 1 \in T /\ (j - 1) + 1 = j
  <2> SUFFICES ASSUME NEW j \in R PROVE j - 1 \in T /\ (j - 1) + 1 = j
    OBVIOUS
  <2>1. j - 1 \in 1 .. n - 1 /\ (j - 1) + 1 = j
    OBVIOUS
  <2> QED
    BY <2>1
<1> HIDE DEF R
<1>5. f \in Bijection(T, R)
  <2>1. f \in [T -> R] /\ \A j \in R : \E k \in T : f[k] = j
    BY <1>3, <1>4
  <2>2. \A k, l \in T : f[k] = f[l] => k = l
    BY <1>3
  <2> QED
    BY <2>1, <2>2 DEF Bijection, Injection, IsInjective, Surjection
<1>6. IsFiniteSet(R) /\ Cardinality(R) = Cardinality(T)
  BY <1>2, <1>5, FS_Bijection DEF ExistsBijection
<1>7. Cardinality(R) = IF 1 \in S THEN Cardinality(S) - 1 ELSE Cardinality(S)
  BY <1>2, FS_RemoveElement DEF R
<1> QED
  BY <1>2, <1>6, <1>7, FS_CardinalityType

Count(q, c) == Cardinality(PacketsOf(q, c))

\* A queue holds finitely many packets of c, and none iff their number is zero.
LEMMA CountNone ==
  ASSUME NEW q \in Seq(PacketInfo), NEW c
  PROVE  /\ IsFiniteSet(PacketsOf(q, c)) /\ Count(q, c) \in Nat
         /\ Count(q, c) = 0 <=> \A p \in Packets(q) : p.conn # c
<1>1. PacketsOf(q, c) \subseteq 1 .. Len(q) /\ Len(q) \in Nat
  BY DEF PacketsOf
<1>2. IsFiniteSet(PacketsOf(q, c))
  <2>1. IsFiniteSet(1 .. Len(q))
    BY <1>1, FS_Interval
  <2> QED
    BY <1>1, <2>1, FS_Subset
<1>3. PacketsOf(q, c) = {} <=> \A p \in Packets(q) : p.conn # c
  BY DEF PacketsOf, Packets
<1> QED
  BY <1>2, <1>3, FS_CardinalityType, FS_EmptySet DEF Count

\* A packet of c that is appended is one more.
LEMMA CountAppended ==
  ASSUME NEW q \in Seq(PacketInfo), NEW p \in PacketInfo, NEW c
  PROVE  Count(Append(q, p), c) = Count(q, c) + (IF p.conn = c THEN 1 ELSE 0)
<1> DEFINE a == Append(q, p)
           P == PacketsOf(q, c)
           A == PacketsOf(a, c)
           n == Len(q) + 1
<1>1. /\ DOMAIN q = 1 .. Len(q) /\ DOMAIN a = 1 .. n /\ Len(q) \in Nat
      /\ \A k \in 1 .. Len(q) : a[k] = q[k]
      /\ a[n] = p
  BY Appended
<1> HIDE DEF a, n
<1>2. n \notin P /\ \A k : k \in DOMAIN a <=> k \in DOMAIN q \/ k = n
  BY <1>1 DEF PacketsOf, n
<1>3. \A k \in DOMAIN q : a[k] = q[k]
  BY <1>1
<1>4. CASE p.conn = c
  <2>1. A = P \cup {n}
    BY <1>1, <1>2, <1>3, <1>4 DEF PacketsOf
  <2> QED
    BY <1>2, <1>4, <2>1, CountNone, FS_AddElement DEF Count, a
<1>5. CASE p.conn # c
  <2>1. A = P
    BY <1>1, <1>2, <1>3, <1>5 DEF PacketsOf
  <2> QED
    BY <1>5, <2>1, CountNone DEF Count, a
<1> QED
  BY <1>4, <1>5

\* A packet of c that is taken is one less.
LEMMA CountTaken ==
  ASSUME NEW q \in Seq(PacketInfo), q # <<>>, NEW c
  PROVE  Count(q, c) = Count(Tail(q), c) + (IF Head(q).conn = c THEN 1 ELSE 0)
<1> DEFINE t == Tail(q)
<1>1. /\ Len(q) \in Nat \ {0} /\ DOMAIN q = 1 .. Len(q) /\ Head(q) = q[1]
      /\ DOMAIN t = 1 .. Len(q) - 1
      /\ \A k \in 1 .. Len(q) - 1 : t[k] = q[k + 1]
  BY Taken
<1> HIDE DEF t
<1>2. /\ PacketsOf(q, c) \subseteq 1 .. Len(q) /\ PacketsOf(t, c) \subseteq 1 .. Len(q) - 1
      /\ 1 \in PacketsOf(q, c) <=> Head(q).conn = c
  BY <1>1 DEF PacketsOf
<1>3. \A k \in 1 .. Len(q) - 1 : k + 1 \in 1 .. Len(q)
  BY <1>1
<1>4. \A k \in 1 .. Len(q) - 1 : k \in PacketsOf(t, c) <=> k + 1 \in PacketsOf(q, c)
  BY <1>1, <1>3 DEF PacketsOf
<1> DEFINE n == Len(q)
           P == PacketsOf(q, c)
           T == PacketsOf(t, c)
<1>5. /\ n \in Nat \ {0} /\ P \in SUBSET (1 .. n) /\ T \in SUBSET (1 .. n - 1)
      /\ \A k \in 1 .. n - 1 : k \in T <=> k + 1 \in P
  BY <1>1, <1>2, <1>4
<1> HIDE DEF n, P, T
<1>6. Cardinality(P) = Cardinality(T) + (IF 1 \in P THEN 1 ELSE 0)
  BY <1>5, Shifted
<1> QED
  BY <1>2, <1>6 DEF Count, t, P, T

\* The stages that answer c: there is none iff their number is zero.
LEMMA AnswersNone ==
  ASSUME NEW s \in Seq(SUBSET Message), NEW c
  PROVE  /\ Cardinality(AnswersIn(s, c)) \in Nat
         /\ Cardinality(AnswersIn(s, c)) = 0 <=> AnswersIn(s, c) = {}
<1>1. AnswersIn(s, c) \subseteq 1 .. Len(s) /\ Len(s) \in Nat
  BY DEF AnswersIn
<1>2. IsFiniteSet(AnswersIn(s, c))
  <2>1. IsFiniteSet(1 .. Len(s))
    BY <1>1, FS_Interval
  <2> QED
    BY <1>1, <2>1, FS_Subset
<1> QED
  BY <1>2, FS_CardinalityType, FS_EmptySet

\* A send takes one message off the first stage; what c is answered changes only if the
\* message was its response.
LEMMA AnswerSent ==
  ASSUME sending \in Seq(SUBSET Message), sending # <<>>, NEW m \in Head(sending), NEW c,
         sending' = IF Head(sending) = {m} THEN Tail(sending)
                    ELSE [sending EXCEPT ![1] = @ \ {m}]
  PROVE  /\ m.conn # c =>
              /\ Cardinality(AnswersIn(sending', c)) = Cardinality(AnswersIn(sending, c))
              /\ (AnswersIn(sending', c) = {} <=> AnswersIn(sending, c) = {})
         /\ m.conn = c /\ Head(sending) = {m} =>
              Cardinality(AnswersIn(sending, c)) = Cardinality(AnswersIn(sending', c)) + 1
<1> DEFINE s == sending
           t == sending'
<1>1. /\ Len(s) \in Nat \ {0} /\ DOMAIN s = 1 .. Len(s) /\ Head(s) = s[1] /\ 1 \in DOMAIN s
      /\ Len(Tail(s)) = Len(s) - 1 /\ DOMAIN Tail(s) = 1 .. Len(s) - 1
      /\ \A k \in 1 .. Len(s) - 1 : Tail(s)[k] = s[k + 1]
      /\ Tail(s) \in Seq(SUBSET Message)
  BY HeadTailProperties DEF s
<1>2. CASE Head(s) = {m}
  <2>1. t = Tail(s)
    BY <1>2
  <2>2. /\ AnswersIn(s, c) \subseteq 1 .. Len(s) /\ AnswersIn(t, c) \subseteq 1 .. Len(s) - 1
        /\ 1 \in AnswersIn(s, c) <=> m.conn = c
    BY <1>1, <1>2, <2>1 DEF AnswersIn
  <2>3. \A k \in 1 .. Len(s) - 1 : k + 1 \in 1 .. Len(s)
    BY <1>1
  <2>4. \A k \in 1 .. Len(s) - 1 : k \in AnswersIn(t, c) <=> k + 1 \in AnswersIn(s, c)
    BY <1>1, <2>1, <2>3 DEF AnswersIn
  <2> DEFINE n == Len(s)
             P == AnswersIn(s, c)
             T == AnswersIn(t, c)
  <2>5. /\ n \in Nat \ {0} /\ P \in SUBSET (1 .. n) /\ T \in SUBSET (1 .. n - 1)
        /\ \A k \in 1 .. n - 1 : k \in T <=> k + 1 \in P
    BY <1>1, <2>2, <2>4
  <2>6. P = {} <=> Cardinality(P) = 0
    BY AnswersNone
  <2>7. (T = {} <=> Cardinality(T) = 0) /\ Cardinality(T) \in Nat
    BY <1>1, <2>1, AnswersNone
  <2> HIDE DEF n, P, T
  <2>8. Cardinality(P) = Cardinality(T) + (IF 1 \in P THEN 1 ELSE 0)
    BY <2>5, Shifted
  <2>9. 1 \in P <=> m.conn = c
    BY <2>2 DEF P
  <2>10. /\ m.conn # c => Cardinality(T) = Cardinality(P) /\ (T = {} <=> P = {})
         /\ m.conn = c => Cardinality(P) = Cardinality(T) + 1
    BY <2>6, <2>7, <2>8, <2>9
  <2> QED
    BY <2>10 DEF P, T
<1>3. CASE Head(s) # {m}
  <2>1. t = [s EXCEPT ![1] = @ \ {m}]
    BY <1>3
  <2>2. DOMAIN t = DOMAIN s /\ t[1] = s[1] \ {m} /\ \A k \in DOMAIN s \ {1} : t[k] = s[k]
    BY <1>1, <2>1
  <2>3. m.conn # c => AnswersIn(t, c) = AnswersIn(s, c)
    <3> SUFFICES ASSUME m.conn # c, NEW k PROVE k \in AnswersIn(t, c) <=> k \in AnswersIn(s, c)
      OBVIOUS
    <3>1. CASE k = 1
      BY <1>1, <2>2, <3>1 DEF AnswersIn
    <3>2. CASE k # 1
      BY <2>2, <3>2 DEF AnswersIn
    <3> QED
      BY <3>1, <3>2
  <2> QED
    BY <1>3, <2>3
<1> QED
  BY <1>2, <1>3

\* What a handler leaves to send: its response, or that and the notifications.
LEMMA AnswersOfHandler ==
  ASSUME NEW r, NEW N, \A m \in N : m.conn # r.conn,
         sending' \in {<<{r}>>, <<{r}, N>>, <<N, {r}>>}
  PROVE  /\ AnswersIn(sending', r.conn) # {} /\ Cardinality(AnswersIn(sending', r.conn)) = 1
         /\ \A c : c # r.conn /\ (\A m \in N : m.conn # c) =>
              AnswersIn(sending', c) = {} /\ Cardinality(AnswersIn(sending', c)) = 0
<1>1. PICK k : AnswersIn(sending', r.conn) = {k}
  <2>1. CASE sending' = <<{r}>>
    <3>1. AnswersIn(sending', r.conn) = {1}
      BY <2>1 DEF AnswersIn
    <3> QED
      BY <3>1
  <2>2. CASE sending' = <<{r}, N>>
    <3>1. AnswersIn(sending', r.conn) = {1}
      BY <2>2 DEF AnswersIn
    <3> QED
      BY <3>1
  <2>3. CASE sending' = <<N, {r}>>
    <3>1. AnswersIn(sending', r.conn) = {2}
      BY <2>3 DEF AnswersIn
    <3> QED
      BY <3>1
  <2> QED
    BY <2>1, <2>2, <2>3
<1>2. ASSUME NEW c, c # r.conn, \A m \in N : m.conn # c
      PROVE  AnswersIn(sending', c) = {}
  <2>1. CASE sending' = <<{r}>>
    BY <1>2, <2>1 DEF AnswersIn
  <2>2. CASE sending' = <<{r}, N>>
    BY <1>2, <2>2 DEF AnswersIn
  <2>3. CASE sending' = <<N, {r}>>
    BY <1>2, <2>3 DEF AnswersIn
  <2> QED
    BY <2>1, <2>2, <2>3
<1> QED
  BY <1>1, <1>2, FS_Singleton, FS_EmptySet

-----------------------------------------------------------------------------
(***************************************************************************)
(* Sessions and their connections.                                         *)
(***************************************************************************)
\* A connected session has its connection to itself, and its client has made it.
LEMMA LinkedOnce ==
  ASSUME TypeOK, ConnectionsInv, NEW i \in Sessions
  PROVE  /\ sessions[i].connected => ConnOf(i) \in Conns /\ Linked(i, ConnOf(i))
         /\ \A j, c : Linked(i, c) /\ Linked(j, c) => j = i
         /\ \A c : Linked(i, c) => c \in Conns /\ c = ConnOf(i) /\ client[c].phase # "new"
<1>1. sessions[i].connected => ConnOf(i) \in Conns /\ Linked(i, ConnOf(i))
  BY DEF ConnectionsInv, ConnOf, Linked
<1>2. ASSUME NEW j, NEW c, Linked(i, c), Linked(j, c) PROVE j = i
  <2>1. /\ j \in Sessions /\ sessions[i].connected /\ sessions[j].connected
        /\ sessions[i].sockfd \in Fds /\ sockets[sessions[i].sockfd] = c
        /\ sessions[j].sockfd \in Fds /\ sockets[sessions[j].sockfd] = c /\ c # NoConn
    BY <1>2, DataAssumption DEF ConnectionsInv, ConnOf, Linked
  <2>2. sessions[i].sockfd = sessions[j].sockfd
    BY <2>1 DEF ConnectionsInv
  <2> QED
    BY <2>1, <2>2 DEF ConnectionsInv
<1>3. ASSUME NEW c, Linked(i, c)
      PROVE  c \in Conns /\ c = ConnOf(i) /\ client[c].phase # "new"
  BY <1>3, DataAssumption DEF ConnectionsInv, ConnOf, Linked
<1> QED
  BY <1>1, <1>2, <1>3

\* The index taken is that of a session out of use, and no other index is it.
LEMMA UniqueAccept ==
  ASSUME SessionTableTypeOK, SessionsUnique, NEW i \in Sessions, NEW c, AcceptSession(i, c)
  PROVE  SessionsUnique' /\ ~sessions[i].connected
<1> DEFINE q == available_session_index
<1>1. /\ q \in Seq(Sessions) /\ q # <<>> /\ i = Head(q)
      /\ available_session_index' = Tail(q)
  BY DEF SessionTableTypeOK, AcceptSession
<1>2. /\ DOMAIN q = 1 .. Len(q) /\ Len(q) \in Nat \ {0} /\ Head(q) = q[1]
      /\ DOMAIN Tail(q) = 1 .. Len(q) - 1
      /\ \A k \in 1 .. Len(q) - 1 : Tail(q)[k] = q[k + 1]
  BY <1>1
<1>3. \A j \in Sessions : sessions'[j].connected <=> j = i \/ sessions[j].connected
  BY DEF SessionTableTypeOK, AcceptSession
<1>4. 1 \in DOMAIN q /\ ~sessions[i].connected
  BY <1>1, <1>2 DEF SessionsUnique
<1>5. \A k \in 1 .. Len(q) - 1 : k + 1 \in DOMAIN q /\ k + 1 # 1 /\ q[k + 1] \in Sessions
  BY <1>1, <1>2
<1>6. \A k \in 1 .. Len(q) - 1 : q[k + 1] # i
  BY <1>1, <1>2, <1>4, <1>5 DEF SessionsUnique
<1>7. \A k \in DOMAIN Tail(q) : ~sessions'[Tail(q)[k]].connected
  BY <1>2, <1>3, <1>5, <1>6 DEF SessionsUnique
<1>8. ASSUME NEW k \in DOMAIN Tail(q), NEW n \in DOMAIN Tail(q), Tail(q)[k] = Tail(q)[n]
      PROVE  k = n
  <2>1. k + 1 = n + 1
    BY <1>2, <1>5, <1>8 DEF SessionsUnique
  <2> QED
    BY <1>2, <2>1
<1> QED
  BY <1>1, <1>4, <1>7, <1>8 DEF SessionsUnique

\* The index of a connected session is not among the available ones when it is put there.
LEMMA UniqueRelease ==
  ASSUME SessionTableTypeOK, SessionsUnique, NEW i \in Sessions, sessions[i].connected,
         ReleaseSession(i)
  PROVE  SessionsUnique'
<1> DEFINE q == available_session_index
<1>1. q \in Seq(Sessions) /\ available_session_index' = Append(q, i)
  BY DEF SessionTableTypeOK, ReleaseSession
<1>2. /\ DOMAIN q = 1 .. Len(q) /\ Len(q) \in Nat
      /\ DOMAIN Append(q, i) = 1 .. Len(q) + 1
      /\ \A k \in 1 .. Len(q) : Append(q, i)[k] = q[k] /\ q[k] \in Sessions
      /\ Append(q, i)[Len(q) + 1] = i
  BY <1>1
<1>3. /\ \A j \in Sessions \ {i} : sessions'[j] = sessions[j]
      /\ ~sessions'[i].connected
  BY DEF SessionTableTypeOK, ReleaseSession
<1>4. \A k \in 1 .. Len(q) : q[k] # i /\ ~sessions[q[k]].connected
  BY <1>2 DEF SessionsUnique
<1>5. \A k \in 1 .. Len(q) + 1 : k \in 1 .. Len(q) \/ k = Len(q) + 1
  BY <1>2
<1>6. \A k \in DOMAIN Append(q, i) : ~sessions'[Append(q, i)[k]].connected
  BY <1>2, <1>3, <1>4, <1>5
<1>7. \A k, n \in DOMAIN Append(q, i) : Append(q, i)[k] = Append(q, i)[n] => k = n
  BY <1>2, <1>4, <1>5 DEF SessionsUnique
<1> QED
  BY <1>1, <1>6, <1>7 DEF SessionsUnique

\* A session is linked to the new connection; the others keep theirs.
LEMMA LinkAccept ==
  ASSUME TypeOK, ConnectionsInv, NEW i \in Sessions, NEW c \in Conns, client[c].phase = "new",
         AcceptSession(i, c), client' = [client EXCEPT ![c].phase = "open"]
  PROVE  /\ ConnectionsInv' /\ ~sessions[i].connected
         /\ sessions'[i].connected = ~sessions[i].connected
         /\ \A j \in Sessions : j # i => sessions'[j].connected = sessions[j].connected
         /\ \A j : ~Linked(j, c)
         /\ \A j, d : Linked(j, d)' <=> Linked(j, d) \/ (j = i /\ d = c)
<1>1. /\ sessions \in [Sessions -> Session] /\ sockets \in [Fds -> Conns \cup {NoConn}]
      /\ SessionTableTypeOK /\ client \in [Conns -> Client]
  BY DEF TypeOK, SessionTableTypeOK, ClientsTypeOK
<1>2. PICK fd \in Fds :
        /\ sockets[fd] = NoConn
        /\ sessions' = [sessions EXCEPT ![i] = [connected |-> TRUE, sockfd |-> fd]]
        /\ sockets' = [sockets EXCEPT ![fd] = c]
  BY DEF AcceptSession, FreeFds
<1>3. SessionsUnique' /\ ~sessions[i].connected
  BY <1>1, UniqueAccept DEF ConnectionsInv
<1>4. /\ sessions'[i].connected = TRUE /\ sessions'[i].sockfd = fd
      /\ \A j \in Sessions \ {i} : sessions'[j] = sessions[j]
      /\ sockets'[fd] = c
      /\ \A f \in Fds \ {fd} : sockets'[f] = sockets[f]
  BY <1>1, <1>2
<1>5. \A f \in Fds : sockets[f] # c
  BY <1>1, DataAssumption DEF ConnectionsInv
<1>6. \A j \in Sessions : sessions[j].connected =>
        /\ j # i /\ sessions[j].sockfd # fd /\ sessions[j].sockfd \in Fds
        /\ sockets[sessions[j].sockfd] \in Conns
  BY <1>2, <1>3, DataAssumption DEF ConnectionsInv
<1>7. \A d \in Conns : /\ d # c => client'[d] = client[d]
                       /\ client'[c].phase = "open"
  BY <1>1 DEF Client
<1>8. \A f \in Fds : sockets'[f] # NoConn => client'[sockets'[f]].phase # "new"
  BY <1>1, <1>4, <1>5, <1>7 DEF ConnectionsInv
<1>9. \A j \in Sessions : sessions'[j].connected =>
        sessions'[j].sockfd \in Fds /\ sockets'[sessions'[j].sockfd] \in Conns
  BY <1>4, <1>6
<1>10. \A j, k \in Sessions :
         sessions'[j].connected /\ sessions'[k].connected
           /\ sessions'[j].sockfd = sessions'[k].sockfd => j = k
  BY <1>4, <1>6 DEF ConnectionsInv
<1>11. \A f, g \in Fds : sockets'[f] = sockets'[g] /\ sockets'[f] # NoConn => f = g
  BY <1>4, <1>5 DEF ConnectionsInv
<1>12. ConnectionsInv'
  BY <1>3, <1>8, <1>9, <1>10, <1>11 DEF ConnectionsInv
<1>13. \A j : ~Linked(j, c)
  BY <1>5, DataAssumption DEF Linked, ConnOf
<1>14. ASSUME NEW j, NEW d
       PROVE  Linked(j, d)' <=> Linked(j, d) \/ (j = i /\ d = c)
  BY <1>3, <1>4, <1>6 DEF Linked, ConnOf
<1>15. sessions[i].connected \in BOOLEAN
  BY <1>1 DEF Session
<1> QED
  BY <1>3, <1>4, <1>12, <1>13, <1>14, <1>15

\* A connected session is released; the others stay linked.
LEMMA LinkRelease ==
  ASSUME TypeOK, ConnectionsInv, NEW i \in Sessions, sessions[i].connected,
         ReleaseSession(i), UNCHANGED client
  PROVE  /\ ConnectionsInv'
         /\ sessions'[i].connected = ~sessions[i].connected
         /\ \A j \in Sessions : j # i => sessions'[j].connected = sessions[j].connected
         /\ \A j, d : Linked(j, d)' <=> Linked(j, d) /\ j # i
<1>1. /\ sessions \in [Sessions -> Session] /\ sockets \in [Fds -> Conns \cup {NoConn}]
      /\ SessionTableTypeOK
  BY DEF TypeOK, SessionTableTypeOK
<1> DEFINE fd == sessions[i].sockfd
<1>2. SessionsUnique'
  BY <1>1, UniqueRelease DEF ConnectionsInv
<1>3. fd \in Fds
  BY DEF ConnectionsInv
<1>4. /\ sessions'[i].connected = FALSE
      /\ \A j \in Sessions \ {i} : sessions'[j] = sessions[j]
      /\ sockets'[fd] = NoConn
      /\ \A f \in Fds \ {fd} : sockets'[f] = sockets[f]
  BY <1>1, <1>3 DEF ReleaseSession, Session
<1>5. \A j \in Sessions : sessions[j].connected /\ j # i => sessions[j].sockfd # fd
  BY DEF ConnectionsInv
<1> HIDE DEF fd
<1>6. \A f \in Fds : sockets'[f] # NoConn => f # fd /\ sockets'[f] = sockets[f]
  BY <1>4
<1>7. ConnectionsInv'
  BY <1>2, <1>4, <1>5, <1>6 DEF ConnectionsInv
<1>8. ASSUME NEW j, NEW d
      PROVE  Linked(j, d)' <=> Linked(j, d) /\ j # i
  BY <1>4, <1>5 DEF Linked, ConnOf
<1>9. sessions[i].connected \in BOOLEAN
  BY <1>1 DEF Session
<1> QED
  BY <1>4, <1>7, <1>8, <1>9

-----------------------------------------------------------------------------
(***************************************************************************)
(* What the invariant says of a state.                                     *)
(***************************************************************************)
\* The types that the invariant contains.
LEMMA PoliteTypes ==
  ASSUME PoliteInv
  PROVE  /\ TypeOK /\ UserRoomInv
         /\ packet_queue \in Seq(PacketInfo) /\ req_packet_queue \in Seq(PacketInfo)
         /\ res_packet_queue \in Seq(PacketInfo) /\ sending \in Seq(SUBSET Message)
         /\ users \in [Sessions -> User] /\ sessions \in [Sessions -> Session]
         /\ client \in [Conns -> Client] /\ rooms \in [Rooms -> SUBSET Node]
         /\ pc \in {"poll", "take"}
         /\ \A i \in Sessions : sessions[i].connected \in BOOLEAN /\ HasUser(i) \in BOOLEAN
BY ServerInvParts
   DEF PoliteInv, ServerInv, TypeOK, UserRoomsTypeOK, RedisTypeOK, PacketManagerTypeOK,
       SessionTableTypeOK, ClientsTypeOK, Session, HasUser

\* What OneAnswerPerRequest says, with the numbers named.
LEMMA OutstandingSum ==
  ASSUME PoliteInv, NEW c \in Conns
  PROVE  /\ Count(packet_queue, c) + Count(req_packet_queue, c) + Count(res_packet_queue, c)
              + Cardinality(Answers(c)) = IF client[c].waiting THEN 1 ELSE 0
         /\ Count(packet_queue, c) \in Nat /\ Count(req_packet_queue, c) \in Nat
         /\ Count(res_packet_queue, c) \in Nat /\ Cardinality(Answers(c)) \in Nat
<1>1. /\ Count(packet_queue, c) \in Nat /\ Count(req_packet_queue, c) \in Nat
      /\ Count(res_packet_queue, c) \in Nat /\ Cardinality(Answers(c)) \in Nat
  BY PoliteTypes, CountNone, AnswersNone DEF Answers
<1>2. Outstanding(c) = Count(packet_queue, c) + Count(req_packet_queue, c)
                         + Count(res_packet_queue, c) + Cardinality(Answers(c))
  BY DEF Outstanding, Count, Answers, AnswersIn
<1>3. Outstanding(c) = IF client[c].waiting THEN 1 ELSE 0
  BY DEF PoliteInv, OneAnswerPerRequest
<1> QED
  BY <1>1, <1>2, <1>3

\* Nothing is under way for a client that does not wait.
LEMMA Idle ==
  ASSUME PoliteInv, NEW c \in Conns, ~client[c].waiting
  PROVE  /\ \A p \in Packets(packet_queue) : p.conn # c
         /\ \A p \in Packets(req_packet_queue) : p.conn # c
         /\ \A p \in Packets(res_packet_queue) : p.conn # c
         /\ Answers(c) = {}
<1> DEFINE a == Count(packet_queue, c)
           b == Count(req_packet_queue, c)
           d == Count(res_packet_queue, c)
           e == Cardinality(Answers(c))
<1>1. a + b + d + e = 0 /\ a \in Nat /\ b \in Nat /\ d \in Nat /\ e \in Nat
  BY OutstandingSum
<1> HIDE DEF a, b, d, e
<1>2. a = 0 /\ b = 0 /\ d = 0 /\ e = 0
  BY <1>1
<1> USE DEF a, b, d, e
<1> QED
  BY <1>2, PoliteTypes, CountNone, AnswersNone DEF Answers

\* A step keeps the sum if it changes it by what it changes "waiting".
LEMMA SumKept ==
  ASSUME \A c \in Conns :
           Count(packet_queue', c) + Count(req_packet_queue', c) + Count(res_packet_queue', c)
             + Cardinality(AnswersIn(sending', c)) = IF client'[c].waiting THEN 1 ELSE 0
  PROVE  OneAnswerPerRequest'
BY DEF OneAnswerPerRequest, Outstanding, Count, AnswersIn

\* A packet stays good while its client stays linked and unchanged.
LEMMA PacketKept ==
  ASSUME NEW p, PacketOK(p),
         p.packet_id \notin HandoverIds =>
           /\ Linked(p.session_index, p.conn)'
           /\ client'[p.conn].user_id = client[p.conn].user_id
           /\ client'[p.conn].logged = client[p.conn].logged,
         LoginUnderWay(p) => LoginUnderWay(p)'
  PROVE  PacketOK(p)'
BY DEF PacketOK, HandoverIds

\* A login stays under way while its session is not touched and nobody logs in with its id.
LEMMA LoginKept ==
  ASSUME NEW p, LoginUnderWay(p), Linked(p.session_index, p.conn)', Settled(p.session_index)',
         users'[p.session_index].state = users[p.session_index].state,
         client'[p.conn].user_id = client[p.conn].user_id,
         \A j \in Sessions : users'[j].state \in {"LOGIN", "ROOM"} =>
           \/ users[j].state \in {"LOGIN", "ROOM"} /\ users'[j].user_id = users[j].user_id
           \/ users'[j].user_id # client[p.conn].user_id
  PROVE  LoginUnderWay(p)'
BY DEF LoginUnderWay

-----------------------------------------------------------------------------
(***************************************************************************)
(* A client connects.                                                      *)
(***************************************************************************)
\* A client is accepted: its session has a handover more, and nothing is under way for it.
LEMMA CreateSessionKeeps ==
  ASSUME PoliteInv, CreateSession
  PROVE  /\ ConnectionsInv' /\ HandoversInv'
         /\ PacketsInv' /\ RedisInv' /\ SendingInv'
         /\ ClientsInv' /\ AgreeInv' /\ MembersInv' /\ ListsAreUsers'
         /\ OneAnswerPerRequest'
         /\ Alive'
<1>1. PICK i \in Sessions, c \in Conns :
        /\ client[c].phase = "new"
        /\ AcceptSession(i, c)
        /\ client' = [client EXCEPT ![c].phase = "open"]
        /\ packet_queue' = Append(packet_queue, EmptyPacket(i, "SYS_ACCEPT", NoConn))
  BY DEF CreateSession
<1>2. /\ UNCHANGED <<users, index_user_map, rooms, req_packet_queue, res_packet_queue, pc, sending,
                     process>>
      /\ process = "running"
  BY DEF CreateSession, userRoomVars, redisVars, Running
<1> DEFINE a == EmptyPacket(i, "SYS_ACCEPT", NoConn)
<1>3. /\ a \in PacketInfo /\ a.session_index = i /\ a.packet_id = "SYS_ACCEPT"
      /\ a.conn = NoConn /\ a.intact
  <2>1. a \in PacketInfo
    BY EmptyPacketType DEF PacketIds
  <2> QED
    BY <2>1 DEF EmptyPacket
<1> HIDE DEF a
<1>4. packet_queue' = Append(packet_queue, a)
  BY <1>1 DEF a
<1>5. /\ ConnectionsInv' /\ ~sessions[i].connected
      /\ sessions'[i].connected = ~sessions[i].connected
      /\ \A j \in Sessions : j # i => sessions'[j].connected = sessions[j].connected
      /\ \A j : ~Linked(j, c)
      /\ \A j, d : Linked(j, d)' <=> Linked(j, d) \/ (j = i /\ d = c)
  BY <1>1, PoliteTypes, LinkAccept DEF PoliteInv
<1>6. /\ \A d \in Conns : /\ d # c => client'[d] = client[d]
                          /\ client'[d].user_id = client[d].user_id
                          /\ client'[d].logged = client[d].logged
                          /\ client'[d].waiting = client[d].waiting
                          /\ client'[d].in_room = client[d].in_room
      /\ client'[c].phase = "open"
  BY <1>1, PoliteTypes DEF Client
<1>7. /\ \A j \in Sessions \ {i} : Settled(j)' <=> Settled(j)
      /\ ~Settled(i)'
  <2>1. \A j \in Sessions \ {i} : HandoversOf(packet_queue', j) = HandoversOf(packet_queue, j)
    BY <1>3, <1>4, PoliteTypes, HandoversAppended
  <2>2. HandoversOf(packet_queue', i) = HandoversOf(packet_queue, i) \cup {Len(packet_queue) + 1}
    BY <1>3, <1>4, PoliteTypes, HandoversAppended DEF HandoverIds
  <2> QED
    BY <2>1, <2>2 DEF Settled
<1>8. \A j, d : Linked(j, d) => j \in Sessions \ {i} /\ d \in Conns \ {c}
  BY <1>5 DEF Linked
<1>9. HandoversInv'
  <2> SUFFICES ASSUME NEW j \in Sessions
               PROVE  Alternate(packet_queue', j, HasUser(j), sessions'[j].connected)
    BY <1>2 DEF HandoversInv, HasUser
  <2>1. Alternate(packet_queue, j, HasUser(j), sessions[j].connected)
    BY DEF PoliteInv, HandoversInv
  <2>2. CASE j = i
    <3>1. Alternate(packet_queue', i, HasUser(i), ~sessions[i].connected)
      BY <1>3, <1>4, <1>5, <2>1, <2>2, PoliteTypes, AlternateAppended DEF HandoverIds
    <3> QED
      BY <1>5, <2>2, <3>1
  <2>3. CASE j # i
    <3>1. Alternate(packet_queue', j, HasUser(j), sessions[j].connected)
      BY <1>3, <1>4, <2>1, <2>3, PoliteTypes, AlternateOther
    <3> QED
      BY <1>5, <2>3, <3>1
  <2> QED
    BY <2>2, <2>3
<1>10. ASSUME NEW p, LoginUnderWay(p) PROVE LoginUnderWay(p)'
  <2>1. p.session_index \in Sessions \ {i} /\ p.conn \in Conns \ {c} /\ Settled(p.session_index)
    BY <1>8, <1>10 DEF LoginUnderWay
  <2> QED
    BY <1>2, <1>5, <1>6, <1>7, <1>10, <2>1, LoginKept DEF LoginUnderWay
<1>11. PacketsInv'
  <2>1. ASSUME NEW p, PacketOK(p) PROVE PacketOK(p)'
    BY <1>5, <1>6, <1>8, <1>10, <2>1, PacketKept DEF PacketOK
  <2>2. PacketOK(a)'
    BY <1>3 DEF PacketOK, HandoverIds
  <2>3. \A p \in Packets(packet_queue') : PacketOK(p)'
    <3>1. Packets(packet_queue') = Packets(packet_queue) \cup {a}
      BY <1>3, <1>4, PoliteTypes, Appended
    <3> QED
      BY <2>1, <2>2, <3>1 DEF PoliteInv, PacketsInv
  <2>4. \A p \in Packets(packet_queue) :
          p.packet_id \notin HandoverIds => p.session_index # i
    BY <1>8 DEF PoliteInv, PacketsInv, PacketOK
  <2>5. RequestsLast(packet_queue')
    BY <1>3, <1>4, <2>4, PoliteTypes, HandoverAppended DEF PoliteInv, PacketsInv, HandoverIds
  <2> QED
    BY <2>3, <2>5 DEF PacketsInv
<1>12. RedisInv'
  BY <1>2, <1>10 DEF PoliteInv, RedisInv, QuestionOK, AnswerOK
<1>13. SendingInv'
  BY <1>2, <1>5, <1>6, <1>7, <1>8
     DEF PoliteInv, SendingInv, ResponseOK, NotificationOK
<1>14. ClientsInv'
  BY <1>1, <1>6 DEF PoliteInv, ClientsInv
<1>15. AgreeInv'
  <2> SUFFICES ASSUME NEW j \in Sessions, NEW d \in Conns, Linked(j, d)'
               PROVE  /\ ~Settled(j)' => ~client'[d].logged /\ ~client'[d].in_room
                      /\ Settled(j)' /\ Answers(d)' = {} => Agrees(client'[d], users'[j])
    BY DEF AgreeInv
  <2>1. Answers(d)' = Answers(d)
    BY <1>2 DEF Answers, AnswersIn
  <2>2. CASE j = i /\ d = c
    BY <1>1, <1>6, <1>7, <2>2 DEF PoliteInv, ClientsInv
  <2>3. CASE ~(j = i /\ d = c)
    BY <1>2, <1>5, <1>6, <1>7, <1>8, <2>1, <2>3 DEF PoliteInv, AgreeInv
  <2> QED
    BY <2>2, <2>3
<1>16. MembersInv'
  BY <1>2, <1>5, <1>7 DEF PoliteInv, MembersInv
<1>17. ListsAreUsers'
  BY <1>2 DEF PoliteInv, ListsAreUsers, Listed
<1>18. OneAnswerPerRequest'
  <2>1. ASSUME NEW d \in Conns PROVE Count(packet_queue', d) = Count(packet_queue, d)
    <3>1. Count(packet_queue, d) \in Nat /\ a.conn # d
      BY <1>3, PoliteTypes, CountNone, DataAssumption
    <3> QED
      BY <1>3, <1>4, <3>1, PoliteTypes, CountAppended
  <2> QED
    BY <1>2, <1>6, <2>1, OutstandingSum, SumKept DEF Answers
<1>19. Alive'
  BY <1>2 DEF Alive
<1> QED
  BY <1>5, <1>9, <1>11, <1>12, <1>13, <1>14, <1>15, <1>16, <1>17, <1>18, <1>19

-----------------------------------------------------------------------------
(***************************************************************************)
(* A request comes in.                                                     *)
(***************************************************************************)
\* A request carries its session and its connection, and is intact.
LEMMA RequestFields ==
  ASSUME NEW i \in Sessions, NEW c \in Conns, NEW p \in Requests(i, c)
  PROVE  /\ p \in PacketInfo
         /\ p.session_index = i /\ p.conn = c /\ p.intact
         /\ p.packet_id = "LOGIN_REQ" => p.user_id \in UserIds
<1>1. p \in PacketInfo
  BY RequestsType
<1>2. CASE \E u \in UserIds : p = [EmptyPacket(i, "LOGIN_REQ", c) EXCEPT !.user_id = u]
  BY <1>1, <1>2 DEF EmptyPacket
<1>3. CASE \E n \in RoomNumbers :
             p = [EmptyPacket(i, "ROOM_ENTER_REQ", c) EXCEPT !.room_number = n]
  BY <1>1, <1>3 DEF EmptyPacket
<1>4. CASE p \in {EmptyPacket(i, id, c) : id \in {"ROOM_LEAVE_REQ", "ROOM_CHAT_REQ"} \cup OtherIds}
  BY <1>1, <1>4 DEF EmptyPacket, OtherIds
<1> QED
  BY <1>2, <1>3, <1>4 DEF Requests

\* A client after it has sent a request.
LEMMA SendingClient ==
  ASSUME NEW cl \in Client, NEW p \in PacketInfo
  PROVE  /\ AfterSending(cl, p).waiting = TRUE
         /\ AfterSending(cl, p).phase = cl.phase
         /\ AfterSending(cl, p).logged = cl.logged
         /\ AfterSending(cl, p).in_room = cl.in_room
         /\ AfterSending(cl, p).user_id = IF p.packet_id = "LOGIN_REQ" THEN p.user_id
                                          ELSE cl.user_id
BY DEF AfterSending, Client

\* Nothing is overwritten when no request of the session is in the queue.
LEMMA NothingOverwritten ==
  ASSUME NEW q \in Seq(PacketInfo), NEW i,
         \A p \in Packets(q) : ~(p.session_index = i /\ p.packet_id \in RequestIds)
  PROVE  Overwritten(q, i) = q
<1>1. q = [k \in DOMAIN q |-> q[k]]
  OBVIOUS
<1>2. \A k \in DOMAIN q : ~(q[k].session_index = i /\ q[k].packet_id \in RequestIds)
  BY DEF Packets
<1>3. Overwritten(q, i) = [k \in DOMAIN q |-> q[k]]
  BY <1>2 DEF Overwritten
<1> QED
  BY <1>1, <1>3

\* A request is received: its client had nothing under way, so that no queued request is
\* overwritten, and has this one from now on.
LEMMA ReceiveRequestKeeps ==
  ASSUME RulesKept, PoliteInv, ReceiveRequest
  PROVE  /\ ConnectionsInv' /\ HandoversInv'
         /\ PacketsInv' /\ RedisInv' /\ SendingInv'
         /\ ClientsInv' /\ AgreeInv' /\ MembersInv' /\ ListsAreUsers'
         /\ OneAnswerPerRequest'
         /\ Alive'
<1>1. PICK i \in Sessions, coalesced \in BOOLEAN :
        /\ Readable(i)
        /\ \E p \in Requests(i, ConnOf(i)) :
             /\ MaySend(ConnOf(i), p)
             /\ client' = [client EXCEPT ![ConnOf(i)] = AfterSending(@, p)]
             /\ packet_queue' =
                  Append(IF coalesced THEN packet_queue ELSE Overwritten(packet_queue, i), p)
  BY DEF ReceiveRequest
<1>2. /\ UNCHANGED <<users, index_user_map, rooms, req_packet_queue, res_packet_queue, pc, sending,
                     sessions, available_session_index, sockets, process>>
      /\ process = "running"
  BY DEF ReceiveRequest, userRoomVars, redisVars, sessionVars, Running
<1> DEFINE c == ConnOf(i)
<1>3. Linked(i, c) /\ c \in Conns
  BY <1>1, PoliteTypes, LinkedOnce DEF Readable, PoliteInv
<1>4. PICK p \in Requests(i, c) :
        /\ MaySend(c, p)
        /\ client' = [client EXCEPT ![c] = AfterSending(@, p)]
        /\ packet_queue' =
             Append(IF coalesced THEN packet_queue ELSE Overwritten(packet_queue, i), p)
  BY <1>1
<1> HIDE DEF c
<1>5. /\ p \in PacketInfo
      /\ p.session_index = i /\ p.conn = c /\ p.intact
      /\ p.packet_id = "LOGIN_REQ" => p.user_id \in UserIds
  BY <1>3, RequestFields
<1>6. /\ p.packet_id \in RequestIds /\ p.packet_id \notin HandoverIds
      /\ client[c].phase = "open" /\ ~client[c].waiting
      /\ p.packet_id = "LOGIN_REQ" => ~client[c].logged /\ OwnId(c, p.user_id)
      /\ p.packet_id = "ROOM_ENTER_REQ" => p.room_number # MAX_CREATED_ROOMS
  BY <1>4 DEF MaySend, Keeps, RulesKept, Rules, RequestIds, HandoverIds
<1>7. /\ \A d \in Conns : d # c => client'[d] = client[d]
      /\ client'[c].waiting = TRUE /\ client'[c].phase = "open"
      /\ client'[c].logged = client[c].logged /\ client'[c].in_room = client[c].in_room
      /\ p.packet_id = "LOGIN_REQ" => client'[c].user_id = p.user_id
      /\ p.packet_id # "LOGIN_REQ" => client'[c].user_id = client[c].user_id
  <2>1. client[c] \in Client
    BY <1>3, PoliteTypes
  <2>2. /\ \A d \in Conns : d # c => client'[d] = client[d]
        /\ client'[c] = AfterSending(client[c], p)
    BY <1>3, <1>4, PoliteTypes
  <2> DEFINE new == AfterSending(client[c], p)
  <2>3. new.waiting = TRUE /\ new.phase = client[c].phase
    BY <1>5, <2>1, SendingClient
  <2>4. new.logged = client[c].logged
    BY <1>5, <2>1, SendingClient
  <2>5. new.in_room = client[c].in_room
    BY <1>5, <2>1, SendingClient
  <2>6. new.user_id = IF p.packet_id = "LOGIN_REQ" THEN p.user_id ELSE client[c].user_id
    BY <1>5, <2>1, SendingClient
  <2> HIDE DEF new
  <2> QED
    BY <1>6, <2>2, <2>3, <2>4, <2>5, <2>6 DEF new
<1>8. /\ \A r \in Packets(packet_queue) : r.conn # c
      /\ \A r \in Packets(req_packet_queue) : r.conn # c
      /\ \A r \in Packets(res_packet_queue) : r.conn # c
      /\ Answers(c) = {}
  BY <1>3, <1>6, Idle
<1>9. packet_queue' = Append(packet_queue, p)
  <2>1. ASSUME NEW r \in Packets(packet_queue), r.session_index = i, r.packet_id \in RequestIds
        PROVE  FALSE
    <3>1. Linked(i, r.conn)
      BY <2>1 DEF PoliteInv, PacketsInv, PacketOK, RequestIds, HandoverIds
    <3>2. r.conn = c
      BY <3>1, PoliteTypes, LinkedOnce DEF PoliteInv, c
    <3> QED
      BY <1>8, <3>2
  <2>2. Overwritten(packet_queue, i) = packet_queue
    BY <2>1, PoliteTypes, NothingOverwritten
  <2> QED
    BY <1>4, <2>2
<1>10. \A j \in Sessions : /\ HandoversOf(packet_queue', j) = HandoversOf(packet_queue, j)
                           /\ Settled(j)' <=> Settled(j)
  BY <1>5, <1>6, <1>9, PoliteTypes, HandoversAppended DEF Settled
<1>11. /\ \A j, d : Linked(j, d)' <=> Linked(j, d)
       /\ \A j, d : Linked(j, d) => j \in Sessions /\ d \in Conns
  BY <1>2 DEF Linked, ConnOf
<1>12. ConnectionsInv'
  <2>1. \A d \in Conns : client'[d].phase = client[d].phase
    BY <1>6, <1>7
  <2> QED
    BY <1>2, <2>1, PoliteTypes
       DEF PoliteInv, ConnectionsInv, SessionsUnique, TypeOK, SessionTableTypeOK
<1>13. HandoversInv'
  BY <1>2, <1>5, <1>6, <1>9, PoliteTypes, AlternateOther DEF PoliteInv, HandoversInv, HasUser
<1>14. ASSUME NEW r, LoginUnderWay(r), r.conn # c PROVE LoginUnderWay(r)'
  <2>1. r.session_index \in Sessions /\ r.conn \in Conns /\ client'[r.conn] = client[r.conn]
    BY <1>7, <1>11, <1>14 DEF LoginUnderWay
  <2> QED
    BY <1>2, <1>10, <1>11, <1>14, <2>1, LoginKept DEF LoginUnderWay
<1>15. PacketsInv'
  <2>1. ASSUME NEW r \in Packets(packet_queue) PROVE PacketOK(r)'
    <3>1. PacketOK(r) /\ r.conn # c
      BY <1>8 DEF PoliteInv, PacketsInv
    <3>2. r.packet_id \notin HandoverIds =>
            Linked(r.session_index, r.conn)' /\ client'[r.conn] = client[r.conn]
      BY <1>7, <1>11, <3>1 DEF PacketOK
    <3> QED
      BY <1>14, <3>1, <3>2, PacketKept
  <2>2. PacketOK(p)'
    BY <1>3, <1>5, <1>6, <1>7, <1>11 DEF PacketOK, RequestIds
  <2>3. \A r \in Packets(packet_queue') : PacketOK(r)'
    <3>1. Packets(packet_queue') = Packets(packet_queue) \cup {p}
      BY <1>5, <1>9, PoliteTypes, Appended
    <3> QED
      BY <2>1, <2>2, <3>1
  <2>4. RequestsLast(packet_queue')
    BY <1>5, <1>6, <1>9, PoliteTypes, RequestAppended DEF PoliteInv, PacketsInv
  <2> QED
    BY <2>3, <2>4 DEF PacketsInv
<1>16. RedisInv'
  BY <1>2, <1>8, <1>14 DEF PoliteInv, RedisInv, QuestionOK, AnswerOK
<1>17. SendingInv'
  <2>1. ASSUME NEW k \in DOMAIN sending, NEW m \in sending[k]
        PROVE  /\ m.packet_id \in ResponseIds => ResponseOK(k, m)'
               /\ m.packet_id \in NotificationIds => NotificationOK(m)'
    <3>1. m.conn # c
      BY <1>8, <2>1 DEF Answers, AnswersIn
    <3>2. /\ m.packet_id \in ResponseIds => ResponseOK(k, m)
          /\ m.packet_id \in NotificationIds => NotificationOK(m)
      BY <2>1 DEF PoliteInv, SendingInv
    <3>3. Linked(m.to, m.conn) => m.to \in Sessions /\ client'[m.conn] = client[m.conn]
      BY <1>7, <1>11, <3>1
    <3> QED
      BY <1>2, <1>10, <1>11, <3>2, <3>3 DEF ResponseOK, NotificationOK
  <2> QED
    BY <1>2, <2>1 DEF PoliteInv, SendingInv
<1>18. ClientsInv'
  <2>1. ASSUME NEW d \in Conns, d # c, client[d].phase = "open",
               client'[c].user_id = client[d].user_id, client[d].user_id # NoUserId
        PROVE  FALSE
    BY <1>3, <1>6, <1>7, <2>1 DEF PoliteInv, ClientsInv, OwnId
  <2>2. \A d \in Conns :
          /\ client'[d].phase # "open" => ~client'[d].waiting /\ ~client'[d].in_room
          /\ client'[d].phase = "new" => ~client'[d].logged /\ client'[d].user_id = NoUserId
    BY <1>7 DEF PoliteInv, ClientsInv
  <2>3. ASSUME NEW d \in Conns, NEW e \in Conns,
               client'[d].phase = "open", client'[e].phase = "open",
               client'[d].user_id = client'[e].user_id, client'[d].user_id # NoUserId
        PROVE  d = e
    BY <1>7, <2>1, <2>3 DEF PoliteInv, ClientsInv
  <2> QED
    BY <2>2, <2>3 DEF ClientsInv
<1>19. AgreeInv'
  <2> SUFFICES ASSUME NEW j \in Sessions, NEW d \in Conns, Linked(j, d)
               PROVE  /\ ~Settled(j)' => ~client'[d].logged /\ ~client'[d].in_room
                      /\ Settled(j)' /\ Answers(d)' = {} => Agrees(client'[d], users'[j])
    BY <1>11 DEF AgreeInv
  <2>1. Answers(d)' = Answers(d)
    BY <1>2 DEF Answers, AnswersIn
  <2>2. /\ ~Settled(j) => ~client[d].logged /\ ~client[d].in_room
        /\ Settled(j) /\ Answers(d) = {} => Agrees(client[d], users[j])
    BY DEF PoliteInv, AgreeInv
  <2>3. Agrees(client[d], users[j]) => Agrees(client'[d], users[j])
    BY <1>6, <1>7 DEF Agrees
  <2>4. client'[d].logged = client[d].logged /\ client'[d].in_room = client[d].in_room
    BY <1>7
  <2> QED
    BY <1>2, <1>10, <2>1, <2>2, <2>3, <2>4
<1>20. MembersInv'
  BY <1>2, <1>10 DEF PoliteInv, MembersInv
<1>21. ListsAreUsers'
  BY <1>2 DEF PoliteInv, ListsAreUsers, Listed
<1>22. OneAnswerPerRequest'
  <2>1. ASSUME NEW d \in Conns
        PROVE  /\ Count(packet_queue', d) = Count(packet_queue, d) + (IF d = c THEN 1 ELSE 0)
               /\ Count(packet_queue, d) \in Nat
    BY <1>5, <1>9, PoliteTypes, CountAppended, CountNone
  <2> SUFFICES ASSUME NEW d \in Conns
               PROVE  Count(packet_queue', d) + Count(req_packet_queue', d)
                        + Count(res_packet_queue', d) + Cardinality(AnswersIn(sending', d))
                          = IF client'[d].waiting THEN 1 ELSE 0
    BY SumKept
  <2>2. CASE d # c
    BY <1>2, <1>7, <2>1, <2>2, OutstandingSum DEF Answers
  <2>3. CASE d = c
    BY <1>2, <1>6, <1>7, <2>1, <2>3, OutstandingSum DEF Answers
  <2> QED
    BY <2>2, <2>3
<1>23. Alive'
  BY <1>2 DEF Alive
<1> QED
  BY <1>12, <1>13, <1>15, <1>16, <1>17, <1>18, <1>19, <1>20, <1>21, <1>22, <1>23

-----------------------------------------------------------------------------
(***************************************************************************)
(* The server notices that a client has left.                              *)
(***************************************************************************)
\* A client that is gone is noticed: it had nothing under way and its user is in no room,
\* so that nothing queued, listed or being sent refers to the session.
LEMMA ReceiveCloseKeeps ==
  ASSUME PoliteInv, ReceiveClose
  PROVE  /\ ConnectionsInv' /\ HandoversInv'
         /\ PacketsInv' /\ RedisInv' /\ SendingInv'
         /\ ClientsInv' /\ AgreeInv' /\ MembersInv' /\ ListsAreUsers'
         /\ OneAnswerPerRequest'
         /\ Alive'
<1>1. PICK i \in Sessions :
        Readable(i) /\ client[ConnOf(i)].phase = "gone" /\ CloseSession(i)
  BY DEF ReceiveClose
<1>2. /\ UNCHANGED <<users, index_user_map, rooms, req_packet_queue, res_packet_queue, pc, sending,
                     client, process>>
      /\ process = "running"
  BY DEF ReceiveClose, userRoomVars, redisVars, Running
<1> DEFINE c == ConnOf(i)
           e == EmptyPacket(i, "SYS_CLOSE", NoConn)
<1>3. Linked(i, c) /\ c \in Conns /\ sessions[i].connected
  BY <1>1, PoliteTypes, LinkedOnce DEF Readable, PoliteInv
<1>4. ~client[c].waiting /\ ~client[c].in_room
  BY <1>1, <1>3 DEF PoliteInv, ClientsInv
<1> HIDE DEF c
<1>5. /\ e \in PacketInfo /\ e.session_index = i /\ e.packet_id = "SYS_CLOSE"
      /\ e.conn = NoConn /\ e.intact
  <2>1. e \in PacketInfo
    BY EmptyPacketType DEF PacketIds
  <2> QED
    BY <2>1 DEF EmptyPacket
<1>6. packet_queue' = Overwritten(Append(packet_queue, e), i) /\ ReleaseSession(i)
  BY <1>1 DEF CloseSession
<1> HIDE DEF e
<1>7. /\ \A r \in Packets(packet_queue) : r.conn # c
      /\ \A r \in Packets(req_packet_queue) : r.conn # c
      /\ \A r \in Packets(res_packet_queue) : r.conn # c
      /\ Answers(c) = {}
  BY <1>3, <1>4, Idle
<1>8. /\ ConnectionsInv'
      /\ sessions'[i].connected = ~sessions[i].connected
      /\ \A j \in Sessions : j # i => sessions'[j].connected = sessions[j].connected
      /\ \A j, d : Linked(j, d)' <=> Linked(j, d) /\ j # i
  BY <1>2, <1>3, <1>6, PoliteTypes, LinkRelease DEF PoliteInv
<1>9. \A j, d : Linked(j, d) /\ d # c => j \in Sessions \ {i} /\ d \in Conns
  BY <1>3, PoliteTypes, LinkedOnce DEF Linked, PoliteInv
<1>10. \A r \in Packets(packet_queue) :
         r.packet_id \notin HandoverIds => r.session_index # i
  BY <1>7, <1>9 DEF PoliteInv, PacketsInv, PacketOK
<1>11. packet_queue' = Append(packet_queue, e)
  <2>1. Packets(Append(packet_queue, e)) = Packets(packet_queue) \cup {e}
    BY <1>5, PoliteTypes, Appended
  <2>2. ASSUME NEW r \in Packets(Append(packet_queue, e))
        PROVE  ~(r.session_index = i /\ r.packet_id \in RequestIds)
    BY <1>5, <1>10, <2>1 DEF RequestIds, HandoverIds
  <2>3. Append(packet_queue, e) \in Seq(PacketInfo)
    BY <1>5, PoliteTypes, Appended
  <2> QED
    BY <1>6, <2>2, <2>3, NothingOverwritten
<1>12. /\ \A j \in Sessions \ {i} : Settled(j)' <=> Settled(j)
       /\ ~Settled(i)'
  <2>1. \A j \in Sessions \ {i} : HandoversOf(packet_queue', j) = HandoversOf(packet_queue, j)
    BY <1>5, <1>11, PoliteTypes, HandoversAppended
  <2>2. HandoversOf(packet_queue', i) = HandoversOf(packet_queue, i) \cup {Len(packet_queue) + 1}
    BY <1>5, <1>11, PoliteTypes, HandoversAppended DEF HandoverIds
  <2> QED
    BY <2>1, <2>2 DEF Settled
<1>13. HandoversInv'
  <2> SUFFICES ASSUME NEW j \in Sessions
               PROVE  Alternate(packet_queue', j, HasUser(j), sessions'[j].connected)
    BY <1>2 DEF HandoversInv, HasUser
  <2>1. Alternate(packet_queue, j, HasUser(j), sessions[j].connected)
    BY DEF PoliteInv, HandoversInv
  <2>2. CASE j = i
    <3>1. Alternate(packet_queue', i, HasUser(i), ~sessions[i].connected)
      BY <1>3, <1>5, <1>11, <2>1, <2>2, PoliteTypes, AlternateAppended DEF HandoverIds
    <3> QED
      BY <1>8, <2>2, <3>1
  <2>3. CASE j # i
    <3>1. Alternate(packet_queue', j, HasUser(j), sessions[j].connected)
      BY <1>5, <1>11, <2>1, <2>3, PoliteTypes, AlternateOther
    <3> QED
      BY <1>8, <2>3, <3>1
  <2> QED
    BY <2>2, <2>3
<1>14. ASSUME NEW r, LoginUnderWay(r), r.conn # c PROVE LoginUnderWay(r)'
  <2>1. r.session_index \in Sessions \ {i} /\ r.conn \in Conns /\ Settled(r.session_index)
    BY <1>9, <1>14 DEF LoginUnderWay
  <2> QED
    BY <1>2, <1>8, <1>12, <1>14, <2>1, LoginKept DEF LoginUnderWay
<1>15. PacketsInv'
  <2>1. ASSUME NEW r \in Packets(packet_queue) PROVE PacketOK(r)'
    <3>1. PacketOK(r) /\ r.conn # c
      BY <1>7 DEF PoliteInv, PacketsInv
    <3>2. r.packet_id \notin HandoverIds => Linked(r.session_index, r.conn)'
      BY <1>8, <1>9, <3>1 DEF PacketOK
    <3> QED
      BY <1>2, <1>14, <3>1, <3>2, PacketKept
  <2>2. PacketOK(e)'
    BY <1>5 DEF PacketOK, HandoverIds
  <2>3. \A r \in Packets(packet_queue') : PacketOK(r)'
    <3>1. Packets(packet_queue') = Packets(packet_queue) \cup {e}
      BY <1>5, <1>11, PoliteTypes, Appended
    <3> QED
      BY <2>1, <2>2, <3>1
  <2>4. RequestsLast(packet_queue')
    BY <1>5, <1>10, <1>11, PoliteTypes, HandoverAppended DEF PoliteInv, PacketsInv, HandoverIds
  <2> QED
    BY <2>3, <2>4 DEF PacketsInv
<1>16. RedisInv'
  BY <1>2, <1>7, <1>14 DEF PoliteInv, RedisInv, QuestionOK, AnswerOK
<1>17. SendingInv'
  <2>1. ASSUME NEW k \in DOMAIN sending, NEW m \in sending[k]
        PROVE  /\ m.packet_id \in ResponseIds => ResponseOK(k, m)'
               /\ m.packet_id \in NotificationIds => NotificationOK(m)'
    <3>1. m.conn # c
      BY <1>7, <2>1 DEF Answers, AnswersIn
    <3>2. /\ m.packet_id \in ResponseIds => ResponseOK(k, m)
          /\ m.packet_id \in NotificationIds => NotificationOK(m)
      BY <2>1 DEF PoliteInv, SendingInv
    <3>3. Linked(m.to, m.conn) => m.to \in Sessions \ {i} /\ Linked(m.to, m.conn)'
      BY <1>8, <1>9, <3>1
    <3> QED
      BY <1>2, <1>12, <3>2, <3>3 DEF ResponseOK, NotificationOK
  <2> QED
    BY <1>2, <2>1 DEF PoliteInv, SendingInv
<1>18. ClientsInv'
  BY <1>2 DEF PoliteInv, ClientsInv
<1>19. AgreeInv'
  <2> SUFFICES ASSUME NEW j \in Sessions, NEW d \in Conns, Linked(j, d)'
               PROVE  /\ ~Settled(j)' => ~client'[d].logged /\ ~client'[d].in_room
                      /\ Settled(j)' /\ Answers(d)' = {} => Agrees(client'[d], users'[j])
    BY DEF AgreeInv
  <2>1. Answers(d)' = Answers(d)
    BY <1>2 DEF Answers, AnswersIn
  <2> QED
    BY <1>2, <1>8, <1>12, <2>1 DEF PoliteInv, AgreeInv
<1>20. MembersInv'
  <2>1. users[i].state # "ROOM"
    <3>1. Settled(i) => Agrees(client[c], users[i])
      BY <1>3, <1>7 DEF PoliteInv, AgreeInv
    <3>2. ~Settled(i) => users[i].state # "ROOM"
      BY DEF PoliteInv, MembersInv
    <3> QED
      BY <1>4, <3>1, <3>2 DEF Agrees
  <2> QED
    BY <1>2, <1>8, <1>12, <2>1 DEF PoliteInv, MembersInv
<1>21. ListsAreUsers'
  BY <1>2 DEF PoliteInv, ListsAreUsers, Listed
<1>22. OneAnswerPerRequest'
  <2>1. ASSUME NEW d \in Conns PROVE Count(packet_queue', d) = Count(packet_queue, d)
    <3>1. Count(packet_queue, d) \in Nat /\ e.conn # d
      BY <1>5, PoliteTypes, CountNone, DataAssumption
    <3> QED
      BY <1>5, <1>11, <3>1, PoliteTypes, CountAppended
  <2> QED
    BY <1>2, <2>1, OutstandingSum, SumKept DEF Answers
<1>23. Alive'
  BY <1>2 DEF Alive
<1> QED
  BY <1>8, <1>13, <1>15, <1>16, <1>17, <1>18, <1>19, <1>20, <1>21, <1>22, <1>23

-----------------------------------------------------------------------------
(***************************************************************************)
(* Steps that move logins from queue to queue, or only a client's phase.   *)
(***************************************************************************)
\* What depends on the table, the sessions and the handovers is kept when these are.
LEMMA TableKept ==
  ASSUME PoliteInv,
         UNCHANGED <<users, index_user_map, rooms, sessions, available_session_index, sockets,
                     sending>>,
         packet_queue' \in Seq(PacketInfo),
         \A i \in Sessions : HandoversOf(packet_queue', i) = HandoversOf(packet_queue, i),
         \A c \in Conns : /\ client'[c].user_id = client[c].user_id
                          /\ client'[c].logged = client[c].logged
                          /\ client'[c].in_room = client[c].in_room
                          /\ client'[c].phase = "new" <=> client[c].phase = "new"
  PROVE  /\ ConnectionsInv' /\ AgreeInv' /\ MembersInv' /\ ListsAreUsers'
         /\ \A j, d : Linked(j, d)' <=> Linked(j, d)
         /\ \A p : LoginUnderWay(p) => LoginUnderWay(p)'
         /\ \A p : PacketOK(p) => PacketOK(p)'
<1>1. /\ \A j, d : Linked(j, d)' <=> Linked(j, d)
      /\ \A j, d : Linked(j, d) => j \in Sessions /\ d \in Conns
  BY DEF Linked, ConnOf
<1>2. \A j \in Sessions : Settled(j)' <=> Settled(j)
  BY DEF Settled
<1>3. ConnectionsInv'
  BY PoliteTypes DEF PoliteInv, ConnectionsInv, SessionsUnique, TypeOK, SessionTableTypeOK
<1>4. AgreeInv'
  BY <1>1, <1>2 DEF PoliteInv, AgreeInv, Agrees, Answers
<1>5. MembersInv' /\ ListsAreUsers'
  BY <1>2 DEF PoliteInv, MembersInv, ListsAreUsers, Listed
<1>6. ASSUME NEW p, LoginUnderWay(p) PROVE LoginUnderWay(p)'
  <2>1. Linked(p.session_index, p.conn)
    BY <1>6 DEF LoginUnderWay
  <2>2. p.session_index \in Sessions /\ p.conn \in Conns
    BY <1>1, <2>1
  <2> QED
    BY <1>1, <1>2, <1>6, <2>1, <2>2 DEF LoginUnderWay
<1>7. ASSUME NEW p, PacketOK(p) PROVE PacketOK(p)'
  <2>1. p.packet_id \notin HandoverIds => Linked(p.session_index, p.conn) /\ p.conn \in Conns
    BY <1>1, <1>7 DEF PacketOK
  <2> QED
    BY <1>1, <1>6, <1>7, <2>1, PacketKept
<1> QED
  BY <1>1, <1>3, <1>4, <1>5, <1>6, <1>7

\* An answer of Redis moves to the packet queue, behind the handovers of its session.
LEMMA PollRedisKeeps ==
  ASSUME PoliteInv, PollRedis, UNCHANGED <<sessionVars, client>>
  PROVE  /\ ConnectionsInv' /\ HandoversInv'
         /\ PacketsInv' /\ RedisInv' /\ SendingInv'
         /\ ClientsInv' /\ AgreeInv' /\ MembersInv' /\ ListsAreUsers'
         /\ OneAnswerPerRequest'
         /\ Alive'
<1>1. /\ UNCHANGED <<users, index_user_map, rooms, req_packet_queue, sending, process,
                     sessions, available_session_index, sockets, client>>
      /\ sending = <<>>
  BY DEF PollRedis, userRoomVars, sessionVars
<1>2. \/ /\ res_packet_queue # <<>>
         /\ packet_queue' = Append(packet_queue, Head(res_packet_queue))
         /\ res_packet_queue' = Tail(res_packet_queue)
      \/ UNCHANGED <<packet_queue, res_packet_queue>>
  BY DEF PollRedis
<1> DEFINE h == Head(res_packet_queue)
<1>3. CASE UNCHANGED <<packet_queue, res_packet_queue>>
  <2>1. /\ ConnectionsInv' /\ AgreeInv' /\ MembersInv' /\ ListsAreUsers'
        /\ \A p : LoginUnderWay(p) => LoginUnderWay(p)'
        /\ \A p : PacketOK(p) => PacketOK(p)'
    BY <1>1, <1>3, PoliteTypes, TableKept
  <2>2. HandoversInv' /\ ClientsInv' /\ Alive'
    BY <1>1, <1>3 DEF PoliteInv, HandoversInv, HasUser, ClientsInv, Alive
  <2>3. PacketsInv' /\ RedisInv'
    BY <1>1, <1>3, <2>1 DEF PoliteInv, PacketsInv, RedisInv, QuestionOK, AnswerOK
  <2>4. SendingInv'
    BY <1>1 DEF SendingInv
  <2>5. OneAnswerPerRequest'
    BY <1>1, <1>3, OutstandingSum, SumKept DEF Answers
  <2> QED
    BY <2>1, <2>2, <2>3, <2>4, <2>5
<1>4. CASE /\ res_packet_queue # <<>>
           /\ packet_queue' = Append(packet_queue, h)
           /\ res_packet_queue' = Tail(res_packet_queue)
  <2>1. /\ h \in PacketInfo /\ h \in Packets(res_packet_queue)
        /\ Packets(Tail(res_packet_queue)) \subseteq Packets(res_packet_queue)
    BY <1>4, PoliteTypes, Taken
  <2> HIDE DEF h
  <2>2. LoginUnderWay(h) /\ h.intact /\ h.packet_id = "REDIS_LOGIN_RES"
    BY <2>1 DEF PoliteInv, RedisInv, AnswerOK
  <2>3. h.packet_id \notin HandoverIds
    BY <2>2 DEF HandoverIds
  <2>4. /\ packet_queue' \in Seq(PacketInfo)
        /\ Packets(packet_queue') = Packets(packet_queue) \cup {h}
        /\ \A i \in Sessions : HandoversOf(packet_queue', i) = HandoversOf(packet_queue, i)
    BY <1>4, <2>1, <2>3, PoliteTypes, Appended, HandoversAppended
  <2>5. /\ ConnectionsInv' /\ AgreeInv' /\ MembersInv' /\ ListsAreUsers'
        /\ \A p : LoginUnderWay(p) => LoginUnderWay(p)'
        /\ \A p : PacketOK(p) => PacketOK(p)'
    BY <1>1, <2>4, TableKept
  <2>6. HandoversInv'
    BY <1>1, <1>4, <2>1, <2>3, PoliteTypes, AlternateOther DEF PoliteInv, HandoversInv, HasUser
  <2>7. ClientsInv' /\ Alive'
    BY <1>1 DEF PoliteInv, ClientsInv, Alive
  <2>8. PacketsInv'
    <3>1. PacketOK(h)
      BY <2>2 DEF PacketOK, LoginUnderWay, HandoverIds
    <3>2. RequestsLast(packet_queue')
      BY <1>4, <2>1, <2>3, PoliteTypes, RequestAppended DEF PoliteInv, PacketsInv
    <3>3. \A p \in Packets(packet_queue') : PacketOK(p)'
      BY <2>4, <2>5, <3>1 DEF PoliteInv, PacketsInv
    <3> QED
      BY <3>2, <3>3 DEF PacketsInv
  <2>9. RedisInv'
    BY <1>1, <1>4, <2>1, <2>5 DEF PoliteInv, RedisInv, QuestionOK, AnswerOK
  <2>10. SendingInv'
    BY <1>1 DEF SendingInv
  <2>11. OneAnswerPerRequest'
    <3> SUFFICES ASSUME NEW d \in Conns
                 PROVE  Count(packet_queue', d) + Count(req_packet_queue', d)
                          + Count(res_packet_queue', d) + Cardinality(AnswersIn(sending', d))
                            = IF client'[d].waiting THEN 1 ELSE 0
      BY SumKept
    <3>1. Count(packet_queue', d) = Count(packet_queue, d) + (IF h.conn = d THEN 1 ELSE 0)
      BY <1>4, <2>1, PoliteTypes, CountAppended
    <3>2. Count(res_packet_queue, d) = Count(res_packet_queue', d) + (IF h.conn = d THEN 1 ELSE 0)
      BY <1>4, PoliteTypes, CountTaken DEF h
    <3>3. res_packet_queue' \in Seq(PacketInfo) /\ Count(res_packet_queue', d) \in Nat
      BY <1>4, PoliteTypes, Taken, CountNone
    <3> QED
      BY <1>1, <3>1, <3>2, <3>3, OutstandingSum DEF Answers
  <2> QED
    BY <2>5, <2>6, <2>7, <2>8, <2>9, <2>10, <2>11
<1> QED
  BY <1>2, <1>3, <1>4

\* What Redis answers to a question.
LEMMA AnswerFields ==
  ASSUME NEW p \in PacketInfo
  PROVE  /\ LoginResponse(p) \in PacketInfo
         /\ LoginResponse(p).session_index = p.session_index
         /\ LoginResponse(p).conn = p.conn
         /\ LoginResponse(p).packet_id = "REDIS_LOGIN_RES"
         /\ LoginResponse(p).intact = TRUE
         /\ LoginResponse(p).code = "NONE" => LoginResponse(p).user_id = p.user_id
<1>1. p.session_index \in Sessions /\ p.conn \in Conns \cup {NoConn}
      /\ p.user_id \in UserIds \cup {NoUserId}
  BY DEF PacketInfo
<1>2. EmptyPacket(p.session_index, "REDIS_LOGIN_RES", p.conn) \in PacketInfo
  BY <1>1, EmptyPacketType DEF PacketIds
<1>3. "NONE" \in Codes /\ "USER_NOT_EXIST" \in Codes
  BY DEF Codes
<1>4. LoginResponse(p) \in PacketInfo
  BY <1>1, <1>2, <1>3 DEF LoginResponse, PacketInfo
<1>5. /\ LoginResponse(p).session_index = p.session_index
      /\ LoginResponse(p).conn = p.conn
      /\ LoginResponse(p).packet_id = "REDIS_LOGIN_RES"
      /\ LoginResponse(p).intact = TRUE
  BY DEF LoginResponse, EmptyPacket
<1>6. LoginResponse(p).code = "NONE" => LoginResponse(p).user_id = p.user_id
  BY DEF LoginResponse, EmptyPacket
<1> QED
  BY <1>4, <1>5, <1>6

\* Redis answers: the login stays under way, and its one packet moves on.
LEMMA ProcessRedisPacketKeeps ==
  ASSUME PoliteInv, ProcessRedisPacket,
         UNCHANGED <<userRoomVars, packetVars, sessionVars, client>>
  PROVE  /\ ConnectionsInv' /\ HandoversInv'
         /\ PacketsInv' /\ RedisInv' /\ SendingInv'
         /\ ClientsInv' /\ AgreeInv' /\ MembersInv' /\ ListsAreUsers'
         /\ OneAnswerPerRequest'
         /\ Alive'
<1> DEFINE q == req_packet_queue
           h == Head(q)
           a == LoginResponse(h)
<1>1. /\ q # <<>> /\ req_packet_queue' = Tail(q) /\ res_packet_queue' = Append(res_packet_queue, a)
      /\ UNCHANGED <<users, index_user_map, rooms, packet_queue, sending, process, pc,
                     sessions, available_session_index, sockets, client>>
  BY DEF ProcessRedisPacket, userRoomVars, packetVars, sessionVars
<1>2. h \in PacketInfo /\ h \in Packets(q) /\ Packets(Tail(q)) \subseteq Packets(q)
  BY <1>1, PoliteTypes, Taken
<1>3. LoginUnderWay(h) /\ h.code = "NONE"
  BY <1>2 DEF PoliteInv, RedisInv, QuestionOK
<1>4. h.user_id = client[h.conn].user_id
  BY <1>3 DEF LoginUnderWay
<1> HIDE DEF h
<1>5. /\ a \in PacketInfo /\ a.session_index = h.session_index /\ a.conn = h.conn
      /\ a.packet_id = "REDIS_LOGIN_RES" /\ a.intact = TRUE
      /\ a.code = "NONE" => a.user_id = h.user_id
  BY <1>2, AnswerFields
<1> HIDE DEF a
<1>6. AnswerOK(a)
  BY <1>3, <1>4, <1>5 DEF LoginUnderWay, AnswerOK
<1>7. /\ ConnectionsInv' /\ AgreeInv' /\ MembersInv' /\ ListsAreUsers'
      /\ \A p : LoginUnderWay(p) => LoginUnderWay(p)'
      /\ \A p : PacketOK(p) => PacketOK(p)'
  BY <1>1, PoliteTypes, TableKept
<1>8. HandoversInv' /\ ClientsInv' /\ Alive'
  BY <1>1 DEF PoliteInv, HandoversInv, HasUser, ClientsInv, Alive
<1>9. PacketsInv'
  BY <1>1, <1>7 DEF PoliteInv, PacketsInv
<1>10. RedisInv'
  <2>1. Packets(res_packet_queue') = Packets(res_packet_queue) \cup {a}
    BY <1>1, <1>5, PoliteTypes, Appended
  <2>2. \A p \in Packets(res_packet_queue') : AnswerOK(p)'
    BY <1>6, <1>7, <2>1 DEF PoliteInv, RedisInv, AnswerOK
  <2>3. \A p \in Packets(req_packet_queue') : QuestionOK(p)'
    BY <1>1, <1>2, <1>7 DEF PoliteInv, RedisInv, QuestionOK
  <2> QED
    BY <2>2, <2>3 DEF RedisInv
<1>11. SendingInv'
  BY <1>1 DEF PoliteInv, SendingInv, ResponseOK, NotificationOK, Linked, ConnOf, Settled
<1>12. OneAnswerPerRequest'
  <2> SUFFICES ASSUME NEW d \in Conns
               PROVE  Count(packet_queue', d) + Count(req_packet_queue', d)
                        + Count(res_packet_queue', d) + Cardinality(AnswersIn(sending', d))
                          = IF client'[d].waiting THEN 1 ELSE 0
    BY SumKept
  <2>1. Count(res_packet_queue', d) = Count(res_packet_queue, d) + (IF a.conn = d THEN 1 ELSE 0)
    BY <1>1, <1>5, PoliteTypes, CountAppended
  <2>2. Count(q, d) = Count(Tail(q), d) + (IF h.conn = d THEN 1 ELSE 0)
    BY <1>1, PoliteTypes, CountTaken DEF h
  <2>3. Tail(q) \in Seq(PacketInfo) /\ Count(Tail(q), d) \in Nat
    BY <1>1, PoliteTypes, Taken, CountNone
  <2> QED
    BY <1>1, <1>5, <2>1, <2>2, <2>3, OutstandingSum DEF Answers
<1> QED
  BY <1>7, <1>8, <1>9, <1>10, <1>11, <1>12

\* Redis is lost: the process ends, and nothing else changes.
LEMMA LoseRedisKeeps ==
  ASSUME PoliteInv, LoseRedis, UNCHANGED <<userRoomVars, packetVars, sessionVars, client>>
  PROVE  /\ ConnectionsInv' /\ HandoversInv'
         /\ PacketsInv' /\ RedisInv' /\ SendingInv'
         /\ ClientsInv' /\ AgreeInv' /\ MembersInv' /\ ListsAreUsers'
         /\ OneAnswerPerRequest'
         /\ Alive'
<1>1. /\ UNCHANGED <<users, index_user_map, rooms, packet_queue, req_packet_queue,
                     res_packet_queue, sending, pc, sessions, available_session_index, sockets,
                     client>>
      /\ process' = "redis_reply"
  BY DEF LoseRedis, userRoomVars, packetVars, sessionVars, redisVars
<1>2. /\ ConnectionsInv' /\ AgreeInv' /\ MembersInv' /\ ListsAreUsers'
      /\ \A p : LoginUnderWay(p) => LoginUnderWay(p)'
      /\ \A p : PacketOK(p) => PacketOK(p)'
  BY <1>1, PoliteTypes, TableKept
<1>3. HandoversInv' /\ ClientsInv' /\ Alive'
  BY <1>1 DEF PoliteInv, HandoversInv, HasUser, ClientsInv, Alive
<1>4. PacketsInv' /\ RedisInv'
  BY <1>1, <1>2 DEF PoliteInv, PacketsInv, RedisInv, QuestionOK, AnswerOK
<1>5. SendingInv'
  BY <1>1 DEF PoliteInv, SendingInv, ResponseOK, NotificationOK, Linked, ConnOf, Settled
<1>6. OneAnswerPerRequest'
  BY <1>1 DEF PoliteInv, OneAnswerPerRequest, Outstanding
<1> QED
  BY <1>2, <1>3, <1>4, <1>5, <1>6

-----------------------------------------------------------------------------
(***************************************************************************)
(* A client leaves, outside rooms and with nothing under way.              *)
(***************************************************************************)
\* A client leaves: it waits for nothing and is in no room.
LEMMA ClientLeavesKeeps ==
  ASSUME RulesKept, PoliteInv, ClientLeaves
  PROVE  /\ ConnectionsInv' /\ HandoversInv'
         /\ PacketsInv' /\ RedisInv' /\ SendingInv'
         /\ ClientsInv' /\ AgreeInv' /\ MembersInv' /\ ListsAreUsers'
         /\ OneAnswerPerRequest'
         /\ Alive'
<1>1. PICK c \in Conns : Disconnect(c)
  BY DEF ClientLeaves
<1>2. /\ UNCHANGED <<users, index_user_map, rooms, packet_queue, req_packet_queue,
                     res_packet_queue, sending, pc, sessions, available_session_index, sockets,
                     process>>
  BY DEF ClientLeaves, userRoomVars, packetVars, sessionVars, redisVars
<1>3. /\ client[c].phase = "open" /\ ~client[c].waiting /\ ~client[c].in_room
      /\ client' = [client EXCEPT ![c].phase = "gone"]
  BY <1>1 DEF Disconnect, Keeps, RulesKept, Rules
<1>4. /\ \A d \in Conns : /\ d # c => client'[d] = client[d]
                          /\ client'[d].user_id = client[d].user_id
                          /\ client'[d].logged = client[d].logged
                          /\ client'[d].waiting = client[d].waiting
                          /\ client'[d].in_room = client[d].in_room
      /\ client'[c].phase = "gone"
  BY <1>3, PoliteTypes DEF Client
<1>5. /\ ConnectionsInv' /\ AgreeInv' /\ MembersInv' /\ ListsAreUsers'
      /\ \A p : LoginUnderWay(p) => LoginUnderWay(p)'
      /\ \A p : PacketOK(p) => PacketOK(p)'
  <2>1. \A d \in Conns : client'[d].phase = "new" <=> client[d].phase = "new"
    BY <1>3, <1>4
  <2> QED
    BY <1>2, <1>4, <2>1, PoliteTypes, TableKept
<1>6. HandoversInv' /\ Alive'
  BY <1>2 DEF PoliteInv, HandoversInv, HasUser, Alive
<1>7. ClientsInv'
  BY <1>3, <1>4 DEF PoliteInv, ClientsInv
<1>8. PacketsInv' /\ RedisInv'
  BY <1>2, <1>5 DEF PoliteInv, PacketsInv, RedisInv, QuestionOK, AnswerOK
<1>9. SendingInv'
  <2>1. ASSUME NEW k \in DOMAIN sending, NEW m \in sending[k]
        PROVE  /\ m.packet_id \in ResponseIds => ResponseOK(k, m)'
               /\ m.packet_id \in NotificationIds => NotificationOK(m)'
    <3>1. m.conn # c
      BY <1>3, <2>1, Idle DEF Answers, AnswersIn
    <3>2. /\ m.packet_id \in ResponseIds => ResponseOK(k, m)
          /\ m.packet_id \in NotificationIds => NotificationOK(m)
      BY <2>1 DEF PoliteInv, SendingInv
    <3>3. Linked(m.to, m.conn) => Linked(m.to, m.conn)' /\ client'[m.conn] = client[m.conn]
      BY <1>2, <1>4, <3>1 DEF Linked, ConnOf
    <3> QED
      BY <1>2, <3>2, <3>3 DEF ResponseOK, NotificationOK, Settled
  <2> QED
    BY <1>2, <2>1 DEF PoliteInv, SendingInv
<1>10. OneAnswerPerRequest'
  BY <1>2, <1>4 DEF PoliteInv, OneAnswerPerRequest, Outstanding
<1> QED
  BY <1>5, <1>6, <1>7, <1>8, <1>9, <1>10

-----------------------------------------------------------------------------
(***************************************************************************)
(* The packet thread sends.                                                *)
(***************************************************************************)
\* A client that is being answered waits, for that answer and nothing else.
LEMMA Answering ==
  ASSUME PoliteInv, NEW c \in Conns, Answers(c) # {}
  PROVE  /\ client[c].waiting /\ client[c].phase = "open"
         /\ \A p \in Packets(packet_queue) : p.conn # c
         /\ \A p \in Packets(req_packet_queue) : p.conn # c
         /\ \A p \in Packets(res_packet_queue) : p.conn # c
         /\ Cardinality(Answers(c)) = 1
<1> DEFINE a == Count(packet_queue, c)
           b == Count(req_packet_queue, c)
           d == Count(res_packet_queue, c)
           e == Cardinality(Answers(c))
<1>1. /\ a + b + d + e = IF client[c].waiting THEN 1 ELSE 0
      /\ a \in Nat /\ b \in Nat /\ d \in Nat /\ e \in Nat
  BY OutstandingSum
<1>2. e # 0
  BY PoliteTypes, AnswersNone DEF Answers
<1> HIDE DEF a, b, d, e
<1>3. a = 0 /\ b = 0 /\ d = 0 /\ e = 1 /\ client[c].waiting
  BY <1>1, <1>2
<1>4. client[c].phase = "open"
  BY <1>3 DEF PoliteInv, ClientsInv
<1> USE DEF a, b, d, e
<1> QED
  BY <1>3, <1>4, PoliteTypes, CountNone

\* Whatever SendPacket is called with next reaches its client: a response the one that
\* asked, a notification one that is in a room.
LEMMA PendingReaches ==
  ASSUME PoliteInv, NEW m \in PendingSends
  PROVE  /\ sending # <<>> /\ 1 \in DOMAIN sending /\ m \in sending[1] /\ m \in Message
         /\ Head(sending) = sending[1]
         /\ m.to \in Sessions /\ Linked(m.to, ConnOf(m.to)) /\ Settled(m.to)
         /\ client[ConnOf(m.to)].phase = "open"
         /\ m.packet_id \in ResponseIds =>
              ConnOf(m.to) = m.conn /\ ResponseOK(1, m) /\ Answers(m.conn) # {}
         /\ m.packet_id \in NotificationIds => client[ConnOf(m.to)].in_room
         /\ m.packet_id \in ResponseIds \/ m.packet_id \in NotificationIds
<1>1. /\ sending # <<>> /\ 1 \in DOMAIN sending /\ m \in sending[1] /\ m \in Message
      /\ Head(sending) = sending[1]
  BY PoliteTypes DEF PendingSends
<1>2. m.packet_id \in ResponseIds \/ m.packet_id \in NotificationIds
  BY <1>1 DEF Message
<1>3. ASSUME m.packet_id \in ResponseIds
      PROVE  /\ m.to \in Sessions /\ Linked(m.to, ConnOf(m.to)) /\ Settled(m.to)
             /\ client[ConnOf(m.to)].phase = "open"
             /\ ConnOf(m.to) = m.conn /\ ResponseOK(1, m) /\ Answers(m.conn) # {}
  <2>1. ResponseOK(1, m)
    BY <1>1, <1>3 DEF PoliteInv, SendingInv
  <2>2. /\ Linked(m.to, m.conn) /\ Settled(m.to) /\ m.to \in Sessions /\ m.conn \in Conns
        /\ ConnOf(m.to) = m.conn
    BY <2>1 DEF ResponseOK, Linked
  <2>3. Answers(m.conn) # {}
    BY <1>1 DEF Answers, AnswersIn
  <2>4. client[m.conn].phase = "open"
    BY <2>2, <2>3, Answering
  <2> QED
    BY <2>1, <2>2, <2>3, <2>4
<1>4. ASSUME m.packet_id \in NotificationIds
      PROVE  /\ m.to \in Sessions /\ Linked(m.to, ConnOf(m.to)) /\ Settled(m.to)
             /\ client[ConnOf(m.to)].phase = "open" /\ client[ConnOf(m.to)].in_room
  <2> DEFINE i == m.to
             c == ConnOf(i)
  <2>1. NotificationOK(m)
    BY <1>1, <1>4 DEF PoliteInv, SendingInv
  <2>2. i \in Sessions /\ users[i].state = "ROOM" /\ m.conn = NoConn
    BY <2>1 DEF NotificationOK
  <2>3. sessions[i].connected /\ Settled(i)
    BY <2>2 DEF PoliteInv, MembersInv
  <2>4. Linked(i, c) /\ c \in Conns
    BY <2>2, <2>3, PoliteTypes, LinkedOnce DEF PoliteInv
  <2> HIDE DEF c
  <2>5. client[c].in_room
    <3>1. CASE Answers(c) = {}
      BY <2>2, <2>3, <2>4, <3>1 DEF PoliteInv, AgreeInv, Agrees
    <3>2. CASE Answers(c) # {}
      <4>1. PICK k \in DOMAIN sending : \E r \in sending[k] : r.conn = c
        BY <3>2 DEF Answers, AnswersIn
      <4>2. PICK r \in sending[k] : r.conn = c
        BY <4>1
      <4>3. r \in Message
        BY <4>1, <4>2, PoliteTypes
      <4>4. r.packet_id \in ResponseIds
        BY <2>4, <4>1, <4>2, <4>3, DataAssumption
           DEF PoliteInv, SendingInv, NotificationOK, Message
      <4>5. ResponseOK(k, r)
        BY <4>1, <4>2, <4>4 DEF PoliteInv, SendingInv
      <4>6. r # m /\ k # 1
        BY <1>1, <2>2, <2>4, <4>2, <4>5, DataAssumption DEF ResponseOK
      <4>7. r.packet_id = "ROOM_CHAT_RES" /\ Linked(r.to, c)
            /\ Agrees(AfterReceiving(client[c], r), users[r.to])
        BY <4>2, <4>5, <4>6 DEF ResponseOK
      <4>8. r.to = i
        BY <2>2, <2>4, <4>7, PoliteTypes, LinkedOnce DEF PoliteInv
      <4>9. AfterReceiving(client[c], r).in_room
        BY <2>2, <4>7, <4>8 DEF Agrees
      <4>10. client[c] \in Client
        BY <2>4, PoliteTypes
      <4> QED
        BY <4>7, <4>9, <4>10 DEF AfterReceiving, NotificationIds, Client
    <3> QED
      BY <3>1, <3>2
  <2>6. client[c].phase = "open"
    BY <2>4, <2>5 DEF PoliteInv, ClientsInv
  <2> QED
    BY <2>2, <2>3, <2>4, <2>5, <2>6 DEF c
<1> QED
  BY <1>1, <1>2, <1>3, <1>4

\* A client after a response, and after a notification.
LEMMA ReceivingClient ==
  ASSUME NEW cl \in Client, NEW m
  PROVE  /\ m.packet_id \in NotificationIds => AfterReceiving(cl, m) = cl
         /\ m.packet_id \in ResponseIds =>
              /\ AfterReceiving(cl, m).waiting = FALSE
              /\ AfterReceiving(cl, m).phase = cl.phase
              /\ AfterReceiving(cl, m).user_id = cl.user_id
BY DEF AfterReceiving, Client, NotificationIds, ResponseIds

\* A send never fails: its connection is there, and its client is.
LEMMA SendsReturn ==
  ASSUME PoliteInv
  PROVE  ~SendFails /\ ~SendKills
<1>1. \A m \in PendingSends :
        /\ m.to \in Sessions /\ ConnOf(m.to) \in Conns /\ client[ConnOf(m.to)].phase = "open"
  BY PendingReaches DEF Linked
<1>2. ~SendFails
  BY <1>1, DataAssumption DEF SendFails
<1>3. ~SendKills
  BY <1>1 DEF SendKills, Sessions, NoIndex
<1> QED
  BY <1>2, <1>3

\* A response is received: its client no longer waits, and knows the state of its user.
LEMMA SendSucceedsKeeps ==
  ASSUME PoliteInv, SendSucceeds
  PROVE  /\ ConnectionsInv' /\ HandoversInv'
         /\ PacketsInv' /\ RedisInv' /\ SendingInv'
         /\ ClientsInv' /\ AgreeInv' /\ MembersInv' /\ ListsAreUsers'
         /\ OneAnswerPerRequest'
         /\ Alive'
<1>1. PICK m \in PendingSends :
        /\ NextSend(m)
        /\ client' = IF client[ConnOf(m.to)].phase = "open"
                     THEN [client EXCEPT ![ConnOf(m.to)] = AfterReceiving(@, m)] ELSE client
        /\ UNCHANGED <<packet_queue, sessionVars, process>>
  BY DEF SendSucceeds
<1>2. UNCHANGED <<users, index_user_map, rooms, packet_queue, req_packet_queue, res_packet_queue,
                  pc, sessions, available_session_index, sockets, process>>
  BY <1>1 DEF NextSend, userRoomVars, redisVars, sessionVars
<1> DEFINE i == m.to
           c == ConnOf(i)
<1>3. /\ sending # <<>> /\ 1 \in DOMAIN sending /\ m \in Head(sending)
      /\ Head(sending) = sending[1]
      /\ i \in Sessions /\ c \in Conns /\ Linked(i, c) /\ Settled(i)
      /\ client[c].phase = "open"
      /\ m.packet_id \in ResponseIds => m.conn = c /\ ResponseOK(1, m) /\ Answers(c) # {}
      /\ m.packet_id \in ResponseIds \/ m.packet_id \in NotificationIds
      /\ m.packet_id \in NotificationIds => m.packet_id \notin ResponseIds
  BY PendingReaches DEF Linked, ResponseIds, NotificationIds
<1> HIDE DEF c
<1>4. client' = [client EXCEPT ![c] = AfterReceiving(@, m)]
  BY <1>1, <1>3 DEF c
<1>5. sending' = IF Head(sending) = {m} THEN Tail(sending)
                 ELSE [sending EXCEPT ![1] = @ \ {m}]
  BY <1>1 DEF NextSend
<1>6. m.packet_id \in NotificationIds => m.conn = NoConn
  BY <1>3 DEF PoliteInv, SendingInv, NotificationOK
<1>7. /\ \A d \in Conns : d # c \/ m.packet_id \in NotificationIds => client'[d] = client[d]
      /\ \A d \in Conns : client'[d].phase = client[d].phase
                          /\ client'[d].user_id = client[d].user_id
      /\ m.packet_id \in ResponseIds =>
           client'[c] = AfterReceiving(client[c], m) /\ client'[c].waiting = FALSE
  <2>1. client[c] \in Client
    BY <1>3, PoliteTypes
  <2>2. /\ \A d \in Conns : d # c => client'[d] = client[d]
        /\ client'[c] = AfterReceiving(client[c], m)
    BY <1>3, <1>4, PoliteTypes
  <2>3. m.packet_id \in NotificationIds => client'[c] = client[c]
    BY <2>1, <2>2, ReceivingClient
  <2>4. m.packet_id \in ResponseIds =>
          /\ AfterReceiving(client[c], m).waiting = FALSE
          /\ AfterReceiving(client[c], m).phase = client[c].phase
          /\ AfterReceiving(client[c], m).user_id = client[c].user_id
    BY <2>1, ReceivingClient
  <2> QED
    BY <1>3, <2>2, <2>3, <2>4
<1>8. m.packet_id \in ResponseIds =>
        /\ Head(sending) = {m} /\ client[c].waiting
        /\ \A p \in Packets(packet_queue) : p.conn # c
        /\ \A p \in Packets(req_packet_queue) : p.conn # c
        /\ \A p \in Packets(res_packet_queue) : p.conn # c
        /\ Cardinality(Answers(c)) = 1
  BY <1>3, Answering DEF ResponseOK
<1>9. ASSUME NEW d \in Conns, m.conn # d
      PROVE  /\ Cardinality(AnswersIn(sending', d)) = Cardinality(Answers(d))
             /\ (Answers(d)' = {} <=> Answers(d) = {})
  <2>1. /\ Cardinality(AnswersIn(sending', d)) = Cardinality(AnswersIn(sending, d))
        /\ (AnswersIn(sending', d) = {} <=> AnswersIn(sending, d) = {})
    BY <1>3, <1>5, <1>9, PoliteTypes, AnswerSent
  <2>2. Answers(d)' = AnswersIn(sending', d) /\ Answers(d) = AnswersIn(sending, d)
    BY DEF Answers, AnswersIn
  <2> QED
    BY <2>1, <2>2
<1>10. sending' \in Seq(SUBSET Message)
  <2>1. Tail(sending) \in Seq(SUBSET Message)
    BY <1>3, PoliteTypes
  <2>2. [sending EXCEPT ![1] = @ \ {m}] \in Seq(SUBSET Message)
    <3>1. sending[1] \ {m} \in SUBSET Message
      BY <1>3, PoliteTypes
    <3> QED
      BY <1>3, <3>1, PoliteTypes, ExceptSeq
  <2> QED
    BY <1>5, <2>1, <2>2
<1>11. m.packet_id \in ResponseIds =>
         Cardinality(AnswersIn(sending', c)) = 0 /\ AnswersIn(sending', c) = {}
  <2> SUFFICES ASSUME m.packet_id \in ResponseIds
               PROVE  Cardinality(AnswersIn(sending', c)) = 0 /\ AnswersIn(sending', c) = {}
    OBVIOUS
  <2>1. Cardinality(AnswersIn(sending, c)) = Cardinality(AnswersIn(sending', c)) + 1
    BY <1>3, <1>5, <1>8, PoliteTypes, AnswerSent
  <2>2. Cardinality(AnswersIn(sending', c)) \in Nat
    BY <1>10, AnswersNone
  <2>3. Cardinality(AnswersIn(sending', c)) = 0
    BY <1>8, <2>1, <2>2 DEF Answers
  <2>4. AnswersIn(sending', c) = {}
    BY <1>10, <2>3, AnswersNone
  <2> QED
    BY <2>3, <2>4
<1>12. /\ \A j, d : Linked(j, d)' <=> Linked(j, d)
       /\ \A j, d : Linked(j, d) => j \in Sessions /\ d \in Conns
       /\ \A j : Settled(j)' <=> Settled(j)
  BY <1>2 DEF Linked, ConnOf, Settled
<1>13. ConnectionsInv'
  BY <1>2, <1>7, PoliteTypes
     DEF PoliteInv, ConnectionsInv, SessionsUnique, TypeOK, SessionTableTypeOK
<1>14. HandoversInv' /\ MembersInv' /\ ListsAreUsers' /\ Alive'
  BY <1>2, <1>12 DEF PoliteInv, HandoversInv, HasUser, MembersInv, ListsAreUsers, Listed, Alive
<1>15. ASSUME NEW p, LoginUnderWay(p) PROVE LoginUnderWay(p)'
  <2>1. Linked(p.session_index, p.conn)
    BY <1>15 DEF LoginUnderWay
  <2>2. p.session_index \in Sessions /\ p.conn \in Conns
    BY <1>12, <2>1
  <2> QED
    BY <1>2, <1>7, <1>12, <1>15, <2>1, <2>2 DEF LoginUnderWay
<1>16. PacketsInv'
  <2>1. ASSUME NEW p \in Packets(packet_queue) PROVE PacketOK(p)'
    <3>1. PacketOK(p) /\ (m.packet_id \in ResponseIds => p.conn # c)
      BY <1>8 DEF PoliteInv, PacketsInv
    <3>2. p.packet_id \notin HandoverIds =>
            Linked(p.session_index, p.conn)' /\ client'[p.conn] = client[p.conn]
      BY <1>3, <1>7, <1>12, <3>1 DEF PacketOK
    <3> QED
      BY <1>15, <3>1, <3>2, PacketKept
  <2> QED
    BY <1>2, <2>1 DEF PoliteInv, PacketsInv
<1>17. RedisInv'
  BY <1>2, <1>15 DEF PoliteInv, RedisInv, QuestionOK, AnswerOK
<1>18. SendingInv'
  <2>1. pc' # "take"
    BY <1>2, <1>3, PoliteTypes DEF PoliteInv, SendingInv
  <2>2. ASSUME NEW k \in DOMAIN sending', NEW n \in sending'[k]
        PROVE  /\ n.packet_id \in ResponseIds => ResponseOK(k, n)'
               /\ n.packet_id \in NotificationIds => NotificationOK(n)'
    <3>1. PICK l \in DOMAIN sending :
            /\ n \in sending[l] /\ k \in Nat
            /\ \/ sending'[k] = sending[l] /\ (l = 1 => k = 1) /\ l # 1
               \/ l = 1 /\ m \in sending[1] /\ n # m
      <4>1. /\ Len(sending) \in Nat \ {0} /\ DOMAIN sending = 1 .. Len(sending)
            /\ DOMAIN Tail(sending) = 1 .. Len(sending) - 1
            /\ \A j \in 1 .. Len(sending) - 1 : Tail(sending)[j] = sending[j + 1]
        BY <1>3, PoliteTypes, HeadTailProperties
      <4>2. CASE sending' = Tail(sending)
        <5>1. k \in 1 .. Len(sending) - 1
          BY <2>2, <4>1, <4>2
        <5>2. k + 1 \in DOMAIN sending /\ k + 1 # 1 /\ k \in Nat
          BY <4>1, <5>1
        <5>3. sending'[k] = sending[k + 1]
          BY <4>1, <4>2, <5>1
        <5> QED
          BY <2>2, <5>2, <5>3
      <4>3. CASE sending' = [sending EXCEPT ![1] = @ \ {m}]
        <5>1. k \in DOMAIN sending /\ k \in Nat
          BY <2>2, <4>1, <4>3
        <5>2. CASE k = 1
          <6>1. sending'[1] = sending[1] \ {m}
            BY <1>3, <4>3
          <6> QED
            BY <1>3, <2>2, <5>1, <5>2, <6>1
        <5>3. CASE k # 1
          <6>1. sending'[k] = sending[k]
            BY <4>3, <5>1, <5>3
          <6> QED
            BY <2>2, <5>1, <5>3, <6>1
        <5> QED
          BY <5>2, <5>3
      <4> QED
        BY <1>5, <4>2, <4>3
    <3>2. /\ n.packet_id \in ResponseIds => ResponseOK(l, n)
          /\ n.packet_id \in NotificationIds => NotificationOK(n)
      BY <3>1 DEF PoliteInv, SendingInv
    <3>3. n.packet_id \in NotificationIds => NotificationOK(n)'
      BY <1>2, <3>2 DEF NotificationOK
    <3>4. ASSUME n.packet_id \in ResponseIds PROVE ResponseOK(k, n)'
      <4>1. ResponseOK(l, n) /\ Linked(n.to, n.conn) /\ n.conn \in Conns
        BY <1>12, <3>2, <3>4 DEF ResponseOK
      <4>2. l # 1 /\ sending'[k] = sending[l] /\ n.packet_id = "ROOM_CHAT_RES"
        BY <3>1, <4>1 DEF ResponseOK
      <4>3. m.packet_id \in ResponseIds => n.conn # c
        <5>1. n.conn = c => k \in AnswersIn(sending', c)
          BY <2>2 DEF AnswersIn
        <5> QED
          BY <1>11, <5>1
      <4>4. client'[n.conn] = client[n.conn]
        BY <1>3, <1>7, <4>1, <4>3
      <4> QED
        BY <1>2, <1>12, <4>1, <4>2, <4>4 DEF ResponseOK
    <3> QED
      BY <3>3, <3>4
  <2> QED
    BY <2>1, <2>2 DEF SendingInv
<1>19. ClientsInv'
  <2>1. \A d \in Conns : client'[d].phase # "open" => client'[d] = client[d]
    BY <1>3, <1>7
  <2> QED
    BY <1>7, <2>1 DEF PoliteInv, ClientsInv
<1>20. AgreeInv'
  <2> SUFFICES ASSUME NEW j \in Sessions, NEW d \in Conns, Linked(j, d)'
               PROVE  /\ ~Settled(j)' => ~client'[d].logged /\ ~client'[d].in_room
                      /\ Settled(j)' /\ Answers(d)' = {} => Agrees(client'[d], users'[j])
    BY DEF AgreeInv
  <2>1. CASE m.packet_id \in ResponseIds /\ d = c
    <3>1. j = i
      BY <1>3, <1>12, <2>1, PoliteTypes, LinkedOnce DEF PoliteInv
    <3> QED
      BY <1>2, <1>3, <1>7, <1>12, <2>1, <3>1 DEF ResponseOK
  <2>2. CASE ~(m.packet_id \in ResponseIds /\ d = c)
    <3>1. client'[d] = client[d] /\ m.conn # d
      BY <1>3, <1>6, <1>7, <2>2, DataAssumption
    <3>2. Answers(d)' = {} <=> Answers(d) = {}
      BY <1>9, <3>1
    <3> QED
      BY <1>2, <1>12, <3>1, <3>2 DEF PoliteInv, AgreeInv
  <2> QED
    BY <2>1, <2>2
<1>21. OneAnswerPerRequest'
  <2> SUFFICES ASSUME NEW d \in Conns
               PROVE  Count(packet_queue', d) + Count(req_packet_queue', d)
                        + Count(res_packet_queue', d) + Cardinality(AnswersIn(sending', d))
                          = IF client'[d].waiting THEN 1 ELSE 0
    BY SumKept
  <2>1. CASE m.packet_id \in ResponseIds /\ d = c
    BY <1>2, <1>7, <1>8, <1>11, <2>1, OutstandingSum
  <2>2. CASE ~(m.packet_id \in ResponseIds /\ d = c)
    <3>1. client'[d] = client[d] /\ m.conn # d
      BY <1>3, <1>6, <1>7, <2>2, DataAssumption
    <3> QED
      BY <1>2, <1>9, <3>1, OutstandingSum
  <2> QED
    BY <2>1, <2>2
<1> QED
  BY <1>13, <1>14, <1>16, <1>17, <1>18, <1>19, <1>20, <1>21

-----------------------------------------------------------------------------
(***************************************************************************)
(* The packet thread takes a packet.                                       *)
(***************************************************************************)
\* Who has caught up before and after a packet is taken.
LEMMA SettledTaken ==
  ASSUME NEW q \in Seq(PacketInfo), q # <<>>, NEW i
  PROVE  /\ HandoversOf(q, i) = {} => HandoversOf(Tail(q), i) = {}
         /\ /\ ~(Head(q).session_index = i /\ Head(q).packet_id \in HandoverIds)
            /\ HandoversOf(Tail(q), i) = {}
            => HandoversOf(q, i) = {}
         /\ Head(q).session_index = i /\ Head(q).packet_id \in HandoverIds
              => HandoversOf(q, i) # {}
<1> DEFINE H == HandoversOf(q, i)
           T == HandoversOf(Tail(q), i)
<1>1. /\ H \subseteq 1 .. Len(q) /\ T \subseteq 1 .. Len(q) - 1 /\ Len(q) \in Nat \ {0}
      /\ \A k \in 1 .. Len(q) - 1 : k \in T <=> k + 1 \in H
      /\ 1 \in H <=> Head(q).session_index = i /\ Head(q).packet_id \in HandoverIds
  BY HandoversTaken
<1> HIDE DEF H, T
<1>2. H = {} => T = {}
  BY <1>1
<1>3. 1 \notin H /\ T = {} => H = {}
  <2> SUFFICES ASSUME 1 \notin H, NEW k \in H PROVE T # {}
    OBVIOUS
  <2>1. k - 1 \in 1 .. Len(q) - 1 /\ (k - 1) + 1 = k
    BY <1>1
  <2> QED
    BY <1>1, <2>1
<1> QED
  BY <1>1, <1>2, <1>3 DEF H, T

\* The client of a packet under way waits, and is there.
LEMMA Waits ==
  ASSUME PoliteInv, NEW p, p.conn \in Conns,
         \/ p \in Packets(packet_queue)
         \/ p \in Packets(req_packet_queue)
         \/ p \in Packets(res_packet_queue)
  PROVE  client[p.conn].waiting /\ client[p.conn].phase = "open"
<1>1. client[p.conn].waiting
  BY Idle
<1> QED
  BY <1>1 DEF PoliteInv, ClientsInv

\* What is known when a packet is taken, whatever it is.
LEMMA TakeFacts ==
  ASSUME PoliteInv, TakePacket, packet_queue # <<>>, UNCHANGED <<sessionVars, client>>,
         NEW p, p = Head(packet_queue)
  PROVE  /\ packet_queue' = Tail(packet_queue) /\ Tail(packet_queue) \in Seq(PacketInfo)
         /\ sending = <<>> /\ pc' = "poll" /\ process = "running"
         /\ UNCHANGED <<res_packet_queue, sessions, available_session_index, sockets, client>>
         /\ p \in PacketInfo /\ p \in Packets(packet_queue) /\ PacketOK(p)
         /\ Packets(packet_queue') \subseteq Packets(packet_queue)
         /\ RequestsLast(packet_queue')
         /\ ConnectionsInv' /\ ClientsInv'
         /\ \A j, d : Linked(j, d)' <=> Linked(j, d)
         /\ \A d \in Conns : Answers(d) = {} /\ Cardinality(Answers(d)) = 0
<1>1. /\ packet_queue' = Tail(packet_queue) /\ Tail(packet_queue) \in Seq(PacketInfo)
      /\ p \in PacketInfo /\ p \in Packets(packet_queue)
      /\ Packets(packet_queue') \subseteq Packets(packet_queue)
  BY PoliteTypes, Taken DEF TakePacket
<1>2. /\ pc = "take" /\ pc' = "poll" /\ process = "running"
      /\ UNCHANGED <<res_packet_queue, sessions, available_session_index, sockets, client>>
  BY DEF TakePacket, Running, sessionVars
<1>3. PacketOK(p)
  BY <1>1 DEF PoliteInv, PacketsInv
<1>4. sending = <<>>
  BY <1>2 DEF PoliteInv, SendingInv
<1>5. RequestsLast(packet_queue')
  BY <1>1, PoliteTypes, RequestsTaken DEF PoliteInv, PacketsInv
<1>6. \A j, d : Linked(j, d)' <=> Linked(j, d)
  BY <1>2 DEF Linked, ConnOf
<1>7. ConnectionsInv' /\ ClientsInv'
  BY <1>2 DEF PoliteInv, ConnectionsInv, SessionsUnique, ClientsInv
<1>8. ASSUME NEW d \in Conns PROVE Answers(d) = {} /\ Cardinality(Answers(d)) = 0
  <2>1. Answers(d) = {}
    BY <1>4 DEF Answers, AnswersIn
  <2> QED
    BY <2>1, FS_EmptySet
<1> QED
  BY <1>1, <1>2, <1>3, <1>4, <1>5, <1>6, <1>7, <1>8

\* A handler runs on the packet as the client sent it, at its second look too: the
\* client waits for the answer and does not leave before it.
LEMMA TakeReadsOnce ==
  ASSUME RulesKept, PoliteInv, TakePacket, packet_queue # <<>>,
         UNCHANGED <<sessionVars, client>>
  PROVE  HandlePacket(Head(packet_queue), Head(packet_queue))
<1> DEFINE p == Head(packet_queue)
<1>1. p.intact
  BY TakeFacts DEF PacketOK
<1>2. Keeps("stop_and_wait") /\ Keeps("quiet_close")
  BY DEF Keeps, RulesKept, Rules
<1>3. Readings(p) = {p} /\ NextReadings(p) = {p}
  BY <1>1, <1>2 DEF Readings, NextReadings
<1>4. PICK q \in Readings(p), again \in NextReadings(p) : HandlePacket(q, again)
  BY DEF TakePacket
<1>5. q = p /\ again = p
  BY <1>3
<1> QED
  BY <1>4, <1>5

\* A handover is taken: a session gets its user, or gives it up.
LEMMA HandoverTakenKeeps ==
  ASSUME PoliteInv, TakePacket, packet_queue # <<>>, UNCHANGED <<sessionVars, client>>,
         NEW p, p = Head(packet_queue), NEW i, i = p.session_index,
         p.packet_id \in HandoverIds,
         UNCHANGED <<rooms, req_packet_queue, sending, process>>,
         \A j \in Sessions \ {i} : users'[j] = users[j] /\ (HasUser(j)' <=> HasUser(j)),
         HasUser(i)' <=> ~HasUser(i),
         users'[i].state \notin {"LOGIN", "ROOM"}
  PROVE  /\ ConnectionsInv' /\ HandoversInv'
         /\ PacketsInv' /\ RedisInv' /\ SendingInv'
         /\ ClientsInv' /\ AgreeInv' /\ MembersInv' /\ ListsAreUsers'
         /\ OneAnswerPerRequest'
         /\ Alive'
<1>1. /\ packet_queue' = Tail(packet_queue) /\ Tail(packet_queue) \in Seq(PacketInfo)
      /\ sending = <<>> /\ pc' = "poll"
      /\ UNCHANGED <<res_packet_queue, sessions, available_session_index, sockets, client>>
      /\ p \in PacketInfo /\ PacketOK(p)
      /\ Packets(packet_queue') \subseteq Packets(packet_queue)
      /\ RequestsLast(packet_queue')
      /\ ConnectionsInv' /\ ClientsInv'
      /\ \A j, d : Linked(j, d)' <=> Linked(j, d)
      /\ \A d \in Conns : Answers(d) = {} /\ Cardinality(Answers(d)) = 0
  BY TakeFacts
<1>2. i \in Sessions /\ p.conn = NoConn
  BY <1>1 DEF PacketOK, PacketInfo
<1>3. /\ ~Settled(i)
      /\ \A j : Settled(j) => Settled(j)'
      /\ \A j : j # i => (Settled(j)' <=> Settled(j))
  BY <1>1, PoliteTypes, SettledTaken DEF Settled
<1>4. users[i].state # "ROOM"
  BY <1>2, <1>3 DEF PoliteInv, MembersInv
<1>5. HandoversInv'
  <2> SUFFICES ASSUME NEW j \in Sessions
               PROVE  Alternate(packet_queue', j, HasUser(j)', sessions'[j].connected)
    BY DEF HandoversInv
  <2>1. Alternate(packet_queue, j, HasUser(j), sessions[j].connected)
    BY DEF PoliteInv, HandoversInv
  <2>2. HasUser(j)' \in BOOLEAN
    BY DEF HasUser
  <2>3. CASE j = i
    <3>1. Alternate(Tail(packet_queue), j, ~HasUser(j), sessions[j].connected)
      BY <2>1, <2>3, PoliteTypes, AlternateTaken
    <3>2. HasUser(j)' = ~HasUser(j)
      BY <2>2, <2>3, PoliteTypes
    <3> QED
      BY <1>1, <3>1, <3>2
  <2>4. CASE j # i
    <3>1. Alternate(Tail(packet_queue), j, HasUser(j), sessions[j].connected)
      BY <2>1, <2>4, PoliteTypes, AlternateKept
    <3>2. HasUser(j)' = HasUser(j)
      BY <2>2, <2>4, PoliteTypes
    <3> QED
      BY <1>1, <3>1, <3>2
  <2> QED
    BY <2>3, <2>4
<1>6. ASSUME NEW r, LoginUnderWay(r) PROVE LoginUnderWay(r)'
  <2>1. Linked(r.session_index, r.conn) /\ Settled(r.session_index)
    BY <1>6 DEF LoginUnderWay
  <2>2. r.session_index \in Sessions \ {i}
    BY <1>3, <2>1 DEF Linked
  <2> QED
    BY <1>1, <1>2, <1>3, <1>6, <2>1, <2>2, LoginKept
<1>7. PacketsInv'
  BY <1>1, <1>6, PacketKept DEF PoliteInv, PacketsInv, PacketOK
<1>8. RedisInv'
  BY <1>1, <1>6 DEF PoliteInv, RedisInv, QuestionOK, AnswerOK
<1>9. SendingInv'
  BY <1>1 DEF SendingInv
<1>10. AgreeInv'
  <2> SUFFICES ASSUME NEW j \in Sessions, NEW d \in Conns, Linked(j, d)'
               PROVE  /\ ~Settled(j)' => ~client'[d].logged /\ ~client'[d].in_room
                      /\ Settled(j)' => Agrees(client'[d], users'[j])
    BY DEF AgreeInv
  <2>1. CASE j = i
    BY <1>1, <1>2, <1>3, <2>1 DEF PoliteInv, AgreeInv, Agrees
  <2>2. CASE j # i
    BY <1>1, <1>3, <2>2 DEF PoliteInv, AgreeInv
  <2> QED
    BY <2>1, <2>2
<1>11. MembersInv'
  BY <1>1, <1>2, <1>3 DEF PoliteInv, MembersInv
<1>12. ListsAreUsers'
  <2> SUFFICES ASSUME NEW j \in Sessions, NEW r \in Rooms
               PROVE  /\ Listed(j, r)' <=> users'[j].state = "ROOM" /\ users'[j].room_index = r
                      /\ Cardinality(EntriesOf(rooms'[r], j)) <= 1
    BY DEF ListsAreUsers
  <2>1. /\ Listed(j, r) <=> users[j].state = "ROOM" /\ users[j].room_index = r
        /\ Cardinality(EntriesOf(rooms[r], j)) <= 1
    BY DEF PoliteInv, ListsAreUsers
  <2>2. Listed(j, r)' <=> Listed(j, r)
    BY DEF Listed
  <2> QED
    BY <1>2, <1>4, <2>1, <2>2
<1>13. OneAnswerPerRequest'
  <2>1. ASSUME NEW d \in Conns PROVE Count(packet_queue', d) = Count(packet_queue, d)
    <3>1. Count(packet_queue', d) \in Nat /\ p.conn # d
      BY <1>1, <1>2, CountNone, DataAssumption
    <3> QED
      BY <1>1, <3>1, PoliteTypes, CountTaken
  <2> QED
    BY <1>1, <2>1, OutstandingSum, SumKept DEF Answers
<1>14. Alive'
  BY DEF PoliteInv, Alive
<1> QED
  BY <1>1, <1>5, <1>7, <1>8, <1>9, <1>10, <1>11, <1>12, <1>13, <1>14

\* An accept gives a user to a session that has none.
LEMMA FuncAcceptKeeps ==
  ASSUME PoliteInv, TakePacket, packet_queue # <<>>, UNCHANGED <<sessionVars, client>>,
         NEW p, p = Head(packet_queue), FuncAccept(p)
  PROVE  /\ ConnectionsInv' /\ HandoversInv'
         /\ PacketsInv' /\ RedisInv' /\ SendingInv'
         /\ ClientsInv' /\ AgreeInv' /\ MembersInv' /\ ListsAreUsers'
         /\ OneAnswerPerRequest'
         /\ Alive'
<1> DEFINE i == p.session_index
<1>1. p.packet_id = "SYS_ACCEPT" /\ p \in PacketInfo /\ i \in Sessions
  BY TakeFacts DEF FuncAccept, PacketInfo
<1>2. ~HasUser(i)
  <2>1. Alternate(packet_queue, i, HasUser(i), sessions[i].connected)
    BY <1>1 DEF PoliteInv, HandoversInv
  <2> QED
    BY <1>1, <2>1, PoliteTypes, AlternateTaken DEF HandoverIds
<1>3. /\ users' = [users EXCEPT ![i].index = i, ![i].state = "CONNECT"]
      /\ index_user_map' = index_user_map \cup {i}
      /\ UNCHANGED <<rooms, req_packet_queue, sending, process>>
  BY DEF FuncAccept, AddUser
<1>4. (\A j \in Sessions \ {i} : users'[j] = users[j]) /\ users'[i].state = "CONNECT"
  BY <1>1, <1>3, PoliteTypes DEF User
<1>5. (\A j \in Sessions \ {i} : HasUser(j)' <=> HasUser(j)) /\ (HasUser(i)' <=> ~HasUser(i))
  BY <1>2, <1>3 DEF HasUser
<1> QED
  BY <1>1, <1>3, <1>4, <1>5, HandoverTakenKeeps DEF HandoverIds

\* A close takes the user from a session that has one, which is in no room.
LEMMA FuncCloseKeeps ==
  ASSUME PoliteInv, TakePacket, packet_queue # <<>>, UNCHANGED <<sessionVars, client>>,
         NEW p, p = Head(packet_queue), FuncClose(p)
  PROVE  /\ ConnectionsInv' /\ HandoversInv'
         /\ PacketsInv' /\ RedisInv' /\ SendingInv'
         /\ ClientsInv' /\ AgreeInv' /\ MembersInv' /\ ListsAreUsers'
         /\ OneAnswerPerRequest'
         /\ Alive'
<1> DEFINE i == p.session_index
<1>1. p.packet_id = "SYS_CLOSE" /\ p \in PacketInfo /\ i \in Sessions /\ HasUser(i)
  BY TakeFacts DEF FuncClose, PacketInfo
<1>2. ~Settled(i)
  BY <1>1, PoliteTypes, SettledTaken DEF Settled, HandoverIds
<1>3. users[i].state # "ROOM"
  BY <1>1, <1>2 DEF PoliteInv, MembersInv
<1>4. users[i].state # "NONE"
  BY <1>1 DEF PoliteInv, ServerInv, UserTableConsistent
<1>5. /\ users' = [users EXCEPT ![i] = ClearedUser]
      /\ index_user_map' = index_user_map \ {i}
      /\ UNCHANGED <<rooms, req_packet_queue, sending, process>>
  BY <1>3, <1>4 DEF FuncClose, RemoveUser
<1>6. (\A j \in Sessions \ {i} : users'[j] = users[j]) /\ users'[i].state = "NONE"
  BY <1>1, <1>5, PoliteTypes DEF ClearedUser
<1>7. (\A j \in Sessions \ {i} : HasUser(j)' <=> HasUser(j)) /\ (HasUser(i)' <=> ~HasUser(i))
  BY <1>1, <1>5 DEF HasUser
<1> QED
  BY <1>1, <1>5, <1>6, <1>7, HandoverTakenKeeps DEF HandoverIds

\* What is known when a request or an answer of Redis is taken: its client is there,
\* waits for nothing else, and knows the state of its user.
LEMMA RequestFacts ==
  ASSUME PoliteInv, TakePacket, packet_queue # <<>>, UNCHANGED <<sessionVars, client>>,
         NEW p, p = Head(packet_queue), p.packet_id \notin HandoverIds
  PROVE  /\ p.session_index \in Sessions /\ p.conn \in Conns
         /\ Linked(p.session_index, p.conn) /\ Settled(p.session_index)
         /\ HasUser(p.session_index)
         /\ client[p.conn] \in Client
         /\ client[p.conn].waiting /\ client[p.conn].phase = "open"
         /\ Agrees(client[p.conn], users[p.session_index])
         /\ \A r \in Packets(packet_queue') : r.conn # p.conn
         /\ \A r \in Packets(req_packet_queue) : r.conn # p.conn
         /\ \A r \in Packets(res_packet_queue) : r.conn # p.conn
         /\ Count(packet_queue', p.conn) = 0
<1> DEFINE i == p.session_index
           c == p.conn
<1>1. /\ packet_queue' = Tail(packet_queue) /\ Tail(packet_queue) \in Seq(PacketInfo)
      /\ p \in PacketInfo /\ p \in Packets(packet_queue) /\ PacketOK(p)
      /\ \A d \in Conns : Answers(d) = {} /\ Cardinality(Answers(d)) = 0
  BY TakeFacts
<1>2. i \in Sessions /\ c \in Conns /\ Linked(i, c) /\ sessions[i].connected
  BY <1>1 DEF PacketOK, Linked
<1>3. Settled(i)
  BY PoliteTypes, RequestsTaken DEF PoliteInv, PacketsInv, Settled
<1>4. HasUser(i)
  BY <1>2, <1>3 DEF PoliteInv, HandoversInv, Alternate, Settled
<1>5. client[c] \in Client /\ client[c].waiting /\ client[c].phase = "open"
  BY <1>1, <1>2, PoliteTypes, Waits
<1>6. Agrees(client[c], users[i])
  BY <1>1, <1>2, <1>3 DEF PoliteInv, AgreeInv
<1> HIDE DEF c
<1>7. /\ Count(packet_queue', c) = 0 /\ Count(req_packet_queue, c) = 0
      /\ Count(res_packet_queue, c) = 0
  <2>1. Count(packet_queue, c) = Count(Tail(packet_queue), c) + 1
    BY <1>2, PoliteTypes, CountTaken DEF c
  <2>2. Count(Tail(packet_queue), c) \in Nat
    BY <1>1, CountNone
  <2>3. /\ Count(packet_queue, c) + Count(req_packet_queue, c) + Count(res_packet_queue, c)
             + Cardinality(Answers(c)) = IF client[c].waiting THEN 1 ELSE 0
        /\ Count(packet_queue, c) \in Nat /\ Count(req_packet_queue, c) \in Nat
        /\ Count(res_packet_queue, c) \in Nat /\ Cardinality(Answers(c)) \in Nat
    BY <1>2, OutstandingSum
  <2> QED
    BY <1>1, <1>5, <2>1, <2>2, <2>3
<1>8. /\ \A r \in Packets(packet_queue') : r.conn # c
      /\ \A r \in Packets(req_packet_queue) : r.conn # c
      /\ \A r \in Packets(res_packet_queue) : r.conn # c
  BY <1>1, <1>7, PoliteTypes, CountNone
<1> QED
  BY <1>2, <1>3, <1>4, <1>5, <1>6, <1>7, <1>8 DEF c

\* What a handler of requests keeps, apart from what it leaves to send or to ask: the user
\* of its session changes, and if that logs in, then as its client.
LEMMA RequestTakenKeeps ==
  ASSUME PoliteInv, TakePacket, packet_queue # <<>>, UNCHANGED <<sessionVars, client>>,
         NEW p, p = Head(packet_queue), p.packet_id \notin HandoverIds,
         NEW i, i = p.session_index, NEW c, c = p.conn,
         UNCHANGED <<index_user_map, process>>,
         \A j \in Sessions \ {i} : users'[j] = users[j],
         users'[i].state \in {"LOGIN", "ROOM"} =>
           \/ users[i].state \in {"LOGIN", "ROOM"} /\ users'[i].user_id = users[i].user_id
           \/ users'[i].user_id = client[c].user_id /\ client[c].user_id # NoUserId
  PROVE  /\ ConnectionsInv' /\ HandoversInv' /\ ClientsInv' /\ MembersInv'
         /\ PacketsInv' /\ Alive' /\ pc' # "take"
         /\ \A q \in Packets(req_packet_queue) : QuestionOK(q)'
         /\ \A q \in Packets(res_packet_queue') : AnswerOK(q)'
         /\ \A j \in Sessions, d \in Conns : Linked(j, d)' /\ d # c =>
              /\ ~Settled(j)' => ~client'[d].logged /\ ~client'[d].in_room
              /\ Settled(j)' => Agrees(client'[d], users'[j])
         /\ \A d \in Conns \ {c} :
              Count(packet_queue', d) + Count(req_packet_queue, d) + Count(res_packet_queue', d)
                = IF client'[d].waiting THEN 1 ELSE 0
         /\ Count(packet_queue', c) + Count(req_packet_queue, c) + Count(res_packet_queue', c) = 0
         /\ client'[c].waiting
<1>1. /\ packet_queue' = Tail(packet_queue) /\ Tail(packet_queue) \in Seq(PacketInfo)
      /\ sending = <<>> /\ pc' = "poll"
      /\ UNCHANGED <<res_packet_queue, sessions, available_session_index, sockets, client>>
      /\ p \in PacketInfo /\ p \in Packets(packet_queue) /\ PacketOK(p)
      /\ Packets(packet_queue') \subseteq Packets(packet_queue)
      /\ RequestsLast(packet_queue')
      /\ ConnectionsInv' /\ ClientsInv'
      /\ \A j, d : Linked(j, d)' <=> Linked(j, d)
      /\ \A d \in Conns : Answers(d) = {} /\ Cardinality(Answers(d)) = 0
  BY TakeFacts
<1>2. /\ i \in Sessions /\ c \in Conns /\ Linked(i, c) /\ Settled(i)
      /\ client[c].waiting /\ client[c].phase = "open"
      /\ \A r \in Packets(packet_queue') : r.conn # c
      /\ \A r \in Packets(req_packet_queue) : r.conn # c
      /\ \A r \in Packets(res_packet_queue) : r.conn # c
      /\ Count(packet_queue', c) = 0
  BY RequestFacts
<1>3. \A j : Settled(j)' <=> Settled(j)
  BY <1>1, PoliteTypes, SettledTaken DEF Settled
<1>4. HandoversInv'
  <2> SUFFICES ASSUME NEW j \in Sessions
               PROVE  Alternate(packet_queue', j, HasUser(j), sessions'[j].connected)
    BY DEF HandoversInv, HasUser
  <2>1. Alternate(packet_queue, j, HasUser(j), sessions[j].connected)
    BY DEF PoliteInv, HandoversInv
  <2>2. Alternate(Tail(packet_queue), j, HasUser(j), sessions[j].connected)
    BY <2>1, PoliteTypes, AlternateKept
  <2> QED
    BY <1>1, <2>2
<1>5. MembersInv'
  BY <1>1, <1>2, <1>3 DEF PoliteInv, MembersInv, Linked
<1>6. ASSUME NEW r, LoginUnderWay(r), r.conn # c, r.conn \in Conns,
             client[r.conn].phase = "open"
      PROVE  LoginUnderWay(r)'
  <2>1. Linked(r.session_index, r.conn) /\ Settled(r.session_index)
    BY <1>6 DEF LoginUnderWay
  <2>2. r.session_index \in Sessions \ {i}
    <3>1. r.session_index # i
      BY <1>2, <1>6, <2>1, PoliteTypes, LinkedOnce DEF PoliteInv
    <3> QED
      BY <2>1, <3>1 DEF Linked
  <2>3. users'[i].state \in {"LOGIN", "ROOM"} =>
          \/ users[i].state \in {"LOGIN", "ROOM"} /\ users'[i].user_id = users[i].user_id
          \/ users'[i].user_id # client[r.conn].user_id
    BY <1>2, <1>6 DEF PoliteInv, ClientsInv
  <2> QED
    BY <1>1, <1>2, <1>3, <1>6, <2>1, <2>2, <2>3, LoginKept
<1>7. PacketsInv'
  <2>1. ASSUME NEW r \in Packets(packet_queue') PROVE PacketOK(r)'
    <3>1. PacketOK(r) /\ r.conn # c /\ r \in Packets(packet_queue)
      BY <1>1, <1>2 DEF PoliteInv, PacketsInv
    <3>2. r.packet_id \notin HandoverIds => Linked(r.session_index, r.conn) /\ r.conn \in Conns
      BY <3>1 DEF PacketOK, Linked
    <3>3. LoginUnderWay(r) => r.conn \in Conns
      BY DEF LoginUnderWay, Linked
    <3>4. LoginUnderWay(r) => LoginUnderWay(r)'
      BY <1>6, <3>1, <3>3, Waits
    <3> QED
      BY <1>1, <3>1, <3>2, <3>4, PacketKept
  <2> QED
    BY <1>1, <2>1 DEF PacketsInv
<1>8. ASSUME NEW q, q \in Packets(req_packet_queue) \/ q \in Packets(res_packet_queue),
             LoginUnderWay(q)
      PROVE  LoginUnderWay(q)'
  <2>1. q.conn \in Conns /\ q.conn # c
    BY <1>2, <1>8 DEF LoginUnderWay, Linked
  <2> QED
    BY <1>6, <1>8, <2>1, Waits
<1>9. \A q \in Packets(req_packet_queue) : QuestionOK(q)'
  BY <1>8 DEF PoliteInv, RedisInv, QuestionOK
<1>10. \A q \in Packets(res_packet_queue') : AnswerOK(q)'
  BY <1>1, <1>8 DEF PoliteInv, RedisInv, AnswerOK
<1>11. ASSUME NEW j \in Sessions, NEW d \in Conns, Linked(j, d)', d # c
       PROVE  /\ ~Settled(j)' => ~client'[d].logged /\ ~client'[d].in_room
              /\ Settled(j)' => Agrees(client'[d], users'[j])
  <2>1. j # i
    BY <1>1, <1>2, <1>11, PoliteTypes, LinkedOnce DEF PoliteInv
  <2> QED
    BY <1>1, <1>3, <1>11, <2>1 DEF PoliteInv, AgreeInv
<1>12. ASSUME NEW d \in Conns, d # c
       PROVE  Count(packet_queue', d) + Count(req_packet_queue, d) + Count(res_packet_queue', d)
                = IF client'[d].waiting THEN 1 ELSE 0
  <2>1. Count(packet_queue', d) = Count(packet_queue, d)
    <3>1. Count(packet_queue', d) \in Nat
      BY <1>1, CountNone
    <3> QED
      BY <1>1, <1>12, <3>1, PoliteTypes, CountTaken
  <2> QED
    BY <1>1, <2>1, OutstandingSum
<1>13. Count(packet_queue', c) + Count(req_packet_queue, c) + Count(res_packet_queue', c) = 0
  BY <1>1, <1>2, PoliteTypes, CountNone
<1>14. Alive' /\ pc' # "take" /\ client'[c].waiting
  BY <1>1, <1>2 DEF PoliteInv, Alive
<1> QED
  BY <1>1, <1>4, <1>5, <1>7, <1>9, <1>10, <1>11, <1>12, <1>13, <1>14

\* A handler answers p: its response r, once received, tells the client the new state of
\* its user, and its notifications N are for members. If the user logs in, then as its
\* client.
Answered(p, r, N) ==
  /\ UNCHANGED <<index_user_map, process, req_packet_queue>>
  /\ \A j \in Sessions \ {p.session_index} : users'[j] = users[j]
  /\ users'[p.session_index].state \in {"LOGIN", "ROOM"} =>
       \/ /\ users[p.session_index].state \in {"LOGIN", "ROOM"}
          /\ users'[p.session_index].user_id = users[p.session_index].user_id
       \/ /\ users'[p.session_index].user_id = client[p.conn].user_id
          /\ client[p.conn].user_id # NoUserId
  /\ r.conn = p.conn /\ r.to = p.session_index /\ r.packet_id \in ResponseIds
  /\ Agrees(AfterReceiving(client[p.conn], r), users'[p.session_index])
  /\ \A n \in N : /\ n.conn = NoConn /\ n.packet_id \in NotificationIds
                  /\ n.to \in Sessions /\ users'[n.to].state = "ROOM"
  /\ sending' \in {<<{r}>>, <<{r}, N>>, <<N, {r}>>}
  /\ sending' = <<N, {r}>> => r.packet_id = "ROOM_CHAT_RES"

\* After a handler has answered, its answer and nothing else is under way for its client.
LEMMA RequestAnsweredKeeps ==
  ASSUME PoliteInv, TakePacket, packet_queue # <<>>, UNCHANGED <<sessionVars, client>>,
         NEW p, p = Head(packet_queue), p.packet_id \notin HandoverIds,
         NEW r, NEW N, Answered(p, r, N), ListsAreUsers'
  PROVE  /\ ConnectionsInv' /\ HandoversInv'
         /\ PacketsInv' /\ RedisInv' /\ SendingInv'
         /\ ClientsInv' /\ AgreeInv' /\ MembersInv' /\ ListsAreUsers'
         /\ OneAnswerPerRequest'
         /\ Alive'
<1> DEFINE i == p.session_index
           c == p.conn
<1>0. /\ UNCHANGED <<index_user_map, process, req_packet_queue>>
      /\ \A j \in Sessions \ {i} : users'[j] = users[j]
      /\ users'[i].state \in {"LOGIN", "ROOM"} =>
           \/ users[i].state \in {"LOGIN", "ROOM"} /\ users'[i].user_id = users[i].user_id
           \/ users'[i].user_id = client[c].user_id /\ client[c].user_id # NoUserId
      /\ r.conn = c /\ r.to = i /\ r.packet_id \in ResponseIds
      /\ Agrees(AfterReceiving(client[c], r), users'[i])
      /\ \A n \in N : /\ n.conn = NoConn /\ n.packet_id \in NotificationIds
                      /\ n.to \in Sessions /\ users'[n.to].state = "ROOM"
      /\ sending' \in {<<{r}>>, <<{r}, N>>, <<N, {r}>>}
      /\ sending' = <<N, {r}>> => r.packet_id = "ROOM_CHAT_RES"
  BY DEF Answered
<1>1. /\ packet_queue' = Tail(packet_queue)
      /\ UNCHANGED <<res_packet_queue, sessions, available_session_index, sockets, client>>
      /\ \A j, d : Linked(j, d)' <=> Linked(j, d)
  BY TakeFacts
<1>2. i \in Sessions /\ c \in Conns /\ Linked(i, c) /\ Settled(i)
  BY RequestFacts
<1>3. Settled(i)'
  BY <1>0, <1>1, <1>2, PoliteTypes, SettledTaken DEF Settled
<1>4. /\ ConnectionsInv' /\ HandoversInv' /\ ClientsInv' /\ MembersInv'
      /\ PacketsInv' /\ Alive' /\ pc' # "take"
  BY <1>0, RequestTakenKeeps
<1>5. RedisInv'
  <2>1. /\ \A q \in Packets(req_packet_queue) : QuestionOK(q)'
        /\ \A q \in Packets(res_packet_queue') : AnswerOK(q)'
    BY <1>0, RequestTakenKeeps
  <2> QED
    BY <1>0, <2>1 DEF RedisInv
<1>6. /\ \A j \in Sessions, d \in Conns : Linked(j, d)' /\ d # c =>
           /\ ~Settled(j)' => ~client'[d].logged /\ ~client'[d].in_room
           /\ Settled(j)' => Agrees(client'[d], users'[j])
  BY <1>0, RequestTakenKeeps
<1>7. /\ \A d \in Conns \ {c} :
           Count(packet_queue', d) + Count(req_packet_queue, d) + Count(res_packet_queue', d)
             = IF client'[d].waiting THEN 1 ELSE 0
      /\ Count(packet_queue', c) + Count(req_packet_queue, c) + Count(res_packet_queue', c) = 0
      /\ client'[c].waiting
  BY <1>0, RequestTakenKeeps
<1>8. \A n \in N : n.conn # r.conn /\ \A d \in Conns : n.conn # d
  BY <1>0, <1>2, DataAssumption
<1>9. /\ AnswersIn(sending', c) # {} /\ Cardinality(AnswersIn(sending', c)) = 1
      /\ \A d \in Conns \ {c} : AnswersIn(sending', d) = {} /\ Cardinality(AnswersIn(sending', d)) = 0
  <2>1. \A m \in N : m.conn # r.conn
    BY <1>0, <1>8
  <2>2. /\ AnswersIn(sending', r.conn) # {} /\ Cardinality(AnswersIn(sending', r.conn)) = 1
        /\ \A d : d # r.conn /\ (\A m \in N : m.conn # d) =>
             AnswersIn(sending', d) = {} /\ Cardinality(AnswersIn(sending', d)) = 0
    BY <1>0, <2>1, AnswersOfHandler
  <2>3. ASSUME NEW d \in Conns \ {c}
        PROVE  AnswersIn(sending', d) = {} /\ Cardinality(AnswersIn(sending', d)) = 0
    <3>1. r.conn # d /\ \A m \in N : m.conn # d
      BY <1>0, <1>8
    <3> QED
      BY <1>0, <2>2, <3>1
  <2> QED
    BY <1>0, <2>2, <2>3
<1>10. r.packet_id \notin NotificationIds /\ \A n \in N : n.packet_id \notin ResponseIds
  BY <1>0 DEF NotificationIds, ResponseIds
<1>11. SendingInv'
  <2>1. \A n \in N : NotificationOK(n)'
    BY <1>0 DEF NotificationOK
  <2>2. ASSUME NEW k \in DOMAIN sending', NEW m \in sending'[k]
        PROVE  \/ m \in N
               \/ m = r /\ sending'[k] = {r} /\ (k = 1 \/ r.packet_id = "ROOM_CHAT_RES")
    <3>1. CASE sending' = <<{r}>>
      BY <1>0, <2>2, <3>1
    <3>2. CASE sending' = <<{r}, N>>
      <4>1. k \in {1, 2}
        BY <1>0, <2>2, <3>2
      <4> QED
        BY <1>0, <2>2, <3>2, <4>1
    <3>3. CASE sending' = <<N, {r}>>
      <4>1. k \in {1, 2}
        BY <1>0, <2>2, <3>3
      <4> QED
        BY <1>0, <2>2, <3>3, <4>1
    <3> QED
      BY <1>0, <3>1, <3>2, <3>3
  <2>3. /\ Linked(i, c)' /\ Settled(i)'
        /\ Agrees(AfterReceiving(client'[c], r), users'[i])
    BY <1>0, <1>1, <1>2, <1>3
  <2>4. ASSUME NEW k \in DOMAIN sending', sending'[k] = {r}, k = 1 \/ r.packet_id = "ROOM_CHAT_RES"
        PROVE  ResponseOK(k, r)'
    BY <1>0, <2>3, <2>4 DEF ResponseOK
  <2> QED
    BY <1>0, <1>4, <1>10, <2>1, <2>2, <2>4 DEF SendingInv
<1>12. AgreeInv'
  <2> SUFFICES ASSUME NEW j \in Sessions, NEW d \in Conns, Linked(j, d)'
               PROVE  /\ ~Settled(j)' => ~client'[d].logged /\ ~client'[d].in_room
                      /\ Settled(j)' /\ AnswersIn(sending', d) = {} =>
                           Agrees(client'[d], users'[j])
    BY <1>0 DEF AgreeInv, Answers, AnswersIn
  <2>1. CASE d = c
    <3>1. j = i
      BY <1>0, <1>1, <1>2, <2>1, PoliteTypes, LinkedOnce DEF PoliteInv
    <3> QED
      BY <1>0, <1>3, <1>9, <2>1, <3>1
  <2>2. CASE d # c
    BY <1>0, <1>6, <2>2
  <2> QED
    BY <1>0, <2>1, <2>2
<1>13. OneAnswerPerRequest'
  <2> SUFFICES ASSUME NEW d \in Conns
               PROVE  Count(packet_queue', d) + Count(req_packet_queue', d)
                        + Count(res_packet_queue', d) + Cardinality(AnswersIn(sending', d))
                          = IF client'[d].waiting THEN 1 ELSE 0
    BY <1>0, SumKept
  <2>1. CASE d = c
    BY <1>0, <1>7, <1>9, <2>1
  <2>2. CASE d # c
    BY <1>0, <1>7, <1>9, <2>2
  <2> QED
    BY <1>0, <2>1, <2>2
<1> QED
  BY <1>0, <1>4, <1>5, <1>11, <1>12, <1>13

\* A login request that is not refused: nothing changes but where its one packet is.
LEMMA RequestForwardedKeeps ==
  ASSUME PoliteInv, TakePacket, packet_queue # <<>>, UNCHANGED <<sessionVars, client>>,
         NEW p, p = Head(packet_queue), p.packet_id \notin HandoverIds,
         NEW c, c = p.conn,
         UNCHANGED <<userRoomVars, process, sending>>,
         NEW a \in PacketInfo, a.conn = c, QuestionOK(a),
         req_packet_queue' = Append(req_packet_queue, a)
  PROVE  /\ ConnectionsInv' /\ HandoversInv'
         /\ PacketsInv' /\ RedisInv' /\ SendingInv'
         /\ ClientsInv' /\ AgreeInv' /\ MembersInv' /\ ListsAreUsers'
         /\ OneAnswerPerRequest'
         /\ Alive'
<1> DEFINE i == p.session_index
<1>1. /\ packet_queue' = Tail(packet_queue)
      /\ UNCHANGED <<res_packet_queue, sessions, available_session_index, sockets, client>>
      /\ \A j, d : Linked(j, d)' <=> Linked(j, d)
      /\ sending = <<>>
      /\ \A d \in Conns : Answers(d) = {} /\ Cardinality(Answers(d)) = 0
  BY TakeFacts
<1>2. /\ i \in Sessions /\ c \in Conns /\ Linked(i, c) /\ Settled(i)
      /\ Agrees(client[c], users[i])
  BY RequestFacts
<1>3. \A j : Settled(j) => Settled(j)'
  BY <1>1, PoliteTypes, SettledTaken DEF Settled
<1>4. UNCHANGED <<users, rooms, index_user_map, process, sending>>
  BY DEF userRoomVars
<1>5. /\ ConnectionsInv' /\ HandoversInv' /\ ClientsInv' /\ MembersInv'
      /\ PacketsInv' /\ Alive' /\ pc' # "take"
  BY <1>4, RequestTakenKeeps
<1>6. RedisInv'
  <2>1. /\ \A q \in Packets(req_packet_queue) : QuestionOK(q)'
        /\ \A q \in Packets(res_packet_queue') : AnswerOK(q)'
    BY <1>4, RequestTakenKeeps
  <2>2. QuestionOK(a)'
    BY <1>1, <1>3, <1>4 DEF QuestionOK, LoginUnderWay
  <2>3. Packets(req_packet_queue') = Packets(req_packet_queue) \cup {a}
    BY PoliteTypes, Appended
  <2> QED
    BY <2>1, <2>2, <2>3 DEF RedisInv
<1>7. \A j \in Sessions, d \in Conns : Linked(j, d)' /\ d # c =>
        /\ ~Settled(j)' => ~client'[d].logged /\ ~client'[d].in_room
        /\ Settled(j)' => Agrees(client'[d], users'[j])
  BY <1>4, RequestTakenKeeps
<1>8. /\ \A d \in Conns \ {c} :
           Count(packet_queue', d) + Count(req_packet_queue, d) + Count(res_packet_queue', d)
             = IF client'[d].waiting THEN 1 ELSE 0
      /\ Count(packet_queue', c) + Count(req_packet_queue, c) + Count(res_packet_queue', c) = 0
      /\ client'[c].waiting
  BY <1>4, RequestTakenKeeps
<1>9. SendingInv'
  BY <1>1, <1>4 DEF SendingInv
<1>10. AgreeInv'
  <2> SUFFICES ASSUME NEW j \in Sessions, NEW d \in Conns, Linked(j, d)'
               PROVE  /\ ~Settled(j)' => ~client'[d].logged /\ ~client'[d].in_room
                      /\ Settled(j)' => Agrees(client'[d], users'[j])
    BY DEF AgreeInv
  <2>1. CASE d = c
    <3>1. j = i
      BY <1>1, <1>2, <2>1, PoliteTypes, LinkedOnce DEF PoliteInv
    <3> QED
      BY <1>1, <1>2, <1>3, <1>4, <2>1, <3>1
  <2>2. CASE d # c
    BY <1>7, <2>2
  <2> QED
    BY <2>1, <2>2
<1>11. ListsAreUsers'
  BY <1>4 DEF PoliteInv, ListsAreUsers, Listed
<1>12. OneAnswerPerRequest'
  <2> SUFFICES ASSUME NEW d \in Conns
               PROVE  Count(packet_queue', d) + Count(req_packet_queue', d)
                        + Count(res_packet_queue', d) + Cardinality(AnswersIn(sending', d))
                          = IF client'[d].waiting THEN 1 ELSE 0
    BY SumKept
  <2>1. /\ Count(req_packet_queue', d) = Count(req_packet_queue, d) + (IF c = d THEN 1 ELSE 0)
        /\ Count(req_packet_queue, d) \in Nat
    BY PoliteTypes, CountAppended, CountNone
  <2>2. Cardinality(AnswersIn(sending', d)) = 0
    BY <1>1, <1>4 DEF Answers
  <2>3. Count(packet_queue', d) \in Nat /\ Count(res_packet_queue', d) \in Nat
    BY <1>1, PoliteTypes, TakeFacts, CountNone
  <2> DEFINE x == Count(packet_queue', d)
             y == Count(req_packet_queue, d)
             z == Count(res_packet_queue', d)
  <2>4. x + y + z = (IF d = c THEN 0 ELSE IF client'[d].waiting THEN 1 ELSE 0)
    BY <1>8
  <2>5. x \in Nat /\ y \in Nat /\ z \in Nat
    BY <2>1, <2>3
  <2>6. Count(req_packet_queue', d) = y + (IF c = d THEN 1 ELSE 0)
    BY <2>1
  <2> HIDE DEF x, y, z
  <2>7. x + Count(req_packet_queue', d) + z = IF client'[d].waiting THEN 1 ELSE 0
    BY <1>8, <2>4, <2>5, <2>6
  <2> USE DEF x, z
  <2>8. Count(packet_queue', d) + Count(req_packet_queue', d) + Count(res_packet_queue', d)
          + Cardinality(AnswersIn(sending', d)) = IF client'[d].waiting THEN 1 ELSE 0
    BY <2>2, <2>7
  <2> QED
    BY <2>8
<1> QED
  BY <1>5, <1>6, <1>9, <1>10, <1>11, <1>12

-----------------------------------------------------------------------------
(***************************************************************************)
(* The handlers of requests, and of the answers of Redis.                  *)
(***************************************************************************)
\* Two sends, one after the other.
LEMMA TwoStages ==
  ASSUME NEW a, NEW b
  PROVE  <<a>> \o <<b>> = <<a, b>>
<1> DEFINE S == {a, b}
           s == <<a>>
           t == <<b>>
           u == <<a, b>>
<1>1. s \in Seq(S) /\ t \in Seq(S) /\ Len(s) = 1 /\ Len(t) = 1 /\ s[1] = a /\ t[1] = b
  OBVIOUS
<1>2. u \in Seq(S) /\ Len(u) = 2 /\ u[1] = a /\ u[2] = b
  OBVIOUS
<1> HIDE DEF S, s, t, u
<1>3. /\ s \o t \in Seq(S) /\ Len(s \o t) = 2
      /\ (s \o t)[1] = s[1] /\ (s \o t)[2] = t[1]
  BY <1>1, ConcatProperties
<1>4. s \o t = u
  BY <1>1, <1>2, <1>3, SeqEqual
<1> QED
  BY <1>4 DEF s, t, u

\* What is left to send by a handler that notifies a room after, or before, it answers.
LEMMA NotifySends ==
  ASSUME NEW list, NEW id, NEW r
  PROVE  \E N :
           /\ \A n \in N : /\ n.conn = NoConn /\ n.packet_id = id
                           /\ \E node \in list : n.to = users[node[1]].index
           /\ <<{r}>> \o NotifyUsers(list, id) \in {<<{r}>>, <<{r}, N>>}
           /\ NotifyUsers(list, id) \o <<{r}>> \in {<<{r}>>, <<N, {r}>>}
<1> DEFINE N == {[to |-> users[node[1]].index, packet_id |-> id, code |-> "NONE",
                  conn |-> NoConn, copy |-> node[2]] : node \in list}
<1>1. \A n \in N : /\ n.conn = NoConn /\ n.packet_id = id
                   /\ \E node \in list : n.to = users[node[1]].index
  OBVIOUS
<1>2. NotifyUsers(list, id) = IF list = {} THEN <<>> ELSE <<N>>
  BY DEF NotifyUsers
<1> HIDE DEF N
<1>3. <<{r}>> \in Seq({N, {r}}) /\ <<N>> \in Seq({N, {r}})
  OBVIOUS
<1>4. <<{r}>> \o <<>> = <<{r}>> /\ <<>> \o <<{r}>> = <<{r}>>
  BY <1>3, ConcatEmptySeq
<1>5. <<{r}>> \o <<N>> = <<{r}, N>>
  BY TwoStages
<1>6. <<N>> \o <<{r}>> = <<N, {r}>>
  BY TwoStages
<1> QED
  BY <1>1, <1>2, <1>4, <1>5, <1>6

\* The entries of a list are those of users who are there.
LEMMA ListedUsers ==
  ASSUME PoliteInv, NEW r \in Rooms, NEW node \in rooms[r]
  PROVE  /\ node[1] \in Sessions /\ users[node[1]].state = "ROOM"
         /\ users[node[1]].room_index = r /\ users[node[1]].index = node[1]
<1>1. node \in Node
  BY PoliteTypes
<1>2. node[1] \in Sessions
  BY <1>1 DEF Node
<1>3. Listed(node[1], r)
  BY DEF Listed, EntriesOf
<1>4. users[node[1]].state = "ROOM" /\ users[node[1]].room_index = r
  BY <1>2, <1>3 DEF PoliteInv, ListsAreUsers
<1>5. users[node[1]].index = node[1]
  BY <1>2, <1>4 DEF PoliteInv, ServerInv, UserTableConsistent
<1> QED
  BY <1>2, <1>4, <1>5

\* Lists and users agree after a step of a user who is in no room before or after it.
LEMMA ListsKept ==
  ASSUME PoliteInv, NEW i \in Sessions, UNCHANGED rooms,
         \A j \in Sessions \ {i} : users'[j] = users[j],
         users[i].state # "ROOM", users'[i].state # "ROOM"
  PROVE  ListsAreUsers'
<1> SUFFICES ASSUME NEW j \in Sessions, NEW r \in Rooms
             PROVE  /\ Listed(j, r)' <=> users'[j].state = "ROOM" /\ users'[j].room_index = r
                    /\ Cardinality(EntriesOf(rooms'[r], j)) <= 1
  BY DEF ListsAreUsers
<1>1. /\ Listed(j, r) <=> users[j].state = "ROOM" /\ users[j].room_index = r
      /\ Cardinality(EntriesOf(rooms[r], j)) <= 1
  BY DEF PoliteInv, ListsAreUsers
<1>2. Listed(j, r)' <=> Listed(j, r)
  BY DEF Listed
<1> QED
  BY <1>1, <1>2

\* A response that is no success changes nothing that its client knows of its user.
LEMMA RefusedAgrees ==
  ASSUME NEW cl \in Client, NEW user, Agrees(cl, user), NEW r,
         r.packet_id \in ResponseIds, r.code # "NONE" \/ r.packet_id = "ROOM_CHAT_RES"
  PROVE  Agrees(AfterReceiving(cl, r), user)
<1>1. /\ AfterReceiving(cl, r).logged = cl.logged
      /\ AfterReceiving(cl, r).user_id = cl.user_id
      /\ AfterReceiving(cl, r).in_room = cl.in_room
  BY DEF AfterReceiving, ResponseIds, NotificationIds, Client
<1> QED
  BY <1>1 DEF Agrees

\* A refusal: the server's state stays as it is.
LEMMA RefusalKeeps ==
  ASSUME PoliteInv, TakePacket, packet_queue # <<>>, UNCHANGED <<sessionVars, client>>,
         NEW p, p = Head(packet_queue), p.packet_id \notin HandoverIds,
         UNCHANGED <<userRoomVars, process, req_packet_queue>>,
         NEW id \in ResponseIds, NEW code, code # "NONE",
         sending' = Respond(p, id, code)
  PROVE  /\ ConnectionsInv' /\ HandoversInv'
         /\ PacketsInv' /\ RedisInv' /\ SendingInv'
         /\ ClientsInv' /\ AgreeInv' /\ MembersInv' /\ ListsAreUsers'
         /\ OneAnswerPerRequest'
         /\ Alive'
<1> DEFINE i == p.session_index
           c == p.conn
           r == Response(p, id, code)
<1>1. /\ i \in Sessions /\ c \in Conns /\ client[c] \in Client
      /\ Agrees(client[c], users[i])
  BY RequestFacts
<1>2. UNCHANGED <<users, rooms, index_user_map, process, req_packet_queue>>
  BY DEF userRoomVars
<1>3. /\ r.conn = c /\ r.to = i /\ r.packet_id = id /\ r.code = code
      /\ sending' = <<{r}>>
  BY DEF Response, Respond
<1> HIDE DEF r
<1>4. Agrees(AfterReceiving(client[c], r), users'[i])
  BY <1>1, <1>2, <1>3, RefusedAgrees
<1>5. ListsAreUsers'
  BY <1>2 DEF PoliteInv, ListsAreUsers, Listed
<1> DEFINE N == {}
<1>6. \A n \in N : /\ n.conn = NoConn /\ n.packet_id \in NotificationIds
                   /\ n.to \in Sessions /\ users'[n.to].state = "ROOM"
  OBVIOUS
<1>7. sending' \in {<<{r}>>, <<{r}, N>>, <<N, {r}>>} /\ sending' # <<N, {r}>>
  BY <1>3
<1> HIDE DEF N
<1>8. Answered(p, r, N)
  BY <1>2, <1>3, <1>4, <1>6, <1>7 DEF Answered
<1> QED
  BY <1>5, <1>8, RequestAnsweredKeeps

\* A login request: a client that is not logged in is refused, or becomes a question to
\* Redis that nobody with its id is before.
LEMMA FuncLoginReqKeeps ==
  ASSUME PoliteInv, TakePacket, packet_queue # <<>>, UNCHANGED <<sessionVars, client>>,
         NEW p, p = Head(packet_queue), FuncLoginReq(p, p)
  PROVE  /\ ConnectionsInv' /\ HandoversInv'
         /\ PacketsInv' /\ RedisInv' /\ SendingInv'
         /\ ClientsInv' /\ AgreeInv' /\ MembersInv' /\ ListsAreUsers'
         /\ OneAnswerPerRequest'
         /\ Alive'
<1> DEFINE i == p.session_index
           c == p.conn
           code == LoginReqCode(i, p.user_id)
           a == LoginRequest(p)
<1>1. p.packet_id = "LOGIN_REQ" /\ p.packet_id \notin HandoverIds
  BY DEF FuncLoginReq, HandoverIds
<1>2. /\ i \in Sessions /\ c \in Conns /\ Linked(i, c) /\ Settled(i) /\ HasUser(i)
      /\ Agrees(client[c], users[i]) /\ p \in PacketInfo /\ PacketOK(p)
  BY <1>1, RequestFacts, TakeFacts
<1>3. UNCHANGED <<userRoomVars, process>>
  BY DEF FuncLoginReq
<1>4. CASE /\ code # "NONE"
           /\ sending' = Respond(p, "LOGIN_RES", code)
           /\ UNCHANGED req_packet_queue
  <2>1. "LOGIN_RES" \in ResponseIds
    BY DEF ResponseIds
  <2> HIDE DEF code
  <2> QED
    BY <1>1, <1>3, <1>4, <2>1, RefusalKeeps
<1>5. CASE /\ code = "NONE"
           /\ req_packet_queue' = Append(req_packet_queue, a)
           /\ UNCHANGED sending
  <2>1. ~IsDuplicatedUserID(p.user_id)
    BY <1>2, <1>5 DEF LoginReqCode
  <2>2. p.user_id = client[c].user_id /\ ~client[c].logged
    BY <1>1, <1>2 DEF PacketOK
  <2>3. /\ users[i].state = "CONNECT" /\ users[i].index = i
    <3>1. users[i].state # "NONE" /\ users[i].index = i
      BY <1>2 DEF PoliteInv, ServerInv, UserTableConsistent
    <3>2. users[i].state \notin {"LOGIN", "ROOM"}
      BY <1>2, <2>2 DEF Agrees
    <3>3. users[i].state \in {"NONE", "CONNECT", "LOGIN", "ROOM"}
      BY <1>2, PoliteTypes DEF User
    <3> QED
      BY <3>1, <3>2, <3>3
  <2>4. \A j \in Sessions :
          users[j].state \in {"LOGIN", "ROOM"} => users[j].user_id # client[c].user_id
    <3>1. \A j \in Sessions : users[j].state \in {"LOGIN", "ROOM"} => HasUser(j)
      BY DEF PoliteInv, ServerInv, UserTableConsistent
    <3> QED
      BY <2>1, <2>2, <3>1 DEF IsDuplicatedUserID, HasUser
  <2>5. /\ a \in PacketInfo /\ a.session_index = i /\ a.conn = c /\ a.code = "NONE"
        /\ a.user_id = p.user_id
    <3>1. EmptyPacket(i, "REDIS_LOGIN_REQ", c) \in PacketInfo
      BY <1>2, EmptyPacketType DEF PacketIds
    <3>2. p.user_id \in UserIds \cup {NoUserId}
      BY <1>2 DEF PacketInfo
    <3>3. a = [EmptyPacket(i, "REDIS_LOGIN_REQ", c) EXCEPT !.user_id = p.user_id]
      BY <2>3 DEF LoginRequest
    <3>4. a \in PacketInfo
      BY <3>1, <3>2, <3>3 DEF PacketInfo
    <3>5. a.session_index = i /\ a.conn = c /\ a.code = "NONE" /\ a.user_id = p.user_id
      BY <3>3 DEF EmptyPacket
    <3> QED
      BY <3>4, <3>5
  <2> HIDE DEF a
  <2>6. QuestionOK(a)
    BY <1>2, <2>2, <2>3, <2>4, <2>5 DEF QuestionOK, LoginUnderWay
  <2> QED
    BY <1>1, <1>3, <1>5, <2>5, <2>6, RequestForwardedKeeps
<1> QED
  BY <1>4, <1>5 DEF FuncLoginReq, AddRedisReqPacketQueue

\* An answer of Redis: the client that asked is logged in with the id it asked for.
LEMMA FuncLoginResKeeps ==
  ASSUME PoliteInv, TakePacket, packet_queue # <<>>, UNCHANGED <<sessionVars, client>>,
         NEW p, p = Head(packet_queue), FuncLoginRes(p)
  PROVE  /\ ConnectionsInv' /\ HandoversInv'
         /\ PacketsInv' /\ RedisInv' /\ SendingInv'
         /\ ClientsInv' /\ AgreeInv' /\ MembersInv' /\ ListsAreUsers'
         /\ OneAnswerPerRequest'
         /\ Alive'
<1> DEFINE i == p.session_index
           c == p.conn
           r == Response(p, "LOGIN_RES", p.code)
<1>1. p.packet_id = "REDIS_LOGIN_RES" /\ p.packet_id \notin HandoverIds
  BY DEF FuncLoginRes, HandoverIds
<1>2. /\ i \in Sessions /\ c \in Conns /\ client[c] \in Client
      /\ Agrees(client[c], users[i]) /\ p \in PacketInfo /\ LoginUnderWay(p)
  BY <1>1, RequestFacts, TakeFacts DEF PacketOK
<1>3. /\ UNCHANGED <<process, req_packet_queue>>
      /\ sending' = Respond(p, "LOGIN_RES", p.code)
  BY DEF FuncLoginRes
<1>4. "LOGIN_RES" \in ResponseIds
  BY DEF ResponseIds
<1>5. CASE p.code # "NONE" /\ UNCHANGED userRoomVars
  BY <1>1, <1>3, <1>4, <1>5, RefusalKeeps
<1>6. CASE p.code = "NONE" /\ LoginUser(i, p.user_id)
  <2>1. /\ users' = [users EXCEPT ![i].state = "LOGIN", ![i].user_id = p.user_id]
        /\ UNCHANGED <<index_user_map, rooms>>
    BY <1>6 DEF LoginUser
  <2>2. /\ \A j \in Sessions \ {i} : users'[j] = users[j]
        /\ users'[i].state = "LOGIN" /\ users'[i].user_id = p.user_id
    BY <1>2, <2>1, PoliteTypes DEF User
  <2>3. users[i].state = "CONNECT" /\ p.user_id = client[c].user_id
    BY <1>2, <1>6 DEF LoginUnderWay
  <2>4. client[c].user_id # NoUserId
    <3>1. Authentic(p)
      BY PoliteTypes, Taken DEF PoliteInv, ServerInv, AnswersAuthentic
    <3> QED
      BY <1>1, <1>6, <2>3, <3>1, DataAssumption DEF Authentic
  <2>5. ListsAreUsers'
    BY <1>2, <2>1, <2>2, <2>3, ListsKept
  <2>6. /\ r.conn = c /\ r.to = i /\ r.packet_id = "LOGIN_RES" /\ r.code = "NONE"
        /\ sending' = <<{r}>>
    BY <1>3, <1>6 DEF Response, Respond
  <2> HIDE DEF r
  <2>7. Agrees(AfterReceiving(client[c], r), users'[i])
    <3>1. /\ AfterReceiving(client[c], r).logged = TRUE
          /\ AfterReceiving(client[c], r).in_room = client[c].in_room
          /\ AfterReceiving(client[c], r).user_id = client[c].user_id
      BY <1>2, <2>6 DEF AfterReceiving, NotificationIds, Client
    <3> QED
      BY <1>2, <2>2, <2>3, <3>1 DEF Agrees
  <2> DEFINE N == {}
  <2>8. \A n \in N : /\ n.conn = NoConn /\ n.packet_id \in NotificationIds
                     /\ n.to \in Sessions /\ users'[n.to].state = "ROOM"
    OBVIOUS
  <2>9. sending' \in {<<{r}>>, <<{r}, N>>, <<N, {r}>>} /\ sending' # <<N, {r}>>
    BY <2>6
  <2> HIDE DEF N
  <2> QED
    <3>1. UNCHANGED <<index_user_map, process, req_packet_queue>>
      BY <1>3, <2>1
    <3>2. users'[i].user_id = client[c].user_id /\ client[c].user_id # NoUserId
      BY <2>2, <2>3, <2>4
    <3>3. r.packet_id \in ResponseIds
      BY <1>4, <2>6
    <3>4. Answered(p, r, N)
      BY <2>2, <2>6, <2>7, <2>8, <2>9, <3>1, <3>2, <3>3 DEF Answered
    <3> QED
      BY <1>1, <2>5, <3>4, RequestAnsweredKeeps
<1> QED
  BY <1>5, <1>6 DEF FuncLoginRes

\* A room request: a user who is logged in becomes a member, and the members hear of it.
LEMMA FuncEnterRoomKeeps ==
  ASSUME PoliteInv, TakePacket, packet_queue # <<>>, UNCHANGED <<sessionVars, client>>,
         NEW p, p = Head(packet_queue), FuncEnterRoom(p, p)
  PROVE  /\ ConnectionsInv' /\ HandoversInv'
         /\ PacketsInv' /\ RedisInv' /\ SendingInv'
         /\ ClientsInv' /\ AgreeInv' /\ MembersInv' /\ ListsAreUsers'
         /\ OneAnswerPerRequest'
         /\ Alive'
<1> DEFINE i == p.session_index
           c == p.conn
           n == p.room_number
           code == EnterRoomCode(i, n, n)
           r == Response(p, "ROOM_ENTER_RES", code)
<1>1. p.packet_id = "ROOM_ENTER_REQ" /\ p.packet_id \notin HandoverIds
  BY DEF FuncEnterRoom, HandoverIds
<1>2. /\ i \in Sessions /\ c \in Conns /\ client[c] \in Client /\ HasUser(i)
      /\ Agrees(client[c], users[i]) /\ p \in PacketInfo /\ PacketOK(p)
  BY <1>1, RequestFacts, TakeFacts
<1>3. UNCHANGED req_packet_queue
  BY DEF FuncEnterRoom
<1>4. "ROOM_ENTER_RES" \in ResponseIds
  BY DEF ResponseIds
<1>5. CASE /\ code # "NONE"
           /\ sending' = Respond(p, "ROOM_ENTER_RES", code)
           /\ UNCHANGED <<userRoomVars, process>>
  <2> HIDE DEF code
  <2> QED
    BY <1>1, <1>3, <1>4, <1>5, RefusalKeeps
<1>6. code = "NONE" => n \in Rooms /\ users[i].state = "LOGIN"
  <2>1. n \in Int /\ n # MAX_CREATED_ROOMS
    BY <1>1, <1>2, SizesAssumption DEF PacketOK, PacketInfo, RoomNumbers
  <2> QED
    BY <2>1, SizesAssumption DEF EnterRoomCode, Rooms
<1>7. CASE /\ code = "NONE"
           /\ EnterRoom(i, n)
           /\ sending' = Respond(p, "ROOM_ENTER_RES", code)
                           \o NotifyUsers(PushBack(rooms[n], i), "ROOM_ENTER_NTF")
           /\ UNCHANGED process
  <2> DEFINE list == PushBack(rooms[n], i)
  <2>1. /\ users' = [users EXCEPT ![i].state = "ROOM", ![i].room_index = n]
        /\ rooms' = [rooms EXCEPT ![n] = list]
        /\ UNCHANGED index_user_map
        /\ n \in Rooms /\ users[i].state = "LOGIN"
    BY <1>6, <1>7 DEF EnterRoom
  <2>2. /\ \A j \in Sessions \ {i} : users'[j] = users[j]
        /\ users'[i].state = "ROOM" /\ users'[i].room_index = n
        /\ users'[i].user_id = users[i].user_id
    BY <1>2, <2>1, PoliteTypes DEF User
  <2>3. users[i].index = i
    BY <1>2 DEF PoliteInv, ServerInv, UserTableConsistent
  <2>4. list = rooms[n] \cup {<<i, 1>>}
    <3>1. EntriesOf(rooms[n], i) = {}
      BY <1>2, <2>1 DEF PoliteInv, ListsAreUsers, Listed
    <3>2. Cardinality(EntriesOf(rooms[n], i)) = 0
      BY <3>1, FS_EmptySet
    <3>3. Cardinality(EntriesOf(rooms[n], i)) + 1 = 1
      BY <3>2
    <3> QED
      BY <3>3 DEF PushBack
  <2> HIDE DEF list
  <2>5. ListsAreUsers'
    <3> SUFFICES ASSUME NEW j \in Sessions, NEW s \in Rooms
                 PROVE  /\ Listed(j, s)' <=> users'[j].state = "ROOM" /\ users'[j].room_index = s
                        /\ Cardinality(EntriesOf(rooms'[s], j)) <= 1
      BY DEF ListsAreUsers
    <3>1. /\ Listed(j, s) <=> users[j].state = "ROOM" /\ users[j].room_index = s
          /\ Cardinality(EntriesOf(rooms[s], j)) <= 1
      BY DEF PoliteInv, ListsAreUsers
    <3>2. rooms'[s] = IF s = n THEN list ELSE rooms[s]
      BY <2>1, PoliteTypes
    <3>3. Listed(j, s)' <=> EntriesOf(rooms'[s], j) # {}
      BY DEF Listed
    <3>4. CASE j = i /\ s = n
      <4>1. EntriesOf(rooms[n], i) = {}
        BY <2>1, <3>1, <3>4 DEF Listed
      <4>2. EntriesOf(rooms'[s], j) = {<<i, 1>>}
        BY <2>4, <3>2, <3>4, <4>1 DEF EntriesOf
      <4>3. Cardinality({<<i, 1>>}) = 1
        BY FS_Singleton
      <4>4. Cardinality(EntriesOf(rooms'[s], j)) = 1 /\ EntriesOf(rooms'[s], j) # {}
        BY <4>2, <4>3
      <4>5. users'[j].state = "ROOM" /\ users'[j].room_index = s
        BY <2>2, <3>4
      <4> QED
        BY <3>3, <4>4, <4>5
    <3>5. CASE ~(j = i /\ s = n)
      <4>1. EntriesOf(rooms'[s], j) = EntriesOf(rooms[s], j)
        BY <2>4, <3>2, <3>5 DEF EntriesOf
      <4> QED
        BY <2>1, <2>2, <3>1, <3>3, <3>5, <4>1 DEF Listed
    <3> QED
      BY <3>4, <3>5
  <2>6. /\ r.conn = c /\ r.to = i /\ r.packet_id = "ROOM_ENTER_RES" /\ r.code = "NONE"
        /\ sending' = <<{r}>> \o NotifyUsers(list, "ROOM_ENTER_NTF")
    BY <1>7 DEF Response, Respond, list
  <2> HIDE DEF r
  <2>7. Agrees(AfterReceiving(client[c], r), users'[i])
    <3>1. /\ AfterReceiving(client[c], r).logged = client[c].logged
          /\ AfterReceiving(client[c], r).in_room = TRUE
          /\ AfterReceiving(client[c], r).user_id = client[c].user_id
      BY <1>2, <2>6 DEF AfterReceiving, NotificationIds, Client
    <3> QED
      BY <1>2, <2>1, <2>2, <3>1 DEF Agrees
  <2>8. PICK N :
          /\ \A m \in N : /\ m.conn = NoConn /\ m.packet_id = "ROOM_ENTER_NTF"
                          /\ \E node \in list : m.to = users[node[1]].index
          /\ <<{r}>> \o NotifyUsers(list, "ROOM_ENTER_NTF") \in {<<{r}>>, <<{r}, N>>}
    BY NotifySends
  <2>9. ASSUME NEW m \in N
        PROVE  /\ m.conn = NoConn /\ m.packet_id \in NotificationIds
               /\ m.to \in Sessions /\ users'[m.to].state = "ROOM"
    <3>1. PICK node \in list : m.to = users[node[1]].index
      BY <2>8
    <3>2. CASE node \in rooms[n]
      <4>1. /\ node[1] \in Sessions /\ users[node[1]].state = "ROOM"
            /\ users[node[1]].index = node[1]
        BY <2>1, <3>2, ListedUsers
      <4>2. m.to = node[1] /\ users'[node[1]] = users[node[1]]
        BY <2>1, <2>2, <3>1, <4>1
      <4> QED
        BY <2>8, <4>1, <4>2 DEF NotificationIds
    <3>3. CASE node = <<i, 1>>
      BY <1>2, <2>2, <2>3, <2>8, <3>1, <3>3 DEF NotificationIds
    <3> QED
      BY <2>4, <3>2, <3>3
  <2>10. sending' \in {<<{r}>>, <<{r}, N>>, <<N, {r}>>}
    BY <2>6, <2>8
  <2>11. sending' # <<N, {r}>>
    <3>1. sending' \in {<<{r}>>, <<{r}, N>>}
      BY <2>6, <2>8
    <3>2. \A m \in N : m # r
      BY <1>2, <2>6, <2>8, DataAssumption
    <3>3. N # {r}
      BY <3>2
    <3> QED
      BY <3>1, <3>3
  <2> QED
    <3>1. UNCHANGED <<index_user_map, process, req_packet_queue>>
      BY <1>3, <1>7, <2>1
    <3>2. users'[i].state \in {"LOGIN", "ROOM"} =>
            \/ users[i].state \in {"LOGIN", "ROOM"} /\ users'[i].user_id = users[i].user_id
            \/ users'[i].user_id = client[c].user_id /\ client[c].user_id # NoUserId
      BY <2>1, <2>2
    <3>3. r.conn = c /\ r.to = i /\ r.packet_id \in ResponseIds
      BY <1>4, <2>6
    <3>4. \A j \in Sessions \ {i} : users'[j] = users[j]
      BY <2>2
    <3>5. \A m \in N : /\ m.conn = NoConn /\ m.packet_id \in NotificationIds
                       /\ m.to \in Sessions /\ users'[m.to].state = "ROOM"
      BY <2>9
    <3>6. Answered(p, r, N)
      BY <2>7, <2>10, <2>11, <3>1, <3>2, <3>3, <3>4, <3>5 DEF Answered
    <3> QED
      BY <1>1, <2>5, <3>6, RequestAnsweredKeeps
<1>8. \/ /\ code # "NONE"
         /\ sending' = Respond(p, "ROOM_ENTER_RES", code)
         /\ UNCHANGED <<userRoomVars, process>>
      \/ /\ code = "NONE"
         /\ EnterRoom(i, n)
         /\ sending' = Respond(p, "ROOM_ENTER_RES", code)
                         \o NotifyUsers(PushBack(rooms[n], i), "ROOM_ENTER_NTF")
         /\ UNCHANGED process
      \/ code = "NONE" /\ n \notin Rooms
  BY DEF FuncEnterRoom
<1> QED
  BY <1>5, <1>6, <1>7, <1>8

\* A leave: a member becomes a user in no room, and the members left hear of it.
LEMMA FuncLeaveRoomKeeps ==
  ASSUME PoliteInv, TakePacket, packet_queue # <<>>, UNCHANGED <<sessionVars, client>>,
         NEW p, p = Head(packet_queue), FuncLeaveRoom(p)
  PROVE  /\ ConnectionsInv' /\ HandoversInv'
         /\ PacketsInv' /\ RedisInv' /\ SendingInv'
         /\ ClientsInv' /\ AgreeInv' /\ MembersInv' /\ ListsAreUsers'
         /\ OneAnswerPerRequest'
         /\ Alive'
<1> DEFINE i == p.session_index
           c == p.conn
           n == users[i].room_index
           code == LeaveRoomCode(i)
           left == RemoveAll(rooms[n], i)
           r == Response(p, "ROOM_LEAVE_RES", code)
<1>1. p.packet_id = "ROOM_LEAVE_REQ" /\ p.packet_id \notin HandoverIds
  BY DEF FuncLeaveRoom, HandoverIds
<1>2. /\ i \in Sessions /\ c \in Conns /\ client[c] \in Client /\ HasUser(i)
      /\ Agrees(client[c], users[i]) /\ p \in PacketInfo /\ PacketOK(p)
  BY <1>1, RequestFacts, TakeFacts
<1>3. UNCHANGED <<req_packet_queue, process>>
  BY DEF FuncLeaveRoom
<1>4. "ROOM_LEAVE_RES" \in ResponseIds
  BY DEF ResponseIds
<1>5. CASE /\ code # "NONE"
           /\ sending' = Respond(p, "ROOM_LEAVE_RES", code)
           /\ UNCHANGED userRoomVars
  <2> HIDE DEF code
  <2> QED
    BY <1>1, <1>3, <1>4, <1>5, RefusalKeeps
<1>6. CASE /\ code = "NONE"
           /\ LeaveRoom(i)
           /\ sending' = Respond(p, "ROOM_LEAVE_RES", code)
                           \o NotifyUsers(left, "ROOM_LEAVE_NTF")
  <2>1. users[i].state = "ROOM"
    BY <1>6 DEF LeaveRoomCode
  <2>2. n \in Rooms
    BY <1>2, <2>1 DEF PoliteInv, ServerInv, UserStateMatchesRoom
  <2>3. /\ users' = [users EXCEPT ![i].state = "LOGIN", ![i].room_index = NoIndex]
        /\ rooms' = [rooms EXCEPT ![n] = left]
        /\ UNCHANGED index_user_map
    BY <1>6 DEF LeaveRoom
  <2>4. /\ \A j \in Sessions \ {i} : users'[j] = users[j]
        /\ users'[i].state = "LOGIN" /\ users'[i].user_id = users[i].user_id
    BY <1>2, <2>3, PoliteTypes DEF User
  <2>5. \A node \in left : node \in rooms[n] /\ node[1] # i
    BY DEF RemoveAll, EntriesOf
  <2>6. EntriesOf(left, i) = {} /\ \A j : j # i => EntriesOf(left, j) = EntriesOf(rooms[n], j)
    BY DEF RemoveAll, EntriesOf
  <2>7. /\ r.conn = c /\ r.to = i /\ r.packet_id = "ROOM_LEAVE_RES" /\ r.code = "NONE"
        /\ sending' = <<{r}>> \o NotifyUsers(left, "ROOM_LEAVE_NTF")
    BY <1>6 DEF Response, Respond
  <2> HIDE DEF r, left, n
  <2>8. ListsAreUsers'
    <3> SUFFICES ASSUME NEW j \in Sessions, NEW s \in Rooms
                 PROVE  /\ Listed(j, s)' <=> users'[j].state = "ROOM" /\ users'[j].room_index = s
                        /\ Cardinality(EntriesOf(rooms'[s], j)) <= 1
      BY DEF ListsAreUsers
    <3>1. /\ Listed(j, s) <=> users[j].state = "ROOM" /\ users[j].room_index = s
          /\ Cardinality(EntriesOf(rooms[s], j)) <= 1
      BY DEF PoliteInv, ListsAreUsers
    <3>2. rooms'[s] = IF s = n THEN left ELSE rooms[s]
      BY <2>3, PoliteTypes
    <3>3. Listed(j, s)' <=> EntriesOf(rooms'[s], j) # {}
      BY DEF Listed
    <3>4. CASE j = i
      <4>1. EntriesOf(rooms'[s], j) = {}
        <5>1. CASE s = n
          BY <2>6, <3>2, <3>4, <5>1
        <5>2. CASE s # n
          BY <3>1, <3>2, <3>4, <5>2 DEF Listed, n
        <5> QED
          BY <5>1, <5>2
      <4>2. Cardinality(EntriesOf(rooms'[s], j)) = 0
        BY <4>1, FS_EmptySet
      <4> QED
        BY <2>4, <3>3, <3>4, <4>1, <4>2
    <3>5. CASE j # i
      <4>1. EntriesOf(rooms'[s], j) = EntriesOf(rooms[s], j)
        BY <2>6, <3>2, <3>5
      <4>2. users'[j] = users[j]
        BY <2>4, <3>5
      <4> QED
        BY <3>1, <3>3, <4>1, <4>2 DEF Listed
    <3> QED
      BY <3>4, <3>5
  <2>9. Agrees(AfterReceiving(client[c], r), users'[i])
    <3>1. /\ AfterReceiving(client[c], r).logged = client[c].logged
          /\ AfterReceiving(client[c], r).in_room = FALSE
          /\ AfterReceiving(client[c], r).user_id = client[c].user_id
      BY <1>2, <2>7 DEF AfterReceiving, NotificationIds, Client
    <3> QED
      BY <1>2, <2>1, <2>4, <3>1 DEF Agrees
  <2>10. PICK N :
          /\ \A m \in N : /\ m.conn = NoConn /\ m.packet_id = "ROOM_LEAVE_NTF"
                          /\ \E node \in left : m.to = users[node[1]].index
          /\ <<{r}>> \o NotifyUsers(left, "ROOM_LEAVE_NTF") \in {<<{r}>>, <<{r}, N>>}
    BY NotifySends
  <2>11. ASSUME NEW m \in N
         PROVE  /\ m.conn = NoConn /\ m.packet_id \in NotificationIds
                /\ m.to \in Sessions /\ users'[m.to].state = "ROOM"
    <3>1. PICK node \in left : m.to = users[node[1]].index
      BY <2>10
    <3>2. /\ node[1] \in Sessions /\ users[node[1]].state = "ROOM"
          /\ users[node[1]].index = node[1]
      BY <2>2, <2>5, ListedUsers
    <3>3. m.to = node[1] /\ users'[node[1]] = users[node[1]]
      BY <2>4, <2>5, <3>1, <3>2
    <3> QED
      BY <2>10, <3>2, <3>3 DEF NotificationIds
  <2>12. sending' \in {<<{r}>>, <<{r}, N>>, <<N, {r}>>}
    BY <2>7, <2>10
  <2>13. sending' # <<N, {r}>>
    <3>1. sending' \in {<<{r}>>, <<{r}, N>>}
      BY <2>7, <2>10
    <3>2. \A m \in N : m # r
      BY <1>2, <2>7, <2>10, DataAssumption
    <3>3. N # {r}
      BY <3>2
    <3> QED
      BY <3>1, <3>3
  <2> QED
    <3>1. UNCHANGED <<index_user_map, process, req_packet_queue>>
      BY <1>3, <2>3
    <3>2. users'[i].state \in {"LOGIN", "ROOM"} =>
            \/ users[i].state \in {"LOGIN", "ROOM"} /\ users'[i].user_id = users[i].user_id
            \/ users'[i].user_id = client[c].user_id /\ client[c].user_id # NoUserId
      BY <2>1, <2>4
    <3>3. r.conn = c /\ r.to = i /\ r.packet_id \in ResponseIds
      BY <1>4, <2>7
    <3>4. \A j \in Sessions \ {i} : users'[j] = users[j]
      BY <2>4
    <3>5. \A m \in N : /\ m.conn = NoConn /\ m.packet_id \in NotificationIds
                       /\ m.to \in Sessions /\ users'[m.to].state = "ROOM"
      BY <2>11
    <3>6. Answered(p, r, N)
      BY <2>9, <2>12, <2>13, <3>1, <3>2, <3>3, <3>4, <3>5 DEF Answered
    <3> QED
      BY <1>1, <2>8, <3>6, RequestAnsweredKeeps
<1>7. \/ /\ code # "NONE"
         /\ sending' = Respond(p, "ROOM_LEAVE_RES", code)
         /\ UNCHANGED userRoomVars
      \/ /\ code = "NONE"
         /\ LeaveRoom(i)
         /\ sending' = Respond(p, "ROOM_LEAVE_RES", code)
                         \o NotifyUsers(left, "ROOM_LEAVE_NTF")
  BY DEF FuncLeaveRoom
<1> QED
  BY <1>5, <1>6, <1>7

\* A chat: the members hear of it before its sender does.
LEMMA FuncChatRoomKeeps ==
  ASSUME PoliteInv, TakePacket, packet_queue # <<>>, UNCHANGED <<sessionVars, client>>,
         NEW p, p = Head(packet_queue), FuncChatRoom(p)
  PROVE  /\ ConnectionsInv' /\ HandoversInv'
         /\ PacketsInv' /\ RedisInv' /\ SendingInv'
         /\ ClientsInv' /\ AgreeInv' /\ MembersInv' /\ ListsAreUsers'
         /\ OneAnswerPerRequest'
         /\ Alive'
<1> DEFINE i == p.session_index
           c == p.conn
           n == users[i].room_index
           code == ChatRoomCode(i)
           r == Response(p, "ROOM_CHAT_RES", code)
<1>1. p.packet_id = "ROOM_CHAT_REQ" /\ p.packet_id \notin HandoverIds
  BY DEF FuncChatRoom, HandoverIds
<1>2. /\ i \in Sessions /\ c \in Conns /\ client[c] \in Client /\ HasUser(i)
      /\ Agrees(client[c], users[i]) /\ p \in PacketInfo /\ PacketOK(p)
  BY <1>1, RequestFacts, TakeFacts
<1>3. UNCHANGED <<userRoomVars, req_packet_queue, process>>
  BY DEF FuncChatRoom
<1>4. "ROOM_CHAT_RES" \in ResponseIds
  BY DEF ResponseIds
<1>5. CASE /\ code # "NONE"
           /\ sending' = Respond(p, "ROOM_CHAT_RES", code)
  <2> HIDE DEF code
  <2> QED
    BY <1>1, <1>3, <1>4, <1>5, RefusalKeeps
<1>6. CASE /\ code = "NONE"
           /\ sending' = NotifyUsers(rooms[n], "ROOM_CHAT_NTF")
                           \o Respond(p, "ROOM_CHAT_RES", code)
  <2>1. users[i].state = "ROOM"
    BY <1>6 DEF ChatRoomCode
  <2>2. n \in Rooms
    BY <1>2, <2>1 DEF PoliteInv, ServerInv, UserStateMatchesRoom
  <2>3. UNCHANGED <<users, rooms, index_user_map, process, req_packet_queue>>
    BY <1>3 DEF userRoomVars
  <2>4. /\ r.conn = c /\ r.to = i /\ r.packet_id = "ROOM_CHAT_RES"
        /\ sending' = NotifyUsers(rooms[n], "ROOM_CHAT_NTF") \o <<{r}>>
    BY <1>6 DEF Response, Respond
  <2> HIDE DEF r, n
  <2>5. ListsAreUsers'
    BY <2>3 DEF PoliteInv, ListsAreUsers, Listed
  <2>6. Agrees(AfterReceiving(client[c], r), users'[i])
    BY <1>2, <1>4, <2>3, <2>4, RefusedAgrees
  <2>7. PICK N :
          /\ \A m \in N : /\ m.conn = NoConn /\ m.packet_id = "ROOM_CHAT_NTF"
                          /\ \E node \in rooms[n] : m.to = users[node[1]].index
          /\ NotifyUsers(rooms[n], "ROOM_CHAT_NTF") \o <<{r}>> \in {<<{r}>>, <<N, {r}>>}
    BY NotifySends
  <2>8. ASSUME NEW m \in N
        PROVE  /\ m.conn = NoConn /\ m.packet_id \in NotificationIds
               /\ m.to \in Sessions /\ users'[m.to].state = "ROOM"
    <3>1. PICK node \in rooms[n] : m.to = users[node[1]].index
      BY <2>7
    <3>2. /\ node[1] \in Sessions /\ users[node[1]].state = "ROOM"
          /\ users[node[1]].index = node[1]
      BY <2>2, ListedUsers
    <3> QED
      BY <2>3, <2>7, <3>1, <3>2 DEF NotificationIds
  <2>9. sending' \in {<<{r}>>, <<{r}, N>>, <<N, {r}>>}
    BY <2>4, <2>7
  <2> QED
    <3>1. r.conn = c /\ r.to = i /\ r.packet_id \in ResponseIds
      BY <1>4, <2>4
    <3>2. \A j \in Sessions \ {i} : users'[j] = users[j]
      BY <2>3
    <3>3. \A m \in N : /\ m.conn = NoConn /\ m.packet_id \in NotificationIds
                       /\ m.to \in Sessions /\ users'[m.to].state = "ROOM"
      BY <2>8
    <3>4. users'[i].state \in {"LOGIN", "ROOM"} =>
            \/ users[i].state \in {"LOGIN", "ROOM"} /\ users'[i].user_id = users[i].user_id
            \/ users'[i].user_id = client[c].user_id /\ client[c].user_id # NoUserId
      BY <2>1, <2>3
    <3>5. sending' = <<N, {r}>> => r.packet_id = "ROOM_CHAT_RES"
      BY <2>4
    <3>6. UNCHANGED <<index_user_map, process, req_packet_queue>>
      BY <2>3
    <3>7. Answered(p, r, N)
      BY <2>6, <2>9, <3>1, <3>2, <3>3, <3>4, <3>5, <3>6 DEF Answered
    <3> QED
      BY <1>1, <2>5, <3>7, RequestAnsweredKeeps
<1>7. \/ /\ code # "NONE"
         /\ sending' = Respond(p, "ROOM_CHAT_RES", code)
      \/ /\ code = "NONE"
         /\ sending' = NotifyUsers(rooms[n], "ROOM_CHAT_NTF")
                         \o Respond(p, "ROOM_CHAT_RES", code)
  BY DEF FuncChatRoom
<1> QED
  BY <1>5, <1>6, <1>7

\* Every packet has a handler, and every handler keeps the invariant.
LEMMA TakePacketKeeps ==
  ASSUME RulesKept, PoliteInv, TakePacket, UNCHANGED <<sessionVars, client>>
  PROVE  /\ ConnectionsInv' /\ HandoversInv'
         /\ PacketsInv' /\ RedisInv' /\ SendingInv'
         /\ ClientsInv' /\ AgreeInv' /\ MembersInv' /\ ListsAreUsers'
         /\ OneAnswerPerRequest'
         /\ Alive'
<1>1. CASE packet_queue # <<>>
  <2> DEFINE p == Head(packet_queue)
  <2>1. HandlePacket(p, p) /\ PacketOK(p)
    BY <1>1, TakeFacts, TakeReadsOnce
  <2>2. CASE FuncAccept(p)
    BY <1>1, <2>2, FuncAcceptKeeps
  <2>3. CASE FuncClose(p)
    BY <1>1, <2>3, FuncCloseKeeps
  <2>4. CASE FuncLoginReq(p, p)
    BY <1>1, <2>4, FuncLoginReqKeeps
  <2>5. CASE FuncLoginRes(p)
    BY <1>1, <2>5, FuncLoginResKeeps
  <2>6. CASE FuncEnterRoom(p, p)
    BY <1>1, <2>6, FuncEnterRoomKeeps
  <2>7. CASE FuncLeaveRoom(p)
    BY <1>1, <2>7, FuncLeaveRoomKeeps
  <2>8. CASE FuncChatRoom(p)
    BY <1>1, <2>8, FuncChatRoomKeeps
  <2>9. ~IgnorePacket(p)
    BY <2>1 DEF IgnorePacket, PacketOK, HandoverIds, RequestIds
  <2>10. ~LeaveDefinedBehaviour(p)
    <3>1. p.packet_id # "MAX_PACKET_ID" /\ p.session_index \in Sessions
      BY <1>1, <2>1, TakeFacts DEF PacketOK, HandoverIds, RequestIds, PacketInfo
    <3>2. p.packet_id \notin HandoverIds => HasUser(p.session_index)
      BY <1>1, RequestFacts
    <3>3. p.packet_id = "SYS_CLOSE" => HasUser(p.session_index)
      <4> SUFFICES ASSUME p.packet_id = "SYS_CLOSE" PROVE HasUser(p.session_index)
        OBVIOUS
      <4>1. Alternate(packet_queue, p.session_index, HasUser(p.session_index),
                      sessions[p.session_index].connected)
        BY <3>1 DEF PoliteInv, HandoversInv
      <4>2. p.packet_id \in HandoverIds
        BY DEF HandoverIds
      <4>3. p.packet_id = "SYS_ACCEPT" <=> ~HasUser(p.session_index)
        BY <1>1, <3>1, <4>1, <4>2, PoliteTypes, AlternateTaken
      <4> QED
        BY <4>3
    <3> QED
      BY <3>1, <3>2, <3>3 DEF LeaveDefinedBehaviour, HandoverIds
  <2> HIDE DEF p
  <2> QED
    BY <2>1, <2>2, <2>3, <2>4, <2>5, <2>6, <2>7, <2>8, <2>9, <2>10 DEF HandlePacket
<1>2. CASE packet_queue = <<>>
  <2>1. /\ UNCHANGED <<users, index_user_map, rooms, packet_queue, req_packet_queue,
                       res_packet_queue, sending, sessions, available_session_index, sockets,
                       client, process>>
        /\ pc' = "poll"
    BY <1>2 DEF TakePacket, userRoomVars, sessionVars
  <2>2. /\ ConnectionsInv' /\ AgreeInv' /\ MembersInv' /\ ListsAreUsers'
        /\ \A p : LoginUnderWay(p) => LoginUnderWay(p)'
        /\ \A p : PacketOK(p) => PacketOK(p)'
    BY <2>1, PoliteTypes, TableKept
  <2>3. HandoversInv' /\ ClientsInv' /\ Alive'
    BY <2>1 DEF PoliteInv, HandoversInv, HasUser, ClientsInv, Alive
  <2>4. PacketsInv' /\ RedisInv'
    BY <2>1, <2>2 DEF PoliteInv, PacketsInv, RedisInv, QuestionOK, AnswerOK
  <2>5. SendingInv'
    BY <2>1 DEF PoliteInv, SendingInv, ResponseOK, NotificationOK, Linked, ConnOf, Settled
  <2>6. OneAnswerPerRequest'
    BY <2>1 DEF PoliteInv, OneAnswerPerRequest, Outstanding
  <2> QED
    BY <2>2, <2>3, <2>4, <2>5, <2>6
<1> QED
  BY <1>1, <1>2

-----------------------------------------------------------------------------
(***************************************************************************)
(* The invariant holds in every reachable state.                           *)
(***************************************************************************)
\* At the start there is nobody, nothing is queued, and every index is free.
LEMMA PoliteInit == Init => PoliteInv
<1> SUFFICES ASSUME Init PROVE PoliteInv
  OBVIOUS
<1>1. ServerInv
  BY InitInv
<1>2. /\ users = [i \in Sessions |-> ClearedUser] /\ index_user_map = {}
      /\ rooms = [r \in Rooms |-> {}]
      /\ req_packet_queue = <<>> /\ res_packet_queue = <<>> /\ packet_queue = <<>>
      /\ pc = "poll" /\ sending = <<>>
      /\ sessions = [i \in Sessions |-> [connected |-> FALSE, sockfd |-> NoIndex]]
      /\ available_session_index = [k \in 1 .. MAX_CONNECTED_SESSIONS |-> k - 1]
      /\ sockets = [f \in Fds |-> NoConn]
      /\ client = [c \in Conns |-> NewClient] /\ process = "running"
  BY DEF Init, UserRoomsInit, RedisInit, PacketManagerInit, SessionTableInit, ClientsInit
<1>3. \A i \in Sessions : ~sessions[i].connected /\ users[i].state = "NONE" /\ ~HasUser(i)
  BY <1>2 DEF HasUser, ClearedUser
<1>4. \A i, c : ~Linked(i, c)
  BY <1>3 DEF Linked
<1>5. DOMAIN packet_queue = {} /\ DOMAIN req_packet_queue = {} /\ DOMAIN res_packet_queue = {}
      /\ DOMAIN sending = {}
  BY <1>2
<1>6. ConnectionsInv
  <2>1. SessionsUnique
    <3>1. \A k, n \in 1 .. MAX_CONNECTED_SESSIONS : k - 1 = n - 1 => k = n
      BY SizesAssumption
    <3>2. \A k \in 1 .. MAX_CONNECTED_SESSIONS : k - 1 \in Sessions
      BY SizesAssumption DEF Sessions
    <3> QED
      BY <1>2, <1>3, <3>1, <3>2 DEF SessionsUnique
  <2> QED
    BY <1>2, <1>3, <2>1 DEF ConnectionsInv
<1>7. HandoversInv
  <2>1. \A i : HandoversOf(packet_queue, i) = {}
    BY <1>5 DEF HandoversOf
  <2> QED
    BY <1>3, <2>1 DEF HandoversInv, Alternate
<1>8. PacketsInv /\ RedisInv
  BY <1>5 DEF PacketsInv, RedisInv, Packets, RequestsLast
<1>9. SendingInv
  BY <1>2, <1>5 DEF SendingInv
<1>10. ClientsInv
  BY <1>2 DEF ClientsInv, NewClient
<1>11. AgreeInv /\ MembersInv
  BY <1>3, <1>4 DEF AgreeInv, MembersInv
<1>12. ListsAreUsers
  <2> SUFFICES ASSUME NEW i \in Sessions, NEW r \in Rooms
               PROVE  /\ ~Listed(i, r) /\ users[i].state # "ROOM"
                      /\ Cardinality(EntriesOf(rooms[r], i)) <= 1
    BY DEF ListsAreUsers
  <2>1. EntriesOf(rooms[r], i) = {}
    BY <1>2 DEF EntriesOf
  <2>2. Cardinality(EntriesOf(rooms[r], i)) = 0
    BY <2>1, FS_EmptySet
  <2> QED
    BY <1>3, <2>1, <2>2 DEF Listed
<1>13. OneAnswerPerRequest
  <2> SUFFICES ASSUME NEW c \in Conns
               PROVE  Outstanding(c) = 0 /\ ~client[c].waiting
    BY DEF OneAnswerPerRequest
  <2>1. /\ PacketsOf(packet_queue, c) = {} /\ PacketsOf(req_packet_queue, c) = {}
        /\ PacketsOf(res_packet_queue, c) = {}
        /\ {k \in DOMAIN sending : \E m \in sending[k] : m.conn = c} = {}
    BY <1>5 DEF PacketsOf
  <2>2. Cardinality({}) = 0
    BY FS_EmptySet
  <2>3. Outstanding(c) = 0
    BY <2>1, <2>2 DEF Outstanding
  <2> QED
    BY <1>2, <2>3 DEF NewClient
<1> QED
  BY <1>1, <1>2, <1>6, <1>7, <1>8, <1>9, <1>10, <1>11, <1>12, <1>13 DEF PoliteInv, Alive

\* A step that changes nothing keeps everything.
LEMMA PoliteUnchanged ==
  ASSUME PoliteInv, UNCHANGED vars
  PROVE  PoliteInv'
<1>1. UNCHANGED <<users, index_user_map, rooms, req_packet_queue, res_packet_queue,
                  packet_queue, pc, sending, sessions, available_session_index, read_fds,
                  sockets, client, process>>
  BY DEF vars, userRoomVars, redisVars, packetVars, sessionVars
<1>2. ServerInv'
  BY NextInv DEF PoliteInv
<1>3. \A i, c : Linked(i, c)' <=> Linked(i, c)
  BY <1>1 DEF Linked, ConnOf
<1>4. \A i : (Settled(i)' <=> Settled(i)) /\ (HasUser(i)' <=> HasUser(i))
  BY <1>1 DEF Settled, HasUser
<1>5. \A p : LoginUnderWay(p)' <=> LoginUnderWay(p)
  BY <1>1, <1>3, <1>4 DEF LoginUnderWay
<1>6. \A p : PacketOK(p)' <=> PacketOK(p)
  BY <1>1, <1>3, <1>5 DEF PacketOK
<1>7. ConnectionsInv'
  BY <1>1 DEF PoliteInv, ConnectionsInv, SessionsUnique
<1>8. HandoversInv'
  BY <1>1 DEF PoliteInv, HandoversInv, HasUser
<1>9. PacketsInv' /\ RedisInv'
  BY <1>1, <1>5, <1>6 DEF PoliteInv, PacketsInv, RedisInv, QuestionOK, AnswerOK
<1>10. SendingInv'
  BY <1>1, <1>3, <1>4 DEF PoliteInv, SendingInv, ResponseOK, NotificationOK
<1>11. ClientsInv' /\ MembersInv' /\ AgreeInv' /\ Alive'
  BY <1>1, <1>3, <1>4 DEF PoliteInv, ClientsInv, MembersInv, AgreeInv, Answers, Alive
<1>12. ListsAreUsers' /\ OneAnswerPerRequest'
  BY <1>1 DEF PoliteInv, ListsAreUsers, Listed, OneAnswerPerRequest, Outstanding
<1> QED
  BY <1>2, <1>7, <1>8, <1>9, <1>10, <1>11, <1>12 DEF PoliteInv

\* Whatever thread takes the next step, and if a client leaves, the invariant holds again.
LEMMA PoliteNext ==
  ASSUME RulesKept, PoliteInv, Next
  PROVE  /\ ConnectionsInv' /\ HandoversInv'
         /\ PacketsInv' /\ RedisInv' /\ SendingInv'
         /\ ClientsInv' /\ AgreeInv' /\ MembersInv' /\ ListsAreUsers'
         /\ OneAnswerPerRequest'
         /\ Alive'
<1>1. CASE NetworkThread
  BY <1>1, CreateSessionKeeps, ReceiveRequestKeeps, ReceiveCloseKeeps DEF NetworkThread
<1>2. CASE PacketThread
  BY <1>2, PollRedisKeeps, TakePacketKeeps, SendSucceedsKeeps, SendsReturn DEF PacketThread
<1>3. CASE RedisThread
  BY <1>3, ProcessRedisPacketKeeps, LoseRedisKeeps DEF RedisThread
<1>4. CASE ClientLeaves
  BY <1>4, ClientLeavesKeeps
<1> QED
  BY <1>1, <1>2, <1>3, <1>4 DEF Next

\* While clients keep all rules, threads, queues and clients agree in every reachable
\* state: the inductive invariant that the theorems below follow from.
THEOREM PoliteInvariant ==
  ASSUME RulesKept
  PROVE  Spec => []PoliteInv
<1>1. PoliteInv /\ [Next]_vars => PoliteInv'
  <2> SUFFICES ASSUME PoliteInv, [Next]_vars PROVE PoliteInv'
    OBVIOUS
  <2>1. ServerInv'
    BY NextInv DEF PoliteInv
  <2>2. CASE Next
    BY <2>1, <2>2, PoliteNext DEF PoliteInv
  <2>3. CASE UNCHANGED vars
    BY <2>3, PoliteUnchanged
  <2> QED
    BY <2>2, <2>3
<1> QED
  BY <1>1, PoliteInit, PTL DEF Spec

\* A step of the server leaves defined behaviour, if at all, as Redis does.
LEMMA RunningKept ==
  ASSUME RulesKept, ~RedisMayFail, PoliteInv, Running, [Next]_vars
  PROVE  Running'
<1>1. ~SendFails /\ ~SendKills
  BY SendsReturn
<1>2. CASE Next
  <2>1. CASE NetworkThread \/ ClientLeaves
    BY <2>1 DEF NetworkThread, CreateSession, ReceiveRequest, ReceiveClose, ClientLeaves, Running
  <2>2. CASE PollRedis \/ SendSucceeds
    BY <2>2 DEF PollRedis, SendSucceeds, Running
  <2>3. CASE TakePacket /\ UNCHANGED <<sessionVars, client>>
    <3>1. process' # "redis_reply"
      BY <2>3 DEF TakePacket, HandlePacket, FuncAccept, FuncClose, FuncLoginReq, FuncLoginRes,
                  FuncEnterRoom, FuncLeaveRoom, FuncChatRoom, IgnorePacket,
                  LeaveDefinedBehaviour, Running
    <3>2. Alive'
      BY <2>3, TakePacketKeeps
    <3> QED
      BY <3>1, <3>2 DEF Alive, Running
  <2>4. CASE RedisThread
    BY <2>4 DEF RedisThread, ProcessRedisPacket, LoseRedis, Running
  <2> QED
    BY <1>1, <1>2, <2>1, <2>2, <2>3, <2>4 DEF Next, PacketThread
<1>3. CASE UNCHANGED vars
  BY <1>3 DEF vars, Running
<1> QED
  BY <1>2, <1>3

-----------------------------------------------------------------------------
(***************************************************************************)
(* What follows for clients that keep all rules.                           *)
(***************************************************************************)
\* While Redis answers, no handler dereferences a null user, no index runs out of a
\* table, no notification goes to a cleared user, and no send meets a closed connection.
THEOREM PoliteServerStaysDefined ==
  ASSUME RulesKept, ~RedisMayFail
  PROVE  Spec => []StaysDefined
<1>1. Init => Running
  BY DEF Init, Running
<1>2. PoliteInv /\ Running /\ [Next]_vars => Running'
  BY RunningKept
<1>3. Running => StaysDefined
  BY DEF StaysDefined
<1> QED
  BY <1>1, <1>2, <1>3, PoliteInvariant, PTL DEF Spec

\* The lists of the rooms and the states of the users say the same, and nobody is
\* listed twice: IsFull counts users.
THEOREM PoliteListsAreUsers ==
  ASSUME RulesKept
  PROVE  Spec => []ListsAreUsers
<1>1. PoliteInv => ListsAreUsers
  BY DEF PoliteInv
<1> QED
  BY <1>1, PoliteInvariant, PTL

\* No session index is handed out to a second client while the first has it.
THEOREM PoliteSessionsUnique ==
  ASSUME RulesKept
  PROVE  Spec => []SessionsUnique
<1>1. PoliteInv => SessionsUnique
  BY DEF PoliteInv, ConnectionsInv
<1> QED
  BY <1>1, PoliteInvariant, PTL

\* Every response reaches the connection that asked, although SendPacket looks the
\* session up by its index only.
THEOREM PoliteResponseReachesAsker ==
  ASSUME RulesKept
  PROVE  Spec => []ResponseReachesAsker
<1>1. PoliteInv => ResponseReachesAsker
  BY PendingReaches DEF ResponseReachesAsker
<1> QED
  BY <1>1, PoliteInvariant, PTL

\* Every notification reaches a client that is in a room.
THEOREM PoliteNotificationReachesMember ==
  ASSUME RulesKept
  PROVE  Spec => []NotificationReachesMember
<1>1. PoliteInv => NotificationReachesMember
  <2> SUFFICES ASSUME PoliteInv, NEW m \in PendingSends, m.packet_id \in NotificationIds
               PROVE  /\ m.to \in Sessions /\ ConnOf(m.to) # NoConn
                      /\ client[ConnOf(m.to)].phase = "open" /\ client[ConnOf(m.to)].in_room
    BY DEF NotificationReachesMember
  <2>1. /\ m.to \in Sessions /\ Linked(m.to, ConnOf(m.to))
        /\ client[ConnOf(m.to)].phase = "open" /\ client[ConnOf(m.to)].in_room
    BY PendingReaches
  <2> QED
    BY <2>1, DataAssumption DEF Linked
<1> QED
  BY <1>1, PoliteInvariant, PTL

\* A handler reads what its client sent: nothing is received into the buffer of a
\* session, nor is the buffer cleared, while a queued request points into it.
THEOREM PoliteRequestsIntact ==
  ASSUME RulesKept
  PROVE  Spec => []RequestsIntact
<1>1. PoliteInv => RequestsIntact
  BY DEF PoliteInv, PacketsInv, Packets, PacketOK, RequestsIntact
<1> QED
  BY <1>1, PoliteInvariant, PTL

\* Every request is under way once until its response is received, and no other.
THEOREM PoliteOneAnswerPerRequest ==
  ASSUME RulesKept
  PROVE  Spec => []OneAnswerPerRequest
<1>1. PoliteInv => OneAnswerPerRequest
  BY DEF PoliteInv
<1> QED
  BY <1>1, PoliteInvariant, PTL

\* A client that waits for nothing knows whether it is logged in, with which id, and
\* whether it is in a room, although the server never tells it anything unasked.
THEOREM PoliteClientAgrees ==
  ASSUME RulesKept
  PROVE  Spec => []ClientAgrees
<1>1. PoliteInv => ClientAgrees
  <2> SUFFICES ASSUME PoliteInv, NEW i \in Sessions, sessions[i].connected,
                      ConnOf(i) # NoConn, Handovers(i) = {}, ~client[ConnOf(i)].waiting
               PROVE  Agrees(client[ConnOf(i)], users[i])
    BY DEF ClientAgrees, Agrees
  <2>1. ConnOf(i) \in Conns /\ Linked(i, ConnOf(i))
    BY PoliteTypes, LinkedOnce DEF PoliteInv
  <2>2. Settled(i)
    BY DEF Settled, Handovers, HandoversOf, HandoverIds
  <2>3. Answers(ConnOf(i)) = {}
    BY <2>1, Idle
  <2> QED
    BY <2>1, <2>2, <2>3 DEF PoliteInv, AgreeInv
<1> QED
  BY <1>1, PoliteInvariant, PTL

\* What Alternate says of neighbours, said as the property does: of the last handover,
\* and of each one and the one before it.
LEMMA AlternateSays ==
  ASSUME NEW i \in Sessions, packet_queue \in Seq(PacketInfo),
         NEW user \in BOOLEAN, NEW connected \in BOOLEAN,
         Alternate(packet_queue, i, user, connected)
  PROVE  /\ connected <=>
              IF Handovers(i) = {} THEN user
              ELSE \E k \in Handovers(i) :
                     /\ \A n \in Handovers(i) : n <= k
                     /\ packet_queue[k].packet_id = "SYS_ACCEPT"
         /\ \A k \in Handovers(i) :
              packet_queue[k].packet_id = "SYS_ACCEPT" <=>
                IF \A n \in Handovers(i) : k <= n THEN ~user
                ELSE \E n \in Handovers(i) :
                       /\ n < k /\ \A j \in Handovers(i) : j <= n \/ k <= j
                       /\ packet_queue[n].packet_id = "SYS_CLOSE"
<1> DEFINE H == Handovers(i)
           q == packet_queue
<1>1. /\ HandoversOf(q, i) = H /\ H \in SUBSET (1 .. Len(q)) /\ Len(q) \in Nat
      /\ \A k \in H : q[k].packet_id \in {"SYS_ACCEPT", "SYS_CLOSE"}
  BY DEF Handovers, HandoversOf, HandoverIds
<1> HIDE DEF H
<1>2. /\ \A k, n \in H :
           k < n /\ (\A j \in H : j <= k \/ n <= j) => q[k].packet_id # q[n].packet_id
      /\ \A k \in H : (\A j \in H : k <= j) => (q[k].packet_id = "SYS_ACCEPT" <=> ~user)
      /\ \A k \in H : (\A j \in H : j <= k) => (q[k].packet_id = "SYS_ACCEPT" <=> connected)
      /\ H = {} => (connected <=> user)
  BY <1>1 DEF Alternate
<1>3. ASSUME H # {}
      PROVE  connected <=> \E k \in H : (\A n \in H : n <= k) /\ q[k].packet_id = "SYS_ACCEPT"
  <2>1. PICK g \in H : \A n \in H : n <= g
    BY <1>1, <1>3, GreatestOf
  <2> QED
    BY <1>2, <2>1
<1>4. ASSUME NEW k \in H, ~ \A n \in H : k <= n
      PROVE  q[k].packet_id = "SYS_ACCEPT" <=>
               \E n \in H : /\ n < k /\ \A j \in H : j <= n \/ k <= j
                            /\ q[n].packet_id = "SYS_CLOSE"
  <2> DEFINE Before == {j \in H : j < k}
  <2>1. Before \in SUBSET (1 .. Len(q)) /\ Before # {}
    <3>1. PICK n \in H : ~(k <= n)
      BY <1>4
    <3>2. k \in Int /\ n \in Int
      BY <1>1
    <3>3. n \in Before
      BY <3>1, <3>2
    <3> QED
      BY <1>1, <3>3
  <2>2. PICK n \in Before : \A j \in Before : j <= n
    <3> HIDE DEF Before
    <3> QED
      BY <1>1, <2>1, GreatestOf
  <2>3. n \in H /\ n < k /\ \A j \in H : j <= n \/ k <= j
    BY <1>1, <2>2
  <2> QED
    BY <1>1, <1>2, <2>3
<1> QED
  BY <1>2, <1>3, <1>4 DEF H

\* Accepts and closes of a session alternate on their way to the packet thread, and the
\* last of them tells whether the session is connected.
THEOREM PoliteHandoversAlternate ==
  ASSUME RulesKept
  PROVE  Spec => []HandoversAlternate
<1>1. PoliteInv => HandoversAlternate
  <2> SUFFICES ASSUME PoliteInv PROVE HandoversAlternate
    OBVIOUS
  <2>1. \A i \in Sessions : /\ HasUser(i) \in BOOLEAN /\ sessions[i].connected \in BOOLEAN
                            /\ Alternate(packet_queue, i, HasUser(i), sessions[i].connected)
    BY PoliteTypes DEF PoliteInv, HandoversInv
  <2> QED
    BY <2>1, PoliteTypes, AlternateSays DEF HandoversAlternate
<1> QED
  BY <1>1, PoliteInvariant, PTL

-----------------------------------------------------------------------------
(***************************************************************************)
(* The strict service: the operations are those of ChatService, and the    *)
(* invariant gives what Strict asks of a connect and of a login.           *)
(***************************************************************************)
\* What the service sees of a session changes as the fields of its user do.
LEMMA StrictBecomes ==
  ASSUME UserRoomsTypeOK, NEW i \in Sessions, NEW user,
         users' = [users EXCEPT ![i] = user],
         NEW r, r = IF user.state = "ROOM" THEN user.room_index ELSE NoIndex,
         NEW id, id = IF user.state \in {"LOGIN", "ROOM"} THEN user.user_id ELSE NoUserId
  PROVE  StrictService!Become(i, user.state, r, id)
BY DEF UserRoomsTypeOK, StrictService!Become, phaseOf, roomOf, nameOf

\* A room with space in its list has space for the service.
LEMMA StrictSpace ==
  ASSUME UserRoomInv, NEW r \in Rooms, ~IsFull(r)
  PROVE  StrictService!Cardinality(StrictService!Members(r)) < MAX_USERS_IN_ROOM
<1>1. StrictService!Members(r) = Service!Members(r)
  BY DEF StrictService!Members, Service!Members
<1>2. \A S : StrictService!Cardinality(S) = Cardinality(S)
  BY DEF StrictService!Cardinality, Cardinality
<1>3. /\ Cardinality(rooms[r]) \in Nat /\ Cardinality(Service!Members(r)) \in Nat
      /\ Cardinality(Service!Members(r)) <= Cardinality(rooms[r])
  BY MembersFit, FS_CardinalityType DEF UserRoomInv, ListsFinite
<1>4. Cardinality(Service!Members(r)) < MAX_USERS_IN_ROOM
  BY <1>3, SizesAssumption DEF IsFull
<1> QED
  BY <1>1, <1>2, <1>4

\* A handler does one operation of the strict service, or none.
LEMMA StrictHandler ==
  ASSUME RulesKept, PoliteInv, TakePacket, packet_queue # <<>>, UNCHANGED <<sessionVars, client>>,
         NEW p, p = Head(packet_queue)
  PROVE  [StrictService!Next]_(StrictService!serviceVars)
<1> DEFINE i == p.session_index
<1>1. /\ UserRoomInv /\ UserRoomsTypeOK /\ packet_queue \in Seq(PacketInfo)
      /\ users \in [Sessions -> User]
  BY PoliteTypes DEF UserRoomInv
<1>2. /\ p \in PacketInfo /\ PacketOK(p) /\ HandlePacket(p, p) /\ process = "running"
      /\ p \in Packets(packet_queue)
  BY TakeFacts, TakeReadsOnce
<1>3. i \in Sessions /\ users[i] \in User
  BY <1>1, <1>2 DEF PacketInfo
<1> HIDE DEF i
<1>4. CASE UNCHANGED userRoomVars
  BY <1>4 DEF userRoomVars, StrictService!serviceVars, phaseOf, roomOf, nameOf
<1>5. CASE FuncAccept(p)
  <2>1. p.packet_id = "SYS_ACCEPT" /\ AddUser(i)
    BY <1>5 DEF FuncAccept, i
  <2>2. ~HasUser(i)
    <3>1. Alternate(packet_queue, i, HasUser(i), sessions[i].connected)
      BY <1>3 DEF PoliteInv, HandoversInv
    <3>2. HasUser(i) \in BOOLEAN /\ sessions[i].connected \in BOOLEAN
      BY <1>3, PoliteTypes
    <3>3. p.packet_id \in HandoverIds /\ p.session_index = i
      BY <2>1 DEF HandoverIds, i
    <3> QED
      BY <1>1, <2>1, <3>1, <3>2, <3>3, AlternateTaken
  <2>3. phaseOf[i] = "NONE"
    BY <1>1, <1>3, <2>2 DEF UserRoomInv, UserTableConsistent, phaseOf
  <2> DEFINE user == [users[i] EXCEPT !.index = i, !.state = "CONNECT"]
  <2>4. user.state = "CONNECT" /\ users' = [users EXCEPT ![i] = user]
    BY <1>1, <1>3, <2>1 DEF AddUser, User
  <2> HIDE DEF user
  <2>5. StrictService!Become(i, "CONNECT", NoIndex, NoUserId)
    BY <1>1, <1>3, <2>4, StrictBecomes
  <2>6. StrictService!Connect(i)
    BY <2>3, <2>5 DEF StrictService!Connect
  <2> QED
    BY <1>3, <2>6 DEF StrictService!Next
<1>6. CASE FuncClose(p)
  <2>1. RemoveUser(i)
    BY <1>6 DEF FuncClose, i
  <2>2. ClearedUser.state = "NONE" /\ users' = [users EXCEPT ![i] = ClearedUser]
    BY <2>1 DEF RemoveUser, ClearedUser
  <2>3. StrictService!Become(i, "NONE", NoIndex, NoUserId)
    BY <1>1, <1>3, <2>2, StrictBecomes
  <2>4. StrictService!Disconnect(i)
    BY <2>3 DEF StrictService!Disconnect
  <2> QED
    BY <1>3, <2>4 DEF StrictService!Next
<1>7. CASE FuncLoginRes(p) /\ p.code = "NONE"
  <2>1. p.packet_id = "REDIS_LOGIN_RES" /\ LoginUser(i, p.user_id)
    BY <1>7 DEF FuncLoginRes, i
  <2>2. LoginUnderWay(p)
    BY <1>2, <2>1 DEF PacketOK
  <2>3. p.user_id \in Registered /\ p.user_id # NoUserId
    <3>1. GoodQueue(packet_queue)
      BY ServerInvParts DEF PoliteInv
    <3>2. Authentic(p)
      BY <3>1, GoodTake
    <3> QED
      BY <1>7, <2>1, <3>2, DataAssumption DEF Authentic
  <2>4. phaseOf[i] = "CONNECT"
    BY <1>3, <2>2 DEF LoginUnderWay, phaseOf, i
  <2>5. \A j \in Sessions : nameOf[j] # p.user_id
    BY <1>7, <2>2, <2>3 DEF LoginUnderWay, nameOf
  <2> DEFINE user == [users[i] EXCEPT !.state = "LOGIN", !.user_id = p.user_id]
  <2>6. /\ user.state = "LOGIN" /\ user.user_id = p.user_id
        /\ users' = [users EXCEPT ![i] = user]
    BY <1>1, <1>3, <2>1 DEF LoginUser, User
  <2> HIDE DEF user
  <2>7. StrictService!Become(i, "LOGIN", NoIndex, p.user_id)
    BY <1>1, <1>3, <2>6, StrictBecomes
  <2>8. StrictService!Login(i, p.user_id)
    BY <2>4, <2>5, <2>7 DEF StrictService!Login
  <2> QED
    BY <1>3, <2>3, <2>8 DEF StrictService!Next
<1>8. CASE FuncEnterRoom(p, p) /\ ~UNCHANGED userRoomVars
  <2> DEFINE r == p.room_number
  <2>1. /\ r \in Rooms /\ EnterRoom(i, r) /\ EnterRoomCode(i, r, r) = "NONE"
    BY <1>8 DEF FuncEnterRoom, i
  <2> HIDE DEF r
  <2>2. users[i].state = "LOGIN" /\ ~IsFull(r)
    BY <2>1 DEF EnterRoomCode
  <2>3. phaseOf[i] = "LOGIN" /\ nameOf[i] = users[i].user_id
    BY <1>3, <2>2 DEF phaseOf, nameOf
  <2>4. StrictService!Cardinality(StrictService!Members(r)) < MAX_USERS_IN_ROOM
    BY <1>1, <2>1, <2>2, StrictSpace
  <2> DEFINE user == [users[i] EXCEPT !.state = "ROOM", !.room_index = r]
  <2>5. /\ user.state = "ROOM" /\ user.room_index = r /\ user.user_id = users[i].user_id
        /\ users' = [users EXCEPT ![i] = user]
    BY <1>1, <1>3, <2>1 DEF EnterRoom, User
  <2> HIDE DEF user
  <2>6. StrictService!Become(i, "ROOM", r, users[i].user_id)
    BY <1>1, <1>3, <2>5, StrictBecomes
  <2>7. StrictService!Enter(i, r)
    BY <2>3, <2>4, <2>6 DEF StrictService!Enter
  <2> QED
    BY <1>3, <2>1, <2>7 DEF StrictService!Next
<1>9. CASE FuncLeaveRoom(p) /\ ~UNCHANGED userRoomVars
  <2>1. LeaveRoom(i) /\ LeaveRoomCode(i) = "NONE"
    BY <1>9 DEF FuncLeaveRoom, i
  <2>2. users[i].state = "ROOM"
    BY <2>1 DEF LeaveRoomCode
  <2>3. phaseOf[i] = "ROOM" /\ nameOf[i] = users[i].user_id
    BY <1>3, <2>2 DEF phaseOf, nameOf
  <2> DEFINE user == [users[i] EXCEPT !.state = "LOGIN", !.room_index = NoIndex]
  <2>4. /\ user.state = "LOGIN" /\ user.user_id = users[i].user_id
        /\ users' = [users EXCEPT ![i] = user]
    BY <1>1, <1>3, <2>1 DEF LeaveRoom, User
  <2> HIDE DEF user
  <2>5. StrictService!Become(i, "LOGIN", NoIndex, users[i].user_id)
    BY <1>1, <1>3, <2>4, StrictBecomes
  <2>6. StrictService!Leave(i)
    BY <2>3, <2>5 DEF StrictService!Leave
  <2> QED
    BY <1>3, <2>6 DEF StrictService!Next
<1>10. CASE FuncLoginReq(p, p) \/ FuncChatRoom(p) \/ (FuncLoginRes(p) /\ p.code # "NONE")
            \/ IgnorePacket(p) \/ LeaveDefinedBehaviour(p)
  BY <1>4, <1>10 DEF FuncLoginReq, FuncChatRoom, FuncLoginRes, IgnorePacket,
                     LeaveDefinedBehaviour
<1> QED
  BY <1>2, <1>4, <1>5, <1>6, <1>7, <1>8, <1>9, <1>10 DEF HandlePacket

\* Nothing but a handler touches users and rooms.
LEMMA StrictStep ==
  ASSUME RulesKept, PoliteInv, [Next]_vars
  PROVE  [StrictService!Next]_(StrictService!serviceVars)
<1>1. CASE UNCHANGED userRoomVars
  BY <1>1 DEF userRoomVars, StrictService!serviceVars, phaseOf, roomOf, nameOf
<1>2. CASE TakePacket /\ UNCHANGED <<sessionVars, client>>
  <2>1. CASE packet_queue = <<>>
    BY <1>1, <1>2, <2>1 DEF TakePacket
  <2>2. CASE packet_queue # <<>>
    BY <1>2, <2>2, StrictHandler
  <2> QED
    BY <2>1, <2>2
<1>3. CASE NetworkThread \/ RedisThread \/ ClientLeaves \/ UNCHANGED vars
  BY <1>1, <1>3 DEF NetworkThread, CreateSession, ReceiveRequest, ReceiveClose, RedisThread,
                    ClientLeaves, vars
<1>4. CASE PollRedis \/ SendSucceeds \/ SendFails \/ SendKills
  BY <1>1, <1>4 DEF PollRedis, SendSucceeds, SendFails, SendKills, NextSend
<1> QED
  BY <1>2, <1>3, <1>4 DEF Next, PacketThread

\* The server implements the strict service for clients that keep the rules: each life of
\* a session is a connect, at most one login, with a name nobody else has, rooms, and a
\* disconnect, also when the session goes from one client to the next with packets and
\* answers of Redis under way.
THEOREM ServerImplementsStrictService ==
  ASSUME RulesKept
  PROVE  Spec => ImplementsStrictService
<1>1. PoliteInv /\ [Next]_vars => [StrictService!Next]_(StrictService!serviceVars)
  BY StrictStep
<1>2. Init => StrictService!Init
  BY DEF Init, UserRoomsInit, ClearedUser, StrictService!Init, phaseOf, roomOf, nameOf
<1> QED
  BY <1>1, <1>2, PoliteInvariant, PTL
     DEF Spec, ImplementsStrictService, StrictService!Spec
=============================================================================
