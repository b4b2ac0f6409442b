-------------------------------- MODULE Clients --------------------------------
(***************************************************************************)
(* The clients, which are not part of the repository: what a client knows  *)
(* from the responses it got, and what it may send.                        *)
(*                                                                         *)
(* Discipline is the set of rules the clients keep to. With {} a client    *)
(* sends any request at any time and leaves whenever it likes.             *)
(*   stop_and_wait  one request at a time, the next after the response     *)
(*   quiet_close    disconnect only outside rooms, with nothing unanswered *)
(*   login_once     no login request once logged in                        *)
(*   own_id         no login with the id another connected client uses     *)
(*   valid_room     never room number MAX_CREATED_ROOMS                    *)
(*   request_ids    only the four request ids of packet.hpp                *)
(***************************************************************************)
EXTENDS ChatBase

CONSTANTS
  Discipline,
  MaxRequests   \* bound: requests a client sends on its connection

Rules == {"stop_and_wait", "quiet_close", "login_once", "own_id", "valid_room",
          "request_ids"}

ASSUME ClientsAssumption == Discipline \subseteq Rules /\ MaxRequests \in Nat

VARIABLE client

Client ==
  [phase : {"new", "open", "gone"}, waiting : BOOLEAN, logged : BOOLEAN,
   in_room : BOOLEAN, user_id : UserIds \cup {NoUserId}, requests : Nat]

NewClient ==
  [phase |-> "new", waiting |-> FALSE, logged |-> FALSE, in_room |-> FALSE,
   user_id |-> NoUserId, requests |-> 0]

ClientsTypeOK == client \in [Conns -> Client]
ClientsInit   == client = [c \in Conns |-> NewClient]

Keeps(rule) == rule \in Discipline

\* The id c tries to log in with is not used by another connected client.
OwnId(c, id) ==
  \A d \in Conns \ {c} : client[d].phase = "open" => client[d].user_id # id

MaySend(c, p) ==
  /\ client[c].phase = "open"
  /\ client[c].requests < MaxRequests
  /\ Keeps("stop_and_wait") => ~client[c].waiting
  /\ Keeps("request_ids") => p.packet_id \in RequestIds
  /\ p.packet_id = "LOGIN_REQ" =>
       /\ p.user_id # NoUserId
       /\ Keeps("login_once") => ~client[c].logged
       /\ Keeps("own_id") => OwnId(c, p.user_id)
  /\ p.packet_id = "ROOM_ENTER_REQ" =>
       (Keeps("valid_room") => p.room_number # MAX_CREATED_ROOMS)

\* The packets of session i a client can send: one per content that matters.
Requests(i, c) ==
  {[EmptyPacket(i, "LOGIN_REQ", c) EXCEPT !.user_id = u] : u \in UserIds}
    \cup {[EmptyPacket(i, "ROOM_ENTER_REQ", c) EXCEPT !.room_number = n] : n \in RoomNumbers}
    \cup {EmptyPacket(i, id, c) : id \in {"ROOM_LEAVE_REQ", "ROOM_CHAT_REQ"} \cup OtherIds}

AfterSending(cl, p) ==
  [cl EXCEPT !.waiting = TRUE, !.requests = @ + 1,
             !.user_id = IF p.packet_id = "LOGIN_REQ" THEN p.user_id ELSE @]

\* A response ends the wait; a notification tells the client nothing it keeps.
AfterReceiving(cl, m) ==
  IF m.packet_id \in NotificationIds THEN cl
  ELSE [cl EXCEPT
          !.waiting = FALSE,
          !.logged  = @ \/ (m.packet_id = "LOGIN_RES" /\ m.code = "NONE"),
          !.in_room = IF m.code # "NONE" THEN @
                      ELSE (@ \/ m.packet_id = "ROOM_ENTER_RES")
                             /\ m.packet_id # "ROOM_LEAVE_RES"]

\* The client closes its end; the server has yet to notice.
Disconnect(c) ==
  /\ client[c].phase = "open"
  /\ Keeps("quiet_close") => ~client[c].waiting /\ ~client[c].in_room
  /\ client' = [client EXCEPT ![c].phase = "gone"]
=============================================================================
