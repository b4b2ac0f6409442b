------------------------------ MODULE ChatService ------------------------------
(***************************************************************************)
(* What the chat server promises, without queues, threads and Redis: a     *)
(* session is nobody's, connected, logged in or in a room; only a known id *)
(* logs in, only who is logged in enters a room, and only one with space.  *)
(*                                                                         *)
(* Strict says how much is promised. With FALSE a user may connect or log  *)
(* in anew in any phase, which is what the server does to clients that     *)
(* break the rules; with TRUE each life of a session is a connect, one     *)
(* login with an id nobody else has, rooms, and a disconnect.              *)
(***************************************************************************)
EXTENDS Integers, FiniteSets

CONSTANTS Sessions, Rooms, Capacity, KnownIds, NoId, NoRoom, Strict

VARIABLES
  phase,  \* "NONE", "CONNECT", "LOGIN" or "ROOM"
  room,   \* the room a session is in
  name    \* the id a session is logged in with

serviceVars == <<phase, room, name>>

Members(r) == {i \in Sessions : room[i] = r}

Init ==
  /\ phase = [i \in Sessions |-> "NONE"]
  /\ room = [i \in Sessions |-> NoRoom]
  /\ name = [i \in Sessions |-> NoId]

Become(i, p, r, id) ==
  /\ phase' = [phase EXCEPT ![i] = p]
  /\ room' = [room EXCEPT ![i] = r]
  /\ name' = [name EXCEPT ![i] = id]

Connect(i) ==
  /\ Strict => phase[i] = "NONE"
  /\ Become(i, "CONNECT", NoRoom, NoId)

Disconnect(i) == Become(i, "NONE", NoRoom, NoId)

Login(i, id) ==
  /\ phase[i] # "NONE"
  /\ Strict => phase[i] = "CONNECT" /\ \A j \in Sessions : name[j] # id
  /\ Become(i, "LOGIN", NoRoom, id)

Enter(i, r) ==
  /\ phase[i] = "LOGIN"
  /\ Cardinality(Members(r)) < Capacity
  /\ Become(i, "ROOM", r, name[i])

Leave(i) ==
  /\ phase[i] = "ROOM"
  /\ Become(i, "LOGIN", NoRoom, name[i])

Next ==
  \E i \in Sessions :
    \/ Connect(i) \/ Disconnect(i) \/ Leave(i)
    \/ \E id \in KnownIds : Login(i, id)
    \/ \E r \in Rooms : Enter(i, r)

Spec == Init /\ [][Next]_serviceVars
=============================================================================
