------------------------------ MODULE ChatServer ------------------------------
(***************************************************************************)
(* The chat server at work, from Start to Stop: the network thread, the    *)
(* packet thread and the Redis thread over their shared queues, with the   *)
(* clients at the other end of the sockets.                                *)
(*                                                                         *)
(* Grain: CreateSession, Receive of one packet, CloseSession and every     *)
(* SendPacket are one step each, whichever thread runs them.               *)
(***************************************************************************)
EXTENDS PacketManager, SessionTable, Clients

CONSTANT MaxQueued  \* bound: how far the network thread gets ahead of the packets
ASSUME QueuedAssumption == MaxQueued \in Nat

MayQueue == Len(packet_queue) < MaxQueued

vars == <<userRoomVars, redisVars, packetVars, sessionVars, client, process>>

TypeOK ==
  /\ UserRoomsTypeOK
  /\ RedisTypeOK
  /\ PacketManagerTypeOK
  /\ SessionTableTypeOK
  /\ ClientsTypeOK
  /\ process \in ProcessStates

Init ==
  /\ UserRoomsInit
  /\ RedisInit
  /\ PacketManagerInit
  /\ SessionTableInit
  /\ ClientsInit
  /\ process = "running"

-----------------------------------------------------------------------------
\* The network thread.

\* A client connects and Run finds the server socket readable.
CreateSession ==
  /\ Running
  /\ MayQueue
  /\ \E i \in Sessions, c \in Conns :
       /\ client[c].phase = "new"
       /\ AcceptSession(i, c)
       /\ client' = [client EXCEPT ![c].phase = "open"]
       /\ packet_queue' = Append(packet_queue, EmptyPacket(i, "SYS_ACCEPT", NoConn))
  /\ UNCHANGED <<userRoomVars, redisVars, pc, sending, process>>

\* A client sends a request and Receive finds it whole in the buffer. Unless it
\* arrived in the same recv() as the one before it, it is written over the
\* bytes that queued requests of the session point to.
ReceiveRequest ==
  /\ Running
  /\ MayQueue
  /\ \E i \in Sessions, coalesced \in BOOLEAN :
       /\ Readable(i)
       /\ \E p \in Requests(i, ConnOf(i)) :
            /\ MaySend(ConnOf(i), p)
            /\ client' = [client EXCEPT ![ConnOf(i)] = AfterSending(@, p)]
            /\ packet_queue' =
                 Append(IF coalesced THEN packet_queue ELSE Overwritten(packet_queue, i), p)
  /\ UNCHANGED <<userRoomVars, redisVars, pc, sending, sessionVars, process>>

\* Mutant: CloseSession without OnClose.
CloseSession_Unannounced(i) ==
  /\ packet_queue' = Overwritten(packet_queue, i)
  /\ ReleaseSession(i)

\* TCPServer::CloseSession, by either thread: OnClose queues SYS_CLOSE, the
\* receive buffer is cleared, the socket is dropped, the index is given back.
CloseSession(i) ==
  /\ packet_queue' =
       Overwritten(Append(packet_queue, EmptyPacket(i, "SYS_CLOSE", NoConn)), i)
  /\ ReleaseSession(i)

\* recv() returns 0 or -1 for a client that is gone.
ReceiveClose ==
  /\ Running
  /\ MayQueue
  /\ \E i \in Sessions :
       /\ Readable(i)
       /\ client[ConnOf(i)].phase = "gone"
       /\ CloseSession(i)
  /\ UNCHANGED <<userRoomVars, redisVars, pc, sending, client, process>>

-----------------------------------------------------------------------------
\* The packet thread's sends.

\* The calls of SendPacket the handler may make next.
PendingSends == IF sending = <<>> THEN {} ELSE Head(sending)

NextSend(m) ==
  /\ Running
  /\ m \in PendingSends
  /\ sending' = IF Head(sending) = {m} THEN Tail(sending)
                ELSE [sending EXCEPT ![1] = @ \ {m}]
  /\ UNCHANGED <<userRoomVars, redisVars, pc>>

\* send() hands the bytes to the connection that the descriptor names; if its
\* client is gone they are lost.
SendSucceeds ==
  \E sent \in Sessions :
    /\ ConnOf(sent) # NoConn
    /\ \E m \in PendingSends :
         /\ m.to = sent
         /\ NextSend(m)
         /\ client' = IF client[ConnOf(sent)].phase = "open"
                      THEN [client EXCEPT ![ConnOf(sent)] = AfterReceiving(@, m)]
                      ELSE client
    /\ UNCHANGED <<packet_queue, sessionVars, process>>

\* send() fails, on a closed descriptor or a connection reset by its client:
\* the packet thread closes the session itself.
SendFails ==
  \E sent \in Sessions :
    /\ ConnOf(sent) # NoConn => client[ConnOf(sent)].phase = "gone"
    /\ \E m \in PendingSends :
         m.to = sent /\ NextSend(m)
    /\ CloseSession(sent)
    /\ UNCHANGED <<client, process>>

\* The two sends nobody returns from: to sessions_[-1], and SIGPIPE.
SendKills ==
  \E m \in PendingSends :
    /\ NextSend(m)
    /\ \/ m.to = NoIndex /\ process' = "dangling_user"
       \/ /\ m.to \in Sessions
          /\ ConnOf(m.to) # NoConn
          /\ client[ConnOf(m.to)].phase = "gone"
          /\ process' = "sigpipe"
    /\ UNCHANGED <<packet_queue, sessionVars, client>>

-----------------------------------------------------------------------------
ClientLeaves ==
  /\ Running
  /\ \E c \in Conns : Disconnect(c)
  /\ UNCHANGED <<userRoomVars, redisVars, packetVars, sessionVars, process>>

NetworkThread == CreateSession \/ ReceiveRequest \/ ReceiveClose

PacketThread ==
  \/ (PollRedis \/ TakePacket) /\ UNCHANGED <<sessionVars, client>>
  \/ SendSucceeds \/ SendFails \/ SendKills

RedisThread ==
  /\ ProcessRedisPacket \/ LoseRedis
  /\ UNCHANGED <<userRoomVars, packetVars, sessionVars, client>>

Next == NetworkThread \/ PacketThread \/ RedisThread \/ ClientLeaves

Spec == Init /\ [][Next]_vars

\* The packet thread and the Redis thread are loops that never block; nothing
\* is assumed of clients.
FairSpec == Spec /\ WF_vars(PacketThread) /\ WF_vars(RedisThread)
=============================================================================
