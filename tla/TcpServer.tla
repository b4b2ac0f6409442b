------------------------------- MODULE TcpServer -------------------------------
(***************************************************************************)
(* TCPServer and ServerSocket at the grain at which their two threads      *)
(* interleave. The network thread selects, accepts, receives and closes;   *)
(* the packet thread closes the session of a send that fails. Neither      *)
(* takes a lock, so FD_SET and FD_CLR on read_fds_, and emplace_back on    *)
(* available_session_index_, are a load and a store here: the set, and the *)
(* end of the deque, are read first and written back changed.              *)
(*                                                                         *)
(* Of the packet thread TCPServer sees only this: it takes SYS_ACCEPT and  *)
(* SYS_CLOSE in order, and sends to sessions that have had a client: an    *)
(* answer to a login goes out also when the session has no user.           *)
(***************************************************************************)
EXTENDS Integers, Sequences

CONSTANTS
  MAX_CONNECTED_SESSIONS,
  MAX_SOCKETS,  \* the descriptors the kernel has for connections
  Conns,        \* client connections, each made at most once
  NoConn,
  MaxCloses     \* sends fail until this many closes have given back an index

ASSUME TcpAssumption ==
  /\ MAX_CONNECTED_SESSIONS \in Nat /\ MAX_SOCKETS \in Nat
  /\ MaxCloses \in Nat /\ NoConn \notin Conns

VARIABLES
  sessions,
  slots, front, back,  \* available_session_index_: slots written, and its two ends
  read_fds, temp_fds,
  sockets,             \* the kernel: the connection a descriptor names
  backlog,             \* the kernel: connections that wait for accept()
  client,              \* external: what each client has done
  events,              \* SYS_ACCEPT and SYS_CLOSE in packet_queue_
  users,               \* sessions the packet thread has a user for
  pc, at, loaded,      \* per thread: next statement, its session, what it loaded
  running              \* FALSE once undefined behaviour has been met

deque   == <<slots, front, back>>
table   == <<sessions, deque>>
fdsets  == <<read_fds, temp_fds>>
outside == <<sockets, backlog, client>>
queue   == <<events, users>>
vars    == <<table, fdsets, outside, queue, pc, at, loaded, running>>

Threads  == {"network", "packet"}
Sessions == 0 .. MAX_CONNECTED_SESSIONS - 1
Fds      == 0 .. MAX_SOCKETS - 1
NoFd     == -1

\* The statements of CloseSession after SetDisconnected, in order.
Closing == {"load_clr", "clr", "close", "load_end", "push"}

TypeOK ==
  /\ sessions \in [Sessions -> [connected : BOOLEAN, sockfd : Fds \cup {NoFd}]]
  /\ \A i \in Sessions : sessions[i].connected => sessions[i].sockfd \in Fds
  /\ slots \in Seq(Sessions) /\ front \in Nat /\ back \in Nat
  /\ read_fds \in SUBSET Fds /\ temp_fds \in SUBSET Fds
  /\ sockets \in [Fds -> Conns \cup {NoConn}] /\ backlog \in SUBSET Conns
  /\ client \in [Conns -> {"new", "quiet", "sent", "gone"}]
  /\ events \in Seq([id : {"SYS_ACCEPT", "SYS_CLOSE"}, index : Sessions])
  /\ users \in SUBSET Sessions
  /\ pc \in [Threads -> Closing \cup {"select", "accept", "load_set", "set", "scan",
                                      "receive", "idle"}]
  /\ at \in [Threads -> 0 .. MAX_CONNECTED_SESSIONS]
  /\ loaded \in [Threads -> [fd : Fds \cup {NoFd}, fds : SUBSET Fds, end : Nat]]
  /\ running \in BOOLEAN

AllIndices_FromOne == [k \in 1 .. MAX_CONNECTED_SESSIONS |-> k]
AllIndices         == [k \in 1 .. MAX_CONNECTED_SESSIONS |-> k - 1]

Init ==
  /\ sessions = [i \in Sessions |-> [connected |-> FALSE, sockfd |-> NoFd]]
  /\ slots = AllIndices /\ front = 0 /\ back = MAX_CONNECTED_SESSIONS
  /\ read_fds = {} /\ temp_fds = {}
  /\ sockets = [f \in Fds |-> NoConn] /\ backlog = {}
  /\ client = [c \in Conns |-> "new"]
  /\ events = <<>> /\ users = {}
  /\ pc = [network |-> "select", packet |-> "idle"]
  /\ at = [t \in Threads |-> 0]
  /\ loaded = [t \in Threads |-> [fd |-> NoFd, fds |-> {}, end |-> 0]]
  /\ running = TRUE

-----------------------------------------------------------------------------
Available == front # back

\* accept() returns the lowest free descriptor, or -1.
AcceptedFd ==
  LET free == {f \in Fds : sockets[f] = NoConn}
  IN  IF free = {} THEN NoFd ELSE CHOOSE f \in free : \A g \in free : f <= g

Acceptable == Available /\ AcceptedFd # NoFd

ConnOf(i) ==
  IF sessions[i].sockfd \in Fds THEN sockets[sessions[i].sockfd] ELSE NoConn

\* recv() on the descriptor would not block.
Readable(f) == sockets[f] # NoConn /\ client[sockets[f]] \in {"sent", "gone"}

Goto(t, from, to) ==
  /\ running
  /\ pc[t] = from
  /\ pc' = [pc EXCEPT ![t] = to]

\* The load of FD_SET, FD_CLR or emplace_back; GetSocket has returned a copy by then.
Load(t) ==
  /\ \E s \in {<<"load_set", "set">>, <<"load_clr", "clr">>, <<"load_end", "push">>} :
       Goto(t, s[1], s[2])
  /\ loaded' = [loaded EXCEPT ![t] =
                  [fd |-> sessions[at[t]].sockfd, fds |-> read_fds, end |-> back]]
  /\ UNCHANGED <<table, fdsets, outside, queue, at, running>>

-----------------------------------------------------------------------------
\* CloseSession by either thread: OnClose and SetDisconnected ...
StartClose(t, from, i) ==
  /\ Goto(t, from, "load_clr")
  /\ events' = Append(events, [id |-> "SYS_CLOSE", index |-> i])
  /\ sessions' = [sessions EXCEPT ![i].connected = FALSE]
  /\ at' = [at EXCEPT ![t] = i]
  /\ UNCHANGED <<deque, fdsets, outside, users, loaded, running>>

\* ... then DropSocket: FD_CLR ...
Cleared_Not(fds, f) == fds
Cleared(fds, f)     == fds \ {f}

ClearBit(t) ==
  /\ Goto(t, "clr", "close")
  /\ read_fds' = Cleared(loaded[t].fds, loaded[t].fd)
  /\ UNCHANGED <<table, temp_fds, outside, queue, at, loaded, running>>

\* ... and close(), which fails for a number that names nothing ...
Closed_Not(f) == sockets
Closed(f)     == [sockets EXCEPT ![f] = NoConn]

CloseFd(t) ==
  /\ Goto(t, "close", "load_end")
  /\ sockets' = Closed(loaded[t].fd)
  /\ UNCHANGED <<table, fdsets, backlog, client, queue, at, loaded, running>>

\* ... and emplace_back. A deque whose end is before its front is undefined. The
\* network thread goes on with its scan, the packet thread with its loop.
Grown_Not(end) == end
Grown(end)     == end + 1

Pushed(t) ==
  LET k == loaded[t].end
  IN  IF k < Len(slots) THEN [slots EXCEPT ![k + 1] = at[t]] ELSE Append(slots, at[t])

Push(t) ==
  /\ Goto(t, "push", IF t = "network" THEN "scan" ELSE "idle")
  /\ slots' = Pushed(t)
  /\ back' = Grown(loaded[t].end)
  /\ running' = (front <= back')
  /\ UNCHANGED <<sessions, front, fdsets, outside, queue, at, loaded>>

CloseSession(t) == ClearBit(t) \/ CloseFd(t) \/ Push(t)

-----------------------------------------------------------------------------
\* select() on a copy of read_fds_. It fails, and Run tries again, while a descriptor
\* in it is closed. A connection that waits comes before all that can be read.
Select ==
  /\ Goto("network", "select", IF backlog # {} THEN "accept" ELSE "scan")
  /\ \A f \in read_fds : sockets[f] # NoConn
  /\ temp_fds' = {f \in read_fds : Readable(f)}
  /\ backlog # {} \/ temp_fds' # {}
  /\ at' = [at EXCEPT !["network"] = 0]
  /\ UNCHANGED <<table, read_fds, outside, queue, loaded, running>>

\* CreateSession up to SetConnected ...
Accept ==
  /\ Goto("network", "accept", "load_set")
  /\ Acceptable
  /\ \E c \in backlog :
       /\ backlog' = backlog \ {c}
       /\ sockets' = [sockets EXCEPT ![AcceptedFd] = c]
  /\ sessions' = [sessions EXCEPT ![slots[front + 1]] =
                    [connected |-> TRUE, sockfd |-> AcceptedFd]]
  /\ front' = front + 1
  /\ at' = [at EXCEPT !["network"] = slots[front + 1]]
  /\ UNCHANGED <<slots, back, fdsets, client, queue, loaded, running>>

\* ... EnrollSocket and OnAccept.
SetBit ==
  /\ Goto("network", "set", "select")
  /\ read_fds' = loaded["network"].fds \cup {loaded["network"].fd}
  /\ events' = Append(events, [id |-> "SYS_ACCEPT", index |-> at["network"]])
  /\ UNCHANGED <<table, temp_fds, outside, users, at, loaded, running>>

\* MAX_CONNECTED_CLIENTS, or ACCEPT_SOCKET_FAIL.
Refuse ==
  /\ Goto("network", "accept", "select")
  /\ ~Acceptable
  /\ UNCHANGED <<table, fdsets, outside, queue, at, loaded, running>>

\* The loop over sessions_: the next session to receive from.
Served_Connected(i) == sessions[i].connected

Served(i) == sessions[i].connected /\ sessions[i].sockfd \in temp_fds

Scan ==
  LET rest == {i \in Sessions : i >= at["network"] /\ Served(i)} IN
  /\ Goto("network", "scan", IF rest = {} THEN "select" ELSE "receive")
  /\ at' = [at EXCEPT !["network"] =
              IF rest = {} THEN 0 ELSE CHOOSE i \in rest : \A j \in rest : i <= j]
  /\ UNCHANGED <<table, fdsets, outside, queue, loaded, running>>

\* recv() returns data; the loop goes on with the next session.
AfterReceive_First == "select"
AfterReceive       == "scan"

ReceiveData ==
  LET c == ConnOf(at["network"]) IN
  /\ Goto("network", "receive", AfterReceive)
  /\ c # NoConn /\ client[c] = "sent"
  /\ client' = [client EXCEPT ![c] = "quiet"]
  /\ at' = [at EXCEPT !["network"] = @ + 1]
  /\ UNCHANGED <<table, fdsets, sockets, backlog, queue, loaded, running>>

\* recv() returns 0, or -1 for a descriptor that the packet thread has closed.
ReceiveClose ==
  LET c == ConnOf(at["network"]) IN
  /\ pc["network"] = "receive"
  /\ c # NoConn => client[c] = "gone"
  /\ StartClose("network", "receive", at["network"])

-----------------------------------------------------------------------------
\* The packet thread: FuncAccept and FuncClose, which dereferences a null user ...
TakeEvent ==
  LET e == Head(events) IN
  /\ Goto("packet", "idle", "idle")
  /\ events # <<>>
  /\ events' = Tail(events)
  /\ users' = IF e.id = "SYS_ACCEPT" THEN users \cup {e.index} ELSE users \ {e.index}
  /\ running' = (e.id = "SYS_CLOSE" => e.index \in users)
  /\ UNCHANGED <<table, fdsets, outside, at, loaded>>

\* ... and TCPServer::Send when send() returns -1.
SendFails ==
  /\ Len(slots) < MAX_CONNECTED_SESSIONS + MaxCloses
  /\ \E i \in {j \in Sessions : sessions[j].sockfd # NoFd} :
       /\ ConnOf(i) # NoConn => client[ConnOf(i)] = "gone"
       /\ StartClose("packet", "idle", i)

-----------------------------------------------------------------------------
\* The clients, external. A client that leaves takes what it sent last with it.
Connect(c) ==
  /\ client[c] = "new"
  /\ client' = [client EXCEPT ![c] = "quiet"] /\ backlog' = backlog \cup {c}

Write(c) ==
  /\ client[c] = "quiet"
  /\ client' = [client EXCEPT ![c] = "sent"] /\ UNCHANGED backlog

Leave(c) ==
  /\ client[c] \in {"quiet", "sent"}
  /\ client' = [client EXCEPT ![c] = "gone"] /\ UNCHANGED backlog

Clients ==
  /\ running
  /\ \E c \in Conns : Connect(c) \/ Write(c) \/ Leave(c)
  /\ UNCHANGED <<table, fdsets, sockets, queue, pc, at, loaded, running>>

-----------------------------------------------------------------------------
NetworkThread ==
  \/ Select \/ Accept \/ Refuse \/ SetBit \/ Scan \/ ReceiveData \/ ReceiveClose
  \/ Load("network") \/ CloseSession("network")

PacketThread == TakeEvent \/ SendFails \/ Load("packet") \/ CloseSession("packet")

Next == NetworkThread \/ PacketThread \/ Clients

Spec == Init /\ [][Next]_vars

\* The network thread loops until Stop and waits only in select().
FairSpec == Spec /\ WF_vars(NetworkThread)

-----------------------------------------------------------------------------
\* select() watches the descriptors of the connected sessions, one each, and nothing
\* else, whenever the network thread comes to it (server_socket.cpp:65-76).
WatchesConnected ==
  LET inUse == {i \in Sessions : sessions[i].connected} IN
  pc["network"] = "select" =>
    /\ read_fds = {sessions[i].sockfd : i \in inUse}
    /\ \A i, j \in inUse : sessions[i].sockfd = sessions[j].sockfd => i = j
    /\ \A i \in inUse : ConnOf(i) # NoConn

\* CreateSession finds no index only when every session is connected or is being
\* closed at the moment (tcp_server.cpp:79).
RefusedOnlyWhenFull ==
  running /\ ~Available =>
    \A i \in Sessions :
      sessions[i].connected \/ \E t \in Threads : pc[t] \in Closing /\ at[t] = i

\* recv() is called on a blocking socket, but never when there is nothing to receive:
\* what select() said of the descriptor is still true (tcp_server.cpp:56-57).
RecvNeverBlocks ==
  pc["network"] = "receive" =>
    LET c == ConnOf(at["network"]) IN c = NoConn \/ client[c] \in {"sent", "gone"}

\* A connection waits that cannot be accepted (tcp_server.cpp:51, 79).
Stuck == backlog # {} /\ ~Acceptable

\* What a client has sent is received in the end, unless it leaves, or one waits to be
\* accepted by a server that is full (tcp_server.cpp:54-58).
DataServed == \A c \in Conns : client[c] = "sent" ~> client[c] # "sent" \/ Stuck

\* The descriptor of a client that is gone is released in the end, with the same
\* exception (tcp_server.cpp:124-130).
GoneReleased ==
  \A c \in Conns : client[c] = "gone" ~> Stuck \/ \A f \in Fds : sockets[f] # c
=============================================================================
