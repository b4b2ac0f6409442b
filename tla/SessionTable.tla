----------------------------- MODULE SessionTable -----------------------------
(***************************************************************************)
(* TCPServer's sessions_ and available_session_index_, ServerSocket's      *)
(* read_fds_, and the kernel's descriptor table behind them, at the grain  *)
(* of whole handlers: CreateSession and CloseSession are one step each.    *)
(*                                                                         *)
(* A Session keeps the descriptor number of its socket after closing it    *)
(* (DropSocket works on a copy), and the kernel hands a closed number out  *)
(* again: a session and the connection behind its number are different     *)
(* things.                                                                 *)
(***************************************************************************)
EXTENDS ChatBase

CONSTANT MAX_SOCKETS  \* size of the kernel's descriptor table for connections
ASSUME SocketsAssumption == MAX_SOCKETS \in Nat

VARIABLES
  sessions,                 \* TCPServer::sessions_
  available_session_index,  \* TCPServer::available_session_index_
  read_fds,                 \* ServerSocket::read_fds_, without the server socket
  sockets                   \* the kernel: which connection a descriptor names

sessionVars == <<sessions, available_session_index, read_fds, sockets>>

Fds == 0 .. MAX_SOCKETS - 1

Session == [connected : BOOLEAN, sockfd : Fds \cup {NoIndex}]

SessionTableTypeOK ==
  /\ sessions \in [Sessions -> Session]
  /\ available_session_index \in Seq(Sessions)
  /\ read_fds \in SUBSET Fds
  /\ sockets \in [Fds -> Conns \cup {NoConn}]

\* TCPServer::Init
SessionTableInit ==
  /\ sessions = [i \in Sessions |-> [connected |-> FALSE, sockfd |-> NoIndex]]
  /\ available_session_index = [k \in 1 .. MAX_CONNECTED_SESSIONS |-> k - 1]
  /\ read_fds = {}
  /\ sockets = [f \in Fds |-> NoConn]

FreeFds == {f \in Fds : sockets[f] = NoConn}

\* The connection that the descriptor number of session i names, if any.
ConnOf(i) ==
  IF sessions[i].sockfd \in Fds THEN sockets[sessions[i].sockfd] ELSE NoConn

\* Select reports session i and Run would receive from it.
Readable(i) ==
  /\ sessions[i].connected
  /\ sessions[i].sockfd \in read_fds
  /\ ConnOf(i) # NoConn

\* Mutant: an index that stays available.
AcceptSession_NotPopped(i, c) ==
  /\ available_session_index # <<>>
  /\ i = Head(available_session_index)
  /\ \E fd \in FreeFds :
       /\ \A f \in FreeFds : fd <= f
       /\ sessions' = [sessions EXCEPT ![i] = [connected |-> TRUE, sockfd |-> fd]]
       /\ read_fds' = read_fds \cup {fd}
       /\ sockets' = [sockets EXCEPT ![fd] = c]
  /\ UNCHANGED available_session_index

\* CreateSession with a free session and a successful accept(), which returns
\* the lowest free descriptor. The other outcomes change nothing.
AcceptSession(i, c) ==
  /\ available_session_index # <<>>
  /\ i = Head(available_session_index)
  /\ \E fd \in FreeFds :
       /\ \A f \in FreeFds : fd <= f
       /\ sessions' = [sessions EXCEPT ![i] = [connected |-> TRUE, sockfd |-> fd]]
       /\ read_fds' = read_fds \cup {fd}
       /\ sockets' = [sockets EXCEPT ![fd] = c]
  /\ available_session_index' = Tail(available_session_index)

\* CloseSession without its OnClose: nothing asks whether session i is still
\* connected, or whether its descriptor still names its own connection.
ReleaseSession(i) ==
  /\ sessions' = [sessions EXCEPT ![i].connected = FALSE]
  /\ read_fds' = read_fds \ {sessions[i].sockfd}
  /\ sockets' = [sockets EXCEPT ![sessions[i].sockfd] = NoConn]
  /\ available_session_index' = Append(available_session_index, i)
=============================================================================
