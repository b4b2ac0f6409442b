# Verification of the select chat server

TLA+ modules that model the chat server, TLC configurations that check small
instances of them, and proofs checked by TLAPS. Paths are relative to the root
of the repository.

## 1. The system

The process has three threads.

| thread | code | takes | gives |
|---|---|---|---|
| network (main) | `TCPServer::Run` in the loop of `ChatServer::Start` | connections and bytes from `select` | packets into `packet_queue_` |
| packet | `PacketManager::ProcessPacket` | `packet_queue_`, answers of Redis | sends on the sockets; questions to Redis |
| Redis | `RedisManager::ProcessRedisPacket` | `req_packet_queue_` | `res_packet_queue_` |

SIGINT runs `ChatServer::Stop` on top of whichever thread it interrupts.

### Inventory

| component | state | operations | what makes it correct |
|---|---|---|---|
| `UserManager`, `User` | `users_`, `index_user_map_` | AddUser, RemoveUser, GetUser, IsDuplicatedUserID | the map holds exactly the users that are not cleared; one login per id |
| `RoomManager`, `Room` | a list of `User*` per room | EnterRoom, LeaveRoom, IsFull, NotifyUsers | capacity; lists and user states agree; no pointer to a cleared user |
| `PacketManager` | `packet_queue_`, the handler table | AddPacketQueue, the loop, seven handlers | one answer per request, to its sender; defined behaviour only |
| `RedisManager` | two queues | the loop, AddRedisReqPacketQueue, GetRedisResPacket | every question answered once; only known ids accepted |
| `CRedisConn` (vendored) | a connection | `get` | true iff the key exists |
| `TCPServer` | `sessions_`, `available_session_index_` | CreateSession, Receive, Send, CloseSession | an index is in use or available, once; closes and accepts alternate |
| `ServerSocket`, `TCPSocket` | `read_fds_`, `temp_fds_`, descriptors | Select, Accept, Enroll, Drop, Send, Receive | a session's descriptor names its own connection |
| `Session` | socket, `connected_`, receive buffer, `prev_recv_pos_` | Receive, Clear... | a packet is read before its bytes are overwritten |
| `ChatServer`, `main` | `runnable_` | Init, Start, Stop, OnAccept, OnClose, OnReceive | Stop ends all threads |

The components meet in five places: `packet_queue_` (network and packet
threads), the two Redis queues, `sessions_` with `available_session_index_` and
`read_fds_` (both the network thread and, through a failing send, the packet
thread change them, without a lock), the receive buffers that queued packets
point into, and the descriptor numbers of the kernel.

What is hard here: both threads may close one session; a session index and a
descriptor number are reused at once while packets and answers of Redis still
carry the old ones; a packet body is a pointer into a buffer that is
overwritten; the login is decided in one handler and applied in another; and
the state machine of a user (NONE, CONNECT, LOGIN, ROOM) is spread over six
handlers. `hazards` in `PROJECT.json` lists the places.

## 2. The modules

The chat itself, one module per component and one that composes them:

    ChatBase            sizes, packets, codes, how the process ends
      UserRooms         UserManager, RoomManager, User, Room
      RedisManager      the Redis thread and its queues
      Clients           external: what clients know and may send
        PacketManager   (extends these three) the packet thread
      SessionTable      sessions_, available indices, read_fds_, descriptors
        ChatServer      (extends PacketManager, SessionTable) the threads together
          ChatProperties  what is claimed (instantiates ChatService)
            MCChatServer          for TLC
            ChatServerProofs      for TLAPS: the tables, whatever clients do
              ChatServiceProofs   the refinement of ChatService
                PoliteClientsProofs  clients that keep all rules
    ChatService         abstract: what the server promises its clients

What lies below it, each a specification of its own at the grain its hazards need:

    TcpServer           select loop, sessions and descriptors, statement by statement
    RecvBuffer          the framing loop over one session's buffer
      PacketStream      abstract: the packets, in order
    Lifecycle           main(), Init, Start, Stop and SIGINT
    PacketQueue         the storage behind a queue between two threads

with `TcpServerProofs`, `RecvBufferProofs`, `LifecycleProofs` and
`PacketQueueProofs`, each about the module of that name. `NaturalExtremes` has the
lemmas on least and greatest numbers that two of them need.

Each variable has the name of the member it models, without the underscore,
and each action the name of the method.

**UserRooms.** Only the packet thread calls these methods, so each is one
operator that sets `users`, `index_user_map` and `rooms`. A `std::list<User*>`
is the set of its nodes: `<<i, n>>` is the n-th entry that points to
`users_[i]`, so a user that is entered twice is listed twice, and the size of
the list is the size of the set. `LoginUser` is the two assignments of
`FuncLoginRes`; `RemoveUser` is `FuncClose` after `GetUser`.

**RedisManager.** One step per turn of the loop that finds a question. The
answer is `NONE` iff the id is in `Registered`: `CRedisConn::get` takes the
password as its output parameter, so it is never compared. With `RedisMayFail`
the connection may be lost, after which `get` reads a null reply.

**PacketManager.** `pc` says where the loop is: `PollRedis` moves at most one
answer to the end of `packet_queue`, `TakePacket` takes the first packet and
runs its handler. The handlers read their request and change the state before
or after their sends, never between them. So a handler is one step, and
leaves in `sending` the calls of SendPacket it has still to make, in stages: the
messages of one stage go out in any order (the order of a room's list), the
stages in the order of the code (the response before the notifications, except
in `FuncChatRoom`). Every send is a step of its own, because the other threads
run in between and because it may fail. `Readings` gives the handler an
arbitrary body when the bytes behind the pointer have been overwritten. Two handlers
test a field and then read it again (`room_number` at lines 199 and 206, `user_id` at
143 and 150): they take the packet twice, and `NextReadings` is again an
arbitrary body, unless the client waits for its answer and does not leave before it.

**SessionTable.** A session keeps its descriptor number after it is closed,
and `sockets` says which connection a number names at the moment: the two can
come apart. `accept` returns the lowest free number.

**ChatServer.** `CreateSession`, `ReceiveRequest`, `ReceiveClose`, each send
(`SendSucceeds`, `SendFails`, `SendKills`), a turn of the Redis thread and a
client that leaves are the steps. `SendFails` includes the CloseSession that
`TCPServer::Send` calls in the packet thread. A handler that leaves the
behaviour C++ defines, or an exception or signal nobody catches, sets `process`
to the reason, and no step follows.

**Clients.** The repository has no client. `Discipline` is the set of rules the
clients keep; with `{}` they send any of the four requests, a packet id without
handler or the id 256, whenever they like, and disconnect whenever they like.
A request reaches the server in the step in which it is sent; delay is covered
because clients may send it at any time. Ids that only the server itself uses
(SYS_ACCEPT, SYS_CLOSE, REDIS_LOGIN_RES) are not sent by clients.

**ChatService.** A phase, a room and a name for each session, and five
operations: connect, disconnect, log in, enter, leave. A login succeeds only with
an id Redis knows, and with `Strict` only with one that nobody uses; a room takes
`Capacity` members; a member that disconnects is out of its room. `ChatProperties`
maps `users` to it (`phaseOf`, `roomOf`, `nameOf`): each handler is then one
of the operations or a stutter.

**TcpServer.** `pc`, `at` and `loaded` hold, for each of the two threads, its next
statement, the session it is about and what its last load returned. `Load` is the
load of FD_SET, FD_CLR and emplace_back, `SetBit`, `ClearBit` and `Push` are their
stores; a call to `DropSocket` or `EnrollSocket` works on a copy of the socket, taken
before. OnClose and SetDisconnected are one step, and so is CreateSession up to
SetConnected. `temp_fds` is the snapshot of select(): a connection that waits is
taken first, and nothing is received in that turn. The deque of indices is its
memory, `slots`, and its two ends. A send may fail for every session that has had a
client, with a user or without one: the refusals of the login handlers send without a
look at the user. `MaxCloses` bounds the sends that fail.

**RecvBuffer.** A byte is its position in the stream, so the buffer shows whose
bytes it holds. The header of a packet says its length, or one of `Misstated`
(`stated` keeps what it says). A size field is read as that if the two bytes at
`read_pos` begin a packet, as 0 if they have been cleared, and as anything otherwise.
`*packet_size` is read again for OnReceive, `read_pos` and `remain_data`
(`HandOn`, `MoveReadPos`, `ShrinkRemain`), and `Rereads` says what is found when the
packet thread has cleared the buffer in between. `recv_buffer_`
and `send_buffer_` are one array, as they are laid out in `Session`. The memcpy at
the end may overlap, which the language leaves undefined; the model takes it to copy
forwards, as the usual builds do. `PacketStream` is the abstract side: the packets
sent, delivered whole and in order while the client is connected; only a client that
comes after a disconnect starts behind what the last one sent.

**Lifecycle.** `pc` is the step of main(), `stop[t]` the step of a handler that
runs on top of thread t, which stands still meanwhile. Of the packet thread only
`mutex_` and a send are left, of the Redis thread the call through `conn_`. The end
of the process is "exited" (main() returned), "terminated" (an exception or a
joinable thread destroyed) or "undefined" (`conn_` used or deleted after delete).
SIGINT goes to the main thread unless that is in the handler, where the signal is
blocked.

**PacketQueue.** `res_packet_queue_` and, without the step between test and lock,
`packet_queue_`. The deque's nodes are external: a node is freed by the pop that
empties it, and may be allocated again by a push that needs one.

### Grain

In `ChatServer`, CreateSession and CloseSession are one step each although the two
threads can interleave inside them without a lock: what it keeps is that
CloseSession runs in either thread, between any two steps of the other, also for a
session that is already closed, and also for one that has been handed on. What two
calls of CloseSession do to each other's stores (an index lost at `tcp_server.cpp:114`,
a bit of `read_fds_`) is only in `TcpServer`, and no property of the chat is about it. It may
serve any readable session at any time, and packets arrive whole. `TcpServer` has the
statements and the choice of Run, `RecvBuffer` the bytes. Each leaves out what it
does not need: `TcpServer` has no packets but SYS_ACCEPT and SYS_CLOSE, `RecvBuffer`
one session.

## 3. What is checked

The chat, with `MCChatServer`. Connections are symmetric, and so are the ids in
`Registered`, in the runs without liveness.

| run | clients | shows |
|---|---|---|
| `rules` | 3 connections on 2 sessions and one room for 2, 3 requests each, all rules | `TypeOK`, `StaysDefined`, `ListsAreUsers`, `SessionsUnique`, `HandoversAlternate`, `ResponseReachesAsker`, `NotificationReachesMember`, `RequestsIntact`, `ClientAgrees`, `OneAnswerPerRequest`, `ImplementsStrictService` |
| `impolite` | 2 connections, 4 requests each, only wait for answers; Redis may fail | `RoomCapacity`, `UserStateMatchesRoom`, `ImplementsService` |
| `reuse` | 2 connections on one session, 2 requests each, no rules; Redis may fail | `UserTableConsistent`, `LoginIsAuthentic`, `ImplementsService` |
| `live` | 3 connections on 2 sessions, one id, 2 requests each, all rules, fairness | `RequestsAnswered`, `LeaversForgotten` |

`rules` asks whether the server is correct for clients that a careful client
library would implement; the next two ask what survives when clients do not
keep the rules: `impolite` keeps only `stop_and_wait`, `reuse` none. The deadlock
check is on in `rules` and `live`; in the others the process may have ended.

That the server implements `ChatService` needs no discipline for the phases, the
rooms and the capacity (`ImplementsService`: as a user sees it, a room never holds
more than it may, and nobody is in one who is not logged in); that ids are unique needs
`own_id` (`ImplementsStrictService`).

Below the chat:

| run | module | instance | shows |
|---|---|---|---|
| `framing` | `RecvBuffer` | packets of 2 to 4 bytes, a buffer for 8, 13 bytes in all; right headers, sessions closed between packets | `FirstBytesAreSize`, `StaysInRecvBuffer`, `NothingHeldBack`, `ImplementsPacketStream`, `LoopEnds`, `TypeOK` |
| `one_closer` | `TcpServer` | 2 sessions, 3 connections, no send fails, fairness | `WatchesConnected`, `RefusedOnlyWhenFull`, `DataServed`, `GoneReleased`, `TypeOK` |
| `one_session` | `TcpServer` | one session, 3 connections, sends fail | `RecvNeverBlocks` |
| `stop` | `Lifecycle` | one SIGINT while serving, but not in AddPacketQueue; Init may fail; fairness | `StopsInOrder`, `DeletedAfterUse`, `NoThreadLeft`, `StopCompletes`, `FailedInitEnds`, `TypeOK` |
| `handover` | `PacketQueue` | 7 packets in nodes of 2 | `HandledInOrder`, `EverythingHandled` |

The rules these runs take from the environment are constants too; none of them is
tested in the code.

- `RecvBuffer`: `Sizes` (no packet is shorter than its header) and `Misstated = {}` (a
  header says the length of its packet, so in particular not 0), `Window` (a client has
  no more than MAX_RECV_BUFFER_SIZE bytes on the way), `Closes = {}` (no client leaves in
  the middle of a packet, no session is closed inside the loop). Packets longer than
  MAX_PACKET_SIZE need no rule beyond `Window`.
- `TcpServer`: `MaxCloses = 0` (no send fails), or one session.
- `Lifecycle`: `SignalPoints`, `MaxSignals`, `ClientsRead`.
- `PacketQueue`: `MaxAhead` (no more packets are pushed between pop and copy than a node
  holds, 32 in the program). The limit is exact: with one push more the packet read is
  another one. The module also takes a freed node to be allocated again by this deque
  only; another thread that takes its memory from the heap meanwhile is not modelled.
- The chat: `Discipline`, and `RedisMayFail = FALSE` (the connection to Redis holds)
  in `rules` and `live`.

The end of this section says what happens without them.

Bounds. `MaxRequests` bounds the requests of a connection: three are a login,
an entry and a chat or leave; four are needed for a second login from a room and
an entry after it. `MaxQueued` bounds how far the network thread gets ahead of
the packet thread; two or three packets are an accept or close together with the
requests around it. With `stop_and_wait` it hardly binds. `MAX_SOCKETS` equals
or exceeds the sessions, so that a descriptor can be reused at once or a free
one be taken. Two sessions with three connections, or one with two, make a
session change hands with packets of its last client still in the queues. One room is
enough for the properties that speak of one room; room numbers range over
-1 .. MAX_CREATED_ROOMS + 1, both edges included. A room for one makes every
second entry a refusal; a room for two makes notifications between users.

Four bytes are the smallest packet that can be cut inside its size, inside its body
and between them; 13 bytes are three to six of them, more than the buffer holds, so
the rest is moved more than once. Two sessions and three descriptors are enough for a
number to go from one client to the next while the first session is still being
closed. `MaxCloses = 4`
lets every connection be closed by both threads. Seven packets in nodes of two make
each node freed and allocated again.

Fairness. `FairSpec` assumes weak fairness of the packet thread and of the Redis
thread: both are loops that never wait for anything but a mutex held for a few
instructions, and a send to a client that reads. Nothing is assumed of the
clients and nothing of the network thread (with all sessions taken it may
never receive again, see `tcp_server.cpp:51`). In `TcpServer` the network thread is
fair: it loops until Stop, and `DataServed` and `GoneReleased` except the time in
which a connection waits at a full server. `Lifecycle` assumes that of every thread and of every
handler, not of signals and clients; a send is fair only with `ClientsRead`.
`RecvBuffer` assumes it of the framing loop, `PacketQueue` of the consumer.

### Where the code does not do what it says

Three runs end in a counterexample.

| run | rule broken | property | in the code |
|---|---|---|---|
| `abrupt_close` | `quiet_close` | `ClosesAreConnected` | `tcp_server.cpp:161` closes a session that Receive has closed; the second SYS_CLOSE finds no user and `FuncClose` dereferences null |
| `session_reuse` | `Closes`: leaves in mid-packet | `FirstBytesAreSize` | `tcp_server.cpp:108` clears the buffers, not `prev_recv_pos_`; the next client's bytes land behind cleared ones, and the size is 0 or half cleared |
| `stop_in_queue` | `SignalPoints` | `StopCompletes` | `packet_manager.cpp:47` joins a thread that waits for the `mutex_` of the interrupted one |

The other rules are needed too. These changes to a configuration each make TLC find
the property violated; they are no runs of their own.

| change | property | in the code |
|---|---|---|
| `rules` without `valid_room` | `StaysDefined` | `packet_manager.cpp:199` tests `>` where `>=` is meant; `rooms_.at(MAX_CREATED_ROOMS)` throws |
| `rules` without `login_once` | `ListsAreUsers` | `packet_manager.cpp:137` refuses a login in state LOGIN but not in ROOM; the user stays listed |
| `rules` without `quiet_close` | `StaysDefined` | `packet_manager.cpp:168` finds no user when the answer of Redis comes after the close; `tcp_socket.cpp:36` raises SIGPIPE |
| `rules` without `stop_and_wait` | `RequestsIntact` | `chat_server.cpp:57` queues a pointer into the buffer that the next request is received into |
| `rules` without `request_ids` | `StaysDefined` | `packet_manager.cpp:77` lets the id behind the last one through |
| `rules` with `RedisMayFail = TRUE` | `StaysDefined` | `CRedisConn.h:654` reads the null reply of a lost connection |
| `rules` without `own_id` | `ImplementsStrictService` | `packet_manager.cpp:143` tests before the question to Redis, `:174` sets the id after the answer |
| `framing` with `Misstated = {0}` | `LoopEnds` | `tcp_server.cpp:138` takes a total_size of 0 for a complete packet; `read_pos` and `remain_data` stay as they are (lines 144 and 145), and the network thread never leaves the loop |
| `framing` with `Misstated = {5}` | `NothingHeldBack` | `tcp_server.cpp:138` waits for bytes the packet does not have |
| `framing` with `PACKET_HEADER_SIZE = 3` | `NothingHeldBack` | `tcp_server.cpp:134` does not look at a packet shorter than a header until more is received |
| `framing` with `Closes = {"mid_loop"}` | `FirstBytesAreSize`, `LoopEnds` | `tcp_server.cpp:142-145` read `*packet_size` again after the packet thread has cleared the buffer |
| `framing` with `Closes = {"mid_packet"}` | `StaysInRecvBuffer` | `tcp_server.cpp:108`, as in `session_reuse`; the old position adds to the bytes of the next client |
| `framing` with `Window = 12` | `FirstBytesAreSize`, `StaysInRecvBuffer` | `session.cpp:13` receives a whole buffer behind the rest; the end lies in `send_buffer_`, which Send clears |
| `one_closer` without `Stuck` in `DataServed` | `DataServed` | `tcp_server.cpp:51`: a connection that cannot be accepted keeps Run in its first branch |
| `one_closer` with `MaxCloses = 4`, `MAX_SOCKETS = 3` | `RefusedOnlyWhenFull` | `tcp_server.cpp:114`: emplace_back in both threads, an index is lost |
| `one_session` with two sessions and `MAX_SOCKETS = 3` | `RecvNeverBlocks` | `server_socket.cpp:75` closes a number that is another client's by then |
| `stop` with the signal during Init | `StopCompletes` | `chat_server.cpp:24` and its like set the flags that Stop has cleared |
| `stop` with `MaxSignals = 2` | `StopsInOrder` | `redis_manager.cpp:32` in a second thread: join of itself, or of a thread being joined |
| `stop` with `ClientsRead = FALSE` | `StopCompletes` | `packet_manager.cpp:47` waits for a thread that waits in send() |

## 4. What is proved

Every safety property of a passing run is a theorem, and so are the three
refinements. A theorem holds for every value of the constants that satisfies the
assumptions of the modules (`SizesAssumption`, `DataAssumption`, `RedisAssumption`,
`SocketsAssumption`, `ClientsAssumption`, `QueuedAssumption`; `TcpAssumption`;
`BufferAssumption`; `LifecycleAssumption`; `QueueAssumption`: sizes are natural
numbers, the ids in Redis are among those clients send, null values are none of the
others). The bounds of the runs are constants too, so a theorem holds for any number
of requests, packets in a queue, closes and signals. Where a theorem needs a rule of
the environment the rule is its hypothesis, the same that the run's configuration
sets; section 3 says what happens without it.

| module | hypothesis | theorems |
|---|---|---|
| `ChatServerProofs` | none | `TypeCorrectness`, `UserTableIsConsistent`, `RoomsKeepCapacity`, `UsersAreListed`, `LoginsAreAuthentic`, all from `ServerInvariant` |
| `ChatServiceProofs` | none | `ServerImplementsService` |
| `PoliteClientsProofs` | `RulesKept`: the clients keep all six rules | `PoliteListsAreUsers`, `PoliteSessionsUnique`, `PoliteHandoversAlternate`, `PoliteResponseReachesAsker`, `PoliteNotificationReachesMember`, `PoliteRequestsIntact`, `PoliteOneAnswerPerRequest`, `PoliteClientAgrees`, `ServerImplementsStrictService`, all from `PoliteInvariant` |
| | also `~RedisMayFail` | `PoliteServerStaysDefined` |
| `TcpServerProofs` | none | `TcpServerTypes` |
| | `OneCloser`: no send fails | `RefusesOnlyWhenFull`, `SelectWatchesConnected` |
| | `OneCloser`, or a single session | `RecvDoesNotBlock` |
| `RecvBufferProofs` | `RulesKept`: sizes from `PACKET_HEADER_SIZE` on, `Misstated = {}`, `Window <= MAX_RECV_BUFFER_SIZE`, `Closes = {}` | `BufferTypes`, `RecvBufferNotLeft`, `SizesAreRead`, `OnlyTheBegunIsKept`, `FramingImplementsStream` |
| `LifecycleProofs` | none | `ProcessTypes`, `ExitLeavesNoThread` |
| | `SignalsWhenServing`: no SIGINT during the startup | `ConnDeletedAfterUse` |
| | also `SignalledOnce`: one SIGINT | `OneSignalStopsInOrder` |
| `PacketQueueProofs` | `OneNodeAhead`: `MaxAhead <= NODE` | `PacketsHandledInOrder` |

The theorems go further than the runs in some places. `StopsInOrder` is proved for a
SIGINT at any step after the startup, also inside AddPacketQueue; `NoThreadLeft` for
any number of signals at any step, startup included. `RecvNeverBlocks` is also proved
for many sessions with one closer, where the run has one session and two closers.
`RoomsKeepCapacity` is worth having for every discipline: also with users listed twice
and left behind on a list, the limit is not passed.

### The arguments

**Tables (`ServerInv`).** No property is inductive alone. The type of a question to
Redis depends on the table (`LoginRequest` copies `users[i].index`, which is a session
only for a user in the map), the capacity on the lists being finite, the type of the
notifications on the member's `room_index` being that of a room, and the authenticity
of a login on every answer still in `res_packet_queue` or `packet_queue`, and on the
fact that an answer is never overwritten. `ServerInv` is their conjunction. The proof
goes through two lemmas: `NextStep` shows that each action keeps the queues good and
the types, and does one of the five operations of `UserStep`, with the guards its
handler gives it, to the table and the rooms, or leaves them alone; `UserRoomStepInv`
shows that those operations keep the rest.

**Service.** From `NextStep` each step of the server is an operation of `UserStep` or
none, and each of those an operation of `ChatService` (`ServiceStep`). Only Enter needs
more: the service counts members and the code entries, and `MembersFit` maps the
members of a room one-to-one into the entries of its list.

**Polite clients (`PoliteInv`).** `RulesKept` is `Rules \subseteq Discipline`. What
makes the server correct is that everything under way for a client hangs together, so
its invariant spans all three threads and the clients:

- `ConnectionsInv`: a connected session names a descriptor and a connection of its
  own; an index is available once, and only while its session is not connected.
- `HandoversInv`: accepts and closes of a session alternate in `packet_queue`, and
  lead from what the user table says to what `sessions` says.
- `PacketsInv`: every request queued is intact, from a client that is still
  connected to that session, and stands behind all handovers of the session; so
  no handler works for a user who is not there yet or no longer.
- `RedisInv`: behind every question and every answer stands a session in state
  CONNECT whose client waits, and nobody is logged in with its id
  (`LoginUnderWay`). This carries the test of `FuncLoginReq` over the round trip to
  the assignment in `FuncLoginRes`; `own_id` and `stop_and_wait` are needed for it.
- `SendingInv`: a response still to be sent is for the client that asked, and makes
  it know its state; a notification is for a user in a room, whose client is in
  one too. A client in a room does not leave (`quiet_close`), so the sends neither
  fail nor kill (`SendsReturn`), and the packet thread closes no session.
- `TakeReadsOnce`: a handler finds the packet unchanged at its second look, because
  its client neither sends nor leaves before the answer.
- `AgreeInv`, `MembersInv`, `ClientsInv`, `ListsAreUsers`, `OneAnswerPerRequest`: what
  a client knows, who is in a room, and that one thing is under way for a client
  that waits.

Each lemma named after an action (`CreateSessionKeeps` ... `TakePacketKeeps`, the
last from one lemma per handler) proves these for one step. The properties follow:
some are parts of the invariant, `PendingReaches` gives the two about sends, `Idle` turns
`OneAnswerPerRequest` into "nothing is under way" for `ClientAgrees`, and
`HandoversAlternate` follows from its form in terms of neighbours (`Alternate`,
which is kept by Append and Tail) with `LeastOf` and `GreatestOf`. `StrictHandler`
shows that a connect finds no user (`HandoversInv`) and a login a unique name
(`LoginUnderWay`). `PoliteInv` was checked by TLC on the instance of `rules` before
it was proved.

**TcpServer.** `TableInv` holds whatever the two threads lose of each other's stores:
where each thread can be, that a connected session names a descriptor, and that the
ends of the deque stay inside what was written. With one closer `IndexInv` adds that
each session is connected, being closed, or has its index in the deque, once;
`WatchInv` that `read_fds_` is exactly the descriptors in use, save the one that
a half-done EnrollSocket or DropSocket is about; `ReadyInv` that what select()
reported is still readable when the scan comes to it, because the scan itself is the
only reader and closer.

**RecvBuffer.** `FramingInv`: `StreamInv` bounds what clients have sent beyond the last
packet handed on, and `BufferInv` says at each step of the loop which bytes of the
stream are where in `recv_buffer_`: what was received and not handed on, in one
piece. That the rest of a packet always fits behind it is where `Window` is needed, and
that what the header says ends where the packet ends where `Misstated = {}` is.
`RereadsAgree` shows that the four looks at `*packet_size` agree, because nobody closes
the session inside the loop. `RecvBufferNotLeft` follows: the bytes in the buffer are
never more than a client may have under way. In the
refinement `HandOn` is the Deliver of `PacketStream`: the bytes it hands on are those
from the last end of a packet to the next.

**Lifecycle.** `ThreadsInv`: a thread that may run has a `thread_` member to join, so the
process cannot leave main() with it. `DeleteInv` adds that no handler runs during the
startup and that `conn_` is deleted after the join of the Redis thread. `StopInv` adds
that there is one handler, on the main thread.

**PacketQueue.** `QueueInv`: the nodes in use are different ones (`LiveDistinct`), a
packet in the deque is still in its cell (`Stored`), and so is the packet that was
popped and not yet copied, although its node may have been freed and allocated again,
because the pushes since then have not come to its slot (`RefKept`); the arithmetic of positions and slots is in the lemmas before it.

### Only model-checked

Liveness (`RequestsAnswered`, `LeaversForgotten`, `LoopEnds`, `DataServed`,
`GoneReleased`, `StopCompletes`, `FailedInitEnds`, `EverythingHandled`) and with it
the absence of deadlock: they need ENABLED and fairness, which are out of the proof
system's reach.

## 5. Not modelled

- The bytes of packets, chat messages, passwords, printing, and the network error
  texts: no property depends on them. The unbounded copy of `message_length` bytes
  (`packet_manager.cpp:302`) is a matter of bytes.
- User ids that fill their 16 bytes: `redis_manager.cpp:77` and the comparisons of ids
  read on behind one that has no final zero. An id is a value here, and `Registered` is
  taken to be a set of ids as clients send them (`DataAssumption`), so the key that is
  looked up is the id that was sent; for an id that runs on `LoginIsAuthentic` says nothing.
- The commands of `CRedisConn` that the server does not call.
- The branches inside Create, Bind and Listen: they succeed or fail as one, and Init
  does the same after each.
- Locks of the C++ library (the heap, std::cout) that the interrupted thread may hold
  when the handler runs; `stop_in_queue` shows the same for `mutex_`.
- `fd_max_`: it only grows, so it always covers the set.
- Build files.

## 6. Plan

1. (done) `ChatBase`, `UserRooms`, `RedisManager`, `PacketManager`, `SessionTable`,
   `Clients`, `ChatServer`, their runs and the first proofs.
2. (done) `ChatService` and the refinement; `RecvBuffer` with `PacketStream`;
   `TcpServer`; `Lifecycle`; `PacketQueue`.
3. (done) Proofs of the safety properties of every passing run, and of the
   refinements.
4. Left: the invariant for weaker disciplines, to say which rules each property
   needs (the proof uses `RulesKept` in `ReceiveRequestKeeps`,
   `ClientLeavesKeeps` and `TakeReadsOnce` only).
