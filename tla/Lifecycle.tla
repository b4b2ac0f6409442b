------------------------------- MODULE Lifecycle -------------------------------
(***************************************************************************)
(* The process from main() to its end: ChatServer::Init and Start, the two *)
(* threads Start creates, and SIGINT, whose handler runs ChatServer::Stop  *)
(* on top of the thread it interrupts. What the threads do to users and    *)
(* rooms is in ChatServer; here they take mutex_, send and ask Redis.      *)
(***************************************************************************)
EXTENDS Naturals

CONSTANTS
  SignalPoints,  \* the steps of main() before which SIGINT arrives
  MaxSignals,
  InitMayFail,
  ClientsRead    \* whether send() returns in the end

Workers == {"packet", "redis"}
Threads == Workers \cup {"main"}

Startup == {"construct", "init", "new_conn", "connect", "connected", "run_packet", "run_chat",
            "start_packet", "start_redis"}
Serving == {"loop", "select", "lock_queue", "queue"}

ASSUME LifecycleAssumption ==
  /\ SignalPoints \subseteq Startup \cup Serving \cup {"return"}
  /\ MaxSignals \in Nat /\ InitMayFail \in BOOLEAN /\ ClientsRead \in BOOLEAN

VARIABLES
  pc,         \* the next step of main()
  stop,       \* per thread: the next step of Stop, when its handler is running
  runnable,   \* whose runnable_ is TRUE
  thread,     \* per worker: its next step
  joinable,   \* the thread_ members that have a thread
  conn,       \* RedisManager::conn_
  listening,  \* whether server_socket_ is open
  mutex,      \* PacketManager::mutex_: who holds it
  signals,    \* SIGINTs taken
  process     \* "running", or how the process has ended

vars == <<pc, stop, runnable, thread, joinable, conn, listening, mutex, signals, process>>

TypeOK ==
  /\ pc \in Startup \cup Serving \cup {"return", "returned"}
  /\ stop \in [Threads -> {"none", "flags", "join_redis", "delete", "join_packet", "sockets"}]
  /\ runnable \subseteq Threads
  /\ thread \in [Workers -> {"none", "loop", "lock", "holding", "send", "get", "done"}]
  /\ joinable \subseteq Workers
  /\ conn \in {"null", "new", "deleted"}
  /\ listening \in BOOLEAN /\ mutex \in {"free", "main", "packet"}
  /\ mutex = "main" <=> pc = "queue"
  /\ mutex = "packet" <=> thread["packet"] = "holding"
  /\ signals \in 0 .. MaxSignals
  /\ process \in {"running", "exited", "terminated", "undefined"}

Init ==
  /\ pc = "construct" /\ stop = [t \in Threads |-> "none"]
  /\ runnable = {} /\ thread = [w \in Workers |-> "none"] /\ joinable = {}
  /\ conn = "null" /\ listening = FALSE /\ mutex = "free"
  /\ signals = 0 /\ process = "running"

-----------------------------------------------------------------------------
\* main(). It stands still while a handler runs on top of it.
Main(from, to) ==
  /\ process = "running" /\ stop["main"] = "none"
  /\ pc = from
  /\ pc' = to

\* The handler is assigned, then TCPServer::Init: Create, Bind and Listen.
AssignHandler ==
  /\ Main("construct", "init")
  /\ UNCHANGED <<stop, runnable, thread, joinable, conn, listening, mutex, signals, process>>

InitNetwork ==
  /\ \/ Main("init", "new_conn") /\ listening' = TRUE
     \/ Main("init", "start_packet") /\ InitMayFail /\ UNCHANGED listening
  /\ UNCHANGED <<stop, runnable, thread, joinable, conn, mutex, signals, process>>

\* RedisManager::Connect: new, then connect() through the pointer.
NewConn ==
  /\ Main("new_conn", "connect")
  /\ conn' = "new"
  /\ UNCHANGED <<stop, runnable, thread, joinable, listening, mutex, signals, process>>

Connect ==
  /\ Main("connect", "connected") \/ (InitMayFail /\ Main("connect", "start_packet"))
  /\ process' = IF conn = "deleted" THEN "undefined" ELSE process
  /\ UNCHANGED <<stop, runnable, thread, joinable, conn, listening, mutex, signals>>

\* runnable_ = true, of RedisManager, PacketManager and ChatServer in turn.
SetRunnable ==
  /\ \E s \in {<<"connected", "redis", "run_packet">>, <<"run_packet", "packet", "run_chat">>,
               <<"run_chat", "main", "start_packet">>} :
       Main(s[1], s[3]) /\ runnable' = runnable \cup {s[2]}
  /\ UNCHANGED <<stop, thread, joinable, conn, listening, mutex, signals, process>>

\* PacketManager::Run and RedisManager::Run.
StartThread ==
  /\ \E s \in {<<"start_packet", "packet", "start_redis">>, <<"start_redis", "redis", "loop">>} :
       /\ Main(s[1], s[3])
       /\ thread' = [thread EXCEPT ![s[2]] = "loop"] /\ joinable' = joinable \cup {s[2]}
  /\ UNCHANGED <<stop, runnable, conn, listening, mutex, signals, process>>

\* The loop of Start. select() fails at once when the server socket is closed.
Continue_Always == TRUE
Continue        == "main" \in runnable

TestRunnable ==
  /\ Main("loop", IF Continue THEN "select" ELSE "return")
  /\ UNCHANGED <<stop, runnable, thread, joinable, conn, listening, mutex, signals, process>>

SelectFails ==
  /\ Main("select", "loop") /\ ~listening
  /\ UNCHANGED <<stop, runnable, thread, joinable, conn, listening, mutex, signals, process>>

ClientActs ==
  /\ Main("select", "lock_queue") /\ listening
  /\ UNCHANGED <<stop, runnable, thread, joinable, conn, listening, mutex, signals, process>>

\* AddPacketQueue, with mutex_ held at "queue".
Unlocked_Not == mutex
Unlocked     == "free"

LockQueue ==
  /\ Main("lock_queue", "queue") /\ mutex = "free" /\ mutex' = "main"
  /\ UNCHANGED <<stop, runnable, thread, joinable, conn, listening, signals, process>>

UnlockQueue ==
  /\ Main("queue", "loop") /\ mutex' = Unlocked
  /\ UNCHANGED <<stop, runnable, thread, joinable, conn, listening, signals, process>>

\* return 0 destroys server, and with it the thread objects.
AtReturn_Detached == "exited"
AtReturn          == IF joinable = {} THEN "exited" ELSE "terminated"

Return ==
  /\ Main("return", "returned") /\ process' = AtReturn
  /\ UNCHANGED <<stop, runnable, thread, joinable, conn, listening, mutex, signals>>

-----------------------------------------------------------------------------
\* The two threads.
Work(w, from, to) ==
  /\ process = "running" /\ stop[w] = "none"
  /\ thread[w] = from
  /\ thread' = [thread EXCEPT ![w] = to]

Loop(w) ==
  /\ Work(w, "loop", CASE w \notin runnable -> "done"
                       [] w = "packet"      -> "lock"
                       [] OTHER             -> "get")
  /\ UNCHANGED <<pc, stop, runnable, joinable, conn, listening, mutex, signals, process>>

LockMutex ==
  /\ Work("packet", "lock", "holding") /\ mutex = "free" /\ mutex' = "packet"
  /\ UNCHANGED <<pc, stop, runnable, joinable, conn, listening, signals, process>>

UnlockMutex ==
  /\ Work("packet", "holding", "send") /\ mutex' = Unlocked
  /\ UNCHANGED <<pc, stop, runnable, joinable, conn, listening, signals, process>>

Send ==
  /\ Work("packet", "send", "loop")
  /\ UNCHANGED <<pc, stop, runnable, joinable, conn, listening, mutex, signals, process>>

\* CRedisConn::get through conn_.
Get ==
  /\ Work("redis", "get", "loop")
  /\ process' = IF conn = "deleted" THEN "undefined" ELSE process
  /\ UNCHANGED <<pc, stop, runnable, joinable, conn, listening, mutex, signals>>

-----------------------------------------------------------------------------
\* SIGINT goes to the main thread, or, while that runs the handler, with the signal
\* blocked, to another. Before main() assigns the handler the call of it throws.
Alive(w) == thread[w] \notin {"none", "done"}

Signal(t) ==
  /\ process = "running" /\ pc \in SignalPoints /\ signals < MaxSignals
  /\ stop[t] = "none"
  /\ t \in Workers => Alive(t) /\ stop["main"] # "none"
  /\ signals' = signals + 1
  /\ IF pc = "construct"
     THEN process' = "terminated" /\ UNCHANGED stop
     ELSE stop' = [stop EXCEPT ![t] = "flags"] /\ UNCHANGED process
  /\ UNCHANGED <<pc, runnable, thread, joinable, conn, listening, mutex>>

Handler(t, from, to) ==
  /\ process = "running"
  /\ stop[t] = from
  /\ stop' = [stop EXCEPT ![t] = to]

\* The three runnable_ are cleared before anything is waited for.
Kept_Redis(flags) == flags \cap {"redis"}
Kept(flags)       == {}

StopFlags(t) ==
  /\ Handler(t, "flags", "join_redis") /\ runnable' = Kept(runnable)
  /\ UNCHANGED <<pc, thread, joinable, conn, listening, mutex, signals, process>>

\* if (thread_.joinable()) thread_.join(). It throws for the thread itself, and when
\* another thread is in the same call.
Joined_Detached(w) == TRUE
Joined(w)          == thread[w] = "done"

Join(t, w, from, to) ==
  LET another == \E u \in Threads \ {t} : stop[u] = from
      fails   == w \in joinable /\ (t = w \/ another)
  IN
  /\ Handler(t, from, to)
  /\ w \in joinable => fails \/ Joined(w)
  /\ joinable' = joinable \ {w}
  /\ process' = IF fails THEN "terminated" ELSE process
  /\ UNCHANGED <<pc, runnable, thread, conn, listening, mutex, signals>>

\* delete conn_, which is not set to null; then PacketManager::End joins its thread.
AfterDelete_Sockets == "sockets"
AfterDelete         == "join_packet"

DeleteConn(t) ==
  /\ Handler(t, "delete", AfterDelete)
  /\ conn' = IF conn = "null" THEN conn ELSE "deleted"
  /\ process' = IF conn = "deleted" THEN "undefined" ELSE process
  /\ UNCHANGED <<pc, runnable, thread, joinable, listening, mutex, signals>>

\* TCPServer::End closes the server socket and those of the sessions.
End(t) ==
  /\ Handler(t, "sockets", "none") /\ listening' = FALSE
  /\ UNCHANGED <<pc, runnable, thread, joinable, conn, mutex, signals, process>>

Stop(t) ==
  \/ StopFlags(t)
  \/ Join(t, "redis", "join_redis", "delete")
  \/ DeleteConn(t)
  \/ Join(t, "packet", "join_packet", "sockets")
  \/ End(t)

-----------------------------------------------------------------------------
MainThread ==
  \/ AssignHandler \/ InitNetwork \/ NewConn \/ Connect \/ SetRunnable \/ StartThread
  \/ TestRunnable \/ SelectFails \/ LockQueue \/ UnlockQueue \/ Return

PacketThread == Loop("packet") \/ LockMutex \/ UnlockMutex
RedisThread  == Loop("redis") \/ Get

Next ==
  \/ MainThread \/ ClientActs \/ PacketThread \/ Send \/ RedisThread
  \/ \E t \in Threads : Signal(t) \/ Stop(t)

Spec == Init /\ [][Next]_vars

\* The threads are scheduled; clients and signals owe nothing.
FairSpec ==
  /\ Spec
  /\ WF_vars(MainThread) /\ WF_vars(PacketThread) /\ WF_vars(RedisThread)
  /\ ClientsRead => WF_vars(Send)
  /\ \A t \in Threads : WF_vars(Stop(t))

-----------------------------------------------------------------------------
\* A SIGINT stops the server: the process returns from main() (main.cpp:16-19).
StopCompletes == signals > 0 ~> process = "exited"

\* When main() returns, no thread is left that uses the members of server
\* (packet_manager.cpp:45-48, redis_manager.cpp:30-33).
NoThreadLeft == process = "exited" => \A w \in Workers : thread[w] \in {"none", "done"}

\* conn_ is deleted only when the Redis thread has ended for good (redis_manager.cpp:35).
DeletedAfterUse == conn = "deleted" => thread["redis"] # "get"

\* The process does not end in another way once it has been told to stop: every thread
\* is joined once, conn_ is deleted once, and not used then (packet_manager.cpp:40-49).
StopsInOrder == signals > 0 => process \in {"running", "exited"}

\* A server that could not be initialised does not stay: the process ends (main.cpp:21-22).
FailedInitEnds == (pc = "start_packet" /\ "main" \notin runnable) ~> process # "running"
=============================================================================
