---------------------------- MODULE LifecycleProofs ----------------------------
(***************************************************************************)
(* Proofs about the process, for every value of the constants: first what  *)
(* holds wherever and however often SIGINT arrives, then what holds when   *)
(* it arrives after the startup, then what holds when it does so once.     *)
(***************************************************************************)
EXTENDS Lifecycle, TLAPS

-----------------------------------------------------------------------------
\* SIGINT at any step, any number of times.

\* main() starts each thread in one step of its startup and in no other.
StartedOnce ==
  /\ pc \in Startup => thread["redis"] = "none"
  /\ pc \in Startup \ {"start_redis"} => thread["packet"] = "none"

\* A thread that may still run has a thread_ member to join, until a join throws, and
\* the process exits only when no such member is left.
JoinableWhileAlive ==
  /\ process \in {"running", "exited"} =>
       \A w \in Workers : w \notin joinable => thread[w] \in {"none", "done"}
  /\ process = "exited" => joinable = {}

ThreadsInv == TypeOK /\ StartedOnce /\ JoinableWhileAlive

\* The process starts with main() alone.
LEMMA ThreadsInit == Init => ThreadsInv
<1> SUFFICES ASSUME Init PROVE ThreadsInv
  OBVIOUS
<1>1. signals \in 0 .. MaxSignals
  BY LifecycleAssumption DEF Init
<1>2. \A w \in Workers : thread[w] = "none"
  BY DEF Init
<1>3. "packet" \in Workers /\ "redis" \in Workers
  BY DEF Workers
<1>4. TypeOK
  BY <1>1, <1>2, <1>3 DEF Init, TypeOK, Startup
<1> QED
  BY <1>2, <1>3, <1>4 DEF Init, ThreadsInv, StartedOnce, JoinableWhileAlive

\* The two actions of main() that stand for several of its steps.
LEMMA SetRunnableStep ==
  ASSUME SetRunnable
  PROVE  /\ pc \in {"connected", "run_packet", "run_chat"}
         /\ pc' \in {"run_packet", "run_chat", "start_packet"}
         /\ \E t \in Threads : runnable' = runnable \cup {t}
         /\ UNCHANGED <<stop, thread, joinable, conn, listening, mutex, signals, process>>
<1>1. PICK s \in {<<"connected", "redis", "run_packet">>, <<"run_packet", "packet", "run_chat">>,
                  <<"run_chat", "main", "start_packet">>} :
        pc = s[1] /\ pc' = s[3] /\ runnable' = runnable \cup {s[2]}
  BY DEF SetRunnable, Main
<1>2. s[1] \in {"connected", "run_packet", "run_chat"}
  OBVIOUS
<1>3. s[3] \in {"run_packet", "run_chat", "start_packet"}
  OBVIOUS
<1>4. s[2] \in Threads
  BY DEF Threads, Workers
<1> QED
  BY <1>1, <1>2, <1>3, <1>4 DEF SetRunnable

\* main() starts the packet thread, then the Redis thread.
LEMMA StartThreadStep ==
  ASSUME StartThread
  PROVE  /\ \/ /\ pc = "start_packet" /\ pc' = "start_redis"
               /\ thread' = [thread EXCEPT !["packet"] = "loop"]
               /\ joinable' = joinable \cup {"packet"}
            \/ /\ pc = "start_redis" /\ pc' = "loop"
               /\ thread' = [thread EXCEPT !["redis"] = "loop"]
               /\ joinable' = joinable \cup {"redis"}
         /\ process = "running"
         /\ UNCHANGED <<stop, runnable, conn, listening, mutex, signals, process>>
<1>1. PICK s \in {<<"start_packet", "packet", "start_redis">>, <<"start_redis", "redis", "loop">>} :
        /\ process = "running" /\ pc = s[1] /\ pc' = s[3]
        /\ thread' = [thread EXCEPT ![s[2]] = "loop"] /\ joinable' = joinable \cup {s[2]}
        /\ UNCHANGED <<stop, runnable, conn, listening, mutex, signals, process>>
  BY DEF StartThread, Main
<1>2. CASE s = <<"start_packet", "packet", "start_redis">>
  BY <1>1, <1>2
<1>3. CASE s = <<"start_redis", "redis", "loop">>
  BY <1>1, <1>3
<1> QED
  BY <1>1, <1>2, <1>3

\* ThreadsInv is inductive.
LEMMA ThreadsNext == ThreadsInv /\ [Next]_vars => ThreadsInv'
<1> SUFFICES ASSUME ThreadsInv, [Next]_vars
             PROVE  ThreadsInv'
  OBVIOUS
<1> USE LifecycleAssumption
        DEF ThreadsInv, TypeOK, StartedOnce, JoinableWhileAlive, Startup, Serving, Workers,
            Threads
<1>1. CASE AssignHandler
  BY <1>1 DEF AssignHandler, Main
<1>2. CASE InitNetwork
  BY <1>2 DEF InitNetwork, Main
<1>3. CASE NewConn
  BY <1>3 DEF NewConn, Main
<1>4. CASE Connect
  BY <1>4 DEF Connect, Main
<1>5. CASE SetRunnable
  BY <1>5, SetRunnableStep
<1>6. CASE StartThread
  BY <1>6, StartThreadStep
<1>7. CASE TestRunnable
  BY <1>7 DEF TestRunnable, Main
<1>8. CASE SelectFails
  BY <1>8 DEF SelectFails, Main
<1>9. CASE LockQueue
  BY <1>9 DEF LockQueue, Main
<1>10. CASE UnlockQueue
  BY <1>10 DEF UnlockQueue, Main, Unlocked
<1>11. CASE Return
  BY <1>11 DEF Return, Main, AtReturn
<1>12. CASE ClientActs
  BY <1>12 DEF ClientActs, Main
<1>13. ASSUME NEW w \in Workers, Loop(w)
       PROVE  ThreadsInv'
  BY <1>13 DEF Loop, Work
<1>14. CASE LockMutex
  BY <1>14 DEF LockMutex, Work
<1>15. CASE UnlockMutex
  BY <1>15 DEF UnlockMutex, Work, Unlocked
<1>16. CASE Send
  BY <1>16 DEF Send, Work
<1>17. CASE Get
  BY <1>17 DEF Get, Work
<1>18. ASSUME NEW t \in Threads, Signal(t)
       PROVE  ThreadsInv'
  BY <1>18 DEF Signal
<1>19. ASSUME NEW t \in Threads, StopFlags(t)
       PROVE  ThreadsInv'
  BY <1>19 DEF StopFlags, Handler, Kept
<1>20. ASSUME NEW t \in Threads, NEW w \in Workers, NEW from, NEW to \in {"delete", "sockets"},
              Join(t, w, from, to)
       PROVE  ThreadsInv'
  BY <1>20 DEF Join, Handler, Joined
<1>21. ASSUME NEW t \in Threads, DeleteConn(t)
       PROVE  ThreadsInv'
  BY <1>21 DEF DeleteConn, Handler, AfterDelete
<1>22. ASSUME NEW t \in Threads, End(t)
       PROVE  ThreadsInv'
  BY <1>22 DEF End, Handler
<1>23. CASE UNCHANGED vars
  BY <1>23 DEF vars
<1> QED
  BY <1>1, <1>2, <1>3, <1>4, <1>5, <1>6, <1>7, <1>8, <1>9, <1>10, <1>11, <1>12, <1>13, <1>14,
     <1>15, <1>16, <1>17, <1>18, <1>19, <1>20, <1>21, <1>22, <1>23
     DEF Next, MainThread, PacketThread, RedisThread, Stop

\* Wherever SIGINTs arrive, the inductive invariant of the threads holds.
THEOREM ThreadsInvariant == Spec => []ThreadsInv
BY ThreadsInit, ThreadsNext, PTL DEF Spec

\* Every variable keeps its type, and mutex_ is held by the thread that is between its
\* lock and its unlock.
THEOREM ProcessTypes == Spec => []TypeOK
<1>1. ThreadsInv => TypeOK
  BY DEF ThreadsInv
<1> QED
  BY <1>1, ThreadsInvariant, PTL

\* Wherever SIGINTs arrive, main() does not get past its return while a thread is left
\* that uses the members of server: it returns after both joins, or the process dies.
THEOREM ExitLeavesNoThread == Spec => []NoThreadLeft
<1>1. ThreadsInv => NoThreadLeft
  BY DEF ThreadsInv, NoThreadLeft, JoinableWhileAlive
<1> QED
  BY <1>1, ThreadsInvariant, PTL

-----------------------------------------------------------------------------
\* SIGINT after the startup.

SignalsWhenServing == SignalPoints \cap Startup = {}

\* During the startup nothing is being stopped, ...
NoStopInStartup ==
  pc \in Startup => conn # "deleted" /\ \A t \in Threads : stop[t] = "none"

\* ... and a handler that comes to the delete has joined the Redis thread for good.
JoinedBeforeDelete ==
  /\ process = "running" =>
       \A t \in Threads : stop[t] \in {"delete", "join_packet", "sockets"} => "redis" \notin joinable
  /\ conn = "deleted" => thread["redis"] \in {"none", "done"}

DeleteInv == ThreadsInv /\ NoStopInStartup /\ JoinedBeforeDelete

\* DeleteInv is inductive.
LEMMA DeleteNext ==
  ASSUME SignalsWhenServing
  PROVE  DeleteInv /\ [Next]_vars => DeleteInv'
<1> SUFFICES ASSUME DeleteInv, [Next]_vars
             PROVE  NoStopInStartup' /\ JoinedBeforeDelete'
  BY ThreadsNext DEF DeleteInv
<1> USE DEF DeleteInv, NoStopInStartup, JoinedBeforeDelete
<1>1. TypeOK /\ StartedOnce /\ JoinableWhileAlive
  BY DEF ThreadsInv
<1>2. CASE AssignHandler \/ InitNetwork \/ Connect
  BY <1>2 DEF AssignHandler, InitNetwork, Connect, Main, Startup
<1>3. CASE NewConn
  BY <1>3 DEF NewConn, Main, Startup
<1>4. CASE SetRunnable
  BY <1>4, SetRunnableStep DEF Startup
<1>5. CASE StartThread
  BY <1>1, <1>5, StartThreadStep DEF Startup, TypeOK, Workers
<1>6. CASE TestRunnable \/ SelectFails \/ LockQueue \/ UnlockQueue \/ ClientActs
  BY <1>6 DEF TestRunnable, SelectFails, LockQueue, UnlockQueue, ClientActs, Main, Startup
<1>7. CASE Return
  BY <1>7 DEF Return, Main, Startup, Serving, AtReturn
<1>8. ASSUME NEW w \in Workers, Loop(w)
      PROVE  NoStopInStartup' /\ JoinedBeforeDelete'
  BY <1>1, <1>8 DEF Loop, Work, TypeOK, Workers
<1>9. CASE LockMutex \/ UnlockMutex \/ Send
  BY <1>1, <1>9 DEF LockMutex, UnlockMutex, Send, Work, TypeOK, Workers
<1>10. CASE Get
  BY <1>1, <1>10 DEF Get, Work, TypeOK, Workers
<1>11. ASSUME NEW t \in Threads, Signal(t)
       PROVE  NoStopInStartup' /\ JoinedBeforeDelete'
  BY <1>1, <1>11 DEF Signal, SignalsWhenServing, TypeOK
<1>12. ASSUME NEW t \in Threads, StopFlags(t)
       PROVE  NoStopInStartup' /\ JoinedBeforeDelete'
  BY <1>1, <1>12 DEF StopFlags, Handler, TypeOK
<1>13. ASSUME NEW t \in Threads, Join(t, "redis", "join_redis", "delete")
       PROVE  NoStopInStartup' /\ JoinedBeforeDelete'
  BY <1>1, <1>13 DEF Join, Handler, TypeOK
<1>14. ASSUME NEW t \in Threads, Join(t, "packet", "join_packet", "sockets")
       PROVE  NoStopInStartup' /\ JoinedBeforeDelete'
  BY <1>1, <1>14 DEF Join, Handler, TypeOK
<1>15. ASSUME NEW t \in Threads, DeleteConn(t)
       PROVE  NoStopInStartup' /\ JoinedBeforeDelete'
  BY <1>1, <1>15 DEF DeleteConn, Handler, AfterDelete, TypeOK, JoinableWhileAlive, Workers
<1>16. ASSUME NEW t \in Threads, End(t)
       PROVE  NoStopInStartup' /\ JoinedBeforeDelete'
  BY <1>1, <1>16 DEF End, Handler, TypeOK
<1>17. CASE UNCHANGED vars
  BY <1>17 DEF vars
<1> HIDE DEF DeleteInv, NoStopInStartup, JoinedBeforeDelete
<1> QED
  BY <1>2, <1>3, <1>4, <1>5, <1>6, <1>7, <1>8, <1>9, <1>10, <1>11, <1>12, <1>13, <1>14, <1>15,
     <1>16, <1>17
     DEF Next, MainThread, PacketThread, RedisThread, Stop, Workers

\* With SIGINTs only after the startup, the Redis thread is joined before any delete.
THEOREM DeleteInvariant ==
  ASSUME SignalsWhenServing
  PROVE  Spec => []DeleteInv
<1>1. Init => DeleteInv
  BY ThreadsInit DEF Init, DeleteInv, NoStopInStartup, JoinedBeforeDelete
<1> QED
  BY <1>1, DeleteNext, PTL DEF Spec

\* When SIGINT arrives after the startup, and however often, conn_ is deleted only when
\* the Redis thread is past its last use of it.
THEOREM ConnDeletedAfterUse ==
  ASSUME SignalsWhenServing
  PROVE  Spec => []DeletedAfterUse
<1>1. DeleteInv => DeletedAfterUse
  BY DEF DeleteInv, JoinedBeforeDelete, DeletedAfterUse
<1> QED
  BY <1>1, DeleteInvariant, PTL

-----------------------------------------------------------------------------
\* SIGINT once, after the startup.

SignalledOnce == MaxSignals <= 1

\* The one handler runs on the main thread, and each of its steps is done once.
OneHandler ==
  /\ \A w \in Workers : stop[w] = "none"
  /\ pc \in Startup => signals = 0
  /\ signals = 0 => stop["main"] = "none" /\ conn # "deleted"
  /\ stop["main"] \in {"flags", "join_redis", "delete"} => conn # "deleted"
  /\ stop["main"] \in {"delete", "join_packet", "sockets"} => "redis" \notin joinable
  /\ stop["main"] = "sockets" => joinable = {}
  /\ signals > 0 /\ stop["main"] = "none" => joinable = {}

StopInv == DeleteInv /\ OneHandler /\ StopsInOrder

\* StopInv is inductive.
LEMMA StopNext ==
  ASSUME SignalsWhenServing, SignalledOnce
  PROVE  StopInv /\ [Next]_vars => StopInv'
<1> SUFFICES ASSUME StopInv, [Next]_vars
             PROVE  OneHandler' /\ StopsInOrder'
  BY DeleteNext DEF StopInv
<1> USE DEF StopInv, OneHandler, StopsInOrder
<1>1. TypeOK /\ NoStopInStartup /\ JoinedBeforeDelete /\ "main" \in Threads
  BY DEF DeleteInv, ThreadsInv, Threads
<1>2. signals \in Nat /\ signals <= 1
  BY <1>1, LifecycleAssumption DEF TypeOK, SignalledOnce
<1>3. CASE AssignHandler \/ InitNetwork
  BY <1>3 DEF AssignHandler, InitNetwork, Main, Startup
<1>4. CASE NewConn
  BY <1>4 DEF NewConn, Main, Startup
<1>5. CASE Connect
  BY <1>1, <1>5 DEF Connect, Main, NoStopInStartup, Startup
<1>6. CASE SetRunnable
  BY <1>6, SetRunnableStep DEF Startup
<1>7. CASE StartThread
  BY <1>1, <1>7, StartThreadStep DEF NoStopInStartup, Startup
<1>8. CASE TestRunnable \/ SelectFails \/ LockQueue \/ UnlockQueue \/ ClientActs
  BY <1>8 DEF TestRunnable, SelectFails, LockQueue, UnlockQueue, ClientActs, Main, Startup
<1>9. CASE Return
  BY <1>9 DEF Return, Main, AtReturn, Startup
<1>10. ASSUME NEW w \in Workers, Loop(w)
       PROVE  OneHandler' /\ StopsInOrder'
  BY <1>10 DEF Loop, Work
<1>11. CASE LockMutex \/ UnlockMutex \/ Send
  BY <1>11 DEF LockMutex, UnlockMutex, Send, Work
<1>12. CASE Get
  BY <1>1, <1>12 DEF Get, Work, JoinedBeforeDelete
<1>13. ASSUME NEW t \in Threads, Signal(t)
       PROVE  OneHandler' /\ StopsInOrder'
  <2>1. signals = 0 /\ pc \notin Startup /\ process = "running"
    BY <1>2, <1>13, LifecycleAssumption DEF Signal, SignalsWhenServing, SignalledOnce
  <2>2. t = "main"
    BY <1>13, <2>1 DEF Signal, Threads
  <2>3. pc # "construct"
    BY <2>1 DEF Startup
  <2>4. stop' = [stop EXCEPT !["main"] = "flags"]
    BY <1>13, <2>2, <2>3 DEF Signal
  <2> QED
    BY <1>1, <1>13, <2>1, <2>3, <2>4 DEF Signal, TypeOK, Workers
<1>14. ASSUME NEW t \in Threads, stop[t] # "none"
       PROVE  t = "main"
  BY <1>14 DEF Threads
<1>15. ASSUME NEW t \in Threads, StopFlags(t)
       PROVE  OneHandler' /\ StopsInOrder'
  BY <1>1, <1>14, <1>15 DEF StopFlags, Handler, TypeOK, Workers
<1>16. ASSUME NEW t \in Threads, Join(t, "redis", "join_redis", "delete")
       PROVE  OneHandler' /\ StopsInOrder'
  BY <1>1, <1>14, <1>16 DEF Join, Handler, TypeOK, Workers
<1>17. ASSUME NEW t \in Threads, Join(t, "packet", "join_packet", "sockets")
       PROVE  OneHandler' /\ StopsInOrder'
  BY <1>1, <1>14, <1>17 DEF Join, Handler, TypeOK, Workers
<1>18. ASSUME NEW t \in Threads, DeleteConn(t)
       PROVE  OneHandler' /\ StopsInOrder'
  BY <1>1, <1>14, <1>18 DEF DeleteConn, Handler, AfterDelete, TypeOK, Workers
<1>19. ASSUME NEW t \in Threads, End(t)
       PROVE  OneHandler' /\ StopsInOrder'
  BY <1>1, <1>14, <1>19 DEF End, Handler, TypeOK, Workers
<1>20. CASE UNCHANGED vars
  BY <1>20 DEF vars
<1> HIDE DEF StopInv, OneHandler, StopsInOrder
<1> QED
  BY <1>3, <1>4, <1>5, <1>6, <1>7, <1>8, <1>9, <1>10, <1>11, <1>12, <1>13, <1>15, <1>16, <1>17,
     <1>18, <1>19, <1>20
     DEF Next, MainThread, PacketThread, RedisThread, Stop, Workers

\* A single SIGINT after the startup stops the process in order: each thread is joined
\* once, conn_ is deleted once and not used then, and main() returns with nothing left
\* to join, at whichever step of main() it arrives.
THEOREM OneSignalStopsInOrder ==
  ASSUME SignalsWhenServing, SignalledOnce
  PROVE  Spec => []StopsInOrder
<1>1. Init => StopInv
  BY ThreadsInit
     DEF Init, StopInv, DeleteInv, OneHandler, StopsInOrder, NoStopInStartup,
         JoinedBeforeDelete, Threads
<1>2. StopInv => StopsInOrder
  BY DEF StopInv
<1> QED
  BY <1>1, <1>2, StopNext, PTL DEF Spec

=============================================================================
