---------------------------- MODULE TcpServerProofs ----------------------------
(***************************************************************************)
(* Proofs about the two threads of TCPServer, for every number of          *)
(* sessions, descriptors and connections: first what holds however they    *)
(* interleave, then what holds while only the network thread closes.       *)
(***************************************************************************)
EXTENDS TcpServer, NaturalExtremes

-----------------------------------------------------------------------------
\* Both threads close, and lose what the other one stores.

\* Where each thread can be, and the session it is at: one that the network thread is
\* closing is not connected, since only that thread connects one.
StepsInv ==
  /\ pc["network"] # "idle" /\ pc["packet"] \in Closing \cup {"idle"}
  /\ \A t \in Threads : pc[t] \in Closing \cup {"receive"} => at[t] \in Sessions
  /\ pc["network"] \in Closing => ~sessions[at["network"]].connected
  /\ pc["network"] \in {"load_set", "set"} =>
       /\ at["network"] \in Sessions /\ sessions[at["network"]].sockfd \in Fds
  /\ pc["network"] = "set" => loaded["network"].fd \in Fds

\* An end that is stored late is still the end of slots that were written.
DequeInv ==
  /\ running => front <= back
  /\ back <= Len(slots)
  /\ \A t \in Threads : loaded[t].end <= Len(slots)

\* A connection waits, or is named by one descriptor, once its client has made it.
KernelInv ==
  /\ \A f \in Fds : sockets[f] # NoConn =>
       /\ client[sockets[f]] # "new" /\ sockets[f] \notin backlog
       /\ \A g \in Fds : sockets[g] = sockets[f] => g = f
  /\ \A c \in backlog : client[c] # "new"

TableInv == TypeOK /\ StepsInv /\ DequeInv /\ KernelInv

\* At the start the deque holds every index.
LEMMA TableInit == Init => TableInv
<1> SUFFICES ASSUME Init PROVE TableInv
  OBVIOUS
<1>1. MAX_CONNECTED_SESSIONS \in Nat /\ MAX_SOCKETS \in Nat
  BY TcpAssumption
<1>2. \A k \in 1 .. MAX_CONNECTED_SESSIONS : k - 1 \in Sessions
  BY <1>1 DEF Sessions
<1>3. AllIndices \in Seq(Sessions) /\ Len(AllIndices) = MAX_CONNECTED_SESSIONS
  BY <1>1, <1>2 DEF AllIndices
<1>4. TypeOK
  BY <1>1, <1>3 DEF Init, TypeOK, Threads
<1>5. StepsInv
  BY DEF Init, StepsInv, Threads, Closing
<1>6. DequeInv
  BY <1>1, <1>3 DEF Init, DequeInv
<1>7. KernelInv
  BY DEF Init, KernelInv
<1> QED
  BY <1>4, <1>5, <1>6, <1>7 DEF TableInv

\* accept() takes a free descriptor.
LEMMA AcceptedIsFree ==
  ASSUME AcceptedFd # NoFd
  PROVE  AcceptedFd \in Fds /\ sockets[AcceptedFd] = NoConn
<1> DEFINE free == {f \in Fds : sockets[f] = NoConn}
<1>1. free # {} /\ free \in SUBSET Nat
  BY TcpAssumption DEF AcceptedFd, Fds
<1>2. \E f \in free : \A g \in free : f <= g
  <2> HIDE DEF free
  <2> QED
    BY <1>1, LeastOf
<1>3. AcceptedFd = CHOOSE f \in free : \A g \in free : f <= g
  BY <1>1 DEF AcceptedFd
<1> QED
  BY <1>2, <1>3

\* The scan comes to the next session that is served.
LEMMA ScanStep ==
  ASSUME Scan
  PROVE  /\ pc["network"] = "scan" /\ running
         /\ \/ pc' = [pc EXCEPT !["network"] = "select"] /\ at' = [at EXCEPT !["network"] = 0]
            \/ \E k \in Sessions :
                 /\ pc' = [pc EXCEPT !["network"] = "receive"]
                 /\ at' = [at EXCEPT !["network"] = k]
                 /\ k >= at["network"] /\ Served(k)
         /\ UNCHANGED <<table, fdsets, outside, queue, loaded, running>>
<1> DEFINE rest == {i \in Sessions : i >= at["network"] /\ Served(i)}
<1>1. CASE rest = {}
  BY <1>1 DEF Scan, Goto
<1>2. CASE rest # {}
  <2>1. rest \in SUBSET Nat
    BY TcpAssumption DEF Sessions
  <2>2. \E i \in rest : \A j \in rest : i <= j
    <3> HIDE DEF rest
    <3> QED
      BY <1>2, <2>1, LeastOf
  <2>3. PICK k \in rest : k = CHOOSE i \in rest : \A j \in rest : i <= j
    BY <2>2
  <2> QED
    BY <1>2, <2>3 DEF Scan, Goto
<1> QED
  BY <1>1, <1>2

\* Where a load comes from, and what it finds.
LEMMA LoadStep ==
  ASSUME NEW t \in Threads, Load(t)
  PROVE  /\ \/ pc[t] = "load_set" /\ pc' = [pc EXCEPT ![t] = "set"]
            \/ pc[t] = "load_clr" /\ pc' = [pc EXCEPT ![t] = "clr"]
            \/ pc[t] = "load_end" /\ pc' = [pc EXCEPT ![t] = "push"]
         /\ loaded' = [loaded EXCEPT ![t] =
                         [fd |-> sessions[at[t]].sockfd, fds |-> read_fds, end |-> back]]
         /\ running
         /\ UNCHANGED <<table, fdsets, outside, queue, at, running>>
<1>1. PICK s \in {<<"load_set", "set">>, <<"load_clr", "clr">>, <<"load_end", "push">>} :
        Goto(t, s[1], s[2])
  BY DEF Load
<1>2. CASE s = <<"load_set", "set">>
  BY <1>1, <1>2 DEF Load, Goto
<1>3. CASE s = <<"load_clr", "clr">>
  BY <1>1, <1>3 DEF Load, Goto
<1>4. CASE s = <<"load_end", "push">>
  BY <1>1, <1>4 DEF Load, Goto
<1> QED
  BY <1>1, <1>2, <1>3, <1>4

-----------------------------------------------------------------------------
\* TableInv is inductive. The steps of a close, by either thread ...
LEMMA StartCloseStep ==
  ASSUME TableInv, NEW t \in Threads, NEW from, NEW i \in Sessions,
         StartClose(t, from, i)
  PROVE  TableInv'
<1> USE DEF TableInv
<1>1. TypeOK'
  <2>1. events' \in Seq([id : {"SYS_ACCEPT", "SYS_CLOSE"}, index : Sessions])
    BY DEF StartClose, TypeOK
  <2>2. /\ sessions' \in [Sessions -> [connected : BOOLEAN, sockfd : Fds \cup {NoFd}]]
        /\ \A k \in Sessions : sessions'[k].connected => sessions'[k].sockfd \in Fds
    <3>1. /\ sessions \in [Sessions -> [connected : BOOLEAN, sockfd : Fds \cup {NoFd}]]
          /\ \A k \in Sessions : sessions[k].connected => sessions[k].sockfd \in Fds
          /\ sessions' = [sessions EXCEPT ![i].connected = FALSE]
      BY DEF StartClose, TypeOK
    <3>2. sessions[i] \in [connected : BOOLEAN, sockfd : Fds \cup {NoFd}]
      BY <3>1
    <3>3. [sessions[i] EXCEPT !.connected = FALSE]
            \in [connected : BOOLEAN, sockfd : Fds \cup {NoFd}]
      BY <3>2
    <3>4. sessions' = [sessions EXCEPT ![i] = [sessions[i] EXCEPT !.connected = FALSE]]
      BY <3>1
    <3>5. \A k \in Sessions : sessions'[k].connected => k # i /\ sessions'[k] = sessions[k]
      BY <3>1, <3>2
    <3>6. sessions' \in [Sessions -> [connected : BOOLEAN, sockfd : Fds \cup {NoFd}]]
      BY <3>1, <3>3, <3>4
    <3> QED
      BY <3>1, <3>5, <3>6
  <2>3. at' \in [Threads -> 0 .. MAX_CONNECTED_SESSIONS]
    BY TcpAssumption DEF StartClose, TypeOK, Sessions
  <2> QED
    BY <2>1, <2>2, <2>3 DEF StartClose, Goto, TypeOK, Closing, deque, fdsets, outside
<1>2. StepsInv'
  BY DEF StartClose, Goto, TypeOK, StepsInv, Threads, Closing
<1>3. DequeInv' /\ KernelInv'
  BY DEF StartClose, Goto, DequeInv, KernelInv, deque, fdsets, outside
<1> QED
  BY <1>1, <1>2, <1>3

\* ... its later statements, the last of which may store an end that is out of date ...
LEMMA CloseSessionStep ==
  ASSUME TableInv, NEW t \in Threads, CloseSession(t)
  PROVE  TableInv'
<1> USE DEF TableInv, Threads, table, deque, fdsets, outside, queue
<1>1. CASE ClearBit(t)
  <2>1. TypeOK'
    BY <1>1 DEF ClearBit, Goto, Cleared, TypeOK, Closing
  <2>2. StepsInv'
    BY <1>1 DEF ClearBit, Goto, TypeOK, StepsInv, Closing
  <2> QED
    BY <1>1, <2>1, <2>2 DEF ClearBit, Goto, DequeInv, KernelInv
<1>2. CASE CloseFd(t)
  <2>1. TypeOK'
    BY <1>2 DEF CloseFd, Goto, Closed, TypeOK, Closing
  <2>2. StepsInv'
    BY <1>2 DEF CloseFd, Goto, TypeOK, StepsInv, Closing
  <2>3. KernelInv'
    BY <1>2 DEF CloseFd, Goto, Closed, TypeOK, KernelInv
  <2> QED
    BY <1>2, <2>1, <2>2, <2>3 DEF CloseFd, Goto, DequeInv
<1>3. CASE Push(t)
  <2>1. /\ loaded[t].end \in Nat /\ loaded[t].end <= Len(slots)
        /\ at[t] \in Sessions /\ slots \in Seq(Sessions)
    BY <1>3 DEF Push, Goto, TypeOK, DequeInv, StepsInv, Closing
  <2>2. slots' \in Seq(Sessions) /\ Len(slots') >= Len(slots) /\ loaded[t].end + 1 <= Len(slots')
    BY <1>3, <2>1 DEF Push, Pushed
  <2>3. TypeOK'
    BY <1>3, <2>1, <2>2 DEF Push, Goto, Grown, TypeOK, Closing
  <2>4. StepsInv'
    BY <1>3 DEF Push, Goto, TypeOK, StepsInv, Closing
  <2>5. DequeInv'
    <3>1. Len(slots) \in Nat /\ Len(slots') \in Nat /\ front \in Nat
      BY <2>1, <2>2 DEF TypeOK
    <3>2. \A u \in Threads : loaded[u].end \in Nat /\ loaded[u].end <= Len(slots)
      BY DEF TypeOK, DequeInv
    <3>3. \A u \in Threads : loaded[u].end <= Len(slots')
      BY <2>2, <3>1, <3>2
    <3> QED
      BY <1>3, <2>2, <3>3 DEF Push, Grown, DequeInv
  <2> QED
    BY <1>3, <2>3, <2>4, <2>5 DEF Push, KernelInv
<1> QED
  BY <1>1, <1>2, <1>3 DEF CloseSession

\* ... those of an accept ...
LEMMA AcceptedIndex ==
  ASSUME TableInv, running, Available
  PROVE  /\ front < back /\ front + 1 \in 1 .. Len(slots)
         /\ slots[front + 1] \in Sessions
<1>1. front \in Nat /\ back \in Nat /\ slots \in Seq(Sessions)
  BY DEF TableInv, TypeOK
<1>2. front <= back /\ front # back /\ back <= Len(slots)
  BY DEF TableInv, DequeInv, Available
<1>3. Len(slots) \in Nat
  BY <1>1
<1>4. front < back /\ front + 1 \in 1 .. Len(slots)
  BY <1>1, <1>2, <1>3
<1> QED
  BY <1>1, <1>4

\* The session of that index becomes connected.
LEMMA AcceptStep ==
  ASSUME TableInv, Accept
  PROVE  TableInv'
<1> USE DEF TableInv
<1>1. /\ running /\ Available /\ AcceptedFd # NoFd
      /\ pc["network"] = "accept" /\ pc' = [pc EXCEPT !["network"] = "load_set"]
  BY DEF Accept, Goto, Acceptable
<1>2. front < back /\ slots[front + 1] \in Sessions
  BY <1>1, AcceptedIndex
<1>3. AcceptedFd \in Fds /\ sockets[AcceptedFd] = NoConn
  BY <1>1, AcceptedIsFree
<1>4. PICK c \in backlog : backlog' = backlog \ {c} /\ sockets' = [sockets EXCEPT ![AcceptedFd] = c]
  BY DEF Accept
<1>5. /\ sessions' = [sessions EXCEPT ![slots[front + 1]] = [connected |-> TRUE, sockfd |-> AcceptedFd]]
      /\ front' = front + 1 /\ at' = [at EXCEPT !["network"] = slots[front + 1]]
      /\ UNCHANGED <<slots, back, fdsets, client, queue, loaded, running>>
  BY DEF Accept
<1>6. TypeOK'
  <2>1. /\ sessions' \in [Sessions -> [connected : BOOLEAN, sockfd : Fds \cup {NoFd}]]
        /\ \A k \in Sessions : sessions'[k].connected => sessions'[k].sockfd \in Fds
    <3>1. [connected |-> TRUE, sockfd |-> AcceptedFd] \in [connected : BOOLEAN, sockfd : Fds \cup {NoFd}]
      BY <1>3
    <3> QED
      BY <1>2, <1>3, <1>5, <3>1 DEF TypeOK
  <2>2. at' \in [Threads -> 0 .. MAX_CONNECTED_SESSIONS]
    <3>1. slots[front + 1] \in 0 .. MAX_CONNECTED_SESSIONS
      BY <1>2, TcpAssumption DEF Sessions
    <3> QED
      BY <1>5, <3>1 DEF TypeOK
  <2> QED
    BY <1>1, <1>3, <1>4, <1>5, <2>1, <2>2 DEF TypeOK, fdsets, queue
<1>7. StepsInv'
  BY <1>1, <1>2, <1>3, <1>5 DEF TypeOK, StepsInv, Threads, Closing
<1>8. DequeInv'
  BY <1>2, <1>5 DEF TypeOK, DequeInv
<1>9. KernelInv'
  BY <1>3, <1>4, <1>5 DEF TypeOK, KernelInv
<1> QED
  BY <1>6, <1>7, <1>8, <1>9

\* FD_SET, with the set that was loaded.
LEMMA SetBitStep ==
  ASSUME TableInv, SetBit
  PROVE  TableInv'
<1> USE DEF TableInv
<1>1. events' \in Seq([id : {"SYS_ACCEPT", "SYS_CLOSE"}, index : Sessions])
  BY DEF SetBit, Goto, TypeOK, StepsInv
<1>2. TypeOK'
  BY <1>1 DEF SetBit, Goto, TypeOK, StepsInv, Threads, table, deque, outside
<1> QED
  BY <1>2 DEF SetBit, Goto, StepsInv, DequeInv, KernelInv, Threads, Closing, TypeOK, table, deque,
              outside

\* ... and the others.
LEMMA TableNext == TableInv /\ [Next]_vars => TableInv'
<1> SUFFICES ASSUME TableInv, [Next]_vars
             PROVE  TableInv'
  OBVIOUS
<1> USE DEF TableInv
<1>0. "network" \in Threads /\ "packet" \in Threads
  BY DEF Threads
<1> USE DEF table, deque, fdsets, outside, queue
<1>1. CASE Select
  BY <1>0, <1>1, TcpAssumption
     DEF Select, Goto, TypeOK, StepsInv, DequeInv, KernelInv, Threads, Closing, Sessions
<1>2. CASE Refuse
  BY <1>0, <1>2 DEF Refuse, Goto, TypeOK, StepsInv, DequeInv, KernelInv, Threads, Closing
<1>3. CASE Scan
  <2>1. /\ pc' \in [Threads -> Closing \cup {"select", "accept", "load_set", "set", "scan",
                                            "receive", "idle"}]
        /\ at' \in [Threads -> 0 .. MAX_CONNECTED_SESSIONS]
    <3>1. 0 \in 0 .. MAX_CONNECTED_SESSIONS /\ Sessions \subseteq 0 .. MAX_CONNECTED_SESSIONS
      BY TcpAssumption DEF Sessions
    <3>2. CASE pc' = [pc EXCEPT !["network"] = "select"] /\ at' = [at EXCEPT !["network"] = 0]
      BY <3>1, <3>2 DEF TypeOK
    <3>3. ASSUME NEW k \in Sessions,
                 pc' = [pc EXCEPT !["network"] = "receive"], at' = [at EXCEPT !["network"] = k]
          PROVE  /\ pc' \in [Threads -> Closing \cup {"select", "accept", "load_set", "set",
                                                       "scan", "receive", "idle"}]
                 /\ at' \in [Threads -> 0 .. MAX_CONNECTED_SESSIONS]
      <4>1. k \in 0 .. MAX_CONNECTED_SESSIONS
        BY <3>1
      <4> QED
        BY <3>3, <4>1 DEF TypeOK
    <3> QED
      BY <1>3, <3>2, <3>3, ScanStep
  <2>2. TypeOK'
    BY <1>3, <2>1, ScanStep DEF TypeOK
  <2>3. StepsInv'
    BY <1>0, <1>3, ScanStep DEF TypeOK, StepsInv, Threads, Closing
  <2> QED
    BY <1>3, <2>2, <2>3, ScanStep DEF DequeInv, KernelInv
<1>4. CASE ReceiveData
  <2>1. /\ pc["network"] = "receive" /\ pc' = [pc EXCEPT !["network"] = "scan"]
        /\ at' = [at EXCEPT !["network"] = @ + 1] /\ at["network"] \in Sessions
    BY <1>0, <1>4 DEF ReceiveData, Goto, AfterReceive, StepsInv
  <2>2. at["network"] + 1 \in 0 .. MAX_CONNECTED_SESSIONS
    BY <2>1, TcpAssumption DEF Sessions
  <2>3. TypeOK'
    BY <1>0, <1>4, <2>1, <2>2 DEF ReceiveData, TypeOK
  <2>4. StepsInv'
    BY <1>0, <1>4, <2>1 DEF ReceiveData, TypeOK, StepsInv, Threads, Closing
  <2>5. KernelInv'
    BY <1>4 DEF ReceiveData, TypeOK, KernelInv
  <2> QED
    BY <1>4, <2>3, <2>4, <2>5 DEF ReceiveData, DequeInv
<1>5. CASE ReceiveClose
  <2>1. at["network"] \in Sessions
    BY <1>0, <1>5 DEF ReceiveClose, StepsInv
  <2> QED
    BY <1>0, <1>5, <2>1, StartCloseStep DEF ReceiveClose
<1>6. ASSUME NEW t \in Threads, Load(t)
      PROVE  TableInv'
  <2>1. [fd |-> sessions[at[t]].sockfd, fds |-> read_fds, end |-> back]
          \in [fd : Fds \cup {NoFd}, fds : SUBSET Fds, end : Nat]
    BY <1>0, <1>6, LoadStep DEF TypeOK, StepsInv, Closing, Threads
  <2>2. TypeOK'
    <3>1. loaded' \in [Threads -> [fd : Fds \cup {NoFd}, fds : SUBSET Fds, end : Nat]]
      BY <1>6, <2>1, LoadStep DEF TypeOK
    <3>2. pc' \in [Threads -> Closing \cup {"select", "accept", "load_set", "set", "scan",
                                            "receive", "idle"}]
      BY <1>6, LoadStep DEF TypeOK, Closing
    <3> QED
      BY <1>6, <3>1, <3>2, LoadStep DEF TypeOK
  <2>3. StepsInv'
    BY <1>6, <2>1, LoadStep DEF TypeOK, StepsInv, Closing, Threads
  <2>4. DequeInv'
    <3>1. \A u \in Threads : loaded'[u].end = back \/ loaded'[u].end = loaded[u].end
      <4>1. loaded \in [Threads -> [fd : Fds \cup {NoFd}, fds : SUBSET Fds, end : Nat]]
        BY DEF TypeOK
      <4>2. \A u \in Threads :
              loaded'[u] = IF u = t THEN [fd |-> sessions[at[t]].sockfd, fds |-> read_fds, end |-> back]
                                    ELSE loaded[u]
        BY <1>6, <4>1, LoadStep
      <4> QED
        BY <4>2
    <3> QED
      BY <1>6, <3>1, LoadStep DEF TypeOK, DequeInv
  <2> QED
    BY <1>6, <2>2, <2>3, <2>4, LoadStep DEF KernelInv
<1>7. ASSUME NEW t \in Threads, CloseSession(t)
      PROVE  TableInv'
  BY <1>7, CloseSessionStep
<1>8. CASE TakeEvent
  <2>1. events' \in Seq([id : {"SYS_ACCEPT", "SYS_CLOSE"}, index : Sessions])
    BY <1>8 DEF TakeEvent, TypeOK
  <2>2. Head(events).index \in Sessions
    <3>1. events \in Seq([id : {"SYS_ACCEPT", "SYS_CLOSE"}, index : Sessions]) /\ events # <<>>
      BY <1>8 DEF TakeEvent, TypeOK
    <3>2. Head(events) \in [id : {"SYS_ACCEPT", "SYS_CLOSE"}, index : Sessions]
      <4> DEFINE Event == [id : {"SYS_ACCEPT", "SYS_CLOSE"}, index : Sessions]
      <4>1. events \in Seq(Event) /\ events # <<>>
        BY <3>1
      <4> HIDE DEF Event
      <4>2. Head(events) \in Event
        BY <4>1
      <4> QED
        BY <4>2 DEF Event
    <3> QED
      BY <3>2
  <2>3. users' \in SUBSET Sessions /\ running' \in BOOLEAN
    BY <1>8, <2>2 DEF TakeEvent, TypeOK
  <2> QED
    BY <1>0, <1>8, <2>1, <2>3
       DEF TakeEvent, Goto, TypeOK, StepsInv, DequeInv, KernelInv, Threads, Closing
<1>9. CASE SendFails
  BY <1>0, <1>9, StartCloseStep DEF SendFails
<1>10. CASE Clients
  BY <1>10
     DEF Clients, Connect, Write, Leave, TypeOK, StepsInv, DequeInv, KernelInv
<1>11. CASE UNCHANGED vars
  BY <1>11 DEF vars, TypeOK, StepsInv, DequeInv, KernelInv
<1> QED
  BY <1>0, <1>1, <1>2, <1>3, <1>4, <1>5, <1>6, <1>7, <1>8, <1>9, <1>10, <1>11, AcceptStep,
     SetBitStep
     DEF Next, NetworkThread, PacketThread

\* However the threads interleave, the invariant of the table, the deque and the kernel
\* holds.
THEOREM TableInvariant == Spec => []TableInv
BY TableInit, TableNext, PTL DEF Spec

\* Every variable keeps its type, whatever the threads lose of each other's stores: a
\* connected session names a descriptor, and the deque hands out indices of sessions.
THEOREM TcpServerTypes == Spec => []TypeOK
<1>1. TableInv => TypeOK
  BY DEF TableInv
<1> QED
  BY <1>1, TableInvariant, PTL

-----------------------------------------------------------------------------
\* Only the network thread closes: no send fails.

OneCloser == MaxCloses = 0

IsClosing(i) == pc["network"] \in Closing /\ at["network"] = i

Free == front + 1 .. back

\* Every session is connected, or is being closed, or has its index in the deque, once.
IndexInv ==
  /\ pc["packet"] = "idle" /\ MAX_CONNECTED_SESSIONS <= Len(slots)
  /\ back = Len(slots)
  /\ pc["network"] = "push" => loaded["network"].end = back
  /\ pc["network"] = "receive" => sessions[at["network"]].connected
  /\ \A k, l \in Free : slots[k] = slots[l] => k = l
  /\ \A k \in Free : ~sessions[slots[k]].connected /\ ~IsClosing(slots[k])
  /\ \A i \in Sessions :
       sessions[i].connected \/ IsClosing(i) \/ \E k \in Free : slots[k] = i

\* At the start every index is in the deque.
LEMMA IndexInit == Init => IndexInv
<1> SUFFICES ASSUME Init PROVE IndexInv
  OBVIOUS
<1>1. MAX_CONNECTED_SESSIONS \in Nat
  BY TcpAssumption
<1>2. /\ Len(AllIndices) = MAX_CONNECTED_SESSIONS
      /\ \A k \in 1 .. MAX_CONNECTED_SESSIONS : AllIndices[k] = k - 1 /\ k - 1 \in Sessions
  BY <1>1 DEF AllIndices, Sessions
<1>3. Free = 1 .. MAX_CONNECTED_SESSIONS
  BY <1>1 DEF Init, Free
<1>4. \A i \in Sessions : i + 1 \in 1 .. MAX_CONNECTED_SESSIONS /\ AllIndices[i + 1] = i
  BY <1>1, <1>2 DEF Sessions
<1>5. \A i \in Sessions : \E k \in Free : slots[k] = i
  BY <1>3, <1>4 DEF Init
<1>6. \A k, l \in Free : slots[k] = slots[l] => k = l
  BY <1>2, <1>3 DEF Init
<1>7. \A k \in Free : ~sessions[slots[k]].connected /\ ~IsClosing(slots[k])
  BY <1>2, <1>3 DEF Init, IsClosing, Closing
<1>8. /\ pc["packet"] = "idle" /\ MAX_CONNECTED_SESSIONS <= Len(slots) /\ back = Len(slots)
      /\ pc["network"] = "select"
  BY <1>1, <1>2 DEF Init
<1> QED
  BY <1>5, <1>6, <1>7, <1>8 DEF IndexInv

\* The deque holds indices of sessions.
LEMMA FreeSlots ==
  ASSUME TableInv
  PROVE  Free \subseteq 1 .. Len(slots) /\ \A k \in Free : slots[k] \in Sessions
<1>1. front \in Nat /\ back \in Nat /\ slots \in Seq(Sessions) /\ back <= Len(slots)
  BY DEF TableInv, TypeOK, DequeInv
<1>2. Free \subseteq 1 .. Len(slots)
  BY <1>1 DEF Free
<1> QED
  BY <1>1, <1>2

\* The packet thread never closes a session.
LEMMA NoSendFails ==
  ASSUME OneCloser, TableInv, IndexInv
  PROVE  ~SendFails /\ ~Load("packet") /\ ~CloseSession("packet")
<1>1. Len(slots) \in Nat /\ MAX_CONNECTED_SESSIONS \in Nat
  BY TcpAssumption DEF TableInv, TypeOK
<1>2. ~SendFails
  BY <1>1 DEF SendFails, OneCloser, IndexInv
<1>3. pc["packet"] = "idle" /\ "packet" \in Threads
  BY DEF IndexInv, Threads
<1>4. ~Load("packet")
  BY <1>3, LoadStep
<1> QED
  BY <1>2, <1>3, <1>4 DEF CloseSession, ClearBit, CloseFd, Push, Goto

\* An accept takes the first index out of the deque, ...
LEMMA AcceptIndex ==
  ASSUME TableInv, IndexInv, Accept
  PROVE  IndexInv'
<1> DEFINE i == slots[front + 1]
<1>1. /\ running /\ Available
      /\ pc["network"] = "accept" /\ pc' = [pc EXCEPT !["network"] = "load_set"]
      /\ sessions' = [sessions EXCEPT ![i] = [connected |-> TRUE, sockfd |-> AcceptedFd]]
      /\ front' = front + 1 /\ UNCHANGED <<slots, back, loaded>>
  BY DEF Accept, Goto, Acceptable
<1>2. front < back /\ i \in Sessions /\ front \in Nat /\ back \in Nat
  BY <1>1, AcceptedIndex DEF TableInv, TypeOK
<1>3. Free' = Free \ {front + 1} /\ front + 1 \in Free /\ Free' \subseteq Free
  BY <1>1, <1>2 DEF Free
<1>4. pc'["network"] = "load_set" /\ pc'["packet"] = "idle"
  BY <1>1 DEF TableInv, TypeOK, IndexInv, Threads
<1>5. ~IsClosing(i)' /\ \A k \in Sessions : ~IsClosing(k) /\ ~IsClosing(k)'
  BY <1>1, <1>4 DEF IsClosing, Closing
<1>6. \A k \in Free' : slots[k] # i
  BY <1>3 DEF IndexInv
<1>7. /\ \A k \in Sessions \ {i} : sessions'[k] = sessions[k]
      /\ sessions'[i].connected
  BY <1>1, <1>2 DEF TableInv, TypeOK
<1>8. \A k \in Free' : slots[k] \in Sessions
  BY <1>3, FreeSlots
<1>9. \A k \in Free' : ~sessions'[slots'[k]].connected /\ ~IsClosing(slots[k])'
  BY <1>1, <1>3, <1>5, <1>6, <1>7, <1>8 DEF IndexInv
<1>10. \A j \in Sessions : sessions'[j].connected \/ \E k \in Free' : slots'[k] = j
  BY <1>1, <1>3, <1>5, <1>7 DEF IndexInv
<1> QED
  BY <1>1, <1>3, <1>4, <1>9, <1>10 DEF IndexInv

\* ... the start of a close makes a connected session one that is being closed, ...
LEMMA ReceiveCloseIndex ==
  ASSUME TableInv, IndexInv, ReceiveClose
  PROVE  IndexInv'
<1> DEFINE i == at["network"]
<1>1. /\ pc["network"] = "receive" /\ pc' = [pc EXCEPT !["network"] = "load_clr"]
      /\ sessions' = [sessions EXCEPT ![i].connected = FALSE]
      /\ at' = [at EXCEPT !["network"] = i]
      /\ UNCHANGED <<deque, loaded>>
  BY DEF ReceiveClose, StartClose, Goto
<1>2. i \in Sessions /\ sessions[i].connected
  BY <1>1 DEF TableInv, StepsInv, IndexInv, Threads
<1>3. pc'["network"] = "load_clr" /\ pc'["packet"] = "idle" /\ at'["network"] = i
  BY <1>1 DEF TableInv, TypeOK, IndexInv, Threads
<1>4. \A k \in Sessions : IsClosing(k)' <=> k = i
  BY <1>3 DEF IsClosing, Closing
<1>5. \A k \in Sessions : ~IsClosing(k)
  BY <1>1 DEF IsClosing, Closing
<1>6. \A k \in Sessions : sessions'[k].connected <=> sessions[k].connected /\ k # i
  <2>1. sessions \in [Sessions -> [connected : BOOLEAN, sockfd : Fds \cup {NoFd}]]
    BY DEF TableInv, TypeOK
  <2> QED
    BY <1>1, <1>2, <2>1
<1>7. Free' = Free /\ slots' = slots /\ \A k \in Free : slots[k] \in Sessions
  BY <1>1, FreeSlots DEF Free, deque
<1>8. \A k \in Free : slots[k] # i
  BY <1>2 DEF IndexInv
<1>9. \A k \in Free : ~sessions'[slots[k]].connected /\ ~IsClosing(slots[k])'
  <2> HIDE DEF i
  <2> QED
    BY <1>4, <1>6, <1>7, <1>8 DEF IndexInv
<1>10. \A j \in Sessions :
         sessions'[j].connected \/ IsClosing(j)' \/ \E k \in Free : slots[k] = j
  BY <1>4, <1>5, <1>6 DEF IndexInv
<1> QED
  BY <1>1, <1>3, <1>7, <1>9, <1>10 DEF IndexInv, deque

\* ... and its end puts the index behind the others.
LEMMA PushIndex ==
  ASSUME TableInv, IndexInv, Push("network")
  PROVE  IndexInv'
<1> DEFINE i == at["network"]
<1>1. /\ pc["network"] = "push" /\ pc' = [pc EXCEPT !["network"] = "scan"]
      /\ UNCHANGED <<sessions, front, at, loaded>>
      /\ slots' = Pushed("network") /\ back' = loaded["network"].end + 1
  BY DEF Push, Goto, Grown
<1>2. i \in Sessions /\ IsClosing(i)
  BY <1>1 DEF TableInv, StepsInv, Threads, Closing, IsClosing
<1>3. back \in Nat /\ front \in Nat /\ slots \in Seq(Sessions) /\ front <= back /\ back = Len(slots)
  BY DEF TableInv, TypeOK, DequeInv, IndexInv, Push, Goto
<1>4. loaded["network"].end = back
  BY <1>1 DEF IndexInv
<1>5. slots' = Append(slots, i)
  BY <1>1, <1>3, <1>4 DEF Pushed
<1>6. /\ back' = back + 1 /\ Len(slots') = back' /\ slots'[back + 1] = i
      /\ \A k \in 1 .. back : slots'[k] = slots[k]
  BY <1>1, <1>3, <1>4, <1>5
<1>7. Free' = Free \cup {back + 1} /\ Free \subseteq 1 .. back /\ back + 1 \notin Free
  BY <1>1, <1>3, <1>6 DEF Free
<1>8. \A k \in Free : slots'[k] = slots[k] /\ slots[k] # i
  BY <1>2, <1>6, <1>7 DEF IndexInv
<1>9. pc'["network"] = "scan" /\ pc'["packet"] = "idle"
  BY <1>1 DEF TableInv, TypeOK, IndexInv, Threads
<1>10. \A j \in Sessions : ~IsClosing(j)' /\ (IsClosing(j) <=> j = i)
  BY <1>1, <1>9 DEF IsClosing, Closing
<1>11. ~sessions[i].connected
  BY <1>1 DEF TableInv, StepsInv, Closing
<1>12. \A k, l \in Free' : slots'[k] = slots'[l] => k = l
  <2>1. \A k, l \in Free : slots[k] = slots[l] => k = l
    BY DEF IndexInv
  <2>2. ASSUME NEW k \in Free, NEW l \in Free, slots'[k] = slots'[l]
        PROVE  k = l
    BY <1>8, <2>1, <2>2
  <2>3. \A k \in Free : slots'[k] # slots'[back + 1]
    BY <1>6, <1>8
  <2> HIDE DEF i
  <2> QED
    BY <1>7, <2>2, <2>3
<1>13. \A k \in Free' : slots'[k] \in Sessions /\ ~sessions[slots'[k]].connected
  BY <1>2, <1>6, <1>7, <1>8, <1>11, FreeSlots DEF IndexInv
<1>14. \A j \in Sessions : sessions[j].connected \/ \E k \in Free' : slots'[k] = j
  BY <1>6, <1>7, <1>8, <1>10 DEF IndexInv
<1>15. MAX_CONNECTED_SESSIONS <= Len(slots')
  BY <1>3, <1>6, TcpAssumption DEF IndexInv
<1> QED
  BY <1>1, <1>6, <1>9, <1>10, <1>12, <1>13, <1>14, <1>15 DEF IndexInv

\* The steps that leave the table and the deque alone and start or end no close.
LEMMA IndexUnchanged ==
  ASSUME TableInv, IndexInv, UNCHANGED <<sessions, slots, front, back>>,
         pc'["packet"] = "idle", pc["network"] \notin Closing, pc'["network"] \notin Closing,
         pc'["network"] = "receive" => sessions[at'["network"]].connected
  PROVE  IndexInv'
<1>1. Free' = Free
  BY DEF Free
<1>2. \A i \in Sessions : ~IsClosing(i) /\ ~IsClosing(i)'
  BY DEF IsClosing
<1>3. \A k \in Free : slots[k] \in Sessions
  BY FreeSlots
<1>4. pc'["network"] # "push"
  BY DEF Closing
<1> QED
  BY <1>1, <1>2, <1>3, <1>4 DEF IndexInv

\* So do the middle steps of a close.
LEMMA IndexClosing ==
  ASSUME TableInv, IndexInv, UNCHANGED <<sessions, slots, front, back, at>>,
         pc'["packet"] = "idle", pc["network"] \in Closing, pc'["network"] \in Closing,
         pc'["network"] = "push" => loaded'["network"].end = back
  PROVE  IndexInv'
<1>1. Free' = Free
  BY DEF Free
<1>2. \A i \in Sessions : IsClosing(i) <=> IsClosing(i)'
  BY DEF IsClosing
<1>3. \A k \in Free : slots[k] \in Sessions
  BY FreeSlots
<1>4. pc'["network"] # "receive"
  BY DEF Closing
<1> QED
  BY <1>1, <1>2, <1>3, <1>4 DEF IndexInv

\* IndexInv is inductive.
LEMMA IndexNext ==
  ASSUME OneCloser
  PROVE  TableInv /\ IndexInv /\ [Next]_vars => IndexInv'
<1> SUFFICES ASSUME TableInv, IndexInv, [Next]_vars
             PROVE  IndexInv'
  OBVIOUS
<1>0. /\ pc["packet"] = "idle" /\ "network" \in Threads /\ "packet" \in Threads
      /\ DOMAIN pc = Threads /\ DOMAIN at = Threads /\ DOMAIN loaded = Threads
  BY DEF IndexInv, Threads, TableInv, TypeOK
<1> USE DEF table, deque
<1>1. CASE Select
  BY <1>0, <1>1, IndexUnchanged DEF Select, Goto, Closing
<1>2. CASE Refuse
  BY <1>0, <1>2, IndexUnchanged DEF Refuse, Goto, Closing
<1>3. CASE SetBit
  BY <1>0, <1>3, IndexUnchanged DEF SetBit, Goto, Closing
<1>4. CASE Scan
  <2>1. pc'["packet"] = "idle" /\ pc'["network"] \in {"select", "receive"}
    BY <1>0, <1>4, ScanStep
  <2>2. pc'["network"] = "receive" => sessions[at'["network"]].connected
    BY <1>0, <1>4, ScanStep DEF Served
  <2> QED
    BY <1>4, <2>1, <2>2, ScanStep, IndexUnchanged DEF Closing
<1>5. CASE ReceiveData
  BY <1>0, <1>5, IndexUnchanged DEF ReceiveData, Goto, AfterReceive, Closing
<1>6. CASE Load("network")
  <2>1. CASE pc["network"] = "load_set"
    BY <1>0, <1>6, <2>1, LoadStep, IndexUnchanged DEF Closing
  <2>2. CASE pc["network"] # "load_set"
    BY <1>0, <1>6, <2>2, LoadStep, IndexClosing DEF Closing
  <2> QED
    BY <2>1, <2>2
<1>7. CASE ClearBit("network")
  BY <1>0, <1>7, IndexClosing DEF ClearBit, Goto, Closing
<1>8. CASE CloseFd("network")
  BY <1>0, <1>8, IndexClosing DEF CloseFd, Goto, Closing
<1>9. CASE TakeEvent
  <2>1. pc' = pc
    <3>1. pc \in [Threads -> Closing \cup {"select", "accept", "load_set", "set", "scan",
                                           "receive", "idle"}]
      BY DEF TableInv, TypeOK
    <3> QED
      BY <1>0, <1>9, <3>1 DEF TakeEvent, Goto
  <2> QED
    BY <1>9, <2>1 DEF TakeEvent, IndexInv, Free, IsClosing
<1>10. CASE Clients \/ UNCHANGED vars
  BY <1>10 DEF Clients, vars, IndexInv, Free, IsClosing
<1> QED
  BY <1>1, <1>2, <1>3, <1>4, <1>5, <1>6, <1>7, <1>8, <1>9, <1>10, NoSendFails, AcceptIndex,
     ReceiveCloseIndex, PushIndex
     DEF Next, NetworkThread, PacketThread, CloseSession

\* While one thread closes, no index is lost: a connection is refused for
\* want of one only when every session is connected or just being closed.
THEOREM RefusesOnlyWhenFull ==
  ASSUME OneCloser
  PROVE  Spec => []RefusedOnlyWhenFull
<1>1. TableInv /\ IndexInv => RefusedOnlyWhenFull
  <2> SUFFICES ASSUME TableInv, IndexInv, running, ~Available, NEW i \in Sessions
               PROVE  sessions[i].connected \/ \E t \in Threads : pc[t] \in Closing /\ at[t] = i
    BY DEF RefusedOnlyWhenFull
  <2>1. front = back /\ front \in Nat
    BY DEF Available, TableInv, TypeOK
  <2>2. Free = {}
    BY <2>1 DEF Free
  <2> QED
    BY <2>2 DEF IndexInv, IsClosing, Threads
<1> QED
  BY <1>1, IndexInit, IndexNext, TableInvariant, PTL DEF Spec

-----------------------------------------------------------------------------
\* select() and the connected sessions, while one thread closes.

InUse   == {i \in Sessions : sessions[i].connected}
Watched == {sessions[i].sockfd : i \in InUse}
Mine    == sessions[at["network"]].sockfd

\* read_fds_ lacks the descriptor of a session that is being created, and still has that
\* of one that is being closed; what is loaded is what is there.
WatchInv ==
  /\ \A i, j \in InUse : sessions[i].sockfd = sessions[j].sockfd => i = j
  /\ \A i \in InUse : sockets[sessions[i].sockfd] # NoConn
  /\ pc["network"] \in {"load_set", "set"} =>
       at["network"] \in InUse /\ read_fds = Watched \ {Mine}
  /\ pc["network"] \in {"load_clr", "clr"} => read_fds = Watched \cup {Mine}
  /\ pc["network"] \in {"load_clr", "clr", "close"} => Mine \notin Watched
  /\ pc["network"] \notin {"load_set", "set", "load_clr", "clr"} => read_fds = Watched
  /\ pc["network"] \in {"set", "clr"} => loaded["network"].fds = read_fds
  /\ pc["network"] \in {"set", "clr", "close"} => loaded["network"].fd = Mine

\* What the steps that touch none of this keep.
LEMMA WatchUnchanged ==
  ASSUME WatchInv, UNCHANGED <<sessions, sockets, read_fds>>,
         pc["network"] \notin {"load_set", "set", "load_clr", "clr"},
         pc'["network"] \notin {"load_set", "set", "load_clr", "clr", "close"}
  PROVE  WatchInv'
<1>1. InUse' = InUse /\ Watched' = Watched
  BY DEF InUse, Watched
<1> QED
  BY <1>1 DEF WatchInv

\* A descriptor that accept() returns is watched by no session.
LEMMA AcceptWatch ==
  ASSUME TableInv, IndexInv, WatchInv, Accept
  PROVE  WatchInv'
<1> DEFINE i == slots[front + 1]
<1>1. /\ running /\ Available /\ AcceptedFd # NoFd
      /\ pc["network"] = "accept" /\ pc' = [pc EXCEPT !["network"] = "load_set"]
      /\ at' = [at EXCEPT !["network"] = i]
      /\ sessions' = [sessions EXCEPT ![i] = [connected |-> TRUE, sockfd |-> AcceptedFd]]
      /\ UNCHANGED read_fds
  BY DEF Accept, Goto, Acceptable, fdsets
<1>2. i \in Sessions /\ front + 1 \in Free
  BY <1>1, AcceptedIndex DEF Free, TableInv, TypeOK
<1>3. i \notin InUse
  BY <1>2 DEF IndexInv, InUse
<1>4. AcceptedFd \in Fds /\ sockets[AcceptedFd] = NoConn
  BY <1>1, AcceptedIsFree
<1>5. PICK c \in backlog : sockets' = [sockets EXCEPT ![AcceptedFd] = c]
  BY DEF Accept
<1>6. c # NoConn /\ sockets \in [Fds -> Conns \cup {NoConn}]
  BY TcpAssumption DEF TableInv, TypeOK
<1>7. pc'["network"] = "load_set" /\ at'["network"] = i
  BY <1>1 DEF TableInv, TypeOK, Threads
<1>8. /\ sessions'[i].connected /\ sessions'[i].sockfd = AcceptedFd
      /\ \A k \in Sessions \ {i} : sessions'[k] = sessions[k]
  BY <1>1, <1>2 DEF TableInv, TypeOK
<1>9. InUse' = InUse \cup {i}
  BY <1>2, <1>8 DEF InUse
<1>10. \A k \in InUse : /\ sessions'[k] = sessions[k] /\ sessions[k].sockfd \in Fds
                        /\ sessions[k].sockfd # AcceptedFd
  BY <1>3, <1>4, <1>8 DEF InUse, WatchInv, TableInv, TypeOK
<1>11. Watched' = Watched \cup {AcceptedFd} /\ AcceptedFd \notin Watched
  BY <1>8, <1>9, <1>10 DEF Watched
<1>12. \A k \in InUse' : sockets'[sessions'[k].sockfd] # NoConn
  BY <1>4, <1>5, <1>6, <1>8, <1>9, <1>10 DEF WatchInv
<1>13. \A k, l \in InUse' : sessions'[k].sockfd = sessions'[l].sockfd => k = l
  BY <1>8, <1>9, <1>10 DEF WatchInv
<1>14. Mine' = AcceptedFd /\ read_fds' = Watched
  BY <1>1, <1>7, <1>8 DEF Mine, WatchInv
<1> QED
  BY <1>7, <1>9, <1>11, <1>12, <1>13, <1>14 DEF WatchInv

\* The descriptor of a session that is being closed is watched by no other.
LEMMA ReceiveCloseWatch ==
  ASSUME TableInv, IndexInv, WatchInv, ReceiveClose
  PROVE  WatchInv'
<1> DEFINE i == at["network"]
<1>1. /\ pc["network"] = "receive" /\ pc' = [pc EXCEPT !["network"] = "load_clr"]
      /\ sessions' = [sessions EXCEPT ![i].connected = FALSE]
      /\ at' = [at EXCEPT !["network"] = i]
      /\ UNCHANGED <<read_fds, sockets>>
  BY DEF ReceiveClose, StartClose, Goto, fdsets, outside
<1>2. i \in Sessions /\ sessions[i].connected
  BY <1>1 DEF TableInv, StepsInv, IndexInv, Threads
<1>3. pc'["network"] = "load_clr" /\ at'["network"] = i
  BY <1>1 DEF TableInv, TypeOK, Threads
<1>4. \A k \in Sessions : /\ sessions'[k].sockfd = sessions[k].sockfd
                          /\ sessions'[k].connected <=> sessions[k].connected /\ k # i
  <2>1. sessions \in [Sessions -> [connected : BOOLEAN, sockfd : Fds \cup {NoFd}]]
    BY DEF TableInv, TypeOK
  <2> QED
    BY <1>1, <1>2, <2>1
<1>5. InUse' = InUse \ {i} /\ i \in InUse
  BY <1>2, <1>4 DEF InUse
<1>6. \A k \in InUse' : k \in Sessions /\ k \in InUse /\ sessions[k].sockfd # sessions[i].sockfd
  BY <1>5 DEF WatchInv, InUse
<1>7. Watched' = Watched \ {sessions[i].sockfd} /\ sessions[i].sockfd \in Watched
  BY <1>4, <1>5, <1>6 DEF Watched
<1>8. Mine' = sessions[i].sockfd /\ read_fds' = Watched
  BY <1>1, <1>2, <1>3, <1>4 DEF Mine, WatchInv
<1>9. \A k, l \in InUse' : sessions'[k].sockfd = sessions'[l].sockfd => k = l
  BY <1>4, <1>6 DEF WatchInv
<1>10. \A k \in InUse' : sockets'[sessions'[k].sockfd] # NoConn
  BY <1>1, <1>4, <1>6 DEF WatchInv
<1> QED
  BY <1>3, <1>7, <1>8, <1>9, <1>10 DEF WatchInv

\* WatchInv is inductive.
LEMMA WatchNext ==
  ASSUME OneCloser
  PROVE  TableInv /\ IndexInv /\ WatchInv /\ [Next]_vars => WatchInv'
<1> SUFFICES ASSUME TableInv, IndexInv, WatchInv, [Next]_vars
             PROVE  WatchInv'
  OBVIOUS
<1>0. /\ "network" \in Threads
      /\ pc \in [Threads -> Closing \cup {"select", "accept", "load_set", "set", "scan",
                                            "receive", "idle"}]
      /\ DOMAIN loaded = Threads
  BY DEF Threads, TableInv, TypeOK
<1> USE DEF table, fdsets, outside
<1>1. CASE Select
  BY <1>0, <1>1, WatchUnchanged DEF Select, Goto
<1>2. CASE Refuse
  BY <1>0, <1>2, WatchUnchanged DEF Refuse, Goto
<1>3. CASE Scan
  <2>1. pc["network"] = "scan" /\ pc'["network"] \in {"select", "receive"}
    BY <1>0, <1>3, ScanStep
  <2> QED
    BY <1>3, <2>1, ScanStep, WatchUnchanged
<1>4. CASE ReceiveData
  BY <1>0, <1>4, WatchUnchanged DEF ReceiveData, Goto, AfterReceive
<1>5. CASE SetBit
  <2>1. /\ pc["network"] = "set" /\ pc'["network"] = "select"
        /\ read_fds' = loaded["network"].fds \cup {loaded["network"].fd}
        /\ UNCHANGED <<sessions, sockets>>
    BY <1>0, <1>5 DEF SetBit, Goto
  <2>2. InUse' = InUse /\ Watched' = Watched /\ Mine \in Watched
    BY <2>1 DEF InUse, Watched, WatchInv, Mine
  <2>3. read_fds' = Watched
    BY <2>1, <2>2 DEF WatchInv
  <2> QED
    BY <2>1, <2>2, <2>3 DEF WatchInv
<1>6. CASE Load("network")
  <2>1. /\ \/ pc["network"] = "load_set" /\ pc'["network"] = "set"
           \/ pc["network"] = "load_clr" /\ pc'["network"] = "clr"
           \/ pc["network"] = "load_end" /\ pc'["network"] = "push"
        /\ loaded'["network"].fd = Mine /\ loaded'["network"].fds = read_fds
        /\ UNCHANGED <<sessions, sockets, read_fds, at>>
    BY <1>0, <1>6, LoadStep DEF Mine
  <2>2. InUse' = InUse /\ Watched' = Watched /\ Mine' = Mine
    BY <2>1 DEF InUse, Watched, Mine
  <2> QED
    BY <2>1, <2>2 DEF WatchInv
<1>7. CASE ClearBit("network")
  <2>1. /\ pc["network"] = "clr" /\ pc'["network"] = "close"
        /\ read_fds' = loaded["network"].fds \ {loaded["network"].fd}
        /\ UNCHANGED <<sessions, sockets, at, loaded>>
    BY <1>0, <1>7 DEF ClearBit, Goto, Cleared
  <2>2. InUse' = InUse /\ Watched' = Watched /\ Mine' = Mine
    BY <2>1 DEF InUse, Watched, Mine
  <2>3. read_fds' = Watched
    BY <2>1 DEF WatchInv
  <2> QED
    BY <2>1, <2>2, <2>3 DEF WatchInv
<1>8. CASE CloseFd("network")
  <2>1. /\ pc["network"] = "close" /\ pc'["network"] = "load_end"
        /\ sockets' = [sockets EXCEPT ![Mine] = NoConn]
        /\ UNCHANGED <<sessions, read_fds>>
    BY <1>0, <1>8 DEF CloseFd, Goto, Closed, WatchInv
  <2>2. InUse' = InUse /\ Watched' = Watched
    BY <2>1 DEF InUse, Watched
  <2>3. \A i \in InUse : sessions[i].sockfd \in Fds /\ sessions[i].sockfd # Mine
    BY <2>1 DEF WatchInv, Watched, InUse, TableInv, TypeOK
  <2>4. \A i \in InUse : sockets'[sessions[i].sockfd] # NoConn
    BY <2>1, <2>3 DEF WatchInv, TableInv, TypeOK
  <2> QED
    BY <2>1, <2>2, <2>4 DEF WatchInv
<1>9. CASE Push("network")
  BY <1>0, <1>9, WatchUnchanged DEF Push, Goto
<1>10. CASE TakeEvent
  <2>1. pc' = pc
    BY <1>0, <1>10 DEF TakeEvent, Goto, IndexInv
  <2> QED
    BY <1>10, <2>1 DEF TakeEvent, WatchInv, InUse, Watched, Mine
<1>11. CASE Clients \/ UNCHANGED vars
  BY <1>11 DEF Clients, vars, WatchInv, InUse, Watched, Mine
<1> QED
  BY <1>1, <1>2, <1>3, <1>4, <1>5, <1>6, <1>7, <1>8, <1>9, <1>10, <1>11, NoSendFails,
     AcceptWatch, ReceiveCloseWatch
     DEF Next, NetworkThread, PacketThread, CloseSession

\* While one thread closes, select() is given the descriptors of the connected sessions,
\* one each, all of them open, and nothing else.
THEOREM SelectWatchesConnected ==
  ASSUME OneCloser
  PROVE  Spec => []WatchesConnected
<1>1. Init => WatchInv
  BY DEF Init, WatchInv, InUse, Watched
<1>2. TableInv /\ WatchInv => WatchesConnected
  BY DEF WatchInv, WatchesConnected, InUse, Watched, ConnOf, TableInv, TypeOK
<1> QED
  BY <1>1, <1>2, WatchNext, IndexInit, IndexNext, TableInvariant, PTL DEF Spec

-----------------------------------------------------------------------------
\* recv() and what select() said, while one thread closes, or for one session.

Ready(i) == ConnOf(i) # NoConn => client[ConnOf(i)] \in {"sent", "gone"}

Scanning == Closing \cup {"scan", "receive"}

\* The sessions the scan has still to come to can be received from, although sessions
\* and descriptors are closed and clients leave during the scan: no descriptor is given
\* to another connection, and no other session has been served its data.
ReadyInv ==
  /\ pc["network"] \in Scanning =>
       \A i \in Sessions : i >= at["network"] /\ Served(i) => Ready(i)
  /\ pc["network"] = "receive" => Ready(at["network"])

\* The steps that read no data and accept no connection.
LEMMA ReadyKept ==
  ASSUME TableInv, ReadyInv, temp_fds' = temp_fds,
         \A i \in Sessions : /\ sessions'[i].sockfd = sessions[i].sockfd
                             /\ sessions'[i].connected => sessions[i].connected,
         \A f \in Fds : sockets'[f] \in {sockets[f], NoConn},
         \A c \in Conns : client[c] \in {"sent", "gone"} => client'[c] \in {"sent", "gone"},
         at'["network"] = at["network"],
         pc'["network"] \in Scanning => pc["network"] \in Scanning,
         pc'["network"] = "receive" => pc["network"] = "receive"
  PROVE  ReadyInv'
<1>1. ASSUME NEW i \in Sessions, Ready(i)
      PROVE  Ready(i)'
  <2>1. CASE sessions[i].sockfd \in Fds
    <3>1. /\ ConnOf(i) = sockets[sessions[i].sockfd]
          /\ ConnOf(i)' = sockets'[sessions[i].sockfd]
      BY <2>1 DEF ConnOf
    <3>2. ConnOf(i) \in Conns \cup {NoConn} /\ ConnOf(i)' \in {ConnOf(i), NoConn}
      BY <2>1, <3>1 DEF TableInv, TypeOK
    <3> QED
      BY <1>1, <3>2 DEF Ready
  <2>2. CASE sessions[i].sockfd \notin Fds
    BY <2>2 DEF Ready, ConnOf
  <2> QED
    BY <2>1, <2>2
<1>2. \A i \in Sessions : Served(i)' => Served(i)
  BY DEF Served
<1>3. pc["network"] = "receive" => at["network"] \in Sessions
  BY DEF TableInv, StepsInv, Threads
<1> QED
  BY <1>1, <1>2, <1>3 DEF ReadyInv

\* A close by either thread.
LEMMA StartCloseReady ==
  ASSUME TableInv, ReadyInv, NEW t \in Threads, NEW from, NEW i \in Sessions,
         StartClose(t, from, i), t = "network" => i = at["network"] /\ pc["network"] = "receive"
  PROVE  ReadyInv'
<1>1. /\ sessions' = [sessions EXCEPT ![i].connected = FALSE]
      /\ at' = [at EXCEPT ![t] = i] /\ pc' = [pc EXCEPT ![t] = "load_clr"]
      /\ UNCHANGED <<temp_fds, sockets, client>>
  BY DEF StartClose, Goto, fdsets, outside
<1>2. \A k \in Sessions : /\ sessions'[k].sockfd = sessions[k].sockfd
                          /\ sessions'[k].connected => sessions[k].connected
  <2>1. sessions \in [Sessions -> [connected : BOOLEAN, sockfd : Fds \cup {NoFd}]]
    BY DEF TableInv, TypeOK
  <2> QED
    BY <1>1, <2>1
<1>3. at'["network"] = at["network"]
  BY <1>1 DEF TableInv, TypeOK, Threads
<1>4. /\ pc'["network"] \in Scanning => pc["network"] \in Scanning
      /\ pc'["network"] = "receive" => pc["network"] = "receive"
  BY <1>1 DEF TableInv, TypeOK, Threads, Scanning
<1> QED
  BY <1>1, <1>2, <1>3, <1>4, ReadyKept

\* What is received of one session is not taken from another.
LEMMA ReceiveDataReady ==
  ASSUME TableInv, ReadyInv, ReceiveData,
         MAX_CONNECTED_SESSIONS <= 1 \/ (IndexInv /\ WatchInv)
  PROVE  ReadyInv'
<1> DEFINE i == at["network"]
           c == ConnOf(i)
<1>1. /\ pc["network"] = "receive" /\ pc' = [pc EXCEPT !["network"] = "scan"]
      /\ at' = [at EXCEPT !["network"] = i + 1]
      /\ client' = [client EXCEPT ![c] = "quiet"] /\ c # NoConn
      /\ UNCHANGED <<sessions, temp_fds, sockets>>
  BY DEF ReceiveData, Goto, AfterReceive, table, fdsets
<1>2. i \in Sessions /\ pc'["network"] = "scan" /\ at'["network"] = i + 1
  BY <1>1 DEF TableInv, TypeOK, StepsInv, Threads
<1>3. ASSUME NEW k \in Sessions, k >= i + 1, Served(k)
      PROVE  Ready(k)'
  <2>1. k > i /\ k # i
    BY <1>2, <1>3, TcpAssumption DEF Sessions
  <2>2. IndexInv /\ WatchInv
    BY <1>2, <2>1, TcpAssumption DEF Sessions
  <2>3. sessions[k].connected /\ sessions[i].connected
    BY <1>1, <1>3, <2>2 DEF Served, IndexInv
  <2>4. /\ sessions[k].sockfd \in Fds /\ sessions[i].sockfd \in Fds
        /\ sessions[k].sockfd # sessions[i].sockfd
    BY <1>2, <2>1, <2>2, <2>3 DEF TableInv, TypeOK, WatchInv, InUse
  <2>5. ConnOf(k) # c
    BY <1>1, <2>4 DEF ConnOf, TableInv, KernelInv
  <2>6. Ready(k)
    BY <1>1, <1>2, <1>3, <2>1, TcpAssumption DEF ReadyInv, Scanning, Sessions
  <2>7. ConnOf(k)' = ConnOf(k) /\ ConnOf(k) \in Conns \cup {NoConn}
    BY <1>1, <2>4 DEF ConnOf, TableInv, TypeOK
  <2>8. ConnOf(k) # NoConn => client'[ConnOf(k)] = client[ConnOf(k)]
    BY <1>1, <2>5, <2>7 DEF TableInv, TypeOK
  <2> QED
    BY <2>6, <2>7, <2>8 DEF Ready
<1>4. \A k \in Sessions : Served(k)' <=> Served(k)
  BY <1>1 DEF Served
<1> QED
  BY <1>2, <1>3, <1>4 DEF ReadyInv

\* ReadyInv is inductive.
LEMMA ReadyNext ==
  /\ TableInv /\ ReadyInv /\ [Next]_vars
  /\ MAX_CONNECTED_SESSIONS <= 1 \/ (IndexInv /\ WatchInv)
  => ReadyInv'
<1> SUFFICES ASSUME TableInv, ReadyInv, [Next]_vars,
                    MAX_CONNECTED_SESSIONS <= 1 \/ (IndexInv /\ WatchInv)
             PROVE  ReadyInv'
  OBVIOUS
<1>0. /\ "network" \in Threads /\ "packet" \in Threads
      /\ pc \in [Threads -> Closing \cup {"select", "accept", "load_set", "set", "scan",
                                            "receive", "idle"}]
      /\ at \in [Threads -> 0 .. MAX_CONNECTED_SESSIONS]
      /\ sockets \in [Fds -> Conns \cup {NoConn}]
  BY DEF Threads, TableInv, TypeOK
<1> USE DEF table, fdsets, outside
<1>1. CASE Select
  <2>1. /\ pc'["network"] \in {"accept", "scan"}
        /\ temp_fds' = {f \in read_fds : Readable(f)}
        /\ UNCHANGED <<sessions, sockets, client>>
    BY <1>0, <1>1 DEF Select, Goto
  <2>2. ASSUME NEW i \in Sessions, Served(i)'
        PROVE  Ready(i)'
    <3>1. Readable(sessions[i].sockfd) /\ ConnOf(i)' = ConnOf(i)
      BY <2>1, <2>2 DEF Served, ConnOf
    <3> QED
      BY <2>1, <3>1 DEF Readable, Ready, ConnOf
  <2> QED
    BY <2>1, <2>2 DEF ReadyInv
<1>2. CASE Accept \/ Refuse \/ SetBit
  <2>1. pc'["network"] \in {"load_set", "select"}
    BY <1>0, <1>2 DEF Accept, Refuse, SetBit, Goto
  <2> QED
    BY <2>1 DEF ReadyInv, Scanning, Closing
<1>3. CASE Scan
  <2>1. /\ pc["network"] = "scan" /\ UNCHANGED <<sessions, sockets, client, temp_fds>>
        /\ \/ pc'["network"] = "select"
           \/ \E k \in Sessions :
                /\ at'["network"] = k /\ pc'["network"] = "receive"
                /\ k >= at["network"] /\ Served(k)
    BY <1>0, <1>3, ScanStep
  <2>2. CASE pc'["network"] = "select"
    BY <2>2 DEF ReadyInv, Scanning, Closing
  <2>3. ASSUME NEW k \in Sessions, k >= at["network"], Served(k),
               at'["network"] = k, pc'["network"] = "receive"
        PROVE  ReadyInv'
    <3>1. \A i \in Sessions : /\ i >= k => i >= at["network"]
                              /\ Ready(i)' <=> Ready(i)
                              /\ Served(i)' <=> Served(i)
      BY <1>0, <2>1, <2>3, TcpAssumption DEF Ready, Served, ConnOf, Sessions
    <3>2. \A i \in Sessions : i >= at["network"] /\ Served(i) => Ready(i)
      BY <2>1 DEF ReadyInv, Scanning
    <3> QED
      BY <2>3, <3>1, <3>2 DEF ReadyInv
  <2> QED
    BY <2>1, <2>2, <2>3
<1>4. CASE ReceiveClose
  BY <1>0, <1>4, StartCloseReady DEF ReceiveClose, TableInv, StepsInv
<1>5. ASSUME NEW t \in Threads, Load(t)
      PROVE  ReadyInv'
  <2>1. /\ pc'["network"] \in Scanning => pc["network"] \in Scanning
        /\ pc'["network"] = "receive" => pc["network"] = "receive"
    BY <1>0, <1>5, LoadStep DEF Scanning, Closing
  <2> QED
    BY <1>5, <2>1, LoadStep, ReadyKept
<1>6. ASSUME NEW t \in Threads, CloseSession(t)
      PROVE  ReadyInv'
  <2>1. /\ pc'["network"] \in Scanning => pc["network"] \in Scanning
        /\ pc'["network"] = "receive" => pc["network"] = "receive"
    BY <1>0, <1>6 DEF CloseSession, ClearBit, CloseFd, Push, Goto, Scanning, Closing
  <2>2. \A f \in Fds : sockets'[f] \in {sockets[f], NoConn}
    BY <1>0, <1>6 DEF CloseSession, ClearBit, CloseFd, Push, Closed
  <2>3. UNCHANGED <<sessions, temp_fds, client, at>>
    BY <1>6 DEF CloseSession, ClearBit, CloseFd, Push
  <2> QED
    BY <2>1, <2>2, <2>3, ReadyKept
<1>7. CASE TakeEvent
  BY <1>0, <1>7, ReadyKept DEF TakeEvent, Goto
<1>8. CASE SendFails
  <2>1. PICK i \in Sessions : StartClose("packet", "idle", i)
    BY <1>8 DEF SendFails
  <2> QED
    BY <1>0, <2>1, StartCloseReady
<1>9. CASE Clients
  <2>1. \A c \in Conns : client[c] \in {"sent", "gone"} => client'[c] \in {"sent", "gone"}
    BY <1>9 DEF Clients, Connect, Write, Leave, TableInv, TypeOK
  <2> QED
    BY <1>9, <2>1, ReadyKept DEF Clients
<1>10. CASE UNCHANGED vars
  BY <1>10, ReadyKept DEF vars
<1> QED
  BY <1>0, <1>1, <1>2, <1>3, <1>4, <1>5, <1>6, <1>7, <1>8, <1>9, <1>10, ReceiveDataReady
     DEF Next, NetworkThread, PacketThread

\* recv(), on a blocking socket, is called only when it returns at once, if one thread
\* closes sessions, and if two do but there is one session.
THEOREM RecvDoesNotBlock ==
  ASSUME OneCloser \/ MAX_CONNECTED_SESSIONS <= 1
  PROVE  Spec => []RecvNeverBlocks
<1>1. Init => ReadyInv
  BY DEF Init, ReadyInv, Scanning, Closing
<1>2. ReadyInv => RecvNeverBlocks
  BY DEF ReadyInv, RecvNeverBlocks, Ready
<1>3. CASE OneCloser
  <2>1. Init => WatchInv
    BY DEF Init, WatchInv, InUse, Watched
  <2> QED
    BY <1>1, <1>2, <1>3, <2>1, IndexInit, IndexNext, WatchNext, ReadyNext, TableInvariant, PTL
       DEF Spec
<1>4. CASE MAX_CONNECTED_SESSIONS <= 1
  BY <1>1, <1>2, <1>4, ReadyNext, TableInvariant, PTL DEF Spec
<1> QED
  BY <1>3, <1>4
=============================================================================
