------------------------------ MODULE PacketQueue ------------------------------
(***************************************************************************)
(* A std::deque<PacketInfo> between two threads, as res_packet_queue_ and  *)
(* packet_queue_ are: it is locked for push and pop, but empty() is called *)
(* before the lock (in GetRedisResPacket), and the packet is read after    *)
(* it, through a reference to a slot that has been popped.                 *)
(*                                                                         *)
(* The deque is external, as libstdc++ lays it out: nodes of NODE slots;   *)
(* the push that fills a node allocates the next, the pop that empties a   *)
(* node frees it, and a freed node may be the next one allocated.          *)
(***************************************************************************)
EXTENDS Integers, Sequences

CONSTANTS
  NODE,        \* slots of a node: 512 bytes
  MaxAhead,    \* rule: pushes between the pop of a packet and its copy
  MaxPackets   \* bound

ASSUME QueueAssumption == NODE \in Nat \ {0} /\ MaxAhead \in Nat /\ MaxPackets \in Nat

VARIABLES
  nodes,           \* the node at each position of the deque, also those freed
  cells,           \* the memory: the packet in each slot of each node
  pushed, popped,  \* packets 1, 2, ... pushed and popped so far
  ahead,           \* pushes since the last pop
  pc,              \* the consumer: "test", "pop" or "copy"
  ref,             \* the reference it keeps
  handled          \* the packets it has copied

vars == <<nodes, cells, pushed, popped, ahead, pc, ref, handled>>

Nodes == 1 .. MaxPackets + 1
Slots == 0 .. NODE - 1

\* The position and slot of packet k.
Position(k) == (k - 1) \div NODE + 1
Slot(k)     == (k - 1) % NODE
Cell(k)     == <<nodes[Position(k)], Slot(k)>>

\* Nodes in use: from that of the next pop to that of the next push.
Live == {nodes[p] : p \in Position(popped + 1) .. Position(pushed + 1)}

TypeOK ==
  /\ nodes \in Seq(Nodes) /\ Len(nodes) = Position(pushed + 1)
  /\ cells \in [Nodes \X Slots -> Nat]
  /\ popped \in 0 .. pushed /\ pushed \in 0 .. MaxPackets /\ ahead \in 0 .. pushed
  /\ pc \in {"test", "pop", "copy"} /\ ref \in Nodes \X Slots
  /\ handled \in Seq(Nat)

Init ==
  /\ nodes = <<1>>
  /\ cells = [c \in Nodes \X Slots |-> 0]
  /\ pushed = 0 /\ popped = 0 /\ ahead = 0
  /\ pc = "test" /\ ref = <<1, 0>> /\ handled = <<>>

\* The producer: emplace_back under the lock.
Push ==
  /\ pushed < MaxPackets
  /\ pc = "copy" => ahead < MaxAhead
  /\ cells' = [cells EXCEPT ![Cell(pushed + 1)] = pushed + 1]
  /\ pushed' = pushed + 1 /\ ahead' = ahead + 1
  /\ IF Slot(pushed + 2) = 0
     THEN \E n \in Nodes \ Live : nodes' = Append(nodes, n)
     ELSE UNCHANGED nodes
  /\ UNCHANGED <<popped, pc, ref, handled>>

\* The consumer: empty() without the lock ...
IsEmpty_LastKept == pushed <= popped + 1
IsEmpty          == pushed = popped

TestEmpty ==
  /\ pc = "test" /\ ~IsEmpty
  /\ pc' = "pop"
  /\ UNCHANGED <<nodes, cells, pushed, popped, ahead, ref, handled>>

\* ... front() and pop_front() under it ...
Front_Back == Cell(pushed)
Front      == Cell(popped + 1)

Pop ==
  /\ pc = "pop"
  /\ ref' = Front
  /\ popped' = popped + 1 /\ ahead' = 0
  /\ pc' = "copy"
  /\ UNCHANGED <<nodes, cells, pushed, handled>>

\* ... and the copy of what the reference names then.
Copy ==
  /\ pc = "copy"
  /\ handled' = Append(handled, cells[ref])
  /\ pc' = "test"
  /\ UNCHANGED <<nodes, cells, pushed, popped, ahead, ref>>

Next == Push \/ TestEmpty \/ Pop \/ Copy

Spec == Init /\ [][Next]_vars

\* The consumer is the loop of the packet thread.
FairSpec == Spec /\ WF_vars(TestEmpty \/ Pop \/ Copy)

-----------------------------------------------------------------------------
\* The packets are handled in the order in which they were pushed, each once and as it
\* was, although they are read from a slot that is no longer the queue's and may lie in
\* a freed node (packet_manager.cpp:73-85, redis_manager.cpp:56-60).
HandledInOrder == \A k \in 1 .. Len(handled) : handled[k] = k

\* No packet stays behind, although the queue is tested without the lock.
EverythingHandled ==
  \A k \in 1 .. MaxPackets : pushed >= k ~> Len(handled) >= k
=============================================================================
