--------------------------- MODULE PacketQueueProofs ---------------------------
(***************************************************************************)
(* Proofs about the queue between two threads, for nodes of every size and *)
(* any number of packets.                                                  *)
(***************************************************************************)
EXTENDS PacketQueue, SequenceTheorems, TLAPS

\* The producer pushes at most one node's worth of packets between the pop of a packet
\* and its copy.
OneNodeAhead == MaxAhead <= NODE

-----------------------------------------------------------------------------
\* Positions and slots.

\* Packet k is in slot Slot(k) of the node at Position(k), and in no other.
LEMMA SlotOfPacket ==
  ASSUME NEW k \in Nat \ {0}
  PROVE  /\ Position(k) \in Nat \ {0} /\ Slot(k) \in Slots
         /\ k = NODE * (Position(k) - 1) + Slot(k) + 1
<1>1. k - 1 \in Nat
  OBVIOUS
<1>2. /\ (k - 1) \div NODE \in Nat /\ (k - 1) % NODE \in 0 .. NODE - 1
      /\ k - 1 = (NODE * ((k - 1) \div NODE)) + ((k - 1) % NODE)
  BY <1>1, QueueAssumption
<1> QED
  BY <1>2, QueueAssumption DEF Position, Slot, Slots

\* Multiplying by the size of a node keeps the order of positions.
LEMMA NodesApart ==
  ASSUME NEW p \in Int, NEW q \in Int, p < q
  PROVE  NODE * p + NODE <= NODE * q
BY QueueAssumption

\* Positions follow the order of packets.
LEMMA PositionMonotone ==
  ASSUME NEW j \in Nat \ {0}, NEW k \in Nat \ {0}, j <= k
  PROVE  Position(j) <= Position(k)
<1> SUFFICES ASSUME Position(k) < Position(j) PROVE FALSE
  BY SlotOfPacket
<1> DEFINE p == Position(j) - 1
           q == Position(k) - 1
<1>1. /\ j = NODE * p + Slot(j) + 1 /\ k = NODE * q + Slot(k) + 1
      /\ p \in Nat /\ q \in Nat /\ Slot(j) \in 0 .. NODE - 1 /\ Slot(k) \in 0 .. NODE - 1
  BY SlotOfPacket DEF Slots
<1>2. q < p
  BY SlotOfPacket
<1> HIDE DEF p, q
<1>3. NODE * q + NODE <= NODE * p
  BY <1>1, <1>2, NodesApart
<1>4. NODE * p \in Nat /\ NODE * q \in Nat
  BY <1>1, QueueAssumption
<1> QED
  BY <1>1, <1>3, <1>4, QueueAssumption

\* The next packet goes into the next slot, or into the first slot of a new node.
LEMMA NextSlot ==
  ASSUME NEW k \in Nat \ {0}
  PROVE  IF Slot(k) = NODE - 1
         THEN Position(k + 1) = Position(k) + 1 /\ Slot(k + 1) = 0
         ELSE Position(k + 1) = Position(k) /\ Slot(k + 1) = Slot(k) + 1
<1> DEFINE p == Position(k) - 1
<1>1. k = NODE * p + Slot(k) + 1 /\ p \in Nat /\ Slot(k) \in 0 .. NODE - 1
  BY SlotOfPacket DEF Slots
<1>2. ASSUME NEW a \in Nat, NEW q \in Nat, NEW r \in 0 .. NODE - 1, a = NODE * q + r
      PROVE  a \div NODE = q /\ a % NODE = r
  BY <1>2, QueueAssumption
<1>3. Position(k + 1) = (k \div NODE) + 1 /\ Slot(k + 1) = k % NODE
  BY DEF Position, Slot
<1>4. CASE Slot(k) = NODE - 1
  <2>1. k = NODE * (p + 1) + 0
    BY <1>1, <1>4, QueueAssumption
  <2>2. k \div NODE = p + 1 /\ k % NODE = 0
    BY <1>1, <1>2, <2>1, QueueAssumption
  <2> QED
    BY <1>1, <1>3, <1>4, <2>2, SlotOfPacket
<1>5. CASE Slot(k) # NODE - 1
  <2>1. Slot(k) + 1 \in 0 .. NODE - 1 /\ k = NODE * p + (Slot(k) + 1)
    BY <1>1, <1>5, QueueAssumption
  <2>2. k \div NODE = p /\ k % NODE = Slot(k) + 1
    BY <1>1, <1>2, <2>1
  <2> QED
    BY <1>1, <1>3, <1>5, <2>2, SlotOfPacket
<1> QED
  BY <1>4, <1>5

-----------------------------------------------------------------------------
\* No node is in use at two positions of the deque.
LiveDistinct ==
  \A p, q \in Position(popped + 1) .. Position(pushed + 1) : nodes[p] = nodes[q] => p = q

\* The packets in the queue are in their slots.
Stored == \A k \in popped + 1 .. pushed : cells[Cell(k)] = k

\* The popped packet that is not yet copied is still in its slot. Its node is in use
\* where it was, or it was the last of that node, and the node was freed by its pop
\* and allocated again by a push since then.
RefKept ==
  pc = "copy" =>
    /\ popped > 0 /\ ref = Cell(popped) /\ cells[ref] = popped
    /\ \A q \in Position(popped + 1) .. Position(pushed + 1) :
         nodes[q] = nodes[Position(popped)] /\ q # Position(popped) =>
           Slot(popped) = NODE - 1 /\ pushed - ahead < NODE * (q - 1)

HandledSoFar ==
  /\ Len(handled) = IF pc = "copy" THEN popped - 1 ELSE popped
  /\ HandledInOrder

QueueInv ==
  /\ TypeOK
  /\ LiveDistinct /\ Stored /\ RefKept /\ HandledSoFar
  /\ pc = "pop" => popped < pushed

\* The empty queue.
LEMMA QueueInit == Init => QueueInv
<1> SUFFICES ASSUME Init PROVE QueueInv
  OBVIOUS
<1>1. Position(1) = 1 /\ 1 \in Nodes /\ 0 \in Slots
  BY QueueAssumption DEF Position, Nodes, Slots
<1>2. /\ pushed = 0 /\ popped = 0 /\ ahead = 0 /\ pc = "test" /\ handled = <<>>
      /\ nodes = <<1>> /\ ref = <<1, 0>> /\ cells = [c \in Nodes \X Slots |-> 0]
  BY DEF Init
<1>3. TypeOK
  BY <1>1, <1>2, QueueAssumption DEF TypeOK
<1> QED
  BY <1>1, <1>2, <1>3
     DEF QueueInv, LiveDistinct, Stored, RefKept, HandledSoFar, HandledInOrder

\* Packet k has a node while it is in the queue, and so has the next packet.
LEMMA PacketHasNode ==
  ASSUME TypeOK, NEW k \in Nat \ {0}, k <= pushed + 1
  PROVE  Position(k) \in 1 .. Len(nodes) /\ Cell(k) \in Nodes \X Slots
<1>1. pushed \in Nat /\ nodes \in Seq(Nodes) /\ Len(nodes) = Position(pushed + 1)
  BY QueueAssumption DEF TypeOK
<1>2. Position(k) \in Nat \ {0} /\ Position(k) <= Position(pushed + 1) /\ Slot(k) \in Slots
  BY <1>1, SlotOfPacket, PositionMonotone
<1>3. Position(k) \in 1 .. Len(nodes)
  BY <1>1, <1>2
<1>4. nodes[Position(k)] \in Nodes
  BY <1>1, <1>3
<1> QED
  BY <1>2, <1>3, <1>4 DEF Cell

\* The slot that the next push writes is that of no packet in the queue, ...
LEMMA PushOverwritesNone ==
  ASSUME TypeOK, LiveDistinct, NEW k \in popped + 1 .. pushed
  PROVE  Cell(k) # Cell(pushed + 1)
<1>1. popped \in Nat /\ pushed \in Nat /\ k \in Nat \ {0}
  BY QueueAssumption DEF TypeOK
<1>2. /\ Position(k) \in Position(popped + 1) .. Position(pushed + 1)
      /\ Position(pushed + 1) \in Position(popped + 1) .. Position(pushed + 1)
  <2>1. /\ Position(popped + 1) \in Nat /\ Position(k) \in Nat
        /\ Position(pushed + 1) \in Nat
    BY <1>1, SlotOfPacket
  <2>2. /\ Position(popped + 1) <= Position(k)
        /\ Position(k) <= Position(pushed + 1)
    BY <1>1, PositionMonotone
  <2> QED
    BY <2>1, <2>2
<1>3. SUFFICES ASSUME Cell(k) = Cell(pushed + 1) PROVE FALSE
  OBVIOUS
<1>4. nodes[Position(k)] = nodes[Position(pushed + 1)] /\ Slot(k) = Slot(pushed + 1)
  BY <1>3 DEF Cell
<1>5. Position(k) = Position(pushed + 1)
  BY <1>2, <1>4 DEF LiveDistinct
<1>6. k = pushed + 1
  BY <1>1, <1>4, <1>5, SlotOfPacket
<1> QED
  BY <1>1, <1>6

\* ... nor that of the packet that is popped and not yet copied.
LEMMA PushKeepsRef ==
  ASSUME OneNodeAhead, TypeOK, RefKept, pc = "copy", ahead < MaxAhead
  PROVE  ref # Cell(pushed + 1)
<1> DEFINE P == Position(pushed + 1)
<1>1. /\ popped \in Nat \ {0} /\ pushed \in Nat /\ popped <= pushed /\ ahead \in Nat
      /\ ref = Cell(popped)
  BY QueueAssumption DEF TypeOK, RefKept
<1>2. SUFFICES ASSUME Cell(popped) = Cell(pushed + 1) PROVE FALSE
  BY <1>1
<1>3. nodes[Position(popped)] = nodes[P] /\ Slot(popped) = Slot(pushed + 1)
  BY <1>2 DEF Cell
<1>4. /\ P \in Nat \ {0} /\ pushed + 1 = NODE * (P - 1) + Slot(pushed + 1) + 1
      /\ popped = NODE * (Position(popped) - 1) + Slot(popped) + 1
      /\ Position(popped) \in Nat \ {0} /\ Slot(popped) \in 0 .. NODE - 1
      /\ Position(popped + 1) \in Nat \ {0}
  BY <1>1, SlotOfPacket DEF Slots
<1>5. P # Position(popped)
  BY <1>1, <1>3, <1>4
<1>6. P \in Position(popped + 1) .. P
  BY <1>1, <1>4, PositionMonotone
<1>7. Slot(popped) = NODE - 1 /\ pushed - ahead < NODE * (P - 1)
  BY <1>3, <1>5, <1>6 DEF RefKept
<1>8. pushed = NODE * (P - 1) + NODE - 1 /\ NODE * (P - 1) \in Nat
  BY <1>1, <1>3, <1>4, <1>7, QueueAssumption
<1> QED
  BY <1>1, <1>7, <1>8, QueueAssumption DEF OneNodeAhead

\* QueueInv is kept by the producer,
LEMMA PushStep ==
  ASSUME OneNodeAhead, QueueInv, Push
  PROVE  QueueInv'
<1> DEFINE P == Position(pushed + 1)
<1>1. /\ popped \in Nat /\ pushed \in Nat /\ popped <= pushed /\ ahead \in Nat
      /\ nodes \in Seq(Nodes) /\ Len(nodes) = P /\ cells \in [Nodes \X Slots -> Nat]
      /\ TypeOK
  BY QueueAssumption DEF QueueInv, TypeOK
<1>2. /\ cells' = [cells EXCEPT ![Cell(pushed + 1)] = pushed + 1]
      /\ pushed' = pushed + 1 /\ ahead' = ahead + 1 /\ pushed < MaxPackets
      /\ UNCHANGED <<popped, pc, ref, handled>>
  BY DEF Push
<1>3. /\ P \in Nat \ {0} /\ Position(pushed + 2) \in Nat \ {0}
      /\ Position(popped + 1) \in Nat \ {0} /\ Position(popped + 1) <= P
  BY <1>1, SlotOfPacket, PositionMonotone
<1>4. IF Slot(pushed + 1) = NODE - 1
      THEN Position(pushed + 2) = P + 1 /\ Slot(pushed + 2) = 0
      ELSE Position(pushed + 2) = P /\ Slot(pushed + 2) # 0
  <2>1. pushed + 1 \in Nat \ {0} /\ (pushed + 1) + 1 = pushed + 2
    BY <1>1
  <2>2. Slot(pushed + 1) \in 0 .. NODE - 1
    BY <2>1, SlotOfPacket DEF Slots
  <2> QED
    BY <2>1, <2>2, NextSlot, QueueAssumption
\* The nodes that are there stay; one is added behind them if its slots are next.
<1>5. /\ nodes' \in Seq(Nodes) /\ Len(nodes') = Position(pushed + 2)
      /\ \A p \in 1 .. P : nodes'[p] = nodes[p]
      /\ \A p \in P + 1 .. Position(pushed + 2) :
           p = P + 1 /\ Slot(pushed + 1) = NODE - 1 /\ nodes'[p] \notin Live
  <2>1. CASE Slot(pushed + 1) = NODE - 1
    <3>1. PICK n \in Nodes \ Live : nodes' = Append(nodes, n)
      BY <1>4, <2>1 DEF Push
    <3>2. /\ nodes' \in Seq(Nodes) /\ Len(nodes') = P + 1 /\ nodes'[P + 1] = n
          /\ \A p \in 1 .. P : nodes'[p] = nodes[p]
      BY <1>1, <3>1, AppendProperties
    <3> QED
      BY <1>3, <1>4, <2>1, <3>1, <3>2
  <2>2. CASE Slot(pushed + 1) # NODE - 1
    <3>1. nodes' = nodes
      BY <1>4, <2>2 DEF Push
    <3> QED
      BY <1>1, <1>3, <1>4, <2>2, <3>1
  <2> QED
    BY <2>1, <2>2
<1>6. Cell(pushed + 1) \in Nodes \X Slots
  BY <1>1, PacketHasNode
<1>7. \A k \in 1 .. pushed + 1 : Cell(k)' = Cell(k)
  <2>1. ASSUME NEW k \in 1 .. pushed + 1
        PROVE  Position(k) \in 1 .. P
    BY <1>1, PacketHasNode
  <2> QED
    BY <1>5, <2>1 DEF Cell
<1>8. TypeOK'
  <2>1. cells' \in [Nodes \X Slots -> Nat]
    BY <1>1, <1>2, <1>6
  <2>2. Position(pushed + 1)' = Position(pushed + 2)
    BY <1>1, <1>2 DEF Position
  <2>3. popped \in 0 .. pushed' /\ pushed' \in 0 .. MaxPackets /\ ahead' \in 0 .. pushed'
    BY <1>1, <1>2, QueueAssumption DEF TypeOK
  <2> QED
    BY <1>1, <1>2, <1>5, <2>1, <2>2, <2>3 DEF TypeOK
<1>9. LiveDistinct'
  <2>1. \A p \in Position(popped + 1) .. P : nodes'[p] = nodes[p] /\ nodes[p] \in Live
    BY <1>3, <1>5 DEF Live
  <2>2. ASSUME NEW p \in Position(popped + 1) .. Position(pushed + 2),
               NEW q \in Position(popped + 1) .. Position(pushed + 2), nodes'[p] = nodes'[q]
        PROVE  p = q
    <3>1. p \in Position(popped + 1) .. P \/ p \in P + 1 .. Position(pushed + 2)
      BY <1>3
    <3>2. q \in Position(popped + 1) .. P \/ q \in P + 1 .. Position(pushed + 2)
      BY <1>3
    <3> QED
      BY <1>5, <2>1, <2>2, <3>1, <3>2 DEF QueueInv, LiveDistinct
  <2>3. Position(pushed + 1)' = Position(pushed + 2) /\ Position(popped + 1)' = Position(popped + 1)
    BY <1>1, <1>2 DEF Position
  <2> QED
    BY <2>2, <2>3 DEF LiveDistinct
<1>10. Stored'
  <2>1. ASSUME NEW k \in popped + 1 .. pushed + 1
        PROVE  cells'[Cell(k)] = k
    <3>1. CASE k = pushed + 1
      BY <1>1, <1>2, <1>6, <3>1
    <3>2. CASE k \in popped + 1 .. pushed
      <4>1. Cell(k) # Cell(pushed + 1) /\ cells[Cell(k)] = k
        BY <3>2, PushOverwritesNone DEF QueueInv, Stored
      <4>2. Cell(k) \in Nodes \X Slots
        BY <1>1, <3>2, PacketHasNode
      <4> QED
        BY <1>1, <1>2, <4>1, <4>2
    <3> QED
      BY <1>1, <3>1, <3>2
  <2> QED
    BY <1>1, <1>2, <1>7, <2>1 DEF Stored
<1>11. RefKept'
  <2> SUFFICES ASSUME pc = "copy" PROVE RefKept'
    BY <1>2 DEF RefKept
  <2>1. popped > 0 /\ ref = Cell(popped) /\ cells[ref] = popped
    BY DEF QueueInv, RefKept
  <2>2. cells'[ref] = popped
    <3>1. ref # Cell(pushed + 1)
      BY PushKeepsRef DEF QueueInv, Push
    <3>2. ref \in Nodes \X Slots
      BY DEF QueueInv, TypeOK
    <3> QED
      BY <1>1, <1>2, <2>1, <3>1, <3>2
  <2>3. Position(popped) \in 1 .. P /\ nodes'[Position(popped)] = nodes[Position(popped)]
    BY <1>1, <1>5, <2>1, PacketHasNode
  <2>4. ASSUME NEW q \in Position(popped + 1) .. Position(pushed + 2),
               nodes'[q] = nodes[Position(popped)], q # Position(popped)
        PROVE  Slot(popped) = NODE - 1 /\ pushed - ahead < NODE * (q - 1)
    <3>1. CASE q \in Position(popped + 1) .. P
      BY <1>3, <1>5, <2>4, <3>1 DEF QueueInv, RefKept
    <3>2. CASE q \in P + 1 .. Position(pushed + 2)
      <4>1. q = P + 1 /\ Slot(pushed + 1) = NODE - 1 /\ nodes'[q] \notin Live
        BY <1>5, <3>2
      <4>2. Slot(popped) = NODE - 1
        <5>1. Position(popped) \in Position(popped + 1) .. P => nodes[Position(popped)] \in Live
          BY DEF Live
        <5>2. Position(popped + 1) # Position(popped)
          BY <1>3, <2>3, <2>4, <4>1, <5>1
        <5> QED
          BY <1>1, <2>1, <5>2, NextSlot
      <4>3. pushed + 1 = NODE * (P - 1) + (NODE - 1) + 1
        BY <1>1, <4>1, SlotOfPacket
      <4>4. pushed + 1 = NODE * (q - 1)
        BY <1>3, <4>1, <4>3, QueueAssumption
      <4> QED
        BY <1>1, <4>2, <4>4
    <3> QED
      BY <1>3, <3>1, <3>2
  <2>5. pushed' - ahead' = pushed - ahead
    BY <1>1, <1>2
  <2>6. /\ Position(pushed + 1)' = Position(pushed + 2)
        /\ Position(popped + 1)' = Position(popped + 1) /\ Position(popped)' = Position(popped)
        /\ Slot(popped)' = Slot(popped)
    BY <1>1, <1>2 DEF Position, Slot
  <2>7. Cell(popped)' = Cell(popped)
    BY <1>2, <2>3 DEF Cell, Position, Slot
  <2> QED
    BY <1>2, <2>1, <2>2, <2>3, <2>4, <2>5, <2>6, <2>7 DEF RefKept
<1>12. HandledSoFar' /\ (pc' = "pop" => popped' < pushed')
  BY <1>1, <1>2 DEF QueueInv, HandledSoFar, HandledInOrder
<1> QED
  BY <1>8, <1>9, <1>10, <1>11, <1>12 DEF QueueInv

\* by the pop,
LEMMA PopStep ==
  ASSUME QueueInv, Pop
  PROVE  QueueInv'
<1>1. /\ popped \in Nat /\ pushed \in Nat /\ popped < pushed /\ TypeOK
  BY QueueAssumption DEF Pop, QueueInv, TypeOK
<1>2. /\ pc = "pop" /\ pc' = "copy" /\ ref' = Cell(popped + 1) /\ popped' = popped + 1 /\ ahead' = 0
      /\ UNCHANGED <<nodes, cells, pushed, handled>>
  BY DEF Pop, Front
<1>3. /\ Position(popped + 1) \in Nat \ {0} /\ Position(popped + 2) \in Nat \ {0}
      /\ Position(pushed + 1) \in Nat \ {0} /\ Position(popped + 1) <= Position(popped + 2)
      /\ Position(popped + 1) <= Position(pushed + 1)
  BY <1>1, SlotOfPacket, PositionMonotone
<1>4. Position(popped + 1)' = Position(popped + 2) /\ Position(pushed + 1)' = Position(pushed + 1)
  BY <1>1, <1>2 DEF Position
<1>5. TypeOK'
  <2>1. Cell(popped + 1) \in Nodes \X Slots
    BY <1>1, PacketHasNode
  <2>2. popped' \in 0 .. pushed' /\ ahead' \in 0 .. pushed'
    BY <1>1, <1>2
  <2> QED
    BY <1>1, <1>2, <1>4, <2>1, <2>2 DEF TypeOK
<1>6. LiveDistinct'
  BY <1>2, <1>3, <1>4 DEF QueueInv, LiveDistinct
<1>7. Stored'
  BY <1>1, <1>2 DEF QueueInv, Stored, Cell
<1>8. RefKept'
  <2>1. cells[Cell(popped + 1)] = popped + 1
    BY <1>1 DEF QueueInv, Stored
  <2>2. ASSUME NEW q \in Position(popped + 2) .. Position(pushed + 1),
               nodes[q] = nodes[Position(popped + 1)]
        PROVE  q = Position(popped + 1)
    BY <1>3, <2>2 DEF QueueInv, LiveDistinct
  <2>3. Cell(popped)' = Cell(popped + 1) /\ Position(popped)' = Position(popped + 1)
    BY <1>2 DEF Cell, Position, Slot
  <2> QED
    BY <1>1, <1>2, <1>4, <2>1, <2>2, <2>3 DEF RefKept
<1>9. HandledSoFar'
  BY <1>1, <1>2 DEF QueueInv, HandledSoFar, HandledInOrder
<1> QED
  BY <1>2, <1>5, <1>6, <1>7, <1>8, <1>9 DEF QueueInv

\* by the copy,
LEMMA CopyStep ==
  ASSUME QueueInv, Copy
  PROVE  QueueInv'
<1>1. /\ pc = "copy" /\ pc' = "test" /\ handled' = Append(handled, cells[ref])
      /\ UNCHANGED <<nodes, cells, pushed, popped, ahead, ref>>
  BY DEF Copy
<1>2. cells[ref] = popped /\ popped \in Nat \ {0} /\ handled \in Seq(Nat) /\ Len(handled) = popped - 1
  BY <1>1, QueueAssumption DEF QueueInv, TypeOK, RefKept, HandledSoFar
<1>3. /\ handled' \in Seq(Nat) /\ Len(handled') = popped /\ handled'[popped] = popped
      /\ \A k \in 1 .. popped - 1 : handled'[k] = handled[k]
  BY <1>1, <1>2, AppendProperties
<1>4. TypeOK'
  BY <1>1, <1>3 DEF QueueInv, TypeOK
<1>5. LiveDistinct' /\ Stored' /\ RefKept'
  BY <1>1 DEF QueueInv, LiveDistinct, Stored, RefKept, Cell
<1>6. HandledSoFar'
  BY <1>1, <1>2, <1>3 DEF QueueInv, HandledSoFar, HandledInOrder
<1> QED
  BY <1>1, <1>4, <1>5, <1>6 DEF QueueInv

\* and so is inductive.
LEMMA QueueNext ==
  ASSUME OneNodeAhead
  PROVE  QueueInv /\ [Next]_vars => QueueInv'
<1> SUFFICES ASSUME QueueInv, [Next]_vars
             PROVE  QueueInv'
  OBVIOUS
<1>1. CASE TestEmpty
  <2>1. popped < pushed
    BY <1>1, QueueAssumption DEF TestEmpty, IsEmpty, QueueInv, TypeOK
  <2> QED
    BY <1>1, <2>1 DEF TestEmpty, QueueInv, TypeOK, LiveDistinct, Stored, RefKept, HandledSoFar,
                      HandledInOrder, Cell
<1>2. CASE UNCHANGED vars
  BY <1>2 DEF vars, QueueInv, TypeOK, LiveDistinct, Stored, RefKept, HandledSoFar,
              HandledInOrder, Cell
<1> QED
  BY <1>1, <1>2, PushStep, PopStep, CopyStep DEF Next

\* The inductive invariant of the queue, for nodes of every size.
THEOREM QueueInvariant ==
  ASSUME OneNodeAhead
  PROVE  Spec => []QueueInv
BY QueueInit, QueueNext, PTL DEF Spec

\* While the producer pushes at most NODE packets between a pop and the copy of what was
\* popped, the consumer handles all packets as they were pushed, in order, each once,
\* although it reads them from slots, and even nodes, that are the queue's no more.
THEOREM PacketsHandledInOrder ==
  ASSUME OneNodeAhead
  PROVE  Spec => []HandledInOrder
<1>1. QueueInv => HandledInOrder
  BY DEF QueueInv, HandledSoFar
<1> QED
  BY <1>1, QueueInvariant, PTL
=============================================================================
