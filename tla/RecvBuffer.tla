------------------------------ MODULE RecvBuffer ------------------------------
(***************************************************************************)
(* The receive buffer of one session and the framing loop of               *)
(* TCPServer::Receive, for the clients that use the session one after      *)
(* another. A byte is its position in the stream of all bytes sent to the  *)
(* session (1, 2, ...); 0 is a byte that memset has cleared.               *)
(*                                                                         *)
(* recv() may write past recv_buffer_; the next member of Session is       *)
(* send_buffer_, so one array stands for both. The packet thread clears    *)
(* the second part in every Send, and both in CloseSession.                *)
(***************************************************************************)
EXTENDS Integers

CONSTANTS
  PACKET_HEADER_SIZE, MAX_PACKET_SIZE, MAX_RECV_BUFFER_SIZE,
  Sizes,           \* rule: lengths of the packets clients send
  Misstated,       \* rule: what a header may say, besides the length of its packet
  Window,          \* rule: bytes a client has under way at most
  Closes,          \* rule: when a session may be closed, besides quiet moments
  MaxBytes         \* bound: bytes sent in all

ASSUME BufferAssumption ==
  /\ PACKET_HEADER_SIZE \in Nat /\ PACKET_HEADER_SIZE >= 2
  /\ MAX_PACKET_SIZE \in Nat /\ MAX_RECV_BUFFER_SIZE = MAX_PACKET_SIZE * 2
  /\ Sizes \subseteq Nat \ {0, 1}  \* a packet has its size field
  /\ Misstated \subseteq Nat
  /\ Window \in Nat /\ MaxBytes \in Nat
  /\ Closes \subseteq {"mid_packet", "mid_loop"}

VARIABLES
  bounds, sent,   \* external, the clients: where packets end, and the last end
  stated,         \* external: pairs of where a packet begins and its total_size
  received,       \* the last byte that recv() has returned
  buffer,         \* recv_buffer_ and send_buffer_
  prev_recv_pos,  \* Session::prev_recv_pos_
  connected,      \* Session::connected_
  pc,             \* the network thread: "recv", or the statement of the loop
  read_pos, remain_data,  \* locals of Receive
  packet_size,            \* the local pointer: the cell it points to ...
  total_size,             \* ... and what was there when the loop tested it
  framed          \* observer: the last byte handed to OnReceive, -1 for damaged ones

client  == <<bounds, sent, stated>>
session == <<buffer, prev_recv_pos, connected>>
locals  == <<read_pos, remain_data, packet_size, total_size>>
vars    == <<client, received, session, locals, pc, framed>>

Stream == INSTANCE PacketStream

RecvCells == 0 .. MAX_RECV_BUFFER_SIZE - 1
Cells     == 0 .. MAX_RECV_BUFFER_SIZE + MAX_PACKET_SIZE - 1

TypeOK ==
  /\ bounds \in SUBSET Nat /\ sent \in bounds /\ stated \in SUBSET (Nat \X Nat)
  /\ received \in 0 .. sent
  /\ buffer \in [Cells -> Nat] /\ prev_recv_pos \in Nat /\ connected \in BOOLEAN
  /\ read_pos \in Nat /\ remain_data \in Nat
  /\ packet_size \in Nat /\ total_size \in Nat
  /\ pc \in {"recv", "test", "hand_on", "move", "shrink"}
  /\ framed \in Nat \cup {-1}

Init ==
  /\ Stream!Init
  /\ stated = {} /\ received = 0
  /\ buffer = [k \in Cells |-> 0] /\ prev_recv_pos = 0
  /\ read_pos = 0 /\ remain_data = 0 /\ packet_size = 0 /\ total_size = 0
  /\ pc = "recv"

\* The client. TCP may deliver what it sends in pieces of any size.
SendPacket ==
  /\ \E size \in Sizes :
       /\ Stream!Send(size)
       /\ \E claim \in {size} \cup Misstated : stated' = stated \cup {<<sent, claim>>}
  /\ sent' <= MaxBytes /\ sent' - framed <= Window
  /\ UNCHANGED <<received, session, locals, pc>>

-----------------------------------------------------------------------------
\* The network thread: TCPServer::Receive.

\* n bytes arrive behind those that the last call has kept.
Receive ==
  /\ pc = "recv" /\ connected
  /\ \E n \in 1 .. MAX_RECV_BUFFER_SIZE :
       /\ received + n <= sent
       /\ prev_recv_pos + n - 1 \in Cells
       /\ buffer' = [k \in Cells |->
                       IF k \in prev_recv_pos .. prev_recv_pos + n - 1
                       THEN received + 1 + (k - prev_recv_pos) ELSE buffer[k]]
       /\ received' = received + n
       /\ remain_data' = prev_recv_pos + n
  /\ read_pos' = 0 /\ pc' = "test"
  /\ UNCHANGED <<client, prev_recv_pos, connected, packet_size, total_size, framed>>

\* The two bytes at p are the size field of a packet, or cleared.
IsHeader(p) ==
  /\ buffer[p] > 0 /\ buffer[p] - 1 \in bounds
  /\ buffer[p + 1] = buffer[p] + 1

IsCleared(p) == buffer[p] = 0 /\ buffer[p + 1] = 0

\* Two bytes that are no size field say anything: up to more than can remain.
AnySize == 0 .. MAX_RECV_BUFFER_SIZE + MAX_PACKET_SIZE + 1

SizesAt(p) ==
  IF IsHeader(p) THEN {h[2] : h \in {g \in stated : g[1] = buffer[p] - 1}}
  ELSE IF IsCleared(p) THEN {0} ELSE AnySize

\* *packet_size is read again in each statement that uses it; the bytes are those
\* that were tested, unless they have been cleared since.
Rereads ==
  IF IsCleared(packet_size) THEN {0}
  ELSE IF buffer[packet_size + 1] = 0 THEN AnySize ELSE {total_size}

Incomplete_OrEqual(size)    == remain_data <= size
Incomplete_HeaderOnly(size) == remain_data < PACKET_HEADER_SIZE
Incomplete(size)            == remain_data < size

\* The last byte of the packet, if its bytes are a piece of the stream.
LastByte(size) ==
  IF /\ size > 0 /\ read_pos + size - 1 \in Cells
     /\ \A k \in 0 .. size - 1 : buffer[read_pos + k] = buffer[read_pos] + k
  THEN buffer[read_pos] + size - 1 ELSE -1

\* The loop goes on with a packet that is complete ...
TestPacket ==
  /\ pc = "test"
  /\ remain_data >= PACKET_HEADER_SIZE
  /\ packet_size' = read_pos
  /\ total_size' \in SizesAt(read_pos) /\ ~Incomplete(total_size')
  /\ pc' = "hand_on"
  /\ UNCHANGED <<client, received, session, read_pos, remain_data, framed>>

\* Mutant: the buffer is cleared once its packet has been handed on.
HandOn_Clears ==
  /\ pc = "hand_on"
  /\ \E size \in Rereads : framed' = LastByte(size)
  /\ buffer' = [k \in Cells |-> IF k \in RecvCells THEN 0 ELSE buffer[k]]
  /\ pc' = "move"
  /\ UNCHANGED <<client, received, prev_recv_pos, connected, locals>>

\* ... OnReceive ...
HandOn ==
  /\ pc = "hand_on"
  /\ \E size \in Rereads : framed' = LastByte(size)
  /\ pc' = "move"
  /\ UNCHANGED <<client, received, session, locals>>

\* ... read_pos ...
MoveReadPos ==
  /\ pc = "move"
  /\ \E size \in Rereads : read_pos' = read_pos + size
  /\ pc' = "shrink"
  /\ UNCHANGED <<client, received, session, remain_data, packet_size, total_size, framed>>

\* ... and remain_data.
ShrinkRemain ==
  /\ pc = "shrink"
  /\ \E size \in Rereads : remain_data' = remain_data - size
  /\ pc' = "test"
  /\ UNCHANGED <<client, received, session, read_pos, packet_size, total_size, framed>>

\* The memcpy to the front of the buffer, and the new prev_recv_pos_.
Moved_Not == buffer
Moved     == [k \in Cells |-> IF k < remain_data THEN buffer[read_pos + k] ELSE buffer[k]]

Rest_None  == 0
Rest_Added == prev_recv_pos + remain_data
Rest       == remain_data

\* The loop ends with a packet that is not complete, or with nothing.
KeepRest ==
  /\ pc = "test"
  /\ \/ remain_data < PACKET_HEADER_SIZE
     \/ \E size \in SizesAt(read_pos) : Incomplete(size)
  /\ buffer' = Moved
  /\ prev_recv_pos' = Rest
  /\ pc' = "recv"
  /\ UNCHANGED <<client, received, connected, locals, framed>>

-----------------------------------------------------------------------------
\* CloseSession, and the next CreateSession.

\* Both buffers are cleared; prev_recv_pos_ is not. The client has left with part of
\* a packet received, or while the network thread is in the loop, only if Closes
\* has it so.
CloseSession ==
  /\ connected
  /\ prev_recv_pos # 0 => "mid_packet" \in Closes
  /\ pc # "recv" => "mid_loop" \in Closes
  /\ buffer' = [k \in Cells |-> 0]
  /\ connected' = FALSE
  /\ UNCHANGED <<client, received, prev_recv_pos, locals, pc, framed>>

\* recv() returns 0 or -1.
ReceiveClose == pc = "recv" /\ CloseSession

\* The index is handed to the next client; bytes not received are lost.
CreateSession ==
  /\ pc = "recv" /\ ~connected
  /\ connected' = TRUE
  /\ received' = sent /\ framed' = sent
  /\ UNCHANGED <<client, buffer, prev_recv_pos, locals, pc>>

-----------------------------------------------------------------------------
\* The packet thread, at any time: TCPServer::Send.

ClearSendBuffer ==
  /\ buffer' = [k \in Cells |-> IF k \in RecvCells THEN buffer[k] ELSE 0]
  /\ UNCHANGED <<client, received, prev_recv_pos, connected, locals, pc, framed>>

SendFails == CloseSession

-----------------------------------------------------------------------------
FramingLoop == TestPacket \/ HandOn \/ MoveReadPos \/ ShrinkRemain \/ KeepRest

Next ==
  \/ SendPacket
  \/ Receive \/ FramingLoop \/ ReceiveClose \/ CreateSession
  \/ ClearSendBuffer \/ SendFails

Spec == Init /\ [][Next]_vars

\* The loop waits for nothing.
FairSpec == Spec /\ WF_vars(FramingLoop)

-----------------------------------------------------------------------------
\* Properties.

\* OnReceive is handed the packets that clients sent, each whole and once, in order,
\* however TCP cuts them and whatever Receive keeps from call to call.
ImplementsPacketStream == Stream!Spec

\* Where the loop reads a size, a packet begins. (tcp_server.cpp, "First 2bytes of
\* packet always indicates total size of the packet")
FirstBytesAreSize ==
  pc = "test" /\ remain_data >= PACKET_HEADER_SIZE => IsHeader(read_pos)

\* recv() writes, and the loop reads and moves, inside recv_buffer_, although recv() is
\* offered a whole buffer behind what the last call has kept (session.cpp:13).
StaysInRecvBuffer ==
  /\ prev_recv_pos <= MAX_RECV_BUFFER_SIZE
  /\ pc = "test" => read_pos + remain_data <= MAX_RECV_BUFFER_SIZE
  /\ pc \in {"hand_on", "move", "shrink"} =>
       packet_size + total_size <= MAX_RECV_BUFFER_SIZE

\* Between two calls the buffer holds exactly what was received and not handed on,
\* and that is never a whole packet: none waits for bytes sent after it.
NothingHeldBack ==
  pc = "recv" /\ connected =>
    /\ prev_recv_pos = received - framed
    /\ \A k \in 0 .. prev_recv_pos - 1 : buffer[k] = framed + 1 + k
    /\ \A b \in bounds : ~(framed < b /\ b <= received)

\* The loop over the packets of one recv() comes to an end, for headers that say the
\* length of their packet: tcp_server.cpp:138 does not refuse a size of 0.
LoopEnds == pc # "recv" ~> pc = "recv"
=============================================================================
