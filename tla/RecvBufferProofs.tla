--------------------------- MODULE RecvBufferProofs ---------------------------
(***************************************************************************)
(* Proofs about the framing of TCPServer::Receive, for buffers and headers *)
(* of every size, packets of any lengths from a header on, and a stream of *)
(* any length cut into pieces in any way.                                  *)
(***************************************************************************)
EXTENDS RecvBuffer, TLAPS

\* The rules clients have to keep: a packet has a header that says its length, no more
\* is under way than recv_buffer_ holds, and a session is closed only between packets.
RulesKept ==
  /\ \A size \in Sizes : size >= PACKET_HEADER_SIZE
  /\ Misstated = {}
  /\ Window <= MAX_RECV_BUFFER_SIZE
  /\ Closes = {}

-----------------------------------------------------------------------------
\* b is the first of ends after p: Stream!EndOfPacket, of any set of ends.
NextEnd(p, b, ends) ==
  /\ b \in ends /\ p < b
  /\ \A e \in ends : p < e => b <= e

\* The stream: packets are no shorter than a header, which says where they end; the
\* last one handed on ends at framed, and what comes after it fits into recv_buffer_.
StreamInv ==
  /\ framed \in bounds /\ framed <= received
  /\ sent - framed <= MAX_RECV_BUFFER_SIZE
  /\ \A b \in bounds : b <= sent
  /\ \A a, b \in bounds : a < b => a + PACKET_HEADER_SIZE <= b
  /\ \A h \in stated : NextEnd(h[1], h[1] + h[2], bounds)

\* n bytes from cell p on are the bytes of the stream after byte e.
Holds(p, n, e) ==
  /\ p + n <= MAX_RECV_BUFFER_SIZE
  /\ n = received - e
  /\ \A k \in 0 .. n - 1 : buffer[p + k] = e + 1 + k

\* The size field that the loop tested is still in recv_buffer_.
SizeKept ==
  /\ packet_size + 1 < MAX_RECV_BUFFER_SIZE
  /\ buffer[packet_size] > 0 /\ buffer[packet_size + 1] > 0

\* What was received and not handed on is in recv_buffer_, in one piece: at its front
\* between two calls, and where the loop has come to during a call.
BufferInv ==
  /\ prev_recv_pos <= MAX_RECV_BUFFER_SIZE
  /\ pc = "recv" =>
       /\ Holds(0, prev_recv_pos, framed)
       /\ \A b \in bounds : ~(framed < b /\ b <= received)
  /\ pc = "test" => Holds(read_pos, remain_data, framed)
  /\ pc \in {"hand_on", "move", "shrink"} => SizeKept /\ total_size \in 1 .. remain_data
  /\ pc = "hand_on" =>
       /\ packet_size = read_pos /\ Holds(read_pos, remain_data, framed)
       /\ NextEnd(framed, framed + total_size, bounds)
  /\ pc = "move" =>
       /\ packet_size = read_pos
       /\ Holds(read_pos + total_size, remain_data - total_size, framed)
  /\ pc = "shrink" =>
       /\ packet_size + total_size = read_pos
       /\ Holds(read_pos, remain_data - total_size, framed)
  /\ ~connected => pc = "recv" /\ prev_recv_pos = 0

FramingInv == TypeOK /\ StreamInv /\ BufferInv

\* At the start nothing is sent, received or buffered.
LEMMA FramingInit == Init => FramingInv
BY BufferAssumption
   DEF Init, Stream!Init, FramingInv, TypeOK, StreamInv, BufferInv, Holds, Cells

-----------------------------------------------------------------------------
\* Where the loop stands, a packet begins, ...
LEMMA HeaderAtReadPos ==
  ASSUME FramingInv, pc = "test", remain_data >= PACKET_HEADER_SIZE
  PROVE  IsHeader(read_pos) /\ buffer[read_pos] = framed + 1
<1>1. 0 \in 0 .. remain_data - 1 /\ 1 \in 0 .. remain_data - 1
  BY BufferAssumption DEF FramingInv, TypeOK
<1>2. \A k \in 0 .. remain_data - 1 : buffer[read_pos + k] = framed + 1 + k
  BY DEF FramingInv, BufferInv, Holds
<1>3. framed \in Nat /\ framed \in bounds /\ read_pos \in Nat
  BY DEF FramingInv, TypeOK, StreamInv
<1>4. buffer[read_pos + 0] = framed + 1 + 0 /\ buffer[read_pos + 1] = framed + 1 + 1
  BY <1>1, <1>2
<1> QED
  BY <1>3, <1>4 DEF IsHeader

\* ... its first bytes say where it ends, ...
LEMMA SizeOfNext ==
  ASSUME FramingInv, pc = "test", remain_data >= PACKET_HEADER_SIZE,
         NEW size \in SizesAt(read_pos)
  PROVE  size \in Nat \ {0} /\ NextEnd(framed, framed + size, bounds)
<1>1. IsHeader(read_pos) /\ buffer[read_pos] = framed + 1
  BY HeaderAtReadPos
<1>2. framed \in Nat /\ bounds \in SUBSET Nat
  BY DEF FramingInv, TypeOK, StreamInv
<1>3. PICK h \in stated : size = h[2] /\ h[1] = framed
  BY <1>1, <1>2 DEF SizesAt
<1>4. size \in Nat /\ NextEnd(framed, framed + size, bounds)
  BY <1>3 DEF FramingInv, TypeOK, StreamInv
<1>5. framed < framed + size
  BY <1>4 DEF NextEnd
<1> QED
  BY <1>2, <1>4, <1>5

\* ... and when all of it has arrived, OnReceive is handed its bytes.
LEMMA LastByteOfNext ==
  ASSUME FramingInv, pc = "hand_on", NEW size \in Nat \ {0}, size <= remain_data
  PROVE  LastByte(size) = framed + size
<1>1. /\ MAX_RECV_BUFFER_SIZE \in Nat /\ MAX_PACKET_SIZE \in Nat
      /\ read_pos + remain_data <= MAX_RECV_BUFFER_SIZE
      /\ remain_data \in Nat /\ framed \in Nat /\ read_pos \in Nat
      /\ \A k \in 0 .. remain_data - 1 : buffer[read_pos + k] = framed + 1 + k
  BY BufferAssumption DEF FramingInv, TypeOK, StreamInv, BufferInv, Holds
<1>2. 0 \in 0 .. remain_data - 1 /\ \A k \in 0 .. size - 1 : k \in 0 .. remain_data - 1
  BY <1>1
<1>3. buffer[read_pos] = framed + 1
  BY <1>1, <1>2
<1>4. \A k \in 0 .. size - 1 : buffer[read_pos + k] = buffer[read_pos] + k
  BY <1>1, <1>2, <1>3
<1>5. read_pos + size - 1 \in Cells
  BY <1>1 DEF Cells
<1> QED
  BY <1>1, <1>3, <1>4, <1>5 DEF LastByte

\* However often the loop reads the size, it is the one it tested.
LEMMA RereadsAgree ==
  ASSUME FramingInv, pc \in {"hand_on", "move", "shrink"}
  PROVE  Rereads = {total_size}
<1>1. SizeKept
  BY DEF FramingInv, BufferInv
<1> QED
  BY <1>1 DEF SizeKept, Rereads, IsCleared

-----------------------------------------------------------------------------
\* A client sends no more than fits.
LEMMA SendPacketStep ==
  ASSUME RulesKept, FramingInv, SendPacket
  PROVE  FramingInv'
<1>1. PICK size \in Sizes :
        /\ sent' = sent + size
        /\ bounds' = bounds \cup {sent + size}
        /\ stated' = stated \cup {<<sent, size>>}
        /\ UNCHANGED <<framed, connected>>
  BY DEF SendPacket, Stream!Send, RulesKept
<1>2. size \in Nat /\ size >= PACKET_HEADER_SIZE /\ PACKET_HEADER_SIZE \in Nat \ {0}
  BY BufferAssumption DEF RulesKept
<1>3. sent \in Nat /\ sent \in bounds /\ bounds \in SUBSET Nat /\ received \in 0 .. sent /\ framed \in Nat
  BY DEF FramingInv, TypeOK, StreamInv
<1>4. TypeOK'
  <2>1. stated' \in SUBSET (Nat \X Nat)
    BY <1>1, <1>2, <1>3 DEF FramingInv, TypeOK
  <2> QED
    BY <1>1, <1>2, <1>3, <2>1 DEF SendPacket, FramingInv, TypeOK, session, locals
<1>5. ASSUME NEW p \in Nat, NEW b \in Nat, NextEnd(p, b, bounds)
      PROVE  NextEnd(p, b, bounds')
  BY <1>1, <1>2, <1>3, <1>5 DEF FramingInv, StreamInv, NextEnd
<1>6. StreamInv'
  <2>1. sent' - framed' <= MAX_RECV_BUFFER_SIZE
    BY <1>1, <1>2, <1>3, BufferAssumption DEF SendPacket, RulesKept
  <2>2. framed' \in bounds' /\ framed' <= received'
    BY <1>1 DEF SendPacket, FramingInv, StreamInv
  <2>3. \A b \in bounds' : b <= sent'
    BY <1>1, <1>2, <1>3 DEF FramingInv, StreamInv
  <2>4. \A a, b \in bounds' : a < b => a + PACKET_HEADER_SIZE <= b
    BY <1>1, <1>2, <1>3 DEF FramingInv, StreamInv
  <2>5. NextEnd(sent, sent + size, bounds')
    BY <1>1, <1>2, <1>3 DEF FramingInv, StreamInv, NextEnd
  <2>6. ASSUME NEW h \in stated'
        PROVE  NextEnd(h[1], h[1] + h[2], bounds')
    <3>1. CASE h \in stated
      BY <1>5, <3>1 DEF FramingInv, TypeOK, StreamInv
    <3>2. CASE h = <<sent, size>>
      BY <2>5, <3>2
    <3> QED
      BY <1>1, <3>1, <3>2
  <2> QED
    BY <2>1, <2>2, <2>3, <2>4, <2>6 DEF StreamInv
<1>7. \A b \in bounds' : framed < b /\ b <= received => b \in bounds
  BY <1>1, <1>2, <1>3, BufferAssumption
<1>8. BufferInv'
  <2>1. pc = "hand_on" => NextEnd(framed, framed + total_size, bounds')
    BY <1>3, <1>5 DEF FramingInv, TypeOK, BufferInv
  <2> QED
    BY <1>1, <1>7, <2>1 DEF SendPacket, FramingInv, BufferInv, Holds, SizeKept, session, locals
<1> QED
  BY <1>4, <1>6, <1>8 DEF FramingInv

\* What recv() returns goes behind what is there.
LEMMA ReceiveStep ==
  ASSUME FramingInv, Receive
  PROVE  FramingInv'
<1>1. PICK n \in 1 .. MAX_RECV_BUFFER_SIZE :
        /\ received + n <= sent
        /\ buffer' = [k \in Cells |->
                        IF k \in prev_recv_pos .. prev_recv_pos + n - 1
                        THEN received + 1 + (k - prev_recv_pos) ELSE buffer[k]]
        /\ received' = received + n
        /\ remain_data' = prev_recv_pos + n
  BY DEF Receive
<1>2. /\ pc = "recv" /\ pc' = "test" /\ read_pos' = 0
      /\ UNCHANGED <<client, prev_recv_pos, connected, packet_size, total_size, framed>>
      /\ connected
  BY DEF Receive
<1>3. /\ sent \in Nat /\ received \in Nat /\ framed \in Nat /\ prev_recv_pos \in Nat
      /\ framed <= received /\ sent - framed <= MAX_RECV_BUFFER_SIZE
      /\ buffer \in [Cells -> Nat]
  BY DEF FramingInv, TypeOK, StreamInv
<1>4. /\ prev_recv_pos = received - framed
      /\ \A k \in 0 .. prev_recv_pos - 1 : buffer[k] = framed + 1 + k
  BY <1>2, <1>3 DEF FramingInv, BufferInv, Holds
<1>5. MAX_RECV_BUFFER_SIZE \in Nat /\ MAX_PACKET_SIZE \in Nat
  BY BufferAssumption
<1>6. TypeOK'
  <2>1. buffer' \in [Cells -> Nat]
    BY <1>1, <1>3
  <2>2. received' \in 0 .. sent' /\ remain_data' \in Nat
    BY <1>1, <1>2, <1>3 DEF client
  <2> QED
    BY <1>2, <2>1, <2>2 DEF FramingInv, TypeOK, client
<1>7. StreamInv'
  <2>1. framed' <= received' /\ UNCHANGED <<bounds, sent, stated, framed>>
    BY <1>1, <1>2, <1>3, <1>5 DEF client
  <2> QED
    BY <2>1 DEF FramingInv, StreamInv
<1>8. Holds(read_pos, remain_data, framed)'
  <2>1. remain_data' = received' - framed /\ remain_data' <= MAX_RECV_BUFFER_SIZE
    BY <1>1, <1>3, <1>4, <1>5
  <2>2. ASSUME NEW k \in 0 .. remain_data' - 1
        PROVE  buffer'[k] = framed + 1 + k
    <3>1. k \in Cells
      BY <1>1, <1>3, <1>5, <2>1 DEF Cells
    <3>2. CASE k \in prev_recv_pos .. prev_recv_pos + n - 1
      BY <1>1, <1>3, <1>4, <3>1, <3>2
    <3>3. CASE k \notin prev_recv_pos .. prev_recv_pos + n - 1
      BY <1>1, <1>3, <1>4, <3>1, <3>3
    <3> QED
      BY <3>2, <3>3
  <2> QED
    BY <1>2, <2>1, <2>2 DEF Holds
<1>9. BufferInv'
  BY <1>2, <1>8 DEF FramingInv, BufferInv
<1> QED
  BY <1>6, <1>7, <1>9 DEF FramingInv

\* The packet that is complete is the next of the stream, ...
LEMMA TestPacketStep ==
  ASSUME FramingInv, TestPacket
  PROVE  FramingInv'
<1>1. PICK size \in SizesAt(read_pos) :
        /\ pc = "test" /\ pc' = "hand_on" /\ remain_data >= PACKET_HEADER_SIZE
        /\ packet_size' = read_pos /\ total_size' = size /\ ~Incomplete(size)
        /\ UNCHANGED <<client, received, session, read_pos, remain_data, framed>>
  BY DEF TestPacket
<1>2. size \in Nat \ {0} /\ NextEnd(framed, framed + size, bounds)
  BY <1>1, SizeOfNext
<1>3. /\ remain_data \in Nat /\ read_pos \in Nat /\ PACKET_HEADER_SIZE >= 2
      /\ PACKET_HEADER_SIZE \in Nat /\ MAX_RECV_BUFFER_SIZE \in Nat
      /\ framed \in Nat /\ Holds(read_pos, remain_data, framed)
  BY <1>1, BufferAssumption DEF FramingInv, TypeOK, StreamInv, BufferInv
<1>4. size \in 1 .. remain_data
  BY <1>1, <1>2, <1>3 DEF Incomplete
<1>5. SizeKept'
  <2>1. buffer[read_pos] = framed + 1 /\ buffer[read_pos + 1] = framed + 2
    BY <1>1, <1>3, HeaderAtReadPos DEF IsHeader
  <2>2. read_pos + 1 < MAX_RECV_BUFFER_SIZE
    BY <1>1, <1>3 DEF Holds
  <2> QED
    BY <1>1, <1>3, <2>1, <2>2 DEF SizeKept, session
<1>6. TypeOK'
  BY <1>1, <1>2 DEF FramingInv, TypeOK, client, session
<1>7. StreamInv'
  BY <1>1 DEF FramingInv, StreamInv, client
<1>8. BufferInv'
  BY <1>1, <1>2, <1>3, <1>4, <1>5 DEF FramingInv, BufferInv, Holds, client, session
<1> QED
  BY <1>6, <1>7, <1>8 DEF FramingInv

\* ... it is the one handed on, ...
LEMMA HandOnStep ==
  ASSUME FramingInv, HandOn
  PROVE  FramingInv' /\ Stream!Deliver
<1>1. /\ pc = "hand_on" /\ pc' = "move" /\ framed' = LastByte(total_size)
      /\ UNCHANGED <<client, received, session, locals>>
  BY RereadsAgree DEF HandOn
<1>2. /\ remain_data \in Nat /\ framed \in Nat /\ read_pos \in Nat /\ received \in Nat
      /\ remain_data = received - framed /\ read_pos + remain_data <= MAX_RECV_BUFFER_SIZE
      /\ \A k \in 0 .. remain_data - 1 : buffer[read_pos + k] = framed + 1 + k
      /\ total_size \in 1 .. remain_data /\ SizeKept /\ packet_size = read_pos
      /\ NextEnd(framed, framed + total_size, bounds) /\ connected
      /\ prev_recv_pos <= MAX_RECV_BUFFER_SIZE
  BY <1>1 DEF FramingInv, TypeOK, StreamInv, BufferInv, Holds
<1>3. framed' = framed + total_size
  BY <1>1, <1>2, LastByteOfNext
<1>4. framed' \in bounds /\ framed' <= received
  BY <1>2, <1>3 DEF NextEnd
<1>5. TypeOK'
  BY <1>1, <1>2, <1>3 DEF FramingInv, TypeOK, client, session, locals
<1>6. StreamInv'
  BY <1>1, <1>2, <1>3, <1>4, BufferAssumption DEF FramingInv, TypeOK, StreamInv, client
<1>7. Holds(read_pos + total_size, remain_data - total_size, framed)'
  <2>1. ASSUME NEW k \in 0 .. (remain_data - total_size) - 1
        PROVE  buffer[(read_pos + total_size) + k] = framed' + 1 + k
    <3>1. total_size + k \in 0 .. remain_data - 1
      BY <1>2
    <3>2. buffer[read_pos + (total_size + k)] = framed + 1 + (total_size + k)
      BY <1>2, <3>1
    <3>3. read_pos + (total_size + k) = (read_pos + total_size) + k
      BY <1>2
    <3> QED
      BY <1>2, <1>3, <3>2, <3>3
  <2> QED
    BY <1>1, <1>2, <1>3, <2>1, BufferAssumption DEF Holds, session, locals
<1>8. BufferInv'
  BY <1>1, <1>2, <1>7 DEF BufferInv, SizeKept, session, locals
<1>9. Stream!Deliver
  BY <1>1, <1>2, <1>3 DEF Stream!Deliver, Stream!EndOfPacket, NextEnd, client, session
<1> QED
  BY <1>5, <1>6, <1>8, <1>9 DEF FramingInv

\* ... and the loop goes on behind it, first with read_pos, then with remain_data.
LEMMA MoveReadPosStep ==
  ASSUME FramingInv, MoveReadPos
  PROVE  FramingInv'
<1>1. /\ pc = "move" /\ pc' = "shrink" /\ read_pos' = read_pos + total_size
      /\ UNCHANGED <<client, received, session, remain_data, packet_size, total_size, framed>>
  BY RereadsAgree DEF MoveReadPos
<1>2. read_pos \in Nat /\ total_size \in Nat
  BY DEF FramingInv, TypeOK
<1>3. TypeOK'
  BY <1>1, <1>2 DEF FramingInv, TypeOK, client, session
<1>4. StreamInv'
  BY <1>1 DEF FramingInv, StreamInv, client
<1>5. BufferInv'
  BY <1>1, <1>2 DEF FramingInv, BufferInv, Holds, SizeKept, session
<1> QED
  BY <1>3, <1>4, <1>5 DEF FramingInv

\* The two have then moved by the same size.
LEMMA ShrinkRemainStep ==
  ASSUME FramingInv, ShrinkRemain
  PROVE  FramingInv'
<1>1. /\ pc = "shrink" /\ pc' = "test" /\ remain_data' = remain_data - total_size
      /\ UNCHANGED <<client, received, session, read_pos, packet_size, total_size, framed>>
  BY RereadsAgree DEF ShrinkRemain
<1>2. remain_data \in Nat /\ total_size \in 1 .. remain_data
  BY <1>1 DEF FramingInv, TypeOK, BufferInv
<1>3. TypeOK'
  BY <1>1, <1>2 DEF FramingInv, TypeOK, client, session
<1>4. StreamInv'
  BY <1>1 DEF FramingInv, StreamInv, client
<1>5. BufferInv'
  BY <1>1 DEF FramingInv, BufferInv, Holds, session
<1> QED
  BY <1>3, <1>4, <1>5 DEF FramingInv

\* What is left moves to the front.
LEMMA KeepRestStep ==
  ASSUME FramingInv, KeepRest
  PROVE  FramingInv'
<1>1. /\ pc = "test" /\ pc' = "recv"
      /\ buffer' = Moved /\ prev_recv_pos' = remain_data
      /\ UNCHANGED <<client, received, connected, locals, framed>>
  BY DEF KeepRest, Rest
<1>2. /\ read_pos \in Nat /\ remain_data \in Nat /\ buffer \in [Cells -> Nat]
      /\ framed \in Nat /\ received \in Nat /\ bounds \in SUBSET Nat
      /\ framed \in bounds
  BY DEF FramingInv, TypeOK, StreamInv
<1>3. /\ read_pos + remain_data <= MAX_RECV_BUFFER_SIZE /\ remain_data = received - framed
      /\ \A k \in 0 .. remain_data - 1 : buffer[read_pos + k] = framed + 1 + k
  BY <1>1 DEF FramingInv, BufferInv, Holds
<1>4. MAX_RECV_BUFFER_SIZE \in Nat /\ MAX_PACKET_SIZE \in Nat /\ PACKET_HEADER_SIZE \in Nat
  BY BufferAssumption
<1>5. TypeOK'
  <2>1. \A k \in Cells : k < remain_data => read_pos + k \in Cells
    BY <1>2, <1>3, <1>4 DEF Cells
  <2>2. buffer' \in [Cells -> Nat]
    BY <1>1, <1>2, <2>1 DEF Moved
  <2> QED
    BY <1>1, <1>2, <2>2 DEF FramingInv, TypeOK, client, locals
<1>6. StreamInv'
  BY <1>1 DEF FramingInv, StreamInv, client
<1>7. Holds(0, prev_recv_pos, framed)'
  <2>1. ASSUME NEW k \in 0 .. remain_data - 1
        PROVE  buffer'[0 + k] = framed + 1 + k
    <3>1. k \in Cells
      BY <1>2, <1>3, <1>4 DEF Cells
    <3> QED
      BY <1>1, <1>2, <1>3, <3>1 DEF Moved
  <2> QED
    BY <1>1, <1>2, <1>3, <1>4, <2>1 DEF Holds
<1>8. ASSUME NEW b \in bounds, framed < b
      PROVE  received < b
  <2>1. framed + PACKET_HEADER_SIZE <= b
    BY <1>2, <1>8 DEF FramingInv, StreamInv
  <2>2. CASE remain_data < PACKET_HEADER_SIZE
    BY <1>2, <1>3, <1>4, <2>1, <2>2
  <2>3. CASE remain_data >= PACKET_HEADER_SIZE
    <3>1. PICK size \in SizesAt(read_pos) : remain_data < size
      BY <1>2, <1>4, <2>3 DEF KeepRest, Incomplete
    <3>2. size \in Nat /\ NextEnd(framed, framed + size, bounds)
      BY <1>1, <2>3, <3>1, SizeOfNext
    <3>3. framed + size <= b
      BY <1>8, <3>2 DEF NextEnd
    <3> QED
      BY <1>2, <1>3, <3>1, <3>2, <3>3
  <2> QED
    BY <1>2, <1>4, <2>2, <2>3
<1>9. BufferInv'
  <2>1. connected
    BY <1>1 DEF FramingInv, BufferInv
  <2>2. \A b \in bounds' : ~(framed' < b /\ b <= received')
    BY <1>1, <1>2, <1>8 DEF client
  <2>3. remain_data <= MAX_RECV_BUFFER_SIZE
    BY <1>2, <1>3, <1>4
  <2> QED
    BY <1>1, <1>7, <2>1, <2>2, <2>3 DEF BufferInv
<1> QED
  BY <1>5, <1>6, <1>9 DEF FramingInv

\* A session is closed between packets, by either thread, and given to the next client.
LEMMA CloseSessionStep ==
  ASSUME RulesKept, FramingInv, CloseSession
  PROVE  FramingInv' /\ Stream!Disconnect
<1>1. /\ pc = "recv" /\ prev_recv_pos = 0 /\ connected
      /\ buffer' = [k \in Cells |-> 0] /\ connected' = FALSE
      /\ UNCHANGED <<client, received, prev_recv_pos, locals, pc, framed>>
  BY DEF CloseSession, RulesKept
<1>2. TypeOK' /\ StreamInv'
  BY <1>1 DEF FramingInv, TypeOK, StreamInv, client, locals
<1>3. BufferInv'
  BY <1>1 DEF FramingInv, BufferInv, Holds, client, locals
<1> QED
  BY <1>1, <1>2, <1>3 DEF FramingInv, Stream!Disconnect, client

\* A new session begins with the bytes that are sent from then on.
LEMMA CreateSessionStep ==
  ASSUME FramingInv, CreateSession
  PROVE  FramingInv' /\ Stream!NextClient
<1>1. /\ pc = "recv" /\ prev_recv_pos = 0 /\ received' = sent /\ framed' = sent
      /\ ~connected /\ connected'
      /\ UNCHANGED <<client, buffer, prev_recv_pos, locals, pc>>
  BY DEF CreateSession, FramingInv, BufferInv
<1>2. /\ sent \in Nat /\ sent \in bounds /\ bounds \in SUBSET Nat
      /\ MAX_RECV_BUFFER_SIZE \in Nat
  BY BufferAssumption DEF FramingInv, TypeOK
<1>3. TypeOK' /\ StreamInv'
  BY <1>1, <1>2 DEF CreateSession, FramingInv, TypeOK, StreamInv, client, locals
<1>4. BufferInv'
  BY <1>1, <1>2 DEF FramingInv, StreamInv, BufferInv, Holds, client, locals
<1> QED
  BY <1>1, <1>3, <1>4 DEF FramingInv, Stream!NextClient, client

\* The packet thread clears nothing of what the framing holds.
LEMMA ClearSendBufferStep ==
  ASSUME FramingInv, ClearSendBuffer
  PROVE  FramingInv'
<1>1. /\ buffer' = [k \in Cells |-> IF k \in RecvCells THEN buffer[k] ELSE 0]
      /\ UNCHANGED <<client, received, prev_recv_pos, connected, locals, pc, framed>>
  BY DEF ClearSendBuffer
<1>2. /\ MAX_RECV_BUFFER_SIZE \in Nat /\ MAX_PACKET_SIZE \in Nat
      /\ buffer \in [Cells -> Nat]
  BY BufferAssumption DEF FramingInv, TypeOK
<1>3. \A p \in Nat : p < MAX_RECV_BUFFER_SIZE => buffer'[p] = buffer[p]
  BY <1>1, <1>2 DEF Cells, RecvCells
<1>4. TypeOK' /\ StreamInv'
  BY <1>1, <1>2 DEF FramingInv, TypeOK, StreamInv, client, locals
<1>5. ASSUME NEW p \in Nat, NEW n \in Nat, Holds(p, n, framed)
      PROVE  p + n <= MAX_RECV_BUFFER_SIZE /\ n = received' - framed'
             /\ \A k \in 0 .. n - 1 : buffer'[p + k] = framed' + 1 + k
  BY <1>1, <1>2, <1>3, <1>5 DEF Holds
<1>6. /\ prev_recv_pos \in Nat /\ read_pos \in Nat /\ remain_data \in Nat
      /\ packet_size \in Nat /\ total_size \in Nat
      /\ UNCHANGED <<bounds, received, prev_recv_pos, connected, read_pos, remain_data,
                     packet_size, total_size, pc, framed>>
  BY <1>1 DEF FramingInv, TypeOK, client, locals
<1>7. SizeKept => SizeKept'
  BY <1>2, <1>3, <1>6 DEF SizeKept
<1>8. BufferInv'
  <2>1. pc = "recv" => Holds(0, prev_recv_pos, framed)'
    BY <1>5, <1>6 DEF FramingInv, BufferInv, Holds
  <2>2. pc \in {"test", "hand_on"} => Holds(read_pos, remain_data, framed)'
    BY <1>5, <1>6 DEF FramingInv, BufferInv, Holds
  <2>3. pc \in {"hand_on", "move", "shrink"} => total_size \in 1 .. remain_data /\ SizeKept
    BY DEF FramingInv, BufferInv
  <2>4. pc = "move" => Holds(read_pos + total_size, remain_data - total_size, framed)'
    <3> SUFFICES ASSUME pc = "move"
                 PROVE  Holds(read_pos + total_size, remain_data - total_size, framed)'
      OBVIOUS
    <3>1. read_pos + total_size \in Nat /\ remain_data - total_size \in Nat
      BY <1>6, <2>3
    <3>2. Holds(read_pos + total_size, remain_data - total_size, framed)
      BY DEF FramingInv, BufferInv
    <3> QED
      BY <1>5, <1>6, <3>1, <3>2 DEF Holds
  <2>5. pc = "shrink" => Holds(read_pos, remain_data - total_size, framed)'
    <3> SUFFICES ASSUME pc = "shrink"
                 PROVE  Holds(read_pos, remain_data - total_size, framed)'
      OBVIOUS
    <3>1. remain_data - total_size \in Nat
      BY <1>6, <2>3
    <3>2. Holds(read_pos, remain_data - total_size, framed)
      BY DEF FramingInv, BufferInv
    <3> QED
      BY <1>5, <1>6, <3>1, <3>2 DEF Holds
  <2> QED
    BY <1>6, <1>7, <2>1, <2>2, <2>3, <2>4, <2>5 DEF FramingInv, BufferInv
<1> QED
  BY <1>4, <1>8 DEF FramingInv

-----------------------------------------------------------------------------
\* Every step keeps the framing and delivers at most the next packet.
LEMMA FramingNext ==
  ASSUME RulesKept
  PROVE  FramingInv /\ [Next]_vars => FramingInv' /\ [Stream!Next]_<<bounds, sent, framed, connected>>
<1> SUFFICES ASSUME FramingInv, [Next]_vars
             PROVE  FramingInv' /\ [Stream!Next]_<<bounds, sent, framed, connected>>
  OBVIOUS
<1>1. CASE SendPacket
  BY <1>1, SendPacketStep DEF SendPacket, Stream!Next
<1>2. CASE Receive
  BY <1>2, ReceiveStep DEF Receive, client
<1>3. CASE TestPacket
  BY <1>3, TestPacketStep DEF TestPacket, client, session
<1>4. CASE HandOn
  BY <1>4, HandOnStep DEF Stream!Next
<1>5. CASE MoveReadPos
  BY <1>5, MoveReadPosStep DEF MoveReadPos, client, session
<1>6. CASE ShrinkRemain
  BY <1>6, ShrinkRemainStep DEF ShrinkRemain, client, session
<1>7. CASE KeepRest
  BY <1>7, KeepRestStep DEF KeepRest, client
<1>8. CASE CloseSession
  BY <1>8, CloseSessionStep DEF Stream!Next
<1>9. CASE CreateSession
  BY <1>9, CreateSessionStep DEF Stream!Next
<1>10. CASE ClearSendBuffer
  BY <1>10, ClearSendBufferStep DEF ClearSendBuffer, client
<1>11. CASE UNCHANGED vars
  BY <1>11 DEF vars, client, session, locals, FramingInv, TypeOK, StreamInv, BufferInv, Holds,
               SizeKept
<1> QED
  BY <1>1, <1>2, <1>3, <1>4, <1>5, <1>6, <1>7, <1>8, <1>9, <1>10, <1>11
     DEF Next, FramingLoop, ReceiveClose, SendFails

\* When clients keep the rules, recv_buffer_ holds what was received and not handed on.
THEOREM FramingInvariant ==
  ASSUME RulesKept
  PROVE  Spec => []FramingInv
BY FramingInit, FramingNext, PTL DEF Spec

\* Every variable keeps its type; in particular remain_data, which is unsigned, never
\* passes 0.
THEOREM BufferTypes ==
  ASSUME RulesKept
  PROVE  Spec => []TypeOK
<1>1. FramingInv => TypeOK
  BY DEF FramingInv
<1> QED
  BY <1>1, FramingInvariant, PTL

\* For buffers of every size, recv() writes and the loop reads inside recv_buffer_,
\* although recv() is offered a whole buffer behind what is kept.
THEOREM RecvBufferNotLeft ==
  ASSUME RulesKept
  PROVE  Spec => []StaysInRecvBuffer
<1>1. FramingInv => StaysInRecvBuffer
  <2> SUFFICES ASSUME FramingInv
               PROVE  StaysInRecvBuffer
    OBVIOUS
  <2>1. /\ MAX_RECV_BUFFER_SIZE \in Nat /\ prev_recv_pos \in Nat
        /\ read_pos \in Nat /\ remain_data \in Nat /\ packet_size \in Nat
        /\ received \in Nat /\ sent \in Nat /\ received <= sent
        /\ framed \in Nat /\ sent - framed <= MAX_RECV_BUFFER_SIZE
    BY BufferAssumption DEF FramingInv, TypeOK, StreamInv
  <2>2. pc = "test" => read_pos + remain_data <= MAX_RECV_BUFFER_SIZE
    BY DEF FramingInv, BufferInv, Holds
  <2>3. pc \in {"hand_on", "move", "shrink"} =>
          packet_size + total_size <= MAX_RECV_BUFFER_SIZE
    BY <2>1 DEF FramingInv, BufferInv, Holds
  <2>4. prev_recv_pos <= MAX_RECV_BUFFER_SIZE
    BY DEF FramingInv, BufferInv
  <2> QED
    BY <2>2, <2>3, <2>4 DEF StaysInRecvBuffer
<1> QED
  BY <1>1, FramingInvariant, PTL

\* However TCP cuts the stream, the loop reads a size only where a packet begins.
THEOREM SizesAreRead ==
  ASSUME RulesKept
  PROVE  Spec => []FirstBytesAreSize
<1>1. FramingInv => FirstBytesAreSize
  BY HeaderAtReadPos DEF FirstBytesAreSize
<1> QED
  BY <1>1, FramingInvariant, PTL

\* Between two calls of Receive exactly the begun packet is kept, at the front.
THEOREM OnlyTheBegunIsKept ==
  ASSUME RulesKept
  PROVE  Spec => []NothingHeldBack
<1>1. FramingInv => NothingHeldBack
  BY DEF FramingInv, BufferInv, Holds, NothingHeldBack
<1> QED
  BY <1>1, FramingInvariant, PTL

\* The framing implements the packet stream: OnReceive is handed the packets clients
\* sent, each whole and once, in order, for every cutting of every stream.
THEOREM FramingImplementsStream ==
  ASSUME RulesKept
  PROVE  Spec => ImplementsPacketStream
<1>1. Init => Stream!Init
  BY DEF Init
<1> QED
  BY <1>1, FramingInvariant, FramingNext, PTL DEF Spec, ImplementsPacketStream, Stream!Spec
=============================================================================
