----------------------------- MODULE PacketStream -----------------------------
(***************************************************************************)
(* What the framing of TCPServer::Receive promises: TCP carries bytes, the *)
(* handlers get packets. Positions count the bytes ever sent to a session, *)
(* by one client after the other; a packet ends at each of "bounds".       *)
(***************************************************************************)
EXTENDS Integers

CONSTANT Sizes  \* sizes of packets

VARIABLES
  bounds,    \* where packets end, and 0
  sent,      \* the last of them
  framed,    \* where the last packet handed to OnReceive ends
  connected  \* the session has a client

Init == bounds = {0} /\ sent = 0 /\ framed = 0 /\ connected = TRUE

\* b is the end of the packet that begins after byte p.
EndOfPacket(p, b) ==
  /\ b \in bounds /\ p < b
  /\ \A e \in bounds : p < e => b <= e

Send(size) ==
  /\ connected
  /\ sent' = sent + size
  /\ bounds' = bounds \cup {sent + size}
  /\ UNCHANGED <<framed, connected>>

\* The next packet, whole and once.
Deliver ==
  /\ connected
  /\ EndOfPacket(framed, framed')
  /\ UNCHANGED <<bounds, sent, connected>>

Disconnect ==
  /\ connected /\ ~connected'
  /\ UNCHANGED <<bounds, sent, framed>>

\* Gone with the last client is what it sent and the server had not handed on.
NextClient ==
  /\ ~connected /\ connected'
  /\ framed' = sent
  /\ UNCHANGED <<bounds, sent>>

Next == (\E size \in Sizes : Send(size)) \/ Deliver \/ Disconnect \/ NextClient

Spec == Init /\ [][Next]_<<bounds, sent, framed, connected>>
=============================================================================
