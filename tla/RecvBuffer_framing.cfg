SPECIFICATION FairSpec
CONSTANTS
  PACKET_HEADER_SIZE = 2
  MAX_PACKET_SIZE = 4
  MAX_RECV_BUFFER_SIZE = 8
  Sizes = {2, 3, 4}
  Misstated = {}
  Window = 8
  Closes = {}
  MaxBytes = 13
INVARIANTS
  TypeOK
  FirstBytesAreSize
  StaysInRecvBuffer
  NothingHeldBack
PROPERTIES
  ImplementsPacketStream
  LoopEnds
