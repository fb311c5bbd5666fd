\* Chunks and the socket end inside of packets; the receiver may hang up at any.
CONSTANTS
  Packets <- FourPackets
  BufferSize = 5
  ChunkSize = 3
  Sep = "nl"
  Bytes = {"a", "b", "c"}
  MaxSignals = 2
SPECIFICATION Spec
INVARIANTS
  TypeOK
  BytesInOrder
PROPERTIES
  ImplementsFifo
  AllDelivered
\* The sender is done or dead, the receiver sleeps.
CHECK_DEADLOCK FALSE
