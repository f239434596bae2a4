SPECIFICATION FairPipeSpec
CONSTANTS
  Buffers = {b1, b2}
  Reader = reader
  Monitor = monitor
  Consumer = consumer
  Producers <- MCProducers
  NoBuffer = nobuffer
  MaxDepth = 2
  BufferSize = 3
  ChunkSize = 2
  Bytes <- MCBytes
  NullByte = "0"
  Payloads <- MCPayloads
INVARIANTS OnePlace NeverBlockedHolding
PROPERTIES StreamPreserved QueuedBytesStable BuffersKeepMoving
