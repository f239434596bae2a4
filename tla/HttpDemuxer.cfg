SPECIFICATION HttpSpec
CONSTANTS
  Channels = {c1, c2}
  NoUri = nouri
  BufferSize = 2
  PoolSize = 2
  MaxPiece = 3
  NumberRange = 8
INVARIANTS StreamComplete LabelOfLastByte
PROPERTY OpenReturns
CHECK_DEADLOCK FALSE
