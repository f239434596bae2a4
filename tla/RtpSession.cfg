SPECIFICATION SessionSpec
CONSTANTS
  Modulus = 32
  MaxCache = 4
  MaxDiff = 6
  ByteRange = 8
  Ids <- MCIds
  Extras <- MCExtras
  MaxArrivals = 9
  Starts <- MCStarts
  Window = 2
  MaxLost = 1
INVARIANTS InOrder OnlyLostSkipped NeverAborts NothingDropped
PROPERTY ScanTerminates
CHECK_DEADLOCK FALSE
