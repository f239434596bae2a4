SPECIFICATION TimeShiftSpec
CONSTANTS
  Handles = {1}
  Window = 2
  Speeds <- TrickSpeeds
  SeekTimes = {2}
  Paces = {1, 2}
  MaxChunks = 5
  MaxRequests = 5
INVARIANTS SeekWithinIndex  SpeedAnnounced ThrottlingReturns
CHECK_DEADLOCK FALSE
