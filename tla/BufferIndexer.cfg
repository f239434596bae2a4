SPECIFICATION IndexerSpec
CONSTANTS
  PoolSize = 8
  TailSize = 2
  SamplingRatio = 2
  TimeSteps = {1, 3}
  SeekTimes = {0, 2, 3, 5}
  SeekOffsets = {0, 3}
  MaxChunks = 9
  MaxClears = 1
CHECK_DEADLOCK FALSE
INVARIANTS SamplesOrdered ExposedIsRetained SeekRoundTrip AnswersInRange
