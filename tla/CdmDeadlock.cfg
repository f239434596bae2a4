SPECIFICATION FilesSpec
CONSTANTS
  Clients = {c1, c2}
  Threads = {t1}
  Free = free
  NoFile = nofile
  Files = {"cdm_ready0", "chan_select0"}
  Readable = {"cdm_ready0"}
  Writable = {"chan_select0"}
  ContentSize <- MCContentSize
  ChunkSize = 1
  Torn = torn
  MaxUpdates = 2
INVARIANT NoCircularWait
CHECK_DEADLOCK FALSE
