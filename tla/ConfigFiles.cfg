SPECIFICATION FilesSpec
CONSTANTS
  Clients = {c1, c2}
  Threads = {t1}
  Free = free
  NoFile = nofile
  Files = {"stream_status", "stat_channel", "drm0", "cdm_ready0", "seek0", "trick_play0", "chan_select0", "ecm0", "player_state0"}
  Readable = {"stream_status", "stat_channel", "drm0", "seek0", "trick_play0", "chan_select0", "ecm0"}
  Writable = {"cdm_ready0", "seek0", "trick_play0", "chan_select0", "player_state0"}
  ContentSize <- MCContentSize
  ChunkSize = 1
  Torn = torn
  MaxUpdates = 3
SYMMETRY FilesSymmetry
INVARIANTS NotifiedReadIsNew ChunksAssemble OnlyTimerAgainstReset
CHECK_DEADLOCK FALSE
