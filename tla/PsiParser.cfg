SPECIFICATION FairSpec
CONSTANTS
  Channels = {"protected", "open"}
  NoChannel = nochannel
  Broadcast <- mcBroadcast
  Pids <- mcPids
  NoPid = nopid
  PatPid = 0
  Versions <- mcVersions
  NoVersion = noversion
  NoTable = notable
  Joins = {1}
  ChunkSize = 2
  MaxQueue = 1
  MaxOpens = 2
  MaxMessages = 2
  SameVersion = FALSE
INVARIANTS TablesChained OncePerSwitch PublishesSelected
PROPERTIES CleanSwitchPublished ClearNeedsNoCdm
CHECK_DEADLOCK FALSE
