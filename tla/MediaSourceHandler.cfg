SPECIFICATION FairSpec
CONSTANTS
  u1 = u1
  Uris = {u1}
  Extracted <- OneChannel
  NoPort = noport
  DefaultPort = 1
  MaxPort = 3
  NoUri = nouri
  NoChannel = nochannel
  LostAfter = 1
  RejoinAfter = 2
  MaxAge = 3
  MaxMessages = 1
  MaxRouteChanges = 1
  CounterRange = 1
  ListenerBuilds = {TRUE, FALSE}
INVARIANTS AtMostOneStaleBatch
PROPERTIES SilentChannelRejoined  OldStreamEnded
