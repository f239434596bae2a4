SPECIFICATION RoutedSpec
CONSTANTS
  u1 = u1
  i1 = i1
  i2 = i2
  Uris = {u1}
  Extracted <- OneChannel
  NoPort = noport
  DefaultPort = 1
  MaxPort = 3
  NoUri = nouri
  NoChannel = nochannel
  LostAfter = 0
  RejoinAfter = 0
  MaxAge = 1
  MaxMessages = 2
  MaxRouteChanges = 0
  CounterRange = 1
  ListenerBuilds = {FALSE}
  Interfaces = {i1, i2}
  NoInterface = nointerface
  Routes <- ThreeRoutes
  MaxKernelSteps = 2
  MaxDatagrams = 2
  MaxLost = 1
  MaxEvents = 3
VIEW RoutedView
INVARIANTS RouteFollowsKernel NoRouteMissed 
CHECK_DEADLOCK FALSE
