---------------------------- MODULE RoutedHandler ----------------------------
(***************************************************************************)
(* The route monitor and the media source handler together: the messages   *)
(* of NetworkRouteObserver are those that dispatchDefaultRouteChange       *)
(* makes it send, and the monitor is started by messageLoop.               *)
(***************************************************************************)
EXTENDS MediaSourceHandler, NetworkRouteMonitor

CONSTANT
  MaxEvents     \* bound: channel switches, route changes and interrupted recvs

ASSUME EventsAssumption == MaxEvents \in Nat

VARIABLES
  switches, \* channel switches so far
  raced     \* when open() last replaced mCurrentUri, a re-join had read the old
            \* one and not yet opened the demuxer with it

routedVars == <<handlerVars, routeChanges, monitorVars, switches, raced>>

(* The callback is called when the interface is another one.               *)
dispatch(i) ==
  /\ dispatchDefaultRouteChange(i)
  /\ IF i # mRoute THEN defaultRouteChanged(i # NoInterface) ELSE UNCHANGED handlerVars

RoutedInit == Init /\ RouteInit /\ switches = 0 /\ raced = FALSE

(* Counts the channel switches, within the bound.                          *)
countEvents ==
  /\ switches' = IF api = "idle" /\ api' # "idle" THEN switches + 1 ELSE switches
  /\ switches' + kernelSteps' <= MaxEvents

(* The monitor is stopped when the process exits, after the last request   *)
(* of a client: what the handler's threads still do then is left out.      *)
RoutedNext ==
  /\ UNCHANGED routeChanges
  /\ \/ ~mRequestExit /\ HandlerNext /\ UNCHANGED monitorVars
     \/ (kernelNext \/ routePollThread) /\ UNCHANGED handlerVars
     \/ api = "idle" /\ stopMonitor /\ UNCHANGED handlerVars
     \/ \E i \in Interfaces \cup {NoInterface} : dispatch(i)
  /\ raced' = IF api = "configure" /\ api' # "configure" THEN msg = "tune" ELSE raced
  /\ countEvents

RoutedSpec == RoutedInit /\ [][RoutedNext]_routedVars

-----------------------------------------------------------------------------
(* While the kernel has a gateway and nothing is in flight between kernel, *)
(* monitor and handler, the demuxer plays the selected channel: an outage, *)
(* a moved route, a lost notification or a re-join does not leave it on    *)
(* NO_CHANNEL_URL or on a channel that was left.  The exceptions are those *)
(* of the code: a deletion was taken for that of the gateway, a re-join    *)
(* that had read the old channel opened it after the switch, or a listener *)
(* cannot join the channel because it has no address.                      *)
DemuxerFollowsRoute ==
  /\ quiescent /\ drained
  /\ gateways(kernel) # {} /\ ~ambiguous /\ ~raced
  /\ mCurrentUri # NoUri /\ (listener => hasDestination)
  => tuned = mCurrentUri

=============================================================================
