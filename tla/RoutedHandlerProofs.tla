------------------------- MODULE RoutedHandlerProofs -------------------------
(***************************************************************************)
(* Theorems about MediaSourceHandler, alone and with the route monitor,    *)
(* for every set of channels, interfaces and routes, every threshold,      *)
(* either kind of demuxer and any number of messages, route changes and    *)
(* lost notifications.                                                     *)
(***************************************************************************)
EXTENDS RoutedHandler, TLAPS

(* What can happen to the handler, whoever calls defaultRouteChanged.      *)
HandlerStep ==
  \/ HandlerNext
  \/ \E found \in BOOLEAN : defaultRouteChanged(found)
  \/ UNCHANGED handlerVars

(* With its environment or with the route monitor, the handler takes the   *)
(* same steps.                                                             *)
LEMMA StepsOfHandler ==
  /\ [Next]_vars => HandlerStep
  /\ [RoutedNext]_routedVars => HandlerStep
<1>1. [Next]_vars => HandlerStep
  BY DEF Next, routeChange, HandlerStep, vars
<1>2. ASSUME NEW i, dispatch(i) PROVE HandlerStep
  <2>1. (i # NoInterface) \in BOOLEAN
    OBVIOUS
  <2> QED BY <1>2, <2>1 DEF dispatch, HandlerStep
<1>3. [RoutedNext]_routedVars => HandlerStep
  BY <1>2 DEF RoutedNext, routedVars, HandlerStep
<1> QED BY <1>1, <1>3

(* Once a stale batch has been injected the monitor is between two polls   *)
(* and the data is recent; only a tick can change that, and it begins a    *)
(* new count.                                                              *)
StaleInv ==
  /\ age \in Nat
  /\ staleNulls \in {0, 1}
  /\ staleNulls = 1 => age <= LostAfter /\ mon = "sleep"

(* StaleInv is inductive.                                                  *)
LEMMA StaleInductive == StaleInv /\ HandlerStep => StaleInv'
<1> SUFFICES ASSUME StaleInv, HandlerStep PROVE StaleInv'
  OBVIOUS
<1> USE DEF StaleInv
<1>1. CASE UNCHANGED handlerVars
  BY <1>1 DEF handlerVars, monVars
<1>2. ASSUME NEW u \in Uris \cup {NoUri}, openStart(u) PROVE StaleInv'
  BY <1>2 DEF openStart, notByApi, monVars
<1>3. CASE openStep
  <2>1. UNCHANGED monVars
    BY <1>3 DEF openStep, openConfigure, openDisconnect, openConnect, openTune, openFinish,
                notByApi
  <2>2. age' = age \/ age' = 0
    BY <1>3 DEF openStep, openConfigure, openDisconnect, openConnect, openTune, openFinish
  <2> QED BY <2>1, <2>2, HandlerAssumption DEF monVars
<1>4. CASE lockAndWait \/ report \/ reportStep
  <2>1. UNCHANGED monVars
    BY <1>4 DEF lockAndWait, report, reportStep, reportClear, reportFormat, reportWrite, notByReader
  <2>2. age' = age \/ age' = 0
    BY <1>4 DEF lockAndWait, report, reportStep, reportClear, reportFormat, reportWrite
  <2> QED BY <2>1, <2>2, HandlerAssumption DEF monVars
<1>5. CASE monitorStep
  <2>1. age' = age
    BY <1>5 DEF monitorStep, pollQuiet, pollRejoin, pollLost, monitorLost, monitorFormat,
                monitorWrite, monitorInject, notByMonitor
  <2>2. CASE pollQuiet \/ pollRejoin
    BY <2>1, <2>2 DEF pollQuiet, pollRejoin
  <2>3. CASE pollLost
    BY <2>1, <2>3, HandlerAssumption DEF pollLost, lossDetected
  <2>4. CASE monitorLost \/ monitorFormat \/ monitorWrite
    BY <2>1, <2>4 DEF monitorLost, monitorFormat, monitorWrite
  <2>5. CASE monitorInject
    BY <2>1, <2>5 DEF monitorInject
  <2> QED BY <1>5, <2>2, <2>3, <2>4, <2>5 DEF monitorStep
<1>6. CASE messageStep
  <2>1. UNCHANGED monVars
    BY <1>6 DEF messageStep, noGateway, newGatewayTake, newGateway, newGatewayOpen,
                noMulticast,
                rejoinDisconnect, rejoinConnect, rejoinRead, rejoinTune, notByMessage
  <2>2. age' = age \/ age' = 0
    BY <1>6 DEF messageStep, noGateway, newGatewayTake, newGateway, newGatewayOpen,
                noMulticast,
                rejoinDisconnect, rejoinConnect, rejoinRead, rejoinTune
  <2> QED BY <2>1, <2>2, HandlerAssumption DEF monVars
<1>7. CASE tick
  BY <1>7, HandlerAssumption DEF tick
<1>8. ASSUME NEW found \in BOOLEAN, defaultRouteChanged(found) PROVE StaleInv'
  BY <1>8 DEF defaultRouteChanged, monVars
<1> QED BY <1>1, <1>2, <1>3, <1>4, <1>5, <1>6, <1>7, <1>8 DEF HandlerStep, HandlerNext

(* After data has arrived at most one batch of null packets is injected,   *)
(* wherever reader and monitor interrupt each other.                       *)
THEOREM OneStaleBatch == Spec => []AtMostOneStaleBatch
<1>1. Init => StaleInv
  BY HandlerAssumption DEF Init, StaleInv
<1>2. StaleInv => AtMostOneStaleBatch
  BY DEF StaleInv, AtMostOneStaleBatch
<1> QED BY <1>1, <1>2, StaleInductive, StepsOfHandler, PTL DEF Spec

-----------------------------------------------------------------------------
(* While a stream is open, or open() is past its connect, the session is   *)
(* connected, or the demuxer has refused to connect it, or a re-join is    *)
(* about to connect it.                                                    *)
SessionInv ==
  /\ connected \in BOOLEAN
  /\ streaming # NoUri \/ api \in {"tune", "finish"} =>
       connected \/ connectFailed \/ msg = "connect"

(* SessionInv is inductive.                                                *)
LEMMA SessionInductive == SessionInv /\ HandlerStep => SessionInv'
<1> SUFFICES ASSUME SessionInv, HandlerStep PROVE SessionInv'
  OBVIOUS
<1> USE DEF SessionInv
<1>1. CASE UNCHANGED handlerVars
  BY <1>1 DEF handlerVars, sessionVars, apiVars, msgVars
<1>2. ASSUME NEW u \in Uris \cup {NoUri}, openStart(u) PROVE SessionInv'
  BY <1>2 DEF openStart, notByApi, sessionVars, msgVars
<1>3. CASE openStep
  <2>1. UNCHANGED msg
    BY <1>3 DEF openStep, openConfigure, openDisconnect, openConnect, openTune, openFinish,
                notByApi, msgVars
  <2>2. CASE openConfigure
    BY <2>1, <2>2 DEF openConfigure, sessionVars
  <2>3. CASE openDisconnect
    BY <2>1, <2>3 DEF openDisconnect, disconnect, onEndOfStream
  <2>4. CASE openConnect
    BY <2>1, <2>4 DEF openConnect, connect
  <2>5. CASE openTune
    BY <2>1, <2>5 DEF openTune
  <2>6. CASE openFinish
    BY <2>1, <2>6 DEF openFinish, sessionVars
  <2> QED BY <1>3, <2>2, <2>3, <2>4, <2>5, <2>6 DEF openStep
<1>4. CASE lockAndWait \/ report \/ reportStep
  <2>1. UNCHANGED notByReader
    BY <1>4 DEF lockAndWait, report, reportStep, reportClear, reportFormat, reportWrite
  <2> QED BY <2>1 DEF notByReader, sessionVars, apiVars, msgVars
<1>5. CASE monitorStep
  <2>1. UNCHANGED notByMonitor
    BY <1>5 DEF monitorStep, pollQuiet, pollRejoin, pollLost, monitorLost, monitorFormat,
                monitorWrite, monitorInject
  <2> QED BY <2>1 DEF notByMonitor, sessionVars, apiVars, msgVars
<1>6. CASE messageStep
  <2>1. UNCHANGED <<streaming, api>>
    BY <1>6 DEF messageStep, noGateway, newGatewayTake, newGateway, newGatewayOpen,
                noMulticast, rejoinDisconnect, rejoinConnect, rejoinRead, rejoinTune,
                notByMessage, apiVars
  <2>2. CASE noGateway \/ newGatewayTake \/ newGateway \/ newGatewayOpen
    BY <2>1, <2>2 DEF noGateway, newGatewayTake, newGateway, newGatewayOpen, isNext,
                      sessionVars, msgVars
  <2>3. CASE noMulticast \/ rejoinDisconnect
    BY <2>1, <2>3 DEF noMulticast, rejoinDisconnect, isNext, sessionVars
  <2>4. CASE rejoinConnect
    BY <2>1, <2>4 DEF rejoinConnect, connect
  <2>5. CASE rejoinRead \/ rejoinTune
    BY <2>1, <2>5 DEF rejoinRead, rejoinTune, sessionVars
  <2> QED BY <1>6, <2>2, <2>3, <2>4, <2>5 DEF messageStep
<1>7. CASE tick
  BY <1>7 DEF tick, sessionVars, apiVars, msgVars
<1>8. ASSUME NEW found \in BOOLEAN, defaultRouteChanged(found) PROVE SessionInv'
  BY <1>8 DEF defaultRouteChanged, sessionVars, apiVars, msgVars
<1> QED BY <1>1, <1>2, <1>3, <1>4, <1>5, <1>6, <1>7, <1>8 DEF HandlerStep, HandlerNext

(* Only openDisconnect leaves the place where open() disconnects.          *)
LEMMA OnlyDisconnectLeaves ==
  ASSUME HandlerStep, api = "disconnect", api' # "disconnect" PROVE openDisconnect
<1>1. CASE \E u \in Uris \cup {NoUri} : openStart(u)
  BY <1>1 DEF openStart
<1>2. CASE openStep
  BY <1>2 DEF openStep, openConfigure, openConnect, openTune, openFinish
<1>3. CASE lockAndWait \/ report \/ reportStep
  BY <1>3 DEF lockAndWait, report, reportStep, reportClear, reportFormat, reportWrite,
              notByReader, apiVars
<1>4. CASE monitorStep
  BY <1>4 DEF monitorStep, pollQuiet, pollRejoin, pollLost, monitorLost, monitorFormat,
              monitorWrite, monitorInject, notByMonitor, apiVars
<1>5. CASE messageStep
  BY <1>5 DEF messageStep, noGateway, newGatewayTake, newGateway, newGatewayOpen,
              noMulticast, rejoinDisconnect, rejoinConnect, rejoinRead, rejoinTune,
              notByMessage, apiVars
<1>6. CASE tick \/ UNCHANGED handlerVars
  BY <1>6 DEF tick, handlerVars, apiVars
<1>7. CASE \E found \in BOOLEAN : defaultRouteChanged(found)
  BY <1>7 DEF defaultRouteChanged, apiVars
<1> QED BY <1>1, <1>2, <1>3, <1>4, <1>5, <1>6, <1>7 DEF HandlerStep, HandlerNext

(* When open() has disconnected the old stream has ended, under every      *)
(* interleaving with re-joins and route changes, unless the demuxer        *)
(* refused to connect or a re-join is between disconnect and connect.      *)
THEOREM SwitchEndsOldStream ==
  (Spec => OldStreamEnded) /\ (RoutedSpec => OldStreamEnded)
<1> DEFINE Ends == api = "disconnect" /\ api' # "disconnect" /\ ~connectFailed
                   /\ msg # "connect" => streaming' = NoUri
<1>1. Init => SessionInv
  BY DEF Init, SessionInv
<1>2. RoutedInit => SessionInv
  BY <1>1 DEF RoutedInit
<1>3. SessionInv /\ HandlerStep => Ends
  BY OnlyDisconnectLeaves DEF SessionInv, openDisconnect, disconnect, onEndOfStream
<1>4. Spec => OldStreamEnded
  <2>1. SessionInv /\ [Next]_vars => SessionInv' /\ [Ends]_vars
    BY <1>3, SessionInductive, StepsOfHandler
  <2> QED BY <1>1, <2>1, PTL DEF Spec, OldStreamEnded
<1>5. RoutedSpec => OldStreamEnded
  <2>1. SessionInv /\ [RoutedNext]_routedVars => SessionInv' /\ [Ends]_vars
    BY <1>3, SessionInductive, StepsOfHandler
  <2> QED BY <1>2, <2>1, PTL DEF RoutedSpec, OldStreamEnded
<1> QED BY <1>4, <1>5

-----------------------------------------------------------------------------
(* The route monitor.                                                      *)

Entries == Interfaces \X Nat

Messages ==
  [type : {"NEWROUTE", "DELROUTE"},
   routes : SUBSET (Interfaces \X Nat \X {"default", "network", "link"})]

(* What a datagram does to the monitor's knowledge of entry r.             *)
Brings(m, r) == m.type = "NEWROUTE" /\ r \in gateways(m.routes)
Takes(m, r) == m.type = "DELROUTE" /\ \E g \in m.routes : matches(g, r)

(* The gateways of a set of routes.                                        *)
LEMMA GatewayEntries ==
  /\ \A R \in SUBSET (Interfaces \X Nat \X {"default", "network", "link"}) :
       gateways(R) \in SUBSET Entries
  /\ \A R, r : r \in gateways(R) <=> \E q \in R : q[3] # "link" /\ r = <<q[1], q[2]>>
<1>1. \A R, r : r \in gateways(R) <=> \E q \in R : q[3] # "link" /\ r = <<q[1], q[2]>>
  BY DEF gateways
<1> QED BY <1>1 DEF Entries

(* The monitor will know entry r when it has received what is in the       *)
(* socket: the last datagram about r brings it, or there is none and it    *)
(* knows r already.                                                        *)
Kept(r) ==
  \/ r \in mDefaultRoutes /\ \A k \in 1..Len(socket) : ~Takes(socket[k], r)
  \/ \E k \in 1..Len(socket) :
       Brings(socket[k], r) /\ \A j \in (k + 1)..Len(socket) : ~Takes(socket[j], r)

(* A datagram is queued.                                                   *)
LEMMA AppendKept ==
  ASSUME socket \in Seq(Messages), NEW m \in Messages,
         socket' = Append(socket, m), mDefaultRoutes' = mDefaultRoutes, NEW r \in Entries
  PROVE  Kept(r)' <=> (Kept(r) /\ ~Takes(m, r)) \/ Brings(m, r)
<1> DEFINE n == Len(socket)
<1>1. /\ n \in Nat /\ Len(socket') = n + 1 /\ socket'[n + 1] = m
      /\ \A k \in 1..n : socket'[k] = socket[k]
  OBVIOUS
<1>2. ~(Brings(m, r) /\ Takes(m, r))
  BY DEF Brings, Takes
<1> HIDE DEF n
<1>3. Kept(r)' <=>
        \/ r \in mDefaultRoutes /\ \A k \in 1..(n + 1) : ~Takes(socket'[k], r)
        \/ \E k \in 1..(n + 1) :
             Brings(socket'[k], r) /\ \A j \in (k + 1)..(n + 1) : ~Takes(socket'[j], r)
  BY <1>1 DEF Kept, Brings, Takes
<1>4. Kept(r) <=>
        \/ r \in mDefaultRoutes /\ \A k \in 1..n : ~Takes(socket[k], r)
        \/ \E k \in 1..n :
             Brings(socket[k], r) /\ \A j \in (k + 1)..n : ~Takes(socket[j], r)
  BY DEF Kept, n
<1>5. CASE Takes(m, r)
  <2>1. \A k \in 1..(n + 1) : k = n + 1 \/ n + 1 \in (k + 1)..(n + 1)
    BY <1>1
  <2>2. n + 1 \in 1..(n + 1)
    BY <1>1
  <2> QED BY <1>1, <1>2, <1>3, <1>5, <2>1, <2>2
<1>6. CASE Brings(m, r)
  <2>1. n + 1 \in 1..(n + 1) /\ (n + 1 + 1)..(n + 1) = {}
    BY <1>1
  <2> QED BY <1>1, <1>3, <1>6, <2>1
<1>7. CASE ~Takes(m, r) /\ ~Brings(m, r)
  <2>1. \A k \in 1..(n + 1) : k \in 1..n \/ k = n + 1
    BY <1>1
  <2>2. \A k \in 1..n : k \in 1..(n + 1)
    BY <1>1
  <2>3. \A k \in 1..n : \A j : j \in (k + 1)..(n + 1) <=> j \in (k + 1)..n \/ j = n + 1
    BY <1>1
  <2>4. \A k \in 1..n : \A j \in (k + 1)..n : j \in 1..n
    BY <1>1
  <2>5. \A k \in 1..n :
          /\ Takes(socket'[k], r) <=> Takes(socket[k], r)
          /\ Brings(socket'[k], r) <=> Brings(socket[k], r)
    BY <1>1
  <2>6. (\A k \in 1..(n + 1) : ~Takes(socket'[k], r)) <=> \A k \in 1..n : ~Takes(socket[k], r)
    BY <1>1, <1>7, <2>1, <2>2, <2>5
  <2>7. \A k \in 1..n : (\A j \in (k + 1)..(n + 1) : ~Takes(socket'[j], r))
                        <=> \A j \in (k + 1)..n : ~Takes(socket[j], r)
    BY <1>1, <1>7, <2>3, <2>4, <2>5
  <2>8. ~Brings(socket'[n + 1], r)
    BY <1>1, <1>7
  <2> QED BY <1>3, <1>4, <1>7, <2>1, <2>2, <2>5, <2>6, <2>7, <2>8
<1> QED BY <1>5, <1>6, <1>7

(* A datagram is received.                                                 *)
LEMMA RecvKept ==
  ASSUME socket \in Seq(Messages), socket # <<>>, socket' = Tail(socket),
         mDefaultRoutes \in SUBSET Entries, mDefaultRoutes' = applied(Head(socket)),
         NEW r \in Entries
  PROVE  Kept(r)' <=> Kept(r)
<1> DEFINE n == Len(socket)
           m == Head(socket)
<1>1. /\ n \in Nat \ {0} /\ Len(socket') = n - 1 /\ m = socket[1] /\ m \in Messages
      /\ \A k \in 1..(n - 1) : socket'[k] = socket[k + 1]
  OBVIOUS
<1>2. r \in mDefaultRoutes' <=> (r \in mDefaultRoutes /\ ~Takes(m, r)) \/ Brings(m, r)
  BY <1>1 DEF applied, deleted, Takes, Brings, Messages
<1>3. ~(Brings(m, r) /\ Takes(m, r))
  BY DEF Brings, Takes
<1> HIDE DEF n, m
<1>4. Kept(r)' <=>
        \/ r \in mDefaultRoutes' /\ \A k \in 1..(n - 1) : ~Takes(socket'[k], r)
        \/ \E k \in 1..(n - 1) :
             Brings(socket'[k], r) /\ \A j \in (k + 1)..(n - 1) : ~Takes(socket'[j], r)
  BY <1>1 DEF Kept, Brings, Takes
<1>5. Kept(r) <=>
        \/ r \in mDefaultRoutes /\ \A k \in 1..n : ~Takes(socket[k], r)
        \/ \E k \in 1..n :
             Brings(socket[k], r) /\ \A j \in (k + 1)..n : ~Takes(socket[j], r)
  BY DEF Kept, n
<1>7. ASSUME NEW k \in 1..(n - 1)
      PROVE  /\ k + 1 \in 2..n
             /\ Takes(socket'[k], r) <=> Takes(socket[k + 1], r)
             /\ Brings(socket'[k], r) <=> Brings(socket[k + 1], r)
  BY <1>1
<1>8. ASSUME NEW k \in 0..(n - 1)
      PROVE  (\A j \in (k + 1)..(n - 1) : ~Takes(socket'[j], r))
             <=> \A j \in (k + 2)..n : ~Takes(socket[j], r)
  <2>1. \A j \in (k + 1)..(n - 1) : j + 1 \in (k + 2)..n /\ j \in 1..(n - 1)
    BY <1>1
  <2>2. \A j \in (k + 2)..n : j - 1 \in (k + 1)..(n - 1) /\ j - 1 \in 1..(n - 1)
                              /\ j = (j - 1) + 1
    BY <1>1
  <2> QED BY <1>7, <2>1, <2>2
<1>9. (\A k \in 1..(n - 1) : ~Takes(socket'[k], r)) <=> \A k \in 2..n : ~Takes(socket[k], r)
  BY <1>1, <1>8
<1>10. (\E k \in 1..(n - 1) :
          Brings(socket'[k], r) /\ \A j \in (k + 1)..(n - 1) : ~Takes(socket'[j], r))
       <=> \E k \in 2..n :
             Brings(socket[k], r) /\ \A j \in (k + 1)..n : ~Takes(socket[j], r)
  <2> DEFINE P(k) == Brings(socket'[k], r)
                     /\ \A j \in (k + 1)..(n - 1) : ~Takes(socket'[j], r)
             Q(k) == Brings(socket[k], r) /\ \A j \in (k + 1)..n : ~Takes(socket[j], r)
  <2>1. ASSUME NEW k \in 1..(n - 1) PROVE P(k) <=> Q(k + 1)
    <3>1. k \in 0..(n - 1) /\ (k + 1) + 1 = k + 2
      BY <1>1
    <3> QED BY <1>7, <1>8, <3>1
  <2> HIDE DEF P, Q
  <2>2. (\E k \in 1..(n - 1) : P(k)) => \E k \in 2..n : Q(k)
    BY <1>1, <2>1
  <2>3. ASSUME NEW k \in 2..n, Q(k) PROVE \E l \in 1..(n - 1) : P(l)
    <3>1. k - 1 \in 1..(n - 1) /\ (k - 1) + 1 = k
      BY <1>1
    <3> QED BY <2>1, <2>3, <3>1
  <2> QED BY <2>2, <2>3 DEF P, Q
<1>11. /\ \A k : k \in 1..n <=> k = 1 \/ k \in 2..n
       /\ (1 + 1)..n = 2..n
  BY <1>1
<1> DEFINE later == \A k \in 2..n : ~Takes(socket[k], r)
           among == \E k \in 2..n :
                      Brings(socket[k], r) /\ \A j \in (k + 1)..n : ~Takes(socket[j], r)
<1>12. Kept(r)' <=> (r \in mDefaultRoutes' /\ later) \/ among
  BY <1>4, <1>9, <1>10
<1>13. (\A k \in 1..n : ~Takes(socket[k], r)) <=> ~Takes(m, r) /\ later
  BY <1>1, <1>11
<1>14. (\E k \in 1..n : Brings(socket[k], r) /\ \A j \in (k + 1)..n : ~Takes(socket[j], r))
       <=> (Brings(m, r) /\ later) \/ among
  BY <1>1, <1>11
<1> HIDE DEF later, among
<1> QED BY <1>2, <1>3, <1>5, <1>12, <1>13, <1>14

(* What can happen to the monitor, also as a part of RoutedHandler.        *)
MonitorStep ==
  \/ kernelNext \/ routePollThread \/ stopMonitor
  \/ \E i \in Interfaces \cup {NoInterface} : dispatchDefaultRouteChange(i)
  \/ UNCHANGED monitorVars

LEMMA StepsOfMonitor == [RoutedNext]_routedVars => MonitorStep
  BY DEF RoutedNext, dispatch, routedVars, MonitorStep

MonitorTypes ==
  /\ kernel \in SUBSET Routes /\ mDefaultRoutes \in SUBSET Entries
  /\ socket \in Seq(Messages)
  /\ overrun \in BOOLEAN /\ lost \in Nat

(* The monitor will know every gateway of the kernel, unless it is going   *)
(* to ask for all routes, has ended or was sent an ambiguous deletion; and *)
(* only gateways of the kernel, unless a notification was lost.  The       *)
(* interface it reported is that of the best one it knows, unless it is    *)
(* about to report.                                                        *)
MirrorInv ==
  /\ MonitorTypes
  /\ \/ overrun \/ rmon \in {"created", "request", "closed"} \/ ambiguous
     \/ \A r \in gateways(kernel) : Kept(r)
  /\ lost = 0 /\ rmon # "closed" => \A r \in Entries : Kept(r) => r \in gateways(kernel)
  /\ rmon # "dispatch" => isFront(mRoute)

(* Kernel and monitor agree on a change that is notified, and one that is  *)
(* not is followed by a failing recv.                                      *)
LEMMA KernelKeepsMirror ==
  ASSUME MirrorInv, kernelNext PROVE MirrorInv'
<1> DEFINE isNotified(m) ==
             /\ socket' = Append(socket, m) /\ UNCHANGED <<overrun, lost>>
           isLost ==
             /\ lost' = lost + 1 /\ overrun' = TRUE /\ UNCHANGED socket
<1>1. UNCHANGED <<mDefaultRoutes, mRoute, rmon>>
  BY DEF kernelNext, routeAdded, routeDeleted, linkDown, kernelStep, threadVars
<1>2. isFront(mRoute)' <=> isFront(mRoute)
  BY <1>1 DEF isFront
<1>3. ASSUME NEW m \in Messages, kernel' \in SUBSET Routes, isNotified(m),
             ambiguous => ambiguous',
             ~ambiguous' => \A r \in gateways(kernel') :
                              (r \in gateways(kernel) /\ ~Takes(m, r)) \/ Brings(m, r),
             \A r \in Entries : (r \in gateways(kernel) /\ ~Takes(m, r)) \/ Brings(m, r)
                                => r \in gateways(kernel')
      PROVE  MirrorInv'
  <2>1. \A r \in Entries : Kept(r)' <=> (Kept(r) /\ ~Takes(m, r)) \/ Brings(m, r)
    BY <1>1, <1>3, AppendKept DEF MirrorInv, MonitorTypes
  <2>2. MonitorTypes'
    BY <1>1, <1>3 DEF MirrorInv, MonitorTypes
  <2>3. gateways(kernel') \in SUBSET Entries
    BY <1>3, GatewayEntries, RouteAssumption
  <2>4. (\/ overrun \/ rmon \in {"created", "request", "closed"} \/ ambiguous
         \/ \A r \in gateways(kernel) : Kept(r))'
    BY <1>1, <1>3, <2>1, <2>3 DEF MirrorInv
  <2>5. (lost = 0 /\ rmon # "closed"
         => \A r \in Entries : Kept(r) => r \in gateways(kernel))'
    BY <1>1, <1>3, <2>1 DEF MirrorInv, Entries
  <2> QED BY <1>1, <1>2, <2>2, <2>4, <2>5 DEF MirrorInv
<1>4. ASSUME isLost, kernel' \in SUBSET Routes PROVE MirrorInv'
  <2>1. MonitorTypes'
    BY <1>1, <1>4 DEF MirrorInv, MonitorTypes
  <2>2. lost' # 0
    BY <1>4 DEF MirrorInv, MonitorTypes
  <2> QED BY <1>1, <1>2, <1>4, <2>1, <2>2 DEF MirrorInv
<1>5. ASSUME NEW d \in Routes, routeAdded(d) PROVE MirrorInv'
  <2> DEFINE m == [type |-> "NEWROUTE", routes |-> {d}]
  <2>1. m \in Messages /\ kernel' \in SUBSET Routes
    BY <1>5, RouteAssumption DEF routeAdded, Messages, MirrorInv, MonitorTypes
  <2>2. \A r : ~Takes(m, r) /\ (Brings(m, r) <=> r \in gateways({d}))
    BY DEF Takes, Brings
  <2>3. /\ kernel' = kernel \cup {d} /\ (isNotified(m) \/ isLost)
        /\ UNCHANGED ambiguous
    BY <1>5 DEF routeAdded, notify
  <2>4. \A r : r \in gateways(kernel') <=> r \in gateways(kernel) \/ r \in gateways({d})
    BY <2>3, GatewayEntries
  <2> HIDE DEF m, isNotified, isLost
  <2> QED BY <1>3, <1>4, <2>1, <2>2, <2>3, <2>4 DEF MirrorInv, MonitorTypes
<1>6. ASSUME NEW g \in Interfaces \X Nat \X {"default", "network", "link"}, deletion(g),
             kernel' \in SUBSET kernel,
             \A q \in kernel \ kernel' : matches(g, <<q[1], q[2]>>)
      PROVE  MirrorInv'
  <2> DEFINE m == [type |-> "DELROUTE", routes |-> {g}]
  <2>1. m \in Messages /\ kernel' \in SUBSET Routes
    BY <1>6 DEF Messages, MirrorInv, MonitorTypes
  <2>2. \A r : ~Brings(m, r) /\ (Takes(m, r) <=> matches(g, r))
    BY DEF Takes, Brings
  <2>3. /\ isNotified(m) \/ isLost
        /\ ambiguous' = (ambiguous \/ \E r \in gateways(kernel') : matches(g, r))
    BY <1>6 DEF deletion, notify
  <2>4. \A r \in gateways(kernel') : r \in gateways(kernel)
    BY <1>6, GatewayEntries
  <2>5. ASSUME NEW r, r \in gateways(kernel), ~matches(g, r)
        PROVE  r \in gateways(kernel')
    <3>1. PICK q \in kernel : q[3] # "link" /\ r = <<q[1], q[2]>>
      BY <2>5, GatewayEntries
    <3>2. q \in kernel'
      BY <1>6, <2>5, <3>1
    <3> QED BY <3>1, <3>2, GatewayEntries
  <2> HIDE DEF m, isNotified, isLost
  <2> QED BY <1>3, <1>4, <2>1, <2>2, <2>3, <2>4, <2>5
<1>7. ASSUME NEW d \in kernel, routeDeleted(d) PROVE MirrorInv'
  <2>1. d \in Interfaces \X Nat \X {"default", "network", "link"}
    BY <1>7, RouteAssumption DEF MirrorInv, MonitorTypes
  <2>2. kernel' = kernel \ {d} /\ deletion(d) /\ matches(d, <<d[1], d[2]>>)
    BY <1>7 DEF routeDeleted, matches
  <2> QED BY <1>6, <2>1, <2>2
<1>8. ASSUME NEW i \in Interfaces, linkDown(i) PROVE MirrorInv'
  <2> DEFINE g == <<i, 0, "link">>
  <2>1. g \in Interfaces \X Nat \X {"default", "network", "link"} /\ g[1] = i /\ g[2] = 0
    OBVIOUS
  <2>2. kernel' = {r \in kernel : r[1] # i} /\ deletion(g)
    BY <1>8 DEF linkDown
  <2>3. \A q \in kernel \ kernel' : matches(g, <<q[1], q[2]>>)
    <3> HIDE DEF g
    <3> QED BY <2>1, <2>2 DEF matches
  <2> QED BY <1>6, <2>1, <2>2, <2>3
<1> QED BY <1>5, <1>7, <1>8 DEF kernelNext

(* The monitor's own steps lose nothing of what it knows or will know.     *)
LEMMA ThreadKeepsMirror ==
  ASSUME MirrorInv,
         \/ routePollThread \/ stopMonitor
         \/ \E i \in Interfaces \cup {NoInterface} : dispatchDefaultRouteChange(i)
  PROVE  MirrorInv'
<1>1. /\ dump \in Messages
      /\ \A r : ~Takes(dump, r) /\ (Brings(dump, r) <=> r \in gateways(kernel))
  BY RouteAssumption DEF dump, Messages, Takes, Brings, MirrorInv, MonitorTypes
<1>2. ASSUME UNCHANGED <<kernel, lost, overrun, mDefaultRoutes, mRoute>>,
             socket' = Append(socket, dump),
             rmon = "dispatch" => rmon' = "dispatch", rmon = "closed" => rmon' = "closed"
      PROVE  MirrorInv'
  <2>1. \A r \in Entries : Kept(r)' <=> Kept(r) \/ r \in gateways(kernel)
    BY <1>1, <1>2, AppendKept DEF MirrorInv, MonitorTypes
  <2>2. MonitorTypes'
    BY <1>1, <1>2 DEF MirrorInv, MonitorTypes
  <2>3. isFront(mRoute)' <=> isFront(mRoute)
    BY <1>2 DEF isFront
  <2>4. gateways(kernel) \in SUBSET Entries
    BY GatewayEntries, RouteAssumption DEF MirrorInv, MonitorTypes
  <2>5. \A r \in gateways(kernel') : Kept(r)'
    BY <1>2, <2>1, <2>4
  <2>6. (lost = 0 /\ rmon # "closed"
         => \A r \in Entries : Kept(r) => r \in gateways(kernel))'
    BY <1>2, <2>1 DEF MirrorInv, Entries
  <2> QED BY <1>2, <2>2, <2>3, <2>5, <2>6 DEF MirrorInv
<1>3. ASSUME UNCHANGED <<kernel, lost, socket, mDefaultRoutes, mRoute>>,
             overrun' \in BOOLEAN,
             rmon \notin {"dispatch", "closed"}, rmon' \in {"request", "closed"}
      PROVE  MirrorInv'
  <2>1. \A r : Kept(r)' <=> Kept(r)
    BY <1>3 DEF Kept
  <2>2. isFront(mRoute)' <=> isFront(mRoute)
    BY <1>3 DEF isFront
  <2>3. MonitorTypes'
    BY <1>3 DEF MirrorInv, MonitorTypes
  <2> QED BY <1>3, <2>1, <2>2, <2>3 DEF MirrorInv, Entries
<1>4. CASE startMonitor \/ recvInterrupted \/ recvFailed
  BY <1>3, <1>4 DEF startMonitor, recvInterrupted, recvFailed, kernelVars, socketVars,
                    MirrorInv, MonitorTypes
<1>5. CASE sendRouteDumpRequest
  BY <1>2, <1>5 DEF sendRouteDumpRequest
<1>6. CASE stopMonitor
  BY <1>2, <1>6 DEF stopMonitor, threadVars
<1>7. CASE recv
  <2>1. socket \in Seq(Messages) /\ socket # <<>> /\ socket' = Tail(socket)
        /\ UNCHANGED <<kernel, ambiguous, lost, overrun, mRoute>>
    BY <1>7 DEF recv, MirrorInv, MonitorTypes, kernelVars
  <2>2. Head(socket) \in Messages /\ socket' \in Seq(Messages)
    BY <2>1
  <2>3. CASE mRequestExit
    <3>1. rmon' = "closed" /\ rmon = "recv" /\ UNCHANGED mDefaultRoutes
      BY <1>7, <2>3 DEF recv
    <3>2. isFront(mRoute)' <=> isFront(mRoute)
      BY <2>1, <3>1 DEF isFront
    <3>3. MonitorTypes'
      BY <2>1, <2>2, <3>1 DEF MirrorInv, MonitorTypes
    <3> QED BY <3>1, <3>2, <3>3 DEF MirrorInv
  <2>4. CASE ~mRequestExit
    <3>1. /\ mDefaultRoutes' = applied(Head(socket)) /\ rmon = "recv"
          /\ rmon' = IF updates(Head(socket)) THEN "dispatch" ELSE "recv"
      BY <1>7, <2>4 DEF recv
    <3>2. \A r \in Entries : Kept(r)' <=> Kept(r)
      BY <2>1, <3>1, RecvKept DEF MirrorInv, MonitorTypes
    <3>3. mDefaultRoutes' \in SUBSET Entries
      <4>1. gateways(Head(socket).routes) \in SUBSET Entries
        BY <2>2, GatewayEntries DEF Messages
      <4> QED BY <3>1, <4>1 DEF applied, MirrorInv, MonitorTypes
    <3>4. MonitorTypes'
      BY <2>1, <2>2, <3>3 DEF MirrorInv, MonitorTypes
    <3>5. ~updates(Head(socket)) => mDefaultRoutes' = mDefaultRoutes
      BY <2>2, <3>1 DEF applied, updates, Messages
    <3>6. rmon' # "dispatch" => isFront(mRoute)'
      BY <2>1, <3>1, <3>5 DEF isFront, MirrorInv
    <3>7. gateways(kernel) \in SUBSET Entries
      BY GatewayEntries, RouteAssumption DEF MirrorInv, MonitorTypes
    <3>8. overrun' \/ ambiguous' \/ \A r \in gateways(kernel') : Kept(r)'
      BY <2>1, <3>1, <3>2, <3>7 DEF MirrorInv
    <3>9. (lost = 0 /\ rmon # "closed"
           => \A r \in Entries : Kept(r) => r \in gateways(kernel))'
      BY <2>1, <3>1, <3>2 DEF MirrorInv, Entries
    <3> QED BY <3>4, <3>6, <3>8, <3>9 DEF MirrorInv
  <2> QED BY <2>3, <2>4
<1>8. ASSUME NEW i \in Interfaces \cup {NoInterface}, dispatchDefaultRouteChange(i)
      PROVE  MirrorInv'
  <2>1. /\ UNCHANGED <<kernel, ambiguous, lost, socket, overrun, mDefaultRoutes>>
        /\ mRoute' = i /\ isFront(i) /\ rmon' = "recv" /\ rmon = "dispatch"
    BY <1>8 DEF dispatchDefaultRouteChange, kernelVars, socketVars
  <2>2. \A r : Kept(r)' <=> Kept(r)
    BY <2>1 DEF Kept
  <2>3. isFront(mRoute)'
    BY <2>1 DEF isFront
  <2>4. MonitorTypes'
    BY <2>1 DEF MirrorInv, MonitorTypes
  <2> QED BY <2>1, <2>2, <2>3, <2>4 DEF MirrorInv, Entries
<1> QED BY <1>4, <1>5, <1>6, <1>7, <1>8 DEF routePollThread

(* MirrorInv is an invariant of handler and monitor.                       *)
LEMMA MirrorInvariant == RoutedSpec => []MirrorInv
<1>1. RoutedInit => MirrorInv
  <2> SUFFICES ASSUME RoutedInit PROVE MirrorInv
    OBVIOUS
  <2>1. socket \in Seq(Messages) /\ Len(socket) = 0
    BY DEF RoutedInit, RouteInit
  <2>2. MonitorTypes
    BY <2>1 DEF RoutedInit, RouteInit, MonitorTypes
  <2>3. \A r : ~Kept(r)
    BY <2>1 DEF RoutedInit, RouteInit, Kept
  <2> QED BY <2>2, <2>3 DEF RoutedInit, RouteInit, MirrorInv, isFront
<1>2. ASSUME MirrorInv, MonitorStep PROVE MirrorInv'
  <2>1. CASE UNCHANGED monitorVars
    <3>1. UNCHANGED <<kernel, ambiguous, lost, socket, overrun, mDefaultRoutes, mRoute, rmon>>
      BY <2>1 DEF monitorVars, kernelVars, socketVars, threadVars
    <3>2. \A r : Kept(r)' <=> Kept(r)
      BY <3>1 DEF Kept
    <3>3. (isFront(mRoute)' <=> isFront(mRoute)) /\ (MonitorTypes' <=> MonitorTypes)
      BY <3>1 DEF isFront, MonitorTypes
    <3> QED BY <1>2, <3>1, <3>2, <3>3 DEF MirrorInv, Entries
  <2> QED BY <1>2, <2>1, KernelKeepsMirror, ThreadKeepsMirror DEF MonitorStep
<1> QED BY <1>1, <1>2, StepsOfMonitor, PTL DEF RoutedSpec

(* A monitor that has received everything knows every gateway of the       *)
(* kernel, whatever was lost or interrupted on the way and whichever       *)
(* routes it was told of, unless a deletion was ambiguous.                 *)
THEOREM MonitorMissesNoRoute == RoutedSpec => []NoRouteMissed
<1>1. MirrorInv => NoRouteMissed
  BY DEF MirrorInv, MonitorTypes, NoRouteMissed, drained, Kept
<1> QED BY <1>1, MirrorInvariant, PTL

(* Unless a notification was lost, it has reported an interface the kernel *)
(* has a gateway on then, and the best one unless a deletion was           *)
(* ambiguous.                                                              *)
THEOREM MonitorFollowsKernel == RoutedSpec => []RouteFollowsKernel
<1>1. MirrorInv => RouteFollowsKernel
  <2> SUFFICES ASSUME MirrorInv, drained, lost = 0
               PROVE  \/ mRoute = NoInterface /\ (gateways(kernel) = {} \/ ambiguous)
                      \/ \E r \in gateways(kernel) :
                           /\ r[1] = mRoute
                           /\ ambiguous \/ \A q \in gateways(kernel) : r[2] <= q[2]
    BY DEF RouteFollowsKernel
  <2>1. socket = <<>> /\ rmon = "recv" /\ ~overrun
    BY DEF drained
  <2>2. \A r : Kept(r) <=> r \in mDefaultRoutes
    BY <2>1 DEF Kept
  <2>3. /\ mDefaultRoutes \in SUBSET gateways(kernel)
        /\ ambiguous \/ mDefaultRoutes = gateways(kernel)
    BY <2>1, <2>2 DEF MirrorInv, MonitorTypes
  <2>4. isFront(mRoute)
    BY <2>1 DEF MirrorInv
  <2> QED BY <2>3, <2>4 DEF isFront
<1> QED BY <1>1, MirrorInvariant, PTL

-----------------------------------------------------------------------------
(* The demuxer after route changes.                                        *)

NetworkMessages == {"NO_GATEWAY", "NEW_GATEWAY", "NO_MULTICAST"}
GatewayMessage(found) == IF found THEN "NEW_GATEWAY" ELSE "NO_GATEWAY"

(* Of the messages in queue q, those about the gateway: there is none, or  *)
(* the last one says what is found.                                        *)
NoneAbout(q) == \A k \in 1..Len(q) : q[k] = "NO_MULTICAST"
LastSays(q, found) ==
  \A k \in 1..Len(q) : (\A j \in (k + 1)..Len(q) : q[j] = "NO_MULTICAST")
                       => q[k] \in {"NO_MULTICAST", GatewayMessage(found)}

(* A request for a re-join is queued.                                      *)
LEMMA AppendRejoin ==
  ASSUME NEW q \in Seq(NetworkMessages), NEW found \in BOOLEAN, LastSays(q, found)
  PROVE  /\ LastSays(Append(q, "NO_MULTICAST"), found)
         /\ NoneAbout(Append(q, "NO_MULTICAST")) => NoneAbout(q)
<1> DEFINE p == Append(q, "NO_MULTICAST")
           n == Len(q)
<1>1. /\ n \in Nat /\ Len(p) = n + 1 /\ p[n + 1] = "NO_MULTICAST"
      /\ \A k \in 1..n : p[k] = q[k]
  OBVIOUS
<1>2. (\A k \in 1..n : (\A j \in (k + 1)..n : q[j] = "NO_MULTICAST")
                       => q[k] \in {"NO_MULTICAST", GatewayMessage(found)})
  BY DEF LastSays
<1> HIDE DEF p, n
<1>3. ASSUME NEW k \in 1..(n + 1), \A j \in (k + 1)..(n + 1) : p[j] = "NO_MULTICAST"
      PROVE  p[k] \in {"NO_MULTICAST", GatewayMessage(found)}
  <2>1. CASE k = n + 1
    BY <1>1, <2>1
  <2>2. CASE k \in 1..n
    <3>1. \A j \in (k + 1)..n : q[j] = "NO_MULTICAST"
      BY <1>1, <1>3
    <3> QED BY <1>1, <1>2, <2>2, <3>1
  <2> QED BY <1>1, <2>1, <2>2
<1>4. LastSays(p, found)
  BY <1>1, <1>3 DEF LastSays
<1>5. NoneAbout(p) => NoneAbout(q)
  BY <1>1 DEF NoneAbout, n
<1> QED BY <1>4, <1>5 DEF p

(* A message about the gateway is queued.                                  *)
LEMMA AppendGateway ==
  ASSUME NEW q \in Seq(NetworkMessages), NEW found \in BOOLEAN
  PROVE  /\ LastSays(Append(q, GatewayMessage(found)), found)
         /\ ~NoneAbout(Append(q, GatewayMessage(found)))
<1> DEFINE p == Append(q, GatewayMessage(found))
           n == Len(q)
<1>1. n \in Nat /\ Len(p) = n + 1 /\ p[n + 1] = GatewayMessage(found)
  BY DEF GatewayMessage
<1>2. GatewayMessage(found) # "NO_MULTICAST"
  BY DEF GatewayMessage
<1> HIDE DEF p, n
<1>3. \A k \in 1..(n + 1) : k = n + 1 \/ n + 1 \in (k + 1)..(n + 1)
  BY <1>1
<1> QED BY <1>1, <1>2, <1>3 DEF LastSays, NoneAbout, p

(* The first message is taken.                                             *)
LEMMA TakeMessage ==
  ASSUME NEW q \in Seq(NetworkMessages), q # <<>>, NEW found \in BOOLEAN, LastSays(q, found)
  PROVE  /\ LastSays(Tail(q), found)
         /\ NoneAbout(Tail(q)) => Head(q) \in {"NO_MULTICAST", GatewayMessage(found)}
         /\ NoneAbout(Tail(q)) /\ Head(q) = "NO_MULTICAST" => NoneAbout(q)
<1> DEFINE p == Tail(q)
           n == Len(q)
<1>1. /\ n \in Nat \ {0} /\ Len(p) = n - 1 /\ Head(q) = q[1]
      /\ \A k \in 1..(n - 1) : p[k] = q[k + 1]
  OBVIOUS
<1>2. (\A k \in 1..n : (\A j \in (k + 1)..n : q[j] = "NO_MULTICAST")
                       => q[k] \in {"NO_MULTICAST", GatewayMessage(found)})
  BY DEF LastSays
<1> HIDE DEF p, n
<1>3. ASSUME NEW k \in 0..(n - 1), \A j \in (k + 1)..(n - 1) : p[j] = "NO_MULTICAST"
      PROVE  \A j \in (k + 2)..n : q[j] = "NO_MULTICAST"
  <2> SUFFICES ASSUME NEW j \in (k + 2)..n PROVE q[j] = "NO_MULTICAST"
    OBVIOUS
  <2>1. j - 1 \in (k + 1)..(n - 1) /\ j - 1 \in 1..(n - 1) /\ (j - 1) + 1 = j
    BY <1>1
  <2> QED BY <1>1, <1>3, <2>1
<1>4. LastSays(p, found)
  <2> SUFFICES ASSUME NEW k \in 1..(n - 1), \A j \in (k + 1)..(n - 1) : p[j] = "NO_MULTICAST"
               PROVE  p[k] \in {"NO_MULTICAST", GatewayMessage(found)}
    BY <1>1 DEF LastSays
  <2>1. \A j \in (k + 2)..n : q[j] = "NO_MULTICAST"
    BY <1>1, <1>3
  <2>2. k + 1 \in 1..n /\ (k + 1) + 1 = k + 2
    BY <1>1
  <2> QED BY <1>1, <1>2, <2>1, <2>2
<1>5. NoneAbout(p) => \A j \in 2..n : q[j] = "NO_MULTICAST"
  <2> SUFFICES ASSUME NoneAbout(p) PROVE \A j \in 2..n : q[j] = "NO_MULTICAST"
    OBVIOUS
  <2>1. \A j \in (0 + 1)..(n - 1) : p[j] = "NO_MULTICAST"
    BY <1>1 DEF NoneAbout
  <2>2. 0 \in 0..(n - 1) /\ 0 + 2 = 2
    BY <1>1
  <2>3. \A j \in (0 + 2)..n : q[j] = "NO_MULTICAST"
    BY <1>3, <2>1, <2>2
  <2> QED BY <2>2, <2>3
<1>6. NoneAbout(p) => q[1] \in {"NO_MULTICAST", GatewayMessage(found)}
  BY <1>1, <1>2, <1>5
<1>7. NoneAbout(p) /\ q[1] = "NO_MULTICAST" => NoneAbout(q)
  BY <1>1, <1>5 DEF NoneAbout, n
<1> QED BY <1>1, <1>4, <1>6, <1>7 DEF p

(* The demuxer is on the selected channel when no message about the        *)
(* gateway is waiting or being handled, there is a gateway and open() is   *)
(* not between choosing a channel and tuning to it.  A re-join does not    *)
(* change that: it opens the channel it has read, which is the selected    *)
(* one unless open() has replaced it since.                                *)
TunedInv ==
  /\ mMessageHandler \in Seq(NetworkMessages) /\ gateway \in BOOLEAN
  /\ LastSays(mMessageHandler, gateway)
  /\ mCurrentChannelConfig = ChannelConfig(mCurrentUri)
  /\ api \in {"disconnect", "connect", "tune", "finish"} => mCurrentUri = apiUri
  /\ msg = "tune" /\ ~raced => msgUri = mCurrentUri
  /\ /\ NoneAbout(mMessageHandler) /\ msg \notin {"lock", "reopen"} /\ gateway
     /\ api \in {"idle", "configure", "finish"} /\ mCurrentUri # NoUri
     /\ ~raced /\ (listener => hasDestination)
     => tuned = mCurrentUri

(* Opening the selected channel succeeds when it has an address.           *)
LEMMA OpensSelected ==
  ASSUME TunedInv, listener => hasDestination, demuxerOpen(mCurrentUri)
  PROVE  tuned' = mCurrentUri
  BY DEF TunedInv, demuxerOpen, hasDestination

(* How raced follows open().                                               *)
RacedStep == raced' = IF api = "configure" /\ api' # "configure" THEN msg = "tune" ELSE raced

(* TunedInv is inductive.                                                  *)
LEMMA TunedInductive ==
  ASSUME TunedInv, HandlerStep, RacedStep
  PROVE  TunedInv'
<1>1. ASSUME UNCHANGED <<listener, channelVars, tuned, mMessageHandler, gateway, apiVars,
                         msgVars>>
      PROVE  TunedInv'
  <2>1. /\ UNCHANGED <<mMessageHandler, gateway, mCurrentChannelConfig, mCurrentUri, api>>
        /\ UNCHANGED <<apiUri, msg, msgUri, listener, tuned>>
    BY <1>1 DEF channelVars, apiVars, msgVars
  <2>2. UNCHANGED raced
    BY <2>1 DEF RacedStep
  <2> QED BY <2>1, <2>2 DEF TunedInv, hasDestination
<1>2. CASE UNCHANGED handlerVars
  BY <1>1, <1>2 DEF handlerVars, sessionVars
<1>3. ASSUME NEW u \in Uris \cup {NoUri}, openStart(u) PROVE TunedInv'
  <2>1. /\ UNCHANGED <<mMessageHandler, gateway, mCurrentChannelConfig, mCurrentUri>>
        /\ UNCHANGED <<msg, msgUri, listener, tuned>>
        /\ api = "idle" /\ api' = "configure"
    BY <1>3 DEF openStart, notByApi, channelVars, sessionVars, msgVars
  <2>2. UNCHANGED raced
    BY <2>1 DEF RacedStep
  <2> QED BY <2>1, <2>2 DEF TunedInv, hasDestination
<1>4. CASE openStep
  <2>1. UNCHANGED <<mMessageHandler, gateway, msg, msgUri, listener>>
    BY <1>4 DEF openStep, openConfigure, openDisconnect, openConnect, openTune, openFinish,
                notByApi, msgVars
  <2>2. CASE openConfigure
    <3>1. raced' = (msg = "tune")
      BY <2>2 DEF openConfigure, RacedStep
    <3> QED BY <2>1, <2>2, <3>1 DEF openConfigure, TunedInv
  <2>3. ASSUME UNCHANGED channelVars, api # "configure"
        PROVE  UNCHANGED <<raced, mCurrentUri, mCurrentChannelConfig>>
    BY <2>3 DEF channelVars, RacedStep
  <2>4. CASE openDisconnect
    BY <2>1, <2>3, <2>4 DEF openDisconnect, TunedInv
  <2>5. CASE openConnect
    BY <2>1, <2>3, <2>5 DEF openConnect, TunedInv
  <2>6. CASE openTune
    <3>1. apiUri = mCurrentUri /\ UNCHANGED <<raced, mCurrentUri, mCurrentChannelConfig>>
      BY <2>3, <2>6 DEF openTune, TunedInv
    <3>2. (listener => hasDestination) => tuned' = mCurrentUri
      BY <2>6, <3>1, OpensSelected DEF openTune
    <3> QED BY <2>1, <2>6, <3>1, <3>2 DEF openTune, TunedInv, hasDestination
  <2>7. CASE openFinish
    BY <2>1, <2>3, <2>7 DEF openFinish, sessionVars, TunedInv, hasDestination
  <2> QED BY <1>4, <2>2, <2>4, <2>5, <2>6, <2>7 DEF openStep
<1>5. CASE lockAndWait \/ report \/ reportStep
  <2>1. UNCHANGED notByReader
    BY <1>5 DEF lockAndWait, report, reportStep, reportClear, reportFormat, reportWrite
  <2> QED BY <1>1, <2>1 DEF notByReader, sessionVars
<1>6. CASE monitorStep
  <2>1. UNCHANGED notByMonitor
    BY <1>6 DEF monitorStep, pollQuiet, pollRejoin, pollLost, monitorLost, monitorFormat,
                monitorWrite, monitorInject
  <2>2. \/ UNCHANGED mMessageHandler
        \/ mMessageHandler' = Append(mMessageHandler, "NO_MULTICAST")
    BY <1>6 DEF monitorStep, pollQuiet, pollRejoin, pollLost, monitorLost, monitorFormat,
                monitorWrite, monitorInject
  <2>3. CASE UNCHANGED mMessageHandler
    BY <1>1, <2>1, <2>3 DEF notByMonitor, sessionVars
  <2>4. CASE mMessageHandler' = Append(mMessageHandler, "NO_MULTICAST")
    <3>1. /\ UNCHANGED <<gateway, mCurrentChannelConfig, mCurrentUri, api>>
          /\ UNCHANGED <<apiUri, msg, msgUri, listener, tuned>>
      BY <2>1 DEF notByMonitor, channelVars, sessionVars, apiVars, msgVars
    <3>2. UNCHANGED raced
      BY <3>1 DEF RacedStep
    <3>3. /\ mMessageHandler' \in Seq(NetworkMessages) /\ LastSays(mMessageHandler', gateway)
          /\ NoneAbout(mMessageHandler') => NoneAbout(mMessageHandler)
      BY <2>4, AppendRejoin DEF TunedInv, NetworkMessages
    <3> QED BY <3>1, <3>2, <3>3 DEF TunedInv, hasDestination
  <2> QED BY <2>2, <2>3, <2>4
<1>7. CASE messageStep
  <2>1. UNCHANGED notByMessage
    BY <1>7 DEF messageStep, noGateway, newGatewayTake, newGateway, newGatewayOpen,
                noMulticast, rejoinDisconnect, rejoinConnect, rejoinRead, rejoinTune
  <2>2. UNCHANGED <<mCurrentUri, mCurrentChannelConfig, gateway, api, apiUri, listener>>
    BY <2>1 DEF notByMessage, channelVars, apiVars
  <2>3. UNCHANGED raced
    BY <2>2 DEF RacedStep
  <2>4. ASSUME mMessageHandler # <<>>, mMessageHandler' = Tail(mMessageHandler)
        PROVE  /\ mMessageHandler' \in Seq(NetworkMessages)
               /\ LastSays(mMessageHandler', gateway)
               /\ NoneAbout(mMessageHandler') =>
                    Head(mMessageHandler) \in {"NO_MULTICAST", GatewayMessage(gateway)}
               /\ NoneAbout(mMessageHandler') /\ Head(mMessageHandler) = "NO_MULTICAST"
                    => NoneAbout(mMessageHandler)
    BY <2>4, TakeMessage DEF TunedInv
  <2>5. CASE noGateway
    <3>1. NoneAbout(mMessageHandler') => ~gateway
      BY <2>4, <2>5 DEF noGateway, isNext, GatewayMessage, TunedInv
    <3> QED BY <2>2, <2>3, <2>4, <2>5, <3>1 DEF noGateway, isNext, msgVars, TunedInv
  <2>6. CASE newGatewayTake
    BY <2>2, <2>3, <2>4, <2>6 DEF newGatewayTake, isNext, TunedInv
  <2>7. CASE newGateway
    BY <2>2, <2>3, <2>7 DEF newGateway, TunedInv
  <2>8. CASE newGatewayOpen
    <3>1. (listener => hasDestination) => tuned' = mCurrentUri
      BY <2>8, OpensSelected DEF newGatewayOpen
    <3> QED BY <2>2, <2>3, <2>8, <3>1 DEF newGatewayOpen, TunedInv, hasDestination
  <2>9. CASE noMulticast
    BY <2>2, <2>3, <2>4, <2>9
       DEF noMulticast, isNext, sessionVars, TunedInv, hasDestination
  <2>10. CASE rejoinDisconnect \/ rejoinConnect
    BY <2>2, <2>3, <2>10 DEF rejoinDisconnect, rejoinConnect, TunedInv, hasDestination
  <2>11. CASE rejoinRead
    BY <2>2, <2>3, <2>11 DEF rejoinRead, sessionVars, TunedInv, hasDestination
  <2>12. CASE rejoinTune
    <3>1. ~raced /\ (listener => hasDestination) => tuned' = mCurrentUri
      BY <2>12, OpensSelected DEF rejoinTune, TunedInv
    <3> QED BY <2>2, <2>3, <2>12, <3>1 DEF rejoinTune, TunedInv, hasDestination
  <2> QED BY <1>7, <2>5, <2>6, <2>7, <2>8, <2>9, <2>10, <2>11, <2>12 DEF messageStep
<1>8. CASE tick
  BY <1>1, <1>8 DEF tick, sessionVars
<1>9. ASSUME NEW found \in BOOLEAN, defaultRouteChanged(found) PROVE TunedInv'
  <2>1. /\ mMessageHandler' = Append(mMessageHandler, GatewayMessage(found))
        /\ gateway' = found
        /\ UNCHANGED <<mCurrentUri, mCurrentChannelConfig, api, apiUri, msg, msgUri>>
    BY <1>9 DEF defaultRouteChanged, GatewayMessage, channelVars, apiVars, msgVars
  <2>2. UNCHANGED raced
    BY <2>1 DEF RacedStep
  <2>3. LastSays(mMessageHandler', gateway') /\ ~NoneAbout(mMessageHandler')
    BY <2>1, AppendGateway DEF TunedInv
  <2>4. mMessageHandler' \in Seq(NetworkMessages)
    BY <2>1 DEF TunedInv, NetworkMessages, GatewayMessage
  <2> QED BY <2>1, <2>2, <2>3, <2>4 DEF TunedInv
<1> QED BY <1>2, <1>3, <1>4, <1>5, <1>6, <1>7, <1>8, <1>9 DEF HandlerStep, HandlerNext

(* The handler has been told of the interface the monitor has reported.    *)
ToldInv == mRoute # NoInterface => gateway

(* ToldInv is inductive: both change in the same step.                     *)
LEMMA ToldInductive == ToldInv /\ [RoutedNext]_routedVars => ToldInv'
<1> SUFFICES ASSUME ToldInv, [RoutedNext]_routedVars PROVE ToldInv'
  OBVIOUS
<1> USE DEF ToldInv
<1>1. CASE HandlerNext /\ UNCHANGED monitorVars
  <2>1. UNCHANGED gateway
    BY <1>1 DEF HandlerNext, openStart, openStep, openConfigure, openDisconnect, openConnect,
       openTune, openFinish, notByApi, lockAndWait, report, reportStep, reportClear,
       reportFormat, reportWrite, notByReader, monitorStep, pollQuiet, pollRejoin, pollLost,
       monitorLost, monitorFormat, monitorWrite, monitorInject, notByMonitor, messageStep,
       noGateway, newGatewayTake, newGateway, newGatewayOpen, noMulticast, rejoinDisconnect,
       rejoinConnect, rejoinRead, rejoinTune, notByMessage, tick
  <2> QED BY <1>1, <2>1 DEF monitorVars, threadVars
<1>2. CASE (kernelNext \/ routePollThread \/ stopMonitor) /\ UNCHANGED handlerVars
  <2>1. UNCHANGED mRoute
    BY <1>2 DEF kernelNext, routeAdded, routeDeleted, linkDown, kernelStep, threadVars,
       routePollThread, startMonitor, sendRouteDumpRequest, recvFailed, recvInterrupted, recv,
       stopMonitor
  <2> QED BY <1>2, <2>1 DEF handlerVars
<1>3. ASSUME NEW i \in Interfaces \cup {NoInterface}, dispatch(i) PROVE ToldInv'
  BY <1>3 DEF dispatch, dispatchDefaultRouteChange, defaultRouteChanged, handlerVars
<1>4. CASE UNCHANGED routedVars
  BY <1>4 DEF routedVars, handlerVars, monitorVars, threadVars
<1> QED BY <1>1, <1>2, <1>3, <1>4 DEF RoutedNext

(* From the kernel to the demuxer: while there is a gateway and nothing is *)
(* under way, the selected channel is the one that is played, whatever     *)
(* routes came and went and however often the channel was joined anew.     *)
THEOREM DemuxerOnSelectedChannel == RoutedSpec => []DemuxerFollowsRoute
<1>1. RoutedInit => TunedInv /\ ToldInv
  <2> SUFFICES ASSUME RoutedInit PROVE TunedInv /\ ToldInv
    OBVIOUS
  <2>1. mMessageHandler \in Seq(NetworkMessages) /\ Len(mMessageHandler) = 0
    BY DEF RoutedInit, Init
  <2>2. ChannelConfig(NoUri) = 0
    BY HandlerAssumption DEF ChannelConfig, extract
  <2> QED BY <2>1, <2>2 DEF RoutedInit, RouteInit, Init, TunedInv, LastSays, ToldInv
<1>2. TunedInv /\ [RoutedNext]_routedVars => TunedInv'
  <2>1. [RoutedNext]_routedVars => RacedStep
    BY DEF RoutedNext, routedVars, handlerVars, apiVars, RacedStep
  <2> QED BY <2>1, StepsOfHandler, TunedInductive
<1>3. MirrorInv /\ TunedInv /\ ToldInv => DemuxerFollowsRoute
  <2> SUFFICES ASSUME MirrorInv, TunedInv, ToldInv, quiescent, drained,
                      gateways(kernel) # {}, ~ambiguous, ~raced, mCurrentUri # NoUri,
                      listener => hasDestination
               PROVE  tuned = mCurrentUri
    BY DEF DemuxerFollowsRoute
  <2>1. mDefaultRoutes # {} /\ isFront(mRoute) /\ mDefaultRoutes \in SUBSET Entries
    BY DEF MirrorInv, MonitorTypes, drained, Kept
  <2>2. mRoute # NoInterface
    BY <2>1, RouteAssumption DEF isFront, Entries
  <2>3. NoneAbout(mMessageHandler)
    BY DEF quiescent, NoneAbout
  <2> QED BY <2>2, <2>3 DEF TunedInv, ToldInv, quiescent
<1> QED BY <1>1, <1>2, <1>3, ToldInductive, MirrorInvariant, PTL DEF RoutedSpec
=============================================================================
