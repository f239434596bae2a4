-------------------------- MODULE MediaSourceHandler --------------------------
(***************************************************************************)
(* The control plane of src/MediaSourceHandler.cpp: four threads share the *)
(* selected channel, the demuxer session and the stream status.            *)
(*                                                                         *)
(*   api      a client writes chan_select0 and open() runs                 *)
(*   monitor  dataMonitorLoop: notices that no data arrives                *)
(*   message  messageLoop: route changes and re-joins                      *)
(*   reader   the demuxer's reader reports every buffer it queued          *)
(*            (reportTSBufferQueued)                                       *)
(*                                                                         *)
(* Time is the age of mLastValidBufferTimeMs, in ticks, up to MaxAge.  The *)
(* data itself is the subject of MediaPipeline.                            *)
(*                                                                         *)
(* The demuxer is either a listener, as in 3rdparty/udp and 3rdparty/rtp,  *)
(* whose reader waits for packets with the lock that open() needs, or one  *)
(* whose open() does not wait for data (the operator's FCC library).       *)
(***************************************************************************)
EXTENDS Naturals, Sequences

CONSTANTS
  Uris,             \* channel addresses
  Extracted,        \* for a URI with an IPv4 address: <<address, port>>
  NoPort,           \* the URI has no port, or one too long for stoi
  DefaultPort,      \* DEFAULT_SOCKET_PORT
  MaxPort,          \* USHRT_MAX
  NoUri,            \* the empty string
  NoChannel,        \* NO_CHANNEL_URL on the loopback interface
  LostAfter,        \* NO_BUFFER_RECEIVED_THRESHOLD_MS
  RejoinAfter,      \* NO_BUFFER_RECEIVED_RECONFIGURE_THRESHOLD_MS
  MaxAge,           \* bound: ages above it are not told apart
  MaxMessages,      \* bound: length of the message queue
  MaxRouteChanges,  \* bound: route changes in a behaviour
  CounterRange,     \* 2^32, the range of mSourceLostCounter
  ListenerBuilds    \* whether the demuxer may be a listener, or may not

ASSUME HandlerAssumption ==
  /\ DOMAIN Extracted \subseteq Uris
  /\ \A u \in DOMAIN Extracted : Extracted[u] \in (Nat \ {0}) \X (Nat \cup {NoPort})
  /\ NoPort \notin Nat /\ DefaultPort \in Nat /\ MaxPort \in Nat
  /\ {NoUri, NoChannel} \cap Uris = {} /\ NoUri # NoChannel
  /\ LostAfter \in Nat /\ RejoinAfter \in Nat /\ MaxAge \in Nat
  /\ LostAfter <= RejoinAfter
  /\ MaxMessages \in Nat /\ MaxRouteChanges \in Nat /\ CounterRange \in Nat \ {0}
  /\ ListenerBuilds \subseteq BOOLEAN

VARIABLES
  listener,                \* the demuxer is a listener
  mCurrentUri,             \* written by open() only
  mCurrentChannelConfig,   \* its destinationIp, 0 when there is none
  connected,               \* sess->connectionId # FEIP_CONNECTION_UNINITIALIZED
  connectFailed,           \* the demuxer refused the last connect()
  mFeipConfMutex,          \* the thread that holds it, or "free"
  tuned,                   \* the channel the demuxer has opened
  streaming,               \* the channel the stream consumers were opened for
  age,                     \* time since mLastValidBufferTimeMs
  mBufferSourceLost,
  mSourceLostCounter,
  mBufferSrcLostMVar,      \* the content of the file stream_status
  mMessageHandler,         \* the queue of NetworkMessages
  gateway,                 \* the default route as the route monitor sees it
  routeChanges,            \* how often it has changed
  api, apiUri,             \* open(): where it is, and its argument
  msg, msgUri,             \* messageLoop: where it is, and the URI it read
  mon, monValue,           \* dataMonitorLoop, and the status it formatted
  rep, repValue,           \* the reader, and the status it formatted
  polled,                  \* dataMonitorLoop has run since the last tick
  staleNulls               \* null batches injected while data was arriving

channelVars == <<mCurrentUri, mCurrentChannelConfig>>
sessionVars == <<connected, connectFailed, tuned>>
statusVars  == <<mBufferSourceLost, mSourceLostCounter, mBufferSrcLostMVar>>
apiVars     == <<api, apiUri>>
msgVars     == <<msg, msgUri>>
monVars     == <<mon, monValue, polled, staleNulls>>
repVars     == <<rep, repValue>>

handlerVars == <<channelVars, sessionVars, mFeipConfMutex, streaming, age, statusVars,
                 mMessageHandler, gateway, apiVars, msgVars, monVars, repVars, listener>>
vars == <<handlerVars, routeChanges>>

(* What the steps of each thread leave alone.                              *)
notByApi     == <<listener, statusVars, mMessageHandler, gateway, msgVars, monVars, repVars>>
notByReader  == <<listener, channelVars, sessionVars, mFeipConfMutex, streaming,
                  mMessageHandler, gateway, apiVars, msgVars, monVars>>
notByMonitor == <<listener, channelVars, sessionVars, mFeipConfMutex, streaming, age,
                  gateway, apiVars, msgVars, repVars>>
notByMessage == <<listener, channelVars, streaming, statusVars, gateway, apiVars, monVars,
                  repVars>>

(* The locals of a thread that is not using them.                          *)
NoStatus == <<FALSE, 0>>

(* What the regular expressions find in a URI: no address (0) unless all of *)
(* it matches.                                                             *)
extract(u) == IF u \in DOMAIN Extracted THEN Extracted[u] ELSE <<0, NoPort>>

(* ChannelConfig(uri): the destination a URI names.  Without an address, or *)
(* with a port outside 1 .. USHRT_MAX - 1, destinationIp keeps its initial *)
(* 0; without a port the default one is used.                              *)
ChannelConfig(u) ==
  LET port == IF extract(u)[2] = NoPort THEN DefaultPort ELSE extract(u)[2]
  IN IF port \in 1..(MaxPort - 1) THEN extract(u)[1] ELSE 0

hasDestination == mCurrentChannelConfig # 0

(* mLastValidBufferTimeMs is not initialised by the constructor.           *)
Init ==
  /\ listener \in ListenerBuilds
  /\ mCurrentUri = NoUri /\ mCurrentChannelConfig = 0
  /\ connected = FALSE /\ connectFailed = FALSE /\ tuned = NoUri
  /\ mFeipConfMutex = "free"
  /\ streaming = NoUri
  /\ age \in 0..MaxAge
  /\ mBufferSourceLost = FALSE /\ mSourceLostCounter = 0
  /\ mBufferSrcLostMVar = <<FALSE, 0>>
  /\ mMessageHandler = <<>>
  /\ gateway = TRUE /\ routeChanges = 0
  /\ api = "idle" /\ apiUri = NoUri
  /\ msg = "wait" /\ msgUri = NoUri
  /\ mon = "sleep" /\ monValue = NoStatus /\ polled = FALSE /\ staleNulls = 0
  /\ rep = "idle" /\ repValue = NoStatus

-----------------------------------------------------------------------------
(* The demuxer.  connect() may refuse, with a negative identifier, and the *)
(* session then stays as it was; a listener's never does.                  *)
connect ==
  \/ connected' = TRUE /\ connectFailed' = FALSE
  \/ ~listener /\ connected' = connected /\ connectFailed' = TRUE

(* open().  A listener cannot join a URI without an address, nor the one   *)
(* of NO_CHANNEL_URL, and keeps what it has; the socket of another one is  *)
(* installed when the reader does not hold the lock.                       *)
demuxerOpen(u) ==
  IF listener /\ ChannelConfig(u) = 0
    THEN UNCHANGED tuned
    ELSE tuned' = u /\ (listener => rep = "idle")

-----------------------------------------------------------------------------
(* open(): the channel switch, all of it under mFeipConfMutex.  Opening    *)
(* the current channel again returns at once.                              *)

openStart(u) ==
  /\ api = "idle" /\ mFeipConfMutex = "free"
  /\ u # mCurrentUri
  /\ mFeipConfMutex' = "api"
  /\ api' = "configure" /\ apiUri' = u
  /\ UNCHANGED <<notByApi, channelVars, sessionVars, streaming, age>>

openConfigure ==
  /\ api = "configure"
  /\ mCurrentChannelConfig' = ChannelConfig(apiUri)
  /\ mCurrentUri' = apiUri
  /\ api' = "disconnect"
  /\ UNCHANGED <<notByApi, sessionVars, mFeipConfMutex, streaming, age, apiUri>>

(* StreamSource passes both on to every consumer of the stream: the time   *)
(* shift buffer, the ECM cache and the parser.                             *)
onEndOfStream == streaming' = NoUri
onOpen(u) == streaming' = u

(* Mutant: disconnect() forgets onEndOfStream.                             *)
disconnect_noEnd == connected' = FALSE /\ UNCHANGED streaming
(* disconnect() does nothing, not even onEndOfStream, when the session is  *)
(* not connected.                                                          *)
disconnect ==
  IF connected
    THEN connected' = FALSE /\ onEndOfStream
    ELSE UNCHANGED <<connected, streaming>>

(* The empty URI ends here.                                                *)
openDisconnect ==
  /\ api = "disconnect"
  /\ disconnect
  /\ IF apiUri = NoUri
       THEN api' = "idle" /\ mFeipConfMutex' = "free"
       ELSE api' = "connect" /\ UNCHANGED mFeipConfMutex
  /\ UNCHANGED <<notByApi, channelVars, connectFailed, tuned, age, apiUri>>

openConnect ==
  /\ api = "connect"
  /\ connect
  /\ api' = "tune"
  /\ UNCHANGED <<notByApi, channelVars, tuned, mFeipConfMutex, streaming, age,
                 apiUri>>

openTune ==
  /\ api = "tune"
  /\ demuxerOpen(apiUri)
  /\ api' = "finish"
  /\ UNCHANGED <<notByApi, channelVars, connected, connectFailed, mFeipConfMutex,
                 streaming, age, apiUri>>

openFinish ==
  /\ api = "finish"
  /\ onOpen(apiUri)
  /\ age' = 0
  /\ mFeipConfMutex' = "free"
  /\ api' = "idle" /\ apiUri' = NoUri
  /\ UNCHANGED <<notByApi, channelVars, sessionVars>>

openStep == openConfigure \/ openDisconnect \/ openConnect \/ openTune \/ openFinish

-----------------------------------------------------------------------------
(* The demuxer's reader.  A listener takes its lock, waits for a packet,   *)
(* reports it and gives the lock back: it holds it unless it is idle.      *)
lockAndWait ==
  /\ listener /\ rep = "idle" /\ tuned # NoUri
  /\ rep' = "recv"
  /\ UNCHANGED <<notByReader, age, statusVars, repValue>>

(* reportTSBufferQueued: a status string is formatted before it is stored. *)
(* The reader gets packets from a channel only.                            *)
report ==
  /\ rep = (IF listener THEN "recv" ELSE "idle") /\ tuned \in Uris
  /\ age' = 0
  /\ rep' = IF mBufferSourceLost THEN "clear" ELSE "idle"
  /\ UNCHANGED <<notByReader, statusVars, repValue>>

reportClear ==
  /\ rep = "clear"
  /\ mBufferSourceLost' = FALSE
  /\ rep' = "format"
  /\ UNCHANGED <<notByReader, age, mSourceLostCounter, mBufferSrcLostMVar, repValue>>

(* srcStateToMVar                                                          *)
srcState == <<mBufferSourceLost, mSourceLostCounter>>

reportFormat ==
  /\ rep = "format"
  /\ repValue' = srcState
  /\ rep' = "write"
  /\ UNCHANGED <<notByReader, age, statusVars>>

reportWrite ==
  /\ rep = "write"
  /\ mBufferSrcLostMVar' = repValue
  /\ rep' = "idle" /\ repValue' = NoStatus
  /\ UNCHANGED <<notByReader, age, mBufferSourceLost, mSourceLostCounter>>

reportStep == reportClear \/ reportFormat \/ reportWrite

-----------------------------------------------------------------------------
(* dataMonitorLoop: one poll decides, the rest of the turn follows in      *)
(* steps other threads can come between.                                   *)

poll == mon = "sleep" /\ ~polled /\ polled' = TRUE

pollQuiet ==
  /\ poll
  /\ ~hasDestination \/ age <= LostAfter
  /\ UNCHANGED <<notByMonitor, statusVars, mMessageHandler, mon, monValue, staleNulls>>

(* Requests beyond MaxMessages are not told apart.                         *)
pollRejoin ==
  /\ poll
  /\ hasDestination /\ age > RejoinAfter
  /\ IF Len(mMessageHandler) < MaxMessages
       THEN mMessageHandler' = Append(mMessageHandler, "NO_MULTICAST")
       ELSE UNCHANGED mMessageHandler
  /\ UNCHANGED <<notByMonitor, statusVars, mon, monValue, staleNulls>>

(* Mutant: the flag keeps the injection going.                             *)
lossDetected_byFlag ==
  /\ hasDestination /\ age <= RejoinAfter
  /\ age > LostAfter \/ mBufferSourceLost

lossDetected == hasDestination /\ age > LostAfter /\ age <= RejoinAfter

pollLost ==
  /\ poll
  /\ lossDetected
  /\ mon' = IF mBufferSourceLost THEN "inject" ELSE "lost"
  /\ UNCHANGED <<notByMonitor, statusVars, mMessageHandler, monValue, staleNulls>>

monitorLost ==
  /\ mon = "lost"
  /\ mBufferSourceLost' = TRUE
  /\ mSourceLostCounter' = (mSourceLostCounter + 1) % CounterRange
  /\ mon' = "format"
  /\ UNCHANGED <<notByMonitor, mBufferSrcLostMVar, mMessageHandler, monValue, polled,
                 staleNulls>>

monitorFormat ==
  /\ mon = "format"
  /\ monValue' = srcState
  /\ mon' = "write"
  /\ UNCHANGED <<notByMonitor, statusVars, mMessageHandler, polled, staleNulls>>

(* Mutant: the status is not published.                                    *)
monitorWrite_forgotten ==
  /\ mon = "write"
  /\ mon' = "inject" /\ monValue' = NoStatus
  /\ UNCHANGED <<notByMonitor, statusVars, mMessageHandler, polled, staleNulls>>

monitorWrite ==
  /\ mon = "write"
  /\ mBufferSrcLostMVar' = monValue
  /\ mon' = "inject" /\ monValue' = NoStatus
  /\ UNCHANGED <<notByMonitor, mBufferSourceLost, mSourceLostCounter, mMessageHandler,
                 polled, staleNulls>>

(* injectNullBuffers; a batch is stale when data has arrived meanwhile.    *)
monitorInject ==
  /\ mon = "inject"
  /\ staleNulls' = IF age <= LostAfter THEN staleNulls + 1 ELSE staleNulls
  /\ mon' = "sleep"
  /\ UNCHANGED <<notByMonitor, statusVars, mMessageHandler, monValue, polled>>

monitorStep ==
  \/ pollQuiet \/ pollRejoin \/ pollLost
  \/ monitorLost \/ monitorFormat \/ monitorWrite \/ monitorInject

-----------------------------------------------------------------------------
(* messageLoop.  NO_GATEWAY and NO_MULTICAST are handled without           *)
(* mFeipConfMutex, NEW_GATEWAY under it.                                   *)

isNext(m) == msg = "wait" /\ mMessageHandler # <<>> /\ Head(mMessageHandler) = m

noGateway ==
  /\ isNext("NO_GATEWAY")
  /\ mMessageHandler' = Tail(mMessageHandler)
  /\ demuxerOpen(NoChannel)
  /\ UNCHANGED <<notByMessage, connected, connectFailed, mFeipConfMutex, age, msgVars>>

newGatewayTake ==
  /\ isNext("NEW_GATEWAY")
  /\ mMessageHandler' = Tail(mMessageHandler)
  /\ msg' = "lock"
  /\ UNCHANGED <<notByMessage, sessionVars, mFeipConfMutex, age, msgUri>>

newGateway ==
  /\ msg = "lock" /\ mFeipConfMutex = "free"
  /\ mFeipConfMutex' = "message"
  /\ age' = 0
  /\ msg' = "reopen"
  /\ UNCHANGED <<notByMessage, sessionVars, mMessageHandler, msgUri>>

(* Mutant: the demuxer is not opened again.                                *)
newGatewayOpen_waits ==
  /\ msg = "reopen"
  /\ mFeipConfMutex' = "free"
  /\ msg' = "wait"
  /\ UNCHANGED <<notByMessage, sessionVars, age, mMessageHandler, msgUri>>

newGatewayOpen ==
  /\ msg = "reopen"
  /\ demuxerOpen(mCurrentUri)
  /\ mFeipConfMutex' = "free"
  /\ msg' = "wait"
  /\ UNCHANGED <<notByMessage, connected, connectFailed, age, mMessageHandler, msgUri>>

noMulticast ==
  /\ isNext("NO_MULTICAST")
  /\ mMessageHandler' = Tail(mMessageHandler)
  /\ age' = 0
  /\ msg' = "disconnect"
  /\ UNCHANGED <<notByMessage, sessionVars, mFeipConfMutex, msgUri>>

rejoinDisconnect ==
  /\ msg = "disconnect"
  /\ connected' = FALSE
  /\ msg' = "connect"
  /\ UNCHANGED <<notByMessage, connectFailed, tuned, mFeipConfMutex, age, mMessageHandler,
                 msgUri>>

(* Mutant: connecting is taken for tuning.                                 *)
rejoinConnect_only ==
  /\ msg = "connect"
  /\ connect
  /\ msg' = "wait"
  /\ UNCHANGED <<notByMessage, tuned, mFeipConfMutex, age, mMessageHandler, msgUri>>

rejoinConnect ==
  /\ msg = "connect"
  /\ connect
  /\ msg' = "read"
  /\ UNCHANGED <<notByMessage, tuned, mFeipConfMutex, age, mMessageHandler, msgUri>>

(* demuxer->open(mCurrentUri): the argument is read, then the call runs.   *)
rejoinRead ==
  /\ msg = "read"
  /\ msgUri' = mCurrentUri
  /\ msg' = "tune"
  /\ UNCHANGED <<notByMessage, sessionVars, mFeipConfMutex, age, mMessageHandler>>

rejoinTune ==
  /\ msg = "tune"
  /\ demuxerOpen(msgUri)
  /\ msg' = "wait" /\ msgUri' = NoUri
  /\ UNCHANGED <<notByMessage, connected, connectFailed, mFeipConfMutex, age,
                 mMessageHandler>>

messageStep ==
  \/ noGateway \/ newGatewayTake \/ newGateway \/ newGatewayOpen \/ noMulticast
  \/ rejoinDisconnect \/ rejoinConnect \/ rejoinRead \/ rejoinTune

-----------------------------------------------------------------------------
(* NetworkRouteObserver::defaultRouteChanged, called by the route monitor's *)
(* thread.  The interface plays no part in what messageLoop does.          *)
defaultRouteChanged(found) ==
  /\ Len(mMessageHandler) < MaxMessages
  /\ gateway' = found
  /\ mMessageHandler' = Append(mMessageHandler,
                               IF found THEN "NEW_GATEWAY" ELSE "NO_GATEWAY")
  /\ UNCHANGED <<listener, channelVars, sessionVars, mFeipConfMutex, streaming, age,
                 statusVars, apiVars, msgVars, monVars, repVars>>

(* A tick is the period of dataMonitorLoop, which polls once in it; it is  *)
(* longer than the few instructions of reportTSBufferQueued, while open(), *)
(* the demuxer calls of messageLoop and the wait for a packet may take any *)
(* number of ticks.                                                        *)
tick ==
  /\ polled /\ mon = "sleep" /\ rep \in {"idle", "recv"}
  /\ polled' = FALSE
  /\ age' = IF age < MaxAge THEN age + 1 ELSE age
  /\ staleNulls' = IF age' > LostAfter THEN 0 ELSE staleNulls
  /\ UNCHANGED <<listener, channelVars, sessionVars, mFeipConfMutex, streaming, statusVars,
                 mMessageHandler, gateway, apiVars, msgVars, mon, monValue, repVars>>

HandlerNext ==
  \/ \E u \in Uris \cup {NoUri} : openStart(u)
  \/ openStep
  \/ lockAndWait \/ report \/ reportStep
  \/ monitorStep
  \/ messageStep
  \/ tick

(* The environment changes the route: NO_GATEWAY is sent when there was    *)
(* one, NEW_GATEWAY also when the route moves to another interface.        *)
routeChange ==
  /\ routeChanges < MaxRouteChanges
  /\ routeChanges' = routeChanges + 1
  /\ \E found \in BOOLEAN : (found \/ gateway) /\ defaultRouteChanged(found)

Next == (HandlerNext /\ UNCHANGED routeChanges) \/ routeChange

(* The threads of the process keep running and time passes; nothing makes  *)
(* a client select a channel, a packet arrive or a route change.           *)
Fairness ==
  /\ WF_handlerVars(openStep)
  /\ WF_handlerVars(reportStep)
  /\ WF_handlerVars(monitorStep)
  /\ WF_handlerVars(messageStep)
  /\ WF_handlerVars(tick)

Spec == Init /\ [][Next]_vars
FairSpec == Spec /\ Fairness

-----------------------------------------------------------------------------
quiescent == api = "idle" /\ msg = "wait" /\ mMessageHandler = <<>>

(* A switch ends the previous stream: when open() has disconnected, the    *)
(* stream consumers have been told that the old stream ended, although     *)
(* disconnect() tells them only on a connected session.  The exceptions    *)
(* are those of the code: connect() has failed, or a re-join is between    *)
(* its disconnect and its connect.                                         *)
OldStreamEnded ==
  [][api = "disconnect" /\ api' # "disconnect" /\ ~connectFailed /\ msg # "connect"
       => streaming' = NoUri]_vars

(* What the comment in reportTSBufferQueued accepts, and no more: after    *)
(* data has arrived at most one batch of null packets is still injected.   *)
AtMostOneStaleBatch == staleNulls <= 1

(* A multicast channel is selected and nothing is reported.                *)
silence == hasDestination /\ api = "idle" /\ rep \in {"idle", "recv"}
silentForEver == <>[]silence /\ <>[][~report]_vars

(* A channel that stops delivering data is joined anew again and again:    *)
(* the call that opens the demuxer returns each time.  Not with a          *)
(* listener: its open() waits for the lock the reader holds while it waits *)
(* for a packet.                                                           *)
SilentChannelRejoined ==
  silentForEver /\ ~listener => []<><<rejoinTune>>_vars

(* With any demuxer stream_status says so: its first value becomes 1.      *)
SilenceReported ==
  silentForEver => <>[](mBufferSrcLostMVar[1])

=============================================================================
