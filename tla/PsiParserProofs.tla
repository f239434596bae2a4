--------------------------- MODULE PsiParserProofs ---------------------------
(***************************************************************************)
(* Theorems about PsiParser, for every set of channels, every broadcast,   *)
(* every chunk size and any number of channel switches:                    *)
(*                                                                         *)
(*   PublishesOncePerSwitch  drm0 is updated once per switch, or twice     *)
(*   TypesCorrect            PsiTypeOK                                     *)
(*   TablesStayChained       the PIDs listened to hang together            *)
(*   PublishesSelectedChannel  after a clean switch drm0 is of the         *)
(*                           selected channel, its ECM whole               *)
(*                                                                         *)
(* The first needs the flag only.  The next two need to know that what the *)
(* parser reads are packets, all the way from the broadcast through the    *)
(* chunk being filled, mQueue and mCircBuf (DataOK).  The last one is for  *)
(* every well-formed broadcast (WellFormed): it follows the packets of the *)
(* selected channel (CleanInv) and, for the order of an ECM's parts, the   *)
(* parser's position in the broadcast (TrackInv).                          *)
(***************************************************************************)
EXTENDS PsiParser, TLAPS

-----------------------------------------------------------------------------
(* The parser is publishing, or has been set to work and not stopped.      *)
mayPublish == pc \in {"read", "publish"} \/ (mPsiParserRunning = TRUE /\ pc # "stop")

(* The updates of drm0 since the switch, with those that are under way or  *)
(* may still come of it: one, and one more after the modem's ECM message.  *)
FlagInv ==
  /\ mPsiParserRunning \in BOOLEAN /\ mIsEcmReceived \in BOOLEAN /\ updates \in Nat
  /\ (updates + IF mayPublish THEN 1 ELSE 0) + (IF nokia = "recvfrom" THEN 0 ELSE 1)
       <= IF mIsEcmReceived = TRUE THEN 2 ELSE 1

(* What the steps of the threads do to the flags, the count and the        *)
(* thread's location.                                                      *)
LEMMA FlagUnchanged ==
  ASSUME FlagInv, UNCHANGED <<mPsiParserRunning, mIsEcmReceived, updates, nokia>>,
         mayPublish' => mayPublish
  PROVE  FlagInv'
  BY DEF FlagInv

LEMMA FlagClient ==
  ASSUME FlagInv, client \/ (\E u \in Channels \cup {NoChannel} : disconnect(u))
  PROVE  FlagInv'
<1>1. CASE notifyStreamSwitched
  <2>1. /\ mPsiParserRunning' = TRUE /\ mIsEcmReceived' = FALSE
        /\ updates' = 0 /\ nokia' = "recvfrom"
    BY <1>1, Zenon DEF notifyStreamSwitched, notifyConfigurationChanged
  <2>2. mPsiParserRunning' \in BOOLEAN /\ mIsEcmReceived' \in BOOLEAN
    BY <2>1, Zenon
  <2> QED BY <2>1, <2>2 DEF FlagInv
<1>2. CASE ~notifyStreamSwitched
  <2>1. CASE tune \/ clearQueue
    BY <2>1, FlagUnchanged DEF tune, clearQueue, nokiaVars, notByClient, threadVars, ghosts,
                               mayPublish
  <2>2. CASE resetTables
    BY <2>2, FlagUnchanged DEF resetTables, nokiaVars, notByClient, threadVars, mayPublish
  <2>3. ASSUME NEW u \in Channels \cup {NoChannel}, disconnect(u) PROVE FlagInv'
    BY <2>3, FlagUnchanged DEF disconnect, nokiaVars, notByClient, threadVars, mayPublish
  <2> QED BY <1>2, <2>1, <2>2, <2>3 DEF client
<1> QED BY <1>1, <1>2

LEMMA FlagConsumer == ASSUME FlagInv, drained \/ consume PROVE FlagInv'
<1>1. UNCHANGED <<mPsiParserRunning, mIsEcmReceived, updates, nokia, pc>>
  BY SMT DEF drained, consume, notByConsumer, threadVars, nokiaVars, ghosts, inputVars
<1> QED BY <1>1, FlagUnchanged DEF mayPublish

(* The table parsers send the thread to "next" or to "test".               *)
LEMMA ParsersLocation ==
  ASSUME NEW p, parseTsPacket(p) PROVE pc' \in {"next", "test"}
<1>1. CASE parsePat(p)
  BY <1>1 DEF parsePat
<1>2. CASE parsePmt(p)
  BY <1>2, Zenon DEF parsePmt
<1>3. CASE parseEcm(p)
  BY <1>3, Zenon DEF parseEcm, ecmComplete
<1> QED BY <1>1, <1>2, <1>3 DEF parseTsPacket

LEMMA FlagParser == ASSUME FlagInv, parser PROVE FlagInv'
<1>1. UNCHANGED <<mIsEcmReceived, nokia>>
  BY Zenon DEF parser, pop, processChunk, testRunning, readArgument, publish, stop,
               notByParser, nokiaVars
<1>2. CASE pop
  <2>1. UNCHANGED <<mPsiParserRunning, updates>> /\ pc \in {"pop", "next"} /\ pc' = "next"
    BY <1>2 DEF pop
  <2> QED BY <1>1, <2>1, FlagUnchanged DEF mayPublish
<1>3. CASE processChunk
  <2>1. pc' \in {"pop", "next", "test"}
    BY <1>3, ParsersLocation DEF processChunk
  <2>2. pc = "next" /\ UNCHANGED <<mPsiParserRunning, updates>>
    BY <1>3, Zenon DEF processChunk
  <2> QED BY <1>1, <2>1, <2>2, FlagUnchanged DEF mayPublish
<1>4. CASE testRunning
  <2>1. /\ UNCHANGED <<mPsiParserRunning, updates>> /\ pc = "test"
        /\ pc' = IF mPsiParserRunning THEN "read" ELSE "next"
    BY <1>4, Zenon DEF testRunning
  <2>2. mPsiParserRunning \in BOOLEAN
    BY DEF FlagInv
  <2>3. mayPublish' => mayPublish
    BY <2>1, <2>2, Zenon DEF mayPublish
  <2> QED BY <1>1, <2>1, <2>3, FlagUnchanged
<1>5. ASSUME NEW a \in Arguments, readArgument(a) PROVE FlagInv'
  <2>1. UNCHANGED <<mPsiParserRunning, updates>> /\ pc = "read" /\ pc' \in {"read", "publish"}
    BY <1>5, Zenon DEF readArgument
  <2> QED BY <1>1, <2>1, FlagUnchanged DEF mayPublish
<1>6. CASE publish
  <2>1. /\ UNCHANGED mPsiParserRunning /\ updates' = updates + 1
        /\ pc = "publish" /\ pc' = "stop"
    BY <1>6, Zenon DEF publish
  <2> QED BY <1>1, <2>1 DEF FlagInv, mayPublish
<1>7. CASE stop
  <2>1. mPsiParserRunning' = FALSE /\ UNCHANGED updates /\ pc = "stop" /\ pc' = "next"
    BY <1>7, Zenon DEF stop, stopped
  <2> QED BY <1>1, <2>1 DEF FlagInv, mayPublish
<1> QED BY <1>2, <1>3, <1>4, <1>5, <1>6, <1>7, Zenon DEF parser

LEMMA FlagNokia == ASSUME FlagInv, openLoop PROVE FlagInv'
<1>1. pc' = pc
  BY DEF openLoop, receive, patPmtMessage, ecmMessage, nokiaPublish, notByNokia, threadVars
<1>2. CASE patPmtMessage
  <2>1. UNCHANGED <<mPsiParserRunning, mIsEcmReceived, updates, nokia>>
    BY <1>2, Zenon DEF patPmtMessage
  <2> QED BY <1>1, <2>1, FlagUnchanged DEF mayPublish
<1>3. CASE ecmMessage
  <2>1. /\ nokia = "recvfrom" /\ ~mIsEcmReceived /\ mIsEcmReceived' = TRUE
        /\ UNCHANGED updates
    BY <1>3, Zenon DEF ecmMessage, receive
  <2>2. mIsEcmReceived = FALSE
    BY <2>1, Zenon DEF FlagInv
  <2>3. \/ mPsiParserRunning' = FALSE
        \/ mPsiParserRunning' = TRUE /\ nokia' = "recvfrom"
        \/ UNCHANGED mPsiParserRunning
    BY <1>3, Zenon DEF ecmMessage, notifyConfigurationChanged
  <2>4. CASE mPsiParserRunning' = FALSE \/ UNCHANGED mPsiParserRunning
    <3>1. mayPublish' => mayPublish
      BY <1>1, <2>4 DEF mayPublish
    <3>2. mPsiParserRunning' \in BOOLEAN /\ mIsEcmReceived' \in BOOLEAN
      BY <2>1, <2>4, Zenon DEF FlagInv
    <3>3. (updates + IF mayPublish THEN 1 ELSE 0) + 0 <= 1 /\ updates \in Nat
      BY <2>1, <2>2 DEF FlagInv
    <3> QED BY <2>1, <3>1, <3>2, <3>3 DEF FlagInv
  <2>5. CASE mPsiParserRunning' = TRUE /\ nokia' = "recvfrom"
    BY <2>1, <2>2, <2>5 DEF FlagInv
  <2> QED BY <2>3, <2>4, <2>5
<1>4. CASE nokiaPublish
  <2>1. /\ nokia # "recvfrom" /\ nokia' = "recvfrom" /\ updates' = updates + 1
        /\ UNCHANGED <<mPsiParserRunning, mIsEcmReceived>>
    BY <1>4, Zenon DEF nokiaPublish
  <2> QED BY <1>1, <2>1 DEF FlagInv, mayPublish
<1> QED BY <1>2, <1>3, <1>4 DEF openLoop

LEMMA FlagInvariant == Spec => []FlagInv
<1>1. Init => FlagInv
  <2> SUFFICES ASSUME Init PROVE FlagInv
    OBVIOUS
  <2>1. mPsiParserRunning \in BOOLEAN /\ mIsEcmReceived \in BOOLEAN
    BY Zenon DEF Init
  <2>2. updates = 0 /\ nokia = "recvfrom"
    BY DEF Init
  <2> QED BY <2>1, <2>2 DEF FlagInv
<1>2. FlagInv /\ [Next]_vars => FlagInv'
  <2> SUFFICES ASSUME FlagInv, [Next]_vars PROVE FlagInv'
    OBVIOUS
  <2>1. CASE UNCHANGED vars
    <3>1. UNCHANGED <<mPsiParserRunning, mIsEcmReceived, updates, nokia, pc>>
      BY <2>1, Zenon DEF vars, inputVars, threadVars, nokiaVars, ghosts
    <3> QED BY <3>1, FlagUnchanged DEF mayPublish
  <2> QED BY <2>1, FlagClient, FlagConsumer, FlagParser, FlagNokia, Zenon DEF Next
<1> QED BY <1>1, <1>2, PTL DEF Spec

(* drm0 is set at most once per channel switch until the modem's ECM       *)
(* message, and at most twice with it: processChunk clears                 *)
(* mPsiParserRunning after it has set drm0, only the watcher of ecm0 sets  *)
(* it again, and openLoop takes one ECM message per switch.                *)
THEOREM PublishesOncePerSwitch == Spec => []OncePerSwitch
<1>1. FlagInv => OncePerSwitch
  BY DEF FlagInv, OncePerSwitch
<1> QED BY <1>1, FlagInvariant, PTL

-----------------------------------------------------------------------------
(* Everything on the way to the parser is a packet.                        *)
Chunks == [1..ChunkSize -> Packets]

DataOK ==
  /\ src \in Channels \cup {NoChannel} /\ tuned \in Channels \cup {NoChannel}
  /\ apiUri \in Channels \cup {NoChannel} /\ mChannel \in Channels \cup {NoChannel}
  /\ src \in Channels => at \in 1..Len(Broadcast[src])
  /\ chunk \in Seq(Packets) /\ Len(chunk) < ChunkSize
  /\ mQueue \in Seq(Chunks) /\ Len(mQueue) <= MaxQueue
  /\ mCircBuf \in Seq(Chunks) /\ Len(mCircBuf) <= 2
  /\ mPointer \in 0..(ChunkSize - 1)

LEMMA BroadcastFacts ==
  ASSUME NEW c \in Channels
  PROVE  Broadcast[c] \in Seq(Packets) /\ Len(Broadcast[c]) \in Nat \ {0}
<1>1. Broadcast[c] \in Seq(Packets) /\ Broadcast[c] # <<>>
  BY PsiAssumption
<1> QED BY <1>1

LEMMA ModRange == ASSUME NEW k \in Nat, NEW m \in Nat \ {0} PROVE (k % m) + 1 \in 1..m
  OBVIOUS

LEMMA SeqIsFunction == ASSUME NEW S, NEW q \in Seq(S) PROVE q \in [1..Len(q) -> S]
  OBVIOUS

(* A position of a broadcast and the ones behind it.                       *)
LEMMA BehindRange ==
  ASSUME NEW c \in Channels, NEW a \in 1..Len(Broadcast[c]), NEW n \in Nat
  PROVE  behind(c, a, n) \in 1..Len(Broadcast[c]) /\ behind(c, a, n) \in DOMAIN Broadcast[c]
<1> DEFINE L == Len(Broadcast[c])
<1>1. Broadcast[c] \in Seq(Packets) /\ L \in Nat \ {0}
  BY BroadcastFacts
<1>2. a + n - 1 \in Nat
  BY <1>1
<1>3. ((a + n - 1) % L) + 1 \in 1..L
  <2> HIDE DEF L
  <2> QED BY <1>1, <1>2, ModRange
<1>4. DOMAIN Broadcast[c] = 1..L
  BY <1>1
<1>5. behind(c, a, n) = ((a + n - 1) % L) + 1
  BY DEF behind
<1> QED BY <1>3, <1>4, <1>5, Zenon

(* The next n packets are packets.                                         *)
LEMMA ArrivingPackets ==
  ASSUME src \in Channels, at \in 1..Len(Broadcast[src]), NEW n \in Nat
  PROVE  arriving(n) \in [1..n -> Packets]
<1>1. Broadcast[src] \in Seq(Packets)
  BY BroadcastFacts
<1>2. ASSUME NEW i \in 1..n PROVE Broadcast[src][behind(src, at, i - 1)] \in Packets
  <2>1. i - 1 \in Nat
    OBVIOUS
  <2>2. behind(src, at, i - 1) \in 1..Len(Broadcast[src])
    BY <2>1, BehindRange
  <2> QED BY <1>1, <2>2
<1> QED BY <1>2 DEF arriving, packetsFrom

(* A chunk that is filled up.                                              *)
LEMMA ConcatPackets ==
  ASSUME NEW s \in Seq(Packets), NEW n \in Nat, NEW t \in [1..n -> Packets]
  PROVE  /\ s \o t \in Seq(Packets) /\ Len(s \o t) = Len(s) + n
         /\ s \o t \in [1..(Len(s) + n) -> Packets]
<1>1. t \in Seq(Packets) /\ Len(t) = n
  OBVIOUS
<1>2. s \o t \in Seq(Packets) /\ Len(s \o t) = Len(s) + n
  BY <1>1
<1>3. s \o t \in [1..Len(s \o t) -> Packets]
  BY <1>2, SeqIsFunction
<1> QED BY <1>2, <1>3

LEMMA DataClient ==
  ASSUME DataOK, client \/ (\E u \in Channels \cup {NoChannel} : disconnect(u))
  PROVE  DataOK'
<1>1. UNCHANGED <<src, at, chunk, mChannel, mCircBuf, mPointer>>
  BY DEF client, disconnect, notifyStreamSwitched, tune, clearQueue, resetTables,
     notByClient, sourceVars, streamVars
<1>2. tuned' \in Channels \cup {NoChannel} /\ apiUri' \in Channels \cup {NoChannel}
  BY DEF client, disconnect, notifyStreamSwitched, tune, clearQueue, resetTables, DataOK
<1>3. mQueue' = mQueue \/ mQueue' = <<>>
  BY DEF client, disconnect, notifyStreamSwitched, tune, clearQueue, resetTables
<1>4. mQueue' \in Seq(Chunks) /\ Len(mQueue') <= MaxQueue
  <2>1. <<>> \in Seq(Chunks) /\ Len(<<>>) <= MaxQueue
    BY PsiAssumption
  <2> QED BY <1>3, <2>1 DEF DataOK
<1> QED BY <1>1, <1>2, <1>4 DEF DataOK

LEMMA DataConsumer == ASSUME DataOK, drained \/ consume PROVE DataOK'
<1> USE PsiAssumption
<1>1. CASE drained
  <2>1. UNCHANGED <<tuned, apiUri, mChannel, mQueue, mCircBuf, mPointer>>
    BY <1>1 DEF drained, notByConsumer, clientVars, inputVars, streamVars
  <2>2. src' = tuned /\ at' \in DOMAIN Broadcast[tuned]
    BY <1>1 DEF drained
  <2>3. src' \in Channels => at' \in 1..Len(Broadcast[src'])
    BY <2>2, BroadcastFacts
  <2>4. chunk' \in Seq(Packets) /\ Len(chunk') < ChunkSize
    <3>1. CASE src = NoChannel
      BY <1>1, <3>1 DEF drained, DataOK
    <3>2. CASE src # NoChannel
      <4>1. PICK n \in 0..(ChunkSize - 1 - Len(chunk)) : chunk' = chunk \o arriving(n)
        BY <1>1, <3>2 DEF drained
      <4>2. n \in Nat /\ arriving(n) \in [1..n -> Packets]
        BY <3>2, ArrivingPackets DEF DataOK
      <4> QED BY <4>1, <4>2, ConcatPackets DEF DataOK
    <3> QED BY <3>1, <3>2
  <2> QED BY <2>1, <2>2, <2>3, <2>4 DEF DataOK
<1>2. CASE consume
  <2> DEFINE n == ChunkSize - Len(chunk)
             filled == chunk \o arriving(n)
             kept == IF src = mChannel THEN mQueue ELSE <<>>
  <2>1. UNCHANGED <<tuned, apiUri, src, mCircBuf, mPointer>> /\ src \in Channels
    BY <1>2 DEF consume, notByConsumer, clientVars, streamVars, DataOK
  <2>2. n \in Nat \ {0} /\ filled \in Chunks
    <3>1. n \in Nat \ {0}
      BY DEF DataOK
    <3>2. arriving(n) \in [1..n -> Packets]
      BY <2>1, <3>1, ArrivingPackets DEF DataOK
    <3>3. filled \in [1..(Len(chunk) + n) -> Packets]
      BY <3>1, <3>2, ConcatPackets DEF DataOK
    <3>4. Len(chunk) + n = ChunkSize
      BY DEF DataOK
    <3> HIDE DEF filled, n
    <3> QED BY <3>1, <3>3, <3>4 DEF Chunks
  <2>3. mChannel' = src /\ mQueue' = IF mPsiParserRunning THEN Append(kept, filled) ELSE kept
    BY <1>2 DEF consume, post
  <2>4. kept \in Seq(Chunks) /\ Len(kept) < MaxQueue
    BY <1>2 DEF consume, DataOK
  <2> HIDE DEF filled, kept
  <2>5. mQueue' \in Seq(Chunks) /\ Len(mQueue') <= MaxQueue
    BY <2>2, <2>3, <2>4
  <2>6. at' \in 1..Len(Broadcast[src])
    <3>1. at' = behind(src, at, n)
      BY <1>2 DEF consume
    <3>2. at \in 1..Len(Broadcast[src]) /\ n \in Nat
      BY <2>1, <2>2 DEF DataOK
    <3> QED BY <2>1, <3>1, <3>2, BehindRange
  <2>7. chunk' = <<>>
    BY <1>2 DEF consume
  <2> QED BY <2>1, <2>3, <2>5, <2>6, <2>7 DEF DataOK
<1> QED BY <1>1, <1>2

LEMMA DataParser == ASSUME DataOK, parser PROVE DataOK'
<1>1. UNCHANGED <<src, tuned, apiUri, mChannel, at, chunk>>
  BY DEF parser, pop, processChunk, testRunning, readArgument, publish, stop, notByParser,
     clientVars, sourceVars
<1>2. CASE pop
  <2>1. mQueue' = Tail(mQueue) /\ mQueue # <<>> /\ mPointer' = mPointer
    BY <1>2 DEF pop
  <2>2. mCircBuf' = IF Len(mCircBuf) < 2 THEN Append(mCircBuf, Head(mQueue)) ELSE mCircBuf
    BY <1>2 DEF pop
  <2>3. mQueue' \in Seq(Chunks) /\ Len(mQueue') <= MaxQueue /\ Head(mQueue) \in Chunks
    BY <2>1, PsiAssumption DEF DataOK
  <2>4. mCircBuf' \in Seq(Chunks) /\ Len(mCircBuf') <= 2
    <3> DEFINE h == Head(mQueue)
    <3>1. mCircBuf \in Seq(Chunks) /\ Len(mCircBuf) <= 2
      BY DEF DataOK
    <3> HIDE DEF h
    <3>2. Append(mCircBuf, h) \in Seq(Chunks) /\ Len(Append(mCircBuf, h)) = Len(mCircBuf) + 1
      BY <2>3, <3>1 DEF h
    <3>3. Len(mCircBuf) < 2 => Len(Append(mCircBuf, h)) <= 2
      BY <3>1, <3>2
    <3> QED BY <2>2, <3>1, <3>2, <3>3 DEF h
  <2> QED BY <1>1, <2>1, <2>3, <2>4 DEF DataOK
<1>3. CASE processChunk
  <2>1. mQueue' = mQueue /\ mCircBuf # <<>> /\ getNextPacket
    BY <1>3 DEF processChunk
  <2>2. mCircBuf' \in Seq(Chunks) /\ Len(mCircBuf') <= 2 /\ mPointer' \in 0..(ChunkSize - 1)
    <3>1. Tail(mCircBuf) \in Seq(Chunks) /\ Len(Tail(mCircBuf)) <= 2
      BY <2>1 DEF DataOK
    <3>2. mPointer \in 0..(ChunkSize - 1) /\ ChunkSize \in Nat \ {0}
      BY PsiAssumption DEF DataOK
    <3>3. CASE mPointer + 1 = ChunkSize
      BY <2>1, <3>1, <3>2, <3>3 DEF getNextPacket
    <3>4. CASE mPointer + 1 # ChunkSize
      BY <2>1, <3>2, <3>4 DEF getNextPacket, DataOK
    <3> QED BY <3>3, <3>4
  <2> QED BY <1>1, <2>1, <2>2 DEF DataOK
<1>4. CASE testRunning \/ (\E a \in Arguments : readArgument(a)) \/ publish \/ stop
  <2>1. UNCHANGED <<mQueue, mCircBuf, mPointer>>
    BY <1>4 DEF testRunning, readArgument, publish, stop, streamVars
  <2> QED BY <1>1, <2>1 DEF DataOK
<1> QED BY <1>2, <1>3, <1>4 DEF parser

LEMMA DataNokia == ASSUME DataOK, openLoop \/ UNCHANGED vars PROVE DataOK'
<1>1. UNCHANGED <<src, tuned, apiUri, mChannel, at, chunk, mQueue, mCircBuf, mPointer>>
  BY DEF openLoop, receive, patPmtMessage, ecmMessage, nokiaPublish, notByNokia, clientVars, sourceVars, streamVars,
     vars, inputVars
<1> QED BY <1>1 DEF DataOK

-----------------------------------------------------------------------------
(* The tables.  While no PMT is known there is no ECM PID either, so the   *)
(* branch of parseTsPacket that would reach GOT_ECM is never taken.        *)
StateOK ==
  /\ mParserState \in {"NEEDS_PAT", "NEEDS_PMT", "NEEDS_VMX_PMT", "NEEDS_ECM", "NO_ECM"}
  /\ mParserState = "NEEDS_PAT" => mPmt.pid \in {NoPid, PatPid}
  /\ mParserState \in {"NEEDS_PAT", "NEEDS_PMT"} => mEcm.pid \in {NoPid, PatPid}

InfosOK == mPat \in Infos /\ mPmt \in Infos /\ mEcm \in Infos /\ mPat.pid = PatPid

CollectedOK ==
  /\ mTempCollectedEcmData \in Seq(Packets)
  /\ mTempCollectedEcmData # <<>> =>
       Len(mTempCollectedEcmData) < mTempCollectedEcmData[1].of

TablesInv ==
  InfosOK /\ StateOK /\ TablesChained /\ CollectedOK /\ mIsClearStream \in BOOLEAN

LEMMA ResetInfo ==
  ASSUME NEW pid \in Pids \cup {NoPid}
  PROVE  /\ PidInfo(pid) \in Infos
         /\ PidInfo(pid).pid = pid /\ PidInfo(pid).ver = NoVersion
         /\ PidInfo(pid).table = NoTable
  BY DEF PidInfo, Infos

LEMMA SetVersion ==
  ASSUME NEW info \in Infos, NEW v \in Versions
  PROVE  /\ setVer(info, v) \in Infos
         /\ setVer(info, v).pid = info.pid /\ setVer(info, v).table = info.table
         /\ info.pid # NoPid => processed(setVer(info, v))
  BY PsiAssumption DEF setVer, Infos, processed

LEMMA TablesPat ==
  ASSUME TablesInv, NEW p \in Packets, parsePat(p)
  PROVE  TablesInv'
<1> USE PsiAssumption
<1>1. UNCHANGED <<mIsClearStream, mTempCollectedEcmData>>
  BY DEF parsePat
<1>2. p.ver \in Versions /\ p.names \in Pids \cup {NoPid} /\ p # NoTable
  BY DEF Packets
<1>3. InfosOK' /\ TablesChained'
  <2>1. CASE UNCHANGED <<mPat, mPmt, mEcm>>
    BY <2>1 DEF TablesInv, InfosOK, TablesChained, processed
  <2>2. CASE newPat(p)
    <3>1. mPat' = [setVer(mPat, p.ver) EXCEPT !.table = p]
      BY <2>2 DEF newPat
    <3>2. mPat' \in Infos /\ mPat'.pid = PatPid /\ mPat'.table = p /\ processed(mPat')
      <4>1. setVer(mPat, p.ver) \in Infos /\ setVer(mPat, p.ver).pid = PatPid
            /\ processed(setVer(mPat, p.ver))
        BY <1>2, SetVersion DEF TablesInv, InfosOK
      <4> QED BY <3>1, <4>1 DEF Infos, processed
    <3>3. mPmt' = PidInfo(p.names) /\ mEcm' = PidInfo(NoPid)
      BY <2>2 DEF newPat, reset
    <3>4. /\ mPmt' \in Infos /\ mEcm' \in Infos
          /\ mPmt'.pid = p.names /\ mEcm'.pid = NoPid
      BY <1>2, <3>3, ResetInfo
    <3> QED BY <1>2, <3>2, <3>4 DEF InfosOK, TablesChained
  <2> QED BY <2>1, <2>2 DEF parsePat
<1>4. StateOK'
  <2>1. CASE UNCHANGED <<mPat, mPmt, mEcm>>
    BY <2>1 DEF parsePat, TablesInv, StateOK
  <2>2. CASE newPat(p)
    <3>1. mEcm'.pid = NoPid
      BY <2>2, ResetInfo DEF newPat, reset
    <3>2. processed(mPat')
      <4>1. setVer(mPat, p.ver) \in Infos /\ processed(setVer(mPat, p.ver))
        BY <1>2, SetVersion DEF TablesInv, InfosOK
      <4> QED BY <2>2, <4>1 DEF newPat, Infos, processed
    <3> QED BY <3>1, <3>2 DEF parsePat, TablesInv, StateOK
  <2> QED BY <2>1, <2>2 DEF parsePat
<1>5. CollectedOK'
  BY <1>1 DEF TablesInv, CollectedOK
<1> QED BY <1>1, <1>3, <1>4, <1>5, Zenon DEF TablesInv

(* The end of parseTsPacket for a PMT, whatever mEcm parsePmt found.       *)
LEMMA AfterPmt ==
  ASSUME NEW ecm \in Infos, afterPmt(ecm), mIsClearStream' \in BOOLEAN,
         mParserState \in {"NEEDS_PMT", "NEEDS_VMX_PMT", "NEEDS_ECM", "NO_ECM"},
         mIsClearStream' /\ mParserState = "NEEDS_PMT" => ecm.pid \in {NoPid, PatPid}
  PROVE  /\ mEcm' = ecm \/ mEcm' = PidInfo(NoPid)
         /\ mParserState' \in {"NEEDS_PMT", "NEEDS_VMX_PMT", "NEEDS_ECM", "NO_ECM"}
         /\ mParserState' = "NEEDS_PMT" => mEcm'.pid \in {NoPid, PatPid}
<1>1. CASE mIsClearStream' = TRUE
  BY <1>1, ResetInfo DEF afterPmt, reset
<1>2. CASE mIsClearStream' = FALSE
  BY <1>2 DEF afterPmt, reset
<1> QED BY <1>1, <1>2, Zenon

LEMMA TablesPmt ==
  ASSUME TablesInv, NEW p \in Packets, parsePmt(p),
         ~isPid(mPat, p.pid), isPid(mPmt, p.pid)
  PROVE  TablesInv'
<1> USE PsiAssumption
<1>1. UNCHANGED <<mPat, mTempCollectedEcmData>>
  BY DEF parsePmt
<1>2. /\ p.ver \in Versions /\ p.names \in Pids \cup {NoPid} /\ p # NoTable
      /\ p.pid = mPmt.pid /\ p.pid \notin {NoPid, PatPid}
  BY DEF Packets, isPid, TablesInv, InfosOK
<1>3. mParserState \in {"NEEDS_PMT", "NEEDS_VMX_PMT", "NEEDS_ECM", "NO_ECM"}
  BY <1>2 DEF TablesInv, StateOK
<1>4. CASE newPmt(p) /\ afterPmt(ecmOf(p))
  <2>1. mIsClearStream' = (p.names = NoPid)
    BY <1>4 DEF newPmt
  <2>2. mIsClearStream' \in BOOLEAN
    BY <2>1, Zenon
  <2>3. mPmt' \in Infos /\ mPmt'.pid = mPmt.pid /\ processed(mPmt')
    BY <1>2, <1>4 DEF newPmt, TablesInv, InfosOK, Infos, processed
  <2>4. /\ ecmOf(p) \in Infos
        /\ ecmOf(p) = mEcm
           \/ (ecmOf(p).pid = p.names /\ ecmOf(p).table = p /\ p.names # NoPid)
    BY <1>2, ResetInfo DEF ecmOf, TablesInv, InfosOK, Infos
  <2>5. p.names = NoPid => ecmOf(p) = mEcm
    BY DEF ecmOf
  <2>6. mIsClearStream' /\ mParserState = "NEEDS_PMT" => ecmOf(p).pid \in {NoPid, PatPid}
    <3>1. mParserState = "NEEDS_PMT" => mEcm.pid \in {NoPid, PatPid}
      BY DEF TablesInv, StateOK
    <3> QED BY <2>1, <2>5, <3>1, Zenon
  <2>7. /\ mEcm' = ecmOf(p) \/ mEcm' = PidInfo(NoPid)
        /\ mParserState' \in {"NEEDS_PMT", "NEEDS_VMX_PMT", "NEEDS_ECM", "NO_ECM"}
        /\ mParserState' = "NEEDS_PMT" => mEcm'.pid \in {NoPid, PatPid}
    BY <1>3, <1>4, <2>2, <2>4, <2>6, AfterPmt, Zenon
  <2>8. InfosOK'
    BY <1>1, <2>3, <2>4, <2>7, ResetInfo DEF TablesInv, InfosOK
  <2>9. TablesChained'
    <3>1. mPat' = mPat /\ mPmt'.pid = mPmt.pid
      BY <1>1, <2>3
    <3>2. mEcm'.pid \notin {NoPid, PatPid} =>
            /\ mEcm'.table # NoTable
            /\ mEcm'.table.names = mEcm'.pid /\ mEcm'.table.pid = mPmt.pid
      BY <1>2, <2>4, <2>7, ResetInfo DEF TablesInv, TablesChained
    <3> QED BY <2>3, <3>1, <3>2 DEF TablesInv, TablesChained, processed
  <2>10. StateOK'
    BY <2>7 DEF StateOK
  <2>11. CollectedOK'
    BY <1>1 DEF TablesInv, CollectedOK
  <2> QED BY <2>2, <2>8, <2>9, <2>10, <2>11, Zenon DEF TablesInv
<1>5. CASE UNCHANGED <<mIsClearStream, mPmt>> /\ processed(mPmt) /\ afterPmt(mEcm)
  <2>1. mIsClearStream' \in BOOLEAN /\ mEcm \in Infos
    BY <1>5 DEF TablesInv, InfosOK
  <2>2. mIsClearStream' /\ mParserState = "NEEDS_PMT" => mEcm.pid \in {NoPid, PatPid}
    BY DEF TablesInv, StateOK
  <2>3. /\ mEcm' = mEcm \/ mEcm' = PidInfo(NoPid)
        /\ mParserState' \in {"NEEDS_PMT", "NEEDS_VMX_PMT", "NEEDS_ECM", "NO_ECM"}
        /\ mParserState' = "NEEDS_PMT" => mEcm'.pid \in {NoPid, PatPid}
    BY <1>3, <1>5, <2>1, <2>2, AfterPmt, Zenon
  <2>4. InfosOK' /\ TablesChained'
    BY <1>1, <1>5, <2>3, ResetInfo DEF TablesInv, InfosOK, TablesChained, processed
  <2>5. StateOK' /\ CollectedOK'
    BY <1>1, <2>3 DEF TablesInv, StateOK, CollectedOK
  <2> QED BY <2>1, <2>4, <2>5, Zenon DEF TablesInv
<1>6. CASE UNCHANGED <<mIsClearStream, mPmt, mEcm, mParserState>>
  BY <1>1, <1>6 DEF TablesInv, InfosOK, TablesChained, StateOK, CollectedOK, processed
<1> QED BY <1>4, <1>5, <1>6 DEF parsePmt

LEMMA TablesEcm ==
  ASSUME TablesInv, NEW p \in Packets, parseEcm(p),
         ~isPid(mPat, p.pid), isPid(mEcm, p.pid)
  PROVE  TablesInv'
<1> USE PsiAssumption
<1> DEFINE table == collected(p)
<1>1. UNCHANGED <<mPat, mPmt, mIsClearStream>>
  BY DEF parseEcm
<1>2. mEcm.pid \notin {NoPid, PatPid}
  BY DEF isPid, TablesInv, InfosOK
<1>3. mParserState \notin {"NEEDS_PAT", "NEEDS_PMT"} /\ mParserState' = mParserState
  BY <1>2 DEF parseEcm, TablesInv, StateOK
<1>4. /\ table \in Seq(Packets) /\ table # <<>>
      /\ Len(table) = Len(mTempCollectedEcmData) + 1
      /\ table[1] \in Packets
  <2>1. mTempCollectedEcmData \in Seq(Packets)
    BY DEF TablesInv, CollectedOK
  <2>2. table \in Seq(Packets) /\ Len(table) = Len(mTempCollectedEcmData) + 1
    BY <2>1 DEF collected
  <2> HIDE DEF table
  <2>3. Len(table) \in Nat \ {0}
    BY <2>1, <2>2
  <2> QED BY <2>2, <2>3
<1> HIDE DEF table
<1>5. \/ UNCHANGED <<mTempCollectedEcmData, mEcm>>
      \/ Len(table) < table[1].of /\ mTempCollectedEcmData' = table /\ mEcm' = mEcm
      \/ mTempCollectedEcmData' = <<>> /\ mEcm' \in {mEcm, setVer(mEcm, table[1].ver)}
  BY DEF parseEcm, ecmComplete, table
<1>6. CollectedOK'
  <2>1. CASE mTempCollectedEcmData' = mTempCollectedEcmData
    BY <2>1 DEF TablesInv, CollectedOK
  <2>2. CASE Len(table) < table[1].of /\ mTempCollectedEcmData' = table
    BY <1>4, <2>2 DEF CollectedOK
  <2>3. CASE mTempCollectedEcmData' = <<>>
    BY <2>3 DEF CollectedOK
  <2> QED BY <1>5, <2>1, <2>2, <2>3
<1>7. mEcm' \in Infos /\ mEcm'.pid = mEcm.pid /\ mEcm'.table = mEcm.table
  <2>1. table[1].ver \in Versions
    BY <1>4 DEF Packets
  <2> QED BY <1>5, <2>1, SetVersion DEF TablesInv, InfosOK
<1>8. InfosOK' /\ TablesChained' /\ StateOK'
  BY <1>1, <1>3, <1>7 DEF TablesInv, InfosOK, TablesChained, StateOK, processed
<1> QED BY <1>1, <1>6, <1>8, Zenon DEF TablesInv

(* What every other step leaves alone.                                     *)
LEMMA TablesUnchanged ==
  ASSUME TablesInv, UNCHANGED tableVars
  PROVE  TablesInv'
  BY DEF tableVars, TablesInv, InfosOK, TablesChained, StateOK, CollectedOK, processed

LEMMA TablesParser == ASSUME DataOK, TablesInv, parser PROVE TablesInv'
<1>1. CASE processChunk
  <2>1. CASE UNCHANGED tableVars
    BY <2>1, TablesUnchanged
  <2>2. CASE parseTsPacket(packet)
    <3>1. packet \in Packets
      <4>1. mCircBuf \in Seq(Chunks) /\ mCircBuf # <<>> /\ mPointer + 1 \in 1..ChunkSize
        BY <1>1, PsiAssumption DEF processChunk, DataOK
      <4>2. mCircBuf[1] \in Chunks
        BY <4>1
      <4> QED BY <4>1, <4>2 DEF packet, Chunks
    <3>2. CASE UNCHANGED tableVars
      BY <3>2, TablesUnchanged
    <3>3. CASE parsePat(packet)
      BY <3>1, <3>3, TablesPat
    <3>4. CASE ~isPid(mPat, packet.pid) /\ isPid(mPmt, packet.pid) /\ parsePmt(packet)
      BY <3>1, <3>4, TablesPmt
    <3>5. CASE ~isPid(mPat, packet.pid) /\ isPid(mEcm, packet.pid) /\ parseEcm(packet)
      BY <3>1, <3>5, TablesEcm
    <3> QED BY <2>2, <3>2, <3>3, <3>4, <3>5, Zenon DEF parseTsPacket
  <2> QED BY <1>1, <2>1, <2>2, Zenon DEF processChunk
<1>2. CASE pop \/ testRunning \/ (\E a \in Arguments : readArgument(a)) \/ publish \/ stop
  <2>1. UNCHANGED tableVars
    BY <1>2, Zenon DEF pop, testRunning, readArgument, publish, stop
  <2> QED BY <2>1, TablesUnchanged
<1> QED BY <1>1, <1>2, Zenon DEF parser

LEMMA TablesClient ==
  ASSUME TablesInv, client \/ (\E u \in Channels \cup {NoChannel} : disconnect(u))
  PROVE  TablesInv'
<1>1. CASE resetTables
  <2>1. /\ mTempCollectedEcmData' = <<>> /\ mParserState' = "NEEDS_PAT"
        /\ mEcm' = PidInfo(NoPid) /\ mPmt' = PidInfo(NoPid) /\ mPat' = PidInfo(PatPid)
        /\ mIsClearStream' = mIsClearStream
    BY <1>1 DEF resetTables, onOpen, reset
  <2>2. InfosOK' /\ StateOK' /\ TablesChained'
    BY <2>1, ResetInfo, PsiAssumption DEF InfosOK, StateOK, TablesChained
  <2>3. CollectedOK'
    BY <2>1 DEF CollectedOK
  <2>4. mIsClearStream' \in BOOLEAN
    BY <2>1, Zenon DEF TablesInv
  <2> QED BY <2>2, <2>3, <2>4, Zenon DEF TablesInv
<1>2. CASE notifyStreamSwitched \/ tune \/ clearQueue
           \/ (\E u \in Channels \cup {NoChannel} : disconnect(u))
  <2>1. UNCHANGED tableVars
    BY <1>2, Zenon DEF notifyStreamSwitched, tune, clearQueue, disconnect
  <2> QED BY <2>1, TablesUnchanged
<1> QED BY <1>1, <1>2, Zenon DEF client

(* The parser's data and its tables, for the theorems below.               *)
LEMMA ParserInvariant == Spec => [](DataOK /\ TablesInv)
<1>1. Init => DataOK /\ TablesInv
  <2> SUFFICES ASSUME Init PROVE DataOK /\ TablesInv
    OBVIOUS
  <2>1. DataOK
    BY PsiAssumption DEF Init, DataOK
  <2>2. InfosOK /\ StateOK /\ TablesChained
    BY ResetInfo, PsiAssumption DEF Init, InfosOK, StateOK, TablesChained
  <2>3. CollectedOK
    BY DEF Init, CollectedOK
  <2>4. mIsClearStream \in BOOLEAN
    BY Zenon DEF Init
  <2> QED BY <2>1, <2>2, <2>3, <2>4, Zenon DEF TablesInv
<1>2. DataOK /\ TablesInv /\ [Next]_vars => (DataOK /\ TablesInv)'
  <2> SUFFICES ASSUME DataOK, TablesInv, [Next]_vars PROVE DataOK' /\ TablesInv'
    OBVIOUS
  <2>1. CASE client \/ (\E u \in Channels \cup {NoChannel} : disconnect(u))
    BY <2>1, DataClient, TablesClient
  <2>2. CASE drained \/ consume
    <3>1. UNCHANGED tableVars
      BY <2>2, Zenon DEF drained, consume, notByConsumer
    <3> QED BY <2>2, <3>1, DataConsumer, TablesUnchanged
  <2>3. CASE parser
    BY <2>3, DataParser, TablesParser
  <2>4. CASE openLoop
    <3>1. UNCHANGED tableVars
      BY <2>4, Zenon DEF openLoop, receive, patPmtMessage, ecmMessage, nokiaPublish, notByNokia
    <3> QED BY <2>4, <3>1, DataNokia, TablesUnchanged
  <2>5. CASE UNCHANGED vars
    <3>1. UNCHANGED tableVars
      BY <2>5, Zenon DEF vars
    <3> QED BY <2>5, <3>1, DataNokia, TablesUnchanged
  <2> QED BY <2>1, <2>2, <2>3, <2>4, <2>5, Zenon DEF Next
<1> QED BY <1>1, <1>2, PTL DEF Spec

(* The types of the parser's state: no buffer is overrun, and the state    *)
(* GOT_ECM of parseTsPacket is never reached.                              *)
THEOREM TypesCorrect == Spec => []PsiTypeOK
<1>1. FlagInv /\ DataOK /\ TablesInv => PsiTypeOK
  BY DEF FlagInv, DataOK, TablesInv, InfosOK, StateOK, CollectedOK, PsiTypeOK
<1> QED BY <1>1, FlagInvariant, ParserInvariant, PTL

(* The PIDs the parser listens to hang together whatever is mixed up at a  *)
(* switch: a new PAT takes the PMT and ECM PIDs with it, a new PMT the ECM *)
(* PID it replaces, and onOpen all of them.                                *)
THEOREM TablesStayChained == Spec => []TablesChained
<1>1. DataOK /\ TablesInv => TablesChained
  BY DEF TablesInv
<1> QED BY <1>1, ParserInvariant, PTL

-----------------------------------------------------------------------------
(* Where the client and the parser's thread are.                           *)
PlacesInv ==
  /\ api \in {"tune", "clear", "open"} => apiUri \in Channels
  /\ api \in {"clear", "open"} => tuned = apiUri
  /\ mCircBuf = <<>> => mPointer = 0
  /\ pc \notin {"read", "publish"} => args = <<>>
  /\ pc = "read" => DOMAIN args \subseteq Arguments
  /\ pc = "publish" => DOMAIN args = Arguments

(* The client goes through tune, clear and open with the channel it was    *)
(* given; it does not touch the thread.                                    *)
LEMMA PlacesClient ==
  ASSUME PlacesInv, client \/ (\E u \in Channels \cup {NoChannel} : disconnect(u)),
         apiUri \in Channels \cup {NoChannel}
  PROVE  PlacesInv'
<1>1. UNCHANGED <<mCircBuf, mPointer, pc, args>>
  BY DEF client, disconnect, notifyStreamSwitched, tune, clearQueue, resetTables, notByClient,
     streamVars, threadVars
<1>2. /\ api' \in {"tune", "clear", "open"} => apiUri' \in Channels
      /\ api' \in {"clear", "open"} => tuned' = apiUri'
  BY DEF PlacesInv, client, disconnect, notifyStreamSwitched, tune, clearQueue, resetTables
<1> QED BY <1>1, <1>2 DEF PlacesInv

(* The thread: mPointer is reset with the last chunk, the arguments are    *)
(* read one after the other.                                               *)
LEMMA PlacesParser == ASSUME PlacesInv, DataOK, parser PROVE PlacesInv'
<1>1. UNCHANGED <<api, apiUri, tuned>>
  BY DEF parser, pop, processChunk, testRunning, readArgument, publish, stop, notByParser,
     clientVars
<1>2. mCircBuf' = <<>> => mPointer' = 0
  <2>1. CASE pop
    <3>1. mCircBuf' # <<>>
      <4> DEFINE h == Head(mQueue)
      <4>1. mCircBuf' = IF Len(mCircBuf) < 2 THEN Append(mCircBuf, h) ELSE mCircBuf
        BY <2>1 DEF pop
      <4>2. mCircBuf \in Seq(Chunks) /\ h \in Chunks
        BY <2>1 DEF pop, DataOK
      <4> HIDE DEF h
      <4>3. Len(Append(mCircBuf, h)) = Len(mCircBuf) + 1 /\ Len(mCircBuf) \in Nat
        BY <4>2
      <4>4. Len(mCircBuf') # 0
        BY <4>1, <4>3
      <4>5. Len(<<>>) = 0
        OBVIOUS
      <4> QED BY <4>4, <4>5
    <3> QED BY <3>1
  <2>2. CASE processChunk
    BY <2>2 DEF processChunk, getNextPacket
  <2>3. CASE testRunning \/ (\E a \in Arguments : readArgument(a)) \/ publish \/ stop
    <3>1. UNCHANGED <<mCircBuf, mPointer>>
      BY <2>3 DEF testRunning, readArgument, publish, stop, streamVars
    <3> QED BY <3>1 DEF PlacesInv
  <2> QED BY <2>1, <2>2, <2>3 DEF parser
<1>3. /\ pc' \notin {"read", "publish"} => args' = <<>>
      /\ pc' = "read" => DOMAIN args' \subseteq Arguments
      /\ pc' = "publish" => DOMAIN args' = Arguments
  <2>1. CASE pop \/ stop
    BY <2>1 DEF pop, stop, PlacesInv
  <2>2. CASE processChunk
    <3>1. pc' \in {"pop", "next", "test"} /\ args' = args /\ pc = "next"
      BY <2>2, ParsersLocation DEF processChunk
    <3> QED BY <3>1 DEF PlacesInv
  <2>3. CASE testRunning
    <3>1. args' = args /\ args = <<>> /\ pc' \in {"read", "next"}
      BY <2>3 DEF testRunning, PlacesInv
    <3>2. DOMAIN <<>> = {}
      OBVIOUS
    <3> QED BY <3>1, <3>2
  <2>4. ASSUME NEW a \in Arguments, readArgument(a)
        PROVE  /\ pc' \notin {"read", "publish"} => args' = <<>>
               /\ pc' = "read" => DOMAIN args' \subseteq Arguments
               /\ pc' = "publish" => DOMAIN args' = Arguments
    <3>1. pc' = IF DOMAIN args' = Arguments THEN "publish" ELSE "read"
      BY <2>4 DEF readArgument
    <3>2. DOMAIN args' = DOMAIN args \cup {a}
      BY <2>4, Zenon DEF readArgument
    <3>3. DOMAIN args \subseteq Arguments
      BY <2>4 DEF readArgument, PlacesInv
    <3> QED BY <3>1, <3>2, <3>3
  <2>5. CASE publish
    BY <2>5 DEF publish
  <2> QED BY <2>1, <2>2, <2>3, <2>4, <2>5 DEF parser
<1> QED BY <1>1, <1>2, <1>3 DEF PlacesInv

(* PlacesInv holds at all times.                                           *)
LEMMA PlacesInvariant == Spec => []PlacesInv
<1>1. Init => PlacesInv
  BY DEF Init, PlacesInv
<1>2. DataOK /\ PlacesInv /\ [Next]_vars => PlacesInv'
  <2> SUFFICES ASSUME DataOK, PlacesInv, [Next]_vars PROVE PlacesInv'
    OBVIOUS
  <2>1. CASE client \/ (\E u \in Channels \cup {NoChannel} : disconnect(u))
    BY <2>1, PlacesClient DEF DataOK
  <2>2. CASE parser
    BY <2>2, PlacesParser
  <2>3. CASE drained \/ consume \/ openLoop \/ UNCHANGED vars
    <3>1. UNCHANGED <<api, apiUri, tuned, mCircBuf, mPointer, pc, args>>
      BY <2>3 DEF drained, consume, notByConsumer, openLoop, receive, patPmtMessage, ecmMessage,
         nokiaPublish, notByNokia, vars, clientVars, streamVars, threadVars
    <3> QED BY <3>1 DEF PlacesInv
  <2> QED BY <2>1, <2>2, <2>3, Zenon DEF Next
<1> QED BY <1>1, <1>2, ParserInvariant, PTL DEF Spec

-----------------------------------------------------------------------------
(* What holds after a clean switch.  The packets the parser has or will    *)
(* get were sent on the selected channel ...                               *)
AiredChunks == [1..ChunkSize -> aired(tuned)]
pmts(c) == {p \in aired(c) : p.kind = "pmt"}

Selected ==
  /\ api = "idle" /\ tuned \in Channels /\ src = tuned /\ chunk = <<>>
  /\ mQueue \in Seq(AiredChunks) /\ mCircBuf \in Seq(AiredChunks)
  /\ mChannel = tuned \/ (mQueue = <<>> /\ mCircBuf = <<>> /\ pc \in {"pop", "next"})

(* ... so are the tables it knows ...                                      *)
Known ==
  /\ mPat.table # NoTable => mPat.table \in aired(tuned)
  /\ mPmt.table # NoTable => mPmt.table \in pmts(tuned)
  /\ mEcm.table # NoTable => mEcm.table \in pmts(tuned)
  /\ mTempCollectedEcmData \in Seq(aired(tuned)) /\ mEcmTable \in Seq(aired(tuned))
  /\ processed(mPmt) =>
       mPmt.pid \notin {NoPid, PatPid} /\ mIsClearStream = isClear(tuned)
  /\ mEcm.pid # NoPid => mEcm.pid # PatPid /\ processed(mPmt) /\ ~isClear(tuned)
  /\ isClear(tuned) => mEcmTable = <<>>

(* ... and what a publication needs is there once it has begun.            *)
Ready ==
  /\ processed(mPmt)
  /\ isClear(tuned) => mPmt.table # NoTable
  /\ ~isClear(tuned) => mEcm.pid # NoPid /\ mEcmTable # <<>>

Reading ==
  /\ "ch" \in DOMAIN args => args["ch"] = tuned
  /\ "tables" \in DOMAIN args => args["tables"] = tables

Publishing == pc \in {"test", "read", "publish"} => Ready

CleanInv == clean => Selected /\ Known /\ Publishing /\ Reading

(* Every packet of a broadcast.                                            *)
LEMMA AiredFacts ==
  ASSUME NEW c \in Channels, NEW p \in aired(c)
  PROVE  /\ p \in Packets /\ p # NoTable /\ p.ch = c
         /\ p.kind = "pat" => p.names \in Pids \ {PatPid}
         /\ p.kind = "pmt" => p.names # PatPid
<1>1. PICK i \in DOMAIN Broadcast[c] : p = Broadcast[c][i]
  BY DEF aired
<1>2. Broadcast[c] \in Seq(Packets)
  BY BroadcastFacts
<1>3. p \in Packets
  BY <1>1, <1>2
<1> QED BY <1>1, <1>3, PsiAssumption

(* The PMTs of a channel agree on whether it is clear.                     *)
LEMMA PmtsAgree ==
  ASSUME WellFormed, NEW c \in Channels, NEW p \in pmts(c)
  PROVE  p.names = NoPid <=> isClear(c)
<1>1. PICK i \in DOMAIN Broadcast[c] : p = Broadcast[c][i] /\ p.kind = "pmt"
  BY DEF aired, pmts
<1>2. ASSUME isClear(c) PROVE p.names = NoPid
  BY <1>1, <1>2 DEF isClear
<1>3. ASSUME ~isClear(c) PROVE p.names # NoPid
  <2>1. PICK pid \in Pids, u \in [DOMAIN Broadcast[c] -> aired(c) \cup {NoTable}] :
            steady(c, pid, u)
    BY <1>3 DEF WellFormed
  <2>2. p.names = pid
    BY <1>1, <2>1 DEF steady
  <2> QED BY <2>2, PsiAssumption
<1> QED BY <1>2, <1>3

(* What arrives was sent on the channel.                                   *)
LEMMA PacketsAired ==
  ASSUME NEW c \in Channels, NEW a \in 1..Len(Broadcast[c]), NEW n \in Nat
  PROVE  packetsFrom(c, a, n) \in [1..n -> aired(c)]
<1>1. ASSUME NEW i \in 1..n PROVE Broadcast[c][behind(c, a, i - 1)] \in aired(c)
  <2>1. i - 1 \in Nat
    OBVIOUS
  <2>2. behind(c, a, i - 1) \in DOMAIN Broadcast[c]
    BY <2>1, BehindRange
  <2> QED BY <2>2 DEF aired
<1> QED BY <1>1 DEF packetsFrom

(* Only resetTables makes a switch clean; then the client, and so drained, *)
(* have nothing left to do.                                                *)
LEMMA CleanSteps ==
  ASSUME CleanInv, [Next]_vars, clean'
  PROVE  resetTables \/ (clean /\ (consume \/ parser \/ openLoop \/ UNCHANGED vars))
<1>1. ASSUME NEW u \in Channels \cup {NoChannel}, disconnect(u) PROVE FALSE
  BY <1>1 DEF disconnect
<1>2. CASE notifyStreamSwitched \/ tune \/ clearQueue
  BY <1>2 DEF notifyStreamSwitched, tune, clearQueue, ghosts, CleanInv, Selected
<1>3. CASE drained
  BY <1>3 DEF drained, notByConsumer, ghosts, CleanInv, Selected
<1>4. CASE consume
  BY <1>4 DEF consume, notByConsumer, ghosts
<1>5. CASE parser
  BY <1>5 DEF parser, pop, processChunk, testRunning, readArgument, publish, stop, notByParser
<1>6. CASE openLoop
  BY <1>6 DEF openLoop, patPmtMessage, ecmMessage, nokiaPublish, notByNokia
<1>7. CASE UNCHANGED vars
  BY <1>7 DEF vars, ghosts
<1> QED BY <1>1, <1>2, <1>3, <1>4, <1>5, <1>6, <1>7, Zenon DEF Next, client

(* What the predicates depend on.                                          *)
LEMMA KnownUnchanged ==
  ASSUME Known, UNCHANGED <<tableVars, tuned>> PROVE Known'
  BY DEF Known, tableVars, pmts, processed, isClear

(* A step that leaves the tables alone calls no publication off ...        *)
LEMMA ReadyUnchanged ==
  ASSUME Ready, UNCHANGED <<tableVars, tuned>> PROVE Ready'
  BY DEF Ready, tableVars, processed, isClear

(* ... and does not change what the getters return.                        *)
LEMMA TablesSame == ASSUME UNCHANGED tableVars PROVE tables' = tables
  BY DEF tables, tableVars, getCurrentPat, getCurrentPmt

(* resetTables after which the switch is clean.                            *)
LEMMA CleanReset ==
  ASSUME DataOK, TablesInv, PlacesInv, resetTables, clean'
  PROVE  Selected' /\ Known' /\ Publishing' /\ Reading'
<1>1. /\ nothingStale /\ api = "open" /\ api' = "idle"
      /\ UNCHANGED <<src, at, chunk, mCircBuf, mPointer, mQueue, pc, args, mChannel, tuned>>
  BY DEF resetTables, notByClient, sourceVars, streamVars, threadVars
<1>2. /\ mTempCollectedEcmData' = <<>> /\ mEcmTable' = <<>>
      /\ mEcm' = PidInfo(NoPid) /\ mPmt' = PidInfo(NoPid) /\ mPat' = PidInfo(PatPid)
  BY DEF resetTables, onOpen, reset
<1>3. tuned \in Channels
  BY <1>1 DEF PlacesInv
<1>4. mCircBuf \in Seq(Chunks) /\ mQueue \in Seq(Chunks)
  BY DEF DataOK
<1>5. /\ src = tuned /\ chunk = <<>> /\ (mChannel = tuned \/ input = <<>>)
      /\ pc \in {"pop", "next"}
  BY <1>1 DEF nothingStale
<1>6. \A i \in 1..Len(input) : input[i] \in AiredChunks
  <2>1. PICK s \in [1..(Len(input) + 1) -> DOMAIN Broadcast[tuned]] : inStep(s)
    BY <1>1 DEF nothingStale
  <2> SUFFICES ASSUME NEW i \in 1..Len(input) PROVE input[i] \in AiredChunks
    OBVIOUS
  <2>2. input[i] = packetsFrom(tuned, s[i], ChunkSize)
    BY <2>1 DEF inStep
  <2>3. s[i] \in 1..Len(Broadcast[tuned])
    <3>1. Len(input) \in Nat
      BY <1>4 DEF input
    <3>2. i \in 1..(Len(input) + 1)
      BY <3>1
    <3>3. DOMAIN Broadcast[tuned] = 1..Len(Broadcast[tuned])
      BY <1>3, BroadcastFacts
    <3> QED BY <3>2, <3>3
  <2> QED BY <1>3, <2>2, <2>3, PacketsAired, PsiAssumption DEF AiredChunks
<1>7. /\ mCircBuf \in Seq(AiredChunks) /\ mQueue \in Seq(AiredChunks)
      /\ input = <<>> => mCircBuf = <<>> /\ mQueue = <<>>
  <2> DEFINE c == mCircBuf
             q == mQueue
             w == c \o q
             A == AiredChunks
  <2>1. c \in Seq(Chunks) /\ q \in Seq(Chunks) /\ \A i \in 1..Len(w) : w[i] \in A
    BY <1>4, <1>6 DEF input
  <2> HIDE DEF c, q, A
  <2>2. /\ Len(c) \in Nat /\ Len(q) \in Nat /\ Len(w) = Len(c) + Len(q)
        /\ \A i \in 1..Len(c) : w[i] = c[i]
        /\ \A i \in 1..Len(q) : w[Len(c) + i] = q[i]
    BY <2>1
  <2> HIDE DEF w
  <2>3. ASSUME NEW i \in 1..Len(c) PROVE c[i] \in A
    BY <2>1, <2>2
  <2>4. ASSUME NEW i \in 1..Len(q) PROVE q[i] \in A
    <3>1. Len(c) + i \in 1..Len(w)
      BY <2>2
    <3> QED BY <2>1, <2>2, <3>1
  <2>5. c \in Seq(A)
    <3>1. c \in [1..Len(c) -> A]
      BY <2>1, <2>3
    <3> QED BY <2>2, <3>1
  <2>6. q \in Seq(A)
    <3>1. q \in [1..Len(q) -> A]
      BY <2>1, <2>4
    <3> QED BY <2>2, <3>1
  <2>7. w = <<>> => c = <<>> /\ q = <<>>
    <3>1. w = <<>> => Len(w) = 0
      OBVIOUS
    <3>2. Len(w) = 0 => Len(c) = 0 /\ Len(q) = 0
      BY <2>2
    <3> QED BY <2>1, <3>1, <3>2
  <2> QED BY <2>5, <2>6, <2>7 DEF c, q, w, A, input
<1>8. AiredChunks' = AiredChunks
  BY <1>1 DEF AiredChunks
<1>9. Selected'
  BY <1>1, <1>3, <1>5, <1>7, <1>8 DEF Selected
<1>10. Known'
  <2>1. /\ mPat'.table = NoTable /\ mPmt'.table = NoTable /\ mEcm'.table = NoTable
        /\ ~processed(mPmt)' /\ mEcm'.pid = NoPid
    BY <1>2, ResetInfo, PsiAssumption DEF processed
  <2>2. <<>> \in Seq(aired(tuned)')
    OBVIOUS
  <2> QED BY <1>2, <2>1, <2>2 DEF Known
<1>11. Publishing' /\ Reading'
  <2>1. args' = <<>> /\ pc' \in {"pop", "next"}
    BY <1>1, <1>5 DEF PlacesInv
  <2>2. DOMAIN <<>> = {}
    OBVIOUS
  <2> QED BY <2>1, <2>2 DEF Publishing, Reading
<1> QED BY <1>9, <1>10, <1>11

(* The consumer posts a chunk of the selected channel.                     *)
LEMMA CleanConsume ==
  ASSUME DataOK, Selected, Known, Publishing, Reading, consume
  PROVE  Selected' /\ Known' /\ Publishing' /\ Reading'
<1>1. /\ UNCHANGED <<api, tuned, src, mCircBuf, pc, args>> /\ UNCHANGED tableVars
      /\ chunk' = <<>>
  BY DEF consume, notByConsumer, clientVars, streamVars, threadVars
<1>2. tuned \in Channels /\ src = tuned /\ chunk = <<>> /\ at \in 1..Len(Broadcast[tuned])
  BY DEF Selected, DataOK
<1> DEFINE n == ChunkSize - Len(chunk)
           data == chunk \o arriving(n)
           kept == IF src = mChannel THEN mQueue ELSE <<>>
<1>3. data \in AiredChunks
  <2>1. n = ChunkSize /\ ChunkSize \in Nat
    BY <1>2, PsiAssumption
  <2>2. arriving(n) \in [1..ChunkSize -> aired(tuned)]
    BY <1>2, <2>1, PacketsAired DEF arriving
  <2>3. data = arriving(n)
    <3> DEFINE x == arriving(n)
    <3>1. x \in Seq(aired(tuned)) /\ data = <<>> \o x
      BY <1>2, <2>1, <2>2
    <3> HIDE DEF x
    <3>2. <<>> \o x = x
      BY <3>1
    <3> QED BY <3>1, <3>2 DEF x
  <2> QED BY <2>2, <2>3 DEF AiredChunks
<1>4. mChannel' = src /\ mQueue' = IF mPsiParserRunning THEN Append(kept, data) ELSE kept
  BY DEF consume, post
<1>5. kept \in Seq(AiredChunks)
  BY DEF Selected
<1> HIDE DEF data, kept
<1>6. mQueue' \in Seq(AiredChunks)
  BY <1>3, <1>4, <1>5
<1>7. Selected'
  BY <1>1, <1>2, <1>4, <1>6 DEF Selected, AiredChunks
<1>8. Known'
  BY <1>1, KnownUnchanged
<1>9. Publishing' /\ Reading'
  <2>1. Ready => Ready'
    BY <1>1, ReadyUnchanged
  <2>2. tables' = tables
    BY <1>1, TablesSame
  <2> QED BY <1>1, <2>1, <2>2 DEF Publishing, Reading
<1> QED BY <1>7, <1>8, <1>9

(* The packet the parser reads was sent on the selected channel.           *)
LEMMA CleanPacket ==
  ASSUME DataOK, Selected, processChunk
  PROVE  packet \in aired(tuned) /\ Selected' /\ UNCHANGED tuned
<1>1. /\ mCircBuf # <<>> /\ UNCHANGED <<mQueue, api, tuned, src, chunk, mChannel>>
      /\ getNextPacket
  BY DEF processChunk, notByParser, clientVars, sourceVars
<1>2. mCircBuf \in Seq(AiredChunks) /\ mPointer + 1 \in 1..ChunkSize
  BY PsiAssumption DEF Selected, DataOK
<1>3. mCircBuf[1] \in AiredChunks /\ Tail(mCircBuf) \in Seq(AiredChunks)
  BY <1>1, <1>2
<1>4. packet \in aired(tuned)
  BY <1>2, <1>3 DEF packet, AiredChunks
<1>5. mCircBuf' \in Seq(AiredChunks) /\ mChannel = tuned
  BY <1>1, <1>2, <1>3 DEF getNextPacket, Selected
<1> QED BY <1>1, <1>4, <1>5 DEF Selected, AiredChunks

(* A packet of the PAT's PID: a new PAT is of the selected channel and     *)
(* resets the rest.                                                        *)
LEMMA KnownPat ==
  ASSUME TablesInv, Selected, Known, NEW p \in aired(tuned), parsePat(p), UNCHANGED tuned
  PROVE  Known' /\ Publishing'
<1>1. pc' = "next" /\ UNCHANGED <<mIsClearStream, mTempCollectedEcmData, mEcmTable>>
  BY DEF parsePat
<1>2. tuned \in Channels
  BY DEF Selected
<1>3. Known'
  <2>1. CASE UNCHANGED <<mPat, mPmt, mEcm>>
    BY <1>1, <2>1 DEF Known, pmts, processed, isClear
  <2>2. CASE newPat(p)
    <3>1. p \in Packets /\ p.ver \in Versions /\ p.names \in Pids \cup {NoPid}
      BY <1>2, AiredFacts DEF Packets
    <3>2. mPat'.table = p
      <4>1. setVer(mPat, p.ver) \in Infos
        BY <3>1, SetVersion DEF TablesInv, InfosOK
      <4> QED BY <2>2, <4>1 DEF newPat, Infos
    <3>3. /\ mPmt'.table = NoTable /\ mPmt'.ver = NoVersion
          /\ mEcm'.table = NoTable /\ mEcm'.pid = NoPid
      BY <2>2, <3>1, ResetInfo, PsiAssumption DEF newPat, reset
    <3> QED BY <1>1, <3>2, <3>3 DEF Known, processed, isClear
  <2> QED BY <2>1, <2>2 DEF parsePat
<1> QED BY <1>1, <1>3 DEF Publishing

(* A packet of the PMT's PID: a new PMT tells whether the channel is       *)
(* clear.                                                                  *)
LEMMA KnownPmt ==
  ASSUME WellFormed, TablesInv, Selected, Known, NEW p \in aired(tuned), parsePmt(p),
         isPid(mPmt, p.pid), ~isPid(mPat, p.pid), UNCHANGED tuned
  PROVE  Known' /\ Publishing'
<1>1. UNCHANGED <<mPat, mTempCollectedEcmData, mEcmTable>> /\ tuned \in Channels
  BY DEF parsePmt, Selected
<1>2. /\ p \in Packets /\ p # NoTable /\ p.ver \in Versions /\ p.names \in Pids \cup {NoPid}
      /\ p.pid = mPmt.pid /\ p.pid \notin {NoPid, PatPid}
  BY <1>1, AiredFacts, PsiAssumption DEF Packets, isPid, TablesInv, InfosOK
<1>3. isClear(tuned)' = isClear(tuned) /\ aired(tuned)' = aired(tuned) /\ pmts(tuned)' = pmts(tuned)
  BY DEF isClear, pmts
<1>4. CASE p.kind = "pmt" /\ isNew(mPmt, p.ver)
  <2>1. /\ newPmt(p) /\ afterPmt(ecmOf(p))
        /\ pc' = IF p.names = NoPid THEN "test" ELSE "next"
    BY <1>4 DEF parsePmt
  <2>2. p \in pmts(tuned) /\ (p.names = NoPid <=> isClear(tuned)) /\ p.names # PatPid
    BY <1>1, <1>4, PmtsAgree, AiredFacts DEF pmts
  <2>3. /\ mPmt'.pid = mPmt.pid /\ processed(mPmt')
        /\ mPmt'.table = IF p.names = NoPid THEN p ELSE mPmt.table
    BY <1>2, <2>1, PsiAssumption DEF newPmt, TablesInv, InfosOK, Infos, processed
  <2>4. mIsClearStream' = isClear(tuned)
    <3>1. mIsClearStream' = (p.names = NoPid)
      BY <2>1 DEF newPmt
    <3>2. (p.names = NoPid) = isClear(tuned)
      BY <2>2 DEF isClear
    <3> QED BY <3>1, <3>2, Zenon
  <2>5. /\ ecmOf(p).pid # NoPid => ecmOf(p).pid # PatPid /\ ~isClear(tuned)
        /\ ecmOf(p).table # NoTable => ecmOf(p).table \in pmts(tuned)
    <3>1. CASE p.names = NoPid \/ isPid(mEcm, p.names)
      BY <3>1 DEF ecmOf, Known
    <3>2. CASE ~(p.names = NoPid \/ isPid(mEcm, p.names))
      <4>1. ecmOf(p).pid = p.names /\ ecmOf(p).table = p
        BY <1>2, <3>2, ResetInfo DEF ecmOf, Infos
      <4> QED BY <2>2, <3>2, <4>1
    <3> QED BY <3>1, <3>2
  <2>6. mEcm' = ecmOf(p) \/ mEcm' = PidInfo(NoPid)
    BY <2>1, Zenon DEF afterPmt, reset
  <2>7. /\ mEcm'.pid # NoPid => mEcm'.pid # PatPid /\ ~isClear(tuned)
        /\ mEcm'.table # NoTable => mEcm'.table \in pmts(tuned)
    BY <2>5, <2>6, ResetInfo
  <2>8. mPmt'.table # NoTable => mPmt'.table \in pmts(tuned)
    BY <2>2, <2>3 DEF Known
  <2>9. processed(mPmt)' /\ mPmt'.pid \notin {NoPid, PatPid}
    BY <1>2, <2>3 DEF processed
  <2>10. Known'
    <3>1. /\ (mPat.table # NoTable => mPat.table \in aired(tuned))'
          /\ (mTempCollectedEcmData \in Seq(aired(tuned)) /\ mEcmTable \in Seq(aired(tuned)))'
          /\ (isClear(tuned) => mEcmTable = <<>>)'
      BY <1>1, <1>3 DEF Known
    <3> QED BY <1>3, <2>4, <2>7, <2>8, <2>9, <3>1, Zenon DEF Known
  <2>11. Publishing'
    <3>1. pc' = "test" => isClear(tuned) /\ mPmt'.table # NoTable
      BY <1>2, <2>1, <2>2, <2>3
    <3>2. pc' \in {"test", "next"}
      BY <2>1
    <3> QED BY <1>3, <2>9, <3>1, <3>2 DEF Publishing, Ready
  <2> QED BY <2>10, <2>11
<1>5. CASE ~(p.kind = "pmt" /\ isNew(mPmt, p.ver))
  <2>1. /\ UNCHANGED <<mIsClearStream, mPmt>> /\ pc' = "next"
        /\ IF processed(mPmt) THEN afterPmt(mEcm) ELSE UNCHANGED mEcm
    BY <1>5 DEF parsePmt
  <2>2. mEcm' = mEcm \/ mEcm' = PidInfo(NoPid)
    BY <2>1, Zenon DEF afterPmt, reset
  <2>3. /\ mEcm'.pid # NoPid => mEcm'.pid = mEcm.pid
        /\ mEcm'.table # NoTable => mEcm'.table = mEcm.table
    BY <2>2, ResetInfo
  <2>4. Known'
    <3>1. /\ (mPat.table # NoTable => mPat.table \in aired(tuned))'
          /\ (mTempCollectedEcmData \in Seq(aired(tuned)) /\ mEcmTable \in Seq(aired(tuned)))'
          /\ (isClear(tuned) => mEcmTable = <<>>)'
          /\ (mPmt.table # NoTable => mPmt.table \in pmts(tuned))'
      BY <1>1, <1>3, <2>1 DEF Known
    <3>2. mIsClearStream' = mIsClearStream /\ mPmt' = mPmt
      BY <2>1
    <3>3. processed(mPmt)' => mPmt'.pid \notin {NoPid, PatPid} /\ mIsClearStream' = isClear(tuned)
      BY <3>2, Zenon DEF Known, processed
    <3>4. mEcm'.pid # NoPid => mEcm'.pid # PatPid /\ processed(mPmt)' /\ ~isClear(tuned)
      BY <2>3, <3>2 DEF Known, processed
    <3>5. mEcm'.table # NoTable => mEcm'.table \in pmts(tuned)
      BY <2>3 DEF Known
    <3> QED BY <1>3, <3>1, <3>3, <3>4, <3>5, Zenon DEF Known
  <2> QED BY <2>1, <2>4 DEF Publishing
<1> QED BY <1>4, <1>5

(* A packet of the ECM's PID: what is collected, and the table made of it, *)
(* are of the selected channel.                                            *)
LEMMA KnownEcm ==
  ASSUME TablesInv, Selected, Known, NEW p \in aired(tuned), parseEcm(p),
         isPid(mEcm, p.pid), UNCHANGED tuned
  PROVE  Known' /\ Publishing'
<1> DEFINE table == collected(p)
           A == aired(tuned)
<1>1. UNCHANGED <<mPat, mPmt, mIsClearStream>> /\ tuned \in Channels
  BY DEF parseEcm, Selected
<1>2. mEcm.pid \notin {NoPid, PatPid} /\ ~isClear(tuned) /\ processed(mPmt)
  BY DEF isPid, Known
<1>3. table \in Seq(A) /\ Len(table) = Len(mTempCollectedEcmData) + 1 /\ table # <<>>
  <2> DEFINE T == mTempCollectedEcmData
  <2>1. T \in Seq(A) /\ p \in A
    BY DEF Known
  <2> HIDE DEF A, T
  <2>2. Append(T, p) \in Seq(A) /\ Len(Append(T, p)) = Len(T) + 1 /\ Len(T) \in Nat
    BY <2>1
  <2>3. Append(T, p) # <<>>
    <3>1. Len(Append(T, p)) # 0 /\ Len(<<>>) = 0
      BY <2>2
    <3> QED BY <3>1
  <2> QED BY <2>2, <2>3 DEF collected, T
<1>4. table[1] \in Packets
  <2>1. table[1] \in A
    <3> HIDE DEF table, A
    <3> QED BY <1>3
  <2> QED BY <1>1, <2>1, AiredFacts
<1> HIDE DEF table
<1>5. \/ UNCHANGED <<mTempCollectedEcmData, mEcm, mEcmTable>> /\ pc' = "next"
      \/ mTempCollectedEcmData' = table /\ UNCHANGED <<mEcm, mEcmTable>> /\ pc' = "next"
      \/ mTempCollectedEcmData' = <<>> /\ UNCHANGED <<mEcm, mEcmTable>> /\ pc' = "next"
      \/ /\ mTempCollectedEcmData' = <<>> /\ mEcm' = setVer(mEcm, table[1].ver)
         /\ mEcmTable' = table /\ pc' = "test"
  BY DEF parseEcm, ecmComplete, table
<1>6. mEcm'.pid = mEcm.pid /\ mEcm'.table = mEcm.table
  <2>1. table[1].ver \in Versions
    BY <1>4 DEF Packets
  <2> QED BY <1>5, <2>1, SetVersion DEF TablesInv, InfosOK
<1>7. mTempCollectedEcmData' \in Seq(A) /\ mEcmTable' \in Seq(A)
  <2>1. <<>> \in Seq(A)
    OBVIOUS
  <2>2. mTempCollectedEcmData \in Seq(A) /\ mEcmTable \in Seq(A)
    BY DEF Known
  <2> QED BY <1>3, <1>5, <2>1, <2>2
<1>8. Known'
  <2>1. isClear(tuned)' = isClear(tuned) /\ aired(tuned)' = A /\ pmts(tuned)' = pmts(tuned)
    BY DEF isClear, pmts
  <2>2. processed(mPmt)' => mPmt'.pid \notin {NoPid, PatPid} /\ mIsClearStream' = isClear(tuned)
    BY <1>1, Zenon DEF Known, processed
  <2>3. /\ mPat'.table # NoTable => mPat'.table \in A
        /\ mPmt'.table # NoTable => mPmt'.table \in pmts(tuned)
        /\ mEcm'.table # NoTable => mEcm'.table \in pmts(tuned)
        /\ mEcm'.pid # PatPid
    BY <1>1, <1>2, <1>6 DEF Known
  <2>4. processed(mPmt)'
    BY <1>1, <1>2 DEF processed
  <2> QED BY <1>2, <1>7, <2>1, <2>2, <2>3, <2>4, Zenon DEF Known
<1>9. Publishing'
  <2>1. isClear(tuned)' = isClear(tuned)
    BY DEF isClear
  <2>2. processed(mPmt)' /\ mEcm'.pid # NoPid
    BY <1>1, <1>2, <1>6 DEF processed
  <2>3. pc' \in {"test", "read", "publish"} => mEcmTable' # <<>>
    BY <1>3, <1>5
  <2> QED BY <1>2, <2>1, <2>2, <2>3 DEF Publishing, Ready
<1> QED BY <1>8, <1>9

(* A turn of processChunk's loop.                                          *)
LEMMA CleanProcess ==
  ASSUME WellFormed, DataOK, TablesInv, PlacesInv, Selected, Known, processChunk
  PROVE  Selected' /\ Known' /\ Publishing' /\ Reading'
<1>1. packet \in aired(tuned) /\ Selected' /\ UNCHANGED tuned
  BY CleanPacket
<1>2. Reading'
  <2>1. args' = <<>>
    BY DEF processChunk, PlacesInv
  <2>2. DOMAIN <<>> = {}
    OBVIOUS
  <2> QED BY <2>1, <2>2 DEF Reading
<1>3. Known' /\ Publishing'
  <2>1. CASE UNCHANGED tableVars /\ pc' \in {"pop", "next"}
    BY <1>1, <2>1, KnownUnchanged DEF Publishing
  <2>2. CASE parsePat(packet)
    BY <1>1, <2>2, KnownPat
  <2>3. CASE ~isPid(mPat, packet.pid) /\ isPid(mPmt, packet.pid) /\ parsePmt(packet)
    BY <1>1, <2>3, KnownPmt
  <2>4. CASE isPid(mEcm, packet.pid) /\ parseEcm(packet)
    BY <1>1, <2>4, KnownEcm
  <2>5. \/ UNCHANGED tableVars /\ pc' \in {"pop", "next"}
        \/ parseTsPacket(packet)
    BY Zenon DEF processChunk
  <2> QED BY <2>1, <2>2, <2>3, <2>4, <2>5, Zenon DEF parseTsPacket
<1> QED BY <1>1, <1>2, <1>3

(* The other steps of the parser's thread.                                 *)
LEMMA CleanThread ==
  ASSUME DataOK, PlacesInv, Selected, Known, Publishing, Reading,
         pop \/ testRunning \/ (\E a \in Arguments : readArgument(a)) \/ publish \/ stop
  PROVE  Selected' /\ Known' /\ Publishing' /\ Reading'
<1>1. UNCHANGED tableVars /\ UNCHANGED <<api, tuned, src, chunk, mChannel>>
  BY DEF pop, testRunning, readArgument, publish, stop, notByParser, clientVars, sourceVars
<1>2. Known' /\ (Ready => Ready') /\ tables' = tables
  BY <1>1, KnownUnchanged, ReadyUnchanged, TablesSame
<1>3. CASE pop
  <2>1. mQueue' = Tail(mQueue) /\ mQueue # <<>> /\ pc' = "next" /\ args' = args
    BY <1>3 DEF pop
  <2>2. mCircBuf' = IF Len(mCircBuf) < 2 THEN Append(mCircBuf, Head(mQueue)) ELSE mCircBuf
    BY <1>3 DEF pop
  <2>3. mQueue' \in Seq(AiredChunks) /\ Head(mQueue) \in AiredChunks /\ mChannel = tuned
    BY <2>1 DEF Selected
  <2>4. mCircBuf' \in Seq(AiredChunks)
    <3> DEFINE h == Head(mQueue)
    <3>1. h \in AiredChunks /\ mCircBuf \in Seq(AiredChunks)
      BY <2>3 DEF Selected
    <3> HIDE DEF h
    <3>2. Append(mCircBuf, h) \in Seq(AiredChunks)
      BY <3>1
    <3> QED BY <2>2, <3>1, <3>2 DEF h
  <2>5. Selected'
    BY <1>1, <2>3, <2>4 DEF Selected, AiredChunks
  <2> QED BY <1>1, <1>2, <2>1, <2>5 DEF Publishing, Reading
<1>4. ASSUME UNCHANGED <<mQueue, mCircBuf>>, pc \notin {"pop", "next"}
      PROVE  Selected'
  BY <1>1, <1>4 DEF Selected, AiredChunks
<1>5. CASE testRunning
  <2>1. pc = "test" /\ args' = args /\ UNCHANGED <<mQueue, mCircBuf>>
    BY <1>5 DEF testRunning, streamVars
  <2> QED BY <1>1, <1>2, <1>4, <2>1 DEF Publishing, Reading
<1>6. ASSUME NEW a \in Arguments, readArgument(a)
      PROVE  Selected' /\ Publishing' /\ Reading'
  <2>1. pc = "read" /\ UNCHANGED <<mQueue, mCircBuf>> /\ a \notin DOMAIN args
    BY <1>6 DEF readArgument, streamVars
  <2>2. args' = [b \in DOMAIN args \cup {a} |->
                   IF b # a THEN args[b] ELSE IF a = "ch" THEN mChannel ELSE tables]
    BY <1>6 DEF readArgument
  <2>3. mChannel = tuned
    BY <2>1 DEF Selected
  <2>4. DOMAIN args' = DOMAIN args \cup {a}
    BY <2>2, Zenon
  <2>5. \A b \in DOMAIN args' : b # a => args'[b] = args[b] /\ b \in DOMAIN args
    BY <2>2, <2>4
  <2>6. a = "ch" => args'["ch"] = mChannel
    BY <2>2, <2>4, Zenon
  <2>7. a = "tables" => args'["tables"] = tables
    <3>1. "tables" # "ch"
      OBVIOUS
    <3> QED BY <2>2, <2>4, <3>1, Zenon
  <2>8. Reading'
    BY <1>1, <1>2, <2>3, <2>5, <2>6, <2>7, Zenon DEF Reading
  <2> QED BY <1>2, <1>4, <2>1, <2>8 DEF Publishing
<1>7. CASE publish \/ stop
  <2>1. /\ pc \in {"publish", "stop"} /\ UNCHANGED <<mQueue, mCircBuf>> /\ pc' \in {"stop", "next"}
        /\ args' = <<>>
    BY <1>7 DEF publish, stop, streamVars, PlacesInv
  <2>2. DOMAIN <<>> = {}
    OBVIOUS
  <2> QED BY <1>2, <1>4, <2>1, <2>2 DEF Publishing, Reading
<1> QED BY <1>2, <1>3, <1>5, <1>6, <1>7

(* The modem's messages do not touch any of this.                          *)
LEMMA CleanNokia ==
  ASSUME Selected, Known, Publishing, Reading, openLoop \/ UNCHANGED vars
  PROVE  Selected' /\ Known' /\ Publishing' /\ Reading'
<1>1. /\ UNCHANGED tableVars
      /\ UNCHANGED <<api, tuned, src, chunk, mChannel, mQueue, mCircBuf, pc, args>>
  BY DEF openLoop, patPmtMessage, ecmMessage, nokiaPublish, notByNokia, vars, clientVars,
     sourceVars, streamVars, threadVars, inputVars
<1>2. Known' /\ (Ready => Ready') /\ tables' = tables
  BY <1>1, KnownUnchanged, ReadyUnchanged, TablesSame
<1> QED BY <1>1, <1>2 DEF Selected, AiredChunks, Publishing, Reading

(* CleanInv is inductive.                                                  *)
LEMMA CleanStep ==
  ASSUME WellFormed, DataOK, TablesInv, PlacesInv, CleanInv, [Next]_vars
  PROVE  CleanInv'
<1> SUFFICES ASSUME clean' PROVE Selected' /\ Known' /\ Publishing' /\ Reading'
  BY DEF CleanInv
<1>1. CASE resetTables
  BY <1>1, CleanReset
<1>2. CASE clean /\ (consume \/ parser \/ openLoop \/ UNCHANGED vars)
  <2>1. Selected /\ Known /\ Publishing /\ Reading
    BY <1>2 DEF CleanInv
  <2> QED BY <1>2, <2>1, CleanConsume, CleanProcess, CleanThread, CleanNokia, Zenon DEF parser
<1> QED BY <1>1, <1>2, CleanSteps

(* Counting on in a broadcast.                                             *)
LEMMA ModStep ==
  ASSUME NEW x \in Nat, NEW m \in Nat \ {0}
  PROVE  ((x % m) + 1) % m = (x + 1) % m
<1> DEFINE r == x % m
           q == x \div m
<1>1. r \in 0 .. m - 1 /\ q \in Nat /\ x = m * q + r
  OBVIOUS
<1> HIDE DEF r, q
<1>2. CASE r + 1 < m
  <2>1. x + 1 = m * q + (r + 1) /\ r + 1 \in 0 .. m - 1
    BY <1>1, <1>2
  <2>2. (m * q + (r + 1)) % m = r + 1
    BY <1>1, <2>1
  <2>3. (r + 1) % m = r + 1
    BY <1>1, <1>2
  <2> QED BY <2>1, <2>2, <2>3 DEF r
<1>3. CASE r + 1 = m
  <2>1. x + 1 = m * (q + 1)
    BY <1>1, <1>3
  <2>2. (m * (q + 1)) % m = 0
    BY <1>1
  <2>3. (r + 1) % m = 0
    BY <1>1, <1>3
  <2> QED BY <2>1, <2>2, <2>3 DEF r
<1> QED BY <1>1, <1>2, <1>3

(* Positions of a broadcast, one after the other.                          *)
LEMMA BehindOne ==
  ASSUME NEW c \in Channels, NEW a \in 1..Len(Broadcast[c]), NEW n \in Nat
  PROVE  /\ behind(c, behind(c, a, n), 1) = behind(c, a, n + 1)
         /\ behind(c, a, 0) = a
<1> DEFINE L == Len(Broadcast[c])
           x == a + n - 1
<1>1. L \in Nat \ {0} /\ a \in 1..L
  BY BroadcastFacts
<1>2. /\ behind(c, behind(c, a, n), 1) = ((((x % L) + 1) + 1 - 1) % L) + 1
      /\ behind(c, a, n + 1) = ((a + (n + 1) - 1) % L) + 1
      /\ behind(c, a, 0) = ((a + 0 - 1) % L) + 1
  BY DEF behind
<1> HIDE DEF L
<1>3. x \in Nat /\ a + (n + 1) - 1 = x + 1 /\ a + 0 - 1 = a - 1 /\ a - 1 \in 0 .. L - 1
  BY <1>1
<1> HIDE DEF x
<1>4. ((x % L) + 1) + 1 - 1 = (x % L) + 1
  BY <1>1, <1>3
<1>5. ((x % L) + 1) % L = (x + 1) % L
  BY <1>1, <1>3, ModStep
<1>6. ((a - 1) % L) + 1 = a
  BY <1>1, <1>3
<1>7. behind(c, behind(c, a, n), 1) = behind(c, a, n + 1)
  BY <1>2, <1>3, <1>4, <1>5
<1>8. behind(c, a, 0) = a
  BY <1>2, <1>3, <1>6
<1> QED BY <1>7, <1>8

-----------------------------------------------------------------------------
(* Two sequences one behind the other.                                     *)
LEMMA SeqEqual ==
  ASSUME NEW S, NEW v \in Seq(S), NEW w \in Seq(S), Len(v) = Len(w),
         \A i \in 1..Len(v) : v[i] = w[i]
  PROVE  v = w
  OBVIOUS

(* The elements of a concatenation.                                        *)
LEMMA ConcatFacts ==
  ASSUME NEW S, NEW c \in Seq(S), NEW q \in Seq(S)
  PROVE  /\ c \o q \in Seq(S) /\ Len(c \o q) = Len(c) + Len(q)
         /\ Len(c) \in Nat /\ Len(q) \in Nat
         /\ \A i \in 1..Len(c) : (c \o q)[i] = c[i]
         /\ \A i \in 1..Len(q) : (c \o q)[Len(c) + i] = q[i]
  OBVIOUS

(* pop: the first element of q moves to the end of c.                      *)
LEMMA MoveHead ==
  ASSUME NEW S, NEW c \in Seq(S), NEW q \in Seq(S), q # <<>>
  PROVE  Append(c, Head(q)) \o Tail(q) = c \o q
<1> DEFINE d == Append(c, Head(q))
           t == Tail(q)
           v == d \o t
           w == c \o q
<1>1. /\ Len(c) \in Nat /\ Len(q) \in Nat \ {0} /\ Head(q) = q[1] /\ q[1] \in S
      /\ t \in Seq(S) /\ Len(t) = Len(q) - 1 /\ \A i \in 1..Len(t) : t[i] = q[i + 1]
  OBVIOUS
<1>2. /\ d \in Seq(S) /\ Len(d) = Len(c) + 1 /\ d[Len(c) + 1] = q[1]
      /\ \A i \in 1..Len(c) : d[i] = c[i]
  <2> DEFINE h == Head(q)
  <2>1. h \in S /\ h = q[1]
    BY <1>1
  <2> HIDE DEF h
  <2> QED BY <2>1 DEF h
<1> HIDE DEF d, t
<1>3. /\ v \in Seq(S) /\ Len(v) = Len(d) + Len(t)
      /\ \A i \in 1..Len(d) : v[i] = d[i]
      /\ \A i \in 1..Len(t) : v[Len(d) + i] = t[i]
  <2>1. d \in Seq(S) /\ t \in Seq(S)
    BY <1>1, <1>2
  <2> QED BY <2>1, ConcatFacts
<1>4. /\ w \in Seq(S) /\ Len(w) = Len(c) + Len(q)
      /\ \A i \in 1..Len(c) : w[i] = c[i]
      /\ \A i \in 1..Len(q) : w[Len(c) + i] = q[i]
  BY ConcatFacts
<1> HIDE DEF v, w
<1>5. Len(v) = Len(w)
  BY <1>1, <1>2, <1>3, <1>4
<1>6. ASSUME NEW i \in 1..Len(v) PROVE v[i] = w[i]
  <2>1. CASE i <= Len(c)
    <3>1. i \in 1..Len(c) /\ i \in 1..Len(d)
      BY <1>1, <1>2, <2>1
    <3> QED BY <1>2, <1>3, <1>4, <3>1
  <2>2. CASE i = Len(c) + 1
    <3>1. i \in 1..Len(d) /\ 1 \in 1..Len(q)
      BY <1>1, <1>2, <2>2
    <3> QED BY <1>2, <1>3, <1>4, <2>2, <3>1
  <2>3. CASE i > Len(c) + 1
    <3>1. PICK j \in 1..Len(t) : i = Len(d) + j /\ j + 1 \in 1..Len(q)
                                 /\ i = Len(c) + (j + 1)
      <4>1. i - Len(d) \in 1..Len(t) /\ i = Len(d) + (i - Len(d))
            /\ (i - Len(d)) + 1 \in 1..Len(q) /\ i = Len(c) + ((i - Len(d)) + 1)
        BY <1>1, <1>2, <1>3, <2>3
      <4> QED BY <4>1
    <3>2. v[i] = t[j] /\ w[i] = q[j + 1]
      BY <1>3, <1>4, <3>1
    <3> QED BY <1>1, <3>2
  <2> QED BY <1>1, <2>1, <2>2, <2>3
<1> QED BY <1>3, <1>4, <1>5, <1>6, SeqEqual DEF v, w, d, t

(* post: an element is added at the end of q.                              *)
LEMMA AppendBehind ==
  ASSUME NEW S, NEW c \in Seq(S), NEW q \in Seq(S), NEW x \in S
  PROVE  /\ c \o Append(q, x) \in Seq(S)
         /\ Len(c \o Append(q, x)) = Len(c \o q) + 1
         /\ (c \o Append(q, x))[Len(c \o q) + 1] = x
         /\ \A i \in 1..Len(c \o q) : (c \o Append(q, x))[i] = (c \o q)[i]
<1> DEFINE r == Append(q, x)
           v == c \o r
           w == c \o q
<1>1. /\ Len(c) \in Nat /\ Len(q) \in Nat
      /\ r \in Seq(S) /\ Len(r) = Len(q) + 1 /\ r[Len(q) + 1] = x
      /\ \A i \in 1..Len(q) : r[i] = q[i]
  OBVIOUS
<1> HIDE DEF r
<1>2. /\ v \in Seq(S) /\ Len(v) = Len(c) + Len(r)
      /\ \A i \in 1..Len(c) : v[i] = c[i]
      /\ \A i \in 1..Len(r) : v[Len(c) + i] = r[i]
  <2>1. r \in Seq(S)
    BY <1>1
  <2> QED BY <2>1, ConcatFacts
<1>3. /\ Len(w) = Len(c) + Len(q)
      /\ \A i \in 1..Len(c) : w[i] = c[i]
      /\ \A i \in 1..Len(q) : w[Len(c) + i] = q[i]
  BY ConcatFacts
<1> HIDE DEF v, w
<1>4. Len(v) = Len(w) + 1 /\ Len(w) + 1 = Len(c) + Len(r) /\ Len(r) \in 1..Len(r)
  BY <1>1, <1>2, <1>3
<1>5. v[Len(w) + 1] = x
  BY <1>1, <1>2, <1>4
<1>6. ASSUME NEW i \in 1..Len(w) PROVE v[i] = w[i]
  <2>1. CASE i <= Len(c)
    <3>1. i \in 1..Len(c)
      BY <1>1, <2>1
    <3> QED BY <1>2, <1>3, <3>1
  <2>2. CASE i > Len(c)
    <3>1. PICK j \in 1..Len(q) : i = Len(c) + j /\ j \in 1..Len(r)
      <4>1. i - Len(c) \in 1..Len(q) /\ i = Len(c) + (i - Len(c)) /\ i - Len(c) \in 1..Len(r)
        BY <1>1, <1>3, <2>2
      <4> QED BY <4>1
    <3> QED BY <1>1, <1>2, <1>3, <3>1
  <2> QED BY <1>1, <2>1, <2>2
<1> QED BY <1>2, <1>4, <1>5, <1>6 DEF v, w, r

(* getNextPacket: the first element of c is given up.                      *)
LEMMA TailBehind ==
  ASSUME NEW S, NEW c \in Seq(S), NEW q \in Seq(S), c # <<>>
  PROVE  /\ Tail(c) \o q \in Seq(S)
         /\ Len(c \o q) \in Nat \ {0}
         /\ Len(Tail(c) \o q) = Len(c \o q) - 1
         /\ (c \o q)[1] = c[1]
         /\ \A i \in 1..Len(Tail(c) \o q) : (Tail(c) \o q)[i] = (c \o q)[i + 1]
<1> DEFINE t == Tail(c)
           v == t \o q
           w == c \o q
<1>1. /\ Len(c) \in Nat \ {0} /\ Len(q) \in Nat
      /\ t \in Seq(S) /\ Len(t) = Len(c) - 1 /\ \A i \in 1..Len(t) : t[i] = c[i + 1]
  OBVIOUS
<1> HIDE DEF t
<1>2. /\ v \in Seq(S) /\ Len(v) = Len(t) + Len(q)
      /\ \A i \in 1..Len(t) : v[i] = t[i]
      /\ \A i \in 1..Len(q) : v[Len(t) + i] = q[i]
  <2>1. t \in Seq(S)
    BY <1>1
  <2> QED BY <2>1, ConcatFacts
<1>3. /\ Len(w) = Len(c) + Len(q)
      /\ \A i \in 1..Len(c) : w[i] = c[i]
      /\ \A i \in 1..Len(q) : w[Len(c) + i] = q[i]
  BY ConcatFacts
<1> HIDE DEF v, w
<1>4. Len(w) \in Nat \ {0} /\ Len(v) = Len(w) - 1 /\ 1 \in 1..Len(c)
  BY <1>1, <1>2, <1>3
<1>5. ASSUME NEW i \in 1..Len(v) PROVE v[i] = w[i + 1]
  <2>1. CASE i <= Len(t)
    <3>1. i \in 1..Len(t) /\ i + 1 \in 1..Len(c)
      BY <1>1, <2>1
    <3> QED BY <1>1, <1>2, <1>3, <3>1
  <2>2. CASE i > Len(t)
    <3>1. PICK j \in 1..Len(q) : i = Len(t) + j /\ i + 1 = Len(c) + j
      <4>1. i - Len(t) \in 1..Len(q) /\ i = Len(t) + (i - Len(t)) /\ i + 1 = Len(c) + (i - Len(t))
        BY <1>1, <1>2, <2>2
      <4> QED BY <4>1
    <3> QED BY <1>2, <1>3, <3>1
  <2> QED BY <1>1, <2>1, <2>2
<1> QED BY <1>2, <1>3, <1>4, <1>5 DEF v, w, t

-----------------------------------------------------------------------------
(* The parser's input stays in step with the broadcast.                    *)
Positions == 1..Len(Broadcast[tuned])

(* The position of the packet the parser reads next.                       *)
position(s) == behind(tuned, s[1], mPointer)

(* post() adds the chunk that comes next.                                  *)
LEMMA InStepConsume ==
  ASSUME DataOK, Selected, consume, mPsiParserRunning,
         NEW s \in [1..(Len(input) + 1) -> Positions], inStep(s)
  PROVE  \E t \in [1..(Len(input) + 1)' -> Positions'] :
           inStep(t)' /\ position(t)' = position(s)
<1> DEFINE n == ChunkSize - Len(chunk)
           x == packetsFrom(tuned, at, ChunkSize)
           N == Len(input)
<1>1. /\ UNCHANGED <<tuned, src, mCircBuf, mPointer>>
      /\ tuned \in Channels /\ src = tuned /\ chunk = <<>> /\ at \in 1..Len(Broadcast[tuned])
      /\ ChunkSize \in Nat \ {0}
  BY PsiAssumption DEF consume, notByConsumer, clientVars, streamVars, Selected, DataOK
<1>2. n = ChunkSize /\ arriving(n) = x
  BY <1>1 DEF arriving
<1>3. x \in Chunks
  <2>1. arriving(ChunkSize) \in [1..ChunkSize -> Packets]
    BY <1>1, ArrivingPackets
  <2> QED BY <1>1, <2>1 DEF arriving, Chunks
<1>4. mQueue' = Append(mQueue, x) /\ at' = behind(tuned, at, ChunkSize)
  <2>1. mQueue' = Append(IF src = mChannel THEN mQueue ELSE <<>>, chunk \o arriving(n))
    BY DEF consume, post
  <2>2. (IF src = mChannel THEN mQueue ELSE <<>>) = mQueue
    BY <1>1 DEF Selected
  <2>3. chunk \o arriving(n) = x
    <3>1. x \in Seq(Packets)
      BY <1>1, <1>3 DEF Chunks
    <3> HIDE DEF x
    <3>2. <<>> \o x = x
      BY <3>1
    <3> QED BY <1>1, <1>2, <3>2
  <2>4. at' = behind(src, at, n)
    BY DEF consume
  <2> QED BY <1>1, <1>2, <2>1, <2>2, <2>3, <2>4
<1> HIDE DEF n, x
<1>5. mCircBuf \in Seq(Chunks) /\ mQueue \in Seq(Chunks)
  BY DEF DataOK
<1>6. /\ N \in Nat /\ Len(input') = N + 1 /\ input'[N + 1] = x
      /\ \A i \in 1..N : input'[i] = input[i]
  <2>1. input' = mCircBuf \o Append(mQueue, x)
    BY <1>1, <1>4 DEF input
  <2>2. Len(mCircBuf \o mQueue) \in Nat
    BY <1>5
  <2> QED BY <1>3, <1>5, <2>1, <2>2, AppendBehind DEF input
<1> HIDE DEF N
<1>7. /\ s[N + 1] = at
      /\ \A i \in 1..N : input[i] = packetsFrom(tuned, s[i], ChunkSize)
                         /\ s[i + 1] = behind(tuned, s[i], ChunkSize)
  BY DEF inStep, N
<1>8. Positions' = Positions /\ behind(tuned, at, ChunkSize) \in Positions
  <2>1. behind(tuned, at, ChunkSize) \in 1..Len(Broadcast[tuned])
    BY <1>1, BehindRange
  <2> QED BY <1>1, <2>1 DEF Positions
<1> PICK t : t = [i \in 1..(N + 2) |->
                    IF i = N + 2 THEN behind(tuned, at, ChunkSize) ELSE s[i]]
  OBVIOUS
<1>9. /\ t \in [1..(N + 2) -> Positions] /\ t[N + 2] = at'
      /\ \A i \in 1..(N + 1) : t[i] = s[i]
  <2>1. s \in [1..(N + 1) -> Positions]
    BY DEF N
  <2>2. \A i \in 1..(N + 2) : i = N + 2 \/ i \in 1..(N + 1)
    BY <1>6
  <2>3. \A i \in 1..(N + 1) : i # N + 2 /\ i \in 1..(N + 2)
    BY <1>6
  <2>4. N + 2 \in 1..(N + 2)
    BY <1>6
  <2> QED BY <1>4, <1>8, <2>1, <2>2, <2>3, <2>4
<1>10. (Len(input) + 1)' = N + 2
  <2>1. Len(input') = N + 1 /\ N \in Nat
    BY <1>6
  <2>2. (N + 1) + 1 = N + 2
    BY <2>1
  <2> QED BY <2>1, <2>2
<1>11. inStep(t)'
  <2>1. t[Len(input') + 1] = at'
    <3>1. Len(input') + 1 = N + 2
      BY <1>10
    <3>2. t[N + 2] = at'
      BY <1>9
    <3> QED BY <3>1, <3>2, Zenon
  <2>2. ASSUME NEW i \in 1..Len(input')
        PROVE  /\ input'[i] = packetsFrom(tuned, t[i], ChunkSize)
               /\ t[i + 1] = behind(tuned, t[i], ChunkSize)
    <3>1. CASE i = N + 1
      <4>1. i + 1 = N + 2 /\ i \in 1..(N + 1)
        BY <1>6, <3>1
      <4>2. t[i] = at /\ input'[i] = x /\ t[i + 1] = at'
        BY <1>6, <1>7, <1>9, <3>1, <4>1
      <4> QED BY <1>4, <4>2 DEF x
    <3>2. CASE i # N + 1
      <4>1. i \in 1..N /\ i \in 1..(N + 1) /\ i + 1 \in 1..(N + 1)
        BY <1>6, <3>2
      <4>2. t[i] = s[i] /\ t[i + 1] = s[i + 1] /\ input'[i] = input[i]
        BY <1>6, <1>9, <4>1
      <4> QED BY <1>7, <4>1, <4>2
    <3> QED BY <3>1, <3>2
  <2>3. tuned' = tuned
    BY <1>1
  <2>4. \A i \in 1..Len(input') : /\ input'[i] = packetsFrom(tuned', t[i], ChunkSize)
                                  /\ t[i + 1] = behind(tuned', t[i], ChunkSize)
    BY <2>2, <2>3
  <2> QED BY <2>1, <2>4, Zenon DEF inStep
<1>12. position(t)' = position(s)
  <2>1. t[1] = s[1]
    BY <1>6, <1>9
  <2> QED BY <1>1, <2>1 DEF position
<1> QED BY <1>8, <1>9, <1>10, <1>11, <1>12

(* The thread moves a chunk from mQueue to mCircBuf.                       *)
LEMMA InStepPop ==
  ASSUME DataOK, pop, Len(mCircBuf) < 2,
         NEW s \in [1..(Len(input) + 1) -> Positions], inStep(s)
  PROVE  /\ s \in [1..(Len(input) + 1)' -> Positions']
         /\ inStep(s)' /\ position(s)' = position(s)
<1>1. /\ UNCHANGED <<tuned, at, mPointer>> /\ mQueue # <<>>
      /\ mQueue' = Tail(mQueue) /\ mCircBuf' = Append(mCircBuf, Head(mQueue))
  BY DEF pop, notByParser, clientVars, sourceVars
<1>2. mCircBuf \in Seq(Chunks) /\ mQueue \in Seq(Chunks)
  BY DEF DataOK
<1>3. input' = input
  BY <1>1, <1>2, MoveHead DEF input
<1>4. Positions' = Positions /\ position(s)' = position(s)
  BY <1>1 DEF Positions, position
<1>5. inStep(s)'
  BY <1>1, <1>3, Zenon DEF inStep
<1> QED BY <1>3, <1>4, <1>5

(* The parser reads the packet at its position and moves on by one.        *)
LEMMA InStepRead ==
  ASSUME DataOK, Selected, processChunk,
         NEW s \in [1..(Len(input) + 1) -> Positions], inStep(s)
  PROVE  /\ position(s) \in Positions /\ packet = Broadcast[tuned][position(s)]
         /\ \E t \in [1..(Len(input) + 1)' -> Positions'] :
              inStep(t)' /\ position(t)' = behind(tuned, position(s), 1)
<1> DEFINE N == Len(input)
           a == s[1]
<1>1. /\ UNCHANGED <<tuned, at, mQueue>> /\ mCircBuf # <<>> /\ getNextPacket
      /\ tuned \in Channels
  BY DEF processChunk, notByParser, clientVars, sourceVars, Selected
<1>2. /\ mCircBuf \in Seq(Chunks) /\ mQueue \in Seq(Chunks)
      /\ ChunkSize \in Nat \ {0} /\ mPointer \in 0 .. ChunkSize - 1
  BY PsiAssumption DEF DataOK
<1>3. /\ N \in Nat \ {0} /\ input[1] = mCircBuf[1]
      /\ Len(Tail(mCircBuf) \o mQueue) = N - 1
      /\ \A i \in 1..(N - 1) : (Tail(mCircBuf) \o mQueue)[i] = input[i + 1]
  BY <1>1, <1>2, TailBehind DEF input
<1> HIDE DEF N
<1>4. /\ s \in [1..(N + 1) -> Positions] /\ s[N + 1] = at
      /\ \A i \in 1..N : input[i] = packetsFrom(tuned, s[i], ChunkSize)
                         /\ s[i + 1] = behind(tuned, s[i], ChunkSize)
  BY DEF inStep, N
<1>5. a \in 1..Len(Broadcast[tuned]) /\ s[2] = behind(tuned, a, ChunkSize)
      /\ mCircBuf[1] = packetsFrom(tuned, a, ChunkSize)
  <2>1. 1 \in 1..N /\ 1 \in 1..(N + 1) /\ 1 + 1 = 2
    BY <1>3
  <2> QED BY <1>3, <1>4, <2>1 DEF Positions
<1> HIDE DEF a
<1>6. position(s) = behind(tuned, a, mPointer)
  BY DEF position, a
<1>7. position(s) \in Positions
  <2>1. mPointer \in Nat
    BY <1>2
  <2>2. behind(tuned, a, mPointer) \in 1..Len(Broadcast[tuned])
    BY <1>1, <1>5, <2>1, BehindRange
  <2> QED BY <1>6, <2>2 DEF Positions
<1>8. packet = Broadcast[tuned][position(s)]
  <2>1. mPointer + 1 \in 1..ChunkSize /\ (mPointer + 1) - 1 = mPointer
    BY <1>2
  <2>2. packetsFrom(tuned, a, ChunkSize)[mPointer + 1]
          = Broadcast[tuned][behind(tuned, a, (mPointer + 1) - 1)]
    BY <2>1, Zenon DEF packetsFrom
  <2> QED BY <1>5, <1>6, <2>1, <2>2 DEF packet
<1>9. behind(tuned, position(s), 1) = behind(tuned, a, mPointer + 1)
  BY <1>1, <1>2, <1>5, <1>6, BehindOne
<1>10. Positions' = Positions
  BY <1>1 DEF Positions
<1>11. CASE mPointer + 1 # ChunkSize
  <2>1. mPointer' = mPointer + 1 /\ mCircBuf' = mCircBuf
    BY <1>1, <1>11 DEF getNextPacket
  <2>2. input' = input
    BY <1>1, <2>1 DEF input
  <2>3. inStep(s)'
    BY <1>1, <2>2, Zenon DEF inStep
  <2>4. position(s)' = behind(tuned, a, mPointer + 1)
    BY <1>1, <2>1 DEF position, a
  <2>5. s \in [1..(Len(input) + 1)' -> Positions']
    BY <1>10, <2>2
  <2> QED BY <1>7, <1>8, <1>9, <2>3, <2>4, <2>5
<1>12. CASE mPointer + 1 = ChunkSize
  <2>1. mPointer' = 0 /\ input' = Tail(mCircBuf) \o mQueue
    BY <1>1, <1>12 DEF getNextPacket, input
  <2>2. Len(input') = N - 1 /\ (Len(input) + 1)' = N
        /\ \A i \in 1..(N - 1) : input'[i] = input[i + 1]
    BY <1>3, <2>1
  <2> PICK t : t = [i \in 1..N |-> s[i + 1]]
    OBVIOUS
  <2>3. t \in [1..N -> Positions]
    <3>1. \A i \in 1..N : i + 1 \in 1..(N + 1)
      BY <1>3
    <3> QED BY <1>4, <3>1
  <2>4. t[N] = at /\ \A i \in 1..N : t[i] = s[i + 1]
    BY <1>3, <1>4
  <2>5. inStep(t)'
    <3>1. t[Len(input') + 1] = at'
      BY <1>1, <1>3, <2>2, <2>4
    <3>2. ASSUME NEW i \in 1..Len(input')
          PROVE  /\ input'[i] = packetsFrom(tuned, t[i], ChunkSize)
                 /\ t[i + 1] = behind(tuned, t[i], ChunkSize)
      <4>1. i \in 1..(N - 1) /\ i \in 1..N /\ i + 1 \in 1..N
        BY <1>3, <2>2
      <4>2. t[i] = s[i + 1] /\ t[i + 1] = s[(i + 1) + 1] /\ input'[i] = input[i + 1]
        BY <2>2, <2>4, <4>1
      <4> QED BY <1>4, <4>1, <4>2
    <3>3. \A i \in 1..Len(input') : /\ input'[i] = packetsFrom(tuned', t[i], ChunkSize)
                                    /\ t[i + 1] = behind(tuned', t[i], ChunkSize)
      BY <1>1, <3>2
    <3> QED BY <3>1, <3>3, Zenon DEF inStep
  <2>6. position(t)' = behind(tuned, a, mPointer + 1)
    <3>1. 1 \in 1..N /\ t[1] = s[2]
      <4>1. 1 \in 1..N /\ 1 + 1 = 2
        BY <1>3
      <4> QED BY <2>4, <4>1
    <3>2. s[2] \in 1..Len(Broadcast[tuned])
      <4>1. 2 \in 1..(N + 1)
        BY <1>3
      <4> QED BY <1>4, <4>1 DEF Positions
    <3>3. behind(tuned, s[2], 0) = s[2]
      BY <1>1, <3>2, BehindOne
    <3>4. position(t)' = behind(tuned, t[1], 0)
      BY <1>1, <2>1 DEF position
    <3> QED BY <1>5, <1>12, <3>1, <3>3, <3>4
  <2> QED BY <1>7, <1>8, <1>9, <1>10, <2>2, <2>3, <2>5, <2>6
<1> QED BY <1>11, <1>12

-----------------------------------------------------------------------------
(* The collection of an ECM.  While the parser runs without interruption   *)
(* after a clean switch to a protected channel, a new PAT does not come in *)
(* between, and what is collected are the parts sent so far of the table   *)
(* that is unfinished at the parser's position.                            *)
Parts(T) == \A i \in 1..Len(T) : T[i].part = i

Following(pid) ==
  /\ mEcm.pid \in {NoPid, pid}
  /\ mTempCollectedEcmData # <<>> => mEcm.pid = pid
  /\ IF mPat.ver = NoVersion THEN mEcm.pid = NoPid
     ELSE /\ mPat.table # NoTable /\ mPat.table.kind = "pat"
          /\ mPat.table.ver = mPat.ver
  /\ Parts(mEcmTable) /\ Parts(mTempCollectedEcmData)

lastPart == mTempCollectedEcmData[Len(mTempCollectedEcmData)]
LastPart(u, k) ==
  mTempCollectedEcmData # <<>> =>
    u[k] = lastPart /\ lastPart.of = mTempCollectedEcmData[1].of

(* What steadiness says of one position.                                   *)
LEMMA SteadyAt ==
  ASSUME NEW c \in Channels, NEW pid, NEW u, steady(c, pid, u), NEW k \in 1..Len(Broadcast[c]),
         NEW p, p = Broadcast[c][k]
  PROVE  /\ p \in aired(c) /\ p.sync /\ (p.kind = "pmt" => p.names = pid)
         /\ \A t \in aired(c) : p.kind = "pat" /\ t.kind = "pat" => p.ver = t.ver
         /\ p.pid = pid => /\ p.kind = "ecm" /\ p.part <= p.of
                           /\ IF u[k] = NoTable THEN p.part = 1
                              ELSE p.part = u[k].part + 1 /\ p.of = u[k].of
         /\ u[behind(c, k, 1)] = IF p.pid # pid THEN u[k]
                                 ELSE IF p.part < p.of THEN p ELSE NoTable
<1>1. k \in DOMAIN Broadcast[c]
  BY BroadcastFacts
<1>2. \A t \in aired(c) : p.kind = "pat" /\ t.kind = "pat" => p.ver = t.ver
  BY <1>1 DEF steady, aired
<1> QED BY <1>1, <1>2 DEF steady, aired

(* A PAT is not new once one has been seen.                                *)
LEMMA FollowPat ==
  ASSUME TablesInv, Selected, Known, NEW pid \in Pids, NEW u, steady(tuned, pid, u),
         NEW k \in 1..Len(Broadcast[tuned]), NEW m, m = behind(tuned, k, 1),
         NEW p, p = Broadcast[tuned][k],
         Following(pid), LastPart(u, k), parsePat(p), isPid(mPat, p.pid)
  PROVE  Following(pid)' /\ LastPart(u, m)'
<1>1. tuned \in Channels /\ UNCHANGED <<mTempCollectedEcmData, mEcmTable>>
  BY DEF Selected, parsePat
<1>2. /\ p \in aired(tuned) /\ p \in Packets
      /\ \A t \in aired(tuned) : p.kind = "pat" /\ t.kind = "pat" => p.ver = t.ver
      /\ p.pid # pid => u[m] = u[k]
  BY <1>1, SteadyAt, AiredFacts
<1>3. CASE UNCHANGED <<mPat, mPmt, mEcm>>
  <2>1. mTempCollectedEcmData # <<>> => p.pid # pid
    BY PsiAssumption DEF isPid, TablesInv, InfosOK, Following, Known
  <2>2. Following(pid)'
    BY <1>1, <1>3 DEF Following, Parts
  <2>3. LastPart(u, m)'
    BY <1>1, <1>2, <2>1 DEF LastPart, lastPart
  <2> QED BY <2>2, <2>3
<1>4. CASE p.kind = "pat" /\ isNew(mPat, p.ver) /\ newPat(p)
  <2>1. mPat.ver = NoVersion
    BY <1>2, <1>4 DEF Following, Known, isNew
  <2>2. mTempCollectedEcmData = <<>>
    BY <2>1, PsiAssumption DEF Following
  <2>3. p.ver \in Versions /\ p.ver # NoVersion /\ p # NoTable
    BY <1>2, PsiAssumption DEF Packets
  <2>4. mPat'.table = p /\ mPat'.ver = p.ver
    <3>1. setVer(mPat, p.ver) \in Infos /\ setVer(mPat, p.ver).ver = p.ver
      BY <2>3, SetVersion, PsiAssumption DEF TablesInv, InfosOK, setVer, Infos
    <3> QED BY <1>4, <3>1 DEF newPat, Infos
  <2>5. mEcm'.pid = NoPid
    BY <1>4, ResetInfo DEF newPat, reset
  <2>6. Following(pid)'
    BY <1>1, <1>4, <2>2, <2>3, <2>4, <2>5 DEF Following, Parts
  <2> QED BY <1>1, <2>2, <2>6 DEF LastPart
<1> QED BY <1>3, <1>4 DEF parsePat

(* A PMT names the PID the ECMs are collected from.                        *)
LEMMA FollowPmt ==
  ASSUME WellFormed, TablesInv, Selected, Known, NEW pid \in Pids, NEW u, steady(tuned, pid, u),
         NEW k \in 1..Len(Broadcast[tuned]), NEW m, m = behind(tuned, k, 1),
         NEW p, p = Broadcast[tuned][k], ~isClear(tuned),
         Following(pid), LastPart(u, k), parsePmt(p), ~isPid(mPat, p.pid), isPid(mPmt, p.pid)
  PROVE  Following(pid)' /\ LastPart(u, m)'
<1>1. tuned \in Channels /\ UNCHANGED <<mPat, mTempCollectedEcmData, mEcmTable>>
  BY DEF Selected, parsePmt
<1>2. /\ p \in aired(tuned) /\ p \in Packets /\ (p.kind = "pmt" => p.names = pid)
      /\ p.pid # pid => u[m] = u[k]
  BY <1>1, SteadyAt, AiredFacts
<1>3. p.pid = mPmt.pid /\ p.pid \notin {NoPid, PatPid}
  BY <1>2, PsiAssumption DEF isPid, TablesInv, InfosOK
<1>4. mPat.ver # NoVersion
  BY <1>3 DEF TablesInv, TablesChained, processed
<1>5. mEcm'.pid \in {NoPid, pid} /\ (mEcm.pid = pid => mEcm'.pid = pid)
  <2>1. CASE p.kind = "pmt" /\ isNew(mPmt, p.ver)
    <3>1. newPmt(p) /\ afterPmt(ecmOf(p)) /\ p.names = pid
      BY <1>2, <2>1 DEF parsePmt
    <3>2. pid # NoPid
      BY PsiAssumption
    <3>3. mIsClearStream' = (p.names = NoPid)
      BY <3>1 DEF newPmt
    <3>4. ~mIsClearStream'
      BY <3>1, <3>2, <3>3, Zenon
    <3>5. mEcm' = ecmOf(p)
      BY <3>1, <3>4, Zenon DEF afterPmt
    <3>6. CASE isPid(mEcm, p.names)
      BY <3>1, <3>5, <3>6 DEF ecmOf, isPid
    <3>7. CASE ~isPid(mEcm, p.names)
      <4>1. ecmOf(p).pid = pid
        BY <3>1, <3>2, <3>7, ResetInfo DEF ecmOf, Infos
      <4> QED BY <3>5, <4>1
    <3> QED BY <3>6, <3>7
  <2>2. CASE ~(p.kind = "pmt" /\ isNew(mPmt, p.ver))
    <3>1. CASE processed(mPmt)
      <4>1. UNCHANGED mIsClearStream /\ afterPmt(mEcm)
        BY <2>2, <3>1 DEF parsePmt
      <4>2. ~mIsClearStream
        BY <3>1, Zenon DEF Known
      <4>3. mEcm' = mEcm
        BY <4>1, <4>2, Zenon DEF afterPmt
      <4> QED BY <4>3 DEF Following
    <3>2. CASE ~processed(mPmt)
      <4>1. mEcm' = mEcm
        BY <2>2, <3>2 DEF parsePmt
      <4> QED BY <4>1 DEF Following
    <3> QED BY <3>1, <3>2
  <2> QED BY <2>1, <2>2
<1>6. Following(pid)'
  BY <1>1, <1>4, <1>5 DEF Following, Parts
<1>7. mTempCollectedEcmData # <<>> => p.pid # pid
  <2> SUFFICES ASSUME mTempCollectedEcmData # <<>>, p.pid = pid PROVE FALSE
    OBVIOUS
  <2>1. mEcm.pid = pid /\ mEcm.pid \notin {NoPid, PatPid}
    BY PsiAssumption DEF Following, Known
  <2>2. mEcm.table # NoTable /\ mEcm.table.pid = pid
    BY <1>3, <2>1 DEF TablesInv, TablesChained
  <2>3. mEcm.table \in pmts(tuned)
    BY <2>2 DEF Known
  <2>4. PICK j \in DOMAIN Broadcast[tuned] : mEcm.table = Broadcast[tuned][j]
    BY <2>3 DEF pmts, aired
  <2>5. j \in 1..Len(Broadcast[tuned])
    BY <1>1, <2>4, BroadcastFacts
  <2>6. mEcm.table.kind = "ecm"
    BY <1>1, <2>2, <2>4, <2>5, SteadyAt
  <2> QED BY <2>3, <2>6 DEF pmts
<1>8. LastPart(u, m)'
  BY <1>1, <1>2, <1>7 DEF LastPart, lastPart
<1> QED BY <1>6, <1>8

(* An ECM packet: the next part of the table.                              *)
LEMMA FollowEcm ==
  ASSUME TablesInv, Selected, Known, NEW pid \in Pids, NEW u, steady(tuned, pid, u),
         NEW k \in 1..Len(Broadcast[tuned]), NEW m, m = behind(tuned, k, 1),
         NEW p, p = Broadcast[tuned][k],
         Following(pid), LastPart(u, k), parseEcm(p), isPid(mEcm, p.pid)
  PROVE  Following(pid)' /\ LastPart(u, m)'
<1> DEFINE T == mTempCollectedEcmData
           table == collected(p)
<1>1. tuned \in Channels /\ UNCHANGED mPat
  BY DEF Selected, parseEcm
<1>2. p.pid = pid /\ mEcm.pid = pid /\ pid # NoPid
  BY PsiAssumption DEF isPid, Following
<1>3. /\ p \in aired(tuned) /\ p.kind = "ecm" /\ p.part <= p.of
      /\ IF u[k] = NoTable THEN p.part = 1 ELSE p.part = u[k].part + 1 /\ p.of = u[k].of
      /\ u[m] = IF p.part < p.of THEN p ELSE NoTable
  BY <1>1, <1>2, SteadyAt
<1>4. p \in Packets /\ p.part \in Nat /\ p.of \in Nat
  BY <1>1, <1>3, AiredFacts DEF Packets
<1>5. T \in Seq(aired(tuned)) /\ Parts(T) /\ Parts(mEcmTable)
  BY DEF Known, Following
<1>6. /\ table \in Seq(aired(tuned)) /\ Len(T) \in Nat /\ Len(table) = Len(T) + 1
      /\ table[Len(table)] = p /\ \A i \in 1..Len(T) : table[i] = T[i]
      /\ table # <<>>
  <2> DEFINE A == aired(tuned)
  <2>1. T \in Seq(A) /\ p \in A
    BY <1>3, <1>5
  <2> HIDE DEF A, T
  <2>2. /\ Append(T, p) \in Seq(A) /\ Len(T) \in Nat /\ Len(Append(T, p)) = Len(T) + 1
        /\ Append(T, p)[Len(T) + 1] = p /\ \A i \in 1..Len(T) : Append(T, p)[i] = T[i]
    BY <2>1
  <2>3. Append(T, p) # <<>>
    <3>1. Len(Append(T, p)) # 0 /\ Len(<<>>) = 0
      BY <2>2
    <3> QED BY <3>1
  <2> QED BY <2>2, <2>3 DEF collected, T, A
<1>7. T # <<>> => /\ lastPart = T[Len(T)] /\ Len(T) \in 1..Len(T) /\ 1 \in 1..Len(T)
                  /\ lastPart.part = Len(T) /\ lastPart # NoTable
  <2> SUFFICES ASSUME T # <<>>
               PROVE  /\ lastPart = T[Len(T)] /\ Len(T) \in 1..Len(T) /\ 1 \in 1..Len(T)
                      /\ lastPart.part = Len(T) /\ lastPart # NoTable
    OBVIOUS
  <2>1. Len(T) \in 1..Len(T) /\ 1 \in 1..Len(T)
    <3> HIDE DEF T
    <3> QED BY <1>5, <1>6
  <2>2. lastPart = T[Len(T)]
    BY DEF lastPart
  <2>3. T[Len(T)] \in aired(tuned) /\ T[Len(T)].part = Len(T)
    <3> HIDE DEF T
    <3> QED BY <1>5, <2>1 DEF Parts
  <2> QED BY <1>1, <2>1, <2>2, <2>3, AiredFacts
(* The packet is taken as part Len(table) ...                              *)
<1>8. ASSUME T # <<>> \/ startsEcm(p)
      PROVE  p.part = Len(table) /\ p.of = table[1].of
  <2>1. CASE T # <<>>
    <3>1. u[k] = lastPart /\ lastPart.of = T[1].of
      BY <2>1 DEF LastPart
    <3>2. p.part = Len(T) + 1 /\ p.of = T[1].of
      BY <1>3, <1>7, <2>1, <3>1
    <3>3. table[1] = T[1]
      BY <1>6, <1>7, <2>1
    <3> QED BY <1>6, <3>2, <3>3
  <2>2. CASE T = <<>> /\ startsEcm(p)
    <3>1. Len(T) = 0
      BY <2>2
    <3>2. Len(table) = 1
      BY <1>6, <3>1
    <3> QED BY <1>6, <2>2, <3>2 DEF startsEcm
  <2> QED BY <1>8, <2>1, <2>2
(* ... so that the collection keeps its order.                             *)
<1>9. ASSUME T # <<>> \/ startsEcm(p)
      PROVE  Parts(table)
  <2>1. p.part = Len(table)
    BY <1>8, <1>9
  <2> SUFFICES ASSUME NEW i \in 1..Len(table) PROVE table[i].part = i
    BY DEF Parts
  <2>2. CASE i = Len(table)
    BY <1>6, <2>1, <2>2
  <2>3. CASE i # Len(table)
    <3>1. i \in 1..Len(T)
      BY <1>6, <2>3
    <3> QED BY <1>5, <1>6, <3>1 DEF Parts
  <2> QED BY <2>2, <2>3
<1>10. mEcm'.pid = mEcm.pid
  <2>1. mEcm' = mEcm \/ mEcm' = setVer(mEcm, table[1].ver)
    BY DEF parseEcm, ecmComplete
  <2>2. 1 \in 1..Len(table)
    BY <1>6
  <2>3. table[1] \in aired(tuned)
    <3> HIDE DEF table
    <3> QED BY <1>6, <2>2
  <2>4. table[1].ver \in Versions
    BY <1>1, <2>3, AiredFacts DEF Packets
  <2> QED BY <2>1, <2>4, SetVersion DEF TablesInv, InfosOK
<1> HIDE DEF table
<1>11. ASSUME Parts(T'), Parts(mEcmTable') PROVE Following(pid)'
  BY <1>1, <1>2, <1>10, <1>11 DEF Following
<1>12. CASE T = <<>> /\ ~startsEcm(p)
  <2>1. UNCHANGED <<mTempCollectedEcmData, mEcmTable>>
    BY <1>12 DEF parseEcm
  <2>2. Parts(T') /\ Parts(mEcmTable')
    BY <1>5, <2>1
  <2> QED BY <1>11, <1>12, <2>1, <2>2 DEF LastPart
<1>13. CASE (T # <<>> \/ startsEcm(p)) /\ Len(table) < table[1].of
  <2>1. T' = table /\ mEcmTable' = mEcmTable
    BY <1>13 DEF parseEcm, table
  <2>2. Parts(T') /\ Parts(mEcmTable')
    BY <1>5, <1>9, <1>13, <2>1
  <2>3. p.part < p.of
    BY <1>8, <1>13
  <2>4. u[m] = p /\ p.of = table[1].of
    BY <1>3, <1>8, <1>13, <2>3
  <2>5. lastPart' = p
    <3>1. lastPart' = T'[Len(T')]
      BY DEF lastPart
    <3> QED BY <1>6, <2>1, <3>1
  <2>6. LastPart(u, m)'
    BY <2>1, <2>4, <2>5 DEF LastPart
  <2> QED BY <1>11, <2>2, <2>6
<1>14. CASE (T # <<>> \/ startsEcm(p)) /\ ~(Len(table) < table[1].of)
  <2>1. T' = <<>> /\ mEcmTable' \in {mEcmTable, table}
    BY <1>14 DEF parseEcm, ecmComplete, table
  <2>2. Parts(T')
    BY <2>1 DEF Parts
  <2>3. Parts(mEcmTable')
    BY <1>5, <1>9, <1>14, <2>1
  <2> QED BY <1>11, <2>1, <2>2, <2>3 DEF LastPart
<1> QED BY <1>12, <1>13, <1>14

-----------------------------------------------------------------------------
(* The parser keeps its place in the broadcast of a protected channel, as  *)
(* long as it has been running since the switch.                           *)
TrackedAt(pid, u, s) ==
  /\ steady(tuned, pid, u) /\ Following(pid)
  /\ inStep(s) /\ LastPart(u, position(s))

Tracked ==
  /\ pc = "pop" => Len(mCircBuf) < 2
  /\ \E u : \E pid \in Pids, s \in [1..(Len(input) + 1) -> Positions] : TrackedAt(pid, u, s)

Running == mPsiParserRunning /\ ~mIsEcmReceived /\ ~isClear(tuned)
TrackInv == clean /\ Running => Tracked

(* A step that reads nothing and leaves the tables alone.                  *)
LEMMA FollowUnchanged ==
  ASSUME NEW pid, NEW u, NEW k, NEW m, Following(pid), LastPart(u, k), u[m] = u[k],
         UNCHANGED tableVars
  PROVE  Following(pid)' /\ LastPart(u, m)'
<1>1. UNCHANGED <<mPat, mEcm, mTempCollectedEcmData, mEcmTable>>
  BY DEF tableVars
<1>2. Following(pid)'
  BY <1>1 DEF Following, Parts
<1>3. LastPart(u, m)'
  BY <1>1 DEF LastPart, lastPart
<1> QED BY <1>2, <1>3

(* Steadiness is about the channel selected.                               *)
LEMMA SteadyUnchanged ==
  ASSUME NEW pid, NEW u, steady(tuned, pid, u), UNCHANGED tuned
  PROVE  steady(tuned, pid, u)'
  BY DEF steady

(* The place is kept where neither the input nor the tables change.        *)
LEMMA TrackUnchanged ==
  ASSUME Tracked, UNCHANGED <<tableVars, tuned, at, mCircBuf, mPointer, mQueue>>,
         pc' = "pop" => pc = "pop"
  PROVE  Tracked'
<1>1. PICK u : \E pid \in Pids, s \in [1..(Len(input) + 1) -> Positions] : TrackedAt(pid, u, s)
  BY DEF Tracked
<1>2. PICK pid \in Pids, s \in [1..(Len(input) + 1) -> Positions] : TrackedAt(pid, u, s)
  BY <1>1
<1>3. input' = input /\ Positions' = Positions /\ position(s)' = position(s)
  BY DEF input, Positions, position
<1>4. PICK k : k = position(s)
  OBVIOUS
<1>5. Following(pid)' /\ LastPart(u, k)'
  <2>1. Following(pid) /\ LastPart(u, k)
    BY <1>2, <1>4 DEF TrackedAt
  <2> QED BY <2>1, FollowUnchanged
<1>6. steady(tuned, pid, u)' /\ inStep(s)'
  <2>1. inStep(s)'
    BY <1>2, <1>3, Zenon DEF TrackedAt, inStep
  <2> QED BY <1>2, <2>1, SteadyUnchanged DEF TrackedAt
<1>7. TrackedAt(pid, u, s)'
  <2>1. LastPart(u, position(s))'
    BY <1>3, <1>4, <1>5 DEF LastPart
  <2> QED BY <1>5, <1>6, <2>1 DEF TrackedAt
<1>8. s \in [1..(Len(input) + 1)' -> Positions']
  BY <1>3
<1>9. pc' = "pop" => Len(mCircBuf') < 2
  BY DEF Tracked
<1> QED BY <1>7, <1>8, <1>9 DEF Tracked

(* The consumer posts behind the parser's position.                        *)
LEMMA TrackConsume ==
  ASSUME DataOK, Selected, mPsiParserRunning, Tracked, consume PROVE Tracked'
<1>1. UNCHANGED <<tuned, mCircBuf, pc>> /\ UNCHANGED tableVars
  BY DEF consume, notByConsumer, clientVars, streamVars, threadVars
<1>2. PICK u : \E pid \in Pids, s \in [1..(Len(input) + 1) -> Positions] : TrackedAt(pid, u, s)
  BY DEF Tracked
<1>3. PICK pid \in Pids, s \in [1..(Len(input) + 1) -> Positions] : TrackedAt(pid, u, s)
  BY <1>2
<1>4. PICK t \in [1..(Len(input) + 1)' -> Positions'] : inStep(t)' /\ position(t)' = position(s)
  BY <1>3, InStepConsume DEF TrackedAt
<1>5. PICK k : k = position(s)
  OBVIOUS
<1>6. Following(pid)' /\ LastPart(u, k)'
  <2>1. Following(pid) /\ LastPart(u, k)
    BY <1>3, <1>5 DEF TrackedAt
  <2> QED BY <1>1, <2>1, FollowUnchanged
<1>7. LastPart(u, position(t))'
  BY <1>4, <1>5, <1>6 DEF LastPart
<1>8. steady(tuned, pid, u)'
  BY <1>1, <1>3, SteadyUnchanged DEF TrackedAt
<1>9. TrackedAt(pid, u, t)'
  BY <1>4, <1>6, <1>7, <1>8 DEF TrackedAt
<1>10. pc' = "pop" => Len(mCircBuf') < 2
  BY <1>1 DEF Tracked
<1> QED BY <1>4, <1>9, <1>10 DEF Tracked

(* The thread takes a chunk out of mQueue, and has room for it.            *)
LEMMA TrackPop == ASSUME DataOK, Tracked, pop PROVE Tracked'
<1>1. UNCHANGED tuned /\ UNCHANGED tableVars /\ pc' = "next"
  BY DEF pop, notByParser, clientVars
<1>2. Len(mCircBuf) < 2
  <2>1. mCircBuf = <<>> => Len(mCircBuf) < 2
    OBVIOUS
  <2> QED BY <2>1 DEF pop, Tracked
<1>3. PICK u : \E pid \in Pids, s \in [1..(Len(input) + 1) -> Positions] : TrackedAt(pid, u, s)
  BY DEF Tracked
<1>4. PICK pid \in Pids, s \in [1..(Len(input) + 1) -> Positions] : TrackedAt(pid, u, s)
  BY <1>3
<1>5. /\ s \in [1..(Len(input) + 1)' -> Positions']
      /\ inStep(s)' /\ position(s)' = position(s)
  BY <1>2, <1>4, InStepPop DEF TrackedAt
<1>6. PICK k : k = position(s)
  OBVIOUS
<1>7. Following(pid)' /\ LastPart(u, k)'
  <2>1. Following(pid) /\ LastPart(u, k)
    BY <1>4, <1>6 DEF TrackedAt
  <2> QED BY <1>1, <2>1, FollowUnchanged
<1>8. LastPart(u, position(s))'
  BY <1>5, <1>6, <1>7 DEF LastPart
<1>9. steady(tuned, pid, u)'
  BY <1>1, <1>4, SteadyUnchanged DEF TrackedAt
<1>10. TrackedAt(pid, u, s)'
  BY <1>5, <1>7, <1>8, <1>9 DEF TrackedAt
<1> QED BY <1>1, <1>5, <1>10 DEF Tracked

(* The thread reads the packet at its position: every packet of a steady   *)
(* broadcast is in sync, and each table parser follows it.                 *)
LEMMA TrackProcess ==
  ASSUME WellFormed, DataOK, TablesInv, Selected, Known, ~isClear(tuned), Tracked, processChunk
  PROVE  Tracked'
<1>1. UNCHANGED tuned /\ tuned \in Channels
  BY DEF processChunk, notByParser, clientVars, Selected
<1>2. PICK u : \E pid \in Pids, s \in [1..(Len(input) + 1) -> Positions] : TrackedAt(pid, u, s)
  BY DEF Tracked
<1>3. PICK pid \in Pids, s \in [1..(Len(input) + 1) -> Positions] : TrackedAt(pid, u, s)
  BY <1>2
<1>4. /\ position(s) \in Positions /\ packet = Broadcast[tuned][position(s)]
      /\ \E t \in [1..(Len(input) + 1)' -> Positions'] :
           inStep(t)' /\ position(t)' = behind(tuned, position(s), 1)
  BY <1>3, InStepRead DEF TrackedAt
<1>5. PICK k, m, p : /\ k = position(s) /\ k \in 1..Len(Broadcast[tuned])
                     /\ m = behind(tuned, k, 1) /\ p = Broadcast[tuned][k]
  BY <1>4 DEF Positions
<1>6. PICK t \in [1..(Len(input) + 1)' -> Positions'] : inStep(t)' /\ position(t)' = m
  BY <1>4, <1>5
<1>7. packet = p
  BY <1>4, <1>5
<1>8. steady(tuned, pid, u) /\ Following(pid) /\ LastPart(u, k)
  BY <1>3, <1>5 DEF TrackedAt
<1>9. p.sync /\ (p.pid # pid => u[m] = u[k])
  BY <1>1, <1>5, <1>8, SteadyAt
<1>10. parseTsPacket(p)
  <2>1. IF ~packet.sync
          THEN pc' = "pop" /\ UNCHANGED <<tableVars, mIsCdmSetupDone>>
          ELSE parseTsPacket(packet)
    BY DEF processChunk
  <2> QED BY <1>7, <1>9, <2>1, Zenon
<1>11. Following(pid)' /\ LastPart(u, m)'
  <2>1. CASE isPid(mPat, p.pid) /\ parsePat(p)
    BY <1>5, <1>8, <2>1, FollowPat
  <2>2. CASE ~isPid(mPat, p.pid) /\ isPid(mPmt, p.pid) /\ parsePmt(p)
    BY <1>5, <1>8, <2>2, FollowPmt
  <2>3. CASE isPid(mEcm, p.pid) /\ parseEcm(p)
    BY <1>5, <1>8, <2>3, FollowEcm
  <2>4. CASE ~isPid(mEcm, p.pid) /\ UNCHANGED tableVars
    <3>1. mTempCollectedEcmData # <<>> => u[m] = u[k]
      <4>1. mTempCollectedEcmData # <<>> => mEcm.pid = pid /\ pid # NoPid
        BY <1>8, PsiAssumption DEF Following
      <4> QED BY <1>9, <2>4, <4>1 DEF isPid
    <3>2. UNCHANGED <<mPat, mEcm, mTempCollectedEcmData, mEcmTable>>
      BY <2>4 DEF tableVars
    <3>3. Following(pid)'
      BY <1>8, <3>2 DEF Following, Parts
    <3>4. LastPart(u, m)'
      BY <1>8, <3>1, <3>2 DEF LastPart, lastPart
    <3> QED BY <3>3, <3>4
  <2> QED BY <1>10, <2>1, <2>2, <2>3, <2>4, Zenon DEF parseTsPacket
<1>12. LastPart(u, position(t))'
  BY <1>6, <1>11 DEF LastPart
<1>13. steady(tuned, pid, u)'
  BY <1>1, <1>8, SteadyUnchanged
<1>14. TrackedAt(pid, u, t)'
  BY <1>6, <1>11, <1>12, <1>13 DEF TrackedAt
<1>15. pc' # "pop"
  BY <1>10, ParsersLocation
<1> QED BY <1>6, <1>14, <1>15 DEF Tracked

(* A clean switch to a protected channel: nothing is collected yet, and    *)
(* what is on its way is without a gap.                                    *)
LEMMA TrackReset ==
  ASSUME WellFormed, DataOK, PlacesInv, resetTables, clean', ~isClear(tuned)
  PROVE  Tracked'
<1>1. /\ nothingStale /\ api = "open"
      /\ UNCHANGED <<at, mCircBuf, mPointer, mQueue, pc, tuned>>
  BY DEF resetTables, notByClient, sourceVars, streamVars, threadVars
<1>2. /\ mTempCollectedEcmData' = <<>> /\ mEcmTable' = <<>>
      /\ mEcm' = PidInfo(NoPid) /\ mPat' = PidInfo(PatPid)
  BY DEF resetTables, onOpen, reset
<1>3. tuned \in Channels
  BY <1>1 DEF PlacesInv
<1>4. PICK pid \in Pids, u \in [DOMAIN Broadcast[tuned] -> aired(tuned) \cup {NoTable}] :
        steady(tuned, pid, u)
  BY <1>3 DEF WellFormed
<1>5. PICK s \in [1..(Len(input) + 1) -> Positions] : inStep(s)
  <2>1. DOMAIN Broadcast[tuned] = Positions
    BY <1>3, BroadcastFacts DEF Positions
  <2> QED BY <1>1, <2>1 DEF nothingStale
<1>6. input' = input /\ Positions' = Positions
  BY <1>1 DEF input, Positions
<1>7. inStep(s)'
  BY <1>1, <1>5, <1>6, Zenon DEF inStep
<1>8. steady(tuned, pid, u)'
  BY <1>1, <1>4, SteadyUnchanged
<1>9. Following(pid)'
  <2>1. mEcm'.pid = NoPid /\ mPat'.ver = NoVersion
    BY <1>2, ResetInfo, PsiAssumption
  <2>2. Parts(<<>>)
    BY DEF Parts
  <2> QED BY <1>2, <2>1, <2>2 DEF Following, Parts
<1>10. LastPart(u, position(s))'
  BY <1>2 DEF LastPart
<1>11. TrackedAt(pid, u, s)'
  BY <1>7, <1>8, <1>9, <1>10 DEF TrackedAt
<1>12. pc' = "pop" => Len(mCircBuf') < 2
  BY <1>1 DEF nothingStale
<1>13. s \in [1..(Len(input) + 1)' -> Positions']
  BY <1>5, <1>6
<1> QED BY <1>11, <1>12, <1>13 DEF Tracked

(* Once the parser has been stopped after a switch only an ECM message of  *)
(* the modem sets it to work again.                                        *)
LEMMA TrackStep ==
  ASSUME WellFormed, DataOK, TablesInv, PlacesInv, CleanInv, TrackInv, [Next]_vars
  PROVE  TrackInv'
<1> SUFFICES ASSUME clean', Running' PROVE Tracked'
  BY DEF TrackInv
<1>1. CASE resetTables
  <2>1. tuned' = tuned
    BY <1>1 DEF resetTables
  <2>2. ~isClear(tuned)
    BY <2>1 DEF Running, isClear
  <2> QED BY <1>1, <2>2, TrackReset
<1>2. CASE clean /\ (consume \/ parser \/ openLoop \/ UNCHANGED vars)
  <2>1. Selected /\ Known
    BY <1>2 DEF CleanInv
  <2>2. tuned' = tuned
    BY <1>2 DEF consume, notByConsumer, parser, pop, processChunk, testRunning, readArgument,
       publish, stop, notByParser, openLoop, patPmtMessage, ecmMessage, nokiaPublish, notByNokia,
       vars, clientVars
  <2>3. mPsiParserRunning /\ ~mIsEcmReceived
    <3>1. CASE consume \/ UNCHANGED vars
      <4>1. UNCHANGED <<mPsiParserRunning, mIsEcmReceived>>
        BY <3>1 DEF consume, notByConsumer, vars, nokiaVars, inputVars
      <4> QED BY <4>1, Zenon DEF Running
    <3>2. CASE parser
      <4>1. UNCHANGED mIsEcmReceived /\ (UNCHANGED mPsiParserRunning \/ ~mPsiParserRunning')
        BY <3>2 DEF parser, pop, processChunk, testRunning, readArgument, publish, stop, stopped,
           notByParser, nokiaVars
      <4> QED BY <4>1, Zenon DEF Running
    <3>3. CASE openLoop
      <4>1. \/ mPsiParserRunning' = mPsiParserRunning /\ mIsEcmReceived' = mIsEcmReceived
            \/ mIsEcmReceived'
        BY <3>3, Zenon DEF openLoop, patPmtMessage, ecmMessage, nokiaPublish
      <4>2. ~mIsEcmReceived' /\ mPsiParserRunning'
        BY Zenon DEF Running
      <4>3. mPsiParserRunning' = mPsiParserRunning /\ mIsEcmReceived' = mIsEcmReceived
        BY <4>1, <4>2, Zenon
      <4> QED BY <4>2, <4>3, Zenon
    <3> QED BY <1>2, <3>1, <3>2, <3>3
  <2>4. ~isClear(tuned)
    BY <2>2 DEF Running, isClear
  <2>5. Tracked
    BY <1>2, <2>3, <2>4 DEF TrackInv, Running
  <2>6. CASE consume
    BY <2>1, <2>3, <2>5, <2>6, TrackConsume
  <2>7. CASE pop
    BY <2>5, <2>7, TrackPop
  <2>8. CASE processChunk
    BY <2>1, <2>4, <2>5, <2>8, TrackProcess
  <2>9. CASE testRunning \/ (\E a \in Arguments : readArgument(a)) \/ publish \/ stop
             \/ openLoop \/ UNCHANGED vars
    <3>1. UNCHANGED <<tableVars, tuned, at, mCircBuf, mPointer, mQueue>>
      BY <2>9 DEF testRunning, readArgument, publish, stop, notByParser, openLoop, patPmtMessage,
         ecmMessage, nokiaPublish, notByNokia, vars, clientVars, sourceVars, streamVars, inputVars
    <3>2. pc' = "pop" => pc = "pop"
      BY <2>9 DEF testRunning, readArgument, publish, stop, openLoop, patPmtMessage,
         ecmMessage, nokiaPublish, notByNokia, vars, threadVars
    <3> QED BY <2>5, <3>1, <3>2, TrackUnchanged
  <2> QED BY <1>2, <2>6, <2>7, <2>8, <2>9, Zenon DEF parser
<1> QED BY <1>1, <1>2, CleanSteps

(* A publication in progress has not been called off: only the modem's ECM *)
(* message clears the flag while the thread is on its way.                 *)
OnItsWay == pc \in {"read", "publish"} /\ ~mIsEcmReceived => mPsiParserRunning

(* OnItsWay is inductive.                                                  *)
LEMMA OnItsWayStep == ASSUME OnItsWay, [Next]_vars PROVE OnItsWay'
<1>1. CASE notifyStreamSwitched
  BY <1>1, Zenon DEF notifyStreamSwitched, notifyConfigurationChanged, OnItsWay
<1>2. CASE testRunning
  <2>1. (pc' = IF mPsiParserRunning THEN "read" ELSE "next") /\ UNCHANGED mPsiParserRunning
    BY <1>2 DEF testRunning
  <2> QED BY <2>1 DEF OnItsWay
<1>3. CASE pop \/ processChunk \/ publish \/ stop
  <2>1. pc' \notin {"read", "publish"}
    BY <1>3, ParsersLocation DEF pop, processChunk, publish, stop
  <2> QED BY <2>1 DEF OnItsWay
<1>4. CASE openLoop
  <2>1. pc' = pc
    BY <1>4 DEF openLoop, patPmtMessage, ecmMessage, nokiaPublish, notByNokia, threadVars
  <2>2. \/ mPsiParserRunning' = mPsiParserRunning /\ mIsEcmReceived' = mIsEcmReceived
        \/ mIsEcmReceived'
    BY <1>4, Zenon DEF openLoop, patPmtMessage, ecmMessage, nokiaPublish
  <2>3. CASE mPsiParserRunning' = mPsiParserRunning /\ mIsEcmReceived' = mIsEcmReceived
    BY <2>1, <2>3, Zenon DEF OnItsWay
  <2> QED BY <2>2, <2>3, Zenon DEF OnItsWay
<1>5. ASSUME NEW a \in Arguments, readArgument(a) PROVE OnItsWay'
  <2>1. pc = "read" /\ UNCHANGED <<mPsiParserRunning, mIsEcmReceived>>
    BY <1>5 DEF readArgument, notByParser, nokiaVars
  <2> QED BY <2>1 DEF OnItsWay
<1>6. CASE tune \/ clearQueue \/ resetTables \/ drained \/ consume \/ UNCHANGED vars
           \/ (\E u \in Channels \cup {NoChannel} : disconnect(u))
  <2>1. UNCHANGED <<pc, mPsiParserRunning, mIsEcmReceived>>
    BY <1>6 DEF tune, clearQueue, resetTables, drained, consume, disconnect, notByClient,
       notByConsumer, threadVars, nokiaVars, inputVars, vars
  <2> QED BY <2>1 DEF OnItsWay
<1> QED BY <1>1, <1>2, <1>3, <1>4, <1>5, <1>6, Zenon DEF Next, client, parser

(* The collected ECM of a publication is whole.                            *)
LEMMA WholeEcm ==
  ASSUME clean, Known, OnItsWay, TrackInv, pc = "publish", ~mIsEcmReceived
  PROVE  \A i \in DOMAIN mEcmTable : mEcmTable[i].part = i
<1>1. DOMAIN mEcmTable = 1..Len(mEcmTable)
  BY DEF Known
<1>2. Parts(mEcmTable)
  <2>1. CASE isClear(tuned)
    <3>1. mEcmTable = <<>>
      BY <2>1 DEF Known
    <3> QED BY <3>1 DEF Parts
  <2>2. CASE ~isClear(tuned)
    <3>1. Tracked
      BY <2>2 DEF OnItsWay, TrackInv, Running
    <3> QED BY <3>1 DEF Tracked, TrackedAt, Following
  <2> QED BY <2>1, <2>2
<1> QED BY <1>1, <1>2 DEF Parts

(* What a publication after a clean switch consists of.                    *)
LEMMA TablesPublished ==
  ASSUME TablesInv, Selected, Known, Ready
  PROVE  /\ tables.clear = isClear(tuned)
         /\ tables.pat # NoTable /\ tables.pat.ch = tuned
         /\ tables.pmt # NoTable /\ tables.pmt.ch = tuned /\ tables.pmt.kind = "pmt"
         /\ ofTuned(tables.ecm) /\ (tables.ecm = <<>> <=> isClear(tuned))
<1>1. tuned \in Channels
  BY DEF Selected
<1>2. /\ tables.clear = mIsClearStream /\ tables.pat = getCurrentPat
      /\ tables.pmt = getCurrentPmt /\ tables.ecm = mEcmTable
  BY DEF tables
<1>3. mIsClearStream = isClear(tuned) /\ mPmt.pid \notin {NoPid, PatPid}
  BY Zenon DEF Known, Ready
<1>4. getCurrentPat # NoTable /\ getCurrentPat \in aired(tuned)
  <2>1. getCurrentPat = mPat.table
    BY PsiAssumption DEF getCurrentPat, TablesInv, InfosOK
  <2>2. mPat.table # NoTable
    BY <1>3 DEF TablesInv, TablesChained
  <2> QED BY <2>1, <2>2 DEF Known
<1>5. getCurrentPmt # NoTable /\ getCurrentPmt \in pmts(tuned)
  <2>1. CASE isClear(tuned)
    <3>1. getCurrentPmt = mPmt.table
      BY <1>3, <2>1, Zenon DEF getCurrentPmt
    <3> QED BY <2>1, <3>1 DEF Known, Ready
  <2>2. CASE ~isClear(tuned)
    <3>1. mEcm.pid \notin {NoPid, PatPid}
      BY <2>2 DEF Ready, Known
    <3>2. getCurrentPmt = mEcm.table
      BY <1>3, <2>2, <3>1, Zenon DEF getCurrentPmt
    <3>3. mEcm.table # NoTable
      BY <3>1 DEF TablesInv, TablesChained
    <3> QED BY <3>2, <3>3 DEF Known
  <2> QED BY <2>1, <2>2
<1>6. getCurrentPat.ch = tuned /\ getCurrentPmt.ch = tuned /\ getCurrentPmt.kind = "pmt"
  BY <1>1, <1>4, <1>5, AiredFacts DEF pmts
<1>7. ofTuned(mEcmTable)
  <2>1. mEcmTable \in Seq(aired(tuned))
    BY DEF Known
  <2>2. \A i \in DOMAIN mEcmTable : mEcmTable[i] \in aired(tuned)
    BY <2>1
  <2> QED BY <1>1, <2>2, AiredFacts DEF ofTuned
<1>8. mEcmTable = <<>> <=> isClear(tuned)
  BY DEF Known, Ready
<1> QED BY <1>2, <1>3, <1>4, <1>5, <1>6, <1>7, <1>8

(* The parser sets drm0.                                                   *)
LEMMA PublishedPublish ==
  ASSUME TablesInv, PlacesInv, CleanInv, TrackInv, OnItsWay, publish
  PROVE  PublishesSelected'
<1> SUFFICES ASSUME clean' PROVE PublishesSelected'
  BY DEF PublishesSelected
<1>1. /\ pc = "publish" /\ UNCHANGED <<clean, tuned, mIsEcmReceived>>
      /\ mDrm' = [by |-> "parser", ch |-> args["ch"], of |-> args["tables"]]
  BY DEF publish, notByParser, clientVars, nokiaVars
<1>2. clean /\ Selected /\ Known /\ Ready /\ Reading
  BY <1>1 DEF CleanInv, Publishing
<1>3. args["ch"] = tuned /\ args["tables"] = tables
  BY <1>1, <1>2 DEF Reading, PlacesInv, Arguments
<1>4. mDrm'.ch = tuned /\ mDrm'.of = tables
  BY <1>1, <1>3
<1>5. /\ tables.clear = isClear(tuned)
      /\ tables.pat # NoTable /\ tables.pat.ch = tuned
      /\ tables.pmt # NoTable /\ tables.pmt.ch = tuned /\ tables.pmt.kind = "pmt"
      /\ ofTuned(tables.ecm) /\ (tables.ecm = <<>> <=> isClear(tuned))
  BY <1>2, TablesPublished
<1>6. ~mIsEcmReceived => \A i \in DOMAIN tables.ecm : tables.ecm[i].part = i
  <2>1. tables.ecm = mEcmTable
    BY DEF tables
  <2> QED BY <1>1, <1>2, <2>1, WholeEcm, Zenon
<1> PICK T : T = tables
  OBVIOUS
<1>7. /\ mDrm'.of = T /\ T.clear = isClear(tuned)
      /\ T.pat # NoTable /\ T.pat.ch = tuned
      /\ T.pmt # NoTable /\ T.pmt.ch = tuned /\ T.pmt.kind = "pmt"
      /\ (\A i \in DOMAIN T.ecm : T.ecm[i].ch = tuned) /\ (T.ecm = <<>> <=> isClear(tuned))
      /\ ~mIsEcmReceived => \A i \in DOMAIN T.ecm : T.ecm[i].part = i
  BY <1>4, <1>5, <1>6, Zenon DEF ofTuned
<1>8. isClear(tuned)' = isClear(tuned) /\ tuned' = tuned /\ mIsEcmReceived' = mIsEcmReceived
  BY <1>1 DEF isClear
<1> QED BY <1>4, <1>7, <1>8, Zenon DEF PublishesSelected, ofTuned

(* The other steps leave drm0 alone, or it is not the parser's any more.   *)
LEMMA PublishedStep ==
  ASSUME TablesInv, PlacesInv, CleanInv, TrackInv, OnItsWay, PublishesSelected, [Next]_vars
  PROVE  PublishesSelected'
<1>1. CASE publish
  BY <1>1, PublishedPublish
<1>2. CASE resetTables
  <2>1. clean' => ~fresh'
    BY <1>2, Zenon DEF resetTables, fresh
  <2> QED BY <2>1 DEF PublishesSelected
<1>3. CASE nokiaPublish
  <2>1. mDrm'.by # "parser"
    BY <1>3 DEF nokiaPublish
  <2> QED BY <2>1 DEF PublishesSelected
<1>4. CASE clean' /\ ~publish /\ ~resetTables /\ ~nokiaPublish
  <2>1. clean /\ (consume \/ parser \/ patPmtMessage \/ ecmMessage \/ UNCHANGED vars)
    BY <1>4, CleanSteps, Zenon DEF openLoop
  <2>2. UNCHANGED <<mDrm, tuned, fresh>>
    BY <1>4, <2>1 DEF consume, notByConsumer, parser, pop, processChunk, testRunning,
       readArgument, stop, notByParser, patPmtMessage, ecmMessage, notByNokia, vars, clientVars,
       ghosts, fresh
  <2>3. mIsEcmReceived' \/ mIsEcmReceived' = mIsEcmReceived
    <3>1. CASE consume \/ parser \/ patPmtMessage \/ UNCHANGED vars
      BY <1>4, <3>1 DEF consume, notByConsumer, parser, pop, processChunk, testRunning,
         readArgument, stop, notByParser, patPmtMessage, vars, nokiaVars
    <3>2. CASE ecmMessage
      BY <3>2, Zenon DEF ecmMessage
    <3> QED BY <2>1, <3>1, <3>2
  <2>4. isClear(tuned)' = isClear(tuned)
    BY <2>2 DEF isClear
  <2>5. ~mIsEcmReceived' => ~mIsEcmReceived
    BY <2>3, Zenon
  <2>6. SUFFICES ASSUME fresh', mDrm'.by = "parser" PROVE PublishesSelected'
    BY DEF PublishesSelected
  <2>7. fresh /\ mDrm.by = "parser"
    BY <2>2, <2>6, Zenon
  <2>8. PICK d, c : d = mDrm /\ c = tuned
    OBVIOUS
  <2>9. mDrm' = d /\ tuned' = c
    BY <2>2, <2>8
  <2>10. /\ d.ch = c /\ d.of.clear = isClear(tuned)
         /\ d.of.pat # NoTable /\ d.of.pat.ch = c
         /\ d.of.pmt # NoTable /\ d.of.pmt.ch = c /\ d.of.pmt.kind = "pmt"
         /\ (\A i \in DOMAIN d.of.ecm : d.of.ecm[i].ch = c)
         /\ (d.of.ecm = <<>> <=> isClear(tuned))
         /\ ~mIsEcmReceived => \A i \in DOMAIN d.of.ecm : d.of.ecm[i].part = i
    BY <2>1, <2>7, <2>8, Zenon DEF PublishesSelected, ofTuned
  <2>11. /\ d.of.clear = isClear(tuned)' /\ (d.of.ecm = <<>> <=> isClear(tuned)')
         /\ ~mIsEcmReceived' => \A i \in DOMAIN d.of.ecm : d.of.ecm[i].part = i
    BY <2>4, <2>5, <2>10, Zenon
  <2> QED BY <2>9, <2>10, <2>11, Zenon DEF PublishesSelected, ofTuned
<1>5. CASE ~clean'
  BY <1>5 DEF PublishesSelected
<1> QED BY <1>1, <1>2, <1>3, <1>4, <1>5

(* The inductive invariant of a clean switch.                              *)
SwitchInv == CleanInv /\ TrackInv /\ OnItsWay /\ PublishesSelected

(* The inductive invariant holds at all times.                             *)
LEMMA SwitchInvariant == WellFormed => (Spec => []SwitchInv)
<1> SUFFICES ASSUME WellFormed PROVE Spec => []SwitchInv
  OBVIOUS
<1>1. Init => SwitchInv
  BY DEF Init, SwitchInv, CleanInv, TrackInv, OnItsWay, PublishesSelected
<1>2. DataOK /\ TablesInv /\ PlacesInv /\ SwitchInv /\ [Next]_vars => SwitchInv'
  <2> SUFFICES ASSUME DataOK, TablesInv, PlacesInv, SwitchInv, [Next]_vars
               PROVE  SwitchInv'
    OBVIOUS
  <2>1. CleanInv /\ TrackInv /\ OnItsWay /\ PublishesSelected
    BY DEF SwitchInv
  <2>2. CleanInv'
    BY <2>1, CleanStep
  <2>3. TrackInv'
    BY <2>1, TrackStep
  <2>4. OnItsWay'
    BY <2>1, OnItsWayStep
  <2>5. PublishesSelected'
    BY <2>1, PublishedStep
  <2> QED BY <2>2, <2>3, <2>4, <2>5 DEF SwitchInv
<1> QED BY <1>1, <1>2, ParserInvariant, PlacesInvariant, PTL DEF Spec

(* After a switch that found nothing left of the old channel the parser    *)
(* publishes the selected channel and nothing else, for every well-formed  *)
(* broadcast and any number of selections before and after: onOpen resets  *)
(* everything a publication is made from, the packets that follow are of   *)
(* the channel, and the parts of its ECM are collected in their order.     *)
THEOREM PublishesSelectedChannel == WellFormed => (Spec => []PublishesSelected)
<1>1. SwitchInv => PublishesSelected
  BY DEF SwitchInv
<1> QED BY <1>1, SwitchInvariant, PTL

=============================================================================
