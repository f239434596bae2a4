------------------------------ MODULE PsiParser ------------------------------
(***************************************************************************)
(* The content protection data of a channel: the PSI parser of             *)
(* src/StreamParser/PSIParser.cpp, the modem's messages of                 *)
(* 3rdparty/nokia/NokiaSocketCbHandler.cpp, and the variable drm0 both     *)
(* publish to.  Four threads take part.                                    *)
(*                                                                         *)
(*   client    MediaSourceHandler::open, as far as it concerns the parser  *)
(*   consumer  MediaSourceHandler::consumerLoop posts chunks of packets    *)
(*   parser    PSIParser::threadLoop                                       *)
(*   nokia     NokiaSocketCbHandler::openLoop                              *)
(*                                                                         *)
(* A packet is a record: the channel it was sent on, its kind, its PID,    *)
(* the version of its table, the PID the table names, and for a protected  *)
(* channel's ECM which part of how many it is.  A chunk is a sequence of   *)
(* ChunkSize packets: BUFFER_CHUNK_SIZE is taken to be a multiple of       *)
(* TS_PACKAGE_SIZE, without which the test GetPacketOk would fail.         *)
(***************************************************************************)
EXTENDS Naturals, Sequences

CONSTANTS
  Channels,     \* channel addresses
  NoChannel,    \* the empty URI
  Broadcast,    \* Broadcast[c]: the packets channel c sends again and again
  Pids,         \* packet identifiers
  NoPid,        \* PSI_INVALID_PID
  PatPid,       \* 0
  Versions,     \* version numbers of tables
  NoVersion,    \* mVersionValid = false
  NoTable,      \* a TS packet filled with zeros
  Joins,        \* bound: the positions of a broadcast where reading starts
  ChunkSize,    \* packets in a buffer_chunk
  MaxQueue,     \* bound: chunks waiting in mQueue, which grows as needed
  MaxOpens,     \* bound: channel selections
  MaxMessages   \* bound: messages from the modem

Kinds == {"pat", "pmt", "ecm", "media"}

Packets == [ch : Channels, kind : Kinds, pid : Pids, ver : Versions,
            names : Pids \cup {NoPid}, part : Nat, of : Nat,
            sync : BOOLEAN]

ASSUME PsiAssumption ==
  /\ NoChannel \notin Channels
  /\ NoPid \notin Pids /\ PatPid \in Pids /\ NoVersion \notin Versions
  /\ NoTable \notin Packets
  /\ Broadcast \in [Channels -> Seq(Packets)]
  /\ \A c \in Channels : Broadcast[c] # <<>>
  /\ \A c \in Channels : \A i \in DOMAIN Broadcast[c] :
       LET p == Broadcast[c][i] IN
       /\ p.ch = c
       /\ p.kind = "pat" => p.names \in Pids \ {PatPid}
       /\ p.kind = "pmt" => p.names # PatPid
  /\ 1 \in Joins
  /\ ChunkSize \in Nat \ {0}
  /\ MaxQueue \in Nat /\ MaxOpens \in Nat /\ MaxMessages \in Nat

VARIABLES
  (* the client and the data source *)
  api, apiUri,        \* MediaSourceHandler::open: where it is, its argument
  tuned,              \* the channel the demuxer was opened with last
  connected,          \* sess->connectionId # FEIP_CONNECTION_UNINITIALIZED
  opens,
  src, at,            \* the channel and position the consumer reads
  chunk,              \* consumerLoop's partly filled chunk
  (* the parser's input *)
  mChannel, mQueue, mPsiParserRunning, mCircBuf, mPointer,
  (* what it knows of the stream *)
  mPat, mPmt, mEcm,   \* PidInfo
  mIsClearStream, mParserState,
  mTempCollectedEcmData, mEcmTable,
  (* the parser's thread *)
  pc, args,           \* where it is; the arguments of StreamProtectionConfig
  (* the modem's messages *)
  mIsPatPmtReceived, mIsEcmReceived, messages,
  nokia,              \* openLoop: "recvfrom", or holding mStreamStatusMtx
  (* monitored variables *)
  mDrm, mIsCdmSetupDone,
  (* what has happened since the selection *)
  updates,            \* how often drm0 was set since the channel was switched
  clean               \* the switch found nothing left of the old channel

clientVars == <<api, apiUri, tuned, connected, opens>>
sourceVars == <<src, at, chunk>>
inputVars  == <<mChannel, mQueue, mPsiParserRunning>>
streamVars == <<mCircBuf, mPointer>>
tableVars  == <<mPat, mPmt, mEcm, mIsClearStream, mParserState,
                mTempCollectedEcmData, mEcmTable>>
threadVars == <<pc, args>>
nokiaVars  == <<mIsPatPmtReceived, mIsEcmReceived, nokia, messages>>
ghosts     == <<updates, clean>>

vars == <<clientVars, sourceVars, inputVars, streamVars, tableVars, threadVars,
          nokiaVars, mDrm, mIsCdmSetupDone, ghosts>>

-----------------------------------------------------------------------------
(* A broadcast: the position n places behind position a, and n packets.    *)
behind(c, a, n) == ((a + n - 1) % Len(Broadcast[c])) + 1
packetsFrom(c, a, n) == [i \in 1..n |-> Broadcast[c][behind(c, a, i - 1)]]

-----------------------------------------------------------------------------
(* PidInfo                                                                 *)

PidInfo(pid) == [pid |-> pid, ver |-> NoVersion, table |-> NoTable]
reset == PidInfo(NoPid)
isPid(info, pid) == info.pid # NoPid /\ info.pid = pid
(* Mutant: a table without an earlier version is not new.                  *)
isNew_known(info, v) == info.pid # NoPid /\ info.ver \notin {v, NoVersion}

isNew(info, v) == info.pid # NoPid /\ info.ver # v
processed(info) == info.ver # NoVersion
setVer(info, v) == IF info.pid = NoPid THEN info ELSE [info EXCEPT !.ver = v]

(* The published drm0.                                                     *)
NoConfig == [by |-> "none"]

Init ==
  /\ api = "idle" /\ apiUri = NoChannel /\ tuned = NoChannel
  /\ connected = FALSE /\ opens = 0
  /\ src = NoChannel /\ at = 1 /\ chunk = <<>>
  /\ mChannel = NoChannel /\ mQueue = <<>> /\ mPsiParserRunning = FALSE
  /\ mCircBuf = <<>> /\ mPointer = 0
  /\ mPat = PidInfo(PatPid) /\ mPmt = PidInfo(PatPid) /\ mEcm = PidInfo(PatPid)
  /\ mIsClearStream = FALSE /\ mParserState = "NEEDS_PAT"
  /\ mTempCollectedEcmData = <<>> /\ mEcmTable = <<>>
  /\ pc = "pop" /\ args = <<>>
  /\ mIsPatPmtReceived = FALSE /\ mIsEcmReceived = FALSE /\ messages = 0 /\ nokia = "recvfrom"
  /\ mDrm = NoConfig /\ mIsCdmSetupDone = TRUE
  /\ updates = 0 /\ clean = FALSE

(* The watcher of ecm0: an empty value sets the parser to work.            *)
notifyConfigurationChanged(isEmpty) == mPsiParserRunning' = isEmpty

fresh == updates > 0

-----------------------------------------------------------------------------
(* The client: MediaSourceHandler::open.                                   *)

notByClient == <<sourceVars, streamVars, threadVars, mDrm, mChannel>>

(* disconnect() ends the old stream, if there is one.                      *)
disconnect(u) ==
  /\ api = "idle" /\ opens < MaxOpens
  /\ u # apiUri
  /\ apiUri' = u /\ opens' = opens + 1 /\ api' = "switch"
  /\ mIsCdmSetupDone' = (mIsCdmSetupDone /\ ~connected)
  /\ connected' = FALSE
  /\ clean' = FALSE
  /\ UNCHANGED <<notByClient, tuned, mQueue, mPsiParserRunning, tableVars, nokiaVars,
                 updates>>

(* Of the three variables emptied the parser watches ecm0.  The empty URI  *)
(* leaves the demuxer and the consumers alone.                             *)
notifyStreamSwitched ==
  /\ api = "switch" /\ nokia = "recvfrom"
  /\ mIsPatPmtReceived' = FALSE /\ mIsEcmReceived' = FALSE
  /\ notifyConfigurationChanged(TRUE)
  /\ updates' = 0
  /\ api' = IF apiUri = NoChannel THEN "idle" ELSE "tune"
  /\ UNCHANGED <<notByClient, apiUri, tuned, connected, opens, mQueue, tableVars,
                 nokia, messages, mIsCdmSetupDone, clean>>

tune ==
  /\ api = "tune"
  /\ connected' = TRUE /\ tuned' = apiUri /\ api' = "clear"
  /\ UNCHANGED <<notByClient, apiUri, opens, mQueue, mPsiParserRunning, tableVars,
                 nokiaVars, mIsCdmSetupDone, ghosts>>

clearQueue ==
  /\ api = "clear"
  /\ mQueue' = <<>> /\ api' = "open"
  /\ UNCHANGED <<notByClient, apiUri, tuned, connected, opens, mPsiParserRunning, tableVars,
                 nokiaVars, mIsCdmSetupDone, ghosts>>

ofTuned(s) == \A i \in DOMAIN s : s[i].ch = tuned

(* Nothing is on its way to the parser or out of it, except packets of the *)
(* selected channel, and those without a gap up to the next one to arrive: *)
(* chunk i of them begins at position s[i] of the broadcast.               *)
input == mCircBuf \o mQueue
inStep(s) ==
  /\ s[Len(input) + 1] = at
  /\ \A i \in 1..Len(input) : /\ input[i] = packetsFrom(tuned, s[i], ChunkSize)
                              /\ s[i + 1] = behind(tuned, s[i], ChunkSize)

nothingStale ==
  /\ src = tuned /\ chunk = <<>>
  /\ mChannel = tuned \/ input = <<>>
  /\ pc = "next" \/ (pc = "pop" /\ Len(mCircBuf) < 2)
  /\ \E s \in [1..(Len(input) + 1) -> DOMAIN Broadcast[tuned]] : inStep(s)

(* Mutant: onOpen() leaves the ECM of the old channel behind.              *)
onOpen_keepsEcm ==
  /\ mTempCollectedEcmData' = <<>>
  /\ mEcm' = reset /\ mPmt' = reset /\ mPat' = PidInfo(PatPid)
  /\ mParserState' = "NEEDS_PAT"
  /\ UNCHANGED mEcmTable

onOpen ==
  /\ mTempCollectedEcmData' = <<>> /\ mEcmTable' = <<>>
  /\ mEcm' = reset /\ mPmt' = reset /\ mPat' = PidInfo(PatPid)
  /\ mParserState' = "NEEDS_PAT"

resetTables ==
  /\ api = "open"
  /\ onOpen
  /\ clean' = (nothingStale /\ mPsiParserRunning /\ ~fresh)
  /\ api' = "idle"
  /\ UNCHANGED <<notByClient, apiUri, tuned, connected, opens, mQueue, mPsiParserRunning,
                 mIsClearStream, nokiaVars, mIsCdmSetupDone, updates>>

client == notifyStreamSwitched \/ tune \/ clearQueue \/ resetTables

-----------------------------------------------------------------------------
(* The consumer.  What was queued before the switch comes first, and it    *)
(* may fill a part of a chunk: consumerLoop does not give that up.         *)

notByConsumer == <<clientVars, streamVars, tableVars, threadVars, nokiaVars,
                   mDrm, mIsCdmSetupDone, ghosts>>

(* The next n packets of the channel.                                      *)
arriving(n) == packetsFrom(src, at, n)

drained ==
  /\ src # tuned
  /\ IF src = NoChannel THEN UNCHANGED chunk
     ELSE \E n \in 0..(ChunkSize - 1 - Len(chunk)) : chunk' = chunk \o arriving(n)
  /\ src' = tuned /\ at' \in Joins \cap DOMAIN Broadcast[tuned]
  /\ UNCHANGED <<notByConsumer, inputVars>>

post(data) ==
  LET kept == IF src = mChannel THEN mQueue ELSE <<>> IN
  /\ mChannel' = src
  /\ mQueue' = IF mPsiParserRunning THEN Append(kept, data) ELSE kept

consume ==
  /\ src # NoChannel /\ Len(mQueue) < MaxQueue
  /\ LET n == ChunkSize - Len(chunk) IN
     /\ post(chunk \o arriving(n))
     /\ at' = behind(src, at, n)
  /\ chunk' = <<>>
  /\ UNCHANGED <<notByConsumer, src, mPsiParserRunning>>

-----------------------------------------------------------------------------
(* The parser: the table parsers run under mPidInfoMtx.  Each gives the    *)
(* thread's next location: "test" for NEW_ECM, NEW_ECMT and NEW_PAT_PMT,   *)
(* "next" for the other results.                                           *)

(* Mutant: a new PAT leaves the ECM PID of the old one.                    *)
newPat_keepsEcm(p) ==
  /\ mPat' = [setVer(mPat, p.ver) EXCEPT !.table = p]
  /\ mPmt' = PidInfo(p.names) /\ UNCHANGED mEcm

newPat(p) ==
  /\ mPat' = [setVer(mPat, p.ver) EXCEPT !.table = p]
  /\ mPmt' = PidInfo(p.names) /\ mEcm' = reset

parsePat(p) ==
  /\ IF p.kind = "pat" /\ isNew(mPat, p.ver)
       THEN newPat(p)
       ELSE UNCHANGED <<mPat, mPmt, mEcm>>
  /\ mParserState' =
       IF mParserState = "NEEDS_PAT" /\ processed(mPat') /\ mPmt'.pid # NoPid
         THEN "NEEDS_PMT" ELSE mParserState
  /\ pc' = "next"
  /\ UNCHANGED <<mIsClearStream, mTempCollectedEcmData, mEcmTable, mIsCdmSetupDone>>

(* Mutant: a clear channel waits for the CDM.                              *)
newPmt_noCdm(p) ==
  /\ mIsClearStream' = (p.names = NoPid)
  /\ mPmt' = [mPmt EXCEPT !.ver = p.ver, !.table = IF p.names = NoPid THEN p ELSE @]
  /\ UNCHANGED mIsCdmSetupDone

(* A new PMT: the first CA descriptor, of the program or of a stream, with *)
(* a PID that is not yet known.  Without one the channel is clear.         *)
newPmt(p) ==
  /\ mIsClearStream' = (p.names = NoPid)
  /\ mPmt' = [mPmt EXCEPT !.ver = p.ver, !.table = IF p.names = NoPid THEN p ELSE @]
  /\ mIsCdmSetupDone' = (mIsCdmSetupDone \/ p.names = NoPid)

(* mEcm keeps the PMT it was found in.                                     *)
ecmOf(p) == IF p.names = NoPid \/ isPid(mEcm, p.names) THEN mEcm
            ELSE [PidInfo(p.names) EXCEPT !.table = p]

(* The end of parseTsPacket for a PMT, for the ECM PID found.              *)
afterPmt(ecm) ==
  LET gone == mParserState \in {"NEEDS_ECM", "GOT_ECM"} /\ mIsClearStream' IN
  /\ mEcm' = IF gone THEN reset ELSE ecm
  /\ mParserState' =
       CASE gone -> "NO_ECM"
         [] mParserState \in {"NEEDS_PMT", "NEEDS_VMX_PMT", "NO_ECM"} /\ ~mIsClearStream'
              -> IF ecm.pid # NoPid THEN "NEEDS_ECM" ELSE "NEEDS_VMX_PMT"
         [] OTHER -> mParserState

parsePmt(p) ==
  /\ IF p.kind = "pmt" /\ isNew(mPmt, p.ver)
       THEN /\ newPmt(p) /\ afterPmt(ecmOf(p))
            /\ pc' = IF p.names = NoPid THEN "test" ELSE "next"
       ELSE /\ UNCHANGED <<mIsClearStream, mPmt, mIsCdmSetupDone>> /\ pc' = "next"
            /\ IF processed(mPmt) THEN afterPmt(mEcm) ELSE UNCHANGED <<mEcm, mParserState>>
  /\ UNCHANGED <<mPat, mTempCollectedEcmData, mEcmTable>>

(* parseEcm and collectEcm: a table starts with its first packet only, and *)
(* whatever comes next on the PID is taken for the rest of it.             *)
startsEcm(p) == p.kind = "ecm" /\ p.part = 1
collected(p) == Append(mTempCollectedEcmData, p)

ecmComplete(table) ==
  /\ mTempCollectedEcmData' = <<>>
  /\ IF isNew(mEcm, table[1].ver)
       THEN mEcm' = setVer(mEcm, table[1].ver) /\ mEcmTable' = table /\ pc' = "test"
       ELSE UNCHANGED <<mEcm, mEcmTable>> /\ pc' = "next"

parseEcm(p) ==
  /\ IF mTempCollectedEcmData = <<>> /\ ~startsEcm(p)
       THEN UNCHANGED <<mTempCollectedEcmData, mEcm, mEcmTable>> /\ pc' = "next"
       ELSE IF Len(collected(p)) < collected(p)[1].of
       THEN mTempCollectedEcmData' = collected(p) /\ UNCHANGED <<mEcm, mEcmTable>>
            /\ pc' = "next"
       ELSE ecmComplete(collected(p))
  /\ mParserState' = IF mParserState = "NEEDS_PMT" /\ processed(mEcm') THEN "GOT_ECM"
                     ELSE mParserState
  /\ UNCHANGED <<mPat, mPmt, mIsClearStream, mIsCdmSetupDone>>

parseTsPacket(p) ==
  \/ isPid(mPat, p.pid) /\ parsePat(p)
  \/ ~isPid(mPat, p.pid) /\ isPid(mPmt, p.pid) /\ parsePmt(p)
  \/ /\ ~isPid(mPat, p.pid) /\ ~isPid(mPmt, p.pid) /\ isPid(mEcm, p.pid)
     /\ parseEcm(p)
  \/ /\ ~isPid(mPat, p.pid) /\ ~isPid(mPmt, p.pid) /\ ~isPid(mEcm, p.pid)
     /\ pc' = "next" /\ UNCHANGED <<tableVars, mIsCdmSetupDone>>

-----------------------------------------------------------------------------
(* The parser: its thread.                                                 *)

notByParser == <<clientVars, sourceVars, mChannel, nokiaVars, clean>>

(* The thread asks for a chunk when the data has run out (NOT_ENOUGH_DATA) *)
(* or is out of step.  insertChunk: a chunk that does not fit is lost.     *)
pop ==
  /\ pc = "pop" \/ (pc = "next" /\ mCircBuf = <<>>)
  /\ mQueue # <<>>
  /\ mQueue' = Tail(mQueue)
  /\ mCircBuf' = IF Len(mCircBuf) < 2 THEN Append(mCircBuf, Head(mQueue)) ELSE mCircBuf
  /\ pc' = "next"
  /\ UNCHANGED <<notByParser, mPsiParserRunning, mPointer, tableVars, args, mDrm,
                 mIsCdmSetupDone, updates>>

getNextPacket ==
  IF mPointer + 1 = ChunkSize
    THEN mCircBuf' = Tail(mCircBuf) /\ mPointer' = 0
    ELSE mPointer' = mPointer + 1 /\ UNCHANGED mCircBuf

packet == mCircBuf[1][mPointer + 1]

(* One turn of processChunk's loop; a missing sync byte ends the loop.     *)
processChunk ==
  /\ pc = "next" /\ mCircBuf # <<>>
  /\ getNextPacket
  /\ IF ~packet.sync
       THEN pc' = "pop" /\ UNCHANGED <<tableVars, mIsCdmSetupDone>>
       ELSE parseTsPacket(packet)
  /\ UNCHANGED <<notByParser, mQueue, mPsiParserRunning, args, mDrm, updates>>

testRunning ==
  /\ pc = "test"
  /\ pc' = IF mPsiParserRunning THEN "read" ELSE "next"
  /\ UNCHANGED <<notByParser, mQueue, mPsiParserRunning, streamVars, tableVars, args, mDrm,
                 mIsCdmSetupDone, updates>>

getCurrentPmt == LET info == IF mIsClearStream THEN mPmt ELSE mEcm IN
                 IF info.pid = NoPid THEN NoTable ELSE info.table
getCurrentPat == IF mPat.pid = NoPid THEN NoTable ELSE mPat.table

(* The arguments are read without a lock, in no particular order: the      *)
(* channel, which post() writes, and what onOpen() resets.  (A reset       *)
(* between two getters leaves a mixture of what is read before it and what *)
(* is read after it; the two outcomes stand for it.)                       *)
tables == [ecm |-> mEcmTable, pat |-> getCurrentPat, pmt |-> getCurrentPmt,
           clear |-> mIsClearStream]

Arguments == {"ch", "tables"}

readArgument(a) ==
  /\ pc = "read" /\ a \notin DOMAIN args
  /\ args' = [b \in DOMAIN args \cup {a} |->
                IF b # a THEN args[b] ELSE IF a = "ch" THEN mChannel ELSE tables]
  /\ pc' = IF DOMAIN args' = Arguments THEN "publish" ELSE "read"
  /\ UNCHANGED <<notByParser, mQueue, mPsiParserRunning, streamVars, tableVars, mDrm,
                 mIsCdmSetupDone, updates>>

publish ==
  /\ pc = "publish"
  /\ mDrm' = [by |-> "parser", ch |-> args["ch"], of |-> args["tables"]]
  /\ pc' = "stop" /\ args' = <<>>
  /\ updates' = updates + 1
  /\ UNCHANGED <<notByParser, mQueue, mPsiParserRunning, streamVars, tableVars,
                 mIsCdmSetupDone>>

(* Mutant: the parser goes on after it has published.                      *)
stopped_notAtAll == UNCHANGED mPsiParserRunning
stopped == mPsiParserRunning' = FALSE

stop ==
  /\ pc = "stop"
  /\ stopped
  /\ pc' = "next"
  /\ UNCHANGED <<notByParser, mQueue, streamVars, tableVars, args, mDrm,
                 mIsCdmSetupDone, updates>>

parser == pop \/ processChunk \/ testRunning
          \/ (\E a \in Arguments : readArgument(a)) \/ publish \/ stop

-----------------------------------------------------------------------------
(* NokiaSocketCbHandler::openLoop, under mStreamStatusMtx.  A message has  *)
(* no type: the first after a switch is taken for PAT and PMT, the second  *)
(* for the ECM, later ones are ignored, whichever channel they are of.     *)

notByNokia == <<clientVars, sourceVars, mChannel, mQueue, streamVars, tableVars, threadVars,
                mIsCdmSetupDone, clean>>

receive ==
  /\ nokia = "recvfrom" /\ ~mIsEcmReceived
  /\ messages < MaxMessages /\ messages' = messages + 1

(* The values of pat0 and pmt0 are left out: the parser watches neither.   *)
patPmtMessage ==
  /\ receive
  /\ ~mIsPatPmtReceived /\ mIsPatPmtReceived' = TRUE
  /\ UNCHANGED <<notByNokia, mIsEcmReceived, nokia, mPsiParserRunning, mDrm, updates>>

(* It is complete, or has a wrong length, or is the dummy that stands for  *)
(* a clear channel, believed if the PMT has no CA descriptor.              *)
ecmMessage ==
  /\ receive
  /\ mIsPatPmtReceived /\ mIsEcmReceived' = TRUE
  /\ \/ notifyConfigurationChanged(FALSE) /\ nokia' = "protected"
     \/ notifyConfigurationChanged(TRUE) /\ nokia' = "recvfrom"
     \/ /\ nokia' \in {"recvfrom", "clear"}
        /\ UNCHANGED mPsiParserRunning
  /\ UNCHANGED <<notByNokia, mIsPatPmtReceived, mDrm, updates>>

nokiaPublish ==
  /\ nokia # "recvfrom"
  /\ mDrm' = [by |-> "nokia", isClear |-> nokia = "clear"]
  /\ nokia' = "recvfrom" /\ updates' = updates + 1
  /\ UNCHANGED <<notByNokia, mIsPatPmtReceived, mIsEcmReceived, messages, mPsiParserRunning>>

openLoop == patPmtMessage \/ ecmMessage \/ nokiaPublish

-----------------------------------------------------------------------------
Next == \/ \E u \in Channels \cup {NoChannel} : disconnect(u)
        \/ client
        \/ drained \/ consume
        \/ parser \/ openLoop

Spec == Init /\ [][Next]_vars

(* The threads run; the source sends; nobody has to select a channel, and  *)
(* the modem need not say anything.                                        *)
FairSpec == Spec /\ WF_vars(client) /\ WF_vars(drained) /\ WF_vars(consume)
                 /\ WF_vars(parser) /\ WF_vars(nokiaPublish)

-----------------------------------------------------------------------------
Infos == [pid : Pids \cup {NoPid}, ver : Versions \cup {NoVersion},
          table : Packets \cup {NoTable}]

(* The types; the tail chunk of mCircBuf and the chunk being filled are    *)
(* never overrun, a table being collected is never complete.               *)
PsiTypeOK ==
  /\ {src, tuned, apiUri, mChannel} \subseteq Channels \cup {NoChannel}
  /\ Len(chunk) < ChunkSize /\ Len(mQueue) <= MaxQueue
  /\ Len(mCircBuf) <= 2 /\ mPointer \in 0..(ChunkSize - 1)
  /\ {mPat, mPmt, mEcm} \subseteq Infos
  /\ mPsiParserRunning \in BOOLEAN /\ mIsClearStream \in BOOLEAN
  /\ mParserState \in {"NEEDS_PAT", "NEEDS_PMT", "NEEDS_VMX_PMT", "NEEDS_ECM", "NO_ECM"}
  /\ \A i \in DOMAIN mTempCollectedEcmData : mTempCollectedEcmData[i] \in Packets
  /\ mTempCollectedEcmData # <<>> =>
       Len(mTempCollectedEcmData) < mTempCollectedEcmData[1].of

(* The PIDs the parser listens to hang together at every moment of a       *)
(* switch: the PMT's is the one the PAT it keeps names, the ECM's comes    *)
(* from a PMT of that PID (parsePat and parsePmt reset what depends on the *)
(* table they replace).                                                    *)
TablesChained ==
  /\ mPmt.pid \notin {NoPid, PatPid} =>
       /\ processed(mPat) /\ mPat.table # NoTable
       /\ mPat.table.names = mPmt.pid
  /\ mEcm.pid \notin {NoPid, PatPid} =>
       /\ processed(mPmt) /\ mEcm.table # NoTable
       /\ mEcm.table.names = mEcm.pid /\ mEcm.table.pid = mPmt.pid

(* fcc.txt says of drm0 that it is updated only once per channel switch.   *)
(* That is so until the modem's ECM message (processChunk clears           *)
(* mPsiParserRunning after it has set drm0); with the message it may be    *)
(* updated twice, by modem and parser or, when the message has a wrong     *)
(* length and so sets the parser to work again, by the parser alone.       *)
OncePerSwitch == updates <= IF mIsEcmReceived THEN 2 ELSE 1

isClear(c) == \A i \in DOMAIN Broadcast[c] :
                Broadcast[c][i].kind = "pmt" => Broadcast[c][i].names = NoPid

(* What a broadcast has to be for the parser to be right about it, which   *)
(* collects an ECM across packets and gives up a collection at a switch    *)
(* only: the PMTs of a channel agree on the PID of its ECMs, and where     *)
(* there is one every packet is in sync, the PAT keeps its version and     *)
(* that PID carries ECMs only, part after part (unfinished[i] is the last  *)
(* part sent before position i of a table that is not complete there).     *)
steady(c, pid, unfinished) ==
  \A i \in DOMAIN Broadcast[c] :
    LET p == Broadcast[c][i]
        u == unfinished[i] IN
    /\ p.sync
    /\ p.kind = "pmt" => p.names = pid
    /\ \A j \in DOMAIN Broadcast[c] :
         p.kind = "pat" /\ Broadcast[c][j].kind = "pat" => p.ver = Broadcast[c][j].ver
    /\ p.pid = pid => /\ p.kind = "ecm" /\ p.part <= p.of
                      /\ IF u = NoTable THEN p.part = 1
                         ELSE p.part = u.part + 1 /\ p.of = u.of
    /\ unfinished[behind(c, i, 1)] = IF p.pid # pid THEN u
                                     ELSE IF p.part < p.of THEN p ELSE NoTable

aired(c) == {Broadcast[c][i] : i \in DOMAIN Broadcast[c]}

WellFormed ==
  \A c \in Channels : ~isClear(c) =>
    \E pid \in Pids, unfinished \in [DOMAIN Broadcast[c] -> aired(c) \cup {NoTable}] :
      steady(c, pid, unfinished)

(* After a switch that found nothing left of the old channel, what the     *)
(* parser publishes is of the selected channel in all its parts, says      *)
(* rightly whether it is protected, and carries the ECM of a protected     *)
(* channel, whole unless an ECM message of the modem has set the parser to *)
(* work again in the middle of the stream (onOpen resets everything a      *)
(* publication is made from).                                              *)
PublishesSelected ==
  clean /\ fresh /\ mDrm.by = "parser" =>
    /\ mDrm.ch = tuned
    /\ mDrm.of.clear = isClear(tuned)
    /\ mDrm.of.pat # NoTable /\ mDrm.of.pat.ch = tuned
    /\ mDrm.of.pmt # NoTable /\ mDrm.of.pmt.ch = tuned /\ mDrm.of.pmt.kind = "pmt"
    /\ ofTuned(mDrm.of.ecm) /\ (mDrm.of.ecm = <<>> <=> isClear(tuned))
    /\ ~mIsEcmReceived => \A i \in DOMAIN mDrm.of.ecm : mDrm.of.ecm[i].part = i

(* And it is published: drm0 is set after every such switch, unless the    *)
(* next switch comes first.                                                *)
CleanSwitchPublished == clean ~> fresh \/ ~clean

(* A clear channel does not wait for the CDM: the parser sets cdm0 itself, *)
(* unless the modem sent an ECM for it.                                    *)
ClearNeedsNoCdm ==
  clean /\ isClear(tuned) ~> mIsCdmSetupDone \/ ~clean \/ mIsEcmReceived

=============================================================================
