--------------------------- MODULE TimeShiftBuffer ---------------------------
(***************************************************************************)
(* src/StreamParser/TimeShiftBufferConsumer.cpp: where the player reads in *)
(* the ring buffer, how pausing, seeking and trick play move that place,   *)
(* and the CyclicEventTimer that drives trick play.                        *)
(*                                                                         *)
(*   client   writes seek0, trick_play0, player_state0 and chan_select0    *)
(*   poster   the consumer thread: post                                    *)
(*   player   readData, which holds mSeekMtx while it waits for data       *)
(*   timer    CyclicEventTimer::threadLoop with updateTrickPlayPosition    *)
(*                                                                         *)
(* Who holds a mutex over more than one step follows from where the        *)
(* threads are.  Bytes are counted in chunks.  Of the index (the subject   *)
(* of BufferIndexer) the model keeps how many chunks it spans, the time a  *)
(* chunk of the present stream lasts and the memos of its two lookups,     *)
(* which survive clear().                                                  *)
(***************************************************************************)
EXTENDS Integers

CONSTANTS
  Handles,     \* file handles, numbered: std::map is ordered by them
  Window,      \* the span of the index in chunks
  Speeds,      \* trick play speeds a client asks for
  SeekTimes,   \* seek times a client asks for
  Paces,       \* how long a chunk may last, by the rate of the stream
  MaxChunks,   \* bound: chunks received in a behaviour
  MaxRequests  \* bound: requests of the client in a behaviour

ASSUME TimeShiftAssumption ==
  /\ Handles \subseteq Nat \ {0} /\ Window \in Nat /\ MaxChunks \in Nat
  /\ MaxRequests \in Nat
  /\ Speeds \subseteq Int \ {0} /\ SeekTimes \subseteq Nat
  /\ Paces \subseteq Nat \ {0} /\ Paces # {}

VARIABLES
  total,              \* chunks queued so far
  indexed,            \* chunks registered in the index since it was cleared
  pace,               \* the time a chunk of this stream lasts
  mLastByteOffsetFromTimeUs, mLastTimeUsFromByteOffset,   \* the memos
  fresh,              \* history: the first memo was made since the last clear()
  staleSeek,          \* history: the last seek was answered by an older memo
  mHandles,           \* read offset of every handle that has read
  mSeekByteOffset, mIsStreaming, mIsPaused, mPlayerState,
  watching,           \* mBufferReadWatchdog has been started
  mPauseTimeMonitor,  \* whether an interval runs, and the time accumulated
  mTrickPlaySpeed,
  mTrickPlayFile,     \* the speed the watchers of kTrickPlay0 were told last
  throttling,         \* the ring buffer delays reads to the stream's rate
  mStop,              \* the timer's flag
  timer, newSeek,     \* the timer's thread, and the position it computed
  client, poster,     \* where these threads are
  deltaBytes,         \* what post has added to the read offset only
  requests,           \* requests of the client so far
  reading,            \* the read in progress, if any
  next                \* where each handle's next read should continue

bufferVars == <<total, indexed, pace>>
memoVars   == <<mLastByteOffsetFromTimeUs, mLastTimeUsFromByteOffset, fresh, staleSeek>>
placeVars  == <<mHandles, mSeekByteOffset, next>>
pauseVars  == <<mIsPaused, mPlayerState, watching, mPauseTimeMonitor>>
trickVars  == <<mTrickPlaySpeed, mTrickPlayFile, throttling>>
timerVars  == <<mStop, timer, newSeek>>
threadVars == <<client, poster, deltaBytes>>
timeShiftVars == <<bufferVars, memoVars, placeVars, mIsStreaming, pauseVars, trickVars,
                   timerVars, threadVars, requests, reading>>

NoRead == [handle |-> 0, pos |-> 0, moved |-> FALSE]
Anywhere == -1     \* next, when a seek or a switch has moved the place
Untold == 0        \* mTrickPlayFile as created: an empty vector

minimum(a, b) == IF a < b THEN a ELSE b

TimeShiftInit ==
  /\ total = 0 /\ indexed = 0 /\ pace \in Paces
  /\ mLastByteOffsetFromTimeUs = [time |-> 0, bytes |-> 0]
  /\ mLastTimeUsFromByteOffset = [bytes |-> 0, time |-> 0]
  /\ fresh = TRUE /\ staleSeek = FALSE
  /\ mHandles = [h \in {} |-> 0] /\ mSeekByteOffset = 0
  /\ next = [h \in Handles |-> Anywhere]
  /\ mIsStreaming = FALSE /\ mIsPaused = FALSE /\ mPlayerState = "UNDEF"
  /\ watching = FALSE /\ mPauseTimeMonitor = [running |-> FALSE, time |-> 0]
  /\ mTrickPlaySpeed = 1 /\ mTrickPlayFile = Untold /\ throttling = TRUE
  /\ mStop = TRUE /\ timer = "park" /\ newSeek = 0
  /\ client = "idle" /\ poster = "idle" /\ deltaBytes = 0 /\ reading = NoRead
  /\ requests = 0

(* From the first sample of the index to the last one.                     *)
getIndexSizeInBytes == IF indexed = 0 THEN 0 ELSE minimum(indexed - 1, Window)
getMaxSeekTime == getIndexSizeInBytes * pace

(* A search of the index: the last sample that is old enough.              *)
searchBytes(time) == (time + pace - 1) \div pace

mParamMtxFree == client # "reset" /\ poster \notin {"add", "clamp"}
mTrickPlaySpeedMtxFree == timer \notin {"update", "seek"}
mSeekMtxFree == reading = NoRead

(* History: something other than a read has moved the place.               *)
moved ==
  /\ next' = [h \in Handles |-> Anywhere]
  /\ reading' = [reading EXCEPT !.moved = reading # NoRead]

(* getCurrentReadOffset() - mSeekByteOffset                                *)
place(h) == mHandles[h] - mSeekByteOffset

-----------------------------------------------------------------------------
(* post: a chunk is dropped unless a stream is open.  The watchdog is      *)
(* started by the first chunk if the player is already PAUSED.             *)
post ==
  /\ poster = "idle" /\ mIsStreaming /\ total < MaxChunks
  /\ total' = total + 1 /\ indexed' = indexed + 1
  /\ poster' = IF mPlayerState = "PAUSED" THEN "paused" ELSE "idle"
  /\ watching' = (watching \/ (mPlayerState = "PAUSED" /\ indexed = 0))
  /\ UNCHANGED <<pace, memoVars, placeVars, mIsStreaming, mIsPaused, mPlayerState,
                 mPauseTimeMonitor, trickVars, timerVars, client, deltaBytes, reading>>

(* updateTimeInterval, once per chunk: the first call of an interval       *)
(* starts it, the others add the time since the last one.                  *)
updateTimeInterval ==
  mPauseTimeMonitor' = [running |-> TRUE,
    time |-> mPauseTimeMonitor.time + (IF mPauseTimeMonitor.running THEN pace ELSE 0)]

stopTimeInterval == mPauseTimeMonitor' = [mPauseTimeMonitor EXCEPT !.running = FALSE]

(* The player still reads although PAUSED (its pipeline fills up) ...      *)
postReading ==
  /\ poster = "paused" /\ ~mIsPaused
  /\ updateTimeInterval
  /\ poster' = "idle"
  /\ UNCHANGED <<bufferVars, memoVars, placeVars, mIsStreaming, mIsPaused, mPlayerState,
                 watching, trickVars, timerVars, client, deltaBytes, reading>>

(* ... or has stopped, and its place is held.                              *)
postHolding ==
  /\ poster = "paused" /\ mIsPaused
  /\ poster' = "hold"
  /\ UNCHANGED <<bufferVars, memoVars, placeVars, mIsStreaming, pauseVars, trickVars,
                 timerVars, client, deltaBytes, reading>>

(* mHandles.begin()                                                        *)
begin == CHOOSE h \in DOMAIN mHandles : \A k \in DOMAIN mHandles : h <= k

(* With mParamMtx held, which a reader and a seek do not take: the read    *)
(* offset moves to the live point,                                         *)
postHold ==
  /\ poster = "hold" /\ mParamMtxFree
  /\ deltaBytes' = IF total > mHandles[begin] THEN total - mHandles[begin] ELSE 0
  /\ mHandles' = [mHandles EXCEPT ![begin] = @ + deltaBytes']
  /\ IF deltaBytes' > 0 THEN stopTimeInterval ELSE updateTimeInterval
  /\ poster' = "add"
  /\ UNCHANGED <<bufferVars, memoVars, mSeekByteOffset, next, mIsStreaming, mIsPaused,
                 mPlayerState, watching, trickVars, timerVars, client, reading>>

(* Mutant: the seek offset does not follow.                                *)
postAdd_forgotten ==
  /\ poster = "add"
  /\ deltaBytes' = 0
  /\ poster' = "clamp"
  /\ UNCHANGED <<bufferVars, memoVars, placeVars, mIsStreaming, pauseVars, trickVars,
                 timerVars, client, reading>>

(* then the seek offset with it,                                           *)
postAdd ==
  /\ poster = "add"
  /\ mSeekByteOffset' = mSeekByteOffset + deltaBytes
  /\ deltaBytes' = 0
  /\ poster' = "clamp"
  /\ UNCHANGED <<bufferVars, memoVars, mHandles, next, mIsStreaming, pauseVars, trickVars,
                 timerVars, client, reading>>

(* and at most to the end of the index.                                    *)
postClamp ==
  /\ poster = "clamp"
  /\ IF getIndexSizeInBytes < mSeekByteOffset
       THEN mSeekByteOffset' = getIndexSizeInBytes /\ moved
       ELSE UNCHANGED <<mSeekByteOffset, next, reading>>
  /\ poster' = "idle"
  /\ UNCHANGED <<bufferVars, memoVars, mHandles, mIsStreaming, pauseVars, trickVars,
                 timerVars, client, deltaBytes>>

(* The watchdog: the player has not read for a second.                     *)
expire ==
  /\ watching
  /\ watching' = FALSE /\ mIsPaused' = TRUE
  /\ UNCHANGED <<bufferVars, memoVars, placeVars, mIsStreaming, mPlayerState,
                 mPauseTimeMonitor, trickVars, timerVars, threadVars, reading>>

-----------------------------------------------------------------------------
(* readData: a new handle starts at the live point minus the seek offset.  *)
(* The place is computed before the wait for data, the offset is advanced  *)
(* after it.  A read that begins in the middle of a hold does not continue *)
(* where the last one ended.                                               *)
readBegin(h) ==
  /\ mSeekMtxFree
  /\ mHandles' = IF h \in DOMAIN mHandles THEN mHandles
                 ELSE [k \in DOMAIN mHandles \cup {h} |->
                         IF k = h THEN total ELSE mHandles[k]]
  /\ reading' = [handle |-> h, pos |-> mHandles'[h] - mSeekByteOffset,
                 moved |-> deltaBytes # 0]
  /\ UNCHANGED <<bufferVars, memoVars, mSeekByteOffset, next, mIsStreaming, pauseVars,
                 trickVars, timerVars, threadVars>>

(* incReadOffset                                                           *)
advance(h) == mHandles' = [mHandles EXCEPT ![h] = @ + 1]

(* An offset below 0 has wrapped around: no such byte will ever arrive.    *)
readEnd ==
  /\ reading # NoRead /\ 0 <= reading.pos /\ reading.pos < total
  /\ advance(reading.handle)
  /\ next' = [next EXCEPT ![reading.handle] =
                IF reading.moved THEN Anywhere ELSE reading.pos + 1]
  /\ reading' = NoRead
  /\ UNCHANGED <<bufferVars, memoVars, mSeekByteOffset, mIsStreaming, pauseVars, trickVars,
                 timerVars, threadVars>>

(* interruptReads, when no channel is selected any more: 0 bytes read.     *)
readAborted ==
  /\ reading # NoRead /\ ~mIsStreaming /\ client = "idle"
  /\ reading' = NoRead
  /\ UNCHANGED <<bufferVars, memoVars, placeVars, mIsStreaming, pauseVars, trickVars,
                 timerVars, threadVars>>

(* release.  A player keeps the stream open while it is PAUSED: post uses  *)
(* mHandles.begin() without a test.                                        *)
release(h) ==
  /\ h \in DOMAIN mHandles /\ reading.handle # h
  /\ mPlayerState # "PAUSED" /\ ~mIsPaused /\ poster = "idle"
  /\ mHandles' = [k \in DOMAIN mHandles \ {h} |-> mHandles[k]]
  /\ next' = [next EXCEPT ![h] = Anywhere]
  /\ UNCHANGED <<bufferVars, memoVars, mSeekByteOffset, mIsStreaming, pauseVars, trickVars,
                 timerVars, threadVars, reading>>

-----------------------------------------------------------------------------
(* getByteOffsetFromTimeUs: the last question again is answered from the   *)
(* memo, whatever has become of the index since.                           *)
getByteOffsetFromTimeUs(time) ==
  IF time = mLastByteOffsetFromTimeUs.time
  THEN /\ mSeekByteOffset' = mLastByteOffsetFromTimeUs.bytes
       /\ staleSeek' = ~fresh
       /\ UNCHANGED <<mLastByteOffsetFromTimeUs, fresh>>
  ELSE /\ mSeekByteOffset' = searchBytes(time)
       /\ mLastByteOffsetFromTimeUs' = [time |-> time, bytes |-> searchBytes(time)]
       /\ fresh' = TRUE /\ staleSeek' = FALSE

seekKept == <<memoVars, placeVars, watching, mPauseTimeMonitor, reading>>

(* Mutant: the request is not truncated.                                   *)
seekTo_unlimited(time) ==
  IF indexed = 0 THEN UNCHANGED seekKept
  ELSE /\ getByteOffsetFromTimeUs(time)
       /\ mHandles' = [h \in DOMAIN mHandles |-> total]
       /\ watching' = (mPlayerState = "PAUSED")
       /\ mPauseTimeMonitor' = [running |-> FALSE, time |-> 0]
       /\ moved
       /\ UNCHANGED mLastTimeUsFromByteOffset

(* The body of setSeekTime; an empty index changes nothing.                *)
seekTo(time) ==
  IF indexed = 0 THEN UNCHANGED seekKept
  ELSE /\ getByteOffsetFromTimeUs(minimum(time, getMaxSeekTime))
       /\ mHandles' = [h \in DOMAIN mHandles |-> total]
       /\ watching' = (mPlayerState = "PAUSED")
       /\ mPauseTimeMonitor' = [running |-> FALSE, time |-> 0]
       /\ moved
       /\ UNCHANGED mLastTimeUsFromByteOffset

setSeekTime(time) ==
  /\ client = "idle" /\ mSeekMtxFree
  /\ seekTo(time)
  /\ UNCHANGED <<bufferVars, mIsStreaming, mIsPaused, mPlayerState, trickVars, timerVars,
                 threadVars>>

(* getTimeUsFromByteOffset: the other memo, or the time of the offset, at  *)
(* most that of the whole index.                                           *)
timeOfOffset ==
  IF indexed = 0 THEN 0
  ELSE IF mSeekByteOffset = mLastTimeUsFromByteOffset.bytes
       THEN mLastTimeUsFromByteOffset.time
       ELSE minimum(mSeekByteOffset * pace, getMaxSeekTime)

rememberTime ==
  mLastTimeUsFromByteOffset' =
    IF indexed = 0 THEN mLastTimeUsFromByteOffset
    ELSE [bytes |-> mSeekByteOffset, time |-> timeOfOffset]

getSeekTime == timeOfOffset + mPauseTimeMonitor.time

(* seek0 is read.                                                          *)
getConfig ==
  /\ client = "idle" /\ mParamMtxFree
  /\ rememberTime
  /\ UNCHANGED <<bufferVars, mLastByteOffsetFromTimeUs, fresh, staleSeek, placeVars,
                 mIsStreaming, pauseVars, trickVars, timerVars, threadVars, reading>>

setPlaying ==
  /\ client = "idle"
  /\ watching' = FALSE /\ stopTimeInterval
  /\ mIsPaused' = FALSE /\ mPlayerState' = "PLAYING"
  /\ UNCHANGED <<bufferVars, memoVars, placeVars, mIsStreaming, trickVars, timerVars,
                 threadVars, reading>>

setPaused ==
  /\ client = "idle" /\ DOMAIN mHandles # {}
  /\ watching' = (watching \/ getIndexSizeInBytes > 0)
  /\ mPlayerState' = "PAUSED"
  /\ UNCHANGED <<bufferVars, memoVars, placeVars, mIsStreaming, mIsPaused,
                 mPauseTimeMonitor, trickVars, timerVars, threadVars, reading>>

(* CyclicEventTimer::start: nothing when it runs; a thread that does not   *)
(* wait misses the notification.                                           *)
startTimer ==
  IF mStop THEN mStop' = FALSE /\ timer' = IF timer = "wait" THEN "loop" ELSE timer
           ELSE UNCHANGED <<mStop, timer>>

setTrickPlaySpeed(speed) ==
  /\ client = "idle" /\ mTrickPlaySpeedMtxFree
  /\ speed # mTrickPlaySpeed
  /\ mTrickPlaySpeed' = speed /\ mTrickPlayFile' = speed
  /\ startTimer
  /\ UNCHANGED <<bufferVars, memoVars, placeVars, mIsStreaming, pauseVars, throttling,
                 newSeek, threadVars, reading>>

(* onEndOfStream: chunks are refused from now on; reset() takes mParamMtx  *)
(* and waits for mTrickPlaySpeedMtx with it.                               *)
onEndOfStream ==
  /\ client = "idle" /\ mIsStreaming
  /\ mIsStreaming' = FALSE
  /\ client' = "ending"
  /\ UNCHANGED <<bufferVars, memoVars, placeVars, pauseVars, trickVars, timerVars, poster,
                 deltaBytes, reading>>

resetLock ==
  /\ client = "ending" /\ mParamMtxFree
  /\ client' = "reset"
  /\ UNCHANGED <<bufferVars, memoVars, placeVars, mIsStreaming, pauseVars, trickVars,
                 timerVars, poster, deltaBytes, reading>>

(* Mutant: throttling is left to the timer.                                *)
reset_throttled ==
  /\ client = "reset" /\ mTrickPlaySpeedMtxFree
  /\ mHandles' = IF mSeekByteOffset # 0 THEN [h \in DOMAIN mHandles |-> total] ELSE mHandles
  /\ mSeekByteOffset' = 0 /\ staleSeek' = FALSE
  /\ mTrickPlaySpeed' = 1 /\ mTrickPlayFile' = 1
  /\ mStop' = TRUE /\ timer' = (IF timer = "wait" THEN "loop" ELSE timer)
  /\ indexed' = 0 /\ fresh' = FALSE
  /\ watching' = FALSE /\ mPauseTimeMonitor' = [running |-> FALSE, time |-> 0]
  /\ mIsPaused' = FALSE
  /\ moved
  /\ client' = "idle"
  /\ UNCHANGED <<total, pace, mLastByteOffsetFromTimeUs, mLastTimeUsFromByteOffset,
                 mIsStreaming, mPlayerState, throttling, newSeek, poster, deltaBytes>>

(* mBufIndexer->clear() keeps both memos.                                  *)
reset ==
  /\ client = "reset" /\ mTrickPlaySpeedMtxFree
  /\ mHandles' = IF mSeekByteOffset # 0 THEN [h \in DOMAIN mHandles |-> total] ELSE mHandles
  /\ mSeekByteOffset' = 0 /\ staleSeek' = FALSE
  /\ mTrickPlaySpeed' = 1 /\ mTrickPlayFile' = 1 /\ throttling' = TRUE
  /\ mStop' = TRUE /\ timer' = (IF timer = "wait" THEN "loop" ELSE timer)
  /\ indexed' = 0 /\ fresh' = FALSE
  /\ watching' = FALSE /\ mPauseTimeMonitor' = [running |-> FALSE, time |-> 0]
  /\ mIsPaused' = FALSE
  /\ moved
  /\ client' = "idle"
  /\ UNCHANGED <<total, pace, mLastByteOffsetFromTimeUs, mLastTimeUsFromByteOffset,
                 mIsStreaming, mPlayerState, newSeek, poster, deltaBytes>>

onOpen ==
  /\ client = "idle" /\ ~mIsStreaming
  /\ mIsStreaming' = TRUE
  /\ pace' \in Paces
  /\ UNCHANGED <<total, indexed, memoVars, placeVars, pauseVars, trickVars, timerVars,
                 threadVars, reading>>

-----------------------------------------------------------------------------
(* CyclicEventTimer::threadLoop.  From "park" it goes to sleep without     *)
(* looking at mStop; from "loop" it calls updateTrickPlayPosition unless   *)
(* stopped, which takes mTrickPlaySpeedMtx for the whole call.             *)
notByTimer == <<bufferVars, mIsStreaming, mIsPaused, mPlayerState, threadVars>>

threadStep(from, to) ==
  /\ timer = from /\ timer' = to
  /\ UNCHANGED <<notByTimer, seekKept, trickVars, newSeek>>

park == threadStep("park", "wait") /\ UNCHANGED mStop
sleep == threadStep("sleep", "loop") /\ UNCHANGED mStop
loop == threadStep("loop", IF mStop THEN "park" ELSE "update") /\ UNCHANGED mStop

(* The new position: back into the past with the time that has passed      *)
(* meanwhile, or forward; at either end of the index trick play ends.      *)
trickPosition ==
  IF mTrickPlaySpeed = 1 THEN getSeekTime
  ELSE IF mTrickPlaySpeed < 0 THEN getSeekTime - mTrickPlaySpeed + 1
  ELSE getSeekTime - mTrickPlaySpeed - 1

trickEnds ==
  \/ mTrickPlaySpeed = 1
  \/ mTrickPlaySpeed < 0 /\ trickPosition >= getMaxSeekTime
  \/ mTrickPlaySpeed > 1 /\ trickPosition <= 0

(* getSeekTime takes mParamMtx, with mTrickPlaySpeedMtx held.              *)
updateTrickPlayPosition ==
  /\ timer = "update" /\ mParamMtxFree
  /\ newSeek' = IF trickPosition < 0 THEN 0 ELSE trickPosition
  /\ rememberTime
  /\ throttling' = trickEnds
  /\ mTrickPlaySpeed' = IF trickEnds THEN 1 ELSE mTrickPlaySpeed
  /\ timer' = "seek"
  /\ UNCHANGED <<notByTimer, mLastByteOffsetFromTimeUs, fresh, staleSeek, placeVars,
                 watching, mPauseTimeMonitor, reading, mTrickPlayFile, mStop>>

(* Mutant: the watchers are not told of the end of trick play.             *)
updateTrickPlaySeek_noFile ==
  /\ timer = "seek" /\ mSeekMtxFree
  /\ seekTo(newSeek)
  /\ timer' = IF throttling THEN "stop" ELSE "sleep"
  /\ newSeek' = 0
  /\ UNCHANGED <<notByTimer, trickVars, mStop>>

(* setSeekTime, which waits for a read in progress; then updateTrickPlayFile. *)
updateTrickPlaySeek ==
  /\ timer = "seek" /\ mSeekMtxFree
  /\ seekTo(newSeek)
  /\ mTrickPlayFile' = IF mTrickPlaySpeed = 1 THEN 1 ELSE mTrickPlayFile
  /\ timer' = IF throttling THEN "stop" ELSE "sleep"
  /\ newSeek' = 0
  /\ UNCHANGED <<notByTimer, mTrickPlaySpeed, throttling, mStop>>

stopped == threadStep("stop", "park") /\ mStop' = TRUE

threadLoop ==
  park \/ sleep \/ loop \/ updateTrickPlayPosition \/ updateTrickPlaySeek \/ stopped

request ==
  \/ \E t \in SeekTimes : setSeekTime(t)
  \/ getConfig \/ setPlaying \/ setPaused
  \/ \E s \in Speeds : setTrickPlaySpeed(s)
  \/ onEndOfStream \/ onOpen

programStep ==
  \/ post \/ postReading \/ postHolding \/ postHold \/ postAdd \/ postClamp \/ expire
  \/ \E h \in Handles : readBegin(h) \/ release(h)
  \/ readEnd \/ readAborted
  \/ resetLock \/ reset
  \/ threadLoop

TimeShiftNext ==
  \/ request /\ requests < MaxRequests /\ requests' = requests + 1
  \/ programStep /\ UNCHANGED requests

TimeShiftSpec == TimeShiftInit /\ [][TimeShiftNext]_timeShiftVars

-----------------------------------------------------------------------------
(* The player is not sent outside the recording: the seek offset stays     *)
(* within the index while the index grows, rotates and is cleared, and     *)
(* getCurrentReadOffset() - mSeekByteOffset, unsigned, does not wrap.  Two *)
(* exceptions are the code's own: a seek answered by a memo from before    *)
(* the last clear(), and post between lines 91 and 96.                     *)
SeekWithinIndex ==
  staleSeek = FALSE /\ poster # "clamp" =>
    /\ mSeekByteOffset <= getIndexSizeInBytes
    /\ \A h \in DOMAIN mHandles : mHandles[h] >= mSeekByteOffset

(* No gap and no repetition: unless a seek, a switch or the end of the     *)
(* index moved the place, a read continues where the last one ended, also  *)
(* across a pause and its end, and with a read that waits meanwhile.  Only *)
(* a read that begins while post is between lines 89 and 91 goes astray.   *)
Continuity ==
  reading = NoRead /\ deltaBytes = 0 =>
    \A h \in DOMAIN mHandles : next[h] \in {Anywhere, place(h)}

(* The watchers of trick_play0 have been told the present speed: no end of *)
(* trick play, by client, timer or switch, passes without a notification.  *)
(* Before the first one the speed is still 1.                              *)
SpeedAnnounced ==
  mTrickPlaySpeedMtxFree =>
    \/ mTrickPlayFile = mTrickPlaySpeed
    \/ mTrickPlayFile = Untold /\ mTrickPlaySpeed = 1

(* Reads are not left unthrottled: while they are, the timer's thread is   *)
(* still in its loop and not told to stop, so a later update ends it.      *)
ThrottlingReturns == ~throttling => timer \notin {"wait", "park", "stop"} /\ ~mStop
=============================================================================
