------------------------ MODULE TimeShiftBufferProofs ------------------------
(* Theorems about TimeShiftBuffer, for every window, set of speeds and      *)
(* seek times and any number of chunks.                                    *)
EXTENDS TimeShiftBuffer, TLAPS

(* What has been announced: the speed, or nothing yet while it is still 1. *)
Announced ==
  mTrickPlayFile = mTrickPlaySpeed \/ (mTrickPlayFile = Untold /\ mTrickPlaySpeed = 1)

(* An update under way may have ended trick play without having told the   *)
(* watchers yet.                                                           *)
FileInv ==
  /\ timer # "seek" => Announced
  /\ timer = "seek" => Announced \/ mTrickPlaySpeed = 1

(* The steps of the threads that touch neither speed, file nor timer.      *)
LEMMA OthersKeepTrickPlay ==
  ASSUME TimeShiftNext,
         ~(\E s \in Speeds : setTrickPlaySpeed(s)), ~reset, ~threadLoop
  PROVE  UNCHANGED <<trickVars, timerVars>>
<1>1. CASE post \/ postReading \/ postHolding \/ postHold \/ postAdd \/ postClamp \/ expire
  BY <1>1, Zenon DEF post, postReading, postHolding, postHold, postAdd, postClamp, expire
<1>2. ASSUME NEW h \in Handles, readBegin(h) \/ release(h)
      PROVE  UNCHANGED <<trickVars, timerVars>>
  BY <1>2, Zenon DEF readBegin, release
<1>3. CASE readEnd \/ readAborted
  BY <1>3, Zenon DEF readEnd, readAborted
<1>4. ASSUME NEW t \in SeekTimes, setSeekTime(t)
      PROVE  UNCHANGED <<trickVars, timerVars>>
  BY <1>4, Zenon DEF setSeekTime
<1>5. CASE getConfig \/ setPlaying \/ setPaused \/ onEndOfStream \/ onOpen \/ resetLock
  BY <1>5, Zenon DEF getConfig, setPlaying, setPaused, onEndOfStream, onOpen, resetLock
<1> QED BY <1>1, <1>2, <1>3, <1>4, <1>5, Zenon DEF TimeShiftNext, request, programStep

(* FileInv is inductive.                                                   *)
LEMMA FileInductive == FileInv /\ [TimeShiftNext]_timeShiftVars => FileInv'
<1> SUFFICES ASSUME FileInv, [TimeShiftNext]_timeShiftVars PROVE FileInv'
  OBVIOUS
<1> USE DEF FileInv, Announced
<1>1. CASE UNCHANGED timeShiftVars
  BY <1>1 DEF timeShiftVars, trickVars, timerVars
<1>2. ASSUME NEW s \in Speeds, setTrickPlaySpeed(s) PROVE FileInv'
  BY <1>2 DEF setTrickPlaySpeed, mTrickPlaySpeedMtxFree, startTimer
<1>3. CASE reset
  BY <1>3 DEF reset, mTrickPlaySpeedMtxFree
<1>4. CASE threadLoop
  <2>1. CASE park \/ sleep \/ loop \/ stopped
    BY <2>1 DEF park, sleep, loop, stopped, threadStep, trickVars
  <2>2. CASE updateTrickPlayPosition
    BY <2>2 DEF updateTrickPlayPosition
  <2>3. CASE updateTrickPlaySeek
    BY <2>3 DEF updateTrickPlaySeek
  <2> QED BY <1>4, <2>1, <2>2, <2>3 DEF threadLoop
<1>5. CASE TimeShiftNext /\ ~(\E s \in Speeds : setTrickPlaySpeed(s)) /\ ~reset /\ ~threadLoop
  BY <1>5, OthersKeepTrickPlay DEF trickVars, timerVars
<1> QED BY <1>1, <1>2, <1>3, <1>4, <1>5

(* Whenever no update is under way the watchers of trick_play0 have been   *)
(* told the present speed, under every interleaving of client, timer and   *)
(* channel switch.                                                         *)
THEOREM SpeedIsAnnounced == TimeShiftSpec => []SpeedAnnounced
<1>1. TimeShiftInit => FileInv
  BY DEF TimeShiftInit, FileInv, Announced
<1>2. FileInv => SpeedAnnounced
  BY DEF FileInv, Announced, SpeedAnnounced, mTrickPlaySpeedMtxFree
<1> QED BY <1>1, <1>2, FileInductive, PTL DEF TimeShiftSpec

-----------------------------------------------------------------------------
(* A thread inside an update has not been told to stop: who stops it needs *)
(* the mutex that the update holds.                                        *)
TimerInv ==
  /\ mStop \in BOOLEAN /\ throttling \in BOOLEAN
  /\ timer \in {"update", "seek"} => mStop = FALSE
  /\ throttling = FALSE => timer \notin {"wait", "park", "stop"} /\ mStop = FALSE

(* TimerInv is inductive.                                                  *)
LEMMA TimerInductive == TimerInv /\ [TimeShiftNext]_timeShiftVars => TimerInv'
<1> SUFFICES ASSUME TimerInv, [TimeShiftNext]_timeShiftVars PROVE TimerInv'
  OBVIOUS
<1> USE DEF TimerInv
<1>1. CASE UNCHANGED timeShiftVars
  BY <1>1 DEF timeShiftVars, trickVars, timerVars
<1>2. ASSUME NEW s \in Speeds, setTrickPlaySpeed(s) PROVE TimerInv'
  BY <1>2 DEF setTrickPlaySpeed, mTrickPlaySpeedMtxFree, startTimer
<1>3. CASE reset
  BY <1>3 DEF reset, mTrickPlaySpeedMtxFree
<1>4. CASE threadLoop
  <2>1. CASE park \/ sleep \/ loop \/ stopped
    BY <2>1 DEF park, sleep, loop, stopped, threadStep, trickVars
  <2>2. CASE updateTrickPlayPosition
    <3>1. trickEnds \in BOOLEAN
      BY DEF trickEnds
    <3> QED BY <2>2, <3>1 DEF updateTrickPlayPosition
  <2>3. CASE updateTrickPlaySeek
    BY <2>3 DEF updateTrickPlaySeek
  <2> QED BY <1>4, <2>1, <2>2, <2>3 DEF threadLoop
<1>5. CASE TimeShiftNext /\ ~(\E s \in Speeds : setTrickPlaySpeed(s)) /\ ~reset /\ ~threadLoop
  BY <1>5, OthersKeepTrickPlay DEF trickVars, timerVars
<1> QED BY <1>1, <1>2, <1>3, <1>4, <1>5

(* Reads are unthrottled only while the timer's thread is in its loop and  *)
(* not stopped.                                                            *)
THEOREM ThrottlingComesBack == TimeShiftSpec => []ThrottlingReturns
<1>1. TimeShiftInit => TimerInv
  BY DEF TimeShiftInit, TimerInv
<1>2. TimerInv => ThrottlingReturns
  BY DEF TimerInv, ThrottlingReturns
<1> QED BY <1>1, <1>2, TimerInductive, PTL DEF TimeShiftSpec

-----------------------------------------------------------------------------
(* A search within the span of the index finds an offset within it, and    *)
(* the live point is at offset 0.                                          *)
LEMMA SearchInIndex ==
  ASSUME pace \in Nat \ {0}, NEW b \in Nat, NEW t \in Nat, t <= b * pace
  PROVE  searchBytes(t) \in Nat /\ searchBytes(t) <= b
<1> DEFINE x == t + pace - 1
           q == x \div pace
<1>1. x \in Nat /\ x < (b + 1) * pace
  OBVIOUS
<1>2. q \in Nat /\ q * pace <= x
  BY <1>1
<1>3. ASSUME q >= b + 1 PROVE FALSE
  <2>1. q * pace >= (b + 1) * pace
    BY <1>2, <1>3
  <2> QED BY <1>1, <1>2, <2>1
<1> QED BY <1>2, <1>3 DEF searchBytes

LEMMA SearchLive ==
  ASSUME NEW p \in Nat \ {0} PROVE (0 + p - 1) \div p = 0
OBVIOUS

(* What the memo of the lookup by time is worth: while it is fresh it says *)
(* what a search would say; a stream is opened on an empty index.          *)
MemoInv ==
  /\ pace \in Nat \ {0} /\ fresh \in BOOLEAN /\ mIsStreaming \in BOOLEAN
  /\ mLastByteOffsetFromTimeUs \in [time : Nat, bytes : Nat]
  /\ fresh = TRUE =>
       mLastByteOffsetFromTimeUs.bytes = searchBytes(mLastByteOffsetFromTimeUs.time)
  /\ indexed = 0 => fresh = FALSE \/ mLastByteOffsetFromTimeUs.time = 0
  /\ mIsStreaming = FALSE /\ client = "idle" => indexed = 0
  /\ indexed \in Nat

LEMMA MaxTime ==
  ASSUME MemoInv
  PROVE  /\ getIndexSizeInBytes \in Nat /\ getMaxSeekTime \in Nat
         /\ getMaxSeekTime = getIndexSizeInBytes * pace
BY TimeShiftAssumption DEF MemoInv, getIndexSizeInBytes, getMaxSeekTime, minimum

(* A seek asks within the index; the memo stays what it is worth, and what *)
(* a seek that is not stale answers lies within the index.                 *)
LEMMA LookupAnswers ==
  ASSUME MemoInv, NEW t \in Nat, t <= getMaxSeekTime, getByteOffsetFromTimeUs(t)
  PROVE  /\ mSeekByteOffset' \in Nat /\ staleSeek' \in BOOLEAN /\ fresh' \in BOOLEAN
         /\ staleSeek' = FALSE => mSeekByteOffset' <= getIndexSizeInBytes
         /\ mLastByteOffsetFromTimeUs' \in [time : Nat, bytes : Nat]
         /\ fresh' = TRUE =>
              mLastByteOffsetFromTimeUs'.bytes = searchBytes(mLastByteOffsetFromTimeUs'.time)
<1>1. searchBytes(t) \in Nat /\ searchBytes(t) <= getIndexSizeInBytes
  BY MaxTime, SearchInIndex DEF MemoInv
<1>2. CASE t = mLastByteOffsetFromTimeUs.time
  <2>1. /\ mSeekByteOffset' = mLastByteOffsetFromTimeUs.bytes
        /\ mLastByteOffsetFromTimeUs' = mLastByteOffsetFromTimeUs /\ fresh' = fresh
    BY <1>2 DEF getByteOffsetFromTimeUs
  <2>2. staleSeek' = ~fresh
    BY <1>2, Zenon DEF getByteOffsetFromTimeUs
  <2>3. staleSeek' \in BOOLEAN /\ (staleSeek' = FALSE => fresh = TRUE)
    BY <2>2 DEF MemoInv
  <2> QED BY <1>1, <1>2, <2>1, <2>3 DEF MemoInv
<1>3. CASE t # mLastByteOffsetFromTimeUs.time
  <2>1. /\ mSeekByteOffset' = searchBytes(t) /\ fresh' = TRUE /\ staleSeek' = FALSE
        /\ mLastByteOffsetFromTimeUs' = [time |-> t, bytes |-> searchBytes(t)]
    BY <1>3, Zenon DEF getByteOffsetFromTimeUs
  <2> QED BY <1>1, <2>1
<1> QED BY <1>2, <1>3

(* The steps that touch neither the memo nor the index.                    *)
LEMMA MemoKept ==
  ASSUME MemoInv, UNCHANGED <<indexed, pace, mLastByteOffsetFromTimeUs, fresh>>,
         mIsStreaming' \in BOOLEAN,
         mIsStreaming' = FALSE /\ client' = "idle" => mIsStreaming = FALSE /\ client = "idle"
  PROVE  MemoInv'
BY DEF MemoInv, searchBytes

LEMMA SeekKeepsMemo ==
  ASSUME MemoInv, NEW time \in Nat, seekTo(time), UNCHANGED <<bufferVars, mIsStreaming, client>>
  PROVE  MemoInv'
<1>1. CASE indexed = 0
  BY <1>1, MemoKept DEF seekTo, seekKept, memoVars, bufferVars, MemoInv
<1>2. CASE indexed # 0
  <2>1. PICK t : t = minimum(time, getMaxSeekTime)
    OBVIOUS
  <2>2. t \in Nat /\ t <= getMaxSeekTime /\ getByteOffsetFromTimeUs(t)
    BY <1>2, <2>1, MaxTime DEF seekTo, minimum
  <2>3. \A n : searchBytes(n)' = searchBytes(n)
    BY DEF searchBytes, bufferVars
  <2> QED BY <1>2, <2>2, LookupAnswers DEF MemoInv, bufferVars, searchBytes
<1> QED BY <1>1, <1>2

(* MemoInv is inductive.                                                   *)
LEMMA MemoInductive == MemoInv /\ newSeek \in Nat /\ [TimeShiftNext]_timeShiftVars => MemoInv'
<1> SUFFICES ASSUME MemoInv, newSeek \in Nat, [TimeShiftNext]_timeShiftVars PROVE MemoInv'
  OBVIOUS
<1>1. CASE UNCHANGED timeShiftVars
  BY <1>1, MemoKept DEF timeShiftVars, bufferVars, memoVars, threadVars, MemoInv
<1>2. CASE post
  BY <1>2 DEF post, MemoInv, memoVars, searchBytes
<1>3. CASE postReading \/ postHolding \/ postHold \/ postAdd \/ postClamp \/ expire
  BY <1>3, MemoKept
  DEF postReading, postHolding, postHold, postAdd, postClamp, expire, bufferVars, memoVars,
      threadVars, MemoInv
<1>4. ASSUME NEW h \in Handles, readBegin(h) \/ release(h) PROVE MemoInv'
  BY <1>4, MemoKept DEF readBegin, release, bufferVars, memoVars, threadVars, MemoInv
<1>5. CASE readEnd \/ readAborted
  BY <1>5, MemoKept DEF readEnd, readAborted, bufferVars, memoVars, threadVars, MemoInv
<1>6. ASSUME NEW t \in SeekTimes, setSeekTime(t) PROVE MemoInv'
  BY <1>6, SeekKeepsMemo, TimeShiftAssumption DEF setSeekTime, threadVars
<1>7. CASE getConfig \/ setPlaying \/ setPaused
  BY <1>7, MemoKept
  DEF getConfig, setPlaying, setPaused, bufferVars, memoVars, threadVars, MemoInv
<1>8. ASSUME NEW s \in Speeds, setTrickPlaySpeed(s) PROVE MemoInv'
  BY <1>8, MemoKept DEF setTrickPlaySpeed, bufferVars, memoVars, threadVars, MemoInv
<1>9. CASE onEndOfStream \/ resetLock
  BY <1>9, MemoKept DEF onEndOfStream, resetLock, bufferVars, memoVars, MemoInv
<1>10. CASE reset
  BY <1>10 DEF reset, MemoInv, searchBytes
<1>11. CASE onOpen
  <2>1. indexed = 0 /\ mIsStreaming' = TRUE /\ pace' \in Nat \ {0}
        /\ UNCHANGED <<indexed, mLastByteOffsetFromTimeUs, fresh>>
    <3>1. mIsStreaming = FALSE /\ client = "idle" /\ mIsStreaming' = TRUE
      BY <1>11, Zenon DEF onOpen, MemoInv
    <3> QED BY <1>11, <3>1, TimeShiftAssumption DEF onOpen, memoVars, MemoInv
  <2>2. mLastByteOffsetFromTimeUs.time = 0 =>
          searchBytes(mLastByteOffsetFromTimeUs.time) = 0
          /\ searchBytes(mLastByteOffsetFromTimeUs.time)' = 0
    BY <2>1, SearchLive DEF searchBytes, MemoInv
  <2> QED BY <2>1, <2>2 DEF MemoInv
<1>12. CASE threadLoop
  <2>1. CASE updateTrickPlaySeek
    BY <2>1, SeekKeepsMemo DEF updateTrickPlaySeek, notByTimer, threadVars
  <2>2. CASE park \/ sleep \/ loop \/ stopped \/ updateTrickPlayPosition
    BY <2>2, MemoKept
    DEF park, sleep, loop, stopped, threadStep, updateTrickPlayPosition, notByTimer, seekKept,
        bufferVars, memoVars, threadVars, MemoInv
  <2> QED BY <1>12, <2>1, <2>2 DEF threadLoop
<1> QED BY <1>1, <1>2, <1>3, <1>4, <1>5, <1>6, <1>7, <1>8, <1>9, <1>10, <1>11, <1>12, Zenon
        DEF TimeShiftNext, request, programStep
-----------------------------------------------------------------------------
(* One reader: post moves the read offset of the first handle only.        *)
OneHandle == \A h, k \in Handles : h = k

PlaceTypes ==
  /\ total \in Nat /\ indexed \in Nat /\ indexed <= total
  /\ mSeekByteOffset \in Nat /\ newSeek \in Nat
  /\ DOMAIN mHandles \subseteq Handles
  /\ mHandles \in [DOMAIN mHandles -> Nat]
  /\ mPauseTimeMonitor \in [running : BOOLEAN, time : Nat]
  /\ mTrickPlaySpeed \in Int
  /\ mLastTimeUsFromByteOffset \in [bytes : Nat, time : Nat]
  /\ deltaBytes \in Nat

(* post finds a handle: none is released while the player is PAUSED.       *)
HandleHeld == poster # "idle" \/ mPlayerState = "PAUSED" => DOMAIN mHandles # {}

(* In the middle of a hold the reader is at the live point; only there the *)
(* two offsets disagree.                                                   *)
HoldInv ==
  /\ deltaBytes # 0 => poster = "add"
  /\ poster \in {"add", "clamp"} => \A h \in DOMAIN mHandles : mHandles[h] >= total

(* A waiting read stands where its handle is, and so does the next one,    *)
(* once the seek offset has followed the read offset.                      *)
PlacesAgree ==
  /\ next \in [Handles -> Int]
  /\ reading \in [handle : Nat, pos : Int, moved : BOOLEAN]
  /\ reading # NoRead => reading.handle \in DOMAIN mHandles
  /\ reading # NoRead /\ reading.moved = FALSE =>
       reading.pos = place(reading.handle) - deltaBytes
  /\ \A h \in Handles :
       next[h] # Anywhere => h \in DOMAIN mHandles /\ next[h] = place(h) - deltaBytes

PlaceInv == MemoInv /\ PlaceTypes /\ HandleHeld /\ HoldInv /\ SeekWithinIndex /\ PlacesAgree

(* The span of the index: at most what has been registered, and no shorter *)
(* after one more chunk.                                                   *)
LEMMA SpanOfIndex ==
  ASSUME NEW i \in Nat
  PROVE  LET span(n) == IF n = 0 THEN 0 ELSE minimum(n - 1, Window)
         IN span(i) \in Nat /\ span(i) <= i /\ span(i) <= span(i + 1)
BY TimeShiftAssumption DEF minimum

LEMMA IndexSize ==
  ASSUME PlaceTypes
  PROVE  getIndexSizeInBytes \in Nat /\ getIndexSizeInBytes <= total
BY TimeShiftAssumption DEF PlaceTypes, getIndexSizeInBytes, minimum

(* The first handle is the only one.                                       *)
LEMMA BeginIsReader ==
  ASSUME OneHandle, PlaceTypes, DOMAIN mHandles # {}
  PROVE  DOMAIN mHandles = {begin} /\ begin \in Handles
<1>1. PICK h \in DOMAIN mHandles : TRUE
  OBVIOUS
<1>2. h \in Handles /\ DOMAIN mHandles = {h}
  BY <1>1 DEF OneHandle, PlaceTypes
<1>3. h <= h
  BY <1>2, TimeShiftAssumption
<1>4. begin = h
  BY <1>2, <1>3 DEF begin
<1> QED BY <1>2, <1>4

(* The steps that leave places, index and reads alone.                     *)
LEMMA PlaceKept ==
  ASSUME PlaceInv, UNCHANGED <<total, indexed, placeVars, staleSeek, deltaBytes, reading>>,
         newSeek' \in Nat, mTrickPlaySpeed' \in Int,
         mLastTimeUsFromByteOffset' \in [bytes : Nat, time : Nat],
         mPauseTimeMonitor' \in [running : BOOLEAN, time : Nat],
         HandleHeld', MemoInv', poster' = poster \/ (poster' \in {"idle", "hold"} /\ poster = "paused")
  PROVE  PlaceInv'
<1>1. PlaceTypes' /\ HoldInv' /\ PlacesAgree'
  BY DEF PlaceInv, PlaceTypes, HoldInv, PlacesAgree, place, placeVars
<1>2. SeekWithinIndex'
  BY DEF PlaceInv, SeekWithinIndex, getIndexSizeInBytes, placeVars
<1> QED BY <1>1, <1>2 DEF PlaceInv

(* After a seek or a switch nothing is expected of the next read.          *)
LEMMA MovedPlaces ==
  ASSUME PlacesAgree, moved,
         reading # NoRead => reading.handle \in DOMAIN mHandles'
  PROVE  PlacesAgree'
<1>1. next' = [h \in Handles |-> Anywhere] /\ Anywhere \in Int
  BY DEF moved, Anywhere
<1>2. next' \in [Handles -> Int] /\ \A h \in Handles : next'[h] = Anywhere
  BY <1>1
<1>3. reading' = [reading EXCEPT !.moved = (reading # NoRead)]
  BY DEF moved
<1>4. CASE reading = NoRead
  <2>1. reading' = NoRead
    BY <1>3, <1>4 DEF NoRead
  <2> QED BY <1>2, <1>4, <2>1 DEF PlacesAgree
<1>5. CASE reading # NoRead
  <2>1. /\ reading' \in [handle : Nat, pos : Int, moved : BOOLEAN]
        /\ reading'.handle = reading.handle /\ reading'.moved = TRUE
    BY <1>3, <1>5 DEF PlacesAgree
  <2> QED BY <1>2, <1>5, <2>1 DEF PlacesAgree
<1> QED BY <1>4, <1>5

(* A chunk arrives.                                                        *)
LEMMA PostKeepsPlace ==
  ASSUME PlaceInv, MemoInv', post
  PROVE  PlaceInv'
<1> USE DEF PlaceInv
<1>1. PlaceTypes' /\ HandleHeld' /\ HoldInv'
  BY DEF post, PlaceTypes, HandleHeld, HoldInv, memoVars, placeVars, trickVars, timerVars
<1>2. getIndexSizeInBytes <= getIndexSizeInBytes'
  BY SpanOfIndex DEF post, PlaceTypes, getIndexSizeInBytes
<1>3. SeekWithinIndex'
  BY <1>1, <1>2, IndexSize, TimeShiftAssumption
  DEF post, PlaceTypes, SeekWithinIndex, memoVars, placeVars, getIndexSizeInBytes, minimum
<1>4. PlacesAgree'
  BY DEF post, PlacesAgree, placeVars, place
<1> QED BY <1>1, <1>3, <1>4

(* The pause monitor's time.                                               *)
LEMMA PauseTime ==
  ASSUME PlaceInv, stopTimeInterval \/ updateTimeInterval
  PROVE  mPauseTimeMonitor' \in [running : BOOLEAN, time : Nat]
<1>1. CASE stopTimeInterval
  BY <1>1 DEF stopTimeInterval, PlaceInv, PlaceTypes
<1>2. CASE updateTimeInterval
  BY <1>2 DEF updateTimeInterval, PlaceInv, PlaceTypes, MemoInv
<1> QED BY <1>1, <1>2

(* The place of a paused player is held, in three steps.                   *)
LEMMA HoldKeepsPlace ==
  ASSUME OneHandle, PlaceInv, MemoInv',
         postReading \/ postHolding \/ postHold \/ postAdd \/ postClamp
  PROVE  PlaceInv'
<1> USE DEF PlaceInv
<1>1. CASE postReading
  <2>1. HandleHeld'
    BY <1>1 DEF postReading, HandleHeld, placeVars
  <2> QED BY <1>1, <2>1, PauseTime, PlaceKept
          DEF postReading, PlaceTypes, trickVars, timerVars, memoVars, bufferVars
<1>2. CASE postHolding
  <2>1. HandleHeld'
    BY <1>2 DEF postHolding, HandleHeld, placeVars, pauseVars
  <2> QED BY <1>2, <2>1, PlaceKept
          DEF postHolding, PlaceTypes, trickVars, timerVars, pauseVars, memoVars, bufferVars
<1>3. CASE postHold
  <2>0. PICK r : r = begin
    OBVIOUS
  <2>1. DOMAIN mHandles = {r} /\ r \in Handles /\ mHandles[r] \in Nat
    BY <1>3, <2>0, BeginIsReader DEF postHold, HandleHeld, PlaceTypes
  <2>2. /\ deltaBytes = 0 /\ deltaBytes' \in Nat /\ mHandles[r] + deltaBytes' >= total
    BY <1>3, <2>0, <2>1 DEF postHold, HoldInv, PlaceTypes
  <2>3. /\ DOMAIN mHandles' = {r} /\ mHandles'[r] = mHandles[r] + deltaBytes'
        /\ mHandles' \in [DOMAIN mHandles' -> Nat]
    BY <1>3, <2>0, <2>1, <2>2 DEF postHold, PlaceTypes
  <2>4. mPauseTimeMonitor' \in [running : BOOLEAN, time : Nat]
    BY <1>3, PauseTime DEF postHold
  <2>5. /\ UNCHANGED <<bufferVars, memoVars, mSeekByteOffset, next, reading, trickVars,
                       timerVars>>
        /\ poster' = "add"
    BY <1>3 DEF postHold
  <2>6. PlaceTypes'
    BY <2>1, <2>2, <2>3, <2>4, <2>5 DEF PlaceTypes, bufferVars, memoVars, trickVars, timerVars
  <2>7. HandleHeld' /\ HoldInv'
    BY <2>2, <2>3, <2>5 DEF HandleHeld, HoldInv, bufferVars
  <2>8. SeekWithinIndex'
    BY <1>3, <2>1, <2>2, <2>3, <2>5
    DEF postHold, SeekWithinIndex, PlaceTypes, getIndexSizeInBytes, bufferVars, memoVars
  <2>9. place(r)' - deltaBytes' = place(r) - deltaBytes
    BY <2>1, <2>2, <2>3, <2>5 DEF place, PlaceTypes
  <2>10. PlacesAgree'
    <3>1. \A h \in DOMAIN mHandles : h = r
      BY <2>1
    <3> QED BY <2>1, <2>3, <2>5, <2>9, <3>1 DEF PlacesAgree
  <2> QED BY <2>6, <2>7, <2>8, <2>10
<1>4. CASE postAdd
  <2>1. /\ UNCHANGED <<bufferVars, memoVars, mHandles, next, reading, trickVars, timerVars,
                       pauseVars>>
        /\ mSeekByteOffset' = mSeekByteOffset + deltaBytes /\ deltaBytes' = 0
        /\ poster = "add" /\ poster' = "clamp"
    BY <1>4 DEF postAdd
  <2>2. PlaceTypes' /\ HandleHeld' /\ HoldInv' /\ SeekWithinIndex'
    BY <2>1 DEF PlaceTypes, HandleHeld, HoldInv, SeekWithinIndex, bufferVars, memoVars,
                trickVars, timerVars, pauseVars
  <2>3. \A h \in DOMAIN mHandles : place(h)' - deltaBytes' = place(h) - deltaBytes
    BY <2>1 DEF place, PlaceTypes
  <2>4. PlacesAgree'
    BY <2>1, <2>3 DEF PlacesAgree, place
  <2> QED BY <2>2, <2>4
<1>5. CASE postClamp
  <2>1. /\ UNCHANGED <<bufferVars, memoVars, mHandles, trickVars, timerVars, pauseVars,
                       deltaBytes>>
        /\ poster = "clamp" /\ poster' = "idle"
    BY <1>5 DEF postClamp
  <2>2. getIndexSizeInBytes \in Nat /\ getIndexSizeInBytes <= total
        /\ getIndexSizeInBytes' = getIndexSizeInBytes
    BY <2>1, IndexSize DEF bufferVars, getIndexSizeInBytes
  <2>3. mSeekByteOffset' \in Nat /\ mSeekByteOffset' <= getIndexSizeInBytes
    BY <1>5, <2>2 DEF postClamp, PlaceTypes
  <2>4. PlaceTypes' /\ HandleHeld' /\ HoldInv'
    BY <2>1, <2>3 DEF PlaceTypes, HandleHeld, HoldInv, bufferVars, memoVars, trickVars,
                      timerVars, pauseVars
  <2>5. SeekWithinIndex'
    BY <2>1, <2>2, <2>3 DEF SeekWithinIndex, HoldInv, PlaceTypes, bufferVars
  <2>6. PlacesAgree'
    <3>1. CASE getIndexSizeInBytes < mSeekByteOffset
      <4>1. moved
        BY <1>5, <3>1 DEF postClamp
      <4> QED BY <2>1, <4>1, MovedPlaces DEF PlacesAgree
    <3>2. CASE ~(getIndexSizeInBytes < mSeekByteOffset)
      BY <1>5, <2>1, <3>2 DEF postClamp, PlacesAgree, place
    <3> QED BY <3>1, <3>2
  <2> QED BY <2>4, <2>5, <2>6
<1> QED BY <1>1, <1>2, <1>3, <1>4, <1>5

(* The player's own reads, and the end of a handle.                        *)
LEMMA ReadKeepsPlace ==
  ASSUME OneHandle, PlaceInv, MemoInv',
         (\E h \in Handles : readBegin(h) \/ release(h)) \/ readEnd \/ readAborted
  PROVE  PlaceInv'
<1> USE DEF PlaceInv
<1>1. ASSUME NEW h \in Handles, readBegin(h) PROVE PlaceInv'
  <2>1. /\ DOMAIN mHandles' = DOMAIN mHandles \cup {h}
        /\ \A k \in DOMAIN mHandles : mHandles'[k] = mHandles[k]
        /\ h \notin DOMAIN mHandles => mHandles'[h] = total
        /\ mHandles' \in [DOMAIN mHandles' -> Nat]
    BY <1>1 DEF readBegin, PlaceTypes
  <2>2. PlaceTypes' /\ HandleHeld' /\ HoldInv'
    BY <1>1, <2>1 DEF readBegin, PlaceTypes, HandleHeld, HoldInv, bufferVars, memoVars,
                      pauseVars, trickVars, timerVars, threadVars
  <2>3. SeekWithinIndex'
    BY <1>1, <2>1, IndexSize
    DEF readBegin, SeekWithinIndex, getIndexSizeInBytes, bufferVars, memoVars, threadVars,
        PlaceTypes
  <2>4. PlacesAgree'
    <3>1. /\ next' = next /\ mSeekByteOffset' = mSeekByteOffset /\ deltaBytes' = deltaBytes
          /\ reading' = [handle |-> h, pos |-> mHandles'[h] - mSeekByteOffset,
                         moved |-> deltaBytes # 0]
      BY <1>1 DEF readBegin, threadVars
    <3>2. h \in Nat /\ mHandles'[h] \in Nat
      BY <2>1, TimeShiftAssumption
    <3>3. /\ reading' \in [handle : Nat, pos : Int, moved : BOOLEAN]
          /\ reading'.handle = h /\ reading'.pos = mHandles'[h] - mSeekByteOffset
          /\ (reading'.moved = FALSE => deltaBytes = 0)
      <4>1. PICK m \in BOOLEAN : m = (deltaBytes # 0)
        OBVIOUS
      <4>2. reading' = [handle |-> h, pos |-> mHandles'[h] - mSeekByteOffset, moved |-> m]
        BY <3>1, <4>1, Zenon
      <4>3. m = FALSE => deltaBytes = 0
        BY <4>1
      <4> QED BY <3>2, <4>2, <4>3 DEF PlaceTypes
    <3>4. reading'.moved = FALSE => reading'.pos = place(h)' - deltaBytes'
      BY <3>1, <3>2, <3>3 DEF place, PlaceTypes
    <3> QED BY <2>1, <3>1, <3>3, <3>4 DEF PlacesAgree, place
  <2> QED BY <2>2, <2>3, <2>4
<1>2. ASSUME NEW h \in Handles, release(h) PROVE PlaceInv'
  <2>1. /\ DOMAIN mHandles' = DOMAIN mHandles \ {h}
        /\ \A k \in DOMAIN mHandles' : mHandles'[k] = mHandles[k]
        /\ mHandles' \in [DOMAIN mHandles' -> Nat]
    BY <1>2 DEF release, PlaceTypes
  <2>2. PlaceTypes' /\ HandleHeld' /\ HoldInv'
    BY <1>2, <2>1 DEF release, PlaceTypes, HandleHeld, HoldInv, bufferVars, memoVars,
                      pauseVars, trickVars, timerVars, threadVars
  <2>3. SeekWithinIndex'
    BY <1>2, <2>1 DEF release, SeekWithinIndex, getIndexSizeInBytes, bufferVars, memoVars,
                      threadVars
  <2>4. PlacesAgree'
    BY <1>2, <2>1 DEF release, PlacesAgree, place, Anywhere, threadVars
  <2> QED BY <2>2, <2>3, <2>4
<1>3. CASE readEnd
  <2>0. PICK h : h = reading.handle
    OBVIOUS
  <2>1. h \in DOMAIN mHandles /\ h \in Handles /\ mHandles[h] \in Nat
    BY <1>3, <2>0 DEF readEnd, PlacesAgree, PlaceTypes
  <2>2. /\ DOMAIN mHandles' = DOMAIN mHandles /\ mHandles'[h] = mHandles[h] + 1
        /\ \A k \in DOMAIN mHandles : k # h => mHandles'[k] = mHandles[k]
        /\ mHandles' \in [DOMAIN mHandles' -> Nat]
    BY <1>3, <2>0, <2>1 DEF readEnd, advance, PlaceTypes
  <2>3. PlaceTypes' /\ HandleHeld'
    BY <1>3, <2>2 DEF readEnd, PlaceTypes, HandleHeld, bufferVars, memoVars, pauseVars,
                      trickVars, timerVars, threadVars
  <2>4. \A k \in DOMAIN mHandles : mHandles[k] \in Nat /\ mHandles'[k] \in Nat
                                  /\ mHandles'[k] >= mHandles[k]
    BY <2>1, <2>2 DEF PlaceTypes
  <2>5. SeekWithinIndex' /\ HoldInv'
    BY <1>3, <2>2, <2>4 DEF readEnd, SeekWithinIndex, HoldInv, getIndexSizeInBytes, bufferVars,
       memoVars, threadVars, PlaceTypes
  <2>6. PlacesAgree'
    <3>1. /\ next' = [next EXCEPT ![h] = IF reading.moved THEN Anywhere ELSE reading.pos + 1]
          /\ reading' = NoRead /\ mSeekByteOffset' = mSeekByteOffset
          /\ deltaBytes' = deltaBytes
      BY <1>3, <2>0 DEF readEnd, threadVars
    <3>2. reading.moved \in BOOLEAN /\ reading.pos \in Int
          /\ (reading.moved = FALSE => reading.pos = place(h) - deltaBytes)
      BY <1>3, <2>0 DEF readEnd, PlacesAgree
    <3>3. place(h)' = place(h) + 1
      BY <2>1, <2>2, <3>1 DEF place, PlaceTypes
    <3>4. next' \in [Handles -> Int] /\ next'[h] \in {Anywhere, place(h)' - deltaBytes'}
      BY <2>1, <3>1, <3>2, <3>3 DEF PlacesAgree, Anywhere, PlaceTypes, place
    <3>5. \A k \in Handles : k = h
      BY <2>1 DEF OneHandle
    <3>6. reading' \in [handle : Nat, pos : Int, moved : BOOLEAN]
      BY <3>1 DEF NoRead
    <3> QED BY <2>1, <2>2, <3>1, <3>4, <3>5, <3>6 DEF PlacesAgree, place
  <2> QED BY <2>3, <2>5, <2>6
<1>4. CASE readAborted
  <2>1. PlaceTypes' /\ HandleHeld' /\ HoldInv'
    BY <1>4 DEF readAborted, PlaceTypes, HandleHeld, HoldInv, bufferVars, memoVars, placeVars,
                pauseVars, trickVars, timerVars, threadVars
  <2>2. SeekWithinIndex'
    BY <1>4 DEF readAborted, SeekWithinIndex, getIndexSizeInBytes, bufferVars, memoVars,
                placeVars, threadVars
  <2>3. PlacesAgree'
    BY <1>4 DEF readAborted, PlacesAgree, place, placeVars, NoRead, threadVars
  <2> QED BY <2>1, <2>2, <2>3
<1> QED BY <1>1, <1>2, <1>3, <1>4

(* The body of setSeekTime, called by the client or by the timer.          *)
LEMMA SeekKeepsPlace ==
  ASSUME PlaceInv, MemoInv', NEW time \in Nat, seekTo(time),
         UNCHANGED <<bufferVars, mPlayerState, poster, deltaBytes>>,
         newSeek' \in Nat, mTrickPlaySpeed' \in Int
  PROVE  PlaceInv'
<1> USE DEF PlaceInv
<1>1. CASE indexed = 0
  BY <1>1, PlaceKept DEF seekTo, seekKept, memoVars, bufferVars, placeVars, HandleHeld,
                         PlaceTypes
<1>2. CASE indexed # 0
  <2>1. PICK t : t = minimum(time, getMaxSeekTime)
    OBVIOUS
  <2>2. t \in Nat /\ t <= getMaxSeekTime /\ getByteOffsetFromTimeUs(t)
    BY <1>2, <2>1, MaxTime DEF seekTo, minimum
  <2>3. /\ mHandles' = [h \in DOMAIN mHandles |-> total]
        /\ mPauseTimeMonitor' = [running |-> FALSE, time |-> 0]
        /\ moved /\ mLastTimeUsFromByteOffset' = mLastTimeUsFromByteOffset
    BY <1>2 DEF seekTo
  <2>4. getIndexSizeInBytes \in Nat /\ getIndexSizeInBytes <= total
        /\ getIndexSizeInBytes' = getIndexSizeInBytes
    BY IndexSize DEF bufferVars, getIndexSizeInBytes
  <2>5. mSeekByteOffset' \in Nat /\ staleSeek' \in BOOLEAN
        /\ (staleSeek' = FALSE => mSeekByteOffset' <= getIndexSizeInBytes)
    BY <2>2, LookupAnswers
  <2>6. DOMAIN mHandles' = DOMAIN mHandles /\ \A h \in DOMAIN mHandles : mHandles'[h] = total
    BY <2>3
  <2>7. PlaceTypes'
    BY <2>3, <2>5, <2>6 DEF PlaceTypes, bufferVars
  <2>8. HandleHeld' /\ HoldInv'
    BY <2>6 DEF HandleHeld, HoldInv, bufferVars, PlaceTypes
  <2>9. SeekWithinIndex'
    BY <2>4, <2>5, <2>6 DEF SeekWithinIndex, PlaceTypes
  <2>10. PlacesAgree'
    BY <2>3, <2>6, MovedPlaces DEF PlacesAgree
  <2> QED BY <2>7, <2>8, <2>9, <2>10
<1> QED BY <1>1, <1>2

(* A channel switch.                                                       *)
LEMMA ResetKeepsPlace ==
  ASSUME PlaceInv, MemoInv', reset
  PROVE  PlaceInv'
<1> USE DEF PlaceInv
<1>1. DOMAIN mHandles' = DOMAIN mHandles /\ mHandles' \in [DOMAIN mHandles' -> Nat]
      /\ \A h \in DOMAIN mHandles : mHandles'[h] \in {mHandles[h], total}
  BY DEF reset, PlaceTypes
<1>2. mSeekByteOffset' = 0 /\ indexed' = 0 /\ total' = total /\ staleSeek' = FALSE
  BY DEF reset
<1>3. PlaceTypes' /\ HandleHeld'
  BY <1>1, <1>2 DEF reset, PlaceTypes, HandleHeld
<1>4. SeekWithinIndex'
  BY <1>1, <1>2 DEF SeekWithinIndex, getIndexSizeInBytes
<1>5. HoldInv'
  BY <1>1, <1>2 DEF reset, HoldInv, PlaceTypes
<1>6. PlacesAgree'
  BY <1>1, MovedPlaces DEF reset, PlacesAgree
<1> QED BY <1>3, <1>4, <1>5, <1>6

(* The time of the seek offset, remembered or computed, is a time.         *)
LEMMA RememberedTime ==
  ASSUME PlaceInv, rememberTime
  PROVE  timeOfOffset \in Nat /\ mLastTimeUsFromByteOffset' \in [bytes : Nat, time : Nat]
<1>1. getMaxSeekTime \in Nat /\ mSeekByteOffset * pace \in Nat
  <2>1. mSeekByteOffset \in Nat /\ pace \in Nat
    BY DEF PlaceInv, PlaceTypes, MemoInv
  <2> QED BY <2>1, MaxTime DEF PlaceInv
<1>2. timeOfOffset \in Nat
  BY <1>1 DEF timeOfOffset, minimum, PlaceInv, PlaceTypes
<1> QED BY <1>2 DEF rememberTime, PlaceInv, PlaceTypes

(* The position an update of trick play computes is a position.            *)
LEMMA TimerKeepsPlace ==
  ASSUME PlaceInv, MemoInv', threadLoop
  PROVE  PlaceInv'
<1> USE DEF PlaceInv
<1>1. CASE park \/ sleep \/ loop \/ stopped
  <2>1. UNCHANGED <<notByTimer, seekKept, trickVars, newSeek>>
    BY <1>1 DEF park, sleep, loop, stopped, threadStep
  <2> QED BY <2>1, PlaceKept
          DEF notByTimer, seekKept, memoVars, bufferVars, threadVars, trickVars, placeVars,
              HandleHeld, PlaceTypes
<1>2. CASE updateTrickPlayPosition
  <2>0. rememberTime
    BY <1>2 DEF updateTrickPlayPosition
  <2>1. trickPosition \in Int
    BY <2>0, RememberedTime DEF trickPosition, getSeekTime, PlaceTypes
  <2>2. newSeek' \in Nat /\ mTrickPlaySpeed' \in Int
    BY <1>2, <2>1 DEF updateTrickPlayPosition, PlaceTypes
  <2>3. UNCHANGED <<notByTimer, placeVars, staleSeek, watching, mPauseTimeMonitor, reading>>
    BY <1>2 DEF updateTrickPlayPosition
  <2> QED BY <2>0, <2>2, <2>3, PlaceKept, RememberedTime
          DEF notByTimer, bufferVars, threadVars, placeVars, HandleHeld, PlaceTypes
<1>3. CASE updateTrickPlaySeek
  <2>1. UNCHANGED <<bufferVars, mPlayerState, poster, deltaBytes>> /\ newSeek' = 0
        /\ mTrickPlaySpeed' = mTrickPlaySpeed /\ seekTo(newSeek)
    BY <1>3 DEF updateTrickPlaySeek, notByTimer, threadVars
  <2> QED BY <2>1, SeekKeepsPlace DEF PlaceTypes
<1> QED BY <1>1, <1>2, <1>3 DEF threadLoop

(* What the client and the watchdog do besides seeking and switching.      *)
LEMMA ClientKeepsPlace ==
  ASSUME PlaceInv, MemoInv',
         \/ expire \/ getConfig \/ setPlaying \/ setPaused \/ onEndOfStream \/ resetLock
         \/ onOpen \/ \E s \in Speeds : setTrickPlaySpeed(s)
  PROVE  PlaceInv'
<1> USE DEF PlaceInv
<1>1. /\ UNCHANGED <<total, indexed, placeVars, staleSeek, deltaBytes, reading, poster>>
      /\ newSeek' = newSeek
  BY DEF expire, getConfig, setPlaying, setPaused, onEndOfStream, resetLock, onOpen,
         setTrickPlaySpeed, timerVars, bufferVars, memoVars, threadVars
<1>2. mTrickPlaySpeed' \in Int
  BY TimeShiftAssumption DEF expire, getConfig, setPlaying, setPaused, onEndOfStream, resetLock,
     onOpen, setTrickPlaySpeed, trickVars, PlaceTypes
<1>3. mLastTimeUsFromByteOffset' \in [bytes : Nat, time : Nat]
  <2>1. CASE getConfig
    BY <2>1, RememberedTime DEF getConfig
  <2>2. CASE ~getConfig
    BY <2>2 DEF expire, setPlaying, setPaused, onEndOfStream, resetLock, onOpen,
                setTrickPlaySpeed, memoVars, PlaceTypes
  <2> QED BY <2>1, <2>2
<1>4. mPauseTimeMonitor' \in [running : BOOLEAN, time : Nat]
  <2>1. CASE setPlaying
    BY <2>1, PauseTime DEF setPlaying
  <2>2. CASE ~setPlaying
    BY <2>2 DEF expire, getConfig, setPaused, onEndOfStream, resetLock, onOpen,
                setTrickPlaySpeed, pauseVars, PlaceTypes
  <2> QED BY <2>1, <2>2
<1>5. HandleHeld'
  <2>1. CASE setPaused
    <3>1. DOMAIN mHandles # {}
      BY <2>1, Zenon DEF setPaused
    <3> QED BY <1>1, <3>1 DEF HandleHeld, placeVars
  <2>2. CASE ~setPaused
    BY <1>1, <2>2 DEF expire, getConfig, setPlaying, onEndOfStream, resetLock, onOpen,
                      setTrickPlaySpeed, pauseVars, placeVars, HandleHeld
  <2> QED BY <2>1, <2>2
<1> QED BY <1>1, <1>2, <1>3, <1>4, <1>5, PlaceKept DEF PlaceTypes

(* PlaceInv is inductive with one reader.                                  *)
LEMMA PlaceInductive ==
  ASSUME OneHandle
  PROVE  PlaceInv /\ [TimeShiftNext]_timeShiftVars => PlaceInv'
<1> SUFFICES ASSUME PlaceInv, [TimeShiftNext]_timeShiftVars PROVE PlaceInv'
  OBVIOUS
<1>0. MemoInv'
  BY MemoInductive DEF PlaceInv, PlaceTypes
<1>1. CASE UNCHANGED timeShiftVars
  BY <1>0, <1>1, PlaceKept
  DEF timeShiftVars, bufferVars, memoVars, threadVars, timerVars, trickVars, pauseVars,
      placeVars, PlaceInv, PlaceTypes, HandleHeld
<1>2. ASSUME NEW t \in SeekTimes, setSeekTime(t) PROVE PlaceInv'
  <2>1. t \in Nat
    BY TimeShiftAssumption
  <2>2. seekTo(t) /\ UNCHANGED <<bufferVars, mPlayerState, threadVars, trickVars, timerVars>>
    BY <1>2 DEF setSeekTime
  <2> QED BY <1>0, <2>1, <2>2, SeekKeepsPlace
          DEF trickVars, timerVars, threadVars, PlaceInv, PlaceTypes
<1>3. CASE reset
  BY <1>0, <1>3, ResetKeepsPlace
<1>4. CASE threadLoop
  BY <1>0, <1>4, TimerKeepsPlace
<1>5. CASE post
  BY <1>0, <1>5, PostKeepsPlace
<1>6. CASE postReading \/ postHolding \/ postHold \/ postAdd \/ postClamp
  BY <1>0, <1>6, HoldKeepsPlace
<1>7. CASE (\E h \in Handles : readBegin(h) \/ release(h)) \/ readEnd \/ readAborted
  BY <1>0, <1>7, ReadKeepsPlace
<1>8. CASE \/ expire \/ getConfig \/ setPlaying \/ setPaused \/ onEndOfStream \/ resetLock
           \/ onOpen \/ \E s \in Speeds : setTrickPlaySpeed(s)
  BY <1>0, <1>8, ClientKeepsPlace
<1> QED BY <1>1, <1>2, <1>3, <1>4, <1>5, <1>6, <1>7, <1>8, Zenon
        DEF TimeShiftNext, request, programStep

(* The invariant holds from the start.                                     *)
LEMMA PlaceInitially == TimeShiftInit => PlaceInv
<1> SUFFICES ASSUME TimeShiftInit PROVE PlaceInv
  OBVIOUS
<1>1. DOMAIN mHandles = {}
  BY DEF TimeShiftInit
<1>2. PlaceTypes
  BY <1>1 DEF TimeShiftInit, PlaceTypes
<1>3. HandleHeld /\ HoldInv /\ SeekWithinIndex
  BY <1>1 DEF TimeShiftInit, HandleHeld, HoldInv, SeekWithinIndex, getIndexSizeInBytes
<1>4. PlacesAgree
  BY DEF TimeShiftInit, PlacesAgree, NoRead, Anywhere
<1>5. MemoInv
  <2>1. pace \in Nat \ {0}
    BY TimeShiftAssumption DEF TimeShiftInit
  <2>2. searchBytes(0) = 0
    BY <2>1, SearchLive DEF searchBytes
  <2> QED BY <2>1, <2>2 DEF TimeShiftInit, MemoInv
<1> QED BY <1>2, <1>3, <1>4, <1>5 DEF PlaceInv

(* With one reader the place leaves the recording only by a seek that a    *)
(* memo from before the last clear() answered, whatever seeks, pauses,     *)
(* trick play and switches do and at whatever rates the streams come.      *)
THEOREM ReaderStaysInIndex ==
  ASSUME OneHandle PROVE TimeShiftSpec => []SeekWithinIndex
<1>1. PlaceInv => SeekWithinIndex
  BY DEF PlaceInv
<1> QED BY <1>1, PlaceInitially, PlaceInductive, PTL DEF TimeShiftSpec

(* With one reader no byte is skipped or repeated unless a seek, a switch  *)
(* or the end of the index moved the place, or a read began while a hold   *)
(* had moved one of the two offsets only.                                  *)
THEOREM ReaderContinues ==
  ASSUME OneHandle PROVE TimeShiftSpec => []Continuity
<1>1. PlaceInv => Continuity
  <2> SUFFICES ASSUME PlaceInv, deltaBytes = 0, NEW h \in DOMAIN mHandles
               PROVE  next[h] \in {Anywhere, place(h)}
    BY DEF Continuity
  <2>1. h \in Handles /\ mHandles[h] \in Nat /\ mSeekByteOffset \in Nat
    BY DEF PlaceInv, PlaceTypes
  <2>2. place(h) - deltaBytes = place(h)
    BY <2>1 DEF place
  <2> QED BY <2>1, <2>2 DEF PlaceInv, PlacesAgree
<1> QED BY <1>1, PlaceInitially, PlaceInductive, PTL DEF TimeShiftSpec
=============================================================================
