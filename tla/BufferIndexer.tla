---------------------------- MODULE BufferIndexer ----------------------------
(***************************************************************************)
(* The index of the time shift buffer, src/StreamParser/BufferIndexer.cpp: *)
(* every SamplingRatio-th chunk leaves a sample <time, bytes so far> in a  *)
(* circular buffer, and seeks are translated between time and bytes by     *)
(* searching the samples.  The TailSize oldest chunks of the pool are kept *)
(* but not offered.  Each operation runs under mIndexMutex.                *)
(*                                                                         *)
(* Bytes are counted in chunks, time in units of the clock.  The clock is  *)
(* assumed to advance between two chunks.                                  *)
(***************************************************************************)
EXTENDS Integers, Sequences

CONSTANTS
  PoolSize,        \* BUFFER_POOL_SIZE, the chunks the ring buffer keeps
  TailSize,        \* BUFFER_POOL_TAIL_SIZE
  SamplingRatio,   \* BUFFER_SAMPLING_RATIO
  TimeSteps,       \* times that may pass between two chunks
  SeekTimes,       \* seek times a client asks for
  SeekOffsets,     \* byte offsets asked for
  MaxChunks,       \* bound: chunks received in a behaviour
  MaxClears        \* bound: channel switches in a behaviour

ASSUME IndexerAssumption ==
  /\ PoolSize \in Nat /\ TailSize \in Nat /\ SamplingRatio \in Nat \ {0}
  /\ PoolSize >= TailSize + SamplingRatio
  /\ TimeSteps \subseteq Nat \ {0}
  /\ SeekTimes \subseteq Nat /\ SeekOffsets \subseteq Nat
  /\ MaxChunks \in Nat /\ MaxClears \in Nat

(* Samples that are offered, and samples that are kept.                    *)
mTsbSize == (PoolSize - TailSize) \div SamplingRatio
Capacity == PoolSize \div SamplingRatio

VARIABLES
  now,            \* high_resolution_clock
  total,          \* chunks queued in the ring buffer so far
  mBufferCount,   \* chunks since the last clear()
  mBufInd,        \* the samples, oldest first
  mLastByteOffsetFromTimeUs,   \* the last lookup by time and its result
  mLastTimeUsFromByteOffset,   \* the last lookup by bytes and its result
  clears,         \* channel switches so far
  offsetEpoch,    \* the switch after which mLastByteOffsetFromTimeUs was set
  answer          \* what the last lookup by time returned

indexVars  == <<now, total, mBufferCount, mBufInd>>
memoVars   == <<mLastByteOffsetFromTimeUs, mLastTimeUsFromByteOffset, offsetEpoch>>
indexerVars == <<indexVars, memoVars, clears, answer>>

Sample == [time : Nat, bytes : Nat]
NoAnswer == [err |-> "none", time |-> 0, bytes |-> 0, epoch |-> 0]

IndexerInit ==
  /\ now = 0 /\ total = 0
  /\ mBufferCount = 0
  /\ mBufInd = <<>>
  /\ mLastByteOffsetFromTimeUs = <<0, 0>> /\ mLastTimeUsFromByteOffset = <<0, 0>>
  /\ clears = 0 /\ offsetEpoch = 0
  /\ answer = NoAnswer

-----------------------------------------------------------------------------
(* Mutant: the tail is offered too.                                        *)
getIndexSize_withTail == Len(mBufInd)

getIndexSize == IF Len(mBufInd) > mTsbSize THEN mTsbSize ELSE Len(mBufInd)

(* The first sample that is offered; sequences count from 1.               *)
getFrontIndex == Len(mBufInd) - getIndexSize + 1
getFront == mBufInd[getFrontIndex]
back == mBufInd[Len(mBufInd)]

getIndexSizeInTimeUs == IF mBufInd = <<>> THEN 0 ELSE back.time - getFront.time
getIndexSizeInBytes  == IF mBufInd = <<>> THEN 0 ELSE back.bytes - getFront.bytes

(* boost::circular_buffer::push_back                                       *)
pushBack(s) ==
  mBufInd' = Append(IF Len(mBufInd) = Capacity THEN Tail(mBufInd) ELSE mBufInd, s)

(* A chunk is queued d units after the previous one, and registered.       *)
registerBufferCount(d) ==
  /\ total < MaxChunks
  /\ now' = now + d
  /\ total' = total + 1
  /\ mBufferCount' = mBufferCount + 1
  /\ IF mBufferCount % SamplingRatio = 0
       THEN pushBack([time |-> now', bytes |-> total'])
       ELSE UNCHANGED mBufInd
  /\ answer' = NoAnswer
  /\ UNCHANGED <<memoVars, clears>>

(* Mutant: the samples stay.                                               *)
clear_keepsSamples ==
  /\ clears < MaxClears
  /\ clears' = clears + 1
  /\ mBufferCount' = 0
  /\ answer' = NoAnswer
  /\ UNCHANGED <<now, total, mBufInd, memoVars>>

(* clear(): the samples go, the last lookups stay.                         *)
clear ==
  /\ clears < MaxClears
  /\ clears' = clears + 1
  /\ mBufferCount' = 0
  /\ mBufInd' = <<>>
  /\ answer' = NoAnswer
  /\ UNCHANGED <<now, total, memoVars>>

-----------------------------------------------------------------------------
(* std::upper_bound over the samples offered, by time and by bytes.        *)
sampleAfterTime(t) ==
  CHOOSE i \in getFrontIndex .. Len(mBufInd) :
    /\ mBufInd[i].time > t
    /\ \A j \in getFrontIndex .. i - 1 : mBufInd[j].time <= t

sampleAfterBytes(first, b) ==
  CHOOSE i \in first .. Len(mBufInd) :
    /\ mBufInd[i].bytes > b
    /\ \A j \in first .. i - 1 : mBufInd[j].bytes <= b

(* Mutant: the offset is counted from the oldest sample.                   *)
offsetsForTime_fromFront(time) ==
  LET i == sampleAfterTime(back.time - time)
  IN {mBufInd[k].bytes - getFront.bytes : k \in {i - 1, i}}

(* The byte offsets a search for a seek time can end with.  The index is   *)
(* interpolated in float: a fraction of a sample below i is truncated to   *)
(* i - 1, unless it is so small that the sum rounds to i.                  *)
offsetsForTime(time) ==
  LET i == sampleAfterTime(back.time - time)
  IN {back.bytes - mBufInd[k].bytes : k \in {i - 1, i}}

(* The clock time at byte b, by linear interpolation between two samples   *)
(* (float rounding, a unit at most, is left out).                          *)
interpolate(i, b) ==
  LET p == mBufInd[i - 1]
      q == mBufInd[i]
  IN p.time + ((q.time - p.time) * (b - p.bytes)) \div (q.bytes - p.bytes)

timeForOffset(byteOffset) ==
  LET b == back.bytes - byteOffset
  IN back.time - interpolate(sampleAfterBytes(getFrontIndex, b), b)

(* Mutant: the tail counts as offered.                                     *)
outOfTime_tail(time) == mBufInd[1].time + time > back.time

outOfTime(time) == getFront.time + time > back.time
outOfBytes(byteOffset) == getFront.bytes + byteOffset > back.bytes

answerOffset(err, time, b, epoch) ==
  answer' = [err |-> err, time |-> time, bytes |-> b, epoch |-> epoch]

remember(time, b) ==
  /\ mLastByteOffsetFromTimeUs' = <<time, b>>
  /\ offsetEpoch' = clears

(* The branches of getByteOffsetFromTimeUs: an empty index changes and     *)
(* answers nothing; the last question again; live; too far; a search.      *)
getByteOffsetFromTimeUs(time) ==
  /\ mBufInd # <<>>
  /\ \/ /\ time = mLastByteOffsetFromTimeUs[1]
        /\ answerOffset("BUF_OK", time, mLastByteOffsetFromTimeUs[2], offsetEpoch)
        /\ UNCHANGED <<mLastByteOffsetFromTimeUs, offsetEpoch>>
     \/ /\ time # mLastByteOffsetFromTimeUs[1]
        /\ \/ /\ time = 0
              /\ answerOffset("BUF_OK", 0, 0, clears)
              /\ remember(0, 0)
           \/ /\ time # 0 /\ outOfTime(time)
              /\ answerOffset("BUF_OUT_OF_RANGE", time, getIndexSizeInBytes, clears)
              /\ remember(time, getIndexSizeInBytes)
           \/ /\ time # 0 /\ ~outOfTime(time)
              /\ \E b \in offsetsForTime(time) :
                   answerOffset("BUF_OK", time, b, clears) /\ remember(time, b)
  /\ UNCHANGED <<indexVars, mLastTimeUsFromByteOffset, clears>>

(* getTimeUsFromByteOffset has the same branches, in bytes.                *)
getTimeUsFromByteOffset(byteOffset) ==
  /\ mBufInd # <<>>
  /\ byteOffset # mLastTimeUsFromByteOffset[1]
  /\ mLastTimeUsFromByteOffset' =
       IF byteOffset = 0 THEN <<0, 0>>
       ELSE <<byteOffset, IF outOfBytes(byteOffset) THEN getIndexSizeInTimeUs
                                                    ELSE timeForOffset(byteOffset)>>
  /\ UNCHANGED <<indexVars, mLastByteOffsetFromTimeUs, offsetEpoch, clears, answer>>

(* getTimestampUsForByteIndex searches all samples, the tail included.     *)
getTimestampUsForByteIndex(byteIndex) ==
  IF mBufInd[1].bytes >= byteIndex THEN mBufInd[1].time
  ELSE IF back.bytes <= byteIndex THEN back.time
  ELSE interpolate(sampleAfterBytes(1, byteIndex), byteIndex)

IndexerNext ==
  \/ \E d \in TimeSteps : registerBufferCount(d)
  \/ \E t \in SeekTimes : getByteOffsetFromTimeUs(t)
  \/ \E b \in SeekOffsets : getTimeUsFromByteOffset(b)
  \/ clear

IndexerSpec == IndexerInit /\ [][IndexerNext]_indexerVars

-----------------------------------------------------------------------------
(* Samples lie in the past, are SamplingRatio chunks apart and in the      *)
(* order of the clock; what came after the last one is not yet sampled.    *)
SamplesOrdered ==
  /\ \A i \in 1..Len(mBufInd) : mBufInd[i].time <= now
  /\ \A i, j \in 1..Len(mBufInd) :
       i < j => /\ mBufInd[i].time < mBufInd[j].time
                /\ mBufInd[j].bytes = mBufInd[i].bytes + (j - i) * SamplingRatio
  /\ mBufInd # <<>> =>
       /\ mBufferCount # 0
       /\ total = back.bytes + ((mBufferCount - 1) % SamplingRatio)

(* Everything offered is still in the ring buffer, with the whole tail to  *)
(* spare: the oldest chunk a seek can lead to is not among the TailSize    *)
(* oldest the pool keeps, however sampling and rotation fall.              *)
ExposedIsRetained ==
  mBufInd # <<>> => total - getFront.bytes <= PoolSize - TailSize

(* The largest distance in time of two neighbouring samples is at least d. *)
gapOfAtLeast(d) ==
  \E i \in 2..Len(mBufInd) : mBufInd[i].time - mBufInd[i - 1].time >= d

(* The three lookups agree.  The time getTimeUsFromByteOffset reports for  *)
(* the offset a seek led to differs from the time asked for by at most the *)
(* distance of two samples, and the two searches by bytes give the same    *)
(* time for every offset inside the index.                                 *)
SeekRoundTrip ==
  /\ \A t \in SeekTimes \ {0} :
       mBufInd # <<>> /\ ~outOfTime(t) =>
         \A b \in offsetsForTime(t) :
           LET u == IF b = 0 THEN 0 ELSE timeForOffset(b)
           IN gapOfAtLeast(IF u > t THEN u - t ELSE t - u)
  /\ \A b \in 1..getIndexSizeInBytes :
       getTimestampUsForByteIndex(back.bytes - b) = back.time - timeForOffset(b)

(* An offset found in this recording, now or by an earlier lookup, lies    *)
(* inside what is offered, so it leads to a chunk of this recording.       *)
AnswersInRange ==
  answer.err # "none" /\ answer.epoch = clears => answer.bytes <= getIndexSizeInBytes
=============================================================================
