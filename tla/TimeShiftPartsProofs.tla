------------------------ MODULE TimeShiftPartsProofs -------------------------
(***************************************************************************)
(* The two parts the time shift buffer is built with.                      *)
(*                                                                         *)
(* The index, for every pool size, tail size and sampling ratio: the       *)
(* samples stay in order and SamplingRatio chunks apart, everything the    *)
(* index offers is still in the ring buffer with the whole tail to spare,  *)
(* an offset found in this recording stays inside what is offered, and the *)
(* lookups agree with each other.                                          *)
(*                                                                         *)
(* The watchdog, for every timeout: one expiry for a start, and none       *)
(* before the timeout has passed since the last restart.                   *)
(***************************************************************************)
EXTENDS BufferIndexer, TimeoutWatchdog, WellFoundedInduction, TLAPS

-----------------------------------------------------------------------------
(* Arithmetic of the sampling ratio.                                       *)

(* Quotient and remainder are unique.                                      *)
LEMMA RemainderUnique ==
  ASSUME NEW k \in Nat \ {0}, NEW q \in Int, NEW p \in Int,
         NEW r \in 0..k-1, NEW s \in 0..k-1, k * q + r = k * p + s
  PROVE  r = s
<1>1. ASSUME NEW u \in Int, NEW v \in Int, u < v PROVE k * v >= k * u + k
  <2>1. k * (v - u - 1) >= 0
    BY <1>1
  <2> QED BY <2>1
<1>2. ~ q < p
  BY <1>1
<1>3. ~ p < q
  BY <1>1
<1> QED BY <1>2, <1>3

(* What % returns for a positive divisor.                                  *)
LEMMA DivMod ==
  ASSUME NEW n \in Nat, NEW k \in Nat \ {0}
  PROVE  /\ n % k \in 0..k-1
         /\ n \div k \in Int
         /\ n = k * (n \div k) + (n % k)
OBVIOUS

(* Counting on by one: the remainder grows by one, or starts again at 0.   *)
LEMMA NextRemainder ==
  ASSUME NEW n \in Nat \ {0}, NEW k \in Nat \ {0}
  PROVE  /\ n % k = 0 => (n - 1) % k = k - 1
         /\ n % k # 0 => n % k = ((n - 1) % k) + 1
<1> DEFINE q == (n - 1) \div k
           r == (n - 1) % k
<1>1. q \in Int /\ r \in 0..k-1 /\ n - 1 = k * q + r
  BY DivMod
<1>2. n % k \in 0..k-1 /\ n \div k \in Int /\ n = k * (n \div k) + (n % k)
  BY DivMod
<1> HIDE DEF q, r
<1>3. CASE r = k - 1
  <2>1. n = k * (q + 1) + 0
    BY <1>1, <1>3
  <2>2. n % k = 0
    BY <1>2, <2>1, <1>1, RemainderUnique
  <2> QED BY <2>2, <1>3 DEF r
<1>4. CASE r # k - 1
  <2>1. n = k * q + (r + 1) /\ r + 1 \in 0..k-1
    BY <1>1, <1>4
  <2>2. n % k = r + 1
    BY <1>2, <2>1, <1>1, RemainderUnique
  <2> QED BY <2>2, <1>1 DEF r
<1> QED BY <1>3, <1>4

(* A quotient times its divisor does not exceed the dividend.              *)
LEMMA DivTimes ==
  ASSUME NEW n \in Nat, NEW k \in Nat \ {0}
  PROVE  n \div k \in Nat /\ k * (n \div k) <= n
BY DivMod

-----------------------------------------------------------------------------
(* Sequences of samples.                                                   *)

Spaced(s) ==
  \A i, j \in 1..Len(s) :
    i < j => /\ s[i].time < s[j].time
             /\ s[j].bytes = s[i].bytes + (j - i) * SamplingRatio

Until(s, t) == \A i \in 1..Len(s) : s[i].time <= t

LEMMA SpacedTail ==
  ASSUME NEW s \in Seq(Sample), s # <<>>, Spaced(s), NEW t \in Nat, Until(s, t)
  PROVE  /\ Tail(s) \in Seq(Sample)
         /\ Len(Tail(s)) = Len(s) - 1
         /\ Spaced(Tail(s)) /\ Until(Tail(s), t)
         /\ Tail(s) # <<>> => Tail(s)[Len(Tail(s))] = s[Len(s)]
<1>1. /\ Tail(s) \in Seq(Sample) /\ Len(Tail(s)) = Len(s) - 1 /\ Len(s) \in Nat \ {0}
      /\ \A i \in 1..Len(Tail(s)) : Tail(s)[i] = s[i + 1]
  OBVIOUS
<1>2. Until(Tail(s), t)
  BY <1>1 DEF Until
<1>3. Spaced(Tail(s))
  <2> SUFFICES ASSUME NEW i \in 1..Len(Tail(s)), NEW j \in 1..Len(Tail(s)), i < j
               PROVE  /\ Tail(s)[i].time < Tail(s)[j].time
                      /\ Tail(s)[j].bytes = Tail(s)[i].bytes + (j - i) * SamplingRatio
    BY DEF Spaced
  <2>1. i + 1 \in 1..Len(s) /\ j + 1 \in 1..Len(s) /\ i + 1 < j + 1
        /\ (j + 1) - (i + 1) = j - i
    BY <1>1
  <2> QED BY <1>1, <2>1 DEF Spaced
<1>4. Tail(s) # <<>> => Tail(s)[Len(Tail(s))] = s[Len(s)]
  BY <1>1
<1> QED BY <1>1, <1>2, <1>3, <1>4

LEMMA SpacedAppend ==
  ASSUME NEW s \in Seq(Sample), NEW x \in Sample, Spaced(s), NEW t \in Nat, Until(s, t),
         SamplingRatio \in Nat, t < x.time,
         s # <<>> => x.bytes = s[Len(s)].bytes + SamplingRatio
  PROVE  /\ Append(s, x) \in Seq(Sample)
         /\ Len(Append(s, x)) = Len(s) + 1
         /\ Append(s, x)[Len(s) + 1] = x
         /\ Spaced(Append(s, x)) /\ Until(Append(s, x), x.time)
<1> DEFINE a == Append(s, x)
<1>1. /\ a \in Seq(Sample) /\ Len(a) = Len(s) + 1 /\ Len(s) \in Nat
      /\ a[Len(s) + 1] = x
      /\ \A i \in 1..Len(s) : a[i] = s[i]
  OBVIOUS
<1>2. x.time \in Nat /\ x.bytes \in Nat
      /\ \A i \in 1..Len(s) : s[i].time \in Nat /\ s[i].bytes \in Nat
  <2>1. \A y \in Sample : y.time \in Nat /\ y.bytes \in Nat
    BY DEF Sample
  <2>2. \A i \in 1..Len(s) : s[i] \in Sample
    OBVIOUS
  <2> QED BY <2>1, <2>2
<1> HIDE DEF a
<1>3. Until(a, x.time)
  BY <1>1, <1>2 DEF Until
<1>4. Spaced(a)
  <2> SUFFICES ASSUME NEW i \in 1..Len(a), NEW j \in 1..Len(a), i < j
               PROVE  /\ a[i].time < a[j].time
                      /\ a[j].bytes = a[i].bytes + (j - i) * SamplingRatio
    BY DEF Spaced
  <2>1. CASE j <= Len(s)
    <3>1. i \in 1..Len(s) /\ j \in 1..Len(s)
      BY <1>1, <2>1
    <3>2. a[i] = s[i] /\ a[j] = s[j]
      BY <3>1, <1>1
    <3> QED BY <3>1, <3>2 DEF Spaced
  <2>2. CASE j = Len(s) + 1
    <3>1. i \in 1..Len(s) /\ a[i] = s[i] /\ a[j] = x
      BY <1>1, <2>2
    <3>2. a[i].time < a[j].time
      BY <3>1, <1>2 DEF Until
    <3>3. s # <<>> /\ Len(s) \in 1..Len(s)
      BY <3>1, <1>1
    <3>4. s[Len(s)].bytes = s[i].bytes + (Len(s) - i) * SamplingRatio
      <4>1. CASE i = Len(s)
        <5>1. (Len(s) - i) * SamplingRatio = 0
          BY <4>1, <3>3, <1>1
        <5> QED BY <4>1, <5>1, <1>2, <3>1
      <4>2. CASE i < Len(s)
        BY <4>2, <3>1, <3>3 DEF Spaced
      <4> QED BY <4>1, <4>2, <3>1
    <3>5. (j - i) * SamplingRatio = (Len(s) - i) * SamplingRatio + SamplingRatio
      BY <2>2, <3>1, <1>1
    <3>6. (Len(s) - i) * SamplingRatio \in Int
      BY <3>1, <1>1
    <3>7. x.bytes = s[i].bytes + (Len(s) - i) * SamplingRatio + SamplingRatio
      BY <3>3, <3>4
    <3> QED BY <3>1, <3>2, <3>5, <3>6, <3>7, <1>2
  <2> QED BY <2>1, <2>2, <1>1
<1> QED BY <1>1, <1>3, <1>4 DEF a

-----------------------------------------------------------------------------
(* The index proper: what clear and registerBufferCount change.            *)
IndexTypeOK ==
  /\ now \in Nat /\ total \in Nat /\ mBufferCount \in Nat
  /\ mBufInd \in Seq(Sample) /\ Len(mBufInd) <= Capacity

IndexInv == IndexTypeOK /\ SamplesOrdered

LEMMA OrderedIsSpaced ==
  SamplesOrdered <=>
    /\ Until(mBufInd, now) /\ Spaced(mBufInd)
    /\ mBufInd # <<>> =>
         /\ mBufferCount # 0
         /\ total = back.bytes + ((mBufferCount - 1) % SamplingRatio)
BY DEF SamplesOrdered, Until, Spaced

LEMMA CapacityPositive == Capacity \in Nat \ {0} /\ mTsbSize \in Nat \ {0}
<1> DEFINE n == PoolSize - TailSize
<1>1. PoolSize \in Nat /\ TailSize \in Nat /\ SamplingRatio \in Nat \ {0}
      /\ n \in Nat /\ n >= SamplingRatio /\ PoolSize >= SamplingRatio
  BY IndexerAssumption
<1>2. ASSUME NEW m \in Nat, m >= SamplingRatio PROVE m \div SamplingRatio \in Nat \ {0}
  <2>1. m % SamplingRatio \in 0..SamplingRatio-1 /\ m \div SamplingRatio \in Int
        /\ m = SamplingRatio * (m \div SamplingRatio) + (m % SamplingRatio)
    BY <1>1, DivMod
  <2>2. m \div SamplingRatio \in Nat
    BY <1>1, DivTimes
  <2>3. m \div SamplingRatio # 0
    <3> SUFFICES ASSUME m \div SamplingRatio = 0 PROVE FALSE
      OBVIOUS
    <3>1. SamplingRatio * (m \div SamplingRatio) = 0
      BY <1>1
    <3> QED BY <3>1, <2>1, <1>1, <1>2
  <2> QED BY <2>2, <2>3
<1> QED BY <1>1, <1>2 DEF Capacity, mTsbSize

-----------------------------------------------------------------------------
LEMMA IndexInit == IndexerInit => IndexInv
<1> SUFFICES ASSUME IndexerInit PROVE IndexInv
  OBVIOUS
<1>1. IndexTypeOK
  BY CapacityPositive DEF IndexerInit, IndexTypeOK
<1>2. SamplesOrdered
  BY DEF IndexerInit, SamplesOrdered
<1> QED BY <1>1, <1>2 DEF IndexInv

(* The sample a chunk leaves continues the samples kept.                   *)
LEMMA PushKeepsOrder ==
  ASSUME IndexInv, NEW d \in TimeSteps, registerBufferCount(d),
         mBufferCount % SamplingRatio = 0
  PROVE  IndexInv'
<1> DEFINE x == [time |-> now', bytes |-> total']
           kept == IF Len(mBufInd) = Capacity THEN Tail(mBufInd) ELSE mBufInd
<1>1. SamplingRatio \in Nat \ {0} /\ d \in Nat \ {0}
  BY IndexerAssumption
<1>2. /\ now \in Nat /\ total \in Nat /\ mBufferCount \in Nat
      /\ mBufInd \in Seq(Sample) /\ Len(mBufInd) <= Capacity
      /\ Until(mBufInd, now) /\ Spaced(mBufInd)
      /\ mBufInd # <<>> =>
           /\ mBufferCount # 0
           /\ total = mBufInd[Len(mBufInd)].bytes + ((mBufferCount - 1) % SamplingRatio)
  BY OrderedIsSpaced DEF IndexInv, IndexTypeOK, back
<1>3. /\ now' = now + d /\ total' = total + 1 /\ mBufferCount' = mBufferCount + 1
      /\ mBufInd' = Append(kept, x)
  BY DEF registerBufferCount, pushBack
<1>4. now' \in Nat /\ total' \in Nat /\ mBufferCount' \in Nat \ {0} /\ now < now'
  BY <1>1, <1>2, <1>3
<1>5. x \in Sample /\ x.time = now' /\ x.bytes = total'
  BY <1>4 DEF Sample
<1>6. mBufInd # <<>> => x.bytes = mBufInd[Len(mBufInd)].bytes + SamplingRatio
  <2> SUFFICES ASSUME mBufInd # <<>> PROVE total' = mBufInd[Len(mBufInd)].bytes + SamplingRatio
    BY <1>5
  <2>1. mBufInd[Len(mBufInd)].bytes \in Nat
    <3>1. mBufInd[Len(mBufInd)] \in Sample
      BY <1>2
    <3> QED BY <3>1 DEF Sample
  <2>2. (mBufferCount - 1) % SamplingRatio = SamplingRatio - 1
    BY <1>1, <1>2, NextRemainder
  <2> QED BY <2>1, <2>2, <1>1, <1>2, <1>3
<1>7. /\ kept \in Seq(Sample) /\ Len(kept) < Capacity
      /\ Spaced(kept) /\ Until(kept, now)
      /\ kept # <<>> => mBufInd # <<>> /\ kept[Len(kept)] = mBufInd[Len(mBufInd)]
  <2>1. CASE Len(mBufInd) = Capacity
    <3>1. mBufInd # <<>>
      BY <2>1, CapacityPositive
    <3>2. kept = Tail(mBufInd)
      BY <2>1
    <3> QED BY <3>1, <3>2, <2>1, <1>2, SpacedTail, CapacityPositive
  <2>2. CASE Len(mBufInd) # Capacity
    <3>1. kept = mBufInd /\ Len(mBufInd) < Capacity
      BY <2>2, <1>2, CapacityPositive
    <3> QED BY <3>1, <1>2
  <2> QED BY <2>1, <2>2
<1>8. kept # <<>> => x.bytes = kept[Len(kept)].bytes + SamplingRatio
  BY <1>6, <1>7
<1> HIDE DEF x, kept
<1>9. /\ mBufInd' \in Seq(Sample) /\ Len(mBufInd') = Len(kept) + 1
      /\ mBufInd'[Len(kept) + 1] = x
      /\ Spaced(mBufInd') /\ Until(mBufInd', now')
  <2>1. now < x.time /\ SamplingRatio \in Nat
    BY <1>1, <1>4, <1>5
  <2> QED BY <2>1, <1>2, <1>3, <1>5, <1>7, <1>8, SpacedAppend
<1>10. IndexTypeOK'
  <2>1. Len(kept) \in Nat /\ Capacity \in Nat
    BY <1>7, CapacityPositive
  <2>2. Len(mBufInd') <= Capacity
    BY <2>1, <1>7, <1>9
  <2> QED BY <2>2, <1>4, <1>9 DEF IndexTypeOK
<1>11. SamplesOrdered'
  <2>1. total' = mBufInd'[Len(mBufInd')].bytes + ((mBufferCount' - 1) % SamplingRatio)
    <3>1. (mBufferCount' - 1) % SamplingRatio = 0
      BY <1>2, <1>3
    <3>2. mBufInd'[Len(mBufInd')] = x
      BY <1>9
    <3> QED BY <3>1, <3>2, <1>4, <1>5
  <2> QED BY <2>1, <1>4, <1>9 DEF SamplesOrdered, Spaced, Until, back
<1> QED BY <1>10, <1>11 DEF IndexInv

(* A chunk that leaves no sample only moves the count on.                  *)
LEMMA CountKeepsOrder ==
  ASSUME IndexInv, NEW d \in TimeSteps, registerBufferCount(d),
         mBufferCount % SamplingRatio # 0
  PROVE  IndexInv'
<1>1. SamplingRatio \in Nat \ {0} /\ d \in Nat \ {0}
  BY IndexerAssumption
<1>2. /\ now \in Nat /\ total \in Nat /\ mBufferCount \in Nat
      /\ mBufInd \in Seq(Sample) /\ Len(mBufInd) <= Capacity
      /\ Until(mBufInd, now) /\ Spaced(mBufInd)
      /\ mBufInd # <<>> =>
           /\ mBufferCount # 0
           /\ total = mBufInd[Len(mBufInd)].bytes + ((mBufferCount - 1) % SamplingRatio)
  BY OrderedIsSpaced DEF IndexInv, IndexTypeOK, back
<1>3. /\ now' = now + d /\ total' = total + 1 /\ mBufferCount' = mBufferCount + 1
      /\ mBufInd' = mBufInd
  BY DEF registerBufferCount
<1>4. now' \in Nat /\ total' \in Nat /\ mBufferCount' \in Nat \ {0} /\ now < now'
  BY <1>1, <1>2, <1>3
<1>5. IndexTypeOK'
  <2>1. Len(mBufInd') <= Capacity
    BY <1>2, <1>3
  <2> QED BY <2>1, <1>2, <1>3, <1>4 DEF IndexTypeOK
<1>6. \A i \in 1..Len(mBufInd) : mBufInd[i].time \in Nat /\ mBufInd[i].bytes \in Nat
  <2>1. \A i \in 1..Len(mBufInd) : mBufInd[i] \in Sample
    BY <1>2
  <2> QED BY <2>1 DEF Sample
<1>7. Until(mBufInd', now')
  BY <1>2, <1>3, <1>4, <1>6 DEF Until
<1>8. ASSUME mBufInd' # <<>>
      PROVE  total' = mBufInd'[Len(mBufInd')].bytes + ((mBufferCount' - 1) % SamplingRatio)
  <2>1. mBufInd[Len(mBufInd)].bytes \in Nat
    BY <1>2, <1>3, <1>6, <1>8
  <2>2. mBufferCount % SamplingRatio = ((mBufferCount - 1) % SamplingRatio) + 1
    BY <1>1, <1>2, <1>3, <1>8, NextRemainder
  <2>3. mBufferCount' - 1 = mBufferCount
    BY <1>2, <1>3
  <2>4. (mBufferCount - 1) % SamplingRatio \in Nat
    BY <1>1, <1>2, <1>3, <1>8, DivMod
  <2> QED BY <2>1, <2>2, <2>3, <2>4, <1>2, <1>3, <1>8
<1>9. Spaced(mBufInd')
  BY <1>2, <1>3
<1>10. SamplesOrdered'
  BY <1>4, <1>7, <1>8, <1>9 DEF SamplesOrdered, Spaced, Until, back
<1> QED BY <1>5, <1>10 DEF IndexInv

LEMMA IndexStep == IndexInv /\ [IndexerNext]_indexerVars => IndexInv'
<1> SUFFICES ASSUME IndexInv, [IndexerNext]_indexerVars PROVE IndexInv'
  OBVIOUS
<1>1. ASSUME NEW d \in TimeSteps, registerBufferCount(d) PROVE IndexInv'
  BY <1>1, PushKeepsOrder, CountKeepsOrder
<1>2. CASE clear
  <2>1. mBufInd' = <<>> /\ mBufferCount' = 0 /\ now' = now /\ total' = total
    BY <1>2 DEF clear
  <2>2. IndexTypeOK'
    BY <2>1, CapacityPositive DEF IndexInv, IndexTypeOK
  <2>3. SamplesOrdered'
    BY <2>1 DEF SamplesOrdered
  <2> QED BY <2>2, <2>3 DEF IndexInv
<1>3. ASSUME UNCHANGED indexVars PROVE IndexInv'
  BY <1>3 DEF indexVars, IndexInv, IndexTypeOK, SamplesOrdered, back
<1>4. ASSUME NEW t \in SeekTimes, getByteOffsetFromTimeUs(t) PROVE IndexInv'
  BY <1>4, <1>3 DEF getByteOffsetFromTimeUs
<1>5. ASSUME NEW b \in SeekOffsets, getTimeUsFromByteOffset(b) PROVE IndexInv'
  BY <1>5, <1>3 DEF getTimeUsFromByteOffset
<1>6. CASE UNCHANGED indexerVars
  BY <1>6, <1>3 DEF indexerVars
<1> QED BY <1>1, <1>2, <1>4, <1>5, <1>6 DEF IndexerNext

LEMMA IndexInvariant == IndexerSpec => []IndexInv
BY IndexInit, IndexStep, PTL DEF IndexerSpec

(* Samples are in the order of the clock, SamplingRatio chunks apart, and  *)
(* the last one is the last multiple of the ratio (registerBufferCount,    *)
(* clear), for every capacity, ratio and clock.                            *)
THEOREM SamplesStayOrdered == IndexerSpec => []SamplesOrdered
<1>1. IndexInv => SamplesOrdered
  BY DEF IndexInv
<1> QED BY <1>1, IndexInvariant, PTL

(* The oldest chunk the index offers is never among the TailSize oldest of *)
(* the ring buffer (the constructor's sizes and getIndexSize), whatever    *)
(* sizes and ratio the configuration has.                                  *)
THEOREM OfferedIsRetained == IndexerSpec => []ExposedIsRetained
<1>1. ASSUME IndexInv, mBufInd # <<>> PROVE total - getFront.bytes <= PoolSize - TailSize
  <2> DEFINE L == Len(mBufInd)
             g == getIndexSize
             f == getFrontIndex
             w == PoolSize - TailSize
  <2>1. SamplingRatio \in Nat \ {0} /\ w \in Nat
    BY IndexerAssumption
  <2>2. L \in Nat \ {0} /\ mTsbSize \in Nat \ {0}
    BY <1>1, CapacityPositive DEF IndexInv, IndexTypeOK
  <2>3. g \in 1..L /\ g <= mTsbSize
    BY <2>2 DEF getIndexSize
  <2>4. f = L - g + 1 /\ f \in 1..L
    BY <2>2, <2>3 DEF getFrontIndex
  <2>5. \A i \in 1..L : mBufInd[i].bytes \in Nat
    <3>1. \A i \in 1..L : mBufInd[i] \in Sample
      BY <1>1 DEF IndexInv, IndexTypeOK
    <3> QED BY <3>1 DEF Sample
  <2>6. mBufInd[L].bytes = mBufInd[f].bytes + (g - 1) * SamplingRatio
    <3>1. CASE f < L
      <4>1. L - f = g - 1 /\ L \in 1..L
        BY <2>2, <2>3, <2>4
      <4>2. mBufInd[L].bytes = mBufInd[f].bytes + (L - f) * SamplingRatio
        BY <1>1, <2>4, <3>1, <4>1 DEF IndexInv, SamplesOrdered
      <4> QED BY <4>1, <4>2
    <3>2. CASE f = L
      <4>1. (g - 1) * SamplingRatio = 0
        BY <3>2, <2>1, <2>2, <2>3, <2>4
      <4> QED BY <3>2, <4>1, <2>4, <2>5
    <3> QED BY <3>1, <3>2, <2>2, <2>4
  <2>7. total = mBufInd[L].bytes + ((mBufferCount - 1) % SamplingRatio)
        /\ (mBufferCount - 1) % SamplingRatio \in 0..SamplingRatio-1
    <3>1. mBufferCount \in Nat \ {0}
          /\ total = mBufInd[L].bytes + ((mBufferCount - 1) % SamplingRatio)
      BY <1>1 DEF IndexInv, IndexTypeOK, SamplesOrdered, back
    <3>2. mBufferCount - 1 \in Nat
      BY <3>1
    <3> QED BY <3>1, <3>2, <2>1, DivMod
  <2>8. SamplingRatio * mTsbSize <= w
    BY <2>1, DivTimes DEF mTsbSize
  <2>9. (g - 1) * SamplingRatio + SamplingRatio <= SamplingRatio * mTsbSize
    <3>1. SamplingRatio * (mTsbSize - g) >= 0
      BY <2>1, <2>2, <2>3
    <3> QED BY <3>1, <2>1, <2>2, <2>3
  <2>10. getFront.bytes = mBufInd[f].bytes
    BY DEF getFront
  <2> HIDE DEF L, g, f, w
  <2>11. (g - 1) * SamplingRatio \in Int /\ SamplingRatio * mTsbSize \in Int
    BY <2>1, <2>2, <2>3
  <2>12. total - mBufInd[f].bytes <= w
    BY <2>1, <2>2, <2>4, <2>5, <2>6, <2>7, <2>8, <2>9, <2>11
  <2> QED BY <2>10, <2>12 DEF w
<1>2. IndexInv => ExposedIsRetained
  BY <1>1 DEF ExposedIsRetained
<1> QED BY <1>2, IndexInvariant, PTL

-----------------------------------------------------------------------------
(* Searching the index.                                                    *)

(* std::upper_bound ends: a set of indices that is not empty has a least   *)
(* element.                                                                *)
LEMMA LeastElement ==
  ASSUME NEW T, T \subseteq Nat, T # {}
  PROVE  \E m \in T : \A k \in T : m <= k
<1>1. PICK m \in T : \A k \in T : ~ (<<k, m>> \in OpToRel(<, Nat))
  BY NatLessThanWellFounded, WFMin, Zenon
<1>2. ASSUME NEW k \in T, k < m PROVE FALSE
  <2>1. <<k, m>> \in Nat \X Nat /\ <<k, m>>[1] < <<k, m>>[2]
    BY <1>2
  <2>2. <<k, m>> \in OpToRel(<, Nat)
    BY <2>1, Zenon DEF OpToRel
  <2> QED BY <2>2, <1>1, Zenon
<1>3. \A k \in T : m <= k
  <2>1. \A k \in T : ~(k < m)
    BY <1>2, Zenon
  <2> QED BY <2>1
<1> QED BY <1>3, Zenon

(* The samples offered are the last ones, and later ones have more bytes.  *)
LEMMA IndexShape ==
  ASSUME IndexInv, mBufInd # <<>>
  PROVE  /\ Len(mBufInd) \in Nat \ {0} /\ SamplingRatio \in Nat \ {0}
         /\ getIndexSize \in 1..Len(mBufInd)
         /\ getFrontIndex = Len(mBufInd) - getIndexSize + 1
         /\ getFrontIndex \in 1..Len(mBufInd)
         /\ getFront = mBufInd[getFrontIndex] /\ back = mBufInd[Len(mBufInd)]
         /\ \A i \in 1..Len(mBufInd) : mBufInd[i].time \in Nat /\ mBufInd[i].bytes \in Nat
<1>1. Len(mBufInd) \in Nat \ {0} /\ mTsbSize \in Nat \ {0}
  BY CapacityPositive DEF IndexInv, IndexTypeOK
<1>2. getIndexSize \in 1..Len(mBufInd)
  BY <1>1 DEF getIndexSize
<1>3. getFrontIndex = Len(mBufInd) - getIndexSize + 1 /\ getFrontIndex \in 1..Len(mBufInd)
  BY <1>1, <1>2 DEF getFrontIndex
<1>4. \A i \in 1..Len(mBufInd) : mBufInd[i].time \in Nat /\ mBufInd[i].bytes \in Nat
  <2>1. \A i \in 1..Len(mBufInd) : mBufInd[i] \in Sample
    BY DEF IndexInv, IndexTypeOK
  <2> QED BY <2>1 DEF Sample
<1> QED BY <1>1, <1>2, <1>3, <1>4, IndexerAssumption DEF getFront, back

LEMMA SamplesGrow ==
  ASSUME IndexInv, NEW i \in 1..Len(mBufInd), NEW j \in 1..Len(mBufInd), i < j
  PROVE  /\ mBufInd[i].time < mBufInd[j].time
         /\ mBufInd[i].bytes + SamplingRatio <= mBufInd[j].bytes
<1>1. mBufInd # <<>>
  BY DEF IndexInv, IndexTypeOK
<1>2. mBufInd[i].bytes \in Nat /\ SamplingRatio \in Nat \ {0} /\ Len(mBufInd) \in Nat
  BY <1>1, IndexShape
<1>3. /\ mBufInd[i].time < mBufInd[j].time
      /\ mBufInd[j].bytes = mBufInd[i].bytes + (j - i) * SamplingRatio
  BY DEF IndexInv, SamplesOrdered
<1>4. (j - i - 1) * SamplingRatio >= 0
  <2>1. j - i - 1 \in Nat
    BY <1>2
  <2> QED BY <2>1, <1>2
<1>5. (j - i) * SamplingRatio = (j - i - 1) * SamplingRatio + SamplingRatio
  BY <1>2
<1>6. (j - i - 1) * SamplingRatio \in Int
  BY <1>2
<1> QED BY <1>2, <1>3, <1>4, <1>5, <1>6

(* What a search by time ends with when the time lies inside the index.    *)
LEMMA SearchByTime ==
  ASSUME IndexInv, mBufInd # <<>>, NEW t \in Nat \ {0}, ~outOfTime(t)
  PROVE  LET i == sampleAfterTime(back.time - t)
         IN /\ i \in getFrontIndex + 1 .. Len(mBufInd)
            /\ mBufInd[i - 1].time <= back.time - t
            /\ mBufInd[i].time > back.time - t
<1> DEFINE f == getFrontIndex
           L == Len(mBufInd)
           T == back.time - t
           S == {i \in f..L : mBufInd[i].time > T}
           P(i) == mBufInd[i].time > T /\ \A j \in f .. i - 1 : mBufInd[j].time <= T
<1>1. /\ f \in 1..L /\ L \in Nat \ {0}
      /\ \A i \in 1..L : mBufInd[i].time \in Nat
      /\ back.time = mBufInd[L].time /\ back.time \in Nat
      /\ getFront.time = mBufInd[f].time
  BY IndexShape
<1>2. T \in Int /\ mBufInd[f].time <= T /\ T < mBufInd[L].time
  BY <1>1 DEF outOfTime
<1> HIDE DEF T, f, L
<1>3. S \subseteq Nat /\ S # {}
  <2>1. L \in S
    BY <1>1, <1>2
  <2> QED BY <2>1, <1>1
<1>4. PICK m \in S : \A k \in S : m <= k
  BY <1>3, LeastElement
<1>5. m \in f..L /\ P(m)
  <2> SUFFICES ASSUME NEW j \in f .. m - 1 PROVE mBufInd[j].time <= T
    BY <1>4
  <2>1. j \in f..L /\ j \in 1..L /\ ~(m <= j)
    BY <1>4, <1>1
  <2>2. j \notin S
    BY <2>1, <1>4
  <2>3. ~(mBufInd[j].time > T)
    BY <2>1, <2>2
  <2> QED BY <2>1, <2>3, <1>1, <1>2
<1>6. PICK i : i = sampleAfterTime(T)
  OBVIOUS
<1>7. i = CHOOSE n \in f..L : P(n)
  BY <1>6, Zenon DEF sampleAfterTime, f, L
<1> HIDE DEF P
<1>8. i \in f..L /\ P(i)
  BY <1>5, <1>7, Zenon
<1>9. i # f
  BY <1>8, <1>1, <1>2 DEF P
<1>10. i \in f + 1 .. L /\ i - 1 \in f .. i - 1
  BY <1>8, <1>9, <1>1
<1>11. mBufInd[i - 1].time <= T /\ mBufInd[i].time > T
  BY <1>8, <1>10 DEF P
<1> QED BY <1>6, <1>10, <1>11 DEF T, f, L

(* The size in bytes of the samples a sequence of samples offers.          *)
Offered(s) == IF Len(s) > mTsbSize THEN mTsbSize ELSE Len(s)
SizeInBytes(s) ==
  IF s = <<>> THEN 0 ELSE s[Len(s)].bytes - s[Len(s) - Offered(s) + 1].bytes

LEMMA SizeIsCount ==
  ASSUME NEW s \in Seq(Sample), Spaced(s), s # <<>>
  PROVE  SizeInBytes(s) = (Offered(s) - 1) * SamplingRatio
<1> DEFINE g == Offered(s)
           f == Len(s) - g + 1
           L == Len(s)
<1>1. L \in Nat \ {0} /\ mTsbSize \in Nat \ {0} /\ SamplingRatio \in Nat \ {0}
  BY CapacityPositive, IndexerAssumption
<1>2. g \in 1..L
  BY <1>1 DEF Offered
<1>3. f \in 1..L /\ L - f = g - 1
  BY <1>1, <1>2
<1>4. s[f].bytes \in Nat /\ s[L].bytes \in Nat
  <2>1. s[f] \in Sample /\ s[L] \in Sample
    BY <1>1, <1>3
  <2> QED BY <2>1 DEF Sample
<1>5. SizeInBytes(s) = s[L].bytes - s[f].bytes
  BY DEF SizeInBytes
<1> HIDE DEF f, g
<1>6. CASE f < L
  <2>1. s[L].bytes = s[f].bytes + (L - f) * SamplingRatio
    BY <1>1, <1>3, <1>6 DEF Spaced
  <2>2. (L - f) * SamplingRatio \in Int
    BY <1>1, <1>3
  <2> QED BY <2>1, <2>2, <1>3, <1>4, <1>5 DEF g
<1>7. CASE f = L
  <2>1. g - 1 = 0 /\ (g - 1) * SamplingRatio = 0
    BY <1>1, <1>2, <1>3, <1>7
  <2> QED BY <2>1, <1>4, <1>5, <1>7 DEF g
<1> QED BY <1>1, <1>3, <1>6, <1>7

LEMMA SizeGrows ==
  ASSUME NEW s \in Seq(Sample), Spaced(s), NEW r \in Seq(Sample), Spaced(r), Len(s) <= Len(r)
  PROVE  SizeInBytes(s) \in Nat /\ SizeInBytes(r) \in Nat /\ SizeInBytes(s) <= SizeInBytes(r)
<1>1. Len(s) \in Nat /\ Len(r) \in Nat /\ mTsbSize \in Nat \ {0} /\ SamplingRatio \in Nat \ {0}
  BY CapacityPositive, IndexerAssumption
<1>2. ASSUME NEW q \in Seq(Sample), q # <<>> PROVE Offered(q) - 1 \in Nat
  <2>1. Len(q) \in Nat \ {0}
    BY <1>2
  <2> QED BY <2>1, <1>1 DEF Offered
<1>3. ASSUME NEW q \in Seq(Sample), Spaced(q) PROVE SizeInBytes(q) \in Nat
  <2>1. CASE q = <<>>
    BY <2>1 DEF SizeInBytes
  <2>2. CASE q # <<>>
    <3>1. SizeInBytes(q) = (Offered(q) - 1) * SamplingRatio /\ Offered(q) - 1 \in Nat
      BY <1>2, <1>3, <2>2, SizeIsCount
    <3> QED BY <3>1, <1>1
  <2> QED BY <2>1, <2>2
<1>4. SizeInBytes(s) <= SizeInBytes(r)
  <2>1. CASE s = <<>>
    <3>1. SizeInBytes(s) = 0
      BY <2>1 DEF SizeInBytes
    <3> QED BY <3>1, <1>3
  <2>2. CASE s # <<>>
    <3>1. r # <<>>
      BY <2>2
    <3> DEFINE a == Offered(s) - 1
               b == Offered(r) - 1
    <3>2. a \in Nat /\ b \in Nat /\ a <= b
      BY <3>1, <2>2, <1>1, <1>2 DEF Offered
    <3>3. SizeInBytes(s) = a * SamplingRatio /\ SizeInBytes(r) = b * SamplingRatio
      BY <3>1, <2>2, SizeIsCount
    <3> HIDE DEF a, b
    <3>4. (b - a) * SamplingRatio >= 0
      <4>1. b - a \in Nat
        BY <3>2
      <4> QED BY <4>1, <1>1
    <3>5. (b - a) * SamplingRatio = b * SamplingRatio - a * SamplingRatio
          /\ a * SamplingRatio \in Int /\ b * SamplingRatio \in Int
      BY <3>2, <1>1
    <3> QED BY <3>3, <3>4, <3>5
  <2> QED BY <2>1, <2>2
<1> QED BY <1>3, <1>4

LEMMA SizeMeans == getIndexSizeInBytes = SizeInBytes(mBufInd)
BY DEF getIndexSizeInBytes, SizeInBytes, Offered, getFront, back, getFrontIndex, getIndexSize

LEMMA SizeMeansNext == getIndexSizeInBytes' = SizeInBytes(mBufInd')
BY DEF getIndexSizeInBytes, SizeInBytes, Offered, getFront, back, getFrontIndex, getIndexSize

(* A seek inside the index ends at a sample that is offered.               *)
LEMMA FoundInRange ==
  ASSUME IndexInv, mBufInd # <<>>, NEW t \in Nat \ {0}, ~outOfTime(t),
         NEW b \in offsetsForTime(t)
  PROVE  b \in Nat /\ b <= getIndexSizeInBytes
<1> DEFINE i == sampleAfterTime(back.time - t)
<1>1. i \in getFrontIndex + 1 .. Len(mBufInd)
  BY SearchByTime
<1>2. PICK k \in {i - 1, i} : b = back.bytes - mBufInd[k].bytes
  BY DEF offsetsForTime
<1>3. /\ Len(mBufInd) \in Nat \ {0} /\ SamplingRatio \in Nat \ {0}
      /\ getFrontIndex \in 1..Len(mBufInd)
      /\ getFront = mBufInd[getFrontIndex] /\ back = mBufInd[Len(mBufInd)]
      /\ \A j \in 1..Len(mBufInd) : mBufInd[j].bytes \in Nat
  BY IndexShape
<1> HIDE DEF i
<1>4. k \in getFrontIndex .. Len(mBufInd) /\ k \in 1..Len(mBufInd)
      /\ Len(mBufInd) \in 1..Len(mBufInd)
  BY <1>1, <1>2, <1>3
<1>5. mBufInd[getFrontIndex].bytes <= mBufInd[k].bytes
  <2>1. CASE k = getFrontIndex
    BY <2>1, <1>3, <1>4
  <2>2. CASE getFrontIndex < k
    <3>1. mBufInd[getFrontIndex].bytes + SamplingRatio <= mBufInd[k].bytes
      BY <2>2, <1>3, <1>4, SamplesGrow
    <3> QED BY <3>1, <1>3, <1>4
  <2> QED BY <2>1, <2>2, <1>3, <1>4
<1>6. mBufInd[k].bytes <= back.bytes
  <2>1. CASE k = Len(mBufInd)
    BY <2>1, <1>3, <1>4
  <2>2. CASE k < Len(mBufInd)
    <3>1. mBufInd[k].bytes + SamplingRatio <= mBufInd[Len(mBufInd)].bytes
      BY <2>2, <1>3, <1>4, SamplesGrow
    <3> QED BY <3>1, <1>3, <1>4
  <2> QED BY <2>1, <2>2, <1>3, <1>4
<1>7. getIndexSizeInBytes = back.bytes - mBufInd[getFrontIndex].bytes
  BY <1>3 DEF getIndexSizeInBytes
<1>8. back.bytes \in Nat /\ mBufInd[k].bytes \in Nat /\ mBufInd[getFrontIndex].bytes \in Nat
  BY <1>3, <1>4
<1> QED BY <1>2, <1>5, <1>6, <1>7, <1>8

-----------------------------------------------------------------------------
(* The last lookup: an offset remembered since the last clear() still lies *)
(* inside the index, which only grows until the next one.                  *)
MemoInv ==
  /\ clears \in Nat /\ offsetEpoch \in Nat /\ offsetEpoch <= clears
  /\ mLastByteOffsetFromTimeUs[2] \in Nat
  /\ offsetEpoch = clears => mLastByteOffsetFromTimeUs[2] <= getIndexSizeInBytes
  /\ AnswersInRange

LEMMA MemoInit == IndexerInit => MemoInv
BY DEF IndexerInit, MemoInv, AnswersInRange, NoAnswer, getIndexSizeInBytes

LEMMA MemoStep == IndexInv /\ MemoInv /\ [IndexerNext]_indexerVars => MemoInv'
<1> SUFFICES ASSUME IndexInv, MemoInv, [IndexerNext]_indexerVars PROVE MemoInv'
  OBVIOUS
<1>1. IndexInv'
  BY IndexStep
<1>2. /\ mBufInd \in Seq(Sample) /\ Spaced(mBufInd)
      /\ mBufInd' \in Seq(Sample) /\ Spaced(mBufInd')
      /\ Len(mBufInd) \in Nat /\ Len(mBufInd') \in Nat /\ Capacity \in Nat \ {0}
      /\ Len(mBufInd) <= Capacity
  <2>1. mBufInd' \in Seq(Sample) /\ Spaced(mBufInd')
    BY <1>1 DEF IndexInv, IndexTypeOK, SamplesOrdered, Spaced
  <2>2. mBufInd \in Seq(Sample) /\ Spaced(mBufInd) /\ Len(mBufInd) <= Capacity
    BY DEF IndexInv, IndexTypeOK, SamplesOrdered, Spaced
  <2> QED BY <2>1, <2>2, CapacityPositive
<1>3. getIndexSizeInBytes \in Nat
  BY <1>2, SizeGrows, SizeMeans
<1>4. ASSUME NEW d \in TimeSteps, registerBufferCount(d) PROVE MemoInv'
  <2>1. Len(mBufInd) <= Len(mBufInd')
    BY <1>2, <1>4 DEF registerBufferCount, pushBack
  <2>2. getIndexSizeInBytes' \in Nat /\ getIndexSizeInBytes <= getIndexSizeInBytes'
    BY <2>1, <1>2, SizeGrows, SizeMeans, SizeMeansNext
  <2>3. answer'.err = "none" /\ UNCHANGED <<memoVars, clears>>
    BY <1>4 DEF registerBufferCount, NoAnswer
  <2> QED BY <2>2, <2>3, <1>3 DEF MemoInv, AnswersInRange, memoVars
<1>5. CASE clear
  BY <1>5 DEF clear, MemoInv, AnswersInRange, memoVars, NoAnswer
<1>6. ASSUME UNCHANGED indexVars PROVE getIndexSizeInBytes' = getIndexSizeInBytes
  BY <1>6, SizeMeans, SizeMeansNext DEF indexVars
<1>7. ASSUME NEW t \in SeekTimes, getByteOffsetFromTimeUs(t) PROVE MemoInv'
  <2>1. /\ getIndexSizeInBytes' = getIndexSizeInBytes
        /\ clears' = clears /\ mBufInd # <<>> /\ t \in Nat
    BY <1>6, <1>7, IndexerAssumption DEF getByteOffsetFromTimeUs
  <2>2. ASSUME NEW b \in Nat, b <= getIndexSizeInBytes, NEW e, NEW time,
               answerOffset(e, time, b, clears), remember(time, b)
        PROVE  MemoInv'
    BY <2>1, <2>2 DEF answerOffset, remember, MemoInv, AnswersInRange
  <2>3. CASE t = mLastByteOffsetFromTimeUs[1]
    BY <1>7, <2>1, <2>3 DEF getByteOffsetFromTimeUs, answerOffset, MemoInv, AnswersInRange
  <2>4. CASE t # mLastByteOffsetFromTimeUs[1] /\ t = 0
    <3>1. answerOffset("BUF_OK", 0, 0, clears) /\ remember(0, 0)
      BY <1>7, <2>4 DEF getByteOffsetFromTimeUs
    <3> QED BY <3>1, <2>2, <1>3
  <2>5. CASE t # mLastByteOffsetFromTimeUs[1] /\ t # 0 /\ outOfTime(t)
    <3>1. /\ answerOffset("BUF_OUT_OF_RANGE", t, getIndexSizeInBytes, clears)
          /\ remember(t, getIndexSizeInBytes)
      BY <1>7, <2>5 DEF getByteOffsetFromTimeUs
    <3> QED BY <3>1, <2>2, <1>3
  <2>6. CASE t # mLastByteOffsetFromTimeUs[1] /\ t # 0 /\ ~outOfTime(t)
    <3>1. PICK b \in offsetsForTime(t) : answerOffset("BUF_OK", t, b, clears) /\ remember(t, b)
      BY <1>7, <2>6 DEF getByteOffsetFromTimeUs
    <3>2. b \in Nat /\ b <= getIndexSizeInBytes
      BY <2>1, <2>6, FoundInRange
    <3> QED BY <3>1, <3>2, <2>2
  <2> QED BY <2>3, <2>4, <2>5, <2>6
<1>8. ASSUME NEW b \in SeekOffsets, getTimeUsFromByteOffset(b) PROVE MemoInv'
  BY <1>6, <1>8 DEF getTimeUsFromByteOffset, MemoInv, AnswersInRange
<1>9. CASE UNCHANGED indexerVars
  BY <1>6, <1>9 DEF indexerVars, memoVars, MemoInv, AnswersInRange
<1> QED BY <1>4, <1>5, <1>7, <1>8, <1>9 DEF IndexerNext

(* An offset that a seek found in this recording, by a search or from the  *)
(* memo of getByteOffsetFromTimeUs, lies inside what the index offers now, *)
(* for every configuration and every clock.                                *)
THEOREM AnswersStayInRange == IndexerSpec => []AnswersInRange
<1>1. MemoInv => AnswersInRange
  BY DEF MemoInv
<1> QED BY <1>1, MemoInit, MemoStep, IndexInvariant, PTL DEF IndexerSpec

-----------------------------------------------------------------------------
(* The lookups agree.                                                      *)

(* A search by bytes ends at the first sample past the byte.               *)
LEMMA SearchByBytes ==
  ASSUME IndexInv, mBufInd # <<>>, NEW f \in 1..Len(mBufInd), NEW x \in Int,
         NEW i \in f + 1 .. Len(mBufInd),
         mBufInd[i - 1].bytes <= x, x < mBufInd[i].bytes
  PROVE  sampleAfterBytes(f, x) = i
<1> DEFINE L == Len(mBufInd)
           P(n) == mBufInd[n].bytes > x /\ \A j \in f .. n - 1 : mBufInd[j].bytes <= x
<1>1. /\ L \in Nat \ {0} /\ SamplingRatio \in Nat \ {0} /\ f \in 1..L
      /\ \A j \in 1..L : mBufInd[j].bytes \in Nat
  BY IndexShape
<1> HIDE DEF L
<1>2. i \in f..L /\ i \in 1..L /\ i - 1 \in 1..L
  BY <1>1 DEF L
<1>3. ASSUME NEW j \in f .. i - 1 PROVE mBufInd[j].bytes <= x
  <2>1. CASE j = i - 1
    BY <2>1
  <2>2. CASE j # i - 1
    <3>1. j \in 1..L /\ j < i - 1
      BY <2>2, <1>1, <1>2
    <3>2. mBufInd[j].bytes + SamplingRatio <= mBufInd[i - 1].bytes
      BY <3>1, <1>2, SamplesGrow DEF L
    <3>3. mBufInd[j].bytes \in Nat /\ mBufInd[i - 1].bytes \in Nat
      BY <3>1, <1>1, <1>2
    <3>4. PICK m \in Nat, n \in Nat : m = mBufInd[j].bytes /\ n = mBufInd[i - 1].bytes
      BY <3>3
    <3> QED BY <3>2, <3>4, <1>1
  <2> QED BY <2>1, <2>2
<1>4. P(i)
  BY <1>1, <1>2, <1>3
<1>5. ASSUME NEW n \in f..L, P(n) PROVE n = i
  <2>1. n \in 1..L /\ mBufInd[n].bytes > x
    BY <1>1, <1>5
  <2>2. ~(n < i)
    <3> SUFFICES ASSUME n < i PROVE FALSE
      OBVIOUS
    <3>1. n \in f .. i - 1
      BY <2>1, <1>1, <1>2
    <3>2. mBufInd[n].bytes <= x
      BY <3>1, <1>3
    <3> QED BY <3>2, <2>1, <1>1
  <2>3. ~(i < n)
    <3> SUFFICES ASSUME i < n PROVE FALSE
      OBVIOUS
    <3>1. i \in f .. n - 1
      BY <2>1, <1>1, <1>2
    <3>2. mBufInd[i].bytes <= x
      BY <3>1, <1>5
    <3> QED BY <3>2, <1>1, <1>2
  <2> QED BY <2>1, <2>2, <2>3, <1>1, <1>2
<1> HIDE DEF P
<1>6. (CHOOSE n \in f..L : P(n)) = i
  <2>1. PICK c : c = CHOOSE n \in f..L : P(n)
    OBVIOUS
  <2>2. c \in f..L /\ P(c)
    BY <2>1, <1>2, <1>4, Zenon
  <2> QED BY <2>1, <2>2, <1>5, Zenon
<1>7. sampleAfterBytes(f, x) = CHOOSE n \in f..L : P(n)
  BY Zenon DEF sampleAfterBytes, P, L
<1> QED BY <1>6, <1>7, Zenon

(* ... and there is one for every byte inside the index.                   *)
LEMMA SomeSamplePast ==
  ASSUME IndexInv, mBufInd # <<>>, NEW f \in 1..Len(mBufInd), NEW x \in Int,
         mBufInd[f].bytes <= x, x < back.bytes
  PROVE  \E i \in f + 1 .. Len(mBufInd) :
           mBufInd[i - 1].bytes <= x /\ x < mBufInd[i].bytes
<1> DEFINE L == Len(mBufInd)
           S == {i \in f..L : mBufInd[i].bytes > x}
<1>1. /\ L \in Nat \ {0} /\ back = mBufInd[L] /\ f \in 1..L
      /\ \A j \in 1..L : mBufInd[j].bytes \in Nat
  BY IndexShape
<1> HIDE DEF L
<1>2. S \subseteq Nat /\ S # {}
  <2>1. L \in S
    BY <1>1
  <2> QED BY <2>1, <1>1
<1>3. PICK m \in S : \A k \in S : m <= k
  BY <1>2, LeastElement
<1>4. m \in f..L /\ mBufInd[m].bytes > x /\ m # f
  BY <1>3, <1>1
<1>5. m \in f + 1 .. L /\ m - 1 \in f..L /\ m - 1 \in 1..L /\ ~(m <= m - 1)
  BY <1>4, <1>1
<1>6. m - 1 \notin S
  BY <1>3, <1>5
<1>7. mBufInd[m - 1].bytes <= x
  BY <1>1, <1>5, <1>6
<1>8. x < mBufInd[m].bytes
  BY <1>1, <1>4
<1> QED BY <1>5, <1>7, <1>8 DEF L

LEMMA NothingDivided == \A n \in Nat \ {0} : 0 \div n = 0
<1> SUFFICES ASSUME NEW n \in Nat \ {0} PROVE 0 \div n = 0
  OBVIOUS
<1>1. 0 \div n \in Nat /\ n * (0 \div n) <= 0
  BY DivTimes
<1>2. PICK q \in Nat : q = 0 \div n
  BY <1>1
<1>3. q # 0 => n * q >= n
  <2> SUFFICES ASSUME q # 0 PROVE n * q >= n
    OBVIOUS
  <2>1. n * (q - 1) >= 0
    <3>1. q - 1 \in Nat
      OBVIOUS
    <3> QED BY <3>1
  <2> QED BY <2>1
<1> QED BY <1>1, <1>2, <1>3

(* At a sample the interpolation gives the time of the sample.             *)
LEMMA ExactAtSample ==
  ASSUME IndexInv, mBufInd # <<>>, NEW k \in 1..Len(mBufInd), k + 1 \in 1..Len(mBufInd)
  PROVE  interpolate(k + 1, mBufInd[k].bytes) = mBufInd[k].time
<1> DEFINE p == mBufInd[k]
           q == mBufInd[k + 1]
<1>1. p.time \in Nat /\ q.time \in Nat /\ p.bytes \in Nat /\ q.bytes \in Nat
      /\ SamplingRatio \in Nat \ {0} /\ Len(mBufInd) \in Nat
  BY IndexShape
<1>2. p.bytes + SamplingRatio <= q.bytes
  <2>1. k < k + 1
    BY <1>1
  <2> QED BY <2>1, SamplesGrow
<1>3. k + 1 - 1 = k
  BY <1>1
<1>4. interpolate(k + 1, p.bytes)
        = p.time + ((q.time - p.time) * (p.bytes - p.bytes)) \div (q.bytes - p.bytes)
  BY <1>3 DEF interpolate
<1> HIDE DEF p, q
<1>5. (q.time - p.time) * (p.bytes - p.bytes) = 0
  <2>1. p.bytes - p.bytes = 0
    BY <1>1
  <2> QED BY <2>1, <1>1
<1>6. q.bytes - p.bytes \in Nat \ {0}
  BY <1>1, <1>2
<1>7. 0 \div (q.bytes - p.bytes) = 0
  BY <1>6, NothingDivided
<1>8. interpolate(k + 1, p.bytes) = p.time + 0
  BY <1>4, <1>5, <1>7
<1> QED BY <1>8, <1>1 DEF p

(* Between two samples it gives a time.                                    *)
LEMMA InterpolatesTime ==
  ASSUME IndexInv, mBufInd # <<>>, NEW i \in 2..Len(mBufInd), NEW x \in Int
  PROVE  interpolate(i, x) \in Int
<1> DEFINE p == mBufInd[i - 1]
           q == mBufInd[i]
<1>1. Len(mBufInd) \in Nat /\ SamplingRatio \in Nat \ {0}
  BY IndexShape
<1>2. i \in 1..Len(mBufInd) /\ i - 1 \in 1..Len(mBufInd) /\ i - 1 < i
  BY <1>1
<1>3. p.time \in Nat /\ q.time \in Nat /\ p.bytes \in Nat /\ q.bytes \in Nat
  BY <1>2, IndexShape
<1>4. p.bytes + SamplingRatio <= q.bytes
  BY <1>2, SamplesGrow
<1> HIDE DEF p, q
<1>5. q.bytes - p.bytes \in Nat \ {0} /\ (q.time - p.time) * (x - p.bytes) \in Int
  <2>1. \A a, c \in Int : a * c \in Int
    OBVIOUS
  <2>2. q.time - p.time \in Int /\ x - p.bytes \in Int
    BY <1>3
  <2>3. q.bytes - p.bytes \in Nat \ {0}
    BY <1>1, <1>3, <1>4
  <2> QED BY <2>1, <2>2, <2>3
<1>6. ((q.time - p.time) * (x - p.bytes)) \div (q.bytes - p.bytes) \in Int
  BY <1>5
<1> QED BY <1>3, <1>6 DEF interpolate, p, q

(* The offset of sample k is translated back to the time of sample k.      *)
LEMMA BackFromOffset ==
  ASSUME IndexInv, mBufInd # <<>>, NEW k \in getFrontIndex .. Len(mBufInd),
         NEW b, b = back.bytes - mBufInd[k].bytes
  PROVE  (IF b = 0 THEN 0 ELSE timeForOffset(b)) = back.time - mBufInd[k].time
<1> DEFINE L == Len(mBufInd)
           f == getFrontIndex
<1>1. /\ L \in Nat \ {0} /\ back = mBufInd[L] /\ f \in 1..L /\ SamplingRatio \in Nat \ {0}
      /\ \A j \in 1..L : mBufInd[j].bytes \in Nat /\ mBufInd[j].time \in Nat
  BY IndexShape
<1> HIDE DEF f, L
<1>2. k \in 1..L /\ k \in f..L /\ L \in 1..L
  BY <1>1 DEF f, L
<1>3. CASE k = L
  <2>1. b = 0
    BY <1>1, <1>2, <1>3
  <2>2. back.time - mBufInd[k].time = 0
    BY <1>1, <1>2, <1>3
  <2> QED BY <2>1, <2>2
<1>4. CASE k # L
  <2>1. k < L /\ k + 1 \in f + 1 .. L /\ k + 1 \in 1..L /\ k + 1 - 1 = k
    BY <1>1, <1>2, <1>4
  <2> DEFINE x == mBufInd[k].bytes
  <2>2. x + SamplingRatio <= mBufInd[L].bytes /\ x + SamplingRatio <= mBufInd[k + 1].bytes
    BY <2>1, <1>1, <1>2, SamplesGrow DEF L
  <2>3. x \in Nat /\ mBufInd[L].bytes \in Nat /\ mBufInd[k + 1].bytes \in Nat
    BY <2>1, <1>1, <1>2
  <2>4. b # 0 /\ back.bytes - b = x
    <3>1. back.bytes = mBufInd[L].bytes
      BY <1>1
    <3>2. PICK y \in Nat : y = mBufInd[L].bytes
      BY <2>3
    <3> HIDE DEF x
    <3>3. b = y - x /\ back.bytes = y
      BY <3>1, <3>2 DEF x
    <3>4. x + SamplingRatio <= y /\ x \in Nat /\ SamplingRatio \in Nat \ {0}
      BY <3>2, <2>2, <2>3, <1>1
    <3>5. \A m, n \in Nat, r \in Nat \ {0} : m + r <= n => n - m # 0 /\ n - (n - m) = m
      OBVIOUS
    <3>6. y - x # 0 /\ y - (y - x) = x
      BY <3>4, <3>5
    <3> QED BY <3>3, <3>6
  <2>5. sampleAfterBytes(f, x) = k + 1
    <3>1. mBufInd[k + 1 - 1].bytes <= x /\ x < mBufInd[k + 1].bytes /\ x \in Int
      BY <2>1, <2>2, <2>3, <1>1
    <3> QED BY <3>1, <2>1, <1>1, SearchByBytes DEF L
  <2>6. interpolate(k + 1, x) = mBufInd[k].time
    BY <2>1, <1>2, ExactAtSample DEF L
  <2>7. timeForOffset(b) = back.time - interpolate(sampleAfterBytes(f, x), x)
    BY <2>4 DEF timeForOffset, f
  <2> QED BY <2>4, <2>5, <2>6, <2>7
<1> QED BY <1>3, <1>4

LEMMA RoundTrip == IndexInv => SeekRoundTrip
<1> SUFFICES ASSUME IndexInv PROVE SeekRoundTrip
  OBVIOUS
<1> DEFINE L == Len(mBufInd)
           f == getFrontIndex
           Diff(u, t) == IF u > t THEN u - t ELSE t - u
<1>1. ASSUME NEW t \in SeekTimes \ {0}, mBufInd # <<>>, ~outOfTime(t),
             NEW b \in offsetsForTime(t)
      PROVE  gapOfAtLeast(Diff(IF b = 0 THEN 0 ELSE timeForOffset(b), t))
  <2>1. t \in Nat \ {0}
    BY IndexerAssumption
  <2>2. PICK i : i = sampleAfterTime(back.time - t)
    OBVIOUS
  <2>3. /\ i \in f + 1 .. L
        /\ mBufInd[i - 1].time <= back.time - t
        /\ mBufInd[i].time > back.time - t
    BY <1>1, <2>1, <2>2, SearchByTime
  <2>4. PICK k \in {i - 1, i} : b = back.bytes - mBufInd[k].bytes
    BY <2>2 DEF offsetsForTime
  <2>5. /\ L \in Nat \ {0} /\ f \in 1..L /\ back = mBufInd[L]
        /\ \A j \in 1..L : mBufInd[j].time \in Nat
    BY <1>1, IndexShape
  <2> HIDE DEF L, f
  <2>6. k \in f .. L /\ k \in 1..L /\ i \in 2..L /\ i \in 1..L /\ i - 1 \in 1..L /\ L \in 1..L
    BY <2>3, <2>4, <2>5
  <2>7. (IF b = 0 THEN 0 ELSE timeForOffset(b)) = back.time - mBufInd[k].time
    BY <1>1, <2>4, <2>6, BackFromOffset DEF f, L
  <2>8. back.time \in Nat /\ mBufInd[i].time \in Nat /\ mBufInd[i - 1].time \in Nat
    BY <2>5, <2>6
  <2>9. mBufInd[i].time - mBufInd[i - 1].time >= Diff(back.time - mBufInd[k].time, t)
    <3>1. CASE k = i - 1
      BY <3>1, <2>1, <2>3, <2>8
    <3>2. CASE k = i
      BY <3>2, <2>1, <2>3, <2>8
    <3> QED BY <3>1, <3>2, <2>4
  <2> QED BY <2>6, <2>7, <2>9 DEF gapOfAtLeast, L
<1>2. ASSUME NEW b \in 1..getIndexSizeInBytes
      PROVE  getTimestampUsForByteIndex(back.bytes - b) = back.time - timeForOffset(b)
  <2>1. mBufInd # <<>>
    BY <1>2 DEF getIndexSizeInBytes
  <2>2. /\ L \in Nat \ {0} /\ f \in 1..L /\ back = mBufInd[L] /\ getFront = mBufInd[f]
        /\ SamplingRatio \in Nat \ {0}
        /\ \A j \in 1..L : mBufInd[j].time \in Nat /\ mBufInd[j].bytes \in Nat
    BY <2>1, IndexShape
  <2>3. PICK x : x = back.bytes - b
    OBVIOUS
  <2>4. getIndexSizeInBytes = back.bytes - getFront.bytes
    BY <2>1 DEF getIndexSizeInBytes
  <2> HIDE DEF L, f
  <2>5. 1 \in 1..L /\ L \in 1..L
    BY <2>2
  <2>6. x \in Int /\ mBufInd[f].bytes <= x /\ x < back.bytes /\ back.bytes - b = x
    BY <1>2, <2>2, <2>3, <2>4, <2>5
  <2>7. PICK i \in f + 1 .. L : mBufInd[i - 1].bytes <= x /\ x < mBufInd[i].bytes
    BY <2>1, <2>2, <2>6, SomeSamplePast DEF L
  <2>8. i \in 1 + 1 .. L /\ i \in 2..L /\ i \in 1..L /\ i - 1 \in 1..L
    BY <2>2, <2>7
  <2>9. sampleAfterBytes(f, x) = i /\ sampleAfterBytes(1, x) = i
    BY <2>1, <2>2, <2>5, <2>6, <2>7, <2>8, SearchByBytes DEF L
  <2>10. interpolate(i, x) \in Int /\ back.time \in Nat
    BY <2>1, <2>2, <2>5, <2>6, <2>8, InterpolatesTime DEF L
  <2>11. timeForOffset(b) = back.time - interpolate(i, x)
    BY <2>6, <2>9 DEF timeForOffset, f
  <2>12. back.time - timeForOffset(b) = interpolate(i, x)
    BY <2>10, <2>11
  <2>13. CASE mBufInd[1].bytes >= x
    <3>1. i - 1 = 1 /\ mBufInd[1].bytes = x
      <4>1. mBufInd[1].bytes \in Nat /\ mBufInd[i - 1].bytes \in Nat
        BY <2>2, <2>5, <2>8
      <4>2. CASE 1 < i - 1
        <5>1. mBufInd[1].bytes + SamplingRatio <= mBufInd[i - 1].bytes
          BY <4>2, <2>5, <2>8, SamplesGrow DEF L
        <5> QED BY <5>1, <4>1, <2>2, <2>6, <2>7, <2>13
      <4>3. CASE 1 = i - 1
        BY <4>1, <4>3, <2>6, <2>7, <2>13
      <4> QED BY <4>2, <4>3, <2>2, <2>8
    <3>2. i = 1 + 1
      BY <3>1, <2>2, <2>8
    <3>3. interpolate(i, x) = mBufInd[1].time
      BY <3>1, <3>2, <2>1, <2>5, <2>8, ExactAtSample DEF L
    <3>4. getTimestampUsForByteIndex(x) = mBufInd[1].time
      BY <2>13 DEF getTimestampUsForByteIndex
    <3> QED BY <3>3, <3>4, <2>6, <2>12
  <2>14. CASE ~(mBufInd[1].bytes >= x)
    <3>1. ~(back.bytes <= x)
      BY <2>2, <2>5, <2>6
    <3>2. getTimestampUsForByteIndex(x) = interpolate(i, x)
      BY <3>1, <2>9, <2>14 DEF getTimestampUsForByteIndex
    <3> QED BY <3>2, <2>6, <2>12
  <2> QED BY <2>13, <2>14
<1> QED BY <1>1, <1>2, Zenon DEF SeekRoundTrip

(* Translating a seek time to bytes and back errs by no more than the      *)
(* distance of two samples, and getTimestampUsForByteIndex, which searches *)
(* the tail too, agrees with getTimeUsFromByteOffset inside the index: for *)
(* every spacing of the samples in time.                                   *)
THEOREM SeeksTranslateBack == IndexerSpec => []SeekRoundTrip
BY RoundTrip, IndexInvariant, PTL

-----------------------------------------------------------------------------
(* The watchdog.  While it runs a start() is unanswered; the expiry        *)
(* answers it and stops the watchdog in one step.                          *)
ArmedInv == (~mStop => armed) /\ (thread = "expire" => armed)

(* The wait is not longer than the time since the last restart(), which    *)
(* either leaves mNotified set or comes before the wait.                   *)
QuietInv ==
  /\ elapsed \in 0..Timeout /\ quiet \in 0..Timeout
  /\ thread # "timed" => elapsed = 0
  /\ ~mNotified => elapsed <= quiet

LEMMA WatchdogStep ==
  ASSUME ArmedInv, QuietInv, WatchdogNext
  PROVE  ArmedInv' /\ QuietInv'
<1>1. CASE threadLoop
  <2>1. CASE testStart \/ park \/ loop
    BY <2>1, WatchdogAssumption
       DEF testStart, park, loop, at, ghostVars, waitVars, ArmedInv, QuietInv
  <2>2. CASE timedNotified \/ timedOut
    BY <2>2, WatchdogAssumption
       DEF timedNotified, timedOut, at, ghostVars, waitVars, ArmedInv, QuietInv
  <2>3. CASE woke
    BY <2>3, WatchdogAssumption DEF woke, at, ghostVars, waitVars, ArmedInv, QuietInv
  <2>4. CASE decide
    BY <2>4, WatchdogAssumption DEF decide, at, ghostVars, waitVars, ArmedInv, QuietInv
  <2>5. CASE expire \/ callback
    BY <2>5, WatchdogAssumption DEF expire, callback, at, ghostVars, waitVars, ArmedInv, QuietInv
  <2> QED BY <1>1, <2>1, <2>2, <2>3, <2>4, <2>5 DEF threadLoop
<1>2. CASE readData
  BY <1>2, WatchdogAssumption DEF readData, notify, waitVars, ArmedInv, QuietInv
<1>3. CASE restart
  BY <1>3, WatchdogAssumption DEF restart, move, notify, waitVars, ArmedInv, QuietInv
<1>4. ASSUME NEW c \in Callers, start(c)
      PROVE  ArmedInv' /\ QuietInv'
  <2>1. CASE startTest(c)
    BY <2>1 DEF startTest, move, waitVars, ghostVars, ArmedInv, QuietInv
  <2>2. CASE startSet(c)
    BY <2>2 DEF startSet, move, waitVars, ArmedInv, QuietInv
  <2>3. CASE startNotify(c)
    BY <2>3 DEF startNotify, move, notify, waitVars, ghostVars, ArmedInv, QuietInv
  <2> QED BY <1>4, <2>1, <2>2, <2>3 DEF start
<1>5. CASE stop \/ clearWatchdog
  BY <1>5 DEF stop, clearWatchdog, move, waitVars, ghostVars, ArmedInv, QuietInv
<1>6. CASE play \/ pause \/ setSeekTime \/ onEndOfStream \/ post \/ posted
  BY <1>6 DEF play, pause, setSeekTime, onEndOfStream, post, posted, move, waitVars, ghostVars,
              ArmedInv, QuietInv
<1>7. CASE unpause \/ playing \/ paused \/ reset
  BY <1>7 DEF unpause, playing, paused, reset, move, waitVars, ghostVars, ArmedInv, QuietInv
<1>8. CASE tick
  <2>1. UNCHANGED <<mStop, mNotified, thread, armed>>
    BY <1>8 DEF tick
  <2>2. CASE thread = "timed"
    BY <1>8, <2>1, <2>2, WatchdogAssumption DEF tick, upTo, ArmedInv, QuietInv
  <2>3. CASE thread # "timed"
    BY <1>8, <2>1, <2>3, WatchdogAssumption DEF tick, upTo, ArmedInv, QuietInv
  <2> QED BY <2>2, <2>3
<1> QED BY <1>1, <1>2, <1>3, <1>4, <1>5, <1>6, <1>7, <1>8
        DEF WatchdogNext, clientStep, posterStep, Callers

LEMMA WatchdogInvariant == WatchdogSpec => [](ArmedInv /\ QuietInv)
<1>1. WatchdogInit => ArmedInv /\ QuietInv
  BY WatchdogAssumption DEF WatchdogInit, ArmedInv, QuietInv
<1>2. ArmedInv /\ QuietInv /\ [WatchdogNext]_watchdogVars => (ArmedInv /\ QuietInv)'
  <2>1. ArmedInv /\ QuietInv /\ UNCHANGED watchdogVars => (ArmedInv /\ QuietInv)'
    BY DEF watchdogVars, waitVars, ghostVars, ArmedInv, QuietInv
  <2> QED BY <2>1, WatchdogStep
<1> QED BY <1>1, <1>2, PTL DEF WatchdogSpec

(* One start(), at most one expiry (TimeoutWatchdog::threadLoop), however  *)
(* the steps of the callers fall between those of the loop.                *)
THEOREM ExpiresOncePerStart == WatchdogSpec => []OneExpiryPerStart
<1>1. ArmedInv => OneExpiryPerStart
  BY DEF ArmedInv, OneExpiryPerStart
<1> QED BY <1>1, WatchdogInvariant, PTL

(* The timed wait runs out only after Timeout without a restart(), for     *)
(* every Timeout and wherever in the loop the last one came.               *)
THEOREM ReadsPostponeExpiry == WatchdogSpec => TimeoutOnlyAfterQuiet
<1>1. QuietInv => (timedOut /\ ~status' => quiet = Timeout)
  BY WatchdogAssumption DEF QuietInv, timedOut
<1>2. QuietInv => [timedOut /\ ~status' => quiet = Timeout]_watchdogVars
  BY <1>1
<1> QED BY <1>2, WatchdogInvariant, PTL DEF TimeoutOnlyAfterQuiet

=============================================================================
