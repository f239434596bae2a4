-------------------------- MODULE RtpSessionProofs --------------------------
(***************************************************************************)
(* Proofs about RtpStreamListener, for every size of the cache, every      *)
(* range of sequence numbers and whatever the network delivers: the        *)
(* process never aborts on a full cache, no packet is lost or duplicated   *)
(* and none is left behind whose turn has come.  Then proofs about         *)
(* RtpSession, for every length of the stream and every disorder the cache *)
(* is made for: the stream is handed on in order and only what the network *)
(* lost is skipped.                                                        *)
(***************************************************************************)
EXTENDS RtpSession, SequenceTheorems, FiniteSetTheorems, TLAPS

-----------------------------------------------------------------------------
(* Lemmas about the arithmetic of sequence numbers.                        *)

(* The number d after s, written without the modulo.                       *)
Ahead(s, d) == IF s + d < Modulus THEN s + d ELSE s + d - Modulus

(* The number after a sequence number is a sequence number.                *)
LEMMA FollowingType ==
  ASSUME NEW s \in SeqNum
  PROVE  following(s) \in SeqNum /\ following(s) = Ahead(s, 1)
<1>1. Modulus \in Nat /\ Modulus >= 2 /\ s \in 0 .. Modulus - 1
  BY RtpAssumption DEF SeqNum
<1>2. CASE s + 1 = Modulus
  <2>1. (s + 1) % Modulus = 0
    BY <1>1, <1>2
  <2>2. QED
    BY <1>1, <1>2, <2>1 DEF following, Ahead, SeqNum
<1>3. CASE s + 1 < Modulus
  <2>1. (s + 1) % Modulus = s + 1
    BY <1>1, <1>3
  <2>2. QED
    BY <1>1, <1>3, <2>1 DEF following, Ahead, SeqNum
<1>4. QED
  BY <1>1, <1>2, <1>3

(* diffSequenceNumber tells newer from older across the wrap-around: of    *)
(* two numbers less than half the range apart, the later one is positive   *)
(* against the earlier and the earlier one negative against the later, so  *)
(* the cache is searched and filled in the order of the stream.            *)
THEOREM DiffSign ==
  ASSUME NEW s \in SeqNum, NEW d \in 1 .. Mid - 1
  PROVE  /\ diffSequenceNumber(Ahead(s, d), s) > 0
         /\ diffSequenceNumber(s, Ahead(s, d)) < 0
<1>1. /\ Modulus \in Nat /\ Modulus >= 2 /\ s \in 0 .. Modulus - 1
      /\ Mid \in Nat /\ 2 * Mid <= Modulus /\ Modulus < 2 * Mid + 2
  BY RtpAssumption DEF SeqNum, Mid
<1>2. QED
  BY <1>1 DEF diffSequenceNumber, Ahead

(* For a packet ahead of the expected one the magnitude is exact, also     *)
(* across the wrap-around: only a gap of more than MaxDiff packets is      *)
(* taken for a discontinuity.  (For a packet behind it the magnitude is    *)
(* exact only when no wrap-around lies between them.)                      *)
THEOREM DiffOfGap ==
  ASSUME NEW s \in SeqNum, NEW d \in 1 .. Mid - 1
  PROVE  Abs(diffSequenceNumber(s, Ahead(s, d))) = d
<1>1. /\ Modulus \in Nat /\ Modulus >= 2 /\ s \in 0 .. Modulus - 1
      /\ Mid \in Nat /\ 2 * Mid <= Modulus /\ Modulus < 2 * Mid + 2
  BY RtpAssumption DEF SeqNum, Mid
<1>2. QED
  BY <1>1 DEF diffSequenceNumber, Ahead, Abs

-----------------------------------------------------------------------------
(* Lemmas about the cache.                                                 *)

(* Inserting one packet.                                                   *)
LEMMA InsertFacts ==
  ASSUME NEW S, NEW s \in Seq(S), NEW p \in S, NEW i \in 1 .. Len(s) + 1
  PROVE  Insert(s, i, p) \in Seq(S) /\ Len(Insert(s, i, p)) = Len(s) + 1
<1> DEFINE l == SubSeq(s, 1, i - 1)
           r == SubSeq(s, i, Len(s))
<1>1. Len(s) \in Nat /\ \A j \in 1..Len(s) : s[j] \in S
  BY LenProperties, ElementOfSeq
<1>2. l \in Seq(S) /\ Len(l) = i - 1
  BY <1>1, SubSeqProperties
<1>3. r \in Seq(S) /\ Len(r) = Len(s) - i + 1
  BY <1>1, SubSeqProperties
<1> HIDE DEF l, r
<1> DEFINE lp == l \o <<p>>
<1>4. lp \in Seq(S) /\ Len(lp) = i
  BY <1>1, <1>2, ConcatProperties
<1> HIDE DEF lp
<1>5. lp \o r \in Seq(S) /\ Len(lp \o r) = Len(lp) + Len(r)
  BY <1>3, <1>4, ConcatProperties, Zenon
<1>6. Len(lp) + Len(r) = Len(s) + 1
  BY <1>1, <1>3, <1>4
<1>7. QED
  BY <1>5, <1>6 DEF Insert, lp, l, r

(* Erasing one packet.                                                     *)
LEMMA EraseFacts ==
  ASSUME NEW S, NEW s \in Seq(S), NEW i \in 1 .. Len(s)
  PROVE  Erase(s, i) \in Seq(S) /\ Len(Erase(s, i)) = Len(s) - 1
<1> DEFINE l == SubSeq(s, 1, i - 1)
           r == SubSeq(s, i + 1, Len(s))
<1>1. Len(s) \in Nat /\ \A j \in 1..Len(s) : s[j] \in S
  BY LenProperties, ElementOfSeq
<1>2. l \in Seq(S) /\ Len(l) = i - 1
  BY <1>1, SubSeqProperties
<1>3. r \in Seq(S) /\ Len(r) = Len(s) - i
  BY <1>1, SubSeqProperties
<1> HIDE DEF l, r
<1>4. l \o r \in Seq(S) /\ Len(l \o r) = Len(s) - 1
  <2>1. l \o r \in Seq(S) /\ Len(l \o r) = Len(l) + Len(r)
    BY <1>2, <1>3, ConcatProperties, Zenon
  <2>2. QED
    BY <1>1, <1>2, <1>3, <2>1
<1>5. QED
  BY <1>4 DEF Erase, l, r

-----------------------------------------------------------------------------
(* The inductive invariant.  That the cache has room between packets       *)
(* depends on processCachedBuffers not returning while it is full, and     *)
(* that nothing is overdue on what a pass over the cache has established:  *)
(* unless it pushed something, no packet before the iterator is expected.  *)
Scanned ==
  pc = "scan" =>
    /\ mNextSequenceNumber # -1
    /\ it <= Len(mBufferCache) + 1
    /\ ~pushed => \A i \in 1 .. it - 1 : mBufferCache[i].seq # mNextSequenceNumber

RtpIInv ==
  /\ RtpTypeOK
  /\ NeverAborts
  /\ Len(mBufferCache) <= MaxCache
  /\ NothingDropped
  /\ NothingOverdue
  /\ Scanned

(* A new listener has an empty cache and expects any packet.               *)
LEMMA RtpInitIInv == Init => RtpIInv
<1> SUFFICES ASSUME Init PROVE RtpIInv
  OBVIOUS
<1>1. RtpTypeOK
  <2>1. pushed \in BOOLEAN
    BY Zenon DEF Init
  <2>2. QED
    BY <2>1, RtpAssumption DEF Init, RtpTypeOK
<1>2. QED
  BY <1>1, RtpAssumption DEF Init, RtpIInv, NeverAborts, NothingDropped, NothingOverdue, Scanned

(* What a received packet does to the parts of the invariant.              *)
Received ==
  /\ receive
  /\ pc' \in {"scan", "recv"} /\ it' = 1 /\ pushed' = FALSE
  /\ mNextSequenceNumber' \in SeqNum
  /\ mBufferCache' \in Seq(Packet) /\ Len(mBufferCache') <= MaxCache
  /\ out' \in Seq(Packet)
  /\ Len(out') + Len(mBufferCache') = Len(out) + Len(mBufferCache) + 1
  /\ pc' = "recv" => /\ Len(mBufferCache') <= 1
                     /\ \A i \in 1..Len(mBufferCache') :
                          mBufferCache'[i].seq # mNextSequenceNumber'

(* ... and that this keeps it.                                             *)
LEMMA ReceivedKeepsRtp == RtpIInv /\ Received /\ UNCHANGED charIsSigned => RtpIInv'
<1> SUFFICES ASSUME RtpIInv, Received, UNCHANGED charIsSigned PROVE RtpIInv'
  OBVIOUS
<1>1. Len(mBufferCache) \in Nat /\ Len(out) \in Nat /\ Len(mBufferCache') \in Nat
  BY LenProperties DEF RtpIInv, RtpTypeOK, Received
<1>2. arrivals' = arrivals + 1 /\ arrivals' \in 0..MaxArrivals
  BY RtpAssumption DEF receive, RtpIInv, RtpTypeOK, Received
<1>3. RtpTypeOK'
  <2>1. pushed' \in BOOLEAN
    BY Zenon DEF Received
  <2>2. QED
    BY <1>2, <2>1 DEF RtpIInv, RtpTypeOK, Received
<1>4. NeverAborts'
  BY <1>1, RtpAssumption DEF NeverAborts, Received
<1>5. NothingDropped'
  BY <1>1, <1>2 DEF RtpIInv, NothingDropped, RtpTypeOK, Received
<1>6. NothingOverdue'
  BY DEF NothingOverdue, Received
<1>7. Scanned'
  BY <1>1, RtpAssumption DEF Scanned, SeqNum, Received
<1>8. Len(mBufferCache') <= MaxCache
  BY DEF Received
<1>9. QED
  BY <1>3, <1>4, <1>5, <1>6, <1>7, <1>8 DEF RtpIInv

(* Each way a decoded packet is handled keeps the invariant.               *)
LEMMA PacketKeepsRtp ==
  ASSUME RtpIInv, NEW p \in Packet, sequence(p), UNCHANGED charIsSigned
  PROVE  RtpIInv'
<1>1. /\ p.seq \in SeqNum /\ following(p.seq) \in SeqNum
      /\ mBufferCache \in Seq(Packet) /\ Len(mBufferCache) \in Nat
      /\ out \in Seq(Packet) /\ Len(out) \in Nat
      /\ Len(mBufferCache) <= MaxCache
  BY FollowingType, LenProperties DEF Packet, RtpIInv, RtpTypeOK
<1>2. mBufferCache = <<>> => Len(mBufferCache) = 0
  OBVIOUS
<1>3. CASE inOrder(p)
  <2>1. /\ receive
        /\ pc' = (IF mBufferCache # <<>> THEN "scan" ELSE "recv") /\ it' = 1 /\ pushed' = FALSE
        /\ mNextSequenceNumber' \in SeqNum /\ mBufferCache' = mBufferCache
        /\ out' = Append(out, p)
    BY <1>1, <1>3 DEF inOrder, thenScan
  <2>2. out' \in Seq(Packet) /\ Len(out') = Len(out) + 1
    BY <1>1, <2>1
  <2>3. QED
    BY <1>1, <1>2, <2>1, <2>2, RtpAssumption, ReceivedKeepsRtp DEF Received
<1>4. CASE discontinuity(p)
  <2>1. /\ receive /\ pc' = "recv" /\ it' = 1 /\ pushed' = FALSE
        /\ mNextSequenceNumber' \in SeqNum /\ mBufferCache' = <<>>
        /\ out' = (out \o mBufferCache) \o <<p>>
    BY <1>1, <1>4 DEF discontinuity, thenScan
  <2>2. /\ out \o mBufferCache \in Seq(Packet)
        /\ Len(out \o mBufferCache) = Len(out) + Len(mBufferCache)
    BY <1>1, ConcatProperties
  <2>3. <<p>> \in Seq(Packet) /\ Len(<<p>>) = 1
    OBVIOUS
  <2>4. out' \in Seq(Packet) /\ Len(out') = Len(out \o mBufferCache) + Len(<<p>>)
    <3>1. \A t, u \in Seq(Packet) : t \o u \in Seq(Packet) /\ Len(t \o u) = Len(t) + Len(u)
      BY ConcatProperties, Zenon
    <3> DEFINE t == out \o mBufferCache
               u == <<p>>
    <3> HIDE DEF t, u
    <3>2. t \o u \in Seq(Packet) /\ Len(t \o u) = Len(t) + Len(u)
      BY <2>2, <2>3, <3>1 DEF t, u
    <3>3. QED
      BY <2>1, <3>2 DEF t, u
  <2>5. mBufferCache' \in Seq(Packet) /\ Len(mBufferCache') = 0
    BY <2>1
  <2>6. QED
    BY <1>1, <2>1, <2>2, <2>3, <2>4, <2>5, RtpAssumption, ReceivedKeepsRtp DEF Received
<1>5. CASE cachePacket(p)
  <2>1. /\ receive /\ Len(mBufferCache) < MaxCache
        /\ pc' = (IF mBufferCache # <<>> THEN "scan" ELSE "recv") /\ it' = 1 /\ pushed' = FALSE
        /\ mNextSequenceNumber # p.seq /\ mNextSequenceNumber' = mNextSequenceNumber
        /\ mNextSequenceNumber \in SeqNum
        /\ out' = out
    BY <1>5 DEF cachePacket, receive, thenScan, RtpIInv, RtpTypeOK, NeverAborts
  <2>2. PICK i \in 1 .. Len(mBufferCache) + 1 : mBufferCache' = Insert(mBufferCache, i, p)
    BY <1>5, <2>1 DEF cachePacket
  <2>3. mBufferCache' \in Seq(Packet) /\ Len(mBufferCache') = Len(mBufferCache) + 1
    BY <1>1, <2>2, InsertFacts
  <2>4. ASSUME mBufferCache = <<>>
        PROVE  /\ Len(mBufferCache') <= 1
               /\ \A k \in 1..Len(mBufferCache') : mBufferCache'[k].seq # mNextSequenceNumber'
    <3>1. i = 1 /\ mBufferCache' = Insert(<<>>, 1, p)
      BY <2>2, <2>4
    <3>2. SubSeq(<<>>, 1, 0) = <<>> /\ Len(<<>>) = 0
      BY SubSeqEmpty
    <3>3. mBufferCache' = (<<>> \o <<p>>) \o <<>>
      <4>1. Insert(<<>>, 1, p) = (SubSeq(<<>>, 1, 0) \o <<p>>) \o SubSeq(<<>>, 1, Len(<<>>))
        BY 1 - 1 = 0 DEF Insert
      <4>2. QED
        BY <3>1, <3>2, <4>1, Zenon
    <3>4. mBufferCache' = <<p>>
      BY <3>3, ConcatEmptySeq
    <3>5. QED
      BY <2>1, <3>4
  <2>5. QED
    BY <1>1, <2>1, <2>3, <2>4, RtpAssumption, ReceivedKeepsRtp DEF Received
<1>6. QED
  BY <1>3, <1>4, <1>5 DEF sequence

(* A packet from the wire is a packet once its number is decoded; where    *)
(* char is unsigned it is the same packet.                                 *)
LEMMA DecodedPacket ==
  ASSUME NEW p \in Packet
  PROVE  /\ [p EXCEPT !.seq = decode(p.seq)] \in Packet
         /\ ~charIsSigned => [p EXCEPT !.seq = decode(p.seq)] = p
<1>1. p.seq \in SeqNum
  BY DEF Packet
<1>2. decode(p.seq) \in SeqNum
  <2>1. p.seq \in 0 .. Modulus - 1 /\ Modulus \in Nat /\ ByteRange \in Nat \ {0} /\ ByteRange <= Modulus
    BY <1>1, RtpAssumption DEF SeqNum
  <2>2. p.seq % ByteRange \in 0 .. ByteRange - 1
    BY <2>1
  <2> QED BY <1>1, <2>1, <2>2 DEF decode, SeqNum
<1>3. ~charIsSigned => decode(p.seq) = p.seq
  BY DEF decode
<1> QED BY <1>2, <1>3 DEF Packet

(* Each turn of processCachedBuffers keeps the invariant.                  *)
LEMMA ScanKeepsRtp ==
  RtpIInv /\ processCachedBuffers /\ UNCHANGED charIsSigned => RtpIInv'
<1> SUFFICES ASSUME RtpIInv, processCachedBuffers, UNCHANGED charIsSigned PROVE RtpIInv'
  OBVIOUS
<1>1. /\ mBufferCache \in Seq(Packet) /\ Len(mBufferCache) \in Nat
      /\ out \in Seq(Packet) /\ Len(out) \in Nat
      /\ it \in Nat \ {0} /\ MaxCache \in Nat
      /\ pc = "scan" /\ arrivals' = arrivals
  BY LenProperties, RtpAssumption DEF RtpIInv, RtpTypeOK, processCachedBuffers, scanPush, scanSkip,
     scanAgain, giveUpMissing, scanEnd, scanning, passDone
<1>2. /\ mNextSequenceNumber \in SeqNum /\ following(mNextSequenceNumber) \in SeqNum
      /\ following(mNextSequenceNumber) # -1
  BY <1>1, FollowingType DEF RtpIInv, RtpTypeOK, Scanned, SeqNum
<1>3. CASE scanPush
  <2> DEFINE q == mBufferCache[it]
  <2>1. it \in 1..Len(mBufferCache) /\ q \in Packet /\ q.seq = mNextSequenceNumber
    BY <1>1, <1>3, ElementOfSeq DEF scanPush, scanning
  <2>2. /\ out' = Append(out, q) /\ mNextSequenceNumber' = following(mNextSequenceNumber)
        /\ mBufferCache' = Erase(mBufferCache, it) /\ pushed' = TRUE
        /\ pc' = "scan" /\ it' = it
    BY <1>1, <1>3, <2>1 DEF scanPush
  <2> HIDE DEF q
  <2>3. out' \in Seq(Packet) /\ Len(out') = Len(out) + 1
    BY <1>1, <2>1, <2>2
  <2>4. mBufferCache' \in Seq(Packet) /\ Len(mBufferCache') = Len(mBufferCache) - 1
    BY <1>1, <2>1, <2>2, EraseFacts
  <2>5. RtpTypeOK'
    <3>1. pushed' \in BOOLEAN
      BY <2>2, Zenon
    <3>2. QED
      BY <1>1, <1>2, <2>2, <2>3, <2>4, <3>1 DEF RtpIInv, RtpTypeOK
  <2>6. NothingDropped'
    BY <1>1, <2>3, <2>4 DEF RtpIInv, NothingDropped
  <2>7. NeverAborts' /\ NothingOverdue' /\ Len(mBufferCache') <= MaxCache
    BY <1>1, <2>2, <2>4 DEF RtpIInv, NeverAborts, NothingOverdue
  <2>8. Scanned'
    BY <1>1, <1>2, <2>1, <2>2, <2>4 DEF Scanned
  <2>9. QED
    BY <2>5, <2>6, <2>7, <2>8 DEF RtpIInv
<1>4. CASE scanSkip
  <2>1. /\ it' = it + 1 /\ it <= Len(mBufferCache)
        /\ mBufferCache[it].seq # mNextSequenceNumber
        /\ UNCHANGED <<mNextSequenceNumber, mBufferCache, out, pc, pushed>>
    BY <1>4 DEF scanSkip, scanning
  <2>2. Scanned'
    <3>1. \A i \in 1 .. it' - 1 : i \in 1 .. it - 1 \/ i = it
      BY <1>1, <2>1
    <3>2. QED
      BY <1>1, <2>1, <3>1 DEF RtpIInv, Scanned
  <2>3. QED
    BY <1>1, <2>1, <2>2 DEF RtpIInv, RtpTypeOK, NeverAborts, NothingDropped, NothingOverdue
<1>5. CASE scanAgain \/ giveUpMissing
  <2>1. /\ it' = 1 /\ pushed' = FALSE
        /\ mNextSequenceNumber' \in SeqNum /\ mNextSequenceNumber' # -1
        /\ UNCHANGED <<mBufferCache, out, pc>>
    BY <1>1, <1>2, <1>5 DEF scanAgain, giveUpMissing, RtpIInv, Scanned
  <2>2. pushed' \in BOOLEAN
    BY <2>1, Zenon
  <2>3. QED
    BY <1>1, <2>1, <2>2 DEF RtpIInv, RtpTypeOK, NeverAborts, NothingDropped, NothingOverdue, Scanned
<1>6. CASE scanEnd
  <2>1. /\ it > Len(mBufferCache) /\ Len(mBufferCache) # MaxCache
        /\ mBufferCache = <<>> \/ ~pushed
        /\ pc' = "recv" /\ it' = 1 /\ pushed' = FALSE
        /\ UNCHANGED <<mNextSequenceNumber, mBufferCache, out>>
    BY <1>6 DEF scanEnd, passDone
  <2>2. \A i \in 1..Len(mBufferCache) : mBufferCache[i].seq # mNextSequenceNumber
    <3>1. CASE mBufferCache = <<>>
      BY <3>1
    <3>2. CASE ~pushed
      BY <1>1, <2>1, <3>2 DEF RtpIInv, Scanned
    <3>3. QED
      BY <2>1, <3>1, <3>2
  <2>3. pushed' \in BOOLEAN
    BY <2>1, Zenon
  <2>4. QED
    BY <1>1, <2>1, <2>2, <2>3 DEF RtpIInv, RtpTypeOK, NeverAborts, NothingDropped, NothingOverdue,
       Scanned
<1>7. QED
  BY <1>3, <1>4, <1>5, <1>6 DEF processCachedBuffers

(* Every step of the listener keeps the invariant.                         *)
LEMMA RtpNextIInv == RtpIInv /\ [Next]_<<rtpVars, charIsSigned>> => RtpIInv'
<1> SUFFICES ASSUME RtpIInv, [Next]_<<rtpVars, charIsSigned>> PROVE RtpIInv'
  OBVIOUS
<1>1. CASE processCachedBuffers /\ UNCHANGED charIsSigned
  BY <1>1, ScanKeepsRtp
<1>2. ASSUME NEW p \in Packet, processRtpPacket(p), UNCHANGED charIsSigned
      PROVE  RtpIInv'
  BY <1>2, DecodedPacket, PacketKeepsRtp DEF processRtpPacket
<1>3. CASE UNCHANGED <<rtpVars, charIsSigned>>
  BY <1>3 DEF rtpVars, RtpIInv, RtpTypeOK, NeverAborts, NothingDropped, NothingOverdue, Scanned
<1>4. QED
  BY <1>1, <1>2, <1>3 DEF Next

(* The invariant holds in every reachable state.                           *)
THEOREM RtpInvariance == Spec => []RtpIInv
<1>1. QED
  BY RtpInitIInv, RtpNextIInv, PTL DEF Spec

(* processRtpPacket and processCachedBuffers keep every variable in its    *)
(* type: the expected number stays a 16-bit number.                        *)
THEOREM RtpTypeCorrect == Spec => []RtpTypeOK
<1>1. RtpIInv => RtpTypeOK
  BY DEF RtpIInv
<1>2. QED
  BY RtpInvariance, <1>1, PTL

(* The abort() of processRtpPacket on a full cache is dead code, for every *)
(* cache of two or more packets and every order of arrival.                *)
THEOREM RtpNeverAborts == Spec => []NeverAborts
<1>1. RtpIInv => NeverAborts
  BY DEF RtpIInv
<1>2. QED
  BY RtpInvariance, <1>1, PTL

(* Every packet processed is handed on once or is still cached.            *)
THEOREM RtpNothingDropped == Spec => []NothingDropped
<1>1. RtpIInv => NothingDropped
  BY DEF RtpIInv
<1>2. QED
  BY RtpInvariance, <1>1, PTL

(* Between packets the cache never holds the expected packet.              *)
THEOREM RtpNothingOverdue == Spec => []NothingOverdue
<1>1. RtpIInv => NothingOverdue
  BY DEF RtpIInv
<1>2. QED
  BY RtpInvariance, <1>1, PTL

-----------------------------------------------------------------------------
(* The sequence number of packet a of a stream that begins with s.         *)
SeqAt(s, a) == (s + a) % Modulus

(* The packets the cache can hold at a time lie in less than half of the   *)
(* range of numbers, so that diffSequenceNumber orders them.  (In the code *)
(* MAX_SEQNUM_DIFF_FOR_DISCONTINUITY is 10 and MID_SEQUENCE_NUMBER is      *)
(* 0x8000.)                                                                *)
WideRange == 3 * MaxDiff < Mid

(* What is assumed of the constants.                                       *)
LEMMA ModulusFacts == /\ Modulus \in Nat \ {0} /\ Mid \in Nat /\ 2 * Mid <= Modulus
                      /\ MaxDiff \in Nat /\ MaxCache \in Nat
BY RtpAssumption DEF Mid

(* Quotient and remainder.                                                 *)
LEMMA IntMod ==
  ASSUME NEW a \in Int, NEW m \in Nat \ {0}
  PROVE  a % m \in 0..m-1 /\ a \div m \in Int /\ a = m * (a \div m) + (a % m)
OBVIOUS

(* ... are unique.                                                         *)
LEMMA ModUnique ==
  ASSUME NEW m \in Nat \ {0}, NEW q \in Int, NEW p \in Int,
         NEW r \in 0..m-1, NEW t \in 0..m-1, m * q + r = m * p + t
  PROVE  r = t /\ q = p
<1>1. ASSUME NEW u \in Int, NEW v \in Int, u < v PROVE m * v >= m * u + m
  <2>1. m * (v - u - 1) >= 0
    BY <1>1
  <2> QED BY <2>1
<1>2. q = p
  BY <1>1
<1> QED BY <1>2

(* Quotients of neighbours differ by at most one.                          *)
LEMMA SeqAtFacts ==
  ASSUME NEW s \in SeqNum, NEW a \in Int
  PROVE  /\ SeqAt(s, a) \in SeqNum /\ SeqAt(s, a) \in 0 .. Modulus - 1
         /\ \E q \in Int : s + a = Modulus * q + SeqAt(s, a)
<1>1. s \in Int /\ s + a \in Int
  BY ModulusFacts DEF SeqNum
<1>2. /\ (s + a) % Modulus \in 0..Modulus-1 /\ (s + a) \div Modulus \in Int
      /\ s + a = Modulus * ((s + a) \div Modulus) + ((s + a) % Modulus)
  BY <1>1, ModulusFacts, IntMod
<1> QED BY <1>2 DEF SeqAt, SeqNum

(* The remainder is the sequence number.                                   *)
LEMMA SeqAtIs ==
  ASSUME NEW s \in SeqNum, NEW a \in Int, NEW q \in Int, NEW r \in 0 .. Modulus - 1,
         s + a = Modulus * q + r
  PROVE  SeqAt(s, a) = r
<1>1. PICK p \in Int : s + a = Modulus * p + SeqAt(s, a)
  BY SeqAtFacts
<1>2. SeqAt(s, a) \in 0 .. Modulus - 1
  BY SeqAtFacts
<1> QED BY <1>1, <1>2, ModUnique, ModulusFacts

(* Two packets less than Modulus apart: their numbers differ by their      *)
(* distance, but for one turn of the numbers.                              *)
LEMMA Turn ==
  ASSUME NEW s \in SeqNum, NEW a \in Int, NEW b \in Int,
         a - b < Modulus, b - a < Modulus
  PROVE  \E z \in {-1, 0, 1} : SeqAt(s, a) - SeqAt(s, b) = (a - b) + z * Modulus
<1>1. PICK p \in Int : s + a = Modulus * p + SeqAt(s, a)
  BY SeqAtFacts
<1>2. PICK q \in Int : s + b = Modulus * q + SeqAt(s, b)
  BY SeqAtFacts
<1>3. SeqAt(s, a) \in 0 .. Modulus - 1 /\ SeqAt(s, b) \in 0 .. Modulus - 1
  BY SeqAtFacts
<1>4. PICK z \in Int : z = q - p
  OBVIOUS
<1>5. s \in Int /\ Modulus \in Nat \ {0}
  BY ModulusFacts DEF SeqNum
<1>6. Modulus * z = Modulus * q - Modulus * p
      /\ Modulus * p \in Int /\ Modulus * q \in Int /\ Modulus * z \in Int
  BY <1>4, <1>5
<1>7. SeqAt(s, a) - SeqAt(s, b) = (a - b) + Modulus * z
  <2>1. PICK x \in Int, y \in Int : x = SeqAt(s, a) /\ y = SeqAt(s, b)
    BY <1>3
  <2>2. PICK u \in Int, v \in Int : u = Modulus * p /\ v = Modulus * q
    BY <1>6
  <2>3. s + a = u + x /\ s + b = v + y /\ Modulus * z = v - u
    BY <2>1, <2>2, <1>1, <1>2, <1>6
  <2>4. PICK w \in Int : w = Modulus * z
    BY <1>6
  <2>5. x - y = (a - b) + w
    <3>1. w = v - u
      BY <2>3, <2>4
    <3> HIDE <1>1, <1>2
    <3> QED BY <2>3, <3>1, <1>5
  <2> QED BY <2>1, <2>4, <2>5
<1>8. z \in {-1, 0, 1}
  <2>1. Modulus * z < 2 * Modulus /\ -(2 * Modulus) < Modulus * z
    BY <1>3, <1>5, <1>6, <1>7
  <2>2. z >= 2 => Modulus * z >= 2 * Modulus
    <3> SUFFICES ASSUME z >= 2 PROVE Modulus * z >= 2 * Modulus
      OBVIOUS
    <3>1. Modulus * (z - 2) >= 0
      <4>1. z - 2 \in Nat
        OBVIOUS
      <4> QED BY <4>1, <1>5
    <3> QED BY <3>1, <1>5
  <2>3. z <= -2 => Modulus * z <= -(2 * Modulus)
    <3> SUFFICES ASSUME z <= -2 PROVE Modulus * z <= -(2 * Modulus)
      OBVIOUS
    <3>1. Modulus * (-2 - z) >= 0
      <4>1. -2 - z \in Nat
        OBVIOUS
      <4> QED BY <4>1, <1>5
    <3> QED BY <3>1, <1>5
  <2> QED BY <2>1, <2>2, <2>3, <1>5, <1>6
<1>9. z * Modulus = Modulus * z
  BY <1>5
<1> QED BY <1>7, <1>8, <1>9

(* diffSequenceNumber is the distance to a packet that is not before, and  *)
(* orders any two packets less than Mid apart, also across the wrap-around.*)
LEMMA DiffOrders ==
  ASSUME NEW s \in SeqNum, NEW a \in Int, NEW b \in Int, a - b < Mid, b - a < Mid
  PROVE  /\ a <= b => diffSequenceNumber(SeqAt(s, a), SeqAt(s, b)) = a - b
         /\ a > b => diffSequenceNumber(SeqAt(s, a), SeqAt(s, b)) > 0
<1>1. PICK z \in {-1, 0, 1} : SeqAt(s, a) - SeqAt(s, b) = (a - b) + z * Modulus
  BY Turn, ModulusFacts
<1>2. PICK x \in 0 .. Modulus - 1, y \in 0 .. Modulus - 1 : x = SeqAt(s, a) /\ y = SeqAt(s, b)
  BY SeqAtFacts
<1>3. /\ a <= b => diffSequenceNumber(x, y) = a - b
      /\ a > b => diffSequenceNumber(x, y) > 0
  <2>1. CASE z = 0
    <3>1. x - y = a - b
      BY <2>1, <1>1, <1>2, ModulusFacts
    <3> QED BY <3>1, ModulusFacts DEF diffSequenceNumber
  <2>2. CASE z = 1
    <3>1. x - y = (a - b) + Modulus
      BY <2>2, <1>1, <1>2, ModulusFacts
    <3> QED BY <3>1, ModulusFacts DEF diffSequenceNumber
  <2>3. CASE z = -1
    <3>1. x - y = (a - b) - Modulus
      BY <2>3, <1>1, <1>2, ModulusFacts
    <3> QED BY <3>1, ModulusFacts DEF diffSequenceNumber
  <2> QED BY <2>1, <2>2, <2>3
<1> QED BY <1>2, <1>3

(* diffSequenceNumber gives an integer.                                    *)
LEMMA DiffType ==
  ASSUME NEW s \in SeqNum, NEW a \in Int, NEW b \in Int
  PROVE  diffSequenceNumber(SeqAt(s, a), SeqAt(s, b)) \in Int
<1>1. PICK x \in 0 .. Modulus - 1, y \in 0 .. Modulus - 1 : x = SeqAt(s, a) /\ y = SeqAt(s, b)
  BY SeqAtFacts
<1>2. diffSequenceNumber(x, y) \in Int
  BY ModulusFacts DEF diffSequenceNumber
<1> QED BY <1>1, <1>2

(* Packets less than a turn apart have different numbers.                  *)
LEMMA SameNumber ==
  ASSUME NEW s \in SeqNum, NEW a \in Int, NEW b \in Int,
         a - b < Modulus, b - a < Modulus, SeqAt(s, a) = SeqAt(s, b)
  PROVE  a = b
<1>1. PICK z \in {-1, 0, 1} : SeqAt(s, a) - SeqAt(s, b) = (a - b) + z * Modulus
  BY Turn
<1>2. SeqAt(s, a) \in 0 .. Modulus - 1 /\ SeqAt(s, b) \in 0 .. Modulus - 1
  BY SeqAtFacts
<1>3. 0 = (a - b) + z * Modulus
  BY <1>1, <1>2, ModulusFacts
<1> QED BY <1>3, ModulusFacts

(* The packet after packet a has the following number.                     *)
LEMMA NextNumber ==
  ASSUME NEW s \in SeqNum, NEW a \in Int
  PROVE  following(SeqAt(s, a)) = SeqAt(s, a + 1)
<1>1. PICK p \in Int : s + a = Modulus * p + SeqAt(s, a)
  BY SeqAtFacts
<1>2. PICK x \in 0 .. Modulus - 1 : x = SeqAt(s, a)
  BY SeqAtFacts
<1>3. s \in Int /\ Modulus \in Nat \ {0}
  BY ModulusFacts DEF SeqNum
<1>4. CASE x + 1 < Modulus
  <2>1. (x + 1) % Modulus = x + 1
    BY <1>3, <1>4
  <2>2. s + (a + 1) = Modulus * p + (x + 1) /\ x + 1 \in 0 .. Modulus - 1 /\ a + 1 \in Int
    <3>1. Modulus * p \in Int
      BY <1>3
    <3> QED BY <1>1, <1>2, <1>3, <1>4, <3>1
  <2>3. SeqAt(s, a + 1) = x + 1
    BY <2>2, SeqAtIs
  <2> QED BY <2>1, <2>3, <1>2 DEF following
<1>5. CASE x + 1 = Modulus
  <2>1. (x + 1) % Modulus = 0
    BY <1>3, <1>5
  <2>2. s + (a + 1) = Modulus * (p + 1) + 0 /\ 0 \in 0 .. Modulus - 1 /\ a + 1 \in Int
        /\ p + 1 \in Int
    <3>1. Modulus * p \in Int /\ Modulus * (p + 1) = Modulus * p + Modulus
      BY <1>3
    <3> QED BY <1>1, <1>2, <1>3, <1>5, <3>1
  <2>3. SeqAt(s, a + 1) = 0
    BY <2>2, SeqAtIs
  <2> QED BY <2>1, <2>3, <1>2 DEF following
<1> QED BY <1>3, <1>4, <1>5

(* A number near the expected one is the number of a packet near it.       *)
LEMMA NearNumber ==
  ASSUME NEW s \in SeqNum, NEW e \in Int, NEW n \in SeqNum, MaxDiff < Mid,
         Abs(diffSequenceNumber(SeqAt(s, e), n)) <= MaxDiff
  PROVE  \E x \in e - MaxDiff .. e + MaxDiff : n = SeqAt(s, x)
<1>1. PICK p \in Int : s + e = Modulus * p + SeqAt(s, e)
  BY SeqAtFacts
<1>2. PICK y \in 0 .. Modulus - 1 : y = SeqAt(s, e)
  BY SeqAtFacts
<1>3. s \in Int /\ Modulus \in Nat \ {0} /\ n \in 0 .. Modulus - 1
  BY ModulusFacts DEF SeqNum
<1>4. PICK d \in Int : d = -diffSequenceNumber(y, n)
  BY <1>3, ModulusFacts DEF diffSequenceNumber
<1>5. /\ -MaxDiff <= d /\ d <= MaxDiff
      /\ n = y + d \/ n = y + d - Modulus
  <2>1. -MaxDiff <= d /\ d <= MaxDiff
    <3>1. diffSequenceNumber(y, n) = -d
      BY <1>4, <1>3, ModulusFacts DEF diffSequenceNumber
    <3> QED BY <3>1, <1>2, ModulusFacts DEF Abs
  <2>2. n = y + d \/ n = y + d - Modulus
    BY <2>1, <1>3, <1>4, ModulusFacts DEF diffSequenceNumber
  <2> QED BY <2>1, <2>2
<1>6. e + d \in Int /\ s + e = Modulus * p + y /\ Modulus * p \in Int
      /\ Modulus * (p + 1) = Modulus * p + Modulus
  BY <1>1, <1>2, <1>3
<1>7. SeqAt(s, e + d) = n
  <2>1. PICK c \in Int : c = e + d
    BY <1>6
  <2>2. PICK u \in Int : u = Modulus * p
    BY <1>6
  <2>3. s + e = u + y /\ Modulus * (p + 1) = u + Modulus /\ p + 1 \in Int
    BY <1>6, <2>2
  <2>4. CASE n = y + d
    <3>1. s + c = u + n
      BY <2>1, <2>3, <2>4, <1>3
    <3>2. s + c = Modulus * p + n
      BY <3>1, <2>2
    <3>3. SeqAt(s, c) = n
      BY <3>2, <1>3, SeqAtIs, Zenon
    <3> QED BY <3>3, <2>1
  <2>5. CASE n = y + d - Modulus
    <3>1. s + c = (u + Modulus) + n
      BY <2>1, <2>3, <2>5, <1>3
    <3>2. PICK r \in Int : r = p + 1
      BY <2>3
    <3>3. s + c = Modulus * r + n
      BY <3>1, <3>2, <2>3
    <3>4. SeqAt(s, c) = n
      BY <3>3, <1>3, SeqAtIs, Zenon
    <3> QED BY <3>4, <2>1
  <2> QED BY <2>4, <2>5, <1>5
<1>8. e + d \in e - MaxDiff .. e + MaxDiff
  BY <1>5, <1>6, ModulusFacts
<1> QED BY <1>7, <1>8

(* Where the packets are after an insertion.                               *)
LEMMA InsertElements ==
  ASSUME NEW S, NEW s \in Seq(S), NEW p \in S, NEW i \in 1 .. Len(s) + 1
  PROVE  \A k \in 1 .. Len(s) + 1 :
           Insert(s, i, p)[k] = IF k < i THEN s[k] ELSE IF k = i THEN p ELSE s[k - 1]
<1> DEFINE l == SubSeq(s, 1, i - 1)
           r == SubSeq(s, i, Len(s))
<1>1. Len(s) \in Nat /\ \A j \in 1..Len(s) : s[j] \in S
  BY LenProperties, ElementOfSeq
<1>2. /\ l \in Seq(S) /\ Len(l) = i - 1
      /\ \A j \in 1 .. i - 1 : l[j] = s[j]
  BY <1>1, SubSeqProperties
<1>3. /\ r \in Seq(S) /\ Len(r) = Len(s) - i + 1
      /\ \A j \in 1 .. Len(s) - i + 1 : r[j] = s[i + j - 1]
  BY <1>1, SubSeqProperties
<1> HIDE DEF l, r
<1> DEFINE lp == l \o <<p>>
<1>4. /\ lp \in Seq(S) /\ Len(lp) = i /\ lp[i] = p
      /\ \A j \in 1 .. i - 1 : lp[j] = s[j]
  BY <1>1, <1>2, ConcatProperties
<1> HIDE DEF lp
<1>5. \A k \in 1 .. Len(lp) + Len(r) :
        (lp \o r)[k] = IF k <= Len(lp) THEN lp[k] ELSE r[k - Len(lp)]
  BY <1>3, <1>4, ConcatProperties
<1>6. ASSUME NEW k \in 1 .. Len(s) + 1
      PROVE  (lp \o r)[k] = IF k < i THEN s[k] ELSE IF k = i THEN p ELSE s[k - 1]
  <2>1. k \in 1 .. Len(lp) + Len(r)
    BY <1>1, <1>3, <1>4
  <2>2. CASE k < i
    BY <1>4, <1>5, <2>1, <2>2
  <2>3. CASE k = i
    BY <1>4, <1>5, <2>1, <2>3
  <2>4. CASE k > i
    <3>1. k - i \in 1 .. Len(s) - i + 1 /\ i + (k - i) - 1 = k - 1
      BY <1>1, <2>4
    <3>2. r[k - i] = s[k - 1]
      BY <1>3, <3>1
    <3> QED BY <1>4, <1>5, <2>1, <2>4, <3>2
  <2>5. k < i \/ k = i \/ k > i
    BY <1>1
  <2> QED BY <2>2, <2>3, <2>4, <2>5, Zenon
<1> QED BY <1>6 DEF Insert, lp, l, r

(* Where the packets are after one was erased.                             *)
LEMMA EraseElements ==
  ASSUME NEW S, NEW s \in Seq(S), NEW i \in 1 .. Len(s)
  PROVE  \A k \in 1 .. Len(s) - 1 :
           Erase(s, i)[k] = IF k < i THEN s[k] ELSE s[k + 1]
<1> DEFINE l == SubSeq(s, 1, i - 1)
           r == SubSeq(s, i + 1, Len(s))
<1>1. Len(s) \in Nat /\ \A j \in 1..Len(s) : s[j] \in S
  BY LenProperties, ElementOfSeq
<1>2. /\ l \in Seq(S) /\ Len(l) = i - 1
      /\ \A j \in 1 .. i - 1 : l[j] = s[j]
  BY <1>1, SubSeqProperties
<1>3. /\ r \in Seq(S) /\ Len(r) = Len(s) - i
      /\ \A j \in 1 .. Len(s) - i : r[j] = s[i + 1 + j - 1]
  BY <1>1, SubSeqProperties
<1> HIDE DEF l, r
<1>4. \A k \in 1 .. Len(l) + Len(r) :
        (l \o r)[k] = IF k <= Len(l) THEN l[k] ELSE r[k - Len(l)]
  BY <1>2, <1>3, ConcatProperties
<1>5. ASSUME NEW k \in 1 .. Len(s) - 1
      PROVE  (l \o r)[k] = IF k < i THEN s[k] ELSE s[k + 1]
  <2>1. k \in 1 .. Len(l) + Len(r)
    BY <1>1, <1>2, <1>3
  <2>2. CASE k < i
    BY <1>2, <1>4, <2>1, <2>2
  <2>3. CASE k >= i
    <3>1. k - (i - 1) \in 1 .. Len(s) - i /\ i + 1 + (k - (i - 1)) - 1 = k + 1
      BY <1>1, <2>3
    <3>2. r[k - (i - 1)] = s[k + 1]
      BY <1>3, <3>1
    <3> QED BY <1>2, <1>4, <2>1, <2>3, <3>2
  <2>4. k < i \/ k >= i
    BY <1>1
  <2> QED BY <2>2, <2>3, <2>4, Zenon
<1> QED BY <1>5 DEF Erase, l, r

-----------------------------------------------------------------------------
(* The packets of a sequence.                                              *)
Elements(s) == {s[k] : k \in 1 .. Len(s)}

(* Inserting adds the packet to those of the cache.                        *)
LEMMA InsertKeeps ==
  ASSUME NEW S, NEW s \in Seq(S), NEW p \in S, NEW i \in 1 .. Len(s) + 1
  PROVE  Elements(Insert(s, i, p)) = Elements(s) \cup {p}
<1> DEFINE t == Insert(s, i, p)
<1>1. Len(t) = Len(s) + 1 /\ Len(s) \in Nat
  BY InsertFacts, LenProperties
<1>2. \A k \in 1 .. Len(s) + 1 : t[k] = IF k < i THEN s[k] ELSE IF k = i THEN p ELSE s[k - 1]
  BY InsertElements
<1> HIDE DEF t
<1>3. ASSUME NEW k \in 1 .. Len(t) PROVE t[k] \in Elements(s) \cup {p}
  <2>1. k < i => k \in 1 .. Len(s)
    BY <1>1
  <2>2. k > i => k - 1 \in 1 .. Len(s)
    BY <1>1
  <2>3. k < i => t[k] = s[k]
    BY <1>1, <1>2
  <2>4. k = i => t[k] = p
    BY <1>1, <1>2
  <2>5. k > i => t[k] = s[k - 1]
    BY <1>1, <1>2
  <2> QED BY <2>1, <2>2, <2>3, <2>4, <2>5, <1>1 DEF Elements
<1>4. p \in Elements(t)
  <2>1. t[i] = p /\ i \in 1 .. Len(t)
    BY <1>1, <1>2
  <2> QED BY <2>1 DEF Elements
<1>5. ASSUME NEW k \in 1 .. Len(s) PROVE s[k] \in Elements(t)
  <2>1. CASE k < i
    <3>1. t[k] = s[k] /\ k \in 1 .. Len(t)
      BY <1>1, <1>2, <2>1
    <3> QED BY <3>1 DEF Elements
  <2>2. CASE k >= i
    <3>1. t[k + 1] = s[k + 1 - 1] /\ k + 1 \in 1 .. Len(t) /\ k + 1 - 1 = k
      BY <1>1, <1>2, <2>2
    <3> QED BY <3>1 DEF Elements
  <2> QED BY <2>1, <2>2
<1>6. Elements(t) = Elements(s) \cup {p}
  <2>1. Elements(t) \subseteq Elements(s) \cup {p}
    BY <1>3 DEF Elements
  <2>2. Elements(s) \subseteq Elements(t)
    BY <1>5 DEF Elements
  <2> QED BY <2>1, <2>2, <1>4
<1> QED BY <1>6 DEF t

(* Erasing takes one packet out.                                           *)
LEMMA EraseKeeps ==
  ASSUME NEW S, NEW s \in Seq(S), NEW i \in 1 .. Len(s)
  PROVE  Elements(Erase(s, i)) \cup {s[i]} = Elements(s)
<1> DEFINE t == Erase(s, i)
<1>1. Len(t) = Len(s) - 1 /\ Len(s) \in Nat
  BY EraseFacts, LenProperties
<1>2. \A k \in 1 .. Len(s) - 1 : t[k] = IF k < i THEN s[k] ELSE s[k + 1]
  BY EraseElements
<1> HIDE DEF t
<1>3. ASSUME NEW k \in 1 .. Len(t) PROVE t[k] \in Elements(s)
  <2>1. k \in 1 .. Len(s) /\ k + 1 \in 1 .. Len(s)
    BY <1>1
  <2>2. t[k] = s[k] \/ t[k] = s[k + 1]
    BY <1>1, <1>2
  <2> QED BY <2>1, <2>2 DEF Elements
<1>4. s[i] \in Elements(s)
  BY DEF Elements
<1>5. ASSUME NEW k \in 1 .. Len(s), k # i PROVE s[k] \in Elements(t)
  <2>1. CASE k < i
    <3>1. t[k] = s[k] /\ k \in 1 .. Len(t)
      BY <1>1, <1>2, <2>1
    <3> QED BY <3>1 DEF Elements
  <2>2. CASE k > i
    <3>1. t[k - 1] = s[k - 1 + 1] /\ k - 1 \in 1 .. Len(t) /\ k - 1 + 1 = k
      BY <1>1, <1>2, <2>2
    <3> QED BY <3>1 DEF Elements
  <2> QED BY <2>1, <2>2, <1>5
<1>6. Elements(t) \cup {s[i]} = Elements(s)
  <2>1. Elements(t) \subseteq Elements(s)
    BY <1>3 DEF Elements
  <2>2. Elements(s) \subseteq Elements(t) \cup {s[i]}
    BY <1>5 DEF Elements
  <2> QED BY <2>1, <2>2, <1>4
<1> QED BY <1>6 DEF t

(* The elements of a concatenation.                                        *)
LEMMA ConcatElements ==
  ASSUME NEW S, NEW s \in Seq(S), NEW t \in Seq(S)
  PROVE  Elements(s \o t) = Elements(s) \cup Elements(t)
<1>1. /\ Len(s) \in Nat /\ Len(t) \in Nat /\ Len(s \o t) = Len(s) + Len(t)
      /\ \A k \in 1 .. Len(s) + Len(t) :
           (s \o t)[k] = IF k <= Len(s) THEN s[k] ELSE t[k - Len(s)]
  BY ConcatProperties, LenProperties
<1> DEFINE u == s \o t
<1>2. /\ Len(u) = Len(s) + Len(t)
      /\ \A k \in 1 .. Len(s) + Len(t) : u[k] = IF k <= Len(s) THEN s[k] ELSE t[k - Len(s)]
  BY <1>1
<1> HIDE DEF u
<1>3. ASSUME NEW k \in 1 .. Len(u) PROVE u[k] \in Elements(s) \cup Elements(t)
  <2>1. CASE k <= Len(s)
    <3>1. u[k] = s[k] /\ k \in 1 .. Len(s)
      BY <1>1, <1>2, <2>1
    <3> QED BY <3>1 DEF Elements
  <2>2. CASE k > Len(s)
    <3>1. u[k] = t[k - Len(s)] /\ k - Len(s) \in 1 .. Len(t)
      BY <1>1, <1>2, <2>2
    <3> QED BY <3>1 DEF Elements
  <2> QED BY <2>1, <2>2, <1>1
<1>4. ASSUME NEW k \in 1 .. Len(s) PROVE s[k] \in Elements(u)
  <2>1. u[k] = s[k] /\ k \in 1 .. Len(u)
    BY <1>1, <1>2
  <2> QED BY <2>1 DEF Elements
<1>5. ASSUME NEW k \in 1 .. Len(t) PROVE t[k] \in Elements(u)
  <2>1. u[k + Len(s)] = t[k + Len(s) - Len(s)] /\ k + Len(s) \in 1 .. Len(u)
        /\ k + Len(s) - Len(s) = k
    BY <1>1, <1>2
  <2> QED BY <2>1 DEF Elements
<1>6. Elements(u) = Elements(s) \cup Elements(t)
  <2>1. Elements(u) \subseteq Elements(s) \cup Elements(t)
    BY <1>3 DEF Elements
  <2>2. Elements(s) \subseteq Elements(u)
    BY <1>4 DEF Elements
  <2>3. Elements(t) \subseteq Elements(u)
    BY <1>5 DEF Elements
  <2> QED BY <2>1, <2>2, <2>3
<1> QED BY <1>6 DEF u

(* The elements after an append.                                           *)
LEMMA AppendElements ==
  ASSUME NEW S, NEW s \in Seq(S), NEW p \in S
  PROVE  Elements(Append(s, p)) = Elements(s) \cup {p}
<1> DEFINE t == Append(s, p)
<1>1. /\ Len(s) \in Nat /\ Len(t) = Len(s) + 1 /\ t[Len(s) + 1] = p
      /\ \A k \in 1 .. Len(s) : t[k] = s[k]
  BY LenProperties
<1> HIDE DEF t
<1>2. ASSUME NEW k \in 1 .. Len(t) PROVE t[k] \in Elements(s) \cup {p}
  <2>1. k \in 1 .. Len(s) \/ k = Len(s) + 1
    BY <1>1
  <2> QED BY <1>1, <2>1 DEF Elements
<1>3. Elements(s) \subseteq Elements(t)
  <2>1. 1 .. Len(s) \subseteq 1 .. Len(t)
    BY <1>1
  <2> QED BY <1>1, <2>1 DEF Elements
<1>4. p \in Elements(t)
  <2>1. Len(s) + 1 \in 1 .. Len(t)
    BY <1>1
  <2> QED BY <1>1, <2>1 DEF Elements
<1>5. Elements(t) \subseteq Elements(s) \cup {p}
  BY <1>2 DEF Elements
<1>6. Elements(t) = Elements(s) \cup {p}
  BY <1>3, <1>4, <1>5
<1> QED BY <1>6 DEF t

(* What the listener has of the packets that arrived.                      *)
Held == Elements(out) \cup Elements(mBufferCache)

(* handedOn by the elements of out, before and after a step.               *)
LEMMA HandedOn == \A i : handedOn(i) <=> \E q \in Elements(out) : q.id = i
BY DEF handedOn, Elements

LEMMA HandedOnNext == \A i : handedOn(i)' <=> \E q \in Elements(out') : q.id = i
BY DEF handedOn, Elements

(* A packet that arrives is held, and nothing is dropped.                  *)
LEMMA PacketHeld ==
  ASSUME RtpIInv, NEW p \in Packet, sequence(p)
  PROVE  Held' = Held \cup {p} /\ Elements(out) \subseteq Elements(out')
<1>1. mBufferCache \in Seq(Packet) /\ out \in Seq(Packet)
  BY DEF RtpIInv, RtpTypeOK
<1>2. CASE inOrder(p)
  <2>1. Elements(out') = Elements(out) \cup {p}
    BY <1>1, <1>2, AppendElements DEF inOrder
  <2>2. mBufferCache' = mBufferCache
    BY <1>2 DEF inOrder
  <2> QED BY <2>1, <2>2 DEF Held
<1>3. CASE discontinuity(p)
  <2>1. out' = (out \o mBufferCache) \o <<p>> /\ mBufferCache' = <<>>
    BY <1>3 DEF discontinuity
  <2>2. out \o mBufferCache \in Seq(Packet) /\ <<p>> \in Seq(Packet)
    BY <1>1, ConcatProperties
  <2>3. Elements(<<p>>) = {p} /\ Elements(<<>>) = {}
    BY DEF Elements
  <2>4. Elements(out \o mBufferCache) = Elements(out) \cup Elements(mBufferCache)
    BY <1>1, ConcatElements
  <2>5. Elements(out') = Elements(out \o mBufferCache) \cup Elements(<<p>>)
    BY <2>1, <2>2, ConcatElements, Zenon
  <2> QED BY <2>1, <2>3, <2>4, <2>5 DEF Held
<1>4. CASE cachePacket(p)
  <2>1. Len(mBufferCache) < MaxCache /\ out' = out
    BY <1>4 DEF cachePacket, receive, RtpIInv, NeverAborts
  <2>2. PICK i \in 1 .. Len(mBufferCache) + 1 : mBufferCache' = Insert(mBufferCache, i, p)
    BY <1>4, <2>1 DEF cachePacket
  <2>3. Elements(mBufferCache') = Elements(mBufferCache) \cup {p}
    BY <1>1, <2>2, InsertKeeps
  <2> QED BY <2>1, <2>3 DEF Held
<1> QED BY <1>2, <1>3, <1>4 DEF sequence

(* processCachedBuffers only moves packets from the cache to out.          *)
LEMMA ScanHeld ==
  ASSUME RtpIInv, processCachedBuffers
  PROVE  Held' = Held /\ Elements(out) \subseteq Elements(out')
<1>1. mBufferCache \in Seq(Packet) /\ out \in Seq(Packet) /\ it \in Nat \ {0}
  BY DEF RtpIInv, RtpTypeOK
<1>2. CASE scanPush
  <2>1. /\ it \in 1 .. Len(mBufferCache) /\ mBufferCache[it] \in Packet
        /\ out' = Append(out, mBufferCache[it]) /\ mBufferCache' = Erase(mBufferCache, it)
    BY <1>1, <1>2, ElementOfSeq, LenProperties DEF scanPush, scanning
  <2>2. Elements(out') = Elements(out) \cup {mBufferCache[it]}
    BY <1>1, <2>1, AppendElements
  <2>3. Elements(mBufferCache') \cup {mBufferCache[it]} = Elements(mBufferCache)
    BY <1>1, <2>1, EraseKeeps
  <2> QED BY <2>2, <2>3 DEF Held
<1>3. CASE scanSkip \/ scanAgain \/ giveUpMissing \/ scanEnd
  <2>1. out' = out /\ mBufferCache' = mBufferCache
    BY <1>3 DEF scanSkip, scanAgain, giveUpMissing, scanEnd
  <2> QED BY <2>1 DEF Held
<1> QED BY <1>2, <1>3 DEF processCachedBuffers

(* The session so far.  What has arrived is held; strays come when the     *)
(* stream is over; a packet that is still to come is overtaken by at most  *)
(* the next Window packets.                                                *)
SessionFacts ==
  /\ start \in SeqNum
  /\ lost \subseteq Sent \ {0}
  /\ \A i \in Sent : Cardinality(lost \cap (i .. i + MaxDiff - 1)) <= MaxLost
  /\ arrived \subseteq Ids /\ arrived \cap lost = {}
  /\ \A q \in Held : q.id \in arrived
  /\ \A i \in arrived \cap Sent : \E q \in Held : q.id = i
  /\ arrived \subseteq Sent \/ Sent \subseteq arrived \cup lost
  /\ \A i \in Sent, j \in arrived \cap Sent :
       i < j /\ i \notin arrived \cup lost => j <= i + Window

(* The facts hold before the first packet.                                 *)
LEMMA InitFacts == SessionInit => SessionFacts
<1> SUFFICES ASSUME SessionInit PROVE SessionFacts
  OBVIOUS
<1>1. Held = {}
  BY DEF SessionInit, Init, Held, Elements
<1> QED BY <1>1, StreamAssumption DEF SessionInit, SessionFacts

(* A packet of the stream, or a stray after its end, keeps the facts.      *)
LEMMA PacketFacts ==
  ASSUME NEW p \in Packet, SessionFacts, Held' = Held \cup {p}, arrived' = arrived \cup {p.id},
         p.id \notin lost, UNCHANGED <<start, lost>>,
         \/ /\ p.id \in Sent /\ p.id \notin arrived
            /\ \A j \in Sent : j < p.id - Window => j \in arrived \cup lost
         \/ Sent \subseteq arrived \cup lost
  PROVE  SessionFacts'
<1>1. p.id \in Ids
  BY DEF Packet
<1>2. /\ (start \in SeqNum)' /\ (lost \subseteq Sent \ {0})'
      /\ (\A i \in Sent : Cardinality(lost \cap (i .. i + MaxDiff - 1)) <= MaxLost)'
  BY DEF SessionFacts
<1>3. (arrived \subseteq Ids /\ arrived \cap lost = {})'
  BY <1>1 DEF SessionFacts
<1>4. (\A q \in Held : q.id \in arrived)'
  BY DEF SessionFacts
<1>5. (\A i \in arrived \cap Sent : \E q \in Held : q.id = i)'
  BY DEF SessionFacts
<1>6. (arrived \subseteq Sent \/ Sent \subseteq arrived \cup lost)'
  BY DEF SessionFacts
<1>7. ASSUME NEW i \in Sent, NEW j \in arrived' \cap Sent, i < j, i \notin arrived' \cup lost
      PROVE  j <= i + Window
  <2>1. i \notin arrived \cup lost
    BY <1>7
  <2>2. i \in Nat /\ j \in Nat /\ Window \in Nat
    BY StreamAssumption, DisorderAssumption
  <2>3. CASE j \in arrived
    BY <1>7, <2>1, <2>3 DEF SessionFacts
  <2>4. CASE j = p.id
    <3>1. ~(i < j - Window)
      BY <2>1, <2>4
    <3> QED BY <2>2, <3>1
  <2> QED BY <2>3, <2>4
<1>8. (\A i \in Sent, j \in arrived \cap Sent :
         i < j /\ i \notin arrived \cup lost => j <= i + Window)'
  BY <1>7
<1> QED BY <1>2, <1>3, <1>4, <1>5, <1>6, <1>8 DEF SessionFacts

(* The scan keeps the facts.                                               *)
LEMMA ScanFacts ==
  ASSUME SessionFacts, Held' = Held, UNCHANGED netVars
  PROVE  SessionFacts'
BY DEF SessionFacts, netVars

(* Whether a packet is of the stream.                                      *)
isStream(p) == p.id \in Sent

(* The packets of cache c as positions num in the stream, e being expected *)
(* next.  A packet of the stream is not older than the expected one and    *)
(* precedes strays of its number.                                          *)
CacheNumbered(s, c, e, num) ==
  /\ \A k \in 1..Len(c) : c[k].seq = SeqAt(s, num[k]) /\ num[k] <= e + MaxDiff
  /\ \A k \in 1..Len(c) : isStream(c[k]) =>
       /\ num[k] = c[k].id /\ num[k] >= e
       /\ \A j \in 1..Len(c) : num[j] >= num[k] - 2 * MaxDiff
  /\ \A j, k \in 1..Len(c) : j < k =>
       num[j] <= num[k] /\ (isStream(c[k]) => num[j] < num[k])

(* Expecting a later packet, if nothing older is cached.                   *)
LEMMA AdvanceNumbered ==
  ASSUME NEW s, NEW c \in Seq(Packet), NEW e \in Nat, NEW f \in Nat,
         NEW num \in [1..Len(c) -> Int], CacheNumbered(s, c, e, num), e <= f,
         \A k \in 1..Len(c) : isStream(c[k]) => num[k] >= f
  PROVE  CacheNumbered(s, c, f, num)
BY ModulusFacts DEF CacheNumbered

(* m numbers the cache c without its packet i.                             *)
Without(s, c, e, num, i, m) ==
  /\ CacheNumbered(s, Erase(c, i), e, m)
  /\ \A k \in 1 .. Len(c) - 1 : k < i => m[k] = num[k]
  /\ \A k \in 1 .. Len(c) - 1 : \E j \in 1..Len(c) :
       j # i /\ m[k] = num[j] /\ Erase(c, i)[k] = c[j]

(* The rest of a numbered cache is numbered.                               *)
LEMMA EraseNumbered ==
  ASSUME NEW s, NEW c \in Seq(Packet), NEW e \in Nat, NEW num \in [1..Len(c) -> Int],
         CacheNumbered(s, c, e, num), NEW i \in 1..Len(c)
  PROVE  \E m \in [1 .. Len(c) - 1 -> Int] : Without(s, c, e, num, i, m)
<1> DEFINE m == [k \in 1 .. Len(c) - 1 |-> IF k < i THEN num[k] ELSE num[k + 1]]
           t == Erase(c, i)
           at(k) == IF k < i THEN k ELSE k + 1
<1>1. Len(c) \in Nat /\ Len(t) = Len(c) - 1
  BY LenProperties, EraseFacts
<1>2. \A k \in 1 .. Len(c) - 1 : t[k] = IF k < i THEN c[k] ELSE c[k + 1]
  BY EraseElements
<1>3. \A k \in 1 .. Len(c) - 1 : at(k) \in 1..Len(c) /\ at(k) # i
  BY <1>1
<1>4. \A k \in 1 .. Len(c) - 1 : t[k] = c[at(k)] /\ m[k] = num[at(k)]
  BY <1>2
<1>5. m \in [1 .. Len(c) - 1 -> Int]
  <2>1. \A k \in 1 .. Len(c) - 1 : m[k] \in Int
    BY <1>3, <1>4
  <2> QED BY <2>1
<1>6. \A j, k \in 1 .. Len(c) - 1 : j < k => at(j) < at(k)
  BY <1>1
<1>7. \A k \in 1 .. Len(c) - 1 : k < i => m[k] = num[k]
  OBVIOUS
<1> HIDE DEF m, t, at
<1>8. CacheNumbered(s, t, e, m)
  BY <1>1, <1>3, <1>4, <1>6 DEF CacheNumbered
<1>9. \A k \in 1 .. Len(c) - 1 : \E j \in 1..Len(c) :
        j # i /\ m[k] = num[j] /\ t[k] = c[j]
  BY <1>3, <1>4
<1> QED BY <1>5, <1>7, <1>8, <1>9 DEF t, Without

(* Position x for packet p, between the positions not after it and those   *)
(* after it.                                                               *)
LEMMA InsertNumbered ==
  ASSUME NEW s, NEW c \in Seq(Packet), NEW e \in Nat, NEW num \in [1..Len(c) -> Int],
         CacheNumbered(s, c, e, num),
         NEW p \in Packet, NEW x \in Int, p.seq = SeqAt(s, x),
         e - MaxDiff <= x, x <= e + MaxDiff,
         isStream(p) => x = p.id /\ x >= e /\ \A k \in 1..Len(c) : num[k] >= e /\ num[k] # x,
         NEW i \in 1 .. Len(c) + 1,
         \A j \in 1 .. i - 1 : num[j] <= x,
         i <= Len(c) => num[i] > x
  PROVE  \E m \in [1 .. Len(c) + 1 -> Int] : CacheNumbered(s, Insert(c, i, p), e, m)
<1> DEFINE m == [k \in 1 .. Len(c) + 1 |-> IF k < i THEN num[k] ELSE IF k = i THEN x ELSE num[k - 1]]
           t == Insert(c, i, p)
           at(k) == IF k < i THEN k ELSE k - 1
<1>1. Len(c) \in Nat /\ Len(t) = Len(c) + 1 /\ MaxDiff \in Nat
  BY LenProperties, InsertFacts, ModulusFacts
<1>2. \A k \in 1 .. Len(c) + 1 : t[k] = IF k < i THEN c[k] ELSE IF k = i THEN p ELSE c[k - 1]
  BY InsertElements
<1>3. \A k \in 1 .. Len(c) + 1 : k # i => at(k) \in 1..Len(c)
  BY <1>1
<1>4. \A k \in 1 .. Len(c) + 1 : k # i => t[k] = c[at(k)] /\ m[k] = num[at(k)]
  BY <1>2
<1>5. t[i] = p /\ m[i] = x
  BY <1>1, <1>2
<1>6. m \in [1 .. Len(c) + 1 -> Int]
  <2>1. \A k \in 1 .. Len(c) + 1 : m[k] \in Int
    BY <1>3, <1>4, <1>5
  <2> QED BY <2>1
<1>7. \A j, k \in 1 .. Len(c) + 1 : j # i /\ k # i /\ j < k => at(j) < at(k)
  BY <1>1
<1>8. \A k \in 1 .. Len(c) + 1 : k < i => num[at(k)] <= x
  BY <1>1
<1>9. \A k \in 1 .. Len(c) + 1 : k > i => num[at(k)] > x
  <2> SUFFICES ASSUME NEW k \in 1 .. Len(c) + 1, k > i PROVE num[k - 1] > x
    BY <1>1
  <2>1. i \in 1..Len(c) /\ k - 1 \in 1..Len(c) /\ i <= k - 1
    BY <1>1
  <2>2. num[i] <= num[k - 1]
    BY <2>1, <1>1 DEF CacheNumbered
  <2>3. num[i] \in Int /\ num[k - 1] \in Int
    BY <2>1
  <2> QED BY <2>1, <2>2, <2>3
<1> HIDE DEF m, t, at
<1>10. \A k \in 1..Len(t) : t[k].seq = SeqAt(s, m[k]) /\ m[k] <= e + MaxDiff
  BY <1>1, <1>3, <1>4, <1>5 DEF CacheNumbered
<1>11. ASSUME NEW k \in 1..Len(t), isStream(t[k])
       PROVE  m[k] = t[k].id /\ m[k] >= e
  <2>1. CASE k = i
    BY <2>1, <1>5, <1>11
  <2>2. CASE k # i
    <3>1. at(k) \in 1..Len(c) /\ t[k] = c[at(k)] /\ m[k] = num[at(k)]
      BY <2>2, <1>1, <1>3, <1>4
    <3> QED BY <3>1, <1>11 DEF CacheNumbered
  <2> QED BY <2>1, <2>2
<1>12. ASSUME NEW k \in 1..Len(t), isStream(t[k]), NEW j \in 1..Len(t)
       PROVE  m[j] >= m[k] - 2 * MaxDiff
  <2>1. m[k] \in Int /\ m[j] \in Int
    BY <1>1, <1>6
  <2>2. CASE j = i
    BY <2>1, <2>2, <1>1, <1>5, <1>10
  <2>3. CASE j # i /\ k = i
    <3>1. num[at(j)] >= e
      BY <2>3, <1>1, <1>3, <1>5, <1>12
    <3> QED BY <2>1, <2>3, <3>1, <1>1, <1>4, <1>5
  <2>4. CASE j # i /\ k # i
    <3>1. /\ at(k) \in 1..Len(c) /\ t[k] = c[at(k)] /\ m[k] = num[at(k)]
          /\ at(j) \in 1..Len(c) /\ m[j] = num[at(j)]
      BY <2>4, <1>1, <1>3, <1>4
    <3> QED BY <3>1, <1>12 DEF CacheNumbered
  <2> QED BY <2>2, <2>3, <2>4
<1>13. ASSUME NEW j \in 1..Len(t), NEW k \in 1..Len(t), j < k
       PROVE  m[j] <= m[k] /\ (isStream(t[k]) => m[j] < m[k])
  <2>1. m[k] \in Int /\ m[j] \in Int
    BY <1>1, <1>6
  <2>2. CASE j = i
    <3>1. k # i /\ k > i
      BY <2>2, <1>13, <1>1
    <3> QED BY <2>1, <2>2, <3>1, <1>1, <1>4, <1>5, <1>9
  <2>3. CASE k = i
    <3>1. j # i /\ j < i
      BY <2>3, <1>13, <1>1
    <3>2. m[j] = num[at(j)] /\ at(j) \in 1..Len(c) /\ m[j] <= x
      BY <3>1, <1>1, <1>3, <1>4, <1>8
    <3>3. isStream(p) => m[j] # x
      BY <3>2
    <3> QED BY <2>1, <2>3, <3>2, <3>3, <1>5
  <2>4. CASE j # i /\ k # i
    BY <2>4, <1>13, <1>1, <1>3, <1>4, <1>7 DEF CacheNumbered
  <2> QED BY <2>2, <2>3, <2>4
<1>14. CacheNumbered(s, t, e, m)
  BY <1>10, <1>11, <1>12, <1>13 DEF CacheNumbered
<1> QED BY <1>6, <1>14 DEF t

-----------------------------------------------------------------------------
(* Packets of the stream are in its order.                                 *)
Ascending(t) ==
  \A i, j \in 1..Len(t) : i < j /\ isStream(t[i]) /\ isStream(t[j]) => t[i].id < t[j].id

(* The order InOrder speaks of, by itself.                                 *)
Ordered ==
  \A i, j \in 1..Len(out) :
    i < j /\ {out[i].id, out[j].id} \subseteq Sent => out[i].id < out[j].id

(* It says that out ascends.                                               *)
LEMMA OrderedIs == Ordered <=> Ascending(out)
BY DEF Ordered, Ascending, isStream

(* A packet newer than all may follow.                                     *)
LEMMA AscendingAppend ==
  ASSUME NEW S, NEW s \in Seq(S), NEW p \in S, Ascending(s),
         isStream(p) => \A q \in Elements(s) : isStream(q) => q.id < p.id
  PROVE  Ascending(Append(s, p))
<1> DEFINE t == Append(s, p)
<1>1. /\ Len(s) \in Nat /\ Len(t) = Len(s) + 1 /\ t[Len(s) + 1] = p
      /\ \A k \in 1 .. Len(s) : t[k] = s[k]
  BY LenProperties
<1> HIDE DEF t
<1>2. ASSUME NEW i \in 1..Len(t), NEW j \in 1..Len(t), i < j, isStream(t[i]), isStream(t[j])
      PROVE  t[i].id < t[j].id
  <2>1. i \in 1..Len(s) /\ t[i] = s[i]
    BY <1>1, <1>2
  <2>2. CASE j \in 1..Len(s)
    BY <1>1, <1>2, <2>1, <2>2 DEF Ascending
  <2>3. CASE j = Len(s) + 1
    <3>1. s[i] \in Elements(s)
      BY <2>1 DEF Elements
    <3> QED BY <1>1, <1>2, <2>1, <2>3, <3>1
  <2> QED BY <1>1, <2>2, <2>3
<1>3. Ascending(t)
  BY <1>2 DEF Ascending
<1> QED BY <1>3 DEF t

(* Newer packets may follow.                                               *)
LEMMA AscendingConcat ==
  ASSUME NEW S, NEW s \in Seq(S), NEW u \in Seq(S), Ascending(s), Ascending(u),
         \A q \in Elements(s), r \in Elements(u) : isStream(q) /\ isStream(r) => q.id < r.id
  PROVE  Ascending(s \o u)
<1> DEFINE t == s \o u
<1>1. /\ Len(s) \in Nat /\ Len(u) \in Nat /\ Len(t) = Len(s) + Len(u)
      /\ \A k \in 1 .. Len(s) + Len(u) :
           t[k] = IF k <= Len(s) THEN s[k] ELSE u[k - Len(s)]
  BY ConcatProperties, LenProperties
<1> HIDE DEF t
<1>2. ASSUME NEW i \in 1..Len(t), NEW j \in 1..Len(t), i < j, isStream(t[i]), isStream(t[j])
      PROVE  t[i].id < t[j].id
  <2>1. CASE j <= Len(s)
    <3>1. t[i] = s[i] /\ t[j] = s[j] /\ i \in 1..Len(s) /\ j \in 1..Len(s)
      BY <1>1, <1>2, <2>1
    <3> QED BY <1>2, <3>1 DEF Ascending
  <2>2. CASE i > Len(s)
    <3>1. /\ t[i] = u[i - Len(s)] /\ t[j] = u[j - Len(s)]
          /\ i - Len(s) \in 1..Len(u) /\ j - Len(s) \in 1..Len(u) /\ i - Len(s) < j - Len(s)
      BY <1>1, <1>2, <2>2
    <3> QED BY <1>2, <3>1 DEF Ascending
  <2>3. CASE i <= Len(s) /\ j > Len(s)
    <3>1. /\ t[i] = s[i] /\ t[j] = u[j - Len(s)]
          /\ i \in 1..Len(s) /\ j - Len(s) \in 1..Len(u)
      BY <1>1, <1>2, <2>3
    <3>2. t[i] \in Elements(s) /\ t[j] \in Elements(u)
      BY <3>1 DEF Elements
    <3> QED BY <1>2, <3>2
  <2> QED BY <1>1, <2>1, <2>2, <2>3
<1>3. Ascending(t)
  BY <1>2 DEF Ascending
<1> QED BY <1>3 DEF t

(* The cache is in the order of the stream.                                *)
LEMMA CacheAscending ==
  ASSUME NEW s, NEW c \in Seq(Packet), NEW e \in Nat, NEW num \in [1..Len(c) -> Int],
         CacheNumbered(s, c, e, num)
  PROVE  Ascending(c)
BY DEF CacheNumbered, Ascending

-----------------------------------------------------------------------------
(* Counting.                                                               *)

(* A sequence of n numbers has at most n different ones.                   *)
LEMMA ImageBound ==
  ASSUME NEW n \in Nat, NEW num \in [1..n -> Int]
  PROVE  /\ IsFiniteSet({num[k] : k \in 1..n})
         /\ Cardinality({num[k] : k \in 1..n}) <= n
<1> DEFINE C == {num[k] : k \in 1..n}
           g == [c \in C |-> CHOOSE k \in 1..n : num[k] = c]
<1>1. \A c \in C : g[c] \in 1..n /\ num[g[c]] = c
  <2> SUFFICES ASSUME NEW c \in C PROVE g[c] \in 1..n /\ num[g[c]] = c
    OBVIOUS
  <2>1. \E k \in 1..n : num[k] = c
    OBVIOUS
  <2>2. g[c] = CHOOSE k \in 1..n : num[k] = c
    BY Zenon
  <2> QED BY <2>1, <2>2, Zenon
<1>2. g \in [C -> 1..n]
  <2>1. DOMAIN g = C /\ g = [c \in DOMAIN g |-> g[c]]
    OBVIOUS
  <2> HIDE DEF g
  <2> QED BY <1>1, <2>1
<1> HIDE DEF g
<1>3. g \in Injection(C, 1..n)
  BY <1>1, <1>2 DEF Injection, IsInjective
<1>4. IsFiniteSet(1..n) /\ Cardinality(1..n) = n
  BY FS_Interval
<1>5. IsFiniteSet(C) /\ Cardinality(C) <= Cardinality(1..n)
  BY <1>3, <1>4, FS_Injection
<1> QED BY <1>4, <1>5

(* An interval covered by three sets.                                      *)
LEMMA ThreeParts ==
  ASSUME NEW a \in Int, NEW n \in Nat, NEW A, NEW B, NEW C,
         IsFiniteSet(A), IsFiniteSet(B), IsFiniteSet(C),
         a .. a + n - 1 \subseteq A \cup B \cup C
  PROVE  n <= Cardinality(A) + Cardinality(B) + Cardinality(C)
<1>1. IsFiniteSet(a .. a + n - 1) /\ Cardinality(a .. a + n - 1) = n
  <2>1. a + n - 1 \in Int
    OBVIOUS
  <2>2. /\ IsFiniteSet(a .. a + n - 1)
        /\ Cardinality(a .. a + n - 1) = IF a > a + n - 1 THEN 0 ELSE (a + n - 1) - a + 1
    BY <2>1, FS_Interval
  <2> QED BY <2>2
<1>2. /\ Cardinality(A) \in Nat /\ Cardinality(B) \in Nat /\ Cardinality(C) \in Nat
  BY FS_CardinalityType
<1>3. /\ IsFiniteSet(A \cup B) /\ Cardinality(A \cup B) <= Cardinality(A) + Cardinality(B)
      /\ Cardinality(A \cup B) \in Nat
  <2>1. /\ IsFiniteSet(A \cup B)
        /\ Cardinality(A \cup B) = Cardinality(A) + Cardinality(B) - Cardinality(A \cap B)
    BY FS_Union
  <2>2. Cardinality(A \cap B) \in Nat /\ Cardinality(A \cup B) \in Nat
    BY <2>1, FS_Intersection, FS_CardinalityType
  <2> QED BY <1>2, <2>1, <2>2
<1> DEFINE D == A \cup B
<1> HIDE DEF D
<1>4. IsFiniteSet(D) /\ Cardinality(D) \in Nat /\ Cardinality(D) <= Cardinality(A) + Cardinality(B)
  BY <1>3 DEF D
<1>5. /\ IsFiniteSet(D \cup C) /\ Cardinality(D \cup C) <= Cardinality(D) + Cardinality(C)
      /\ Cardinality(D \cup C) \in Nat
  <2>1. /\ IsFiniteSet(D \cup C)
        /\ Cardinality(D \cup C) = Cardinality(D) + Cardinality(C) - Cardinality(D \cap C)
    BY <1>4, FS_Union
  <2>2. Cardinality(D \cap C) \in Nat /\ Cardinality(D \cup C) \in Nat
    BY <1>4, <2>1, FS_Intersection, FS_CardinalityType
  <2> QED BY <1>2, <1>4, <2>1, <2>2
<1>6. n <= Cardinality(D \cup C)
  <2>1. (a .. a + n - 1) \in SUBSET (D \cup C)
    BY DEF D
  <2> QED BY <1>1, <1>5, <2>1, FS_Subset
<1> QED BY <1>2, <1>4, <1>5, <1>6

(* An interval of w numbers has no room for more of them.                  *)
LEMMA TooMany ==
  ASSUME NEW n \in Nat, NEW num \in [1..n -> Int], NEW e \in Int, NEW w \in Nat, w < n,
         \A k \in 1..n : e < num[k] /\ num[k] <= e + w,
         \A j, k \in 1..n : j < k => num[j] < num[k]
  PROVE  FALSE
<1>1. IsFiniteSet(1..n) /\ Cardinality(1..n) = n
  BY FS_Interval
<1>2. IsFiniteSet(e + 1 .. e + w) /\ Cardinality(e + 1 .. e + w) = w
  <2>1. e + 1 \in Int /\ e + w \in Int
    OBVIOUS
  <2>2. /\ IsFiniteSet(e + 1 .. e + w)
        /\ Cardinality(e + 1 .. e + w) = IF e + 1 > e + w THEN 0 ELSE (e + w) - (e + 1) + 1
    BY <2>1, FS_Interval
  <2> QED BY <2>2
<1>3. num \in [1..n -> e + 1 .. e + w]
  OBVIOUS
<1>4. \E j, k \in 1..n : j # k /\ num[j] = num[k]
  BY <1>1, <1>2, <1>3, FS_PigeonHole
<1> QED BY <1>4

(* The session is in one of three modes: nothing has arrived; or the       *)
(* stream is over and the cache holds strays only; or packet e of the      *)
(* stream is expected, the cache is numbered relative to it, all packets   *)
(* before it are handed on or lost, none after it is handed on, and the    *)
(* scan has not passed over it.                                            *)
Fresh ==
  /\ mNextSequenceNumber = -1 /\ arrived = {}
  /\ mBufferCache = <<>> /\ out = <<>> /\ pc = "recv"

Over ==
  /\ Sent \subseteq arrived \cup lost
  /\ \A q \in Elements(mBufferCache) : ~isStream(q)

Numbered(e, num) ==
  /\ mNextSequenceNumber = SeqAt(start, e)
  /\ CacheNumbered(start, mBufferCache, e, num)
  /\ \A q \in Elements(out) : isStream(q) => q.id < e
  /\ \A i \in Sent : i < e => i \in lost \/ handedOn(i)
  /\ pc = "scan" =>
       \A k \in 1..Len(mBufferCache) : k < it /\ isStream(mBufferCache[k]) => num[k] # e

Mode ==
  \/ Fresh
  \/ Over
  \/ \E e \in Nat : \E num \in [1..Len(mBufferCache) -> Int] : Numbered(e, num)

(* Numbers are decoded as sent and no repetition or latecomer has come.    *)
undisturbed == ~charIsSigned /\ extra = 0

(* The inductive invariant of a session.                                   *)
SessionInv ==
  /\ RtpIInv
  /\ start \in SeqNum /\ extra \in Nat
  /\ undisturbed => SessionFacts /\ Ordered /\ Mode

(* What lies before a packet that arrives is lost, cached or one of the    *)
(* Window packets before it.                                               *)
LEMMA BeforeArrival ==
  ASSUME RtpIInv, SessionFacts, NEW e \in Nat, NEW num \in [1..Len(mBufferCache) -> Int],
         Numbered(e, num), NEW i \in Sent, deliver(i)
  PROVE  /\ i \in Nat /\ e <= i
         /\ \A k \in 1..Len(mBufferCache) : isStream(mBufferCache[k]) /\ num[k] # i
         /\ \A a \in e .. i - 1 : a \in Sent
         /\ \A a \in e .. i - 1 : \/ a \in lost
                                  \/ \E k \in 1..Len(mBufferCache) : num[k] = a
                                  \/ a >= i - Window /\ a \notin arrived \cup lost
<1>1. i \in Nat /\ 0 .. i \subseteq Sent /\ Window \in Nat
  BY StreamAssumption, DisorderAssumption
<1>2. i \notin arrived \cup lost /\ \A j \in Sent : j < i - Window => j \in arrived \cup lost
  BY DEF deliver
<1>3. e <= i
  <2> SUFFICES ASSUME i < e PROVE FALSE
    BY <1>1
  <2>1. handedOn(i)
    BY <1>2 DEF Numbered
  <2>2. i \in arrived
    BY <2>1, HandedOn DEF SessionFacts, Held
  <2> QED BY <1>2, <2>2
<1>4. arrived \subseteq Sent
  BY <1>2 DEF SessionFacts
<1>5. ASSUME NEW k \in 1..Len(mBufferCache)
      PROVE  isStream(mBufferCache[k]) /\ num[k] # i
  <2>1. mBufferCache[k].id \in arrived
    BY DEF SessionFacts, Held, Elements
  <2>2. isStream(mBufferCache[k])
    BY <1>4, <2>1 DEF isStream
  <2>3. num[k] = mBufferCache[k].id
    BY <2>2 DEF Numbered, CacheNumbered
  <2> QED BY <1>2, <2>1, <2>2, <2>3
<1>6. ASSUME NEW a \in e .. i - 1
      PROVE  a \in Sent /\ (\/ a \in lost
                            \/ \E k \in 1..Len(mBufferCache) : num[k] = a
                            \/ a >= i - Window /\ a \notin arrived \cup lost)
  <2>1. a \in Sent /\ a \in Nat
    BY <1>1
  <2>2. CASE a \in arrived
    <3>1. PICK q \in Held : q.id = a
      BY <2>1, <2>2 DEF SessionFacts
    <3>2. q \notin Elements(out)
      <4>1. q \in Elements(out) => q.id < e
        BY <2>1, <3>1 DEF Numbered, isStream
      <4> QED BY <3>1, <4>1
    <3>3. PICK k \in 1..Len(mBufferCache) : mBufferCache[k] = q
      BY <3>1, <3>2 DEF Held, Elements
    <3>4. num[k] = a
      BY <1>5, <3>1, <3>3 DEF Numbered, CacheNumbered
    <3> QED BY <2>1, <3>4
  <2>3. CASE a \notin arrived \cup lost
    <3>1. ~(a < i - Window)
      BY <1>2, <2>1, <2>3
    <3> QED BY <1>1, <2>1, <2>3, <3>1
  <2>4. CASE a \in lost
    BY <2>1, <2>4
  <2> QED BY <2>2, <2>3, <2>4
<1> QED BY <1>1, <1>3, <1>5, <1>6

(* A packet of the stream arrives within twice MaxDiff of the expected     *)
(* one: the packets beyond MaxDiff are not cached.                         *)
LEMMA ArrivesNear ==
  ASSUME RtpIInv, SessionFacts, NEW e \in Nat, NEW num \in [1..Len(mBufferCache) -> Int],
         Numbered(e, num), NEW i \in Sent, deliver(i)
  PROVE  i <= e + 2 * MaxDiff
<1>1. /\ i \in Nat /\ Window \in Nat /\ MaxLost \in Nat /\ MaxDiff \in Nat /\ MaxCache \in Nat
      /\ MaxCache >= 2 /\ Window + MaxLost + MaxCache - 1 <= MaxDiff
  BY StreamAssumption, DisorderAssumption, RtpAssumption
<1> SUFFICES ASSUME i > e + 2 * MaxDiff PROVE FALSE
  BY <1>1
<1> DEFINE a == e + MaxDiff + 1
           L == lost \cap (a .. a + MaxDiff - 1)
           U == i - Window .. i - 1
<1>2. a \in e .. i - 1 /\ a \in Sent /\ a \in Int
  <2>1. a \in e .. i - 1
    BY <1>1
  <2> QED BY <2>1, BeforeArrival
<1>3. IsFiniteSet(L) /\ Cardinality(L) <= MaxLost /\ Cardinality(L) \in Nat
  <2>1. IsFiniteSet(a .. a + MaxDiff - 1)
    <3>1. a + MaxDiff - 1 \in Int
      BY <1>1
    <3> QED BY <1>2, <3>1, FS_Interval
  <2>2. L \in SUBSET (a .. a + MaxDiff - 1)
    OBVIOUS
  <2>3. IsFiniteSet(L) /\ Cardinality(L) \in Nat
    BY <2>1, <2>2, FS_Subset, FS_CardinalityType
  <2>4. Cardinality(L) <= MaxLost
    BY <1>2 DEF SessionFacts
  <2> QED BY <2>3, <2>4
<1>4. IsFiniteSet(U) /\ Cardinality(U) = Window
  <2>1. i - Window \in Int /\ i - 1 \in Int
    BY <1>1
  <2>2. /\ IsFiniteSet(U)
        /\ Cardinality(U) = IF i - Window > i - 1 THEN 0 ELSE (i - 1) - (i - Window) + 1
    BY <2>1, FS_Interval
  <2> QED BY <1>1, <2>2
<1>5. IsFiniteSet({}) /\ Cardinality({}) = 0
  BY FS_EmptySet
<1>6. a .. a + MaxDiff - 1 \subseteq L \cup U \cup {}
  <2> SUFFICES ASSUME NEW b \in a .. a + MaxDiff - 1 PROVE b \in L \cup U
    OBVIOUS
  <2>1. b \in e .. i - 1 /\ b > e + MaxDiff
    BY <1>1
  <2>2. ~\E k \in 1..Len(mBufferCache) : num[k] = b
    BY <1>1, <2>1 DEF Numbered, CacheNumbered
  <2>3. b \in lost \/ b >= i - Window
    BY <2>1, <2>2, BeforeArrival
  <2> QED BY <1>1, <2>1, <2>3
<1> HIDE DEF L, U
<1>7. MaxDiff <= Cardinality(L) + Cardinality(U) + Cardinality({})
  BY <1>1, <1>2, <1>3, <1>4, <1>5, <1>6, ThreeParts
<1> QED BY <1>1, <1>3, <1>4, <1>5, <1>7

(* A packet that is taken for a discontinuity has not been overtaken and   *)
(* overtakes none.                                                         *)
LEMMA FarArrival ==
  ASSUME RtpIInv, SessionFacts, NEW e \in Nat, NEW num \in [1..Len(mBufferCache) -> Int],
         Numbered(e, num), NEW i \in Sent, deliver(i), i > e + MaxDiff
  PROVE  Window = 0
<1>1. /\ i \in Nat /\ Window \in Nat /\ MaxLost \in Nat /\ MaxDiff \in Nat /\ MaxCache \in Nat
      /\ MaxCache >= 2 /\ Window + MaxLost + MaxCache - 1 <= MaxDiff
  BY StreamAssumption, DisorderAssumption, RtpAssumption
<1>2. Len(mBufferCache) \in Nat /\ Len(mBufferCache) < MaxCache
  <2>1. pc = "recv"
    BY DEF deliver, processRtpPacket, sequence, inOrder, discontinuity, cachePacket, receive
  <2> QED BY <2>1, LenProperties DEF RtpIInv, RtpTypeOK, NeverAborts
<1> SUFFICES ASSUME Window > 0 PROVE FALSE
  BY <1>1
<1> DEFINE L == lost \cap (e .. e + MaxDiff - 1)
           C == {num[k] : k \in 1..Len(mBufferCache)}
           U == i - Window .. e + MaxDiff - 1
<1>3. IsFiniteSet(L) /\ Cardinality(L) <= MaxLost /\ Cardinality(L) \in Nat
  <2>1. IsFiniteSet(e .. e + MaxDiff - 1)
    <3>1. e \in Int /\ e + MaxDiff - 1 \in Int
      BY <1>1
    <3> QED BY <3>1, FS_Interval
  <2>2. L \in SUBSET (e .. e + MaxDiff - 1)
    OBVIOUS
  <2>3. IsFiniteSet(L) /\ Cardinality(L) \in Nat
    BY <2>1, <2>2, FS_Subset, FS_CardinalityType
  <2>4. e \in Sent
    <3>1. e \in e .. i - 1
      BY <1>1
    <3> QED BY <3>1, BeforeArrival
  <2>5. Cardinality(L) <= MaxLost
    BY <2>4 DEF SessionFacts
  <2> QED BY <2>3, <2>5
<1>4. IsFiniteSet(C) /\ Cardinality(C) < MaxCache /\ Cardinality(C) \in Nat
  <2>1. IsFiniteSet(C) /\ Cardinality(C) <= Len(mBufferCache)
    BY <1>2, ImageBound
  <2>2. Cardinality(C) \in Nat
    BY <2>1, FS_CardinalityType
  <2> QED BY <1>1, <1>2, <2>1, <2>2
<1>5. IsFiniteSet(U) /\ Cardinality(U) < Window /\ Cardinality(U) \in Nat
  <2>1. i - Window \in Int /\ e + MaxDiff - 1 \in Int
    BY <1>1
  <2>2. /\ IsFiniteSet(U)
        /\ Cardinality(U) = IF i - Window > e + MaxDiff - 1 THEN 0
                            ELSE (e + MaxDiff - 1) - (i - Window) + 1
    BY <2>1, FS_Interval
  <2> QED BY <1>1, <2>2
<1>6. e .. e + MaxDiff - 1 \subseteq L \cup C \cup U
  <2> SUFFICES ASSUME NEW b \in e .. e + MaxDiff - 1 PROVE b \in L \cup C \cup U
    OBVIOUS
  <2>1. b \in e .. i - 1
    BY <1>1
  <2>2. b \in lost \/ b \in C \/ b >= i - Window
    BY <2>1, BeforeArrival
  <2> QED BY <1>1, <2>1, <2>2
<1> HIDE DEF L, C, U
<1>7. MaxDiff <= Cardinality(L) + Cardinality(C) + Cardinality(U)
  <2>1. e \in Int
    OBVIOUS
  <2> QED BY <1>1, <2>1, <1>3, <1>4, <1>5, <1>6, ThreeParts
<1> QED BY <1>1, <1>3, <1>4, <1>5, <1>7

(* The expected packet, once it has arrived, is in the cache.              *)
LEMMA ExpectedIsCached ==
  ASSUME SessionFacts, NEW e \in Nat, NEW num \in [1..Len(mBufferCache) -> Int],
         Numbered(e, num), e \in Sent, e \in arrived
  PROVE  \E k \in 1..Len(mBufferCache) : isStream(mBufferCache[k]) /\ num[k] = e
<1>1. PICK q \in Held : q.id = e
  BY DEF SessionFacts
<1>2. q \notin Elements(out)
  BY <1>1 DEF Numbered, isStream
<1>3. PICK k \in 1..Len(mBufferCache) : mBufferCache[k] = q
  BY <1>1, <1>2 DEF Held, Elements
<1>4. isStream(mBufferCache[k])
  BY <1>1, <1>3 DEF isStream
<1>5. num[k] = e
  BY <1>1, <1>3, <1>4 DEF Numbered, CacheNumbered
<1> QED BY <1>4, <1>5

(* A stray in the cache means that the stream is over.                     *)
LEMMA StrayMeansEnd ==
  ASSUME SessionFacts, NEW q \in Held, ~isStream(q)
  PROVE  Sent \subseteq arrived \cup lost
BY DEF SessionFacts, isStream

(* With the stream over and no packet of it cached, only strays follow.    *)
LEMMA OverScan ==
  ASSUME RtpIInv, Ordered, Over, processCachedBuffers, UNCHANGED netVars
  PROVE  Ordered' /\ Over'
<1>1. mBufferCache \in Seq(Packet) /\ out \in Seq(Packet) /\ it \in Nat \ {0}
  BY DEF RtpIInv, RtpTypeOK
<1>2. CASE scanPush
  <2>1. /\ it \in 1 .. Len(mBufferCache) /\ mBufferCache[it] \in Packet
        /\ out' = Append(out, mBufferCache[it]) /\ mBufferCache' = Erase(mBufferCache, it)
    BY <1>1, <1>2, ElementOfSeq, LenProperties DEF scanPush, scanning
  <2>2. mBufferCache[it] \in Elements(mBufferCache)
    BY <2>1 DEF Elements
  <2>3. Ascending(Append(out, mBufferCache[it]))
    BY <1>1, <2>1, <2>2, AscendingAppend, OrderedIs DEF Over
  <2>4. Ascending(out') <=> Ordered'
    BY DEF Ordered, Ascending, isStream
  <2>5. Elements(mBufferCache') \subseteq Elements(mBufferCache)
    BY <1>1, <2>1, EraseKeeps
  <2> QED BY <2>1, <2>3, <2>4, <2>5 DEF Over, netVars
<1>3. CASE scanSkip \/ scanAgain \/ giveUpMissing \/ scanEnd
  <2>1. out' = out /\ mBufferCache' = mBufferCache
    BY <1>3 DEF scanSkip, scanAgain, giveUpMissing, scanEnd
  <2> QED BY <2>1 DEF Over, Ordered, netVars
<1> QED BY <1>2, <1>3 DEF processCachedBuffers

(* ... and a stray that arrives keeps it so.                               *)
LEMMA OverStray ==
  ASSUME RtpIInv, Ordered, Over, NEW p \in Packet, ~isStream(p), sequence(p),
         arrived' = arrived \cup {p.id}, UNCHANGED <<start, lost>>
  PROVE  Ordered' /\ Over'
<1>1. mBufferCache \in Seq(Packet) /\ out \in Seq(Packet)
  BY DEF RtpIInv, RtpTypeOK
<1>2. (Sent \subseteq arrived \cup lost)'
  BY DEF Over
<1>3. Ascending(out) /\ (Ascending(out') <=> Ordered')
  BY OrderedIs DEF Ordered, Ascending, isStream
<1>4. CASE inOrder(p)
  <2>1. out' = Append(out, p) /\ mBufferCache' = mBufferCache
    BY <1>4 DEF inOrder
  <2>2. Ascending(Append(out, p))
    BY <1>1, <1>3, AscendingAppend
  <2> QED BY <1>2, <1>3, <2>1, <2>2 DEF Over
<1>5. CASE discontinuity(p)
  <2>1. out' = (out \o mBufferCache) \o <<p>> /\ mBufferCache' = <<>>
    BY <1>5 DEF discontinuity
  <2>2. Ascending(mBufferCache)
    BY DEF Ascending, Over, Elements
  <2>3. Ascending(out \o mBufferCache) /\ out \o mBufferCache \in Seq(Packet)
    BY <1>1, <1>3, <2>2, AscendingConcat, ConcatProperties DEF Over
  <2>4. (out \o mBufferCache) \o <<p>> = Append(out \o mBufferCache, p)
    BY <2>3
  <2>5. Ascending(out')
    BY <2>1, <2>3, <2>4, AscendingAppend
  <2>6. Elements(mBufferCache') = {}
    BY <2>1 DEF Elements
  <2> QED BY <1>2, <1>3, <2>5, <2>6 DEF Over
<1>6. CASE cachePacket(p)
  <2>1. Len(mBufferCache) < MaxCache /\ out' = out
    BY <1>6 DEF cachePacket, receive, RtpIInv, NeverAborts
  <2>2. PICK i \in 1 .. Len(mBufferCache) + 1 : mBufferCache' = Insert(mBufferCache, i, p)
    BY <1>6, <2>1 DEF cachePacket
  <2>3. Elements(mBufferCache') = Elements(mBufferCache) \cup {p}
    BY <1>1, <2>2, InsertKeeps
  <2> QED BY <1>2, <1>3, <2>1, <2>3 DEF Over
<1> QED BY <1>4, <1>5, <1>6 DEF sequence

-----------------------------------------------------------------------------
(* The expected packet, or a stray that has its number.                    *)
LEMMA ExpectedArrives ==
  ASSUME RtpIInv, SessionFacts, Ordered,
         NEW e \in Nat, NEW num \in [1..Len(mBufferCache) -> Int], Numbered(e, num),
         NEW p \in Packet, inOrder(p), isStream(p) => p.id = e,
         ~isStream(p) => Sent \subseteq arrived \cup lost,
         arrived' = arrived \cup {p.id}, UNCHANGED <<start, lost>>
  PROVE  Ordered' /\ Mode'
<1>1. mBufferCache \in Seq(Packet) /\ out \in Seq(Packet) /\ start \in SeqNum
  BY DEF RtpIInv, RtpTypeOK, SessionFacts
<1>2. /\ out' = Append(out, p) /\ mBufferCache' = mBufferCache /\ it' = 1
      /\ mNextSequenceNumber' = following(p.seq) /\ pc = "recv"
  BY DEF inOrder, receive, thenScan
<1>3. mNextSequenceNumber' = SeqAt(start, e + 1)
  <2>1. SeqAt(start, e) # -1 /\ e \in Int
    <3>1. e \in Int
      OBVIOUS
    <3>2. SeqAt(start, e) \in 0 .. Modulus - 1
      BY <1>1, <3>1, SeqAtFacts
    <3> QED BY <3>1, <3>2, ModulusFacts
  <2>2. p.seq = SeqAt(start, e)
    BY <2>1 DEF inOrder, Numbered
  <2> QED BY <1>1, <1>2, <2>1, <2>2, NextNumber
<1>4. \A k \in 1..Len(mBufferCache) : num[k] # e
  BY <1>2 DEF RtpIInv, NothingOverdue, Numbered, CacheNumbered
<1>5. CacheNumbered(start, mBufferCache, e + 1, num)
  <2>1. \A k \in 1..Len(mBufferCache) : isStream(mBufferCache[k]) => num[k] >= e + 1
    BY <1>4 DEF Numbered, CacheNumbered
  <2>2. e + 1 \in Nat /\ e <= e + 1
    OBVIOUS
  <2> QED BY <1>1, <2>1, <2>2, AdvanceNumbered DEF Numbered
<1>6. Elements(out') = Elements(out) \cup {p}
  BY <1>1, <1>2, AppendElements
<1>7. \A q \in Elements(out') : isStream(q) => q.id < e + 1
  <2>1. \A q \in Elements(out) : isStream(q) => q.id \in Nat /\ q.id < e
    BY StreamAssumption DEF Numbered, isStream
  <2> QED BY <1>6, <2>1
<1>8. ASSUME NEW i \in Sent, i < e + 1 PROVE i \in lost' \/ handedOn(i)'
  <2>1. i \in Nat
    BY StreamAssumption
  <2>2. handedOn(i) => handedOn(i)'
    BY <1>6, HandedOn, HandedOnNext
  <2>3. CASE i < e
    BY <2>2, <2>3 DEF Numbered
  <2>4. CASE i = e /\ isStream(p)
    <3>1. p \in Elements(out') /\ p.id = i
      BY <1>6, <2>4
    <3> QED BY <3>1 DEF handedOn, Elements
  <2>5. CASE i = e /\ ~isStream(p)
    <3>1. i \notin arrived
      BY <1>4, <2>5, ExpectedIsCached
    <3> QED BY <2>5, <3>1
  <2> QED BY <1>8, <2>1, <2>3, <2>4, <2>5
<1>9. Numbered(e + 1, num)'
  <2>1. \A k \in 1..Len(mBufferCache') : ~(k < it')
    BY <1>2
  <2> QED BY <1>2, <1>3, <1>5, <1>7, <1>8, <2>1 DEF Numbered
<1>10. Ordered'
  <2>1. isStream(p) => \A q \in Elements(out) : isStream(q) => q.id < p.id
    BY DEF Numbered
  <2>2. Ascending(out')
    BY <1>1, <1>2, <2>1, AscendingAppend, OrderedIs
  <2> QED BY <2>2 DEF Ordered, Ascending, isStream
<1>11. e + 1 \in Nat /\ num \in [1..Len(mBufferCache') -> Int]
  BY <1>2
<1> QED BY <1>9, <1>10, <1>11 DEF Mode

(* The cache is handed on and the packet after it.                         *)
LEMMA Flush ==
  ASSUME RtpIInv, SessionFacts, Ordered,
         NEW e \in Nat, NEW num \in [1..Len(mBufferCache) -> Int], Numbered(e, num),
         NEW p \in Packet, discontinuity(p),
         isStream(p) =>
           /\ p.id >= e
           /\ \A k \in 1..Len(mBufferCache) : isStream(mBufferCache[k]) => num[k] < p.id
  PROVE  /\ Ordered' /\ mBufferCache' = <<>>
         /\ Elements(out') = Held \cup {p}
<1>1. mBufferCache \in Seq(Packet) /\ out \in Seq(Packet)
  BY DEF RtpIInv, RtpTypeOK
<1>2. out' = (out \o mBufferCache) \o <<p>> /\ mBufferCache' = <<>>
  BY DEF discontinuity
<1>3. Ascending(mBufferCache) /\ Ascending(out)
  BY <1>1, CacheAscending, OrderedIs DEF Numbered
<1>4. ASSUME NEW q \in Elements(mBufferCache), isStream(q)
      PROVE  q.id \in Nat /\ q.id >= e /\ (isStream(p) => q.id < p.id)
  <2>1. PICK k \in 1..Len(mBufferCache) : mBufferCache[k] = q
    BY DEF Elements
  <2>2. num[k] = q.id /\ num[k] >= e
    BY <1>4, <2>1 DEF Numbered, CacheNumbered
  <2>3. q.id \in Nat
    BY <1>4, StreamAssumption DEF isStream
  <2> QED BY <1>4, <2>1, <2>2, <2>3
<1>5. \A q \in Elements(out) : isStream(q) => q.id \in Nat /\ q.id < e
  BY StreamAssumption DEF Numbered, isStream
<1>6. \A q \in Elements(out), r \in Elements(mBufferCache) :
        isStream(q) /\ isStream(r) => q.id < r.id
  BY <1>4, <1>5
<1>7. /\ Ascending(out \o mBufferCache) /\ out \o mBufferCache \in Seq(Packet)
      /\ Elements(out \o mBufferCache) = Held
  BY <1>1, <1>3, <1>6, AscendingConcat, ConcatProperties, ConcatElements DEF Held
<1>8. out' = Append(out \o mBufferCache, p)
  BY <1>2, <1>7
<1>9. isStream(p) => \A q \in Held : isStream(q) => q.id < p.id
  <2>1. isStream(p) => p.id \in Nat
    BY StreamAssumption DEF isStream
  <2> QED BY <1>4, <1>5, <2>1 DEF Held
<1>10. Ascending(out') /\ Elements(out') = Held \cup {p}
  <2> DEFINE t == out \o mBufferCache
  <2> HIDE DEF t
  <2>1. Ascending(t) /\ t \in Seq(Packet) /\ Elements(t) = Held /\ out' = Append(t, p)
    BY <1>7, <1>8 DEF t
  <2>2. isStream(p) => \A q \in Elements(t) : isStream(q) => q.id < p.id
    BY <1>9, <2>1
  <2>3. Ascending(Append(t, p))
    BY <2>1, <2>2, AscendingAppend
  <2>4. Elements(Append(t, p)) = Elements(t) \cup {p}
    BY <2>1, AppendElements
  <2> QED BY <2>1, <2>3, <2>4
<1> QED BY <1>2, <1>10 DEF Ordered, Ascending, isStream

(* A packet near the expected one goes to its place in the cache.          *)
LEMMA CachedArrives ==
  ASSUME WideRange, RtpIInv, SessionFacts, Ordered,
         NEW e \in Nat, NEW num \in [1..Len(mBufferCache) -> Int], Numbered(e, num),
         NEW p \in Packet, cachePacket(p), NEW x \in Int, p.seq = SeqAt(start, x),
         e - MaxDiff <= x, x <= e + MaxDiff,
         isStream(p) =>
           x = p.id /\ x >= e /\ \A k \in 1..Len(mBufferCache) : num[k] >= e /\ num[k] # x,
         \A k \in 1..Len(mBufferCache) : num[k] >= e - 2 * MaxDiff,
         UNCHANGED <<start, lost>>
  PROVE  Ordered' /\ Mode'
<1>1. /\ mBufferCache \in Seq(Packet) /\ out \in Seq(Packet) /\ start \in SeqNum
      /\ Len(mBufferCache) \in Nat /\ MaxDiff \in Nat /\ Mid \in Nat
  BY ModulusFacts, LenProperties DEF RtpIInv, RtpTypeOK, SessionFacts
<1>2. Len(mBufferCache) < MaxCache /\ out' = out /\ mNextSequenceNumber' = mNextSequenceNumber
  BY DEF cachePacket, receive, RtpIInv, NeverAborts
<1>3. PICK i \in 1 .. Len(mBufferCache) + 1 :
        insertAt(i, p.seq) /\ mBufferCache' = Insert(mBufferCache, i, p)
  BY <1>2 DEF cachePacket
<1>4. it' = 1
  BY <1>2 DEF cachePacket, thenScan
<1>5. ASSUME NEW k \in 1..Len(mBufferCache)
      PROVE  /\ num[k] \in Int /\ mBufferCache[k].seq = SeqAt(start, num[k])
             /\ num[k] - x < Mid /\ x - num[k] < Mid
  <2>1. num[k] <= e + MaxDiff /\ mBufferCache[k].seq = SeqAt(start, num[k])
    BY DEF Numbered, CacheNumbered
  <2> QED BY <1>1, <2>1 DEF WideRange
<1>6. ASSUME NEW j \in 1 .. i - 1 PROVE num[j] <= x
  <2>1. j \in 1..Len(mBufferCache)
    BY <1>1
  <2>2. diffSequenceNumber(SeqAt(start, num[j]), SeqAt(start, x)) <= 0
    BY <1>3, <1>5, <2>1 DEF insertAt
  <2>3. num[j] > x => diffSequenceNumber(SeqAt(start, num[j]), SeqAt(start, x)) > 0
    BY <1>1, <1>5, <2>1, DiffOrders
  <2>4. diffSequenceNumber(SeqAt(start, num[j]), SeqAt(start, x)) \in Int
    BY <1>1, <1>5, <2>1, DiffType
  <2> QED BY <1>5, <2>1, <2>2, <2>3, <2>4
<1>7. ASSUME i <= Len(mBufferCache) PROVE num[i] > x
  <2>1. i \in 1..Len(mBufferCache)
    BY <1>1, <1>7
  <2>2. diffSequenceNumber(SeqAt(start, num[i]), SeqAt(start, x)) > 0
    BY <1>3, <1>5, <1>7, <2>1 DEF insertAt
  <2>3. num[i] <= x => diffSequenceNumber(SeqAt(start, num[i]), SeqAt(start, x)) = num[i] - x
    BY <1>1, <1>5, <2>1, DiffOrders
  <2> QED BY <1>5, <2>1, <2>2, <2>3
<1>8. PICK m \in [1 .. Len(mBufferCache) + 1 -> Int] :
        CacheNumbered(start, Insert(mBufferCache, i, p), e, m)
  <2>1. CacheNumbered(start, mBufferCache, e, num)
    BY DEF Numbered
  <2> QED BY <1>1, <1>6, <1>7, <2>1, InsertNumbered
<1>9. Len(mBufferCache') = Len(mBufferCache) + 1
  BY <1>1, <1>3, InsertFacts
<1>10. Numbered(e, m)'
  <2>1. \A k \in 1..Len(mBufferCache') : ~(k < it')
    BY <1>4
  <2>2. \A i1 : handedOn(i1)' <=> handedOn(i1)
    BY <1>2 DEF handedOn
  <2> QED BY <1>2, <1>3, <1>8, <2>1, <2>2 DEF Numbered
<1>11. m \in [1..Len(mBufferCache') -> Int]
  BY <1>8, <1>9
<1>12. Ordered'
  BY <1>2 DEF Ordered
<1> QED BY <1>10, <1>11, <1>12 DEF Mode

-----------------------------------------------------------------------------
(* A packet of the stream.                                                 *)
LEMMA DeliverMode ==
  ASSUME WideRange, RtpIInv, SessionFacts, Ordered, Mode, ~charIsSigned, NEW i \in Sent,
         deliver(i)
  PROVE  Ordered' /\ Mode'
<1> DEFINE p == [id |-> i, seq |-> (start + i) % Modulus]
<1>1. /\ start \in SeqNum /\ i \in Nat /\ i \in Int /\ MaxDiff \in Nat /\ Mid \in Nat
      /\ Modulus \in Nat /\ 2 * Mid <= Modulus /\ 3 * MaxDiff < Mid
  BY StreamAssumption, ModulusFacts DEF SessionFacts, WideRange
<1>2. p.seq = SeqAt(start, i) /\ p.id = i /\ SeqAt(start, i) \in SeqNum
  BY <1>1, SeqAtFacts DEF SeqAt
<1>3. p \in Packet /\ isStream(p)
  BY <1>2 DEF Packet, isStream, Sent, SeqAt
<1>4. /\ sequence(p) /\ arrived' = arrived \cup {i} /\ UNCHANGED <<start, lost>>
      /\ i \notin arrived \cup lost
  BY <1>3, DecodedPacket DEF deliver, processRtpPacket, number
<1> HIDE DEF p
<1>5. ~Over
  BY <1>4 DEF Over
<1>6. CASE Fresh
  <2>1. inOrder(p)
    BY <1>4, <1>6 DEF sequence, discontinuity, cachePacket, farAway, Fresh
  <2>2. /\ out' = <<p>> /\ mBufferCache' = <<>> /\ it' = 1
        /\ mNextSequenceNumber' = SeqAt(start, i + 1)
    BY <1>1, <1>2, <1>6, <2>1, NextNumber DEF inOrder, thenScan, Fresh
  <2>3. \A j \in Sent : j < i => j \in lost
    BY <1>6 DEF deliver, Fresh
  <2>4. handedOn(i)'
    BY <1>2, <2>2 DEF handedOn
  <2>5. \A q \in Elements(out') : q = p
    BY <2>2 DEF Elements
  <2>6. \A j \in Sent : j < i + 1 => j \in lost' \/ handedOn(j)'
    <3> SUFFICES ASSUME NEW j \in Sent, j < i + 1 PROVE j \in lost \/ handedOn(j)'
      BY <1>4
    <3>1. j \in Nat
      BY StreamAssumption
    <3>2. j < i \/ j = i
      BY <1>1, <3>1
    <3> QED BY <2>3, <2>4, <3>2
  <2>7. Numbered(i + 1, <<>>)'
    <3>1. CacheNumbered(start', <<>>, i + 1, <<>>)
      BY DEF CacheNumbered
    <3>2. \A q \in Elements(out') : isStream(q) => q.id < i + 1
      BY <1>1, <1>2, <2>5
    <3> QED BY <1>4, <2>2, <2>6, <3>1, <3>2 DEF Numbered
  <2>8. <<>> \in [1..Len(mBufferCache') -> Int] /\ i + 1 \in Nat
    BY <1>1, <2>2
  <2>9. Ordered'
    BY <2>2 DEF Ordered
  <2> QED BY <2>7, <2>8, <2>9 DEF Mode
<1>7. ASSUME NEW e \in Nat, NEW num \in [1..Len(mBufferCache) -> Int], Numbered(e, num)
      PROVE  Ordered' /\ Mode'
  <2>1. /\ e <= i /\ i <= e + 2 * MaxDiff
        /\ \A k \in 1..Len(mBufferCache) : isStream(mBufferCache[k]) /\ num[k] # i
    BY <1>7, BeforeArrival, ArrivesNear
  <2>2. mNextSequenceNumber = SeqAt(start, e) /\ SeqAt(start, e) # -1 /\ e \in Int
    <3>1. e \in Int
      OBVIOUS
    <3>2. SeqAt(start, e) \in 0 .. Modulus - 1
      BY <1>1, <3>1, SeqAtFacts
    <3> QED BY <1>1, <1>7, <3>1, <3>2 DEF Numbered
  <2>3. \A k \in 1..Len(mBufferCache) : num[k] \in Int /\ num[k] >= e /\ num[k] = mBufferCache[k].id
    BY <1>7, <2>1 DEF Numbered, CacheNumbered
  <2>4. diffSequenceNumber(mNextSequenceNumber, p.seq) = e - i
    BY <1>1, <1>2, <2>1, <2>2, DiffOrders
  <2>5. CASE inOrder(p)
    <3>1. SeqAt(start, i) = SeqAt(start, e)
      BY <1>2, <2>2, <2>5 DEF inOrder
    <3>2. i = e
      <4>1. i - e < Modulus /\ e - i < Modulus
        BY <1>1, <2>1
      <4> QED BY <1>1, <2>2, <3>1, <4>1, SameNumber
    <3> QED BY <1>2, <1>3, <1>4, <1>7, <2>5, <3>2, ExpectedArrives
  <2>6. CASE cachePacket(p)
    <3>1. ~farAway(p) /\ mNextSequenceNumber \notin {p.seq, -1}
      BY <2>6 DEF cachePacket
    <3>2. Abs(e - i) <= MaxDiff
      <4>1. ~(Abs(e - i) > MaxDiff)
        BY <2>4, <3>1 DEF farAway
      <4> QED BY <1>1, <4>1 DEF Abs
    <3>3. i <= e + MaxDiff
      BY <1>1, <2>1, <3>2 DEF Abs
    <3>4. e - MaxDiff <= i /\ i >= e
      BY <1>1, <2>1
    <3>5. \A k \in 1..Len(mBufferCache) : num[k] >= e - 2 * MaxDiff
      BY <1>1, <2>3
    <3> QED BY <1>1, <1>2, <1>3, <1>4, <1>7, <2>1, <2>3, <2>6, <3>3, <3>4, <3>5, CachedArrives
  <2>7. CASE discontinuity(p)
    <3>1. i > e + MaxDiff
      <4>1. Abs(e - i) > MaxDiff
        BY <2>4, <2>7 DEF discontinuity, farAway
      <4> QED BY <1>1, <2>1, <4>1 DEF Abs
    <3>2. Window = 0
      BY <1>7, <3>1, FarArrival
    <3>3. \A j \in Sent : j < i => j \in arrived \cup lost
      <4>1. \A j \in Sent : j < i - Window => j \in arrived \cup lost
        BY DEF deliver
      <4> QED BY <1>1, <3>2, <4>1
    <3>4. \A k \in 1..Len(mBufferCache) : num[k] < i
      <4> SUFFICES ASSUME NEW k \in 1..Len(mBufferCache) PROVE num[k] < i
        OBVIOUS
      <4>1. num[k] \in arrived \cap Sent
        BY <2>1, <2>3 DEF isStream, SessionFacts, Held, Elements
      <4>2. i < num[k] => num[k] <= i + Window
        BY <1>4, <4>1 DEF SessionFacts
      <4> QED BY <1>1, <2>1, <2>3, <3>2, <4>2
    <3>5. Ordered' /\ mBufferCache' = <<>> /\ Elements(out') = Held \cup {p}
      BY <1>2, <1>3, <1>7, <2>1, <2>7, <3>4, Flush
    <3>6. \A q \in Elements(out') : isStream(q) => q.id < i + 1
      <4>1. \A q \in Elements(out) : isStream(q) => q.id \in Nat /\ q.id < i + 1
        <5>1. \A q \in Elements(out) : isStream(q) => q.id \in Nat /\ q.id < e
          BY <1>7, StreamAssumption DEF Numbered, isStream
        <5> QED BY <1>1, <2>1, <5>1
      <4>2. \A q \in Elements(mBufferCache) : q.id < i + 1
        <5> SUFFICES ASSUME NEW k \in 1..Len(mBufferCache) PROVE mBufferCache[k].id < i + 1
          BY DEF Elements
        <5>1. num[k] = mBufferCache[k].id /\ num[k] \in Int /\ num[k] < i
          BY <2>3, <3>4
        <5> QED BY <1>1, <5>1
      <4>3. p.id < i + 1
        BY <1>1, <1>2
      <4> QED BY <3>5, <4>1, <4>2, <4>3 DEF Held
    <3>7. ASSUME NEW j \in Sent, j < i + 1 PROVE j \in lost' \/ handedOn(j)'
      <4>1. j < i \/ j = i
        BY <1>1, <3>7, StreamAssumption
      <4>2. CASE j = i
        BY <1>2, <3>5, <4>2, HandedOnNext
      <4>3. CASE j < i /\ j \in arrived
        <5>1. PICK q \in Held : q.id = j
          BY <4>3 DEF SessionFacts
        <5> QED BY <3>5, <5>1, HandedOnNext
      <4> QED BY <1>4, <3>3, <4>1, <4>2, <4>3
    <3>8. mNextSequenceNumber' = SeqAt(start, i + 1) /\ it' = 1
      BY <1>1, <1>2, <2>7, NextNumber DEF discontinuity, thenScan
    <3>9. Numbered(i + 1, <<>>)'
      <4>1. CacheNumbered(start', <<>>, i + 1, <<>>)
        BY DEF CacheNumbered
      <4>2. \A k \in 1..Len(mBufferCache') : ~(k < it')
        BY <3>8
      <4> QED BY <1>4, <3>5, <3>6, <3>7, <3>8, <4>1, <4>2 DEF Numbered
    <3>10. <<>> \in [1..Len(mBufferCache') -> Int] /\ i + 1 \in Nat
      BY <1>1, <3>5
    <3> QED BY <3>5, <3>9, <3>10 DEF Mode
  <2> QED BY <1>4, <2>5, <2>6, <2>7 DEF sequence
<1> QED BY <1>5, <1>6, <1>7 DEF Mode

(* A stray packet after the end of the stream.                             *)
LEMMA StrayMode ==
  ASSUME WideRange, RtpIInv, SessionFacts, Ordered, Mode,
         NEW p \in Packet, ~isStream(p), sequence(p),
         Sent \subseteq arrived \cup lost,
         arrived' = arrived \cup {p.id}, UNCHANGED <<start, lost>>
  PROVE  Ordered' /\ Mode'
<1>1. CASE \A q \in Elements(mBufferCache) : ~isStream(q)
  <2>1. Over
    BY <1>1 DEF Over
  <2> QED BY <2>1, OverStray DEF Mode
<1>2. CASE \E q \in Elements(mBufferCache) : isStream(q)
  <2>1. PICK n \in 1..Len(mBufferCache) : isStream(mBufferCache[n])
    BY <1>2 DEF Elements
  <2>2. ~Over
    BY <1>2 DEF Over
  <2>3. ~Fresh
    <3>1. mBufferCache # <<>>
      BY <2>1
    <3> QED BY <3>1 DEF Fresh
  <2>4. PICK e \in Nat : \E num \in [1..Len(mBufferCache) -> Int] : Numbered(e, num)
    BY <2>2, <2>3 DEF Mode
  <2>5. PICK num \in [1..Len(mBufferCache) -> Int] : Numbered(e, num)
    BY <2>4
  <2>6. /\ start \in SeqNum /\ e \in Int /\ MaxDiff \in Nat /\ Mid \in Nat /\ 3 * MaxDiff < Mid
        /\ p.seq \in SeqNum
    BY ModulusFacts DEF SessionFacts, WideRange, Packet
  <2>7. CASE inOrder(p)
    BY <2>5, <2>7, ExpectedArrives
  <2>8. CASE discontinuity(p)
    <3>1. Ordered' /\ mBufferCache' = <<>>
      BY <2>5, <2>8, Flush
    <3>2. Over'
      BY <3>1 DEF Over, Elements
    <3> QED BY <3>1, <3>2 DEF Mode
  <2>9. CASE cachePacket(p)
    <3>1. Abs(diffSequenceNumber(SeqAt(start, e), p.seq)) <= MaxDiff
      <4>1. ~(Abs(diffSequenceNumber(mNextSequenceNumber, p.seq)) > MaxDiff)
        BY <2>9 DEF cachePacket, farAway
      <4>2. mNextSequenceNumber = SeqAt(start, e)
        BY <2>5 DEF Numbered
      <4>3. PICK y \in 0 .. Modulus - 1 : y = SeqAt(start, e)
        BY <2>6, SeqAtFacts
      <4>4. Abs(diffSequenceNumber(y, p.seq)) \in Int
        <5>1. PICK z \in 0 .. Modulus - 1 : z = p.seq
          BY <2>6 DEF SeqNum
        <5>2. diffSequenceNumber(y, z) \in Int
          BY ModulusFacts DEF diffSequenceNumber
        <5>3. \A d \in Int : Abs(d) \in Int
          BY DEF Abs
        <5> QED BY <5>1, <5>2, <5>3
      <4> QED BY <2>6, <4>1, <4>2, <4>3, <4>4
    <3>2. MaxDiff < Mid
      BY <2>6
    <3>3. PICK x \in e - MaxDiff .. e + MaxDiff : p.seq = SeqAt(start, x)
      BY <2>6, <3>1, <3>2, NearNumber
    <3>4. x \in Int /\ e - MaxDiff <= x /\ x <= e + MaxDiff
      BY <2>6
    <3>5. \A k \in 1..Len(mBufferCache) : num[k] >= e - 2 * MaxDiff
      <4>1. num[n] >= e /\ \A k \in 1..Len(mBufferCache) : num[k] >= num[n] - 2 * MaxDiff
        BY <2>1, <2>5 DEF Numbered, CacheNumbered
      <4> QED BY <2>1, <2>6, <4>1
    <3> QED BY <2>5, <2>9, <3>3, <3>4, <3>5, CachedArrives
  <2> QED BY <2>7, <2>8, <2>9 DEF sequence
<1> QED BY <1>1, <1>2

-----------------------------------------------------------------------------
(* The cached packet whose turn has come.                                  *)
LEMMA PushMode ==
  ASSUME WideRange, RtpIInv, SessionFacts, Ordered,
         NEW e \in Nat, NEW num \in [1..Len(mBufferCache) -> Int], Numbered(e, num),
         NEW n \in 1..Len(mBufferCache), isStream(mBufferCache[n]),
         scanPush, UNCHANGED netVars
  PROVE  Ordered' /\ Mode'
<1> DEFINE q == mBufferCache[it]
<1>1. /\ mBufferCache \in Seq(Packet) /\ out \in Seq(Packet) /\ start \in SeqNum
      /\ Len(mBufferCache) \in Nat /\ MaxDiff \in Nat /\ Mid \in Nat /\ 3 * MaxDiff < Mid
      /\ Modulus \in Nat /\ 2 * Mid <= Modulus /\ e \in Int
  BY ModulusFacts, LenProperties DEF RtpIInv, RtpTypeOK, SessionFacts, WideRange
<1>2. it \in 1..Len(mBufferCache) /\ pc = "scan" /\ q.seq = mNextSequenceNumber
  BY <1>1 DEF scanPush, scanning, RtpIInv, RtpTypeOK
<1>3. /\ q \in Packet /\ out' = Append(out, q) /\ mBufferCache' = Erase(mBufferCache, it)
      /\ mNextSequenceNumber' = following(q.seq) /\ pc' = pc /\ it' = it
      /\ UNCHANGED <<start, lost, arrived>>
  BY <1>1, <1>2, ElementOfSeq DEF scanPush, netVars
<1>4. CacheNumbered(start, mBufferCache, e, num)
  BY DEF Numbered
<1>5. num[it] = e
  <2>1. num[it] \in Int /\ num[n] \in Int /\ num[it] <= e + MaxDiff
        /\ num[n] >= e /\ num[it] >= num[n] - 2 * MaxDiff
    BY <1>2, <1>4 DEF CacheNumbered
  <2>2. SeqAt(start, num[it]) = SeqAt(start, e)
    BY <1>2, <1>4 DEF CacheNumbered, Numbered
  <2>3. num[it] - e < Modulus /\ e - num[it] < Modulus
    BY <1>1, <2>1
  <2> QED BY <1>1, <2>1, <2>2, <2>3, SameNumber
<1>6. mNextSequenceNumber' = SeqAt(start, e + 1)
  <2>1. q.seq = SeqAt(start, e)
    BY <1>2 DEF Numbered
  <2> QED BY <1>1, <1>3, <2>1, NextNumber
<1>7. ASSUME NEW k \in 1..Len(mBufferCache), k # it, isStream(mBufferCache[k])
      PROVE  num[k] >= e + 1
  <2>1. num[k] \in Int /\ num[k] >= e
    BY <1>4, <1>7 DEF CacheNumbered
  <2>2. num[k] # e
    <3>1. CASE k < it
      BY <1>2, <1>7, <3>1 DEF Numbered
    <3>2. CASE it < k
      BY <1>2, <1>4, <1>5, <1>7, <2>1, <3>2 DEF CacheNumbered
    <3> QED BY <1>1, <1>2, <1>7, <3>1, <3>2
  <2> QED BY <2>1, <2>2
<1>8. isStream(q) => q.id = e
  BY <1>2, <1>4, <1>5 DEF CacheNumbered
<1> HIDE DEF q
<1>9. PICK m \in [1 .. Len(mBufferCache) - 1 -> Int] :
        Without(start, mBufferCache, e, num, it, m)
  BY <1>1, <1>2, <1>4, EraseNumbered
<1>10. /\ mBufferCache' \in Seq(Packet) /\ Len(mBufferCache') = Len(mBufferCache) - 1
       /\ m \in [1..Len(mBufferCache') -> Int] /\ CacheNumbered(start, mBufferCache', e, m)
  BY <1>1, <1>2, <1>3, <1>9, EraseFacts DEF Without
<1>11. CacheNumbered(start, mBufferCache', e + 1, m)
  <2>1. ASSUME NEW k \in 1..Len(mBufferCache'), isStream(mBufferCache'[k]) PROVE m[k] >= e + 1
    <3>1. PICK j \in 1..Len(mBufferCache) :
            j # it /\ m[k] = num[j] /\ mBufferCache'[k] = mBufferCache[j]
      BY <1>3, <1>9, <1>10 DEF Without
    <3> QED BY <1>7, <2>1, <3>1
  <2>2. e + 1 \in Nat /\ e <= e + 1
    OBVIOUS
  <2> QED BY <1>10, <2>1, <2>2, AdvanceNumbered
<1>12. Elements(out') = Elements(out) \cup {q}
  BY <1>1, <1>3, AppendElements
<1>13. \A r \in Elements(out') : isStream(r) => r.id < e + 1
  <2>1. \A r \in Elements(out) : isStream(r) => r.id \in Nat /\ r.id < e
    BY StreamAssumption DEF Numbered, isStream
  <2> QED BY <1>8, <1>12, <2>1
<1>14. ASSUME NEW i \in Sent, i < e + 1 PROVE i \in lost' \/ handedOn(i)'
  <2>1. i \in Nat /\ (i < e \/ i = e)
    BY <1>14, StreamAssumption
  <2>2. CASE i < e
    BY <1>3, <1>12, <2>2, HandedOn, HandedOnNext DEF Numbered
  <2>3. CASE i = e /\ isStream(q)
    BY <1>8, <1>12, <2>3, HandedOnNext
  <2>4. CASE i = e /\ ~isStream(q)
    <3>1. q \in Held
      BY <1>2 DEF q, Held, Elements
    <3>2. i \in arrived \cup lost
      BY <2>4, <3>1, StrayMeansEnd
    <3>3. i \notin arrived
      <4> SUFFICES ASSUME i \in arrived PROVE FALSE
        OBVIOUS
      <4>1. PICK k \in 1..Len(mBufferCache) : isStream(mBufferCache[k]) /\ num[k] = e
        BY <2>4, ExpectedIsCached
      <4>2. k # it
        BY <2>4, <4>1 DEF q
      <4> QED BY <1>1, <1>7, <4>1, <4>2
    <3> QED BY <1>3, <3>2, <3>3
  <2> QED BY <2>1, <2>2, <2>3, <2>4
<1>15. ASSUME NEW k \in 1..Len(mBufferCache'), k < it' PROVE m[k] # e + 1
  <2>1. k \in 1..Len(mBufferCache) /\ k < it /\ m[k] = num[k]
    BY <1>1, <1>3, <1>9, <1>10, <1>15 DEF Without
  <2>2. num[k] <= num[it] /\ num[k] \in Int
    BY <1>2, <1>4, <2>1 DEF CacheNumbered
  <2> QED BY <1>1, <1>5, <2>1, <2>2
<1>16. Numbered(e + 1, m)'
  BY <1>3, <1>6, <1>11, <1>13, <1>14, <1>15 DEF Numbered
<1>17. Ordered'
  <2>1. isStream(q) => \A r \in Elements(out) : isStream(r) => r.id < q.id
    BY <1>8 DEF Numbered
  <2>2. Ascending(out')
    BY <1>1, <1>3, <2>1, AscendingAppend, OrderedIs
  <2> QED BY <2>2 DEF Ordered, Ascending, isStream
<1>18. e + 1 \in Nat
  OBVIOUS
<1> QED BY <1>10, <1>16, <1>17, <1>18 DEF Mode

(* A full cache without the expected packet: it is lost, for no more than  *)
(* Window packets can have overtaken it.                                   *)
LEMMA GiveUpMode ==
  ASSUME RtpIInv, SessionFacts, Ordered,
         NEW e \in Nat, NEW num \in [1..Len(mBufferCache) -> Int], Numbered(e, num),
         giveUpMissing, UNCHANGED netVars
  PROVE  Ordered' /\ Mode'
<1>1. /\ mBufferCache \in Seq(Packet) /\ start \in SeqNum /\ Len(mBufferCache) = MaxCache
      /\ MaxCache \in Nat /\ Window \in Nat /\ Window < MaxCache /\ e \in Int
  BY RtpAssumption, DisorderAssumption DEF RtpIInv, RtpTypeOK, SessionFacts, giveUpMissing
<1>2. /\ out' = out /\ mBufferCache' = mBufferCache /\ it' = 1
      /\ mNextSequenceNumber' = following(mNextSequenceNumber)
      /\ UNCHANGED <<start, lost, arrived>>
  BY DEF giveUpMissing, netVars
<1>3. \A k \in 1..Len(mBufferCache) : num[k] # e
  <2>1. \A k \in 1..Len(mBufferCache) : mBufferCache[k].seq # mNextSequenceNumber
    BY <1>1 DEF giveUpMissing, passDone, RtpIInv, RtpTypeOK, Scanned
  <2> QED BY <2>1 DEF Numbered, CacheNumbered
<1>4. e \in Sent => e \in lost
  <2> SUFFICES ASSUME e \in Sent, e \notin lost PROVE FALSE
    OBVIOUS
  <2>1. e \notin arrived
    BY <1>3, ExpectedIsCached
  <2>2. ~(Sent \subseteq arrived \cup lost)
    BY <2>1
  <2>3. ASSUME NEW k \in 1..Len(mBufferCache)
        PROVE  isStream(mBufferCache[k]) /\ e < num[k] /\ num[k] <= e + Window
    <3>1. mBufferCache[k] \in Held
      BY DEF Held, Elements
    <3>2. isStream(mBufferCache[k])
      BY <2>2, <3>1, StrayMeansEnd
    <3>3. num[k] = mBufferCache[k].id /\ num[k] >= e /\ num[k] \in Int
      BY <3>2 DEF Numbered, CacheNumbered
    <3>4. num[k] \in arrived \cap Sent
      BY <3>1, <3>2, <3>3 DEF SessionFacts, isStream
    <3>5. e < num[k]
      BY <1>1, <1>3, <3>3
    <3>6. num[k] <= e + Window
      BY <2>1, <3>4, <3>5 DEF SessionFacts
    <3> QED BY <3>2, <3>5, <3>6
  <2>4. \A j, k \in 1..Len(mBufferCache) : j < k => num[j] < num[k]
    BY <2>3 DEF Numbered, CacheNumbered
  <2>5. num \in [1..MaxCache -> Int]
    BY <1>1
  <2> QED BY <1>1, <2>3, <2>4, <2>5, TooMany
<1>5. mNextSequenceNumber' = SeqAt(start, e + 1)
  BY <1>1, <1>2, NextNumber DEF Numbered
<1>6. CacheNumbered(start, mBufferCache, e + 1, num)
  <2>1. \A k \in 1..Len(mBufferCache) : isStream(mBufferCache[k]) => num[k] >= e + 1
    BY <1>3 DEF Numbered, CacheNumbered
  <2>2. e + 1 \in Nat /\ e <= e + 1
    OBVIOUS
  <2> QED BY <1>1, <2>1, <2>2, AdvanceNumbered DEF Numbered
<1>7. \A q \in Elements(out') : isStream(q) => q.id < e + 1
  <2>1. \A q \in Elements(out) : isStream(q) => q.id \in Nat /\ q.id < e
    BY StreamAssumption DEF Numbered, isStream
  <2> QED BY <1>2, <2>1
<1>8. ASSUME NEW i \in Sent, i < e + 1 PROVE i \in lost' \/ handedOn(i)'
  <2>1. i \in Nat /\ (i < e \/ i = e)
    BY <1>8, StreamAssumption
  <2>2. CASE i < e
    BY <1>2, <2>2, HandedOn, HandedOnNext DEF Numbered
  <2> QED BY <1>2, <1>4, <2>1, <2>2
<1>9. Numbered(e + 1, num)'
  <2>1. \A k \in 1..Len(mBufferCache') : ~(k < it')
    BY <1>2
  <2> QED BY <1>2, <1>5, <1>6, <1>7, <1>8, <2>1 DEF Numbered
<1>10. e + 1 \in Nat /\ num \in [1..Len(mBufferCache') -> Int] /\ Ordered'
  BY <1>2 DEF Ordered
<1> QED BY <1>9, <1>10 DEF Mode

(* Each turn of processCachedBuffers keeps order and mode.                 *)
LEMMA ScanMode ==
  ASSUME WideRange, RtpIInv, SessionFacts, Ordered, Mode, processCachedBuffers, UNCHANGED netVars
  PROVE  Ordered' /\ Mode'
<1>1. pc = "scan"
  BY DEF processCachedBuffers, scanPush, scanSkip, scanAgain, giveUpMissing, scanEnd, scanning,
         passDone
<1>2. ~Fresh
  BY <1>1 DEF Fresh
<1>3. CASE Over
  BY <1>3, OverScan DEF Mode
<1>4. ASSUME ~Over, NEW e \in Nat, NEW num \in [1..Len(mBufferCache) -> Int], Numbered(e, num)
      PROVE  Ordered' /\ Mode'
  <2>1. CASE giveUpMissing
    BY <1>4, <2>1, GiveUpMode
  <2>2. CASE scanPush
    <3>1. it \in 1..Len(mBufferCache)
      BY <2>2, LenProperties DEF scanPush, scanning, RtpIInv, RtpTypeOK
    <3>2. \E n \in 1..Len(mBufferCache) : isStream(mBufferCache[n])
      <4> SUFFICES ASSUME \A n \in 1..Len(mBufferCache) : ~isStream(mBufferCache[n]) PROVE FALSE
        OBVIOUS
      <4>1. mBufferCache[it] \in Held /\ ~isStream(mBufferCache[it])
        BY <3>1 DEF Held, Elements
      <4>2. Sent \subseteq arrived \cup lost
        BY <4>1, StrayMeansEnd
      <4> QED BY <1>4, <4>2 DEF Over, Elements
    <3> QED BY <1>4, <2>2, <3>2, PushMode
  <2>3. CASE scanSkip \/ scanAgain \/ scanEnd
    <3>1. /\ UNCHANGED <<mNextSequenceNumber, mBufferCache, out, start, lost, arrived>>
      BY <2>3 DEF scanSkip, scanAgain, scanEnd, netVars
    <3>2. \A k \in 1..Len(mBufferCache) :
            k < it' /\ isStream(mBufferCache[k]) => num[k] # e
      <4>1. CASE scanAgain \/ scanEnd
        <5>1. it' = 1
          BY <4>1 DEF scanAgain, scanEnd
        <5> QED BY <5>1
      <4>2. CASE scanSkip
        <5>1. it' = it + 1 /\ it \in Nat /\ mBufferCache[it].seq # mNextSequenceNumber
          BY <4>2 DEF scanSkip, RtpIInv, RtpTypeOK
        <5>2. \A k \in 1..Len(mBufferCache) : k < it' => k < it \/ k = it
          BY <5>1
        <5>3. \A k \in 1..Len(mBufferCache) : k = it => num[k] # e
          BY <1>4, <5>1 DEF Numbered, CacheNumbered
        <5> QED BY <1>1, <1>4, <5>2, <5>3 DEF Numbered
      <4> QED BY <2>3, <4>1, <4>2
    <3>3. \A i : handedOn(i)' <=> handedOn(i)
      BY <3>1 DEF handedOn
    <3>4. Numbered(e, num)'
      BY <1>4, <3>1, <3>2, <3>3 DEF Numbered
    <3>5. num \in [1..Len(mBufferCache') -> Int] /\ Ordered'
      BY <3>1 DEF Ordered
    <3> QED BY <3>4, <3>5 DEF Mode
  <2> QED BY <2>1, <2>2, <2>3 DEF processCachedBuffers
<1> QED BY <1>2, <1>3, <1>4 DEF Mode

-----------------------------------------------------------------------------
(* A new session.                                                          *)
LEMMA SessionInitInv == SessionInit => SessionInv
<1> SUFFICES ASSUME SessionInit PROVE SessionInv
  OBVIOUS
<1>1. RtpIInv
  BY RtpInitIInv DEF SessionInit
<1>2. Ordered /\ Mode
  BY DEF SessionInit, Init, Ordered, Mode, Fresh
<1>3. start \in SeqNum /\ extra \in Nat
  BY StreamAssumption DEF SessionInit
<1> QED BY <1>1, <1>2, <1>3, InitFacts DEF SessionInv

(* The packets of the stream and the others are packets.                   *)
LEMMA WirePackets ==
  ASSUME start \in SeqNum
  PROVE  /\ \A i \in Sent : [id |-> i, seq |-> number(i)] \in Packet
         /\ \A i \in Extras, j \in Sent : [id |-> i, seq |-> number(j)] \in Packet
         /\ \A i \in Extras, s \in SeqNum : [id |-> i, seq |-> s] \in Packet
<1>1. ASSUME NEW i \in Sent PROVE number(i) \in SeqNum
  <2>1. i \in Int
    BY StreamAssumption
  <2> QED BY <2>1, SeqAtFacts DEF SeqAt, number
<1> QED BY <1>1, DisorderAssumption DEF Packet, Sent

(* Every step of the session keeps the invariant.                          *)
LEMMA SessionNextInv ==
  ASSUME WideRange, SessionInv, [SessionNext]_sessionVars
  PROVE  SessionInv'
<1>1. RtpIInv /\ start \in SeqNum /\ extra \in Nat
  BY DEF SessionInv
<1>2. CASE processCachedBuffers /\ UNCHANGED netVars
  <2>1. RtpIInv' /\ UNCHANGED <<charIsSigned, start, extra>>
    BY <1>1, <1>2, ScanKeepsRtp DEF netVars
  <2>2. ASSUME undisturbed PROVE SessionFacts' /\ Ordered' /\ Mode'
    <3>1. SessionFacts /\ Ordered /\ Mode
      BY <2>2 DEF SessionInv
    <3>2. SessionFacts'
      BY <1>1, <1>2, <3>1, ScanHeld, ScanFacts
    <3>3. Ordered' /\ Mode'
      BY <1>1, <1>2, <3>1, ScanMode
    <3> QED BY <3>2, <3>3
  <2> QED BY <1>1, <2>1, <2>2 DEF SessionInv, undisturbed
<1>3. ASSUME NEW i \in Sent, deliver(i) PROVE SessionInv'
  <2> DEFINE p == [id |-> i, seq |-> number(i)]
  <2>1. p \in Packet /\ p.id = i
    BY <1>1, WirePackets
  <2>2. /\ processRtpPacket(p) /\ arrived' = arrived \cup {p.id}
        /\ UNCHANGED <<charIsSigned, start, lost, extra>>
        /\ p.id \notin arrived \cup lost /\ p.id \in Sent
        /\ \A j \in Sent : j < p.id - Window => j \in arrived \cup lost
    BY <1>3 DEF deliver
  <2> HIDE DEF p
  <2>3. RtpIInv'
    BY <1>1, <2>1, <2>2, DecodedPacket, PacketKeepsRtp DEF processRtpPacket
  <2>4. ASSUME undisturbed PROVE SessionFacts' /\ Ordered' /\ Mode'
    <3>1. SessionFacts /\ Ordered /\ Mode /\ ~charIsSigned
      BY <2>4 DEF SessionInv, undisturbed
    <3>2. sequence(p)
      BY <2>1, <2>2, <3>1, DecodedPacket DEF processRtpPacket
    <3>3. Held' = Held \cup {p}
      BY <1>1, <2>1, <3>2, PacketHeld
    <3>4. SessionFacts'
      BY <2>1, <2>2, <3>1, <3>3, PacketFacts
    <3>5. Ordered' /\ Mode'
      BY <1>1, <1>3, <3>1, DeliverMode
    <3> QED BY <3>4, <3>5
  <2> QED BY <1>1, <2>2, <2>3, <2>4 DEF SessionInv, undisturbed
<1>4. ASSUME NEW i \in Extras, NEW j \in Sent, deliverExtra(i, j) PROVE SessionInv'
  <2> DEFINE p == [id |-> i, seq |-> number(j)]
  <2>1. p \in Packet
    BY <1>1, WirePackets
  <2>2. processRtpPacket(p) /\ extra' = extra + 1 /\ UNCHANGED <<charIsSigned, start>>
    BY <1>4 DEF deliverExtra
  <2> HIDE DEF p
  <2>3. RtpIInv'
    BY <1>1, <2>1, <2>2, DecodedPacket, PacketKeepsRtp DEF processRtpPacket
  <2>4. extra' \in Nat /\ extra' # 0 /\ start' \in SeqNum
    BY <1>1, <2>2
  <2> QED BY <2>3, <2>4 DEF SessionInv, undisturbed
<1>5. ASSUME NEW i \in Extras, NEW s \in SeqNum, strayArrives(i, s) PROVE SessionInv'
  <2> DEFINE p == [id |-> i, seq |-> s]
  <2>1. p \in Packet /\ p.id = i /\ ~isStream(p)
    BY <1>1, WirePackets DEF isStream, Sent
  <2>2. /\ processRtpPacket(p) /\ arrived' = arrived \cup {p.id}
        /\ UNCHANGED <<charIsSigned, start, lost, extra>>
        /\ Sent \subseteq arrived \cup lost
    BY <1>5 DEF strayArrives
  <2> HIDE DEF p
  <2>3. RtpIInv'
    BY <1>1, <2>1, <2>2, DecodedPacket, PacketKeepsRtp DEF processRtpPacket
  <2>4. ASSUME undisturbed PROVE SessionFacts' /\ Ordered' /\ Mode'
    <3>1. SessionFacts /\ Ordered /\ Mode /\ ~charIsSigned
      BY <2>4 DEF SessionInv, undisturbed
    <3>2. sequence(p)
      BY <2>1, <2>2, <3>1, DecodedPacket DEF processRtpPacket
    <3>3. p.id \notin lost
      BY <2>1, <3>1 DEF SessionFacts, isStream
    <3>4. Held' = Held \cup {p}
      BY <1>1, <2>1, <3>2, PacketHeld
    <3>5. SessionFacts'
      BY <2>1, <2>2, <3>1, <3>3, <3>4, PacketFacts
    <3>6. Ordered' /\ Mode'
      BY <1>1, <2>1, <2>2, <3>1, <3>2, StrayMode
    <3> QED BY <3>5, <3>6
  <2> QED BY <1>1, <2>2, <2>3, <2>4 DEF SessionInv, undisturbed
<1>6. CASE UNCHANGED sessionVars
  <2>1. UNCHANGED <<mNextSequenceNumber, mBufferCache, out, arrivals, pc, it, pushed,
                  charIsSigned, start, lost, arrived, extra>>
    BY <1>6 DEF sessionVars, rtpVars, netVars
  <2>2. RtpIInv'
    BY <1>1, <2>1 DEF RtpIInv, RtpTypeOK, NeverAborts, NothingDropped, NothingOverdue, Scanned
  <2>3. SessionFacts => SessionFacts'
    BY <2>1 DEF SessionFacts, Held
  <2>4. Ordered => Ordered'
    BY <2>1 DEF Ordered
  <2>5. ASSUME Mode PROVE Mode'
    <3>1. \A i : handedOn(i)' <=> handedOn(i)
      BY <2>1 DEF handedOn
    <3>2. CASE Fresh \/ Over
      BY <2>1, <3>2 DEF Fresh, Over, Mode
    <3>3. ASSUME NEW e \in Nat, NEW num \in [1..Len(mBufferCache) -> Int], Numbered(e, num)
          PROVE  Mode'
      <4>1. Numbered(e, num)'
        BY <2>1, <3>1, <3>3 DEF Numbered
      <4>2. num \in [1..Len(mBufferCache') -> Int]
        BY <2>1
      <4> QED BY <4>1, <4>2 DEF Mode
    <3> QED BY <2>5, <3>2, <3>3 DEF Mode
  <2> QED BY <1>1, <2>1, <2>2, <2>3, <2>4, <2>5 DEF SessionInv, undisturbed
<1> QED BY <1>2, <1>3, <1>4, <1>5, <1>6 DEF SessionNext

(* A session is a behaviour of the listener, so what is proved above for   *)
(* any network holds in it.                                                *)
THEOREM SessionIsListener == SessionSpec => Spec
<1>1. SessionInit => Init /\ start \in SeqNum
  BY StreamAssumption DEF SessionInit
<1>2. ASSUME start \in SeqNum, [SessionNext]_sessionVars
      PROVE  start' \in SeqNum /\ [Next]_<<rtpVars, charIsSigned>>
  <2>1. CASE processCachedBuffers /\ UNCHANGED netVars
    BY <1>2, <2>1 DEF Next, netVars
  <2>2. ASSUME NEW i \in Sent, deliver(i) PROVE start' = start /\ Next
    BY <1>2, <2>2, WirePackets DEF deliver, Next
  <2>3. ASSUME NEW i \in Extras, NEW j \in Sent, deliverExtra(i, j) PROVE start' = start /\ Next
    BY <1>2, <2>3, WirePackets DEF deliverExtra, Next
  <2>4. ASSUME NEW i \in Extras, NEW s \in SeqNum, strayArrives(i, s)
        PROVE  start' = start /\ Next
    BY <1>2, <2>4, WirePackets DEF strayArrives, Next
  <2>5. CASE UNCHANGED sessionVars
    BY <1>2, <2>5 DEF sessionVars, netVars
  <2> QED BY <1>2, <2>1, <2>2, <2>3, <2>4, <2>5 DEF SessionNext
<1>3. (start \in SeqNum) /\ [SessionNext]_sessionVars => (start \in SeqNum)'
  BY <1>2
<1>4. (start \in SeqNum) /\ [SessionNext]_sessionVars => [Next]_<<rtpVars, charIsSigned>>
  BY <1>2
<1> QED BY <1>1, <1>3, <1>4, PTL DEF SessionSpec, Spec

(* SessionInv holds throughout a session.                                  *)
THEOREM SessionInvariance ==
  ASSUME WideRange PROVE SessionSpec => []SessionInv
<1>1. SessionInv /\ [SessionNext]_sessionVars => SessionInv'
  BY SessionNextInv
<1> QED BY <1>1, SessionInitInv, PTL DEF SessionSpec

(* While no repetition and no latecomer has arrived, the packets of the    *)
(* stream are handed on in their order, across any number of turns of the  *)
(* sequence number, whatever is lost, reordered by up to Window or follows *)
(* the stream (where char is unsigned: see orderly).                       *)
THEOREM StreamInOrder ==
  ASSUME WideRange PROVE SessionSpec => [](extra = 0 => InOrder)
<1>1. SessionInv => (extra = 0 => InOrder)
  BY DEF SessionInv, undisturbed, InOrder, Ordered, orderly
<1> QED BY <1>1, SessionInvariance, PTL

(* While no repetition and no latecomer has arrived, the listener skips a  *)
(* packet of the stream only if the network lost it: neither giving up on  *)
(* a full cache nor starting over after a discontinuity abandons a packet  *)
(* that is still on its way.                                               *)
THEOREM LossesOnly ==
  ASSUME WideRange PROVE SessionSpec => [](extra = 0 => OnlyLostSkipped)
<1>1. ASSUME SessionInv, extra = 0 PROVE OnlyLostSkipped
  <2> SUFFICES ASSUME ~charIsSigned, NEW i \in Sent, NEW j \in Sent, i < j, handedOn(j)
               PROVE  i \in lost \/ handedOn(i)
    BY DEF OnlyLostSkipped, orderly
  <2>1. SessionFacts /\ Mode
    BY <1>1 DEF SessionInv, undisturbed
  <2>2. i \in Nat /\ j \in Nat
    BY StreamAssumption
  <2>3. PICK q \in Elements(out) : q.id = j
    BY HandedOn
  <2>4. ~Fresh
    BY <2>3 DEF Fresh, Elements
  <2>5. CASE Over
    <3>1. CASE i \in arrived
      <4>1. PICK r \in Held : r.id = i
        BY <2>1, <3>1 DEF SessionFacts
      <4>2. r \in Elements(out)
        BY <2>5, <4>1 DEF Over, isStream, Held
      <4> QED BY <4>1, <4>2, HandedOn
    <3> QED BY <2>5, <3>1 DEF Over
  <2>6. ASSUME NEW e \in Nat, NEW num \in [1..Len(mBufferCache) -> Int], Numbered(e, num)
        PROVE  i \in lost \/ handedOn(i)
    <3>1. j < e
      BY <2>3, <2>6 DEF Numbered, isStream
    <3>2. i < e
      BY <2>2, <3>1
    <3> QED BY <2>6, <3>2 DEF Numbered
  <2> QED BY <2>1, <2>4, <2>5, <2>6 DEF Mode
<1>2. SessionInv => (extra = 0 => OnlyLostSkipped)
  BY <1>1
<1> QED BY <1>2, SessionInvariance, PTL

=============================================================================
