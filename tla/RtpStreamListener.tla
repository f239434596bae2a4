-------------------------- MODULE RtpStreamListener --------------------------
(***************************************************************************)
(* Sequencing of RTP packets in 3rdparty/rtp/RtpStreamListener.cpp: a      *)
(* packet that carries the expected sequence number is handed on at once,  *)
(* one that is early is kept in a small sorted cache until the gap before  *)
(* it is filled or given up, and one that is far away makes the listener   *)
(* start over from it.                                                     *)
(*                                                                         *)
(* The handler runs under mLock.  processRtpPacket's body is one action;   *)
(* the loops of processCachedBuffers are modelled one iteration at a time, *)
(* so that their termination can be checked.  Payloads are abstracted to   *)
(* the identity of the packet.                                             *)
(***************************************************************************)
EXTENDS Integers, Sequences

CONSTANTS
  Modulus,       \* 0x10000, the number of sequence numbers
  MaxCache,      \* MAX_RTP_BUFFER_CACHE
  MaxDiff,       \* MAX_SEQNUM_DIFF_FOR_DISCONTINUITY
  ByteRange,     \* 0x100, the number of values of a char
  Ids,           \* identities of packets
  MaxArrivals    \* bound: packets received in a behaviour

(* MID_SEQUENCE_NUMBER                                                     *)
Mid == Modulus \div 2

ASSUME RtpAssumption ==
  /\ Modulus \in Nat /\ Modulus >= 2
  /\ MaxCache \in Nat /\ MaxCache >= 2
  /\ MaxDiff \in Nat
  /\ ByteRange \in Nat \ {0} /\ ByteRange <= Modulus
  /\ MaxArrivals \in Nat

SeqNum == 0 .. Modulus - 1
Packet == [id : Ids, seq : SeqNum]

VARIABLES
  charIsSigned,         \* whether the build's plain char is signed
  mNextSequenceNumber,  \* -1 before the first packet
  mBufferCache,         \* the packets kept, in cache order
  out,                  \* what pushBuffertoBQ handed on so far
  arrivals,             \* the number of packets processed so far
  pc,                   \* "recv", or "scan" inside processCachedBuffers
  it,                   \* the iterator of processCachedBuffers
  pushed                \* its local flag

rtpVars == <<mNextSequenceNumber, mBufferCache, out, arrivals, pc, it, pushed>>

(* Mutant: the wrap-around is forgotten.                                   *)
diffSequenceNumber_noWrap(first, second) == first - second

(* diffSequenceNumber, on ints as in the code.                             *)
diffSequenceNumber(first, second) ==
  IF first > second
    THEN IF first - second > Mid THEN -(Modulus + second - first) ELSE first - second
    ELSE IF second - first > Mid THEN Modulus + second - first ELSE -(second - first)

Abs(n) == IF n < 0 THEN -n ELSE n

(* Where emplace() puts a packet: before the first cached packet that      *)
(* diffSequenceNumber says is newer, else at the end.                      *)
insertAt(i, s) ==
  /\ \A j \in 1 .. i - 1 : diffSequenceNumber(mBufferCache[j].seq, s) <= 0
  /\ i <= Len(mBufferCache) => diffSequenceNumber(mBufferCache[i].seq, s) > 0

Insert(s, i, p) == SubSeq(s, 1, i - 1) \o <<p>> \o SubSeq(s, i, Len(s))
Erase(s, i)     == SubSeq(s, 1, i - 1) \o SubSeq(s, i + 1, Len(s))

Init ==
  /\ charIsSigned \in BOOLEAN
  /\ mNextSequenceNumber = -1
  /\ mBufferCache = <<>>
  /\ out = <<>>
  /\ arrivals = 0
  /\ pc = "recv" /\ it = 1 /\ pushed = FALSE

(* buf[2] << 8 | buf[3], stored in 16 bits.  Where char is signed a low    *)
(* byte from 0x80 on is sign-extended and covers the high byte with ones.  *)
decode(s) ==
  IF charIsSigned /\ s % ByteRange >= ByteRange \div 2
    THEN Modulus - ByteRange + (s % ByteRange)
    ELSE s

following(s) == (s + 1) % Modulus

(* What processRtpPacket does last: processCachedBuffers when the cache    *)
(* held something before this packet.                                      *)
thenScan(cachedBuffersPresent) ==
  /\ pc' = IF cachedBuffersPresent THEN "scan" ELSE "recv"
  /\ it' = 1
  /\ pushed' = FALSE

receive ==
  /\ pc = "recv"
  /\ arrivals < MaxArrivals
  /\ arrivals' = arrivals + 1

(* The expected packet, or the first one ever.                             *)
inOrder(p) ==
  /\ receive
  /\ mNextSequenceNumber \in {p.seq, -1}
  /\ out' = Append(out, p)
  /\ mNextSequenceNumber' = following(p.seq)
  /\ UNCHANGED mBufferCache
  /\ thenScan(mBufferCache # <<>>)

farAway(p) ==
  /\ mNextSequenceNumber \notin {p.seq, -1}
  /\ Abs(diffSequenceNumber(mNextSequenceNumber, p.seq)) > MaxDiff

(* Mutant: the cached packets are discarded.                               *)
discontinuity_discards(p) ==
  /\ receive
  /\ farAway(p)
  /\ out' = Append(out, p)
  /\ mBufferCache' = <<>>
  /\ mNextSequenceNumber' = following(p.seq)
  /\ thenScan(FALSE)

(* Too far from the expected number: everything cached is pushed, then the *)
(* packet, and the sequence restarts after it.                             *)
discontinuity(p) ==
  /\ receive
  /\ farAway(p)
  /\ out' = out \o mBufferCache \o <<p>>
  /\ mBufferCache' = <<>>
  /\ mNextSequenceNumber' = following(p.seq)
  /\ thenScan(FALSE)

(* Near the expected number: the packet is cached; a full cache makes the  *)
(* process abort().                                                        *)
cachePacket(p) ==
  /\ receive
  /\ mNextSequenceNumber \notin {p.seq, -1} /\ ~farAway(p)
  /\ IF Len(mBufferCache) < MaxCache
       THEN /\ \E i \in 1 .. Len(mBufferCache) + 1 :
                 insertAt(i, p.seq) /\ mBufferCache' = Insert(mBufferCache, i, p)
            /\ thenScan(mBufferCache # <<>>)
       ELSE /\ pc' = "aborted"
            /\ UNCHANGED <<mBufferCache, it, pushed>>
  /\ UNCHANGED <<mNextSequenceNumber, out>>

(* A packet whose sequence number has been decoded, and one from the wire. *)
sequence(p) == inOrder(p) \/ discontinuity(p) \/ cachePacket(p)

processRtpPacket(p) == sequence([p EXCEPT !.seq = decode(p.seq)])

-----------------------------------------------------------------------------
(* processCachedBuffers, one turn of the inner loop at a time.             *)

scanning == pc = "scan" /\ it <= Len(mBufferCache)

scanPush ==
  /\ scanning
  /\ mBufferCache[it].seq = mNextSequenceNumber
  /\ out' = Append(out, mBufferCache[it])
  /\ mNextSequenceNumber' = following(mBufferCache[it].seq)
  /\ mBufferCache' = Erase(mBufferCache, it)
  /\ pushed' = TRUE
  /\ UNCHANGED <<arrivals, pc, it>>

scanSkip ==
  /\ scanning
  /\ mBufferCache[it].seq # mNextSequenceNumber
  /\ it' = it + 1
  /\ UNCHANGED <<mNextSequenceNumber, mBufferCache, out, arrivals, pc, pushed>>

passDone == pc = "scan" /\ it > Len(mBufferCache)

(* Something was pushed and something is left: go over the cache again.    *)
scanAgain ==
  /\ passDone
  /\ mBufferCache # <<>> /\ pushed
  /\ it' = 1 /\ pushed' = FALSE
  /\ UNCHANGED <<mNextSequenceNumber, mBufferCache, out, arrivals, pc>>

(* Mutants: the expected number is not advanced, or is one packet early.   *)
giveUpMissing_stuck ==
  /\ passDone
  /\ ~pushed /\ Len(mBufferCache) = MaxCache
  /\ it' = 1 /\ pushed' = FALSE
  /\ UNCHANGED <<mNextSequenceNumber, mBufferCache, out, arrivals, pc>>

giveUpMissing_early ==
  /\ passDone
  /\ ~pushed /\ Len(mBufferCache) >= MaxCache - 1
  /\ mNextSequenceNumber' = following(mNextSequenceNumber)
  /\ it' = 1 /\ pushed' = FALSE
  /\ UNCHANGED <<mBufferCache, out, arrivals, pc>>

(* The cache is full: give up the missing packet and go over it again.     *)
giveUpMissing ==
  /\ passDone
  /\ ~pushed /\ Len(mBufferCache) = MaxCache
  /\ mNextSequenceNumber' = following(mNextSequenceNumber)
  /\ it' = 1 /\ pushed' = FALSE
  /\ UNCHANGED <<mBufferCache, out, arrivals, pc>>

(* Mutant: the scan also ends when the cache is full.                      *)
scanEnd_full ==
  /\ passDone
  /\ mBufferCache = <<>> \/ ~pushed
  /\ pc' = "recv" /\ it' = 1 /\ pushed' = FALSE
  /\ UNCHANGED <<mNextSequenceNumber, mBufferCache, out, arrivals>>

scanEnd ==
  /\ passDone
  /\ mBufferCache = <<>> \/ ~pushed
  /\ Len(mBufferCache) # MaxCache
  /\ pc' = "recv" /\ it' = 1 /\ pushed' = FALSE
  /\ UNCHANGED <<mNextSequenceNumber, mBufferCache, out, arrivals>>

processCachedBuffers == scanPush \/ scanSkip \/ scanAgain \/ giveUpMissing \/ scanEnd

-----------------------------------------------------------------------------
(* The listener on a network that may deliver any packet at any time.      *)
Next ==
  /\ processCachedBuffers \/ \E p \in Packet : processRtpPacket(p)
  /\ UNCHANGED charIsSigned

Spec == Init /\ [][Next]_<<rtpVars, charIsSigned>>

(* Type correctness.                                                       *)
RtpTypeOK ==
  /\ charIsSigned \in BOOLEAN
  /\ mNextSequenceNumber \in SeqNum \cup {-1}
  /\ mBufferCache \in Seq(Packet)
  /\ out \in Seq(Packet)
  /\ arrivals \in 0..MaxArrivals
  /\ pc \in {"recv", "scan", "aborted"}
  /\ it \in Nat \ {0}
  /\ pushed \in BOOLEAN

(* The abort() on a full cache is unreachable: processCachedBuffers never  *)
(* returns with a full cache, whatever the network delivers.               *)
NeverAborts ==
  /\ pc # "aborted"
  /\ pc = "recv" => Len(mBufferCache) < MaxCache

(* No packet is lost or duplicated by the listener: each one processed has *)
(* been handed on or is in the cache.                                      *)
NothingDropped == arrivals = Len(out) + Len(mBufferCache)

(* A packet whose turn has come is not left in the cache: between packets, *)
(* the cache does not hold the expected one.                               *)
NothingOverdue ==
  pc = "recv" => \A i \in 1..Len(mBufferCache) : mBufferCache[i].seq # mNextSequenceNumber

(* processCachedBuffers terminates, so the read loop (and the mutex it     *)
(* holds) is released: the search for the next cached sequence number      *)
(* always finds one.                                                       *)
ScanTerminates == pc = "scan" ~> pc = "recv"

=============================================================================
