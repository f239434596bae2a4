------------------------------ MODULE RtpSession ------------------------------
(***************************************************************************)
(* RtpStreamListener receiving one RTP stream over a network that loses    *)
(* packets, reorders them by a bounded distance, repeats some and brings   *)
(* some too late: what the reordering cache is for.  Afterwards anything   *)
(* may arrive: another sender, another stream.  The network and the        *)
(* senders are the environment.                                            *)
(***************************************************************************)
EXTENDS RtpStreamListener, FiniteSets

CONSTANTS
  Starts,      \* sequence numbers the sender may begin with
  Window,      \* packet i arrives before packet i + Window + 1, or is lost
  MaxLost,     \* packets lost out of any MaxDiff consecutive ones
  Extras       \* identities of other packets, each used once: repetitions and
               \* latecomers during the stream, anything after it

(* The disorder the cache is made for.  The packets that overtake one      *)
(* packet must leave room in the cache, and the newest packet must not be  *)
(* so far from the expected one that it looks like a discontinuity: what   *)
(* lies between them is lost, cached or overtaken.  (With the code's       *)
(* MAX_RTP_BUFFER_CACHE = 5 and MAX_SEQNUM_DIFF_FOR_DISCONTINUITY = 10 the *)
(* second condition is Window + MaxLost <= 6.)                             *)
ASSUME DisorderAssumption ==
  /\ Window \in Nat /\ MaxLost \in Nat /\ Extras \subseteq Ids
  /\ Window < MaxCache
  /\ Window + MaxLost + MaxCache - 1 <= MaxDiff

VARIABLES
  start,     \* sequence number of packet 0
  lost,      \* packets that do not arrive, or only later than Window
  arrived,   \* packets that have arrived
  extra,     \* repetitions and latecomers that arrived during the stream
  crossed    \* one of them came from before a wrap-around already passed

netVars == <<charIsSigned, start, lost, arrived, extra, crossed>>
sessionVars == <<rtpVars, netVars>>

Sent == Ids \ Extras

(* The packets of the stream are numbered from 0 without a gap.            *)
ASSUME StreamAssumption ==
  /\ Starts \subseteq SeqNum
  /\ \A i \in Sent : i \in Nat /\ 0 .. i \subseteq Sent

SessionInit ==
  /\ Init
  /\ start \in Starts
  /\ lost \in {l \in SUBSET (Sent \ {0}) :
                \A i \in Sent : Cardinality(l \cap (i .. i + MaxDiff - 1)) <= MaxLost}
  /\ arrived = {} /\ extra = 0 /\ crossed = FALSE

number(i) == (start + i) % Modulus

(* Packet i arrives: everything more than Window older has arrived or is   *)
(* lost.  The stream begins with packet 0.                                 *)
deliver(i) ==
  /\ i \notin arrived \cup lost
  /\ \A j \in Sent : j < i - Window \/ (j < i /\ arrived = {}) => j \in arrived \cup lost
  /\ processRtpPacket([id |-> i, seq |-> number(i)])
  /\ arrived' = arrived \cup {i}
  /\ UNCHANGED <<charIsSigned, start, lost, extra, crossed>>

(* Packet j arrives a second time, or at last although it counted as lost, *)
(* when the newest packet is not more than MaxDiff - 1 ahead of it.        *)
deliverExtra(i, j) ==
  /\ i \notin arrived
  /\ j \in arrived \cup lost
  /\ \E k \in arrived \cap Sent : k >= j
  /\ \A k \in arrived \cap Sent : k - j < MaxDiff
  /\ processRtpPacket([id |-> i, seq |-> number(j)])
  /\ arrived' = arrived \cup {i} /\ extra' = extra + 1
  /\ crossed' = (crossed \/ number(j) - mNextSequenceNumber > Mid)
  /\ UNCHANGED <<charIsSigned, start, lost>>

(* The stream is over and a packet with any sequence number arrives.       *)
strayArrives(i, s) ==
  /\ Sent \subseteq arrived \cup lost /\ i \notin arrived
  /\ processRtpPacket([id |-> i, seq |-> s])
  /\ arrived' = arrived \cup {i}
  /\ UNCHANGED <<charIsSigned, start, lost, extra, crossed>>

SessionNext ==
  \/ processCachedBuffers /\ UNCHANGED netVars
  \/ \E i \in Sent : deliver(i)
  \/ \E i \in Extras, j \in Sent : deliverExtra(i, j)
  \/ \E i \in Extras, s \in SeqNum : strayArrives(i, s)

(* The reader that has taken a packet goes on until it has dealt with it.  *)
SessionSpec ==
  /\ SessionInit /\ [][SessionNext]_sessionVars
  /\ WF_rtpVars(processCachedBuffers)

handedOn(i) == \E k \in 1..Len(out) : out[k].id = i

(* What the sequencing is good for: char is unsigned, and the repetitions  *)
(* and latecomers, which stay in the cache for good, have left room for    *)
(* the packets that overtake one; the stream that is left is too short to  *)
(* come round to their numbers.  From before the wrap-around they look far *)
(* away (diffSequenceNumber) and restart the sequence.                     *)
orderly ==
  /\ ~charIsSigned
  /\ extra > 0 => /\ ~crossed
                  /\ extra + Window < MaxCache
                  /\ Sent \subseteq 0 .. Mid - 1

(* The order of the stream is restored, also across the wrap-around of the *)
(* sequence number and after lost, repeated and late packets: its packets  *)
(* are handed on in increasing order.                                      *)
InOrder ==
  orderly =>
    \A i, j \in 1..Len(out) :
      i < j /\ {out[i].id, out[j].id} \subseteq Sent => out[i].id < out[j].id

(* Only packets that are really lost are given up: no packet that arrives  *)
(* in time is overtaken for good by a later one.                           *)
OnlyLostSkipped ==
  orderly => \A i, j \in Sent : i < j /\ handedOn(j) => i \in lost \/ handedOn(i)

=============================================================================
