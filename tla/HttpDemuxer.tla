----------------------------- MODULE HttpDemuxer -----------------------------
(***************************************************************************)
(* src/HttpDemuxerImpl.cpp: open() replaces the download thread, whose     *)
(* curl callback cuts what arrives into full buffers of the queue shared   *)
(* with MediaSourceHandler's consumer.                                     *)
(*                                                                         *)
(* Bytes are <<channel, number>>, numbered modulo NumberRange in the order *)
(* in which the server sends them, across channels.  curl, the server and  *)
(* the pool (specified by BufferQueue) are external.                       *)
(***************************************************************************)
EXTENDS Naturals, Sequences, SequencesExt

CONSTANTS
  Channels,      \* addresses of HTTP streams
  NoUri,         \* mUri before the first open
  BufferSize,    \* FEIP_BUFFER_SIZE, in units the server sends
  PoolSize,      \* FEIP_DEFAULT_BUFFER_COUNT
  MaxPiece,      \* the most curl hands over in one callback
  NumberRange    \* bound: more than the bytes in flight

ASSUME HttpAssumption ==
  /\ NoUri \notin Channels
  /\ BufferSize \in Nat \ {0} /\ PoolSize \in Nat \ {0} /\ MaxPiece \in Nat \ {0}
  /\ NumberRange \in Nat /\ NumberRange > BufferSize * PoolSize + MaxPiece

VARIABLES
  mUri, mExitRequested,
  thread,        \* mHttpThread: "none", "perform", "write" or "done"
  caller,        \* open() and the destructor: "idle", "join", "destroy" or "gone"
  openUri,       \* the argument of open()
  piece,         \* data of the callback that is not copied yet
  httpBuffer,    \* the buffer in use; mCurrentOffset is its length
  free,          \* buffers in the pool
  queued,        \* buffers pushed and not consumed
  sent,          \* the number of the next byte the server sends
  consumed       \* the number of the next byte the consumer gets

openVars == <<mUri, mExitRequested, caller, openUri>>
dataVars == <<piece, httpBuffer, free, queued, sent, consumed>>
httpVars == <<openVars, thread, dataVars>>

HttpInit ==
  /\ mUri = NoUri /\ mExitRequested = FALSE
  /\ thread = "none"
  /\ caller = "idle" /\ openUri = NoUri
  /\ piece = <<>> /\ httpBuffer = <<>>
  /\ free = PoolSize /\ queued = <<>>
  /\ sent = 0 /\ consumed = 0

-----------------------------------------------------------------------------
(* Mutant: the address is stored before the old download is joined.        *)
openStart_early(c) ==
  /\ caller = "idle"
  /\ caller' = "join" /\ openUri' = c /\ mUri' = c
  /\ mExitRequested' = IF thread = "none" THEN mExitRequested ELSE TRUE
  /\ UNCHANGED <<thread, dataVars>>

openStart(c) ==
  /\ caller = "idle"
  /\ caller' = "join" /\ openUri' = c
  /\ mExitRequested' = IF thread = "none" THEN mExitRequested ELSE TRUE
  /\ UNCHANGED <<mUri, thread, dataVars>>

(* join() returns and the new thread starts.                               *)
openJoined ==
  /\ caller = "join" /\ thread \in {"none", "done"}
  /\ mUri' = openUri
  /\ mExitRequested' = FALSE
  /\ thread' = "perform"
  /\ caller' = "idle" /\ openUri' = NoUri
  /\ UNCHANGED dataVars

destroy ==
  /\ caller = "idle"
  /\ caller' = "destroy"
  /\ mExitRequested' = TRUE
  /\ UNCHANGED <<mUri, openUri, thread, dataVars>>

destroyed ==
  /\ caller = "destroy" /\ thread \in {"none", "done"}
  /\ caller' = "gone"
  /\ UNCHANGED <<mUri, mExitRequested, openUri, thread, dataVars>>

-----------------------------------------------------------------------------
(* What the server of mUri sends next.                                     *)
received(amount) == [k \in 1..amount |-> <<mUri, (sent + k - 1) % NumberRange>>]

(* Mutant: the request to exit is not looked at.                           *)
write_data_always(amount) ==
  /\ thread = "perform"
  /\ thread' = "write"
  /\ piece' = received(amount)
  /\ sent' = (sent + amount) % NumberRange
  /\ UNCHANGED <<openVars, httpBuffer, free, queued, consumed>>

(* curl's callback: -1 makes curl_easy_perform return and the thread end.  *)
write_data(amount) ==
  /\ thread = "perform"
  /\ IF mExitRequested
       THEN /\ thread' = "done"
            /\ UNCHANGED <<piece, sent>>
       ELSE /\ thread' = "write"
            /\ piece' = received(amount)
            /\ sent' = (sent + amount) % NumberRange
  /\ UNCHANGED <<openVars, httpBuffer, free, queued, consumed>>

(* curl_easy_perform returns: the stream has ended, or failed.             *)
performEnds ==
  /\ thread = "perform"
  /\ thread' = "done"
  /\ UNCHANGED <<openVars, dataVars>>

writeLength ==
  IF Len(piece) < BufferSize - Len(httpBuffer)
    THEN Len(piece) ELSE BufferSize - Len(httpBuffer)

filled == httpBuffer \o SubSeq(piece, 1, writeLength)

(* Mutant: what does not fit into the buffer is dropped.                   *)
copyPiece_once ==
  /\ piece' = <<>>
  /\ IF Len(filled) = BufferSize
       THEN /\ queued' = Append(queued, [label |-> mUri, bytes |-> filled])
            /\ httpBuffer' = <<>>
       ELSE httpBuffer' = filled /\ UNCHANGED queued

(* memcpy, and pushBuffertoBQ when the buffer is full.                     *)
copyPiece ==
  /\ piece' = SubSeq(piece, writeLength + 1, Len(piece))
  /\ IF Len(filled) = BufferSize
       THEN /\ queued' = Append(queued, [label |-> mUri, bytes |-> filled])
            /\ httpBuffer' = <<>>
       ELSE httpBuffer' = filled /\ UNCHANGED queued

(* One turn of the loop in write(); a new buffer is acquired when the last *)
(* one was pushed, and acquireBuffer waits for one.                        *)
write ==
  /\ thread = "write" /\ piece # <<>>
  /\ IF httpBuffer = <<>> THEN free > 0 /\ free' = free - 1 ELSE UNCHANGED free
  /\ copyPiece
  /\ UNCHANGED <<openVars, thread, sent, consumed>>

writeReturns ==
  /\ thread = "write" /\ piece = <<>>
  /\ thread' = "perform"
  /\ UNCHANGED <<openVars, dataVars>>

(* The consumer thread of MediaSourceHandler.                              *)
consume ==
  /\ queued # <<>>
  /\ queued' = Tail(queued)
  /\ free' = free + 1
  /\ consumed' = (consumed + BufferSize) % NumberRange
  /\ UNCHANGED <<openVars, thread, piece, httpBuffer, sent>>

HttpNext ==
  \/ \E c \in Channels : openStart(c)
  \/ openJoined \/ destroy \/ destroyed
  \/ \E amount \in 1..MaxPiece : write_data(amount)
  \/ performEnds \/ write \/ writeReturns \/ consume

(* The threads of the process keep running; the server owes nothing.       *)
HttpSpec ==
  /\ HttpInit /\ [][HttpNext]_httpVars
  /\ WF_httpVars(openJoined \/ destroyed)
  /\ WF_httpVars(write \/ writeReturns)
  /\ WF_httpVars(consume)

-----------------------------------------------------------------------------
(* The bytes of s are numbered from first on.                              *)
numbered(s, first) == \A j \in 1..Len(s) : s[j][2] = (first + j - 1) % NumberRange

(* The number of the byte after the first k buffers of the queue, and what *)
(* has not been queued.                                                    *)
afterBuffers(k) == consumed + k * BufferSize
unqueued == httpBuffer \o piece

(* Nothing is lost, repeated or reordered where the pieces curl delivers   *)
(* are cut into buffers (write), not even over a switch or an aborted      *)
(* download: the bytes in flight are exactly those between the last one    *)
(* consumed and the last one received, and all buffers queued are full.    *)
StreamComplete ==
  /\ \A k \in 1..Len(queued) : /\ Len(queued[k].bytes) = BufferSize
                              /\ numbered(queued[k].bytes, afterBuffers(k - 1))
  /\ numbered(unqueued, afterBuffers(Len(queued)))
  /\ (afterBuffers(Len(queued)) + Len(unqueued)) % NumberRange = sent

(* A buffer is labelled with the channel its last byte came from: open()   *)
(* changes mUri only when no callback can run any more.  (Its first bytes  *)
(* may be the rest of the channel before.)                                 *)
LabelOfLastByte ==
  \A k \in 1..Len(queued) : queued[k].label = Last(queued[k].bytes)[1]

(* open() and the destructor return, unless the server stays silent: the   *)
(* callback gives up as soon as it is called, and a callback that waits    *)
(* for a buffer gets one.                                                  *)
OpenReturns ==
  []<>(thread # "perform") => [](caller \in {"join", "destroy"} => <>(caller \in {"idle", "gone"}))

=============================================================================
