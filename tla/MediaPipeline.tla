---------------------------- MODULE MediaPipeline ----------------------------
(***************************************************************************)
(* The data path of MediaSourceHandler: producer threads fill buffers of   *)
(* the BufferQueue and consumerLoop cuts what they contain into chunks of  *)
(* a fixed size for the stream consumers (StreamSource::post).             *)
(*                                                                         *)
(* A buffer keeps its size when it is recycled: a demuxer sets the size of *)
(* the payload it writes, while injectNullBuffers overwrites as many bytes *)
(* as the previous user left in the buffer.                                *)
(***************************************************************************)
EXTENDS BufferQueue, SequencesExt

CONSTANTS
  Payloads,     \* what a demuxer can write into a buffer: sequences of bytes
  Bytes,        \* the values of a byte
  NullByte,     \* a byte of a null TS packet
  Monitor,      \* the producer that injects null packets (dataMonitorLoop)
  BufferSize,   \* FEIP_BUFFER_SIZE
  ChunkSize     \* the size of buffer_chunk

ASSUME PipelineAssumption ==
  /\ ChunkSize \in Nat \ {0}
  /\ BufferSize \in Nat
  /\ Monitor \in Producers
  /\ NullByte \in Bytes
  /\ Payloads \subseteq Seq(Bytes) /\ \A p \in Payloads : Len(p) <= BufferSize

VARIABLES
  content,      \* the first `size' bytes of each buffer
  chunk,        \* consumerLoop's chunk, filled up to offset
  offset,       \* consumerLoop's offset, kept from buffer to buffer
  remaining,    \* remainingInputBytes of the buffer being consumed
  posted        \* the last chunk handed to the stream consumers

dataVars == <<content, chunk, offset, remaining, posted>>
pipeVars == <<vars, dataVars>>

(* alloc_bq_buffer sets size to the capacity and leaves the bytes undefined *)
(* (nothing reads them before a producer has written them).                *)
PipeInit ==
  /\ Init
  /\ content = [b \in Buffers |-> [i \in 1..BufferSize |-> NullByte]]
  /\ chunk = [i \in 1..ChunkSize |-> NullByte]
  /\ offset = 0
  /\ remaining = 0
  /\ posted = <<>>

(* A demuxer copies a payload into its buffer and sets the size.           *)
fillPayload(t) ==
  /\ t # Monitor
  /\ fill(t)
  /\ \E p \in Payloads : content' = [content EXCEPT ![held[t]] = p]
  /\ UNCHANGED <<chunk, offset, remaining, posted>>

(* injectNullBuffers overwrites the bytes the recycled buffer has.         *)
injectNullBuffers ==
  /\ fill(Monitor)
  /\ content' = [content EXCEPT ![held[Monitor]] = [i \in 1..Len(@) |-> NullByte]]
  /\ UNCHANGED <<chunk, offset, remaining, posted>>

pushOrAcquire(t) == QueueStep(t) /\ UNCHANGED dataVars

-----------------------------------------------------------------------------
consumeOther ==
  /\ consumeWait \/ consumeTake \/ consumeTimeout \/ releaseNotify \/ release
  /\ UNCHANGED dataVars

(* consume returned a buffer: consumerLoop starts reading it.              *)
startBuffer ==
  /\ consumeNotify
  /\ remaining' = Len(content[held[Consumer]])
  /\ UNCHANGED <<content, chunk, offset, posted>>

(* Mutant: the offset is not kept for the next buffer.                     *)
nextOffset_forgotten(n) == 0

nextOffset(n) == (offset + n) % ChunkSize

(* One turn of consumerLoop's inner loop.                                  *)
copyBytes ==
  LET bytes == content[held[Consumer]]
      start == Len(bytes) - remaining
      room  == ChunkSize - offset
      n     == IF room < remaining THEN room ELSE remaining
  IN /\ pc[Consumer] = "process" /\ remaining > 0
     /\ chunk' = [i \in 1..ChunkSize |->
                    IF i \in offset + 1 .. offset + n THEN bytes[start + i - offset]
                                                      ELSE chunk[i]]
     /\ posted' = IF n + offset = ChunkSize THEN chunk' ELSE posted
     /\ offset' = nextOffset(n)
     /\ remaining' = remaining - n
     /\ UNCHANGED <<vars, content>>

endBuffer ==
  /\ remaining = 0
  /\ process
  /\ UNCHANGED dataVars

consumerLoop == consumeOther \/ startBuffer \/ copyBytes \/ endBuffer

PipeNext ==
  \/ \E t \in Producers : pushOrAcquire(t) \/ fillPayload(t)
  \/ injectNullBuffers
  \/ consumerLoop

(* The consumer and the producers are threads that the operating system    *)
(* keeps scheduling; a producer that has a buffer fills it and queues it.  *)
Fairness ==
  /\ WF_pipeVars(consumerLoop)
  /\ \A t \in Producers : WF_pipeVars(pushOrAcquire(t))

PipeSpec == PipeInit /\ [][PipeNext]_pipeVars
FairPipeSpec == PipeSpec /\ Fairness

-----------------------------------------------------------------------------
(* Type correctness of the data path.                                      *)
PipeTypeOK ==
  /\ TypeOK
  /\ offset \in 0..ChunkSize - 1
  /\ remaining \in 0..BufferSize
  /\ chunk \in [1..ChunkSize -> Bytes]
  /\ content \in [Buffers -> Seq(Bytes)]
  /\ \A b \in Buffers : Len(content[b]) <= BufferSize

(* consumerLoop reads inside the payload of the buffer it holds, to its    *)
(* end: nobody resizes the buffer between the read of its size and the     *)
(* last copy.                                                              *)
ReadsWithinPayload ==
  pc[Consumer] = "process" => remaining <= Len(content[held[Consumer]])

(* A step that leaves the queued buffers, and the one being read, alone.   *)
keepsQueuedBytes ==
  \A b \in Buffers :
    b \in Elements(consumerQueue) \cup {held[Consumer]} => content'[b] = content[b]

(* The bytes of a queued buffer, and of the one being read, stay what the  *)
(* producer queued until consumerLoop has posted them.                     *)
QueuedBytesStable == [][keepsQueuedBytes]_pipeVars

(* The bytes handed over and not yet posted: what the partial chunk holds, *)
(* the rest of the buffer being read, then the queued buffers.             *)
inReading ==
  IF pc[Consumer] = "process"
    THEN LET bytes == content[held[Consumer]]
         IN SubSeq(bytes, Len(bytes) - remaining + 1, Len(bytes))
  ELSE IF pc[Consumer] = "consume_notify" THEN content[held[Consumer]]
  ELSE <<>>

inFlight ==
  SubSeq(chunk, 1, offset) \o inReading
    \o FlattenSeq([i \in 1..Len(consumerQueue) |-> content[consumerQueue[i]]])

Abstract == INSTANCE ByteStream WITH stream <- inFlight

(* The data path implements the byte stream: whatever the interleaving of  *)
(* the producers with consumerLoop and the recycling of buffers, every     *)
(* payload is posted byte for byte and in the order it was queued.         *)
StreamPreserved == Abstract!Spec

BlockedProducerWakes ==
  \A t \in Producers : (t \in emptyWait) ~> (t \notin emptyWait)

QueuedIsConsumed ==
  \A b \in Buffers : (b \in Elements(consumerQueue)) ~> (b \notin Elements(consumerQueue))

(* The buffers keep moving: a producer blocked in acquire (all buffers in  *)
(* use) is woken up again, because consumerLoop keeps releasing buffers    *)
(* and release notifies every waiter; and no buffer stays queued for ever. *)
BuffersKeepMoving == BlockedProducerWakes /\ QueuedIsConsumed

=============================================================================
