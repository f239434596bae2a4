----------------------------- MODULE BufferQueue -----------------------------
(***************************************************************************)
(* The producer/consumer queue of include/BufferQueue.h, used by           *)
(* MediaSourceHandler as mFccBufferQueue.  A fixed pool of buffers         *)
(* circulates: a producer thread acquires an empty buffer, fills it and    *)
(* queues it; the consumer thread consumes it and releases it.             *)
(*                                                                         *)
(* Each operation locks one mutex, waits on a condition variable while its *)
(* predicate is false, moves one buffer, unlocks and only then calls       *)
(* notify_all.  The part under the lock is one action; the notification is *)
(* a second one, because other threads can run in between.  A thread that  *)
(* found its predicate false is in the wait set of the condition variable  *)
(* until a notification (or, for the timed consume, the timeout) lets it   *)
(* evaluate the predicate again.                                           *)
(*                                                                         *)
(* exitPending is not modelled: it is set by the destructor only, which    *)
(* runs after the owner has joined its threads.                            *)
(***************************************************************************)
EXTENDS Naturals, Sequences, FiniteSets

CONSTANTS
  Buffers,      \* the bq_buffer objects allocated by the owner
  Producers,    \* threads that acquire, fill and queue (demuxer reader, data monitor)
  Consumer,     \* the thread of MediaSourceHandler::consumerLoop
  MaxDepth,     \* mMaxDepth, the template argument queueSize
  NoBuffer      \* nullptr

(* The owner allocates exactly as many buffers as the queue is deep:       *)
(* BufferQueue<bq_buffer, FEIP_DEFAULT_BUFFER_COUNT> and a loop of         *)
(* FEIP_DEFAULT_BUFFER_COUNT allocations.                                  *)
ASSUME PoolAssumption ==
  /\ IsFiniteSet(Buffers)
  /\ MaxDepth \in Nat \ {0}
  /\ Cardinality(Buffers) <= MaxDepth
  /\ NoBuffer \notin Buffers
  /\ Consumer \notin Producers

Threads == Producers \cup {Consumer}

VARIABLES
  consumerQueue,  \* filled buffers, oldest first
  producerQueue,  \* empty buffers
  fillWait,       \* threads blocked on fillBuffCond
  emptyWait,      \* threads blocked on emptyBuffCond
  held,           \* the buffer each thread owns, or NoBuffer
  pc              \* the operation each thread is about to perform

vars == <<consumerQueue, producerQueue, fillWait, emptyWait, held, pc>>

(* Mutant: the depth is off by one.                                        *)
isConsumerQueueFull_offByOne == Len(consumerQueue) >= MaxDepth - 1

isConsumerQueueFull  == Len(consumerQueue) >= MaxDepth
isConsumerQueueEmpty == Len(consumerQueue) = 0
isProducerQueueFull  == Len(producerQueue) >= MaxDepth
isProducerQueueEmpty == Len(producerQueue) = 0

(* The buffers a sequence mentions.                                        *)
Elements(s) == {s[i] : i \in 1..Len(s)}

Goto(t, l) == pc' = [pc EXCEPT ![t] = l]

(* MediaSourceHandler's constructor releases every buffer into the queue   *)
(* before it starts a thread; in which order is immaterial.                *)
Init ==
  /\ consumerQueue = <<>>
  /\ producerQueue \in [1..Cardinality(Buffers) -> Buffers]
  /\ Elements(producerQueue) = Buffers
  /\ fillWait = {}
  /\ emptyWait = {}
  /\ held = [t \in Threads |-> NoBuffer]
  /\ pc = [t \in Threads |-> IF t = Consumer THEN "consume" ELSE "acquire"]

-----------------------------------------------------------------------------
(* acquire: a producer takes an empty buffer.                              *)

acquireWait(t) ==
  /\ pc[t] = "acquire" /\ t \notin emptyWait
  /\ isProducerQueueEmpty
  /\ emptyWait' = emptyWait \cup {t}
  /\ UNCHANGED <<consumerQueue, producerQueue, fillWait, held, pc>>

(* Mutant: front() without pop_front().                                    *)
acquireTake_noPop(t) ==
  /\ pc[t] = "acquire" /\ t \notin emptyWait
  /\ ~isProducerQueueEmpty
  /\ held' = [held EXCEPT ![t] = Head(producerQueue)]
  /\ Goto(t, "acquire_notify")
  /\ UNCHANGED <<consumerQueue, producerQueue, fillWait, emptyWait>>

acquireTake(t) ==
  /\ pc[t] = "acquire" /\ t \notin emptyWait
  /\ ~isProducerQueueEmpty
  /\ held' = [held EXCEPT ![t] = Head(producerQueue)]
  /\ producerQueue' = Tail(producerQueue)
  /\ Goto(t, "acquire_notify")
  /\ UNCHANGED <<consumerQueue, fillWait, emptyWait>>

acquireNotify(t) ==
  /\ pc[t] = "acquire_notify"
  /\ emptyWait' = {}
  /\ Goto(t, "fill")
  /\ UNCHANGED <<consumerQueue, producerQueue, fillWait, held>>

(* The caller writes its payload into the buffer it now owns.              *)
fill(t) ==
  /\ pc[t] = "fill"
  /\ Goto(t, "queue")
  /\ UNCHANGED <<consumerQueue, producerQueue, fillWait, emptyWait, held>>

(* queue: the producer hands the filled buffer over, or waits for room.    *)
queue(t) ==
  /\ pc[t] = "queue" /\ t \notin fillWait
  /\ IF isConsumerQueueFull
       THEN /\ fillWait' = fillWait \cup {t}
            /\ UNCHANGED <<consumerQueue, held, pc>>
       ELSE /\ consumerQueue' = Append(consumerQueue, held[t])
            /\ held' = [held EXCEPT ![t] = NoBuffer]
            /\ Goto(t, "queue_notify")
            /\ UNCHANGED fillWait
  /\ UNCHANGED <<producerQueue, emptyWait>>

queueNotify(t) ==
  /\ pc[t] = "queue_notify"
  /\ fillWait' = {}
  /\ Goto(t, "acquire")
  /\ UNCHANGED <<consumerQueue, producerQueue, emptyWait, held>>

-----------------------------------------------------------------------------
(* consume with a timeout: the predicate is evaluated once more when the   *)
(* time is up, so a consumer that times out may still find a buffer.       *)

consumeWait ==
  /\ pc[Consumer] = "consume" /\ Consumer \notin fillWait
  /\ isConsumerQueueEmpty
  /\ fillWait' = fillWait \cup {Consumer}
  /\ UNCHANGED <<consumerQueue, producerQueue, emptyWait, held, pc>>

consumeTake ==
  /\ pc[Consumer] = "consume" /\ Consumer \notin fillWait
  /\ ~isConsumerQueueEmpty
  /\ held' = [held EXCEPT ![Consumer] = Head(consumerQueue)]
  /\ consumerQueue' = Tail(consumerQueue)
  /\ Goto(Consumer, "consume_notify")
  /\ UNCHANGED <<producerQueue, fillWait, emptyWait>>

(* The one-second timeout: wait_for returns, and if the predicate is still *)
(* false consume returns false and consumerLoop calls it again.            *)
consumeTimeout ==
  /\ Consumer \in fillWait
  /\ fillWait' = fillWait \ {Consumer}
  /\ UNCHANGED <<consumerQueue, producerQueue, emptyWait, held, pc>>

consumeNotify ==
  /\ pc[Consumer] = "consume_notify"
  /\ fillWait' = {}
  /\ Goto(Consumer, "process")
  /\ UNCHANGED <<consumerQueue, producerQueue, emptyWait, held>>

(* The caller reads the buffer it now owns.                                *)
process ==
  /\ pc[Consumer] = "process"
  /\ Goto(Consumer, "release")
  /\ UNCHANGED <<consumerQueue, producerQueue, fillWait, emptyWait, held>>

(* release: the consumer gives the buffer back, or waits for room.         *)
release ==
  /\ pc[Consumer] = "release" /\ Consumer \notin emptyWait
  /\ IF isProducerQueueFull
       THEN /\ emptyWait' = emptyWait \cup {Consumer}
            /\ UNCHANGED <<producerQueue, held, pc>>
       ELSE /\ producerQueue' = Append(producerQueue, held[Consumer])
            /\ held' = [held EXCEPT ![Consumer] = NoBuffer]
            /\ Goto(Consumer, "release_notify")
            /\ UNCHANGED emptyWait
  /\ UNCHANGED <<consumerQueue, fillWait>>

(* Mutant: the notification is forgotten.                                  *)
releaseNotify_silent ==
  /\ pc[Consumer] = "release_notify"
  /\ Goto(Consumer, "consume")
  /\ UNCHANGED <<consumerQueue, producerQueue, fillWait, emptyWait, held>>

releaseNotify ==
  /\ pc[Consumer] = "release_notify"
  /\ emptyWait' = {}
  /\ Goto(Consumer, "consume")
  /\ UNCHANGED <<consumerQueue, producerQueue, fillWait, held>>

-----------------------------------------------------------------------------
(* The queue with clients that do nothing but circulate buffers.           *)

QueueStep(t) ==
  \/ acquireWait(t) \/ acquireTake(t) \/ acquireNotify(t)
  \/ queue(t) \/ queueNotify(t)

ConsumeStep ==
  \/ consumeWait \/ consumeTake \/ consumeTimeout \/ consumeNotify
  \/ release \/ releaseNotify

Next ==
  \/ \E t \in Producers : QueueStep(t) \/ fill(t)
  \/ ConsumeStep \/ process

Spec == Init /\ [][Next]_vars

-----------------------------------------------------------------------------
Labels == {"acquire", "acquire_notify", "fill", "queue", "queue_notify",
           "consume", "consume_notify", "process", "release", "release_notify"}

(* Type correctness.                                                       *)
TypeOK ==
  /\ consumerQueue \in Seq(Buffers)
  /\ producerQueue \in Seq(Buffers)
  /\ fillWait \subseteq Threads
  /\ emptyWait \subseteq Threads
  /\ held \in [Threads -> Buffers \cup {NoBuffer}]
  /\ pc \in [Threads -> Labels]

NoRepeats(s) == \A i, j \in 1..Len(s) : s[i] = s[j] => i = j

(* The labels at which a thread owns a buffer.                             *)
Holding == {"acquire_notify", "fill", "queue", "consume_notify", "process", "release"}

(* Every bq_buffer is in exactly one place: it is in one of the two queues *)
(* (once) or owned by one thread.  No thread can write into a buffer that  *)
(* is queued or that another thread is reading, and none is ever lost.     *)
OnePlace ==
  /\ NoRepeats(consumerQueue) /\ NoRepeats(producerQueue)
  /\ Elements(consumerQueue) \cap Elements(producerQueue) = {}
  /\ \A t \in Threads :
       held[t] \notin Elements(consumerQueue) \cup Elements(producerQueue)
  /\ \A t, u \in Threads : held[t] = held[u] /\ held[t] # NoBuffer => t = u
  /\ Buffers \subseteq Elements(consumerQueue) \cup Elements(producerQueue)
                       \cup {held[t] : t \in Threads}

(* A thread owns a buffer exactly between taking it and handing it over.   *)
Ownership == \A t \in Threads : held[t] # NoBuffer <=> pc[t] \in Holding

(* Who can be at which label, and who waits on which condition variable:   *)
(* only the consumer on fillBuffCond, only producers on emptyBuffCond.     *)
Roles ==
  /\ \A t \in Producers :
       pc[t] \in {"acquire", "acquire_notify", "fill", "queue", "queue_notify"}
  /\ pc[Consumer] \in {"consume", "consume_notify", "process", "release", "release_notify"}
  /\ \A t \in fillWait : t = Consumer /\ pc[t] = "consume"
  /\ \A t \in emptyWait : t \in Producers /\ pc[t] = "acquire"

(* Back-pressure is exerted by acquire alone: with no more buffers than    *)
(* the queue is deep, queue and release never find their queue full, so a  *)
(* thread that owns a buffer is never blocked while it owns it.            *)
NeverBlockedHolding ==
  \A t \in Threads :
    /\ pc[t] = "queue" => ~isConsumerQueueFull /\ t \notin fillWait
    /\ pc[t] = "release" => ~isProducerQueueFull /\ t \notin emptyWait

=============================================================================
