------------------------- MODULE MediaPipelineProofs -------------------------
(***************************************************************************)
(* Proofs about BufferQueue and MediaPipeline, for any pool of buffers,    *)
(* any depth and number of producers, every size of buffer and chunk and   *)
(* every set of payloads.  No buffer is ever lost, duplicated or shared,   *)
(* and a thread that owns one is never blocked; the data path uses the     *)
(* queue as BufferQueue specifies it, reads only inside a payload, never   *)
(* has a payload overwritten under it, and implements ByteStream: the      *)
(* payloads are posted byte for byte and in the order they were queued.    *)
(***************************************************************************)
EXTENDS MediaPipeline, FiniteSetTheorems, FunctionTheorems, SequenceTheorems,
        NaturalsInduction, WellFoundedInduction, TLAPS

-----------------------------------------------------------------------------
(* Lemmas about sequences without repetitions.                             *)

(* Appending an element that a sequence does not mention.                  *)
LEMMA AppendFacts ==
  ASSUME NEW S, NEW s \in Seq(S), NEW e \in S
  PROVE  /\ Append(s, e) \in Seq(S)
         /\ Elements(Append(s, e)) = Elements(s) \cup {e}
         /\ NoRepeats(s) /\ e \notin Elements(s) => NoRepeats(Append(s, e))
<1> DEFINE a == Append(s, e)
<1>1. /\ a \in Seq(S) /\ Len(a) = Len(s) + 1 /\ Len(s) \in Nat
      /\ \A i \in 1..Len(s) : a[i] = s[i]
      /\ a[Len(s) + 1] = e
  OBVIOUS
<1>2. 1..Len(a) = (1..Len(s)) \cup {Len(s) + 1}
  BY <1>1
<1> HIDE DEF a
<1>3. Elements(a) = Elements(s) \cup {e}
  BY <1>1, <1>2 DEF Elements
<1>4. ASSUME NoRepeats(s), e \notin Elements(s)
      PROVE  NoRepeats(a)
  BY <1>1, <1>2, <1>4 DEF Elements, NoRepeats
<1>5. QED
  BY <1>1, <1>3, <1>4 DEF a

(* Taking the head of a sequence.                                          *)
LEMMA TailFacts ==
  ASSUME NEW S, NEW s \in Seq(S), Len(s) # 0
  PROVE  /\ Tail(s) \in Seq(S) /\ Head(s) \in S
         /\ Elements(s) = Elements(Tail(s)) \cup {Head(s)}
         /\ NoRepeats(s) => NoRepeats(Tail(s)) /\ Head(s) \notin Elements(Tail(s))
<1> DEFINE u == Tail(s)
<1>1. /\ u \in Seq(S) /\ Len(s) \in Nat /\ Len(u) = Len(s) - 1
      /\ \A i \in 1..Len(u) : u[i] = s[i + 1]
      /\ Head(s) = s[1] /\ s[1] \in S
  OBVIOUS
<1> HIDE DEF u
<1>2. \A i \in 1..Len(s) : i = 1 \/ i - 1 \in 1..Len(u)
  BY <1>1
<1>3. Elements(s) = Elements(u) \cup {s[1]}
  <2>1. ASSUME NEW i \in 1..Len(s) PROVE s[i] \in Elements(u) \cup {s[1]}
    <3>1. CASE i = 1
      BY <3>1
    <3>2. CASE i - 1 \in 1..Len(u)
      <4>1. u[i - 1] = s[i]
        BY <1>1, <3>2
      <4>2. QED
        BY <3>2, <4>1 DEF Elements
    <3>3. QED
      BY <1>2, <3>1, <3>2
  <2>2. \A i \in 1..Len(u) : u[i] \in Elements(s)
    BY <1>1 DEF Elements
  <2>3. s[1] \in Elements(s)
    BY <1>1 DEF Elements
  <2>4. QED
    BY <2>1, <2>2, <2>3 DEF Elements
<1>4. ASSUME NoRepeats(s) PROVE NoRepeats(u) /\ s[1] \notin Elements(u)
  <2>1. NoRepeats(u)
    BY <1>1, <1>4 DEF NoRepeats
  <2>2. \A i \in 1..Len(u) : u[i] # s[1]
    BY <1>1, <1>4 DEF NoRepeats
  <2>3. QED
    BY <2>1, <2>2 DEF Elements
<1>5. QED
  BY <1>1, <1>3, <1>4 DEF u

(* The size of an initial interval.                                        *)
LEMMA IntervalCardinality ==
  ASSUME NEW n \in Nat
  PROVE  IsFiniteSet(1..n) /\ Cardinality(1..n) = n
<1>1. /\ IsFiniteSet(1..n)
      /\ Cardinality(1..n) = IF 1 > n THEN 0 ELSE n - 1 + 1
  <2>1. 1 \in Int /\ n \in Int
    OBVIOUS
  <2>2. QED
    BY ONLY <2>1, FS_Interval, Zenon
<1>2. QED
  BY <1>1

(* A sequence without repetitions over a finite set that does not mention  *)
(* all of it is shorter than the set is large.                             *)
LEMMA ShorterThanSet ==
  ASSUME NEW S, IsFiniteSet(S), NEW s \in Seq(S), NoRepeats(s),
         NEW e \in S, e \notin Elements(s)
  PROVE  Len(s) < Cardinality(S)
<1>1. s \in [1..Len(s) -> S] /\ Len(s) \in Nat
  BY LenProperties
<1>2. s \in Injection(1..Len(s), S)
  BY <1>1 DEF NoRepeats, Injection, IsInjective
<1>3. s \notin Surjection(1..Len(s), S)
  BY <1>1 DEF Elements, Surjection
<1>4. Cardinality(1..Len(s)) = Len(s)
  BY <1>1, IntervalCardinality
<1>5. Cardinality(S) \in Nat
  BY FS_CardinalityType
<1>6. /\ Cardinality(1..Len(s)) <= Cardinality(S)
      /\ Cardinality(1..Len(s)) # Cardinality(S)
  BY <1>2, <1>3, FS_Injection
<1>7. QED
  BY <1>1, <1>4, <1>5, <1>6

(* A sequence as long as a finite set is large that mentions all of it has *)
(* no repetitions.                                                         *)
LEMMA CoveringHasNoRepeats ==
  ASSUME NEW S, IsFiniteSet(S), NEW s \in [1..Cardinality(S) -> S], Elements(s) = S
  PROVE  s \in Seq(S) /\ NoRepeats(s)
<1> DEFINE n == Cardinality(S)
<1>1. n \in Nat
  BY FS_CardinalityType
<1>2. s \in Seq(S) /\ Len(s) = n
  BY <1>1, SeqDef, LenProperties
<1>3. s \in Surjection(1..n, S)
  BY <1>2 DEF Elements, Surjection
<1>4. IsFiniteSet(1..n) /\ Cardinality(1..n) = n
  BY <1>1, IntervalCardinality
<1>5. s \in Injection(1..n, S)
  BY <1>3, <1>4, FS_Surjection
<1>6. QED
  BY <1>2, <1>5 DEF Injection, IsInjective, NoRepeats

-----------------------------------------------------------------------------
(* The inductive invariant.  OnePlace is not inductive alone: that a buffer *)
(* handed over leaves its owner needs Ownership, and that the full-queue   *)
(* branches of queue and release are never taken needs Roles.              *)
IInv == TypeOK /\ OnePlace /\ Ownership /\ Roles

(* In every state of the invariant a thread that owns a buffer can hand it *)
(* over: its own buffer is missing from the queue, so there is room.       *)
LEMMA RoomForOwned ==
  ASSUME IInv, NEW t \in Threads, pc[t] \in Holding
  PROVE  ~isConsumerQueueFull /\ ~isProducerQueueFull
<1>1. held[t] \in Buffers
  BY DEF IInv, TypeOK, Ownership
<1>2. held[t] \notin Elements(consumerQueue) /\ held[t] \notin Elements(producerQueue)
  BY DEF IInv, OnePlace
<1>3. Len(consumerQueue) < Cardinality(Buffers)
  BY <1>1, <1>2, ShorterThanSet, PoolAssumption DEF IInv, TypeOK, OnePlace
<1>4. Len(producerQueue) < Cardinality(Buffers)
  BY <1>1, <1>2, ShorterThanSet, PoolAssumption DEF IInv, TypeOK, OnePlace
<1>5. Cardinality(Buffers) \in Nat /\ Len(consumerQueue) \in Nat /\ Len(producerQueue) \in Nat
  BY FS_CardinalityType, PoolAssumption, LenProperties DEF IInv, TypeOK
<1>6. QED
  BY <1>3, <1>4, <1>5, PoolAssumption DEF isConsumerQueueFull, isProducerQueueFull

(* The initial state, all buffers empty and in the producer queue.         *)
LEMMA InitIInv == Init => IInv
<1> SUFFICES ASSUME Init PROVE IInv
  OBVIOUS
<1>1. producerQueue \in Seq(Buffers) /\ NoRepeats(producerQueue)
  BY CoveringHasNoRepeats, PoolAssumption DEF Init
<1>2. /\ consumerQueue = <<>> /\ consumerQueue \in Seq(Buffers)
      /\ NoRepeats(consumerQueue) /\ Elements(consumerQueue) = {}
  BY DEF Init, NoRepeats, Elements
<1>3. TypeOK
  BY <1>1, <1>2 DEF Init, TypeOK, Labels
<1>4. OnePlace
  BY <1>1, <1>2, PoolAssumption DEF Init, OnePlace
<1>5. Ownership
  BY DEF Init, Ownership, Holding
<1>6. Roles
  BY PoolAssumption DEF Init, Roles, Threads
<1>7. QED
  BY <1>3, <1>4, <1>5, <1>6 DEF IInv

(* Steps that move no buffer keep it: they leave both queues and every     *)
(* owner alone.                                                            *)
LEMMA NothingMoves ==
  ASSUME IInv, UNCHANGED <<consumerQueue, producerQueue, held>>
  PROVE  OnePlace'
  BY DEF IInv, OnePlace, Elements, NoRepeats

(* A producer takes the head of the producer queue.                        *)
LEMMA AcquireKeepsIInv ==
  ASSUME IInv, NEW t \in Producers, acquireTake(t)
  PROVE  IInv'
<1> USE DEF IInv
<1>1. t \in Threads /\ t # Consumer /\ held[t] = NoBuffer
  BY PoolAssumption DEF Threads, Ownership, acquireTake, Holding
<1> DEFINE b == Head(producerQueue)
<1>2. /\ producerQueue' \in Seq(Buffers) /\ b \in Buffers
      /\ Elements(producerQueue) = Elements(producerQueue') \cup {b}
      /\ NoRepeats(producerQueue') /\ b \notin Elements(producerQueue')
  BY TailFacts DEF TypeOK, OnePlace, acquireTake, isProducerQueueEmpty
<1>3. /\ consumerQueue' = consumerQueue /\ fillWait' = fillWait /\ emptyWait' = emptyWait
      /\ held' = [held EXCEPT ![t] = b]
      /\ pc' = [pc EXCEPT ![t] = "acquire_notify"]
  BY DEF acquireTake, Goto
<1> HIDE DEF b
<1>4. /\ held' \in [Threads -> Buffers \cup {NoBuffer}] /\ pc' \in [Threads -> Labels]
      /\ held'[t] = b /\ pc'[t] = "acquire_notify"
      /\ \A u \in Threads \ {t} : held'[u] = held[u] /\ pc'[u] = pc[u]
  BY <1>1, <1>2, <1>3 DEF TypeOK, Labels
<1>5. TypeOK'
  BY <1>2, <1>3, <1>4 DEF TypeOK
<1>6. OnePlace'
  <2>1. \A u \in Threads : held[u] # b
    BY <1>2 DEF OnePlace
  <2>2. Elements(consumerQueue') = Elements(consumerQueue) /\ NoRepeats(consumerQueue')
    BY <1>3 DEF OnePlace
  <2>3. b # NoBuffer
    BY <1>2, PoolAssumption
  <2>4. \A u \in Threads :
          held'[u] \notin Elements(consumerQueue') \cup Elements(producerQueue')
    BY <1>2, <1>4, <2>2 DEF OnePlace
  <2>5. \A u, v \in Threads : held'[u] = held'[v] /\ held'[u] # NoBuffer => u = v
    BY <1>4, <2>1 DEF OnePlace
  <2>6. Buffers \subseteq Elements(consumerQueue') \cup Elements(producerQueue')
                           \cup {held'[u] : u \in Threads}
    BY <1>1, <1>2, <1>4, <2>2, PoolAssumption DEF OnePlace
  <2>7. QED
    BY <1>2, <2>2, <2>4, <2>5, <2>6 DEF OnePlace
<1>7. Ownership'
  BY <1>1, <1>2, <1>4, PoolAssumption DEF Ownership, Holding
<1>8. Roles'
  BY <1>1, <1>3, <1>4 DEF Roles, Threads, acquireTake
<1>9. QED
  BY <1>5, <1>6, <1>7, <1>8

(* The consumer takes the head of the consumer queue.                      *)
LEMMA ConsumeKeepsIInv ==
  ASSUME IInv, consumeTake
  PROVE  IInv'
<1> USE DEF IInv
<1>1. Consumer \in Threads /\ held[Consumer] = NoBuffer
  BY DEF Threads, Ownership, consumeTake, Holding
<1> DEFINE b == Head(consumerQueue)
<1>2. /\ consumerQueue' \in Seq(Buffers) /\ b \in Buffers
      /\ Elements(consumerQueue) = Elements(consumerQueue') \cup {b}
      /\ NoRepeats(consumerQueue') /\ b \notin Elements(consumerQueue')
  BY TailFacts DEF TypeOK, OnePlace, consumeTake, isConsumerQueueEmpty
<1>3. /\ producerQueue' = producerQueue /\ fillWait' = fillWait /\ emptyWait' = emptyWait
      /\ held' = [held EXCEPT ![Consumer] = b]
      /\ pc' = [pc EXCEPT ![Consumer] = "consume_notify"]
  BY DEF consumeTake, Goto
<1> HIDE DEF b
<1>4. /\ held' \in [Threads -> Buffers \cup {NoBuffer}] /\ pc' \in [Threads -> Labels]
      /\ held'[Consumer] = b /\ pc'[Consumer] = "consume_notify"
      /\ \A u \in Threads \ {Consumer} : held'[u] = held[u] /\ pc'[u] = pc[u]
  BY <1>1, <1>2, <1>3 DEF TypeOK, Labels
<1>5. TypeOK'
  BY <1>2, <1>3, <1>4 DEF TypeOK
<1>6. OnePlace'
  <2>1. \A u \in Threads : held[u] # b
    BY <1>2 DEF OnePlace
  <2>2. Elements(producerQueue') = Elements(producerQueue) /\ NoRepeats(producerQueue')
    BY <1>3 DEF OnePlace
  <2>3. b # NoBuffer
    BY <1>2, PoolAssumption
  <2>4. \A u \in Threads :
          held'[u] \notin Elements(producerQueue') \cup Elements(consumerQueue')
    BY <1>2, <1>4, <2>2 DEF OnePlace
  <2>5. \A u, v \in Threads : held'[u] = held'[v] /\ held'[u] # NoBuffer => u = v
    BY <1>4, <2>1 DEF OnePlace
  <2>6. Buffers \subseteq Elements(producerQueue') \cup Elements(consumerQueue')
                           \cup {held'[u] : u \in Threads}
    BY <1>1, <1>2, <1>4, <2>2, PoolAssumption DEF OnePlace
  <2>7. QED
    BY <1>2, <2>2, <2>4, <2>5, <2>6 DEF OnePlace
<1>7. Ownership'
  BY <1>1, <1>2, <1>4, PoolAssumption DEF Ownership, Holding
<1>8. Roles'
  BY <1>3, <1>4, PoolAssumption DEF Roles, Threads, consumeTake
<1>9. QED
  BY <1>5, <1>6, <1>7, <1>8

(* A producer hands its buffer over; the consumer queue has room.          *)
LEMMA QueueKeepsIInv ==
  ASSUME IInv, NEW t \in Producers, queue(t)
  PROVE  IInv'
<1> USE DEF IInv
<1> DEFINE b == held[t]
<1>1. t \in Threads /\ t # Consumer /\ pc[t] = "queue" /\ pc[t] \in Holding
  BY PoolAssumption DEF Threads, queue, Holding
<1>2. ~isConsumerQueueFull
  BY <1>1, RoomForOwned
<1>3. /\ producerQueue' = producerQueue /\ fillWait' = fillWait /\ emptyWait' = emptyWait
      /\ consumerQueue' = Append(consumerQueue, b)
      /\ held' = [held EXCEPT ![t] = NoBuffer]
      /\ pc' = [pc EXCEPT ![t] = "queue_notify"]
  BY <1>2 DEF queue, Goto
<1>4. b \in Buffers /\ b # NoBuffer
      /\ b \notin Elements(consumerQueue) /\ b \notin Elements(producerQueue)
  BY <1>1, PoolAssumption DEF TypeOK, Ownership, OnePlace
<1>5. /\ consumerQueue' \in Seq(Buffers) /\ NoRepeats(consumerQueue')
      /\ Elements(consumerQueue') = Elements(consumerQueue) \cup {b}
  BY <1>3, <1>4, AppendFacts DEF TypeOK, OnePlace
<1>6. /\ held' \in [Threads -> Buffers \cup {NoBuffer}] /\ pc' \in [Threads -> Labels]
      /\ held'[t] = NoBuffer /\ pc'[t] = "queue_notify"
      /\ \A u \in Threads \ {t} : held'[u] = held[u] /\ pc'[u] = pc[u]
  BY <1>1, <1>3 DEF TypeOK, Labels
<1>7. TypeOK'
  BY <1>3, <1>5, <1>6 DEF TypeOK
<1>8. OnePlace'
  <2>1. \A u \in Threads \ {t} : held[u] # b
    BY <1>1, <1>4 DEF OnePlace
  <2>2. Elements(producerQueue') = Elements(producerQueue) /\ NoRepeats(producerQueue')
    BY <1>3 DEF OnePlace
  <2>3. NoBuffer \notin Elements(consumerQueue') \cup Elements(producerQueue')
    BY <1>3, <1>5, ElementOfSeq, PoolAssumption DEF TypeOK, Elements
  <2>4. \A u \in Threads :
          held'[u] \notin Elements(consumerQueue') \cup Elements(producerQueue')
    BY <1>5, <1>6, <2>1, <2>2, <2>3 DEF OnePlace
  <2>5. \A u, v \in Threads : held'[u] = held'[v] /\ held'[u] # NoBuffer => u = v
    BY <1>6 DEF OnePlace
  <2>6. Buffers \subseteq Elements(consumerQueue') \cup Elements(producerQueue')
                           \cup {held'[u] : u \in Threads}
    BY <1>5, <1>6, <2>2 DEF OnePlace
  <2>7. QED
    BY <1>4, <1>5, <2>2, <2>4, <2>5, <2>6 DEF OnePlace
<1>9. Ownership'
  BY <1>1, <1>6 DEF Ownership, Holding
<1>10. Roles'
  BY <1>1, <1>3, <1>6 DEF Roles, Threads
<1>11. QED
  BY <1>7, <1>8, <1>9, <1>10

(* The consumer gives its buffer back; the producer queue has room.        *)
LEMMA ReleaseKeepsIInv ==
  ASSUME IInv, release
  PROVE  IInv'
<1> USE DEF IInv
<1> DEFINE b == held[Consumer]
<1>1. Consumer \in Threads /\ pc[Consumer] = "release" /\ pc[Consumer] \in Holding
  BY DEF Threads, release, Holding
<1>2. ~isProducerQueueFull
  BY <1>1, RoomForOwned
<1>3. /\ consumerQueue' = consumerQueue /\ fillWait' = fillWait /\ emptyWait' = emptyWait
      /\ producerQueue' = Append(producerQueue, b)
      /\ held' = [held EXCEPT ![Consumer] = NoBuffer]
      /\ pc' = [pc EXCEPT ![Consumer] = "release_notify"]
  BY <1>2 DEF release, Goto
<1>4. b \in Buffers /\ b # NoBuffer
      /\ b \notin Elements(producerQueue) /\ b \notin Elements(consumerQueue)
  BY <1>1, PoolAssumption DEF TypeOK, Ownership, OnePlace
<1>5. /\ producerQueue' \in Seq(Buffers) /\ NoRepeats(producerQueue')
      /\ Elements(producerQueue') = Elements(producerQueue) \cup {b}
  BY <1>3, <1>4, AppendFacts DEF TypeOK, OnePlace
<1>6. /\ held' \in [Threads -> Buffers \cup {NoBuffer}] /\ pc' \in [Threads -> Labels]
      /\ held'[Consumer] = NoBuffer /\ pc'[Consumer] = "release_notify"
      /\ \A u \in Threads \ {Consumer} : held'[u] = held[u] /\ pc'[u] = pc[u]
  BY <1>1, <1>3 DEF TypeOK, Labels
<1>7. TypeOK'
  BY <1>3, <1>5, <1>6 DEF TypeOK
<1>8. OnePlace'
  <2>1. \A u \in Threads \ {Consumer} : held[u] # b
    BY <1>1, <1>4 DEF OnePlace
  <2>2. Elements(consumerQueue') = Elements(consumerQueue) /\ NoRepeats(consumerQueue')
    BY <1>3 DEF OnePlace
  <2>3. NoBuffer \notin Elements(producerQueue') \cup Elements(consumerQueue')
    BY <1>3, <1>5, ElementOfSeq, PoolAssumption DEF TypeOK, Elements
  <2>4. \A u \in Threads :
          held'[u] \notin Elements(producerQueue') \cup Elements(consumerQueue')
    BY <1>5, <1>6, <2>1, <2>2, <2>3 DEF OnePlace
  <2>5. \A u, v \in Threads : held'[u] = held'[v] /\ held'[u] # NoBuffer => u = v
    BY <1>6 DEF OnePlace
  <2>6. Buffers \subseteq Elements(producerQueue') \cup Elements(consumerQueue')
                           \cup {held'[u] : u \in Threads}
    BY <1>5, <1>6, <2>2 DEF OnePlace
  <2>7. QED
    BY <1>4, <1>5, <2>2, <2>4, <2>5, <2>6 DEF OnePlace
<1>9. Ownership'
  BY <1>1, <1>6 DEF Ownership, Holding
<1>10. Roles'
  BY <1>1, <1>3, <1>6, PoolAssumption DEF Roles, Threads
<1>11. QED
  BY <1>7, <1>8, <1>9, <1>10

(* Every step keeps the invariant.                                         *)
LEMMA NextIInv == IInv /\ [Next]_vars => IInv'
<1> SUFFICES ASSUME IInv, [Next]_vars PROVE IInv'
  OBVIOUS
<1>1. ASSUME NEW t \in Producers, QueueStep(t) \/ fill(t)
      PROVE  IInv'
  <2> t \in Threads /\ t # Consumer
    BY PoolAssumption DEF Threads
  <2>1. CASE acquireTake(t)
    BY <2>1, AcquireKeepsIInv
  <2>2. CASE queue(t)
    BY <2>2, QueueKeepsIInv
  <2>3. CASE acquireWait(t) \/ acquireNotify(t) \/ fill(t) \/ queueNotify(t)
    <3>1. /\ UNCHANGED <<consumerQueue, producerQueue, held>>
          /\ fillWait' \subseteq fillWait /\ emptyWait' \subseteq emptyWait \cup {t}
          /\ pc' \in [Threads -> Labels]
          /\ \A u \in Threads \ {t} : pc'[u] = pc[u]
      BY <2>3 DEF IInv, TypeOK, Labels, acquireWait, acquireNotify, fill, queueNotify, Goto
    <3>2. /\ pc'[t] \in {"acquire", "acquire_notify", "fill", "queue", "queue_notify"}
          /\ pc[t] \in Holding <=> pc'[t] \in Holding
          /\ t \in emptyWait' => pc'[t] = "acquire"
      BY <2>3 DEF IInv, TypeOK, Roles, Holding, acquireWait, acquireNotify, fill,
                  queueNotify, Goto
    <3>3. TypeOK'
      BY <3>1 DEF IInv, TypeOK
    <3>4. OnePlace'
      BY <3>1, NothingMoves
    <3>5. Ownership'
      BY <3>1, <3>2 DEF IInv, Ownership
    <3>6. Roles'
      BY <3>1, <3>2 DEF IInv, Roles, Threads
    <3>7. QED
      BY <3>3, <3>4, <3>5, <3>6 DEF IInv
  <2>4. QED
    BY <1>1, <2>1, <2>2, <2>3 DEF QueueStep
<1>2. ASSUME ConsumeStep \/ process
      PROVE  IInv'
  <2> Consumer \in Threads /\ Consumer \notin Producers
    BY PoolAssumption DEF Threads
  <2>1. CASE consumeTake
    BY <2>1, ConsumeKeepsIInv
  <2>2. CASE release
    BY <2>2, ReleaseKeepsIInv
  <2>3. CASE consumeWait \/ consumeTimeout \/ consumeNotify \/ process \/ releaseNotify
    <3>1. /\ UNCHANGED <<consumerQueue, producerQueue, held>>
          /\ fillWait' \subseteq fillWait \cup {Consumer} /\ emptyWait' \subseteq emptyWait
          /\ pc' \in [Threads -> Labels]
          /\ \A u \in Threads \ {Consumer} : pc'[u] = pc[u]
      BY <2>3 DEF IInv, TypeOK, Labels, consumeWait, consumeTimeout, consumeNotify, process,
                  releaseNotify, Goto
    <3>2. /\ pc'[Consumer] \in {"consume", "consume_notify", "process", "release", "release_notify"}
          /\ pc[Consumer] \in Holding <=> pc'[Consumer] \in Holding
          /\ Consumer \in fillWait' => pc'[Consumer] = "consume"
      BY <2>3 DEF IInv, TypeOK, Roles, Holding, consumeWait, consumeTimeout, consumeNotify,
                  process, releaseNotify, Goto
    <3>3. TypeOK'
      BY <3>1 DEF IInv, TypeOK
    <3>4. OnePlace'
      BY <3>1, NothingMoves
    <3>5. Ownership'
      BY <3>1, <3>2 DEF IInv, Ownership
    <3>6. Roles'
      BY <3>1, <3>2 DEF IInv, Roles, Threads
    <3>7. QED
      BY <3>3, <3>4, <3>5, <3>6 DEF IInv
  <2>4. QED
    BY <1>2, <2>1, <2>2, <2>3 DEF ConsumeStep
<1>3. ASSUME UNCHANGED vars
      PROVE  IInv'
  <2>1. OnePlace'
    BY <1>3, NothingMoves DEF vars
  <2>2. TypeOK' /\ Ownership' /\ Roles'
    BY <1>3 DEF vars, IInv, TypeOK, Ownership, Roles
  <2>3. QED
    BY <2>1, <2>2 DEF IInv
<1>4. QED
  BY <1>1, <1>2, <1>3 DEF Next

(* The invariant holds in every reachable state.                           *)
THEOREM Invariance == Spec => []IInv
<1>1. QED
  BY InitIInv, NextIInv, PTL DEF Spec

(* The queue operations of BufferQueue.h keep every variable in its type,  *)
(* for every pool and every number of producers.                           *)
THEOREM TypeCorrect == Spec => []TypeOK
<1>1. IInv => TypeOK
  BY DEF IInv
<1>2. QED
  BY Invariance, <1>1, PTL

(* BufferQueue never loses, duplicates or shares a buffer: each one is in  *)
(* exactly one of the two queues, once, or owned by exactly one thread.    *)
THEOREM BuffersInOnePlace == Spec => []OnePlace
<1>1. IInv => OnePlace
  BY DEF IInv
<1>2. QED
  BY Invariance, <1>1, PTL

(* queue and release never block: with no more buffers than the queue is   *)
(* deep, a thread that owns a buffer always finds room for it.             *)
THEOREM OwnersNeverBlock == Spec => []NeverBlockedHolding
<1>1. IInv => NeverBlockedHolding
  <2> SUFFICES ASSUME IInv, NEW t \in Threads
               PROVE  /\ pc[t] = "queue" => ~isConsumerQueueFull /\ t \notin fillWait
                      /\ pc[t] = "release" => ~isProducerQueueFull /\ t \notin emptyWait
    BY DEF NeverBlockedHolding
  <2>1. pc[t] \in {"queue", "release"} => ~isConsumerQueueFull /\ ~isProducerQueueFull
    BY RoomForOwned DEF Holding
  <2>2. /\ pc[t] = "queue" => t \notin fillWait
        /\ pc[t] = "release" => t \notin emptyWait
    BY DEF IInv, Roles
  <2>3. QED
    BY <2>1, <2>2
<1>2. QED
  BY Invariance, <1>1, PTL


-----------------------------------------------------------------------------
(* The data path.                                                          *)

(* Every step of the data path is a step of the queue, or leaves it alone. *)
LEMMA PipeStepIsQueueStep == [PipeNext]_pipeVars => [Next]_vars
<1> SUFFICES ASSUME [PipeNext]_pipeVars PROVE [Next]_vars
  OBVIOUS
<1>1. ASSUME NEW t \in Producers, pushOrAcquire(t) \/ fillPayload(t)
      PROVE  Next
  BY <1>1 DEF pushOrAcquire, fillPayload, Next
<1>2. ASSUME injectNullBuffers
      PROVE  Next
  BY <1>2, PipelineAssumption DEF injectNullBuffers, Next
<1>3. ASSUME consumerLoop
      PROVE  [Next]_vars
  BY <1>3 DEF consumerLoop, consumeOther, startBuffer, copyBytes, endBuffer, Next, ConsumeStep
<1>4. ASSUME UNCHANGED pipeVars
      PROVE  UNCHANGED vars
  BY <1>4 DEF pipeVars
<1>5. QED
  BY <1>1, <1>2, <1>3, <1>4 DEF PipeNext

(* MediaSourceHandler's threads use mFccBufferQueue as BufferQueue         *)
(* specifies: the data path implements the queue.                          *)
THEOREM PipelineUsesQueue == PipeSpec => Spec
<1>1. PipeInit => Init
  BY DEF PipeInit
<1>2. QED
  BY <1>1, PipeStepIsQueueStep, PTL DEF PipeSpec, Spec

(* So consumerLoop, a demuxer and the data monitor never own the same      *)
(* buffer, and never one that is queued.                                   *)
THEOREM PipelineBuffersInOnePlace == PipeSpec => []OnePlace
<1>1. QED
  BY PipelineUsesQueue, BuffersInOnePlace, PTL

-----------------------------------------------------------------------------
(* The inductive invariant of the data path: the queue's, the types, and   *)
(* that consumerLoop has no more left to read than the buffer holds.       *)
PipeIInv == IInv /\ PipeTypeOK /\ ReadsWithinPayload

(* The constructor leaves empty buffers and an empty chunk.                *)
LEMMA PipeInitIInv == PipeInit => PipeIInv
<1> SUFFICES ASSUME PipeInit PROVE PipeIInv
  OBVIOUS
<1>1. IInv
  BY InitIInv DEF PipeInit
<1> DEFINE fresh == [i \in 1..BufferSize |-> NullByte]
<1>2. fresh \in Seq(Bytes) /\ Len(fresh) = BufferSize
  <2>1. fresh \in [1..BufferSize -> Bytes] /\ BufferSize \in Nat
    BY PipelineAssumption
  <2> HIDE DEF fresh
  <2>2. QED
    BY <2>1, SeqDef, LenProperties
<1>3. PipeTypeOK
  <2>1. /\ TypeOK
        /\ offset \in 0..ChunkSize - 1 /\ remaining \in 0..BufferSize
        /\ chunk \in [1..ChunkSize -> Bytes]
    BY <1>1, PipelineAssumption DEF PipeInit, IInv
  <2>2. content = [b \in Buffers |-> fresh]
    BY DEF PipeInit
  <2> HIDE DEF fresh
  <2>3. content \in [Buffers -> Seq(Bytes)] /\ \A b \in Buffers : Len(content[b]) <= BufferSize
    BY <1>2, <2>2, PipelineAssumption
  <2>4. QED
    BY <2>1, <2>3 DEF PipeTypeOK
<1>4. ReadsWithinPayload
  BY DEF PipeInit, Init, ReadsWithinPayload, Threads
<1>5. QED
  BY <1>1, <1>3, <1>4 DEF PipeIInv

(* A producer writes only into the buffer it owns, which is neither queued *)
(* nor in the hands of consumerLoop.                                       *)
LEMMA FillsOwnBuffer ==
  ASSUME PipeIInv, NEW t \in Producers, fill(t)
  PROVE  /\ held[t] \in Buffers
         /\ held[t] \notin Elements(consumerQueue)
         /\ held[t] # held[Consumer]
<1>1. t \in Threads /\ Consumer \in Threads /\ t # Consumer /\ pc[t] = "fill"
  BY PoolAssumption DEF Threads, fill
<1>2. held[t] # NoBuffer
  BY <1>1 DEF PipeIInv, IInv, Ownership, Holding
<1>3. QED
  BY <1>1, <1>2 DEF PipeIInv, IInv, TypeOK, OnePlace

(* A demuxer's payload keeps the invariant.                                *)
LEMMA FillKeepsPipe ==
  ASSUME PipeIInv, NEW t \in Producers, fill(t),
         NEW p \in Seq(Bytes), Len(p) <= BufferSize,
         content' = [content EXCEPT ![held[t]] = p],
         UNCHANGED <<chunk, offset, remaining, posted>>, TypeOK'
  PROVE  PipeTypeOK' /\ ReadsWithinPayload'
<1>1. held[t] \in Buffers /\ held[t] # held[Consumer]
  BY FillsOwnBuffer
<1>2. /\ content' \in [Buffers -> Seq(Bytes)]
      /\ \A b \in Buffers : content'[b] = IF b = held[t] THEN p ELSE content[b]
  BY <1>1 DEF PipeIInv, PipeTypeOK
<1>3. PipeTypeOK'
  BY <1>2 DEF PipeIInv, PipeTypeOK
<1>4. Consumer \in Threads /\ t # Consumer
  BY PoolAssumption DEF Threads
<1>5. held' = held /\ pc'[Consumer] = pc[Consumer]
  BY <1>4 DEF fill, Goto, PipeIInv, IInv, TypeOK
<1>6. pc[Consumer] = "process" => held[Consumer] \in Buffers
  BY <1>4 DEF PipeIInv, IInv, TypeOK, Ownership, Holding
<1>7. ReadsWithinPayload'
  BY <1>1, <1>2, <1>5, <1>6 DEF PipeIInv, ReadsWithinPayload
<1>8. QED
  BY <1>3, <1>7

(* One turn of consumerLoop's copy loop keeps the invariant: the offset    *)
(* stays inside the chunk and the bytes copied are bytes of the payload.   *)
LEMMA CopyKeepsPipe ==
  ASSUME PipeIInv, copyBytes, TypeOK'
  PROVE  PipeTypeOK' /\ ReadsWithinPayload'
<1> DEFINE bytes == content[held[Consumer]]
           start == Len(bytes) - remaining
           room  == ChunkSize - offset
           n     == IF room < remaining THEN room ELSE remaining
<1>1. Consumer \in Threads /\ held[Consumer] \in Buffers
  BY DEF Threads, PipeIInv, IInv, TypeOK, Ownership, Holding, copyBytes
<1>2. /\ bytes \in Seq(Bytes) /\ Len(bytes) \in Nat
      /\ remaining <= Len(bytes)
  BY <1>1, LenProperties DEF PipeIInv, PipeTypeOK, ReadsWithinPayload, copyBytes
<1>3. /\ ChunkSize \in Nat \ {0} /\ offset \in 0..ChunkSize - 1
      /\ remaining \in 0..BufferSize /\ BufferSize \in Nat
  BY PipelineAssumption DEF PipeIInv, PipeTypeOK
<1>4. /\ chunk' = [i \in 1..ChunkSize |->
                     IF i \in offset + 1 .. offset + n THEN bytes[start + i - offset]
                                                       ELSE chunk[i]]
      /\ offset' = (offset + n) % ChunkSize
      /\ remaining' = remaining - n
      /\ UNCHANGED <<vars, content>>
  BY DEF copyBytes, nextOffset
<1> HIDE DEF bytes
<1>5. n \in 0..remaining /\ offset + n \in 0..ChunkSize
  BY <1>3
<1>6. \A i \in offset + 1 .. offset + n : bytes[start + i - offset] \in Bytes
  <2> SUFFICES ASSUME NEW i \in offset + 1 .. offset + n
               PROVE  bytes[start + i - offset] \in Bytes
    OBVIOUS
  <2>1. start + i - offset \in 1..Len(bytes)
    BY <1>2, <1>3, <1>5
  <2>2. QED
    BY <1>2, <2>1, ElementOfSeq
<1>7. chunk' \in [1..ChunkSize -> Bytes]
  BY <1>4, <1>6 DEF PipeIInv, PipeTypeOK
<1>8. offset' \in 0..ChunkSize - 1
  <2>1. CASE offset + n = ChunkSize
    BY <1>3, <1>4, <2>1
  <2>2. CASE offset + n < ChunkSize
    BY <1>3, <1>4, <1>5, <2>2
  <2>3. QED
    BY <1>3, <1>5, <2>1, <2>2
<1>9. remaining' \in 0..BufferSize /\ remaining' <= remaining
  BY <1>3, <1>4, <1>5
<1>10. PipeTypeOK'
  BY <1>4, <1>7, <1>8, <1>9 DEF PipeIInv, PipeTypeOK
<1>11. remaining' <= Len(bytes)
  BY <1>2, <1>3, <1>9
<1>12. ReadsWithinPayload'
  BY <1>4, <1>11 DEF ReadsWithinPayload, bytes, vars
<1>13. QED
  BY <1>10, <1>12

(* Every step of the data path keeps its invariant.                        *)
LEMMA PipeNextIInv == PipeIInv /\ [PipeNext]_pipeVars => PipeIInv'
<1> SUFFICES ASSUME PipeIInv, [PipeNext]_pipeVars PROVE PipeIInv'
  OBVIOUS
<1>1. IInv' /\ TypeOK'
  BY NextIInv, PipeStepIsQueueStep DEF PipeIInv, IInv
<1> SUFFICES PipeTypeOK' /\ ReadsWithinPayload'
  BY <1>1 DEF PipeIInv
<1>2. Consumer \in Threads /\ Consumer \notin Producers
  BY PoolAssumption DEF Threads
<1>3. ASSUME NEW t \in Producers, pushOrAcquire(t)
      PROVE  PipeTypeOK' /\ ReadsWithinPayload'
  <2>1. UNCHANGED dataVars /\ PipeTypeOK'
    BY <1>1, <1>3 DEF pushOrAcquire, PipeIInv, PipeTypeOK, dataVars
  <2>2. pc'[Consumer] = pc[Consumer] /\ held'[Consumer] = held[Consumer]
    BY <1>2, <1>3 DEF pushOrAcquire, QueueStep, acquireWait, acquireTake, acquireNotify, queue,
                      queueNotify, Goto, PipeIInv, IInv, TypeOK
  <2>3. QED
    BY <2>1, <2>2 DEF PipeIInv, ReadsWithinPayload, dataVars
<1>4. ASSUME NEW t \in Producers, fillPayload(t)
      PROVE  PipeTypeOK' /\ ReadsWithinPayload'
  <2>1. PICK p \in Payloads : content' = [content EXCEPT ![held[t]] = p]
    BY <1>4 DEF fillPayload
  <2>2. p \in Seq(Bytes) /\ Len(p) <= BufferSize
    BY PipelineAssumption
  <2>3. QED
    BY <1>1, <1>4, <2>1, <2>2, FillKeepsPipe DEF fillPayload
<1>5. ASSUME injectNullBuffers
      PROVE  PipeTypeOK' /\ ReadsWithinPayload'
  <2> DEFINE old   == content[held[Monitor]]
             nulls == [i \in 1..Len(old) |-> NullByte]
  <2>1. Monitor \in Producers /\ fill(Monitor) /\ held[Monitor] \in Buffers
    BY <1>5, PipelineAssumption, FillsOwnBuffer DEF injectNullBuffers
  <2>2. old \in Seq(Bytes) /\ Len(old) \in Nat /\ Len(old) <= BufferSize
    BY <2>1, LenProperties DEF PipeIInv, PipeTypeOK
  <2>3. content' = [content EXCEPT ![held[Monitor]] = nulls]
    BY <1>5, <2>1 DEF injectNullBuffers, PipeIInv, PipeTypeOK
  <2> HIDE DEF old
  <2>4. nulls \in Seq(Bytes) /\ Len(nulls) = Len(old)
    <3>1. nulls \in [1..Len(old) -> Bytes]
      BY PipelineAssumption
    <3> HIDE DEF nulls
    <3>2. QED
      BY <2>2, <3>1, SeqDef, LenProperties
  <2> HIDE DEF nulls
  <2>5. QED
    BY <1>1, <1>5, <2>1, <2>2, <2>3, <2>4, FillKeepsPipe DEF injectNullBuffers
<1>6. ASSUME consumerLoop
      PROVE  PipeTypeOK' /\ ReadsWithinPayload'
  <2>1. CASE consumeOther \/ endBuffer
    <3>1. UNCHANGED dataVars /\ PipeTypeOK'
      BY <1>1, <2>1 DEF consumeOther, endBuffer, PipeIInv, PipeTypeOK, dataVars
    <3>2. pc'[Consumer] = "process" => pc[Consumer] = "process" /\ held' = held
      BY <1>2, <2>1 DEF consumeOther, endBuffer, process, consumeWait, consumeTake,
                        consumeTimeout, releaseNotify, release, Goto, PipeIInv, IInv, TypeOK
    <3>3. QED
      BY <3>1, <3>2 DEF PipeIInv, ReadsWithinPayload, dataVars
  <2>2. CASE startBuffer
    <3>1. held[Consumer] \in Buffers /\ held' = held
      BY <1>2, <2>2 DEF startBuffer, consumeNotify, PipeIInv, IInv, TypeOK, Ownership, Holding
    <3>2. /\ Len(content[held[Consumer]]) \in 0..BufferSize
          /\ remaining' = Len(content[held[Consumer]])
          /\ UNCHANGED <<content, chunk, offset, posted>>
      BY <2>2, <3>1, LenProperties, PipelineAssumption DEF startBuffer, PipeIInv, PipeTypeOK
    <3>3. QED
      BY <1>1, <3>1, <3>2 DEF PipeIInv, PipeTypeOK, ReadsWithinPayload
  <2>3. CASE copyBytes
    BY <1>1, <2>3, CopyKeepsPipe
  <2>4. QED
    BY <1>6, <2>1, <2>2, <2>3 DEF consumerLoop
<1>7. ASSUME UNCHANGED pipeVars
      PROVE  PipeTypeOK' /\ ReadsWithinPayload'
  BY <1>1, <1>7 DEF pipeVars, vars, dataVars, PipeIInv, PipeTypeOK, ReadsWithinPayload
<1>8. QED
  BY <1>3, <1>4, <1>5, <1>6, <1>7 DEF PipeNext

(* The invariant of the data path holds in every reachable state.          *)
THEOREM PipeInvariance == PipeSpec => []PipeIInv
<1>1. QED
  BY PipeInitIInv, PipeNextIInv, PTL DEF PipeSpec

(* consumerLoop's offset stays inside the chunk, its count of remaining    *)
(* bytes inside a buffer, and every buffer keeps a size it can hold.       *)
THEOREM PipelineTypes == PipeSpec => []PipeTypeOK
<1>1. PipeIInv => PipeTypeOK
  BY DEF PipeIInv
<1>2. QED
  BY PipeInvariance, <1>1, PTL

(* consumerLoop never reads past the payload of the buffer it holds.       *)
THEOREM ConsumerReadsPayload == PipeSpec => []ReadsWithinPayload
<1>1. PipeIInv => ReadsWithinPayload
  BY DEF PipeIInv
<1>2. QED
  BY PipeInvariance, <1>1, PTL

(* No producer, and not injectNullBuffers either, overwrites a buffer that *)
(* is queued or being read.                                                *)
THEOREM PayloadsNotOverwritten == PipeSpec => QueuedBytesStable
<1>1. ASSUME PipeIInv, [PipeNext]_pipeVars
      PROVE  [keepsQueuedBytes]_pipeVars
  <2>1. ASSUME NEW t \in Producers, fill(t), NEW p,
               content' = [content EXCEPT ![held[t]] = p]
        PROVE  keepsQueuedBytes
    BY <1>1, <2>1, FillsOwnBuffer DEF PipeIInv, PipeTypeOK, keepsQueuedBytes
  <2>2. ASSUME NEW t \in Producers, fillPayload(t)
        PROVE  keepsQueuedBytes
    BY <2>1, <2>2 DEF fillPayload
  <2>3. ASSUME injectNullBuffers
        PROVE  keepsQueuedBytes
    <3>1. PICK p : content' = [content EXCEPT ![held[Monitor]] = p]
      BY <2>3 DEF injectNullBuffers
    <3>2. QED
      BY <2>1, <2>3, <3>1, PipelineAssumption DEF injectNullBuffers
  <2>4. ASSUME NEW t \in Producers, pushOrAcquire(t)
        PROVE  keepsQueuedBytes
    BY <2>4 DEF pushOrAcquire, dataVars, keepsQueuedBytes
  <2>5. ASSUME consumerLoop
        PROVE  keepsQueuedBytes
    BY <2>5 DEF consumerLoop, consumeOther, startBuffer, copyBytes, endBuffer, dataVars,
                keepsQueuedBytes
  <2>6. QED
    BY <1>1, <2>2, <2>3, <2>4, <2>5 DEF PipeNext
<1>2. QED
  BY <1>1, PipeInvariance, PTL DEF PipeSpec, QueuedBytesStable

-----------------------------------------------------------------------------
(* What FlattenSeq computes.  The induction is over a set of naturals and   *)
(* its least element: no theorem with an operator parameter is needed.     *)

(* A set of naturals that is not empty has a least element.                *)
LEMMA LeastElement ==
  ASSUME NEW T, T \subseteq Nat, T # {}
  PROVE  \E m \in T : \A k \in T : m <= k
<1>1. PICK m \in T : \A k \in T : ~ (<<k, m>> \in OpToRel(<, Nat))
  BY NatLessThanWellFounded, WFMin, Zenon
<1>2. ASSUME NEW k \in T, k < m PROVE FALSE
  <2>1. <<k, m>> \in Nat \X Nat /\ <<k, m>>[1] < <<k, m>>[2]
    BY <1>2
  <2>2. <<k, m>> \in OpToRel(<, Nat)
    BY <2>1, Zenon DEF OpToRel
  <2> QED BY <2>2, <1>1, Zenon
<1>3. \A k \in T : m <= k
  <2>1. \A k \in T : ~(k < m)
    BY <1>2, Zenon
  <2> QED BY <2>1
<1> QED BY <1>3, Zenon

(* Induction over 1..n: the least number outside S has its predecessor in  *)
(* S.                                                                      *)
LEMMA SetInduction ==
  ASSUME NEW n \in Nat, NEW S, 1 \in S, \A i \in 1 .. n - 1 : i \in S => i + 1 \in S
  PROVE  1..n \subseteq S
<1> DEFINE T == {i \in 1..n : i \notin S}
<1> SUFFICES ASSUME T # {} PROVE FALSE
  OBVIOUS
<1>1. PICK m \in T : \A k \in T : m <= k
  <2>1. T \subseteq Nat
    OBVIOUS
  <2> HIDE DEF T
  <2> QED BY <2>1, LeastElement
<1>2. m \in 1..n /\ m \notin S /\ m # 1
  BY <1>1
<1>3. m - 1 \in 1 .. n - 1 /\ m - 1 \in 1..n /\ ~(m <= m - 1)
  BY <1>2
<1>4. m - 1 \notin T
  BY <1>1, <1>3
<1> QED BY <1>2, <1>3, <1>4

(* f[i] is the concatenation of the first i of the sequences of s: the     *)
(* function that FlattenSeq chooses.                                       *)
concatTo(s, f, n) == f = [i \in 1..n |-> IF i = 1 THEN s[i] ELSE f[i - 1] \o s[i]]

concats(s) == CHOOSE f : concatTo(s, f, Len(s))

(* FlattenSeq returns the last of these concatenations.                    *)
LEMMA FlattenIs == ASSUME NEW s, Len(s) # 0 PROVE FlattenSeq(s) = concats(s)[Len(s)]
  BY Zenon DEF FlattenSeq, concats, concatTo

(* There is such a function, by induction on n: FlattenSeq's choice is a   *)
(* real one.                                                               *)
LEMMA ConcatsExist ==
  ASSUME NEW B, NEW s \in Seq(Seq(B)), NEW n \in 1..Len(s)
  PROVE  \E f : concatTo(s, f, n)
<1> DEFINE S == {k \in 1..Len(s) : \E f : concatTo(s, f, k)}
<1>1. Len(s) \in Nat /\ 1 \in 1..Len(s)
  OBVIOUS
<1>2. 1 \in S
  <2>1. concatTo(s, [i \in 1..1 |-> s[i]], 1)
    BY DEF concatTo
  <2> QED BY <1>1, <2>1
<1>3. ASSUME NEW k \in 1 .. Len(s) - 1, k \in S PROVE k + 1 \in S
  <2>1. PICK f : concatTo(s, f, k)
    BY <1>3
  <2> DEFINE g == [i \in 1 .. k + 1 |-> IF i = k + 1 THEN f[k] \o s[k + 1] ELSE f[i]]
  <2>2. ASSUME NEW i \in 1 .. k + 1
        PROVE  g[i] = IF i = 1 THEN s[i] ELSE g[i - 1] \o s[i]
    <3>1. CASE i = k + 1
      <4>1. i # 1 /\ k \in 1 .. k + 1 /\ k # k + 1 /\ i - 1 = k
        BY <3>1
      <4>2. g[i] = f[k] \o s[k + 1] /\ g[k] = f[k]
        BY <3>1, <4>1
      <4> HIDE DEF g
      <4> QED BY <3>1, <4>1, <4>2
    <3>2. CASE i # k + 1
      <4>1. i \in 1..k /\ (i = 1 \/ i - 1 \in 1..k)
        BY <3>2
      <4>2. f[i] = IF i = 1 THEN s[i] ELSE f[i - 1] \o s[i]
        BY <2>1, <4>1 DEF concatTo
      <4> QED BY <4>1, <4>2
    <3> QED BY <3>1, <3>2
  <2>3. concatTo(s, g, k + 1)
    <3>1. g = [i \in 1 .. k + 1 |-> g[i]]
      OBVIOUS
    <3> HIDE DEF g
    <3> QED BY <2>2, <3>1, Zenon DEF concatTo
  <2>4. k + 1 \in 1..Len(s)
    BY <1>1
  <2> QED BY <2>3, <2>4
<1> HIDE DEF S
<1>4. 1..Len(s) \subseteq S
  BY <1>1, <1>2, <1>3, SetInduction
<1> QED BY <1>4 DEF S

(* What the chosen function computes, and that its values are sequences.   *)
LEMMA ConcatsFacts ==
  ASSUME NEW B, NEW s \in Seq(Seq(B)), NEW i \in 1..Len(s)
  PROVE  /\ concats(s)[i] = IF i = 1 THEN s[i] ELSE concats(s)[i - 1] \o s[i]
         /\ concats(s)[i] \in Seq(B)
<1>1. Len(s) \in 1..Len(s) /\ Len(s) \in Nat
  OBVIOUS
<1> DEFINE c == concats(s)
<1>2. concatTo(s, c, Len(s))
  BY <1>1, ConcatsExist, Zenon DEF concats
<1>3. \A k \in 1..Len(s) : c[k] = IF k = 1 THEN s[k] ELSE c[k - 1] \o s[k]
  <2> HIDE DEF c
  <2> QED BY <1>2 DEF concatTo
<1> DEFINE S == {k \in 1..Len(s) : c[k] \in Seq(B)}
<1>4. 1 \in S
  BY <1>1, <1>3
<1>5. ASSUME NEW k \in 1 .. Len(s) - 1, k \in S PROVE k + 1 \in S
  <2>1. k + 1 \in 1..Len(s) /\ k + 1 # 1 /\ (k + 1) - 1 = k
    BY <1>1
  <2>2. s[k + 1] \in Seq(B) /\ c[k] \in Seq(B)
    BY <1>5, <2>1
  <2> HIDE DEF c
  <2>3. c[k + 1] = c[k] \o s[k + 1]
    BY <1>3, <2>1
  <2>4. c[k + 1] \in Seq(B)
    BY <2>2, <2>3, ConcatProperties
  <2> QED BY <2>1, <2>4
<1>6. 1..Len(s) \subseteq S
  <2> HIDE DEF S
  <2> QED BY <1>1, <1>4, <1>5, SetInduction
<1> QED BY <1>3, <1>6

(* A sequence more at the end: the buffer that queue appends.              *)
LEMMA FlattenAppend ==
  ASSUME NEW B, NEW s \in Seq(Seq(B)), NEW x \in Seq(B)
  PROVE  FlattenSeq(Append(s, x)) = FlattenSeq(s) \o x
<1> DEFINE t == Append(s, x)
<1>1. /\ t \in Seq(Seq(B)) /\ Len(s) \in Nat /\ Len(t) = Len(s) + 1
      /\ t[Len(s) + 1] = x /\ \A i \in 1..Len(s) : t[i] = s[i]
  OBVIOUS
<1> HIDE DEF t
<1>2. FlattenSeq(t) = concats(t)[Len(t)]
  BY <1>1, FlattenIs
<1>3. CASE Len(s) = 0
  <2>1. s = <<>> /\ FlattenSeq(s) = s
    BY <1>3 DEF FlattenSeq
  <2>2. concats(t)[Len(t)] = x
    <3>1. 1 \in 1..Len(t) /\ Len(t) = 1
      BY <1>1, <1>3
    <3> QED BY <1>1, <1>3, <3>1, ConcatsFacts
  <2> QED BY <1>2, <2>1, <2>2, ConcatEmptySeq DEF t
<1>4. CASE Len(s) # 0
  <2> DEFINE S == {i \in 1..Len(s) : concats(t)[i] = concats(s)[i]}
  <2>1. 1 \in S
    <3>1. 1 \in 1..Len(s) /\ 1 \in 1..Len(t)
      BY <1>1, <1>4
    <3>2. concats(t)[1] = t[1] /\ concats(s)[1] = s[1]
      BY <1>1, <3>1, ConcatsFacts
    <3> QED BY <1>1, <3>1, <3>2
  <2>2. ASSUME NEW i \in 1 .. Len(s) - 1, i \in S PROVE i + 1 \in S
    <3>1. i + 1 \in 1..Len(s) /\ i + 1 \in 1..Len(t) /\ i + 1 # 1 /\ (i + 1) - 1 = i
      <4>1. Len(s) \in Nat /\ Len(t) = Len(s) + 1
        BY <1>1
      <4> QED BY <4>1
    <3>2. concats(t)[i + 1] = concats(t)[i] \o t[i + 1]
      BY <1>1, <3>1, ConcatsFacts
    <3>3. concats(s)[i + 1] = concats(s)[i] \o s[i + 1]
      BY <1>1, <3>1, ConcatsFacts
    <3>4. concats(t)[i] = concats(s)[i] /\ t[i + 1] = s[i + 1]
      BY <1>1, <2>2, <3>1
    <3>5. concats(t)[i + 1] = concats(s)[i + 1]
      BY <3>2, <3>3, <3>4, Zenon
    <3> QED BY <3>1, <3>5
  <2>3. 1..Len(s) \subseteq S
    <3> HIDE DEF S
    <3> QED BY <1>1, <2>1, <2>2, SetInduction
  <2>4. concats(t)[Len(s)] = concats(s)[Len(s)]
    <3>1. Len(s) \in 1..Len(s)
      BY <1>4
    <3>2. Len(s) \in S
      BY <2>3, <3>1, Zenon
    <3> QED BY <3>2, Zenon
  <2>5. Len(t) \in 1..Len(t) /\ Len(t) # 1 /\ Len(t) - 1 = Len(s)
    BY <1>1, <1>4
  <2>6. concats(t)[Len(t)] = concats(t)[Len(s)] \o t[Len(t)]
    BY <1>1, <2>5, ConcatsFacts
  <2>7. FlattenSeq(s) = concats(s)[Len(s)]
    BY <1>4, FlattenIs
  <2>8. t[Len(t)] = x
    BY <1>1
  <2> QED BY <1>2, <2>4, <2>6, <2>7, <2>8, Zenon DEF t
<1> QED BY <1>3, <1>4

(* The flattened sequence has elements of the same set.                    *)
LEMMA FlattenType ==
  ASSUME NEW B, NEW s \in Seq(Seq(B)) PROVE FlattenSeq(s) \in Seq(B)
<1>1. CASE Len(s) = 0
  <2>1. s = <<>> /\ FlattenSeq(s) = s
    BY <1>1 DEF FlattenSeq
  <2>2. <<>> \in Seq(B)
    OBVIOUS
  <2> QED BY <2>1, <2>2, Zenon
<1>2. CASE Len(s) # 0
  <2>1. Len(s) \in 1..Len(s)
    BY <1>2
  <2>2. concats(s)[Len(s)] \in Seq(B)
    BY <2>1, ConcatsFacts
  <2> QED BY <1>2, <2>2, FlattenIs
<1> QED BY <1>1, <1>2

(* The first sequence comes first: the buffer that consume takes.          *)
LEMMA FlattenTail ==
  ASSUME NEW B, NEW s \in Seq(Seq(B)), Len(s) # 0
  PROVE  FlattenSeq(s) = s[1] \o FlattenSeq(Tail(s))
<1> DEFINE t == Tail(s)
<1>1. /\ t \in Seq(Seq(B)) /\ Len(s) \in Nat /\ Len(t) \in Nat /\ Len(s) = Len(t) + 1
      /\ s[1] \in Seq(B) /\ \A i \in 1..Len(t) : t[i] = s[i + 1] /\ t[i] \in Seq(B)
  OBVIOUS
<1> HIDE DEF t
<1>2. FlattenSeq(s) = concats(s)[Len(s)]
  BY FlattenIs
<1>3. concats(s)[1] = s[1]
  <2>1. 1 \in 1..Len(s)
    BY <1>1
  <2> QED BY <2>1, ConcatsFacts
<1>4. CASE Len(t) = 0
  <2>1. t = <<>> /\ FlattenSeq(t) = t
    BY <1>1, <1>4 DEF FlattenSeq
  <2>2. s[1] \o t = s[1]
    BY <1>1, <2>1, ConcatEmptySeq
  <2> QED BY <1>1, <1>2, <1>3, <1>4, <2>1, <2>2 DEF t
<1>5. CASE Len(t) # 0
  <2> DEFINE S == {i \in 1..Len(t) : concats(s)[i + 1] = s[1] \o concats(t)[i]}
  <2>1. 1 \in S
    <3>1. 1 \in 1..Len(t) /\ 2 \in 1..Len(s)
      BY <1>1, <1>5
    <3>2. concats(t)[1] = t[1]
      BY <1>1, <3>1, ConcatsFacts
    <3>3. concats(s)[2] = concats(s)[1] \o s[2]
      <4>1. 2 # 1 /\ 2 - 1 = 1
        OBVIOUS
      <4> QED BY <3>1, <4>1, ConcatsFacts
    <3>4. t[1] = s[2]
      BY <1>1, <3>1
    <3>5. concats(s)[1 + 1] = s[1] \o concats(t)[1]
      <4>1. 1 + 1 = 2
        OBVIOUS
      <4> QED BY <1>3, <3>2, <3>3, <3>4, <4>1, Zenon
    <3> QED BY <3>1, <3>5
  <2>2. ASSUME NEW i \in 1 .. Len(t) - 1, i \in S PROVE i + 1 \in S
    <3>1. /\ i \in 1..Len(t) /\ i + 1 \in 1..Len(t) /\ i + 1 # 1 /\ (i + 1) - 1 = i
          /\ (i + 1) + 1 \in 1..Len(s) /\ (i + 1) + 1 # 1 /\ ((i + 1) + 1) - 1 = i + 1
      BY <1>1
    <3>2. concats(t)[i + 1] = concats(t)[i] \o t[i + 1] /\ concats(t)[i] \in Seq(B)
      BY <1>1, <3>1, ConcatsFacts
    <3>3. concats(s)[(i + 1) + 1] = concats(s)[i + 1] \o s[(i + 1) + 1]
      BY <1>1, <3>1, ConcatsFacts
    <3>4. /\ concats(s)[i + 1] = s[1] \o concats(t)[i]
          /\ t[i + 1] = s[(i + 1) + 1] /\ t[i + 1] \in Seq(B)
      BY <1>1, <2>2, <3>1
    <3>5. (s[1] \o concats(t)[i]) \o t[i + 1] = s[1] \o (concats(t)[i] \o t[i + 1])
      <4> DEFINE x == s[1]
                 y == concats(t)[i]
                 z == t[i + 1]
      <4>1. x \in Seq(B) /\ y \in Seq(B) /\ z \in Seq(B)
        BY <1>1, <3>2, <3>4
      <4> HIDE DEF x, y, z
      <4>2. (x \o y) \o z = x \o (y \o z)
        BY <4>1
      <4> QED BY <4>2 DEF x, y, z
    <3>6. concats(s)[(i + 1) + 1] = s[1] \o concats(t)[i + 1]
      BY <3>2, <3>3, <3>4, <3>5, Zenon
    <3> QED BY <3>1, <3>6
  <2>3. 1..Len(t) \subseteq S
    <3> HIDE DEF S
    <3> QED BY <1>1, <2>1, <2>2, SetInduction
  <2>4. concats(s)[Len(t) + 1] = s[1] \o concats(t)[Len(t)]
    <3>1. Len(t) \in 1..Len(t)
      BY <1>1, <1>5
    <3>2. Len(t) \in S
      BY <2>3, <3>1, Zenon
    <3> QED BY <3>2, Zenon
  <2>5. FlattenSeq(t) = concats(t)[Len(t)]
    BY <1>5, FlattenIs
  <2> QED BY <1>1, <1>2, <2>4, <2>5 DEF t
<1> QED BY <1>4, <1>5

-----------------------------------------------------------------------------
(* The bytes of the data path, and what one turn of the inner loop does to *)
(* them.                                                                   *)

(* A sequence cut in two is its two parts.                                 *)
LEMMA CutFacts ==
  ASSUME NEW B, NEW u \in Seq(B), NEW v \in Seq(B)
  PROVE  /\ SubSeq(u \o v, 1, Len(u)) = u
         /\ SubSeq(u \o v, Len(u) + 1, Len(u \o v)) = v
         /\ Len(u) \in 0..Len(u \o v)
<1> DEFINE w == u \o v
           x == SubSeq(w, 1, Len(u))
           y == SubSeq(w, Len(u) + 1, Len(w))
<1>1. /\ w \in Seq(B) /\ Len(w) = Len(u) + Len(v)
      /\ \A i \in 1 .. Len(u) + Len(v) : w[i] = IF i <= Len(u) THEN u[i] ELSE v[i - Len(u)]
  BY ConcatProperties
<1>2. Len(u) \in Nat /\ Len(v) \in Nat
  OBVIOUS
<1> HIDE DEF w
<1>3. x \in Seq(B) /\ Len(x) = Len(u) /\ \A i \in 1..Len(u) : x[i] = w[i]
  <2>1. \A i \in 1..Len(u) : w[i] \in B
    BY <1>1, <1>2
  <2>2. x \in Seq(B) /\ Len(x) = (IF 1 <= Len(u) THEN Len(u) - 1 + 1 ELSE 0)
        /\ \A i \in 1 .. Len(u) - 1 + 1 : x[i] = w[1 + i - 1]
    BY <1>2, <2>1, SubSeqProperties
  <2> HIDE DEF x
  <2> QED BY <1>2, <2>2
<1>4. y \in Seq(B) /\ Len(y) = Len(v) /\ \A i \in 1..Len(v) : y[i] = w[Len(u) + i]
  <2>1. \A i \in Len(u) + 1 .. Len(w) : w[i] \in B
    BY <1>1, <1>2
  <2>2. y \in Seq(B) /\ Len(y) = (IF Len(u) + 1 <= Len(w) THEN Len(w) - (Len(u) + 1) + 1 ELSE 0)
        /\ \A i \in 1 .. Len(w) - (Len(u) + 1) + 1 : y[i] = w[(Len(u) + 1) + i - 1]
    <3>1. Len(u) + 1 \in Int /\ Len(w) \in Int
      BY <1>1, <1>2
    <3> QED BY <2>1, <3>1, SubSeqProperties
  <2> HIDE DEF y
  <2>3. Len(w) - (Len(u) + 1) + 1 = Len(v) /\ Len(y) = Len(v)
    BY <1>1, <1>2, <2>2
  <2>4. \A i \in 1..Len(v) : (Len(u) + 1) + i - 1 = Len(u) + i
    BY <1>2
  <2> QED BY <2>2, <2>3, <2>4
<1> HIDE DEF x, y
<1>5. x = u
  <2>1. \A i \in 1..Len(u) : x[i] = u[i]
    BY <1>1, <1>2, <1>3
  <2> QED BY <1>3, <2>1
<1>6. y = v
  <2>1. \A i \in 1..Len(v) : Len(u) + i \in 1 .. Len(u) + Len(v) /\ ~(Len(u) + i <= Len(u))
                            /\ (Len(u) + i) - Len(u) = i
    BY <1>2
  <2>2. \A i \in 1..Len(v) : y[i] = v[i]
    BY <1>1, <1>4, <2>1
  <2> QED BY <1>4, <2>2
<1> QED BY <1>1, <1>2, <1>5, <1>6 DEF w, x, y

(* One turn of the inner loop on a chunk c filled up to o and a buffer of  *)
(* which r bytes remain: what it writes, and what then holds of the bytes. *)
Copied(c, o, bytes, r, n, d) ==
  /\ c \in [1..ChunkSize -> Bytes] /\ o \in 0..ChunkSize
  /\ bytes \in Seq(Bytes) /\ r \in 0..Len(bytes)
  /\ n \in 0..r /\ o + n <= ChunkSize
  /\ \A i \in 1..ChunkSize : d[i] = IF i \in o + 1 .. o + n
                                      THEN bytes[(Len(bytes) - r) + i - o] ELSE c[i]

Moved(c, o, bytes, r, n, d) ==
  /\ SubSeq(c, 1, o) \o SubSeq(bytes, Len(bytes) - r + 1, Len(bytes))
       = SubSeq(d, 1, o + n) \o SubSeq(bytes, Len(bytes) - (r - n) + 1, Len(bytes))
  /\ SubSeq(d, 1, o + n) \in Seq(Bytes) /\ Len(SubSeq(d, 1, o + n)) = o + n
  /\ SubSeq(c, 1, o) \in Seq(Bytes)
  /\ SubSeq(bytes, Len(bytes) - r + 1, Len(bytes)) \in Seq(Bytes)
  /\ SubSeq(bytes, Len(bytes) - (r - n) + 1, Len(bytes)) \in Seq(Bytes)

(* It moves n bytes of the buffer to the end of the partial chunk.         *)
LEMMA CopyMovesBytes ==
  ASSUME NEW c, NEW o, NEW bytes, NEW r, NEW n, NEW d, Copied(c, o, bytes, r, n, d)
  PROVE  Moved(c, o, bytes, r, n, d)
<1>0. /\ c \in [1..ChunkSize -> Bytes] /\ o \in 0..ChunkSize
      /\ bytes \in Seq(Bytes) /\ r \in 0..Len(bytes)
      /\ n \in 0..r /\ o + n <= ChunkSize
      /\ \A i \in 1..ChunkSize : d[i] = IF i \in o + 1 .. o + n
                                          THEN bytes[(Len(bytes) - r) + i - o] ELSE c[i]
  BY DEF Copied
<1> DEFINE L == Len(bytes)
           p == SubSeq(c, 1, o)
           q == SubSeq(bytes, L - r + 1, L)
           u == SubSeq(d, 1, o + n)
           v == SubSeq(bytes, L - (r - n) + 1, L)
<1>1. L \in Nat /\ o \in Nat /\ n \in Nat /\ r \in Nat /\ r <= L /\ n <= r /\ ChunkSize \in Nat
  BY <1>0, PipelineAssumption
<1>2. \A i \in 1..L : bytes[i] \in Bytes
  BY <1>0
<1>3. p \in Seq(Bytes) /\ Len(p) = o /\ \A i \in 1..o : p[i] = c[i]
  <2>1. \A i \in 1..o : c[i] \in Bytes
    BY <1>0, <1>1
  <2>2. p \in Seq(Bytes) /\ Len(p) = (IF 1 <= o THEN o - 1 + 1 ELSE 0)
        /\ \A i \in 1 .. o - 1 + 1 : p[i] = c[1 + i - 1]
    BY <1>1, <2>1, SubSeqProperties
  <2> HIDE DEF p
  <2> QED BY <1>1, <2>2
<1>4. \A i \in 1 .. o + n : /\ d[i] \in Bytes
                            /\ d[i] = IF i <= o THEN c[i] ELSE bytes[(L - r) + i - o]
  <2> SUFFICES ASSUME NEW i \in 1 .. o + n
               PROVE  /\ d[i] \in Bytes
                      /\ d[i] = IF i <= o THEN c[i] ELSE bytes[(L - r) + i - o]
    OBVIOUS
  <2>1. i \in 1..ChunkSize
    BY <1>0, <1>1
  <2>2. CASE i <= o
    BY <2>1, <2>2, <1>0, <1>1
  <2>3. CASE i > o
    <3>1. i \in o + 1 .. o + n /\ (L - r) + i - o \in 1..L
      BY <1>1, <2>3
    <3> QED BY <1>0, <1>2, <2>1, <2>3, <3>1
  <2> QED BY <2>2, <2>3, <1>1
<1>5. u \in Seq(Bytes) /\ Len(u) = o + n /\ \A i \in 1 .. o + n : u[i] = d[i]
  <2>1. o + n \in Int /\ 1 \in Int /\ \A i \in 1 .. o + n : d[i] \in Bytes
    BY <1>1, <1>4
  <2>2. u \in Seq(Bytes) /\ Len(u) = (IF 1 <= o + n THEN (o + n) - 1 + 1 ELSE 0)
        /\ \A i \in 1 .. (o + n) - 1 + 1 : u[i] = d[1 + i - 1]
    BY <2>1, SubSeqProperties
  <2> HIDE DEF u
  <2>3. (o + n) - 1 + 1 = o + n /\ \A i \in 1 .. o + n : 1 + i - 1 = i
    BY <1>1
  <2>4. Len(u) = o + n
    BY <1>1, <2>2
  <2>5. \A i \in 1 .. o + n : u[i] = d[i]
    BY <2>2, <2>3
  <2> QED BY <2>2, <2>4, <2>5
<1>6. ASSUME NEW k \in 0..L
      PROVE  /\ SubSeq(bytes, L - k + 1, L) \in Seq(Bytes)
             /\ Len(SubSeq(bytes, L - k + 1, L)) = k
             /\ \A i \in 1..k : SubSeq(bytes, L - k + 1, L)[i] = bytes[L - k + i]
  <2> DEFINE y == SubSeq(bytes, L - k + 1, L)
  <2>1. L - k + 1 \in Int /\ L \in Int /\ \A i \in L - k + 1 .. L : bytes[i] \in Bytes
    BY <1>1, <1>2
  <2>2. y \in Seq(Bytes) /\ Len(y) = (IF L - k + 1 <= L THEN L - (L - k + 1) + 1 ELSE 0)
        /\ \A i \in 1 .. L - (L - k + 1) + 1 : y[i] = bytes[(L - k + 1) + i - 1]
    BY <2>1, SubSeqProperties
  <2> HIDE DEF y
  <2>3. L - (L - k + 1) + 1 = k /\ Len(y) = k
    BY <1>1, <2>2
  <2>4. \A i \in 1..k : (L - k + 1) + i - 1 = L - k + i
    BY <1>1
  <2> QED BY <2>2, <2>3, <2>4 DEF y
<1>7. q \in Seq(Bytes) /\ Len(q) = r /\ \A i \in 1..r : q[i] = bytes[L - r + i]
  BY <1>1, <1>6
<1>8. v \in Seq(Bytes) /\ Len(v) = r - n /\ \A i \in 1 .. r - n : v[i] = bytes[L - (r - n) + i]
  <2>1. r - n \in 0..L
    BY <1>1
  <2> QED BY <1>6, <2>1
<1> HIDE DEF p, q, u, v, L
<1>9. p \o q = u \o v
  <2> DEFINE a == p \o q
             b == u \o v
  <2>1. a \in Seq(Bytes) /\ Len(a) = o + r
        /\ \A i \in 1 .. o + r : a[i] = IF i <= o THEN p[i] ELSE q[i - o]
    <3>1. p \in Seq(Bytes) /\ q \in Seq(Bytes) /\ Len(p) = o /\ Len(q) = r
      BY <1>3, <1>7
    <3>2. /\ a \in Seq(Bytes) /\ Len(a) = Len(p) + Len(q)
          /\ \A i \in 1 .. Len(p) + Len(q) : a[i] = IF i <= Len(p) THEN p[i] ELSE q[i - Len(p)]
      <4>1. p \in Seq(Bytes) /\ q \in Seq(Bytes)
        BY <3>1
      <4> QED BY <4>1, ConcatProperties
    <3> HIDE DEF a
    <3> QED BY <3>1, <3>2
  <2>2. b \in Seq(Bytes) /\ Len(b) = o + r
        /\ \A i \in 1 .. o + r : b[i] = IF i <= o + n THEN u[i] ELSE v[i - (o + n)]
    <3>1. b \in Seq(Bytes) /\ Len(b) = Len(u) + Len(v)
          /\ \A i \in 1 .. Len(u) + Len(v) : b[i] = IF i <= Len(u) THEN u[i] ELSE v[i - Len(u)]
      <4>1. u \in Seq(Bytes) /\ v \in Seq(Bytes)
        BY <1>5, <1>8
      <4> QED BY <4>1, ConcatProperties
    <3>2. Len(u) = o + n /\ Len(u) + Len(v) = o + r
      BY <1>1, <1>5, <1>8
    <3> HIDE DEF b
    <3> QED BY <3>1, <3>2
  <2> HIDE DEF a, b
  <2>4. ASSUME NEW i \in 1 .. o + r PROVE a[i] = b[i]
    <3>1. CASE i <= o
      <4>1. a[i] = c[i]
        BY <1>1, <1>3, <2>1, <3>1
      <4>2. i \in 1 .. o + n
        BY <1>1, <3>1
      <4>3. i <= o + n
        BY <4>2
      <4>4. b[i] = u[i]
        BY <2>2, <4>3
      <4>5. u[i] = d[i] /\ d[i] = c[i]
        BY <1>4, <1>5, <3>1, <4>2
      <4> QED BY <4>1, <4>4, <4>5
    <3>2. CASE i > o /\ i <= o + n
      <4>1. i - o \in 1..r /\ ~(i <= o) /\ i \in 1 .. o + n
        BY <1>1, <3>2
      <4>2. a[i] = bytes[L - r + (i - o)]
        BY <1>7, <2>1, <4>1
      <4>3. b[i] = u[i] /\ u[i] = d[i] /\ d[i] = bytes[(L - r) + i - o]
        BY <1>1, <1>4, <1>5, <2>2, <3>2, <4>1
      <4>4. L - r + (i - o) = (L - r) + i - o
        BY <1>1
      <4> QED BY <4>2, <4>3, <4>4
    <3>3. CASE i > o + n
      <4>1. i - o \in 1..r /\ ~(i <= o) /\ ~(i <= o + n) /\ i - (o + n) \in 1 .. r - n
        BY <1>1, <3>3
      <4>2. a[i] = bytes[L - r + (i - o)]
        BY <1>7, <2>1, <4>1
      <4>3. b[i] = v[i - (o + n)]
        BY <2>2, <4>1
      <4>4. v[i - (o + n)] = bytes[L - (r - n) + (i - (o + n))]
        BY <1>8, <4>1
      <4>5. L - r + (i - o) = L - (r - n) + (i - (o + n))
        BY <1>1
      <4> QED BY <4>2, <4>3, <4>4, <4>5
    <3> QED BY <1>1, <3>1, <3>2, <3>3
  <2>5. a = b
    BY <1>1, <2>1, <2>2, <2>4
  <2> QED BY <2>5 DEF a, b
<1> QED BY <1>3, <1>5, <1>7, <1>8, <1>9 DEF Moved, p, q, u, v, L

(* The payloads of the queued buffers, and their bytes in one sequence.    *)
pieces == [i \in 1..Len(consumerQueue) |-> content[consumerQueue[i]]]
queued == FlattenSeq(pieces)

(* What makes up the bytes in flight are sequences of bytes.               *)
LEMMA InFlightParts ==
  ASSUME PipeIInv
  PROVE  /\ pieces \in Seq(Seq(Bytes)) /\ Len(pieces) = Len(consumerQueue)
         /\ queued \in Seq(Bytes)
         /\ inReading \in Seq(Bytes)
         /\ SubSeq(chunk, 1, offset) \in Seq(Bytes)
         /\ Len(SubSeq(chunk, 1, offset)) = offset
<1>1. consumerQueue \in Seq(Buffers) /\ content \in [Buffers -> Seq(Bytes)]
  BY DEF PipeIInv, PipeTypeOK, TypeOK
<1>2. pieces \in Seq(Seq(Bytes)) /\ Len(pieces) = Len(consumerQueue)
  BY <1>1 DEF pieces
<1>3. queued \in Seq(Bytes)
  BY <1>2, FlattenType DEF queued
<1>4. inReading \in Seq(Bytes)
  <2>1. ASSUME pc[Consumer] \in {"process", "consume_notify"}
        PROVE  content[held[Consumer]] \in Seq(Bytes)
    <3>1. held[Consumer] \in Buffers
      BY <2>1 DEF PipeIInv, IInv, TypeOK, Ownership, Holding, Threads
    <3> QED BY <1>1, <3>1
  <2>2. CASE pc[Consumer] = "process"
    <3> DEFINE bytes == content[held[Consumer]]
    <3>1. bytes \in Seq(Bytes) /\ remaining \in 0..Len(bytes)
      BY <2>1, <2>2 DEF PipeIInv, PipeTypeOK, ReadsWithinPayload
    <3> HIDE DEF bytes
    <3>2. \A i \in Len(bytes) - remaining + 1 .. Len(bytes) : bytes[i] \in Bytes
      BY <3>1
    <3>3. Len(bytes) - remaining + 1 \in Int /\ Len(bytes) \in Int
      BY <3>1
    <3>4. SubSeq(bytes, Len(bytes) - remaining + 1, Len(bytes)) \in Seq(Bytes)
      BY <3>2, <3>3, SubSeqProperties
    <3> QED BY <2>2, <3>4 DEF inReading, bytes
  <2>3. CASE pc[Consumer] = "consume_notify"
    BY <2>1, <2>3 DEF inReading
  <2>4. CASE pc[Consumer] \notin {"process", "consume_notify"}
    <3>1. inReading = <<>>
      BY <2>4 DEF inReading
    <3> QED BY <3>1
  <2> QED BY <2>2, <2>3, <2>4
<1>5. SubSeq(chunk, 1, offset) \in Seq(Bytes) /\ Len(SubSeq(chunk, 1, offset)) = offset
  <2>1. offset \in 0 .. ChunkSize - 1 /\ chunk \in [1..ChunkSize -> Bytes] /\ ChunkSize \in Nat
    BY PipelineAssumption DEF PipeIInv, PipeTypeOK
  <2>2. \A i \in 1..offset : chunk[i] \in Bytes
    BY <2>1
  <2>3. /\ SubSeq(chunk, 1, offset) \in Seq(Bytes)
        /\ Len(SubSeq(chunk, 1, offset)) = IF 1 <= offset THEN offset - 1 + 1 ELSE 0
    BY <2>1, <2>2, SubSeqProperties
  <2> QED BY <2>1, <2>3
<1> QED BY <1>2, <1>3, <1>4, <1>5

(* inFlight in terms of these parts, before and after a step.              *)
LEMMA InFlightIs ==
  /\ inFlight = SubSeq(chunk, 1, offset) \o inReading \o queued
  /\ inFlight' = SubSeq(chunk', 1, offset') \o inReading' \o queued'
  BY Zenon DEF inFlight, queued, pieces

(* A sequence is the function of its elements.                             *)
LEMMA SeqEquals ==
  ASSUME NEW S, NEW s \in Seq(S), NEW n \in Nat, Len(s) = n,
         NEW f, f = [i \in 1..n |-> f[i]], \A i \in 1..n : s[i] = f[i]
  PROVE  f = s
<1>1. s = [i \in 1..n |-> s[i]]
  OBVIOUS
<1>2. [i \in 1..n |-> s[i]] = [i \in 1..n |-> f[i]]
  OBVIOUS
<1> QED BY <1>1, <1>2, Zenon

(* The queued bytes depend on the queue and on the buffers in it only.     *)
LEMMA QueuedSame ==
  ASSUME consumerQueue' = consumerQueue,
         \A b \in Elements(consumerQueue) : content'[b] = content[b]
  PROVE  queued' = queued
<1>1. \A i \in 1..Len(consumerQueue) : content'[consumerQueue[i]] = content[consumerQueue[i]]
  BY DEF Elements
<1>2. pieces' = pieces
  BY <1>1 DEF pieces
<1> QED BY <1>2 DEF queued

(* A producer hands its buffer over: its bytes join the stream.            *)
LEMMA QueueWrites ==
  ASSUME PipeIInv, NEW t \in Producers, UNCHANGED dataVars,
         consumerQueue' = Append(consumerQueue, held[t]), pc[t] = "queue",
         UNCHANGED <<pc[Consumer], held[Consumer]>>
  PROVE  Abstract!Write
<1> DEFINE b == held[t]
           front == SubSeq(chunk, 1, offset) \o inReading
<1>1. b \in Buffers /\ consumerQueue \in Seq(Buffers) /\ content \in [Buffers -> Seq(Bytes)]
  BY DEF PipeIInv, PipeTypeOK, IInv, TypeOK, Ownership, Holding, Threads
<1>2. UNCHANGED <<content, chunk, offset, remaining, posted>>
  BY DEF dataVars
<1>3. front' = front
  BY <1>2 DEF inReading
<1>4. queued' = queued \o content[b]
  <2>1. pieces' = Append(pieces, content[b])
    <3>1. Len(consumerQueue) \in Nat /\ Len(consumerQueue') = Len(consumerQueue) + 1
          /\ (\A i \in 1..Len(consumerQueue) : consumerQueue'[i] = consumerQueue[i])
          /\ consumerQueue'[Len(consumerQueue) + 1] = b
      BY <1>1
    <3>2. pieces' = [i \in 1 .. Len(consumerQueue) + 1 |-> content[consumerQueue'[i]]]
      BY <1>2, <3>1 DEF pieces
    <3>3. Append(pieces, content[b]) \in Seq(Seq(Bytes))
          /\ Len(Append(pieces, content[b])) = Len(consumerQueue) + 1
          /\ (\A i \in 1..Len(consumerQueue) : Append(pieces, content[b])[i] = pieces[i])
          /\ Append(pieces, content[b])[Len(consumerQueue) + 1] = content[b]
      BY <1>1, InFlightParts
    <3>4. \A i \in 1 .. Len(consumerQueue) + 1 :
             Append(pieces, content[b])[i] = content[consumerQueue'[i]]
      <4>1. \A i \in 1..Len(consumerQueue) : pieces[i] = content[consumerQueue[i]]
        BY DEF pieces
      <4> QED BY <3>1, <3>3, <4>1
    <3> DEFINE a == Append(pieces, content[b])
               n == Len(consumerQueue) + 1
               f == pieces'
    <3>5. /\ a \in Seq(Seq(Bytes)) /\ n \in Nat /\ Len(a) = n
          /\ f = [i \in 1..n |-> f[i]] /\ \A i \in 1..n : a[i] = f[i]
      BY <3>1, <3>2, <3>3, <3>4
    <3> HIDE DEF a, n, f
    <3>6. f = a
      BY <3>5, SeqEquals
    <3> QED BY <3>6 DEF f, a
  <2>2. content[b] \in Seq(Bytes)
    BY <1>1
  <2>3. FlattenSeq(Append(pieces, content[b])) = FlattenSeq(pieces) \o content[b]
    BY <2>2, InFlightParts, FlattenAppend
  <2> QED BY <2>1, <2>3 DEF queued
<1>5. front \in Seq(Bytes) /\ queued \in Seq(Bytes) /\ content[b] \in Seq(Bytes)
  BY <1>1, InFlightParts, ConcatProperties
<1>6. inFlight = front \o queued /\ inFlight' = front \o (queued \o content[b])
  BY <1>3, <1>4, InFlightIs
<1> HIDE DEF front, b
<1>7. front \o (queued \o content[b]) = (front \o queued) \o content[b]
  <2> DEFINE q == queued
             x == content[b]
  <2>1. front \in Seq(Bytes) /\ q \in Seq(Bytes) /\ x \in Seq(Bytes)
    BY <1>5
  <2> HIDE DEF q, x
  <2>2. front \o (q \o x) = (front \o q) \o x
    BY <2>1
  <2> QED BY <2>2 DEF q, x
<1>8. /\ SubSeq(inFlight', 1, Len(inFlight)) = inFlight
      /\ Len(inFlight) \in 0..Len(inFlight')
  <2> DEFINE w == front \o queued
             x == content[b]
  <2>1. w \in Seq(Bytes) /\ x \in Seq(Bytes) /\ inFlight = w /\ inFlight' = w \o x
    BY <1>5, <1>6, <1>7, ConcatProperties
  <2> HIDE DEF w, x
  <2> QED BY <2>1, CutFacts
<1> QED BY <1>2, <1>8 DEF Abstract!Write

(* consume: the head of the queue becomes the buffer being read.           *)
LEMMA TakeStutters ==
  ASSUME PipeIInv, consumeTake, UNCHANGED dataVars
  PROVE  inFlight' = inFlight
<1> DEFINE b == Head(consumerQueue)
           p == SubSeq(chunk, 1, offset)
<1>1. /\ consumerQueue \in Seq(Buffers) /\ content \in [Buffers -> Seq(Bytes)]
      /\ pc \in [Threads -> Labels] /\ held \in [Threads -> Buffers \cup {NoBuffer}]
      /\ Consumer \in Threads
  BY DEF PipeIInv, PipeTypeOK, TypeOK, Threads
<1>2. /\ Len(consumerQueue) # 0 /\ consumerQueue' = Tail(consumerQueue)
      /\ pc[Consumer] = "consume" /\ pc'[Consumer] = "consume_notify"
      /\ held'[Consumer] = b /\ UNCHANGED <<content, chunk, offset>>
  BY <1>1 DEF consumeTake, isConsumerQueueEmpty, Goto, dataVars
<1>3. inReading = <<>> /\ inReading' = content[b]
  BY <1>2 DEF inReading
<1>4. pieces' = Tail(pieces) /\ pieces[1] = content[b] /\ Len(pieces) # 0
  <2>1. /\ Len(consumerQueue) \in Nat \ {0} /\ b = consumerQueue[1]
        /\ Len(consumerQueue') = Len(consumerQueue) - 1
        /\ \A i \in 1 .. Len(consumerQueue) - 1 : consumerQueue'[i] = consumerQueue[i + 1]
    BY <1>1, <1>2
  <2>2. /\ Len(Tail(pieces)) = Len(consumerQueue) - 1 /\ Tail(pieces) \in Seq(Seq(Bytes))
        /\ \A i \in 1 .. Len(consumerQueue) - 1 : Tail(pieces)[i] = pieces[i + 1]
    BY <2>1, InFlightParts
  <2>3. pieces' = [i \in 1 .. Len(consumerQueue) - 1 |-> content[consumerQueue'[i]]]
    BY <1>2, <2>1 DEF pieces
  <2>4. \A i \in 1 .. Len(consumerQueue) - 1 : Tail(pieces)[i] = content[consumerQueue'[i]]
    <3>1. \A i \in 1..Len(consumerQueue) : pieces[i] = content[consumerQueue[i]]
      BY DEF pieces
    <3> SUFFICES ASSUME NEW i \in 1 .. Len(consumerQueue) - 1
                 PROVE  Tail(pieces)[i] = content[consumerQueue'[i]]
      OBVIOUS
    <3>2. i + 1 \in 1..Len(consumerQueue)
      BY <2>1
    <3>3. Tail(pieces)[i] = pieces[i + 1] /\ consumerQueue'[i] = consumerQueue[i + 1]
      BY <2>1, <2>2
    <3> QED BY <3>1, <3>2, <3>3
  <2>5. pieces[1] = content[b] /\ Len(pieces) # 0
    BY <2>1, InFlightParts DEF pieces
  <2> DEFINE a == Tail(pieces)
             n == Len(consumerQueue) - 1
             f == pieces'
  <2>6. /\ a \in Seq(Seq(Bytes)) /\ n \in Nat /\ Len(a) = n
        /\ f = [i \in 1..n |-> f[i]] /\ \A i \in 1..n : a[i] = f[i]
    BY <2>1, <2>2, <2>3, <2>4
  <2> HIDE DEF a, n, f
  <2>7. f = a
    BY <2>6, SeqEquals
  <2> QED BY <2>5, <2>7 DEF a, f
<1>5. queued = content[b] \o queued' /\ queued' \in Seq(Bytes)
  <2>1. pieces \in Seq(Seq(Bytes)) /\ Tail(pieces) \in Seq(Seq(Bytes))
    BY <1>4, InFlightParts
  <2>2. FlattenSeq(pieces) = pieces[1] \o FlattenSeq(Tail(pieces))
    BY <1>4, <2>1, FlattenTail
  <2>3. FlattenSeq(Tail(pieces)) \in Seq(Bytes)
    BY <2>1, FlattenType
  <2> QED BY <1>4, <2>2, <2>3 DEF queued
<1>6. p \in Seq(Bytes) /\ content[b] \in Seq(Bytes)
  BY <1>1, <1>2, InFlightParts
<1>7. inFlight = (p \o <<>>) \o (content[b] \o queued')
  BY <1>3, <1>5, InFlightIs
<1>8. inFlight' = (p \o content[b]) \o queued'
  BY <1>2, <1>3, InFlightIs
<1> DEFINE x == content[b]
           q == queued'
<1>9. (p \o <<>>) \o (x \o q) = (p \o x) \o q
  <2>1. p \in Seq(Bytes) /\ x \in Seq(Bytes) /\ q \in Seq(Bytes)
    BY <1>5, <1>6
  <2> HIDE DEF p, x, q
  <2>2. p \o <<>> = p
    BY <2>1, ConcatEmptySeq
  <2>3. p \o (x \o q) = (p \o x) \o q
    BY <2>1
  <2> QED BY <2>2, <2>3
<1> QED BY <1>7, <1>8, <1>9

-----------------------------------------------------------------------------
(* Every step of the data path is a step of ByteStream or leaves it alone. *)

(* consumerLoop starts at the beginning of the buffer it has taken ...     *)
LEMMA StartStutters ==
  ASSUME PipeIInv, startBuffer PROVE inFlight' = inFlight
<1>1. /\ pc \in [Threads -> Labels] /\ Consumer \in Threads
      /\ content \in [Buffers -> Seq(Bytes)]
  BY DEF PipeIInv, PipeTypeOK, TypeOK, Threads
<1>2. /\ pc[Consumer] = "consume_notify" /\ pc'[Consumer] = "process"
      /\ remaining' = Len(content[held[Consumer]])
      /\ UNCHANGED <<consumerQueue, held, content, chunk, offset>>
  BY <1>1 DEF startBuffer, consumeNotify, Goto
<1> DEFINE bytes == content[held[Consumer]]
<1>3. bytes \in Seq(Bytes)
  <2>1. held[Consumer] \in Buffers
    BY <1>1, <1>2 DEF PipeIInv, IInv, TypeOK, Ownership, Holding
  <2> QED BY <1>1, <2>1
<1>4. inReading = bytes
  BY <1>2 DEF inReading
<1>5. inReading' = SubSeq(bytes, Len(bytes) - Len(bytes) + 1, Len(bytes))
  BY <1>2 DEF inReading
<1>6. SubSeq(bytes, Len(bytes) - Len(bytes) + 1, Len(bytes)) = bytes
  <2> HIDE DEF bytes
  <2>1. Len(bytes) - Len(bytes) + 1 = 1
    BY <1>3
  <2>2. SubSeq(bytes, 1, Len(bytes)) = bytes
    BY <1>3, SubSeqFull
  <2> QED BY <2>1, <2>2
<1>7. queued' = queued
  BY <1>2, QueuedSame
<1> QED BY <1>2, <1>4, <1>5, <1>6, <1>7, InFlightIs, Zenon

(* ... and leaves the inner loop at its end.                               *)
LEMMA EndStutters ==
  ASSUME PipeIInv, endBuffer PROVE inFlight' = inFlight
<1>1. pc \in [Threads -> Labels] /\ Consumer \in Threads /\ content \in [Buffers -> Seq(Bytes)]
  BY DEF PipeIInv, PipeTypeOK, TypeOK, Threads
<1>2. /\ pc[Consumer] = "process" /\ pc'[Consumer] = "release" /\ remaining = 0
      /\ UNCHANGED <<consumerQueue, held, content, chunk, offset>>
  BY <1>1 DEF endBuffer, process, Goto, dataVars
<1> DEFINE bytes == content[held[Consumer]]
<1>3. bytes \in Seq(Bytes)
  <2>1. held[Consumer] \in Buffers
    BY <1>1, <1>2 DEF PipeIInv, IInv, TypeOK, Ownership, Holding
  <2> QED BY <1>1, <2>1
<1>4. inReading = SubSeq(bytes, Len(bytes) - 0 + 1, Len(bytes))
  BY <1>2 DEF inReading
<1>5. inReading = <<>>
  <2> HIDE DEF bytes
  <2>1. Len(bytes) - 0 + 1 \in Int /\ Len(bytes) \in Int /\ Len(bytes) < Len(bytes) - 0 + 1
    BY <1>3
  <2> QED BY <1>4, <2>1, SubSeqEmpty
<1>6. inReading' = <<>>
  BY <1>2 DEF inReading
<1>7. queued' = queued
  BY <1>2, QueuedSame
<1> QED BY <1>2, <1>5, <1>6, <1>7, InFlightIs, Zenon

(* One turn of the inner loop: the bytes move inside the stream, and a     *)
(* chunk that is full leaves it.                                           *)
LEMMA CopyPosts ==
  ASSUME PipeIInv, copyBytes
  PROVE  Abstract!Post \/ UNCHANGED <<inFlight, posted>>
<1> DEFINE bytes == content[held[Consumer]]
           r == remaining
           o == offset
           room == ChunkSize - o
           n == IF room < r THEN room ELSE r
           u == SubSeq(chunk', 1, o + n)
           v == SubSeq(bytes, Len(bytes) - (r - n) + 1, Len(bytes))
           p == SubSeq(chunk, 1, o)
           q == SubSeq(bytes, Len(bytes) - r + 1, Len(bytes))
<1>1. /\ pc[Consumer] = "process" /\ UNCHANGED <<consumerQueue, held, pc, content>>
      /\ chunk' = [i \in 1..ChunkSize |->
                     IF i \in o + 1 .. o + n THEN bytes[(Len(bytes) - r) + i - o] ELSE chunk[i]]
      /\ posted' = IF n + o = ChunkSize THEN chunk' ELSE posted
      /\ offset' = (o + n) % ChunkSize /\ remaining' = r - n
  BY DEF copyBytes, nextOffset, vars
<1>2. /\ ChunkSize \in Nat \ {0} /\ o \in 0 .. ChunkSize - 1
      /\ chunk \in [1..ChunkSize -> Bytes] /\ content \in [Buffers -> Seq(Bytes)]
      /\ bytes \in Seq(Bytes) /\ r \in 0..Len(bytes)
  <2>1. held[Consumer] \in Buffers
    BY <1>1 DEF PipeIInv, IInv, TypeOK, Ownership, Holding, Threads
  <2> QED BY <1>1, <2>1, PipelineAssumption DEF PipeIInv, PipeTypeOK, ReadsWithinPayload
<1>3. n \in 0..r /\ o + n <= ChunkSize /\ o + n \in Nat
  BY <1>2
<1>4. p \o q = u \o v /\ u \in Seq(Bytes) /\ Len(u) = o + n /\ v \in Seq(Bytes)
      /\ p \in Seq(Bytes) /\ q \in Seq(Bytes)
  <2> DEFINE d == chunk'
             c == chunk
  <2>1. Copied(c, o, bytes, r, n, d)
    <3>1. /\ c \in [1..ChunkSize -> Bytes] /\ o \in 0..ChunkSize /\ o + n <= ChunkSize
          /\ bytes \in Seq(Bytes) /\ r \in 0..Len(bytes) /\ n \in 0..r
      BY <1>2, <1>3
    <3>2. \A i \in 1..ChunkSize : d[i] = IF i \in o + 1 .. o + n
                                    THEN bytes[(Len(bytes) - r) + i - o] ELSE c[i]
      BY <1>1
    <3> HIDE DEF d, c, n, bytes, r, o
    <3> QED BY <3>1, <3>2 DEF Copied
  <2> HIDE DEF d, c, n, bytes, r, o
  <2>2. Moved(c, o, bytes, r, n, d)
    BY <2>1, CopyMovesBytes
  <2> QED BY <2>2 DEF Moved, d, c
<1>5. inReading = q /\ inReading' = v
  BY <1>1 DEF inReading
<1>6. queued' = queued /\ queued \in Seq(Bytes)
  BY <1>1, QueuedSame, InFlightParts
<1>7. inFlight = (u \o v) \o queued
  BY <1>4, <1>5, InFlightIs
<1>8. CASE o + n < ChunkSize
  <2>1. offset' = o + n /\ posted' = posted
    <3> DEFINE C == ChunkSize
               z == o + n
    <3>1. C \in Nat \ {0} /\ n \in Nat /\ o \in Nat
      BY <1>2, <1>3
    <3>2. offset' = z % C /\ posted' = IF n + o = C THEN chunk' ELSE posted
      BY <1>1
    <3> HIDE DEF C, n, o
    <3>3. z % C = z /\ ~(n + o = C)
      BY <1>8, <3>1 DEF C
    <3> QED BY <3>2, <3>3
  <2>2. inFlight' = (u \o v) \o queued
    BY <1>5, <1>6, <2>1, InFlightIs
  <2> QED BY <1>7, <2>1, <2>2
<1>9. CASE o + n = ChunkSize
  <2>1. offset' = 0 /\ posted' = chunk'
    <3> DEFINE C == ChunkSize
               z == o + n
    <3>1. C \in Nat \ {0} /\ n \in Nat /\ o \in Nat
      BY <1>2, <1>3
    <3>2. offset' = z % C /\ posted' = IF n + o = C THEN chunk' ELSE posted
      BY <1>1
    <3> HIDE DEF C, n, o
    <3>3. z % C = 0 /\ n + o = C
      BY <1>9, <3>1 DEF C
    <3> QED BY <3>2, <3>3, <1>9 DEF C
  <2>2. u = chunk'
    <3>1. chunk' \in Seq(Bytes) /\ Len(chunk') = ChunkSize
      <4>1. chunk' \in [1..ChunkSize -> Bytes]
        <5> SUFFICES ASSUME NEW i \in o + 1 .. o + n
                     PROVE  bytes[(Len(bytes) - r) + i - o] \in Bytes
          BY <1>1, <1>2
        <5>1. (Len(bytes) - r) + i - o \in 1..Len(bytes)
          BY <1>2, <1>3
        <5> QED BY <1>2, <5>1
      <4> QED BY <1>2, <4>1
    <3> HIDE DEF n
    <3> QED BY <1>9, <3>1, SubSeqFull
  <2> DEFINE w == queued
  <2>3. SubSeq(chunk', 1, 0) = <<>>
    BY SubSeqEmpty
  <2>4. inFlight' = (<<>> \o v) \o w
    BY <1>5, <1>6, <2>1, <2>3, InFlightIs
  <2>5. inFlight = (u \o v) \o w
    BY <1>7
  <2>6. Len(u) = ChunkSize /\ w \in Seq(Bytes)
    BY <1>4, <1>6, <1>9
  <2> HIDE DEF u, v, w
  <2>7. (u \o v) \o w = u \o (v \o w) /\ (<<>> \o v) \o w = v \o w
    <3>1. <<>> \o v = v
      BY <1>4, ConcatEmptySeq
    <3>2. u \in Seq(Bytes) /\ v \in Seq(Bytes) /\ w \in Seq(Bytes)
      BY <1>4, <2>6
    <3>3. (u \o v) \o w = u \o (v \o w)
      BY <3>2
    <3> QED BY <3>1, <3>3
  <2>8. v \o w \in Seq(Bytes)
    BY <1>4, <2>6, ConcatProperties
  <2>9. /\ SubSeq(inFlight, 1, ChunkSize) = u
        /\ SubSeq(inFlight, ChunkSize + 1, Len(inFlight)) = inFlight'
        /\ ChunkSize <= Len(inFlight)
    <3> DEFINE x == v \o w
    <3>1. inFlight = u \o x /\ inFlight' = x /\ x \in Seq(Bytes)
      BY <2>4, <2>5, <2>7, <2>8
    <3> HIDE DEF x
    <3>2. /\ SubSeq(u \o x, 1, Len(u)) = u
          /\ SubSeq(u \o x, Len(u) + 1, Len(u \o x)) = x
          /\ Len(u) \in 0..Len(u \o x)
      BY <1>4, <3>1, CutFacts
    <3> QED BY <2>6, <3>1, <3>2
  <2>10. Len(inFlight) >= ChunkSize
    BY <1>2, <1>4, <2>5, <2>6, <2>7, <2>8, <2>9, ConcatProperties
  <2> QED BY <2>1, <2>2, <2>9, <2>10 DEF Abstract!Post
<1> HIDE DEF n
<1> QED BY <1>2, <1>3, <1>8, <1>9

(* A producer fills the buffer it owns, which is not in the stream yet.    *)
LEMMA FillStutters ==
  ASSUME PipeIInv, NEW t \in Producers, fill(t), NEW p,
         content' = [content EXCEPT ![held[t]] = p],
         UNCHANGED <<chunk, offset, remaining>>
  PROVE  inFlight' = inFlight
<1>1. /\ pc \in [Threads -> Labels] /\ Consumer \in Threads /\ t \in Threads /\ t # Consumer
      /\ content \in [Buffers -> Seq(Bytes)] /\ consumerQueue \in Seq(Buffers)
      /\ held \in [Threads -> Buffers \cup {NoBuffer}]
  BY PoolAssumption DEF PipeIInv, PipeTypeOK, TypeOK, Threads
<1>2. UNCHANGED <<consumerQueue, held>> /\ pc'[Consumer] = pc[Consumer]
  BY <1>1 DEF fill, Goto
<1>3. held[t] \notin Elements(consumerQueue) /\ held[t] # held[Consumer]
  BY FillsOwnBuffer
<1>4. Elements(consumerQueue) \subseteq Buffers
  BY <1>1 DEF Elements
<1>5. \A b \in Elements(consumerQueue) : content'[b] = content[b]
  BY <1>1, <1>3, <1>4
<1>6. queued' = queued
  BY <1>2, <1>5, QueuedSame
<1>7. inReading' = inReading
  <2>1. CASE pc[Consumer] \in {"process", "consume_notify"}
    <3>1. held[Consumer] \in Buffers
      BY <1>1, <2>1 DEF PipeIInv, IInv, Ownership, Holding
    <3>2. content'[held[Consumer]] = content[held[Consumer]]
      BY <1>1, <1>3, <3>1
    <3> QED BY <1>2, <3>2 DEF inReading
  <2>2. CASE pc[Consumer] \notin {"process", "consume_notify"}
    BY <1>2, <2>2 DEF inReading
  <2> QED BY <2>1, <2>2
<1> QED BY <1>6, <1>7, InFlightIs, Zenon

(* The other steps of the queue leave the stream alone.                    *)
LEMMA OtherStutters ==
  ASSUME UNCHANGED dataVars, UNCHANGED consumerQueue,
         \/ UNCHANGED <<pc[Consumer], held[Consumer]>>
         \/ /\ pc[Consumer] \notin {"process", "consume_notify"}
            /\ pc'[Consumer] \notin {"process", "consume_notify"}
  PROVE  UNCHANGED <<inFlight, posted>>
<1>1. UNCHANGED <<content, chunk, offset, remaining, posted>>
  BY DEF dataVars
<1>2. queued' = queued
  BY <1>1, QueuedSame
<1>3. inReading' = inReading
  BY <1>1 DEF inReading
<1> QED BY <1>1, <1>2, <1>3, InFlightIs, Zenon

(* Every step of the data path is a step of the byte stream, or none.      *)
LEMMA PipeStepIsStreamStep ==
  ASSUME PipeIInv, [PipeNext]_pipeVars
  PROVE  [Abstract!Next]_(Abstract!vars)
<1> SUFFICES Abstract!Write \/ Abstract!Post \/ UNCHANGED <<inFlight, posted>>
  BY DEF Abstract!Next, Abstract!vars
<1>1. /\ pc \in [Threads -> Labels] /\ Consumer \in Threads /\ Consumer \notin Producers
      /\ held \in [Threads -> Buffers \cup {NoBuffer}] /\ Producers \subseteq Threads
  BY PoolAssumption DEF PipeIInv, PipeTypeOK, TypeOK, Threads
<1>2. ASSUME NEW t \in Producers, pushOrAcquire(t)
      PROVE  Abstract!Write \/ UNCHANGED <<inFlight, posted>>
  <2>1. t \in Threads /\ t # Consumer /\ UNCHANGED dataVars
    BY <1>1, <1>2 DEF pushOrAcquire
  <2>2. UNCHANGED <<pc[Consumer], held[Consumer]>>
    BY <1>1, <1>2, <2>1 DEF pushOrAcquire, QueueStep, acquireWait, acquireTake, acquireNotify,
       queue, queueNotify, Goto
  <2>3. CASE consumerQueue' = consumerQueue
    BY <2>1, <2>2, <2>3, OtherStutters
  <2>4. CASE consumerQueue' # consumerQueue
    <3>1. consumerQueue' = Append(consumerQueue, held[t]) /\ pc[t] = "queue"
      BY <1>2, <2>4 DEF pushOrAcquire, QueueStep, acquireWait, acquireTake, acquireNotify,
         queue, queueNotify
    <3> QED BY <2>1, <2>2, <3>1, QueueWrites
  <2> QED BY <2>3, <2>4
<1>3. ASSUME NEW t \in Producers, fillPayload(t)
      PROVE  UNCHANGED <<inFlight, posted>>
  <2>1. fill(t) /\ UNCHANGED <<chunk, offset, remaining, posted>>
    BY <1>3 DEF fillPayload
  <2>2. PICK p \in Payloads : content' = [content EXCEPT ![held[t]] = p]
    BY <1>3 DEF fillPayload
  <2> QED BY <2>1, <2>2, FillStutters
<1>4. CASE injectNullBuffers
  <2>1. fill(Monitor) /\ UNCHANGED <<chunk, offset, remaining, posted>> /\ Monitor \in Producers
    BY <1>4, PipelineAssumption DEF injectNullBuffers
  <2>2. \E p : content' = [content EXCEPT ![held[Monitor]] = p]
    BY <1>4 DEF injectNullBuffers
  <2> QED BY <2>1, <2>2, FillStutters
<1>5. CASE consumeOther
  <2>1. UNCHANGED dataVars
    BY <1>5 DEF consumeOther
  <2>2. CASE consumeTake
    <3>1. posted' = posted
      BY <2>1 DEF dataVars
    <3> QED BY <2>1, <2>2, <3>1, TakeStutters
  <2>3. CASE consumeWait \/ consumeTimeout \/ releaseNotify \/ release
    <3>1. UNCHANGED consumerQueue
      BY <2>3 DEF consumeWait, consumeTimeout, releaseNotify, release
    <3>2. \/ UNCHANGED <<pc[Consumer], held[Consumer]>>
          \/ /\ pc[Consumer] \notin {"process", "consume_notify"}
             /\ pc'[Consumer] \notin {"process", "consume_notify"}
      BY <1>1, <2>3 DEF consumeWait, consumeTimeout, releaseNotify, release, Goto
    <3> QED BY <2>1, <3>1, <3>2, OtherStutters
  <2> QED BY <1>5, <2>2, <2>3 DEF consumeOther
<1>6. CASE startBuffer
  BY <1>6, StartStutters DEF startBuffer
<1>7. CASE copyBytes
  BY <1>7, CopyPosts
<1>8. CASE endBuffer
  BY <1>8, EndStutters DEF endBuffer, dataVars
<1>9. CASE UNCHANGED pipeVars
  <2>1. UNCHANGED dataVars /\ UNCHANGED <<consumerQueue, pc, held>>
    BY <1>9 DEF pipeVars, vars
  <2> QED BY <2>1, OtherStutters
<1> QED BY <1>2, <1>3, <1>4, <1>5, <1>6, <1>7, <1>8, <1>9 DEF PipeNext, consumerLoop

(* The data path implements the byte stream: every payload that a producer *)
(* queues is posted byte for byte, in chunks of the fixed size and in the  *)
(* order of the queue, whatever the interleaving and however the buffers   *)
(* are recycled.                                                           *)
THEOREM PathPreservesStream == PipeSpec => StreamPreserved
<1>1. PipeInit => Abstract!Init
  <2> SUFFICES ASSUME PipeInit PROVE inFlight = <<>> /\ posted = <<>>
    BY DEF Abstract!Init
  <2>1. /\ consumerQueue = <<>> /\ offset = 0 /\ posted = <<>>
        /\ pc[Consumer] = "consume"
    BY DEF PipeInit, Init, Threads
  <2>2. queued = <<>>
    <3>1. pieces = <<>>
      BY <2>1 DEF pieces
    <3>2. Len(<<>>) = 0
      OBVIOUS
    <3> QED BY <3>1, <3>2 DEF queued, FlattenSeq
  <2>3. inReading = <<>>
    BY <2>1 DEF inReading
  <2>4. SubSeq(chunk, 1, offset) = <<>>
    BY <2>1, SubSeqEmpty
  <2>5. <<>> \o <<>> \o <<>> = <<>>
    OBVIOUS
  <2> QED BY <2>1, <2>2, <2>3, <2>4, <2>5, InFlightIs
<1>2. PipeIInv /\ [PipeNext]_pipeVars => [Abstract!Next]_(Abstract!vars)
  BY PipeStepIsStreamStep
<1> QED BY <1>1, <1>2, PipeInvariance, PTL DEF PipeSpec, StreamPreserved, Abstract!Spec

=============================================================================
