---------------------------- MODULE DemuxerProofs ----------------------------
(***************************************************************************)
(* The two demuxers that read from the network.                            *)
(*                                                                         *)
(* UdpStreamListener, for any number of threads in setup and of            *)
(* descriptors: no socket leaks and none is closed under the reader.       *)
(*                                                                         *)
(* HttpDemuxer, for every size of buffers, pool and pieces: no byte is     *)
(* lost, repeated or reordered, and a buffer has the label of its last.    *)
(***************************************************************************)
EXTENDS UdpStreamListener, HttpDemuxer, TLAPS

(* What SocketsOwned and ReaderKeepsSocket rest on: the lock               *)
(* is the reader's while it receives, what it receives from has joined a   *)
(* group, and so has what setup is about to install.                       *)
Joined ==
  /\ mLock <=> reader \in {"recv", "push"}
  /\ reader # "wait" => mFd # 0
  /\ mFd # 0 => sockets[mFd] \in Groups
  /\ \A o \in inSetup : fd[o] \in Fds /\ group[o] \in Groups
  /\ \A o \in Openers : opener[o] = "install" => sockets[fd[o]] \in Groups

ListenerIInv == ListenerTypeOK /\ SocketsOwned /\ Joined

(* A new listener has no socket and nobody in setup.                       *)
LEMMA ListenerInit == Init => ListenerIInv
<1> SUFFICES ASSUME Init PROVE ListenerIInv
  OBVIOUS
<1>1. ListenerTypeOK
  <2>1. mLock \in BOOLEAN
    BY Zenon DEF Init
  <2>2. QED
    BY <2>1, ListenerAssumption DEF Init, ListenerTypeOK
<1>2. inSetup = {} /\ {f \in Fds : sockets[f] # Closed} = {}
  BY DEF Init, inSetup
<1>3. SocketsOwned
  BY <1>2 DEF Init, SocketsOwned
<1>4. Joined
  BY <1>2 DEF Init, Joined
<1>5. QED
  BY <1>1, <1>3, <1>4 DEF ListenerIInv

(* A new socket belongs to the thread that created it.                     *)
LEMMA CreateKeeps ==
  ASSUME ListenerIInv, NEW o \in Openers, NEW g \in Groups, createSocket(o, g)
  PROVE  ListenerIInv'
<1> USE DEF ListenerIInv
<1>1. PICK f \in Fds : /\ sockets[f] = Closed
                       /\ sockets' = [sockets EXCEPT ![f] = Unjoined]
                       /\ fd' = [fd EXCEPT ![o] = f]
  BY DEF createSocket
<1>2. /\ opener[o] = "idle" /\ opener' = [opener EXCEPT ![o] = "join"]
      /\ group' = [group EXCEPT ![o] = g]
      /\ UNCHANGED <<mFd, mLock, reader, n, size>>
  BY DEF createSocket, readerVars
<1>3. ListenerTypeOK'
  BY <1>1, <1>2 DEF ListenerTypeOK
<1>4. /\ inSetup' = inSetup \cup {o} /\ o \notin inSetup
      /\ \A p \in inSetup : fd'[p] = fd[p] /\ group'[p] = group[p]
      /\ fd'[o] = f /\ group'[o] = g
      /\ \A e \in Fds \ {f} : sockets'[e] = sockets[e]
      /\ sockets'[f] = Unjoined /\ Unjoined # Closed
  BY <1>1, <1>2, ListenerAssumption DEF inSetup, ListenerTypeOK
<1>5. f # mFd /\ \A p \in inSetup : fd[p] # f
  BY <1>1, ListenerAssumption DEF SocketsOwned, ListenerTypeOK
<1>6. SocketsOwned'
  BY <1>1, <1>2, <1>4, <1>5 DEF SocketsOwned
<1>8. Joined'
  <2>1. \A p \in Openers : opener'[p] = "install" => p \in inSetup /\ opener[p] = "install"
    BY <1>2 DEF inSetup, ListenerTypeOK
  <2>2. QED
    BY <1>2, <1>4, <1>5, <2>1 DEF Joined, ListenerTypeOK
<1>9. QED
  BY <1>3, <1>6, <1>8

(* A thread in setup joins its group with its own socket.                  *)
LEMMA JoinKeeps ==
  ASSUME ListenerIInv, NEW o \in Openers, joinGroup(o)
  PROVE  ListenerIInv'
<1> USE DEF ListenerIInv
<1>1. /\ opener[o] = "join" /\ opener' = [opener EXCEPT ![o] = "install"]
      /\ sockets' = [sockets EXCEPT ![fd[o]] = group[o]]
      /\ UNCHANGED <<mFd, mLock, reader, n, size, fd, group>>
  BY DEF joinGroup, readerVars
<1>2. o \in inSetup /\ fd[o] \in Fds /\ group[o] \in Groups /\ group[o] # Closed /\ fd[o] # mFd
      /\ sockets[fd[o]] # Closed
  BY <1>1, ListenerAssumption DEF inSetup, Joined, SocketsOwned
<1>3. ListenerTypeOK'
  BY <1>1, <1>2 DEF ListenerTypeOK
<1>4. /\ inSetup' = inSetup
      /\ \A e \in Fds \ {fd[o]} : sockets'[e] = sockets[e]
      /\ sockets'[fd[o]] = group[o]
  BY <1>1, <1>2 DEF inSetup, ListenerTypeOK
<1>5. {f \in Fds : sockets'[f] # Closed} = {f \in Fds : sockets[f] # Closed}
  BY <1>2, <1>4
<1>6. SocketsOwned'
  BY <1>1, <1>4, <1>5 DEF SocketsOwned
<1>8. Joined'
  <2>1. \A p \in Openers : opener'[p] = "install" => p = o \/ (p \in inSetup /\ opener[p] = "install")
    BY <1>1 DEF inSetup, ListenerTypeOK
  <2>2. \A p \in inSetup : fd[p] = fd[o] => p = o
    BY <1>2 DEF SocketsOwned
  <2>3. QED
    BY <1>1, <1>2, <1>4, <2>1, <2>2 DEF Joined, ListenerTypeOK
<1>9. QED
  BY <1>3, <1>6, <1>8

(* What a thread leaves behind when it returns from setup.                 *)
LEMMA ReturnFacts ==
  ASSUME ListenerIInv, NEW o \in inSetup, return(o)
  PROVE  /\ inSetup' = inSetup \ {o}
         /\ \A p \in inSetup' : fd'[p] = fd[p] /\ group'[p] = group[p] /\ opener'[p] = opener[p]
         /\ \A p \in Openers : opener'[p] = "install" => p \in inSetup'
         /\ opener' \in [Openers -> {"idle", "join", "install"}]
         /\ fd' \in [Openers -> Fds \cup {0}] /\ group' \in [Openers -> Groups \cup {Closed}]
  BY DEF ListenerIInv, ListenerTypeOK, inSetup, return

(* A failed setup closes its own socket and no other.                      *)
LEMMA FailKeeps ==
  ASSUME ListenerIInv, NEW o \in Openers, failSetup(o)
  PROVE  ListenerIInv'
<1> USE DEF ListenerIInv
<1>1. /\ o \in inSetup /\ return(o)
      /\ sockets' = [sockets EXCEPT ![fd[o]] = Closed]
      /\ UNCHANGED <<mFd, mLock, reader, n, size>>
  BY DEF failSetup, readerVars, inSetup
<1>2. fd[o] \in Fds /\ fd[o] # mFd
  BY <1>1 DEF Joined, SocketsOwned
<1>3. /\ sockets'[fd[o]] = Closed
      /\ \A e \in Fds \ {fd[o]} : sockets'[e] = sockets[e]
  BY <1>1, <1>2 DEF ListenerTypeOK
<1>4. ListenerTypeOK'
  BY <1>1, <1>2, ReturnFacts DEF ListenerTypeOK
<1>5. \A p \in inSetup' : p \in inSetup /\ fd[p] # fd[o]
  BY <1>1, ReturnFacts DEF SocketsOwned
<1>6. SocketsOwned'
  BY <1>1, <1>2, <1>3, <1>5, ReturnFacts DEF SocketsOwned
<1>8. Joined'
  BY <1>1, <1>2, <1>3, <1>5, ReturnFacts DEF Joined, ListenerTypeOK
<1>9. QED
  BY <1>4, <1>6, <1>8

(* Installing a socket, which the lock allows only while the reader is not *)
(* receiving.                                                              *)
LEMMA InstallKeeps ==
  ASSUME ListenerIInv, NEW o \in Openers, installSocket(o)
  PROVE  ListenerIInv'
<1> USE DEF ListenerIInv
<1>1. /\ o \in inSetup /\ opener[o] = "install" /\ return(o)
      /\ mFd' = fd[o] /\ reader \notin {"recv", "push"}
      /\ UNCHANGED <<mLock, reader, n, size>>
      /\ sockets' = IF mFd # 0 THEN [sockets EXCEPT ![mFd] = Closed] ELSE sockets
  BY DEF installSocket, readerVars, inSetup, Joined
<1>2. /\ fd[o] \in Fds /\ fd[o] # mFd /\ fd[o] # 0 /\ sockets[fd[o]] \in Groups
      /\ mFd \in Fds \cup {0}
  BY <1>1, ListenerAssumption DEF Joined, SocketsOwned, ListenerTypeOK
<1>3. /\ mFd # 0 => sockets'[mFd] = Closed
      /\ \A e \in Fds : e # mFd => sockets'[e] = sockets[e]
      /\ sockets' \in [Fds -> Groups \cup {Closed, Unjoined}]
  BY <1>1, <1>2, ListenerAssumption DEF ListenerTypeOK
<1>4. ListenerTypeOK'
  BY <1>1, <1>2, <1>3, ReturnFacts DEF ListenerTypeOK
<1>5. \A p \in inSetup' : p \in inSetup /\ fd[p] # fd[o] /\ fd[p] # mFd /\ fd[p] \in Fds
  BY <1>1, ReturnFacts DEF SocketsOwned, Joined
<1>6. SocketsOwned'
  <2>1. {f \in Fds : sockets'[f] # Closed} = {fd[p] : p \in inSetup}
    BY <1>1, <1>2, <1>3, ListenerAssumption DEF SocketsOwned, Joined
  <2>2. {fd[p] : p \in inSetup} = {fd[o]} \cup {fd'[p] : p \in inSetup'}
    BY <1>1, ReturnFacts
  <2>3. QED
    BY <1>1, <1>2, <1>5, <2>1, <2>2, ReturnFacts DEF SocketsOwned
<1>8. Joined'
  BY <1>1, <1>2, <1>3, <1>5, ReturnFacts DEF Joined
<1>9. QED
  BY <1>4, <1>6, <1>8

(* The reader changes no socket.                                           *)
LEMMA ReaderKeeps ==
  ASSUME ListenerIInv, readLoop \/ recvPacket \/ recvError
  PROVE  ListenerIInv'
<1> USE DEF ListenerIInv
<1>1. UNCHANGED <<mFd, sockets, opener, fd, group>>
  BY DEF readLoop, readerStart, readerLock, pushPacket, recvPacket, recvError, setupVars
<1>2. SocketsOwned'
  BY <1>1 DEF SocketsOwned, inSetup
<1>3. ListenerTypeOK'
  <2>1. CASE readerStart \/ readerLock
    BY <1>1, <2>1 DEF ListenerTypeOK, readerStart, readerLock
  <2>2. CASE recvPacket \/ recvError
    <3>1. n' \in -1..Capacity
      <4>1. \A k \in Sizes : k \in -1..Capacity
        BY ListenerAssumption
      <4>2. -1 \in -1..Capacity
        BY ListenerAssumption
      <4>3. CASE recvPacket
        BY <4>1, <4>3, Zenon DEF recvPacket
      <4>4. CASE recvError
        BY <4>2, <4>4 DEF recvError
      <4>5. QED
        BY <2>2, <4>3, <4>4
    <3>2. reader' = "push" /\ UNCHANGED <<mLock, size>>
      BY <2>2 DEF recvPacket, recvError
    <3>3. QED
      BY <1>1, <3>1, <3>2 DEF ListenerTypeOK
  <2>3. CASE pushPacket
    <3>1. n % UintRange \in 0..UintRange - 1
      BY ListenerAssumption DEF ListenerTypeOK
    <3>2. mLock' \in BOOLEAN
      BY <2>3, Zenon DEF pushPacket
    <3>3. QED
      BY <1>1, <2>3, <3>1, <3>2, ListenerAssumption DEF ListenerTypeOK, pushPacket
  <2>4. QED
    BY <2>1, <2>2, <2>3 DEF readLoop
<1>4. Joined'
  <2>1. /\ mLock' <=> reader' \in {"recv", "push"}
        /\ reader' # "wait" => mFd' # 0
    BY <1>1 DEF Joined, ListenerTypeOK, readLoop, readerStart, readerLock, pushPacket, recvPacket,
                recvError
  <2>2. QED
    BY <1>1, <2>1 DEF Joined, inSetup
<1>6. QED
  BY <1>2, <1>3, <1>4

(* Every step keeps the invariant.                                         *)
LEMMA ListenerNext == ListenerIInv /\ [Next]_vars => ListenerIInv'
<1> SUFFICES ASSUME ListenerIInv, [Next]_vars PROVE ListenerIInv'
  OBVIOUS
<1>1. ASSUME NEW o \in Openers, setupStep(o)
      PROVE  ListenerIInv'
  BY <1>1, JoinKeeps, FailKeeps, InstallKeeps DEF setupStep
<1>2. ASSUME NEW o \in Openers, NEW g \in Groups, createSocket(o, g)
      PROVE  ListenerIInv'
  BY <1>2, CreateKeeps
<1>3. CASE readLoop \/ recvPacket \/ recvError
  BY <1>3, ReaderKeeps
<1>4. CASE UNCHANGED vars
  BY <1>4 DEF vars, readerVars, setupVars, ListenerIInv, ListenerTypeOK, SocketsOwned,
              Joined, inSetup
<1>5. QED
  BY <1>1, <1>2, <1>3, <1>4 DEF Next

(* The invariant holds in every reachable state.                           *)
THEOREM ListenerInvariance == Spec => []ListenerIInv
<1>1. QED
  BY ListenerInit, ListenerNext, PTL DEF Spec

(* setup leaks no socket and never closes one twice, however many threads  *)
(* run it at once and whichever of them fails.                             *)
THEOREM NoSocketLeak == Spec => []SocketsOwned
<1>1. ListenerIInv => SocketsOwned
  BY DEF ListenerIInv
<1>2. QED
  BY ListenerInvariance, <1>1, PTL

(* While readLoop receives and pushes a packet, its socket is a member of  *)
(* its group and no setup closes or replaces it.                           *)
THEOREM ReaderSocketStable == Spec => ReaderKeepsSocket
<1>1. ListenerIInv /\ [Next]_vars =>
        [(reader \in {"recv", "push"}) =>
           sockets[mFd] \in Groups /\ sockets'[mFd] = sockets[mFd] /\ mFd' = mFd]_vars
  <2> SUFFICES ASSUME ListenerIInv, Next, reader \in {"recv", "push"}
               PROVE  sockets[mFd] \in Groups /\ sockets'[mFd] = sockets[mFd] /\ mFd' = mFd
    OBVIOUS
  <2> USE DEF ListenerIInv
  <2>1. mFd \in Fds /\ sockets[mFd] \in Groups /\ mLock /\ sockets[mFd] # Closed
    BY ListenerAssumption DEF Joined, ListenerTypeOK
  <2>2. ASSUME NEW o \in Openers, joinGroup(o) \/ failSetup(o)
        PROVE  mFd' = mFd /\ sockets'[mFd] = sockets[mFd]
    <3>1. o \in inSetup /\ fd[o] # mFd
      BY <2>2 DEF joinGroup, failSetup, inSetup, SocketsOwned
    <3>2. QED
      BY <2>1, <2>2, <3>1 DEF joinGroup, failSetup, ListenerTypeOK
  <2>3. ASSUME NEW o \in Openers, NEW g \in Groups, createSocket(o, g)
        PROVE  mFd' = mFd /\ sockets'[mFd] = sockets[mFd]
    BY <2>1, <2>3 DEF createSocket, ListenerTypeOK
  <2>4. ASSUME NEW o \in Openers, installSocket(o)
        PROVE  FALSE
    BY <2>1, <2>4 DEF installSocket
  <2>5. CASE readLoop \/ recvPacket \/ recvError
    BY <2>1, <2>5 DEF readLoop, readerStart, readerLock, pushPacket, recvPacket, recvError
  <2>6. mFd' = mFd /\ sockets'[mFd] = sockets[mFd]
    BY <2>2, <2>3, <2>4, <2>5 DEF Next, setupStep
  <2>7. QED
    BY <2>1, <2>6
<1>2. QED
  BY ListenerInvariance, <1>1, PTL DEF Spec, ReaderKeepsSocket

-----------------------------------------------------------------------------
(* The HTTP demuxer.  Arithmetic of the numbers of the bytes.              *)

LEMMA QuotientRemainder ==
  ASSUME NEW a \in Nat, NEW m \in Nat \ {0}
  PROVE  /\ a % m \in 0..m-1 /\ a \div m \in Nat
         /\ a = m * (a \div m) + (a % m)
OBVIOUS

LEMMA UniqueRemainder ==
  ASSUME NEW m \in Nat \ {0}, NEW q \in Int, NEW p \in Int,
         NEW r \in 0..m-1, NEW s \in 0..m-1, m * q + r = m * p + s
  PROVE  r = s
<1>1. ASSUME NEW u \in Int, NEW v \in Int, u < v PROVE m * v >= m * u + m
  <2>1. m * (v - u - 1) >= 0
    BY <1>1
  <2> QED BY <2>1
<1> QED BY <1>1

(* Counting on from a number that was wrapped.                             *)
LEMMA WrapAdds ==
  ASSUME NEW a \in Nat, NEW b \in Nat
  PROVE  /\ ((a % NumberRange) + b) % NumberRange = (a + b) % NumberRange
         /\ a % NumberRange \in Nat
<1>1. NumberRange \in Nat \ {0}
  <2>1. BufferSize * PoolSize \in Nat
    BY HttpAssumption
  <2> QED BY <2>1, HttpAssumption
<1> DEFINE m == NumberRange
           c == (a % m) + b
<1>2. a % m \in 0..m-1 /\ a \div m \in Nat /\ a = m * (a \div m) + (a % m)
  BY <1>1, QuotientRemainder
<1>3. c \in Nat /\ a + b \in Nat
  BY <1>1, <1>2
<1>4. c % m \in 0..m-1 /\ c \div m \in Nat /\ c = m * (c \div m) + (c % m)
  BY <1>1, <1>3, QuotientRemainder
<1>5. /\ (a + b) % m \in 0..m-1 /\ (a + b) \div m \in Nat
      /\ a + b = m * ((a + b) \div m) + ((a + b) % m)
  BY <1>1, <1>3, QuotientRemainder
<1>6. m * ((a + b) \div m) + ((a + b) % m) = m * ((a \div m) + (c \div m)) + (c % m)
  <2>1. m * ((a \div m) + (c \div m)) = m * (a \div m) + m * (c \div m)
    BY <1>1, <1>2, <1>4
  <2>2. m * (a \div m) \in Nat /\ m * (c \div m) \in Nat /\ m * ((a + b) \div m) \in Nat
    BY <1>1, <1>2, <1>4, <1>5
  <2>3. a + b = m * (a \div m) + c
    BY <1>2, <2>2
  <2> QED BY <2>1, <2>2, <2>3, <1>4, <1>5
<1>7. (a + b) \div m \in Int /\ (a \div m) + (c \div m) \in Int
  BY <1>2, <1>4, <1>5
<1>8. (a + b) % m = c % m
  BY <1>1, <1>4, <1>5, <1>6, <1>7, UniqueRemainder
<1> QED BY <1>1, <1>2, <1>8

(* What concatenation does.                                                *)
LEMMA Joins ==
  ASSUME NEW S, NEW s \in Seq(S), NEW t \in Seq(S)
  PROVE  /\ s \o t \in Seq(S) /\ Len(s) \in Nat /\ Len(t) \in Nat
         /\ Len(s \o t) = Len(s) + Len(t)
         /\ \A j \in 1..Len(s) : (s \o t)[j] = s[j]
         /\ \A k \in 1..Len(t) : (s \o t)[Len(s) + k] = t[k]
OBVIOUS

-----------------------------------------------------------------------------
(* The bytes: what the callback holds came from mUri, which changes only   *)
(* when no callback runs; a buffer in use is not full.                     *)
Byte == (Channels \cup {NoUri}) \X Nat
Buffer == [label : Channels \cup {NoUri}, bytes : Seq(Byte)]

HttpTypes ==
  /\ mUri \in Channels \cup {NoUri} /\ openUri \in Channels \cup {NoUri}
  /\ piece \in Seq(Byte) /\ httpBuffer \in Seq(Byte) /\ queued \in Seq(Buffer)
  /\ Len(httpBuffer) < BufferSize
  /\ sent \in Nat /\ consumed \in Nat

PieceOfUri ==
  /\ thread # "write" => piece = <<>>
  /\ \A j \in 1..Len(piece) : piece[j][1] = mUri

HttpInv == HttpTypes /\ PieceOfUri /\ LabelOfLastByte /\ StreamComplete

LEMMA HttpInitial == HttpInit => HttpInv
<1> SUFFICES ASSUME HttpInit PROVE HttpInv
  OBVIOUS
<1>1. HttpTypes /\ PieceOfUri /\ LabelOfLastByte
  BY HttpAssumption DEF HttpInit, HttpTypes, PieceOfUri, LabelOfLastByte
<1>2. unqueued = <<>> /\ Len(queued) = 0 /\ consumed = 0 /\ sent = 0
  BY DEF HttpInit, unqueued
<1>3. afterBuffers(Len(queued)) = 0
  BY <1>2, HttpAssumption DEF afterBuffers
<1>4. (afterBuffers(Len(queued)) + Len(unqueued)) % NumberRange = sent
  <2>1. 0 % NumberRange = 0
    <3>1. NumberRange \in Nat \ {0}
      <4>1. BufferSize * PoolSize \in Nat
        BY HttpAssumption
      <4> QED BY <4>1, HttpAssumption
    <3> QED BY <3>1
  <2> QED BY <1>2, <1>3, <2>1
<1>5. StreamComplete
  BY <1>2, <1>4 DEF StreamComplete, numbered
<1> QED BY <1>1, <1>5 DEF HttpInv

(* The facts about the queue, the buffer in use and the piece that stay    *)
(* when none of them changes.                                              *)
LEMMA DataUnchanged ==
  ASSUME HttpInv, UNCHANGED dataVars,
         mUri' \in Channels \cup {NoUri}, openUri' \in Channels \cup {NoUri},
         piece = <<>> \/ mUri' = mUri, thread' # "write" => piece = <<>>
  PROVE  HttpInv'
<1>1. HttpTypes'
  BY DEF HttpInv, HttpTypes, dataVars
<1>2. PieceOfUri'
  BY DEF HttpInv, PieceOfUri, dataVars
<1>3. LabelOfLastByte'
  BY DEF HttpInv, LabelOfLastByte, dataVars
<1>4. StreamComplete'
  BY DEF HttpInv, StreamComplete, numbered, afterBuffers, unqueued, dataVars
<1> QED BY <1>1, <1>2, <1>3, <1>4 DEF HttpInv

(* The callback gets n bytes: they continue the ones received.             *)
LEMMA HttpReceive ==
  ASSUME HttpInv, NEW amount \in 1..MaxPiece, write_data(amount)
  PROVE  HttpInv'
<1>1. CASE mExitRequested
  <2>1. UNCHANGED <<openVars, dataVars>> /\ thread = "perform" /\ thread' = "done"
    BY <1>1 DEF write_data, dataVars
  <2> QED BY <2>1, DataUnchanged DEF HttpInv, HttpTypes, PieceOfUri, openVars
<1>2. CASE ~mExitRequested
  <2>1. /\ thread = "perform" /\ thread' = "write" /\ piece' = received(amount)
        /\ sent' = (sent + amount) % NumberRange
        /\ UNCHANGED <<mUri, openUri, httpBuffer, queued, consumed>>
    BY <1>2 DEF write_data, openVars
  <2>2. /\ piece = <<>> /\ amount \in Nat /\ BufferSize \in Nat \ {0}
        /\ mUri \in Channels \cup {NoUri}
        /\ httpBuffer \in Seq(Byte) /\ queued \in Seq(Buffer) /\ sent \in Nat /\ consumed \in Nat
    BY <2>1, HttpAssumption DEF HttpInv, HttpTypes, PieceOfUri
  <2>3. \A k \in 1..amount : (sent + k - 1) % NumberRange \in Nat
    <3> SUFFICES ASSUME NEW k \in 1..amount PROVE (sent + k - 1) % NumberRange \in Nat
      OBVIOUS
    <3>1. sent + k - 1 \in Nat /\ 0 \in Nat
      BY <2>2
    <3> QED BY <3>1, WrapAdds
  <2>4. \A k \in 1..amount : <<mUri, (sent + k - 1) % NumberRange>> \in Byte
    BY <2>2, <2>3 DEF Byte
  <2>5. /\ received(amount) \in Seq(Byte) /\ Len(received(amount)) = amount
        /\ \A k \in 1..amount : received(amount)[k] = <<mUri, (sent + k - 1) % NumberRange>>
    <3>1. received(amount) = [k \in 1..amount |-> <<mUri, (sent + k - 1) % NumberRange>>]
      BY DEF received
    <3>2. received(amount) \in [1..amount -> Byte]
      BY <3>1, <2>4, Zenon
    <3>3. received(amount) \in Seq(Byte) /\ Len(received(amount)) = amount
      BY <3>2, <2>2
    <3> QED BY <3>1, <3>3
  <2>6. HttpTypes'
    <3>1. sent' \in Nat
      <4>1. sent + amount \in Nat
        BY <2>2
      <4> QED BY <2>1, <4>1, WrapAdds
    <3> QED BY <2>1, <2>5, <3>1 DEF HttpInv, HttpTypes
  <2>7. PieceOfUri'
    BY <2>1, <2>5 DEF PieceOfUri
  <2>8. LabelOfLastByte'
    BY <2>1 DEF HttpInv, LabelOfLastByte
  <2> DEFINE r == afterBuffers(Len(queued))
             h == Len(httpBuffer)
  <2>9. unqueued = httpBuffer /\ r \in Nat /\ h \in Nat /\ Len(queued) \in Nat
    <3>1. unqueued = httpBuffer
      BY <2>2 DEF unqueued
    <3>2. h \in Nat /\ Len(queued) \in Nat
      BY <2>2
    <3>3. Len(queued) * BufferSize \in Nat
      BY <3>2, <2>2
    <3> QED BY <3>1, <3>2, <3>3, <2>2 DEF afterBuffers
  <2>10. sent = (r + h) % NumberRange /\ numbered(httpBuffer, r)
    BY <2>9 DEF HttpInv, StreamComplete
  <2>11. /\ unqueued' = httpBuffer \o received(amount) /\ afterBuffers(Len(queued))' = r
         /\ Len(unqueued') = h + amount
         /\ \A j \in 1..h : unqueued'[j] = httpBuffer[j]
         /\ \A k \in 1..amount : unqueued'[h + k] = received(amount)[k]
    <3>1. unqueued' = httpBuffer \o received(amount)
      BY <2>1 DEF unqueued
    <3>2. afterBuffers(Len(queued))' = r
      BY <2>1 DEF afterBuffers
    <3>3. received(amount) \in Seq(Byte) /\ Len(received(amount)) = amount
      BY <2>5
    <3>4. /\ Len(httpBuffer \o received(amount)) = h + amount
          /\ \A j \in 1..h : (httpBuffer \o received(amount))[j] = httpBuffer[j]
          /\ \A k \in 1..amount :
               (httpBuffer \o received(amount))[h + k] = received(amount)[k]
      <4> DEFINE t == received(amount)
      <4> HIDE DEF t
      <4>1. t \in Seq(Byte) /\ Len(t) = amount /\ httpBuffer \in Seq(Byte)
        BY <3>3, <2>2 DEF t
      <4>2. /\ Len(httpBuffer \o t) = Len(httpBuffer) + Len(t)
            /\ \A j \in 1..Len(httpBuffer) : (httpBuffer \o t)[j] = httpBuffer[j]
            /\ \A k \in 1..Len(t) : (httpBuffer \o t)[Len(httpBuffer) + k] = t[k]
        BY <4>1
      <4> QED BY <4>1, <4>2 DEF t
    <3> QED BY <3>1, <3>2, <3>4
  <2> HIDE DEF r, h
  <2>12. numbered(unqueued', r)
    <3> SUFFICES ASSUME NEW j \in 1..(h + amount)
                 PROVE  unqueued'[j][2] = (r + j - 1) % NumberRange
      BY <2>11 DEF numbered
    <3>1. CASE j <= h
      <4>1. j \in 1..h
        BY <3>1, <2>2, <2>9
      <4> QED BY <4>1, <2>10, <2>11 DEF numbered, h
    <3>2. CASE j > h
      <4>1. PICK k \in 1..amount : j = h + k
        <5>1. j - h \in 1..amount /\ j = h + (j - h)
          BY <3>2, <2>2, <2>9
        <5> QED BY <5>1
      <4>2. unqueued'[j][2] = (sent + k - 1) % NumberRange
        BY <4>1, <2>5, <2>11
      <4>3. k - 1 \in Nat /\ r + h \in Nat
        BY <2>2, <2>9
      <4>4. (((r + h) % NumberRange) + (k - 1)) % NumberRange = ((r + h) + (k - 1)) % NumberRange
        BY <4>3, WrapAdds
      <4>5. (r + h) + (k - 1) = r + j - 1 /\ sent + k - 1 = sent + (k - 1)
        BY <4>1, <2>2, <2>9
      <4> QED BY <4>2, <4>4, <4>5, <2>10
    <3> QED BY <3>1, <3>2, <2>2, <2>9
  <2>13. (r + Len(unqueued')) % NumberRange = sent'
    <3>1. (((r + h) % NumberRange) + amount) % NumberRange = ((r + h) + amount) % NumberRange
      <4>1. r + h \in Nat
        BY <2>9
      <4> QED BY <4>1, <2>2, WrapAdds
    <3>2. r + (h + amount) = (r + h) + amount
      BY <2>2, <2>9
    <3> QED BY <3>1, <3>2, <2>1, <2>10, <2>11
  <2>14. \A k \in 1..Len(queued') : /\ Len(queued'[k].bytes) = BufferSize
                                    /\ numbered(queued'[k].bytes, afterBuffers(k - 1)')
    BY <2>1 DEF HttpInv, StreamComplete, afterBuffers
  <2>15. StreamComplete'
    <3>1. numbered(unqueued, afterBuffers(Len(queued)))'
      BY <2>11, <2>12 DEF numbered
    <3>2. (afterBuffers(Len(queued)) + Len(unqueued))' % NumberRange = sent'
      BY <2>11, <2>13
    <3> QED BY <3>1, <3>2, <2>14 DEF StreamComplete, numbered
  <2> QED BY <2>6, <2>7, <2>8, <2>15 DEF HttpInv
<1> QED BY <1>1, <1>2

(* One turn of write() takes as much of the piece as fits.                 *)
LEMMA Fills ==
  ASSUME HttpTypes, piece # <<>>
  PROVE  /\ writeLength \in 1..Len(piece) /\ filled \in Seq(Byte)
         /\ Len(filled) = Len(httpBuffer) + writeLength /\ Len(filled) <= BufferSize
         /\ Len(filled) # BufferSize => writeLength = Len(piece)
         /\ unqueued \in Seq(Byte) /\ Len(unqueued) = Len(httpBuffer) + Len(piece)
         /\ \A j \in 1..Len(filled) : filled[j] = unqueued[j]
         /\ Last(filled) = piece[writeLength]
<1>1. /\ piece \in Seq(Byte) /\ Len(piece) \in Nat \ {0}
      /\ httpBuffer \in Seq(Byte) /\ Len(httpBuffer) \in Nat
      /\ BufferSize \in Nat \ {0} /\ Len(httpBuffer) < BufferSize
  BY HttpAssumption DEF HttpTypes
<1>2. /\ writeLength \in 1..Len(piece) /\ Len(httpBuffer) + writeLength <= BufferSize
      /\ Len(httpBuffer) + writeLength # BufferSize => writeLength = Len(piece)
  BY <1>1 DEF writeLength
<1> DEFINE front == SubSeq(piece, 1, writeLength)
<1>3. /\ front \in Seq(Byte) /\ Len(front) = writeLength
      /\ \A k \in 1..writeLength : front[k] = piece[k]
  <2>1. PICK w \in 1..Len(piece) : w = writeLength
    BY <1>2
  <2>2. /\ SubSeq(piece, 1, w) \in Seq(Byte) /\ Len(SubSeq(piece, 1, w)) = w
        /\ \A k \in 1..w : SubSeq(piece, 1, w)[k] = piece[k]
    BY <1>1
  <2> QED BY <2>1, <2>2
<1> HIDE DEF front
<1>4. filled = httpBuffer \o front
  BY DEF filled, front
<1>5. /\ filled \in Seq(Byte) /\ Len(filled) = Len(httpBuffer) + writeLength
      /\ \A j \in 1..Len(httpBuffer) : filled[j] = httpBuffer[j]
      /\ \A k \in 1..writeLength : filled[Len(httpBuffer) + k] = piece[k]
  <2>1. /\ httpBuffer \o front \in Seq(Byte)
        /\ Len(httpBuffer \o front) = Len(httpBuffer) + Len(front)
        /\ \A j \in 1..Len(httpBuffer) : (httpBuffer \o front)[j] = httpBuffer[j]
        /\ \A k \in 1..Len(front) : (httpBuffer \o front)[Len(httpBuffer) + k] = front[k]
    <3>1. PICK h \in Seq(Byte), f \in Seq(Byte) : h = httpBuffer /\ f = front
      BY <1>1, <1>3
    <3>2. /\ h \o f \in Seq(Byte) /\ Len(h \o f) = Len(h) + Len(f)
          /\ \A j \in 1..Len(h) : (h \o f)[j] = h[j]
          /\ \A k \in 1..Len(f) : (h \o f)[Len(h) + k] = f[k]
      BY Joins
    <3> QED BY <3>1, <3>2
  <2> QED BY <2>1, <1>3, <1>4
<1>6. /\ unqueued \in Seq(Byte) /\ Len(unqueued) = Len(httpBuffer) + Len(piece)
      /\ \A j \in 1..Len(httpBuffer) : unqueued[j] = httpBuffer[j]
      /\ \A k \in 1..Len(piece) : unqueued[Len(httpBuffer) + k] = piece[k]
  BY <1>1, Joins DEF unqueued
<1>7. ASSUME NEW j \in 1..Len(filled) PROVE filled[j] = unqueued[j]
  <2>1. CASE j \in 1..Len(httpBuffer)
    BY <2>1, <1>5, <1>6
  <2>2. CASE j \notin 1..Len(httpBuffer)
    <3>1. PICK k \in 1..writeLength : j = Len(httpBuffer) + k
      <4>1. j - Len(httpBuffer) \in 1..writeLength /\ j = Len(httpBuffer) + (j - Len(httpBuffer))
        BY <2>2, <1>1, <1>2, <1>5
      <4> QED BY <4>1
    <3>2. k \in 1..Len(piece)
      BY <1>1, <1>2
    <3> QED BY <3>1, <3>2, <1>5, <1>6
  <2> QED BY <2>1, <2>2
<1>8. Last(filled) = piece[writeLength]
  <2>1. writeLength \in 1..writeLength
    BY <1>1, <1>2
  <2> QED BY <2>1, <1>5 DEF Last
<1> QED BY <1>2, <1>5, <1>6, <1>7, <1>8

(* What is left of the piece is what is left of the bytes not queued.      *)
LEMMA Leaves ==
  ASSUME HttpTypes, piece # <<>>, piece' = SubSeq(piece, writeLength + 1, Len(piece))
  PROVE  /\ piece' \in Seq(Byte) /\ Len(piece') = Len(piece) - writeLength
         /\ \A k \in 1..Len(piece') : piece'[k] = piece[writeLength + k]
         /\ \A k \in 1..Len(piece') : piece'[k] = unqueued[Len(filled) + k]
<1>1. /\ piece \in Seq(Byte) /\ Len(piece) \in Nat \ {0}
      /\ httpBuffer \in Seq(Byte) /\ Len(httpBuffer) \in Nat
  BY DEF HttpTypes
<1>2. writeLength \in 1..Len(piece) /\ Len(filled) = Len(httpBuffer) + writeLength
  BY Fills
<1>3. /\ piece' \in Seq(Byte) /\ Len(piece') = Len(piece) - writeLength
      /\ \A k \in 1..Len(piece') : piece'[k] = piece[writeLength + k]
  <2>1. PICK w \in 1..Len(piece) : w = writeLength
    BY <1>2
  <2> DEFINE rest == SubSeq(piece, w + 1, Len(piece))
  <2>2. /\ rest \in Seq(Byte) /\ Len(rest) = Len(piece) - w
        /\ \A k \in 1..Len(rest) : rest[k] = piece[w + k]
    <3>1. Len(rest) = Len(piece) - w
      BY <1>1
    <3>2. rest \in Seq(Byte)
      BY <1>1
    <3>3. \A k \in 1..Len(rest) : rest[k] = piece[w + k]
      BY <1>1, <3>1
    <3> QED BY <3>1, <3>2, <3>3
  <2>3. piece' = rest
    BY <2>1
  <2> QED BY <2>1, <2>2, <2>3
<1>4. ASSUME NEW k \in 1..Len(piece') PROVE piece'[k] = unqueued[Len(filled) + k]
  <2>1. writeLength + k \in 1..Len(piece) /\ Len(filled) + k = Len(httpBuffer) + (writeLength + k)
    BY <1>1, <1>2, <1>3
  <2>2. unqueued[Len(httpBuffer) + (writeLength + k)] = piece[writeLength + k]
    BY <2>1, <1>1, Joins DEF unqueued
  <2> QED BY <2>1, <2>2, <1>3
<1> QED BY <1>3, <1>4

LEMMA HttpWrite == ASSUME HttpInv, write PROVE HttpInv'
<1>1. /\ thread = "write" /\ piece # <<>>
      /\ piece' = SubSeq(piece, writeLength + 1, Len(piece))
      /\ UNCHANGED <<mUri, openUri, thread, sent, consumed>>
  BY DEF write, copyPiece, openVars
<1>2. /\ HttpTypes /\ BufferSize \in Nat \ {0}
      /\ mUri \in Channels \cup {NoUri} /\ queued \in Seq(Buffer) /\ Len(queued) \in Nat
      /\ consumed \in Nat /\ sent \in Nat
      /\ Len(piece) \in Nat \ {0} /\ Len(httpBuffer) \in Nat
  BY <1>1, HttpAssumption DEF HttpInv, HttpTypes
<1>3. /\ writeLength \in 1..Len(piece) /\ filled \in Seq(Byte)
      /\ Len(filled) = Len(httpBuffer) + writeLength /\ Len(filled) <= BufferSize
      /\ Len(filled) # BufferSize => writeLength = Len(piece)
      /\ unqueued \in Seq(Byte) /\ Len(unqueued) = Len(httpBuffer) + Len(piece)
      /\ \A j \in 1..Len(filled) : filled[j] = unqueued[j]
      /\ Last(filled) = piece[writeLength]
  BY <1>1, <1>2, Fills
<1>4. /\ piece' \in Seq(Byte) /\ Len(piece') = Len(piece) - writeLength
      /\ \A k \in 1..Len(piece') : piece'[k] = piece[writeLength + k]
      /\ \A k \in 1..Len(piece') : piece'[k] = unqueued[Len(filled) + k]
  BY <1>1, <1>2, Leaves
<1>5. PieceOfUri'
  <2>1. \A k \in 1..Len(piece') : writeLength + k \in 1..Len(piece)
    BY <1>2, <1>3, <1>4
  <2> QED BY <2>1, <1>1, <1>4 DEF HttpInv, PieceOfUri
<1>6. PICK r \in Nat : r = afterBuffers(Len(queued))
  <2>1. Len(queued) * BufferSize \in Nat
    BY <1>2
  <2> QED BY <2>1, <1>2 DEF afterBuffers
<1>7. numbered(unqueued, r) /\ (r + Len(unqueued)) % NumberRange = sent
  BY <1>6 DEF HttpInv, StreamComplete
<1>8. \A k \in 1..Len(queued) : /\ Len(queued[k].bytes) = BufferSize
                                /\ numbered(queued[k].bytes, afterBuffers(k - 1))
                                /\ queued[k].label = Last(queued[k].bytes)[1]
  BY DEF HttpInv, StreamComplete, LabelOfLastByte
<1>9. CASE Len(filled) # BufferSize
  <2>1. httpBuffer' = filled /\ queued' = queued
    BY <1>9 DEF write, copyPiece
  <2>2. piece' = <<>> /\ Len(filled) = Len(unqueued) /\ Len(filled) < BufferSize
    <3>1. writeLength = Len(piece) /\ Len(filled) = Len(unqueued)
      BY <1>3, <1>9
    <3>2. Len(piece') = 0
      BY <3>1, <1>2, <1>4
    <3>3. piece' = <<>>
      BY <3>2, <1>4
    <3>4. Len(filled) \in Nat /\ Len(filled) <= BufferSize
      BY <1>3
    <3> QED BY <3>1, <3>3, <3>4, <1>2, <1>9
  <2>3. unqueued' = filled
    BY <2>1, <2>2, <1>3 DEF unqueued
  <2>4. HttpTypes'
    BY <2>1, <2>2, <1>1, <1>2, <1>3, <1>4 DEF HttpTypes
  <2>5. LabelOfLastByte'
    BY <2>1 DEF HttpInv, LabelOfLastByte
  <2>6. numbered(filled, r)
    BY <2>2, <1>3, <1>7 DEF numbered
  <2>7. afterBuffers(Len(queued))' = r
    BY <2>1, <1>1, <1>6 DEF afterBuffers
  <2>8. \A k \in 1..Len(queued') : /\ Len(queued'[k].bytes) = BufferSize
                                   /\ numbered(queued'[k].bytes, afterBuffers(k - 1)')
    BY <2>1, <1>1, <1>8 DEF afterBuffers
  <2>9. StreamComplete'
    <3>1. numbered(unqueued, afterBuffers(Len(queued)))'
      BY <2>3, <2>6, <2>7 DEF numbered
    <3>2. (afterBuffers(Len(queued)) + Len(unqueued))' % NumberRange = sent'
      BY <2>2, <2>3, <2>7, <1>1, <1>7
    <3> QED BY <3>1, <3>2, <2>8 DEF StreamComplete, numbered
  <2> QED BY <2>4, <2>5, <2>9, <1>5 DEF HttpInv
<1>10. CASE Len(filled) = BufferSize
  <2> DEFINE full == [label |-> mUri, bytes |-> filled]
  <2>1. httpBuffer' = <<>> /\ queued' = Append(queued, full)
    BY <1>10 DEF write, copyPiece
  <2>2. full \in Buffer /\ full.label = mUri /\ full.bytes = filled
    BY <1>2, <1>3 DEF Buffer
  <2> HIDE DEF full
  <2>3. /\ queued' \in Seq(Buffer) /\ Len(queued') = Len(queued) + 1
        /\ queued'[Len(queued) + 1] = full
        /\ \A k \in 1..Len(queued) : queued'[k] = queued[k]
    BY <2>1, <2>2, <1>2
  <2>4. unqueued' = piece'
    BY <2>1, <1>4 DEF unqueued
  <2>5. HttpTypes'
    BY <2>1, <2>3, <1>1, <1>2, <1>4 DEF HttpTypes
  <2>6. LabelOfLastByte'
    <3> SUFFICES ASSUME NEW k \in 1..Len(queued')
                 PROVE  queued'[k].label = Last(queued'[k].bytes)[1]
      BY DEF LabelOfLastByte, Last
    <3>1. CASE k \in 1..Len(queued)
      BY <3>1, <2>3, <1>8
    <3>2. CASE k \notin 1..Len(queued)
      <4>1. queued'[k] = full
        BY <3>2, <2>3, <1>2
      <4>2. piece[writeLength][1] = mUri
        BY <1>3 DEF HttpInv, PieceOfUri
      <4> QED BY <4>1, <4>2, <2>2, <1>3
    <3> QED BY <3>1, <3>2
  <2>7. \A k : afterBuffers(k)' = afterBuffers(k)
    BY <1>1 DEF afterBuffers
  <2>8. afterBuffers(Len(queued') - 1) = r /\ afterBuffers(Len(queued))' = r + BufferSize
    <3>1. Len(queued') - 1 = Len(queued)
      BY <2>3, <1>2
    <3>2. (Len(queued) + 1) * BufferSize = Len(queued) * BufferSize + BufferSize
          /\ Len(queued) * BufferSize \in Nat
      BY <1>2
    <3>3. afterBuffers(Len(queued))' = consumed + Len(queued') * BufferSize
      BY <1>1 DEF afterBuffers
    <3>4. r = consumed + Len(queued) * BufferSize
      BY <1>6 DEF afterBuffers
    <3> QED BY <3>1, <3>2, <3>3, <3>4, <2>3, <1>2, <1>6
  <2>9. ASSUME NEW k \in 1..Len(queued')
        PROVE  /\ Len(queued'[k].bytes) = BufferSize
               /\ numbered(queued'[k].bytes, afterBuffers(k - 1)')
    <3>1. CASE k \in 1..Len(queued)
      BY <3>1, <2>3, <2>7, <1>8
    <3>2. CASE k \notin 1..Len(queued)
      <4>1. k = Len(queued') /\ queued'[k] = full
        BY <3>2, <2>3, <1>2
      <4>2. numbered(filled, r)
        <5>1. \A j \in 1..Len(filled) : j \in 1..Len(unqueued)
          BY <1>2, <1>3
        <5> QED BY <5>1, <1>3, <1>7 DEF numbered
      <4> QED BY <4>1, <4>2, <2>2, <2>7, <2>8, <1>10
    <3> QED BY <3>1, <3>2
  <2>10. numbered(piece', r + BufferSize)
    <3> SUFFICES ASSUME NEW k \in 1..Len(piece')
                 PROVE  piece'[k][2] = (r + BufferSize + k - 1) % NumberRange
      BY DEF numbered
    <3>1. piece'[k] = unqueued[BufferSize + k]
      BY <1>4, <1>10
    <3>2. BufferSize + k \in 1..Len(unqueued)
      BY <1>2, <1>3, <1>4, <1>10
    <3>3. unqueued[BufferSize + k][2] = (r + (BufferSize + k) - 1) % NumberRange
      BY <3>2, <1>7 DEF numbered
    <3>4. r + (BufferSize + k) - 1 = r + BufferSize + k - 1
      BY <1>2, <1>4, <1>6
    <3> QED BY <3>1, <3>3, <3>4
  <2>11. r + BufferSize + Len(piece') = r + Len(unqueued)
    <3>1. PICK w \in 1..Len(piece) : w = writeLength
      BY <1>3
    <3>2. BufferSize = Len(httpBuffer) + w /\ Len(piece') = Len(piece) - w
          /\ Len(unqueued) = Len(httpBuffer) + Len(piece)
      BY <3>1, <1>3, <1>4, <1>10
    <3>3. Len(httpBuffer) \in Nat /\ Len(piece) \in Nat
      BY <1>2
    <3> QED BY <3>1, <3>2, <3>3
  <2>12. StreamComplete'
    <3>1. numbered(unqueued, afterBuffers(Len(queued)))'
      BY <2>4, <2>8, <2>10 DEF numbered
    <3>2. (afterBuffers(Len(queued)) + Len(unqueued))' % NumberRange = sent'
      BY <2>4, <2>8, <2>11, <1>1, <1>7
    <3> QED BY <3>1, <3>2, <2>9 DEF StreamComplete, numbered
  <2> QED BY <2>5, <2>6, <2>12, <1>5 DEF HttpInv
<1> QED BY <1>9, <1>10

(* The consumer takes the oldest buffer: the others move up by one.        *)
LEMMA HttpConsume == ASSUME HttpInv, consume PROVE HttpInv'
<1>1. /\ queued # <<>> /\ queued' = Tail(queued)
      /\ consumed' = (consumed + BufferSize) % NumberRange
      /\ UNCHANGED <<mUri, openUri, thread, piece, httpBuffer, sent>>
  BY DEF consume, openVars
<1>2. /\ BufferSize \in Nat \ {0} /\ queued \in Seq(Buffer) /\ Len(queued) \in Nat \ {0}
      /\ consumed \in Nat
      /\ piece \in Seq(Byte) /\ httpBuffer \in Seq(Byte)
  BY <1>1, HttpAssumption DEF HttpInv, HttpTypes
<1>3. /\ queued' \in Seq(Buffer) /\ Len(queued') = Len(queued) - 1
      /\ \A k \in 1..Len(queued') : k + 1 \in 1..Len(queued) /\ queued'[k] = queued[k + 1]
  BY <1>1, <1>2
<1>4. consumed + BufferSize \in Nat /\ consumed' \in Nat
  <2>1. consumed + BufferSize \in Nat
    BY <1>2
  <2> QED BY <2>1, <1>1, WrapAdds
<1>5. HttpTypes'
  BY <1>1, <1>3, <1>4 DEF HttpInv, HttpTypes
<1>6. PieceOfUri'
  BY <1>1 DEF HttpInv, PieceOfUri
<1>7. LabelOfLastByte'
  BY <1>3 DEF HttpInv, LabelOfLastByte, Last
<1>8. ASSUME NEW k \in Nat, NEW j \in Nat
      PROVE  (afterBuffers(k)' + j) % NumberRange = (afterBuffers(k + 1) + j) % NumberRange
  <2>1. k * BufferSize \in Nat /\ (k + 1) * BufferSize = k * BufferSize + BufferSize
    BY <1>2, <1>8
  <2>2. PICK b \in Nat : b = k * BufferSize + j
    BY <2>1
  <2>3. (((consumed + BufferSize) % NumberRange) + b) % NumberRange
          = ((consumed + BufferSize) + b) % NumberRange
    BY <1>4, WrapAdds
  <2>4. afterBuffers(k)' + j = consumed' + b
    BY <2>1, <2>2, <1>4 DEF afterBuffers
  <2>5. afterBuffers(k + 1) + j = (consumed + BufferSize) + b
    BY <2>1, <2>2, <1>2 DEF afterBuffers
  <2> QED BY <2>3, <2>4, <2>5, <1>1
<1>9. ASSUME NEW k \in Nat PROVE afterBuffers(k)' \in Nat /\ afterBuffers(k + 1) \in Nat
  <2>1. k * BufferSize \in Nat /\ (k + 1) * BufferSize \in Nat
    BY <1>2, <1>9
  <2>2. afterBuffers(k)' = consumed' + k * BufferSize
        /\ afterBuffers(k + 1) = consumed + (k + 1) * BufferSize
    BY DEF afterBuffers
  <2>3. \A a, b \in Nat : a + b \in Nat
    OBVIOUS
  <2>4. consumed \in Nat /\ consumed' \in Nat
    BY <1>2, <1>4
  <2> QED BY <2>1, <2>2, <2>3, <2>4, Zenon
<1>10. ASSUME NEW k \in Nat, NEW s, Len(s) \in Nat, numbered(s, afterBuffers(k + 1))
       PROVE  numbered(s, afterBuffers(k)')
  <2> SUFFICES ASSUME NEW j \in 1..Len(s)
               PROVE  s[j][2] = (afterBuffers(k)' + j - 1) % NumberRange
    BY DEF numbered
  <2>1. j - 1 \in Nat
    BY <1>10
  <2>2. s[j][2] = (afterBuffers(k + 1) + j - 1) % NumberRange
    BY <1>10 DEF numbered
  <2>3. (afterBuffers(k)' + (j - 1)) % NumberRange = (afterBuffers(k + 1) + (j - 1)) % NumberRange
    BY <1>8, <2>1
  <2>4. /\ afterBuffers(k)' + (j - 1) = afterBuffers(k)' + j - 1
        /\ afterBuffers(k + 1) + (j - 1) = afterBuffers(k + 1) + j - 1
    BY <1>9, <2>1
  <2> QED BY <2>2, <2>3, <2>4
<1>11. ASSUME NEW k \in 1..Len(queued')
       PROVE  /\ Len(queued'[k].bytes) = BufferSize
              /\ numbered(queued'[k].bytes, afterBuffers(k - 1)')
  <2>1. k + 1 \in 1..Len(queued) /\ queued'[k] = queued[k + 1] /\ k - 1 \in Nat
        /\ (k + 1) - 1 = (k - 1) + 1
    BY <1>2, <1>3
  <2>2. Len(queued[k + 1].bytes) = BufferSize /\ numbered(queued[k + 1].bytes, afterBuffers((k + 1) - 1))
    BY <2>1 DEF HttpInv, StreamComplete
  <2> QED BY <2>1, <2>2, <1>2, <1>10
<1>12. Len(queued) = Len(queued') + 1 /\ Len(queued') \in Nat
       /\ unqueued' = unqueued /\ Len(unqueued) \in Nat
  <2>1. Len(queued) = Len(queued') + 1 /\ Len(queued') \in Nat
    BY <1>2, <1>3
  <2>2. unqueued' = unqueued /\ unqueued \in Seq(Byte)
    BY <1>1, <1>2, Joins DEF unqueued
  <2> QED BY <2>1, <2>2
<1>13. PICK q \in Nat : q = Len(queued') /\ afterBuffers(Len(queued))' = afterBuffers(q)'
  BY <1>12 DEF afterBuffers
<1>14. numbered(unqueued, afterBuffers(q + 1))
       /\ (afterBuffers(q + 1) + Len(unqueued)) % NumberRange = sent
  BY <1>12, <1>13 DEF HttpInv, StreamComplete
<1>15. numbered(unqueued, afterBuffers(q)')
  BY <1>10, <1>12, <1>14
<1>16. (afterBuffers(q)' + Len(unqueued)) % NumberRange = sent
  BY <1>8, <1>12, <1>14
<1>17. StreamComplete'
  <2>1. numbered(unqueued, afterBuffers(Len(queued)))'
    BY <1>12, <1>13, <1>15 DEF numbered
  <2>2. (afterBuffers(Len(queued)) + Len(unqueued))' % NumberRange = sent'
    BY <1>1, <1>12, <1>13, <1>16
  <2> QED BY <2>1, <2>2, <1>11 DEF StreamComplete, numbered
<1> QED BY <1>5, <1>6, <1>7, <1>17 DEF HttpInv

LEMMA HttpStep == HttpInv /\ [HttpNext]_httpVars => HttpInv'
<1> SUFFICES ASSUME HttpInv, [HttpNext]_httpVars PROVE HttpInv'
  OBVIOUS
<1>1. mUri \in Channels \cup {NoUri} /\ openUri \in Channels \cup {NoUri}
      /\ (thread # "write" => piece = <<>>)
  BY DEF HttpInv, HttpTypes, PieceOfUri
<1>2. ASSUME NEW c \in Channels, openStart(c) PROVE HttpInv'
  BY <1>1, <1>2, DataUnchanged DEF openStart
<1>3. CASE openJoined
  BY <1>1, <1>3, DataUnchanged DEF openJoined
<1>4. CASE destroy \/ destroyed
  BY <1>1, <1>4, DataUnchanged DEF destroy, destroyed
<1>5. ASSUME NEW amount \in 1..MaxPiece, write_data(amount) PROVE HttpInv'
  BY <1>5, HttpReceive
<1>6. CASE performEnds \/ writeReturns
  BY <1>1, <1>6, DataUnchanged DEF performEnds, writeReturns, openVars
<1>7. CASE UNCHANGED httpVars
  BY <1>1, <1>7, DataUnchanged DEF httpVars, openVars
<1> QED BY <1>2, <1>3, <1>4, <1>5, <1>6, <1>7, HttpWrite, HttpConsume DEF HttpNext

LEMMA HttpInvariant == HttpSpec => []HttpInv
BY HttpInitial, HttpStep, PTL DEF HttpSpec

(* No byte the server sent is lost, repeated or reordered between the      *)
(* callback and the consumer (write, pushBuffertoBQ), whatever the sizes   *)
(* of the pieces, over every switch and every aborted download.            *)
THEOREM HttpStreamComplete == HttpSpec => []StreamComplete
<1>1. HttpInv => StreamComplete
  BY DEF HttpInv
<1> QED BY <1>1, HttpInvariant, PTL

(* A buffer carries the address its last byte was downloaded from: open()  *)
(* joins the old download before it stores the new address.                *)
THEOREM BuffersLabelled == HttpSpec => []LabelOfLastByte
<1>1. HttpInv => LabelOfLastByte
  BY DEF HttpInv
<1> QED BY <1>1, HttpInvariant, PTL

=============================================================================
