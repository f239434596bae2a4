-------------------------- MODULE UdpStreamListener --------------------------
(***************************************************************************)
(* The socket side of 3rdparty/udp/UdpStreamListener.cpp (setup and        *)
(* readLoop of 3rdparty/rtp/RtpStreamListener.cpp are the same but for     *)
(* what is done with a packet): threads that change the channel replace    *)
(* the socket the reader thread receives from.                             *)
(*                                                                         *)
(* Two threads can be in setup at once: the one that selects a channel and *)
(* the one that re-joins it (MediaSourceHandler's messageLoop).            *)
(***************************************************************************)
EXTENDS Integers

CONSTANTS
  Openers,     \* threads that call setup
  Groups,      \* multicast groups
  Fds,         \* file descriptors the kernel hands out; 0 is none of them
  Closed,      \* state of a descriptor that is not in use
  Unjoined,    \* state of a socket that has not joined its group
  Sizes,       \* sizes of the packets of a group
  Capacity,    \* BUF_SIZE, the capacity of a bq_buffer
  UintRange    \* 2^32, the range of bq_buffer's size

ASSUME ListenerAssumption ==
  /\ 0 \notin Fds
  /\ Closed # Unjoined /\ {Closed, Unjoined} \cap Groups = {}
  /\ Capacity \in Nat /\ UintRange \in Nat /\ Capacity + 1 < UintRange
  /\ Sizes \subseteq 0..Capacity

VARIABLES
  mFd,       \* the descriptor readLoop receives from, 0 before the first setup
  sockets,   \* the group each descriptor has joined, or Closed or Unjoined
  mLock,     \* TRUE while the reader holds it
  reader,    \* where readLoop is
  n,         \* what recvfrom returned
  size,      \* the size of the last buffer queued
  opener,    \* where each thread is in setup
  fd,        \* setup's local variable
  group      \* setup's argument

readerVars == <<mLock, reader, n, size>>
setupVars  == <<opener, fd, group>>
vars       == <<mFd, sockets, readerVars, setupVars>>

Init ==
  /\ mFd = 0
  /\ sockets = [f \in Fds |-> Closed]
  /\ mLock = FALSE /\ reader = "wait"
  /\ n = 0 /\ size = 0
  /\ opener = [o \in Openers |-> "idle"]
  /\ fd = [o \in Openers |-> 0]
  /\ group = [o \in Openers |-> Closed]

-----------------------------------------------------------------------------
(* setup: a new socket is configured without the lock.  If socket() fails  *)
(* nothing changes.                                                        *)

createSocket(o, g) ==
  /\ opener[o] = "idle"
  /\ \E f \in Fds :
       /\ sockets[f] = Closed
       /\ sockets' = [sockets EXCEPT ![f] = Unjoined]
       /\ fd' = [fd EXCEPT ![o] = f]
  /\ group' = [group EXCEPT ![o] = g]
  /\ opener' = [opener EXCEPT ![o] = "join"]
  /\ UNCHANGED <<mFd, readerVars>>

joinGroup(o) ==
  /\ opener[o] = "join"
  /\ sockets' = [sockets EXCEPT ![fd[o]] = group[o]]
  /\ opener' = [opener EXCEPT ![o] = "install"]
  /\ UNCHANGED <<mFd, readerVars, fd, group>>

(* The locals of setup are gone when it returns.                           *)
return(o) ==
  /\ opener' = [opener EXCEPT ![o] = "idle"]
  /\ fd' = [fd EXCEPT ![o] = 0]
  /\ group' = [group EXCEPT ![o] = Closed]

(* Mutant: the new socket is not closed.                                   *)
failSetup_leak(o) ==
  /\ opener[o] = "join"
  /\ return(o)
  /\ UNCHANGED <<mFd, sockets, readerVars>>

(* setsockopt or bind fails: the new socket is closed again.               *)
failSetup(o) ==
  /\ opener[o] = "join"
  /\ sockets' = [sockets EXCEPT ![fd[o]] = Closed]
  /\ return(o)
  /\ UNCHANGED <<mFd, readerVars>>

(* Mutant: the socket is replaced without the lock.                        *)
installSocket_unlocked(o) ==
  /\ opener[o] = "install"
  /\ sockets' = IF mFd # 0 THEN [sockets EXCEPT ![mFd] = Closed] ELSE sockets
  /\ mFd' = fd[o]
  /\ return(o)
  /\ UNCHANGED readerVars

(* The critical section of setup.                                          *)
installSocket(o) ==
  /\ opener[o] = "install" /\ ~mLock
  /\ sockets' = IF mFd # 0 THEN [sockets EXCEPT ![mFd] = Closed] ELSE sockets
  /\ mFd' = fd[o]
  /\ return(o)
  /\ UNCHANGED readerVars

setupStep(o) == joinGroup(o) \/ failSetup(o) \/ installSocket(o)

-----------------------------------------------------------------------------
(* readLoop: the lock is held from before recvfrom until the packet has    *)
(* been queued, however long either takes.                                 *)

readerStart ==
  /\ reader = "wait" /\ mFd # 0
  /\ reader' = "lock"
  /\ UNCHANGED <<mFd, sockets, mLock, n, size, setupVars>>

readerLock ==
  /\ reader = "lock" /\ ~mLock
  /\ mLock' = TRUE
  /\ reader' = "recv"
  /\ UNCHANGED <<mFd, sockets, n, size, setupVars>>

(* A packet is there; recvfrom blocks as long as none is.  The socket is   *)
(* bound to INADDR_ANY and the port and IP_MULTICAST_ALL has its default:  *)
(* the packet may be of any group that a socket of the host has joined     *)
(* since then, the previous channel's included, so nothing is said of its  *)
(* origin.                                                                 *)
recvPacket ==
  /\ reader = "recv" /\ sockets[mFd] \in Groups
  /\ n' \in Sizes
  /\ reader' = "push"
  /\ UNCHANGED <<mFd, sockets, mLock, size, setupVars>>

recvError ==
  /\ reader = "recv"
  /\ n' = -1
  /\ reader' = "push"
  /\ UNCHANGED <<mFd, sockets, mLock, size, setupVars>>

(* acquireBuffer, the copy, pushBuffertoBQ, and the end of the guarded     *)
(* block; size is an unsigned member.                                      *)
pushPacket ==
  /\ reader = "push"
  /\ size' = n % UintRange
  /\ n' = 0
  /\ mLock' = FALSE
  /\ reader' = "lock"
  /\ UNCHANGED <<mFd, sockets, setupVars>>

readLoop == readerStart \/ readerLock \/ pushPacket

Next ==
  \/ \E o \in Openers : setupStep(o) \/ \E g \in Groups : createSocket(o, g)
  \/ readLoop
  \/ recvPacket
  \/ recvError

Spec == Init /\ [][Next]_vars

-----------------------------------------------------------------------------
(* Type correctness.                                                       *)
ListenerTypeOK ==
  /\ mFd \in Fds \cup {0}
  /\ sockets \in [Fds -> Groups \cup {Closed, Unjoined}]
  /\ mLock \in BOOLEAN
  /\ reader \in {"wait", "lock", "recv", "push"}
  /\ n \in -1..Capacity
  /\ size \in 0..UintRange - 1
  /\ opener \in [Openers -> {"idle", "join", "install"}]
  /\ fd \in [Openers -> Fds \cup {0}]
  /\ group \in [Openers -> Groups \cup {Closed}]

inSetup == {o \in Openers : opener[o] # "idle"}

(* Every open socket has exactly one owner, which will close it: the       *)
(* reader's is mFd, the others belong to a thread in setup.  None leaks,   *)
(* whichever setup fails and however two of them overlap.                  *)
SocketsOwned ==
  /\ {f \in Fds : sockets[f] # Closed} = ({mFd} \ {0}) \cup {fd[o] : o \in inSetup}
  /\ \A o \in inSetup : fd[o] # mFd
  /\ \A o, p \in inSetup : fd[o] = fd[p] => o = p

(* The socket is never closed or replaced under recvfrom: from the lock to *)
(* the end of pushing the packet, the descriptor readLoop uses is the one  *)
(* installed and stays a member of its group, whoever is in setup.         *)
ReaderKeepsSocket ==
  [][(reader \in {"recv", "push"}) =>
       sockets[mFd] \in Groups /\ sockets'[mFd] = sockets[mFd] /\ mFd' = mFd]_vars

=============================================================================
