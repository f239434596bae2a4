----------------------------- MODULE ConfigFiles -----------------------------
(***************************************************************************)
(* The configuration files of the plugin (src/FCCPlugin.cpp, src/fcc,      *)
(* src/confighandler) on top of the monitored variables                    *)
(* (include/utils/MonitoredVariable.h).                                    *)
(*                                                                         *)
(* Clients read a file in chunks and write it; threads of the plugin       *)
(* assign the variable behind it, whose watchers notify the clients.  A    *)
(* handler is what it locks and in which order it stores and notifies.     *)
(* The content of a file is its version: version v is ContentSize(v) bytes *)
(* long, and each of its bytes is <<v, position>>.                         *)
(***************************************************************************)
EXTENDS Naturals, Sequences, FiniteSets

CONSTANTS
  Clients,         \* FUSE requests of different processes run concurrently
  Threads,         \* the plugin's own threads: parser, monitor, trick play timer
  Free,            \* nobody holds the lock
  Files,           \* the files that are updated ...
  Readable,        \* ... those the clients read ...
  Writable,        \* ... and those they write
  ContentSize(_),  \* the length of version v of a file
  ChunkSize,       \* the size argument of read
  NoFile,          \* no file is in use
  Torn,            \* bytes copied while they are overwritten
  MaxUpdates       \* bound: updates in a behaviour

ASSUME FilesAssumption ==
  /\ Clients \cap Threads = {} /\ Free \notin Clients \cup Threads
  /\ Files \subseteq {"stream_status", "stat_channel", "drm0", "cdm_ready0", "seek0",
                       "trick_play0", "chan_select0", "ecm0", "player_state0"}
  /\ Readable \subseteq Files /\ Writable \subseteq Files
  /\ MaxUpdates \in Nat /\ ChunkSize \in Nat \ {0}
  /\ \A v \in 0..MaxUpdates : ContentSize(v) \in Nat
  /\ Torn \notin Nat

Procs == Clients \cup Threads

-----------------------------------------------------------------------------
(* The handlers: the locks readConfig takes, those an update by a client   *)
(* (writeConfig) and by a thread takes, and whether the content is stored  *)
(* before the clients are notified.  "vd" is the lock all variables share. *)

(* Mutant: the watcher of stream_status takes the handler's lock.          *)
StatsRequestHandler_watcherLocks ==
  [read |-> <<"Stats.mStateMtx", "vd">>, write |-> <<>>,
   assign |-> <<"vd", "Stats.mStateMtx">>, storesFirst |-> FALSE]

(* stream_status: the variable's value; its watcher takes no lock.         *)
StatsRequestHandler ==
  [read |-> <<"Stats.mStateMtx", "vd">>, write |-> <<>>,
   assign |-> <<"vd">>, storesFirst |-> FALSE]

(* drm0: a copy the watcher keeps.  The parser publishes with confidence   *)
(* HIGH only, which is never refused.                                      *)
ProtectionInfoRequestHandler ==
  [read |-> <<"Protection.mMtxConfig">>, write |-> <<>>,
   assign |-> <<"vd", "Protection.mMtxConfig">>, storesFirst |-> TRUE]

(* cdm_ready0: the variable's value, read under the lock of the watcher.   *)
CdmStatusHandler ==
  [read |-> <<"Cdm.mMtxConfig", "vd">>, write |-> <<"vd", "Cdm.mMtxConfig">>,
   assign |-> <<"vd", "Cdm.mMtxConfig">>, storesFirst |-> FALSE]

(* updateTrickPlayPosition on the timer's thread: getSeekTime, setSeekTime *)
(* and the assignments of flush0 and trick_play0 inside mTrickPlaySpeedMtx.*)
updateTrickPlayPosition ==
  <<"mTrickPlaySpeedMtx", "TimeShift.mParamMtx", "TimeShift.mSeekMtx", "vd">>

(* seek0: the time shift buffer's state; flush0 tells of the change.       *)
SeekRequestHandler ==
  [read |-> <<"Seek.mStateMtx", "TimeShift.mParamMtx">>,
   write |-> <<"Seek.mStateMtx", "TimeShift.mSeekMtx", "vd">>,
   assign |-> updateTrickPlayPosition, storesFirst |-> TRUE]

(* trick_play0: mTrickPlaySpeed, which the timer resets.                   *)
TrickPlayRequestHandler ==
  [read |-> <<"TrickPlay.mStateMtx", "mTrickPlaySpeedMtx">>,
   write |-> <<"TrickPlay.mStateMtx", "mTrickPlaySpeedMtx", "vd">>,
   assign |-> updateTrickPlayPosition, storesFirst |-> TRUE]

(* chan_select0: mCurrentUri.  MediaSourceHandler::open ends the old       *)
(* stream: TimeShiftBufferConsumer::reset, with trick_play0, and the       *)
(* parser, with the cdm status; it returns before the notification.        *)
ChannelSelector ==
  [read |-> <<"Channel.mStateMutex", "MediaSource.mParamMtx">>,
   write |-> <<"mFeipConfMutex", "MediaSource.mParamMtx", "TimeShift.mParamMtx",
               "mTrickPlaySpeedMtx", "vd", "Cdm.mMtxConfig">>,
   assign |-> <<>>, storesFirst |-> TRUE]

(* stat_channel: asks the demuxer, nothing is updated.                     *)
ChannelStats ==
  [read |-> <<"Stats.mStateMtx", "mFeipConfMutex">>, write |-> <<>>,
   assign |-> <<>>, storesFirst |-> FALSE]

(* ecm0, pat0 and pmt0: the variable's value, no lock of the handler.  The *)
(* parser watches them too, under a lock inside which it takes none of     *)
(* these.                                                                  *)
StreamInfoRequestHandler ==
  [read |-> <<"vd">>, write |-> <<>>, assign |-> <<"vd">>, storesFirst |-> FALSE]

(* player_state0: the time shift buffer's state, and nobody is notified.   *)
PlayerStateRequestHandler ==
  [read |-> <<"PlayerState.mStateMtx">>, write |-> <<"PlayerState.mStateMtx">>,
   assign |-> <<>>, storesFirst |-> TRUE]

(* mConfigHandlers                                                         *)
targetToConfigHandler(f) ==
  CASE f = "stream_status" -> StatsRequestHandler
    [] f = "stat_channel" -> ChannelStats
    [] f = "drm0" -> ProtectionInfoRequestHandler
    [] f = "cdm_ready0" -> CdmStatusHandler
    [] f = "seek0" -> SeekRequestHandler
    [] f = "trick_play0" -> TrickPlayRequestHandler
    [] f = "chan_select0" -> ChannelSelector
    [] f = "ecm0" -> StreamInfoRequestHandler
    [] f = "player_state0" -> PlayerStateRequestHandler

Locks == {"vd", "Stats.mStateMtx", "Protection.mMtxConfig", "Cdm.mMtxConfig",
          "Seek.mStateMtx", "TrickPlay.mStateMtx", "Channel.mStateMutex",
          "PlayerState.mStateMtx", "MediaSource.mParamMtx", "mTrickPlaySpeedMtx",
          "TimeShift.mParamMtx", "TimeShift.mSeekMtx", "mFeipConfMutex"}

-----------------------------------------------------------------------------
VARIABLES
  lock,                 \* who holds each lock
  content,              \* the version of each file
  notified,             \* the version of the last notifyUpdate for each file
  mStreamOpenCounters,
  updates,              \* updates begun so far
  pc,                   \* what each process does
  file,                 \* the file it does it with
  plan,                 \* the locks it still has to take
  got,                  \* the bytes a client has read since it opened the file
  want                  \* the version it was notified of before

procVars == <<pc, file, plan>>
clientVars == <<mStreamOpenCounters, got, want>>
filesVars == <<lock, content, notified, updates, procVars, clientVars>>

FilesInit ==
  /\ lock = [l \in Locks |-> Free]
  /\ content = [f \in Files |-> 0] /\ notified = [f \in Files |-> 0]
  /\ mStreamOpenCounters = [f \in Files |-> 0]
  /\ updates = 0
  /\ pc = [p \in Procs |-> "idle"]
  /\ file = [p \in Procs |-> NoFile]
  /\ plan = [p \in Procs |-> <<>>]
  /\ got = [c \in Clients |-> <<>>] /\ want = [c \in Clients |-> 0]

handler(p) == targetToConfigHandler(file[p])
goto(p, label) == pc' = [pc EXCEPT ![p] = label]
released(p) == [l \in Locks |-> IF lock[l] = p THEN Free ELSE lock[l]]

(* The next lock of the plan; a process stands at pc[p] until it has all.  *)
acquire(p) ==
  /\ plan[p] # <<>>
  /\ lock[Head(plan[p])] = Free
  /\ lock' = [lock EXCEPT ![Head(plan[p])] = p]
  /\ plan' = [plan EXCEPT ![p] = Tail(@)]
  /\ UNCHANGED <<content, notified, updates, pc, file, clientVars>>

at(p, label) == pc[p] = label /\ plan[p] = <<>>

-----------------------------------------------------------------------------
(* Updates.                                                                *)

begin(p, f, locks, storesFirst) ==
  /\ at(p, "idle")
  /\ updates < MaxUpdates
  /\ updates' = updates + 1
  /\ file' = [file EXCEPT ![p] = f]
  /\ plan' = [plan EXCEPT ![p] = locks]
  /\ goto(p, IF storesFirst THEN "store" ELSE "notify")
  /\ UNCHANGED <<lock, content, notified, clientVars>>

(* Mutant: the assignment locks the variable only to store it.             *)
assign_unlocked(t, f) ==
  LET h == targetToConfigHandler(f)
  IN  begin(t, f, SelectSeq(h.assign, LAMBDA l : l # "vd"), h.storesFirst)

(* MVar::operator= by a thread.                                            *)
assign(t, f) ==
  LET h == targetToConfigHandler(f)
  IN  h.assign # <<>> /\ begin(t, f, h.assign, h.storesFirst)

(* FCCPlugin::write; a write at an offset is ignored.                      *)
writeConfig(c, f) ==
  LET h == targetToConfigHandler(f)
  IN  h.write # <<>> /\ begin(c, f, h.write, h.storesFirst)

(* The end of an update: the locks are released.                           *)
finish(p) ==
  /\ goto(p, "idle")
  /\ lock' = released(p)
  /\ file' = [file EXCEPT ![p] = NoFile]

(* The channel is notified after open() has returned.                      *)
store(p) ==
  /\ at(p, "store")
  /\ content' = [content EXCEPT ![file[p]] = @ + 1]
  /\ IF handler(p).storesFirst
       THEN /\ goto(p, "notify") /\ UNCHANGED file
            /\ lock' = IF file[p] = "chan_select0" THEN released(p) ELSE lock
       ELSE finish(p)
  /\ UNCHANGED <<notified, updates, plan, clientVars>>

(* notifyConfigurationChanged and notifyUpdate; the cdm status and the     *)
(* player state have none.                                                 *)
notifyUpdate(p) ==
  /\ at(p, "notify")
  /\ LET f == file[p]
         version == IF handler(p).storesFirst THEN content[f] ELSE content[f] + 1
     IN  notified' = IF f \in {"cdm_ready0", "player_state0"} THEN notified
                     ELSE [notified EXCEPT ![f] = version]
  /\ IF handler(p).storesFirst
       THEN finish(p)
       ELSE goto(p, "store") /\ UNCHANGED <<lock, file>>
  /\ UNCHANGED <<content, updates, plan, clientVars>>

-----------------------------------------------------------------------------
(* Reading.                                                                *)

open(c, f) ==
  /\ at(c, "idle")
  /\ file' = [file EXCEPT ![c] = f]
  /\ mStreamOpenCounters' = [mStreamOpenCounters EXCEPT ![f] = @ + 1]
  /\ want' = [want EXCEPT ![c] = notified[f]]
  /\ got' = [got EXCEPT ![c] = <<>>]
  /\ goto(c, "opened")
  /\ UNCHANGED <<lock, content, notified, updates, plan>>

readConfig(c) ==
  /\ at(c, "opened")
  /\ plan' = [plan EXCEPT ![c] = handler(c).read]
  /\ goto(c, "get")
  /\ UNCHANGED <<lock, content, notified, updates, file, clientVars>>

(* getValue returns a reference, and its lock is gone when the value is    *)
(* copied.                                                                 *)
getValue(c) ==
  /\ at(c, "get")
  /\ lock' = IF lock["vd"] = c THEN [lock EXCEPT !["vd"] = Free] ELSE lock
  /\ goto(c, "copy")
  /\ UNCHANGED <<content, notified, updates, file, plan, clientVars>>

beingStored(f) == \E p \in Procs : at(p, "store") /\ file[p] = f

(* What a copy may find: the value, or, while the next one is being        *)
(* stored, bytes of either or of none.                                     *)
found(f) ==
  {<<content[f], ContentSize(content[f])>>} \cup
  (IF beingStored(f) THEN {<<Torn, ContentSize(content[f] + 1)>>}
   ELSE {})

(* Mutant: reading at the end is an error.                                 *)
beyond_end(offset, size) == offset >= size
beyond(offset, size) == offset > size

(* The chunk at the offset the client has reached.                         *)
chunk(version, size, offset) ==
  LET n == IF size - offset < ChunkSize THEN size - offset ELSE ChunkSize
  IN  [k \in 1..n |-> <<version, offset + k>>]

(* FCCPlugin::read: 0 bytes, an error, or a chunk.                         *)
read(c) ==
  /\ at(c, "copy")
  /\ \E conf \in found(file[c]) :
       LET offset == Len(got[c])
           size == conf[2]
           overflow == size # 0 /\ beyond(offset, size)
       IN  IF size = 0 \/ overflow
             THEN goto(c, IF overflow THEN "error" ELSE "eof") /\ UNCHANGED got
             ELSE /\ goto(c, IF offset = size THEN "eof" ELSE "opened")
                  /\ got' = [got EXCEPT ![c] = @ \o chunk(conf[1], size, offset)]
  /\ lock' = released(c)
  /\ UNCHANGED <<content, notified, updates, file, plan, mStreamOpenCounters, want>>

release(c) ==
  /\ pc[c] \in {"opened", "eof", "error"}
  /\ mStreamOpenCounters' = [mStreamOpenCounters EXCEPT ![file[c]] = @ - 1]
  /\ got' = [got EXCEPT ![c] = <<>>] /\ want' = [want EXCEPT ![c] = 0]
  /\ goto(c, "idle")
  /\ file' = [file EXCEPT ![c] = NoFile]
  /\ UNCHANGED <<lock, content, notified, updates, plan>>

FilesNext ==
  \/ \E p \in Procs : acquire(p) \/ store(p) \/ notifyUpdate(p)
  \/ \E t \in Threads, f \in Files : assign(t, f)
  \/ \E c \in Clients, f \in Writable : writeConfig(c, f)
  \/ \E c \in Clients, f \in Readable : open(c, f)
  \/ \E c \in Clients : readConfig(c) \/ getValue(c) \/ read(c) \/ release(c)

FilesSpec == FilesInit /\ [][FilesNext]_filesVars

-----------------------------------------------------------------------------
(* A notification is not early: a client that opens a file after it was    *)
(* notified of a version reads that version or a later one, in every chunk *)
(* (operator= notifies before it stores, under the lock getValue takes).   *)
NotifiedReadIsNew ==
  \A c \in Clients : \A k \in 1..Len(got[c]) :
    got[c][k][1] = Torn \/ got[c][k][1] >= want[c]

(* A client that reads in chunks while the file stays as it is gets all of *)
(* it and then the end of the file, never an error (the offset arithmetic  *)
(* of FCCPlugin::read).                                                    *)
ChunksAssemble ==
  \A c \in Clients :
    pc[c] \in {"eof", "error"} /\ got[c] # <<>> /\ ~beingStored(file[c]) =>
      LET v == content[file[c]]
      IN  (\A k \in 1..Len(got[c]) : got[c][k][1] = v)
          => pc[c] = "eof" /\ Len(got[c]) = ContentSize(v)

waitsFor(p) == IF plan[p] = <<>> THEN Free ELSE lock[Head(plan[p])]

(* No operation on configuration files waits for one that waits for it:    *)
(* every set of waiting processes has one that waits for somebody outside. *)
NoCircularWait ==
  \A S \in (SUBSET Procs) \ {{}} : \E p \in S : waitsFor(p) \notin S

holdsAndAwaits(p, held, awaited) ==
  lock[held] = p /\ plan[p] # <<>> /\ Head(plan[p]) = awaited

(* Whenever operations on configuration files wait for one another in a    *)
(* circle, it is the one circle the code has: a channel switch in reset()  *)
(* with mParamMtx waits for mTrickPlaySpeedMtx, and the trick play timer   *)
(* holds that and waits for mParamMtx.  Every other pair of handlers,      *)
(* watchers and assignments takes its locks in a compatible order.         *)
OnlyTimerAgainstReset ==
  \A S \in (SUBSET Procs) \ {{}} :
    (\A p \in S : waitsFor(p) \in S) =>
      \E p, q \in S :
        /\ holdsAndAwaits(p, "TimeShift.mParamMtx", "mTrickPlaySpeedMtx")
        /\ holdsAndAwaits(q, "mTrickPlaySpeedMtx", "TimeShift.mParamMtx")

=============================================================================
