-------------------------- MODULE ConfigFilesProofs --------------------------
(***************************************************************************)
(* Theorems about ConfigFiles, for any number of clients and threads, any  *)
(* choice of the files that are read and written, any contents, size of    *)
(* chunks and number of updates.                                           *)
(***************************************************************************)
EXTENDS ConfigFiles, FiniteSetTheorems, SequenceTheorems, TLAPS

(* The handlers by name.                                                   *)
LEMMA HandlerOf ==
  /\ targetToConfigHandler("stream_status") = StatsRequestHandler
  /\ targetToConfigHandler("stat_channel") = ChannelStats
  /\ targetToConfigHandler("drm0") = ProtectionInfoRequestHandler
  /\ targetToConfigHandler("cdm_ready0") = CdmStatusHandler
  /\ targetToConfigHandler("seek0") = SeekRequestHandler
  /\ targetToConfigHandler("trick_play0") = TrickPlayRequestHandler
  /\ targetToConfigHandler("chan_select0") = ChannelSelector
  /\ targetToConfigHandler("ecm0") = StreamInfoRequestHandler
  /\ targetToConfigHandler("player_state0") = PlayerStateRequestHandler
  BY Zenon DEF targetToConfigHandler

-----------------------------------------------------------------------------
(* The levels of the locks: what is asked of a handler first locks the     *)
(* handler, then the media source, the time shift buffer and the           *)
(* variables, and a watcher locks its handler last.  Two locks of the time *)
(* shift buffer share a level: reset() takes them one way round, the trick *)
(* play timer the other.                                                   *)
Crossed == {"TimeShift.mParamMtx", "mTrickPlaySpeedMtx"}

rank(l) ==
  IF l = "mFeipConfMutex" THEN 2
  ELSE IF l = "MediaSource.mParamMtx" THEN 3
  ELSE IF l \in Crossed THEN 4
  ELSE IF l = "TimeShift.mSeekMtx" THEN 5
  ELSE IF l = "vd" THEN 6
  ELSE IF l \in {"Protection.mMtxConfig", "Cdm.mMtxConfig"} THEN 7
  ELSE 1

(* A lock that may be taken inside another one.                            *)
below(l, m) ==
  rank(l) < rank(m) \/ (l \in Crossed /\ m \in Crossed /\ l # m)

Ordered(s) ==
  \A i, j \in 1..Len(s) : i < j => below(s[i], s[j])

Mentions(s, l) == \E i \in 1..Len(s) : s[i] = l

(* What the proofs need of a handler: it takes its locks in order, except  *)
(* for the read of cdm_ready0, and a value that is notified before it is   *)
(* stored is stored and read under the lock of the variables.              *)
HandlerFacts(f, h) ==
  /\ h.read \in Seq(Locks) /\ h.write \in Seq(Locks) /\ h.assign \in Seq(Locks)
  /\ f # "cdm_ready0" => Ordered(h.read)
  /\ Ordered(h.write) /\ Ordered(h.assign)
  /\ h.storesFirst \in BOOLEAN
  /\ ~h.storesFirst =>
       /\ h.write # <<>> => Mentions(h.write, "vd")
       /\ h.assign # <<>> => Mentions(h.assign, "vd")
       /\ h.write # <<>> \/ h.assign # <<>> => Mentions(h.read, "vd")

LEMMA HandlersAreOrdered ==
  ASSUME NEW f \in Files
  PROVE  HandlerFacts(f, targetToConfigHandler(f))
<1>1. HandlerFacts("stream_status", StatsRequestHandler)
  <2> DEFINE h == StatsRequestHandler
  <2>1. /\ h.read \in Seq(Locks) /\ h.write \in Seq(Locks)
        /\ h.assign \in Seq(Locks) /\ h.storesFirst \in BOOLEAN
    BY DEF StatsRequestHandler, Locks
  <2>2. Ordered(h.read)
    BY DEF StatsRequestHandler, Ordered, below, rank, Crossed
  <2>3. Ordered(h.write)
    BY DEF StatsRequestHandler, Ordered, below, rank, Crossed
  <2>4. Ordered(h.assign)
    BY DEF StatsRequestHandler, Ordered, below, rank, Crossed
  <2>5. ~h.storesFirst =>
          /\ h.write # <<>> => Mentions(h.write, "vd")
          /\ h.assign # <<>> => Mentions(h.assign, "vd")
          /\ h.write # <<>> \/ h.assign # <<>>
             => Mentions(h.read, "vd")
    BY DEF StatsRequestHandler, Mentions
  <2> QED BY <2>1, <2>2, <2>3, <2>4, <2>5 DEF HandlerFacts
<1>2. HandlerFacts("stat_channel", ChannelStats)
  <2> DEFINE h == ChannelStats
  <2>1. /\ h.read \in Seq(Locks) /\ h.write \in Seq(Locks)
        /\ h.assign \in Seq(Locks) /\ h.storesFirst \in BOOLEAN
    BY DEF ChannelStats, Locks
  <2>2. Ordered(h.read)
    BY DEF ChannelStats, Ordered, below, rank, Crossed
  <2>3. Ordered(h.write)
    BY DEF ChannelStats, Ordered, below, rank, Crossed
  <2>4. Ordered(h.assign)
    BY DEF ChannelStats, Ordered, below, rank, Crossed
  <2>5. ~h.storesFirst =>
          /\ h.write # <<>> => Mentions(h.write, "vd")
          /\ h.assign # <<>> => Mentions(h.assign, "vd")
          /\ h.write # <<>> \/ h.assign # <<>>
             => Mentions(h.read, "vd")
    BY DEF ChannelStats, Mentions
  <2> QED BY <2>1, <2>2, <2>3, <2>4, <2>5 DEF HandlerFacts
<1>3. HandlerFacts("drm0", ProtectionInfoRequestHandler)
  <2> DEFINE h == ProtectionInfoRequestHandler
  <2>1. /\ h.read \in Seq(Locks) /\ h.write \in Seq(Locks)
        /\ h.assign \in Seq(Locks) /\ h.storesFirst \in BOOLEAN
    BY DEF ProtectionInfoRequestHandler, Locks
  <2>2. Ordered(h.read)
    BY DEF ProtectionInfoRequestHandler, Ordered, below, rank, Crossed
  <2>3. Ordered(h.write)
    BY DEF ProtectionInfoRequestHandler, Ordered, below, rank, Crossed
  <2>4. Ordered(h.assign)
    BY DEF ProtectionInfoRequestHandler, Ordered, below, rank, Crossed
  <2>5. ~h.storesFirst =>
          /\ h.write # <<>> => Mentions(h.write, "vd")
          /\ h.assign # <<>> => Mentions(h.assign, "vd")
          /\ h.write # <<>> \/ h.assign # <<>>
             => Mentions(h.read, "vd")
    BY DEF ProtectionInfoRequestHandler, Mentions
  <2> QED BY <2>1, <2>2, <2>3, <2>4, <2>5 DEF HandlerFacts
<1>4. HandlerFacts("cdm_ready0", CdmStatusHandler)
  <2> DEFINE h == CdmStatusHandler
  <2>1. /\ h.read \in Seq(Locks) /\ h.write \in Seq(Locks)
        /\ h.assign \in Seq(Locks) /\ h.storesFirst \in BOOLEAN
    BY DEF CdmStatusHandler, Locks
  <2>3. Ordered(h.write)
    BY DEF CdmStatusHandler, Ordered, below, rank, Crossed
  <2>4. Ordered(h.assign)
    BY DEF CdmStatusHandler, Ordered, below, rank, Crossed
  <2>5. ~h.storesFirst =>
          /\ h.write # <<>> => Mentions(h.write, "vd")
          /\ h.assign # <<>> => Mentions(h.assign, "vd")
          /\ h.write # <<>> \/ h.assign # <<>>
             => Mentions(h.read, "vd")
    BY DEF CdmStatusHandler, Mentions
  <2> QED BY <2>1, <2>3, <2>4, <2>5 DEF HandlerFacts
<1>5. HandlerFacts("seek0", SeekRequestHandler)
  <2> DEFINE h == SeekRequestHandler
  <2>1. /\ h.read \in Seq(Locks) /\ h.write \in Seq(Locks)
        /\ h.assign \in Seq(Locks) /\ h.storesFirst \in BOOLEAN
    BY DEF SeekRequestHandler, updateTrickPlayPosition, Locks
  <2>2. Ordered(h.read)
    BY DEF SeekRequestHandler, updateTrickPlayPosition, Ordered, below, rank, Crossed
  <2>3. Ordered(h.write)
    BY DEF SeekRequestHandler, updateTrickPlayPosition, Ordered, below, rank, Crossed
  <2>4. Ordered(h.assign)
    BY DEF SeekRequestHandler, updateTrickPlayPosition, Ordered, below, rank, Crossed
  <2>5. ~h.storesFirst =>
          /\ h.write # <<>> => Mentions(h.write, "vd")
          /\ h.assign # <<>> => Mentions(h.assign, "vd")
          /\ h.write # <<>> \/ h.assign # <<>>
             => Mentions(h.read, "vd")
    BY DEF SeekRequestHandler, updateTrickPlayPosition, Mentions
  <2> QED BY <2>1, <2>2, <2>3, <2>4, <2>5 DEF HandlerFacts
<1>6. HandlerFacts("trick_play0", TrickPlayRequestHandler)
  <2> DEFINE h == TrickPlayRequestHandler
  <2>1. /\ h.read \in Seq(Locks) /\ h.write \in Seq(Locks)
        /\ h.assign \in Seq(Locks) /\ h.storesFirst \in BOOLEAN
    BY DEF TrickPlayRequestHandler, updateTrickPlayPosition, Locks
  <2>2. Ordered(h.read)
    BY DEF TrickPlayRequestHandler, updateTrickPlayPosition, Ordered, below, rank, Crossed
  <2>3. Ordered(h.write)
    BY DEF TrickPlayRequestHandler, updateTrickPlayPosition, Ordered, below, rank, Crossed
  <2>4. Ordered(h.assign)
    BY DEF TrickPlayRequestHandler, updateTrickPlayPosition, Ordered, below, rank, Crossed
  <2>5. ~h.storesFirst =>
          /\ h.write # <<>> => Mentions(h.write, "vd")
          /\ h.assign # <<>> => Mentions(h.assign, "vd")
          /\ h.write # <<>> \/ h.assign # <<>>
             => Mentions(h.read, "vd")
    BY DEF TrickPlayRequestHandler, updateTrickPlayPosition, Mentions
  <2> QED BY <2>1, <2>2, <2>3, <2>4, <2>5 DEF HandlerFacts
<1>7. HandlerFacts("chan_select0", ChannelSelector)
  <2> DEFINE h == ChannelSelector
  <2>1. /\ h.read \in Seq(Locks) /\ h.write \in Seq(Locks)
        /\ h.assign \in Seq(Locks) /\ h.storesFirst \in BOOLEAN
    BY DEF ChannelSelector, Locks
  <2>2. Ordered(h.read)
    BY DEF ChannelSelector, Ordered, below, rank, Crossed
  <2>3. Ordered(h.write)
    BY DEF ChannelSelector, Ordered, below, rank, Crossed
  <2>4. Ordered(h.assign)
    BY DEF ChannelSelector, Ordered, below, rank, Crossed
  <2>5. ~h.storesFirst =>
          /\ h.write # <<>> => Mentions(h.write, "vd")
          /\ h.assign # <<>> => Mentions(h.assign, "vd")
          /\ h.write # <<>> \/ h.assign # <<>>
             => Mentions(h.read, "vd")
    BY DEF ChannelSelector, Mentions
  <2> QED BY <2>1, <2>2, <2>3, <2>4, <2>5 DEF HandlerFacts
<1>8. HandlerFacts("ecm0", StreamInfoRequestHandler)
  <2> DEFINE h == StreamInfoRequestHandler
  <2>1. /\ h.read \in Seq(Locks) /\ h.write \in Seq(Locks)
        /\ h.assign \in Seq(Locks) /\ h.storesFirst \in BOOLEAN
    BY DEF StreamInfoRequestHandler, Locks
  <2>2. Ordered(h.read)
    BY DEF StreamInfoRequestHandler, Ordered, below, rank, Crossed
  <2>3. Ordered(h.write)
    BY DEF StreamInfoRequestHandler, Ordered, below, rank, Crossed
  <2>4. Ordered(h.assign)
    BY DEF StreamInfoRequestHandler, Ordered, below, rank, Crossed
  <2>5. ~h.storesFirst =>
          /\ h.write # <<>> => Mentions(h.write, "vd")
          /\ h.assign # <<>> => Mentions(h.assign, "vd")
          /\ h.write # <<>> \/ h.assign # <<>>
             => Mentions(h.read, "vd")
    BY DEF StreamInfoRequestHandler, Mentions
  <2> QED BY <2>1, <2>2, <2>3, <2>4, <2>5 DEF HandlerFacts
<1>9. HandlerFacts("player_state0", PlayerStateRequestHandler)
  <2> DEFINE h == PlayerStateRequestHandler
  <2>1. /\ h.read \in Seq(Locks) /\ h.write \in Seq(Locks)
        /\ h.assign \in Seq(Locks) /\ h.storesFirst \in BOOLEAN
    BY DEF PlayerStateRequestHandler, Locks
  <2>2. Ordered(h.read)
    BY DEF PlayerStateRequestHandler, Ordered, below, rank, Crossed
  <2>3. Ordered(h.write)
    BY DEF PlayerStateRequestHandler, Ordered, below, rank, Crossed
  <2>4. Ordered(h.assign)
    BY DEF PlayerStateRequestHandler, Ordered, below, rank, Crossed
  <2>5. ~h.storesFirst =>
          /\ h.write # <<>> => Mentions(h.write, "vd")
          /\ h.assign # <<>> => Mentions(h.assign, "vd")
          /\ h.write # <<>> \/ h.assign # <<>>
             => Mentions(h.read, "vd")
    BY DEF PlayerStateRequestHandler, Mentions
  <2> QED BY <2>1, <2>2, <2>3, <2>4, <2>5 DEF HandlerFacts
<1> QED BY <1>1, <1>2, <1>3, <1>4, <1>5, <1>6, <1>7, <1>8, <1>9, HandlerOf, FilesAssumption

-----------------------------------------------------------------------------
(* An update by either kind of process.                                    *)
Update(p, f, locks) ==
  /\ locks \in {targetToConfigHandler(f).write, targetToConfigHandler(f).assign}
  /\ locks # <<>>
  /\ begin(p, f, locks, targetToConfigHandler(f).storesFirst)

FilesStep ==
  \/ \E p \in Procs : acquire(p) \/ store(p) \/ notifyUpdate(p)
  \/ \E p \in Procs, f \in Files : \E locks \in Seq(Locks) : Update(p, f, locks)
  \/ \E c \in Clients, f \in Readable : open(c, f)
  \/ \E c \in Clients : readConfig(c) \/ getValue(c) \/ read(c) \/ release(c)

LEMMA StepsOfFiles == FilesNext => FilesStep
<1>1. ASSUME NEW t \in Threads, NEW f \in Files, assign(t, f)
      PROVE  FilesStep
  <2> DEFINE h == targetToConfigHandler(f)
  <2>1. h.assign \in Seq(Locks)
    BY HandlersAreOrdered DEF HandlerFacts
  <2>2. Update(t, f, h.assign)
    BY <1>1 DEF assign, Update
  <2>3. t \in Procs
    BY DEF Procs
  <2> QED BY <2>1, <2>2, <2>3 DEF FilesStep
<1>2. ASSUME NEW c \in Clients, NEW f \in Writable, writeConfig(c, f)
      PROVE  FilesStep
  <2> DEFINE h == targetToConfigHandler(f)
  <2>1. h.write \in Seq(Locks) /\ f \in Files
    BY HandlersAreOrdered, FilesAssumption DEF HandlerFacts
  <2>2. Update(c, f, h.write)
    BY <1>2 DEF writeConfig, Update
  <2>3. c \in Procs
    BY DEF Procs
  <2> QED BY <2>1, <2>2, <2>3 DEF FilesStep
<1> QED BY <1>1, <1>2 DEF FilesNext, FilesStep

Labels == {"idle", "store", "notify", "opened", "get", "copy", "eof", "error"}
Reading == {"opened", "get", "copy", "eof", "error"}

(* What the sets and bounds are, without the sizes of the contents.        *)
LEMMA FilesSets ==
  /\ Free \notin Procs /\ Readable \subseteq Files
  /\ MaxUpdates \in Nat /\ Torn \notin Nat
  BY FilesAssumption DEF Procs

(* The two ways an update goes on after it has stored or notified.         *)
LEMMA StoreEffect ==
  ASSUME NEW p \in Procs, store(p)
  PROVE  /\ pc[p] = "store" /\ plan[p] = <<>>
         /\ content' = [content EXCEPT ![file[p]] = @ + 1]
         /\ UNCHANGED <<notified, updates, plan, mStreamOpenCounters, got, want>>
         /\ \/ /\ handler(p).storesFirst
               /\ goto(p, "notify") /\ file' = file /\ lock' \in {lock, released(p)}
            \/ /\ ~handler(p).storesFirst
               /\ finish(p)
<1>1. pc[p] = "store" /\ plan[p] = <<>>
  BY DEF store, at
<1>2. content' = [content EXCEPT ![file[p]] = @ + 1]
  BY DEF store
<1>3. UNCHANGED <<notified, updates, plan, mStreamOpenCounters, got, want>>
  BY DEF store, clientVars
<1>4. CASE handler(p).storesFirst
  <2>1. goto(p, "notify") /\ file' = file
    BY <1>4, Zenon DEF store
  <2>2. lock' = IF file[p] = "chan_select0" THEN released(p) ELSE lock
    BY <1>4, Zenon DEF store
  <2> QED BY <1>1, <1>2, <1>3, <1>4, <2>1, <2>2
<1>5. CASE ~handler(p).storesFirst
  <2>1. finish(p)
    BY <1>5, Zenon DEF store
  <2> QED BY <1>1, <1>2, <1>3, <1>5, <2>1
<1> QED BY <1>4, <1>5

LEMMA NotifyEffect ==
  ASSUME NEW p \in Procs, notifyUpdate(p)
  PROVE  /\ pc[p] = "notify" /\ plan[p] = <<>>
         /\ UNCHANGED <<content, updates, plan, mStreamOpenCounters, got, want>>
         /\ \/ /\ handler(p).storesFirst
               /\ finish(p)
               /\ notified' \in {notified, [notified EXCEPT ![file[p]] = content[file[p]]]}
            \/ /\ ~handler(p).storesFirst
               /\ goto(p, "store") /\ UNCHANGED <<lock, file>>
               /\ notified' \in {notified, [notified EXCEPT ![file[p]] = content[file[p]] + 1]}
<1>1. pc[p] = "notify" /\ plan[p] = <<>>
  BY DEF notifyUpdate, at
<1>2. UNCHANGED <<content, updates, plan, mStreamOpenCounters, got, want>>
  BY DEF notifyUpdate, clientVars
<1>3. CASE handler(p).storesFirst
  <2>1. finish(p)
    BY <1>3, Zenon DEF notifyUpdate
  <2>2. notified' \in {notified, [notified EXCEPT ![file[p]] = content[file[p]]]}
    BY <1>3 DEF notifyUpdate
  <2> QED BY <1>1, <1>2, <1>3, <2>1, <2>2
<1>4. CASE ~handler(p).storesFirst
  <2>1. goto(p, "store") /\ UNCHANGED <<lock, file>>
    BY <1>4, Zenon DEF notifyUpdate
  <2>2. notified' \in {notified, [notified EXCEPT ![file[p]] = content[file[p]] + 1]}
    BY <1>4 DEF notifyUpdate
  <2> QED BY <1>1, <1>2, <1>4, <2>1, <2>2
<1> QED BY <1>3, <1>4

(* Types, and what a process that is not idle works with.                  *)
FilesTypes ==
  /\ lock \in [Locks -> Procs \cup {Free}]
  /\ content \in [Files -> Nat] /\ notified \in [Files -> Nat]
  /\ updates \in 0..MaxUpdates
  /\ pc \in [Procs -> Labels]
  /\ file \in [Procs -> Files \cup {NoFile}]
  /\ plan \in [Procs -> Seq(Locks)]
  /\ want \in [Clients -> Nat]
  /\ \A p \in Procs : pc[p] # "idle" => file[p] \in Files
  /\ \A c \in Procs : pc[c] \in Reading => file[c] \in Readable

LEMMA FilesTypesStep ==
  ASSUME FilesTypes, FilesStep
  PROVE  FilesTypes'
<1> USE FilesSets
<1>1. ASSUME NEW p \in Procs, acquire(p)
      PROVE  FilesTypes'
  <2>1. Head(plan[p]) \in Locks /\ Tail(plan[p]) \in Seq(Locks)
    BY <1>1 DEF acquire, FilesTypes
  <2> QED BY <1>1, <2>1 DEF acquire, FilesTypes, clientVars
<1>2. ASSUME NEW p \in Procs, store(p)
      PROVE  FilesTypes'
  <2>1. pc[p] = "store" /\ file[p] \in Files /\ UNCHANGED <<notified, updates, plan, want>>
    BY <1>2, StoreEffect DEF FilesTypes
  <2>2. released(p) \in [Locks -> Procs \cup {Free}]
    BY DEF released, FilesTypes
  <2>5. content' \in [Files -> Nat]
    BY <1>2, <2>1, StoreEffect DEF FilesTypes
  <2>3. CASE goto(p, "notify") /\ file' = file /\ lock' \in {lock, released(p)}
    BY <2>1, <2>2, <2>3, <2>5 DEF goto, FilesTypes, Labels, Reading
  <2>4. CASE finish(p)
    BY <2>1, <2>2, <2>4, <2>5 DEF finish, goto, FilesTypes, Labels, Reading
  <2> QED BY <1>2, <2>3, <2>4, StoreEffect
<1>3. ASSUME NEW p \in Procs, notifyUpdate(p)
      PROVE  FilesTypes'
  <2>1. file[p] \in Files /\ content[file[p]] \in Nat
    BY <1>3 DEF notifyUpdate, at, FilesTypes
  <2>2. released(p) \in [Locks -> Procs \cup {Free}]
    BY DEF released, FilesTypes
  <2>3. notified' \in [Files -> Nat]
    BY <1>3, <2>1 DEF notifyUpdate, FilesTypes
  <2>4. CASE finish(p)
    BY <1>3, <2>2, <2>3, <2>4, NotifyEffect DEF finish, goto, FilesTypes, Labels, Reading
  <2>5. CASE goto(p, "store") /\ UNCHANGED <<lock, file>>
    BY <1>3, <2>1, <2>3, <2>5, NotifyEffect DEF goto, FilesTypes, Labels, Reading
  <2> QED BY <1>3, <2>4, <2>5, NotifyEffect
<1>4. ASSUME NEW p \in Procs, NEW f \in Files, NEW locks \in Seq(Locks), Update(p, f, locks)
      PROVE  FilesTypes'
  BY <1>4 DEF Update, begin, at, goto, FilesTypes, clientVars, Labels, Reading
<1>5. ASSUME NEW c \in Clients, NEW f \in Readable, open(c, f)
      PROVE  FilesTypes'
  BY <1>5 DEF open, at, goto, FilesTypes, Labels, Reading, Procs
<1>6. ASSUME NEW c \in Clients, readConfig(c)
      PROVE  FilesTypes'
  <2>1. handler(c).read \in Seq(Locks)
    BY <1>6, HandlersAreOrdered DEF readConfig, at, handler, FilesTypes, HandlerFacts, Procs
  <2> QED BY <1>6, <2>1 DEF readConfig, at, goto, FilesTypes, clientVars, Labels, Reading, Procs
<1>7. ASSUME NEW c \in Clients, getValue(c)
      PROVE  FilesTypes'
  BY <1>7 DEF getValue, at, goto, FilesTypes, clientVars, Labels, Reading, Procs
<1>8. ASSUME NEW c \in Clients, read(c)
      PROVE  FilesTypes'
  <2>1. PICK l \in {"error", "eof", "opened"} : goto(c, l)
    BY <1>8, Zenon DEF read
  <2>2. released(c) \in [Locks -> Procs \cup {Free}]
    BY DEF released, FilesTypes
  <2>3. pc[c] = "copy" /\ lock' = released(c)
        /\ UNCHANGED <<content, notified, updates, file, plan, want>>
    BY <1>8 DEF read, at
  <2> QED BY <2>1, <2>2, <2>3 DEF goto, FilesTypes, Labels, Reading, Procs
<1>9. ASSUME NEW c \in Clients, release(c)
      PROVE  FilesTypes'
  BY <1>9 DEF release, goto, FilesTypes, Labels, Reading, Procs
<1> QED BY <1>1, <1>2, <1>3, <1>4, <1>5, <1>6, <1>7, <1>8, <1>9 DEF FilesStep

THEOREM FilesTypesInvariant == FilesSpec => []FilesTypes
<1>1. FilesInit => FilesTypes
  BY FilesSets DEF FilesInit, FilesTypes, Labels, Reading, Procs
<1>2. FilesTypes /\ [FilesNext]_filesVars => FilesTypes'
  <2>1. FilesTypes /\ UNCHANGED filesVars => FilesTypes'
    BY DEF filesVars, procVars, clientVars, FilesTypes
  <2> QED BY <2>1, FilesTypesStep, StepsOfFiles
<1> QED BY <1>1, <1>2, PTL DEF FilesSpec

-----------------------------------------------------------------------------
(* OnlyTimerAgainstReset.  Every process takes its locks in the order of   *)
(* below: it holds locks below all those it still has to take, and none    *)
(* between its operations.                                                 *)
LockOrder ==
  \A p \in Procs :
    /\ Ordered(plan[p])
    /\ \A l \in Locks : lock[l] = p => \A i \in 1..Len(plan[p]) : below(l, plan[p][i])
    /\ pc[p] \in {"idle", "opened", "eof", "error"} =>
         plan[p] = <<>> /\ \A l \in Locks : lock[l] # p

LEMMA OrderedEmpty == Ordered(<<>>)
  BY DEF Ordered

LEMMA OrderedTail ==
  ASSUME NEW s \in Seq(Locks), s # <<>>, Ordered(s)
  PROVE  /\ Ordered(Tail(s))
         /\ \A i \in 1..Len(Tail(s)) : below(Head(s), Tail(s)[i])
         /\ \A i \in 1..Len(Tail(s)) : i + 1 \in 1..Len(s) /\ Tail(s)[i] = s[i + 1]
<1>1. Len(Tail(s)) = Len(s) - 1 /\ Head(s) = s[1] /\ Len(s) \in Nat /\ Len(s) >= 1
  OBVIOUS
<1>2. \A i \in 1..Len(Tail(s)) : i + 1 \in 1..Len(s) /\ Tail(s)[i] = s[i + 1]
  OBVIOUS
<1>3. \A i \in 1..Len(Tail(s)) : below(s[1], s[i + 1])
  <2> TAKE i \in 1..Len(Tail(s))
  <2>1. 1 \in 1..Len(s) /\ i + 1 \in 1..Len(s) /\ 1 < i + 1
    BY <1>1
  <2> QED BY <2>1 DEF Ordered
<1>4. Ordered(Tail(s))
  <2> SUFFICES ASSUME NEW i \in 1..Len(Tail(s)), NEW j \in 1..Len(Tail(s)), i < j
               PROVE  below(Tail(s)[i], Tail(s)[j])
    BY DEF Ordered
  <2>1. i + 1 \in 1..Len(s) /\ j + 1 \in 1..Len(s) /\ i + 1 < j + 1
    BY <1>1
  <2>2. below(s[i + 1], s[j + 1])
    BY <2>1 DEF Ordered
  <2> QED BY <1>2, <2>2
<1> QED BY <1>1, <1>2, <1>3, <1>4

LEMMA LockOrderStep ==
  ASSUME "cdm_ready0" \notin Readable, FilesTypes, LockOrder, FilesStep
  PROVE  LockOrder'
<1> USE FilesSets
<1>1. ASSUME NEW p \in Procs, acquire(p)
      PROVE  LockOrder'
  <2> DEFINE h == Head(plan[p])
  <2>1. /\ plan[p] \in Seq(Locks) /\ plan[p] # <<>> /\ h \in Locks /\ lock[h] = Free
        /\ lock' = [lock EXCEPT ![h] = p] /\ plan' = [plan EXCEPT ![p] = Tail(plan[p])]
        /\ pc' = pc
    BY <1>1 DEF acquire, FilesTypes
  <2>2. /\ Ordered(Tail(plan[p]))
        /\ \A i \in 1..Len(Tail(plan[p])) : below(h, Tail(plan[p])[i])
        /\ \A i \in 1..Len(Tail(plan[p])) :
             i + 1 \in 1..Len(plan[p]) /\ Tail(plan[p])[i] = plan[p][i + 1]
    BY <2>1, OrderedTail DEF LockOrder
  <2>3. pc[p] \notin {"idle", "opened", "eof", "error"}
    BY <2>1 DEF LockOrder
  <2> HIDE DEF h
  <2> SUFFICES ASSUME NEW q \in Procs
               PROVE  /\ Ordered(plan'[q])
                      /\ \A l \in Locks : lock'[l] = q =>
                           \A i \in 1..Len(plan'[q]) : below(l, plan'[q][i])
                      /\ pc'[q] \in {"idle", "opened", "eof", "error"} =>
                           plan'[q] = <<>> /\ \A l \in Locks : lock'[l] # q
    BY DEF LockOrder
  <2>4. CASE q = p
    <3>1. plan'[q] = Tail(plan[p]) /\ pc'[q] = pc[p]
      BY <2>1, <2>4 DEF FilesTypes
    <3>2. ASSUME NEW l \in Locks, lock'[l] = q, NEW i \in 1..Len(Tail(plan[p]))
          PROVE  below(l, Tail(plan[p])[i])
      <4>1. CASE l = h
        BY <2>2, <4>1
      <4>2. CASE l # h
        <5>1. lock[l] = p
          BY <2>1, <2>4, <3>2, <4>2 DEF FilesTypes
        <5> QED BY <2>2, <5>1 DEF LockOrder
      <4> QED BY <4>1, <4>2
    <3> QED BY <2>2, <2>3, <3>1, <3>2
  <2>5. CASE q # p
    <3>1. plan'[q] = plan[q] /\ pc'[q] = pc[q] /\ \A l \in Locks : lock'[l] = q <=> lock[l] = q
      BY <2>1, <2>5 DEF FilesTypes
    <3> QED BY <3>1 DEF LockOrder
  <2> QED BY <2>4, <2>5
<1>2. ASSUME NEW p \in Procs, plan[p] = <<>>, plan' = plan,
             lock' \in {lock, released(p)},
             NEW label, goto(p, label),
             label \in {"idle", "opened", "eof", "error"} => lock' = released(p)
      PROVE  LockOrder'
  <2>1. \A q \in Procs, l \in Locks : lock'[l] = q => lock[l] = q /\ (q = p => lock' = lock)
    BY <1>2 DEF released, FilesTypes
  <2>2. \A q \in Procs \ {p} : pc'[q] = pc[q]
    BY <1>2 DEF goto, FilesTypes
  <2>3. pc'[p] = label
    BY <1>2 DEF goto, FilesTypes
  <2>4. lock' = released(p) => \A l \in Locks : lock'[l] # p
    BY DEF released, FilesTypes
  <2> QED BY <1>2, <2>1, <2>2, <2>3, <2>4 DEF LockOrder
<1>3. ASSUME NEW p \in Procs, store(p)
      PROVE  LockOrder'
  <2>1. CASE goto(p, "notify") /\ lock' \in {lock, released(p)}
    BY <1>2, <1>3, <2>1, StoreEffect
  <2>2. CASE finish(p)
    BY <1>2, <1>3, <2>2, StoreEffect DEF finish
  <2> QED BY <1>3, <2>1, <2>2, StoreEffect
<1>4. ASSUME NEW p \in Procs, notifyUpdate(p)
      PROVE  LockOrder'
  <2>1. CASE goto(p, "store") /\ UNCHANGED <<lock, file>>
    BY <1>2, <1>4, <2>1, NotifyEffect
  <2>2. CASE finish(p)
    BY <1>2, <1>4, <2>2, NotifyEffect DEF finish
  <2> QED BY <1>4, <2>1, <2>2, NotifyEffect
<1>5. ASSUME NEW p \in Procs, NEW locks \in Seq(Locks), Ordered(locks),
             pc[p] \in {"idle", "opened"}, NEW label \in {"store", "notify", "get"},
             goto(p, label), plan' = [plan EXCEPT ![p] = locks], lock' = lock
      PROVE  LockOrder'
  BY <1>5 DEF goto, FilesTypes, LockOrder
<1>6. ASSUME NEW p \in Procs, NEW f \in Files, NEW locks \in Seq(Locks), Update(p, f, locks)
      PROVE  LockOrder'
  <2>1. Ordered(locks)
    BY <1>6, HandlersAreOrdered DEF Update, HandlerFacts
  <2>2. PICK label \in {"store", "notify"} : goto(p, label)
    BY <1>6, Zenon DEF Update, begin
  <2>3. pc[p] = "idle" /\ plan' = [plan EXCEPT ![p] = locks] /\ lock' = lock
    BY <1>6 DEF Update, begin, at
  <2> QED BY <1>5, <2>1, <2>2, <2>3
<1>7. ASSUME NEW c \in Clients, readConfig(c)
      PROVE  LockOrder'
  <2>1. pc[c] = "opened" /\ c \in Procs /\ file[c] \in Readable
    BY <1>7 DEF readConfig, at, Procs, FilesTypes, Reading
  <2>2. handler(c).read \in Seq(Locks) /\ Ordered(handler(c).read)
    BY <2>1, HandlersAreOrdered DEF handler, HandlerFacts
  <2>3. goto(c, "get") /\ plan' = [plan EXCEPT ![c] = handler(c).read] /\ lock' = lock
    BY <1>7 DEF readConfig
  <2> QED BY <1>5, <2>1, <2>2, <2>3
<1>8. ASSUME NEW c \in Clients, getValue(c)
      PROVE  LockOrder'
  <2>1. \A q \in Procs, l \in Locks : lock'[l] = q => lock[l] = q
    BY <1>8 DEF getValue, FilesTypes
  <2>2. plan' = plan /\ goto(c, "copy") /\ c \in Procs
    BY <1>8 DEF getValue, Procs
  <2> QED BY <2>1, <2>2 DEF LockOrder, goto, FilesTypes
<1>9. ASSUME NEW c \in Clients, read(c)
      PROVE  LockOrder'
  <2>1. PICK label \in {"error", "eof", "opened"} : goto(c, label)
    BY <1>9, Zenon DEF read
  <2>2. plan[c] = <<>> /\ plan' = plan /\ lock' = released(c) /\ c \in Procs
    BY <1>9 DEF read, at, Procs
  <2> QED BY <1>2, <2>1, <2>2
<1>10. ASSUME NEW c \in Clients,
              pc[c] \in {"idle", "opened", "eof", "error"},
              NEW label \in {"idle", "opened"}, goto(c, label), plan' = plan, lock' = lock
       PROVE  LockOrder'
  BY <1>10 DEF goto, FilesTypes, LockOrder, Procs
<1>11. ASSUME NEW c \in Clients, NEW f \in Readable, open(c, f)
       PROVE  LockOrder'
  BY <1>10, <1>11 DEF open, at
<1>12. ASSUME NEW c \in Clients, release(c)
       PROVE  LockOrder'
  BY <1>10, <1>12 DEF release
<1> QED BY <1>1, <1>3, <1>4, <1>6, <1>7, <1>8, <1>9, <1>11, <1>12 DEF FilesStep

(* Along a chain of waiting processes the levels of the locks they wait    *)
(* for do not fall; they stay the same only between the two crossed locks, *)
(* and two such steps one after the other are the circle of timer and      *)
(* reset.                                                                  *)
LEMMA OneCircleOnly ==
  ASSUME FilesTypes, LockOrder
  PROVE  OnlyTimerAgainstReset
<1> SUFFICES ASSUME NEW S \in SUBSET Procs, S # {}, \A p \in S : waitsFor(p) \in S,
                    ~ \E p, q \in S :
                        /\ holdsAndAwaits(p, "TimeShift.mParamMtx", "mTrickPlaySpeedMtx")
                        /\ holdsAndAwaits(q, "mTrickPlaySpeedMtx", "TimeShift.mParamMtx")
             PROVE  FALSE
  BY Zenon DEF OnlyTimerAgainstReset
<1> DEFINE awaited(p) == Head(plan[p])
           level(p) == rank(awaited(p))
<1>1. \A l : rank(l) \in 1..7 /\ (rank(l) = 4 <=> l \in Crossed)
  BY DEF rank, Crossed
<1>2. \A p \in S : /\ plan[p] # <<>> /\ lock[awaited(p)] = waitsFor(p)
                   /\ below(awaited(p), awaited(waitsFor(p)))
  <2> TAKE p \in S
  <2> DEFINE q == waitsFor(p)
  <2>1. q \in S /\ q \in Procs /\ q # Free
    BY FilesSets
  <2>2. plan[p] # <<>> /\ lock[Head(plan[p])] = q
    BY <2>1 DEF waitsFor
  <2>3. plan[q] # <<>>
    BY <2>1, FilesSets DEF waitsFor
  <2>4. Head(plan[p]) \in Locks /\ plan[q] \in Seq(Locks)
    BY <2>1, <2>2 DEF FilesTypes
  <2>5. 1 \in 1..Len(plan[q]) /\ Head(plan[q]) = plan[q][1]
    BY <2>3, <2>4
  <2> QED BY <2>1, <2>2, <2>4, <2>5 DEF LockOrder
<1>3. ASSUME NEW p \in S, awaited(p) \in Crossed, awaited(waitsFor(p)) \in Crossed,
             awaited(waitsFor(waitsFor(p))) \in Crossed
      PROVE  FALSE
  <2> DEFINE q == waitsFor(p)
             r == waitsFor(q)
  <2>1. q \in S /\ r \in S
    OBVIOUS
  <2>2. awaited(p) # awaited(q) /\ awaited(q) # awaited(r)
    BY <1>1, <1>2, <1>3, <2>1 DEF below
  <2>3. awaited(r) = awaited(p)
    BY <1>3, <2>2 DEF Crossed
  <2>4. /\ holdsAndAwaits(q, awaited(p), awaited(q))
        /\ holdsAndAwaits(r, awaited(q), awaited(p))
    BY <1>2, <2>1, <2>3 DEF holdsAndAwaits
  <2>5. \/ awaited(p) = "TimeShift.mParamMtx" /\ awaited(q) = "mTrickPlaySpeedMtx"
        \/ awaited(p) = "mTrickPlaySpeedMtx" /\ awaited(q) = "TimeShift.mParamMtx"
    BY <1>3, <2>2 DEF Crossed
  <2> QED BY <2>1, <2>4, <2>5
<1>4. \A p \in S : /\ waitsFor(p) \in S /\ level(p) \in 1..7
                   /\ level(p) < level(waitsFor(p))
                      \/ (level(p) = 4 /\ level(waitsFor(p)) = 4)
  BY <1>1, <1>2 DEF below
<1>5. \A p \in S : level(p) = 4 /\ level(waitsFor(p)) = 4 => level(waitsFor(waitsFor(p))) # 4
  BY <1>1, <1>3
<1> HIDE DEF level, awaited
<1>6. \A p \in S : level(p) <= 6
  BY <1>4
<1>7. \A p \in S : level(p) <= 5
  BY <1>4, <1>6
<1>8. \A p \in S : level(p) <= 4
  BY <1>4, <1>7
<1>9. \A p \in S : level(p) <= 3
  <2> SUFFICES ASSUME NEW p \in S, level(p) = 4 PROVE FALSE
    BY <1>4, <1>8
  <2>1. level(waitsFor(p)) = 4
    BY <1>4, <1>8
  <2>2. level(waitsFor(waitsFor(p))) = 4
    BY <1>4, <1>8, <2>1
  <2> QED BY <1>5, <2>1, <2>2
<1>10. \A p \in S : level(p) <= 2
  BY <1>4, <1>9
<1>11. \A p \in S : level(p) <= 1
  BY <1>4, <1>10
<1>12. \A p \in S : level(p) <= 0
  BY <1>4, <1>11
<1> QED BY <1>4, <1>12

(* As long as nobody reads cdm_ready0, whose read takes the lock of the    *)
(* variables inside the lock that its watcher takes inside that one, the   *)
(* only operations on configuration files that can wait for one another in *)
(* a circle are a channel switch in reset() and the trick play timer.      *)
THEOREM LocksAreOrdered ==
  ASSUME "cdm_ready0" \notin Readable
  PROVE  FilesSpec => []OnlyTimerAgainstReset
<1>1. FilesInit => LockOrder
  BY OrderedEmpty, FilesSets DEF FilesInit, LockOrder
<1>2. FilesTypes /\ LockOrder /\ [FilesNext]_filesVars => LockOrder'
  <2>1. LockOrder /\ UNCHANGED filesVars => LockOrder'
    BY DEF filesVars, procVars, LockOrder
  <2> QED BY <2>1, LockOrderStep, StepsOfFiles
<1>3. FilesTypes /\ LockOrder => OnlyTimerAgainstReset
  BY OneCircleOnly
<1> QED BY <1>1, <1>2, <1>3, FilesTypesInvariant, PTL DEF FilesSpec

-----------------------------------------------------------------------------
(* The version that is being stored has a size: the updates of a file that *)
(* have begun and not stored yet, and those that have, are at most the     *)
(* updates begun.                                                          *)
Pending(f) ==
  {p \in Procs : file[p] = f /\
     (pc[p] = "store" \/ (pc[p] = "notify" /\ ~targetToConfigHandler(f).storesFirst))}

CountInv ==
  \A f \in Files :
    /\ IsFiniteSet(Pending(f))
    /\ content[f] + Cardinality(Pending(f)) <= updates

LEMMA CountInvStep ==
  ASSUME FilesTypes, CountInv, FilesStep
  PROVE  CountInv'
<1> USE FilesSets
<1>1. ASSUME content' = content, updates' = updates, \A f \in Files : Pending(f)' = Pending(f)
      PROVE  CountInv'
  BY <1>1 DEF CountInv
<1>2. ASSUME NEW p \in Procs, acquire(p)
      PROVE  CountInv'
  BY <1>1, <1>2 DEF acquire, Pending
<1>3. ASSUME NEW p \in Procs, store(p)
      PROVE  CountInv'
  <2> DEFINE g == file[p]
  <2>1. /\ pc[p] = "store" /\ g \in Files
        /\ content' = [content EXCEPT ![g] = @ + 1] /\ updates' = updates
    BY <1>3, StoreEffect DEF FilesTypes
  <2>2. /\ pc'[p] # "store"
        /\ pc'[p] = "notify" => targetToConfigHandler(g).storesFirst /\ file'[p] = g
        /\ \A q \in Procs \ {p} : pc'[q] = pc[q] /\ file'[q] = file[q]
    <3>1. CASE /\ handler(p).storesFirst
               /\ goto(p, "notify") /\ file' = file
      BY <3>1 DEF goto, handler, FilesTypes
    <3>2. CASE finish(p)
      BY <3>2 DEF finish, goto, FilesTypes
    <3> QED BY <1>3, <3>1, <3>2, StoreEffect
  <2> HIDE DEF g
  <2> SUFFICES ASSUME NEW f \in Files
               PROVE  /\ IsFiniteSet(Pending(f)')
                      /\ content'[f] + Cardinality(Pending(f)') <= updates'
    BY DEF CountInv
  <2>3. content[f] \in Nat /\ updates \in Nat
    BY DEF FilesTypes
  <2>4. IsFiniteSet(Pending(f)) /\ content[f] + Cardinality(Pending(f)) <= updates
    BY DEF CountInv
  <2>5. CASE f = g
    <3>1. p \in Pending(f)
      BY <2>1, <2>5 DEF Pending, g
    <3>2. Pending(f)' = Pending(f) \ {p}
      BY <2>1, <2>2, <2>5 DEF Pending
    <3>3. /\ IsFiniteSet(Pending(f) \ {p}) /\ Cardinality(Pending(f)) \in Nat
          /\ Cardinality(Pending(f) \ {p}) = Cardinality(Pending(f)) - 1
      BY <2>4, <3>1, FS_RemoveElement, FS_CardinalityType
    <3>4. content'[f] = content[f] + 1
      BY <2>1, <2>5 DEF FilesTypes
    <3> QED BY <2>1, <2>3, <2>4, <3>2, <3>3, <3>4
  <2>6. CASE f # g
    <3>1. Pending(f)' = Pending(f)
      BY <2>1, <2>2, <2>6 DEF Pending, g
    <3>2. content'[f] = content[f]
      BY <2>1, <2>6 DEF FilesTypes
    <3> QED BY <2>1, <2>4, <3>1, <3>2
  <2> QED BY <2>5, <2>6
<1>4. ASSUME NEW p \in Procs, notifyUpdate(p)
      PROVE  CountInv'
  <2>1. pc[p] = "notify" /\ UNCHANGED <<content, updates>>
    BY <1>4, NotifyEffect
  <2>2. CASE handler(p).storesFirst /\ finish(p)
    <3>1. \A f \in Files : Pending(f)' = Pending(f)
      BY <2>1, <2>2 DEF Pending, finish, goto, handler, FilesTypes
    <3> QED BY <1>1, <2>1, <3>1
  <2>3. CASE ~handler(p).storesFirst /\ goto(p, "store") /\ UNCHANGED <<lock, file>>
    <3>1. \A f \in Files : Pending(f)' = Pending(f)
      BY <2>1, <2>3 DEF Pending, goto, handler, FilesTypes
    <3> QED BY <1>1, <2>1, <3>1
  <2> QED BY <1>4, <2>2, <2>3, NotifyEffect
<1>5. ASSUME NEW p \in Procs, NEW g \in Files, NEW locks \in Seq(Locks), Update(p, g, locks)
      PROVE  CountInv'
  <2>1. /\ pc[p] = "idle" /\ updates' = updates + 1 /\ content' = content
        /\ file' = [file EXCEPT ![p] = g]
    BY <1>5 DEF Update, begin, at
  <2>2. goto(p, IF targetToConfigHandler(g).storesFirst THEN "store" ELSE "notify")
    BY <1>5, Zenon DEF Update, begin
  <2>3. \/ pc' = [pc EXCEPT ![p] = "store"]
        \/ pc' = [pc EXCEPT ![p] = "notify"] /\ ~targetToConfigHandler(g).storesFirst
    BY <2>2 DEF goto
  <2> SUFFICES ASSUME NEW f \in Files
               PROVE  /\ IsFiniteSet(Pending(f)')
                      /\ content'[f] + Cardinality(Pending(f)') <= updates'
    BY DEF CountInv
  <2>4. content[f] \in Nat /\ updates \in Nat
    BY DEF FilesTypes
  <2>5. IsFiniteSet(Pending(f)) /\ content[f] + Cardinality(Pending(f)) <= updates
    BY DEF CountInv
  <2>6. Cardinality(Pending(f)) \in Nat
    BY <2>5, FS_CardinalityType
  <2>7. CASE f = g
    <3>1. p \notin Pending(f) /\ Pending(f)' = Pending(f) \cup {p}
      BY <2>1, <2>3, <2>7 DEF Pending, FilesTypes
    <3>2. /\ IsFiniteSet(Pending(f) \cup {p})
          /\ Cardinality(Pending(f) \cup {p}) = Cardinality(Pending(f)) + 1
      BY <2>5, <3>1, FS_AddElement
    <3> QED BY <2>1, <2>4, <2>5, <2>6, <3>1, <3>2
  <2>8. CASE f # g
    <3>1. Pending(f)' = Pending(f)
      BY <2>1, <2>3, <2>8 DEF Pending, FilesTypes
    <3> QED BY <2>1, <2>4, <2>5, <2>6, <3>1
  <2> QED BY <2>7, <2>8
<1>6. ASSUME NEW c \in Clients, pc[c] \notin {"store", "notify"},
             NEW label \in {"idle", "opened", "get", "copy", "eof", "error"}, goto(c, label),
             \A q \in Procs \ {c} : file'[q] = file[q],
             content' = content, updates' = updates
      PROVE  CountInv'
  <2>1. \A g \in Files : Pending(g)' = Pending(g)
    BY <1>6 DEF Pending, goto, FilesTypes, Procs
  <2> QED BY <1>1, <1>6, <2>1
<1>7. ASSUME NEW c \in Clients, NEW f \in Readable, open(c, f)
      PROVE  CountInv'
  BY <1>6, <1>7 DEF open, at, FilesTypes
<1>8. ASSUME NEW c \in Clients, readConfig(c)
      PROVE  CountInv'
  BY <1>6, <1>8 DEF readConfig, at
<1>9. ASSUME NEW c \in Clients, getValue(c)
      PROVE  CountInv'
  BY <1>6, <1>9 DEF getValue, at
<1>10. ASSUME NEW c \in Clients, read(c)
       PROVE  CountInv'
  <2>1. PICK label \in {"error", "eof", "opened"} : goto(c, label)
    BY <1>10, Zenon DEF read
  <2>2. pc[c] = "copy" /\ UNCHANGED <<content, updates, file>>
    BY <1>10 DEF read, at
  <2> QED BY <1>6, <2>1, <2>2
<1>11. ASSUME NEW c \in Clients, release(c)
       PROVE  CountInv'
  BY <1>6, <1>11 DEF release, FilesTypes
<1> QED BY <1>2, <1>3, <1>4, <1>5, <1>7, <1>8, <1>9, <1>10, <1>11 DEF FilesStep

LEMMA CountInvariant == FilesSpec => []CountInv
<1>1. FilesInit => CountInv
  <2> SUFFICES ASSUME FilesInit, NEW f \in Files
               PROVE  IsFiniteSet(Pending(f)) /\ content[f] + Cardinality(Pending(f)) <= updates
    BY DEF CountInv
  <2>1. Pending(f) = {}
    BY DEF Pending, FilesInit
  <2>2. IsFiniteSet({}) /\ Cardinality({}) = 0
    BY FS_EmptySet
  <2> QED BY <2>1, <2>2 DEF FilesInit
<1>2. FilesTypes /\ CountInv /\ [FilesNext]_filesVars => CountInv'
  <2>1. CountInv /\ UNCHANGED filesVars => CountInv'
    BY DEF filesVars, procVars, CountInv, Pending
  <2> QED BY <2>1, CountInvStep, StepsOfFiles
<1> QED BY <1>1, <1>2, FilesTypesInvariant, PTL DEF FilesSpec

(* So every size a read may find is a number.                              *)
LEMMA SizesAreNumbers ==
  ASSUME FilesTypes, CountInv, NEW f \in Files, NEW conf \in found(f)
  PROVE  /\ conf[2] \in Nat
         /\ conf[1] \in {content[f], Torn}
         /\ conf[1] = content[f] => conf[2] = ContentSize(content[f])
         /\ conf[1] = Torn => beingStored(f)
<1>1. content[f] \in Nat /\ updates \in 0..MaxUpdates /\ MaxUpdates \in Nat
  BY FilesSets DEF FilesTypes
<1>2. IsFiniteSet(Pending(f)) /\ content[f] + Cardinality(Pending(f)) <= updates
  BY DEF CountInv
<1>3. Cardinality(Pending(f)) \in Nat
  BY <1>2, FS_CardinalityType
<1>4. content[f] \in 0..MaxUpdates
  BY <1>1, <1>2, <1>3
<1>5. ContentSize(content[f]) \in Nat
  BY <1>4, FilesAssumption
<1>6. CASE conf = <<content[f], ContentSize(content[f])>>
  BY <1>1, <1>5, <1>6, FilesSets
<1>7. CASE conf = <<Torn, ContentSize(content[f] + 1)>> /\ beingStored(f)
  <2>1. PICK p \in Procs : pc[p] = "store" /\ file[p] = f
    BY <1>7 DEF beingStored, at
  <2>2. p \in Pending(f)
    BY <2>1 DEF Pending
  <2>3. Cardinality(Pending(f)) # 0
    BY <1>2, <2>2, FS_EmptySet
  <2>4. content[f] + 1 \in 0..MaxUpdates
    BY <1>1, <1>2, <1>3, <2>3
  <2>5. ContentSize(content[f] + 1) \in Nat
    BY <2>4, FilesAssumption
  <2> QED BY <1>1, <1>7, <2>5, FilesSets
<1> QED BY <1>6, <1>7 DEF found

-----------------------------------------------------------------------------
(* The steps of one process, and what they leave to the others.            *)
StepOf(p) ==
  \/ acquire(p) \/ store(p) \/ notifyUpdate(p)
  \/ \E f \in Files : \E locks \in Seq(Locks) : Update(p, f, locks)
  \/ /\ p \in Clients
     /\ \/ \E f \in Readable : open(p, f)
        \/ readConfig(p) \/ getValue(p) \/ read(p) \/ release(p)

Others(p) ==
  \A q \in Procs \ {p} :
    /\ pc'[q] = pc[q] /\ file'[q] = file[q] /\ plan'[q] = plan[q]
    /\ \A l \in Locks : lock'[l] = q <=> lock[l] = q

LEMMA SomebodySteps == FilesStep => \E p \in Procs : StepOf(p)
  BY Zenon DEF FilesStep, StepOf, Procs

LEMMA OthersStay ==
  ASSUME FilesTypes, NEW p \in Procs, StepOf(p)
  PROVE  Others(p)
<1> USE FilesSets
<1>0. \A q \in Procs \ {p}, l \in Locks : released(p)[l] = q <=> lock[l] = q
  BY DEF released, FilesTypes
<1>1. ASSUME finish(p), plan' = plan
       PROVE  Others(p)
  <2>1. \A q \in Procs \ {p} : pc'[q] = pc[q] /\ file'[q] = file[q] /\ plan'[q] = plan[q]
    BY <1>1 DEF finish, goto, FilesTypes
  <2>2. lock' = released(p)
    BY <1>1 DEF finish
  <2> QED BY <1>0, <2>1, <2>2 DEF Others
<1>2. CASE acquire(p)
  BY <1>2 DEF acquire, Others, FilesTypes
<1>3. CASE store(p)
  <2>1. CASE goto(p, "notify") /\ file' = file /\ lock' \in {lock, released(p)}
    BY <1>0, <1>3, <2>1, StoreEffect DEF goto, Others, FilesTypes
  <2>2. CASE finish(p)
    BY <1>1, <1>3, <2>2, StoreEffect
  <2> QED BY <1>3, <2>1, <2>2, StoreEffect
<1>4. CASE notifyUpdate(p)
  <2>1. CASE goto(p, "store") /\ UNCHANGED <<lock, file>>
    BY <1>4, <2>1, NotifyEffect DEF goto, Others, FilesTypes
  <2>2. CASE finish(p)
    BY <1>1, <1>4, <2>2, NotifyEffect
  <2> QED BY <1>4, <2>1, <2>2, NotifyEffect
<1>5. ASSUME NEW f \in Files, NEW locks \in Seq(Locks), Update(p, f, locks)
      PROVE  Others(p)
  <2>1. PICK label \in {"store", "notify"} : goto(p, label)
    BY <1>5, Zenon DEF Update, begin
  <2>2. /\ plan' = [plan EXCEPT ![p] = locks] /\ lock' = lock
        /\ file' = [file EXCEPT ![p] = f]
    BY <1>5 DEF Update, begin
  <2> QED BY <2>1, <2>2 DEF goto, Others, FilesTypes
<1>6. ASSUME NEW f \in Readable, open(p, f)
      PROVE  Others(p)
  BY <1>6 DEF open, goto, Others, FilesTypes
<1>7. CASE readConfig(p)
  BY <1>7 DEF readConfig, goto, Others, FilesTypes
<1>8. CASE getValue(p)
  BY <1>8 DEF getValue, goto, Others, FilesTypes
<1>9. CASE read(p)
  <2>1. PICK label \in {"error", "eof", "opened"} : goto(p, label)
    BY <1>9, Zenon DEF read
  <2>2. lock' = released(p) /\ UNCHANGED <<file, plan>>
    BY <1>9 DEF read
  <2> QED BY <1>0, <2>1, <2>2 DEF goto, Others, FilesTypes
<1>10. CASE release(p)
  BY <1>10 DEF release, goto, Others, FilesTypes
<1> QED BY <1>2, <1>3, <1>4, <1>5, <1>6, <1>7, <1>8, <1>9, <1>10 DEF StepOf

-----------------------------------------------------------------------------
(* NotifiedReadIsNew.  A value that is notified before it is stored is     *)
(* notified, stored and read under the lock of the variables.              *)
SF(f) == targetToConfigHandler(f).storesFirst
Updatable(f) ==
  targetToConfigHandler(f).write # <<>> \/ targetToConfigHandler(f).assign # <<>>

Updating == {"store", "notify"}

GuardOf(p) ==
  /\ pc[p] \in Updating => Updatable(file[p])
  /\ pc[p] = "store" /\ ~SF(file[p]) => plan[p] = <<>>
  /\ (pc[p] \in Updating \/ (pc[p] = "get" /\ Updatable(file[p]))) /\ ~SF(file[p])
     => lock["vd"] = p \/ Mentions(plan[p], "vd")

GuardInv == \A p \in Procs : GuardOf(p)

LEMMA MentionsTail ==
  ASSUME NEW s \in Seq(Locks), s # <<>>, Mentions(s, "vd"), Head(s) # "vd"
  PROVE  Mentions(Tail(s), "vd")
<1>1. PICK i \in 1..Len(s) : s[i] = "vd"
  BY DEF Mentions
<1>2. i # 1 /\ Len(s) \in Nat
  BY <1>1
<1>3. i - 1 \in 1..Len(Tail(s)) /\ Tail(s)[i - 1] = s[i]
  BY <1>2
<1> QED BY <1>1, <1>3 DEF Mentions

LEMMA GuardInvStep ==
  ASSUME FilesTypes, GuardInv, NEW p \in Procs, StepOf(p)
  PROVE  GuardInv'
<1> USE FilesSets
<1>0. "vd" \in Locks
  BY DEF Locks
<1>1. \A q \in Procs \ {p} : GuardOf(q)'
  BY <1>0, OthersStay DEF GuardInv, GuardOf, Others
<1> SUFFICES GuardOf(p)'
  BY <1>1 DEF GuardInv
<1>2. GuardOf(p)
  BY DEF GuardInv
<1>3. CASE acquire(p)
  <2> DEFINE h == Head(plan[p])
  <2>1. /\ plan[p] \in Seq(Locks) /\ plan[p] # <<>> /\ h \in Locks /\ lock[h] = Free
        /\ lock' = [lock EXCEPT ![h] = p] /\ plan' = [plan EXCEPT ![p] = Tail(plan[p])]
        /\ pc' = pc /\ file' = file
    BY <1>3 DEF acquire, FilesTypes
  <2>2. lock["vd"] = p => lock'["vd"] = p
    BY <1>0, <2>1 DEF FilesTypes
  <2>3. h = "vd" => lock'["vd"] = p
    BY <1>0, <2>1 DEF FilesTypes
  <2>4. plan'[p] = Tail(plan[p])
    BY <2>1 DEF FilesTypes
  <2>5. Mentions(plan[p], "vd") => lock'["vd"] = p \/ Mentions(plan'[p], "vd")
    BY <2>1, <2>3, <2>4, MentionsTail
  <2> QED BY <1>2, <2>1, <2>2, <2>5 DEF GuardOf
<1>4. CASE store(p)
  <2>1. CASE SF(file[p]) /\ pc'[p] = "notify" /\ file' = file
    BY <1>2, <1>4, <2>1, StoreEffect DEF GuardOf, Updating
  <2>2. CASE pc'[p] = "idle"
    BY <2>2 DEF GuardOf, Updating
  <2> QED BY <1>4, <2>1, <2>2, StoreEffect DEF goto, finish, SF, handler, FilesTypes
<1>5. CASE notifyUpdate(p)
  <2>1. CASE ~SF(file[p]) /\ pc'[p] = "store" /\ UNCHANGED <<lock, file>>
    BY <1>2, <1>5, <2>1, NotifyEffect DEF GuardOf, Updating
  <2>2. CASE pc'[p] = "idle"
    BY <2>2 DEF GuardOf, Updating
  <2> QED BY <1>5, <2>1, <2>2, NotifyEffect DEF goto, finish, SF, handler, FilesTypes
<1>6. ASSUME NEW f \in Files, NEW locks \in Seq(Locks), Update(p, f, locks)
      PROVE  GuardOf(p)'
  <2>1. file'[p] = f /\ plan'[p] = locks /\ locks # <<>>
        /\ locks \in {targetToConfigHandler(f).write, targetToConfigHandler(f).assign}
    BY <1>6 DEF Update, begin, FilesTypes
  <2>2. goto(p, IF SF(f) THEN "store" ELSE "notify")
    BY <1>6, Zenon DEF Update, begin, SF
  <2>3. (pc'[p] = "store" /\ SF(f)) \/ (pc'[p] = "notify" /\ ~SF(f))
    BY <2>2 DEF goto, FilesTypes
  <2>4. Updatable(f)
    BY <2>1 DEF Updatable
  <2>5. ~SF(f) => Mentions(locks, "vd")
    BY <2>1, HandlersAreOrdered DEF HandlerFacts, SF
  <2> QED BY <2>1, <2>3, <2>4, <2>5 DEF GuardOf, Updating
<1>7. CASE p \in Clients /\ readConfig(p)
  <2>1. pc[p] = "opened" /\ file[p] \in Files
    BY <1>7 DEF readConfig, at, FilesTypes
  <2>2. pc'[p] = "get" /\ file' = file /\ plan'[p] = targetToConfigHandler(file[p]).read
    BY <1>7 DEF readConfig, goto, handler, FilesTypes
  <2>3. ~SF(file[p]) /\ Updatable(file[p])
        => Mentions(targetToConfigHandler(file[p]).read, "vd")
    BY <2>1, HandlersAreOrdered DEF HandlerFacts, SF, Updatable
  <2> QED BY <2>2, <2>3 DEF GuardOf, Updating
<1>8. CASE pc'[p] \in {"idle", "opened", "copy", "eof", "error"}
  BY <1>8 DEF GuardOf, Updating
<1>9. ASSUME p \in Clients, (\E f \in Readable : open(p, f)) \/ getValue(p) \/ release(p)
      PROVE  pc'[p] \in {"idle", "opened", "copy", "eof", "error"}
  BY <1>9 DEF open, getValue, release, goto, FilesTypes
<1>10. ASSUME p \in Clients, read(p)
       PROVE  pc'[p] \in {"idle", "opened", "copy", "eof", "error"}
  <2>1. PICK label \in {"error", "eof", "opened"} : goto(p, label)
    BY <1>10, Zenon DEF read
  <2> QED BY <2>1 DEF goto, FilesTypes
<1> QED BY <1>3, <1>4, <1>5, <1>6, <1>7, <1>8, <1>9, <1>10 DEF StepOf

(* Only an update that has notified and not stored yet is ahead of the     *)
(* content, and it holds the lock of the variables.                        *)
Announced(p, f) ==
  /\ pc[p] = "store" /\ file[p] = f /\ plan[p] = <<>>
  /\ ~SF(f) /\ lock["vd"] = p
  /\ notified[f] = content[f] + 1

NoticeInv ==
  \A f \in Files : notified[f] <= content[f] \/ \E p \in Procs : Announced(p, f)

(* An update that stores or notifies holds the lock, unless its file is    *)
(* stored first; so then nothing else is ahead.                            *)
LEMMA NobodyElseAhead ==
  ASSUME FilesTypes, GuardInv, NoticeInv, NEW p \in Procs, plan[p] = <<>>,
         pc[p] \in {"store", "notify", "get"}, pc[p] # "get" \/ Updatable(file[p])
  PROVE  /\ ~SF(file[p]) => lock["vd"] = p
         /\ ~SF(file[p]) => \A f \in Files, q \in Procs : Announced(q, f) => q = p
         /\ SF(file[p]) => notified[file[p]] <= content[file[p]]
<1>1. ~Mentions(plan[p], "vd")
  BY DEF Mentions
<1>2. ~SF(file[p]) => lock["vd"] = p
  BY <1>1 DEF GuardInv, GuardOf, Updating
<1>3. file[p] \in Files
  BY DEF FilesTypes
<1> QED BY <1>2, <1>3 DEF Announced, NoticeInv

(* The versions only grow.                                                 *)
LEMMA NoticeStep ==
  ASSUME FilesTypes, GuardInv, NoticeInv, NEW p \in Procs, StepOf(p)
  PROVE  /\ NoticeInv'
         /\ \A f \in Files : notified[f] <= notified'[f] /\ content[f] <= content'[f]
<1> USE FilesSets
<1>0. /\ \A f \in Files : content[f] \in Nat /\ notified[f] \in Nat
      /\ "vd" \in Locks
  BY DEF FilesTypes, Locks
<1>1. ASSUME content' = content, notified' = notified, pc[p] # "store" \/ plan[p] # <<>>
      PROVE  /\ NoticeInv'
             /\ \A f \in Files : notified[f] <= notified'[f] /\ content[f] <= content'[f]
  <2>1. \A f \in Files, q \in Procs : Announced(q, f) => Announced(q, f)'
    BY <1>0, <1>1, OthersStay DEF Announced, Others
  <2> QED BY <1>0, <1>1, <2>1 DEF NoticeInv
<1>2. CASE store(p)
  <2> DEFINE g == file[p]
  <2>1. /\ pc[p] = "store" /\ plan[p] = <<>> /\ g \in Files
        /\ content' = [content EXCEPT ![g] = @ + 1] /\ notified' = notified
    BY <1>2, StoreEffect DEF FilesTypes
  <2>2. /\ ~SF(g) => \A f \in Files, q \in Procs : Announced(q, f) => q = p
        /\ SF(g) => notified[g] <= content[g]
    BY <2>1, NobodyElseAhead
  <2> HIDE DEF g
  <2>3. content'[g] = content[g] + 1 /\ \A f \in Files \ {g} : content'[f] = content[f]
    BY <2>1 DEF FilesTypes
  <2>4. ASSUME NEW f \in Files
        PROVE  notified'[f] <= content'[f] \/ \E q \in Procs : Announced(q, f)'
    <3>1. CASE f = g
      <4>1. notified[g] <= content[g] + 1
        BY <1>0, <3>1 DEF NoticeInv, Announced
      <4> QED BY <2>1, <2>3, <3>1, <4>1
    <3>2. CASE f # g
      <4>1. ASSUME NEW q \in Procs, Announced(q, f)
            PROVE  Announced(q, f)'
        <5>1. q # p
          BY <3>2, <4>1 DEF Announced, g
        <5> QED BY <1>0, <2>1, <2>3, <3>2, <4>1, <5>1, OthersStay DEF Announced, Others
      <4> QED BY <2>1, <2>3, <3>2, <4>1 DEF NoticeInv
    <3> QED BY <3>1, <3>2
  <2>5. \A f \in Files : content[f] <= content'[f]
    BY <1>0, <2>3
  <2> QED BY <1>0, <2>1, <2>4, <2>5 DEF NoticeInv
<1>3. CASE notifyUpdate(p)
  <2> DEFINE g == file[p]
  <2>1. pc[p] = "notify" /\ plan[p] = <<>> /\ g \in Files /\ content' = content
    BY <1>3, NotifyEffect DEF FilesTypes
  <2>2. /\ ~SF(g) => \A f \in Files, q \in Procs : Announced(q, f) => q = p
        /\ SF(g) => notified[g] <= content[g]
        /\ ~SF(g) => lock["vd"] = p
    BY <2>1, NobodyElseAhead
  <2>3. \A f \in Files : ~Announced(p, f)
    BY <2>1 DEF Announced
  <2>4. notified[g] <= content[g]
    BY <2>1, <2>2, <2>3 DEF NoticeInv
  <2>5. CASE notified' = notified
    BY <1>1, <2>1, <2>5
  <2>6. CASE SF(g) /\ notified' = [notified EXCEPT ![g] = content[g]]
    <3>1. notified'[g] = content[g] /\ \A f \in Files \ {g} : notified'[f] = notified[f]
      BY <2>1, <2>6 DEF FilesTypes
    <3>2. ASSUME NEW f \in Files, f # g, NEW q \in Procs, Announced(q, f)
          PROVE  Announced(q, f)'
      <4>1. q # p
        BY <2>3, <3>2
      <4> QED BY <1>0, <2>1, <3>1, <3>2, <4>1, OthersStay DEF Announced, Others
    <3> QED BY <1>0, <2>1, <2>4, <3>1, <3>2 DEF NoticeInv
  <2>7. CASE /\ ~SF(g) /\ goto(p, "store") /\ UNCHANGED <<lock, file>>
             /\ notified' = [notified EXCEPT ![g] = content[g] + 1]
    <3>1. notified'[g] = content[g] + 1 /\ \A f \in Files \ {g} : notified'[f] = notified[f]
      BY <2>1, <2>7 DEF FilesTypes
    <3>2. Announced(p, g)'
      <4>1. pc'[p] = "store" /\ plan'[p] = <<>> /\ file'[p] = g /\ lock'["vd"] = p
        BY <1>3, <2>1, <2>2, <2>7, NotifyEffect DEF goto, FilesTypes
      <4> QED BY <2>1, <2>7, <3>1, <4>1 DEF Announced
    <3>3. \A f \in Files \ {g} : notified'[f] <= content'[f]
      BY <2>1, <2>2, <2>3, <2>7, <3>1 DEF NoticeInv
    <3>4. NoticeInv'
      BY <2>7, <3>2, <3>3 DEF NoticeInv
    <3> QED BY <1>0, <2>1, <2>4, <3>1, <3>4
  <2> QED BY <1>3, <2>5, <2>6, <2>7, NotifyEffect DEF SF, handler
<1>4. CASE acquire(p)
  BY <1>1, <1>4 DEF acquire
<1>5. ASSUME NEW f \in Files, NEW locks \in Seq(Locks), Update(p, f, locks)
      PROVE  content' = content /\ notified' = notified /\ pc[p] # "store"
  BY <1>5 DEF Update, begin, at
<1>6. ASSUME \/ \E f \in Readable : open(p, f)
             \/ readConfig(p) \/ getValue(p) \/ read(p) \/ release(p)
      PROVE  content' = content /\ notified' = notified /\ pc[p] # "store"
  <2>1. (\E f \in Readable : open(p, f)) \/ readConfig(p) \/ getValue(p) \/ release(p)
        => content' = content /\ notified' = notified /\ pc[p] # "store"
    BY DEF open, readConfig, getValue, release, at
  <2>2. read(p) => content' = content /\ notified' = notified /\ pc[p] # "store"
    BY DEF read, at
  <2> QED BY <1>6, <2>1, <2>2
<1> QED BY <1>1, <1>2, <1>3, <1>4, <1>5, <1>6 DEF StepOf

-----------------------------------------------------------------------------
(* Reading.                                                                *)
Bytes == (Nat \cup {Torn}) \X Nat

IsChunk(s, version, size, offset) ==
  /\ s \in Seq(Bytes)
  /\ Len(s) <= size - offset
  /\ offset = size => s = <<>>
  /\ offset # size => Len(s) # 0
  /\ \A k \in 1..Len(s) : s[k][1] = version

LEMMA ChunkFacts ==
  ASSUME NEW version \in Nat \cup {Torn}, NEW size \in Nat, NEW offset \in Nat, offset <= size
  PROVE  IsChunk(chunk(version, size, offset), version, size, offset)
<1> DEFINE s == chunk(version, size, offset)
<1> DEFINE n == IF size - offset < ChunkSize THEN size - offset ELSE ChunkSize
<1>0. ChunkSize \in Nat \ {0}
  BY FilesAssumption
<1>1. n \in Nat /\ n <= size - offset /\ (offset = size => n = 0) /\ (offset # size => n # 0)
  BY <1>0
<1>2. s = [k \in 1..n |-> <<version, offset + k>>]
  BY DEF chunk
<1> HIDE DEF n, s
<1>3. \A k \in 1..n : <<version, offset + k>> \in Bytes
  BY <1>1 DEF Bytes
<1>4. s \in Seq(Bytes) /\ Len(s) = n
  <2>1. s \in [1..n -> Bytes]
    BY <1>2, <1>3
  <2>2. s \in Seq(Bytes)
    BY <1>1, <2>1, SeqDef
  <2>3. DOMAIN s = 1..n
    BY <2>1
  <2> QED BY <1>1, <2>2, <2>3, LenProperties
<1>5. \A k \in 1..Len(s) : s[k][1] = version
  <2>1. \A k \in 1..n : s[k] = <<version, offset + k>>
    BY <1>2
  <2> QED BY <1>4, <2>1
<1>6. offset = size => s = <<>>
  BY <1>1, <1>4, EmptySeq
<1>7. IsChunk(s, version, size, offset)
  BY <1>1, <1>4, <1>5, <1>6 DEF IsChunk
<1> QED BY <1>7 DEF s

(* The bytes a client has when it has read another chunk.                  *)
Extended(old, new, version, size) ==
  /\ new \in Seq(Bytes)
  /\ Len(new) <= size
  /\ Len(old) = size => new = old
  /\ Len(old) # size => Len(new) > Len(old)
  /\ \A k \in 1..Len(old) : k \in 1..Len(new) /\ new[k] = old[k]
  /\ \A k \in 1..Len(new) : k > Len(old) => new[k][1] = version

LEMMA ChunkAppended ==
  ASSUME NEW old \in Seq(Bytes), NEW version \in Nat \cup {Torn}, NEW size \in Nat,
         Len(old) <= size
  PROVE  Extended(old, old \o chunk(version, size, Len(old)), version, size)
<1> DEFINE offset == Len(old)
           s == chunk(version, size, offset)
           new == old \o s
<1>1. IsChunk(s, version, size, offset)
  BY ChunkFacts
<1>2. offset \in Nat
  OBVIOUS
<1> HIDE DEF s
<1>4. /\ s \in Seq(Bytes)
      /\ Len(s) <= size - offset
      /\ offset = size => s = <<>>
      /\ offset # size => Len(s) # 0
      /\ \A k \in 1..Len(s) : s[k][1] = version
  BY <1>1 DEF IsChunk
<1>5. Len(s) \in Nat
  BY <1>4
<1>6. /\ new \in Seq(Bytes) /\ Len(new) = offset + Len(s)
      /\ \A k \in 1..offset + Len(s) : new[k] = IF k <= offset THEN old[k] ELSE s[k - offset]
  BY <1>4, ConcatProperties
<1>7. Len(new) <= size /\ (offset # size => Len(new) > offset)
  BY <1>2, <1>4, <1>5, <1>6
<1>8. offset = size => new = old
  BY <1>4, ConcatEmptySeq
<1> HIDE DEF new
<1>9. \A k \in 1..offset : k \in 1..Len(new) /\ new[k] = old[k]
  BY <1>2, <1>5, <1>6
<1>10. ASSUME NEW k \in 1..Len(new), k > offset
       PROVE  new[k][1] = version
  <2>1. k - offset \in 1..Len(s) /\ ~(k <= offset) /\ k \in 1..offset + Len(s)
    BY <1>2, <1>5, <1>6, <1>10
  <2>2. new[k] = s[k - offset]
    BY <1>6, <2>1
  <2> QED BY <1>4, <2>1, <2>2
<1>11. Extended(old, new, version, size)
  BY <1>6, <1>7, <1>8, <1>9, <1>10 DEF Extended
<1> QED BY <1>11 DEF new, s

(* The ways a read may end.                                                *)
LEMMA ReadEffect ==
  ASSUME FilesTypes, CountInv, NEW c \in Clients, read(c), Len(got[c]) \in Nat
  PROVE  /\ pc[c] = "copy" /\ UNCHANGED <<content, notified, file, want>>
         /\ file[c] \in Files
         /\ \E conf \in found(file[c]) :
              \/ conf[2] = 0 /\ goto(c, "eof") /\ got' = got
              \/ conf[2] # 0 /\ Len(got[c]) > conf[2] /\ goto(c, "error") /\ got' = got
              \/ /\ conf[2] # 0 /\ Len(got[c]) <= conf[2]
                 /\ goto(c, IF Len(got[c]) = conf[2] THEN "eof" ELSE "opened")
                 /\ got' = [got EXCEPT ![c] = @ \o chunk(conf[1], conf[2], Len(got[c]))]
<1>1. pc[c] = "copy" /\ UNCHANGED <<content, notified, file, want>>
  BY DEF read, at
<1>2. file[c] \in Files
  BY <1>1 DEF FilesTypes, Procs
<1> DEFINE offset == Len(got[c])
<1>3. PICK conf \in found(file[c]) :
        IF conf[2] = 0 \/ (conf[2] # 0 /\ beyond(offset, conf[2]))
          THEN /\ goto(c, IF conf[2] # 0 /\ beyond(offset, conf[2]) THEN "error" ELSE "eof")
               /\ UNCHANGED got
          ELSE /\ goto(c, IF offset = conf[2] THEN "eof" ELSE "opened")
               /\ got' = [got EXCEPT ![c] = @ \o chunk(conf[1], conf[2], offset)]
  BY Zenon DEF read
<1>4. conf[2] \in Nat
  BY <1>2, SizesAreNumbers
<1>5. CASE conf[2] = 0
  BY <1>1, <1>2, <1>3, <1>5
<1>6. CASE conf[2] # 0 /\ offset > conf[2]
  BY <1>1, <1>2, <1>3, <1>6 DEF beyond
<1>7. CASE conf[2] # 0 /\ offset <= conf[2]
  <2>1. ~beyond(offset, conf[2])
    BY <1>4, <1>7 DEF beyond
  <2>2. /\ goto(c, IF offset = conf[2] THEN "eof" ELSE "opened")
        /\ got' = [got EXCEPT ![c] = @ \o chunk(conf[1], conf[2], offset)]
    BY <1>3, <1>7, <2>1
  <2> QED BY <1>1, <1>2, <1>7, <2>2
<1>8. conf[2] = 0 \/ (conf[2] # 0 /\ offset > conf[2]) \/ (conf[2] # 0 /\ offset <= conf[2])
  BY <1>4
<1> QED BY <1>5, <1>6, <1>7, <1>8, Zenon

LEMMA ReadChunk ==
  ASSUME FilesTypes, CountInv, got \in [Clients -> Seq(Bytes)], NEW c \in Clients,
         file[c] \in Files, NEW conf \in found(file[c]), Len(got[c]) <= conf[2],
         got' = [got EXCEPT ![c] = @ \o chunk(conf[1], conf[2], Len(got[c]))]
  PROVE  Extended(got[c], got'[c], conf[1], conf[2])
<1>1. got[c] \in Seq(Bytes) /\ got'[c] = got[c] \o chunk(conf[1], conf[2], Len(got[c]))
  OBVIOUS
<1>2. conf[2] \in Nat /\ conf[1] \in Nat \cup {Torn}
  BY SizesAreNumbers DEF FilesTypes
<1> QED BY <1>1, <1>2, ChunkAppended

(* What the steps of a process leave of the others' reads.                 *)
LEMMA OthersRead ==
  ASSUME FilesTypes, CountInv, got \in [Clients -> Seq(Bytes)], NEW p \in Procs, StepOf(p)
  PROVE  /\ \A c \in Clients \ {p} : got'[c] = got[c] /\ want'[c] = want[c]
         /\ \/ got' = got /\ want' = want
            \/ p \in Clients /\ ((\E f \in Readable : open(p, f)) \/ read(p) \/ release(p))
<1>1. CASE store(p)
  BY <1>1, StoreEffect
<1>2. CASE notifyUpdate(p)
  BY <1>2, NotifyEffect
<1>3. CASE acquire(p)
  BY <1>3 DEF acquire, clientVars
<1>4. CASE \E f \in Files : \E locks \in Seq(Locks) : Update(p, f, locks)
  BY <1>4 DEF Update, begin, clientVars
<1>5. CASE readConfig(p) \/ getValue(p)
  BY <1>5 DEF readConfig, getValue, clientVars
<1>6. CASE p \in Clients /\ ((\E f \in Readable : open(p, f)) \/ release(p))
  BY <1>6 DEF open, release, FilesTypes
<1>7. CASE p \in Clients /\ read(p)
  <2>1. want' = want /\ (got' = got \/ \E s : got' = [got EXCEPT ![p] = s])
    BY <1>7, ReadEffect
  <2> QED BY <1>7, <2>1
<1> QED BY <1>1, <1>2, <1>3, <1>4, <1>5, <1>6, <1>7 DEF StepOf

(* What a client was notified of before it opened the file.                *)
NewerOf(c) ==
  /\ pc[c] \in Reading => want[c] <= notified[file[c]]
  /\ pc[c] = "copy" => want[c] <= content[file[c]]
  /\ \A k \in 1..Len(got[c]) : got[c][k][1] = Torn \/ got[c][k][1] >= want[c]

NewerInv == got \in [Clients -> Seq(Bytes)] /\ \A c \in Clients : NewerOf(c)

LEMMA NewerInvStep ==
  ASSUME FilesTypes, CountInv, GuardInv, NoticeInv, NewerInv, NEW p \in Procs, StepOf(p)
  PROVE  NewerInv'
<1> USE FilesSets
<1>0. /\ \A f \in Files : notified[f] \in Nat /\ content[f] \in Nat
                          /\ notified'[f] \in Nat /\ content'[f] \in Nat
      /\ \A f \in Files : notified[f] <= notified'[f] /\ content[f] <= content'[f]
      /\ \A c \in Clients : want[c] \in Nat /\ c \in Procs
      /\ FilesTypes'
  <2>1. FilesTypes'
    BY FilesTypesStep, Zenon DEF FilesStep, StepOf, Procs
  <2> QED BY <2>1, NoticeStep DEF FilesTypes, Procs
<1>1. got \in [Clients -> Seq(Bytes)]
  BY DEF NewerInv
<1>2. ASSUME NEW c \in Clients \ {p}
      PROVE  NewerOf(c)'
  <2>1. pc'[c] = pc[c] /\ file'[c] = file[c] /\ got'[c] = got[c] /\ want'[c] = want[c]
    BY <1>0, <1>1, OthersStay, OthersRead DEF Others
  <2>2. pc[c] \in Reading => file[c] \in Files
    BY <1>0 DEF FilesTypes
  <2>3. want[c] \in Nat /\ NewerOf(c)
    BY <1>0 DEF NewerInv
  <2>4. pc[c] \in Reading => want[c] <= notified'[file[c]]
    BY <1>0, <2>2, <2>3 DEF NewerOf
  <2>5. pc[c] = "copy" => want[c] <= content'[file[c]]
    BY <1>0, <2>2, <2>3 DEF NewerOf, Reading
  <2> QED BY <2>1, <2>3, <2>4, <2>5 DEF NewerOf
<1>3. ASSUME p \in Clients, got' = got, want' = want, file' = file,
             pc'[p] \in Reading => pc[p] \in Reading,
             pc'[p] = "copy" /\ pc[p] # "copy" => want[p] <= content'[file[p]]
      PROVE  NewerOf(p)'
  <2>1. pc[p] \in Reading => file[p] \in Files
    BY <1>0 DEF FilesTypes
  <2>2. want[p] \in Nat /\ NewerOf(p)
    BY <1>0, <1>3 DEF NewerInv
  <2>3. pc'[p] \in Reading => want[p] <= notified'[file[p]]
    BY <1>0, <1>3, <2>1, <2>2 DEF NewerOf
  <2>4. pc'[p] = "copy" => want[p] <= content'[file[p]]
    BY <1>0, <1>3, <2>1, <2>2 DEF NewerOf, Reading
  <2> QED BY <1>3, <2>2, <2>3, <2>4 DEF NewerOf
<1>4. ASSUME p \in Clients, got' = got, want' = want, pc'[p] \notin Reading
      PROVE  NewerOf(p)'
  BY <1>4 DEF NewerInv, NewerOf, Reading
<1>5. ASSUME p \in Clients, StepOf(p)
      PROVE  NewerOf(p)' /\ got'[p] \in Seq(Bytes)
  <2>1. CASE acquire(p)
    <3>1. pc' = pc /\ file' = file /\ got' = got /\ want' = want
      BY <2>1 DEF acquire, clientVars
    <3> QED BY <1>1, <1>3, <1>5, <3>1
  <2>2. CASE store(p)
    <3>1. got' = got /\ want' = want /\ pc'[p] \in {"notify", "idle"}
      BY <2>2, StoreEffect DEF goto, finish, FilesTypes
    <3> QED BY <1>1, <1>4, <1>5, <3>1 DEF Reading
  <2>3. CASE notifyUpdate(p)
    <3>1. got' = got /\ want' = want /\ pc'[p] \in {"store", "idle"}
      BY <2>3, NotifyEffect DEF goto, finish, FilesTypes
    <3> QED BY <1>1, <1>4, <1>5, <3>1 DEF Reading
  <2>4. ASSUME NEW f \in Files, NEW locks \in Seq(Locks), Update(p, f, locks)
        PROVE  NewerOf(p)' /\ got'[p] \in Seq(Bytes)
    <3>1. PICK label \in {"store", "notify"} : goto(p, label)
      BY <2>4, Zenon DEF Update, begin
    <3>2. got' = got /\ want' = want
      BY <2>4 DEF Update, begin, clientVars
    <3>3. pc'[p] \in {"store", "notify"}
      BY <3>1 DEF goto, FilesTypes
    <3> QED BY <1>1, <1>4, <1>5, <3>2, <3>3 DEF Reading
  <2>5. ASSUME NEW f \in Readable, open(p, f)
        PROVE  NewerOf(p)' /\ got'[p] \in Seq(Bytes)
    <3>1. /\ pc'[p] = "opened" /\ file'[p] = f /\ got'[p] = <<>> /\ want'[p] = notified[f]
          /\ notified' = notified
      BY <1>1, <1>5, <2>5 DEF open, goto, FilesTypes
    <3> QED BY <1>0, <3>1 DEF NewerOf, Reading
  <2>6. CASE readConfig(p)
    <3>1. /\ pc[p] = "opened" /\ pc'[p] = "get" /\ file' = file /\ got' = got /\ want' = want
      BY <2>6 DEF readConfig, at, goto, clientVars, FilesTypes
    <3> QED BY <1>1, <1>3, <1>5, <3>1 DEF Reading
  <2>7. CASE getValue(p)
    <3>1. /\ pc[p] = "get" /\ plan[p] = <<>> /\ pc'[p] = "copy"
          /\ UNCHANGED <<file, got, want, content>>
      BY <2>7 DEF getValue, at, goto, clientVars, FilesTypes
    <3>2. file[p] \in Files /\ want[p] <= notified[file[p]]
      BY <1>5, <3>1 DEF FilesTypes, NewerInv, NewerOf, Reading
    <3>3. notified[file[p]] <= content[file[p]]
      <4>1. CASE Updatable(file[p])
        <5>1. \A q \in Procs : Announced(q, file[p]) => q = p /\ ~SF(file[p])
          BY <3>1, <3>2, <4>1, NobodyElseAhead DEF Announced
        <5>2. ~Announced(p, file[p])
          BY <3>1 DEF Announced
        <5> QED BY <3>2, <5>1, <5>2 DEF NoticeInv
      <4>2. CASE ~Updatable(file[p])
        <5>1. \A q \in Procs : ~Announced(q, file[p])
          BY <4>2 DEF Announced, GuardInv, GuardOf, Updating
        <5> QED BY <3>2, <5>1 DEF NoticeInv
      <4> QED BY <4>1, <4>2
    <3>4. want[p] <= content'[file[p]]
      BY <1>0, <1>5, <3>1, <3>2, <3>3
    <3> QED BY <1>1, <1>3, <1>5, <3>1, <3>4 DEF Reading
  <2>8. CASE read(p)
    <3>0. Len(got[p]) \in Nat /\ got[p] \in Seq(Bytes)
      BY <1>1, <1>5
    <3>1. pc[p] = "copy" /\ UNCHANGED <<content, notified, file, want>> /\ file[p] \in Files
      BY <1>5, <2>8, <3>0, ReadEffect
    <3>2. CASE got' = got /\ (goto(p, "eof") \/ goto(p, "error"))
      <4>1. pc'[p] \in {"eof", "error"}
        BY <3>2 DEF goto, FilesTypes
      <4> QED BY <1>3, <1>5, <3>0, <3>1, <3>2, <4>1 DEF Reading
    <3>3. ASSUME NEW conf \in found(file[p]), Len(got[p]) <= conf[2],
                 goto(p, IF Len(got[p]) = conf[2] THEN "eof" ELSE "opened"),
                 got' = [got EXCEPT ![p] = @ \o chunk(conf[1], conf[2], Len(got[p]))]
          PROVE  NewerOf(p)' /\ got'[p] \in Seq(Bytes)
      <4>1. conf[1] \in {content[file[p]], Torn} /\ content[file[p]] \in Nat
        BY <1>0, <3>1, SizesAreNumbers
      <4>2. /\ got'[p] \in Seq(Bytes)
            /\ \A k \in 1..Len(got[p]) : got'[p][k] = got[p][k]
            /\ \A k \in 1..Len(got'[p]) : k > Len(got[p]) => got'[p][k][1] = conf[1]
        BY <1>1, <1>5, <3>1, <3>3, ReadChunk DEF Extended
      <4>3. want[p] \in Nat /\ want[p] <= content[file[p]] /\ want'[p] = want[p]
        BY <1>0, <1>5, <3>1 DEF NewerInv, NewerOf
      <4>4. ASSUME NEW k \in 1..Len(got'[p])
            PROVE  got'[p][k][1] = Torn \/ got'[p][k][1] >= want'[p]
        <5>1. CASE k \in 1..Len(got[p])
          BY <1>5, <4>2, <4>3, <5>1 DEF NewerInv, NewerOf
        <5>2. CASE k > Len(got[p])
          BY <4>1, <4>2, <4>3, <5>2
        <5> QED BY <3>0, <5>1, <5>2
      <4>5. pc'[p] \in {"eof", "opened"}
        BY <3>3 DEF goto, FilesTypes
      <4>6. want'[p] <= notified'[file'[p]]
        BY <1>5, <3>1 DEF NewerInv, NewerOf, Reading
      <4> QED BY <4>2, <4>4, <4>5, <4>6 DEF NewerOf
    <3> QED BY <1>5, <2>8, <3>0, <3>2, <3>3, ReadEffect
  <2>9. CASE release(p)
    <3>1. pc'[p] = "idle" /\ got'[p] = <<>>
      BY <1>1, <1>5, <2>9 DEF release, goto, FilesTypes
    <3> QED BY <3>1 DEF NewerOf, Reading
  <2> QED BY <1>5, <2>1, <2>2, <2>3, <2>4, <2>5, <2>6, <2>7, <2>8, <2>9 DEF StepOf
<1>6. got' \in [Clients -> Seq(Bytes)]
  <2>1. CASE got' = got
    BY <1>1, <2>1
  <2>2. CASE p \in Clients /\ ((\E f \in Readable : open(p, f)) \/ release(p))
    <3>1. got' = [got EXCEPT ![p] = <<>>] /\ <<>> \in Seq(Bytes)
      BY <2>2, EmptySeq DEF open, release
    <3> QED BY <1>1, <2>2, <3>1
  <2>3. CASE p \in Clients /\ read(p)
    <3>1. got' = got \/ \E s : got' = [got EXCEPT ![p] = s]
      BY <1>1, <2>3, ReadEffect
    <3> QED BY <1>1, <1>5, <2>3, <3>1
  <2> QED BY <1>1, <2>1, <2>2, <2>3, OthersRead
<1> QED BY <1>2, <1>5, <1>6 DEF NewerInv

FilesInv == FilesTypes /\ CountInv /\ GuardInv /\ NoticeInv /\ NewerInv

LEMMA FilesInvariant == FilesSpec => []FilesInv
<1>1. FilesInit => GuardInv /\ NoticeInv /\ NewerInv
  <2> SUFFICES ASSUME FilesInit PROVE GuardInv /\ NoticeInv /\ NewerInv
    OBVIOUS
  <2>1. GuardInv
    BY DEF FilesInit, GuardInv, GuardOf, Updating
  <2>2. NoticeInv
    BY DEF FilesInit, NoticeInv
  <2>3. got \in [Clients -> Seq(Bytes)]
    BY EmptySeq DEF FilesInit
  <2>4. \A c \in Clients : NewerOf(c)
    BY DEF FilesInit, NewerOf, Reading, Procs
  <2> QED BY <2>1, <2>2, <2>3, <2>4 DEF NewerInv
<1>2. FilesTypes /\ CountInv /\ GuardInv /\ NoticeInv /\ NewerInv /\ [FilesNext]_filesVars
      => GuardInv' /\ NoticeInv' /\ NewerInv'
  <2> SUFFICES ASSUME FilesTypes, CountInv, GuardInv, NoticeInv, NewerInv, [FilesNext]_filesVars
               PROVE  GuardInv' /\ NoticeInv' /\ NewerInv'
    OBVIOUS
  <2>1. CASE UNCHANGED filesVars
    BY <2>1 DEF filesVars, procVars, clientVars, GuardInv, GuardOf, NoticeInv, Announced,
                NewerInv, NewerOf
  <2>2. CASE FilesNext
    <3>1. PICK p \in Procs : StepOf(p)
      BY <2>2, StepsOfFiles, SomebodySteps
    <3> QED BY <3>1, GuardInvStep, NoticeStep, NewerInvStep
  <2> QED BY <2>1, <2>2
<1> QED BY <1>1, <1>2, FilesTypesInvariant, CountInvariant, PTL DEF FilesSpec, FilesInv

(* A client that opens a file after it was notified of a version reads     *)
(* that version or a later one, in every chunk.                            *)
THEOREM NotificationIsNotEarly == FilesSpec => []NotifiedReadIsNew
<1>1. FilesInv => NotifiedReadIsNew
  BY DEF FilesInv, NewerInv, NewerOf, NotifiedReadIsNew
<1> QED BY <1>1, FilesInvariant, PTL

-----------------------------------------------------------------------------
(* ChunksAssemble.  No byte is newer than the file, and a client whose     *)
(* bytes are all of the present version is not beyond its end.             *)
AllOf(c, v) == \A k \in 1..Len(got[c]) : got[c][k][1] = v

WithinEnd(c) ==
  pc[c] \in Reading =>
    /\ \A k \in 1..Len(got[c]) : got[c][k][1] = Torn \/ got[c][k][1] <= content[file[c]]
    /\ AllOf(c, content[file[c]]) /\ got[c] # <<>>
       => Len(got[c]) <= ContentSize(content[file[c]])

AssembledOf(c) ==
  /\ WithinEnd(c)
  /\ pc[c] \in {"eof", "error"} /\ got[c] # <<>> /\ ~beingStored(file[c])
     /\ AllOf(c, content[file[c]])
     => pc[c] = "eof" /\ Len(got[c]) = ContentSize(content[file[c]])

AssembledInv == \A c \in Clients : AssembledOf(c)

(* A value is being stored until it is.                                    *)
LEMMA StoringGoesOn ==
  ASSUME FilesTypes, NEW p \in Procs, StepOf(p),
         NEW f, beingStored(f), ~(at(p, "store") /\ file[p] = f)
  PROVE  beingStored(f)'
<1>1. PICK q \in Procs : at(q, "store") /\ file[q] = f
  BY DEF beingStored
<1>2. q # p
  BY <1>1
<1> QED BY <1>1, <1>2, OthersStay DEF beingStored, at, Others

(* A step of another process.                                              *)
LEMMA AssembledOthers ==
  ASSUME FilesInv, AssembledInv, NEW p \in Procs, StepOf(p), NEW c \in Clients \ {p}
  PROVE  AssembledOf(c)'
<1>0. /\ FilesTypes /\ CountInv /\ got \in [Clients -> Seq(Bytes)] /\ AssembledOf(c)
      /\ c \in Procs
  BY DEF FilesInv, NewerInv, AssembledInv, Procs
<1>1. pc'[c] = pc[c] /\ file'[c] = file[c] /\ got'[c] = got[c]
  BY <1>0, OthersStay, OthersRead DEF Others
<1>2. CASE pc[c] \notin Reading
  BY <1>1, <1>2 DEF AssembledOf, WithinEnd, Reading
<1>3. CASE pc[c] \in Reading /\ at(p, "store") /\ file[p] = file[c]
  <2> DEFINE f == file[c]
  <2>1. f \in Files /\ content[f] \in Nat
    BY <1>0, <1>3, FilesSets DEF FilesTypes
  <2>2. content'[f] = content[f] + 1
    <3>1. store(p)
      BY <1>3 DEF StepOf, at, acquire, notifyUpdate, Update, begin, open, readConfig, getValue,
                  read, release
    <3> QED BY <1>0, <1>3, <2>1, <3>1, StoreEffect DEF FilesTypes
  <2>3. \A k \in 1..Len(got[c]) : got[c][k][1] \in Nat \cup {Torn}
    BY <1>0 DEF Bytes
  <2>4. \A k \in 1..Len(got[c]) : got[c][k][1] = Torn \/ got[c][k][1] <= content[f]
    BY <1>0, <1>3 DEF AssembledOf, WithinEnd
  <2>5. \A k \in 1..Len(got[c]) : got[c][k][1] = Torn \/ got[c][k][1] <= content'[f]
    BY <2>1, <2>2, <2>3, <2>4
  <2>6. \A k \in 1..Len(got[c]) : got[c][k][1] # content'[f]
    BY <2>1, <2>2, <2>3, <2>4, FilesSets
  <2>7. got[c] # <<>> => 1 \in 1..Len(got[c])
    BY <1>0
  <2> QED BY <1>1, <2>5, <2>6, <2>7 DEF AssembledOf, WithinEnd, AllOf
<1>4. CASE pc[c] \in Reading /\ ~(at(p, "store") /\ file[p] = file[c])
  <2>1. beingStored(file[c]) => beingStored(file[c])'
    <3>1. PICK f : f = file[c]
      OBVIOUS
    <3>2. beingStored(f) => beingStored(f)'
      BY <1>0, <1>4, <3>1, StoringGoesOn
    <3> QED BY <1>1, <3>1, <3>2 DEF beingStored
  <2>2. file[c] \in Files
    BY <1>0, <1>4, FilesSets DEF FilesTypes
  <2>3. content'[file[c]] = content[file[c]]
    <3>1. CASE store(p)
      <4>1. content' = [content EXCEPT ![file[p]] = @ + 1] /\ at(p, "store")
        BY <3>1, StoreEffect DEF at
      <4> QED BY <1>0, <1>4, <2>2, <4>1 DEF FilesTypes
    <3>2. CASE notifyUpdate(p)
      BY <3>2, NotifyEffect
    <3>3. CASE read(p)
      BY <3>3 DEF read
    <3> QED BY <3>1, <3>2, <3>3
            DEF StepOf, acquire, Update, begin, open, readConfig, getValue, release
  <2> QED BY <1>0, <1>1, <2>1, <2>3 DEF AssembledOf, WithinEnd, AllOf
<1> QED BY <1>2, <1>3, <1>4

(* A read: what it finds decides how it ends.                              *)
LEMMA AssembledRead ==
  ASSUME FilesInv, AssembledInv, NEW c \in Clients, read(c)
  PROVE  AssembledOf(c)'
<1>f. PICK f : f = file[c]
  OBVIOUS
<1>0. /\ FilesTypes /\ CountInv /\ got \in [Clients -> Seq(Bytes)] /\ WithinEnd(c)
      /\ got[c] \in Seq(Bytes) /\ Len(got[c]) \in Nat /\ c \in Procs
  BY DEF FilesInv, NewerInv, AssembledInv, AssembledOf, Procs
<1>1. /\ pc[c] = "copy" /\ UNCHANGED <<content, file>> /\ f \in Files
      /\ \E conf \in found(f) :
           \/ conf[2] = 0 /\ goto(c, "eof") /\ got' = got
           \/ conf[2] # 0 /\ Len(got[c]) > conf[2] /\ goto(c, "error") /\ got' = got
           \/ /\ conf[2] # 0 /\ Len(got[c]) <= conf[2]
              /\ goto(c, IF Len(got[c]) = conf[2] THEN "eof" ELSE "opened")
              /\ got' = [got EXCEPT ![c] = @ \o chunk(conf[1], conf[2], Len(got[c]))]
  BY <1>0, <1>f, ReadEffect
<1>2. content[f] \in Nat /\ content[f] # Torn
  BY <1>0, <1>1, FilesSets DEF FilesTypes
<1>3. /\ \A k \in 1..Len(got[c]) : got[c][k][1] = Torn \/ got[c][k][1] <= content[f]
      /\ AllOf(c, content[f]) /\ got[c] # <<>> => Len(got[c]) <= ContentSize(content[f])
  BY <1>0, <1>1, <1>f DEF WithinEnd, Reading
<1>4. beingStored(f) => beingStored(f)'
  <2>1. StepOf(c)
    BY DEF StepOf
  <2>2. ~at(c, "store")
    BY <1>1 DEF at
  <2> QED BY <1>0, <2>1, <2>2, StoringGoesOn
<1>5. PICK conf \in found(f) :
        \/ conf[2] = 0 /\ goto(c, "eof") /\ got' = got
        \/ conf[2] # 0 /\ Len(got[c]) > conf[2] /\ goto(c, "error") /\ got' = got
        \/ /\ conf[2] # 0 /\ Len(got[c]) <= conf[2]
           /\ goto(c, IF Len(got[c]) = conf[2] THEN "eof" ELSE "opened")
           /\ got' = [got EXCEPT ![c] = @ \o chunk(conf[1], conf[2], Len(got[c]))]
  BY <1>1
<1>6. /\ conf[2] \in Nat /\ conf[1] \in {content[f], Torn}
      /\ conf[1] = content[f] => conf[2] = ContentSize(content[f])
      /\ conf[1] = Torn => beingStored(f)
  BY <1>0, <1>1, SizesAreNumbers
<1>7. file'[c] = f /\ content'[f] = content[f]
  BY <1>1, <1>f
<1>8. CASE got' = got /\ (conf[2] = 0 \/ Len(got[c]) > conf[2])
  <2>1. pc'[c] \in {"eof", "error"}
    BY <1>0, <1>5, <1>6, <1>8 DEF goto, FilesTypes
  <2>2. WithinEnd(c)'
    BY <1>3, <1>7, <1>8 DEF WithinEnd, AllOf
  <2>3. got[c] # <<>> => Len(got[c]) > 0
    BY <1>0
  <2>4. CASE conf[1] = content[f]
    <3>1. ~(AllOf(c, content[f]) /\ got[c] # <<>>)
      BY <1>0, <1>3, <1>6, <1>8, <2>3, <2>4
    <3>2. ~(AllOf(c, content[f]) /\ got[c] # <<>>)'
      BY <1>7, <1>8, <3>1 DEF AllOf
    <3> QED BY <1>7, <2>2, <3>2 DEF AssembledOf
  <2>5. CASE conf[1] = Torn
    BY <1>4, <1>6, <1>7, <2>2, <2>5 DEF AssembledOf
  <2> QED BY <1>6, <2>4, <2>5
<1>9. CASE /\ conf[2] # 0 /\ Len(got[c]) <= conf[2]
           /\ goto(c, IF Len(got[c]) = conf[2] THEN "eof" ELSE "opened")
           /\ got' = [got EXCEPT ![c] = @ \o chunk(conf[1], conf[2], Len(got[c]))]
  <2>1. Extended(got[c], got'[c], conf[1], conf[2])
    BY <1>0, <1>1, <1>5, <1>9, <1>f, ReadChunk
  <2>2. pc'[c] = IF Len(got[c]) = conf[2] THEN "eof" ELSE "opened"
    BY <1>0, <1>9 DEF goto, FilesTypes
  <2>3. got'[c] \in Seq(Bytes) /\ Len(got'[c]) \in Nat
    BY <2>1 DEF Extended
  <2>4. \A k \in 1..Len(got'[c]) : got'[c][k][1] = Torn \/ got'[c][k][1] <= content[f]
    <3> TAKE k \in 1..Len(got'[c])
    <3>1. CASE k \in 1..Len(got[c])
      BY <1>3, <2>1, <3>1 DEF Extended
    <3>2. CASE k > Len(got[c])
      BY <1>2, <1>6, <2>1, <3>2 DEF Extended
    <3> QED BY <1>0, <2>3, <3>1, <3>2
  <2>5. CASE Len(got[c]) = conf[2]
    <3>1. got'[c] = got[c] /\ pc'[c] = "eof"
      BY <2>1, <2>2, <2>5 DEF Extended
    <3>2. WithinEnd(c)'
      BY <1>3, <1>7, <3>1 DEF WithinEnd, AllOf
    <3>3. CASE conf[1] = content[f]
      BY <1>6, <1>7, <2>5, <3>1, <3>2, <3>3 DEF AssembledOf
    <3>4. CASE conf[1] = Torn
      BY <1>4, <1>6, <1>7, <3>2, <3>4 DEF AssembledOf
    <3> QED BY <1>6, <3>3, <3>4
  <2>6. CASE Len(got[c]) # conf[2]
    <3>1. pc'[c] = "opened"
      BY <2>2, <2>6
    <3>2. CASE conf[1] = content[f]
      <4>1. Len(got'[c]) <= ContentSize(content[f])
        BY <1>6, <2>1, <3>2 DEF Extended
      <4> QED BY <1>7, <2>4, <3>1, <4>1 DEF AssembledOf, WithinEnd
    <3>3. CASE conf[1] = Torn
      <4>1. Len(got'[c]) \in 1..Len(got'[c]) /\ Len(got'[c]) > Len(got[c])
        BY <1>0, <2>1, <2>3, <2>6 DEF Extended
      <4>2. got'[c][Len(got'[c])][1] = Torn
        BY <2>1, <3>3, <4>1 DEF Extended
      <4>3. ~AllOf(c, content[f])'
        BY <1>1, <1>2, <1>7, <4>1, <4>2 DEF AllOf
      <4> QED BY <1>7, <2>4, <3>1, <4>3 DEF AssembledOf, WithinEnd
    <3> QED BY <1>6, <3>2, <3>3
  <2> QED BY <2>5, <2>6
<1> QED BY <1>5, <1>8, <1>9

LEMMA AssembledStep ==
  ASSUME FilesInv, AssembledInv, NEW p \in Procs, StepOf(p)
  PROVE  AssembledInv'
<1>0. FilesTypes /\ CountInv /\ got \in [Clients -> Seq(Bytes)]
  BY DEF FilesInv, NewerInv
<1> SUFFICES ASSUME p \in Clients
             PROVE  AssembledOf(p)'
  BY AssembledOthers DEF AssembledInv
<1>1. AssembledOf(p)
  BY DEF AssembledInv
<1>2. ASSUME pc'[p] \notin Reading
      PROVE  AssembledOf(p)'
  BY <1>2 DEF AssembledOf, WithinEnd, Reading
<1>3. ASSUME pc[p] \in Reading, pc'[p] \notin {"eof", "error"}, UNCHANGED <<file, content, got>>
      PROVE  AssembledOf(p)'
  BY <1>1, <1>3 DEF AssembledOf, WithinEnd, AllOf
<1>4. CASE acquire(p)
  <2>1. UNCHANGED <<pc, file, content, got>> /\ ~at(p, "store")
    BY <1>4 DEF acquire, at, clientVars
  <2>2. beingStored(file[p]) => beingStored(file[p])'
    <3>1. PICK f : f = file[p]
      OBVIOUS
    <3>2. beingStored(f) => beingStored(f)'
      BY <1>0, <2>1, StoringGoesOn
    <3> QED BY <2>1, <3>1, <3>2 DEF beingStored
  <2> QED BY <1>1, <2>1, <2>2 DEF AssembledOf, WithinEnd, AllOf
<1>5. CASE store(p)
  <2>1. pc'[p] \in {"notify", "idle"}
    BY <1>0, <1>5, StoreEffect DEF goto, finish, FilesTypes
  <2> QED BY <1>2, <2>1 DEF Reading
<1>6. CASE notifyUpdate(p)
  <2>1. pc'[p] \in {"store", "idle"}
    BY <1>0, <1>6, NotifyEffect DEF goto, finish, FilesTypes
  <2> QED BY <1>2, <2>1 DEF Reading
<1>7. ASSUME NEW f \in Files, NEW locks \in Seq(Locks), Update(p, f, locks)
      PROVE  AssembledOf(p)'
  <2>1. PICK label \in {"store", "notify"} : goto(p, label)
    BY <1>7, Zenon DEF Update, begin
  <2>2. pc'[p] \in {"store", "notify"}
    BY <1>0, <2>1 DEF goto, FilesTypes
  <2> QED BY <1>2, <2>2 DEF Reading
<1>8. ASSUME NEW f \in Readable, open(p, f)
      PROVE  AssembledOf(p)'
  <2>1. pc'[p] = "opened" /\ got'[p] = <<>>
    BY <1>0, <1>8 DEF open, goto, FilesTypes
  <2> QED BY <2>1 DEF AssembledOf, WithinEnd
<1>9. CASE readConfig(p)
  <2>1. pc[p] = "opened" /\ pc'[p] = "get" /\ UNCHANGED <<file, content, got>>
    BY <1>0, <1>9 DEF readConfig, at, goto, clientVars, FilesTypes
  <2> QED BY <1>3, <2>1 DEF Reading
<1>10. CASE getValue(p)
  <2>1. pc[p] = "get" /\ pc'[p] = "copy" /\ UNCHANGED <<file, content, got>>
    BY <1>0, <1>10 DEF getValue, at, goto, clientVars, FilesTypes
  <2> QED BY <1>3, <2>1 DEF Reading
<1>11. CASE read(p)
  BY <1>11, AssembledRead
<1>12. CASE release(p)
  <2>1. pc'[p] = "idle"
    BY <1>0, <1>12 DEF release, goto, FilesTypes
  <2> QED BY <1>2, <2>1 DEF Reading
<1> QED BY <1>4, <1>5, <1>6, <1>7, <1>8, <1>9, <1>10, <1>11, <1>12 DEF StepOf

(* A client that reads in chunks while the file stays as it is gets all of *)
(* it and then the end of the file, never an error, whatever the size of   *)
(* the chunks and of the file.                                             *)
THEOREM ReadsAssemble == FilesSpec => []ChunksAssemble
<1>1. FilesInit => AssembledInv
  BY DEF FilesInit, AssembledInv, AssembledOf, WithinEnd, Reading, Procs
<1>2. FilesInv /\ AssembledInv /\ [FilesNext]_filesVars => AssembledInv'
  <2> SUFFICES ASSUME FilesInv, AssembledInv, [FilesNext]_filesVars
               PROVE  AssembledInv'
    OBVIOUS
  <2>1. CASE UNCHANGED filesVars
    BY <2>1 DEF filesVars, procVars, clientVars, AssembledInv, AssembledOf, WithinEnd, AllOf,
                beingStored, at
  <2>2. CASE FilesNext
    BY <2>2, StepsOfFiles, SomebodySteps, AssembledStep
  <2> QED BY <2>1, <2>2
<1>3. AssembledInv => ChunksAssemble
  BY DEF AssembledInv, AssembledOf, AllOf, ChunksAssemble
<1> QED BY <1>1, <1>2, <1>3, FilesInvariant, PTL DEF FilesSpec
=============================================================================
