--------------------------- MODULE TimeoutWatchdog ---------------------------
(***************************************************************************)
(* src/TimeoutWatchdog.cpp as the time shift buffer uses it: while the     *)
(* player is PAUSED every read restarts the watchdog, and when no read     *)
(* came for Timeout its callback sets mIsPaused, which makes               *)
(* TimeShiftBufferConsumer::post hold the read position.                   *)
(*                                                                         *)
(* The flags are atomics and the mutex of the condition variable is local  *)
(* to threadLoop, so callers are not synchronised with it: each load and   *)
(* store is a step, and a notification while threadLoop is not waiting is  *)
(* lost.  mState and mClear are left out, nothing in the program reads     *)
(* them; so is mExit, which the destructor sets.  setPlayerState,          *)
(* setSeekTime and onEndOfStream come from one client at a time, post from *)
(* the consumer thread and reads from a third one.                         *)
(***************************************************************************)
EXTENDS Naturals

CONSTANT Timeout     \* PAUSE_POST_READ_RATE_TIMEOUT_MS, in ticks

ASSUME WatchdogAssumption == Timeout \in Nat \ {0}

VARIABLES
  mStop, mNotified,   \* the watchdog's flags
  thread,             \* where threadLoop is
  elapsed, status,    \* wait_for: the time it has waited, and its result
  mIsPaused, mPlayerState, samples,   \* samples in the buffer index, up to 2
  pc, then,           \* where client and poster are, and where start() returns to
  quiet,              \* time since the last restart(), up to Timeout
  armed               \* a start() has not been answered by an expiry yet

waitVars   == <<elapsed, status>>
bufferVars == <<mPlayerState, samples>>
callerVars == <<pc, then>>
ghostVars  == <<quiet, armed>>
watchdogVars == <<mStop, mNotified, thread, waitVars, mIsPaused, bufferVars, callerVars,
                  ghostVars>>

Callers == {"client", "poster"}

WatchdogInit ==
  /\ mStop = TRUE /\ mNotified = FALSE
  /\ thread = "test" /\ elapsed = 0 /\ status = FALSE
  /\ mIsPaused = FALSE /\ mPlayerState = "UNDEF" /\ samples = 0
  /\ pc = [c \in Callers |-> "idle"] /\ then = pc
  /\ quiet = 0 /\ armed = FALSE

-----------------------------------------------------------------------------
(* threadLoop                                                              *)

at(l) == thread = l /\ UNCHANGED <<bufferVars, callerVars>>

(* mCvStart.wait: the predicate is tested, then the thread goes to sleep.  *)
testStart ==
  /\ at("test")
  /\ thread' = IF mStop THEN "park" ELSE "loop"
  /\ UNCHANGED <<mStop, mNotified, waitVars, mIsPaused, ghostVars>>

park ==
  /\ at("park")
  /\ thread' = "parked"
  /\ UNCHANGED <<mStop, mNotified, waitVars, mIsPaused, ghostVars>>

loop ==
  /\ at("loop")
  /\ thread' = IF mStop THEN "test" ELSE "timed"
  /\ UNCHANGED <<mStop, mNotified, waitVars, mIsPaused, ghostVars>>

(* mCvStart.wait_for: notified before the time is up ...                   *)
timedNotified ==
  /\ at("timed") /\ mNotified
  /\ status' = TRUE /\ thread' = "woke" /\ elapsed' = 0
  /\ UNCHANGED <<mStop, mNotified, mIsPaused, ghostVars>>

(* Mutant: wait_for without a predicate.                                   *)
timedOut_noPredicate ==
  /\ at("timed") /\ elapsed = Timeout
  /\ status' = FALSE /\ thread' = "woke" /\ elapsed' = 0
  /\ UNCHANGED <<mStop, mNotified, mIsPaused, ghostVars>>

(* ... or not: then the predicate is evaluated once more.                  *)
timedOut ==
  /\ at("timed") /\ elapsed = Timeout
  /\ status' = mNotified /\ thread' = "woke" /\ elapsed' = 0
  /\ UNCHANGED <<mStop, mNotified, mIsPaused, ghostVars>>

woke ==
  /\ at("woke")
  /\ mNotified' = FALSE /\ thread' = "decide"
  /\ UNCHANGED <<mStop, waitVars, mIsPaused, ghostVars>>

decide ==
  /\ at("decide")
  /\ thread' = IF ~status /\ ~mStop THEN "expire" ELSE "loop"
  /\ status' = FALSE
  /\ UNCHANGED <<mStop, mNotified, elapsed, mIsPaused, ghostVars>>

(* Mutant: the watchdog stays running.                                     *)
expire_noStop ==
  /\ at("expire")
  /\ thread' = "callback" /\ armed' = FALSE
  /\ UNCHANGED <<mStop, mNotified, waitVars, mIsPaused, quiet>>

expire ==
  /\ at("expire")
  /\ mStop' = TRUE /\ thread' = "callback" /\ armed' = FALSE
  /\ UNCHANGED <<mNotified, waitVars, mIsPaused, quiet>>

(* mFunc(true)                                                             *)
callback ==
  /\ at("callback")
  /\ mIsPaused' = TRUE /\ thread' = "loop"
  /\ UNCHANGED <<mStop, mNotified, waitVars, ghostVars>>

threadLoop ==
  \/ testStart \/ park \/ loop \/ timedNotified \/ timedOut \/ woke \/ decide
  \/ expire \/ callback

-----------------------------------------------------------------------------
(* The callers.  notify_one wakes the thread if it is asleep.              *)

notify == thread' = IF thread = "parked" THEN "test" ELSE thread

move(c, from, to) ==
  /\ pc[c] = from
  /\ pc' = [pc EXCEPT ![c] = to]
  /\ UNCHANGED waitVars

startTest(c) ==
  /\ move(c, "start", IF mStop THEN "startSet" ELSE then[c])
  /\ UNCHANGED <<mStop, mNotified, thread, mIsPaused, bufferVars, then, ghostVars>>

startSet(c) ==
  /\ move(c, "startSet", "startNotify")
  /\ mStop' = FALSE
  /\ armed' = TRUE
  /\ UNCHANGED <<mNotified, thread, mIsPaused, bufferVars, then, quiet>>

startNotify(c) ==
  /\ move(c, "startNotify", then[c])
  /\ notify
  /\ UNCHANGED <<mStop, mNotified, mIsPaused, bufferVars, then, ghostVars>>

start(c) == startTest(c) \/ startSet(c) \/ startNotify(c)

(* setSeekTime and readData exclude each other by mSeekMtx.                *)
seeking ==
  \/ then["client"] = "seek"
  \/ pc["client"] \in {"start", "startSet", "startNotify"} /\ then["client"] = "idle"

(* readData: restart() while the player is PAUSED.                         *)
readData ==
  /\ mPlayerState = "PAUSED" /\ ~seeking
  /\ mNotified' = TRUE /\ notify
  /\ quiet' = 0
  /\ UNCHANGED <<mStop, waitVars, mIsPaused, bufferVars, callerVars, armed>>

(* setPlayerState(PLAYING): stop(), whose callback clears mIsPaused too,   *)
(* then mIsPaused = false.                                                 *)
play ==
  /\ move("client", "idle", IF mStop THEN "unpause" ELSE "stop")
  /\ UNCHANGED <<mStop, mNotified, thread, mIsPaused, bufferVars, then, ghostVars>>

stop ==
  /\ move("client", "stop", "unpause")
  /\ mStop' = TRUE
  /\ UNCHANGED <<mNotified, thread, mIsPaused, bufferVars, then, ghostVars>>

unpause ==
  /\ move("client", "unpause", "playing")
  /\ mIsPaused' = FALSE
  /\ UNCHANGED <<mStop, mNotified, thread, bufferVars, then, ghostVars>>

playing ==
  /\ move("client", "playing", "idle")
  /\ mPlayerState' = "PLAYING"
  /\ UNCHANGED <<mStop, mNotified, thread, mIsPaused, samples, then, ghostVars>>

(* setPlayerState(PAUSED): the watchdog is started if getIndexSizeInBytes  *)
(* is not 0, which takes two samples.                                      *)
pause ==
  /\ move("client", "idle", IF samples = 2 THEN "start" ELSE "paused")
  /\ then' = [then EXCEPT !["client"] = "paused"]
  /\ UNCHANGED <<mStop, mNotified, thread, mIsPaused, bufferVars, ghostVars>>

paused ==
  /\ move("client", "paused", "idle")
  /\ mPlayerState' = "PAUSED"
  /\ then' = [then EXCEPT !["client"] = "idle"]
  /\ UNCHANGED <<mStop, mNotified, thread, mIsPaused, samples, ghostVars>>

(* post() registers a sample; if it is the first one and the player is     *)
(* PAUSED, it calls start().                                               *)
post ==
  /\ move("poster", "idle", IF samples = 0 THEN "posted" ELSE "idle")
  /\ samples' = IF samples < 2 THEN samples + 1 ELSE 2
  /\ UNCHANGED <<mStop, mNotified, thread, mIsPaused, mPlayerState, then, ghostVars>>

posted ==
  /\ move("poster", "posted", IF mPlayerState = "PAUSED" THEN "start" ELSE "idle")
  /\ UNCHANGED <<mStop, mNotified, thread, mIsPaused, bufferVars, then, ghostVars>>

(* setSeekTime (not on an empty index): clear(), then start() if PAUSED.   *)
setSeekTime ==
  /\ samples # 0
  /\ move("client", "idle", "clear")
  /\ then' = [then EXCEPT !["client"] = "seek"]
  /\ UNCHANGED <<mStop, mNotified, thread, mIsPaused, bufferVars, ghostVars>>

(* onEndOfStream: the index is cleared, clear(), then mIsPaused = false.   *)
onEndOfStream ==
  /\ move("client", "idle", "clear")
  /\ then' = [then EXCEPT !["client"] = "reset"]
  /\ samples' = 0
  /\ UNCHANGED <<mStop, mNotified, thread, mIsPaused, mPlayerState, ghostVars>>

clearWatchdog ==
  /\ move("client", "clear", "restart")
  /\ mStop' = TRUE
  /\ UNCHANGED <<mNotified, thread, mIsPaused, bufferVars, then, ghostVars>>

restart ==
  /\ move("client", "restart", IF then["client"] = "reset" THEN "reset"
                               ELSE IF mPlayerState = "PAUSED" THEN "start" ELSE "idle")
  /\ then' = [then EXCEPT !["client"] = "idle"]
  /\ mNotified' = TRUE /\ notify
  /\ quiet' = 0
  /\ UNCHANGED <<mStop, mIsPaused, bufferVars, armed>>

reset ==
  /\ move("client", "reset", "idle")
  /\ mIsPaused' = FALSE
  /\ UNCHANGED <<mStop, mNotified, thread, bufferVars, then, ghostVars>>

clientStep ==
  start("client") \/ stop \/ unpause \/ playing \/ paused \/ clearWatchdog \/ restart \/ reset

posterStep == start("poster") \/ posted

-----------------------------------------------------------------------------
upTo(n) == IF n < Timeout THEN n + 1 ELSE n

(* The instructions of callers and thread take much less than a tick.      *)
tick ==
  /\ \A c \in Callers : pc[c] = "idle"
  /\ thread = "parked" \/ (thread = "timed" /\ elapsed < Timeout)
  /\ elapsed' = IF thread = "timed" THEN elapsed + 1 ELSE elapsed
  /\ quiet' = upTo(quiet)
  /\ UNCHANGED <<mStop, mNotified, thread, status, mIsPaused, bufferVars, callerVars,
                 armed>>

WatchdogNext ==
  \/ threadLoop
  \/ readData
  \/ play \/ pause \/ setSeekTime \/ onEndOfStream \/ clientStep
  \/ post \/ posterStep
  \/ tick

WatchdogSpec == WatchdogInit /\ [][WatchdogNext]_watchdogVars

-----------------------------------------------------------------------------
(* A read always postpones the expiry: the timed wait runs out only when   *)
(* there was no restart() for Timeout, wherever in the loop the last one   *)
(* came.                                                                   *)
TimeoutOnlyAfterQuiet == [][timedOut /\ ~status' => quiet = Timeout]_watchdogVars

(* One start(), at most one expiry: the callback is not told of an expiry  *)
(* nobody asked for since the last one.                                    *)
OneExpiryPerStart == thread = "expire" => armed
=============================================================================
