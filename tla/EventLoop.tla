------------------------------ MODULE EventLoop ------------------------------
(***************************************************************************)
(* The event loop a JavaScript service runs in: EventLoop and its timer    *)
(* API in core/src/main/resources/ecma_eventloop.js, as started by         *)
(* wrapped_compile_execute in jni/src/jsDuktapeWrapper.c.  One loop lives  *)
(* in one Duktape heap and one Java thread, so its own steps never         *)
(* interleave with each other; what changes under it is the clock, the     *)
(* native stop flag that other threads set, and what poll() reports.       *)
(*                                                                         *)
(* The sockets of the loop cannot be used in the hub: loadEnvironment      *)
(* registers Poll, but no code calls socket_register, so that the global   *)
(* Socket is undefined.  EventLoop.server, connect and write throw a       *)
(* ReferenceError before they change anything, and no callback of theirs   *)
(* ever waits.  What is left is EventLoop.setReader, which takes any       *)
(* descriptor number, EventLoop.close, and what run() does when poll()     *)
(* reports a descriptor that has a reader: it calls Socket too, throws,    *)
(* and is not caught.                                                      *)
(*                                                                         *)
(* User code runs while pc is in UserCode: there the script may call any   *)
(* of the API functions, any number of times, before it returns.           *)
(***************************************************************************)
EXTENDS TimerList, FiniteSets

CONSTANTS
  MaxId,        \* bound: timers a script creates in one behaviour
  Delays,       \* the delay arguments scripts pass to setTimeout/setInterval
  Horizon,      \* bound: the last value of the millisecond clock
  MaxExpirys,   \* EventLoop.maxExpirys
  MinimumDelay, \* EventLoop.minimumDelay
  MinimumWait,  \* EventLoop.minimumWait
  MaximumWait,  \* EventLoop.maximumWait
  Fds,          \* the descriptor numbers scripts pass to setReader
  PollLimit     \* the length of the pollfd array in poll_poll

ASSUME LoopAssumption ==
  /\ MaxId \in Nat \ {0}
  /\ Delays \subseteq Nat
  /\ Horizon \in Nat
  /\ MaxExpirys \in Nat \ {0}
  /\ MinimumDelay \in Nat \ {0}
  /\ MinimumWait \in Nat \ {0}
  /\ MaximumWait \in Nat \ {0}
  /\ PollLimit \in Nat

VARIABLES
  now,            \* Date.now()
  nativeStop,     \* DuktapeJavascriptEngineWrapper.needToStopAllEvents
  timers,         \* EventLoop.timers
  expiring,       \* EventLoop.expiring: {} or the singleton of the timer
  removed,        \* expiring.removed
  nextTimerId,    \* EventLoop.nextTimerId
  cleared,        \* history: the armed timers that the script has cleared
  exitRequested,  \* EventLoop.exitRequested
  pc,             \* where the thread of the loop is
  passNow,        \* the local "now" of processTimers
  sanity,         \* the local "sanity" of processTimers
  wakeAt,         \* when the timeout of the current poll() elapses
  reading         \* the keys of EventLoop.socketReading

timerVars  == <<timers, expiring, removed, nextTimerId, cleared>>
passVars   == <<passNow, sanity>>
worldVars  == <<now, nativeStop>>
vars == <<worldVars, timerVars, exitRequested, pc, passVars, wakeAt, reading>>

UserCode == {"load", "timerCb"}
Stopped  == {"done", "crashed"}

Timers == TimerRecord(1..MaxId, Nat, Nat)

TypeOK ==
  /\ now \in 0..Horizon
  /\ nativeStop \in BOOLEAN
  /\ timers \in Seq(Timers)
  /\ expiring \in SUBSET Timers
  /\ removed \in BOOLEAN
  /\ nextTimerId \in 1..(MaxId + 1)
  /\ cleared \in SUBSET (1..MaxId)
  /\ exitRequested \in BOOLEAN
  /\ pc \in UserCode \cup Stopped \cup {"pass", "timers", "check", "poll"}
  /\ passNow \in 0..Horizon
  /\ sanity \in 0..MaxExpirys
  /\ wakeAt \in Nat
  /\ reading \in SUBSET Fds

(***************************************************************************)
(* loadEnvironment has evaluated ecma_eventloop.js in a fresh heap; the    *)
(* script itself is evaluated next, and may already call the API.          *)
(***************************************************************************)
Init ==
  /\ now = 0 /\ nativeStop = FALSE
  /\ timers = <<>> /\ expiring = {} /\ removed = FALSE /\ nextTimerId = 1
  /\ cleared = {}
  /\ exitRequested = FALSE
  /\ pc = "load"
  /\ passNow = 0 /\ sanity = 0 /\ wakeAt = 0
  /\ reading = {}

------------------------------------------------------------------------------
(* The world around the loop.                                              *)

Tick ==
  /\ now < Horizon
  /\ now' = now + 1
  /\ UNCHANGED <<nativeStop, timerVars, exitRequested, pc, passVars, wakeAt, reading>>

\* JavascriptStringRunnableService.stop() and start(), from another thread.
StopAllEvents(b) ==
  /\ nativeStop # b
  /\ nativeStop' = b
  /\ UNCHANGED <<now, timerVars, exitRequested, pc, passVars, wakeAt, reading>>

------------------------------------------------------------------------------
(* The API, called from user code.                                         *)

NewTimer(delay, oneshot) ==
  LET d == AtLeast(MinimumDelay, delay)
  IN  [id |-> nextTimerId, target |-> now + d, delay |-> d, oneshot |-> oneshot]

\* Mutant: the next timer gets the same id.
CreateWithSameId(delay, oneshot) ==
  /\ nextTimerId <= MaxId
  /\ UNCHANGED nextTimerId
  /\ timers' = InsertTimer(timers, NewTimer(delay, oneshot))

CreateTimer(delay, oneshot) ==
  /\ nextTimerId <= MaxId
  /\ nextTimerId' = nextTimerId + 1
  /\ timers' = InsertTimer(timers, NewTimer(delay, oneshot))

\* setTimeout and setInterval differ only in the oneshot flag.  (The bound on
\* ids leaves one for the _USERCODE timer of StartLoop.)
SetTimer(delay, oneshot) ==
  /\ pc \in UserCode
  /\ pc = "load" => nextTimerId < MaxId
  /\ CreateTimer(delay, oneshot)
  /\ UNCHANGED <<worldVars, expiring, removed, cleared, exitRequested, pc, passVars,
                 wakeAt, reading>>

(***************************************************************************)
(* The timers a client of the API would say are armed: those on the list,  *)
(* and an interval whose callback is running unless that callback has      *)
(* cleared it.                                                             *)
(***************************************************************************)
Armed ==
  {timers[i] : i \in 1..Len(timers)} \cup (IF removed THEN {} ELSE expiring)

\* Mutant: the timer whose callback is running is not looked at.
ClearOnListOnly(id) ==
  /\ pc \in UserCode
  /\ timers' = RemoveTimer(timers, id)
  /\ cleared' = cleared \cup {t.id : t \in {u \in Armed : u.id = id}}
  /\ UNCHANGED <<worldVars, expiring, removed, nextTimerId, exitRequested, pc,
                 passVars, wakeAt, reading>>

\* removeTimerById: the timer whose callback is running is only marked.
ClearTimer(id) ==
  /\ pc \in UserCode
  /\ IF \E t \in expiring : t.id = id
     THEN removed' = TRUE /\ UNCHANGED timers
     ELSE timers' = RemoveTimer(timers, id) /\ UNCHANGED removed
  /\ cleared' = cleared \cup {t.id : t \in {u \in Armed : u.id = id}}
  /\ UNCHANGED <<worldVars, expiring, nextTimerId, exitRequested, pc, passVars,
                 wakeAt, reading>>

RequestExit ==
  /\ pc \in UserCode
  /\ exitRequested' = TRUE
  /\ UNCHANGED <<worldVars, timerVars, pc, passVars, wakeAt, reading>>

SetReader(f) ==
  /\ pc \in UserCode
  /\ reading' = reading \cup {f}
  /\ UNCHANGED <<worldVars, timerVars, exitRequested, pc, passVars, wakeAt>>

Close(f) ==
  /\ pc \in UserCode
  /\ reading' = reading \ {f}
  /\ UNCHANGED <<worldVars, timerVars, exitRequested, pc, passVars, wakeAt>>

------------------------------------------------------------------------------
(* The loop.                                                               *)

\* wrapped_compile_execute: _USERCODE is a zero timer, then EventLoop.run().  (A
\* script that fails to load has no loop.)
StartLoop ==
  /\ pc = "load"
  /\ CreateTimer(0, TRUE)
  /\ pc' = "pass"
  /\ UNCHANGED <<worldVars, expiring, removed, cleared, exitRequested, passVars, wakeAt, reading>>

BeginPass ==
  /\ pc = "pass"
  /\ pc' = "timers"
  /\ passNow' = now
  /\ sanity' = MaxExpirys
  /\ UNCHANGED <<worldVars, timerVars, exitRequested, wakeAt, reading>>

\* Mutant: a pass expires timers without limit.
MayExpireForever ==
  /\ ~exitRequested
  /\ ~nativeStop
  /\ Len(timers) > 0
  /\ EarliestTimer(timers).target < passNow

(***************************************************************************)
(* The conditions under which the while loop of processTimers expires one  *)
(* more timer: checkNativeExitRequested() reads the stop flag every time.  *)
(***************************************************************************)
MayExpire ==
  /\ sanity > 0
  /\ ~exitRequested
  /\ ~nativeStop
  /\ Len(timers) > 0
  /\ EarliestTimer(timers).target < passNow

EndPass ==
  /\ pc = "timers"
  /\ ~MayExpire
  /\ pc' = "check"
  /\ UNCHANGED <<worldVars, timerVars, exitRequested, passVars, wakeAt, reading>>

\* The timer object once processTimers has popped it and rearmed an interval.
Rearmed(t) ==
  IF t.oneshot THEN t ELSE [t EXCEPT !.target = passNow + t.delay]

ExpireTimer ==
  /\ pc = "timers"
  /\ MayExpire
  /\ LET t == EarliestTimer(timers)
     IN  /\ expiring' = {Rearmed(t)}
         /\ removed' = t.oneshot
  /\ timers' = PopTimer(timers)
  /\ sanity' = sanity - 1
  /\ pc' = "timerCb"
  /\ UNCHANGED <<worldVars, nextTimerId, cleared, exitRequested, passNow, wakeAt, reading>>

\* Mutant: a timer goes back to the list whether it is removed or not.
ReinsertAlways ==
  /\ pc = "timerCb"
  /\ pc' = "timers"
  /\ \E t \in expiring : timers' = InsertTimer(timers, t)
  /\ expiring' = {}
  /\ removed' = FALSE
  /\ UNCHANGED <<worldVars, nextTimerId, cleared, exitRequested, passVars, wakeAt, reading>>

\* The callback returns, or throws: processTimers catches the exception.
TimerCallbackEnds ==
  /\ pc = "timerCb"
  /\ pc' = "timers"
  /\ \E t \in expiring :
       timers' = IF removed THEN timers ELSE InsertTimer(timers, t)
  /\ expiring' = {}
  /\ removed' = FALSE
  /\ UNCHANGED <<worldVars, nextTimerId, cleared, exitRequested, passVars, wakeAt, reading>>

\* Mutant: the loop ends only when nothing is left to wait for.
LeaveIdleLoop ==
  /\ pc = "check"
  /\ Len(timers) = 0 /\ reading = {}
  /\ pc' = "done"
  /\ UNCHANGED <<worldVars, timerVars, exitRequested, passVars, wakeAt, reading>>

LeaveLoop ==
  /\ pc = "check"
  /\ exitRequested \/ (Len(timers) = 0 /\ reading = {})
  /\ pc' = "done"
  /\ UNCHANGED <<worldVars, timerVars, exitRequested, passVars, wakeAt, reading>>

Wait ==
  IF Len(timers) = 0
  THEN MaximumWait
  ELSE AtMost(MaximumWait, AtLeast(MinimumWait, EarliestTimer(timers).target - now))

\* Mutant: no exit check between the timers and the poll.
PollInAnyCase ==
  /\ pc = "check"
  /\ Len(timers) > 0 \/ reading # {}
  /\ pc' = "poll"
  /\ wakeAt' = now + Wait
  /\ UNCHANGED <<worldVars, timerVars, exitRequested, passVars, reading>>

BeginPoll ==
  /\ pc = "check"
  /\ ~exitRequested
  /\ Len(timers) > 0 \/ reading # {}
  /\ pc' = "poll"
  /\ wakeAt' = now + Wait
  /\ UNCHANGED <<worldVars, timerVars, exitRequested, passVars, reading>>

(***************************************************************************)
(* poll() reports input, or an error, on a descriptor that has a reader:   *)
(* run() calls Socket.read or Socket.close, which throws a ReferenceError. *)
(* It leaves run() and the safe call around it: the loop ends.             *)
(***************************************************************************)
PollReportsReader ==
  /\ pc = "poll"
  /\ reading # {}
  /\ Cardinality(reading) <= PollLimit
  /\ pc' = "crashed"
  /\ UNCHANGED <<worldVars, timerVars, exitRequested, passVars, wakeAt, reading>>

\* The timeout elapses (at the bound of the clock it counts as elapsed), or
\* poll_poll fails, as it does beyond PollLimit descriptors: run swallows that.
PollTimesOut ==
  /\ pc = "poll"
  /\ \/ now >= wakeAt
     \/ now = Horizon
     \/ Cardinality(reading) > PollLimit
  /\ pc' = "pass"
  /\ UNCHANGED <<worldVars, timerVars, exitRequested, passVars, wakeAt, reading>>

------------------------------------------------------------------------------
(* The specification.                                                      *)

Api ==
  \/ \E d \in Delays, oneshot \in BOOLEAN : SetTimer(d, oneshot)
  \/ \E id \in 1..MaxId : ClearTimer(id)
  \/ RequestExit
  \/ \E f \in Fds : SetReader(f) \/ Close(f)

ProcessTimers == BeginPass \/ EndPass \/ ExpireTimer

Poll == LeaveLoop \/ BeginPoll \/ PollReportsReader \/ PollTimesOut

\* User code hands control back to the loop.
UserCodeEnds == StartLoop \/ TimerCallbackEnds

World == Tick \/ \E b \in BOOLEAN : StopAllEvents(b)

Loop == ProcessTimers \/ Poll \/ UserCodeEnds

Next == Api \/ Loop \/ World

Spec == Init /\ [][Next]_vars

(***************************************************************************)
(* The thread of the loop is scheduled, the clock advances, and user code  *)
(* returns.  Nothing obliges a script to call the API, or another thread   *)
(* to set the stop flag.                                                   *)
(***************************************************************************)
Fairness == WF_vars(Loop) /\ WF_vars(Tick)

FairSpec == Spec /\ Fairness

------------------------------------------------------------------------------
(* What the loop promises.                                                 *)

(***************************************************************************)
(* processTimers only looks at the last timer of the list: the list must   *)
(* be sorted whatever the callbacks insert and remove, intervals that are  *)
(* rearmed with a stale "now" included.                                    *)
(***************************************************************************)
TimersSorted == Sorted(timers)

(***************************************************************************)
(* A timer id names one timer: removeTimerById, which stops at the first   *)
(* match and looks at the expiring timer first, never leaves a second one  *)
(* behind.                                                                 *)
(***************************************************************************)
IdsAreUnique ==
  /\ DistinctIds(timers)
  /\ \A t \in expiring : t.id \notin TimerIds(timers)
  /\ \A id \in TimerIds(timers) \cup {t.id : t \in expiring} : id < nextTimerId

Service ==
  INSTANCE TimerService
    WITH armed <- Armed,
         running <- {t.id : t \in expiring},
         created <- nextTimerId - 1,
         Durations <- {AtLeast(MinimumDelay, d) : d \in Delays \cup {0}},
         Lateness <- 1

(***************************************************************************)
(* The array, the expiring timer and its removed mark implement a set of   *)
(* armed timers: a one-shot fires once, none fires early, an earlier       *)
(* target fires first, no timer is armed again once it is not, and an      *)
(* interval is never lost, whatever its callback does.                     *)
(***************************************************************************)
ImplementsTimerService == Service!Spec

(***************************************************************************)
(* A timer that was armed when clearTimeout or clearInterval was given its *)
(* id is never armed again, wherever it was: on the list, or out of it     *)
(* because its own callback is what clears it.                             *)
(***************************************************************************)
ClearIsFinal == \A t \in Armed : t.id \notin cleared

CallbackStarts ==
  pc \notin UserCode /\ pc' \in UserCode

(***************************************************************************)
(* "If exit requested, don't call any more callbacks": once user code has  *)
(* requested the exit, the loop goes neither to another callback nor to a  *)
(* poll, whatever is due or has a reader.                                  *)
(***************************************************************************)
ExitIsFinal == [][exitRequested => ~CallbackStarts /\ pc' # "poll"]_vars

Due(id) ==
  \E i \in 1..Len(timers) : timers[i].id = id /\ timers[i].target < now

(***************************************************************************)
(* A timer that is due fires or is cleared, unless the loop is told to     *)
(* stop or the script has set a reader, whose first report ends run() with *)
(* its timers: neither the other timers, nor the timers their callbacks    *)
(* keep adding and rearming, can starve it.                                *)
(***************************************************************************)
DueTimersFire ==
  \A id \in 1..MaxId :
    Due(id) ~> \/ \E t \in expiring : t.id = id
               \/ id \notin TimerIds(timers)
               \/ reading # {}
               \/ exitRequested
               \/ nativeStop

(***************************************************************************)
(* A script whose exit is requested comes to an end.                       *)
(***************************************************************************)
ExitEndsLoop == exitRequested ~> pc \in Stopped
==============================================================================
