----------------------------- MODULE CEventLoop -----------------------------
(***************************************************************************)
(* The event loop of jni/src/c_eventloop.c with the script part that       *)
(* DuktapeJavascriptEngineWrapper carries for it (fdPollHandler, server,   *)
(* connect, setReader, close).  It is the compiled alternative to          *)
(* ecma_eventloop.js: the timers are the same sorted list, but the poll    *)
(* list is an array of pollfd that lives across rounds, in which a deleted *)
(* entry is marked by the descriptor 0 until the list is compacted, and    *)
(* the callbacks of timers are kept apart from them, in the global stash.  *)
(***************************************************************************)
EXTENDS TimerList, FiniteSets

CONSTANTS
  MaxId,        \* bound: timers a script creates in one behaviour
  Delays,       \* the delay arguments scripts pass to setTimeout/setInterval
  Horizon,      \* bound: the last value of the millisecond clock
  MaxTimers,    \* MAX_TIMERS
  MaxExpirys,   \* MAX_EXPIRYS
  MinDelay,     \* MIN_DELAY
  MinWait,      \* MIN_WAIT
  MaxWait,      \* MAX_WAIT
  MaxFds,       \* MAX_FDS
  Fds,          \* the file descriptors the OS hands out
  Deleted       \* the descriptor 0 of a poll entry that is unused

ASSUME CLoopAssumption ==
  /\ MaxId \in Nat \ {0}
  /\ Delays \subseteq Nat
  /\ Horizon \in Nat
  /\ MaxTimers \in Nat \ {0}
  /\ MaxExpirys \in Nat \ {0}
  /\ MinDelay \in Nat \ {0}
  /\ MinWait \in Nat \ {0}
  /\ MaxWait \in Nat \ {0}
  /\ MaxFds \in Nat
  /\ Deleted \notin Fds

VARIABLES
  now,            \* get_now()
  timers,         \* timer_list, up to timer_count
  expiring,       \* timer_expiring; NoTimer when it is zeroed
  removed,        \* timer_expiring.removed
  nextId,         \* timer_next_id
  callbacks,      \* the keys of eventTimers in the global stash
  exitRequested,  \* exit_requested
  pc,             \* where the thread of the loop is
  passNow,        \* the local "now" of expire_timers
  sanity,         \* the local "sanity" of expire_timers
  wakeAt,         \* when the timeout of the current poll() elapses
  pollList,       \* poll_list, up to poll_count
  slot, last,     \* the locals "i" and "n" of the loop over poll_list
  fd,             \* the descriptor that fdPollHandler was called with
  listening, reading, connecting,  \* the keys of the three socket tables
  open,           \* the descriptors the OS holds open
  gone,           \* history: descriptors closed since poll() reported on them
  refused         \* history: whether listen_fd has run out of slots

timerVars  == <<timers, expiring, removed, nextId, callbacks>>
passVars   == <<passNow, sanity>>
tableVars  == <<listening, reading, connecting, open>>
roundVars  == <<slot, last, fd>>
socketVars == <<pollList, tableVars, gone, refused>>
vars == <<now, timerVars, exitRequested, pc, passVars, wakeAt, socketVars, roundVars>>

UserCode == {"load", "timerCb", "inCb", "outCb"}
Handler  == {"in", "inCb", "out", "outCb", "err"}
Events   == {"IN", "OUT", "ERR"}

NoTimer == [id |-> 0, target |-> 0, delay |-> 0, oneshot |-> FALSE]
Timers  == TimerRecord(1..MaxId, Nat, Nat)
PollFd  == [fd : Fds \cup {Deleted}, events : SUBSET {"IN", "OUT"},
            revents : SUBSET Events]

TypeOK ==
  /\ now \in 0..Horizon
  /\ timers \in Seq(Timers) /\ Len(timers) <= MaxTimers
  /\ expiring \in Timers \cup {NoTimer}
  /\ removed \in BOOLEAN
  /\ nextId \in 1..(MaxId + 1)
  /\ callbacks \in SUBSET (1..MaxId)
  /\ exitRequested \in BOOLEAN
  /\ pc \in UserCode \cup Handler
            \cup {"pass", "timers", "check", "poll", "dispatch", "done", "crashed"}
  /\ passNow \in 0..Horizon
  /\ sanity \in 0..MaxExpirys
  /\ wakeAt \in Nat
  /\ pollList \in Seq(PollFd) /\ Len(pollList) <= MaxFds
  /\ slot \in 1..(MaxFds + 1)
  /\ last \in 0..MaxFds
  /\ fd \in Fds \cup {Deleted}
  /\ listening \in SUBSET Fds
  /\ reading \in SUBSET Fds
  /\ connecting \in SUBSET Fds
  /\ open \in SUBSET Fds
  /\ gone \in SUBSET Fds
  /\ refused \in BOOLEAN

(***************************************************************************)
(* timer_count, poll_count and exit_requested are statics of the process:  *)
(* eventloop_register() does not reset them, and this is what the first    *)
(* loop of the process finds.                                              *)
(***************************************************************************)
Init ==
  /\ now = 0
  /\ timers = <<>> /\ expiring = NoTimer /\ removed = FALSE /\ nextId = 1
  /\ callbacks = {}
  /\ exitRequested = FALSE
  /\ pc = "load"
  /\ passNow = 0 /\ sanity = 0 /\ wakeAt = 0
  /\ pollList = <<>> /\ slot = 1 /\ last = 0 /\ fd = Deleted
  /\ listening = {} /\ reading = {} /\ connecting = {} /\ open = {}
  /\ gone = {} /\ refused = FALSE

Goto(label) == pc' = label

Tick ==
  /\ now < Horizon
  /\ now' = now + 1
  /\ UNCHANGED <<timerVars, exitRequested, pc, passVars, wakeAt, socketVars, roundVars>>

------------------------------------------------------------------------------
(* The timer functions, called from user code.                             *)

NewTimer(delay, oneshot) ==
  LET d == AtLeast(MinDelay, delay)
  IN  [id |-> nextId, target |-> now + d, delay |-> d, oneshot |-> oneshot]

\* Mutant: timer_list may have one timer too many.
CreateBeyondSlots(delay, oneshot) ==
  /\ pc \in UserCode
  /\ Len(timers) <= MaxTimers
  /\ nextId <= MaxId
  /\ nextId' = nextId + 1
  /\ timers' = InsertTimer(timers, NewTimer(delay, oneshot))
  /\ callbacks' = callbacks \cup {nextId}
  /\ UNCHANGED <<now, expiring, removed, exitRequested, pc, passVars, wakeAt,
                 socketVars, roundVars>>

\* create_timer.  With MaxTimers on the list it throws, and changes nothing.
CreateTimer(delay, oneshot) ==
  /\ pc \in UserCode
  /\ Len(timers) < MaxTimers
  /\ nextId <= MaxId
  /\ nextId' = nextId + 1
  /\ timers' = InsertTimer(timers, NewTimer(delay, oneshot))
  /\ callbacks' = callbacks \cup {nextId}
  /\ UNCHANGED <<now, expiring, removed, exitRequested, pc, passVars, wakeAt,
                 socketVars, roundVars>>

\* Mutant: deleting a timer from the list leaves its callback in the stash.
DeleteAndKeepCallback(id) ==
  /\ pc \in UserCode
  /\ IF expiring.id = id
     THEN removed' = TRUE /\ UNCHANGED <<timers, callbacks>>
     ELSE /\ timers' = RemoveTimer(timers, id)
          /\ UNCHANGED <<removed, callbacks>>
  /\ UNCHANGED <<now, expiring, nextId, exitRequested, pc, passVars, wakeAt,
                 socketVars, roundVars>>

(***************************************************************************)
(* delete_timer looks at timer_expiring first, which has the identifier 0  *)
(* when it is unused.                                                      *)
(***************************************************************************)
DeleteTimer(id) ==
  /\ pc \in UserCode
  /\ IF expiring.id = id
     THEN removed' = TRUE /\ UNCHANGED <<timers, callbacks>>
     ELSE /\ timers' = RemoveTimer(timers, id)
          /\ callbacks' = IF id \in TimerIds(timers) THEN callbacks \ {id} ELSE callbacks
          /\ UNCHANGED removed
  /\ UNCHANGED <<now, expiring, nextId, exitRequested, pc, passVars, wakeAt,
                 socketVars, roundVars>>

RequestExit ==
  /\ pc \in UserCode
  /\ exitRequested' = TRUE
  /\ UNCHANGED <<now, timerVars, pc, passVars, wakeAt, socketVars, roundVars>>

------------------------------------------------------------------------------
(* The poll list.                                                          *)

SlotsOf(f) == {i \in 1..Len(pollList) : pollList[i].fd = f}

CanListen(f) == SlotsOf(f) # {} \/ Len(pollList) < MaxFds

\* Mutant: no event to listen to is an event mask like another.
UpdateOnly(f, events) ==
  IF SlotsOf(f) = {}
  THEN Append(pollList, [fd |-> f, events |-> events, revents |-> {}])
  ELSE [pollList EXCEPT ![CHOOSE i \in SlotsOf(f) : \A j \in SlotsOf(f) : i <= j].events
          = events]

(***************************************************************************)
(* listen_fd: without events the entry is marked, not removed, so that     *)
(* eventloop_run may be iterating over the list; a descriptor that is not  *)
(* listed is appended, also without events.                                *)
(***************************************************************************)
Listened(f, events) ==
  IF SlotsOf(f) = {}
  THEN Append(pollList, [fd |-> f, events |-> events, revents |-> {}])
  ELSE LET i == CHOOSE s \in SlotsOf(f) : \A t \in SlotsOf(f) : s <= t
       IN  IF events = {}
           THEN [pollList EXCEPT ![i].fd = Deleted]
           ELSE [pollList EXCEPT ![i].events = events]

\* Throws "out of fd slots" when it cannot list f.
AfterListen(f, events) == IF CanListen(f) THEN Listened(f, events) ELSE pollList

ListenFd(f, events) ==
  /\ pollList' = AfterListen(f, events)
  /\ refused' = (refused \/ ~CanListen(f))

\* Mutant: a connection that is not established yet is not forgotten.
ForgetButConnection(f) ==
  /\ refused' = (refused \/ ~CanListen(f))
  /\ IF CanListen(f)
     THEN /\ listening' = listening \ {f}
          /\ reading' = reading \ {f}
          /\ open' = open \ {f}
          /\ gone' = gone \cup ({f} \cap open)
     ELSE UNCHANGED <<listening, reading, open, gone>>
  /\ UNCHANGED connecting

\* The rest of EventLoop.close: listenFd throws before anything else happens,
\* Socket.close of a descriptor that is not open after everything has.
ForgetFd(f) ==
  /\ refused' = (refused \/ ~CanListen(f))
  /\ IF CanListen(f)
     THEN /\ listening' = listening \ {f}
          /\ reading' = reading \ {f}
          /\ connecting' = connecting \ {f}
          /\ open' = open \ {f}
          /\ gone' = gone \cup ({f} \cap open)
     ELSE UNCHANGED <<tableVars, gone>>

------------------------------------------------------------------------------
(* The socket functions, called from user code.                            *)

\* The callback is in its table, and the descriptor open, before listenFd throws.
Server(f) ==
  /\ pc \in UserCode
  /\ f \in Fds \ open
  /\ open' = open \cup {f}
  /\ listening' = listening \cup {f}
  /\ ListenFd(f, {"IN"})
  /\ UNCHANGED <<now, timerVars, exitRequested, pc, passVars, wakeAt,
                 reading, connecting, gone, roundVars>>

Connect(f) ==
  /\ pc \in UserCode
  /\ f \in Fds \ open
  /\ open' = open \cup {f}
  /\ connecting' = connecting \cup {f}
  /\ ListenFd(f, {"OUT"})
  /\ UNCHANGED <<now, timerVars, exitRequested, pc, passVars, wakeAt,
                 listening, reading, gone, roundVars>>

SetReader(f) ==
  /\ pc \in UserCode
  /\ reading' = reading \cup {f}
  /\ ListenFd(f, {"IN"})
  /\ UNCHANGED <<now, timerVars, exitRequested, pc, passVars, wakeAt,
                 listening, connecting, open, gone, roundVars>>

Close(f) ==
  /\ pc \in UserCode
  /\ pollList' = AfterListen(f, {})
  /\ ForgetFd(f)
  /\ UNCHANGED <<now, timerVars, exitRequested, pc, passVars, wakeAt, roundVars>>

------------------------------------------------------------------------------
(* expire_timers                                                           *)

StartLoop ==
  /\ pc = "load"
  /\ Goto("pass")
  /\ UNCHANGED <<now, timerVars, exitRequested, passVars, wakeAt, socketVars, roundVars>>

BeginPass ==
  /\ pc = "pass"
  /\ Goto("timers")
  /\ passNow' = now
  /\ sanity' = MaxExpirys
  /\ UNCHANGED <<now, timerVars, exitRequested, wakeAt, socketVars, roundVars>>

MayExpire ==
  /\ sanity > 0
  /\ ~exitRequested
  /\ Len(timers) > 0
  /\ EarliestTimer(timers).target <= passNow

Rearmed(t) ==
  IF t.oneshot THEN t ELSE [t EXCEPT !.target = passNow + t.delay]

ExpireTimer ==
  /\ pc = "timers"
  /\ MayExpire
  /\ LET t == EarliestTimer(timers)
     IN  /\ expiring' = Rearmed(t)
         /\ removed' = t.oneshot
  /\ timers' = PopTimer(timers)
  /\ sanity' = sanity - 1
  /\ Goto("timerCb")
  /\ UNCHANGED <<now, nextId, callbacks, exitRequested, passNow, wakeAt,
                 socketVars, roundVars>>

\* Mutant: an interval is queued back even when its callback has deleted it.
QueueIntervals ==
  /\ pc = "timerCb"
  /\ IF expiring.oneshot
     THEN /\ callbacks' = callbacks \ {expiring.id}
          /\ Goto("timers")
          /\ UNCHANGED timers
     ELSE /\ IF Len(timers) < MaxTimers
             THEN timers' = InsertTimer(timers, expiring) /\ Goto("timers")
             ELSE Goto("crashed") /\ UNCHANGED timers
          /\ UNCHANGED callbacks
  /\ UNCHANGED <<now, expiring, removed, nextId, exitRequested, passVars, wakeAt,
                 socketVars, roundVars>>

(***************************************************************************)
(* The callback returns or throws, which is ignored.  When the callback    *)
(* has filled the list, queueing the interval back throws, out of the loop.*)
(***************************************************************************)
TimerCallbackEnds ==
  /\ pc = "timerCb"
  /\ IF removed
     THEN /\ callbacks' = callbacks \ {expiring.id}
          /\ Goto("timers")
          /\ UNCHANGED timers
     ELSE /\ IF Len(timers) < MaxTimers
             THEN timers' = InsertTimer(timers, expiring) /\ Goto("timers")
             ELSE Goto("crashed") /\ UNCHANGED timers
          /\ UNCHANGED callbacks
  /\ UNCHANGED <<now, expiring, removed, nextId, exitRequested, passVars, wakeAt,
                 socketVars, roundVars>>

\* The locals of the pass are given up with it.
EndPass ==
  /\ pc = "timers"
  /\ ~MayExpire
  /\ expiring' = NoTimer
  /\ removed' = FALSE
  /\ passNow' = 0 /\ sanity' = 0
  /\ Goto("check")
  /\ UNCHANGED <<now, timers, nextId, callbacks, exitRequested, wakeAt,
                 socketVars, roundVars>>

------------------------------------------------------------------------------
(* eventloop_run                                                           *)

Used == {i \in 1..Len(pollList) : pollList[i].fd # Deleted}

\* Where compact_poll_list moves the used entry i to.
OutputIndex(i) == Cardinality({j \in Used : j <= i})

Kept ==
  [n \in 1..Cardinality(Used) |->
     pollList[CHOOSE i \in Used : OutputIndex(i) = n]]

LeaveLoop ==
  /\ pc = "check"
  /\ exitRequested \/ (Len(timers) = 0 /\ Kept = <<>>)
  /\ Goto("done")
  /\ pollList' = IF exitRequested THEN pollList ELSE Kept
  /\ UNCHANGED <<now, timerVars, exitRequested, passVars, wakeAt, tableVars, gone,
                 refused, roundVars>>

Wait ==
  IF Len(timers) = 0
  THEN MaxWait
  ELSE AtMost(MaxWait, AtLeast(MinWait, EarliestTimer(timers).target - now))

BeginPoll ==
  /\ pc = "check"
  /\ ~exitRequested
  /\ Len(timers) > 0 \/ Kept # <<>>
  /\ pollList' = Kept
  /\ wakeAt' = now + Wait
  /\ gone' = {}
  /\ Goto("poll")
  /\ UNCHANGED <<now, timerVars, exitRequested, passVars, tableVars, refused, roundVars>>

\* What poll() may report of an entry; errors of an open stream socket come
\* with the event that was asked for.
Reports(e) ==
  IF e.fd \notin open THEN {{}, {"ERR"}}
  ELSE {{}, e.events, e.events \cup {"ERR"}}

Polled ==
  /\ slot' = 1
  /\ last' = Len(pollList)
  /\ wakeAt' = 0
  /\ Goto("dispatch")

PollReports ==
  /\ pc = "poll"
  /\ \E r \in [1..Len(pollList) -> SUBSET Events] :
       /\ \A i \in DOMAIN r : r[i] \in Reports(pollList[i])
       /\ \E i \in DOMAIN r : r[i] # {}
       /\ pollList' = [i \in DOMAIN r |-> [pollList[i] EXCEPT !.revents = r[i]]]
  /\ Polled
  /\ UNCHANGED <<now, timerVars, exitRequested, passVars, tableVars, gone, refused, fd>>

\* The timeout elapses (at the bound of the clock it counts as elapsed): the
\* kernel has cleared every revents, and none is looked at.
PollTimesOut ==
  /\ pc = "poll"
  /\ now >= wakeAt \/ now = Horizon
  /\ pollList' = [i \in 1..Len(pollList) |-> [pollList[i] EXCEPT !.revents = {}]]
  /\ wakeAt' = 0
  /\ Goto("pass")
  /\ UNCHANGED <<now, timerVars, exitRequested, passVars, tableVars, gone, refused,
                 roundVars>>

\* poll() fails, of a signal for instance: the loop goes over the list as it is.
PollFails ==
  /\ pc = "poll"
  /\ Polled
  /\ UNCHANGED <<now, timerVars, exitRequested, passVars, socketVars, fd>>

SkipSlot ==
  /\ pc = "dispatch"
  /\ slot <= last
  /\ pollList[slot].fd = Deleted \/ pollList[slot].revents = {}
  /\ slot' = slot + 1
  /\ UNCHANGED <<now, timerVars, exitRequested, pc, passVars, wakeAt, socketVars, last, fd>>

CallHandler ==
  /\ pc = "dispatch"
  /\ slot <= last
  /\ pollList[slot].fd # Deleted /\ pollList[slot].revents # {}
  /\ fd' = pollList[slot].fd
  /\ Goto("in")
  /\ UNCHANGED <<now, timerVars, exitRequested, passVars, wakeAt, socketVars, slot, last>>

EndRound ==
  /\ pc = "dispatch"
  /\ slot > last
  /\ slot' = 1 /\ last' = 0
  /\ Goto("pass")
  /\ UNCHANGED <<now, timerVars, exitRequested, passVars, wakeAt, socketVars, fd>>

------------------------------------------------------------------------------
(* EventLoop.fdPollHandler                                                 *)

Reported(e) == e \in pollList[slot].revents

\* Mutant: what was dispatched stays in revents.
LeaveRevents(list) ==
  /\ pollList' = list
  /\ slot' = slot + 1
  /\ fd' = Deleted
  /\ Goto("dispatch")
  /\ UNCHANGED last

\* duk_pcall_method is back, with a value or an exception that is ignored.
HandlerReturns(list) ==
  /\ pollList' = [list EXCEPT ![slot].revents = {}]
  /\ slot' = slot + 1
  /\ fd' = Deleted
  /\ Goto("dispatch")
  /\ UNCHANGED last

ReadData ==
  /\ pc = "in" /\ Reported("IN")
  /\ fd \in reading
  /\ Goto("inCb")
  /\ UNCHANGED <<now, timerVars, exitRequested, passVars, wakeAt, socketVars, roundVars>>

\* The peer has closed, so does the handler, and returns.
ReadEnd ==
  /\ pc = "in" /\ Reported("IN")
  /\ fd \in reading
  /\ ForgetFd(fd)
  /\ HandlerReturns(AfterListen(fd, {}))
  /\ UNCHANGED <<now, timerVars, exitRequested, passVars, wakeAt>>

Accept(f) ==
  /\ pc = "in" /\ Reported("IN")
  /\ fd \in listening \ reading
  /\ f \in Fds \ open
  /\ open' = open \cup {f}
  /\ Goto("inCb")
  /\ UNCHANGED <<now, timerVars, exitRequested, passVars, wakeAt, pollList, listening,
                 reading, connecting, gone, refused, roundVars>>

\* Socket.read of a connection reset, or Socket.accept, throws.
InputFails ==
  /\ pc = "in" /\ Reported("IN")
  /\ fd \in listening \ reading \/ (fd \in reading /\ Reported("ERR"))
  /\ HandlerReturns(pollList)
  /\ UNCHANGED <<now, timerVars, exitRequested, passVars, wakeAt, tableVars, gone, refused>>

NothingToRead ==
  /\ pc = "in"
  /\ ~Reported("IN") \/ fd \notin reading \cup listening
  /\ Goto("out")
  /\ UNCHANGED <<now, timerVars, exitRequested, passVars, wakeAt, socketVars, roundVars>>

Connected ==
  /\ pc = "out" /\ Reported("OUT")
  /\ fd \in connecting
  /\ connecting' = connecting \ {fd}
  /\ Goto("outCb")
  /\ UNCHANGED <<now, timerVars, exitRequested, passVars, wakeAt, pollList, listening,
                 reading, open, gone, refused, roundVars>>

NothingToConnect ==
  /\ pc = "out"
  /\ ~Reported("OUT") \/ fd \notin connecting
  /\ Goto("err")
  /\ UNCHANGED <<now, timerVars, exitRequested, passVars, wakeAt, socketVars, roundVars>>

SocketCallbackReturns ==
  /\ pc \in {"inCb", "outCb"}
  /\ Goto(IF pc = "inCb" THEN "out" ELSE "err")
  /\ UNCHANGED <<now, timerVars, exitRequested, passVars, wakeAt, socketVars, roundVars>>

SocketCallbackThrows ==
  /\ pc \in {"inCb", "outCb"}
  /\ HandlerReturns(pollList)
  /\ UNCHANGED <<now, timerVars, exitRequested, passVars, wakeAt, tableVars, gone, refused>>

\* POLLERR, POLLHUP or POLLNVAL: whatever the callbacks have done to fd.
CloseForcibly ==
  /\ pc = "err" /\ Reported("ERR")
  /\ ForgetFd(fd)
  /\ HandlerReturns(AfterListen(fd, {}))
  /\ UNCHANGED <<now, timerVars, exitRequested, passVars, wakeAt>>

NoError ==
  /\ pc = "err" /\ ~Reported("ERR")
  /\ HandlerReturns(pollList)
  /\ UNCHANGED <<now, timerVars, exitRequested, passVars, wakeAt, tableVars, gone, refused>>

------------------------------------------------------------------------------
(* The specification.                                                      *)

Api ==
  \/ \E d \in Delays, oneshot \in BOOLEAN : CreateTimer(d, oneshot)
  \/ \E id \in 0..MaxId : DeleteTimer(id)
  \/ RequestExit
  \/ \E f \in Fds : Server(f) \/ Connect(f) \/ SetReader(f) \/ Close(f)

ExpireTimers == BeginPass \/ ExpireTimer \/ TimerCallbackEnds \/ EndPass

Poll == LeaveLoop \/ BeginPoll \/ PollReports \/ PollTimesOut \/ PollFails

Dispatch == SkipSlot \/ CallHandler \/ EndRound

FdPollHandler ==
  \/ ReadData \/ ReadEnd \/ InputFails \/ NothingToRead
  \/ \E f \in Fds : Accept(f)
  \/ Connected \/ NothingToConnect
  \/ SocketCallbackReturns \/ SocketCallbackThrows
  \/ CloseForcibly \/ NoError

Loop == StartLoop \/ ExpireTimers \/ Poll \/ Dispatch \/ FdPollHandler

Next == Tick \/ Api \/ Loop

Spec == Init /\ [][Next]_vars

\* The loop's thread is scheduled, callbacks return, and the clock advances.
FairSpec == Spec /\ WF_vars(Loop) /\ WF_vars(Tick)

------------------------------------------------------------------------------
(* What the loop promises.                                                 *)

\* bubble_last_timer and the memmove of delete_timer keep the list sorted:
\* expire_timers and the timeout of poll() look at its last timer only.
TimersSorted == Sorted(timers)

(***************************************************************************)
(* The stash holds the callback of every timer that exists, on the list or *)
(* expiring, and of no other: a callback that is missing makes a timer     *)
(* fire into undefined, one that is left is never collected.  (A loop that *)
(* queueing an interval has thrown out of is over.)                        *)
(***************************************************************************)
CallbacksMatchTimers ==
  pc # "crashed" =>
    /\ DistinctIds(timers)
    /\ callbacks = TimerIds(timers) \cup (IF pc = "timerCb" THEN {expiring.id} ELSE {})

Armed ==
  {timers[i] : i \in 1..Len(timers)}
    \cup (IF removed \/ expiring = NoTimer THEN {} ELSE {expiring})

Service ==
  INSTANCE TimerService
    WITH armed <- Armed,
         running <- IF pc = "timerCb" THEN {expiring.id} ELSE {},
         created <- nextId - 1,
         Durations <- {AtLeast(MinDelay, d) : d \in Delays},
         Lateness <- 0

(***************************************************************************)
(* The C loop keeps the promises of the timer API as the JavaScript loop   *)
(* does, except that a timer is due at its target already.                 *)
(***************************************************************************)
ImplementsTimerService == Service!Spec

(***************************************************************************)
(* When poll() is called no entry has events left from an earlier round,   *)
(* so that a poll() that fails makes nothing happen.                       *)
(***************************************************************************)
NoStaleEvents ==
  pc = "poll" => \A i \in 1..Len(pollList) : pollList[i].revents = {}

(***************************************************************************)
(* Events that were reported of a socket that a callback of the round has  *)
(* closed are not dispatched, not even when another socket has been given  *)
(* its descriptor since and listens under the same number.                 *)
(***************************************************************************)
ClosedIsNotDispatched ==
  pc = "dispatch" =>
    \A i \in slot..last : pollList[i].revents # {} => pollList[i].fd \notin gone

(***************************************************************************)
(* A callback that waits for a socket is called for events of a socket     *)
(* that is polled, once at most in a round: until the list has overflowed, *)
(* the keys of the three tables have an entry each.                        *)
(***************************************************************************)
WaitingArePolled ==
  /\ \A f \in Fds : Cardinality(SlotsOf(f)) <= 1
  /\ ~refused => listening \cup reading \cup connecting \subseteq
                   {pollList[i].fd : i \in 1..Len(pollList)}

Due(id) ==
  \E i \in 1..Len(timers) : timers[i].id = id /\ timers[i].target <= now

(***************************************************************************)
(* A timer that is due fires or is deleted, unless the loop ends or is     *)
(* told to: neither other timers nor the sockets starve it.                *)
(***************************************************************************)
DueTimersFire ==
  \A id \in 1..MaxId :
    Due(id) ~> \/ pc = "timerCb" /\ expiring.id = id
               \/ id \notin TimerIds(timers)
               \/ pc \in {"done", "crashed"}
               \/ exitRequested
==============================================================================
