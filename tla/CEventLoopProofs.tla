--------------------------- MODULE CEventLoopProofs ---------------------------
(***************************************************************************)
(* Theorems about module CEventLoop, for every bound, every limit of the   *)
(* loop and any set of descriptors: the timers first, which the sockets    *)
(* leave alone, then the poll list, which the timers leave alone, then the *)
(* sizes of both.                                                          *)
(***************************************************************************)
EXTENDS CEventLoop, TimerListProofs, FiniteSetTheorems

(***************************************************************************)
(* What the timers need of the types.  The expiring timer is out of the    *)
(* list while its callback runs, and no identifier in use reaches nextId.  *)
(***************************************************************************)
Typed ==
  /\ now \in Nat /\ passNow \in Nat /\ passNow <= now
  /\ timers \in Seq(Timers)
  /\ expiring \in Timers \cup {NoTimer}
  /\ removed \in BOOLEAN
  /\ nextId \in 1..(MaxId + 1)

IdsAreUnique ==
  /\ DistinctIds(timers)
  /\ \A id \in TimerIds(timers) \cup {expiring.id} : id < nextId
  /\ pc = "timerCb" => expiring \in Timers /\ expiring.id \notin TimerIds(timers)

(***************************************************************************)
(* timer_expiring is zeroed at the end of a pass only: in between it keeps *)
(* what it was after the callback, a timer that is gone or back on the     *)
(* list.                                                                   *)
(***************************************************************************)
ExpiringIsKnown ==
  /\ pc \notin {"timers", "timerCb", "crashed"} => expiring = NoTimer
  /\ pc = "timers" => removed \/ expiring = NoTimer \/ expiring \in TimersIn(timers)

IInv == Typed /\ TimersSorted /\ IdsAreUnique /\ ExpiringIsKnown /\ CallbacksMatchTimers

LEMMA TargetsAreIntegers == \A r \in Timers : r.target \in Int
BY DEF Timers, TimerRecord

LEMMA IdsAreTyped ==
  ASSUME timers \in Seq(Timers)
  PROVE  TimerIds(timers) \subseteq 1..MaxId
<1>1. \A i \in 1..Len(timers) : timers[i] \in Timers
  BY ElementOfSeq
<1> QED
  BY <1>1 DEF TimerIds, Timers, TimerRecord

LEMMA NoTimerIsNone == NoTimer \notin Timers /\ NoTimer.id = 0
BY CLoopAssumption DEF NoTimer, Timers, TimerRecord

LEMMA InitIInv == Init => IInv
<1> SUFFICES ASSUME Init PROVE IInv
  OBVIOUS
<1>1. timers \in Seq(Timers) /\ Len(timers) = 0
  BY EmptySeq DEF Init
<1>2. TimerIds(timers) = {}
  BY <1>1 DEF TimerIds
<1>3. Typed
  <2>1. now = 0 /\ passNow = 0 /\ expiring = NoTimer /\ nextId = 1
    BY DEF Init
  <2>2. removed \in BOOLEAN
    BY DEF Init
  <2>3. 1 \in 1..(MaxId + 1)
    BY CLoopAssumption
  <2> QED
    BY <1>1, <2>1, <2>2, <2>3 DEF Typed
<1>7. ExpiringIsKnown
  BY DEF Init, ExpiringIsKnown
<1>4. IdsAreUnique
  BY <1>1, <1>2, NoTimerIsNone DEF Init, IdsAreUnique, DistinctIds
<1>5. CallbacksMatchTimers
  BY <1>2, <1>4 DEF Init, CallbacksMatchTimers, IdsAreUnique
<1>6. TimersSorted
  BY <1>1 DEF TimersSorted, Sorted
<1> QED
  BY <1>3, <1>4, <1>5, <1>6, <1>7 DEF IInv

(***************************************************************************)
(* A step that leaves the timers alone, and stays out of the pass.         *)
(***************************************************************************)
Alone ==
  /\ UNCHANGED <<now, timerVars, passVars>>
  /\ \/ pc' = pc
     \/ /\ pc \notin {"timers", "timerCb", "crashed"}
        /\ pc' \notin {"timers", "timerCb", "crashed"}

LEMMA AloneKeeps == IInv /\ Alone => IInv'
BY DEF Alone, timerVars, passVars, IInv, Typed, TimersSorted, IdsAreUnique,
       ExpiringIsKnown, CallbacksMatchTimers

LEMMA NewTimerType ==
  ASSUME now \in Nat, nextId \in 1..MaxId, NEW d \in Nat, NEW oneshot \in BOOLEAN
  PROVE  NewTimer(d, oneshot) \in Timers /\ NewTimer(d, oneshot).id = nextId
BY CLoopAssumption DEF NewTimer, AtLeast, Timers, TimerRecord

\* create_timer: the list stays sorted, and the stash gets the callback.
LEMMA CreateTimerKeeps ==
  ASSUME IInv, NEW d \in Nat, NEW oneshot \in BOOLEAN, CreateTimer(d, oneshot)
  PROVE  IInv'
<1> DEFINE x == NewTimer(d, oneshot)
<1>1. /\ timers \in Seq(Timers) /\ nextId \in 1..MaxId /\ nextId \in Nat
      /\ Sorted(timers) /\ DistinctIds(timers) /\ now \in Nat
      /\ \A id \in TimerIds(timers) \cup {expiring.id} : id < nextId
  BY CLoopAssumption DEF IInv, Typed, TimersSorted, IdsAreUnique, CreateTimer
<1>2. /\ nextId' = nextId + 1 /\ timers' = InsertTimer(timers, x)
      /\ callbacks' = callbacks \cup {nextId}
      /\ UNCHANGED <<now, expiring, removed, pc, passNow>>
      /\ pc \in UserCode
  BY DEF CreateTimer, passVars
<1>3. x \in Timers /\ x.id = nextId
  BY <1>1, NewTimerType
<1> HIDE DEF x
<1>4. TimerIds(timers) \subseteq 1..MaxId /\ expiring.id \in 0..MaxId
  <2>1. TimerIds(timers) \subseteq 1..MaxId
    BY <1>1, IdsAreTyped
  <2>2. CASE expiring \in Timers
    BY <2>1, <2>2, CLoopAssumption DEF Timers, TimerRecord
  <2>3. CASE expiring = NoTimer
    BY <2>1, <2>3, NoTimerIsNone, CLoopAssumption
  <2> QED
    BY <2>2, <2>3 DEF IInv, Typed
<1>5. x.id \notin TimerIds(timers)
  BY <1>1, <1>3, <1>4
<1>6. /\ timers' \in Seq(Timers) /\ TimersIn(timers') = TimersIn(timers) \cup {x}
      /\ TimerIds(timers') = TimerIds(timers) \cup {x.id}
  BY <1>1, <1>2, <1>3, TargetsAreIntegers, InsertTimerFacts
<1>7. TimersSorted'
  BY <1>1, <1>2, <1>3, TargetsAreIntegers, InsertTimerSorted DEF TimersSorted
<1>8. DistinctIds(timers')
  BY <1>1, <1>2, <1>3, <1>5, TargetsAreIntegers, InsertTimerDistinct
<1>9. Typed'
  <2>1. nextId' \in 1..(MaxId + 1)
    BY <1>1, <1>2, CLoopAssumption
  <2> QED
    BY <1>2, <1>6, <2>1 DEF IInv, Typed
<1>10. IdsAreUnique'
  <2>1. \A id \in TimerIds(timers') \cup {expiring'.id} : id < nextId'
    BY <1>1, <1>2, <1>3, <1>4, <1>6
  <2>2. pc' = "timerCb" => expiring' \in Timers /\ expiring'.id \notin TimerIds(timers')
    BY <1>1, <1>2, <1>3, <1>4, <1>6 DEF IInv, IdsAreUnique
  <2> QED
    BY <1>8, <2>1, <2>2 DEF IdsAreUnique
<1>11. ExpiringIsKnown'
  BY <1>2, <1>6 DEF IInv, ExpiringIsKnown
<1>12. CallbacksMatchTimers'
  BY <1>2, <1>3, <1>6, <1>8 DEF IInv, CallbacksMatchTimers, UserCode
<1> QED
  BY <1>7, <1>9, <1>10, <1>11, <1>12 DEF IInv

\* delete_timer, in the callback of the timer or not.
LEMMA DeleteTimerKeeps ==
  ASSUME IInv, NEW id \in 0..MaxId, DeleteTimer(id)
  PROVE  IInv'
<1>1. /\ timers \in Seq(Timers) /\ Sorted(timers) /\ DistinctIds(timers)
      /\ UNCHANGED <<now, expiring, nextId, pc, passNow>>
      /\ pc \in UserCode
  BY DEF IInv, Typed, TimersSorted, IdsAreUnique, DeleteTimer, passVars
<1>2. CASE expiring.id = id
  <2>1. removed' = TRUE /\ UNCHANGED <<timers, callbacks>>
    BY <1>2 DEF DeleteTimer
  <2> QED
    BY <1>1, <2>1 DEF IInv, Typed, TimersSorted, IdsAreUnique, ExpiringIsKnown,
                      CallbacksMatchTimers, UserCode
<1>3. CASE expiring.id # id
  <2>1. /\ timers' = RemoveTimer(timers, id) /\ removed' = removed
        /\ callbacks' = IF id \in TimerIds(timers) THEN callbacks \ {id} ELSE callbacks
    BY <1>3 DEF DeleteTimer
  <2>2. /\ timers' \in Seq(Timers) /\ Sorted(timers') /\ DistinctIds(timers')
        /\ TimerIds(timers') = TimerIds(timers) \ {id}
    BY <1>1, <2>1, TargetsAreIntegers, RemoveTimerKeeps
  <2>3. Typed' /\ TimersSorted'
    BY <1>1, <2>1, <2>2 DEF IInv, Typed, TimersSorted
  <2>4. IdsAreUnique'
    BY <1>1, <2>2 DEF IInv, IdsAreUnique
  <2>5. ExpiringIsKnown'
    BY <1>1 DEF IInv, ExpiringIsKnown, UserCode
  <2>6. CallbacksMatchTimers'
    BY <1>1, <1>3, <2>1, <2>2 DEF IInv, CallbacksMatchTimers, UserCode
  <2> QED
    BY <2>3, <2>4, <2>5, <2>6 DEF IInv
<1> QED
  BY <1>2, <1>3

LEMMA RearmedType ==
  ASSUME passNow \in Nat, NEW t \in Timers
  PROVE  Rearmed(t) \in Timers /\ Rearmed(t).id = t.id /\ t.oneshot \in BOOLEAN
<1>1. t.id \in 1..MaxId /\ t.target \in Nat /\ t.delay \in Nat /\ t.oneshot \in BOOLEAN
  BY DEF Timers, TimerRecord
<1>2. passNow + t.delay \in Nat
  BY <1>1
<1>3. [t EXCEPT !.target = passNow + t.delay] \in Timers
  BY <1>2 DEF Timers, TimerRecord
<1>4. [t EXCEPT !.target = passNow + t.delay].id = t.id
  BY DEF Timers, TimerRecord
<1> QED
  BY <1>1, <1>3, <1>4 DEF Rearmed

\* What expire_timers takes from the list.
LEMMA ExpireTimerFacts ==
  ASSUME IInv, ExpireTimer
  PROVE  \E t \in Timers :
           /\ t = timers[Len(timers)] /\ t \in TimersIn(timers) /\ t.target <= passNow
           /\ expiring' = Rearmed(t) /\ removed' = t.oneshot
           /\ timers' \in Seq(Timers) /\ Sorted(timers') /\ DistinctIds(timers')
           /\ TimersIn(timers') = TimersIn(timers) \ {t}
           /\ TimerIds(timers') = TimerIds(timers) \ {t.id}
           /\ t.id \in TimerIds(timers)
           /\ \A u \in TimersIn(timers) : t.target <= u.target
<1> DEFINE n == Len(timers)
           t == timers[n]
<1>1. n \in Nat /\ n \in 1..Len(timers) /\ timers \in Seq(Timers)
  BY LenProperties DEF ExpireTimer, MayExpire, IInv, Typed
<1>2. t \in Timers
  BY <1>1, ElementOfSeq
<1>3. /\ timers' = Unsplice(timers, n) /\ expiring' = Rearmed(t) /\ removed' = t.oneshot
      /\ t.target <= passNow
  BY DEF ExpireTimer, MayExpire, PopTimer, EarliestTimer
<1>4. /\ timers' \in Seq(Timers) /\ Sorted(timers') /\ DistinctIds(timers')
      /\ TimersIn(timers') = TimersIn(timers) \ {t}
      /\ TimerIds(timers') = TimerIds(timers) \ {t.id}
  BY <1>1, <1>3, TargetsAreIntegers, UnspliceKeeps DEF IInv, TimersSorted, IdsAreUnique
<1>5. \A u \in TimersIn(timers) : t.target <= u.target
  <2>1. \A i \in 1..n : timers[i].target \in Int
    BY <1>1, ElementOfSeq, TargetsAreIntegers
  <2>2. \A i \in 1..n : i # n => i < n
    BY <1>1
  <2>3. \A i \in 1..n : timers[i].target >= timers[n].target
    BY <1>1, <2>1, <2>2 DEF IInv, TimersSorted, Sorted
  <2> QED
    BY <1>1, <2>1, <2>3 DEF TimersIn
<1>6. t.id \in TimerIds(timers) /\ t \in TimersIn(timers)
  BY <1>1 DEF TimerIds, TimersIn
<1> QED
  BY <1>2, <1>3, <1>4, <1>5, <1>6

LEMMA ExpireTimerKeeps ==
  ASSUME IInv, ExpireTimer
  PROVE  IInv'
<1>1. PICK t \in Timers :
        /\ expiring' = Rearmed(t) /\ removed' = t.oneshot
        /\ timers' \in Seq(Timers) /\ Sorted(timers') /\ DistinctIds(timers')
        /\ TimerIds(timers') = TimerIds(timers) \ {t.id}
        /\ t.id \in TimerIds(timers)
  BY ExpireTimerFacts
<1>2. /\ pc = "timers" /\ pc' = "timerCb"
      /\ UNCHANGED <<now, nextId, callbacks, passNow>>
  BY DEF ExpireTimer, Goto
<1>3. Rearmed(t) \in Timers /\ Rearmed(t).id = t.id /\ t.oneshot \in BOOLEAN
  BY RearmedType DEF IInv, Typed
<1>4. Typed' /\ TimersSorted'
  BY <1>1, <1>2, <1>3 DEF IInv, Typed, TimersSorted
<1>5. IdsAreUnique'
  BY <1>1, <1>2, <1>3 DEF IInv, IdsAreUnique
<1>6. ExpiringIsKnown'
  BY <1>2 DEF ExpiringIsKnown
<1>7. CallbacksMatchTimers'
  BY <1>1, <1>2, <1>3 DEF IInv, CallbacksMatchTimers
<1> QED
  BY <1>4, <1>5, <1>6, <1>7 DEF IInv

\* An interval is queued back, unless its callback has deleted it or filled the
\* list; a timer that is not has lost its callback.
LEMMA TimerCallbackKeeps ==
  ASSUME IInv, TimerCallbackEnds
  PROVE  IInv'
<1>1. /\ timers \in Seq(Timers) /\ expiring \in Timers /\ Sorted(timers)
      /\ DistinctIds(timers) /\ expiring.id \notin TimerIds(timers) /\ pc = "timerCb"
      /\ UNCHANGED <<now, expiring, removed, nextId, passNow>>
      /\ callbacks = TimerIds(timers) \cup {expiring.id}
  BY DEF IInv, Typed, TimersSorted, IdsAreUnique, CallbacksMatchTimers, TimerCallbackEnds,
         passVars
<1>2. CASE removed
  <2>1. callbacks' = callbacks \ {expiring.id} /\ pc' = "timers" /\ timers' = timers
    BY <1>2 DEF TimerCallbackEnds, Goto
  <2> QED
    BY <1>1, <1>2, <2>1 DEF IInv, Typed, TimersSorted, IdsAreUnique, ExpiringIsKnown,
                            CallbacksMatchTimers
<1>3. CASE ~removed /\ Len(timers) < MaxTimers
  <2>1. timers' = InsertTimer(timers, expiring) /\ pc' = "timers" /\ callbacks' = callbacks
    BY <1>3 DEF TimerCallbackEnds, Goto
  <2>2. /\ timers' \in Seq(Timers)
        /\ TimersIn(timers') = TimersIn(timers) \cup {expiring}
        /\ TimerIds(timers') = TimerIds(timers) \cup {expiring.id}
    BY <1>1, <2>1, TargetsAreIntegers, InsertTimerFacts
  <2>3. Sorted(timers')
    BY <1>1, <2>1, TargetsAreIntegers, InsertTimerSorted
  <2>4. DistinctIds(timers')
    BY <1>1, <2>1, TargetsAreIntegers, InsertTimerDistinct
  <2>5. Typed' /\ TimersSorted'
    BY <1>1, <2>2, <2>3 DEF IInv, Typed, TimersSorted
  <2>6. IdsAreUnique'
    BY <1>1, <2>1, <2>2, <2>4 DEF IInv, IdsAreUnique
  <2>7. ExpiringIsKnown' /\ CallbacksMatchTimers'
    BY <1>1, <2>1, <2>2, <2>4 DEF ExpiringIsKnown, CallbacksMatchTimers
  <2> QED
    BY <2>5, <2>6, <2>7 DEF IInv
<1>4. CASE ~removed /\ ~(Len(timers) < MaxTimers)
  <2>1. pc' = "crashed" /\ timers' = timers
    BY <1>4 DEF TimerCallbackEnds, Goto
  <2> QED
    BY <1>1, <2>1 DEF IInv, Typed, TimersSorted, IdsAreUnique, ExpiringIsKnown,
                      CallbacksMatchTimers
<1> QED
  BY <1>2, <1>3, <1>4

LEMMA PassKeeps ==
  ASSUME IInv, BeginPass \/ EndPass
  PROVE  IInv'
<1>1. CASE BeginPass
  BY <1>1 DEF BeginPass, Goto, timerVars, IInv, Typed, TimersSorted, IdsAreUnique,
              ExpiringIsKnown, CallbacksMatchTimers
<1>2. CASE EndPass
  <2>1. /\ pc = "timers" /\ pc' = "check" /\ expiring' = NoTimer /\ removed' = FALSE
        /\ passNow' = 0 /\ UNCHANGED <<now, timers, nextId, callbacks>>
    BY <1>2 DEF EndPass, Goto
  <2>2. 0 < nextId /\ now \in Nat /\ 0 <= now
    BY DEF IInv, Typed
  <2> QED
    BY <2>1, <2>2, NoTimerIsNone DEF IInv, Typed, TimersSorted, IdsAreUnique,
                                     ExpiringIsKnown, CallbacksMatchTimers
<1> QED
  BY <1>1, <1>2

LEMMA TickKeeps == IInv /\ Tick => IInv'
BY DEF Tick, timerVars, passVars, IInv, Typed, TimersSorted, IdsAreUnique,
       ExpiringIsKnown, CallbacksMatchTimers

\* The poll list and the sockets have nothing to do with the timers.
LEMMA SocketsLeaveTimersAlone ==
  ASSUME \/ RequestExit
         \/ \E f \in Fds : Server(f) \/ Connect(f) \/ SetReader(f) \/ Close(f)
         \/ StartLoop \/ Poll \/ Dispatch \/ FdPollHandler
  PROVE  Alone
<1> USE DEF Alone, Goto
<1>1. CASE RequestExit \/ StartLoop
  BY <1>1 DEF RequestExit, StartLoop
<1>2. ASSUME NEW f \in Fds, Server(f) \/ Connect(f) \/ SetReader(f) \/ Close(f)
      PROVE  Alone
  BY <1>2 DEF Server, Connect, SetReader, Close
<1>3. CASE Poll
  BY <1>3 DEF Poll, LeaveLoop, BeginPoll, PollReports, PollTimesOut, PollFails, Polled
<1>4. CASE Dispatch
  BY <1>4 DEF Dispatch, SkipSlot, CallHandler, EndRound
<1>5. CASE FdPollHandler
  <2>1. ASSUME NEW f \in Fds, Accept(f) PROVE Alone
    BY <2>1 DEF Accept
  <2>2. CASE ReadData \/ ReadEnd \/ InputFails \/ NothingToRead
    BY <2>2 DEF ReadData, ReadEnd, InputFails, NothingToRead, HandlerReturns
  <2>3. CASE Connected \/ NothingToConnect \/ CloseForcibly \/ NoError
    BY <2>3 DEF Connected, NothingToConnect, CloseForcibly, NoError, HandlerReturns
  <2>4. CASE SocketCallbackReturns \/ SocketCallbackThrows
    BY <2>4 DEF SocketCallbackReturns, SocketCallbackThrows, HandlerReturns
  <2> QED
    BY <1>5, <2>1, <2>2, <2>3, <2>4 DEF FdPollHandler
<1> QED
  BY <1>1, <1>2, <1>3, <1>4, <1>5

LEMMA IInvIsInductive == IInv /\ [Next]_vars => IInv'
<1> SUFFICES ASSUME IInv, [Next]_vars PROVE IInv'
  OBVIOUS
<1>1. ASSUME NEW d \in Delays, NEW oneshot \in BOOLEAN, CreateTimer(d, oneshot) PROVE IInv'
  BY <1>1, CreateTimerKeeps, CLoopAssumption
<1>2. ASSUME NEW id \in 0..MaxId, DeleteTimer(id) PROVE IInv'
  BY <1>2, DeleteTimerKeeps
<1>3. CASE ExpireTimers
  BY <1>3, PassKeeps, ExpireTimerKeeps, TimerCallbackKeeps DEF ExpireTimers
<1>4. CASE Tick
  BY <1>4, TickKeeps
<1>5. CASE UNCHANGED vars
  BY <1>5, AloneKeeps DEF vars, Alone
<1> QED
  BY <1>1, <1>2, <1>3, <1>4, <1>5, SocketsLeaveTimersAlone, AloneKeeps DEF Next, Api, Loop

LEMMA IInvHolds == Spec => []IInv
BY InitIInv, IInvIsInductive, PTL DEF Spec

(***************************************************************************)
(* The array of the C loop is always sorted, the nearest expiry last.      *)
(***************************************************************************)
THEOREM CTimersStaySorted == Spec => []TimersSorted
<1>1. IInv => TimersSorted
  BY DEF IInv
<1> QED
  BY <1>1, IInvHolds, PTL

(***************************************************************************)
(* The stash holds the callbacks of exactly the timers that exist.         *)
(***************************************************************************)
THEOREM CallbacksAlwaysMatch == Spec => []CallbacksMatchTimers
<1>1. IInv => CallbacksMatchTimers
  BY DEF IInv
<1> QED
  BY <1>1, IInvHolds, PTL

------------------------------------------------------------------------------
(* Steps of the C loop as steps of TimerService.                           *)

LEMMA ArmedAsSets ==
  Armed = TimersIn(timers) \cup (IF removed \/ expiring = NoTimer THEN {} ELSE {expiring})
BY DEF Armed, TimersIn

LEMMA AloneStutters ==
  ASSUME IInv, Alone
  PROVE  UNCHANGED Service!vars
BY DEF Alone, timerVars, Service!vars, Armed

LEMMA CreateTimerArms ==
  ASSUME IInv, NEW d \in Delays, NEW oneshot \in BOOLEAN, CreateTimer(d, oneshot)
  PROVE  Service!Next
<1> DEFINE x == NewTimer(d, oneshot)
           delay == AtLeast(MinDelay, d)
<1>1. d \in Nat /\ nextId \in 1..MaxId /\ nextId \in Nat /\ MaxId \in Nat /\ now \in Nat
  BY CLoopAssumption DEF IInv, Typed, CreateTimer
<1>2. x \in Timers /\ timers \in Seq(Timers)
  BY <1>1, NewTimerType DEF IInv, Typed
<1>3. /\ timers' = InsertTimer(timers, x) /\ nextId' = nextId + 1
      /\ UNCHANGED <<now, expiring, removed, pc>>
  BY DEF CreateTimer
<1> HIDE DEF x
<1>4. TimersIn(timers') = TimersIn(timers) \cup {x}
  BY <1>2, <1>3, TargetsAreIntegers, InsertTimerFacts
<1>5. Armed' = Armed \cup {x}
  BY <1>3, <1>4, ArmedAsSets DEF TimersIn, Armed
<1>6. x = [id |-> (nextId - 1) + 1, target |-> now + delay, delay |-> delay,
           oneshot |-> oneshot]
  BY <1>1 DEF NewTimer, x
<1>7. nextId - 1 < MaxId /\ nextId' - 1 = (nextId - 1) + 1
  BY <1>1, <1>3
<1>8. delay \in {AtLeast(MinDelay, e) : e \in Delays}
  OBVIOUS
<1> HIDE DEF delay
<1>9. Service!Arm(delay, oneshot)
  BY <1>3, <1>5, <1>6, <1>7 DEF Service!Arm
<1> QED
  BY <1>8, <1>9 DEF Service!Next

\* The identifier 0, which timer_expiring has when it is unused, is no timer's.
LEMMA DeleteTimerClears ==
  ASSUME IInv, NEW id \in 0..MaxId, DeleteTimer(id)
  PROVE  Service!Next \/ UNCHANGED Service!vars
<1>1. /\ timers \in Seq(Timers) /\ Sorted(timers) /\ DistinctIds(timers)
      /\ removed \in BOOLEAN /\ TimerIds(timers) \subseteq 1..MaxId
      /\ expiring \in Timers => expiring.id \in 1..MaxId
      /\ expiring \in Timers \cup {NoTimer}
      /\ UNCHANGED <<now, expiring, nextId, pc>>
  BY IdsAreTyped
     DEF IInv, Typed, TimersSorted, IdsAreUnique, DeleteTimer, Timers, TimerRecord
<1>2. expiring \in Timers => pc = "timerCb" /\ expiring.id \notin TimerIds(timers)
  BY NoTimerIsNone DEF IInv, IdsAreUnique, ExpiringIsKnown, DeleteTimer, UserCode
<1>3. Armed' = {t \in Armed : t.id # id}
  <2>1. CASE expiring.id = id
    <3>1. removed' = TRUE /\ timers' = timers
      BY <2>1 DEF DeleteTimer
    <3>2. \A t \in TimersIn(timers) : t.id # id
      BY <1>1, <1>2, <2>1, NoTimerIsNone, IdsOfTimers
    <3>3. Armed' = TimersIn(timers)
      BY <3>1 DEF Armed, TimersIn
    <3> QED
      BY <2>1, <3>2, <3>3, ArmedAsSets
  <2>2. CASE expiring.id # id
    <3>1. timers' = RemoveTimer(timers, id) /\ removed' = removed
      BY <2>2 DEF DeleteTimer
    <3>2. TimersIn(timers') = {t \in TimersIn(timers) : t.id # id}
      BY <1>1, <3>1, TargetsAreIntegers, RemoveTimerKeeps
    <3>3. Armed' = TimersIn(timers')
                    \cup (IF removed \/ expiring = NoTimer THEN {} ELSE {expiring})
      BY <1>1, <3>1 DEF Armed, TimersIn
    <3> QED
      BY <2>2, <3>2, <3>3, ArmedAsSets
  <2> QED
    BY <2>1, <2>2
<1>4. CASE id \in 1..MaxId
  <2>1. Service!Clear(id)
    BY <1>1, <1>3 DEF Service!Clear
  <2> QED
    BY <1>4, <2>1 DEF Service!Next
<1>5. CASE id = 0
  <2>1. \A t \in TimersIn(timers) : t.id # 0
    BY <1>1, IdsOfTimers
  <2>2. \A t \in Armed : t.id # 0
    BY <1>1, <2>1, ArmedAsSets
  <2>3. Armed' = Armed
    BY <1>3, <1>5, <2>2
  <2> QED
    BY <1>1, <2>3 DEF Service!vars
<1> QED
  BY <1>4, <1>5, CLoopAssumption

\* An interval keeps armed under its next target; a timer is due at its target.
LEMMA ExpireTimerFires ==
  ASSUME IInv, ExpireTimer
  PROVE  Service!Next
<1>1. PICK t \in Timers :
        /\ t \in TimersIn(timers) /\ t.target <= passNow
        /\ expiring' = Rearmed(t) /\ removed' = t.oneshot
        /\ TimersIn(timers') = TimersIn(timers) \ {t}
        /\ \A u \in TimersIn(timers) : t.target <= u.target
  BY ExpireTimerFacts
<1> DEFINE next == passNow + t.delay
<1>2. /\ pc = "timers" /\ pc' = "timerCb" /\ UNCHANGED <<now, nextId>>
      /\ passNow <= now /\ passNow \in Nat /\ now \in Nat
  BY DEF ExpireTimer, Goto, IInv, Typed
<1>3. Armed = TimersIn(timers)
  BY <1>2, ArmedAsSets DEF IInv, ExpiringIsKnown
<1>4. Rearmed(t) \in Timers /\ Rearmed(t).id = t.id /\ t.oneshot \in BOOLEAN
  BY <1>2, RearmedType
<1>5. expiring' # NoTimer
  BY <1>1, <1>4, NoTimerIsNone
<1>6. Armed' = (Armed \ {t}) \cup (IF t.oneshot THEN {} ELSE {Rearmed(t)})
  <2>1. Armed' = TimersIn(timers')
                  \cup (IF removed' \/ expiring' = NoTimer THEN {} ELSE {expiring'})
    BY DEF Armed, TimersIn
  <2> QED
    BY <1>1, <1>3, <1>5, <2>1
<1>7. t.id \in 1..MaxId /\ t.target \in Nat /\ t.delay \in Nat
  BY DEF Timers, TimerRecord
<1>8. Service!Fire(t)
  <2>1. /\ (IF pc = "timerCb" THEN {expiring.id} ELSE {}) = {}
        /\ (IF pc' = "timerCb" THEN {expiring'.id} ELSE {}) = {t.id}
    BY <1>1, <1>2, <1>4
  <2>2. t.target + 0 <= now
    BY <1>1, <1>2, <1>7
  <2>3. CASE t.oneshot
    BY <1>1, <1>2, <1>3, <1>6, <2>1, <2>2, <2>3 DEF Service!Fire
  <2>4. CASE ~t.oneshot
    <3>1. next \in (t.target + t.delay + 0)..(now + t.delay)
      BY <1>1, <1>2, <1>7
    <3>2. Armed' = (Armed \ {t}) \cup {[t EXCEPT !.target = next]}
      BY <1>6, <2>4 DEF Rearmed
    <3> HIDE DEF next
    <3> QED
      BY <1>1, <1>2, <1>3, <2>1, <2>2, <2>4, <3>1, <3>2 DEF Service!Fire
  <2> QED
    BY <1>4, <2>3, <2>4
<1> QED
  BY <1>1, <1>3, <1>8 DEF Service!Next

\* When the list is full the interval stays armed, in a loop that is over.
LEMMA TimerCallbackFinishes ==
  ASSUME IInv, TimerCallbackEnds
  PROVE  Service!Next
<1>1. /\ pc = "timerCb" /\ pc' # "timerCb" /\ UNCHANGED <<now, expiring, removed, nextId>>
      /\ timers \in Seq(Timers) /\ expiring \in Timers /\ removed \in BOOLEAN
      /\ timers' = timers \/ (~removed /\ timers' = InsertTimer(timers, expiring))
  BY DEF TimerCallbackEnds, Goto, IInv, Typed, IdsAreUnique
<1>2. expiring # NoTimer
  BY <1>1, NoTimerIsNone
<1>3. Armed' = TimersIn(timers')
                \cup (IF removed \/ expiring = NoTimer THEN {} ELSE {expiring})
  BY <1>1 DEF Armed, TimersIn
<1>4. TimersIn(InsertTimer(timers, expiring)) = TimersIn(timers) \cup {expiring}
  <2> DEFINE x == expiring
             longer == InsertTimer(timers, x)
  <2>1. timers \in Seq(Timers) /\ x \in Timers /\ longer = InsertTimer(timers, x)
    BY <1>1
  <2> HIDE DEF x, longer
  <2>2. TimersIn(longer) = TimersIn(timers) \cup {x}
    BY <2>1, TargetsAreIntegers, InsertTimerFacts
  <2> QED
    BY <2>2 DEF x, longer
<1>5. Armed' = Armed
  <2>1. CASE timers' = timers
    BY <1>3, <2>1, ArmedAsSets
  <2>2. CASE ~removed /\ timers' = InsertTimer(timers, expiring)
    BY <1>2, <1>3, <1>4, <2>2, ArmedAsSets
  <2> QED
    BY <1>1, <2>1, <2>2
<1>6. Service!Finish
  BY <1>1, <1>5 DEF Service!Finish
<1> QED
  BY <1>6 DEF Service!Next

\* At the end of a pass timer_expiring is forgotten, and nothing with it.
LEMMA PassStutters ==
  ASSUME IInv, BeginPass \/ EndPass
  PROVE  UNCHANGED Service!vars
<1>1. CASE BeginPass
  BY <1>1 DEF BeginPass, Goto, timerVars, Armed, Service!vars
<1>2. CASE EndPass
  <2>1. /\ pc = "timers" /\ pc' = "check" /\ expiring' = NoTimer
        /\ UNCHANGED <<now, timers, nextId>>
    BY <1>2 DEF EndPass, Goto
  <2>2. Armed = TimersIn(timers)
    BY <2>1, ArmedAsSets DEF IInv, ExpiringIsKnown
  <2>3. Armed' = TimersIn(timers)
    BY <2>1 DEF Armed, TimersIn
  <2> QED
    BY <2>1, <2>2, <2>3 DEF Service!vars
<1> QED
  BY <1>1, <1>2

LEMMA StepsImplementService == IInv /\ [Next]_vars => [Service!Next]_(Service!vars)
<1> SUFFICES ASSUME IInv, [Next]_vars PROVE [Service!Next]_(Service!vars)
  OBVIOUS
<1> DEFINE Maps == Service!Next \/ UNCHANGED Service!vars
<1>1. ASSUME Alone PROVE Maps
  BY <1>1, AloneStutters
<1>2. ASSUME NEW d \in Delays, NEW oneshot \in BOOLEAN, CreateTimer(d, oneshot) PROVE Maps
  BY <1>2, CreateTimerArms
<1>3. ASSUME NEW id \in 0..MaxId, DeleteTimer(id) PROVE Maps
  BY <1>3, DeleteTimerClears
<1>4. ASSUME ExpireTimers PROVE Maps
  BY <1>4, PassStutters, ExpireTimerFires, TimerCallbackFinishes DEF ExpireTimers
<1>5. ASSUME Tick PROVE Maps
  <2>1. UNCHANGED <<timers, expiring, removed, nextId, pc>>
    BY <1>5 DEF Tick, timerVars
  <2>2. Armed' = Armed
    BY <2>1 DEF Armed
  <2>3. Service!Tick
    BY <1>5, <2>1, <2>2 DEF Tick, Service!Tick
  <2> QED
    BY <2>3 DEF Service!Next
<1>6. ASSUME UNCHANGED vars PROVE Alone
  BY <1>6 DEF vars, Alone
<1> HIDE DEF Maps
<1>7. Maps
  BY <1>1, <1>2, <1>3, <1>4, <1>5, <1>6, SocketsLeaveTimersAlone DEF Next, Api, Loop
<1> QED
  BY <1>7 DEF Maps

(***************************************************************************)
(* The array of the C loop, timer_expiring with its removed mark and the   *)
(* identifier 0 of an unused one implement the set of armed timers, for    *)
(* every script: a full list costs no timer either.                        *)
(***************************************************************************)
THEOREM CLoopImplementsTimerService == Spec => ImplementsTimerService
<1>1. Init => Service!Init
  <2> SUFFICES ASSUME Init PROVE Service!Init
    OBVIOUS
  <2>1. timers = <<>> /\ expiring = NoTimer /\ nextId = 1 /\ now = 0 /\ pc = "load"
    BY DEF Init
  <2>2. Len(timers) = 0
    BY <2>1, EmptySeq
  <2>3. Armed = {}
    BY <2>1, <2>2 DEF Armed
  <2> QED
    BY <2>1, <2>3 DEF Service!Init
<1> QED
  BY <1>1, IInvHolds, StepsImplementService, PTL DEF Spec, ImplementsTimerService, Service!Spec

------------------------------------------------------------------------------
(* The poll list.                                                          *)

ListTyped(list) == list \in Seq(PollFd) /\ Len(list) <= MaxFds

Listed(list) == {list[i].fd : i \in 1..Len(list)}

\* No descriptor has two entries, those that are marked deleted apart.
Unique(list) ==
  \A i, j \in 1..Len(list) : list[i].fd = list[j].fd /\ list[i].fd \in Fds => i = j

\* The descriptors of S have no events left to dispatch.
Quiet(list, S) == \A i \in 1..Len(list) : list[i].fd \in S => list[i].revents = {}

\* Events are left between two slots only.
OfRound(list, from, to) ==
  \A i \in 1..Len(list) :
    list[i].fd # Deleted /\ list[i].revents # {} => from <= i /\ i <= to

LEMMA EntryFacts ==
  ASSUME NEW list, ListTyped(list)
  PROVE  /\ Len(list) \in Nat /\ list \in [1..Len(list) -> PollFd]
         /\ \A i \in 1..Len(list) : list[i] \in PollFd /\ list[i].fd \in Fds \cup {Deleted}
<1>1. Len(list) \in Nat /\ list \in [1..Len(list) -> PollFd]
  BY LenProperties DEF ListTyped
<1> QED
  BY <1>1 DEF PollFd

\* A new entry at the end.
LEMMA AppendListens ==
  ASSUME ListTyped(pollList), Unique(pollList), NEW f \in Fds, SlotsOf(f) = {},
         NEW events \in SUBSET {"IN", "OUT"}, Len(pollList) < MaxFds,
         NEW list, list = Append(pollList, [fd |-> f, events |-> events, revents |-> {}])
  PROVE  /\ ListTyped(list) /\ Unique(list) /\ Len(list) >= Len(pollList)
         /\ \A S \in SUBSET Fds : Quiet(pollList, S) => Quiet(list, S)
         /\ \A a, b : OfRound(pollList, a, b) => OfRound(list, a, b)
         /\ Listed(list) = Listed(pollList) \cup {f}
         /\ Quiet(list, {f})
<1> DEFINE n == Len(pollList)
           new == [fd |-> f, events |-> events, revents |-> {}]
<1>1. new \in PollFd /\ new.fd = f /\ new.revents = {}
  BY DEF PollFd
<1>2. pollList \in Seq(PollFd) /\ n \in Nat /\ MaxFds \in Nat
  BY CLoopAssumption, EntryFacts DEF ListTyped
<1>3. list = Append(pollList, new)
  OBVIOUS
<1> HIDE DEF new
<1>4. /\ list \in Seq(PollFd) /\ Len(list) = n + 1
      /\ \A i \in 1..n : list[i] = pollList[i]
      /\ list[n + 1] = new
  BY <1>1, <1>2, <1>3, AppendProperties
<1>5. 1..Len(list) = 1..n \cup {n + 1} /\ n + 1 \in 1..Len(list)
  BY <1>2, <1>4
<1>6. \A i \in 1..n : pollList[i].fd # f
  BY DEF SlotsOf
<1> HIDE DEF n
<1>7. ListTyped(list) /\ Len(list) >= n
  BY <1>2, <1>4 DEF ListTyped, n
<1>8. Unique(list)
  <2> SUFFICES ASSUME NEW i \in 1..Len(list), NEW j \in 1..Len(list),
                      list[i].fd = list[j].fd, list[i].fd \in Fds
               PROVE  i = j
    BY DEF Unique
  <2>1. CASE i \in 1..n /\ j \in 1..n
    BY <1>4, <2>1 DEF Unique, n
  <2>2. CASE i = n + 1 /\ j \in 1..n
    BY <1>1, <1>4, <1>6, <2>2
  <2>3. CASE j = n + 1 /\ i \in 1..n
    BY <1>1, <1>4, <1>6, <2>3
  <2> QED
    BY <1>5, <2>1, <2>2, <2>3
<1>9. ASSUME NEW S \in SUBSET Fds, Quiet(pollList, S) PROVE Quiet(list, S)
  BY <1>1, <1>4, <1>5, <1>9 DEF Quiet, n
<1>10. ASSUME NEW a, NEW b, OfRound(pollList, a, b) PROVE OfRound(list, a, b)
  BY <1>1, <1>4, <1>5, <1>10 DEF OfRound, n
<1>11. Listed(list) = Listed(pollList) \cup {f}
  BY <1>1, <1>4, <1>5 DEF Listed, n
<1>12. Quiet(list, {f})
  BY <1>1, <1>4, <1>5, <1>6 DEF Quiet
<1> QED
  BY <1>7, <1>8, <1>9, <1>10, <1>11, <1>12 DEF n

\* An entry that changes its events, its descriptor or what was reported of it.
LEMMA ExceptEntry ==
  ASSUME NEW old, ListTyped(old), NEW k \in 1..Len(old), NEW entry \in PollFd,
         NEW list, list = [old EXCEPT ![k] = entry]
  PROVE  /\ ListTyped(list) /\ Len(list) = Len(old)
         /\ \A i \in 1..Len(old) : list[i] = IF i = k THEN entry ELSE old[i]
<1>1. old \in Seq(PollFd)
  BY DEF ListTyped
<1>2. list \in Seq(PollFd) /\ Len(list) = Len(old)
  BY <1>1, ExceptSeq
<1>3. \A i \in 1..Len(old) : list[i] = IF i = k THEN entry ELSE old[i]
  BY <1>1, EntryFacts
<1> QED
  BY <1>2, <1>3 DEF ListTyped

\* The only entry of a descriptor.
LEMMA EntryOf ==
  ASSUME ListTyped(pollList), Unique(pollList), NEW f \in Fds, SlotsOf(f) # {}
  PROVE  LET k == CHOOSE s \in SlotsOf(f) : \A t \in SlotsOf(f) : s <= t
         IN  /\ k \in 1..Len(pollList) /\ pollList[k].fd = f
             /\ \A i \in 1..Len(pollList) : pollList[i].fd = f => i = k
<1> DEFINE k == CHOOSE s \in SlotsOf(f) : \A t \in SlotsOf(f) : s <= t
<1>1. SlotsOf(f) \subseteq Nat
  BY EntryFacts DEF SlotsOf
<1>2. \E s \in SlotsOf(f) : \A t \in SlotsOf(f) : s <= t
  BY <1>1, LeastNatural
<1>3. k \in SlotsOf(f)
  BY <1>2
<1> HIDE DEF k
<1>4. k \in 1..Len(pollList) /\ pollList[k].fd = f
  BY <1>3 DEF SlotsOf
<1>5. \A i \in 1..Len(pollList) : pollList[i].fd = f => i = k
  BY <1>4 DEF Unique
<1> QED
  BY <1>4, <1>5 DEF k

(***************************************************************************)
(* What listen_fd does to the list: it never gives a descriptor a second   *)
(* entry, adds no events to those reported, and without events leaves      *)
(* nothing of the descriptor to dispatch.                                  *)
(***************************************************************************)
LEMMA AfterListenFacts ==
  ASSUME ListTyped(pollList), Unique(pollList), NEW f \in Fds,
         NEW events \in SUBSET {"IN", "OUT"}, NEW list, list = AfterListen(f, events)
  PROVE  /\ ListTyped(list) /\ Unique(list) /\ Len(list) >= Len(pollList)
         /\ \A S \in SUBSET Fds : Quiet(pollList, S) => Quiet(list, S)
         /\ \A a, b : OfRound(pollList, a, b) => OfRound(list, a, b)
         /\ Listed(pollList) \ {f} \subseteq Listed(list)
         /\ CanListen(f) /\ events # {} => Listed(pollList) \cup {f} \subseteq Listed(list)
         /\ CanListen(f) /\ events = {} => Quiet(list, {f})
<1> USE CLoopAssumption
<1>1. CASE ~CanListen(f)
  <2>1. list = pollList /\ Len(pollList) \in Nat
    BY <1>1, EntryFacts DEF AfterListen
  <2> QED
    BY <1>1, <2>1
<1>2. CASE CanListen(f) /\ SlotsOf(f) = {}
  <2>1. list = Append(pollList, [fd |-> f, events |-> events, revents |-> {}])
        /\ Len(pollList) < MaxFds
    BY <1>2 DEF AfterListen, Listened, CanListen
  <2>2. /\ ListTyped(list) /\ Unique(list) /\ Len(list) >= Len(pollList)
        /\ \A S \in SUBSET Fds : Quiet(pollList, S) => Quiet(list, S)
        /\ \A a, b : OfRound(pollList, a, b) => OfRound(list, a, b)
        /\ Listed(list) = Listed(pollList) \cup {f}
        /\ Quiet(list, {f})
    BY <1>2, <2>1, AppendListens
  <2> QED
    BY <2>2
<1>3. CASE CanListen(f) /\ SlotsOf(f) # {}
  <2> DEFINE k == CHOOSE s \in SlotsOf(f) : \A t \in SlotsOf(f) : s <= t
             n == Len(pollList)
  <2>1. /\ k \in 1..n /\ pollList[k].fd = f
        /\ \A i \in 1..n : pollList[i].fd = f => i = k
    BY <1>3, EntryOf
  <2>2. list = IF events = {} THEN [pollList EXCEPT ![k].fd = Deleted]
               ELSE [pollList EXCEPT ![k].events = events]
    BY <1>3 DEF AfterListen, Listened
  <2> HIDE DEF k
  <2> DEFINE entry == IF events = {} THEN [pollList[k] EXCEPT !.fd = Deleted]
                      ELSE [pollList[k] EXCEPT !.events = events]
  <2>3. n \in Nat /\ pollList \in [1..n -> PollFd] /\ pollList[k] \in PollFd
    BY <2>1, EntryFacts
  <2>4. /\ entry \in PollFd /\ entry.revents = pollList[k].revents
        /\ entry.fd = IF events = {} THEN Deleted ELSE f
    BY <2>1, <2>3 DEF PollFd
  <2>5. list = [pollList EXCEPT ![k] = entry]
    BY <2>1, <2>2, <2>3
  <2> HIDE DEF entry
  <2>6. /\ ListTyped(list) /\ Len(list) = n
        /\ \A i \in 1..n : list[i] = IF i = k THEN entry ELSE pollList[i]
    <3>1. k \in 1..Len(pollList) /\ entry \in PollFd
      BY <2>1, <2>4
    <3>2. ListTyped([pollList EXCEPT ![k] = entry])
      BY <3>1, ExceptEntry
    <3>3. /\ Len([pollList EXCEPT ![k] = entry]) = Len(pollList)
          /\ \A i \in 1..Len(pollList) :
               [pollList EXCEPT ![k] = entry][i] = IF i = k THEN entry ELSE pollList[i]
      BY <3>1, ExceptEntry
    <3> QED
      BY <2>5, <3>2, <3>3
  <2> HIDE DEF n
  <2>7. \A i \in 1..n : /\ list[i].revents = pollList[i].revents
                        /\ list[i].fd = IF i = k /\ events = {} THEN Deleted
                                        ELSE pollList[i].fd
    BY <2>1, <2>4, <2>6
  <2>8. Unique(list)
    BY <2>1, <2>6, <2>7 DEF Unique, n
  <2>9. ASSUME NEW S \in SUBSET Fds, Quiet(pollList, S) PROVE Quiet(list, S)
    BY <2>6, <2>7, <2>9 DEF Quiet, n
  <2>10. ASSUME NEW a, NEW b, OfRound(pollList, a, b) PROVE OfRound(list, a, b)
    BY <2>6, <2>7, <2>10 DEF OfRound, n
  <2>11. Listed(pollList) \ {f} \subseteq Listed(list)
    BY <2>1, <2>6, <2>7 DEF Listed, n
  <2>12. events # {} => Listed(pollList) \cup {f} \subseteq Listed(list)
    BY <2>1, <2>6, <2>7 DEF Listed, n
  <2>13. events = {} => Quiet(list, {f})
    BY <2>1, <2>6, <2>7 DEF Quiet
  <2> QED
    BY <2>3, <2>6, <2>8, <2>9, <2>10, <2>11, <2>12, <2>13 DEF n
<1> QED
  BY <1>1, <1>2, <1>3

\* What was reported of an entry has been dispatched.
LEMMA ClearedFacts ==
  ASSUME NEW old, ListTyped(old), Unique(old), NEW k \in 1..Len(old),
         NEW list, list = [old EXCEPT ![k].revents = {}]
  PROVE  /\ ListTyped(list) /\ Unique(list) /\ Len(list) = Len(old)
         /\ Listed(list) = Listed(old)
         /\ \A S \in SUBSET Fds : Quiet(old, S) => Quiet(list, S)
         /\ \A b : OfRound(old, k, b) => OfRound(list, k + 1, b)
<1> DEFINE entry == [old[k] EXCEPT !.revents = {}]
           n == Len(old)
<1>1. n \in Nat /\ old \in [1..n -> PollFd] /\ old[k] \in PollFd
  BY EntryFacts
<1>2. list = [old EXCEPT ![k] = entry]
  BY <1>1
<1>3. entry \in PollFd /\ entry.fd = old[k].fd /\ entry.revents = {}
  BY <1>1 DEF PollFd
<1> HIDE DEF entry
<1>4. ListTyped([old EXCEPT ![k] = entry])
  BY <1>3, ExceptEntry
<1>5. /\ Len([old EXCEPT ![k] = entry]) = Len(old)
      /\ \A i \in 1..Len(old) : [old EXCEPT ![k] = entry][i] = IF i = k THEN entry ELSE old[i]
  BY <1>3, ExceptEntry
<1>6. /\ ListTyped(list) /\ Len(list) = n
      /\ \A i \in 1..n : /\ list[i].fd = old[i].fd
                         /\ list[i].revents = IF i = k THEN {} ELSE old[i].revents
  BY <1>2, <1>3, <1>4, <1>5
<1> HIDE DEF n
<1>7. Unique(list) /\ Listed(list) = Listed(old)
  BY <1>6 DEF Unique, Listed, n
<1>8. \A S \in SUBSET Fds : Quiet(old, S) => Quiet(list, S)
  BY <1>6 DEF Quiet, n
<1>9. ASSUME NEW b, OfRound(old, k, b) PROVE OfRound(list, k + 1, b)
  <2> SUFFICES ASSUME NEW i \in 1..n, list[i].fd # Deleted, list[i].revents # {}
               PROVE  k + 1 <= i /\ i <= b
    BY <1>6 DEF OfRound
  <2>1. i # k /\ k <= i /\ i <= b
    BY <1>6, <1>9 DEF OfRound, n
  <2> QED
    BY <1>1, <2>1 DEF n
<1> QED
  BY <1>6, <1>7, <1>8, <1>9 DEF n

(***************************************************************************)
(* The members of a finite set of numbers, counted from the least one on.  *)
(***************************************************************************)
LEMMA RanksAreOnto ==
  ASSUME NEW n \in Nat, NEW U \in SUBSET (1..n)
  PROVE  /\ Cardinality(U) \in Nat /\ Cardinality(U) <= n
         /\ \A i \in U : Cardinality({j \in U : j <= i}) \in 1..Cardinality(U)
         /\ \A i, k \in U :
              Cardinality({j \in U : j <= i}) = Cardinality({j \in U : j <= k}) => i = k
         /\ \A m \in 1..Cardinality(U) : \E i \in U : Cardinality({j \in U : j <= i}) = m
<1> DEFINE Upto(i) == {j \in U : j <= i}
           rank == [i \in U |-> Cardinality(Upto(i))]
           N == Cardinality(U)
<1>1. IsFiniteSet(1..n) /\ Cardinality(1..n) = IF 1 > n THEN 0 ELSE n - 1 + 1
  BY FS_Interval
<1>2. IsFiniteSet(U) /\ N <= Cardinality(1..n)
  BY <1>1, FS_Subset
<1>3. N \in Nat /\ N <= n
  BY <1>1, <1>2, FS_CardinalityType
<1>4. ASSUME NEW i \in U PROVE IsFiniteSet(Upto(i)) /\ Cardinality(Upto(i)) \in 1..N
  <2>1. Upto(i) \in SUBSET U /\ i \in Upto(i)
    OBVIOUS
  <2> HIDE DEF Upto
  <2>2. IsFiniteSet(Upto(i)) /\ Cardinality(Upto(i)) <= N
    BY <1>2, <2>1, FS_Subset
  <2>3. Cardinality(Upto(i)) \in Nat /\ Cardinality(Upto(i)) # 0
    BY <2>1, <2>2, FS_CardinalityType, FS_EmptySet
  <2> QED
    BY <1>3, <2>2, <2>3
<1>5. ASSUME NEW i \in U, NEW k \in U, i < k
      PROVE  Cardinality(Upto(i)) # Cardinality(Upto(k))
  <2>1. i \in Nat /\ k \in Nat /\ U \subseteq Nat
    OBVIOUS
  <2>2. ~(k <= i) /\ \A j \in U : j <= i => j <= k
    BY <1>5, <2>1
  <2>3. Upto(i) \in SUBSET Upto(k) /\ k \in Upto(k) /\ k \notin Upto(i)
    <3>1. k <= k
      BY <2>1
    <3> QED
      BY <2>2, <3>1
  <2>4. IsFiniteSet(Upto(k))
    BY <1>4
  <2> HIDE DEF Upto
  <2> QED
    BY <2>3, <2>4, FS_Subset
<1>6. \A i, k \in U : Cardinality(Upto(i)) = Cardinality(Upto(k)) => i = k
  BY <1>5
<1> HIDE DEF N, Upto
<1>7. rank \in Injection(U, 1..N)
  BY <1>4, <1>6 DEF Injection, IsInjective
<1>8. IsFiniteSet(1..N) /\ Cardinality(1..N) = N
  BY <1>3, FS_Interval
<1>9. rank \in Surjection(U, 1..N)
  BY <1>7, <1>8, FS_Injection DEF N
<1>10. \A m \in 1..N : \E i \in U : Cardinality(Upto(i)) = m
  BY <1>9 DEF Surjection
<1> QED
  BY <1>3, <1>4, <1>6, <1>10 DEF N, Upto

(***************************************************************************)
(* compact_poll_list keeps the entries that are not marked, once each.     *)
(***************************************************************************)
LEMMA KeptFacts ==
  ASSUME ListTyped(pollList), Unique(pollList)
  PROVE  /\ ListTyped(Kept) /\ Unique(Kept)
         /\ \A i \in 1..Len(Kept) : Kept[i].fd # Deleted
         /\ Listed(pollList) \ {Deleted} \subseteq Listed(Kept)
         /\ \A S \in SUBSET Fds : Quiet(pollList, S) => Quiet(Kept, S)
         /\ OfRound(pollList, 1, 0) => OfRound(Kept, 1, 0)
<1> DEFINE n == Len(pollList)
           N == Cardinality(Used)
           at(m) == CHOOSE i \in Used : OutputIndex(i) = m
<1>1. n \in Nat /\ Used \in SUBSET (1..n) /\ MaxFds \in Nat /\ n <= MaxFds
  BY EntryFacts, CLoopAssumption DEF Used, ListTyped
<1>2. /\ N \in Nat /\ N <= n
      /\ \A i \in Used : OutputIndex(i) \in 1..N
      /\ \A i, k \in Used : OutputIndex(i) = OutputIndex(k) => i = k
      /\ \A m \in 1..N : \E i \in Used : OutputIndex(i) = m
  BY <1>1, RanksAreOnto DEF OutputIndex
<1>3. \A m \in 1..N : at(m) \in Used /\ OutputIndex(at(m)) = m
  BY <1>2
<1> HIDE DEF at, N
<1>4. Kept = [m \in 1..N |-> pollList[at(m)]]
  BY DEF Kept, at, N
<1>5. \A i \in Used : i \in 1..n /\ pollList[i] \in PollFd /\ pollList[i].fd # Deleted
  BY EntryFacts DEF Used
<1>6. Kept \in [1..N -> PollFd]
  <2>1. \A m \in 1..N : pollList[at(m)] \in PollFd
    BY <1>3, <1>5
  <2> QED
    BY <1>4, <2>1
<1>7. Kept \in Seq(PollFd)
  BY <1>2, <1>6, SeqDef
<1>10. Len(Kept) = N
  BY <1>2, <1>4, <1>7
<1> HIDE DEF n
<1>11. ListTyped(Kept)
  BY <1>1, <1>2, <1>7, <1>10 DEF ListTyped
<1>12. \A m \in 1..N : at(m) \in Used /\ Kept[m] = pollList[at(m)]
  BY <1>3, <1>4
<1>13. Unique(Kept)
  <2> SUFFICES ASSUME NEW i \in 1..N, NEW k \in 1..N,
                      Kept[i].fd = Kept[k].fd, Kept[i].fd \in Fds
               PROVE  i = k
    BY <1>10 DEF Unique
  <2>1. at(i) \in 1..n /\ at(k) \in 1..n
    BY <1>5, <1>12
  <2>2. at(i) = at(k)
    BY <1>12, <2>1 DEF Unique, n
  <2> QED
    BY <1>3, <2>2
<1>14. \A m \in 1..N : Kept[m].fd # Deleted
  BY <1>5, <1>12
<1>15. Listed(pollList) \ {Deleted} \subseteq Listed(Kept)
  <2> SUFFICES ASSUME NEW i \in 1..n, pollList[i].fd # Deleted
               PROVE  \E m \in 1..N : Kept[m].fd = pollList[i].fd
    BY <1>10 DEF Listed, n
  <2>1. i \in Used
    BY DEF Used, n
  <2>2. OutputIndex(i) \in 1..N /\ at(OutputIndex(i)) = i
    BY <1>2, <1>3, <2>1
  <2> QED
    BY <1>12, <2>2
<1>16. ASSUME NEW S \in SUBSET Fds, Quiet(pollList, S) PROVE Quiet(Kept, S)
  BY <1>5, <1>10, <1>12, <1>16 DEF Quiet, n
<1>17. ASSUME OfRound(pollList, 1, 0) PROVE OfRound(Kept, 1, 0)
  <2>1. \A i \in 1..n : pollList[i].fd # Deleted => pollList[i].revents = {}
    BY <1>1, <1>17 DEF OfRound, n
  <2> QED
    BY <1>5, <1>10, <1>12, <2>1 DEF OfRound
<1> QED
  BY <1>10, <1>11, <1>13, <1>14, <1>15, <1>16, <1>17

\* What poll() reports replaces what it reported before.
LEMMA ReportedFacts ==
  ASSUME ListTyped(pollList), Unique(pollList),
         NEW r \in [1..Len(pollList) -> SUBSET Events],
         NEW list, list = [i \in 1..Len(pollList) |-> [pollList[i] EXCEPT !.revents = r[i]]]
  PROVE  /\ ListTyped(list) /\ Unique(list) /\ Len(list) = Len(pollList)
         /\ Listed(list) = Listed(pollList)
         /\ \A i \in 1..Len(pollList) : list[i].revents = r[i]
<1> DEFINE n == Len(pollList)
<1>1. n \in Nat /\ \A i \in 1..n : pollList[i] \in PollFd
  BY EntryFacts
<1>2. \A i \in 1..n : /\ [pollList[i] EXCEPT !.revents = r[i]] \in PollFd
                      /\ [pollList[i] EXCEPT !.revents = r[i]].fd = pollList[i].fd
                      /\ [pollList[i] EXCEPT !.revents = r[i]].revents = r[i]
  BY <1>1 DEF PollFd
<1> HIDE DEF n
<1>3. list = [i \in 1..n |-> [pollList[i] EXCEPT !.revents = r[i]]]
  BY DEF n
<1>4. list \in [1..n -> PollFd]
  BY <1>2, <1>3
<1>5. list \in Seq(PollFd)
  BY <1>1, <1>4, SeqDef
<1>6. Len(list) = n
  BY <1>1, <1>3, <1>5
<1>7. \A i \in 1..n : list[i].fd = pollList[i].fd /\ list[i].revents = r[i]
  BY <1>2, <1>3
<1>8. ListTyped(list)
  BY <1>5, <1>6 DEF ListTyped, n
<1>9. Unique(list) /\ Listed(list) = Listed(pollList)
  BY <1>6, <1>7 DEF Unique, Listed, n
<1> QED
  BY <1>6, <1>7, <1>8, <1>9 DEF n

------------------------------------------------------------------------------
(* The invariant of the poll list.                                         *)

Rounds == Handler \cup {"dispatch"}

Labels ==
  UserCode \cup Handler
    \cup {"pass", "timers", "check", "poll", "dispatch", "done", "crashed"}

SocketsTyped ==
  /\ ListTyped(pollList)
  /\ slot \in 1..(MaxFds + 1) /\ last \in 0..MaxFds /\ fd \in Fds \cup {Deleted}
  /\ listening \in SUBSET Fds /\ reading \in SUBSET Fds /\ connecting \in SUBSET Fds
  /\ open \in SUBSET Fds /\ gone \in SUBSET Fds /\ refused \in BOOLEAN
  /\ pc \in Labels

\* The list only grows while it is gone over, and the handler has an entry.
SlotsInList ==
  /\ pc \in Rounds => last <= Len(pollList)
  /\ pc \in Handler => slot <= last /\ fd \in Fds

\* Outside a round nothing is left to dispatch, in one nothing before its slot.
EventsAreOfRound ==
  /\ pc \in Rounds => OfRound(pollList, slot, last)
  /\ pc \notin Rounds => OfRound(pollList, 1, 0)

\* poll() is called with a compact list, and before anything is closed.
PolledIsCompact ==
  pc = "poll" => gone = {} /\ \A i \in 1..Len(pollList) : pollList[i].fd # Deleted

WaitingAreListed ==
  ~refused => listening \cup reading \cup connecting \subseteq Listed(pollList)

PollInv ==
  /\ SocketsTyped /\ Unique(pollList) /\ SlotsInList /\ EventsAreOfRound
  /\ PolledIsCompact /\ Quiet(pollList, gone) /\ WaitingAreListed

LEMMA InitPollInv == Init => PollInv
<1> SUFFICES ASSUME Init PROVE PollInv
  OBVIOUS
<1>1. pollList \in Seq(PollFd) /\ Len(pollList) = 0
  BY EmptySeq DEF Init
<1>2. ListTyped(pollList) /\ MaxFds \in Nat
  BY <1>1, CLoopAssumption DEF ListTyped
<1>3. SocketsTyped
  <2>1. 1 \in 1..(MaxFds + 1) /\ 0 \in 0..MaxFds
    BY <1>2
  <2>2. slot = 1 /\ last = 0 /\ fd = Deleted /\ pc = "load" /\ refused = FALSE
    BY DEF Init
  <2>3. /\ listening = {} /\ reading = {} /\ connecting = {} /\ open = {} /\ gone = {}
    BY DEF Init
  <2> HIDE DEF Init
  <2> QED
    BY <1>2, <2>1, <2>2, <2>3 DEF SocketsTyped, Labels, UserCode
<1>4. Unique(pollList) /\ Quiet(pollList, gone) /\ OfRound(pollList, 1, 0)
  BY <1>1 DEF Unique, Quiet, OfRound
<1>5. pc = "load" /\ listening \cup reading \cup connecting = {}
  BY DEF Init
<1> QED
  BY <1>3, <1>4, <1>5 DEF PollInv, SlotsInList, EventsAreOfRound, PolledIsCompact,
     WaitingAreListed, Rounds, Handler

(***************************************************************************)
(* A step that leaves the poll list and the sockets alone.                 *)
(***************************************************************************)
PollAlone ==
  /\ UNCHANGED <<pollList, slot, last, fd, listening, reading, connecting, open, gone, refused>>
  /\ pc' \in Labels
  /\ pc \in Rounds <=> pc' \in Rounds
  /\ pc' \in Handler => pc \in Handler
  /\ pc' = "poll" => pc = "poll"

LEMMA PollAloneKeeps == ASSUME PollInv, PollAlone PROVE PollInv'
BY DEF PollInv, PollAlone, SocketsTyped, ListTyped, Unique, SlotsInList, EventsAreOfRound,
       PolledIsCompact, Quiet, OfRound, WaitingAreListed, Listed

LEMMA TimersLeavePollAlone ==
  ASSUME PollInv,
         \/ Tick \/ RequestExit \/ StartLoop \/ ExpireTimers
         \/ \E d \in Delays, oneshot \in BOOLEAN : CreateTimer(d, oneshot)
         \/ \E id \in 0..MaxId : DeleteTimer(id)
         \/ ReadData \/ NothingToRead \/ NothingToConnect \/ SocketCallbackReturns
         \/ UNCHANGED vars
  PROVE  PollAlone
<1> USE DEF PollAlone, socketVars, tableVars, roundVars, Goto, Rounds, Handler
<1>1. pc \in Labels
  BY DEF PollInv, SocketsTyped
<1>2. CASE Tick \/ RequestExit \/ UNCHANGED vars
  BY <1>1, <1>2 DEF Tick, RequestExit, vars
<1>3. CASE StartLoop
  BY <1>3 DEF StartLoop, Labels
<1>4. CASE ExpireTimers
  <2>1. CASE BeginPass \/ ExpireTimer
    BY <2>1 DEF BeginPass, ExpireTimer, Labels, UserCode
  <2>2. CASE TimerCallbackEnds
    BY <2>2 DEF TimerCallbackEnds, Labels, UserCode
  <2>3. CASE EndPass
    BY <2>3 DEF EndPass, Labels
  <2> QED
    BY <1>4, <2>1, <2>2, <2>3 DEF ExpireTimers
<1>5. ASSUME NEW d \in Delays, NEW oneshot \in BOOLEAN, CreateTimer(d, oneshot) PROVE PollAlone
  BY <1>1, <1>5 DEF CreateTimer
<1>6. ASSUME NEW id \in 0..MaxId, DeleteTimer(id) PROVE PollAlone
  BY <1>1, <1>6 DEF DeleteTimer
<1>7. CASE ReadData \/ NothingToRead \/ NothingToConnect
  BY <1>7 DEF ReadData, NothingToRead, NothingToConnect, Labels
<1>8. CASE SocketCallbackReturns
  BY <1>8 DEF SocketCallbackReturns, Labels
<1> QED
  BY <1>2, <1>3, <1>4, <1>5, <1>6, <1>7, <1>8

------------------------------------------------------------------------------
(* The socket functions.                                                   *)

\* A call of listen_fd by user code, which closes f at most if it asks for no events.
LEMMA ListenKeeps ==
  ASSUME PollInv, NEW f \in Fds, NEW events \in SUBSET {"IN", "OUT"}, pc \in UserCode,
         pollList' = AfterListen(f, events), UNCHANGED <<pc, slot, last, fd>>,
         listening' \in SUBSET Fds, reading' \in SUBSET Fds, connecting' \in SUBSET Fds,
         open' \in SUBSET Fds, refused' \in BOOLEAN,
         gone' = gone \/ (events = {} /\ CanListen(f) /\ gone' \in {gone, gone \cup {f}}),
         ~refused' => ~refused /\ CanListen(f),
         LET waiting == listening \cup reading \cup connecting
             waiting2 == listening' \cup reading' \cup connecting'
         IN  ~refused' => IF events = {} THEN waiting2 \subseteq waiting \ {f}
                          ELSE waiting2 \subseteq waiting \cup {f}
  PROVE  PollInv'
<1> DEFINE list == pollList'
<1>1. ListTyped(pollList) /\ Unique(pollList) /\ gone \in SUBSET Fds
  BY DEF PollInv, SocketsTyped
<1>2. list = AfterListen(f, events)
  OBVIOUS
<1> HIDE DEF list
<1>3. /\ ListTyped(list) /\ Unique(list) /\ Len(list) >= Len(pollList)
      /\ \A S \in SUBSET Fds : Quiet(pollList, S) => Quiet(list, S)
      /\ \A a, b : OfRound(pollList, a, b) => OfRound(list, a, b)
      /\ Listed(pollList) \ {f} \subseteq Listed(list)
      /\ CanListen(f) /\ events # {} => Listed(pollList) \cup {f} \subseteq Listed(list)
      /\ CanListen(f) /\ events = {} => Quiet(list, {f})
  BY <1>1, <1>2, AfterListenFacts
<1>4. Len(list) \in Nat /\ Len(pollList) \in Nat
  BY <1>1, <1>3, EntryFacts
<1>5. SocketsTyped'
  BY <1>1, <1>3 DEF PollInv, SocketsTyped, ListTyped, list
<1>6. Unique(pollList)'
  BY <1>3 DEF Unique, list
<1>7. SlotsInList'
  BY <1>3, <1>4, CLoopAssumption DEF PollInv, SlotsInList, SocketsTyped, list
<1>8. EventsAreOfRound'
  BY <1>3 DEF PollInv, EventsAreOfRound, OfRound, list
<1>9. PolledIsCompact'
  BY DEF PolledIsCompact, UserCode
<1>10. Quiet(pollList, gone)'
  <2>1. Quiet(list, gone)
    BY <1>1, <1>3 DEF PollInv
  <2>2. gone' = gone \cup {f} => Quiet(list, {f})
    BY <1>3, <2>1 DEF Quiet
  <2> QED
    BY <2>1, <2>2 DEF Quiet, list
<1>11. WaitingAreListed'
  BY <1>3 DEF PollInv, WaitingAreListed, Listed, list
<1> QED
  BY <1>5, <1>6, <1>7, <1>8, <1>9, <1>10, <1>11 DEF PollInv

LEMMA SocketApiKeeps ==
  ASSUME PollInv, NEW f \in Fds, Server(f) \/ Connect(f) \/ SetReader(f) \/ Close(f)
  PROVE  PollInv'
<1> USE DEF roundVars
<1>1. /\ listening \in SUBSET Fds /\ reading \in SUBSET Fds /\ connecting \in SUBSET Fds
      /\ open \in SUBSET Fds /\ gone \in SUBSET Fds /\ refused \in BOOLEAN
      /\ CanListen(f) \in BOOLEAN
  BY DEF PollInv, SocketsTyped, CanListen
<1>2. CASE Server(f) \/ SetReader(f)
  <2>1. /\ pc \in UserCode /\ UNCHANGED <<pc, slot, last, fd, connecting, gone>>
        /\ pollList' = AfterListen(f, {"IN"}) /\ refused' = (refused \/ ~CanListen(f))
        /\ listening' \subseteq listening \cup {f} /\ reading' \subseteq reading \cup {f}
        /\ open' \subseteq open \cup {f}
    BY <1>2 DEF Server, SetReader, ListenFd
  <2>2. /\ {"IN"} \in SUBSET {"IN", "OUT"} /\ {"IN"} # {}
        /\ refused' \in BOOLEAN /\ ~refused' => ~refused /\ CanListen(f)
    BY <1>1, <2>1
  <2> QED
    BY <1>1, <2>1, <2>2, ListenKeeps
<1>3. CASE Connect(f)
  <2>1. /\ pc \in UserCode /\ UNCHANGED <<pc, slot, last, fd, listening, reading, gone>>
        /\ pollList' = AfterListen(f, {"OUT"}) /\ refused' = (refused \/ ~CanListen(f))
        /\ connecting' = connecting \cup {f} /\ open' = open \cup {f}
    BY <1>3 DEF Connect, ListenFd
  <2>2. /\ {"OUT"} \in SUBSET {"IN", "OUT"} /\ {"OUT"} # {}
        /\ refused' \in BOOLEAN /\ ~refused' => ~refused /\ CanListen(f)
    BY <1>1, <2>1
  <2> QED
    BY <1>1, <2>1, <2>2, ListenKeeps
<1>4. CASE Close(f)
  <2>1. /\ pc \in UserCode /\ UNCHANGED <<pc, slot, last, fd>>
        /\ pollList' = AfterListen(f, {}) /\ refused' = (refused \/ ~CanListen(f))
        /\ ForgetFd(f)
    BY <1>4 DEF Close, ForgetFd
  <2>2. {} \in SUBSET {"IN", "OUT"} /\ refused' \in BOOLEAN
        /\ ~refused' => ~refused /\ CanListen(f)
    BY <1>1, <2>1
  <2>3. CASE CanListen(f)
    <3>1. /\ listening' = listening \ {f} /\ reading' = reading \ {f}
          /\ connecting' = connecting \ {f} /\ open' = open \ {f}
          /\ gone' = gone \cup ({f} \cap open)
      BY <2>1, <2>3 DEF ForgetFd
    <3>2. gone' \in {gone, gone \cup {f}}
      BY <3>1
    <3> QED
      BY <1>1, <2>1, <2>2, <2>3, <3>1, <3>2, ListenKeeps
  <2>4. CASE ~CanListen(f)
    <3>1. UNCHANGED <<tableVars, gone>> /\ refused'
      BY <2>1, <2>4 DEF ForgetFd
    <3> QED
      BY <1>1, <2>1, <2>2, <3>1, ListenKeeps DEF tableVars
  <2> QED
    BY <2>3, <2>4
<1> QED
  BY <1>2, <1>3, <1>4

------------------------------------------------------------------------------
(* The handler.                                                            *)

\* The handler returns: the events of its entry are dispatched.
LEMMA HandlerReturnsKeeps ==
  ASSUME PollInv, pc \in Handler, NEW list, HandlerReturns(list),
         ListTyped(list), Unique(list), Len(list) >= Len(pollList),
         OfRound(list, slot, last), Quiet(list, gone'),
         listening' \in SUBSET Fds, reading' \in SUBSET Fds, connecting' \in SUBSET Fds,
         open' \in SUBSET Fds, gone' \in SUBSET Fds, refused' \in BOOLEAN,
         ~refused' => listening' \cup reading' \cup connecting' \subseteq Listed(list)
  PROVE  PollInv'
<1> DEFINE next == pollList'
<1>1. /\ slot \in 1..(MaxFds + 1) /\ last \in 0..MaxFds /\ slot <= last
      /\ last <= Len(pollList) /\ Len(pollList) \in Nat /\ Len(list) \in Nat
      /\ MaxFds \in Nat
  BY CLoopAssumption, EntryFacts DEF PollInv, SocketsTyped, SlotsInList, Rounds
<1>2. /\ next = [list EXCEPT ![slot].revents = {}]
      /\ slot' = slot + 1 /\ fd' = Deleted /\ pc' = "dispatch" /\ last' = last
  BY DEF HandlerReturns, Goto
<1>3. slot \in 1..Len(list)
  BY <1>1
<1> HIDE DEF next
<1>4. /\ ListTyped(next) /\ Unique(next) /\ Len(next) = Len(list)
      /\ Listed(next) = Listed(list)
      /\ \A S \in SUBSET Fds : Quiet(list, S) => Quiet(next, S)
      /\ \A b : OfRound(list, slot, b) => OfRound(next, slot + 1, b)
  <2>1. ListTyped(next) /\ Unique(next)
    BY <1>2, <1>3, ClearedFacts
  <2>2. Len(next) = Len(list)
    BY <1>2, <1>3, ClearedFacts
  <2>3. Listed(next) = Listed(list)
    <3>1. Listed([list EXCEPT ![slot].revents = {}]) = Listed(list)
      BY <1>3, ClearedFacts
    <3> QED
      BY <1>2, <3>1
  <2>4. \A S \in SUBSET Fds : Quiet(list, S) => Quiet(next, S)
    BY <1>2, <1>3, ClearedFacts
  <2>5. \A b : OfRound(list, slot, b) => OfRound(next, slot + 1, b)
    BY <1>2, <1>3, ClearedFacts
  <2> QED
    BY <2>1, <2>2, <2>3, <2>4, <2>5
<1>5. SocketsTyped'
  BY <1>1, <1>2, <1>4 DEF SocketsTyped, ListTyped, Labels, next
<1>6. Unique(pollList)'
  BY <1>4 DEF Unique, next
<1>7. SlotsInList'
  BY <1>1, <1>2, <1>4 DEF SlotsInList, Handler, next
<1>8. EventsAreOfRound'
  BY <1>2, <1>4 DEF EventsAreOfRound, OfRound, Rounds, next
<1>9. PolledIsCompact'
  BY <1>2 DEF PolledIsCompact
<1>10. Quiet(pollList, gone)'
  BY <1>4 DEF Quiet, next
<1>11. WaitingAreListed'
  BY <1>4 DEF WaitingAreListed, Listed, next
<1> QED
  BY <1>5, <1>6, <1>7, <1>8, <1>9, <1>10, <1>11 DEF PollInv

LEMMA HandlerClosesKeeps ==
  ASSUME PollInv, ReadEnd \/ CloseForcibly
  PROVE  PollInv'
<1> DEFINE list == AfterListen(fd, {})
<1>1. pc \in Handler /\ ForgetFd(fd) /\ HandlerReturns(list)
  BY DEF ReadEnd, CloseForcibly, Handler
<1>2. /\ ListTyped(pollList) /\ Unique(pollList) /\ fd \in Fds
      /\ listening \in SUBSET Fds /\ reading \in SUBSET Fds /\ connecting \in SUBSET Fds
      /\ open \in SUBSET Fds /\ gone \in SUBSET Fds /\ refused \in BOOLEAN
      /\ CanListen(fd) \in BOOLEAN
      /\ OfRound(pollList, slot, last) /\ Quiet(pollList, gone)
  BY <1>1 DEF PollInv, SocketsTyped, SlotsInList, EventsAreOfRound, Rounds, CanListen
<1>3. list = AfterListen(fd, {}) /\ {} \in SUBSET {"IN", "OUT"}
  OBVIOUS
<1> HIDE DEF list
<1>4. /\ ListTyped(list) /\ Unique(list) /\ Len(list) >= Len(pollList)
      /\ \A S \in SUBSET Fds : Quiet(pollList, S) => Quiet(list, S)
      /\ \A a, b : OfRound(pollList, a, b) => OfRound(list, a, b)
      /\ Listed(pollList) \ {fd} \subseteq Listed(list)
      /\ CanListen(fd) => Quiet(list, {fd})
  BY <1>2, <1>3, AfterListenFacts
<1>5. refused' = (refused \/ ~CanListen(fd))
  BY <1>1 DEF ForgetFd
<1>6. /\ OfRound(list, slot, last) /\ Quiet(list, gone)
      /\ ~refused => listening \cup reading \cup connecting \subseteq Listed(pollList)
  BY <1>2, <1>4 DEF PollInv, WaitingAreListed
<1>7. CASE CanListen(fd)
  <2>1. /\ listening' = listening \ {fd} /\ reading' = reading \ {fd}
        /\ connecting' = connecting \ {fd} /\ open' = open \ {fd}
        /\ gone' = gone \cup ({fd} \cap open)
    BY <1>1, <1>7 DEF ForgetFd
  <2>2. Quiet(list, gone')
    BY <1>4, <1>6, <1>7, <2>1 DEF Quiet
  <2>3. ~refused' => listening' \cup reading' \cup connecting' \subseteq Listed(list)
    BY <1>2, <1>4, <1>5, <1>6, <1>7, <2>1
  <2>4. refused' \in BOOLEAN /\ gone' \in SUBSET Fds
    BY <1>2, <1>5, <2>1
  <2> QED
    BY <1>1, <1>2, <1>4, <1>6, <2>1, <2>2, <2>3, <2>4, HandlerReturnsKeeps
<1>8. CASE ~CanListen(fd)
  <2>1. UNCHANGED <<listening, reading, connecting, open, gone>> /\ refused' = TRUE
    BY <1>1, <1>5, <1>8 DEF ForgetFd, tableVars
  <2> QED
    BY <1>1, <1>2, <1>4, <1>6, <2>1, HandlerReturnsKeeps
<1> QED
  BY <1>7, <1>8

LEMMA HandlerEndsKeeps ==
  ASSUME PollInv, InputFails \/ SocketCallbackThrows \/ NoError
  PROVE  PollInv'
<1>1. /\ pc \in Handler /\ HandlerReturns(pollList)
      /\ UNCHANGED <<listening, reading, connecting, open, gone, refused>>
  BY DEF InputFails, SocketCallbackThrows, NoError, Handler, tableVars
<1>2. /\ ListTyped(pollList) /\ Unique(pollList)
      /\ listening \in SUBSET Fds /\ reading \in SUBSET Fds /\ connecting \in SUBSET Fds
      /\ open \in SUBSET Fds /\ gone \in SUBSET Fds /\ refused \in BOOLEAN
      /\ OfRound(pollList, slot, last) /\ Quiet(pollList, gone)
      /\ ~refused => listening \cup reading \cup connecting \subseteq Listed(pollList)
  BY <1>1 DEF PollInv, SocketsTyped, EventsAreOfRound, Rounds, WaitingAreListed
<1>3. Len(pollList) >= Len(pollList)
  BY <1>2, EntryFacts
<1> QED
  BY <1>1, <1>2, <1>3, HandlerReturnsKeeps

\* A connection is accepted or established: the list stays as it is.
LEMMA ConnectionKeeps ==
  ASSUME PollInv, Connected \/ \E f \in Fds : Accept(f)
  PROVE  PollInv'
<1>1. /\ UNCHANGED <<pollList, slot, last, fd, listening, reading, gone, refused>>
      /\ pc \in Handler /\ pc' \in Handler
      /\ connecting' \subseteq connecting /\ open' \in SUBSET Fds
  <2>1. CASE Connected
    BY <2>1 DEF Connected, Goto, Handler, roundVars, PollInv, SocketsTyped
  <2>2. CASE \E f \in Fds : Accept(f)
    BY <2>2 DEF Accept, Goto, Handler, roundVars, PollInv, SocketsTyped
  <2> QED
    BY <2>1, <2>2
<1>2. SocketsTyped'
  BY <1>1 DEF PollInv, SocketsTyped, ListTyped, Labels
<1>3. Unique(pollList)' /\ SlotsInList' /\ EventsAreOfRound'
  BY <1>1 DEF PollInv, Unique, SlotsInList, EventsAreOfRound, OfRound, Rounds
<1>4. PolledIsCompact'
  BY <1>1 DEF PolledIsCompact, Handler
<1>5. Quiet(pollList, gone)' /\ WaitingAreListed'
  BY <1>1 DEF PollInv, Quiet, WaitingAreListed, Listed
<1> QED
  BY <1>2, <1>3, <1>4, <1>5 DEF PollInv

------------------------------------------------------------------------------
(* The rounds.                                                             *)

LEMMA LeaveLoopKeeps ==
  ASSUME PollInv, LeaveLoop
  PROVE  PollInv'
<1> DEFINE list == pollList'
<1>1. /\ pc = "check" /\ pc' = "done" /\ list \in {pollList, Kept}
      /\ UNCHANGED <<slot, last, fd, listening, reading, connecting, open, gone, refused>>
  BY DEF LeaveLoop, Goto, tableVars, roundVars
<1>2. ListTyped(pollList) /\ Unique(pollList) /\ gone \in SUBSET Fds
      /\ OfRound(pollList, 1, 0) /\ Quiet(pollList, gone)
      /\ Deleted \notin listening \cup reading \cup connecting
  BY <1>1, CLoopAssumption DEF PollInv, SocketsTyped, EventsAreOfRound, Rounds, Handler
<1> HIDE DEF list
<1>3. /\ ListTyped(list) /\ Unique(list) /\ OfRound(list, 1, 0) /\ Quiet(list, gone)
      /\ Listed(pollList) \ {Deleted} \subseteq Listed(list)
  BY <1>1, <1>2, KeptFacts
<1>4. SocketsTyped'
  BY <1>1, <1>3 DEF PollInv, SocketsTyped, ListTyped, Labels, list
<1>5. Unique(pollList)' /\ SlotsInList' /\ EventsAreOfRound' /\ PolledIsCompact'
  BY <1>1, <1>3 DEF Unique, SlotsInList, EventsAreOfRound, OfRound, PolledIsCompact, Rounds,
                    Handler, list
<1>6. Quiet(pollList, gone)' /\ WaitingAreListed'
  BY <1>1, <1>2, <1>3 DEF PollInv, Quiet, WaitingAreListed, Listed, list
<1> QED
  BY <1>4, <1>5, <1>6 DEF PollInv

LEMMA BeginPollKeeps ==
  ASSUME PollInv, BeginPoll
  PROVE  PollInv'
<1> DEFINE list == pollList'
<1>1. /\ pc = "check" /\ pc' = "poll" /\ list = Kept /\ gone' = {}
      /\ UNCHANGED <<slot, last, fd, listening, reading, connecting, open, refused>>
  BY DEF BeginPoll, Goto, tableVars, roundVars
<1>2. ListTyped(pollList) /\ Unique(pollList) /\ OfRound(pollList, 1, 0)
      /\ Deleted \notin listening \cup reading \cup connecting
  BY <1>1, CLoopAssumption DEF PollInv, SocketsTyped, EventsAreOfRound, Rounds, Handler
<1> HIDE DEF list
<1>3. /\ ListTyped(list) /\ Unique(list) /\ OfRound(list, 1, 0)
      /\ \A i \in 1..Len(list) : list[i].fd # Deleted
      /\ Listed(pollList) \ {Deleted} \subseteq Listed(list)
  BY <1>1, <1>2, KeptFacts
<1>4. SocketsTyped'
  BY <1>1, <1>3 DEF PollInv, SocketsTyped, ListTyped, Labels, list
<1>5. Unique(pollList)' /\ SlotsInList' /\ EventsAreOfRound' /\ PolledIsCompact'
  BY <1>1, <1>3 DEF Unique, SlotsInList, EventsAreOfRound, OfRound, PolledIsCompact, Rounds,
                    Handler, list
<1>6. Quiet(pollList, gone)' /\ WaitingAreListed'
  BY <1>1, <1>2, <1>3 DEF PollInv, Quiet, WaitingAreListed, Listed, list
<1> QED
  BY <1>4, <1>5, <1>6 DEF PollInv

\* poll() answers with the list it was given, and nothing has been closed since.
LEMMA AnsweredKeeps ==
  ASSUME PollInv, pc = "poll", ListTyped(pollList)', Unique(pollList)',
         Listed(pollList') = Listed(pollList),
         UNCHANGED <<listening, reading, connecting, open, gone, refused, fd>>,
         \/ pc' = "pass" /\ OfRound(pollList', 1, 0) /\ UNCHANGED <<slot, last>>
         \/ pc' = "dispatch" /\ slot' = 1 /\ last' = Len(pollList')
  PROVE  PollInv'
<1> DEFINE list == pollList'
<1>1. /\ Len(list) \in Nat /\ Len(list) <= MaxFds /\ MaxFds \in Nat /\ gone = {}
      /\ ListTyped(list) /\ Unique(list) /\ Listed(list) = Listed(pollList)
  BY EntryFacts, CLoopAssumption DEF ListTyped, Unique, PollInv, PolledIsCompact
<1> HIDE DEF list
<1>2. SocketsTyped'
  BY <1>1 DEF PollInv, SocketsTyped, Labels, list
<1>3. SlotsInList'
  BY <1>1 DEF SlotsInList, Rounds, Handler, list
<1>4. EventsAreOfRound'
  BY <1>1 DEF EventsAreOfRound, OfRound, Rounds, Handler, list
<1>5. PolledIsCompact' /\ Quiet(pollList, gone)' /\ WaitingAreListed'
  BY <1>1 DEF PollInv, PolledIsCompact, Quiet, WaitingAreListed, Listed, list
<1> QED
  BY <1>2, <1>3, <1>4, <1>5 DEF PollInv

LEMMA PollAnswersKeep ==
  ASSUME PollInv, PollReports \/ PollTimesOut \/ PollFails
  PROVE  PollInv'
<1> USE DEF Goto, Polled, tableVars, roundVars, socketVars
<1>1. pc = "poll" /\ ListTyped(pollList) /\ Unique(pollList)
      /\ UNCHANGED <<listening, reading, connecting, open, gone, refused, fd>>
  BY DEF PollReports, PollTimesOut, PollFails, PollInv, SocketsTyped
<1>2. CASE PollReports
  <2>1. PICK r \in [1..Len(pollList) -> SUBSET Events] :
          pollList' = [i \in DOMAIN r |-> [pollList[i] EXCEPT !.revents = r[i]]]
    BY <1>2 DEF PollReports
  <2>2. pollList' = [i \in 1..Len(pollList) |-> [pollList[i] EXCEPT !.revents = r[i]]]
    BY <2>1
  <2>3. /\ ListTyped(pollList') /\ Unique(pollList') /\ Len(pollList') = Len(pollList)
        /\ Listed(pollList') = Listed(pollList)
    BY <1>1, <2>2, ReportedFacts
  <2>4. pc' = "dispatch" /\ slot' = 1 /\ last' = Len(pollList')
    BY <1>2, <2>3 DEF PollReports
  <2> QED
    BY <1>1, <2>3, <2>4, AnsweredKeeps DEF ListTyped, Unique
<1>3. CASE PollTimesOut
  <2> DEFINE r == [i \in 1..Len(pollList) |-> {}]
  <2>1. r \in [1..Len(pollList) -> SUBSET Events]
    OBVIOUS
  <2>2. pollList' = [i \in 1..Len(pollList) |-> [pollList[i] EXCEPT !.revents = r[i]]]
    BY <1>3 DEF PollTimesOut
  <2>3. \A i \in 1..Len(pollList) : r[i] = {}
    OBVIOUS
  <2> HIDE DEF r
  <2>4. /\ ListTyped(pollList') /\ Unique(pollList') /\ Len(pollList') = Len(pollList)
        /\ Listed(pollList') = Listed(pollList)
    BY <1>1, <2>1, <2>2, ReportedFacts
  <2>5. OfRound(pollList', 1, 0)
    <3>1. \A i \in 1..Len(pollList) : pollList'[i].revents = r[i]
      BY <1>1, <2>1, <2>2, ReportedFacts
    <3> QED
      BY <2>3, <2>4, <3>1 DEF OfRound
  <2>6. pc' = "pass" /\ UNCHANGED <<slot, last>>
    BY <1>3 DEF PollTimesOut
  <2> QED
    BY <1>1, <2>4, <2>5, <2>6, AnsweredKeeps DEF ListTyped, Unique
<1>4. CASE PollFails
  <2>1. pollList' = pollList /\ pc' = "dispatch" /\ slot' = 1 /\ last' = Len(pollList')
    BY <1>4 DEF PollFails
  <2> QED
    BY <1>1, <2>1, AnsweredKeeps DEF ListTyped, Unique
<1> QED
  BY <1>2, <1>3, <1>4

LEMMA DispatchKeeps ==
  ASSUME PollInv, Dispatch
  PROVE  PollInv'
<1>1. /\ pc = "dispatch" /\ OfRound(pollList, slot, last) /\ last <= Len(pollList)
      /\ slot \in 1..(MaxFds + 1) /\ last \in 0..MaxFds /\ MaxFds \in Nat
      /\ Len(pollList) \in Nat
      /\ \A i \in 1..Len(pollList) : pollList[i].fd \in Fds \cup {Deleted}
  BY EntryFacts, CLoopAssumption
     DEF Dispatch, SkipSlot, CallHandler, EndRound, PollInv, SocketsTyped, SlotsInList,
         EventsAreOfRound, Rounds
<1>2. UNCHANGED <<pollList, listening, reading, connecting, open, gone, refused>>
  BY DEF Dispatch, SkipSlot, CallHandler, EndRound, socketVars, tableVars
<1>3. Unique(pollList)' /\ Quiet(pollList, gone)' /\ WaitingAreListed'
  BY <1>2 DEF PollInv, Unique, Quiet, WaitingAreListed, Listed
<1>4. CASE SkipSlot
  <2>1. /\ slot <= last /\ slot' = slot + 1 /\ UNCHANGED <<pc, last, fd>>
        /\ pollList[slot].fd = Deleted \/ pollList[slot].revents = {}
    BY <1>4 DEF SkipSlot
  <2>2. OfRound(pollList', slot', last')
    <3> SUFFICES ASSUME NEW i \in 1..Len(pollList),
                        pollList[i].fd # Deleted, pollList[i].revents # {}
                 PROVE  slot + 1 <= i /\ i <= last
      BY <1>2, <2>1 DEF OfRound
    <3>1. slot <= i /\ i <= last /\ i # slot
      BY <1>1, <2>1 DEF OfRound
    <3> QED
      BY <1>1, <3>1
  <2>3. SocketsTyped' /\ SlotsInList' /\ EventsAreOfRound' /\ PolledIsCompact'
    BY <1>1, <1>2, <2>1, <2>2 DEF PollInv, SocketsTyped, ListTyped, SlotsInList, EventsAreOfRound,
                      OfRound, PolledIsCompact, Rounds, Handler
  <2> QED
    BY <1>3, <2>3 DEF PollInv
<1>5. CASE CallHandler
  <2>1. /\ slot <= last /\ UNCHANGED <<slot, last>> /\ pc' = "in"
        /\ fd' = pollList[slot].fd /\ pollList[slot].fd # Deleted
    BY <1>5 DEF CallHandler, Goto
  <2>2. fd' \in Fds
    BY <1>1, <2>1
  <2>3. SocketsTyped' /\ SlotsInList' /\ EventsAreOfRound' /\ PolledIsCompact'
    BY <1>1, <1>2, <2>1, <2>2 DEF PollInv, SocketsTyped, ListTyped, SlotsInList, EventsAreOfRound,
                      OfRound, PolledIsCompact, Rounds, Handler, Labels
  <2> QED
    BY <1>3, <2>3 DEF PollInv
<1>6. CASE EndRound
  <2>1. slot > last /\ slot' = 1 /\ last' = 0 /\ pc' = "pass" /\ fd' = fd
    BY <1>6 DEF EndRound, Goto
  <2>2. OfRound(pollList', 1, 0)
    BY <1>1, <1>2, <2>1 DEF OfRound
  <2>3. SocketsTyped' /\ SlotsInList' /\ EventsAreOfRound' /\ PolledIsCompact'
    BY <1>1, <1>2, <2>1, <2>2 DEF PollInv, SocketsTyped, ListTyped, SlotsInList, EventsAreOfRound,
                      OfRound, PolledIsCompact, Rounds, Handler, Labels
  <2> QED
    BY <1>3, <2>3 DEF PollInv
<1> QED
  BY <1>4, <1>5, <1>6 DEF Dispatch

LEMMA PollInvIsInductive == PollInv /\ [Next]_vars => PollInv'
<1> SUFFICES ASSUME PollInv, [Next]_vars PROVE PollInv'
  OBVIOUS
<1>1. CASE Tick \/ UNCHANGED vars
  BY <1>1, TimersLeavePollAlone, PollAloneKeeps
<1>2. CASE Api
  BY <1>2, TimersLeavePollAlone, PollAloneKeeps, SocketApiKeeps DEF Api
<1>3. CASE StartLoop \/ ExpireTimers
  BY <1>3, TimersLeavePollAlone, PollAloneKeeps
<1>4. CASE Poll
  BY <1>4, LeaveLoopKeeps, BeginPollKeeps, PollAnswersKeep DEF Poll
<1>5. CASE Dispatch
  BY <1>5, DispatchKeeps
<1>6. CASE FdPollHandler
  BY <1>6, TimersLeavePollAlone, PollAloneKeeps, HandlerClosesKeeps, HandlerEndsKeeps,
     ConnectionKeeps DEF FdPollHandler
<1> QED
  BY <1>1, <1>2, <1>3, <1>4, <1>5, <1>6 DEF Next, Loop

LEMMA PollInvHolds == Spec => []PollInv
BY InitPollInv, PollInvIsInductive, PTL DEF Spec

(***************************************************************************)
(* When poll() is called no entry has events left from an earlier round:   *)
(* the entries that were dispatched have none, those that were closed are  *)
(* gone from the list, those that were added since have had none.          *)
(***************************************************************************)
THEOREM EventsAreFresh == Spec => []NoStaleEvents
<1>1. PollInv => NoStaleEvents
  <2> SUFFICES ASSUME PollInv, pc = "poll", NEW i \in 1..Len(pollList)
               PROVE  pollList[i].revents = {}
    BY DEF NoStaleEvents
  <2>1. pollList[i].fd # Deleted /\ OfRound(pollList, 1, 0)
    BY DEF PollInv, PolledIsCompact, EventsAreOfRound, Rounds, Handler
  <2>2. i \in Nat
    BY EntryFacts DEF PollInv, SocketsTyped
  <2> QED
    BY <2>1, <2>2 DEF OfRound
<1> QED
  BY <1>1, PollInvHolds, PTL

(***************************************************************************)
(* The events of a socket that was closed since poll() reported them are   *)
(* never dispatched, whoever has its descriptor since: closing marks its   *)
(* only entry, or finds none, and the next one begins without events.      *)
(***************************************************************************)
THEOREM ClosedSocketsAreNotDispatched == Spec => []ClosedIsNotDispatched
<1>1. PollInv => ClosedIsNotDispatched
  <2> SUFFICES ASSUME PollInv, pc = "dispatch", NEW i \in slot..last,
                      pollList[i].revents # {}
               PROVE  pollList[i].fd \notin gone
    BY DEF ClosedIsNotDispatched
  <2>1. i \in 1..Len(pollList)
    BY EntryFacts DEF PollInv, SocketsTyped, SlotsInList, Rounds
  <2> QED
    BY <2>1 DEF PollInv, Quiet
<1> QED
  BY <1>1, PollInvHolds, PTL

(***************************************************************************)
(* A descriptor has one entry at most, and as long as no call has run out  *)
(* of slots every socket that a callback waits for has one.                *)
(***************************************************************************)
THEOREM WaitingSocketsArePolled == Spec => []WaitingArePolled
<1>1. PollInv => WaitingArePolled
  <2> SUFFICES ASSUME PollInv PROVE WaitingArePolled
    OBVIOUS
  <2>1. ASSUME NEW f \in Fds PROVE Cardinality(SlotsOf(f)) <= 1
    <3>1. \A i, j \in SlotsOf(f) : i = j
      BY DEF PollInv, Unique, SlotsOf
    <3>2. CASE SlotsOf(f) = {}
      BY <3>2, FS_EmptySet
    <3>3. CASE SlotsOf(f) # {}
      <4>1. PICK i \in SlotsOf(f) : TRUE
        BY <3>3
      <4>2. SlotsOf(f) = {i}
        BY <3>1, <4>1
      <4>3. Cardinality({i}) = 1
        BY FS_Singleton
      <4> QED
        BY <4>2, <4>3
    <3> QED
      BY <3>2, <3>3
  <2> QED
    BY <2>1 DEF PollInv, WaitingAreListed, WaitingArePolled, Listed
<1> QED
  BY <1>1, PollInvHolds, PTL

------------------------------------------------------------------------------
(* The bounds.                                                             *)

Bounded ==
  /\ now \in 0..Horizon /\ passNow \in 0..Horizon
  /\ timers \in Seq(Timers) /\ Len(timers) <= MaxTimers
  /\ callbacks \in SUBSET (1..MaxId)
  /\ exitRequested \in BOOLEAN
  /\ sanity \in 0..MaxExpirys
  /\ wakeAt \in Nat

\* Neither the list nor the stash gets anything new.
LEMMA TimersShrink ==
  ASSUME Bounded, timers' \in Seq(Timers), Len(timers') <= Len(timers),
         callbacks' \subseteq callbacks, passNow' \in 0..Horizon, sanity' \in 0..MaxExpirys,
         UNCHANGED <<now, exitRequested, wakeAt>>
  PROVE  Bounded'
<1>1. Len(timers') \in Nat /\ Len(timers) \in Nat /\ MaxTimers \in Nat
  BY LenProperties, CLoopAssumption DEF Bounded
<1>2. Len(timers') <= MaxTimers
  BY <1>1 DEF Bounded
<1> QED
  BY <1>2 DEF Bounded

\* create_timer, and an interval that is queued back: there was a slot left.
LEMMA TimersGrow ==
  ASSUME Bounded, Len(timers) < MaxTimers, NEW x \in Timers,
         timers' = InsertTimer(timers, x), callbacks' \in SUBSET (1..MaxId),
         UNCHANGED <<now, passNow, sanity, exitRequested, wakeAt>>
  PROVE  Bounded'
<1>1. Len(timers) \in Nat /\ MaxTimers \in Nat /\ timers \in Seq(Timers)
  BY LenProperties, CLoopAssumption DEF Bounded
<1>2. timers' \in Seq(Timers)
  BY <1>1, TargetsAreIntegers, InsertTimerFacts
<1>3. Len(timers') = Len(timers) + 1
  BY <1>1, TargetsAreIntegers, InsertTimerLength
<1> QED
  BY <1>1, <1>2, <1>3 DEF Bounded

LEMMA CreateTimerIsBounded ==
  ASSUME IInv, Bounded, NEW d \in Nat, NEW oneshot \in BOOLEAN, CreateTimer(d, oneshot)
  PROVE  Bounded'
<1>1. nextId \in 1..MaxId /\ now \in Nat /\ callbacks \in SUBSET (1..MaxId)
  BY CLoopAssumption DEF IInv, Typed, Bounded, CreateTimer
<1>2. NewTimer(d, oneshot) \in Timers
  BY <1>1, NewTimerType
<1>3. /\ Len(timers) < MaxTimers /\ timers' = InsertTimer(timers, NewTimer(d, oneshot))
      /\ callbacks' = callbacks \cup {nextId}
      /\ UNCHANGED <<now, passNow, sanity, exitRequested, wakeAt>>
  BY DEF CreateTimer, passVars
<1>4. callbacks' \in SUBSET (1..MaxId)
  BY <1>1, <1>3
<1> QED
  BY <1>2, <1>3, <1>4, TimersGrow

LEMMA DeleteTimerIsBounded ==
  ASSUME IInv, Bounded, NEW id, DeleteTimer(id)
  PROVE  Bounded'
<1>1. timers \in Seq(Timers) /\ passNow \in 0..Horizon /\ sanity \in 0..MaxExpirys
  BY DEF Bounded
<1>2. timers' \in {timers, RemoveTimer(timers, id)} /\ callbacks' \subseteq callbacks
  BY DEF DeleteTimer
<1>3. UNCHANGED <<now, passNow, sanity, exitRequested, wakeAt>>
  BY DEF DeleteTimer, passVars
<1>4. Len(timers) \in Nat
  BY <1>1, LenProperties
<1>5. Len(RemoveTimer(timers, id)) <= Len(timers)
  BY <1>1, RemoveTimerLength
<1>6. RemoveTimer(timers, id) \in Seq(Timers)
  BY <1>1, TargetsAreIntegers, RemoveTimerKeeps DEF IInv, TimersSorted, IdsAreUnique
<1>7. timers' \in Seq(Timers) /\ Len(timers') <= Len(timers)
  BY <1>1, <1>2, <1>4, <1>5, <1>6
<1> QED
  BY <1>1, <1>2, <1>3, <1>7, TimersShrink

LEMMA ExpireTimersIsBounded ==
  ASSUME IInv, Bounded, ExpireTimers
  PROVE  Bounded'
<1>1. /\ timers \in Seq(Timers) /\ Len(timers) \in Nat /\ MaxExpirys \in Nat
      /\ now \in 0..Horizon /\ passNow \in 0..Horizon /\ sanity \in 0..MaxExpirys
  BY LenProperties, CLoopAssumption DEF Bounded
<1>2. CASE BeginPass
  <2>1. /\ UNCHANGED <<now, timers, callbacks, exitRequested, wakeAt>>
        /\ passNow' = now /\ sanity' = MaxExpirys
    BY <1>2 DEF BeginPass, timerVars
  <2> QED
    BY <1>1, <2>1, TimersShrink
<1>3. CASE ExpireTimer
  <2>1. /\ UNCHANGED <<now, callbacks, exitRequested, passNow, wakeAt>>
        /\ timers' = PopTimer(timers) /\ sanity' = sanity - 1 /\ sanity > 0
        /\ Len(timers) > 0
    BY <1>3 DEF ExpireTimer, MayExpire
  <2>2. timers' \in Seq(Timers)
    BY <1>3, ExpireTimerFacts
  <2>3. Len(PopTimer(timers)) = Len(timers) - 1
    BY <1>1, <2>1, PopTimerLength
  <2>4. Len(timers') <= Len(timers) /\ sanity' \in 0..MaxExpirys
    BY <1>1, <2>1, <2>3
  <2> QED
    BY <1>1, <2>1, <2>2, <2>4, TimersShrink
<1>4. CASE TimerCallbackEnds
  <2>1. UNCHANGED <<now, passNow, sanity, exitRequested, wakeAt>>
    BY <1>4 DEF TimerCallbackEnds, passVars
  <2>2. CASE timers' = timers /\ callbacks' \subseteq callbacks
    BY <1>1, <2>1, <2>2, TimersShrink
  <2>3. CASE /\ timers' = InsertTimer(timers, expiring) /\ Len(timers) < MaxTimers
             /\ callbacks' = callbacks
    <3>1. expiring \in Timers /\ callbacks \in SUBSET (1..MaxId)
      BY <1>4 DEF IInv, IdsAreUnique, TimerCallbackEnds, Bounded
    <3> QED
      BY <2>1, <2>3, <3>1, TimersGrow
  <2> QED
    BY <1>4, <2>2, <2>3 DEF TimerCallbackEnds
<1>5. CASE EndPass
  <2>1. /\ UNCHANGED <<now, timers, callbacks, exitRequested, wakeAt>>
        /\ passNow' = 0 /\ sanity' = 0
    BY <1>5 DEF EndPass
  <2>2. 0 \in 0..Horizon /\ 0 \in 0..MaxExpirys
    BY CLoopAssumption
  <2> QED
    BY <1>1, <2>1, <2>2, TimersShrink
<1> QED
  BY <1>2, <1>3, <1>4, <1>5 DEF ExpireTimers

\* The timeout of poll() lies after now, whether a timer bounds it or not.
LEMMA WaitIsNatural ==
  ASSUME timers \in Seq(Timers), now \in Nat
  PROVE  Wait \in Nat
<1>1. MinWait \in Nat /\ MaxWait \in Nat
  BY CLoopAssumption
<1>2. CASE Len(timers) = 0
  BY <1>1, <1>2 DEF Wait
<1>3. CASE Len(timers) # 0
  <2>1. Len(timers) \in 1..Len(timers)
    BY <1>3, LenProperties
  <2>2. EarliestTimer(timers).target \in Int
    BY <2>1, ElementOfSeq, TargetsAreIntegers DEF EarliestTimer
  <2>3. AtLeast(MinWait, EarliestTimer(timers).target - now) \in Nat
    BY <1>1, <2>2 DEF AtLeast
  <2> QED
    BY <1>1, <1>3, <2>3 DEF Wait, AtMost
<1> QED
  BY <1>2, <1>3

\* A step of the sockets sets the exit flag, or the timeout, at most.
LEMMA SocketsAreBounded ==
  ASSUME Bounded,
         \/ RequestExit
         \/ \E f \in Fds : Server(f) \/ Connect(f) \/ SetReader(f) \/ Close(f)
         \/ StartLoop \/ Poll \/ Dispatch \/ FdPollHandler
  PROVE  Bounded'
<1>1. \/ UNCHANGED exitRequested /\ wakeAt' \in {wakeAt, 0, now + Wait}
      \/ exitRequested' = TRUE /\ UNCHANGED wakeAt
  <2> DEFINE Fits == UNCHANGED exitRequested /\ wakeAt' \in {wakeAt, 0, now + Wait}
  <2>1. CASE RequestExit
    BY <2>1 DEF RequestExit
  <2>2. CASE StartLoop
    BY <2>2 DEF StartLoop
  <2>3. ASSUME NEW f \in Fds, Server(f) \/ Connect(f) \/ SetReader(f) \/ Close(f)
        PROVE  Fits
    BY <2>3 DEF Server, Connect, SetReader, Close
  <2>4. CASE Poll
    BY <2>4 DEF Poll, LeaveLoop, BeginPoll, PollReports, PollTimesOut, PollFails, Polled
  <2>5. CASE Dispatch
    BY <2>5 DEF Dispatch, SkipSlot, CallHandler, EndRound
  <2>6. CASE FdPollHandler
    <3>1. ASSUME NEW f \in Fds, Accept(f) PROVE Fits
      BY <3>1 DEF Accept
    <3>2. CASE ReadData \/ ReadEnd \/ InputFails \/ NothingToRead
      BY <3>2 DEF ReadData, ReadEnd, InputFails, NothingToRead
    <3>3. CASE Connected \/ NothingToConnect \/ CloseForcibly \/ NoError
      BY <3>3 DEF Connected, NothingToConnect, CloseForcibly, NoError
    <3>4. CASE SocketCallbackReturns \/ SocketCallbackThrows
      BY <3>4 DEF SocketCallbackReturns, SocketCallbackThrows
    <3> QED
      BY <2>6, <3>1, <3>2, <3>3, <3>4 DEF FdPollHandler
  <2> QED
    BY <2>1, <2>2, <2>3, <2>4, <2>5, <2>6
<1>2. UNCHANGED <<now, timers, callbacks, passNow, sanity>>
  BY SocketsLeaveTimersAlone DEF Alone, timerVars, passVars
<1>3. wakeAt \in Nat /\ now \in Nat /\ Wait \in Nat
  BY WaitIsNatural, CLoopAssumption DEF Bounded
<1>4. wakeAt' \in Nat
  BY <1>1, <1>3
<1>5. exitRequested' \in BOOLEAN
  BY <1>1 DEF Bounded
<1> QED
  BY <1>2, <1>4, <1>5 DEF Bounded

LEMMA BoundedIsInductive == IInv /\ Bounded /\ [Next]_vars => Bounded'
<1> SUFFICES ASSUME IInv, Bounded, [Next]_vars PROVE Bounded'
  OBVIOUS
<1>1. ASSUME NEW d \in Delays, NEW oneshot \in BOOLEAN, CreateTimer(d, oneshot) PROVE Bounded'
  BY <1>1, CreateTimerIsBounded, CLoopAssumption
<1>2. ASSUME NEW id \in 0..MaxId, DeleteTimer(id) PROVE Bounded'
  BY <1>2, DeleteTimerIsBounded
<1>3. CASE ExpireTimers
  BY <1>3, ExpireTimersIsBounded
<1>4. CASE Tick
  <2>1. now' \in 0..Horizon
    BY <1>4, CLoopAssumption DEF Tick, Bounded
  <2> QED
    BY <1>4, <2>1 DEF Tick, Bounded, timerVars, passVars
<1>5. CASE UNCHANGED vars
  BY <1>5 DEF vars, timerVars, passVars, Bounded
<1> QED
  BY <1>1, <1>2, <1>3, <1>4, <1>5, SocketsAreBounded DEF Next, Api, Loop

(***************************************************************************)
(* Every variable keeps its type: the arrays stay within MAX_TIMERS and    *)
(* MAX_FDS, the indices into them within the arrays, the stash within the  *)
(* identifiers that were given out.                                        *)
(***************************************************************************)
THEOREM CLoopTypeInvariant == Spec => []TypeOK
<1>1. Init => Bounded
  <2> SUFFICES ASSUME Init PROVE Bounded
    OBVIOUS
  <2>1. timers \in Seq(Timers) /\ Len(timers) = 0
    BY EmptySeq DEF Init
  <2>2. /\ now = 0 /\ passNow = 0 /\ callbacks = {} /\ exitRequested = FALSE
        /\ sanity = 0 /\ wakeAt = 0
    BY DEF Init
  <2>3. 0 \in 0..Horizon /\ 0 \in 0..MaxExpirys /\ 0 <= MaxTimers
    BY CLoopAssumption
  <2>4. exitRequested \in BOOLEAN /\ callbacks \in SUBSET (1..MaxId) /\ wakeAt \in Nat
    BY <2>2
  <2> QED
    BY <2>1, <2>2, <2>3, <2>4 DEF Bounded
<1>2. IInv /\ PollInv /\ Bounded => TypeOK
  <2> SUFFICES ASSUME IInv, PollInv, Bounded PROVE TypeOK
    OBVIOUS
  <2>1. /\ now \in 0..Horizon /\ timers \in Seq(Timers) /\ Len(timers) <= MaxTimers
        /\ callbacks \in SUBSET (1..MaxId) /\ exitRequested \in BOOLEAN
        /\ passNow \in 0..Horizon /\ sanity \in 0..MaxExpirys /\ wakeAt \in Nat
    BY DEF Bounded
  <2>2. /\ expiring \in Timers \cup {NoTimer} /\ removed \in BOOLEAN
        /\ nextId \in 1..(MaxId + 1)
    BY DEF IInv, Typed
  <2>3. /\ pollList \in Seq(PollFd) /\ Len(pollList) <= MaxFds
        /\ slot \in 1..(MaxFds + 1) /\ last \in 0..MaxFds /\ fd \in Fds \cup {Deleted}
        /\ listening \in SUBSET Fds /\ reading \in SUBSET Fds /\ connecting \in SUBSET Fds
        /\ open \in SUBSET Fds /\ gone \in SUBSET Fds /\ refused \in BOOLEAN
        /\ pc \in Labels
    BY DEF PollInv, SocketsTyped, ListTyped
  <2> QED
    BY <2>1, <2>2, <2>3 DEF TypeOK, Labels
<1> QED
  BY <1>1, <1>2, BoundedIsInductive, IInvHolds, PollInvHolds, PTL DEF Spec
==============================================================================
