--------------------------- MODULE EventLoopProofs ---------------------------
(***************************************************************************)
(* Theorems about module EventLoop, for every bound, every limit of the    *)
(* loop and any set of descriptors, and the proof that it implements       *)
(* module TimerService.                                                    *)
(***************************************************************************)
EXTENDS EventLoop, TimerListProofs

(***************************************************************************)
(* The inductive invariant.  The list stays sorted only because its timers *)
(* have integer targets, and ids stay distinct only because no id in use   *)
(* reaches nextTimerId.                                                    *)
(***************************************************************************)
IInv == TypeOK /\ TimersSorted /\ IdsAreUnique

LEMMA TargetsAreIntegers == \A r \in Timers : r.target \in Int
BY DEF Timers, TimerRecord

LEMMA NewTimerType ==
  ASSUME TypeOK, nextTimerId <= MaxId, NEW d \in Nat, NEW oneshot \in BOOLEAN
  PROVE  NewTimer(d, oneshot) \in Timers /\ NewTimer(d, oneshot).id = nextTimerId
BY LoopAssumption DEF TypeOK, NewTimer, AtLeast, Timers, TimerRecord

(***************************************************************************)
(* Creating a timer keeps the list in order, whoever creates it.           *)
(***************************************************************************)
LEMMA CreateTimerKeeps ==
  ASSUME IInv, NEW d \in Nat, NEW oneshot \in BOOLEAN,
         CreateTimer(d, oneshot), expiring' = expiring
  PROVE  /\ timers' \in Seq(Timers) /\ nextTimerId' \in 1..(MaxId + 1)
         /\ TimersSorted' /\ IdsAreUnique'
         /\ TimerIds(timers') = TimerIds(timers) \cup {nextTimerId}
<1> DEFINE x == NewTimer(d, oneshot)
<1>1. /\ timers \in Seq(Timers) /\ nextTimerId \in 1..MaxId /\ MaxId \in Nat
      /\ nextTimerId' = nextTimerId + 1 /\ timers' = InsertTimer(timers, x)
  BY LoopAssumption DEF IInv, TypeOK, CreateTimer
<1>2. x \in Timers /\ x.id = nextTimerId
  BY <1>1, NewTimerType DEF IInv
<1> HIDE DEF x
<1>3. /\ DistinctIds(timers) /\ x.id \notin TimerIds(timers)
      /\ TimerIds(timers) \subseteq 1..MaxId
      /\ \A t \in expiring : t.id \in 1..MaxId
  <2>1. \A id \in TimerIds(timers) \cup {t.id : t \in expiring} : id < nextTimerId
    BY DEF IInv, IdsAreUnique
  <2>2. \A id \in TimerIds(timers) : id \in 1..MaxId
    <3>1. \A i \in 1..Len(timers) : timers[i] \in Timers
      BY <1>1, ElementOfSeq
    <3> QED
      BY <3>1 DEF TimerIds, Timers, TimerRecord
  <2>3. \A t \in expiring : t.id \in 1..MaxId
    BY DEF IInv, TypeOK, Timers, TimerRecord
  <2> QED
    BY <1>1, <1>2, <2>1, <2>2, <2>3 DEF IInv, IdsAreUnique
<1>4. timers' \in Seq(Timers) /\ TimerIds(timers') = TimerIds(timers) \cup {x.id}
  BY <1>1, <1>2, TargetsAreIntegers, InsertTimerFacts
<1>5. TimersSorted'
  BY <1>1, <1>2, TargetsAreIntegers, InsertTimerSorted DEF IInv, TimersSorted
<1>6. DistinctIds(timers')
  BY <1>1, <1>2, <1>3, TargetsAreIntegers, InsertTimerDistinct
<1>7. \A t \in expiring : t.id \notin TimerIds(timers')
  BY <1>1, <1>2, <1>3, <1>4 DEF IInv, IdsAreUnique
<1>8. \A id \in TimerIds(timers') \cup {t.id : t \in expiring} : id < nextTimerId'
  BY <1>1, <1>2, <1>3, <1>4 DEF IInv, IdsAreUnique
<1>9. IdsAreUnique'
  BY <1>6, <1>7, <1>8 DEF IdsAreUnique
<1> QED
  BY <1>1, <1>2, <1>4, <1>5, <1>9

LEMMA InitIInv == Init => IInv
<1> SUFFICES ASSUME Init PROVE IInv
  OBVIOUS
<1>1. timers \in Seq(Timers) /\ Len(timers) = 0
  BY EmptySeq DEF Init
<1>2. pc = "load" /\ pc \in UserCode
  BY DEF Init, UserCode
<1>3. /\ now \in 0..Horizon /\ passNow \in 0..Horizon /\ sanity \in 0..MaxExpirys
      /\ wakeAt \in Nat /\ nextTimerId \in 1..(MaxId + 1)
  BY LoopAssumption DEF Init
<1>4. reading \in SUBSET Fds
  BY DEF Init
<1>5. TypeOK
  BY <1>1, <1>2, <1>3, <1>4 DEF Init, TypeOK
<1>6. TimersSorted
  BY <1>1 DEF TimersSorted, Sorted
<1>7. IdsAreUnique
  BY <1>1 DEF Init, IdsAreUnique, DistinctIds, TimerIds
<1> QED
  BY <1>5, <1>6, <1>7 DEF IInv

(***************************************************************************)
(* What a step that leaves the timers alone keeps.                         *)
(***************************************************************************)
LEMMA TimersAlone ==
  IInv /\ UNCHANGED timerVars => TimersSorted' /\ IdsAreUnique'
BY DEF IInv, timerVars, TimersSorted, IdsAreUnique

(***************************************************************************)
(* The clock, the stop flag and the network.                               *)
(***************************************************************************)
LEMMA WorldKeeps ==
  ASSUME IInv, World
  PROVE  IInv'
<1> USE LoopAssumption DEF TypeOK, passVars
<1>1. CASE Tick
  <2>1. TypeOK'
    BY <1>1 DEF Tick, IInv, timerVars
  <2>2. UNCHANGED timerVars
    BY <1>1 DEF Tick
  <2> QED
    BY <2>1, <2>2, TimersAlone DEF IInv
<1>2. ASSUME NEW b \in BOOLEAN, StopAllEvents(b) PROVE IInv'
  <2>1. TypeOK'
    BY <1>2 DEF StopAllEvents, IInv, timerVars
  <2>2. UNCHANGED timerVars
    BY <1>2 DEF StopAllEvents
  <2> QED
    BY <2>1, <2>2, TimersAlone DEF IInv
<1> QED
  BY <1>1, <1>2 DEF World

(***************************************************************************)
(* setTimeout and setInterval, also for the timer of _USERCODE.            *)
(***************************************************************************)
LEMMA SetTimerKeeps ==
  ASSUME IInv, NEW d \in Nat, NEW oneshot \in BOOLEAN,
         SetTimer(d, oneshot) \/ (StartLoop /\ d = 0 /\ oneshot)
  PROVE  IInv'
<1>1. CreateTimer(d, oneshot) /\ expiring' = expiring
  BY DEF SetTimer, StartLoop
<1>2. /\ timers' \in Seq(Timers) /\ nextTimerId' \in 1..(MaxId + 1)
      /\ TimersSorted' /\ IdsAreUnique'
  BY <1>1, CreateTimerKeeps
<1>3. TypeOK'
  BY <1>2 DEF SetTimer, StartLoop, IInv, TypeOK, worldVars, passVars
<1> QED
  BY <1>2, <1>3 DEF IInv

(***************************************************************************)
(* clearTimeout and clearInterval.                                         *)
(***************************************************************************)
LEMMA ClearTimerKeeps ==
  ASSUME IInv, NEW id, ClearTimer(id)
  PROVE  IInv'
<1>1. timers \in Seq(Timers) /\ Sorted(timers) /\ DistinctIds(timers)
  BY DEF IInv, TypeOK, TimersSorted, IdsAreUnique
<1>2. /\ RemoveTimer(timers, id) \in Seq(Timers)
      /\ Sorted(RemoveTimer(timers, id))
      /\ DistinctIds(RemoveTimer(timers, id))
      /\ TimerIds(RemoveTimer(timers, id)) = TimerIds(timers) \ {id}
  BY <1>1, TargetsAreIntegers, RemoveTimerKeeps
<1>3. /\ expiring' = expiring /\ nextTimerId' = nextTimerId
      /\ timers' = timers \/ timers' = RemoveTimer(timers, id)
  BY DEF ClearTimer
<1>4. TypeOK'
  <2>1. cleared' \in SUBSET (1..MaxId)
    <3>1. \A i \in 1..Len(timers) : timers[i] \in Timers
      BY <1>1, ElementOfSeq
    <3>2. \A t \in Armed : t.id \in 1..MaxId
      BY <3>1 DEF Armed, Timers, TimerRecord, IInv, TypeOK
    <3> QED
      BY <3>2 DEF ClearTimer, IInv, TypeOK
  <2> QED
    BY <1>1, <1>2, <1>3, <2>1 DEF ClearTimer, IInv, TypeOK, worldVars, passVars
<1>5. TimersSorted' /\ DistinctIds(timers') /\ TimerIds(timers') \subseteq TimerIds(timers)
  BY <1>1, <1>2, <1>3 DEF TimersSorted
<1>6. IdsAreUnique'
  BY <1>3, <1>5 DEF IInv, IdsAreUnique
<1> QED
  BY <1>4, <1>5, <1>6 DEF IInv

(***************************************************************************)
(* The rest of the API, which does not touch the timers.                   *)
(***************************************************************************)
LEMMA ApiKeeps ==
  ASSUME IInv, Api
  PROVE  IInv'
<1> USE DEF worldVars, passVars
<1>1. ASSUME NEW d \in Delays, NEW oneshot \in BOOLEAN, SetTimer(d, oneshot)
      PROVE  IInv'
  BY <1>1, SetTimerKeeps, LoopAssumption
<1>2. ASSUME NEW id \in 1..MaxId, ClearTimer(id) PROVE IInv'
  BY <1>2, ClearTimerKeeps
<1>3. CASE RequestExit
  BY <1>3, TimersAlone DEF RequestExit, IInv, TypeOK, timerVars
<1>4. ASSUME NEW f \in Fds,
             SetReader(f) \/ Close(f)
      PROVE  IInv'
  <2>1. TypeOK'
    BY <1>4 DEF SetReader, Close, IInv, TypeOK, timerVars
  <2>2. UNCHANGED timerVars
    BY <1>4 DEF SetReader, Close
  <2> QED
    BY <2>1, <2>2, TimersAlone DEF IInv
<1> QED
  BY <1>1, <1>2, <1>3, <1>4 DEF Api

(***************************************************************************)
(* Rearming an interval changes its target only.                           *)
(***************************************************************************)
LEMMA RearmedType ==
  ASSUME passNow \in 0..Horizon, NEW t \in Timers
  PROVE  Rearmed(t) \in Timers /\ Rearmed(t).id = t.id /\ t.oneshot \in BOOLEAN
<1>1. t.id \in 1..MaxId /\ t.target \in Nat /\ t.delay \in Nat /\ t.oneshot \in BOOLEAN
  BY DEF Timers, TimerRecord
<1>2. passNow + t.delay \in Nat
  BY <1>1, LoopAssumption
<1>3. [t EXCEPT !.target = passNow + t.delay] \in Timers
  BY <1>2 DEF Timers, TimerRecord
<1>4. [t EXCEPT !.target = passNow + t.delay].id = t.id
  BY DEF Timers, TimerRecord
<1> QED
  BY <1>1, <1>3, <1>4 DEF Rearmed

(***************************************************************************)
(* A pass of processTimers up to the call of a callback.                   *)
(***************************************************************************)
LEMMA ProcessTimersKeeps ==
  ASSUME IInv, ProcessTimers
  PROVE  IInv'
<1> USE DEF worldVars, passVars
<1>1. CASE BeginPass
  BY <1>1, TimersAlone, LoopAssumption DEF BeginPass, IInv, TypeOK, timerVars
<1>2. CASE EndPass
  BY <1>2, TimersAlone DEF EndPass, IInv, TypeOK, timerVars
<1>3. CASE ExpireTimer
  <2> DEFINE n == Len(timers)
             t == timers[n]
  <2>1. n \in Nat /\ n > 0 /\ n \in 1..Len(timers) /\ timers \in Seq(Timers)
    BY <1>3, LenProperties DEF ExpireTimer, MayExpire, IInv, TypeOK
  <2>2. t \in Timers
    BY <2>1, ElementOfSeq
  <2>3. /\ timers' = Unsplice(timers, n) /\ expiring' = {Rearmed(t)}
        /\ removed' = t.oneshot /\ nextTimerId' = nextTimerId
        /\ sanity > 0 /\ sanity' = sanity - 1
    BY <1>3 DEF ExpireTimer, PopTimer, EarliestTimer, MayExpire
  <2>4. /\ Unsplice(timers, n) \in Seq(Timers)
        /\ Sorted(Unsplice(timers, n))
        /\ DistinctIds(Unsplice(timers, n))
        /\ TimerIds(Unsplice(timers, n)) = TimerIds(timers) \ {t.id}
    BY <2>1, TargetsAreIntegers, UnspliceKeeps DEF IInv, TimersSorted, IdsAreUnique
  <2> HIDE DEF n
  <2>5. Rearmed(t) \in Timers /\ Rearmed(t).id = t.id /\ t.oneshot \in BOOLEAN
    BY <2>2, RearmedType DEF IInv, TypeOK
  <2>6. t.id \in TimerIds(timers)
    BY <2>1 DEF TimerIds, n
  <2> HIDE DEF t
  <2>7. sanity' \in 0..MaxExpirys
    BY <2>3, LoopAssumption DEF IInv, TypeOK
  <2>8. TypeOK'
    BY <1>3, <2>3, <2>4, <2>5, <2>7 DEF ExpireTimer, IInv, TypeOK, UserCode
  <2>9. TimersSorted'
    BY <2>3, <2>4 DEF TimersSorted
  <2>10. IdsAreUnique'
    BY <2>3, <2>4, <2>5, <2>6 DEF IInv, IdsAreUnique
  <2> QED
    BY <2>8, <2>9, <2>10 DEF IInv
<1> QED
  BY <1>1, <1>2, <1>3 DEF ProcessTimers

(***************************************************************************)
(* The return of a timer callback: an interval goes back on the list.      *)
(***************************************************************************)
LEMMA TimerCallbackKeeps ==
  ASSUME IInv, TimerCallbackEnds
  PROVE  IInv'
<1>1. PICK t \in expiring : timers' = IF removed THEN timers ELSE InsertTimer(timers, t)
  BY DEF TimerCallbackEnds
<1>2. timers \in Seq(Timers) /\ t \in Timers /\ Sorted(timers) /\ DistinctIds(timers)
  BY DEF IInv, TypeOK, TimersSorted, IdsAreUnique
<1>3. t.id \notin TimerIds(timers)
  BY DEF IInv, IdsAreUnique
<1>4. /\ InsertTimer(timers, t) \in Seq(Timers)
      /\ TimerIds(InsertTimer(timers, t)) = TimerIds(timers) \cup {t.id}
  BY <1>2, TargetsAreIntegers, InsertTimerFacts
<1>5. Sorted(InsertTimer(timers, t))
  BY <1>2, TargetsAreIntegers, InsertTimerSorted
<1>6. DistinctIds(InsertTimer(timers, t))
  BY <1>2, <1>3, TargetsAreIntegers, InsertTimerDistinct
<1>7. TypeOK'
  BY <1>1, <1>2, <1>4 DEF TimerCallbackEnds, IInv, TypeOK, worldVars, passVars
<1>8. TimersSorted'
  BY <1>1, <1>2, <1>5 DEF TimersSorted
<1>9. IdsAreUnique'
  BY <1>1, <1>2, <1>4, <1>6 DEF TimerCallbackEnds, IInv, IdsAreUnique
<1> QED
  BY <1>7, <1>8, <1>9 DEF IInv

(***************************************************************************)
(* The timeout that EventLoop.run computes for poll() is never negative.   *)
(***************************************************************************)
LEMMA WaitIsNatural ==
  ASSUME IInv
  PROVE  now + Wait \in Nat
<1>1. timers \in Seq(Timers) /\ now \in Nat
  BY LoopAssumption DEF IInv, TypeOK
<1>2. CASE Len(timers) = 0
  BY <1>1, <1>2, LoopAssumption DEF Wait
<1>3. CASE Len(timers) # 0
  <2>1. EarliestTimer(timers) \in Timers
    BY <1>1, <1>3, LenProperties, ElementOfSeq DEF EarliestTimer
  <2>2. EarliestTimer(timers).target \in Int
    BY <2>1, TargetsAreIntegers
  <2> QED
    BY <1>1, <1>3, <2>2, LoopAssumption DEF Wait, AtMost, AtLeast
<1> QED
  BY <1>2, <1>3

(***************************************************************************)
(* The end of a pass of EventLoop.run: leaving it, or polling.             *)
(***************************************************************************)
LEMMA PollKeeps ==
  ASSUME IInv, Poll
  PROVE  IInv'
<1> USE DEF worldVars, passVars
<1>1. CASE LeaveLoop
  BY <1>1, TimersAlone DEF LeaveLoop, IInv, TypeOK, timerVars, Stopped
<1>2. CASE BeginPoll
  <2>1. wakeAt' \in Nat
    BY <1>2, WaitIsNatural DEF BeginPoll
  <2>2. reading' \in SUBSET Fds
    BY <1>2 DEF BeginPoll, IInv, TypeOK
  <2>3. TypeOK'
    BY <1>2, <2>1, <2>2 DEF BeginPoll, IInv, TypeOK, timerVars
  <2> QED
    BY <1>2, <2>3, TimersAlone DEF BeginPoll, IInv
<1>3. CASE PollReportsReader
  <2>1. TypeOK'
    BY <1>3 DEF PollReportsReader, IInv, TypeOK, timerVars, Stopped
  <2> QED
    BY <1>3, <2>1, TimersAlone DEF PollReportsReader, IInv
<1>4. CASE PollTimesOut
  BY <1>4, TimersAlone DEF PollTimesOut, IInv, TypeOK, timerVars
<1> QED
  BY <1>1, <1>2, <1>3, <1>4 DEF Poll

(***************************************************************************)
(* IInv is inductive.                                                      *)
(***************************************************************************)
LEMMA IInvIsInductive == IInv /\ [Next]_vars => IInv'
<1> SUFFICES ASSUME IInv, [Next]_vars PROVE IInv'
  OBVIOUS
<1>1. CASE StartLoop
  BY <1>1, SetTimerKeeps
<1>2. CASE UNCHANGED vars
  <2>1. TypeOK'
    BY <1>2 DEF vars, worldVars, timerVars, passVars, IInv, TypeOK
  <2>2. UNCHANGED timerVars
    BY <1>2 DEF vars
  <2> QED
    BY <2>1, <2>2, TimersAlone DEF IInv
<1> QED
  BY <1>1, <1>2, ApiKeeps, WorldKeeps, ProcessTimersKeeps, TimerCallbackKeeps,
     PollKeeps DEF Next, Loop, UserCodeEnds

LEMMA IInvHolds == Spec => []IInv
BY InitIInv, IInvIsInductive, PTL DEF Spec

(***************************************************************************)
(* The state of the loop has its type whatever the script does with the    *)
(* API: in particular no timer is given an id beyond the ones counted.     *)
(***************************************************************************)
THEOREM TypeCorrect == Spec => []TypeOK
<1>1. IInv => TypeOK
  BY DEF IInv
<1> QED
  BY <1>1, IInvHolds, PTL

(***************************************************************************)
(* The timer that is due first is always the last of the list, for any     *)
(* number of timers, any delays, and any clock.                            *)
(***************************************************************************)
THEOREM TimersStaySorted == Spec => []TimersSorted
<1>1. IInv => TimersSorted
  BY DEF IInv
<1> QED
  BY <1>1, IInvHolds, PTL

(***************************************************************************)
(* No two timers of the list, nor the list and the timer whose callback is *)
(* running, ever share an id.                                              *)
(***************************************************************************)
THEOREM IdsStayUnique == Spec => []IdsAreUnique
<1>1. IInv => IdsAreUnique
  BY DEF IInv
<1> QED
  BY <1>1, IInvHolds, PTL

(***************************************************************************)
(* What a clear leaves: the id is neither on the list nor the one of an    *)
(* expiring timer that will be rearmed.  The search stops at its first     *)
(* match and looks at the expiring timer first: that this is enough is the *)
(* uniqueness of ids.                                                      *)
(***************************************************************************)
LEMMA ClearTimerClears ==
  ASSUME IInv, NEW id, ClearTimer(id)
  PROVE  /\ TimerIds(timers') \subseteq TimerIds(timers) \ {id}
         /\ expiring' = expiring /\ (removed => removed')
         /\ removed' \/ \A t \in expiring : t.id # id
<1>1. /\ timers \in Seq(Timers) /\ Sorted(timers) /\ DistinctIds(timers)
      /\ removed \in BOOLEAN
      /\ \A t \in expiring : t.id \notin TimerIds(timers)
  BY DEF IInv, TypeOK, TimersSorted, IdsAreUnique
<1>2. CASE \E t \in expiring : t.id = id
  BY <1>1, <1>2 DEF ClearTimer
<1>3. CASE ~ \E t \in expiring : t.id = id
  <2>1. timers' = RemoveTimer(timers, id) /\ expiring' = expiring /\ removed' = removed
    BY <1>3 DEF ClearTimer
  <2>2. TimerIds(RemoveTimer(timers, id)) = TimerIds(timers) \ {id}
    BY <1>1, TargetsAreIntegers, RemoveTimerKeeps
  <2> QED
    BY <1>3, <2>1, <2>2
<1> QED
  BY <1>2, <1>3

(***************************************************************************)
(* The ids a timer may fire with, and the invariant that keeps the cleared *)
(* ones out of them: a timer that is created later has a larger id.        *)
(***************************************************************************)
ArmedIds == TimerIds(timers) \cup (IF removed THEN {} ELSE {t.id : t \in expiring})

ClearedInv ==
  /\ \A id \in cleared : id < nextTimerId
  /\ ArmedIds \cap cleared = {}

LEMMA ArmedIdsAreArmed == ArmedIds = {t.id : t \in Armed}
BY DEF ArmedIds, Armed, TimerIds

\* Only setTimer, clearTimer, an expiry and its end move timers about.
LEMMA ClearedInvIsInductive == IInv /\ ClearedInv /\ [Next]_vars => ClearedInv'
<1> SUFFICES ASSUME IInv, ClearedInv, [Next]_vars PROVE ClearedInv'
  OBVIOUS
<1> DEFINE Alone == UNCHANGED timerVars
<1>1. /\ nextTimerId \in Nat
      /\ \A id \in ArmedIds \cup cleared : id \in Nat /\ id < nextTimerId
  <2>1. timers \in Seq(Timers) /\ expiring \subseteq Timers
    BY DEF IInv, TypeOK
  <2>2. \A i \in 1..Len(timers) : timers[i].id \in Nat
    <3>1. \A i \in 1..Len(timers) : timers[i] \in Timers
      BY <2>1, ElementOfSeq
    <3> QED
      BY <3>1, LoopAssumption DEF Timers, TimerRecord
  <2>3. \A id \in TimerIds(timers) : id \in Nat
    BY <2>2 DEF TimerIds
  <2>4. \A t \in expiring : t.id \in Nat
    BY <2>1, LoopAssumption DEF Timers, TimerRecord
  <2>5. nextTimerId \in Nat /\ cleared \subseteq Nat
    BY LoopAssumption DEF IInv, TypeOK
  <2> QED
    BY <2>3, <2>4, <2>5 DEF IInv, IdsAreUnique, ClearedInv, ArmedIds
<1>2. ASSUME Alone PROVE ClearedInv'
  BY <1>2 DEF timerVars, ClearedInv, ArmedIds
<1>3. ASSUME NEW d \in Nat, NEW oneshot \in BOOLEAN,
             SetTimer(d, oneshot) \/ (StartLoop /\ d = 0 /\ oneshot)
      PROVE  ClearedInv'
  <2>1. CreateTimer(d, oneshot) /\ UNCHANGED <<expiring, removed, cleared>>
    BY <1>3 DEF SetTimer, StartLoop
  <2>2. nextTimerId' = nextTimerId + 1
    BY <2>1 DEF CreateTimer
  <2>3. TimerIds(timers') = TimerIds(timers) \cup {nextTimerId}
    BY <2>1, CreateTimerKeeps
  <2>4. ArmedIds' = ArmedIds \cup {nextTimerId}
    BY <2>1, <2>3 DEF ArmedIds
  <2>5. \A id \in cleared' : id < nextTimerId'
    BY <1>1, <2>1, <2>2
  <2>6. nextTimerId \notin cleared
    BY <1>1
  <2> QED
    BY <2>1, <2>4, <2>5, <2>6 DEF ClearedInv
<1>4. ASSUME NEW id \in 1..MaxId, ClearTimer(id) PROVE ClearedInv'
  <2>1. ArmedIds' \subseteq ArmedIds \ {id}
    BY <1>4, ClearTimerClears DEF ArmedIds
  <2>2. cleared' \subseteq cleared \cup (ArmedIds \cap {id}) /\ nextTimerId' = nextTimerId
    BY <1>4, ArmedIdsAreArmed DEF ClearTimer
  <2> QED
    BY <1>1, <2>1, <2>2 DEF ClearedInv
<1>5. CASE ExpireTimer
  <2> DEFINE n == Len(timers)
  <2>1. n \in 1..Len(timers) /\ timers \in Seq(Timers)
    BY <1>5, LenProperties DEF ExpireTimer, MayExpire, IInv, TypeOK
  <2>2. TimerIds(Unsplice(timers, n)) = TimerIds(timers) \ {timers[n].id}
    BY <2>1, TargetsAreIntegers, UnspliceKeeps DEF IInv, TimersSorted, IdsAreUnique
  <2>3. Rearmed(timers[n]).id = timers[n].id
    BY <2>1, ElementOfSeq, RearmedType DEF IInv, TypeOK
  <2>4. timers[n].id \in TimerIds(timers)
    BY <2>1 DEF TimerIds
  <2>5. /\ timers' = Unsplice(timers, n) /\ expiring' = {Rearmed(timers[n])}
        /\ cleared' = cleared /\ nextTimerId' = nextTimerId
    BY <1>5 DEF ExpireTimer, PopTimer, EarliestTimer
  <2> HIDE DEF n
  <2>6. ArmedIds' \subseteq ArmedIds
    BY <2>2, <2>3, <2>4, <2>5 DEF ArmedIds
  <2> QED
    BY <2>5, <2>6 DEF ClearedInv
<1>6. CASE TimerCallbackEnds
  <2>1. PICK t \in expiring :
          timers' = IF removed THEN timers ELSE InsertTimer(timers, t)
    BY <1>6 DEF TimerCallbackEnds
  <2>2. TimerIds(InsertTimer(timers, t)) = TimerIds(timers) \cup {t.id}
    BY TargetsAreIntegers, InsertTimerFacts DEF IInv, TypeOK
  <2>3. expiring' = {} /\ cleared' = cleared /\ nextTimerId' = nextTimerId
    BY <1>6 DEF TimerCallbackEnds
  <2>4. ArmedIds' \subseteq ArmedIds
    BY <2>1, <2>2, <2>3 DEF ArmedIds
  <2> QED
    BY <2>3, <2>4 DEF ClearedInv
<1>7. CASE Api
  <2>1. ASSUME RequestExit \/ \E f \in Fds : SetReader(f) \/ Close(f)
        PROVE  Alone
    BY <2>1 DEF RequestExit, SetReader, Close
  <2>2. Delays \subseteq Nat
    BY LoopAssumption
  <2> HIDE DEF Alone
  <2> QED
    BY <1>2, <1>3, <1>4, <1>7, <2>1, <2>2 DEF Api
<1>8. CASE BeginPass \/ EndPass \/ Poll \/ World
  BY <1>2, <1>8 DEF BeginPass, EndPass, Poll, LeaveLoop, BeginPoll, PollReportsReader,
                    PollTimesOut, World, Tick, StopAllEvents
<1>9. CASE UNCHANGED vars
  BY <1>2, <1>9 DEF vars
<1>10. CASE StartLoop
  BY <1>3, <1>10
<1> QED
  BY <1>5, <1>6, <1>7, <1>8, <1>9, <1>10
     DEF Next, Loop, ProcessTimers, UserCodeEnds

(***************************************************************************)
(* A timer that was armed when it was cleared never fires.                 *)
(***************************************************************************)
THEOREM ClearingIsFinal == Spec => []ClearIsFinal
<1>1. Init => ClearedInv
  BY DEF Init, ClearedInv
<1>2. ClearedInv => ClearIsFinal
  BY ArmedIdsAreArmed DEF ClearedInv, ClearIsFinal
<1> QED
  BY <1>1, <1>2, IInvHolds, ClearedInvIsInductive, PTL DEF Spec

(***************************************************************************)
(* EventLoop.run polls only if no exit is requested, and nothing but user  *)
(* code requests one.                                                      *)
(***************************************************************************)
PollInv == pc = "poll" => ~exitRequested

LEMMA PollInvIsInductive == PollInv /\ [Next]_vars => PollInv'
<1> SUFFICES ASSUME PollInv, [Next]_vars PROVE PollInv'
  OBVIOUS
<1> USE DEF PollInv, UserCode, Stopped
<1>1. CASE Api
  BY <1>1 DEF Api, SetTimer, ClearTimer, RequestExit, SetReader, Close
<1>2. CASE ProcessTimers \/ UserCodeEnds
  BY <1>2 DEF ProcessTimers, BeginPass, EndPass, ExpireTimer, UserCodeEnds, StartLoop,
              TimerCallbackEnds
<1>3. CASE Poll
  BY <1>3 DEF Poll, LeaveLoop, BeginPoll, PollReportsReader, PollTimesOut
<1>4. CASE World \/ UNCHANGED vars
  BY <1>4 DEF World, Tick, StopAllEvents, vars
<1> QED
  BY <1>1, <1>2, <1>3, <1>4 DEF Next, Loop

(***************************************************************************)
(* Once the exit is requested, by a timer callback or while the script     *)
(* loads, no step starts a callback or a poll, whatever timers are due and *)
(* whatever descriptors have readers.                                      *)
(***************************************************************************)
THEOREM ExitStaysFinal == Spec => ExitIsFinal
<1> DEFINE Final == exitRequested => ~CallbackStarts /\ pc' # "poll"
<1>1. ASSUME PollInv, Next PROVE Final
  <2> SUFFICES ASSUME exitRequested
               PROVE  ~CallbackStarts /\ pc' # "poll"
    OBVIOUS
  <2> USE DEF PollInv, UserCode, Stopped, CallbackStarts
  <2>1. CASE Api
    BY <2>1 DEF Api, SetTimer, ClearTimer, RequestExit, SetReader, Close
  <2>2. CASE ProcessTimers \/ UserCodeEnds
    BY <2>2 DEF ProcessTimers, BeginPass, EndPass, ExpireTimer, MayExpire, UserCodeEnds,
                StartLoop, TimerCallbackEnds
  <2>3. CASE Poll
    BY <1>1, <2>3 DEF Poll, LeaveLoop, BeginPoll, PollReportsReader, PollTimesOut
  <2>4. CASE World
    BY <1>1, <2>4 DEF World, Tick, StopAllEvents
  <2> QED
    BY <1>1, <2>1, <2>2, <2>3, <2>4 DEF Next, Loop
<1>2. PollInv /\ [Next]_vars => [Final]_vars
  BY <1>1
<1>3. Init => PollInv
  BY DEF Init, PollInv
<1> QED
  BY <1>2, <1>3, PollInvIsInductive, PTL DEF Spec, ExitIsFinal

------------------------------------------------------------------------------
(* The refinement: under the mapping of the instance Service, every step   *)
(* of the loop maps to a step of module TimerService or leaves the service *)
(* alone.                                                                  *)

(***************************************************************************)
(* The loop holds a timer outside the list only while a callback of the    *)
(* timer runs, one at a time, and "now" as the pass has read it is never   *)
(* ahead.                                                                  *)
(***************************************************************************)
PassInv ==
  /\ pc # "timerCb" => expiring = {}
  /\ \A t, u \in expiring : t = u
  /\ passNow <= now

\* What a step that neither fires a timer nor lets time pass backwards keeps.
LEMMA PassInvAlone ==
  ASSUME PassInv, UNCHANGED <<expiring, passNow>>, now' = now,
         pc' # pc => pc # "timerCb" /\ pc' # "timerCb"
  PROVE  PassInv'
BY DEF PassInv

LEMMA PassInvIsInductive == IInv /\ PassInv /\ [Next]_vars => PassInv'
<1> SUFFICES ASSUME IInv, PassInv, [Next]_vars PROVE PassInv'
  OBVIOUS
<1> USE DEF worldVars, timerVars, passVars, UserCode
<1>1. CASE Api
  BY <1>1, PassInvAlone DEF Api, SetTimer, ClearTimer, RequestExit, SetReader, Close
<1>2. CASE BeginPass \/ ExpireTimer \/ TimerCallbackEnds
  BY <1>2, LoopAssumption DEF BeginPass, ExpireTimer, TimerCallbackEnds, PassInv,
                              IInv, TypeOK
<1>3. CASE EndPass \/ StartLoop \/ Poll
  BY <1>3, PassInvAlone DEF EndPass, StartLoop, Poll, LeaveLoop, BeginPoll,
                            PollReportsReader, PollTimesOut
<1>4. CASE World
  <2>1. CASE Tick
    <3>1. now \in Nat /\ passNow \in Nat
      BY LoopAssumption DEF IInv, TypeOK
    <3> QED
      BY <2>1, <3>1 DEF Tick, PassInv
  <2>2. ASSUME NEW b \in BOOLEAN, StopAllEvents(b) PROVE PassInv'
    BY <2>2, PassInvAlone DEF StopAllEvents
  <2> QED
    BY <1>4, <2>1, <2>2 DEF World
<1>5. CASE UNCHANGED vars
  BY <1>5, PassInvAlone DEF vars
<1> QED
  BY <1>1, <1>2, <1>3, <1>4, <1>5 DEF Next, Loop, ProcessTimers, UserCodeEnds

------------------------------------------------------------------------------
(* Steps of the loop as steps of the service.                              *)

LEMMA ArmedAsSets == Armed = TimersIn(timers) \cup (IF removed THEN {} ELSE expiring)
BY DEF Armed, TimersIn

\* The service sees the clock, the timers and how many were created.
LEMMA StutterOutsideTimers ==
  ASSUME UNCHANGED <<now, timers, expiring, removed, nextTimerId>>
  PROVE  UNCHANGED Service!vars
BY DEF Service!vars, Armed

(***************************************************************************)
(* setTimeout, setInterval and the timer of _USERCODE arm a timer.         *)
(***************************************************************************)
LEMMA CreateTimerArms ==
  ASSUME IInv, NEW d \in Delays \cup {0}, NEW oneshot \in BOOLEAN,
         CreateTimer(d, oneshot), UNCHANGED <<now, expiring, removed>>
  PROVE  Service!Next
<1> DEFINE x == NewTimer(d, oneshot)
           delay == AtLeast(MinimumDelay, d)
<1>1. d \in Nat /\ nextTimerId \in Nat /\ MaxId \in Nat
  BY LoopAssumption DEF IInv, TypeOK
<1>2. x \in Timers /\ timers \in Seq(Timers)
  BY <1>1, NewTimerType DEF IInv, TypeOK, CreateTimer
<1>3. timers' = InsertTimer(timers, x) /\ nextTimerId' = nextTimerId + 1
  BY DEF CreateTimer
<1> HIDE DEF x
<1>4. TimersIn(timers') = TimersIn(timers) \cup {x}
  BY <1>2, <1>3, TargetsAreIntegers, InsertTimerFacts
<1>5. Armed' = Armed \cup {x}
  BY <1>4, ArmedAsSets DEF TimersIn, Armed
<1>6. x = [id |-> (nextTimerId - 1) + 1, target |-> now + delay, delay |-> delay,
           oneshot |-> oneshot]
  BY <1>1 DEF NewTimer, x
<1>7. nextTimerId - 1 < MaxId /\ nextTimerId' - 1 = (nextTimerId - 1) + 1
  BY <1>1, <1>3 DEF CreateTimer
<1>8. delay \in {AtLeast(MinimumDelay, e) : e \in Delays \cup {0}}
  OBVIOUS
<1> HIDE DEF delay
<1>9. Service!Arm(delay, oneshot)
  BY <1>5, <1>6, <1>7 DEF Service!Arm
<1> QED
  BY <1>8, <1>9 DEF Service!Next

(***************************************************************************)
(* clearTimeout and clearInterval disarm the timer, on the list or not.    *)
(***************************************************************************)
LEMMA ClearTimerClearsArmed ==
  ASSUME IInv, PassInv, NEW id \in 1..MaxId, ClearTimer(id)
  PROVE  Service!Next
<1>1. /\ timers \in Seq(Timers) /\ Sorted(timers) /\ DistinctIds(timers)
      /\ removed \in BOOLEAN
      /\ \A t \in expiring : t.id \notin TimerIds(timers)
      /\ \A t, u \in expiring : t = u
  BY DEF IInv, TypeOK, TimersSorted, IdsAreUnique, PassInv
<1>2. UNCHANGED <<now, nextTimerId, expiring>>
  BY DEF ClearTimer, worldVars
<1>3. Armed' = {t \in Armed : t.id # id}
  <2>1. CASE \E t \in expiring : t.id = id
    <3>1. removed' = TRUE /\ timers' = timers
      BY <2>1 DEF ClearTimer
    <3>2. \A t \in TimersIn(timers) : t.id # id
      BY <1>1, <2>1, IdsOfTimers
    <3>3. \A t \in expiring : t.id = id
      BY <1>1, <2>1
    <3>4. Armed' = TimersIn(timers)
      BY <3>1 DEF Armed, TimersIn
    <3> QED
      BY <3>2, <3>3, <3>4, ArmedAsSets
  <2>2. CASE ~ \E t \in expiring : t.id = id
    <3>1. timers' = RemoveTimer(timers, id) /\ removed' = removed
      BY <2>2 DEF ClearTimer
    <3>2. TimersIn(timers') = {t \in TimersIn(timers) : t.id # id}
      BY <1>1, <3>1, TargetsAreIntegers, RemoveTimerKeeps
    <3>3. Armed' = TimersIn(timers') \cup (IF removed THEN {} ELSE expiring)
      BY <1>2, <3>1 DEF Armed, TimersIn
    <3> QED
      BY <2>2, <3>2, <3>3, ArmedAsSets
  <2> QED
    BY <2>1, <2>2
<1>4. Service!Clear(id)
  BY <1>2, <1>3 DEF Service!Clear
<1> QED
  BY <1>4 DEF Service!Next

(***************************************************************************)
(* What processTimers pops is an armed timer that is due and not later     *)
(* than any other; if it is an interval, it stays armed with its next      *)
(* target.                                                                 *)
(***************************************************************************)
LEMMA ExpireTimerFires ==
  ASSUME IInv, PassInv, ExpireTimer
  PROVE  Service!Next
<1>0. PICK t : t = timers[Len(timers)]
  OBVIOUS
<1> DEFINE n == Len(timers)
           next == passNow + t.delay
<1>1. /\ n \in 1..Len(timers) /\ timers \in Seq(Timers) /\ timers' = Unsplice(timers, n)
      /\ t = timers[n]
  BY <1>0, LenProperties DEF ExpireTimer, MayExpire, IInv, TypeOK, PopTimer
<1>2. /\ pc = "timers" /\ t.target < passNow
      /\ expiring' = {Rearmed(t)} /\ removed' = t.oneshot
      /\ UNCHANGED <<now, nextTimerId>>
  BY <1>0 DEF ExpireTimer, MayExpire, EarliestTimer, worldVars
<1>3. expiring = {} /\ passNow <= now /\ passNow \in Nat /\ now \in Nat
  BY <1>2, LoopAssumption DEF PassInv, IInv, TypeOK
<1>4. t \in Timers /\ t \in TimersIn(timers)
  BY <1>1, ElementOfSeq DEF TimersIn
<1>5. \A u \in TimersIn(timers) : t.target <= u.target
  <2>1. \A i \in 1..n : timers[i].target >= timers[n].target
    <3>1. \A i \in 1..n : timers[i].target \in Int
      BY <1>1, ElementOfSeq, TargetsAreIntegers
    <3>2. \A i \in 1..n : i # n => i < n
      BY <1>1
    <3> QED
      BY <1>1, <3>1, <3>2 DEF IInv, TimersSorted, Sorted
  <2>2. \A i \in 1..n : timers[i].target \in Int
    BY <1>1, ElementOfSeq, TargetsAreIntegers
  <2> QED
    BY <1>1, <2>1, <2>2 DEF TimersIn
<1>6. TimersIn(timers') = TimersIn(timers) \ {t}
  BY <1>1, TargetsAreIntegers, UnspliceKeeps DEF IInv, TimersSorted, IdsAreUnique
<1>7. Armed = TimersIn(timers)
  BY <1>3, ArmedAsSets
<1>8. Armed' = (Armed \ {t}) \cup (IF t.oneshot THEN {} ELSE {Rearmed(t)})
  BY <1>2, <1>6, <1>7 DEF Armed, TimersIn
<1> HIDE DEF n
<1>9. t.id \in 1..MaxId /\ t.target \in Nat /\ t.delay \in Nat /\ t.oneshot \in BOOLEAN
  BY <1>4 DEF Timers, TimerRecord
<1>10. Rearmed(t).id = t.id
  BY <1>3, <1>4, RearmedType DEF IInv, TypeOK
<1>11. Service!Fire(t)
  <2>1. {u.id : u \in expiring} = {} /\ {u.id : u \in expiring'} = {t.id}
    BY <1>2, <1>3, <1>10
  <2>2. t.target + 1 <= now
    BY <1>2, <1>3, <1>9
  <2>3. CASE t.oneshot
    BY <1>2, <1>5, <1>7, <1>8, <2>1, <2>2, <2>3 DEF Service!Fire
  <2>4. CASE ~t.oneshot
    <3>1. next \in (t.target + t.delay + 1)..(now + t.delay)
      BY <1>2, <1>3, <1>9
    <3>2. Armed' = (Armed \ {t}) \cup {[t EXCEPT !.target = next]}
      BY <1>8, <2>4 DEF Rearmed
    <3> HIDE DEF next
    <3> QED
      BY <1>2, <1>5, <1>7, <2>1, <2>2, <2>4, <3>1, <3>2 DEF Service!Fire
  <2> QED
    BY <1>9, <2>3, <2>4
<1> QED
  BY <1>4, <1>7, <1>11 DEF Service!Next

(***************************************************************************)
(* The return of a timer callback leaves the same timers armed.            *)
(***************************************************************************)
LEMMA TimerCallbackFinishes ==
  ASSUME IInv, PassInv, TimerCallbackEnds
  PROVE  Service!Next
<1>1. PICK t \in expiring : timers' = IF removed THEN timers ELSE InsertTimer(timers, t)
  BY DEF TimerCallbackEnds
<1>2. timers \in Seq(Timers) /\ t \in Timers /\ expiring = {t} /\ removed \in BOOLEAN
  BY DEF IInv, TypeOK, PassInv
<1>3. TimersIn(InsertTimer(timers, t)) = TimersIn(timers) \cup {t}
  BY <1>2, TargetsAreIntegers, InsertTimerFacts
<1>4. expiring' = {} /\ UNCHANGED <<now, nextTimerId>>
  BY DEF TimerCallbackEnds, worldVars
<1>5. Armed' = TimersIn(timers')
  BY <1>4 DEF Armed, TimersIn
<1>6. Armed' = Armed
  BY <1>1, <1>2, <1>3, <1>5, ArmedAsSets
<1>7. Service!Finish
  BY <1>2, <1>4, <1>6 DEF Service!Finish
<1> QED
  BY <1>7 DEF Service!Next

LEMMA StepsImplementService == IInv /\ PassInv /\ [Next]_vars => [Service!Next]_(Service!vars)
<1> SUFFICES ASSUME IInv, PassInv, [Next]_vars PROVE [Service!Next]_(Service!vars)
  OBVIOUS
<1> DEFINE Maps == Service!Next \/ UNCHANGED Service!vars
           Alone == UNCHANGED <<now, timers, expiring, removed, nextTimerId>>
<1>1. ASSUME Alone PROVE Maps
  BY <1>1, StutterOutsideTimers
<1> HIDE DEF Maps
<1>2. ASSUME Api PROVE Maps
  <2>1. ASSUME NEW d \in Delays, NEW oneshot \in BOOLEAN, SetTimer(d, oneshot) PROVE Maps
    BY <2>1, CreateTimerArms DEF SetTimer, worldVars, Maps
  <2>2. ASSUME NEW id \in 1..MaxId, ClearTimer(id) PROVE Maps
    BY <2>2, ClearTimerClearsArmed DEF Maps
  <2>3. ASSUME RequestExit \/ \E f \in Fds : SetReader(f) \/ Close(f)
        PROVE  Alone
    BY <2>3 DEF RequestExit, SetReader, Close, worldVars, timerVars
  <2> QED
    BY <1>1, <1>2, <2>1, <2>2, <2>3 DEF Api
<1>3. ASSUME ProcessTimers PROVE Maps
  <2>1. ASSUME BeginPass \/ EndPass PROVE Alone
    BY <2>1 DEF BeginPass, EndPass, worldVars, timerVars
  <2> QED
    BY <1>1, <1>3, <2>1, ExpireTimerFires DEF ProcessTimers, Maps
<1>4. ASSUME Poll PROVE Maps
  <2>1. Alone
    BY <1>4 DEF Poll, LeaveLoop, BeginPoll, PollReportsReader, PollTimesOut, worldVars,
                timerVars
  <2> QED
    BY <1>1, <2>1
<1>5. ASSUME StartLoop PROVE Maps
  BY <1>5, CreateTimerArms DEF StartLoop, worldVars, Maps
<1>6. ASSUME TimerCallbackEnds PROVE Maps
  BY <1>6, TimerCallbackFinishes DEF Maps
<1>7. ASSUME World PROVE Maps
  <2>1. CASE Tick
    <3>1. UNCHANGED <<timers, expiring, removed, nextTimerId>>
      BY <2>1 DEF Tick, timerVars
    <3>2. Armed' = Armed
      BY <3>1 DEF Armed
    <3>3. Service!Tick
      BY <2>1, <3>1, <3>2 DEF Tick, Service!Tick
    <3> QED
      BY <3>3 DEF Service!Next, Maps
  <2>2. ASSUME NEW b \in BOOLEAN, StopAllEvents(b) PROVE Alone
    BY <2>2 DEF StopAllEvents, timerVars
  <2> QED
    BY <1>1, <1>7, <2>1, <2>2 DEF World
<1>8. ASSUME UNCHANGED vars PROVE Maps
  BY <1>1, <1>8 DEF vars, worldVars, timerVars
<1>9. Maps
  BY <1>2, <1>3, <1>4, <1>5, <1>6, <1>7, <1>8 DEF Next, Loop, UserCodeEnds
<1> QED
  BY <1>9 DEF Maps

(***************************************************************************)
(* The sorted array, the expiring timer and its removed mark implement the *)
(* set of armed timers of TimerService, for every script: no timer fires   *)
(* early, out of order or after it was cleared, a one-shot fires once, and *)
(* no interval is lost.                                                    *)
(***************************************************************************)
THEOREM LoopImplementsTimerService == Spec => ImplementsTimerService
<1>1. Init => PassInv
  BY DEF Init, PassInv
<1>2. Init => Service!Init
  <2> SUFFICES ASSUME Init PROVE Service!Init
    OBVIOUS
  <2>1. timers = <<>> /\ expiring = {} /\ nextTimerId = 1 /\ now = 0
    BY DEF Init
  <2>2. Len(timers) = 0
    BY <2>1, EmptySeq
  <2>3. Armed = {}
    BY <2>1, <2>2 DEF Armed
  <2> QED
    BY <2>1, <2>3 DEF Service!Init
<1> QED
  BY <1>1, <1>2, IInvHolds, PassInvIsInductive, StepsImplementService, PTL
     DEF Spec, ImplementsTimerService, Service!Spec
==============================================================================
