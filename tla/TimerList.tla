------------------------------ MODULE TimerList ------------------------------
(***************************************************************************)
(* The active timer list of ecma_eventloop.js: an array sorted by expiry   *)
(* time, the timer expiring next being the LAST element, so that removal   *)
(* happens at the end.  The operators below are the array operations of    *)
(* EventLoop.getEarliestTimer, insertTimer and removeTimerById; the array  *)
(* timer_list of c_eventloop.c is kept the same way, by other means.       *)
(***************************************************************************)
EXTENDS Integers, Sequences

AtLeast(low, x) == IF x >= low THEN x ELSE low
AtMost(high, x) == IF x <= high THEN x ELSE high

(***************************************************************************)
(* What the properties need of a timer object.  The callback is user code, *)
(* and is modelled by the state machine of module EventLoop.               *)
(***************************************************************************)
TimerRecord(Ids, Times, Durations) ==
  [id : Ids, target : Times, delay : Durations, oneshot : BOOLEAN]

\* Nearest expiry last.
Sorted(timers) ==
  \A i, j \in 1..Len(timers) : i < j => timers[i].target >= timers[j].target

DistinctIds(timers) ==
  \A i, j \in 1..Len(timers) : timers[i].id = timers[j].id => i = j

TimerIds(timers) == {timers[i].id : i \in 1..Len(timers)}

EarliestTimer(timers) == timers[Len(timers)]

(***************************************************************************)
(* insertTimer walks the array from its end and stops at the first timer t *)
(* with timer.target <= t.target: the new timer goes right after it, or to *)
(* the front of the array if there is none.                                *)
(***************************************************************************)
NotEarlier(timers, timer) ==
  {i \in 1..Len(timers) : timer.target <= timers[i].target}

\* Mutant: the new timer is pushed to the end of the array.
InsertLast(timers, timer) == Len(timers) + 1

InsertPosition(timers, timer) ==
  IF NotEarlier(timers, timer) = {}
  THEN 1
  ELSE 1 + CHOOSE i \in NotEarlier(timers, timer) :
             \A j \in NotEarlier(timers, timer) : j <= i

\* timers.splice(p - 1, 0, timer)
Splice(timers, p, timer) ==
  [k \in 1..(Len(timers) + 1) |->
     IF k < p THEN timers[k] ELSE IF k = p THEN timer ELSE timers[k - 1]]

InsertTimer(timers, timer) ==
  Splice(timers, InsertPosition(timers, timer), timer)

\* timers.splice(p - 1, 1)
Unsplice(timers, p) ==
  [k \in 1..(Len(timers) - 1) |-> IF k < p THEN timers[k] ELSE timers[k + 1]]

\* timers.pop(): the earliest timer leaves the list.
PopTimer(timers) == Unsplice(timers, Len(timers))

(***************************************************************************)
(* The part of removeTimerById that searches the active list; an unknown   *)
(* id is ignored.                                                          *)
(***************************************************************************)
WithId(timers, id) == {i \in 1..Len(timers) : timers[i].id = id}

RemoveTimer(timers, id) ==
  IF WithId(timers, id) = {}
  THEN timers
  ELSE Unsplice(timers, CHOOSE i \in WithId(timers, id) :
                          \A j \in WithId(timers, id) : i <= j)
==============================================================================
