----------------------------- MODULE TimerService -----------------------------
(***************************************************************************)
(* What setTimeout, setInterval, clearTimeout and clearInterval promise a  *)
(* script: a set of armed timers, of which those that are due fire one at  *)
(* a time, earliest first.  It knows nothing of arrays, passes or polling. *)
(***************************************************************************)
EXTENDS Integers

CONSTANTS
  MaxId,     \* bound: the timers created in one behaviour
  Horizon,   \* bound: the last value of the clock
  Durations, \* the delays timers are created with, a millisecond at least
  Lateness   \* the milliseconds after its target before which no timer fires

VARIABLES
  now,      \* the clock
  armed,    \* the timers that will fire
  running,  \* {} or the singleton of the id whose callback is running
  created   \* how many timers have been created

vars == <<now, armed, running, created>>

Init == now = 0 /\ armed = {} /\ running = {} /\ created = 0

Tick ==
  /\ now < Horizon
  /\ now' = now + 1
  /\ UNCHANGED <<armed, running, created>>

\* A timer gets a new id and a delay of at least a millisecond.
Arm(d, oneshot) ==
  /\ created < MaxId
  /\ created' = created + 1
  /\ armed' = armed \cup {[id |-> created + 1, target |-> now + d, delay |-> d,
                           oneshot |-> oneshot]}
  /\ UNCHANGED <<now, running>>

\* Clearing a timer, even the interval that is running, is final.
Clear(id) ==
  /\ armed' = {t \in armed : t.id # id}
  /\ UNCHANGED <<now, running, created>>

(***************************************************************************)
(* A timer fires when it is due, and no armed timer is earlier.  An        *)
(* interval stays armed: its next target is at least a delay after the     *)
(* one it missed, so late intervals do not fire in bursts, and at most a   *)
(* delay from now.                                                         *)
(***************************************************************************)
Fire(t) ==
  /\ running = {}
  /\ t.target + Lateness <= now
  /\ \A u \in armed : t.target <= u.target
  /\ running' = {t.id}
  /\ IF t.oneshot
     THEN armed' = armed \ {t}
     ELSE \E next \in (t.target + t.delay + Lateness)..(now + t.delay) :
            armed' = (armed \ {t}) \cup {[t EXCEPT !.target = next]}
  /\ UNCHANGED <<now, created>>

Finish ==
  /\ running # {}
  /\ running' = {}
  /\ UNCHANGED <<now, armed, created>>

Next ==
  \/ Tick
  \/ \E d \in Durations, oneshot \in BOOLEAN : Arm(d, oneshot)
  \/ \E id \in 1..MaxId : Clear(id)
  \/ \E t \in armed : Fire(t)
  \/ Finish

Spec == Init /\ [][Next]_vars
==============================================================================
