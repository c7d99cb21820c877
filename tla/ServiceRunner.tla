---------------------------- MODULE ServiceRunner ----------------------------
(***************************************************************************)
(* One JavascriptStringRunnableService under the requests that start, stop *)
(* and configure it.  Every HTTP request runs in a thread of its own and   *)
(* nothing is synchronised: the field "thread" and the stop flag of the    *)
(* JavaScript engine are read and written one access at a time.            *)
(*                                                                         *)
(* A loop is a Java thread that executes the script.  What module          *)
(* EventLoop says of its inside is here: a loop that has timers or readers *)
(* left does not end on its own, the stop flag keeps it from calling       *)
(* timers back but does not end it, and what poll() reports for a reader   *)
(* ends it with an exception.                                              *)
(*                                                                         *)
(* The row of the service in the database, which configure() updates last, *)
(* is in module ServiceRegistry: nothing here depends on it.               *)
(***************************************************************************)
EXTENDS Naturals, FiniteSets

CONSTANTS
  Clients,     \* the threads that execute requests
  Configs,     \* the configurations that requests carry
  MaxThreads,  \* bound: the Java threads created in one behaviour
  None         \* null: no thread, no configuration

ASSUME RunnerAssumption ==
  /\ MaxThreads \in Nat
  /\ None \notin Configs \cup (1..MaxThreads)

VARIABLES
  thread,         \* the field "thread"
  configuration,  \* the field "configuration"
  needToStop,     \* wrapper.needToStopAllEvents, shared by all the loops
  loop,           \* the state of every Java thread created so far
  left,           \* what a loop has to wait for: timers, readers
  loopConfig,     \* the configuration a loop was started with
  pc,             \* where a client is
  request,        \* what its request is: [op, config]
  nonNull         \* whether it has evaluated "thread != null" to true

fieldVars  == <<thread, configuration, needToStop>>
loopVars   == <<loop, left, loopConfig>>
clientVars == <<pc, request, nonNull>>
vars == <<fieldVars, loopVars, clientVars>>

Threads == 1..MaxThreads
Requests == [op : {"start", "stop"}, config : {None}]
              \cup [op : {"configure"}, config : Configs]
LiveStates == {"loading", "waiting", "timerCb"}
Answers == {"ok", "alreadyStarted", "alreadyStopped", "rejected", "failed"}
TestsStarted == {"check", "start", "stop"}
Left == SUBSET {"timers", "readers"}

Steps == Answers \cup TestsStarted \cup
  {"resume", "create", "launch", "cancel", "forget", "verify", "store"}

\* Where a request may be: an answer, or a step of its own.
Labels(r) ==
  Answers \cup
    CASE r.op = "start" -> {"check", "start", "resume", "create", "launch"}
      [] r.op = "stop" -> {"check", "stop", "cancel", "forget"}
      [] OTHER -> {"stop", "cancel", "forget", "verify", "store"}

TypeOK ==
  /\ thread \in Threads \cup {None}
  /\ configuration \in Configs \cup {None}
  /\ needToStop \in BOOLEAN
  /\ loop \in [Threads -> LiveStates \cup {"none", "new", "dead"}]
  /\ left \in [Threads -> Left]
  /\ loopConfig \in [Threads -> Configs \cup {None}]
  /\ request \in [Clients -> Requests]
  /\ pc \in [Clients -> Steps]
  /\ \A c \in Clients : pc[c] \in Labels(request[c])
  /\ nonNull \in [Clients -> BOOLEAN]

Init ==
  /\ thread = None /\ configuration = None /\ needToStop = FALSE
  /\ loop = [t \in Threads |-> "none"]
  /\ left = [t \in Threads |-> {}]
  /\ loopConfig = [t \in Threads |-> None]
  /\ pc = [c \in Clients |-> "ok"]
  /\ request = [c \in Clients |-> [op |-> "stop", config |-> None]]
  /\ nonNull = [c \in Clients |-> FALSE]

Goto(c, label) == pc' = [pc EXCEPT ![c] = label]

Alive(t) == loop[t] \in LiveStates

------------------------------------------------------------------------------
(* The steps of a request.                                                 *)

Starting ==
  {c \in Clients : pc[c] \notin Answers \cup {"launch"} /\ request[c].op = "start"}
Unborn == {t \in Threads : loop[t] = "none"}

\* GET .../start or .../stop asks the manager; configure compares first.
\* (The bound on threads leaves one for every start under way.)
Receive(c) ==
  /\ pc[c] \in Answers
  /\ \E r \in Requests :
       /\ r.op = "start" => Cardinality(Starting) < Cardinality(Unborn)
       /\ request' = [request EXCEPT ![c] = r]
       /\ Goto(c, IF r.op # "configure" THEN "check"
                  ELSE IF r.config = configuration THEN "ok" ELSE "stop")
  /\ UNCHANGED <<fieldVars, loopVars, nonNull>>

\* Mutant: the branch of a stop in the manager calls start().
BranchToStart(c, started) ==
  CASE pc[c] = "check" ->
         IF request[c].op = "start"
         THEN (IF started THEN "alreadyStarted" ELSE "start")
         ELSE (IF started THEN "start" ELSE "alreadyStopped")
    [] pc[c] = "start" -> IF started THEN "ok" ELSE "resume"
    [] OTHER -> IF started THEN "cancel" ELSE "forget"

(***************************************************************************)
(* What follows isStarted(): startStopRunnableService tests it, and start  *)
(* and stop test it again.                                                 *)
(***************************************************************************)
Branch(c, started) ==
  CASE pc[c] = "check" ->
         IF request[c].op = "start"
         THEN (IF started THEN "alreadyStarted" ELSE "start")
         ELSE (IF started THEN "stop" ELSE "alreadyStopped")
    [] pc[c] = "start" -> IF started THEN "ok" ELSE "resume"
    [] OTHER -> IF started THEN "cancel" ELSE "forget"

\* isStarted() is "thread != null && thread.isAlive()": the field is read twice.
TestNull(c) ==
  /\ pc[c] \in TestsStarted
  /\ ~nonNull[c]
  /\ IF thread = None
     THEN Goto(c, Branch(c, FALSE)) /\ UNCHANGED nonNull
     ELSE nonNull' = [nonNull EXCEPT ![c] = TRUE] /\ UNCHANGED pc
  /\ UNCHANGED <<fieldVars, loopVars, request>>

TestAlive(c) ==
  /\ pc[c] \in TestsStarted
  /\ nonNull[c]
  /\ nonNull' = [nonNull EXCEPT ![c] = FALSE]
  /\ Goto(c, IF thread = None THEN "failed" ELSE Branch(c, Alive(thread)))
  /\ UNCHANGED <<fieldVars, loopVars, request>>

\* Mutant: the flag that stopped the last loop stays set.
ResumeNothing(c) ==
  /\ pc[c] = "resume"
  /\ Goto(c, "create")
  /\ UNCHANGED <<fieldVars, loopVars, request, nonNull>>

\* wrapper.stopAllEvents(false)
Resume(c) ==
  /\ pc[c] = "resume"
  /\ needToStop' = FALSE
  /\ Goto(c, "create")
  /\ UNCHANGED <<thread, configuration, loopVars, request, nonNull>>

\* Mutant: the new thread is not remembered.
CreateLocalThread(c) ==
  /\ pc[c] = "create"
  /\ \E t \in Unborn :
       /\ \A u \in Unborn : t <= u
       /\ loop' = [loop EXCEPT ![t] = "new"]
  /\ Goto(c, "launch")
  /\ UNCHANGED <<fieldVars, left, loopConfig, request, nonNull>>

\* thread = new Thread(...)
CreateThread(c) ==
  /\ pc[c] = "create"
  /\ \E t \in Unborn :
       /\ \A u \in Unborn : t <= u
       /\ loop' = [loop EXCEPT ![t] = "new"]
       /\ thread' = t
  /\ Goto(c, "launch")
  /\ UNCHANGED <<configuration, needToStop, left, loopConfig, request, nonNull>>

\* thread.start() reads the field again, and throws if it is null or if the
\* thread it names has been started.
LaunchThread(c) ==
  /\ pc[c] = "launch"
  /\ IF thread # None /\ loop[thread] = "new"
     THEN loop' = [loop EXCEPT ![thread] = "loading"] /\ Goto(c, "ok")
     ELSE Goto(c, "failed") /\ UNCHANGED loop
  /\ UNCHANGED <<fieldVars, left, loopConfig, request, nonNull>>

\* cancelAllEvents()
Cancel(c) ==
  /\ pc[c] = "cancel"
  /\ needToStop' = TRUE
  /\ Goto(c, "forget")
  /\ UNCHANGED <<thread, configuration, loopVars, request, nonNull>>

\* Mutant: the thread that was stopped is not forgotten.
ForgetNothing(c) ==
  /\ pc[c] = "forget"
  /\ Goto(c, IF request[c].op = "configure" THEN "verify" ELSE "ok")
  /\ UNCHANGED <<fieldVars, loopVars, request, nonNull>>

\* thread = null
Forget(c) ==
  /\ pc[c] = "forget"
  /\ thread' = None
  /\ Goto(c, IF request[c].op = "configure" THEN "verify" ELSE "ok")
  /\ UNCHANGED <<configuration, needToStop, loopVars, request, nonNull>>

\* The script accepts the configuration, rejects it or throws.
Verify(c) ==
  /\ pc[c] = "verify"
  /\ \E answer \in {"store", "rejected"} : Goto(c, answer)
  /\ UNCHANGED <<fieldVars, loopVars, request, nonNull>>

Store(c) ==
  /\ pc[c] = "store"
  /\ configuration' = request[c].config
  /\ Goto(c, "ok")
  /\ UNCHANGED <<thread, needToStop, loopVars, request, nonNull>>

------------------------------------------------------------------------------
(* The steps of a loop.                                                    *)

(***************************************************************************)
(* The thread reads the configuration, then loads and configures the       *)
(* script, whose _USERCODE becomes the first timer.  It has nothing left   *)
(* when the script does not load, or runs without an event loop.           *)
(***************************************************************************)
Load(t) ==
  /\ loop[t] = "loading"
  /\ loop' = [loop EXCEPT ![t] = "waiting"]
  /\ loopConfig' = [loopConfig EXCEPT ![t] = configuration]
  /\ \E l \in Left : left' = [left EXCEPT ![t] = l]
  /\ UNCHANGED <<fieldVars, clientVars>>

\* Mutant: processTimers does not look at the flag.
BeginAnyTimer(t) ==
  /\ loop[t] = "waiting"
  /\ "timers" \in left[t]
  /\ loop' = [loop EXCEPT ![t] = "timerCb"]
  /\ UNCHANGED <<fieldVars, left, loopConfig, clientVars>>

\* processTimers has seen the flag clear, and calls a timer's callback.
BeginTimer(t) ==
  /\ loop[t] = "waiting"
  /\ "timers" \in left[t]
  /\ ~needToStop
  /\ loop' = [loop EXCEPT ![t] = "timerCb"]
  /\ UNCHANGED <<fieldVars, left, loopConfig, clientVars>>

\* poll() reports a descriptor that has a reader: run() throws, and the thread ends.
ReportReader(t) ==
  /\ loop[t] = "waiting"
  /\ "readers" \in left[t]
  /\ loop' = [loop EXCEPT ![t] = "dead"]
  /\ UNCHANGED <<fieldVars, left, loopConfig, clientVars>>

\* The callback returns, and may have requested the exit of its loop.
EndCallback(t) ==
  /\ loop[t] = "timerCb"
  /\ \E next \in {"waiting", "dead"} : loop' = [loop EXCEPT ![t] = next]
  /\ \E l \in Left : left' = [left EXCEPT ![t] = l]
  /\ UNCHANGED <<fieldVars, loopConfig, clientVars>>

\* run() breaks only when nothing is left to wait for: the flag does not end it.
EndLoop(t) ==
  /\ loop[t] = "waiting"
  /\ left[t] = {}
  /\ loop' = [loop EXCEPT ![t] = "dead"]
  /\ UNCHANGED <<fieldVars, left, loopConfig, clientVars>>

------------------------------------------------------------------------------

Serve(c) ==
  \/ TestNull(c) \/ TestAlive(c)
  \/ Resume(c) \/ CreateThread(c) \/ LaunchThread(c)
  \/ Cancel(c) \/ Forget(c)
  \/ Verify(c) \/ Store(c)

RunScript(t) == Load(t) \/ BeginTimer(t) \/ EndCallback(t) \/ EndLoop(t)

RunLoop(t) == RunScript(t) \/ ReportReader(t)

Next ==
  \/ \E c \in Clients : Receive(c) \/ Serve(c)
  \/ \E t \in Threads : RunLoop(t)

Spec == Init /\ [][Next]_vars

\* Java threads are scheduled and callbacks return; nothing obliges a client to
\* send a request, or poll() to report a reader.
FairSpec ==
  /\ Spec
  /\ \A c \in Clients : WF_vars(Serve(c))
  /\ \A t \in Threads : WF_vars(RunScript(t))

------------------------------------------------------------------------------
(* What a service owes the requests.                                       *)

Idle == \A c \in Clients : pc[c] \in Answers

(***************************************************************************)
(* A request that is served alone never dies of a null thread, nor of a    *)
(* thread that has been started before, whatever the loops do meanwhile.   *)
(***************************************************************************)
RequestsSucceed == \A c \in Clients : pc[c] # "failed"

(***************************************************************************)
(* A service that says it is started runs its timers: the stop flag set    *)
(* for an earlier loop does not silence the one that replaced it.          *)
(***************************************************************************)
StartedIsHeard ==
  Idle /\ thread # None /\ Alive(thread) => ~needToStop

(***************************************************************************)
(* A service that says it is started runs with the configuration it was    *)
(* given last: configure stops a loop that has loaded the previous one.    *)
(***************************************************************************)
StartedIsConfigured ==
  Idle /\ thread # None /\ loop[thread] \in LiveStates \ {"loading"}
    => loopConfig[thread] = configuration

(***************************************************************************)
(* The message "No need to stop the service, it is already stopped" of     *)
(* ServiceGetRequestHandler: no loop of the service calls timers back.     *)
(***************************************************************************)
AlreadyStopped ==
  (\E c \in Clients : pc[c] = "alreadyStopped")
    => \A t \in Threads : Alive(t) => needToStop

(***************************************************************************)
(* As long as the stop flag stays set, the timers of every loop fall       *)
(* silent, those of the loops that the field "thread" has lost track of    *)
(* included, whatever requests overlapped before.  (A stop() that finds    *)
(* the thread null or dead does not set the flag: what becomes of the      *)
(* loops then is what AlreadyStopped is about.)                            *)
(***************************************************************************)
FlagSilencesTimers ==
  <>[]needToStop => <>[](\A t \in Threads : loop[t] # "timerCb")
==============================================================================
