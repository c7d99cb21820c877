-------------------------- MODULE ServiceRunnerProofs --------------------------
(***************************************************************************)
(* Theorems about module ServiceRunner, for any number of configurations   *)
(* and threads.  Types are kept however the requests overlap.  The rest    *)
(* holds when they come one at a time, while the loops run: when they      *)
(* overlap, two starts may launch the same thread, and the second throws.  *)
(***************************************************************************)
EXTENDS ServiceRunner, TLAPS

\* Requests one at a time.
Alone == \A c, d \in Clients : c = d

RunningStates == LiveStates \ {"loading"}
Configuring == {"verify", "store"}

(***************************************************************************)
(* What a request relies on, which an earlier access of its own has seen.  *)
(***************************************************************************)
Remembered ==
  \A c \in Clients :
    /\ pc[c] # "failed"
    /\ nonNull[c] => thread # None /\ pc[c] \in TestsStarted
    /\ pc[c] \in {"create", "launch"} => ~needToStop
    /\ pc[c] = "launch" => thread # None /\ loop[thread] = "new"
    /\ pc[c] \in Configuring => thread = None

\* A live loop that the service remembers is silenced only to be forgotten.
Heard ==
  thread # None /\ Alive(thread) =>
    ~needToStop \/ \E c \in Clients : pc[c] = "forget"

\* A running loop that the service remembers has the current configuration.
Configured ==
  thread # None /\ loop[thread] \in RunningStates => loopConfig[thread] = configuration

Safe == Remembered /\ Heard /\ Configured
IInv == TypeOK /\ Safe

------------------------------------------------------------------------------
(* Types, however many requests overlap.                                   *)

LEMMA InitTypes == Init => TypeOK
<1> SUFFICES ASSUME Init PROVE TypeOK
  OBVIOUS
<1> QED
  BY RunnerAssumption DEF Init, TypeOK, Requests, Answers, Steps, Labels, Left

\* The steps of a request are steps.
LEMMA LabelsAreSteps == \A r \in Requests : Labels(r) \subseteq Steps
BY DEF Labels, Steps, TestsStarted

\* Where a test of isStarted() leads.
LEMMA BranchFacts ==
  ASSUME TypeOK, NEW c \in Clients, pc[c] \in TestsStarted, NEW started \in BOOLEAN
  PROVE  /\ Branch(c, started) \in {"alreadyStarted", "start", "stop", "alreadyStopped",
                                    "ok", "resume", "cancel", "forget"}
         /\ Branch(c, started) \in Labels(request[c])
<1>1. pc[c] \in Labels(request[c]) /\ request[c] \in Requests
  BY DEF TypeOK
<1>2. request[c].op \in {"start", "stop", "configure"}
  BY <1>1 DEF Requests
<1>3. CASE request[c].op = "start"
  BY <1>1, <1>3 DEF Branch, Labels, Answers, TestsStarted
<1>4. CASE request[c].op = "stop"
  BY <1>1, <1>4 DEF Branch, Labels, Answers, TestsStarted
<1>5. CASE request[c].op = "configure"
  BY <1>1, <1>5 DEF Branch, Labels, Answers, TestsStarted
<1> QED
  BY <1>2, <1>3, <1>4, <1>5

\* All but the labels of the clients.
DataTyped ==
  /\ thread \in Threads \cup {None}
  /\ configuration \in Configs \cup {None}
  /\ needToStop \in BOOLEAN
  /\ loop \in [Threads -> LiveStates \cup {"none", "new", "dead"}]
  /\ left \in [Threads -> Left]
  /\ loopConfig \in [Threads -> Configs \cup {None}]
  /\ request \in [Clients -> Requests]
  /\ nonNull \in [Clients -> BOOLEAN]

LEMMA GotoTypes ==
  ASSUME TypeOK, NEW c \in Clients, NEW label, Goto(c, label), DataTyped',
         label \in Labels(request'[c]),
         \A d \in Clients \ {c} : request'[d] = request[d]
  PROVE  TypeOK'
<1>1. pc' = [pc EXCEPT ![c] = label] /\ pc \in [Clients -> Steps]
  BY DEF TypeOK, Goto
<1>2. request' \in [Clients -> Requests]
  BY DEF DataTyped
<1>3. label \in Steps
  BY <1>2, LabelsAreSteps
<1>4. \A d \in Clients : pc'[d] \in Labels(request'[d])
  BY <1>1 DEF TypeOK
<1> QED
  BY <1>1, <1>3, <1>4 DEF TypeOK, DataTyped

LEMMA ServeTypes ==
  ASSUME TypeOK, NEW c \in Clients, Receive(c) \/ Serve(c)
  PROVE  TypeOK'
<1> USE DEF fieldVars, loopVars, clientVars
<1>1. DataTyped /\ pc[c] \in Labels(request[c]) /\ request[c] \in Requests
  BY DEF TypeOK, DataTyped
<1>2. \A r : Answers \subseteq Labels(r)
  BY DEF Labels
<1>3. CASE Receive(c)
  <2>1. PICK r \in Requests :
          /\ request' = [request EXCEPT ![c] = r]
          /\ Goto(c, IF r.op # "configure" THEN "check"
                     ELSE IF r.config = configuration THEN "ok" ELSE "stop")
    BY <1>3 DEF Receive
  <2>2. DataTyped'
    BY <1>1, <1>3, <2>1 DEF Receive, DataTyped
  <2>3. request'[c] = r /\ \A d \in Clients \ {c} : request'[d] = request[d]
    BY <1>1, <2>1 DEF DataTyped
  <2>4. r.op \in {"start", "stop", "configure"}
    BY DEF Requests
  <2>5. "check" \in Labels(r) \/ r.op = "configure"
    BY <2>4 DEF Labels
  <2>6. r.op = "configure" => "stop" \in Labels(r) /\ "ok" \in Labels(r)
    BY DEF Labels, Answers
  <2> QED
    BY <2>1, <2>2, <2>3, <2>5, <2>6, GotoTypes
<1>4. CASE TestNull(c)
  <2>1. DataTyped' /\ request' = request
    BY <1>1, <1>4 DEF TestNull, DataTyped
  <2>2. CASE thread = None
    <3>1. pc[c] \in TestsStarted /\ Goto(c, Branch(c, FALSE))
      BY <1>4, <2>2 DEF TestNull
    <3>2. Branch(c, FALSE) \in Labels(request[c])
      BY <3>1, BranchFacts
    <3> QED
      BY <2>1, <3>1, <3>2, GotoTypes
  <2>3. CASE thread # None
    BY <1>4, <2>1, <2>3 DEF TestNull, TypeOK, DataTyped
  <2> QED
    BY <2>2, <2>3
<1>5. CASE TestAlive(c)
  <2>1. DataTyped' /\ request' = request
    BY <1>1, <1>5 DEF TestAlive, DataTyped
  <2>2. CASE thread = None
    BY <1>2, <1>5, <2>1, <2>2, GotoTypes DEF TestAlive, Answers
  <2>3. CASE thread # None
    <3>1. pc[c] \in TestsStarted /\ Goto(c, Branch(c, Alive(thread))) /\ Alive(thread) \in BOOLEAN
      BY <1>5, <2>3 DEF TestAlive, Alive
    <3>2. Branch(c, Alive(thread)) \in Labels(request[c])
      BY <3>1, BranchFacts
    <3> QED
      BY <2>1, <3>1, <3>2, GotoTypes
  <2> QED
    BY <2>2, <2>3
<1>6. ASSUME pc[c] \in {"resume", "create", "launch"}
      PROVE  {"create", "launch"} \subseteq Labels(request[c])
  BY <1>1, <1>6 DEF Labels, Answers, Requests
<1>7. ASSUME pc[c] \in {"cancel", "forget"}
      PROVE  /\ "forget" \in Labels(request[c])
             /\ request[c].op = "configure" => "verify" \in Labels(request[c])
  BY <1>1, <1>7 DEF Labels, Answers, Requests
<1>8. ASSUME pc[c] \in {"verify", "store"}
      PROVE  "store" \in Labels(request[c]) /\ request[c].config \in Configs
  BY <1>1, <1>8 DEF Labels, Answers, Requests
<1>9. CASE Resume(c)
  BY <1>1, <1>6, <1>9, GotoTypes DEF Resume, DataTyped
<1>10. CASE CreateThread(c)
  <2>1. DataTyped' /\ request' = request
    BY <1>1, <1>10 DEF CreateThread, DataTyped, Unborn
  <2> QED
    BY <1>6, <1>10, <2>1, GotoTypes DEF CreateThread
<1>11. CASE LaunchThread(c)
  <2>1. DataTyped' /\ request' = request
    BY <1>1, <1>11 DEF LaunchThread, DataTyped, LiveStates
  <2>2. \E label \in {"ok", "failed"} : Goto(c, label)
    BY <1>11 DEF LaunchThread
  <2> QED
    BY <1>2, <2>1, <2>2, GotoTypes DEF Answers
<1>12. CASE Cancel(c)
  BY <1>1, <1>7, <1>12, GotoTypes DEF Cancel, DataTyped
<1>13. CASE Forget(c)
  <2>1. DataTyped' /\ request' = request
    BY <1>1, <1>13 DEF Forget, DataTyped
  <2>2. /\ pc[c] = "forget"
        /\ Goto(c, IF request[c].op = "configure" THEN "verify" ELSE "ok")
    BY <1>13 DEF Forget
  <2> QED
    BY <1>2, <1>7, <2>1, <2>2, GotoTypes DEF Answers
<1>14. CASE Verify(c)
  <2>1. DataTyped' /\ request' = request /\ pc[c] = "verify"
    BY <1>1, <1>14 DEF Verify, DataTyped
  <2>2. \E label \in {"store", "rejected"} : Goto(c, label)
    BY <1>14 DEF Verify
  <2> QED
    BY <1>2, <1>8, <2>1, <2>2, GotoTypes DEF Answers
<1>15. CASE Store(c)
  <2>1. DataTyped' /\ request' = request
    BY <1>1, <1>8, <1>15 DEF Store, DataTyped
  <2> QED
    BY <1>2, <1>15, <2>1, GotoTypes DEF Store, Answers
<1> QED
  BY <1>3, <1>4, <1>5, <1>9, <1>10, <1>11, <1>12, <1>13, <1>14, <1>15 DEF Serve

LEMMA RunLoopTypes ==
  ASSUME TypeOK, NEW t \in Threads, RunLoop(t)
  PROVE  TypeOK'
<1> USE DEF TypeOK, fieldVars, clientVars, Left, LiveStates
<1>1. CASE Load(t)
  BY <1>1 DEF Load
<1>2. CASE BeginTimer(t) \/ ReportReader(t) \/ EndLoop(t)
  BY <1>2 DEF BeginTimer, ReportReader, EndLoop
<1>3. CASE EndCallback(t)
  BY <1>3 DEF EndCallback
<1> QED
  BY <1>1, <1>2, <1>3 DEF RunLoop, RunScript

LEMMA TypesAreKept ==
  ASSUME TypeOK, [Next]_vars
  PROVE  TypeOK'
<1>1. CASE UNCHANGED vars
  BY <1>1 DEF TypeOK, vars, fieldVars, loopVars, clientVars
<1> QED
  BY <1>1, ServeTypes, RunLoopTypes DEF Next

(***************************************************************************)
(* The field, the flag, the loops and the requests keep their types,       *)
(* however many requests overlap.                                          *)
(***************************************************************************)
THEOREM TypeInvariant == Spec => []TypeOK
<1>1. TypeOK /\ [Next]_vars => TypeOK'
  BY TypesAreKept
<1> QED
  BY <1>1, InitTypes, PTL DEF Spec

------------------------------------------------------------------------------
(* What holds when requests come one at a time.                            *)

LEMMA InitIInv == Init => IInv
<1> SUFFICES ASSUME Init PROVE IInv
  OBVIOUS
<1>1. Remembered /\ Heard /\ Configured
  BY DEF Init, Remembered, Heard, Configured, Configuring
<1> QED
  BY <1>1, InitTypes DEF IInv, Safe

\* The client that moves is the only one.
LEMMA GotoMoves ==
  ASSUME Alone, NEW c \in Clients, TypeOK, NEW label, Goto(c, label)
  PROVE  \A d \in Clients : d = c /\ pc'[d] = label
BY DEF Alone, TypeOK, Goto

LEMMA ReceiveKeeps ==
  ASSUME Alone, IInv, NEW c \in Clients, Receive(c)
  PROVE  Safe'
<1>1. PICK r \in Requests :
        /\ request' = [request EXCEPT ![c] = r]
        /\ Goto(c, IF r.op # "configure" THEN "check"
                   ELSE IF r.config = configuration THEN "ok" ELSE "stop")
  BY DEF Receive
<1>2. /\ TypeOK /\ pc[c] \in Answers
      /\ UNCHANGED <<thread, configuration, needToStop, loop, left, loopConfig, nonNull>>
  BY DEF IInv, Receive, fieldVars, loopVars
<1>3. \A d \in Clients : d = c /\ pc'[d] \in {"check", "ok", "stop"}
  BY <1>1, <1>2, GotoMoves
<1>4. ~nonNull[c]
  BY <1>2 DEF IInv, Safe, Remembered, Answers, TestsStarted
<1>5. Remembered'
  BY <1>2, <1>3, <1>4 DEF Remembered, Configuring
<1>6. Heard' /\ Configured'
  BY <1>2, <1>3 DEF IInv, Safe, Heard, Configured, Alive, Answers
<1> QED
  BY <1>5, <1>6 DEF Safe

LEMMA TestNullKeeps ==
  ASSUME Alone, IInv, NEW c \in Clients, TestNull(c)
  PROVE  Safe'
<1>1. /\ TypeOK /\ pc[c] \in TestsStarted /\ ~nonNull[c]
      /\ UNCHANGED <<thread, configuration, needToStop, loop, left, loopConfig, request>>
  BY DEF IInv, TestNull, fieldVars, loopVars
<1>2. CASE thread = None
  <2> DEFINE label == Branch(c, FALSE)
  <2>1. Goto(c, label) /\ UNCHANGED nonNull
    BY <1>2 DEF TestNull
  <2>2. label \notin {"failed", "create", "launch"} \cup Configuring
    BY <1>1, BranchFacts DEF Configuring
  <2> HIDE DEF label
  <2>3. \A d \in Clients : d = c /\ pc'[d] = label
    BY <1>1, <2>1, <2>2, GotoMoves
  <2>4. Remembered'
    BY <1>1, <2>1, <2>2, <2>3 DEF Remembered
  <2>5. Heard' /\ Configured'
    BY <1>1, <1>2, <2>2, <2>3 DEF IInv, Safe, Heard, Configured, TestsStarted
  <2> QED
    BY <2>4, <2>5 DEF Safe
<1>3. CASE thread # None
  <2>1. nonNull' = [nonNull EXCEPT ![c] = TRUE] /\ UNCHANGED pc
    BY <1>3 DEF TestNull
  <2>2. Remembered'
    BY <1>1, <1>3, <2>1 DEF IInv, Safe, Remembered, TypeOK, Alone
  <2>3. Heard' /\ Configured'
    BY <1>1, <2>1 DEF IInv, Safe, Heard, Configured, Alive
  <2> QED
    BY <2>2, <2>3 DEF Safe
<1> QED
  BY <1>2, <1>3

LEMMA TestAliveKeeps ==
  ASSUME Alone, IInv, NEW c \in Clients, TestAlive(c)
  PROVE  Safe'
<1> DEFINE label == Branch(c, Alive(thread))
<1>1. /\ TypeOK /\ pc[c] \in TestsStarted /\ nonNull[c]
      /\ nonNull' = [nonNull EXCEPT ![c] = FALSE]
      /\ UNCHANGED <<thread, configuration, needToStop, loop, left, loopConfig, request>>
  BY DEF IInv, TestAlive, fieldVars, loopVars
<1>2. thread # None
  BY <1>1 DEF IInv, Safe, Remembered
<1>3. Goto(c, label)
  BY <1>2 DEF TestAlive
<1>4. label \notin {"failed", "create", "launch"} \cup Configuring
  <2>1. Alive(thread) \in BOOLEAN
    BY DEF Alive
  <2> QED
    BY <1>1, <2>1, BranchFacts DEF Configuring
<1> HIDE DEF label
<1>5. \A d \in Clients : d = c /\ pc'[d] = label
  BY <1>1, <1>3, <1>4, GotoMoves
<1>6. \A d \in Clients : ~nonNull'[d]
  BY <1>1, <1>5 DEF TypeOK
<1>7. Remembered'
  BY <1>4, <1>5, <1>6 DEF Remembered
<1>8. Heard' /\ Configured'
  BY <1>1, <1>4, <1>5 DEF IInv, Safe, Heard, Configured, Alive, TestsStarted
<1> QED
  BY <1>7, <1>8 DEF Safe

LEMMA ResumeKeeps ==
  ASSUME Alone, IInv, NEW c \in Clients, Resume(c)
  PROVE  Safe'
<1>1. /\ TypeOK /\ pc[c] = "resume" /\ needToStop' = FALSE /\ Goto(c, "create")
      /\ UNCHANGED <<thread, configuration, loop, left, loopConfig, request, nonNull>>
  BY DEF IInv, Resume, loopVars
<1>2. \A d \in Clients : d = c /\ pc'[d] = "create"
  BY <1>1, GotoMoves
<1>3. Remembered'
  BY <1>1, <1>2 DEF IInv, Safe, Remembered, Configuring, TestsStarted
<1>4. Heard' /\ Configured'
  BY <1>1, <1>2 DEF IInv, Safe, Heard, Configured, Alive
<1> QED
  BY <1>3, <1>4 DEF Safe

LEMMA CreateThreadKeeps ==
  ASSUME Alone, IInv, NEW c \in Clients, CreateThread(c)
  PROVE  Safe'
<1>1. /\ TypeOK /\ pc[c] = "create" /\ Goto(c, "launch")
      /\ UNCHANGED <<configuration, needToStop, left, loopConfig, request, nonNull>>
  BY DEF IInv, CreateThread
<1>2. PICK t \in Unborn : loop' = [loop EXCEPT ![t] = "new"] /\ thread' = t
  BY DEF CreateThread
<1>3. \A d \in Clients : d = c /\ pc'[d] = "launch"
  BY <1>1, GotoMoves
<1>4. t \in Threads /\ t # None
  BY <1>2, RunnerAssumption DEF Unborn, Threads
<1>5. loop'[t] = "new" /\ ~needToStop
  BY <1>1, <1>2, <1>4 DEF TypeOK, IInv, Safe, Remembered
<1>6. Remembered'
  BY <1>1, <1>2, <1>3, <1>4, <1>5 DEF IInv, Safe, Remembered, Configuring, TestsStarted
<1>7. Heard' /\ Configured'
  BY <1>1, <1>2, <1>3, <1>5 DEF IInv, Safe, Heard, Configured, Alive,
                                RunningStates, LiveStates
<1> QED
  BY <1>6, <1>7 DEF Safe

LEMMA LaunchThreadKeeps ==
  ASSUME Alone, IInv, NEW c \in Clients, LaunchThread(c)
  PROVE  Safe'
<1>1. /\ TypeOK /\ pc[c] = "launch"
      /\ UNCHANGED <<thread, configuration, needToStop, left, loopConfig, request, nonNull>>
  BY DEF IInv, LaunchThread, fieldVars
<1>2. thread # None /\ loop[thread] = "new" /\ ~needToStop
  BY <1>1 DEF IInv, Safe, Remembered
<1>3. loop' = [loop EXCEPT ![thread] = "loading"] /\ Goto(c, "ok")
  BY <1>2 DEF LaunchThread
<1>4. \A d \in Clients : d = c /\ pc'[d] = "ok"
  BY <1>1, <1>3, GotoMoves
<1>5. thread \in Threads /\ loop'[thread] = "loading"
  BY <1>1, <1>2, <1>3 DEF TypeOK
<1>6. Remembered'
  BY <1>1, <1>4 DEF IInv, Safe, Remembered, Configuring, TestsStarted
<1>7. Heard' /\ Configured'
  BY <1>1, <1>2, <1>4, <1>5 DEF IInv, Safe, Heard, Configured, RunningStates
<1> QED
  BY <1>6, <1>7 DEF Safe

LEMMA CancelKeeps ==
  ASSUME Alone, IInv, NEW c \in Clients, Cancel(c)
  PROVE  Safe'
<1>1. /\ TypeOK /\ pc[c] = "cancel" /\ needToStop' = TRUE /\ Goto(c, "forget")
      /\ UNCHANGED <<thread, configuration, loop, left, loopConfig, request, nonNull>>
  BY DEF IInv, Cancel, loopVars
<1>2. \A d \in Clients : d = c /\ pc'[d] = "forget"
  BY <1>1, GotoMoves
<1>3. Remembered'
  BY <1>1, <1>2 DEF IInv, Safe, Remembered, Configuring, TestsStarted
<1>4. Heard' /\ Configured'
  BY <1>1, <1>2 DEF IInv, Safe, Heard, Configured
<1> QED
  BY <1>3, <1>4 DEF Safe

LEMMA ForgetKeeps ==
  ASSUME Alone, IInv, NEW c \in Clients, Forget(c)
  PROVE  Safe'
<1>1. /\ TypeOK /\ pc[c] = "forget" /\ thread' = None
      /\ Goto(c, IF request[c].op = "configure" THEN "verify" ELSE "ok")
      /\ UNCHANGED <<configuration, needToStop, loop, left, loopConfig, request, nonNull>>
  BY DEF IInv, Forget, loopVars
<1>2. \A d \in Clients : d = c /\ pc'[d] \in {"verify", "ok"}
  BY <1>1, GotoMoves
<1>3. ~nonNull[c]
  BY <1>1 DEF IInv, Safe, Remembered, TestsStarted
<1>4. Remembered'
  BY <1>1, <1>2, <1>3 DEF Remembered, Configuring
<1>5. Heard' /\ Configured'
  BY <1>1, <1>2 DEF IInv, Safe, Heard, Configured
<1> QED
  BY <1>4, <1>5 DEF Safe

LEMMA VerifyKeeps ==
  ASSUME Alone, IInv, NEW c \in Clients, Verify(c)
  PROVE  Safe'
<1>1. /\ TypeOK /\ pc[c] = "verify" /\ \E answer \in {"store", "rejected"} : Goto(c, answer)
      /\ UNCHANGED <<thread, configuration, needToStop, loop, left, loopConfig,
                     request, nonNull>>
  BY DEF IInv, Verify, fieldVars, loopVars
<1>2. \A d \in Clients : d = c /\ pc'[d] \in {"store", "rejected"}
  BY <1>1, GotoMoves
<1>3. thread = None
  BY <1>1 DEF IInv, Safe, Remembered, Configuring
<1>4. Remembered'
  BY <1>1, <1>2, <1>3 DEF IInv, Safe, Remembered
<1>5. Heard' /\ Configured'
  BY <1>1, <1>2, <1>3 DEF IInv, Safe, Heard, Configured
<1> QED
  BY <1>4, <1>5 DEF Safe

LEMMA StoreKeeps ==
  ASSUME Alone, IInv, NEW c \in Clients, Store(c)
  PROVE  Safe'
<1>1. /\ TypeOK /\ pc[c] = "store" /\ configuration' = request[c].config /\ Goto(c, "ok")
      /\ UNCHANGED <<thread, needToStop, loop, left, loopConfig, request, nonNull>>
  BY DEF IInv, Store, loopVars
<1>2. \A d \in Clients : d = c /\ pc'[d] = "ok"
  BY <1>1, GotoMoves
<1>3. thread = None
  BY <1>1 DEF IInv, Safe, Remembered, Configuring
<1>4. Remembered'
  BY <1>1, <1>2, <1>3 DEF IInv, Safe, Remembered
<1>5. Heard' /\ Configured'
  BY <1>1, <1>2, <1>3 DEF Heard, Configured
<1> QED
  BY <1>4, <1>5 DEF Safe

------------------------------------------------------------------------------
(* The loops.                                                              *)

LEMMA LoadKeeps ==
  ASSUME IInv, NEW t \in Threads, Load(t)
  PROVE  Safe'
<1>1. /\ TypeOK /\ loop[t] = "loading"
      /\ loop' = [loop EXCEPT ![t] = "waiting"]
      /\ loopConfig' = [loopConfig EXCEPT ![t] = configuration]
      /\ \E l \in Left : left' = [left EXCEPT ![t] = l]
      /\ UNCHANGED <<thread, configuration, needToStop, pc, request, nonNull>>
  BY DEF IInv, Load, fieldVars, clientVars
<1>2. \A u \in Threads : loop[u] = "new" => loop'[u] = "new"
  BY <1>1 DEF TypeOK
<1>3. Remembered'
  BY <1>1, <1>2 DEF IInv, Safe, Remembered, TypeOK
<1>4. Heard'
  BY <1>1 DEF IInv, Safe, TypeOK, Heard, Alive, LiveStates
<1>5. Configured'
  BY <1>1 DEF IInv, Safe, TypeOK, Configured
<1> QED
  BY <1>3, <1>4, <1>5 DEF Safe

\* The other steps of a running loop leave it running or end it.
LEMMA RunningKeeps ==
  ASSUME IInv, NEW t \in Threads, loop[t] \in RunningStates,
         NEW next \in RunningStates \cup {"dead"},
         loop' = [loop EXCEPT ![t] = next],
         left' \in [Threads -> Left],
         UNCHANGED <<fieldVars, loopConfig, clientVars>>
  PROVE  Safe'
<1>1. /\ TypeOK
      /\ UNCHANGED <<thread, configuration, needToStop, loopConfig, pc, request, nonNull>>
  BY DEF IInv, fieldVars, clientVars
<1>2. thread # None =>
        /\ loop[thread] = "new" => loop'[thread] = "new"
        /\ loop'[thread] \in LiveStates => loop[thread] \in LiveStates
        /\ loop'[thread] \in RunningStates => loop[thread] \in RunningStates
  BY <1>1 DEF TypeOK, RunningStates, LiveStates
<1>3. Remembered'
  BY <1>1, <1>2 DEF IInv, Safe, Remembered
<1>4. Heard' /\ Configured'
  BY <1>1, <1>2 DEF IInv, Safe, Heard, Configured, Alive
<1> QED
  BY <1>3, <1>4 DEF Safe

LEMMA RunLoopKeeps ==
  ASSUME IInv, NEW t \in Threads, RunLoop(t)
  PROVE  Safe'
<1>1. left \in [Threads -> Left]
  BY DEF IInv, TypeOK
<1>2. CASE Load(t)
  BY <1>2, LoadKeeps
<1>3. CASE BeginTimer(t)
  BY <1>1, <1>3, RunningKeeps DEF BeginTimer, RunningStates, LiveStates
<1>4. CASE ReportReader(t)
  BY <1>1, <1>4, RunningKeeps DEF ReportReader, RunningStates, LiveStates
<1>5. CASE EndCallback(t)
  <2>1. left' \in [Threads -> Left]
    BY <1>1, <1>5 DEF EndCallback, Left
  <2>2. PICK next \in {"waiting", "dead"} : loop' = [loop EXCEPT ![t] = next]
    BY <1>5 DEF EndCallback
  <2> QED
    BY <1>5, <2>1, <2>2, RunningKeeps DEF EndCallback, RunningStates, LiveStates
<1>6. CASE EndLoop(t)
  BY <1>1, <1>6, RunningKeeps DEF EndLoop, RunningStates, LiveStates
<1> QED
  BY <1>2, <1>3, <1>4, <1>5, <1>6 DEF RunLoop, RunScript

------------------------------------------------------------------------------

LEMMA IInvIsInductive ==
  ASSUME Alone, IInv, [Next]_vars
  PROVE  IInv'
<1>1. TypeOK'
  BY TypesAreKept DEF IInv
<1>2. Safe'
  <2>1. ASSUME NEW c \in Clients, Receive(c) \/ Serve(c) PROVE Safe'
    BY <2>1, ReceiveKeeps, TestNullKeeps, TestAliveKeeps, ResumeKeeps, CreateThreadKeeps,
       LaunchThreadKeeps, CancelKeeps, ForgetKeeps, VerifyKeeps, StoreKeeps DEF Serve
  <2>2. ASSUME NEW t \in Threads, RunLoop(t) PROVE Safe'
    BY <2>2, RunLoopKeeps
  <2>3. CASE UNCHANGED vars
    BY <2>3 DEF IInv, Safe, Remembered, Heard, Configured, Alive,
                vars, fieldVars, loopVars, clientVars
  <2> QED
    BY <2>1, <2>2, <2>3 DEF Next
<1> QED
  BY <1>1, <1>2 DEF IInv

(***************************************************************************)
(* The inductive invariant, when requests come one at a time.              *)
(***************************************************************************)
THEOREM SpecIInv ==
  ASSUME Alone
  PROVE  Spec => []IInv
<1>1. IInv /\ [Next]_vars => IInv'
  BY IInvIsInductive
<1> QED
  BY <1>1, InitIInv, PTL DEF Spec

(***************************************************************************)
(* A request that is served alone never dereferences a null thread and     *)
(* never starts a thread twice, whatever the loops do between its accesses *)
(* to the field: only requests write it, and the thread it holds is new    *)
(* from its creation to its start.                                         *)
(***************************************************************************)
THEOREM RequestsNeverFail ==
  ASSUME Alone
  PROVE  Spec => []RequestsSucceed
<1>1. IInv => RequestsSucceed
  BY DEF IInv, Safe, Remembered, RequestsSucceed
<1> QED
  BY <1>1, SpecIInv, PTL

(***************************************************************************)
(* A service that says it is started has its timers called back: the stop  *)
(* flag of the last loop is cleared before a new one is created, and set   *)
(* again only by a request that then forgets the loop.                     *)
(***************************************************************************)
THEOREM StartedServicesAreHeard ==
  ASSUME Alone
  PROVE  Spec => []StartedIsHeard
<1>1. IInv => StartedIsHeard
  BY DEF IInv, Safe, Heard, StartedIsHeard, Idle, Answers
<1> QED
  BY <1>1, SpecIInv, PTL

(***************************************************************************)
(* A service that says it is started runs with the configuration it was    *)
(* given last: it changes only once the field "thread" is null.            *)
(***************************************************************************)
THEOREM StartedServicesAreConfigured ==
  ASSUME Alone
  PROVE  Spec => []StartedIsConfigured
<1>1. IInv => StartedIsConfigured
  BY DEF IInv, Safe, Configured, StartedIsConfigured, RunningStates
<1> QED
  BY <1>1, SpecIInv, PTL

==============================================================================
