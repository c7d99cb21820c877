-------------------------- MODULE ScriptSocketsProofs --------------------------
(***************************************************************************)
(* Theorems about module ScriptSockets, for any number of requests,        *)
(* objects and connections.                                                *)
(***************************************************************************)
EXTENDS ScriptSockets, FiniteSetTheorems, TLAPS

Closing    == {"get", "remove", "onerror"}
Connecting == {"check", "put", "read", "store", "connected"}
Resting    == {"idle", "script"}

(***************************************************************************)
(* What the proof needs of the types: an object is one of the heap's, the  *)
(* identifiers that are chosen are not null.                               *)
(***************************************************************************)
Typed ==
  /\ lastId \in Nat
  /\ pc \in [Threads -> Closing \cup Connecting \cup Resting]
  /\ object \in [Threads -> SUBSET Objects]
  /\ connecting \in [Threads -> BOOLEAN]
  /\ id \in [Threads -> Nat] /\ readId \in [Threads -> Nat]
  /\ status \in [Heap -> {"DISCONNECTED", "CONNECTED"}]
  /\ settings \in [Heap -> Nat]
  /\ spent \subseteq Heap /\ threw \subseteq Heap
  /\ \A t \in Threads : pc[t] \in {"put", "read", "store", "connected"} => id[t] # Null

(***************************************************************************)
(* An object that was never connected has no settings.  A thread that      *)
(* closes runs a function of a connected object, one that connects runs    *)
(* one of an object without settings, one that does neither runs none.     *)
(***************************************************************************)
CallsMatchObjects ==
  /\ \A h \in Heap : status[h] = "DISCONNECTED" => settings[h] = Null
  /\ \A t \in Threads :
       /\ pc[t] \in Closing => \A h \in This(t) : status[h] = "CONNECTED"
       /\ pc[t] \in Connecting => \A h \in This(t) : settings[h] = Null
       /\ pc[t] \in Resting => object[t] = {}

\* An object is connected without settings when a call has closed it, or while
\* it is connected again, and no call ever gets it out of this state.
SpentAreSpent ==
  /\ \A h \in spent : status[h] = "CONNECTED" /\ settings[h] = Null /\ h \notin This(h[1])
  /\ \A h \in Heap : status[h] = "CONNECTED" /\ settings[h] = Null =>
       h \in spent \/ (h \in This(h[1]) /\ pc[h[1]] \in Connecting)

IInv == Typed /\ CallsMatchObjects /\ SpentAreSpent /\ TypeErrorsNeedAClose

\* The objects of a thread's call are in its own heap.
LEMMA ThisIsOwn ==
  ASSUME Typed, NEW t \in Threads
  PROVE  /\ This(t) \subseteq Heap
         /\ \A h \in This(t) : h[1] = t /\ h = <<t, h[2]>>
BY DEF Typed, This, Heap

LEMMA InitIInv == Init => IInv
BY DEF Init, IInv, Typed, CallsMatchObjects, SpentAreSpent, TypeErrorsNeedAClose, Heap,
       This, Closing, Connecting, Resting, Null

(***************************************************************************)
(* The invariant speaks of Java's fields only through their types, and of  *)
(* the history own not at all.                                             *)
(***************************************************************************)
LEMMA BeginKeeps ==
  ASSUME IInv, NEW t \in Threads, Begin(t)
  PROVE  IInv'
BY DEF Begin, Goto, javaVars, objectVars, localVars, historyVars, IInv, Typed,
       CallsMatchObjects, SpentAreSpent, TypeErrorsNeedAClose, Heap, This, Closing,
       Connecting, Resting, Null

\* The objects of the heap that is destroyed are forgotten, in spent and threw too.
LEMMA EndKeeps ==
  ASSUME IInv, NEW t \in Threads, End(t)
  PROVE  IInv'
<1> USE DEF End, Goto, Set, javaVars, localVars, Heap, This, Closing, Connecting, Resting, Null
<1>1. Typed'
  BY DEF IInv, Typed
<1>2. CallsMatchObjects'
  BY DEF IInv, Typed, CallsMatchObjects
<1>3. SpentAreSpent'
  BY DEF IInv, Typed, CallsMatchObjects, SpentAreSpent
<1>4. TypeErrorsNeedAClose'
  BY DEF IInv, TypeErrorsNeedAClose
<1> QED
  BY <1>1, <1>2, <1>3, <1>4 DEF IInv

\* A call throws for an object that is connected without settings, which is
\* spent, since no function of an object runs while the script does.
LEMMA ThrowKeeps ==
  ASSUME IInv, NEW t \in Threads, NEW o \in Objects, Throw(t, o)
  PROVE  IInv'
<1> USE DEF Throw, javaVars, objectVars, localVars, Heap, This, Closing, Connecting, Resting, Null
<1>1. <<t, o>> \in spent
  BY DEF IInv, Typed, SpentAreSpent
<1>2. Typed' /\ CallsMatchObjects' /\ SpentAreSpent'
  BY DEF IInv, Typed, CallsMatchObjects, SpentAreSpent
<1>3. TypeErrorsNeedAClose'
  BY <1>1 DEF IInv, TypeErrorsNeedAClose
<1> QED
  BY <1>2, <1>3 DEF IInv

LEMMA CallKeeps ==
  ASSUME IInv, NEW t \in Threads, NEW o \in Objects, NEW b \in BOOLEAN, Call(t, o, b)
  PROVE  IInv'
<1> USE DEF Call, Goto, javaVars, objectVars, historyVars, Heap, This, Closing, Connecting,
            Resting, Null
<1>1. Typed'
  BY DEF IInv, Typed
<1>2. CallsMatchObjects'
  <2>1. /\ object' = [object EXCEPT ![t] = {o}] /\ object \in [Threads -> SUBSET Objects]
        /\ UNCHANGED <<status, settings>>
        /\ pc \in [Threads -> Closing \cup Connecting \cup Resting]
    BY DEF IInv, Typed
  <2>2. \/ pc' = [pc EXCEPT ![t] = "get"] /\ status[<<t, o>>] = "CONNECTED"
        \/ pc' = [pc EXCEPT ![t] = "check"] /\ status[<<t, o>>] = "DISCONNECTED"
    OBVIOUS
  <2>3. settings[<<t, o>>] = Null \/ status[<<t, o>>] = "CONNECTED"
    BY <2>2 DEF IInv, CallsMatchObjects
  <2>4. ASSUME NEW u \in Threads, u # t
        PROVE  pc'[u] = pc[u] /\ object'[u] = object[u]
    BY <2>1, <2>2, <2>4
  <2> QED
    BY <2>1, <2>2, <2>3, <2>4 DEF IInv, CallsMatchObjects
<1>3. SpentAreSpent'
  <2>1. /\ object' = [object EXCEPT ![t] = {o}] /\ object \in [Threads -> SUBSET Objects]
        /\ UNCHANGED <<status, settings, spent>> /\ spent \subseteq Heap
        /\ pc \in [Threads -> Closing \cup Connecting \cup Resting]
        /\ pc[t] = "script"
    BY DEF IInv, Typed
  <2>2. \/ pc' = [pc EXCEPT ![t] = "get"] /\ settings[<<t, o>>] # Null
        \/ pc' = [pc EXCEPT ![t] = "check"] /\ status[<<t, o>>] = "DISCONNECTED"
    OBVIOUS
  <2>3. <<t, o>> \notin spent
    BY <2>2 DEF IInv, SpentAreSpent
  <2>4. ASSUME NEW h \in spent
        PROVE  /\ status'[h] = "CONNECTED" /\ settings'[h] = Null
               /\ h \notin This(h[1])'
    BY <2>1, <2>3 DEF IInv, SpentAreSpent
  <2>5. ASSUME NEW h \in Heap, status'[h] = "CONNECTED", settings'[h] = Null
        PROVE  h \in spent' \/ (h \in This(h[1])' /\ pc'[h[1]] \in Connecting)
    <3>1. h \in spent \/ (h \in This(h[1]) /\ pc[h[1]] \in Connecting)
      BY <2>1, <2>5 DEF IInv, SpentAreSpent
    <3>2. CASE h[1] = t
      BY <2>1, <3>1, <3>2
    <3>3. CASE h[1] # t
      BY <2>1, <2>2, <3>1, <3>3
    <3> QED
      BY <3>2, <3>3
  <2> QED
    BY <2>1, <2>4, <2>5 DEF SpentAreSpent
<1>4. TypeErrorsNeedAClose'
  BY DEF IInv, TypeErrorsNeedAClose
<1> QED
  BY <1>1, <1>2, <1>3, <1>4 DEF IInv

(***************************************************************************)
(* jni_tcp_socket_close has returned 1: the object is left connected, and  *)
(* without settings.                                                       *)
(***************************************************************************)
LEMMA ClosedKeeps ==
  ASSUME IInv, NEW t \in Threads, pc[t] \in Closing, Closed(t),
         lastId' = lastId, status' = status, threw' = threw
  PROVE  IInv'
<1> USE DEF Closed, Return, Goto, Set, Heap, This, Closing, Connecting, Resting, Null
<1>1. Typed'
  <2>1. settings' \in [Heap -> Nat]
    BY DEF IInv, Typed
  <2>2. spent' \subseteq Heap
    BY ThisIsOwn DEF IInv, Typed
  <2>3. CASE connecting[t]
    <3>1. pc' = [pc EXCEPT ![t] = "check"] /\ UNCHANGED localVars
      BY <2>3 DEF localVars
    <3> QED
      BY <2>1, <2>2, <3>1 DEF IInv, Typed, localVars
  <2>4. CASE ~connecting[t]
    <3>1. /\ pc' = [pc EXCEPT ![t] = "script"]
          /\ object' = [object EXCEPT ![t] = {}]
          /\ connecting' = [connecting EXCEPT ![t] = FALSE]
          /\ id' = [id EXCEPT ![t] = 0]
          /\ readId' = [readId EXCEPT ![t] = 0]
      BY <2>4
    <3>2. \A u \in Threads : pc'[u] \in {"put", "read", "store", "connected"} => id'[u] # 0
      BY <3>1 DEF IInv, Typed
    <3> QED
      BY <2>1, <2>2, <3>1, <3>2 DEF IInv, Typed
  <2> QED
    BY <2>3, <2>4
<1>2. CallsMatchObjects'
  BY DEF IInv, Typed, CallsMatchObjects
<1>3. SpentAreSpent'
  BY DEF IInv, Typed, CallsMatchObjects, SpentAreSpent
<1>4. TypeErrorsNeedAClose'
  BY DEF IInv, TypeErrorsNeedAClose
<1> QED
  BY <1>1, <1>2, <1>3, <1>4 DEF IInv

(***************************************************************************)
(* A step within close or within connect moves its own thread, and leaves  *)
(* the objects alone.                                                      *)
(***************************************************************************)
LEMMA StepKeeps ==
  ASSUME IInv, NEW t \in Threads, NEW label,
         \/ pc[t] \in Closing /\ label \in Closing
         \/ pc[t] \in Connecting /\ label \in Connecting,
         Goto(t, label), lastId' \in Nat, id' \in [Threads -> Nat],
         readId' \in [Threads -> Nat],
         \A u \in Threads : pc'[u] \in {"put", "read", "store", "connected"} => id'[u] # Null,
         UNCHANGED <<object, connecting, status, settings, spent, threw>>
  PROVE  IInv'
<1> USE DEF Goto, This, Closing, Connecting, Resting
<1>1. Typed'
  BY DEF IInv, Typed
<1>2. CallsMatchObjects'
  BY DEF IInv, Typed, CallsMatchObjects
<1>3. SpentAreSpent'
  BY DEF IInv, Typed, SpentAreSpent, Heap
<1>4. TypeErrorsNeedAClose'
  BY DEF IInv, TypeErrorsNeedAClose
<1> QED
  BY <1>1, <1>2, <1>3, <1>4 DEF IInv

(***************************************************************************)
(* Control goes back to the script with the object as it is.               *)
(***************************************************************************)
LEMMA ReturnKeepsType ==
  ASSUME IInv, NEW t \in Threads, Return(t), lastId' = lastId,
         status' \in [Heap -> {"DISCONNECTED", "CONNECTED"}], settings' \in [Heap -> Nat],
         spent' \subseteq Heap, threw' = threw
  PROVE  Typed'
<1>1. /\ pc' = [pc EXCEPT ![t] = "script"]
      /\ object' = [object EXCEPT ![t] = {}]
      /\ connecting' = [connecting EXCEPT ![t] = FALSE]
      /\ id' = [id EXCEPT ![t] = 0]
      /\ readId' = [readId EXCEPT ![t] = 0]
  BY DEF Return, Goto
<1>2. \A u \in Threads : pc'[u] \in {"put", "read", "store", "connected"} => id'[u] # 0
  BY <1>1 DEF IInv, Typed, Null
<1> QED
  BY <1>1, <1>2 DEF IInv, Typed, Null, Resting

LEMMA CloseStepsKeep ==
  ASSUME IInv, NEW t \in Threads, Get(t) \/ Remove(t) \/ OnError(t)
  PROVE  IInv'
<1> USE DEF Closing, javaVars, objectVars, localVars, historyVars
<1>1. /\ lastId \in Nat /\ id \in [Threads -> Nat] /\ readId \in [Threads -> Nat]
      /\ pc \in [Threads -> Closing \cup Connecting \cup Resting]
      /\ \A u \in Threads : pc[u] \in {"put", "read", "store", "connected"} => id[u] # Null
  BY DEF IInv, Typed
<1>2. lastId' = lastId /\ status' = status /\ threw' = threw
  BY DEF Get, Remove, OnError
<1>3. ASSUME NEW label \in Closing, pc[t] \in Closing, Goto(t, label),
             UNCHANGED <<settings, localVars, spent>>
      PROVE  IInv'
  <2>1. \A u \in Threads : pc'[u] \in {"put", "read", "store", "connected"} => id'[u] # Null
    BY <1>1, <1>3 DEF Goto
  <2> QED
    BY <1>1, <1>2, <1>3, <2>1, StepKeeps
<1>4. CASE Get(t)
  <2>1. /\ pc[t] = "get" /\ UNCHANGED <<settings, localVars, spent>>
        /\ Goto(t, "remove") \/ Goto(t, "onerror")
    BY <1>4 DEF Get
  <2> QED
    BY <1>3, <2>1
<1>5. CASE Remove(t)
  BY <1>2, <1>3, <1>5, ClosedKeeps DEF Remove
<1>6. ASSUME pc[t] = "onerror", Return(t), UNCHANGED <<settings, spent>> PROVE IInv'
  <2> USE DEF Return, Goto, This, Connecting, Resting
  <2>1. Typed'
    BY <1>2, <1>6, ReturnKeepsType DEF IInv, Typed
  <2>2. CallsMatchObjects'
    BY <1>1, <1>2, <1>6 DEF IInv, Typed, CallsMatchObjects
  <2>3. SpentAreSpent'
    BY <1>1, <1>2, <1>6 DEF IInv, Typed, SpentAreSpent, Heap
  <2>4. TypeErrorsNeedAClose'
    BY <1>2, <1>6 DEF IInv, TypeErrorsNeedAClose
  <2> QED
    BY <2>1, <2>2, <2>3, <2>4 DEF IInv
<1>7. CASE OnError(t)
  BY <1>2, <1>3, <1>6, <1>7, ClosedKeeps DEF OnError
<1> QED
  BY <1>4, <1>5, <1>7

\* connect fails, and spends an object that it has closed before.
LEMMA ConnectFailsKeeps ==
  ASSUME IInv, NEW t \in Threads, ConnectFails(t)
  PROVE  IInv'
<1> USE DEF ConnectFails, javaVars, objectVars
<1>1. spent' \subseteq Heap
  BY ThisIsOwn DEF IInv, Typed
<1>2. Typed'
  BY <1>1, ReturnKeepsType DEF IInv, Typed
<1> USE DEF Return, Goto, This, Closing, Connecting, Resting
<1>3. CallsMatchObjects'
  BY DEF IInv, Typed, CallsMatchObjects
<1>4. SpentAreSpent'
  BY DEF IInv, Typed, CallsMatchObjects, SpentAreSpent, Heap
<1>5. TypeErrorsNeedAClose'
  BY DEF IInv, TypeErrorsNeedAClose
<1> QED
  BY <1>2, <1>3, <1>4, <1>5 DEF IInv

\* tcpSocketConnect: an identifier is a successor, hence not null.
LEMMA ConnectStepsKeep ==
  ASSUME IInv, NEW t \in Threads, Choose(t) \/ Put(t) \/ Read(t) \/ Store(t)
  PROVE  IInv'
<1> USE DEF javaVars, objectVars, localVars, historyVars, Connecting
<1>1. /\ lastId \in Nat /\ id \in [Threads -> Nat] /\ readId \in [Threads -> Nat]
      /\ pc \in [Threads -> Closing \cup Connecting \cup Resting]
      /\ \A u \in Threads : pc[u] \in {"put", "read", "store", "connected"} => id[u] # Null
  BY DEF IInv, Typed
<1>2. UNCHANGED <<object, connecting, status, settings, spent, threw>>
  BY DEF Choose, Put, Read, Store
<1>3. CASE Choose(t)
  <2>1. id' = [id EXCEPT ![t] = lastId + 1] /\ pc[t] = "check" /\ Goto(t, "put")
        /\ lastId' = lastId /\ readId' = readId
    BY <1>3 DEF Choose
  <2>2. \A u \in Threads : pc'[u] \in {"put", "read", "store", "connected"} => id'[u] # Null
    BY <1>1, <2>1 DEF Goto, Null
  <2> QED
    BY <1>1, <1>2, <2>1, <2>2, StepKeeps
<1>4. CASE Put(t) \/ Read(t) \/ Store(t)
  <2>1. /\ id' = id /\ lastId' \in Nat /\ readId' \in [Threads -> Nat]
        /\ \/ pc[t] = "put" /\ Goto(t, "read")
           \/ pc[t] = "read" /\ Goto(t, "store")
           \/ pc[t] = "store" /\ Goto(t, "connected")
    BY <1>1, <1>4 DEF Put, Read, Store
  <2>2. \A u \in Threads : pc'[u] \in {"put", "read", "store", "connected"} => id'[u] # Null
    BY <1>1, <2>1 DEF Goto, Null
  <2> QED
    BY <1>1, <1>2, <2>1, <2>2, StepKeeps
<1> QED
  BY <1>3, <1>4

\* The end of connect gives an object settings that is not spent.
LEMMA ConnectedKeeps ==
  ASSUME IInv, NEW t \in Threads, Connected(t)
  PROVE  IInv'
<1> USE DEF Connected, Set, javaVars
<1>1. id[t] \in Nat /\ id[t] # Null /\ pc[t] = "connected"
  BY DEF IInv, Typed
<1>2. /\ settings' \in [Heap -> Nat]
      /\ status' \in [Heap -> {"DISCONNECTED", "CONNECTED"}]
  BY <1>1 DEF IInv, Typed
<1>3. \A h \in spent : h \notin This(t)
  BY ThisIsOwn DEF IInv, SpentAreSpent
<1>4. spent' = spent
  BY <1>3
<1>5. Typed'
  BY <1>2, <1>4, ReturnKeepsType DEF IInv, Typed
<1> USE DEF Return, Goto, Closing, Connecting, Resting
<1>6. CallsMatchObjects'
  <2>1. /\ pc' = [pc EXCEPT ![t] = "script"] /\ object' = [object EXCEPT ![t] = {}]
        /\ settings' = [h \in Heap |-> IF h \in This(t) THEN id[t] ELSE settings[h]]
        /\ status' = [h \in Heap |-> IF h \in This(t) THEN "CONNECTED" ELSE status[h]]
    BY DEF IInv, Typed
  <2>2. /\ pc \in [Threads -> Closing \cup Connecting \cup Resting]
        /\ object \in [Threads -> SUBSET Objects]
    BY DEF IInv, Typed
  <2>3. \A h \in Heap : status'[h] = "DISCONNECTED" => settings'[h] = Null
    BY <2>1 DEF IInv, CallsMatchObjects
  <2>4. ASSUME NEW u \in Threads, u # t, NEW h \in This(u)
        PROVE  /\ settings'[h] = settings[h] /\ status'[h] = status[h]
               /\ pc'[u] = pc[u]
    <3>1. h \in Heap /\ h \notin This(t)
      BY <2>4, ThisIsOwn DEF IInv
    <3> QED
      BY <2>1, <2>2, <2>4, <3>1
  <2>5. ASSUME NEW u \in Threads, u # t
        PROVE  pc'[u] = pc[u] /\ object'[u] = object[u] /\ This(u)' = This(u)
    BY <2>1, <2>2, <2>5 DEF This
  <2>6. pc'[t] = "script" /\ object'[t] = {}
    BY <2>1, <2>2
  <2>7. ASSUME NEW u \in Threads
        PROVE  /\ pc'[u] \in Closing => \A h \in This(u)' : status'[h] = "CONNECTED"
               /\ pc'[u] \in Connecting => \A h \in This(u)' : settings'[h] = Null
               /\ pc'[u] \in Resting => object'[u] = {}
    <3>1. CASE u = t
      BY <2>6, <3>1
    <3>2. CASE u # t
      BY <2>4, <2>5, <3>2 DEF IInv, CallsMatchObjects
    <3> QED
      BY <3>1, <3>2
  <2> QED
    BY <2>3, <2>7 DEF CallsMatchObjects
<1>7. SpentAreSpent'
  BY <1>1, <1>3, <1>4 DEF IInv, Typed, CallsMatchObjects, SpentAreSpent, Heap, This
<1>8. TypeErrorsNeedAClose'
  BY <1>4 DEF IInv, TypeErrorsNeedAClose
<1> QED
  BY <1>5, <1>6, <1>7, <1>8 DEF IInv

LEMMA IInvIsInductive == IInv /\ [Next]_vars => IInv'
<1> SUFFICES ASSUME IInv, [Next]_vars PROVE IInv'
  OBVIOUS
<1>1. CASE UNCHANGED vars
  BY <1>1 DEF vars, javaVars, objectVars, localVars, historyVars, IInv, Typed,
              CallsMatchObjects, SpentAreSpent, TypeErrorsNeedAClose, This
<1>2. CASE Next
  <2>1. PICK t \in Threads :
          \/ Begin(t) \/ End(t)
          \/ \E o \in Objects : Throw(t, o) \/ Call(t, o, TRUE) \/ Call(t, o, FALSE)
          \/ Get(t) \/ Remove(t) \/ OnError(t)
          \/ ConnectFails(t) \/ Choose(t) \/ Put(t) \/ Read(t) \/ Store(t) \/ Connected(t)
    BY <1>2 DEF Next
  <2> QED
    BY <2>1, BeginKeeps, EndKeeps, ThrowKeeps, CallKeeps, CloseStepsKeep,
       ConnectFailsKeeps, ConnectStepsKeep, ConnectedKeeps
<1> QED
  BY <1>1, <1>2

(***************************************************************************)
(* Only an object that its script has closed, or has failed to connect     *)
(* again, ever throws a TypeError, for any number of requests, objects and *)
(* connections, and whatever the requests do to each other.                *)
(***************************************************************************)
THEOREM TypeErrorsAlwaysNeedAClose == Spec => []TypeErrorsNeedAClose
<1>1. IInv => TypeErrorsNeedAClose
  BY DEF IInv
<1> QED
  BY <1>1, InitIInv, IInvIsInductive, PTL DEF Spec

------------------------------------------------------------------------------
(* The identifiers stay within the connections.                            *)

At(labels) == {t \in Threads : pc[t] \in labels}

Putting  == At({"put"})
Counting == At({"read", "store"})

(***************************************************************************)
(* A connection is counted when its socket is put into the map, and an     *)
(* identifier when lastSocketId++ is stored: in between it is in debt, to  *)
(* lastSocketId and to every value of it that was read and not stored yet. *)
(***************************************************************************)
Debts ==
  /\ connections \in Nat /\ connections + Cardinality(Putting) <= MaxConnections
  /\ lastId \in Nat /\ lastId + Cardinality(Counting) <= connections
  /\ \A t \in Threads : pc[t] = "store" => readId[t] + Cardinality(Counting) <= connections

Numbered ==
  /\ readId \in [Threads -> 0..MaxConnections]
  /\ id \in [Threads -> 0..MaxConnections]
  /\ settings \in [Heap -> 0..MaxConnections]
  /\ own \in [Heap -> 0..connections]
  /\ \A i \in DOMAIN sockets : i \in Ids /\ sockets[i] \in 1..connections
  /\ raced \in BOOLEAN

Bounded == Debts /\ Numbered

LEMMA CountAt ==
  ASSUME Typed, NEW labels
  PROVE  IsFiniteSet(At(labels)) /\ Cardinality(At(labels)) \in Nat
<1>1. At(labels) \subseteq Threads
  BY DEF At
<1>2. IsFiniteSet(At(labels))
  BY <1>1, FS_Subset, SocketsAssumption
<1> QED
  BY <1>2, FS_CardinalityType

\* A thread that moves leaves or joins those at the labels.
LEMMA CountMoves ==
  ASSUME Typed, NEW t \in Threads, NEW label, Goto(t, label), NEW labels
  PROVE  Cardinality(At(labels)') =
           IF label \in labels
           THEN IF pc[t] \in labels THEN Cardinality(At(labels)) ELSE Cardinality(At(labels)) + 1
           ELSE IF pc[t] \in labels THEN Cardinality(At(labels)) - 1 ELSE Cardinality(At(labels))
<1>1. IsFiniteSet(At(labels))
  BY CountAt
<1>2. pc \in [Threads -> Closing \cup Connecting \cup Resting]
      /\ pc' = [pc EXCEPT ![t] = label]
  BY DEF Typed, Goto
<1>3. t \in At(labels) <=> pc[t] \in labels
  BY DEF At
<1>4. CASE label \in labels
  <2>1. At(labels)' = At(labels) \cup {t}
    BY <1>2, <1>4 DEF At
  <2> QED
    BY <1>1, <1>3, <1>4, <2>1, FS_AddElement
<1>5. CASE label \notin labels
  <2>1. At(labels)' = At(labels) \ {t}
    BY <1>2, <1>5 DEF At
  <2> QED
    BY <1>1, <1>3, <1>5, <2>1, FS_RemoveElement
<1> QED
  BY <1>4, <1>5

\* A step outside put, read and store.
LEMMA DebtsStay ==
  ASSUME Typed, Debts, NEW t \in Threads, NEW label, Goto(t, label),
         label \notin {"put", "read", "store"}, pc[t] \notin {"read", "store"},
         UNCHANGED <<connections, lastId>>, \A u \in Threads : u # t => readId'[u] = readId[u]
  PROVE  Debts'
<1>1. Cardinality(Counting') = Cardinality(Counting)
  BY CountMoves DEF Counting
<1>2. Cardinality(Putting') <= Cardinality(Putting) /\ Cardinality(Putting) \in Nat
      /\ Cardinality(Putting') \in Int
  BY CountMoves, CountAt DEF Putting
<1>3. MaxConnections \in Nat /\ connections \in Nat
  BY SocketsAssumption DEF Debts
<1>4. connections' + Cardinality(Putting') <= MaxConnections
  BY <1>2, <1>3 DEF Debts
<1>5. pc' = [pc EXCEPT ![t] = label] /\ pc \in [Threads -> Closing \cup Connecting \cup Resting]
  BY DEF Goto, Typed
<1>6. ASSUME NEW u \in Threads, pc'[u] = "store"
      PROVE  readId'[u] + Cardinality(Counting') <= connections'
  <2>1. u # t /\ pc[u] = "store"
    BY <1>5, <1>6
  <2> QED
    BY <1>1, <2>1 DEF Debts
<1> QED
  BY <1>1, <1>4, <1>6 DEF Debts

LEMMA ChooseDebts ==
  ASSUME Typed, Debts, NEW t \in Threads, Choose(t)
  PROVE  Debts' /\ lastId + 1 \in 0..MaxConnections
<1>1. /\ Goto(t, "put") /\ pc[t] = "check" /\ UNCHANGED <<connections, lastId, readId>>
      /\ connections + Cardinality({u \in Threads : pc[u] = "put"}) < MaxConnections
  BY DEF Choose, javaVars
<1>2. {u \in Threads : pc[u] = "put"} = Putting
  BY DEF Putting, At
<1>3. /\ Cardinality(Putting') = Cardinality(Putting) + 1
      /\ Cardinality(Counting') = Cardinality(Counting)
  BY <1>1, CountMoves DEF Putting, Counting
<1>4. /\ Cardinality(Putting) \in Nat /\ Cardinality(Counting) \in Nat
      /\ MaxConnections \in Nat /\ connections \in Nat /\ lastId \in Nat
  BY CountAt, SocketsAssumption DEF Putting, Counting, Debts
<1>5. connections' + Cardinality(Putting') <= MaxConnections
  BY <1>1, <1>2, <1>3, <1>4
<1>6. lastId + Cardinality(Counting) <= connections
  BY DEF Debts
<1>7. lastId + 1 \in 0..MaxConnections
  BY <1>1, <1>2, <1>4, <1>6
<1>8. ASSUME NEW u \in Threads, pc'[u] = "store"
      PROVE  readId'[u] + Cardinality(Counting') <= connections'
  <2>1. pc[u] = "store"
    BY <1>1, <1>8 DEF Goto, Typed
  <2> QED
    BY <1>1, <1>3, <2>1 DEF Debts
<1> QED
  BY <1>1, <1>3, <1>5, <1>7, <1>8 DEF Debts

LEMMA PutDebts ==
  ASSUME Typed, Debts, NEW t \in Threads, Put(t)
  PROVE  Debts' /\ connections' = connections + 1
<1>1. /\ Goto(t, "read") /\ pc[t] = "put" /\ UNCHANGED <<lastId, readId>>
      /\ connections' = connections + 1
  BY DEF Put, localVars
<1>2. /\ Cardinality(Putting') = Cardinality(Putting) - 1
      /\ Cardinality(Counting') = Cardinality(Counting) + 1
  BY <1>1, CountMoves DEF Putting, Counting
<1>3. /\ Cardinality(Putting) \in Nat /\ Cardinality(Counting) \in Nat
      /\ MaxConnections \in Nat /\ connections \in Nat /\ lastId \in Nat
      /\ readId \in [Threads -> Nat]
  BY CountAt, SocketsAssumption DEF Putting, Counting, Debts, Typed
<1>4. connections' + Cardinality(Putting') <= MaxConnections /\ connections' \in Nat
  BY <1>1, <1>2, <1>3 DEF Debts
<1>5. lastId' + Cardinality(Counting') <= connections'
  BY <1>1, <1>2, <1>3 DEF Debts
<1>6. ASSUME NEW u \in Threads, pc'[u] = "store"
      PROVE  readId'[u] + Cardinality(Counting') <= connections'
  <2>1. pc[u] = "store"
    BY <1>1, <1>6 DEF Goto, Typed
  <2>2. readId[u] + Cardinality(Counting) <= connections /\ readId[u] \in Nat
    BY <1>3, <2>1 DEF Debts
  <2> QED
    BY <1>1, <1>2, <1>3, <2>2
<1> QED
  BY <1>1, <1>3, <1>4, <1>5, <1>6 DEF Debts

LEMMA CountDebts ==
  ASSUME Typed, Debts, NEW t \in Threads, Read(t) \/ Store(t)
  PROVE  Debts'
<1>1. /\ Cardinality(Putting) \in Nat /\ Cardinality(Counting) \in Nat
      /\ MaxConnections \in Nat /\ connections \in Nat /\ lastId \in Nat
      /\ readId \in [Threads -> Nat] /\ connections' = connections
      /\ pc \in [Threads -> Closing \cup Connecting \cup Resting]
  BY CountAt, SocketsAssumption DEF Putting, Counting, Debts, Typed, Read, Store, javaVars
<1>2. CASE Read(t)
  <2>1. /\ Goto(t, "store") /\ pc[t] = "read" /\ lastId' = lastId
        /\ readId' = [readId EXCEPT ![t] = lastId]
    BY <1>2 DEF Read, javaVars
  <2>2. /\ Cardinality(Putting') = Cardinality(Putting)
        /\ Cardinality(Counting') = Cardinality(Counting)
    BY <2>1, CountMoves DEF Putting, Counting
  <2>3. ASSUME NEW u \in Threads, pc'[u] = "store"
        PROVE  readId'[u] + Cardinality(Counting') <= connections'
    <3>1. readId'[u] = lastId \/ (pc[u] = "store" /\ readId'[u] = readId[u])
      BY <1>1, <2>1, <2>3 DEF Goto
    <3> QED
      BY <1>1, <2>2, <3>1 DEF Debts
  <2> QED
    BY <1>1, <2>1, <2>2, <2>3 DEF Debts
<1>3. CASE Store(t)
  <2>1. /\ Goto(t, "connected") /\ pc[t] = "store" /\ lastId' = readId[t] + 1
        /\ readId' = readId
    BY <1>3 DEF Store, localVars
  <2>2. /\ Cardinality(Putting') = Cardinality(Putting)
        /\ Cardinality(Counting') = Cardinality(Counting) - 1
    BY <2>1, CountMoves DEF Putting, Counting
  <2>3. ASSUME NEW u \in Threads, pc'[u] = "store"
        PROVE  readId'[u] + Cardinality(Counting') <= connections'
    <3>1. pc[u] = "store"
      BY <1>1, <2>1, <2>3 DEF Goto
    <3>2. readId[u] + Cardinality(Counting) <= connections /\ readId[u] \in Nat
      BY <1>1, <3>1 DEF Debts
    <3> QED
      BY <1>1, <2>1, <2>2, <3>2
  <2>4. readId[t] + Cardinality(Counting) <= connections /\ readId[t] \in Nat
    BY <1>1, <2>1 DEF Debts
  <2>5. lastId' \in Nat /\ lastId' + Cardinality(Counting') <= connections'
    BY <1>1, <2>1, <2>2, <2>4
  <2> QED
    BY <1>1, <2>2, <2>3, <2>5 DEF Debts
<1> QED
  BY <1>2, <1>3

\* The identifiers are of connections that were made.
LEMMA DebtsBound ==
  ASSUME Typed, Debts
  PROVE  /\ MaxConnections \in Nat /\ connections \in 0..MaxConnections
         /\ lastId \in 0..MaxConnections
<1>1. /\ MaxConnections \in Nat /\ Cardinality(Putting) \in Nat
      /\ Cardinality(Counting) \in Nat
  BY CountAt, SocketsAssumption DEF Putting, Counting
<1> QED
  BY <1>1 DEF Debts

\* What a call that is over leaves behind.
LEMMA ReturnNumbers ==
  ASSUME Bounded, Typed, NEW t \in Threads, Return(t)
  PROVE  /\ readId' \in [Threads -> 0..MaxConnections]
         /\ id' \in [Threads -> 0..MaxConnections]
         /\ \A u \in Threads : u # t => readId'[u] = readId[u]
<1>1. 0 \in 0..MaxConnections
  BY SocketsAssumption
<1>2. id' = [id EXCEPT ![t] = 0] /\ readId' = [readId EXCEPT ![t] = 0]
  BY DEF Return
<1>3. /\ id \in [Threads -> 0..MaxConnections]
      /\ readId \in [Threads -> 0..MaxConnections]
  BY DEF Bounded, Numbered
<1> QED
  BY <1>1, <1>2, <1>3

\* jni_tcp_socket_close has returned 1.
LEMMA ClosedIsBounded ==
  ASSUME Bounded, Typed, NEW t \in Threads, pc[t] \in Closing, Closed(t),
         UNCHANGED <<connections, lastId, own, raced>>,
         \A i \in DOMAIN sockets' : i \in DOMAIN sockets /\ sockets'[i] = sockets[i]
  PROVE  Bounded'
<1>1. settings' \in [Heap -> 0..MaxConnections]
  <2>1. Null \in 0..MaxConnections
    BY SocketsAssumption DEF Null
  <2>2. settings' = Set(settings, This(t), Null) /\ settings \in [Heap -> 0..MaxConnections]
    BY DEF Closed, Bounded, Numbered
  <2> QED
    BY <2>1, <2>2 DEF Set
<1>2. /\ readId' \in [Threads -> 0..MaxConnections]
      /\ id' \in [Threads -> 0..MaxConnections]
      /\ \A u \in Threads : u # t => readId'[u] = readId[u]
      /\ Goto(t, "check") \/ Goto(t, "script")
  <2>1. CASE connecting[t]
    <3>1. Goto(t, "check") /\ UNCHANGED <<id, readId>>
      BY <2>1 DEF Closed
    <3> QED
      BY <3>1 DEF Bounded, Numbered
  <2>2. CASE ~connecting[t]
    <3>1. Return(t) /\ Goto(t, "script")
      BY <2>2 DEF Closed, Return
    <3> QED
      BY <3>1, ReturnNumbers
  <2> QED
    BY <2>1, <2>2
<1>3. Debts /\ pc[t] \notin {"read", "store"}
  BY DEF Bounded, Closing
<1>4. Debts'
  BY <1>2, <1>3, DebtsStay
<1>5. Numbered'
  BY <1>1, <1>2 DEF Bounded, Numbered
<1> QED
  BY <1>4, <1>5 DEF Bounded

LEMMA CloseIsBounded ==
  ASSUME Bounded, Typed, NEW t \in Threads, Get(t) \/ Remove(t) \/ OnError(t)
  PROVE  Bounded'
<1>1. /\ UNCHANGED <<connections, lastId, own, raced>> /\ pc[t] \in Closing
      /\ \A i \in DOMAIN sockets' : i \in DOMAIN sockets /\ sockets'[i] = sockets[i]
  BY DEF Get, Remove, OnError, Closing, javaVars, objectVars, historyVars, Restrict
<1>2. ASSUME NEW label \in {"script", "get", "remove", "onerror"}, Goto(t, label),
             UNCHANGED <<settings, id, readId>> \/ (Return(t) /\ UNCHANGED settings)
      PROVE  Bounded'
  <2>1. /\ readId' \in [Threads -> 0..MaxConnections]
        /\ id' \in [Threads -> 0..MaxConnections]
        /\ \A u \in Threads : u # t => readId'[u] = readId[u]
    BY <1>2, ReturnNumbers DEF Bounded, Numbered
  <2>2. Debts /\ pc[t] \notin {"read", "store"} /\ label \notin {"put", "read", "store"}
    BY <1>1, <1>2 DEF Bounded, Closing
  <2>3. Debts'
    BY <1>1, <1>2, <2>1, <2>2, DebtsStay
  <2>4. Numbered'
    BY <1>1, <1>2, <2>1 DEF Bounded, Numbered
  <2> QED
    BY <2>3, <2>4 DEF Bounded
<1>3. CASE Get(t)
  <2>1. /\ Goto(t, "remove") \/ Goto(t, "onerror")
        /\ UNCHANGED <<settings, id, readId>>
    BY <1>3 DEF Get, localVars, objectVars
  <2> QED
    BY <1>2, <2>1
<1>4. CASE Remove(t)
  <2>1. Closed(t) \/ (Goto(t, "onerror") /\ UNCHANGED <<settings, id, readId>>)
    BY <1>4 DEF Remove, localVars
  <2> QED
    BY <1>1, <1>2, <2>1, ClosedIsBounded
<1>5. CASE OnError(t)
  <2>1. \/ Goto(t, "get") /\ UNCHANGED <<settings, id, readId>>
        \/ Return(t) /\ Goto(t, "script") /\ UNCHANGED settings
        \/ Closed(t)
    BY <1>5 DEF OnError, localVars, Return
  <2> QED
    BY <1>1, <1>2, <2>1, ClosedIsBounded
<1> QED
  BY <1>3, <1>4, <1>5

\* A request begins or ends, a call begins, or one throws.
LEMMA ScriptIsBounded ==
  ASSUME Bounded, Typed, NEW t \in Threads,
         \/ Begin(t) \/ End(t)
         \/ \E o \in Objects : Throw(t, o) \/ \E connect \in BOOLEAN : Call(t, o, connect)
  PROVE  Bounded'
<1>1. /\ UNCHANGED <<sockets, connections, lastId, readId, raced>>
      /\ pc[t] \in {"idle", "script"}
  BY DEF Begin, End, Throw, Call, javaVars, localVars, historyVars
<1>2. \E label \in {"idle", "script", "get", "check"} : Goto(t, label)
  BY DEF Begin, End, Throw, Call, Typed, Goto
<1>3. Debts'
  <2>1. Debts /\ pc[t] \notin {"read", "store"} /\ UNCHANGED <<connections, lastId>>
        /\ \A u \in Threads : u # t => readId'[u] = readId[u]
    BY <1>1 DEF Bounded
  <2> QED
    BY <1>2, <2>1, DebtsStay
<1>4. /\ settings \in [Heap -> 0..MaxConnections] /\ own \in [Heap -> 0..connections]
      /\ id \in [Threads -> 0..MaxConnections]
  BY DEF Bounded, Numbered
<1>5. 0 \in 0..MaxConnections /\ 0 \in 0..connections
  BY SocketsAssumption DEF Bounded, Debts
<1>6. /\ settings' \in [Heap -> 0..MaxConnections] /\ own' \in [Heap -> 0..connections]
      /\ id' \in [Threads -> 0..MaxConnections]
  <2>1. CASE Begin(t) \/ \E o \in Objects : Throw(t, o)
    BY <1>4, <2>1 DEF Begin, Throw, objectVars, localVars
  <2>2. CASE End(t)
    BY <1>4, <1>5, <2>2 DEF End, Set, localVars, Null
  <2>3. ASSUME NEW o \in Objects, NEW connect \in BOOLEAN, Call(t, o, connect)
        PROVE  UNCHANGED <<settings, own>> /\ id' \in [Threads -> 0..MaxConnections]
    <3>1. settings[<<t, o>>] \in 0..MaxConnections
      BY <1>4 DEF Heap
    <3>2. /\ id' = id \/ id' = [id EXCEPT ![t] = settings[<<t, o>>]]
          /\ UNCHANGED <<settings, own>>
      BY <2>3 DEF Call, objectVars
    <3>3. [id EXCEPT ![t] = settings[<<t, o>>]] \in [Threads -> 0..MaxConnections]
      BY <1>4, <3>1
    <3> QED
      BY <1>4, <3>2, <3>3
  <2> QED
    BY <1>4, <2>1, <2>2, <2>3
<1>7. Numbered'
  BY <1>1, <1>6 DEF Bounded, Numbered
<1> QED
  BY <1>3, <1>7 DEF Bounded

LEMMA ConnectIsBounded ==
  ASSUME Bounded, Typed, NEW t \in Threads,
         ConnectFails(t) \/ Choose(t) \/ Put(t) \/ Read(t) \/ Store(t) \/ Connected(t)
  PROVE  Bounded'
<1>1. /\ Debts /\ MaxConnections \in Nat /\ connections \in 0..MaxConnections
      /\ lastId \in 0..MaxConnections
  BY DebtsBound DEF Bounded
<1>2. /\ readId \in [Threads -> 0..MaxConnections] /\ id \in [Threads -> 0..MaxConnections]
      /\ settings \in [Heap -> 0..MaxConnections] /\ own \in [Heap -> 0..connections]
      /\ \A i \in DOMAIN sockets : i \in Ids /\ sockets[i] \in 1..connections
      /\ raced \in BOOLEAN
  BY DEF Bounded, Numbered
<1>3. CASE ConnectFails(t) \/ Connected(t)
  <2>1. /\ Return(t) /\ Goto(t, "script") /\ pc[t] \notin {"read", "store"}
        /\ UNCHANGED <<sockets, connections, lastId, own, raced>>
    BY <1>3 DEF ConnectFails, Connected, Return, javaVars, objectVars
  <2>2. /\ readId' \in [Threads -> 0..MaxConnections]
        /\ id' \in [Threads -> 0..MaxConnections]
        /\ \A u \in Threads : u # t => readId'[u] = readId[u]
    BY <2>1, ReturnNumbers
  <2>3. Debts'
    BY <1>1, <2>1, <2>2, DebtsStay
  <2>4. settings' \in [Heap -> 0..MaxConnections]
    BY <1>2, <1>3 DEF ConnectFails, Connected, objectVars, Set
  <2>5. Numbered'
    BY <1>2, <2>1, <2>2, <2>4 DEF Numbered
  <2> QED
    BY <2>3, <2>5 DEF Bounded
<1>4. CASE Choose(t)
  <2>1. Debts' /\ lastId + 1 \in 0..MaxConnections
    BY <1>1, <1>4, ChooseDebts
  <2>2. /\ UNCHANGED <<sockets, connections, settings, own, readId>>
        /\ id' = [id EXCEPT ![t] = lastId + 1] /\ raced' \in BOOLEAN
    BY <1>4 DEF Choose, javaVars, objectVars
  <2>3. Numbered'
    BY <1>2, <2>1, <2>2 DEF Numbered
  <2> QED
    BY <2>1, <2>3 DEF Bounded
<1>5. CASE Put(t)
  <2>1. Debts' /\ connections' = connections + 1
    BY <1>1, <1>5, PutDebts
  <2>2. /\ UNCHANGED <<settings, id, readId, raced>>
        /\ sockets' = [i \in DOMAIN sockets \cup {id[t]} |->
                         IF i = id[t] THEN connections' ELSE sockets[i]]
        /\ own' = Set(own, This(t), connections')
    BY <1>5 DEF Put, localVars, historyVars
  <2>3. connections' \in 1..connections' /\ connections' \in 0..connections'
        /\ \A n : n \in 0..connections => n \in 0..connections'
        /\ \A m : m \in 1..connections => m \in 1..connections'
    BY <1>1, <2>1
  <2>4. own' \in [Heap -> 0..connections']
    BY <1>2, <2>2, <2>3 DEF Set
  <2>5. id[t] \in Ids
    BY <1>2, <1>5 DEF Put, Typed, Ids, Null
  <2>6. \A i \in DOMAIN sockets' : i \in Ids /\ sockets'[i] \in 1..connections'
    BY <1>2, <2>2, <2>3, <2>5
  <2>7. Numbered'
    BY <1>2, <2>2, <2>4, <2>6 DEF Numbered, Ids
  <2> QED
    BY <2>1, <2>7 DEF Bounded
<1>6. CASE Read(t) \/ Store(t)
  <2>1. Debts'
    BY <1>1, <1>6, CountDebts
  <2>2. /\ UNCHANGED <<sockets, connections, settings, own, id, raced>>
        /\ readId' \in [Threads -> 0..MaxConnections]
    BY <1>1, <1>2, <1>6 DEF Read, Store, javaVars, objectVars, localVars, historyVars
  <2>3. Numbered'
    BY <1>2, <2>2 DEF Numbered
  <2> QED
    BY <2>1, <2>3 DEF Bounded
<1> QED
  BY <1>3, <1>4, <1>5, <1>6

LEMMA InitBounded == Init => Bounded
<1> SUFFICES ASSUME Init PROVE Bounded
  OBVIOUS
<1>1. At({"put"}) = {} /\ At({"read", "store"}) = {}
  BY DEF Init, At
<1>2. Cardinality(Putting) = 0 /\ Cardinality(Counting) = 0
  BY <1>1, FS_EmptySet DEF Putting, Counting
<1>3. Debts
  BY <1>2, SocketsAssumption DEF Init, Debts
<1>4. Numbered
  <2>1. /\ readId = [t \in Threads |-> 0] /\ id = [t \in Threads |-> 0]
        /\ settings = [h \in Heap |-> 0] /\ own = [h \in Heap |-> 0]
        /\ DOMAIN sockets = {} /\ connections = 0 /\ raced = FALSE
    BY DEF Init, Null
  <2>2. 0 \in 0..MaxConnections /\ 0 \in 0..0
    BY SocketsAssumption
  <2> HIDE DEF Init
  <2> QED
    BY <2>1, <2>2 DEF Numbered
<1> QED
  BY <1>3, <1>4 DEF Bounded

LEMMA BoundedIsInductive == IInv /\ Bounded /\ [Next]_vars => Bounded'
<1> SUFFICES ASSUME IInv, Bounded, [Next]_vars PROVE Bounded'
  OBVIOUS
<1>1. Typed
  BY DEF IInv
<1>2. CASE UNCHANGED vars
  BY <1>2 DEF vars, javaVars, objectVars, localVars, historyVars, Bounded, Debts, Numbered,
              Putting, Counting, At
<1>3. CASE Next
  <2>1. PICK t \in Threads :
          \/ Begin(t) \/ End(t)
          \/ \E o \in Objects : Throw(t, o) \/ Call(t, o, TRUE) \/ Call(t, o, FALSE)
          \/ Get(t) \/ Remove(t) \/ OnError(t)
          \/ ConnectFails(t) \/ Choose(t) \/ Put(t) \/ Read(t) \/ Store(t) \/ Connected(t)
    BY <1>3 DEF Next
  <2> QED
    BY <1>1, <2>1, ScriptIsBounded, CloseIsBounded, ConnectIsBounded
<1> QED
  BY <1>2, <1>3

(***************************************************************************)
(* Every variable keeps its type.  What is not obvious is the numbers: for *)
(* any race of requests over lastSocketId, the identifiers stay within the *)
(* connections that were made, since what a thread writes back is a value  *)
(* that was in the field when fewer had been made.                         *)
(***************************************************************************)
THEOREM ScriptSocketsTypeInvariant == Spec => []TypeOK
<1>1. IInv /\ Bounded => TypeOK
  <2> SUFFICES ASSUME IInv, Bounded PROVE TypeOK
    OBVIOUS
  <2>1. /\ MaxConnections \in Nat /\ connections \in 0..MaxConnections
        /\ lastId \in 0..MaxConnections
    BY DebtsBound DEF IInv, Bounded
  <2>2. DOMAIN sockets \subseteq Ids /\ Range(sockets) \subseteq Ids
    BY <2>1 DEF Bounded, Numbered, Range, Ids
  <2>3. \A n : n \in 0..MaxConnections => n \in Ids \cup {Null}
    BY <2>1 DEF Ids, Null
  <2>4. settings \in [Heap -> Ids \cup {Null}] /\ own \in [Heap -> Ids \cup {Null}]
    BY <2>1, <2>3 DEF Bounded, Numbered
  <2>5. /\ status \in [Heap -> {"DISCONNECTED", "CONNECTED"}]
        /\ pc \in [Threads -> Closing \cup Connecting \cup Resting]
        /\ object \in [Threads -> SUBSET Objects] /\ connecting \in [Threads -> BOOLEAN]
        /\ spent \in SUBSET Heap /\ threw \in SUBSET Heap
    BY DEF IInv, Typed
  <2>6. /\ id \in [Threads -> 0..MaxConnections] /\ readId \in [Threads -> 0..MaxConnections]
        /\ raced \in BOOLEAN
    BY DEF Bounded, Numbered
  <2> QED
    BY <2>1, <2>2, <2>4, <2>5, <2>6 DEF TypeOK, Closing, Connecting, Resting
<1> QED
  BY <1>1, InitIInv, InitBounded, IInvIsInductive, BoundedIsInductive, PTL DEF Spec

------------------------------------------------------------------------------
(* The peers, as long as no two requests choose identifiers at a time.     *)

Naming == {"read", "store", "connected"}

(***************************************************************************)
(* The identifier an object has a claim to: the one in its settings, or    *)
(* the one under which its connect has put a socket into the map and that  *)
(* it is about to store in the settings.                                   *)
(***************************************************************************)
Held(h) ==
  IF settings[h] # Null THEN settings[h]
  ELSE IF h \in This(h[1]) /\ pc[h[1]] \in Naming THEN id[h[1]] ELSE Null

CallsHaveOne ==
  \A t \in Threads : pc[t] \in Closing \cup Connecting => \E o \in Objects : object[t] = {o}

(***************************************************************************)
(* The identifiers in the map were counted, but for that of the one thread *)
(* that has put a socket and not stored the counter yet.                   *)
(***************************************************************************)
OneChooses ==
  /\ \A t, u \in Choosing : t = u
  /\ \A t \in Choosing : id[t] = lastId + 1 /\ (pc[t] = "store" => readId[t] = lastId)
  /\ \A i \in DOMAIN sockets : i <= lastId \/ \E t \in Counting : i = id[t]

(***************************************************************************)
(* What an object holds it holds alone, and the map has its connection     *)
(* there; the connection of an object that holds nothing is not in the map *)
(* at all.  The connections in the map are distinct.                       *)
(***************************************************************************)
Peers ==
  /\ \A h \in Heap : Held(h) # Null => Held(h) \in DOMAIN sockets /\ sockets[Held(h)] = own[h]
  /\ \A h \in Heap : Held(h) = Null => own[h] \notin Range(sockets)
  /\ \A h, g \in Heap : Held(h) = Held(g) /\ Held(h) # Null => h = g
  /\ \A i, j \in DOMAIN sockets : sockets[i] = sockets[j] => i = j

\* A close finds the socket of the object that it is called for.
ClosesItsOwn ==
  \A t \in Threads : pc[t] \in Closing =>
    pc[t] # "onerror" /\ \A h \in This(t) : settings[h] = id[t]

PeerInv == CallsHaveOne /\ (~raced => OneChooses /\ Peers /\ ClosesItsOwn)

LEMMA HeldIs ==
  ASSUME NEW h
  PROVE  /\ pc[h[1]] \notin Naming => Held(h) = settings[h]
         /\ h \notin This(h[1]) => Held(h) = settings[h]
         /\ h \in This(h[1]) /\ pc[h[1]] \in Naming /\ settings[h] = Null =>
              Held(h) = id[h[1]]
BY DEF Held

LEMMA HeldElsewhere ==
  ASSUME NEW h, settings'[h] = settings[h], object'[h[1]] = object[h[1]],
         pc'[h[1]] = pc[h[1]], id'[h[1]] = id[h[1]]
  PROVE  Held(h)' = Held(h)
<1>1. h \in This(h[1])' <=> h \in This(h[1])
  BY DEF This
<1> QED
  BY <1>1 DEF Held

LEMMA PeersStay ==
  ASSUME Peers, \A h \in Heap : Held(h)' = Held(h), UNCHANGED <<sockets, own>>
  PROVE  Peers'
<1>1. \A h \in Heap : Held(h)' # Null =>
        Held(h)' \in DOMAIN sockets' /\ sockets'[Held(h)'] = own'[h]
  BY DEF Peers
<1>2. \A h \in Heap : Held(h)' = Null => own'[h] \notin Range(sockets')
  BY DEF Peers
<1>3. \A h, g \in Heap : Held(h)' = Held(g)' /\ Held(h)' # Null => h = g
  BY DEF Peers
<1>4. \A i, j \in DOMAIN sockets' : sockets'[i] = sockets'[j] => i = j
  BY DEF Peers
<1> QED
  BY <1>1, <1>2, <1>3, <1>4 DEF Peers

\* The functions of the model, and where they may differ after a step of t.
LEMMA OnlyOwnHeld ==
  ASSUME Typed, NEW t \in Threads, NEW h \in Heap, h[1] # t,
         \A u \in Threads : u # t => object'[u] = object[u] /\ pc'[u] = pc[u] /\ id'[u] = id[u],
         settings'[h] = settings[h]
  PROVE  Held(h)' = Held(h)
<1>1. h[1] \in Threads
  BY DEF Heap
<1> QED
  BY <1>1, HeldElsewhere

\* A step of one thread that chooses nothing leaves the choice to the others.
LEMMA ChoiceStays ==
  ASSUME OneChooses, Typed, NEW t \in Threads, NEW label, Goto(t, label),
         label \notin {"put", "read", "store"}, pc[t] \notin {"read", "store"},
         lastId' = lastId, DOMAIN sockets' \subseteq DOMAIN sockets,
         \A u \in Threads : u # t => id'[u] = id[u] /\ readId'[u] = readId[u]
  PROVE  OneChooses'
<1>1. pc' = [pc EXCEPT ![t] = label] /\ pc \in [Threads -> Closing \cup Connecting \cup Resting]
  BY DEF Goto, Typed
<1>2. Choosing' \subseteq Choosing /\ t \notin Choosing' /\ Choosing \subseteq Threads
  BY <1>1 DEF Choosing
<1>3. Counting' = Counting /\ t \notin Counting /\ Counting \subseteq Threads
  BY <1>1 DEF Counting, At
<1>4. \A u \in Choosing' : id'[u] = id[u] /\ readId'[u] = readId[u] /\ pc'[u] = pc[u]
  BY <1>1, <1>2
<1>5. \A u \in Counting : id'[u] = id[u]
  BY <1>3
<1>6. \A u, w \in Choosing' : u = w
  BY <1>2 DEF OneChooses
<1>7. \A u \in Choosing' : id'[u] = lastId' + 1 /\ (pc'[u] = "store" => readId'[u] = lastId')
  BY <1>2, <1>4 DEF OneChooses
<1>8. \A i \in DOMAIN sockets' : i <= lastId' \/ \E u \in Counting' : i = id'[u]
  BY <1>3, <1>5 DEF OneChooses
<1> QED
  BY <1>6, <1>7, <1>8 DEF OneChooses

\* A step that leaves t at rest: the others close as before.
LEMMA ClosesStay ==
  ASSUME ClosesItsOwn, Typed, NEW t \in Threads, NEW label, Goto(t, label), label \notin Closing,
         \A u \in Threads : u # t => object'[u] = object[u] /\ id'[u] = id[u],
         \A h \in Heap : h \notin This(t) /\ h[1] # t => settings'[h] = settings[h]
  PROVE  ClosesItsOwn'
<1>1. pc' = [pc EXCEPT ![t] = label] /\ pc \in [Threads -> Closing \cup Connecting \cup Resting]
  BY DEF Goto, Typed
<1> SUFFICES ASSUME NEW u \in Threads, pc'[u] \in Closing
             PROVE  pc'[u] # "onerror" /\ \A h \in This(u)' : settings'[h] = id'[u]
  BY DEF ClosesItsOwn
<1>2. u # t /\ pc'[u] = pc[u]
  BY <1>1
<1>3. This(u)' = This(u) /\ id'[u] = id[u]
  BY <1>2 DEF This
<1>4. ASSUME NEW h \in This(u) PROVE settings'[h] = settings[h]
  <2>1. h \in Heap /\ h[1] = u
    BY ThisIsOwn
  <2>2. h \notin This(t)
    BY <1>2, <2>1, ThisIsOwn
  <2> QED
    BY <1>2, <2>1, <2>2
<1> QED
  BY <1>2, <1>3, <1>4 DEF ClosesItsOwn

LEMMA OneStays ==
  ASSUME CallsHaveOne, Typed, NEW t \in Threads, NEW label, Goto(t, label),
         \/ object' = object /\ (label \in Resting \/ pc[t] \notin Resting)
         \/ label \in Resting /\ \A u \in Threads : u # t => object'[u] = object[u]
  PROVE  CallsHaveOne'
<1>1. pc' = [pc EXCEPT ![t] = label] /\ pc \in [Threads -> Closing \cup Connecting \cup Resting]
  BY DEF Goto, Typed
<1>2. Resting \cap (Closing \cup Connecting) = {}
  BY DEF Resting, Closing, Connecting
<1> SUFFICES ASSUME NEW u \in Threads, pc'[u] \in Closing \cup Connecting
             PROVE  \E o \in Objects : object'[u] = {o}
  BY DEF CallsHaveOne
<1>3. CASE u # t
  BY <1>1, <1>3 DEF CallsHaveOne
<1>4. CASE u = t
  BY <1>1, <1>2, <1>4 DEF CallsHaveOne
<1> QED
  BY <1>3, <1>4

\* A request begins, or a call throws.
LEMMA BeginKeepsPeers ==
  ASSUME PeerInv, IInv, NEW t \in Threads, Begin(t) \/ \E o \in Objects : Throw(t, o)
  PROVE  PeerInv'
<1>1. /\ pc[t] \in Resting /\ Goto(t, "script")
      /\ UNCHANGED <<lastId, sockets, own, settings, object, id, readId, raced>>
  BY DEF Begin, Throw, Goto, Resting, IInv, Typed, javaVars, objectVars, localVars, historyVars
<1>2. Typed /\ pc' = [pc EXCEPT ![t] = "script"]
      /\ pc \in [Threads -> Closing \cup Connecting \cup Resting]
  BY <1>1 DEF IInv, Typed, Goto
<1>3. CallsHaveOne'
  BY <1>1, <1>2, OneStays DEF PeerInv, Resting
<1> SUFFICES ASSUME ~raced' PROVE OneChooses' /\ Peers' /\ ClosesItsOwn'
  BY <1>3 DEF PeerInv
<1>4. OneChooses /\ Peers /\ ClosesItsOwn
  BY <1>1 DEF PeerInv
<1>5. OneChooses'
  BY <1>1, <1>2, <1>4, ChoiceStays DEF Resting
<1>6. ASSUME NEW h \in Heap PROVE Held(h)' = Held(h)
  <2>1. CASE h[1] = t
    <3>1. pc[h[1]] \notin Naming /\ pc'[h[1]] \notin Naming
      BY <1>1, <1>2, <2>1 DEF Naming, Resting
    <3>2. Held(h) = settings[h] /\ Held(h)' = settings'[h]
      BY <3>1 DEF Held
    <3> QED
      BY <1>1, <3>2
  <2>2. CASE h[1] # t
    BY <1>1, <1>2, <2>2, OnlyOwnHeld
  <2> QED
    BY <2>1, <2>2
<1>7. Peers'
  BY <1>1, <1>4, <1>6, PeersStay
<1>8. ClosesItsOwn'
  BY <1>1, <1>2, <1>4, ClosesStay DEF Closing
<1> QED
  BY <1>5, <1>7, <1>8

\* The objects of the heap that is destroyed hold nothing, and have had nothing.
LEMMA EndKeepsPeers ==
  ASSUME PeerInv, IInv, Bounded, NEW t \in Threads, End(t)
  PROVE  PeerInv'
<1> DEFINE heap == {t} \X Objects
<1>1. /\ pc[t] = "script" /\ Goto(t, "idle")
      /\ settings' = Set(settings, heap, Null) /\ own' = Set(own, heap, Null)
      /\ UNCHANGED <<lastId, sockets, object, id, readId, raced>>
  BY DEF End, javaVars, localVars
<1>2. /\ Typed /\ pc' = [pc EXCEPT ![t] = "idle"]
      /\ pc \in [Threads -> Closing \cup Connecting \cup Resting]
      /\ settings \in [Heap -> Nat] /\ own \in [Heap -> 0..connections]
      /\ \A i \in DOMAIN sockets : sockets[i] \in 1..connections /\ connections \in Nat
  BY <1>1 DEF IInv, Typed, Goto, Bounded, Numbered, Debts
<1>3. \A h \in Heap : h \in heap <=> h[1] = t
  BY DEF Heap
<1> HIDE DEF heap
<1>4. \A h \in Heap : /\ settings'[h] = IF h[1] = t THEN Null ELSE settings[h]
                      /\ own'[h] = IF h[1] = t THEN Null ELSE own[h]
  BY <1>1, <1>2, <1>3 DEF Set
<1>5. CallsHaveOne'
  BY <1>1, <1>2, OneStays DEF PeerInv, Resting
<1> SUFFICES ASSUME ~raced' PROVE OneChooses' /\ Peers' /\ ClosesItsOwn'
  BY <1>5 DEF PeerInv
<1>6. OneChooses /\ Peers /\ ClosesItsOwn
  BY <1>1 DEF PeerInv
<1>7. OneChooses'
  BY <1>1, <1>2, <1>6, ChoiceStays
<1>8. ASSUME NEW h \in Heap
      PROVE  Held(h)' = IF h[1] = t THEN Null ELSE Held(h)
  <2>1. CASE h[1] = t
    <3>1. pc'[h[1]] \notin Naming
      BY <1>2, <2>1 DEF Naming
    <3>2. Held(h)' = settings'[h]
      BY <3>1 DEF Held
    <3> QED
      BY <1>4, <2>1, <3>2
  <2>2. CASE h[1] # t
    <3>1. settings'[h] = settings[h]
      BY <1>4, <2>2
    <3> QED
      BY <1>1, <1>2, <2>2, <3>1, OnlyOwnHeld
  <2> QED
    BY <2>1, <2>2
<1>9. Peers'
  <2>1. \A h \in Heap : Held(h)' # Null =>
          Held(h)' \in DOMAIN sockets' /\ sockets'[Held(h)'] = own'[h]
    BY <1>1, <1>4, <1>6, <1>8 DEF Peers
  <2>2. Null \notin Range(sockets)
    BY <1>2 DEF Range, Null
  <2>3. \A h \in Heap : Held(h)' = Null => own'[h] \notin Range(sockets')
    BY <1>1, <1>4, <1>6, <1>8, <2>2 DEF Peers
  <2>4. \A h, g \in Heap : Held(h)' = Held(g)' /\ Held(h)' # Null => h = g
    BY <1>6, <1>8 DEF Peers
  <2>5. \A i, j \in DOMAIN sockets' : sockets'[i] = sockets'[j] => i = j
    BY <1>1, <1>6 DEF Peers
  <2> QED
    BY <2>1, <2>3, <2>4, <2>5 DEF Peers
<1>10. ClosesItsOwn'
  <2>1. \A h \in Heap : h \notin This(t) /\ h[1] # t => settings'[h] = settings[h]
    BY <1>4
  <2> QED
    BY <1>1, <1>2, <1>6, <2>1, ClosesStay DEF Closing
<1> QED
  BY <1>7, <1>9, <1>10

\* A close reads the identifier in the object's settings.
LEMMA CallKeepsPeers ==
  ASSUME PeerInv, IInv, NEW t \in Threads, NEW o \in Objects, NEW connect \in BOOLEAN,
         Call(t, o, connect)
  PROVE  PeerInv'
<1>1. /\ pc[t] = "script" /\ object' = [object EXCEPT ![t] = {o}]
      /\ UNCHANGED <<lastId, sockets, own, settings, readId, raced>>
      /\ \/ Goto(t, "get") /\ id' = [id EXCEPT ![t] = settings[<<t, o>>]]
         \/ Goto(t, "check") /\ id' = id
  BY DEF Call, javaVars, objectVars, historyVars
<1>2. PICK label \in {"get", "check"} : Goto(t, label)
  BY <1>1
<1>3. /\ Typed /\ pc' = [pc EXCEPT ![t] = label] /\ object \in [Threads -> SUBSET Objects]
      /\ pc \in [Threads -> Closing \cup Connecting \cup Resting] /\ id \in [Threads -> Nat]
  BY <1>2 DEF IInv, Typed, Goto
<1>4. \A u \in Threads : u # t => object'[u] = object[u] /\ pc'[u] = pc[u] /\ id'[u] = id[u]
  BY <1>1, <1>3
<1>5. object'[t] = {o} /\ pc'[t] = label
  BY <1>1, <1>3
<1>6. CallsHaveOne'
  <2> SUFFICES ASSUME NEW u \in Threads, pc'[u] \in Closing \cup Connecting
               PROVE  \E p \in Objects : object'[u] = {p}
    BY DEF CallsHaveOne
  <2>1. CASE u = t
    BY <1>5, <2>1
  <2>2. CASE u # t
    BY <1>4, <2>2 DEF PeerInv, CallsHaveOne
  <2> QED
    BY <2>1, <2>2
<1> SUFFICES ASSUME ~raced' PROVE OneChooses' /\ Peers' /\ ClosesItsOwn'
  BY <1>6 DEF PeerInv
<1>7. OneChooses /\ Peers /\ ClosesItsOwn
  BY <1>1 DEF PeerInv
<1>8. OneChooses'
  <2>1. DOMAIN sockets' \subseteq DOMAIN sockets
        /\ \A u \in Threads : u # t => id'[u] = id[u] /\ readId'[u] = readId[u]
    BY <1>1, <1>4
  <2> QED
    BY <1>1, <1>2, <1>3, <1>7, <2>1, ChoiceStays
<1>9. ASSUME NEW h \in Heap PROVE Held(h)' = Held(h)
  <2>1. CASE h[1] = t
    <3>1. pc[h[1]] \notin Naming /\ pc'[h[1]] \notin Naming
      BY <1>1, <1>5, <2>1 DEF Naming
    <3>2. Held(h) = settings[h] /\ Held(h)' = settings'[h]
      BY <3>1 DEF Held
    <3> QED
      BY <1>1, <3>2
  <2>2. CASE h[1] # t
    BY <1>1, <1>3, <1>4, <2>2, OnlyOwnHeld
  <2> QED
    BY <2>1, <2>2
<1>10. Peers'
  BY <1>1, <1>7, <1>9, PeersStay
<1>11. ClosesItsOwn'
  <2> SUFFICES ASSUME NEW u \in Threads, pc'[u] \in Closing
               PROVE  pc'[u] # "onerror" /\ \A h \in This(u)' : settings'[h] = id'[u]
    BY DEF ClosesItsOwn
  <2>1. CASE u = t
    <3>1. pc'[t] = "get" /\ This(t)' = {<<t, o>>}
      BY <1>5, <2>1 DEF This, Closing
    <3>2. id' = [id EXCEPT ![t] = settings[<<t, o>>]]
      BY <1>1, <1>3, <3>1 DEF Goto
    <3> QED
      BY <1>1, <1>3, <2>1, <3>1, <3>2
  <2>2. CASE u # t
    <3>1. This(u)' = This(u) /\ id'[u] = id[u] /\ pc'[u] = pc[u]
      BY <1>4, <2>2 DEF This
    <3> QED
      BY <1>1, <1>7, <3>1 DEF ClosesItsOwn
  <2> QED
    BY <2>1, <2>2
<1> QED
  BY <1>8, <1>10, <1>11

\* The function of a connected object closes what the object holds.
LEMMA ClosingHolds ==
  ASSUME IInv, CallsHaveOne, Peers, ClosesItsOwn, NEW t \in Threads, pc[t] \in Closing
  PROVE  \E h \in Heap :
           /\ This(t) = {h} /\ h[1] = t /\ Held(h) = id[t] /\ id[t] # Null
           /\ id[t] \in DOMAIN sockets /\ sockets[id[t]] = own[h]
<1>1. PICK o \in Objects : object[t] = {o}
  BY DEF CallsHaveOne
<1> DEFINE h == <<t, o>>
<1>2. This(t) = {h} /\ h \in Heap /\ h[1] = t
  BY <1>1 DEF This, Heap
<1> HIDE DEF h
<1>3. status[h] = "CONNECTED" /\ settings[h] = id[t]
  BY <1>2 DEF IInv, CallsMatchObjects, ClosesItsOwn
<1>4. settings[h] # Null
  <2>1. pc[h[1]] \notin Connecting /\ h \notin spent
    BY <1>2 DEF Closing, Connecting, IInv, SpentAreSpent
  <2> QED
    BY <1>2, <1>3, <2>1 DEF IInv, SpentAreSpent
<1>5. Held(h) = id[t]
  BY <1>3, <1>4 DEF Held
<1> QED
  BY <1>2, <1>3, <1>4, <1>5 DEF Peers

\* jni_tcp_socket_close has returned 1, and where control goes then.
LEMMA ClosedMoves ==
  ASSUME IInv, NEW t \in Threads, pc[t] \in Closing, Closed(t)
  PROVE  /\ settings' = Set(settings, This(t), Null)
         /\ Goto(t, "check") \/ Goto(t, "script")
         /\ \A u \in Threads :
              u # t => object'[u] = object[u] /\ id'[u] = id[u] /\ readId'[u] = readId[u]
         /\ Goto(t, "check") => object' = object
<1>1. settings' = Set(settings, This(t), Null)
  BY DEF Closed
<1>2. /\ object \in [Threads -> SUBSET Objects] /\ id \in [Threads -> Nat]
      /\ readId \in [Threads -> Nat]
      /\ pc \in [Threads -> Closing \cup Connecting \cup Resting]
  BY DEF IInv, Typed
<1>3. CASE connecting[t]
  BY <1>1, <1>3 DEF Closed
<1>4. CASE ~connecting[t]
  <2>1. /\ Goto(t, "script") /\ object' = [object EXCEPT ![t] = {}]
        /\ id' = [id EXCEPT ![t] = 0] /\ readId' = [readId EXCEPT ![t] = 0]
    BY <1>4 DEF Closed, Return
  <2>2. ~Goto(t, "check")
    BY <1>2, <2>1 DEF Goto
  <2> QED
    BY <1>1, <1>2, <2>1, <2>2
<1> QED
  BY <1>3, <1>4

\* The socket that is removed from the map is that of the object, and no other.
LEMMA RemoveKeepsPeers ==
  ASSUME PeerInv, IInv, NEW t \in Threads, Remove(t)
  PROVE  PeerInv'
<1>1. /\ pc[t] \in Closing /\ pc[t] = "remove"
      /\ sockets' = Restrict(sockets, DOMAIN sockets \ {id[t]})
      /\ UNCHANGED <<lastId, own, raced>>
      /\ IF id[t] \in DOMAIN sockets THEN Closed(t)
         ELSE Goto(t, "onerror") /\ UNCHANGED <<settings, object, id, readId>>
  BY DEF Remove, Closing, localVars
<1>2. /\ Typed /\ pc \in [Threads -> Closing \cup Connecting \cup Resting]
      /\ settings \in [Heap -> Nat]
  BY DEF IInv, Typed
<1>3. CASE id[t] \notin DOMAIN sockets
  <2>1. Goto(t, "onerror") /\ object' = object /\ pc[t] \notin Resting
    BY <1>1, <1>3 DEF Resting
  <2>2. CallsHaveOne'
    BY <1>2, <2>1, OneStays DEF PeerInv
  <2>3. raced'
    BY <1>1, <1>3, ClosingHolds DEF PeerInv
  <2> QED
    BY <2>2, <2>3 DEF PeerInv
<1>4. CASE id[t] \in DOMAIN sockets
  <2>1. /\ settings' = Set(settings, This(t), Null)
        /\ Goto(t, "check") \/ Goto(t, "script")
        /\ \A u \in Threads :
             u # t => object'[u] = object[u] /\ id'[u] = id[u] /\ readId'[u] = readId[u]
        /\ Goto(t, "check") => object' = object
    BY <1>1, <1>4, ClosedMoves
  <2>2. PICK label \in {"check", "script"} : Goto(t, label)
    BY <2>1
  <2>3. CallsHaveOne'
    <3>1. pc[t] \notin Resting /\ "script" \in Resting
      BY <1>1 DEF Resting
    <3> QED
      BY <1>2, <2>1, <2>2, <3>1, OneStays DEF PeerInv
  <2> SUFFICES ASSUME ~raced' PROVE OneChooses' /\ Peers' /\ ClosesItsOwn'
    BY <2>3 DEF PeerInv
  <2>4. OneChooses /\ Peers /\ ClosesItsOwn /\ CallsHaveOne
    BY <1>1 DEF PeerInv
  <2>5. PICK g \in Heap :
          /\ This(t) = {g} /\ g[1] = t /\ Held(g) = id[t] /\ id[t] # Null
          /\ id[t] \in DOMAIN sockets /\ sockets[id[t]] = own[g]
    BY <1>1, <2>4, ClosingHolds
  <2>6. /\ DOMAIN sockets' = DOMAIN sockets \ {id[t]}
        /\ \A i \in DOMAIN sockets' : sockets'[i] = sockets[i]
    BY <1>1 DEF Restrict
  <2>7. \A h \in Heap : settings'[h] = IF h = g THEN Null ELSE settings[h]
    BY <1>2, <2>1, <2>5 DEF Set
  <2>8. pc' = [pc EXCEPT ![t] = label]
    BY <2>2 DEF Goto
  <2>9. OneChooses'
    <3>1. label \notin {"put", "read", "store"} /\ pc[t] \notin {"read", "store"}
          /\ DOMAIN sockets' \subseteq DOMAIN sockets
      BY <1>1, <2>6
    <3> QED
      BY <1>1, <1>2, <2>1, <2>2, <2>4, <3>1, ChoiceStays
  <2>10. ASSUME NEW h \in Heap
         PROVE  Held(h)' = IF h = g THEN Null ELSE Held(h)
    <3>1. CASE h[1] = t
      <4>1. pc[h[1]] \notin Naming /\ pc'[h[1]] \notin Naming
        BY <1>1, <1>2, <2>8, <3>1 DEF Naming
      <4>2. Held(h) = settings[h] /\ Held(h)' = settings'[h]
        BY <4>1 DEF Held
      <4> QED
        BY <2>7, <4>2
    <3>2. CASE h[1] # t
      <4>1. h # g /\ settings'[h] = settings[h]
        BY <2>5, <2>7, <3>2
      <4>2. \A u \in Threads : u # t => pc'[u] = pc[u]
        BY <1>2, <2>8
      <4>3. Held(h)' = Held(h)
        BY <1>2, <2>1, <3>2, <4>1, <4>2, OnlyOwnHeld
      <4> QED
        BY <4>1, <4>3
    <3> QED
      BY <3>1, <3>2
  <2>11. Peers'
    <3>1. \A h \in Heap : h # g /\ Held(h) # Null => Held(h) # id[t]
      BY <2>4, <2>5 DEF Peers
    <3>2. \A h \in Heap : Held(h)' # Null =>
            Held(h)' \in DOMAIN sockets' /\ sockets'[Held(h)'] = own'[h]
      BY <1>1, <2>4, <2>6, <2>10, <3>1 DEF Peers
    <3>3. Range(sockets') \subseteq Range(sockets)
      BY <2>6 DEF Range
    <3>4. own[g] \notin Range(sockets')
      BY <2>4, <2>5, <2>6 DEF Range, Peers
    <3>5. \A h \in Heap : Held(h)' = Null => own'[h] \notin Range(sockets')
      BY <1>1, <2>4, <2>10, <3>3, <3>4 DEF Peers
    <3>6. \A h, k \in Heap : Held(h)' = Held(k)' /\ Held(h)' # Null => h = k
      BY <2>4, <2>10 DEF Peers
    <3>7. \A i, j \in DOMAIN sockets' : sockets'[i] = sockets'[j] => i = j
      BY <2>4, <2>6 DEF Peers
    <3> QED
      BY <3>2, <3>5, <3>6, <3>7 DEF Peers
  <2>12. ClosesItsOwn'
    <3>1. \A h \in Heap : h \notin This(t) /\ h[1] # t => settings'[h] = settings[h]
      BY <2>5, <2>7
    <3>2. label \notin Closing
      BY DEF Closing
    <3> QED
      BY <1>2, <2>1, <2>2, <2>4, <3>1, <3>2, ClosesStay
  <2> QED
    BY <2>9, <2>11, <2>12
<1> QED
  BY <1>3, <1>4

\* The socket is found; the default onerror of an object is not called, then.
LEMMA GetKeepsPeers ==
  ASSUME PeerInv, IInv, NEW t \in Threads, Get(t) \/ OnError(t)
  PROVE  PeerInv'
<1>1. Typed /\ pc \in [Threads -> Closing \cup Connecting \cup Resting]
  BY DEF IInv, Typed
<1>2. CASE Get(t)
  <2>1. /\ pc[t] \in Closing /\ pc[t] = "get"
        /\ Goto(t, IF id[t] \in DOMAIN sockets THEN "remove" ELSE "onerror")
        /\ UNCHANGED <<lastId, sockets, own, settings, object, id, readId, raced>>
    BY <1>2 DEF Get, Closing, javaVars, objectVars, localVars, historyVars
  <2>2. PICK label \in {"remove", "onerror"} :
          Goto(t, label) /\ (id[t] \in DOMAIN sockets => label = "remove")
    BY <2>1
  <2>3. CallsHaveOne'
    <3>1. pc[t] \notin Resting
      BY <2>1 DEF Resting
    <3> QED
      BY <1>1, <2>1, <2>2, <3>1, OneStays DEF PeerInv
  <2> SUFFICES ASSUME ~raced' PROVE OneChooses' /\ Peers' /\ ClosesItsOwn'
    BY <2>3 DEF PeerInv
  <2>4. OneChooses /\ Peers /\ ClosesItsOwn /\ CallsHaveOne
    BY <2>1 DEF PeerInv
  <2>5. id[t] \in DOMAIN sockets
    BY <2>1, <2>4, ClosingHolds
  <2>6. pc' = [pc EXCEPT ![t] = "remove"]
    BY <2>2, <2>5 DEF Goto
  <2>7. OneChooses'
    BY <1>1, <2>1, <2>2, <2>4, ChoiceStays
  <2>8. ASSUME NEW h \in Heap PROVE Held(h)' = Held(h)
    <3>1. CASE h[1] = t
      <4>1. pc[h[1]] \notin Naming /\ pc'[h[1]] \notin Naming
        BY <1>1, <2>1, <2>6, <3>1 DEF Naming
      <4>2. Held(h) = settings[h] /\ Held(h)' = settings'[h]
        BY <4>1 DEF Held
      <4> QED
        BY <2>1, <4>2
    <3>2. CASE h[1] # t
      BY <1>1, <2>1, <2>6, <3>2, OnlyOwnHeld
    <3> QED
      BY <3>1, <3>2
  <2>9. Peers'
    BY <2>1, <2>4, <2>8, PeersStay
  <2>10. ClosesItsOwn'
    <3> SUFFICES ASSUME NEW u \in Threads, pc'[u] \in Closing
                 PROVE  pc'[u] # "onerror" /\ \A h \in This(u)' : settings'[h] = id'[u]
      BY DEF ClosesItsOwn
    <3>1. This(u)' = This(u) /\ id' = id /\ settings' = settings
      BY <2>1 DEF This
    <3>2. pc[u] \in Closing /\ pc'[u] # "onerror"
      BY <1>1, <2>1, <2>4, <2>6 DEF ClosesItsOwn
    <3> QED
      BY <2>4, <3>1, <3>2 DEF ClosesItsOwn
  <2> QED
    BY <2>7, <2>9, <2>10
<1>3. CASE OnError(t)
  <2>1. /\ pc[t] = "onerror" /\ pc[t] \in Closing /\ pc[t] \notin Resting
        /\ raced' = raced
    BY <1>3 DEF OnError, Closing, Resting
  <2>2. raced
    BY <2>1 DEF PeerInv, ClosesItsOwn
  <2>3. CallsHaveOne'
    <3>1. CASE Goto(t, "get") /\ UNCHANGED localVars
      BY <1>1, <2>1, <3>1, OneStays DEF PeerInv, localVars
    <3>2. CASE Return(t)
      <4>1. Goto(t, "script") /\ \A u \in Threads : u # t => object'[u] = object[u]
        BY <3>2 DEF Return, IInv, Typed
      <4> QED
        BY <1>1, <4>1, OneStays DEF PeerInv, Resting
    <3>3. CASE Closed(t)
      <4>1. /\ Goto(t, "check") \/ Goto(t, "script")
            /\ \A u \in Threads : u # t => object'[u] = object[u]
            /\ Goto(t, "check") => object' = object
        BY <2>1, <3>3, ClosedMoves
      <4>2. "script" \in Resting
        BY DEF Resting
      <4>3. CASE Goto(t, "check")
        BY <1>1, <2>1, <4>1, <4>3, OneStays DEF PeerInv
      <4>4. CASE Goto(t, "script")
        BY <1>1, <4>1, <4>2, <4>4, OneStays DEF PeerInv
      <4> QED
        BY <4>1, <4>3, <4>4
    <3> QED
      BY <1>3, <3>1, <3>2, <3>3 DEF OnError
  <2> QED
    BY <2>1, <2>2, <2>3 DEF PeerInv
<1> QED
  BY <1>2, <1>3

\* What an object holds goes from the local variable to the settings, if its
\* connect gets that far.
LEMMA ConnectReturnsKeepPeers ==
  ASSUME PeerInv, IInv, NEW t \in Threads, ConnectFails(t) \/ Connected(t)
  PROVE  PeerInv'
<1>1. /\ pc[t] \in {"check", "put", "connected"} /\ Goto(t, "script")
      /\ object' = [object EXCEPT ![t] = {}] /\ id' = [id EXCEPT ![t] = 0]
      /\ readId' = [readId EXCEPT ![t] = 0]
      /\ UNCHANGED <<lastId, sockets, own, raced>>
      /\ \/ pc[t] # "connected" /\ settings' = settings
         \/ pc[t] = "connected" /\ settings' = Set(settings, This(t), id[t])
  BY DEF ConnectFails, Connected, Return, javaVars, objectVars
<1>2. /\ Typed /\ pc' = [pc EXCEPT ![t] = "script"]
      /\ pc \in [Threads -> Closing \cup Connecting \cup Resting]
      /\ object \in [Threads -> SUBSET Objects] /\ id \in [Threads -> Nat]
      /\ readId \in [Threads -> Nat] /\ settings \in [Heap -> Nat]
  BY <1>1 DEF IInv, Typed, Goto
<1>3. \A u \in Threads : u # t => /\ object'[u] = object[u] /\ pc'[u] = pc[u]
                                  /\ id'[u] = id[u] /\ readId'[u] = readId[u]
  BY <1>1, <1>2
<1>4. CallsHaveOne'
  <2>1. "script" \in Resting
    BY DEF Resting
  <2> QED
    BY <1>1, <1>2, <1>3, <2>1, OneStays DEF PeerInv
<1>5. ASSUME NEW h \in Heap
      PROVE  settings'[h] = IF h \in This(t) /\ pc[t] = "connected" THEN id[t] ELSE settings[h]
  BY <1>1, <1>2 DEF Set
<1>6. ASSUME NEW h \in Heap, h[1] # t PROVE settings'[h] = settings[h]
  <2>1. h \notin This(t)
    BY <1>2, <1>6, ThisIsOwn
  <2> QED
    BY <1>5, <2>1
<1> SUFFICES ASSUME ~raced' PROVE OneChooses' /\ Peers' /\ ClosesItsOwn'
  BY <1>4 DEF PeerInv
<1>7. OneChooses /\ Peers /\ ClosesItsOwn
  BY <1>1 DEF PeerInv
<1>8. OneChooses'
  <2>1. DOMAIN sockets' \subseteq DOMAIN sockets /\ pc[t] \notin {"read", "store"}
    BY <1>1
  <2> QED
    BY <1>1, <1>2, <1>3, <1>7, <2>1, ChoiceStays
<1>9. ASSUME NEW h \in Heap PROVE Held(h)' = Held(h)
  <2>1. CASE h[1] = t
    <3>1. pc'[h[1]] \notin Naming
      BY <1>2, <2>1 DEF Naming
    <3>2. Held(h)' = settings'[h]
      BY <3>1 DEF Held
    <3>3. CASE h \in This(t) /\ pc[t] = "connected"
      <4>1. settings[h] = Null /\ pc[t] \in Naming
        BY <3>3 DEF IInv, CallsMatchObjects, Connecting, Naming
      <4>2. Held(h) = id[t]
        BY <2>1, <3>3, <4>1 DEF Held
      <4> QED
        BY <1>5, <3>2, <3>3, <4>2
    <3>4. CASE ~(h \in This(t) /\ pc[t] = "connected")
      <4>1. pc[t] \notin Naming \/ h \notin This(h[1])
        BY <1>1, <2>1, <3>4 DEF Naming
      <4>2. Held(h) = settings[h]
        BY <2>1, <4>1, HeldIs
      <4> QED
        BY <1>5, <3>2, <3>4, <4>2
    <3> QED
      BY <3>3, <3>4
  <2>2. CASE h[1] # t
    BY <1>2, <1>3, <1>6, <2>2, OnlyOwnHeld
  <2> QED
    BY <2>1, <2>2
<1>10. Peers'
  BY <1>1, <1>7, <1>9, PeersStay
<1>11. ClosesItsOwn'
  <2>1. \A h \in Heap : h \notin This(t) /\ h[1] # t => settings'[h] = settings[h]
    BY <1>6
  <2>2. "script" \notin Closing
    BY DEF Closing
  <2> QED
    BY <1>1, <1>2, <1>3, <1>7, <2>1, <2>2, ClosesStay
<1> QED
  BY <1>8, <1>10, <1>11

\* A step of tcpSocketConnect that leaves the map and the objects alone.
LEMMA ConnectMoves ==
  ASSUME CallsHaveOne, Peers, ClosesItsOwn, IInv, NEW t \in Threads, NEW label,
         Goto(t, label), label \in Connecting, pc[t] \in Connecting,
         pc[t] \in Naming <=> label \in Naming, pc[t] \in Naming => id'[t] = id[t],
         \A u \in Threads : u # t => id'[u] = id[u],
         UNCHANGED <<sockets, own, settings, object>>
  PROVE  Peers' /\ ClosesItsOwn'
<1>1. /\ Typed /\ pc' = [pc EXCEPT ![t] = label]
      /\ pc \in [Threads -> Closing \cup Connecting \cup Resting]
  BY DEF IInv, Typed, Goto
<1>2. ASSUME NEW h \in Heap PROVE Held(h)' = Held(h)
  <2>1. CASE h[1] = t
    <3>1. h \in This(h[1])' <=> h \in This(h[1])
      BY DEF This
    <3>2. pc'[t] = label /\ settings'[h] = settings[h]
      BY <1>1
    <3> QED
      BY <2>1, <3>1, <3>2 DEF Held
  <2>2. CASE h[1] # t
    BY <1>1, <2>2, OnlyOwnHeld
  <2> QED
    BY <2>1, <2>2
<1>3. Peers'
  BY <1>2, PeersStay
<1>4. label \notin Closing
  BY DEF Closing, Connecting
<1>5. ClosesItsOwn'
  BY <1>1, <1>4, ClosesStay
<1> QED
  BY <1>3, <1>5

\* The identifier is chosen one above the last, while no other thread chooses.
LEMMA ChooseKeepsPeers ==
  ASSUME PeerInv, IInv, NEW t \in Threads, Choose(t)
  PROVE  PeerInv'
<1>1. /\ pc[t] = "check" /\ Goto(t, "put") /\ id' = [id EXCEPT ![t] = lastId + 1]
      /\ raced' = (raced \/ Choosing # {})
      /\ UNCHANGED <<lastId, sockets, own, settings, object, readId>>
  BY DEF Choose, javaVars, objectVars
<1>2. /\ Typed /\ pc' = [pc EXCEPT ![t] = "put"] /\ id \in [Threads -> Nat]
      /\ pc \in [Threads -> Closing \cup Connecting \cup Resting]
  BY <1>1 DEF IInv, Typed, Goto
<1>3. CallsHaveOne'
  BY <1>1, <1>2, OneStays DEF PeerInv, Resting
<1> SUFFICES ASSUME ~raced' PROVE OneChooses' /\ Peers' /\ ClosesItsOwn'
  BY <1>3 DEF PeerInv
<1>4. OneChooses /\ Peers /\ ClosesItsOwn /\ CallsHaveOne /\ Choosing = {}
  BY <1>1 DEF PeerInv
<1>5. OneChooses'
  <2>1. Choosing' = {t}
    BY <1>2, <1>4 DEF Choosing
  <2>2. Counting = {} /\ Counting' = {}
    BY <1>2, <1>4 DEF Choosing, Counting, At
  <2>3. id'[t] = lastId' + 1 /\ pc'[t] # "store"
    BY <1>1, <1>2
  <2>4. \A i \in DOMAIN sockets' : i <= lastId'
    BY <1>1, <1>4, <2>2 DEF OneChooses
  <2> QED
    BY <2>1, <2>3, <2>4 DEF OneChooses
<1>6. Peers' /\ ClosesItsOwn'
  <2>1. /\ "put" \in Connecting /\ pc[t] \in Connecting
        /\ "put" \notin Naming /\ pc[t] \notin Naming
    BY <1>1 DEF Connecting, Naming
  <2>2. \A u \in Threads : u # t => id'[u] = id[u]
    BY <1>1, <1>2
  <2> QED
    BY <1>1, <1>4, <2>1, <2>2, ConnectMoves
<1> QED
  BY <1>5, <1>6

\* The counter ends up at the identifier that was chosen.
LEMMA CountKeepsPeers ==
  ASSUME PeerInv, IInv, Bounded, NEW t \in Threads, Read(t) \/ Store(t)
  PROVE  PeerInv'
<1>1. /\ UNCHANGED <<sockets, own, settings, object, id, raced>>
      /\ \/ /\ pc[t] = "read" /\ Goto(t, "store") /\ lastId' = lastId
            /\ readId' = [readId EXCEPT ![t] = lastId]
         \/ /\ pc[t] = "store" /\ Goto(t, "connected") /\ lastId' = readId[t] + 1
            /\ readId' = readId
  BY DEF Read, Store, javaVars, objectVars, localVars, historyVars
<1>2. PICK label \in {"store", "connected"} :
        Goto(t, label) /\ (label = "store" <=> pc[t] = "read")
  BY <1>1
<1>3. /\ Typed /\ pc' = [pc EXCEPT ![t] = label] /\ readId \in [Threads -> Nat]
      /\ pc \in [Threads -> Closing \cup Connecting \cup Resting]
      /\ id \in [Threads -> Nat] /\ lastId \in Nat
      /\ pc[t] \in {"read", "store"}
  BY <1>1, <1>2 DEF IInv, Typed, Goto
<1>4. CallsHaveOne'
  <2>1. pc[t] \notin Resting
    BY <1>3 DEF Resting
  <2> QED
    BY <1>1, <1>2, <1>3, <2>1, OneStays DEF PeerInv
<1> SUFFICES ASSUME ~raced' PROVE OneChooses' /\ Peers' /\ ClosesItsOwn'
  BY <1>4 DEF PeerInv
<1>5. OneChooses /\ Peers /\ ClosesItsOwn /\ CallsHaveOne
  BY <1>1 DEF PeerInv
<1>6. Choosing = {t} /\ Counting = {t} /\ id[t] = lastId + 1
  BY <1>3, <1>5 DEF OneChooses, Choosing, Counting, At
<1>7. OneChooses'
  <2>1. CASE pc[t] = "read"
    <3>1. lastId' = lastId /\ readId' = [readId EXCEPT ![t] = lastId] /\ label = "store"
      BY <1>1, <1>2, <2>1
    <3>2. Choosing' = {t} /\ Counting' = {t} /\ readId'[t] = lastId'
      BY <1>3, <1>6, <3>1 DEF Choosing, Counting, At
    <3> QED
      BY <1>1, <1>5, <1>6, <3>1, <3>2 DEF OneChooses
  <2>2. CASE pc[t] = "store"
    <3>1. lastId' = readId[t] + 1 /\ readId[t] = lastId /\ label = "connected"
      BY <1>1, <1>2, <1>3, <1>5, <1>6, <2>2 DEF OneChooses
    <3>2. Choosing' = {}
      BY <1>3, <1>6, <3>1 DEF Choosing
    <3>3. ASSUME NEW i \in DOMAIN sockets' PROVE i <= lastId'
      <4>1. i <= lastId \/ i = lastId + 1
        BY <1>1, <1>5, <1>6, <3>3 DEF OneChooses
      <4>2. i \in Nat
        BY <1>1, <3>3 DEF Bounded, Numbered, Ids
      <4> QED
        BY <1>3, <3>1, <4>1, <4>2
    <3> QED
      BY <3>2, <3>3 DEF OneChooses
  <2> QED
    BY <1>3, <2>1, <2>2
<1>8. Peers' /\ ClosesItsOwn'
  <2>1. label \in Connecting /\ pc[t] \in Connecting /\ label \in Naming /\ pc[t] \in Naming
    BY <1>3 DEF Connecting, Naming
  <2> QED
    BY <1>1, <1>2, <1>5, <2>1, ConnectMoves
<1> QED
  BY <1>7, <1>8

\* The socket goes under an identifier that the map does not have.
LEMMA PutKeepsPeers ==
  ASSUME PeerInv, IInv, Bounded, NEW t \in Threads, Put(t)
  PROVE  PeerInv'
<1>1. /\ pc[t] = "put" /\ Goto(t, "read") /\ connections' = connections + 1
      /\ sockets' = [i \in DOMAIN sockets \cup {id[t]} |->
                       IF i = id[t] THEN connections' ELSE sockets[i]]
      /\ own' = Set(own, This(t), connections')
      /\ UNCHANGED <<lastId, settings, object, id, readId, raced>>
  BY DEF Put, localVars, historyVars
<1>2. /\ Typed /\ pc' = [pc EXCEPT ![t] = "read"]
      /\ pc \in [Threads -> Closing \cup Connecting \cup Resting]
      /\ id \in [Threads -> Nat] /\ lastId \in Nat /\ id[t] # Null
      /\ own \in [Heap -> 0..connections] /\ connections \in Nat
      /\ \A i \in DOMAIN sockets : i \in Nat /\ sockets[i] \in 1..connections
  BY <1>1 DEF IInv, Typed, Goto, Bounded, Numbered, Debts, Ids
<1>3. CallsHaveOne'
  BY <1>1, <1>2, OneStays DEF PeerInv, Resting
<1> SUFFICES ASSUME ~raced' PROVE OneChooses' /\ Peers' /\ ClosesItsOwn'
  BY <1>3 DEF PeerInv
<1>4. OneChooses /\ Peers /\ ClosesItsOwn /\ CallsHaveOne
  BY <1>1 DEF PeerInv
<1>5. Choosing = {t} /\ Counting = {} /\ id[t] = lastId + 1
  BY <1>1, <1>4 DEF OneChooses, Choosing, Counting, At
<1>6. id[t] \notin DOMAIN sockets
  BY <1>2, <1>4, <1>5 DEF OneChooses
<1>7. /\ DOMAIN sockets' = DOMAIN sockets \cup {id[t]} /\ sockets'[id[t]] = connections + 1
      /\ \A i \in DOMAIN sockets : sockets'[i] = sockets[i]
  BY <1>1, <1>6
<1>8. OneChooses'
  <2>1. Choosing' = {t} /\ Counting' = {t} /\ pc'[t] = "read"
    BY <1>2, <1>5 DEF Choosing, Counting, At
  <2>2. \A i \in DOMAIN sockets' : i <= lastId' \/ i = id'[t]
    BY <1>1, <1>4, <1>5, <1>7 DEF OneChooses
  <2> QED
    BY <1>1, <1>5, <2>1, <2>2 DEF OneChooses
<1>9. PICK g \in Heap : This(t) = {g} /\ g[1] = t
  <2>1. PICK o \in Objects : object[t] = {o}
    BY <1>1, <1>4 DEF CallsHaveOne, Connecting
  <2>2. This(t) = {<<t, o>>} /\ <<t, o>> \in Heap
    BY <2>1 DEF This, Heap
  <2> QED
    BY <2>2
<1>10. \A h \in Heap : own'[h] = IF h = g THEN connections + 1 ELSE own[h]
  BY <1>1, <1>2, <1>9 DEF Set
<1>11. ASSUME NEW h \in Heap
       PROVE  Held(h)' = IF h = g THEN id[t] ELSE Held(h)
  <2>1. CASE h[1] = t
    <3>1. This(t)' = {g} /\ pc'[t] \in Naming /\ pc[t] \notin Naming
      BY <1>1, <1>2, <1>9 DEF This, Naming
    <3>2. CASE h = g
      <4>1. settings[h] = Null
        BY <1>1, <1>9, <3>2 DEF IInv, CallsMatchObjects, Connecting
      <4>2. h \in This(h[1])' /\ pc'[h[1]] \in Naming /\ settings'[h] = Null
        BY <1>1, <2>1, <3>1, <3>2, <4>1
      <4>3. Held(h)' = id'[h[1]]
        BY <4>2 DEF Held
      <4> QED
        BY <1>1, <2>1, <3>2, <4>3
    <3>3. CASE h # g
      <4>1. h \notin This(h[1])'
        BY <2>1, <3>1, <3>3
      <4>2. Held(h)' = settings'[h]
        BY <4>1 DEF Held
      <4>3. Held(h) = settings[h]
        BY <2>1, <3>1, HeldIs
      <4> QED
        BY <1>1, <3>3, <4>2, <4>3
    <3> QED
      BY <3>2, <3>3
  <2>2. CASE h[1] # t
    <3>1. h # g
      BY <1>9, <2>2
    <3>2. Held(h)' = Held(h)
      BY <1>1, <1>2, <2>2, OnlyOwnHeld
    <3> QED
      BY <3>1, <3>2
  <2> QED
    BY <2>1, <2>2
<1>12. Peers'
  <2>1. \A h \in Heap : h # g /\ Held(h) # Null => Held(h) \in DOMAIN sockets
    BY <1>4 DEF Peers
  <2>2. ASSUME NEW h \in Heap, Held(h)' # Null
        PROVE  Held(h)' \in DOMAIN sockets' /\ sockets'[Held(h)'] = own'[h]
    <3>1. CASE h = g
      BY <1>7, <1>10, <1>11, <3>1
    <3>2. CASE h # g
      <4>1. Held(h) \in DOMAIN sockets /\ sockets[Held(h)] = own[h] /\ Held(h)' = Held(h)
        BY <1>4, <1>11, <2>2, <3>2 DEF Peers
      <4> QED
        BY <1>7, <1>10, <3>2, <4>1
    <3> QED
      BY <3>1, <3>2
  <2>3. ASSUME NEW h \in Heap, Held(h)' = Null
        PROVE  own'[h] \notin Range(sockets')
    <3>1. h # g /\ Held(h) = Null
      BY <1>2, <1>11, <2>3
    <3>2. own'[h] = own[h] /\ own[h] \notin Range(sockets) /\ own[h] \in 0..connections
      BY <1>2, <1>4, <1>10, <3>1 DEF Peers
    <3>3. ASSUME NEW i \in DOMAIN sockets' PROVE sockets'[i] # own[h]
      <4>1. CASE i = id[t]
        BY <1>2, <1>7, <3>2, <4>1
      <4>2. CASE i # id[t]
        <5>1. i \in DOMAIN sockets
          BY <1>7, <3>3, <4>2
        <5>2. sockets[i] \in Range(sockets) /\ sockets'[i] = sockets[i]
          BY <1>7, <5>1 DEF Range
        <5> QED
          BY <3>2, <5>2
      <4> QED
        BY <4>1, <4>2
    <3> QED
      BY <3>2, <3>3 DEF Range
  <2>4. \A h, k \in Heap : Held(h)' = Held(k)' /\ Held(h)' # Null => h = k
    BY <1>4, <1>6, <1>11, <2>1 DEF Peers
  <2>5. ASSUME NEW i \in DOMAIN sockets', NEW j \in DOMAIN sockets', sockets'[i] = sockets'[j]
        PROVE  i = j
    <3>1. \A k \in DOMAIN sockets : sockets'[k] # connections + 1
      BY <1>2, <1>7
    <3>2. CASE i = id[t] \/ j = id[t]
      BY <1>7, <2>5, <3>1, <3>2
    <3>3. CASE i # id[t] /\ j # id[t]
      BY <1>4, <1>7, <2>5, <3>3 DEF Peers
    <3> QED
      BY <3>2, <3>3
  <2> QED
    BY <2>2, <2>3, <2>4, <2>5 DEF Peers
<1>13. ClosesItsOwn'
  BY <1>1, <1>2, <1>4, ClosesStay DEF Closing
<1> QED
  BY <1>8, <1>12, <1>13

LEMMA InitPeerInv == Init => PeerInv
<1> SUFFICES ASSUME Init PROVE PeerInv
  OBVIOUS
<1>1. /\ pc = [t \in Threads |-> "idle"] /\ settings = [h \in Heap |-> Null]
      /\ own = [h \in Heap |-> Null] /\ DOMAIN sockets = {}
  BY DEF Init
<1>2. CallsHaveOne /\ ClosesItsOwn
  BY <1>1 DEF CallsHaveOne, ClosesItsOwn, Closing, Connecting
<1>3. OneChooses
  BY <1>1 DEF OneChooses, Choosing
<1>4. \A h \in Heap : Held(h) = Null
  <2>1. \A h \in Heap : h[1] \in Threads
    BY DEF Heap
  <2> QED
    BY <1>1, <2>1 DEF Held, Naming
<1>5. Range(sockets) = {}
  BY <1>1 DEF Range
<1>6. Peers
  BY <1>1, <1>4, <1>5 DEF Peers
<1> QED
  BY <1>2, <1>3, <1>6 DEF PeerInv

LEMMA PeerInvIsInductive == IInv /\ Bounded /\ PeerInv /\ [Next]_vars => PeerInv'
<1> SUFFICES ASSUME IInv, Bounded, PeerInv, [Next]_vars PROVE PeerInv'
  OBVIOUS
<1>1. CASE UNCHANGED vars
  <2>1. UNCHANGED <<lastId, sockets, settings, own, pc, object, id, readId, raced>>
    BY <1>1 DEF vars, javaVars, objectVars, localVars, historyVars
  <2>2. \A h : Held(h)' = Held(h)
    BY <2>1 DEF Held, This
  <2>3. CallsHaveOne' /\ (~raced => OneChooses' /\ ClosesItsOwn')
    BY <2>1 DEF PeerInv, CallsHaveOne, OneChooses, Choosing, Counting, At, ClosesItsOwn, This
  <2>4. ~raced => Peers'
    BY <2>1, <2>2, PeersStay DEF PeerInv
  <2> QED
    BY <2>1, <2>3, <2>4 DEF PeerInv
<1>2. CASE Next
  <2>1. PICK t \in Threads :
          \/ Begin(t) \/ End(t)
          \/ \E o \in Objects : Throw(t, o) \/ Call(t, o, TRUE) \/ Call(t, o, FALSE)
          \/ Get(t) \/ Remove(t) \/ OnError(t)
          \/ ConnectFails(t) \/ Choose(t) \/ Put(t) \/ Read(t) \/ Store(t) \/ Connected(t)
    BY <1>2 DEF Next
  <2> QED
    BY <2>1, BeginKeepsPeers, EndKeepsPeers, CallKeepsPeers, GetKeepsPeers, RemoveKeepsPeers,
       ConnectReturnsKeepPeers, ChooseKeepsPeers, PutKeepsPeers, CountKeepsPeers
<1> QED
  BY <1>1, <1>2

LEMMA PeerInvHolds == Spec => [](IInv /\ Bounded /\ PeerInv)
BY InitIInv, InitBounded, InitPeerInv, IInvIsInductive, BoundedIsInductive,
   PeerInvIsInductive, PTL DEF Spec

(***************************************************************************)
(* Messages go to the peer of their object: the map has the object's own   *)
(* connection under its identifier, however many requests share the map,   *)
(* unless two of them have chosen an identifier at a time.                 *)
(***************************************************************************)
THEOREM MessagesAlwaysReachTheirPeer == Spec => []MessagesReachTheirPeer
<1>1. PeerInv => MessagesReachTheirPeer
  <2> SUFFICES ASSUME PeerInv, ~raced, NEW h \in InScript, settings[h] # Null
               PROVE  settings[h] \in DOMAIN sockets /\ sockets[settings[h]] = own[h]
    BY DEF MessagesReachTheirPeer
  <2>1. Held(h) = settings[h] /\ h \in Heap
    BY DEF Held, InScript
  <2> QED
    BY <2>1 DEF PeerInv, Peers
<1> QED
  BY <1>1, PeerInvHolds, PTL

(***************************************************************************)
(* A closed object leaves no connection open behind it, in the same        *)
(* circumstances: close finds its socket, whoever else connects meanwhile. *)
(***************************************************************************)
THEOREM SpentObjectsAreClosed == Spec => []SpentIsClosed
<1>1. IInv /\ PeerInv => SpentIsClosed
  <2> SUFFICES ASSUME IInv, PeerInv, ~raced, NEW h \in InScript \cap spent
               PROVE  own[h] \notin Range(sockets)
    BY DEF SpentIsClosed
  <2>1. settings[h] = Null /\ pc[h[1]] \notin Naming /\ h \in Heap
    BY DEF IInv, SpentAreSpent, InScript, Naming
  <2>2. Held(h) = Null
    BY <2>1 DEF Held
  <2> QED
    BY <2>1, <2>2 DEF PeerInv, Peers
<1> QED
  BY <1>1, PeerInvHolds, PTL
==============================================================================
