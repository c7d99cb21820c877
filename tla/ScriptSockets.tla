---------------------------- MODULE ScriptSockets ----------------------------
(***************************************************************************)
(* The TCPSocket objects of scripts: jni/src/tcpSocket.c, and below it     *)
(* tcpSocketConnect, tcpSocketSend and tcpSocketClose of                   *)
(* DuktapeJavascriptEngineWrapper.  Every request to a plugin evaluates    *)
(* its script in a heap of its own (getLibraryOutput), so its objects are  *)
(* its own; but requests to one plugin share the wrapper, with its map of  *)
(* Java sockets and its counter of identifiers, and nothing locks them.    *)
(* A step is one access to those by one thread.                            *)
(*                                                                         *)
(* The script may call connect, send and close at any time, in the         *)
(* onreceive callback of a send too: when that returns, send has only its  *)
(* stack left to clean up.                                                 *)
(***************************************************************************)
EXTENDS Naturals, FiniteSets, Functions

CONSTANTS
  Threads,        \* the requests that may be running at a time
  Objects,        \* the TCPSocket objects a script creates
  MaxConnections  \* bound: TCP connections made in one behaviour

ASSUME SocketsAssumption ==
  /\ IsFiniteSet(Threads) /\ IsFiniteSet(Objects)
  /\ MaxConnections \in Nat

VARIABLES
  lastId,       \* the field lastSocketId of the wrapper, counted from 1000
  sockets,      \* the field sockets: identifiers to connections
  connections,  \* how many connections have been made: the last one's number
  status,       \* the property status of an object
  settings,     \* the identifier in its property settings, or Null
  own,          \* history: the last connection that was made for an object
  pc,           \* where a thread is
  object,       \* {} or the singleton of the object whose function it runs
  connecting,   \* whether that function is connect
  id,           \* the identifier that close read or connect has chosen
  readId,       \* what lastSocketId++ has read
  raced,        \* history: whether two threads chose identifiers at a time
  spent,        \* history: the objects closed, or not connected again
  threw         \* history: the objects with a call that threw a TypeError

javaVars == <<lastId, sockets, connections>>
objectVars == <<status, settings, own>>
localVars == <<object, connecting, id, readId>>
historyVars == <<raced, spent, threw>>
vars == <<javaVars, objectVars, pc, localVars, historyVars>>

Ids  == 1..MaxConnections
Null == 0
Heap == Threads \X Objects

TypeOK ==
  /\ lastId \in 0..MaxConnections
  /\ DOMAIN sockets \subseteq Ids /\ Range(sockets) \subseteq Ids
  /\ connections \in 0..MaxConnections
  /\ status \in [Heap -> {"DISCONNECTED", "CONNECTED"}]
  /\ settings \in [Heap -> Ids \cup {Null}]
  /\ own \in [Heap -> Ids \cup {Null}]
  /\ pc \in [Threads -> {"idle", "script", "get", "remove", "onerror", "check",
                         "put", "read", "store", "connected"}]
  /\ object \in [Threads -> SUBSET Objects]
  /\ connecting \in [Threads -> BOOLEAN]
  /\ id \in [Threads -> 0..MaxConnections]
  /\ readId \in [Threads -> 0..MaxConnections]
  /\ raced \in BOOLEAN
  /\ spent \in SUBSET Heap
  /\ threw \in SUBSET Heap

Init ==
  /\ lastId = 0 /\ sockets = [i \in {} |-> Null] /\ connections = 0
  /\ status = [h \in Heap |-> "DISCONNECTED"]
  /\ settings = [h \in Heap |-> Null]
  /\ own = [h \in Heap |-> Null]
  /\ pc = [t \in Threads |-> "idle"]
  /\ object = [t \in Threads |-> {}]
  /\ connecting = [t \in Threads |-> FALSE]
  /\ id = [t \in Threads |-> 0]
  /\ readId = [t \in Threads |-> 0]
  /\ raced = FALSE /\ spent = {} /\ threw = {}

Goto(t, label) == pc' = [pc EXCEPT ![t] = label]

This(t) == {<<t, o>> : o \in object[t]}

Set(f, hs, value) == [h \in DOMAIN f |-> IF h \in hs THEN value ELSE f[h]]

------------------------------------------------------------------------------
(* A request to the plugin, and its heap.                                  *)

Begin(t) ==
  /\ pc[t] = "idle"
  /\ Goto(t, "script")
  /\ UNCHANGED <<javaVars, objectVars, localVars, historyVars>>

\* duk_destroy_heap: the objects are gone, their Java sockets are not.
End(t) ==
  LET heap == {t} \X Objects
  IN  /\ pc[t] = "script"
      /\ Goto(t, "idle")
      /\ status' = Set(status, heap, "DISCONNECTED")
      /\ settings' = Set(settings, heap, Null)
      /\ own' = Set(own, heap, Null)
      /\ spent' = spent \ heap
      /\ threw' = threw \ heap
      /\ UNCHANGED <<javaVars, localVars, raced>>

\* Control is back in the script, with a value or an exception.
Return(t) ==
  /\ Goto(t, "script")
  /\ object' = [object EXCEPT ![t] = {}]
  /\ connecting' = [connecting EXCEPT ![t] = FALSE]
  /\ id' = [id EXCEPT ![t] = 0]
  /\ readId' = [readId EXCEPT ![t] = 0]

\* The functions of a connected object read settings.id first of all.
Throw(t, o) ==
  /\ pc[t] = "script"
  /\ status[<<t, o>>] = "CONNECTED" /\ settings[<<t, o>>] = Null
  /\ threw' = threw \cup {<<t, o>>}
  /\ UNCHANGED <<javaVars, objectVars, pc, localVars, raced, spent>>

------------------------------------------------------------------------------
(* close, which connect calls first.                                       *)

\* tcp_socket_close and tcp_socket_connect.
Call(t, o, connect) ==
  /\ pc[t] = "script"
  /\ object' = [object EXCEPT ![t] = {o}]
  /\ connecting' = [connecting EXCEPT ![t] = connect]
  /\ \/ /\ status[<<t, o>>] = "CONNECTED" /\ settings[<<t, o>>] # Null
        /\ id' = [id EXCEPT ![t] = settings[<<t, o>>]]
        /\ Goto(t, "get")
     \/ /\ status[<<t, o>>] = "DISCONNECTED" /\ connect
        /\ Goto(t, "check")
        /\ UNCHANGED id
  /\ UNCHANGED <<javaVars, objectVars, readId, historyVars>>

\* tcpSocketClose looks the Java socket up and closes it.
Get(t) ==
  /\ pc[t] = "get"
  /\ Goto(t, IF id[t] \in DOMAIN sockets THEN "remove" ELSE "onerror")
  /\ UNCHANGED <<javaVars, objectVars, localVars, historyVars>>

\* jni_tcp_socket_close has returned 1: the settings are null, and that is all.
Closed(t) ==
  /\ settings' = Set(settings, This(t), Null)
  /\ IF connecting[t]
     THEN /\ Goto(t, "check")
          /\ UNCHANGED <<object, connecting, id, readId, spent>>
     ELSE /\ spent' = spent \cup This(t)
          /\ Return(t)

\* Mutant: the Java socket is closed, and stays in the map.
RemoveNothing(t) ==
  /\ pc[t] = "remove"
  /\ Closed(t)
  /\ UNCHANGED <<javaVars, status, own, raced, threw>>

Remove(t) ==
  /\ pc[t] = "remove"
  /\ sockets' = Restrict(sockets, DOMAIN sockets \ {id[t]})
  /\ IF id[t] \in DOMAIN sockets
     THEN Closed(t)
     ELSE Goto(t, "onerror") /\ UNCHANGED <<settings, localVars, spent>>
  /\ UNCHANGED <<lastId, connections, status, own, raced, threw>>

(***************************************************************************)
(* tcpSocketClose has answered false.  The default onerror calls close,    *)
(* and so on, until the socket is found or the stack is exhausted; an      *)
(* onerror of the script may return.                                       *)
(***************************************************************************)
OnError(t) ==
  /\ pc[t] = "onerror"
  /\ \/ Goto(t, "get") /\ UNCHANGED <<settings, localVars, spent>>
     \/ Return(t) /\ UNCHANGED <<settings, spent>>
     \/ Closed(t)
  /\ UNCHANGED <<javaVars, status, own, raced, threw>>

------------------------------------------------------------------------------
(* The rest of connect: tcpSocketConnect.                                  *)

\* Mutant: an object whose host does not answer passes for connected.
FailAsConnected(t) ==
  /\ pc[t] \in {"check", "put"}
  /\ spent' = spent \cup {h \in This(t) : status[h] = "CONNECTED"}
  /\ status' = Set(status, This(t), "CONNECTED")
  /\ Return(t)
  /\ UNCHANGED <<javaVars, settings, own, raced, threw>>

\* The host is not there, or no more when the socket is created: the object
\* stays as its close has left it.
ConnectFails(t) ==
  /\ pc[t] \in {"check", "put"}
  /\ spent' = spent \cup {h \in This(t) : status[h] = "CONNECTED"}
  /\ Return(t)
  /\ UNCHANGED <<javaVars, objectVars, raced, threw>>

Choosing == {t \in Threads : pc[t] \in {"put", "read", "store"}}

\* lastSocketId + 1, read once the host has been checked.
Choose(t) ==
  /\ pc[t] = "check"
  /\ connections + Cardinality({u \in Threads : pc[u] = "put"}) < MaxConnections
  /\ id' = [id EXCEPT ![t] = lastId + 1]
  /\ raced' = (raced \/ Choosing # {})
  /\ Goto(t, "put")
  /\ UNCHANGED <<javaVars, objectVars, object, connecting, readId, spent, threw>>

\* Mutant: the socket takes its number from ++lastSocketId.
PutAndCount(t) ==
  /\ pc[t] = "put"
  /\ connections' = connections + 1
  /\ sockets' = [i \in DOMAIN sockets \cup {id[t]} |->
                   IF i = id[t] THEN connections' ELSE sockets[i]]
  /\ own' = Set(own, This(t), connections')
  /\ lastId' = id[t]
  /\ Goto(t, "read")
  /\ UNCHANGED <<status, settings, localVars, historyVars>>

Put(t) ==
  /\ pc[t] = "put"
  /\ connections' = connections + 1
  /\ sockets' = [i \in DOMAIN sockets \cup {id[t]} |->
                   IF i = id[t] THEN connections' ELSE sockets[i]]
  /\ own' = Set(own, This(t), connections')
  /\ Goto(t, "read")
  /\ UNCHANGED <<lastId, status, settings, localVars, historyVars>>

\* lastSocketId++
Read(t) ==
  /\ pc[t] = "read"
  /\ readId' = [readId EXCEPT ![t] = lastId]
  /\ Goto(t, "store")
  /\ UNCHANGED <<javaVars, objectVars, object, connecting, id, historyVars>>

\* Mutant: the counter keeps its value, as in lastSocketId = lastSocketId++.
StoreRead(t) ==
  /\ pc[t] = "store"
  /\ lastId' = readId[t]
  /\ Goto(t, "connected")
  /\ UNCHANGED <<sockets, connections, objectVars, localVars, historyVars>>

Store(t) ==
  /\ pc[t] = "store"
  /\ lastId' = readId[t] + 1
  /\ Goto(t, "connected")
  /\ UNCHANGED <<sockets, connections, objectVars, localVars, historyVars>>

Connected(t) ==
  /\ pc[t] = "connected"
  /\ settings' = Set(settings, This(t), id[t])
  /\ status' = Set(status, This(t), "CONNECTED")
  /\ spent' = spent \ This(t)
  /\ Return(t)
  /\ UNCHANGED <<javaVars, own, raced, threw>>

------------------------------------------------------------------------------

\* A send that finds its socket changes nothing here; neither does one that
\* does not: the script is not told of the Java exception, which ends the request.
Next ==
  \E t \in Threads :
    \/ Begin(t) \/ End(t)
    \/ \E o \in Objects : Throw(t, o) \/ Call(t, o, TRUE) \/ Call(t, o, FALSE)
    \/ Get(t) \/ Remove(t) \/ OnError(t)
    \/ ConnectFails(t) \/ Choose(t) \/ Put(t) \/ Read(t) \/ Store(t) \/ Connected(t)

Spec == Init /\ [][Next]_vars

------------------------------------------------------------------------------
(* What scripts rely on.                                                   *)

InScript == {h \in Heap : pc[h[1]] = "script"}

(***************************************************************************)
(* What an object sends goes to the peer it was connected to: under the    *)
(* identifier in its settings the map has its own connection, still open,  *)
(* whatever other objects and earlier scripts have opened, closed or left  *)
(* behind.                                                                 *)
(***************************************************************************)
MessagesReachTheirPeer ==
  ~raced => \A h \in InScript :
              status[h] = "CONNECTED" /\ settings[h] # Null =>
                /\ settings[h] \in DOMAIN sockets
                /\ sockets[settings[h]] = own[h]

(***************************************************************************)
(* A script sees a TypeError only of an object that it has closed, or that *)
(* it has failed to connect again; both are left CONNECTED without         *)
(* settings.  This holds whatever other requests do meanwhile.             *)
(***************************************************************************)
TypeErrorsNeedAClose == threw \subseteq spent

(***************************************************************************)
(* An object that was closed, or closed in order to be connected again,    *)
(* has no connection left open behind it.                                  *)
(***************************************************************************)
SpentIsClosed ==
  ~raced => \A h \in InScript \cap spent : own[h] \notin Range(sockets)
==============================================================================
