------------------------- MODULE ServiceRegistryProofs -------------------------
(***************************************************************************)
(* Theorems about module ServiceRegistry, for any number of requests,      *)
(* services and runnables, and any number of requests at a time: each      *)
(* property says itself how many may overlap.                              *)
(*                                                                         *)
(* The invariant is built in layers, each inductive with those before:     *)
(* IInv, what a client knows of its runnable; Fresh, what a request holds  *)
(* for itself; Transactions, what the connection and the file know of the  *)
(* request that has one open; MapInv, the map with one overlap at most;    *)
(* Keyed, the keys of the rows; SeqInv, rows and configurations with no    *)
(* overlap; Bounded, what the requests under way may still take from the   *)
(* bounds.                                                                 *)
(***************************************************************************)
EXTENDS ServiceRegistry, SequenceTheorems, FiniteSetTheorems, TLAPS

MaybeConfig == Configs \cup {Null}

\* As Service and Runnable, without the bounds.
Row == [id : Nat \ {0}, name : Names, plugin : Plugins, config : MaybeConfig]
RunnableRow == [service : Row, config : MaybeConfig, running : BOOLEAN]
Local == [pc : Steps, request : Request \cup {Null}, service : Row \cup {Null},
          failed : BOOLEAN, runnable : Nat, todo : Seq(MaybeConfig)]

DatabaseTyped ==
  /\ plugins \subseteq Plugins
  /\ rows \subseteq Row /\ lastId \in Nat
  /\ saved \in [plugins : SUBSET Plugins, rows : SUBSET Row, lastId : Nat]
  /\ autoCommit \in BOOLEAN

Typed ==
  /\ DatabaseTyped
  /\ runnables \in Seq(RunnableRow)
  /\ services \in [Names -> 0..Len(runnables)]
  /\ clients \in [Clients -> Local]

\* Where a client has no service, or need not have one.
Serviceless == {"idle", "findPlugin", "begin", "insert", "rollback", "commit", "end",
                "find", "deletePlugin", "removeAll"}

(***************************************************************************)
(* What the locals of a client are where it is, when the runnables are r.  *)
(* The runnable that it is about to put into the map remembers the name    *)
(* under which the client puts it there.                                   *)
(***************************************************************************)
Knows(x, r) ==
  /\ x.pc # "idle" => x.request \in Request
  /\ x.pc \in {"insert", "readBack"} => x.request.op = "post"
  /\ x.pc \in {"findPlugin", "begin", "rollback", "commit", "end"} =>
       x.request.op \in {"post", "deletePlugin"}
  /\ x.pc \in {"deletePlugin", "removeAll"} => x.request.op = "deletePlugin"
  /\ x.pc \notin Serviceless \ {"find"} => x.request.op # "deletePlugin"
  /\ x.pc = "rollback" => x.failed
  /\ x.pc \in {"register", "ask", "configure", "verify", "save", "update", "clear"} =>
       x.request.op \in {"post", "put"}
  /\ x.pc \in {"configure", "verify"} => x.todo # <<>>
  /\ x.pc \in {"idle", "findPlugin", "begin", "insert"} => x.service = Null
  /\ x.pc \notin Serviceless => x.service \in Row
  /\ x.pc \in {"commit", "end"} /\ x.request.op = "post" /\ ~x.failed => x.service \in Row
  /\ x.pc \in {"register", "ask", "configure", "verify", "save", "toggle", "putBack"} =>
       x.runnable \in DOMAIN r
  /\ x.pc \in {"register", "toggle", "putBack"} => r[x.runnable].service.name = x.service.name

IInv ==
  /\ Typed
  /\ \A c \in Clients : Knows(clients[c], runnables)
  /\ FoundByItsName

\* The runnables of before are there, and remember the names they did.
NamesKept ==
  /\ runnables' \in Seq(RunnableRow)
  /\ Len(runnables) <= Len(runnables')
  /\ \A i \in 1..Len(runnables) : runnables'[i].service.name = runnables[i].service.name

\* Only this client moves.
Moves(c) ==
  /\ clients' \in [Clients -> Local]
  /\ \A d \in Clients : d # c => clients'[d] = clients[d]

------------------------------------------------------------------------------

LEMMA RequestFacts ==
  ASSUME NEW r \in Request
  PROVE  /\ r.op = "post" => r.name \in Names /\ r.plugin \in Plugins
         /\ r.op = "put" => r.newName \in Names
         /\ r.op \in {"post", "put"} => r.config \in MaybeConfig
         /\ r.op # "deletePlugin" => r.name \in Names
BY DEF Request, MaybeConfig

LEMMA NullIsNoRow == Null \notin Row
BY RegistryAssumption DEF Row, MaybeConfig

LEMMA InitIInv == Init => IInv
<1> SUFFICES ASSUME Init PROVE IInv
  OBVIOUS
<1> USE DEF Init
<1>1. Resting \in Local
  BY DEF Resting, Local, Steps, None, MaybeConfig
<1>2. Typed
  <2>1. DatabaseTyped
    BY DEF DatabaseTyped, Tables
  <2> QED
    BY <1>1, <2>1 DEF Typed, None
<1>3. \A c \in Clients : clients[c].pc = "idle" /\ clients[c].service = Null
  BY DEF Resting
<1>4. \A c \in Clients : Knows(clients[c], runnables)
  BY <1>3 DEF Knows, Serviceless
<1> QED
  BY <1>2, <1>4 DEF IInv, FoundByItsName

\* A step of one client, after which its locals are as they must be, and which
\* leaves the map alone.
LEMMA ClientKeeps ==
  ASSUME IInv, NEW c \in Clients, Moves(c), Knows(clients'[c], runnables'),
         DatabaseTyped', NamesKept, services' = services
  PROVE  IInv'
<1> USE DEF Moves
<1>1. Typed'
  BY DEF IInv, Typed, NamesKept
<1>2. ASSUME NEW d \in Clients PROVE Knows(clients'[d], runnables')
  <2>1. CASE d = c
    BY <2>1 DEF IInv, Typed
  <2>2. CASE d # c
    <3>1. clients'[d] = clients[d] /\ Knows(clients[d], runnables)
      BY <2>2 DEF IInv, Typed
    <3>2. DOMAIN runnables = 1..Len(runnables) /\ DOMAIN runnables' = 1..Len(runnables')
          /\ Len(runnables) \in Nat /\ Len(runnables') \in Nat
      BY DEF IInv, Typed, NamesKept
    <3> QED
      BY <3>1, <3>2 DEF Knows, NamesKept, Serviceless
  <2> QED
    BY <2>1, <2>2
<1>3. FoundByItsName'
  BY DEF IInv, Typed, FoundByItsName, NamesKept, None
<1> QED
  BY <1>1, <1>2, <1>3 DEF IInv

LEMMA DatabaseStays == DatabaseTyped /\ UNCHANGED database => DatabaseTyped'
BY DEF DatabaseTyped, database, tables, connection

LEMMA ExecuteTypes ==
  ASSUME DatabaseTyped, NEW p \in SUBSET Plugins, NEW r \in SUBSET Row, NEW id \in Nat,
         Execute(p, r, id)
  PROVE  DatabaseTyped'
BY DEF DatabaseTyped, Execute, Tables

\* One that leaves the runnables alone, and puts one that remembers the name,
\* or none, into the map.
LEMMA PutKeeps ==
  ASSUME IInv, NEW c \in Clients, Moves(c), Knows(clients'[c], runnables'),
         UNCHANGED <<database, runnables>>,
         NEW name \in Names, NEW number \in 0..Len(runnables), Put(name, number),
         number # None => runnables[number].service.name = name
  PROVE  IInv'
<1> USE DEF Put, Moves
<1>1. Typed'
  BY DatabaseStays DEF IInv, Typed
<1>2. \A d \in Clients : Knows(clients'[d], runnables')
  BY DEF IInv, Typed
<1>3. FoundByItsName'
  BY DEF IInv, Typed, FoundByItsName, None
<1> QED
  BY <1>1, <1>2, <1>3 DEF IInv

LEMMA UnchangedNames == IInv /\ UNCHANGED runnables => NamesKept
BY DEF IInv, Typed, NamesKept

\* A runnable that is started or stopped.
LEMMA RunKeepsNames ==
  ASSUME IInv, NEW numbers, NEW b \in BOOLEAN, runnables' = Run(numbers, b)
  PROVE  NamesKept
<1>1. runnables \in Seq(RunnableRow) /\ Len(runnables) \in Nat /\ DOMAIN runnables = 1..Len(runnables)
  BY DEF IInv, Typed
<1>2. \A i \in 1..Len(runnables) : runnables[i] \in RunnableRow
  BY <1>1
<1>3. \A i \in 1..Len(runnables) :
        runnables'[i] \in RunnableRow /\ runnables'[i].service = runnables[i].service
  BY <1>1, <1>2 DEF Run, RunnableRow
<1>4. runnables' \in Seq(RunnableRow) /\ Len(runnables') = Len(runnables)
  BY <1>1, <1>3 DEF Run
<1> QED
  BY <1>1, <1>3, <1>4 DEF NamesKept

\* A client answers, goes on, or goes on with other locals.
LEMMA AnswerMoves ==
  ASSUME IInv, NEW c \in Clients, Answer(c)
  PROVE  Moves(c) /\ Knows(clients'[c], runnables')
<1>1. Resting \in Local /\ Resting.pc = "idle" /\ Resting.service = Null
  BY DEF Resting, Local, Steps, None, MaybeConfig
<1>2. clients' = [clients EXCEPT ![c] = Resting] /\ clients \in [Clients -> Local]
  BY DEF IInv, Typed, Answer
<1>3. clients'[c].pc = "idle" /\ clients'[c].service = Null /\ Moves(c)
  BY <1>1, <1>2 DEF Moves
<1> QED
  BY <1>3 DEF Knows, Serviceless

LEMMA GotoMoves ==
  ASSUME IInv, NEW c \in Clients, NEW label \in Steps, Goto(c, label)
  PROVE  /\ Moves(c)
         /\ clients'[c] = [clients[c] EXCEPT !.pc = label]
         /\ clients[c] \in Local
BY DEF IInv, Typed, Goto, Moves, Local

LEMMA ServiceMoves ==
  ASSUME IInv, NEW c \in Clients, NEW s \in Row, NEW label \in Steps,
         clients' = [clients EXCEPT ![c].service = s, ![c].pc = label]
  PROVE  /\ Moves(c)
         /\ clients'[c] = [clients[c] EXCEPT !.service = s, !.pc = label]
         /\ clients[c] \in Local
<1>1. clients \in [Clients -> Local] /\ clients[c] \in Local
  BY DEF IInv, Typed
<1> DEFINE x == [clients[c] EXCEPT !.service = s, !.pc = label]
<1>2. x \in Local
  BY <1>1 DEF Local
<1>3. clients' = [clients EXCEPT ![c] = x]
  BY <1>1
<1> HIDE DEF x
<1>4. Moves(c) /\ clients'[c] = x
  BY <1>1, <1>2, <1>3 DEF Moves
<1> QED
  BY <1>1, <1>4 DEF x

LEMMA ReceiveKeeps ==
  ASSUME IInv, NEW c \in Clients, Receive(c)
  PROVE  IInv'
<1> USE DEF Receive, At
<1>1. /\ UNCHANGED <<runnables, services>> /\ DatabaseTyped'
      /\ clients \in [Clients -> Local]
  BY DatabaseStays DEF IInv, Typed, manager
<1>2. PICK r \in Request :
        clients' = [clients EXCEPT ![c].request = r,
                         ![c].pc = CASE r.op = "post" -> "findPlugin"
                                     [] r.op = "deletePlugin" -> "begin"
                                     [] OTHER -> "find"]
  OBVIOUS
<1>3. PICK label \in {"findPlugin", "begin", "find"} :
        /\ clients' = [clients EXCEPT ![c].request = r, ![c].pc = label]
        /\ label # "find" => r.op \in {"post", "deletePlugin"}
        /\ label = "find" => r.op # "deletePlugin"
  BY <1>2
<1> DEFINE x == [clients[c] EXCEPT !.request = r, !.pc = label]
<1>4. /\ x \in Local /\ clients' = [clients EXCEPT ![c] = x]
      /\ x.pc = label /\ x.request = r /\ x.service = clients[c].service
  <2>1. clients[c] \in Local /\ label \in Steps
    BY <1>1 DEF Steps
  <2>2. x \in Local /\ x.pc = label /\ x.request = r /\ x.service = clients[c].service
    BY <2>1 DEF Local
  <2>3. clients' = [clients EXCEPT ![c] = x]
    BY <1>1, <1>3
  <2> QED
    BY <2>2, <2>3
<1> HIDE DEF x
<1>5. Moves(c) /\ clients'[c] = x
  BY <1>1, <1>4 DEF Moves
<1>6. clients[c].service = Null
  BY DEF IInv, Knows
<1>7. Knows(clients'[c], runnables')
  BY <1>3, <1>4, <1>5, <1>6 DEF Knows, Serviceless
<1> QED
  BY <1>1, <1>5, <1>7, ClientKeeps, UnchangedNames

(***************************************************************************)
(* The transactions.                                                       *)
(***************************************************************************)
LEMMA FailMoves ==
  ASSUME IInv, NEW c \in Clients,
         Fail(c)
  PROVE  /\ Moves(c)
         /\ clients'[c].pc = "rollback" /\ clients'[c].failed
         /\ clients'[c].request = clients[c].request
         /\ clients'[c].service = clients[c].service
         /\ clients'[c].runnable = clients[c].runnable
         /\ clients'[c].todo = clients[c].todo
<1>1. clients \in [Clients -> Local] /\ clients[c] \in Local
  BY DEF IInv, Typed
<1>2. PICK b \in BOOLEAN :
        b = TRUE /\ clients' = [clients EXCEPT ![c].failed = b, ![c].pc = "rollback"]
  BY Zenon DEF Fail
<1> DEFINE x == [clients[c] EXCEPT !.failed = b, !.pc = "rollback"]
<1>3. x \in Local
  BY <1>1 DEF Local, Steps
<1>4. /\ x.pc = "rollback" /\ x.failed = b /\ x.request = clients[c].request
      /\ x.service = clients[c].service /\ x.runnable = clients[c].runnable
      /\ x.todo = clients[c].todo
  BY <1>1 DEF Local
<1>5. clients' = [clients EXCEPT ![c] = x]
  BY <1>1, <1>2
<1> HIDE DEF x
<1>6. Moves(c) /\ clients'[c] = x
  BY <1>1, <1>3, <1>5 DEF Moves
<1>7. clients'[c].failed
  BY <1>2, <1>4, <1>6
<1> QED
  BY <1>4, <1>6, <1>7

\* The transaction fails, or a step of it is taken, or it ends.
LEMMA FailKnows ==
  ASSUME IInv, NEW c \in Clients, clients[c].pc \in {"insert", "readBack", "deletePlugin"},
         Fail(c)
  PROVE  Moves(c) /\ Knows(clients'[c], runnables')
BY FailMoves DEF IInv, Knows, Serviceless

LEMMA TransactionKnows ==
  ASSUME IInv, NEW c \in Clients, NEW label \in Steps, Goto(c, label),
         \/ clients[c].pc = "findPlugin" /\ Op(c) = "post" /\ label = "begin"
         \/ clients[c].pc = "findPlugin" /\ Op(c) # "post" /\ label = "deletePlugin"
         \/ clients[c].pc = "begin" /\ Op(c) = "post" /\ label = "insert"
         \/ clients[c].pc = "begin" /\ Op(c) # "post" /\ label = "findPlugin"
         \/ clients[c].pc = "deletePlugin" /\ label = "commit"
         \/ clients[c].pc = "rollback" /\ label = "commit"
         \/ clients[c].pc = "commit" /\ label = "end"
         \/ clients[c].pc \in {"commit", "end"} /\ ~failed(c) /\ Op(c) = "post" /\ label = "get"
         \/ clients[c].pc \in {"commit", "end"} /\ Op(c) # "post" /\ label = "removeAll"
  PROVE  Moves(c) /\ Knows(clients'[c], runnables')
<1>1. /\ Moves(c) /\ clients'[c] = [clients[c] EXCEPT !.pc = label] /\ clients[c] \in Local
      /\ Knows(clients[c], runnables)
  BY GotoMoves DEF IInv
<1>2. /\ clients'[c].pc = label /\ clients'[c].failed = clients[c].failed
      /\ clients'[c].request = clients[c].request /\ clients'[c].service = clients[c].service
  BY <1>1 DEF Local
<1> QED
  BY <1>1, <1>2 DEF Knows, Serviceless, Op, request, failed

LEMMA FinishKnows ==
  ASSUME IInv, NEW c \in Clients, clients[c].pc \in {"rollback", "commit", "end"}, Finish(c)
  PROVE  Moves(c) /\ Knows(clients'[c], runnables')
<1>1. CASE Answer(c)
  BY <1>1, AnswerMoves
<1>2. CASE ~Answer(c)
  <2>1. ~failed(c) /\ Goto(c, IF Op(c) = "post" THEN "get" ELSE "removeAll")
    BY <1>2 DEF Finish
  <2>2. clients[c].pc # "rollback" /\ "get" \in Steps /\ "removeAll" \in Steps
    BY <2>1 DEF IInv, Knows, failed, Steps
  <2> QED
    BY <2>1, <2>2, TransactionKnows
<1> QED
  BY <1>1, <1>2

LEMMA TransactionKeeps ==
  ASSUME IInv, NEW c \in Clients,
         FindPlugin(c) \/ Begin(c) \/ DeletePlugin(c) \/ Rollback(c) \/ Commit(c) \/ End(c)
  PROVE  IInv'
<1>1. DatabaseTyped /\ Knows(clients[c], runnables)
  BY DEF IInv, Typed
<1>2. UNCHANGED <<services, runnables>> /\ NamesKept
  BY UnchangedNames DEF FindPlugin, Begin, DeletePlugin, Rollback, Commit, End, manager
<1>3. DatabaseTyped'
  <2>1. CASE FindPlugin(c)
    BY <1>1, <2>1, DatabaseStays DEF FindPlugin
  <2>2. CASE Begin(c)
    BY <1>1, <2>2 DEF DatabaseTyped, Begin, tables
  <2>3. CASE DeletePlugin(c)
    BY <1>1, <2>3, ExecuteTypes DEF DatabaseTyped, DeletePlugin
  <2>4. CASE Rollback(c)
    BY <1>1, <2>4 DEF DatabaseTyped, Rollback, tables, connection
  <2>5. CASE Commit(c) \/ End(c)
    <3>1. UNCHANGED tables /\ saved' \in {saved, Tables} /\ autoCommit' \in BOOLEAN
      BY <1>1, <2>5 DEF Commit, End, DatabaseTyped
    <3>2. Tables \in [plugins : SUBSET Plugins, rows : SUBSET Row, lastId : Nat]
      BY <1>1 DEF Tables, DatabaseTyped
    <3> QED
      BY <1>1, <3>1, <3>2 DEF DatabaseTyped, tables
  <2> QED
    BY <2>1, <2>2, <2>3, <2>4, <2>5
<1>4. {"begin", "insert", "findPlugin", "deletePlugin", "commit", "end"} \subseteq Steps
  BY DEF Steps
<1>5. Moves(c) /\ Knows(clients'[c], runnables')
  <2>1. CASE FindPlugin(c)
    BY <1>4, <2>1, AnswerMoves, TransactionKnows DEF FindPlugin, At
  <2>2. CASE Begin(c)
    BY <1>4, <2>2, TransactionKnows DEF Begin, At
  <2>3. CASE DeletePlugin(c)
    BY <1>4, <2>3, FailKnows, TransactionKnows DEF DeletePlugin, At
  <2>4. CASE Rollback(c)
    BY <1>4, <2>4, FinishKnows, TransactionKnows DEF Rollback, At
  <2>5. CASE Commit(c) \/ End(c)
    BY <1>4, <2>5, FinishKnows, TransactionKnows DEF Commit, End, At
  <2> QED
    BY <2>1, <2>2, <2>3, <2>4, <2>5
<1> QED
  BY <1>2, <1>3, <1>5, ClientKeeps

LEMMA InsertKeeps ==
  ASSUME IInv, NEW c \in Clients, Insert(c)
  PROVE  IInv'
<1> USE DEF Insert, At, manager
<1>1. /\ clients \in [Clients -> Local] /\ DatabaseTyped
      /\ Knows(clients[c], runnables) /\ clients[c].pc = "insert"
  BY DEF IInv, Typed
<1>2. UNCHANGED <<services, runnables>> /\ NamesKept
  BY UnchangedNames
<1>3. CASE /\ UNCHANGED database
           /\ Fail(c)
  BY <1>1, <1>2, <1>3, FailKnows, DatabaseStays, ClientKeeps
<1>4. ASSUME NEW s, s = [id |-> lastId + 1, name |-> request(c).name,
                         plugin |-> request(c).plugin, config |-> request(c).config],
             Execute(plugins, rows \cup {s}, lastId + 1),
             clients' = [clients EXCEPT ![c].service = s, ![c].pc = "readBack"]
      PROVE  IInv'
  <2>1. s \in Row /\ lastId + 1 \in Nat
    BY <1>1, <1>4, RequestFacts DEF Knows, Row, request, DatabaseTyped
  <2>2. Moves(c) /\ clients'[c] = [clients[c] EXCEPT !.service = s, !.pc = "readBack"]
    BY <1>1, <1>4, <2>1, ServiceMoves DEF Steps
  <2>3. clients'[c].pc = "readBack" /\ clients'[c].service = s
        /\ clients'[c].request = clients[c].request
    BY <1>1, <2>2 DEF Local
  <2>4. Knows(clients'[c], runnables')
    BY <1>1, <2>1, <2>3 DEF Knows, Serviceless
  <2>5. DatabaseTyped'
    <3>1. rows \cup {s} \in SUBSET Row /\ plugins \in SUBSET Plugins
      BY <1>1, <2>1 DEF DatabaseTyped
    <3> QED
      BY <1>1, <1>4, <2>1, <3>1, ExecuteTypes
  <2> QED
    BY <1>1, <1>2, <2>2, <2>4, <2>5, ClientKeeps
<1> QED
  BY <1>3, <1>4

LEMMA ReadBackKeeps ==
  ASSUME IInv, NEW c \in Clients, ReadBack(c)
  PROVE  IInv'
<1> USE DEF ReadBack, At, manager
<1>1. /\ clients \in [Clients -> Local] /\ DatabaseTyped /\ DatabaseTyped'
      /\ Knows(clients[c], runnables) /\ clients[c].pc = "readBack"
  BY DatabaseStays DEF IInv, Typed
<1>2. UNCHANGED <<services, runnables>> /\ NamesKept
  BY UnchangedNames
<1>3. CASE Fail(c)
  BY <1>1, <1>2, <1>3, FailKnows, ClientKeeps
<1>4. ASSUME NEW s \in rows, clients' = [clients EXCEPT ![c].service = s, ![c].pc = "commit"]
      PROVE  IInv'
  <2>1. s \in Row
    BY <1>1 DEF DatabaseTyped
  <2>2. Moves(c) /\ clients'[c] = [clients[c] EXCEPT !.service = s, !.pc = "commit"]
    BY <1>1, <1>4, <2>1, ServiceMoves DEF Steps
  <2>3. clients'[c].pc = "commit" /\ clients'[c].service = s
        /\ clients'[c].request = clients[c].request
    BY <1>1, <2>2 DEF Local
  <2>4. Knows(clients'[c], runnables')
    BY <1>1, <2>1, <2>3 DEF Knows, Serviceless
  <2> QED
    BY <1>1, <1>2, <2>2, <2>4, ClientKeeps
<1> QED
  BY <1>3, <1>4 DEF WithId

LEMMA FindKeeps ==
  ASSUME IInv, NEW c \in Clients, Find(c)
  PROVE  IInv'
<1> USE DEF Find, At, manager
<1>1. /\ clients \in [Clients -> Local] /\ DatabaseTyped /\ DatabaseTyped'
      /\ Knows(clients[c], runnables) /\ clients[c].pc = "find"
  BY DatabaseStays DEF IInv, Typed
<1>2. UNCHANGED <<services, runnables>> /\ NamesKept
  BY UnchangedNames
<1>3. CASE Answer(c)
  BY <1>1, <1>2, <1>3, AnswerMoves, ClientKeeps
<1>4. ASSUME NEW s \in rows, NEW label \in {"delete", "update", "get"},
             label = "update" => Op(c) = "put",
             clients' = [clients EXCEPT ![c].service = s, ![c].pc = label]
      PROVE  IInv'
  <2>1. s \in Row
    BY <1>1 DEF DatabaseTyped
  <2>2. Moves(c) /\ clients'[c] = [clients[c] EXCEPT !.service = s, !.pc = label]
    BY <1>1, <1>4, <2>1, ServiceMoves DEF Steps
  <2>3. clients'[c].pc = label /\ clients'[c].service = s
        /\ clients'[c].request = clients[c].request
    BY <1>1, <2>2 DEF Local
  <2>4. Knows(clients'[c], runnables')
    BY <1>1, <1>4, <2>1, <2>3 DEF Knows, Serviceless, Op, request
  <2> QED
    BY <1>1, <1>2, <2>2, <2>4, ClientKeeps
<1>5. CASE ~Answer(c)
  <2>1. PICK s \in rows :
          clients' = [clients EXCEPT ![c].service = s,
                  ![c].pc = CASE Op(c) = "delete" -> "delete"
                              [] Op(c) = "put" /\ request(c).config = Null -> "update"
                              [] OTHER -> "get"]
    BY <1>5 DEF WithName
  <2>2. PICK label \in {"delete", "update", "get"} :
          /\ clients' = [clients EXCEPT ![c].service = s, ![c].pc = label]
          /\ label = "update" => Op(c) = "put"
    BY <2>1
  <2> QED
    BY <1>4, <2>2
<1> QED
  BY <1>3, <1>5

------------------------------------------------------------------------------
(* The map.                                                                *)

LEMMA RunnableMoves ==
  ASSUME IInv, NEW c \in Clients, NEW number \in Nat, NEW label \in Steps,
         clients' = [clients EXCEPT ![c].runnable = number, ![c].pc = label]
  PROVE  /\ Moves(c)
         /\ clients'[c] = [clients[c] EXCEPT !.runnable = number, !.pc = label]
         /\ clients[c] \in Local
<1>1. clients \in [Clients -> Local] /\ clients[c] \in Local
  BY DEF IInv, Typed
<1> DEFINE x == [clients[c] EXCEPT !.runnable = number, !.pc = label]
<1>2. x \in Local
  BY <1>1 DEF Local
<1>3. clients' = [clients EXCEPT ![c] = x]
  BY <1>1
<1> HIDE DEF x
<1>4. Moves(c) /\ clients'[c] = x
  BY <1>1, <1>2, <1>3 DEF Moves
<1> QED
  BY <1>1, <1>4 DEF x

\* A runnable that is used is one of those that there are, and remembers the
\* name that it was found by.
LEMMA UseMoves ==
  ASSUME IInv, NEW c \in Clients, NEW number \in Nat, UseRunnable(c, number),
         clients[c].pc \in {"get", "register"}, UNCHANGED runnables,
         number \in DOMAIN runnables,
         runnables[number].service.name = service(c).name
  PROVE  Moves(c) /\ Knows(clients'[c], runnables')
<1> USE DEF service
<1>1. CASE Answer(c)
  BY <1>1, AnswerMoves
<1>2. CASE ~Answer(c)
  <2>1. PICK label \in {"ask", "toggle"} :
          /\ clients' = [clients EXCEPT ![c].runnable = number, ![c].pc = label]
          /\ label = "ask" => clients[c].request.op \in {"post", "put"}
    BY <1>2 DEF UseRunnable, Op, request
  <2>2. /\ Moves(c) /\ clients[c] \in Local
        /\ clients'[c] = [clients[c] EXCEPT !.runnable = number, !.pc = label]
    <3>1. label \in Steps
      BY DEF Steps
    <3> QED
      BY <2>1, <3>1, RunnableMoves
  <2>3. /\ clients'[c].pc = label /\ clients'[c].runnable = number
        /\ clients'[c].request = clients[c].request
        /\ clients'[c].service = clients[c].service
    BY <2>2 DEF Local
  <2>4. /\ clients[c].request \in Request /\ clients[c].service \in Row
        /\ clients[c].request.op # "deletePlugin"
    BY DEF IInv, Knows, Serviceless
  <2> QED
    BY <2>1, <2>2, <2>3, <2>4 DEF Knows, Serviceless
<1> QED
  BY <1>1, <1>2

LEMMA GetKeeps ==
  ASSUME IInv, NEW c \in Clients, Get(c)
  PROVE  IInv'
<1>1. /\ clients \in [Clients -> Local] /\ DatabaseTyped'
      /\ Knows(clients[c], runnables) /\ clients[c].pc = "get"
      /\ runnables \in Seq(RunnableRow) /\ services \in [Names -> 0..Len(runnables)]
      /\ Len(runnables) \in Nat /\ DOMAIN runnables = 1..Len(runnables)
  BY DatabaseStays DEF IInv, Typed, Get, At
<1>2. service(c) \in Row /\ service(c).name \in Names /\ request(c) \in Request
  BY <1>1 DEF Knows, Serviceless, Row, service, request
<1>3. UNCHANGED services
  BY DEF Get
<1>4. CASE UNCHANGED runnables /\ Answer(c)
  BY <1>1, <1>3, <1>4, AnswerMoves, UnchangedNames, ClientKeeps
<1>5. CASE UNCHANGED runnables /\ Known(c) # None /\ UseRunnable(c, Known(c))
  <2>1. Known(c) \in DOMAIN runnables /\ Known(c) \in Nat
    BY <1>1, <1>2, <1>5 DEF Known, None
  <2>2. runnables[Known(c)].service.name = service(c).name
    BY <1>2, <1>5 DEF IInv, FoundByItsName, Known
  <2>3. Moves(c) /\ Knows(clients'[c], runnables')
    BY <1>1, <1>5, <2>1, <2>2, UseMoves
  <2> QED
    BY <1>1, <1>3, <1>5, <2>3, UnchangedNames, ClientKeeps
<1>6. CASE /\ Op(c) \in {"post", "put"}
           /\ runnables' = Append(runnables, NewRunnable(c))
           /\ clients' = [clients EXCEPT ![c].runnable = Len(runnables) + 1,
                                        ![c].pc = "register"]
  <2> DEFINE new == NewRunnable(c)
             number == Len(runnables) + 1
  <2>1. new \in RunnableRow /\ new.service = service(c)
    BY <1>2 DEF NewRunnable, RunnableRow, MaybeConfig
  <2>2. number \in Nat /\ "register" \in Steps
    BY <1>1 DEF Steps
  <2>3. runnables' = Append(runnables, new)
    BY <1>6
  <2>4. clients' = [clients EXCEPT ![c].runnable = number, ![c].pc = "register"]
    BY <1>6
  <2> HIDE DEF new
  <2>5. /\ runnables' \in Seq(RunnableRow) /\ Len(runnables') = number
        /\ runnables'[number] = new
        /\ \A i \in 1..Len(runnables) : runnables'[i] = runnables[i]
    BY <1>1, <2>1, <2>3, AppendProperties
  <2>6. NamesKept /\ number \in DOMAIN runnables'
    BY <1>1, <2>5 DEF NamesKept
  <2> HIDE DEF number
  <2>7. /\ Moves(c) /\ clients[c] \in Local
        /\ clients'[c] = [clients[c] EXCEPT !.runnable = number, !.pc = "register"]
    BY <2>2, <2>4, RunnableMoves
  <2>8. /\ clients'[c].pc = "register" /\ clients'[c].runnable = number
        /\ clients'[c].request = clients[c].request
        /\ clients'[c].service = clients[c].service
    BY <2>7 DEF Local
  <2>9. Knows(clients'[c], runnables')
    BY <1>2, <1>6, <2>1, <2>5, <2>6, <2>8 DEF Knows, Serviceless, Op, request, service
  <2> QED
    BY <1>1, <1>3, <2>6, <2>7, <2>9, ClientKeeps
<1> QED
  BY <1>4, <1>5, <1>6 DEF Get

LEMMA RegisterKeeps ==
  ASSUME IInv, NEW c \in Clients, Register(c) \/ PutBack(c)
  PROVE  IInv'
<1> USE DEF Register, PutBack, At
<1>1. /\ Knows(clients[c], runnables) /\ clients[c].pc \in {"register", "putBack"}
      /\ clients[c] \in Local /\ runnables \in Seq(RunnableRow)
      /\ Len(runnables) \in Nat /\ DOMAIN runnables = 1..Len(runnables)
  BY DEF IInv, Typed
<1>2. /\ service(c) \in Row /\ service(c).name \in Names
      /\ runnable(c) \in DOMAIN runnables
      /\ runnables[runnable(c)].service.name = service(c).name
      /\ runnable(c) \in Nat /\ runnable(c) \in 0..Len(runnables)
  BY <1>1 DEF Knows, Serviceless, Row, Local, service, runnable
<1>3. UNCHANGED <<database, runnables>> /\ Put(service(c).name, runnable(c))
  OBVIOUS
<1>4. Moves(c) /\ Knows(clients'[c], runnables')
  BY <1>1, <1>2, <1>3, AnswerMoves, UseMoves
<1> QED
  BY <1>2, <1>3, <1>4, PutKeeps

LEMMA RemoveKeeps ==
  ASSUME IInv, NEW c \in Clients, Remove(c)
  PROVE  IInv'
<1> USE DEF Remove, At
<1>1. /\ Knows(clients[c], runnables) /\ clients[c].pc = "remove"
      /\ Len(runnables) \in Nat
  BY DEF IInv, Typed
<1>2. service(c).name \in Names
  BY <1>1 DEF Knows, Serviceless, Row, service
<1>3. Moves(c) /\ Knows(clients'[c], runnables')
  BY AnswerMoves
<1> QED
  BY <1>1, <1>2, <1>3, PutKeeps DEF None

------------------------------------------------------------------------------
(* The runnables.                                                          *)

\* A client that keeps its locals goes where what it knows is enough.
LEMMA GotoKnows ==
  ASSUME IInv, NEW c \in Clients, NEW label \in Steps, Goto(c, label), NamesKept,
         clients[c].pc \notin Serviceless,
         label \in {"verify", "save", "update", "clear", "stop", "remove", "putBack"},
         label = "verify" => clients[c].pc = "configure",
         label = "save" => clients[c].pc = "verify",
         label \in {"update", "clear"} => clients[c].pc \in {"configure", "verify", "save"},
         label = "putBack" => clients[c].pc = "toggle"
  PROVE  Moves(c) /\ Knows(clients'[c], runnables')
<1>1. /\ Moves(c) /\ clients'[c] = [clients[c] EXCEPT !.pc = label] /\ clients[c] \in Local
      /\ Knows(clients[c], runnables)
  BY GotoMoves DEF IInv
<1>2. /\ clients'[c].pc = label /\ clients'[c].runnable = clients[c].runnable
      /\ clients'[c].request = clients[c].request /\ clients'[c].todo = clients[c].todo
      /\ clients'[c].service = clients[c].service
  BY <1>1 DEF Local
<1>3. /\ DOMAIN runnables = 1..Len(runnables) /\ DOMAIN runnables' = 1..Len(runnables')
      /\ Len(runnables) \in Nat /\ Len(runnables') \in Nat
  BY DEF IInv, Typed, NamesKept
<1> QED
  BY <1>1, <1>2, <1>3 DEF Knows, Serviceless, NamesKept

LEMMA ToggleKeeps ==
  ASSUME IInv, NEW c \in Clients, Toggle(c) \/ StopRemoved(c)
  PROVE  IInv'
<1>1. DatabaseTyped' /\ services' = services
  BY DatabaseStays DEF IInv, Typed, Toggle, StopRemoved
<1>2. NamesKept
  BY RunKeepsNames DEF Toggle, StopRemoved
<1>3. Moves(c) /\ Knows(clients'[c], runnables')
  <2>1. CASE Answer(c)
    BY <2>1, AnswerMoves
  <2>2. CASE ~Answer(c)
    <3>1. \/ clients[c].pc = "toggle" /\ Goto(c, "putBack")
          \/ clients[c].pc = "stop" /\ Goto(c, "remove")
      BY <2>2 DEF Toggle, StopRemoved, At
    <3>2. "putBack" \in Steps /\ "remove" \in Steps
      BY DEF Steps
    <3> QED
      BY <1>2, <3>1, <3>2, GotoKnows DEF Serviceless
  <2> QED
    BY <2>1, <2>2
<1> QED
  BY <1>1, <1>2, <1>3, ClientKeeps

LEMMA TodoMoves ==
  ASSUME IInv, NEW c \in Clients, NEW q \in Seq(MaybeConfig), q # <<>>,
         clients' = [clients EXCEPT ![c].todo = q, ![c].pc = "configure"],
         clients[c].pc \in {"ask", "configure", "verify", "save"}, NamesKept
  PROVE  Moves(c) /\ Knows(clients'[c], runnables')
<1>1. /\ clients \in [Clients -> Local] /\ clients[c] \in Local
      /\ Knows(clients[c], runnables)
  BY DEF IInv, Typed
<1> DEFINE x == [clients[c] EXCEPT !.todo = q, !.pc = "configure"]
<1>2. x \in Local
  BY <1>1 DEF Local, Steps
<1>3. /\ x.pc = "configure" /\ x.todo = q /\ x.request = clients[c].request
      /\ x.service = clients[c].service /\ x.runnable = clients[c].runnable
  BY <1>1 DEF Local
<1>4. clients' = [clients EXCEPT ![c] = x]
  BY <1>1
<1> HIDE DEF x
<1>5. Moves(c) /\ clients'[c] = x
  BY <1>1, <1>2, <1>4 DEF Moves
<1>6. /\ DOMAIN runnables = 1..Len(runnables) /\ DOMAIN runnables' = 1..Len(runnables')
      /\ Len(runnables) \in Nat /\ Len(runnables') \in Nat
  BY DEF IInv, Typed, NamesKept
<1> QED
  BY <1>1, <1>3, <1>5, <1>6 DEF Knows, Serviceless, NamesKept

\* The configurations that are left are not none, hence given one by one.
LEMMA ContinueMoves ==
  ASSUME IInv, NEW c \in Clients, Configured(c) \/ Rejected(c), NamesKept,
         clients[c].pc \in {"configure", "verify", "save"}
  PROVE  Moves(c) /\ Knows(clients'[c], runnables')
<1>1. CASE Answer(c)
  BY <1>1, AnswerMoves
<1>2. CASE Goto(c, "update") \/ Goto(c, "clear")
  <2>1. "update" \in Steps /\ "clear" \in Steps
    BY DEF Steps
  <2> QED
    BY <1>2, <2>1, GotoKnows DEF Serviceless
<1>3. CASE /\ Len(todo(c)) > 1
           /\ clients' = [clients EXCEPT ![c].todo = Tail(@), ![c].pc = "configure"]
  <2> DEFINE q == Tail(todo(c))
  <2>1. todo(c) \in Seq(MaybeConfig)
    BY DEF IInv, Typed, Local, todo
  <2>2. q \in Seq(MaybeConfig) /\ Len(q) = Len(todo(c)) - 1
    BY <1>3, <2>1
  <2>3. Len(q) > 0
    BY <1>3, <2>1, <2>2
  <2>4. clients' = [clients EXCEPT ![c].todo = q, ![c].pc = "configure"]
    BY <1>3 DEF todo
  <2> HIDE DEF q
  <2>5. q # <<>>
    BY <2>2, <2>3
  <2> QED
    BY <2>2, <2>4, <2>5, TodoMoves
<1> QED
  BY <1>1, <1>2, <1>3 DEF Configured, Rejected, Continue

LEMMA AskKeeps ==
  ASSUME IInv, NEW c \in Clients, Ask(c)
  PROVE  IInv'
<1>1. /\ DatabaseTyped' /\ UNCHANGED <<services, runnables>>
      /\ clients[c].pc = "ask" /\ Knows(clients[c], runnables) /\ clients[c] \in Local
  BY DatabaseStays DEF IInv, Typed, Ask, At, manager
<1>2. NamesKept
  BY <1>1, UnchangedNames
<1>3. CASE Answer(c)
  BY <1>1, <1>2, <1>3, AnswerMoves, ClientKeeps
<1>4. CASE ~Answer(c)
  <2>1. PICK old \in {<<>>} \cup {<<service(c).config>> : x \in {"put"} \cap {Op(c)}} :
          clients' = [clients EXCEPT ![c].todo = Append(old, request(c).config),
                                     ![c].pc = "configure"]
    BY <1>4 DEF Ask
  <2>2. service(c).config \in MaybeConfig /\ request(c).config \in MaybeConfig
    BY <1>1, RequestFacts DEF Knows, Serviceless, Row, service, request
  <2>3. old \in Seq(MaybeConfig)
    BY <2>2
  <2> DEFINE q == Append(old, request(c).config)
  <2>4. q \in Seq(MaybeConfig) /\ q # <<>>
    BY <2>2, <2>3, AppendProperties
  <2>5. clients' = [clients EXCEPT ![c].todo = q, ![c].pc = "configure"]
    BY <2>1
  <2> HIDE DEF q
  <2>6. Moves(c) /\ Knows(clients'[c], runnables')
    BY <1>1, <1>2, <2>4, <2>5, TodoMoves
  <2> QED
    BY <1>1, <1>2, <2>6, ClientKeeps
<1> QED
  BY <1>3, <1>4

LEMMA ConfigureKeeps ==
  ASSUME IInv, NEW c \in Clients, Configure(c)
  PROVE  IInv'
<1>1. /\ DatabaseTyped' /\ services' = services
      /\ clients[c].pc = "configure"
  BY DatabaseStays DEF IInv, Typed, Configure, At
<1>2. CASE Configured(c) /\ UNCHANGED runnables
  BY <1>1, <1>2, UnchangedNames, ContinueMoves, ClientKeeps
<1>3. CASE Goto(c, "verify") /\ runnables' = Run({runnable(c)}, FALSE)
  <2>1. NamesKept /\ "verify" \in Steps
    BY <1>3, RunKeepsNames DEF Steps
  <2> QED
    BY <1>1, <1>3, <2>1, GotoKnows, ClientKeeps DEF Serviceless
<1> QED
  BY <1>2, <1>3 DEF Configure

\* The configuration of a runnable is replaced.
LEMMA VerifyKeeps ==
  ASSUME IInv, NEW c \in Clients, Verify(c)
  PROVE  IInv'
<1>1. /\ DatabaseTyped' /\ services' = services
      /\ clients[c].pc = "verify" /\ Knows(clients[c], runnables) /\ clients[c] \in Local
      /\ runnables \in Seq(RunnableRow)
      /\ Len(runnables) \in Nat /\ DOMAIN runnables = 1..Len(runnables)
  BY DatabaseStays DEF IInv, Typed, Verify, At
<1>2. CASE (Rejected(c) \/ Answer(c)) /\ UNCHANGED runnables
  BY <1>1, <1>2, UnchangedNames, ContinueMoves, AnswerMoves, ClientKeeps
<1>3. CASE /\ runnables' = [runnables EXCEPT ![runnable(c)].config = Head(todo(c))]
           /\ Goto(c, "save")
  <2> DEFINE k == Head(todo(c))
             i == runnable(c)
  <2>1. k \in MaybeConfig
    BY <1>1 DEF Knows, Local, todo
  <2>2. i \in 1..Len(runnables)
    BY <1>1 DEF Knows, runnable
  <2>3. runnables' = [runnables EXCEPT ![i].config = k]
    BY <1>3
  <2> HIDE DEF k, i
  <2>4. runnables[i] \in RunnableRow
    BY <1>1, <2>2
  <2> DEFINE r == [runnables[i] EXCEPT !.config = k]
  <2>5. r \in RunnableRow /\ r.service = runnables[i].service
    BY <2>1, <2>4 DEF RunnableRow
  <2>6. runnables' = [runnables EXCEPT ![i] = r]
    BY <2>3
  <2> HIDE DEF r
  <2>7. /\ runnables' \in Seq(RunnableRow) /\ Len(runnables') = Len(runnables)
        /\ \A j \in 1..Len(runnables) : runnables'[j] = IF j = i THEN r ELSE runnables[j]
    BY <1>1, <2>2, <2>5, <2>6
  <2>8. NamesKept /\ "save" \in Steps
    BY <1>1, <2>5, <2>7 DEF NamesKept, Steps
  <2> QED
    BY <1>1, <1>3, <2>8, GotoKnows, ClientKeeps DEF Serviceless
<1> QED
  BY <1>2, <1>3 DEF Verify

(***************************************************************************)
(* A row is written under its identifier, and only its name and its        *)
(* configuration change.                                                   *)
(***************************************************************************)
LEMMA UpdatedIsRow ==
  ASSUME rows \subseteq Row, NEW s \in Row, NEW name \in Names, NEW config \in MaybeConfig,
         Writable(s, name)
  PROVE  Updated(s, name, config) \in Row /\ Updated(s, name, config).name = name
<1>1. (CHOOSE row \in WithId(s.id) : TRUE) \in Row
  BY DEF Writable, WithId
<1> QED
  BY <1>1 DEF Updated, Row

LEMMA WriteKeepsRows ==
  ASSUME DatabaseTyped, NEW s \in Row, NEW name \in Names, NEW config \in MaybeConfig,
         Write(s, name, config)
  PROVE  DatabaseTyped'
<1>1. CASE Writable(s, name)
  <2>1. Updated(s, name, config) \in Row
    BY <1>1, UpdatedIsRow DEF DatabaseTyped
  <2>2. (rows \ WithId(s.id)) \cup {Updated(s, name, config)} \in SUBSET Row
        /\ plugins \in SUBSET Plugins /\ lastId \in Nat
    BY <2>1 DEF DatabaseTyped
  <2> QED
    BY <1>1, <2>2, ExecuteTypes DEF Write
<1>2. CASE ~Writable(s, name)
  BY <1>2, DatabaseStays DEF Write
<1> QED
  BY <1>1, <1>2

\* The runnable saves what it remembers, and remembers what it has saved:
\* under the same name.
LEMMA SaveKeeps ==
  ASSUME IInv, NEW c \in Clients, Save(c)
  PROVE  IInv'
<1>1. /\ DatabaseTyped /\ services' = services
      /\ clients[c].pc = "save" /\ Knows(clients[c], runnables)
      /\ runnables \in Seq(RunnableRow)
      /\ Len(runnables) \in Nat /\ DOMAIN runnables = 1..Len(runnables)
  BY DEF IInv, Typed, Save, At
<1> DEFINE i == runnable(c)
           s == runnables[i].service
           config == runnables[i].config
<1>2. i \in 1..Len(runnables)
  BY <1>1 DEF Knows, runnable
<1>3. /\ Write(s, s.name, config)
      /\ runnables' = IF Written(s, s.name)
                      THEN [runnables EXCEPT ![i].service = Updated(s, s.name, config)]
                      ELSE runnables
      /\ Configured(c)
  BY DEF Save
<1> HIDE DEF i
<1>4. runnables[i] \in RunnableRow
  BY <1>1, <1>2
<1>5. s \in Row /\ s.name \in Names /\ config \in MaybeConfig
  BY <1>4 DEF RunnableRow, Row
<1>6. DatabaseTyped'
  BY <1>1, <1>3, <1>5, WriteKeepsRows
<1>7. NamesKept
  <2>1. CASE UNCHANGED runnables
    BY <2>1, UnchangedNames
  <2>2. CASE Written(s, s.name)
    <3> DEFINE new == Updated(s, s.name, config)
               r == [runnables[i] EXCEPT !.service = new]
    <3>1. new \in Row /\ new.name = s.name
      BY <1>1, <1>5, <2>2, UpdatedIsRow DEF Written, DatabaseTyped
    <3>2. runnables' = [runnables EXCEPT ![i].service = new]
      BY <1>3, <2>2
    <3> HIDE DEF new
    <3>3. r \in RunnableRow /\ r.service.name = s.name
      BY <1>4, <3>1 DEF RunnableRow
    <3>4. runnables' = [runnables EXCEPT ![i] = r]
      BY <3>2
    <3> HIDE DEF r
    <3>5. /\ runnables' \in Seq(RunnableRow) /\ Len(runnables') = Len(runnables)
          /\ \A j \in 1..Len(runnables) : runnables'[j] = IF j = i THEN r ELSE runnables[j]
      BY <1>1, <1>2, <3>3, <3>4
    <3> QED
      BY <1>1, <3>3, <3>5 DEF NamesKept
  <2> QED
    BY <1>3, <2>1, <2>2
<1>8. Moves(c) /\ Knows(clients'[c], runnables')
  BY <1>1, <1>3, <1>7, ContinueMoves
<1> QED
  BY <1>1, <1>6, <1>7, <1>8, ClientKeeps

LEMMA UpdateKeeps ==
  ASSUME IInv, NEW c \in Clients, Update(c)
  PROVE  IInv'
<1>1. /\ DatabaseTyped /\ UNCHANGED <<services, runnables>>
      /\ clients[c].pc \in {"update", "clear"} /\ Knows(clients[c], runnables)
  BY DEF IInv, Typed, Update, At, manager
<1>2. service(c) \in Row /\ NewName(c) \in Names /\ NewConfig(c) \in MaybeConfig
  BY <1>1, RequestFacts
  DEF Knows, Serviceless, Row, MaybeConfig, NewName, NewConfig, Op, service, request
<1>3. DatabaseTyped'
  BY <1>1, <1>2, WriteKeepsRows DEF Update
<1> QED
  BY <1>1, <1>3, AnswerMoves, UnchangedNames, ClientKeeps DEF Update

------------------------------------------------------------------------------
(* Deletions, and the rest.                                                *)

LEMMA DeleteKeeps ==
  ASSUME IInv, NEW c \in Clients, Delete(c)
  PROVE  IInv'
<1>1. DatabaseTyped'
  <2>1. /\ plugins \in SUBSET Plugins /\ rows \ WithId(service(c).id) \in SUBSET Row
        /\ lastId \in Nat /\ DatabaseTyped
    BY DEF IInv, Typed, DatabaseTyped
  <2> QED
    BY <2>1, ExecuteTypes DEF Delete
<1>2. UNCHANGED <<services, runnables>> /\ NamesKept
  BY UnchangedNames DEF Delete, manager
<1>3. "stop" \in Steps /\ clients[c].pc = "delete"
  BY DEF Steps, Delete, At
<1>4. Moves(c) /\ Knows(clients'[c], runnables')
  BY <1>2, <1>3, AnswerMoves, GotoKnows DEF Delete, Serviceless
<1> QED
  BY <1>1, <1>2, <1>4, ClientKeeps

LEMMA RemoveAllKeeps ==
  ASSUME IInv, NEW c \in Clients, RemoveAll(c)
  PROVE  IInv'
<1>1. /\ DatabaseTyped' /\ Len(runnables) \in Nat
      /\ clients \in [Clients -> Local]
      /\ services \in [Names -> 0..Len(runnables)]
  BY DatabaseStays DEF IInv, Typed, RemoveAll
<1>2. PICK names, numbers :
        /\ runnables' = Run(numbers, FALSE)
        /\ services' = [n \in Names |-> IF n \in names THEN None ELSE services[n]]
  BY DEF RemoveAll
<1>3. NamesKept /\ Len(runnables') \in Nat
  <2>1. NamesKept
    BY <1>2, RunKeepsNames
  <2> QED
    BY <2>1 DEF NamesKept
<1>4. Moves(c) /\ Knows(clients'[c], runnables')
  BY AnswerMoves DEF RemoveAll
<1>5. Typed'
  <2>1. Len(runnables) <= Len(runnables')
    BY <1>3 DEF NamesKept
  <2>2. services' \in [Names -> 0..Len(runnables')]
    <3> DEFINE top == Len(runnables')
               old == Len(runnables)
    <3>1. top \in Nat /\ old \in Nat /\ old <= top /\ services \in [Names -> 0..old]
      BY <1>1, <1>3, <2>1
    <3> HIDE DEF top, old
    <3>2. ASSUME NEW n \in Names
          PROVE  (IF n \in names THEN None ELSE services[n]) \in 0..top
      BY <3>1 DEF None
    <3>3. services' \in [Names -> 0..top]
      BY <1>2, <3>2
    <3> QED
      BY <3>3 DEF top
  <2> QED
    BY <1>1, <1>3, <1>4, <2>2 DEF Typed, NamesKept, Moves
<1>6. ASSUME NEW d \in Clients PROVE Knows(clients'[d], runnables')
  <2>1. CASE d = c
    BY <1>4, <2>1
  <2>2. CASE d # c
    <3>1. clients'[d] = clients[d] /\ Knows(clients[d], runnables)
      BY <1>4, <2>2 DEF IInv, Moves
    <3>2. DOMAIN runnables = 1..Len(runnables) /\ DOMAIN runnables' = 1..Len(runnables')
      BY <1>3 DEF IInv, Typed, NamesKept
    <3> QED
      BY <1>1, <1>3, <3>1, <3>2 DEF Knows, Serviceless, NamesKept
  <2> QED
    BY <2>1, <2>2
<1>7. FoundByItsName'
  <2> SUFFICES ASSUME NEW n \in Names, services'[n] # None
               PROVE  runnables'[services'[n]].service.name = n
    BY DEF FoundByItsName
  <2>1. services'[n] = services[n]
    BY <1>2
  <2>2. services[n] \in 1..Len(runnables)
    BY <1>1, <2>1 DEF None
  <2>3. runnables[services[n]].service.name = n
    BY <2>1 DEF IInv, FoundByItsName
  <2> QED
    BY <1>3, <2>1, <2>2, <2>3 DEF NamesKept
<1> QED
  BY <1>5, <1>6, <1>7 DEF IInv

\* A loop that ends is a runnable that is stopped by no client.
LEMMA LoopEndsKeeps == IInv /\ LoopEnds => IInv'
<1> SUFFICES ASSUME IInv, LoopEnds PROVE IInv'
  OBVIOUS
<1>1. UNCHANGED <<services, clients>> /\ Len(runnables) \in Nat /\ DatabaseTyped'
  BY DatabaseStays DEF LoopEnds, IInv, Typed
<1>2. NamesKept /\ Len(runnables') \in Nat
  <2>1. PICK i : runnables' = Run({i}, FALSE)
    BY DEF LoopEnds
  <2>2. NamesKept
    BY <2>1, RunKeepsNames
  <2> QED
    BY <2>2 DEF NamesKept
<1>3. DOMAIN runnables = 1..Len(runnables) /\ DOMAIN runnables' = 1..Len(runnables')
  BY <1>2 DEF IInv, Typed, NamesKept
<1>4. Typed'
  BY <1>1, <1>2 DEF IInv, Typed, NamesKept
<1>5. \A c \in Clients : Knows(clients'[c], runnables')
  BY <1>1, <1>2, <1>3 DEF IInv, Knows, Serviceless, NamesKept
<1>6. FoundByItsName'
  BY <1>1, <1>2 DEF IInv, Typed, FoundByItsName, NamesKept, None
<1> QED
  BY <1>4, <1>5, <1>6 DEF IInv

LEMMA RestartKeeps == IInv /\ Restart => IInv'
<1> SUFFICES ASSUME IInv, Restart PROVE IInv'
  OBVIOUS
<1> USE DEF Restart
<1>1. Resting \in Local /\ Resting.pc = "idle" /\ Resting.service = Null
  BY DEF Resting, Local, Steps, None, MaybeConfig
<1>2. Typed'
  <2>1. DatabaseTyped'
    BY DEF IInv, Typed, DatabaseTyped
  <2> QED
    BY <1>1, <2>1 DEF Typed, None
<1>3. \A c \in Clients : clients'[c].pc = "idle" /\ clients'[c].service = Null
  BY <1>1
<1>4. \A c \in Clients : Knows(clients'[c], runnables')
  BY <1>3 DEF Knows, Serviceless
<1>5. FoundByItsName'
  BY DEF FoundByItsName
<1> QED
  BY <1>2, <1>4, <1>5 DEF IInv

LEMMA IInvIsInductive == IInv /\ [Next]_vars => IInv'
<1> SUFFICES ASSUME IInv, [Next]_vars PROVE IInv'
  OBVIOUS
<1>1. CASE UNCHANGED vars
  BY <1>1, DatabaseStays DEF vars, manager, IInv, Typed, FoundByItsName
<1>2. CASE LoopEnds \/ Restart
  BY <1>2, LoopEndsKeeps, RestartKeeps
<1>3. ASSUME NEW c \in Clients, Receive(c) \/ Serve(c)
      PROVE  IInv'
  BY <1>3, ReceiveKeeps, TransactionKeeps, InsertKeeps, ReadBackKeeps, FindKeeps, GetKeeps, RegisterKeeps, ToggleKeeps,
     AskKeeps, ConfigureKeeps, VerifyKeeps, SaveKeeps, UpdateKeeps, DeleteKeeps,
     RemoveKeeps, RemoveAllKeeps DEF Serve
<1> QED
  BY <1>1, <1>2, <1>3 DEF Next

(***************************************************************************)
(* The map leads from a name to a runnable that remembers this name, for   *)
(* any number of requests at a time, and whatever they rename and delete:  *)
(* a runnable is found by one name at most.                                *)
(***************************************************************************)
THEOREM RunnablesAreFoundByTheirName == Spec => []FoundByItsName
<1>1. IInv => FoundByItsName
  BY DEF IInv
<1> QED
  BY <1>1, InitIInv, IInvIsInductive, PTL DEF Spec

------------------------------------------------------------------------------
(* What a step of a request leaves.                                        *)

\* What a step of a request leaves of the locals of its client.
Follows(c) ==
  \/ clients'[c] = Resting
  \/ /\ clients'[c].pc # "idle"
     /\ clients'[c].request = clients[c].request
     /\ clients'[c].service = clients[c].service \/ clients[c].pc \in {"insert", "readBack", "find"}
     /\ clients'[c].failed = clients[c].failed \/ clients[c].pc \in {"insert", "readBack", "deletePlugin"}
     /\ clients'[c].runnable = clients[c].runnable \/ clients[c].pc \in {"get", "register"}
     /\ clients'[c].todo = clients[c].todo \/ clients[c].pc \in {"ask", "configure", "verify", "save"}

LEMMA RestingIsIdle == Resting \in Local /\ Resting.pc = "idle" /\ Resting.runnable = None
                       /\ Resting.service = Null
BY DEF Resting, Local, Steps, None, MaybeConfig

LEMMA LocalsFollow ==
  ASSUME IInv, NEW c \in Clients, Serve(c)
  PROVE  Moves(c) /\ Follows(c) /\ ~At(c, "idle") /\ UNCHANGED overlaps
<1>1. clients \in [Clients -> Local] /\ clients[c] \in Local /\ IInv'
  <2>1. [Next]_vars
    BY DEF Next
  <2> QED
    BY <2>1, IInvIsInductive DEF IInv, Typed
<1>2. clients' \in [Clients -> Local]
  BY <1>1 DEF IInv, Typed
<1>3. ASSUME Answer(c) PROVE Moves(c) /\ Follows(c)
  <2>1. clients' = [clients EXCEPT ![c] = Resting] /\ Moves(c)
    BY <1>3, AnswerMoves DEF Answer
  <2>2. clients'[c] = Resting
    BY <1>1, <2>1
  <2> QED
    BY <2>1, <2>2 DEF Follows
<1>4. ASSUME NEW label \in Steps \ {"idle"}, Goto(c, label)
      PROVE  Moves(c) /\ Follows(c)
  BY <1>1, <1>2, <1>4, GotoMoves DEF Goto, Moves, Follows, Local
<1> DEFINE L == Steps \ {"idle"}
<1>5. ASSUME NEW s, NEW label \in L, clients[c].pc \in {"insert", "readBack", "find"},
             clients' = [clients EXCEPT ![c].service = s, ![c].pc = label]
      PROVE  Moves(c) /\ Follows(c)
  <2>1. clients'[c] = [clients[c] EXCEPT !.service = s, !.pc = label]
    BY <1>1, <1>5
  <2>2. \A d \in Clients : d # c => clients'[d] = clients[d]
    BY <1>1, <1>5
  <2> QED
    BY <1>1, <1>2, <1>5, <2>1, <2>2 DEF Moves, Follows, Local
<1>6. ASSUME NEW i, NEW label \in L, clients[c].pc \in {"get", "register"},
             clients' = [clients EXCEPT ![c].runnable = i, ![c].pc = label]
      PROVE  Moves(c) /\ Follows(c)
  <2>1. clients'[c] = [clients[c] EXCEPT !.runnable = i, !.pc = label]
    BY <1>1, <1>6
  <2>2. \A d \in Clients : d # c => clients'[d] = clients[d]
    BY <1>1, <1>6
  <2> QED
    BY <1>1, <1>2, <1>6, <2>1, <2>2 DEF Moves, Follows, Local
<1>7. ASSUME clients[c].pc \in {"ask", "configure", "verify", "save"},
             \E q : clients' = [clients EXCEPT ![c].todo = q, ![c].pc = "configure"]
      PROVE  Moves(c) /\ Follows(c)
  <2> PICK q : clients' = [clients EXCEPT ![c].todo = q, ![c].pc = "configure"]
    BY <1>7
  <2>1. clients'[c] = [clients[c] EXCEPT !.todo = q, !.pc = "configure"]
    BY <1>1, <1>7
  <2>2. \A d \in Clients : d # c => clients'[d] = clients[d]
    BY <1>1, <1>7
  <2> QED
    BY <1>1, <1>2, <1>7, <2>1, <2>2 DEF Moves, Follows, Local
<1>8. "get" \in L /\ "register" \in L /\ "ask" \in L /\ "toggle" \in L /\ "verify" \in L
      /\ "save" \in L /\ "update" \in L /\ "clear" \in L /\ "stop" \in L /\ "remove" \in L
      /\ "putBack" \in L /\ "removeAll" \in L /\ "delete" \in L /\ "begin" \in L
      /\ "findPlugin" \in L /\ "insert" \in L /\ "readBack" \in L /\ "commit" \in L
      /\ "end" \in L /\ "deletePlugin" \in L
  BY DEF Steps
<1> HIDE DEF L
<1>9. ASSUME NEW i, UseRunnable(c, i), clients[c].pc \in {"get", "register"}
      PROVE  Moves(c) /\ Follows(c)
  BY <1>3, <1>6, <1>8, <1>9 DEF UseRunnable
<1>10. ASSUME NEW label \in L, Goto(c, label) PROVE Moves(c) /\ Follows(c)
  BY <1>4, <1>10 DEF L
<1>11. ASSUME Configured(c) \/ Rejected(c), clients[c].pc \in {"configure", "verify", "save"}
       PROVE  Moves(c) /\ Follows(c)
  <2>1. CASE clients' = [clients EXCEPT ![c].todo = Tail(@), ![c].pc = "configure"]
    <3> DEFINE q == Tail(clients[c].todo)
    <3>1. clients' = [clients EXCEPT ![c].todo = q, ![c].pc = "configure"]
      BY <2>1
    <3> HIDE DEF q
    <3>2. clients[c].pc \in {"ask", "configure", "verify", "save"}
      BY <1>11
    <3> QED
      BY <1>7, <3>1, <3>2
  <2> QED
    BY <1>3, <1>8, <1>10, <1>11, <2>1 DEF Configured, Rejected, Continue
<1>12. ASSUME Fail(c), clients[c].pc \in {"insert", "readBack", "deletePlugin"}
       PROVE  Moves(c) /\ Follows(c)
  BY <1>12, FailMoves DEF Follows
<1>13. ASSUME Finish(c) PROVE Moves(c) /\ Follows(c)
  BY <1>3, <1>8, <1>10, <1>13 DEF Finish
<1>14. Moves(c) /\ Follows(c)
  <2> USE DEF At
  <2>1. CASE Insert(c) \/ ReadBack(c)
    BY <1>5, <1>8, <1>12, <2>1 DEF Insert, ReadBack
  <2>7. CASE FindPlugin(c) \/ Begin(c) \/ DeletePlugin(c)
    BY <1>3, <1>8, <1>10, <1>12, <2>7 DEF FindPlugin, Begin, DeletePlugin
  <2>8. CASE Rollback(c) \/ Commit(c) \/ End(c)
    BY <1>8, <1>10, <1>13, <2>8 DEF Rollback, Commit, End
  <2>2. CASE Find(c)
    <3>1. CASE ~Answer(c)
      <4>3. PICK s :
              clients' = [clients EXCEPT ![c].service = s,
                  ![c].pc = CASE Op(c) = "delete" -> "delete"
                              [] Op(c) = "put" /\ request(c).config = Null -> "update"
                              [] OTHER -> "get"]
        BY <2>2, <3>1 DEF Find
      <4>1. PICK label \in {"delete", "update", "get"} :
              clients' = [clients EXCEPT ![c].service = s, ![c].pc = label]
        BY <4>3
      <4>2. clients[c].pc \in {"insert", "readBack", "find"} /\ label \in L
        BY <1>8, <2>2 DEF Find
      <4> QED
        BY <1>5, <4>1, <4>2
    <3> QED
      BY <1>3, <3>1
  <2>3. CASE Get(c) \/ Register(c)
    BY <1>3, <1>6, <1>8, <1>9, <2>3 DEF Get, Register
  <2>4. CASE Toggle(c) \/ PutBack(c) \/ Delete(c) \/ StopRemoved(c) \/ Remove(c)
             \/ RemoveAll(c) \/ Update(c)
    BY <1>3, <1>8, <1>10, <2>4
       DEF Toggle, PutBack, Delete, StopRemoved, Remove, RemoveAll, Update
  <2>5. CASE Ask(c)
    <3>1. clients[c].pc \in {"ask", "configure", "verify", "save"}
      BY <2>5 DEF Ask
    <3>2. CASE ~Answer(c)
      <4>1. PICK old : clients' = [clients EXCEPT ![c].todo = Append(old, request(c).config),
                                                  ![c].pc = "configure"]
        BY <2>5, <3>2 DEF Ask
      <4> DEFINE q == Append(old, request(c).config)
      <4>2. clients' = [clients EXCEPT ![c].todo = q, ![c].pc = "configure"]
        BY <4>1
      <4> HIDE DEF q
      <4> QED
        BY <1>7, <3>1, <4>2
    <3> QED
      BY <1>3, <3>2
  <2>6. CASE Configure(c) \/ Verify(c) \/ Save(c)
    BY <1>3, <1>8, <1>10, <1>11, <2>6 DEF Configure, Verify, Save
  <2> QED
    BY <2>1, <2>2, <2>3, <2>4, <2>5, <2>6, <2>7, <2>8 DEF Serve
<1>15. ~At(c, "idle")
  BY DEF Serve, Insert, Find, Get, Register, Toggle, PutBack, Ask, Configure, Verify, Save,
         Update, Delete, StopRemoved, Remove, DeletePlugin, RemoveAll, FindPlugin, Begin,
         ReadBack, Rollback, Commit, End, At
<1>16. UNCHANGED overlaps
  BY DEF Serve, Insert, Find, Get, Register, Toggle, PutBack, Ask, Configure, Verify, Save,
         Update, Delete, StopRemoved, Remove, DeletePlugin, RemoveAll, FindPlugin, Begin,
         ReadBack, Rollback, Commit, End
<1> QED
  BY <1>14, <1>15, <1>16

\* No runnable starts, but the one that this client starts.
Starts(i, c) == At(c, "toggle") /\ Op(c) = "start" /\ i = runnable(c)
NoneStarts(c) ==
  \A i \in 1..Len(runnables') : runnables'[i].running =>
    (i <= Len(runnables) /\ runnables[i].running) \/ Starts(i, c)

LEMMA RunStartsOnly ==
  ASSUME IInv, NEW numbers, NEW b \in BOOLEAN, runnables' = Run(numbers, b)
  PROVE  \A i \in 1..Len(runnables') :
           /\ i <= Len(runnables)
           /\ runnables'[i].running =>
                (~(i \in numbers) /\ runnables[i].running) \/ (i \in numbers /\ b)
<1>1. runnables \in Seq(RunnableRow) /\ Len(runnables) \in Nat /\ DOMAIN runnables = 1..Len(runnables)
  BY DEF IInv, Typed
<1>2. \A i \in 1..Len(runnables) : runnables[i] \in RunnableRow
  BY <1>1
<1>3. \A i \in 1..Len(runnables) : runnables'[i] =
        IF i \in numbers THEN [runnables[i] EXCEPT !.running = b] ELSE runnables[i]
  BY <1>1 DEF Run
<1>4. \A i \in 1..Len(runnables) : i \in numbers => runnables'[i].running = b
  BY <1>2, <1>3 DEF RunnableRow
<1>5. runnables' \in Seq(RunnableRow) /\ NamesKept
  BY RunKeepsNames DEF NamesKept
<1>6. DOMAIN runnables' = 1..Len(runnables) /\ DOMAIN runnables' = 1..Len(runnables')
      /\ Len(runnables') \in Nat
  BY <1>1, <1>5 DEF Run
<1> QED
  BY <1>1, <1>3, <1>4, <1>6

\* A runnable is replaced by one of the same name, that runs if it did.
LEMMA ReplacedKeeps ==
  ASSUME IInv, NEW i \in DOMAIN runnables, NEW r \in RunnableRow,
         runnables' = [runnables EXCEPT ![i] = r],
         r.service.name = runnables[i].service.name, r.running = runnables[i].running
  PROVE  /\ NamesKept
         /\ Len(runnables') = Len(runnables)
         /\ \A j \in 1..Len(runnables') : runnables'[j].running => runnables[j].running
<1>1. runnables \in Seq(RunnableRow) /\ Len(runnables) \in Nat /\ DOMAIN runnables = 1..Len(runnables)
  BY DEF IInv, Typed
<1>2. /\ runnables' \in Seq(RunnableRow) /\ Len(runnables') = Len(runnables)
      /\ \A j \in 1..Len(runnables) : runnables'[j] = IF j = i THEN r ELSE runnables[j]
  BY <1>1
<1>3. NamesKept
  BY <1>1, <1>2 DEF NamesKept
<1> QED
  BY <1>2, <1>3

LEMMA SaveReplaces ==
  ASSUME IInv, NEW c \in Clients, Save(c)
  PROVE  \/ UNCHANGED runnables
         \/ \E i \in DOMAIN runnables, r \in RunnableRow :
              /\ runnables' = [runnables EXCEPT ![i] = r]
              /\ r.service.name = runnables[i].service.name /\ r.running = runnables[i].running
<1>1. /\ rows \subseteq Row
      /\ clients[c].pc = "save" /\ Knows(clients[c], runnables)
      /\ runnables \in Seq(RunnableRow)
      /\ Len(runnables) \in Nat /\ DOMAIN runnables = 1..Len(runnables)
  BY DEF IInv, Typed, DatabaseTyped, Save, At
<1> DEFINE i == runnable(c)
           s == runnables[i].service
           config == runnables[i].config
           new == Updated(s, s.name, config)
<1>2. i \in 1..Len(runnables)
  BY <1>1 DEF Knows, runnable
<1>3. runnables' = IF Written(s, s.name)
                   THEN [runnables EXCEPT ![i].service = new]
                   ELSE runnables
  BY DEF Save
<1> HIDE DEF i
<1>4. runnables[i] \in RunnableRow
  BY <1>1, <1>2
<1>5. s \in Row /\ s.name \in Names /\ config \in MaybeConfig
  BY <1>4 DEF RunnableRow, Row
<1>6. CASE Written(s, s.name)
  <2> DEFINE r == [runnables[i] EXCEPT !.service = new]
  <2>1. new \in Row /\ new.name = s.name
    BY <1>1, <1>5, <1>6, UpdatedIsRow DEF Written
  <2>2. runnables' = [runnables EXCEPT ![i].service = new]
    BY <1>3, <1>6
  <2> HIDE DEF new
  <2>3. r \in RunnableRow /\ r.service.name = s.name /\ r.running = runnables[i].running
    BY <1>4, <2>1 DEF RunnableRow
  <2>4. runnables' = [runnables EXCEPT ![i] = r]
    BY <2>2
  <2> HIDE DEF r
  <2> QED
    BY <1>1, <1>2, <2>3, <2>4
<1> QED
  BY <1>3, <1>6

LEMMA VerifyReplaces ==
  ASSUME IInv, NEW c \in Clients, Verify(c)
  PROVE  \/ UNCHANGED runnables
         \/ \E i \in DOMAIN runnables, r \in RunnableRow :
              /\ runnables' = [runnables EXCEPT ![i] = r]
              /\ r.service.name = runnables[i].service.name /\ r.running = runnables[i].running
<1>1. /\ clients[c].pc = "verify" /\ Knows(clients[c], runnables) /\ clients[c] \in Local
      /\ runnables \in Seq(RunnableRow)
      /\ Len(runnables) \in Nat /\ DOMAIN runnables = 1..Len(runnables)
  BY DEF IInv, Typed, Verify, At
<1> DEFINE k == Head(todo(c))
           i == runnable(c)
<1>2. k \in MaybeConfig /\ i \in DOMAIN runnables
  BY <1>1 DEF Knows, Local, todo, runnable
<1>3. UNCHANGED runnables \/ runnables' = [runnables EXCEPT ![i].config = k]
  BY DEF Verify
<1> HIDE DEF k, i
<1>4. runnables[i] \in RunnableRow
  BY <1>1, <1>2
<1> DEFINE r == [runnables[i] EXCEPT !.config = k]
<1>5. r \in RunnableRow /\ r.service = runnables[i].service /\ r.running = runnables[i].running
  BY <1>2, <1>4 DEF RunnableRow
<1>6. UNCHANGED runnables \/ runnables' = [runnables EXCEPT ![i] = r]
  BY <1>3
<1> HIDE DEF r
<1> QED
  BY <1>2, <1>5, <1>6

LEMMA GetAppends ==
  ASSUME IInv, NEW c \in Clients, Get(c), ~UNCHANGED runnables
  PROVE  /\ Op(c) \in {"post", "put"} /\ Known(c) = None
         /\ clients'[c].pc = "register" /\ clients'[c].runnable = Len(runnables) + 1
         /\ clients'[c].service = service(c) /\ clients'[c].request = request(c)
         /\ Len(runnables') = Len(runnables) + 1 /\ NamesKept
         /\ runnables'[Len(runnables) + 1] = NewRunnable(c)
         /\ \A i \in 1..Len(runnables) : runnables'[i] = runnables[i]
<1>1. /\ runnables \in Seq(RunnableRow) /\ Len(runnables) \in Nat
      /\ clients[c].pc = "get" /\ Knows(clients[c], runnables)
  BY DEF IInv, Typed, Get, At
<1>2. service(c) \in Row
  BY <1>1 DEF Knows, Serviceless, service
<1> DEFINE new == NewRunnable(c)
           number == Len(runnables) + 1
<1>3. /\ Op(c) \in {"post", "put"} /\ Known(c) = None
      /\ runnables' = Append(runnables, new)
      /\ clients' = [clients EXCEPT ![c].runnable = number, ![c].pc = "register"]
  BY DEF Get
<1>4. new \in RunnableRow
  BY <1>2 DEF NewRunnable, RunnableRow, MaybeConfig
<1> HIDE DEF new
<1>5. /\ runnables' \in Seq(RunnableRow) /\ Len(runnables') = number
      /\ runnables'[number] = new
      /\ \A i \in 1..Len(runnables) : runnables'[i] = runnables[i]
  BY <1>1, <1>3, <1>4, AppendProperties
<1>6. NamesKept
  BY <1>1, <1>5 DEF NamesKept
<1>7. number \in Nat /\ "register" \in Steps
  BY <1>1 DEF Steps
<1> HIDE DEF number
<1>8. /\ clients[c] \in Local
      /\ clients'[c] = [clients[c] EXCEPT !.runnable = number, !.pc = "register"]
  BY <1>3, <1>7, RunnableMoves
<1>9. /\ clients'[c].pc = "register" /\ clients'[c].runnable = number
      /\ clients'[c].service = service(c) /\ clients'[c].request = request(c)
  BY <1>8 DEF Local, service, request
<1> QED
  BY <1>3, <1>5, <1>6, <1>9 DEF new, number

LEMMA RunnablesFollow ==
  ASSUME IInv, NEW c \in Clients, Serve(c)
  PROVE  NamesKept /\ NoneStarts(c)
<1>1. runnables \in Seq(RunnableRow) /\ Len(runnables) \in Nat
  BY DEF IInv, Typed
<1>2. CASE UNCHANGED runnables
  BY <1>1, <1>2, UnchangedNames DEF NoneStarts
<1>3. CASE Get(c) /\ ~UNCHANGED runnables
  <2>1. /\ Len(runnables') = Len(runnables) + 1 /\ NamesKept
        /\ runnables'[Len(runnables) + 1] = NewRunnable(c)
        /\ \A i \in 1..Len(runnables) : runnables'[i] = runnables[i]
    BY <1>3, GetAppends
  <2>2. NewRunnable(c).running = FALSE
    BY DEF NewRunnable
  <2> QED
    BY <1>1, <2>1, <2>2 DEF NoneStarts
<1>4. CASE Verify(c) \/ Save(c)
  <2>1. PICK i \in DOMAIN runnables, r \in RunnableRow :
              \/ UNCHANGED runnables
              \/ /\ runnables' = [runnables EXCEPT ![i] = r]
                 /\ r.service.name = runnables[i].service.name /\ r.running = runnables[i].running
    <3>1. CASE ~UNCHANGED runnables
      BY <1>4, <3>1, VerifyReplaces, SaveReplaces
    <3>2. CASE UNCHANGED runnables
      <4>1. runnable(c) \in DOMAIN runnables
        BY <1>4 DEF IInv, Knows, runnable, Verify, Save, At
      <4> QED
        BY <1>1, <3>2, <4>1
    <3> QED
      BY <3>1, <3>2
  <2>2. CASE runnables' = [runnables EXCEPT ![i] = r]
             /\ r.service.name = runnables[i].service.name /\ r.running = runnables[i].running
    <3>1. /\ NamesKept
          /\ Len(runnables') = Len(runnables)
          /\ \A j \in 1..Len(runnables') : runnables'[j].running => runnables[j].running
      BY <2>2, ReplacedKeeps
    <3> QED
      BY <1>1, <3>1 DEF NoneStarts
  <2> QED
    BY <1>2, <2>1, <2>2
<1>5. ASSUME NEW numbers, runnables' = Run(numbers, FALSE) PROVE NamesKept /\ NoneStarts(c)
  <2>1. NamesKept
    BY <1>5, RunKeepsNames
  <2>2. \A i \in 1..Len(runnables') :
           /\ i <= Len(runnables)
           /\ runnables'[i].running =>
                (~(i \in numbers) /\ runnables[i].running) \/ (i \in numbers /\ FALSE)
    BY <1>5, RunStartsOnly
  <2> QED
    BY <2>1, <2>2 DEF NoneStarts
<1>6. CASE Configure(c) \/ StopRemoved(c) \/ RemoveAll(c)
  BY <1>2, <1>5, <1>6 DEF Configure, StopRemoved, RemoveAll
<1>7. CASE Toggle(c)
  <2>1. runnables' = Run({runnable(c)}, Op(c) = "start") /\ At(c, "toggle")
    BY <1>7 DEF Toggle
  <2>2. (Op(c) = "start") \in BOOLEAN
    OBVIOUS
  <2>3. NamesKept
    BY <2>1, <2>2, RunKeepsNames
  <2>4. \A i \in 1..Len(runnables') :
           /\ i <= Len(runnables)
           /\ runnables'[i].running =>
                (~(i \in {runnable(c)}) /\ runnables[i].running) \/ (i \in {runnable(c)} /\ Op(c) = "start")
    BY <2>1, <2>2, RunStartsOnly
  <2> QED
    BY <2>1, <2>3, <2>4 DEF NoneStarts, Starts
<1>8. CASE UNCHANGED manager
  BY <1>2, <1>8 DEF manager
<1> QED
  BY <1>2, <1>3, <1>4, <1>6, <1>7, <1>8
     DEF Serve, Insert, Find, Register, PutBack, Ask, Update, Delete, Remove, DeletePlugin,
         FindPlugin, Begin, ReadBack, Rollback, Commit, End

\* Where a step leads.
Leads(c, from, to) == clients[c].pc = from /\ clients'[c].pc \in to \cup {"idle"}

LEMMA AnswerLeads ==
  ASSUME IInv, NEW c \in Clients, Answer(c)
  PROVE  clients'[c] = Resting /\ clients'[c].pc = "idle"
BY RestingIsIdle DEF IInv, Typed, Answer

LEMMA GotoLeads ==
  ASSUME IInv, NEW c \in Clients, NEW label, Goto(c, label)
  PROVE  clients'[c].pc = label
BY DEF IInv, Typed, Goto, Local

LEMMA UseLeads ==
  ASSUME IInv, NEW c \in Clients, NEW i, UseRunnable(c, i)
  PROVE  \/ clients'[c].pc = "idle"
         \/ /\ clients'[c].runnable = i
            /\ clients'[c].pc = IF Op(c) \in {"post", "put"} THEN "ask" ELSE "toggle"
<1>1. CASE Answer(c)
  BY <1>1, AnswerLeads
<1>2. CASE ~Answer(c)
  BY <1>2 DEF UseRunnable, IInv, Typed, Local
<1> QED
  BY <1>1, <1>2

LEMMA ContinueLeads ==
  ASSUME IInv, NEW c \in Clients, Configured(c) \/ Rejected(c)
  PROVE  clients'[c].pc \in {"idle", "configure", "update", "clear"}
<1>1. CASE clients' = [clients EXCEPT ![c].todo = Tail(@), ![c].pc = "configure"]
  <2>1. clients'[c] = [clients[c] EXCEPT !.todo = Tail(@), !.pc = "configure"]
    BY <1>1 DEF IInv, Typed
  <2>2. clients[c] \in Local
    BY DEF IInv, Typed
  <2> QED
    BY <2>1, <2>2 DEF Local
<1> QED
  BY <1>1, AnswerLeads, GotoLeads DEF Configured, Rejected, Continue

LEMMA Paths ==
  ASSUME IInv, NEW c \in Clients
  PROVE  /\ FindPlugin(c) => Leads(c, "findPlugin", {"begin", "deletePlugin"})
         /\ Begin(c) => Leads(c, "begin", {"insert", "findPlugin"})
         /\ Insert(c) => Leads(c, "insert", {"readBack", "rollback"})
         /\ ReadBack(c) => Leads(c, "readBack", {"commit", "rollback"})
         /\ DeletePlugin(c) => Leads(c, "deletePlugin", {"commit", "rollback"})
         /\ Rollback(c) => Leads(c, "rollback", {"commit"})
         /\ Commit(c) => Leads(c, "commit", {"end", "get", "removeAll"})
         /\ End(c) => Leads(c, "end", {"get", "removeAll"})
         /\ Find(c) => Leads(c, "find", {"delete", "update", "get"})
         /\ Get(c) => Leads(c, "get", {"register", "ask", "toggle"})
         /\ Register(c) => Leads(c, "register", {"ask"})
         /\ Toggle(c) => Leads(c, "toggle", {"putBack"})
         /\ PutBack(c) => Leads(c, "putBack", {})
         /\ Ask(c) => Leads(c, "ask", {"configure"})
         /\ Configure(c) => Leads(c, "configure", {"configure", "update", "clear", "verify"})
         /\ Verify(c) => Leads(c, "verify", {"configure", "update", "clear", "save"})
         /\ Save(c) => Leads(c, "save", {"configure", "update", "clear"})
         /\ Update(c) => clients[c].pc \in {"update", "clear"} /\ clients'[c].pc = "idle"
         /\ Delete(c) => Leads(c, "delete", {"stop"})
         /\ StopRemoved(c) => Leads(c, "stop", {"remove"})
         /\ Remove(c) => Leads(c, "remove", {})
         /\ RemoveAll(c) => Leads(c, "removeAll", {})
<1> USE DEF At, Leads
<1>1. clients \in [Clients -> Local] /\ clients[c] \in Local
  BY DEF IInv, Typed
<1>2. Answer(c) => clients'[c].pc = "idle"
  BY AnswerLeads
<1>3. /\ Insert(c) => Leads(c, "insert", {"readBack", "rollback"})
      /\ ReadBack(c) => Leads(c, "readBack", {"commit", "rollback"})
      /\ DeletePlugin(c) => Leads(c, "deletePlugin", {"commit", "rollback"})
  <2>1. Fail(c) => clients'[c].pc = "rollback"
    BY FailMoves
  <2>2. ASSUME NEW s, NEW label, clients' = [clients EXCEPT ![c].service = s, ![c].pc = label]
        PROVE  clients'[c].pc = label
    BY <1>1, <2>2 DEF Local
  <2> QED
    BY <2>1, <2>2, GotoLeads DEF Insert, ReadBack, DeletePlugin
<1>4. ASSUME Find(c) PROVE Leads(c, "find", {"delete", "update", "get"})
  <2>1. CASE ~Answer(c)
    <3>1. PICK s :
              clients' = [clients EXCEPT ![c].service = s,
                  ![c].pc = CASE Op(c) = "delete" -> "delete"
                              [] Op(c) = "put" /\ request(c).config = Null -> "update"
                              [] OTHER -> "get"]
      BY <1>4, <2>1 DEF Find
    <3>2. PICK label \in {"delete", "update", "get"} :
              clients' = [clients EXCEPT ![c].service = s, ![c].pc = label]
      BY <3>1
    <3>3. clients'[c].pc = label
      BY <1>1, <3>2 DEF Local
    <3> QED
      BY <1>4, <3>3 DEF Find
  <2> QED
    BY <1>2, <1>4, <2>1 DEF Find
<1>5. ASSUME Get(c) PROVE Leads(c, "get", {"register", "ask", "toggle"})
  <2>1. CASE UNCHANGED runnables
    BY <1>1, <1>2, <1>5, <2>1, UseLeads DEF Get, Local
  <2>2. CASE ~UNCHANGED runnables
    BY <1>5, <2>2, GetAppends DEF Get
  <2> QED
    BY <2>1, <2>2
<1>6. ASSUME Register(c) PROVE Leads(c, "register", {"ask"})
  <2>1. clients[c].pc = "register" /\ UseRunnable(c, runnable(c))
    BY <1>6 DEF Register
  <2>2. Op(c) \in {"post", "put"}
    BY <2>1 DEF IInv, Knows, Op, request
  <2> QED
    BY <2>1, <2>2, UseLeads
<1>7. ASSUME Ask(c) PROVE Leads(c, "ask", {"configure"})
  <2>1. CASE ~Answer(c)
    <3>1. PICK old : clients' = [clients EXCEPT ![c].todo = Append(old, request(c).config),
                                                ![c].pc = "configure"]
      BY <1>7, <2>1 DEF Ask
    <3>2. clients'[c].pc = "configure"
      BY <1>1, <3>1 DEF Local
    <3> QED
      BY <1>7, <3>2 DEF Ask
  <2> QED
    BY <1>2, <1>7, <2>1 DEF Ask
<1> HIDE DEF Leads
<1>8. (Toggle(c) => Leads(c, "toggle", {"putBack"})) /\ (PutBack(c) => Leads(c, "putBack", {}))
  BY <1>2, GotoLeads DEF Toggle, PutBack, Leads
<1>9. /\ Configure(c) => Leads(c, "configure", {"configure", "update", "clear", "verify"})
      /\ Verify(c) => Leads(c, "verify", {"configure", "update", "clear", "save"})
      /\ Save(c) => Leads(c, "save", {"configure", "update", "clear"})
  BY <1>2, GotoLeads, ContinueLeads DEF Configure, Verify, Save, Leads
<1>10. /\ Update(c) => clients[c].pc \in {"update", "clear"} /\ clients'[c].pc = "idle"
       /\ Delete(c) => Leads(c, "delete", {"stop"})
       /\ StopRemoved(c) => Leads(c, "stop", {"remove"})
       /\ Remove(c) => Leads(c, "remove", {})
  BY <1>2, GotoLeads DEF Update, Delete, StopRemoved, Remove, Leads
<1>11. RemoveAll(c) => Leads(c, "removeAll", {})
  BY <1>2, GotoLeads DEF RemoveAll, Leads
<1>12. /\ FindPlugin(c) => Leads(c, "findPlugin", {"begin", "deletePlugin"})
       /\ Begin(c) => Leads(c, "begin", {"insert", "findPlugin"})
  BY <1>2, GotoLeads DEF FindPlugin, Begin, Leads
<1>13. Rollback(c) => Leads(c, "rollback", {"commit"})
  BY <1>2, GotoLeads DEF Rollback, Finish, failed, IInv, Knows, Leads
<1>14. /\ Commit(c) => Leads(c, "commit", {"end", "get", "removeAll"})
       /\ End(c) => Leads(c, "end", {"get", "removeAll"})
  BY <1>2, GotoLeads DEF Commit, End, Finish, Leads
<1> QED
  BY <1>3, <1>4, <1>5, <1>6, <1>7, <1>8, <1>9, <1>10, <1>11, <1>12, <1>13, <1>14

------------------------------------------------------------------------------
(* What requests at a time may do to one another.                          *)

\* No other client is executing a request.
Alone(c) == \A d \in Clients : d # c => At(d, "idle")

\* The history counts them.
Overlapping ==
  /\ overlaps = 0 => \A c \in Clients : ~At(c, "idle") => Alone(c)
  /\ overlaps = 1 => \A c, d \in Clients : c # d /\ ~At(c, "idle") /\ ~At(d, "idle") =>
                       \A e \in Clients \ {c, d} : At(e, "idle")

\* A runnable that a client is about to register is its own, and stopped.
NewAreFresh ==
  /\ \A c \in Clients : runnable(c) \in 0..Len(runnables)
  /\ \A c \in Clients : At(c, "register") =>
       /\ ~runnables[runnable(c)].running
       /\ \A n \in Names : services[n] # runnable(c)
       /\ \A d \in Clients : d # c => runnable(d) # runnable(c)

Asked ==
  \A c \in Clients : At(c, "toggle") \/ At(c, "putBack") => Op(c) \notin {"post", "put"}

Fresh == overlaps \in Nat /\ Overlapping /\ NewAreFresh /\ Asked

LEMMA RunnableFollows ==
  ASSUME IInv, NEW c \in Clients, Serve(c)
  PROVE  \/ clients'[c].runnable \in {None, runnable(c)}
         \/ /\ Get(c) /\ UNCHANGED runnables /\ Known(c) # None
            /\ clients'[c].runnable = Known(c)
         \/ /\ Get(c) /\ ~UNCHANGED runnables
            /\ clients'[c].runnable = Len(runnables) + 1
<1>1. CASE clients[c].pc \notin {"get", "register"}
  BY <1>1, LocalsFollow, RestingIsIdle DEF Follows, runnable
<1>2. CASE Get(c) /\ ~UNCHANGED runnables
  BY <1>2, GetAppends
<1>3. CASE Get(c) /\ UNCHANGED runnables
  <2>1. CASE Answer(c)
    BY <2>1, AnswerLeads, RestingIsIdle
  <2>2. CASE ~Answer(c)
    <3>1. Known(c) # None /\ UseRunnable(c, Known(c))
      <4>1. runnables \in Seq(RunnableRow) /\ Len(runnables) \in Nat
        BY DEF IInv, Typed
      <4>2. CASE /\ runnables' = Append(runnables, NewRunnable(c))
                 /\ clients' = [clients EXCEPT ![c].runnable = Len(runnables) + 1,
                                               ![c].pc = "register"]
        <5>1. clients'[c].pc = "register"
          BY <4>2 DEF IInv, Typed, Local
        <5>2. clients[c].pc = "get" /\ clients'[c].pc = "register"
          BY <1>3, <5>1 DEF Get, At
        <5>3. NewRunnable(c) \in RunnableRow
          BY <5>2 DEF NewRunnable, RunnableRow, MaybeConfig, IInv, Knows, Serviceless, service
        <5>4. Len(runnables') = Len(runnables) + 1
          BY <4>1, <4>2, <5>3
        <5> QED
          BY <1>3, <4>1, <5>4
      <4> QED
        BY <1>3, <2>2, <4>2 DEF Get
    <3>2. clients'[c].pc = "idle" => clients'[c].runnable = None
      BY LocalsFollow, RestingIsIdle DEF Follows
    <3> QED
      BY <1>3, <3>1, <3>2, UseLeads
  <2> QED
    BY <2>1, <2>2
<1>4. CASE Register(c)
  <2>1. clients'[c].pc = "idle" => clients'[c].runnable = None
    BY LocalsFollow, RestingIsIdle DEF Follows
  <2> QED
    BY <1>4, <2>1, UseLeads DEF Register
<1>5. clients[c].pc = "get" => Get(c)
  BY Paths DEF Serve, Leads
<1>6. clients[c].pc = "register" => Register(c)
  BY Paths DEF Serve, Leads
<1> QED
  BY <1>1, <1>2, <1>3, <1>4, <1>5, <1>6

LEMMA MapFollows ==
  ASSUME IInv, NEW c \in Clients, Serve(c), NEW n \in Names
  PROVE  \/ services'[n] = services[n]
         \/ (Remove(c) \/ RemoveAll(c)) /\ services'[n] = None
         \/ /\ Register(c) \/ PutBack(c)
            /\ n = service(c).name /\ services'[n] = runnable(c)
<1>1. services \in [Names -> 0..Len(runnables)]
  BY DEF IInv, Typed
<1>2. ASSUME NEW name, NEW i, Put(name, i)
      PROVE  services'[n] = services[n] \/ (n = name /\ services'[n] = i)
  BY <1>1, <1>2 DEF Put
<1>3. CASE Register(c) \/ PutBack(c)
  BY <1>2, <1>3 DEF Register, PutBack
<1>4. CASE Remove(c)
  BY <1>2, <1>4 DEF Remove
<1>5. CASE RemoveAll(c)
  BY <1>5 DEF RemoveAll
<1>6. CASE UNCHANGED services
  BY <1>6
<1> QED
  BY <1>3, <1>4, <1>5, <1>6
     DEF Serve, Insert, Find, Get, Toggle, Ask, Configure, Verify, Save, Update,
         Delete, StopRemoved, DeletePlugin, FindPlugin, Begin, ReadBack, Rollback, Commit,
         End, manager

LEMMA InitFresh == Init => Fresh
<1> SUFFICES ASSUME Init PROVE Fresh
  OBVIOUS
<1>1. \A c \in Clients : clients[c].pc = "idle" /\ clients[c].runnable = None
  BY RestingIsIdle DEF Init
<1>2. Len(runnables) = 0 /\ overlaps = 0
  BY DEF Init
<1> QED
  BY <1>1, <1>2 DEF Fresh, Overlapping, Alone, NewAreFresh, Asked, At, runnable, None

LEMMA PathsTo ==
  ASSUME IInv, NEW c \in Clients, Serve(c)
  PROVE  /\ clients'[c].pc = "register" => Get(c) /\ ~UNCHANGED runnables
         /\ clients'[c].pc = "toggle" => Get(c) /\ UNCHANGED runnables
         /\ clients'[c].pc = "putBack" => Toggle(c)
         /\ clients'[c].pc = "removeAll" => Commit(c) \/ End(c)
         /\ clients'[c].pc = "delete" => Find(c)
         /\ clients'[c].pc = "stop" => Delete(c)
         /\ clients'[c].pc = "remove" => StopRemoved(c)
<1>1. Get(c) /\ ~UNCHANGED runnables => clients'[c].pc = "register"
  BY GetAppends
<1>2. Get(c) /\ UNCHANGED runnables => clients'[c].pc # "register"
  <2> SUFFICES ASSUME Get(c), UNCHANGED runnables PROVE clients'[c].pc # "register"
    OBVIOUS
  <2>1. CASE Answer(c)
    BY <2>1, AnswerLeads
  <2>2. CASE ~Answer(c)
    <3>1. CASE UseRunnable(c, Known(c))
      BY <3>1, UseLeads
    <3>2. CASE runnables' = Append(runnables, NewRunnable(c))
      <4>1. runnables \in Seq(RunnableRow) /\ Len(runnables) \in Nat
        BY DEF IInv, Typed
      <4>2. NewRunnable(c) \in RunnableRow
        BY DEF NewRunnable, RunnableRow, MaybeConfig, IInv, Knows, Serviceless, service, Get, At
      <4>3. Len(runnables') = Len(runnables) + 1
        BY <3>2, <4>1, <4>2
      <4> QED
        BY <4>1, <4>3
    <3> QED
      BY <2>2, <3>1, <3>2 DEF Get
  <2> QED
    BY <2>1, <2>2
<1> QED
  BY <1>1, <1>2, Paths DEF Serve, Leads

LEMMA ServeKeepsFresh ==
  ASSUME IInv, Fresh, NEW c \in Clients, Serve(c)
  PROVE  Fresh'
<1>1. /\ \A d \in Clients : d # c => clients'[d] = clients[d]
      /\ Follows(c) /\ clients[c].pc # "idle" /\ overlaps' = overlaps
  BY LocalsFollow DEF Moves, At
<1>2. /\ NamesKept /\ NoneStarts(c) /\ Len(runnables) \in Nat /\ Len(runnables') \in Nat
      /\ DOMAIN runnables = 1..Len(runnables) /\ DOMAIN runnables' = 1..Len(runnables')
      /\ services \in [Names -> 0..Len(runnables)]
  BY RunnablesFollow DEF NamesKept, IInv, Typed
<1>3. Overlapping'
  BY <1>1 DEF Fresh, Overlapping, Alone, At
<1>4. Get(c) => Known(c) \in 0..Len(runnables) /\ service(c).name \in Names
  BY <1>2 DEF IInv, Knows, Serviceless, Row, Get, At, Known, service
<1>5. ASSUME ~UNCHANGED runnables, Get(c) PROVE Len(runnables') = Len(runnables) + 1
  BY <1>5, GetAppends
<1>6. ASSUME NEW d \in Clients PROVE clients'[d].runnable \in 0..Len(runnables')
  <2>1. runnable(d) \in 0..Len(runnables')
    BY <1>2 DEF Fresh, NewAreFresh, NamesKept
  <2>2. CASE d # c
    BY <1>1, <2>1, <2>2 DEF runnable
  <2>3. CASE d = c
    <3>1. Len(runnables) <= Len(runnables')
      BY <1>2 DEF NamesKept
    <3>2. CASE clients'[c].runnable \in {None, runnable(c)}
      BY <1>2, <2>1, <2>3, <3>2 DEF None
    <3>3. CASE Get(c) /\ clients'[c].runnable = Known(c)
      BY <1>2, <1>4, <2>3, <3>1, <3>3
    <3>4. CASE Get(c) /\ ~UNCHANGED runnables /\ clients'[c].runnable = Len(runnables) + 1
      BY <1>2, <1>5, <2>3, <3>4
    <3> QED
      BY <3>2, <3>3, <3>4, RunnableFollows
  <2> QED
    BY <2>2, <2>3
<1>7. ASSUME NEW d \in Clients, clients'[d].pc = "register"
      PROVE  /\ ~runnables'[clients'[d].runnable].running
             /\ \A n \in Names : services'[n] # clients'[d].runnable
             /\ \A e \in Clients : e # d => clients'[e].runnable # clients'[d].runnable
  <2>1. CASE d = c
    <3>1. /\ clients'[d].runnable = Len(runnables) + 1 /\ services' = services
          /\ runnables'[Len(runnables) + 1] = NewRunnable(d)
      BY <1>7, <2>1, PathsTo, GetAppends DEF Get
    <3>2. NewRunnable(d).running = FALSE
      BY DEF NewRunnable
    <3>3. \A n \in Names : services[n] # Len(runnables) + 1
      BY <1>2
    <3>4. \A e \in Clients : e # c => clients[e].runnable # Len(runnables) + 1
      BY <1>2 DEF Fresh, NewAreFresh, runnable
    <3> QED
      BY <1>1, <2>1, <3>1, <3>2, <3>3, <3>4
  <2>2. CASE d # c
    <3> DEFINE k == clients[d].runnable
    <3>1. clients'[d] = clients[d] /\ At(d, "register") /\ k \in 1..Len(runnables)
      BY <1>1, <1>2, <1>7, <2>2 DEF At, IInv, Knows
    <3>2. /\ ~runnables[k].running
          /\ \A n \in Names : services[n] # k
          /\ \A e \in Clients : e # d => clients[e].runnable # k
      BY <3>1 DEF Fresh, NewAreFresh, runnable
    <3> HIDE DEF k
    <3>3. k \in 1..Len(runnables') /\ k # None
      BY <1>2, <3>1 DEF NamesKept, None
    <3>4. ~runnables'[k].running
      BY <2>2, <3>2, <3>3, <1>2 DEF NoneStarts, Starts, runnable
    <3>5. \A n \in Names : services'[n] # k
      BY <2>2, <3>2, <3>3, MapFollows DEF runnable
    <3>6. clients'[c].runnable # k
      <4>1. clients[c].runnable # k
        BY <2>2, <3>2
      <4>2. k # Len(runnables) + 1
        BY <1>2, <3>1
      <4>3. Get(c) => Known(c) # k
        BY <1>4, <3>2 DEF Known
      <4> QED
        BY <3>3, <4>1, <4>2, <4>3, RunnableFollows DEF runnable
    <3>7. \A e \in Clients : e # d => clients'[e].runnable # k
      BY <1>1, <3>2, <3>6
    <3>8. clients'[d].runnable = k
      BY <3>1 DEF k
    <3> QED
      BY <3>4, <3>5, <3>7, <3>8
  <2> QED
    BY <2>1, <2>2
<1>8. NewAreFresh'
  BY <1>6, <1>7 DEF NewAreFresh, At, runnable
<1>9. ASSUME NEW d \in Clients, clients'[d].pc \in {"toggle", "putBack"}
      PROVE  clients'[d].request.op \notin {"post", "put"}
  <2>1. CASE d # c
    BY <1>1, <1>9, <2>1 DEF Fresh, Asked, At, Op, request
  <2>2. CASE d = c
    <3>1. clients'[c].pc # "idle" => clients'[c].request = clients[c].request
      BY <1>1, RestingIsIdle DEF Follows
    <3>2. CASE clients'[c].pc = "toggle"
      <4>1. Get(c) /\ clients[c].pc = "get" /\ clients'[c].pc # "ask"
        BY <3>2, PathsTo DEF Get, At
      <4>2. Op(c) \notin {"post", "put"}
        <5>1. CASE UseRunnable(c, Known(c))
          BY <3>2, <5>1, UseLeads
        <5>2. ~Answer(c)
          BY <3>2, AnswerLeads
        <5>3. UNCHANGED runnables
          BY <3>2, PathsTo
        <5>4. CASE clients' = [clients EXCEPT ![c].runnable = Len(runnables) + 1,
                                              ![c].pc = "register"]
          BY <3>2, <5>4 DEF IInv, Typed, Local
        <5> QED
          BY <4>1, <5>1, <5>2, <5>4 DEF Get
      <4> QED
        BY <2>2, <3>1, <3>2, <4>2 DEF Op, request
    <3>3. CASE clients'[c].pc = "putBack"
      <4>1. At(c, "toggle")
        BY <3>3, PathsTo DEF Toggle
      <4> QED
        BY <2>2, <3>1, <3>3, <4>1 DEF Fresh, Asked, Op, request
    <3> QED
      BY <1>9, <2>2, <3>2, <3>3
  <2> QED
    BY <2>1, <2>2
<1>10. Asked'
  BY <1>9 DEF Asked, At, Op, request
<1>11. overlaps' \in Nat
  BY <1>1 DEF Fresh
<1> QED
  BY <1>3, <1>8, <1>10, <1>11 DEF Fresh

LEMMA ReceiveFollows ==
  ASSUME IInv, NEW c \in Clients, Receive(c)
  PROVE  /\ \A d \in Clients : d # c => clients'[d] = clients[d]
         /\ clients[c].pc = "idle"
         /\ clients'[c].pc \in {"findPlugin", "begin", "find"}
         /\ clients'[c].pc = "find" => clients'[c].request.op # "post"
         /\ clients'[c].pc = "begin" => clients'[c].request.op = "deletePlugin"
         /\ clients'[c].service = clients[c].service
         /\ clients'[c].runnable = clients[c].runnable
         /\ IF \A d \in Clients : d # c => At(d, "idle")
            THEN overlaps' = overlaps ELSE overlaps' = overlaps + 1
         /\ UNCHANGED <<database, runnables, services, disturbed>>
<1>1. clients \in [Clients -> Local] /\ clients[c] \in Local
  BY DEF IInv, Typed
<1>2. PICK r \in Request :
        clients' = [clients EXCEPT ![c].request = r,
                         ![c].pc = CASE r.op = "post" -> "findPlugin"
                                     [] r.op = "deletePlugin" -> "begin"
                                     [] OTHER -> "find"]
  BY DEF Receive
<1>3. PICK label \in {"findPlugin", "begin", "find"} :
        /\ clients' = [clients EXCEPT ![c].request = r, ![c].pc = label]
        /\ label = "find" => r.op # "post"
        /\ label = "begin" => r.op = "deletePlugin"
  BY <1>2
<1>4. clients'[c] = [clients[c] EXCEPT !.request = r, !.pc = label]
  BY <1>1, <1>3
<1>5. \A d \in Clients : d # c => clients'[d] = clients[d]
  BY <1>1, <1>3
<1>6. /\ clients'[c].pc = label /\ clients'[c].request = r
      /\ clients'[c].service = clients[c].service
      /\ clients'[c].runnable = clients[c].runnable
  BY <1>1, <1>4 DEF Local
<1>7. /\ clients[c].pc = "idle"
      /\ IF \A d \in Clients : d # c => At(d, "idle")
         THEN overlaps' = overlaps ELSE overlaps' = overlaps + 1
      /\ UNCHANGED <<database, runnables, services, disturbed>>
  BY DEF Receive, At, manager
<1>8. /\ clients'[c].pc = "find" => clients'[c].request.op # "post"
      /\ clients'[c].pc = "begin" => clients'[c].request.op = "deletePlugin"
  BY <1>3, <1>6
<1>9. clients'[c].pc \in {"findPlugin", "begin", "find"}
  BY <1>6
<1> QED
  BY <1>5, <1>6, <1>7, <1>8, <1>9

LEMMA ReceiveKeepsFresh ==
  ASSUME IInv, Fresh, NEW c \in Clients, Receive(c)
  PROVE  Fresh'
<1>1. /\ \A d \in Clients : d # c => clients'[d] = clients[d]
      /\ clients[c].pc = "idle"
      /\ clients'[c].pc \in {"findPlugin", "begin", "find"}
      /\ clients'[c].runnable = clients[c].runnable
      /\ UNCHANGED <<runnables, services>>
  BY ReceiveFollows
<1>2. /\ overlaps \in Nat
      /\ IF \A d \in Clients : d # c => At(d, "idle")
         THEN overlaps' = overlaps ELSE overlaps' = overlaps + 1
  BY ReceiveFollows DEF Fresh
<1>3. Overlapping'
  <2>1. CASE \A d \in Clients : d # c => At(d, "idle")
    <3>1. \A d \in Clients : d # c => clients'[d].pc = "idle"
      BY <1>1, <2>1 DEF At
    <3> QED
      BY <3>1 DEF Overlapping, Alone, At
  <2>2. CASE ~\A d \in Clients : d # c => At(d, "idle")
    <3>1. PICK d \in Clients : d # c /\ ~At(d, "idle")
      BY <2>2
    <3>2. overlaps' = overlaps + 1 /\ overlaps' # 0
      BY <1>2, <2>2
    <3>3. CASE overlaps' = 1
      <4>1. \A e \in Clients \ {c, d} : clients'[e].pc = "idle"
        BY <1>1, <1>2, <3>1, <3>2, <3>3 DEF Fresh, Overlapping, Alone, At
      <4> QED
        BY <3>2, <4>1 DEF Overlapping, At
    <3> QED
      BY <3>2, <3>3 DEF Overlapping
  <2> QED
    BY <2>1, <2>2
<1>4. NewAreFresh'
  BY <1>1 DEF Fresh, NewAreFresh, At, runnable
<1>5. Asked'
  BY <1>1 DEF Fresh, Asked, At, Op, request
<1>6. overlaps' \in Nat
  BY <1>2
<1> QED
  BY <1>3, <1>4, <1>5, <1>6 DEF Fresh

LEMMA LoopEndsFollows ==
  ASSUME IInv, LoopEnds
  PROVE  /\ NamesKept /\ UNCHANGED <<services, clients, database, disturbed, overlaps>>
         /\ Len(runnables') = Len(runnables)
         /\ \A i \in 1..Len(runnables) : runnables'[i].running => runnables[i].running
<1>1. PICK i \in DOMAIN runnables : runnables' = Run({i}, FALSE)
  BY DEF LoopEnds
<1>2. NamesKept /\ Len(runnables) \in Nat /\ Len(runnables') \in Nat
  <2>1. NamesKept
    BY <1>1, RunKeepsNames
  <2> QED
    BY <2>1 DEF NamesKept, IInv, Typed
<1>3. \A j \in 1..Len(runnables') :
           /\ j <= Len(runnables)
           /\ runnables'[j].running =>
                (~(j \in {i}) /\ runnables[j].running) \/ (j \in {i} /\ FALSE)
  BY <1>1, RunStartsOnly
<1>4. Len(runnables') = Len(runnables)
  BY <1>2, <1>3 DEF NamesKept
<1> QED
  BY <1>2, <1>3, <1>4 DEF LoopEnds

LEMMA LoopEndsKeepsFresh == IInv /\ Fresh /\ LoopEnds => Fresh'
<1> SUFFICES ASSUME IInv, Fresh, LoopEnds PROVE Fresh'
  OBVIOUS
<1>1. /\ UNCHANGED <<services, clients, overlaps>> /\ Len(runnables) \in Nat
      /\ Len(runnables') = Len(runnables) /\ DOMAIN runnables = 1..Len(runnables)
      /\ \A i \in 1..Len(runnables) : runnables'[i].running => runnables[i].running
  BY LoopEndsFollows DEF IInv, Typed
<1>2. NewAreFresh'
  BY <1>1 DEF Fresh, NewAreFresh, At, runnable, IInv, Knows
<1> QED
  BY <1>1, <1>2 DEF Fresh, Overlapping, Alone, Asked, At, Op, request

LEMMA RestartKeepsFresh == Restart => Fresh'
<1> SUFFICES ASSUME Restart PROVE Fresh'
  OBVIOUS
<1>1. \A c \in Clients : clients'[c].pc = "idle" /\ clients'[c].runnable = None
  BY RestingIsIdle DEF Restart
<1>2. Len(runnables') = 0 /\ overlaps' = 0
  BY DEF Restart
<1> QED
  BY <1>1, <1>2 DEF Fresh, Overlapping, Alone, NewAreFresh, Asked, At, runnable, None

LEMMA FreshIsInductive == IInv /\ Fresh /\ [Next]_vars => Fresh'
<1> SUFFICES ASSUME IInv, Fresh, [Next]_vars PROVE Fresh'
  OBVIOUS
<1>1. CASE UNCHANGED vars
  BY <1>1 DEF vars, manager, Fresh, Overlapping, Alone, NewAreFresh, Asked, At,
              runnable, Op, request
<1>2. CASE LoopEnds \/ Restart
  BY <1>2, LoopEndsKeepsFresh, RestartKeepsFresh
<1>3. ASSUME NEW c \in Clients, Receive(c) \/ Serve(c)
      PROVE  Fresh'
  BY <1>3, ReceiveKeepsFresh, ServeKeepsFresh
<1> QED
  BY <1>1, <1>2, <1>3 DEF Next

------------------------------------------------------------------------------
(* What transactions may do to one another.                                *)

\* A client whose row the file may not have yet.
Inserted(c) ==
  clients[c].pc \in {"readBack", "rollback", "commit"} /\ Op(c) = "post" /\ service(c) # Null

(***************************************************************************)
(* Identifiers are given upwards, the file is up to date in auto-commit    *)
(* mode, and the rows that it does not have are those of transactions      *)
(* under way.                                                              *)
(***************************************************************************)
Filed ==
  /\ \A s \in rows : s.id <= lastId
  /\ \A s \in saved.rows : s.id <= saved.lastId
  /\ saved.lastId <= lastId
  /\ autoCommit => saved = Tables
  /\ \A s \in rows : \/ \E t \in saved.rows : t.id = s.id
                     \/ \E c \in Clients : Inserted(c) /\ service(c).id = s.id

\* Clients that have a row in the transaction still do.
InsertedStay ==
  \A d \in Clients : Inserted(d) =>
    /\ clients'[d].pc \in {"readBack", "rollback", "commit"}
    /\ clients'[d].request.op = "post" /\ clients'[d].service # Null
    /\ clients'[d].service.id = service(d).id

LEMMA FiledStays ==
  ASSUME Filed, InsertedStay, UNCHANGED <<tables, saved>>, autoCommit' => autoCommit
  PROVE  Filed'
<1>1. /\ \A s \in rows' : s.id <= lastId'
      /\ \A s \in saved'.rows : s.id <= saved'.lastId
      /\ saved'.lastId <= lastId'
      /\ autoCommit' => saved' = Tables'
  BY DEF Filed, tables, Tables
<1>2. ASSUME NEW s \in rows'
      PROVE  \/ \E t \in saved'.rows : t.id = s.id
             \/ \E c \in Clients : (Inserted(c) /\ service(c).id = s.id)'
  BY DEF Filed, tables, InsertedStay, Inserted, Op, request, service
<1> QED
  BY <1>1, <1>2 DEF Filed

LEMMA FiledByFile ==
  ASSUME \A s \in rows' : s.id <= lastId', saved' = Tables', lastId' \in Nat
  PROVE  Filed'
BY DEF Filed, Tables

\* A statement.
LEMMA ExecuteFiles ==
  ASSUME IInv, Filed, InsertedStay, NEW p, NEW r, NEW l \in Nat, Execute(p, r, l),
         lastId <= l, \A s \in r : s.id \in Nat /\ s.id <= l,
         \A s \in r : \/ \E t \in rows : t.id = s.id
                      \/ \E c \in Clients : (Inserted(c) /\ service(c).id = s.id)'
  PROVE  Filed'
<1>1. CASE autoCommit
  BY <1>1, FiledByFile DEF Execute
<1>2. CASE ~autoCommit
  <2>1. /\ rows' = r /\ lastId' = l /\ saved' = saved /\ ~autoCommit'
    BY <1>2 DEF Execute
  <2>2. saved.lastId <= l
    BY DEF Filed, IInv, Typed, DatabaseTyped
  <2>3. ASSUME NEW s \in rows'
        PROVE  \/ \E t \in saved'.rows : t.id = s.id
               \/ \E c \in Clients : (Inserted(c) /\ service(c).id = s.id)'
    <3>1. CASE \E t \in rows : t.id = s.id
      BY <2>1, <3>1 DEF Filed, InsertedStay, Inserted, Op, request, service
    <3> QED
      BY <2>1, <2>3, <3>1
  <2> QED
    BY <2>1, <2>2, <2>3 DEF Filed
<1> QED
  BY <1>1, <1>2

LEMMA WriteFiles ==
  ASSUME IInv, Filed, InsertedStay, NEW s \in Row, NEW name, NEW config, Write(s, name, config)
  PROVE  Filed'
<1>1. CASE Writable(s, name)
  <2> DEFINE new == Updated(s, name, config)
             r == (rows \ WithId(s.id)) \cup {new}
  <2>1. PICK row \in WithId(s.id) : row = CHOOSE x \in WithId(s.id) : TRUE
    BY <1>1 DEF Writable
  <2>2. row \in rows /\ row \in Row /\ row.id = s.id /\ rows \subseteq Row /\ lastId \in Nat
    BY <2>1 DEF WithId, IInv, Typed, DatabaseTyped
  <2>3. new.id = row.id
    BY <2>1, <2>2 DEF Updated, Row
  <2>4. Execute(plugins, r, lastId)
    BY <1>1 DEF Write
  <2> HIDE DEF new
  <2>5. \A x \in r : \E t \in rows : t.id = x.id
    BY <2>2, <2>3
  <2>6. \A x \in r : x.id \in Nat /\ x.id <= lastId
    BY <2>2, <2>5 DEF Filed, Row
  <2> HIDE DEF r
  <2> QED
    BY <2>2, <2>4, <2>5, <2>6, ExecuteFiles
<1>2. CASE ~Writable(s, name)
  <2>1. UNCHANGED database
    BY <1>2 DEF Write
  <2> QED
    BY <2>1, FiledStays DEF database, connection
<1> QED
  BY <1>1, <1>2

LEMMA ServeKeepsFiled ==
  ASSUME IInv, Filed, NEW c \in Clients, Serve(c)
  PROVE  Filed'
<1>1. /\ \A d \in Clients : d # c => clients'[d] = clients[d]
      /\ clients[c] \in Local /\ Knows(clients[c], runnables) /\ DatabaseTyped
  BY LocalsFollow DEF Moves, IInv, Typed
<1>2. rows \subseteq Row /\ lastId \in Nat
  BY <1>1 DEF DatabaseTyped
<1>3. clients[c].pc \notin {"readBack", "rollback", "commit"} => InsertedStay
  BY <1>1 DEF InsertedStay, Inserted, Op, request, service
<1>4. CASE UNCHANGED database /\ clients[c].pc \notin {"readBack", "rollback", "commit"}
  BY <1>3, <1>4, FiledStays DEF database, connection
<1>5. CASE Begin(c)
  BY <1>3, <1>5, FiledStays DEF Begin, At
<1>6. CASE Insert(c) /\ ~UNCHANGED database
  <2> PICK s : s = [id |-> lastId + 1, name |-> request(c).name,
                    plugin |-> request(c).plugin, config |-> request(c).config]
    OBVIOUS
  <2> DEFINE r == rows \cup {s}
  <2>1. /\ Execute(plugins, r, lastId + 1) /\ clients[c].pc = "insert"
        /\ clients' = [clients EXCEPT ![c].service = s, ![c].pc = "readBack"]
    BY <1>6 DEF Insert, At
  <2>2. s \in Row
    BY <1>1, <1>2, <2>1, RequestFacts DEF Knows, Row, request
  <2>3. s.id = lastId + 1
    OBVIOUS
  <2>4. clients'[c].pc = "readBack" /\ clients'[c].service = s
        /\ clients'[c].request = clients[c].request
    <3>1. clients'[c] = [clients[c] EXCEPT !.service = s, !.pc = "readBack"]
      BY <2>1, <2>2, ServiceMoves DEF Steps
    <3> QED
      BY <1>1, <3>1 DEF Local
  <2>5. clients[c].request.op = "post"
    BY <1>1, <2>1 DEF Knows
  <2>6. s # Null
    BY <2>2, NullIsNoRow
  <2>7. (Inserted(c) /\ service(c).id = s.id)'
    BY <2>4, <2>5, <2>6 DEF Inserted, Op, request, service
  <2>8. InsertedStay
    BY <1>3, <2>1
  <2>9. /\ \A x \in r : x.id \in Nat /\ x.id <= lastId + 1
        /\ \A x \in r : \/ \E t \in rows : t.id = x.id
                        \/ \E d \in Clients : (Inserted(d) /\ service(d).id = x.id)'
    <3>1. \A x \in rows : x.id \in Nat /\ x.id <= lastId + 1
      BY <1>2 DEF Filed, Row
    <3> QED
      BY <1>2, <2>3, <2>7, <3>1
  <2>10. lastId + 1 \in Nat /\ lastId <= lastId + 1
    BY <1>2
  <2> HIDE DEF r
  <2> QED
    BY <2>1, <2>8, <2>9, <2>10, ExecuteFiles
<1>7. CASE ReadBack(c)
  <2>1. UNCHANGED database /\ clients[c].pc = "readBack" /\ clients[c].request.op = "post"
    BY <1>1, <1>7 DEF ReadBack, At, Knows
  <2>2. clients[c].service \in Row
    BY <1>1, <2>1 DEF Knows, Serviceless
  <2>3. /\ clients'[c].pc \in {"readBack", "rollback", "commit"}
        /\ clients'[c].request = clients[c].request
        /\ clients'[c].service \in Row /\ clients'[c].service.id = service(c).id
    <3>1. CASE Fail(c)
      BY <2>2, <3>1, FailMoves DEF service
    <3>2. CASE ~Fail(c)
      <4>1. PICK s \in WithId(service(c).id) :
              clients' = [clients EXCEPT ![c].service = s, ![c].pc = "commit"]
        BY <1>7, <3>2 DEF ReadBack
      <4>2. s \in Row /\ s.id = service(c).id
        BY <1>2, <4>1 DEF WithId
      <4>3. clients'[c] = [clients[c] EXCEPT !.service = s, !.pc = "commit"]
        BY <4>1, <4>2, ServiceMoves DEF Steps
      <4> QED
        BY <1>1, <4>2, <4>3 DEF Local
    <3> QED
      BY <3>1, <3>2
  <2>4. InsertedStay
    BY <1>1, <2>1, <2>3, NullIsNoRow DEF InsertedStay, Inserted, Op, request, service
  <2> QED
    BY <2>1, <2>4, FiledStays DEF database, connection
<1>8. CASE DeletePlugin(c)
  <2>1. Execute(plugins \ {request(c).plugin}, rows, lastId) /\ InsertedStay
    BY <1>3, <1>8 DEF DeletePlugin, At
  <2>2. \A s \in rows : s.id \in Nat /\ s.id <= lastId
    BY <1>2 DEF Filed, Row
  <2> QED
    BY <1>2, <2>1, <2>2, ExecuteFiles
<1>9. CASE Delete(c)
  <2> DEFINE r == rows \ WithId(service(c).id)
  <2>1. Execute(plugins, r, lastId) /\ InsertedStay
    BY <1>3, <1>9 DEF Delete, At
  <2>2. /\ \A s \in r : s.id \in Nat /\ s.id <= lastId
        /\ \A s \in r : \E t \in rows : t.id = s.id
    BY <1>2 DEF Filed, Row
  <2> HIDE DEF r
  <2> QED
    BY <1>2, <2>1, <2>2, ExecuteFiles
<1>10. CASE Rollback(c) \/ Commit(c) \/ End(c)
  <2>1. CASE autoCommit /\ ~End(c)
    <3>1. UNCHANGED <<tables, saved>> /\ saved = Tables
      BY <1>10, <2>1 DEF Rollback, Commit, connection, tables, Filed
    <3> QED
      BY <1>2, <3>1, FiledByFile DEF Filed, tables, Tables
  <2>2. CASE Rollback(c) /\ ~autoCommit
    <3>1. /\ rows' = saved.rows /\ lastId' = saved.lastId
          /\ saved' = saved /\ ~autoCommit'
      BY <2>2 DEF Rollback, connection
    <3>2. saved.lastId \in Nat
      BY <1>1 DEF DatabaseTyped
    <3> QED
      BY <3>1, <3>2 DEF Filed
  <2>3. CASE (Commit(c) /\ ~autoCommit) \/ End(c)
    <3>1. UNCHANGED tables /\ saved' = Tables
      BY <2>3 DEF Commit, End
    <3> QED
      BY <1>2, <3>1, FiledByFile DEF Filed, tables, Tables
  <2> QED
    BY <1>10, <2>1, <2>2, <2>3
<1>11. CASE Save(c)
  <2>1. PICK s, config : s \in Row /\ Write(s, s.name, config)
    <3>1. runnable(c) \in DOMAIN runnables
      BY <1>1, <1>11 DEF Save, At, Knows, runnable
    <3>2. runnables[runnable(c)] \in RunnableRow
      BY <3>1 DEF IInv, Typed
    <3>3. runnables[runnable(c)].service \in Row
      BY <3>2 DEF RunnableRow
    <3> QED
      BY <1>11, <3>3 DEF Save
  <2>2. InsertedStay
    BY <1>3, <1>11 DEF Save, At
  <2> QED
    BY <2>1, <2>2, WriteFiles
<1>12. CASE Update(c)
  <2>1. service(c) \in Row
    BY <1>1, <1>12 DEF Update, At, Knows, Serviceless, service
  <2>2. InsertedStay
    BY <1>3, <1>12 DEF Update, At
  <2> QED
    BY <1>12, <2>1, <2>2, WriteFiles DEF Update
<1> QED
  BY <1>4, <1>5, <1>6, <1>7, <1>8, <1>9, <1>10, <1>11, <1>12
     DEF Serve, FindPlugin, Insert, Find, Get, Register, Toggle, PutBack, Ask, Configure, Verify,
         StopRemoved, Remove, RemoveAll, At

LEMMA FiledIsInductive == IInv /\ Filed /\ [Next]_vars => Filed'
<1> SUFFICES ASSUME IInv, Filed, [Next]_vars PROVE Filed'
  OBVIOUS
<1>1. CASE UNCHANGED vars \/ LoopEnds
  <2>1. UNCHANGED <<database, clients>>
    BY <1>1 DEF vars, LoopEnds
  <2>2. InsertedStay
    BY <2>1 DEF InsertedStay, Inserted, Op, request, service
  <2> QED
    BY <2>1, <2>2, FiledStays DEF database, connection
<1>2. CASE Restart
  <2>1. /\ rows' = saved.rows /\ lastId' = saved.lastId
        /\ saved' = saved /\ ~autoCommit'
    BY <1>2 DEF Restart
  <2>2. saved.lastId \in Nat
    BY DEF IInv, Typed, DatabaseTyped
  <2> QED
    BY <2>1, <2>2 DEF Filed
<1>3. ASSUME NEW c \in Clients, Receive(c)
      PROVE  Filed'
  <2>1. /\ \A d \in Clients : d # c => clients'[d] = clients[d]
        /\ clients[c].pc = "idle" /\ UNCHANGED database
    BY <1>3, ReceiveFollows
  <2>2. InsertedStay
    BY <2>1 DEF InsertedStay, Inserted, Op, request, service
  <2> QED
    BY <2>1, <2>2, FiledStays DEF database, connection
<1>4. ASSUME NEW c \in Clients, Serve(c)
      PROVE  Filed'
  BY <1>4, ServeKeepsFiled
<1> QED
  BY <1>1, <1>2, <1>3, <1>4 DEF Next

LEMMA InitFiled == Init => Filed
BY DEF Init, Filed, Tables

\* A deletion whose row is gone changes nothing.
LEMMA DeleteFollows ==
  ASSUME IInv, NEW c \in Clients, Delete(c)
  PROVE  /\ rows' = rows \ WithId(service(c).id)
         /\ clients'[c].pc = "stop" => UNCHANGED rows /\ WithId(service(c).id) = {}
         /\ ~UNCHANGED rows => clients'[c].pc = "idle"
<1>1. rows' = rows \ WithId(service(c).id)
  BY DEF Delete, Execute
<1>2. UNCHANGED rows => WithId(service(c).id) = {}
  BY <1>1 DEF WithId
<1>3. ~UNCHANGED rows => clients'[c].pc = "idle"
  BY AnswerLeads DEF Delete
<1> QED
  BY <1>1, <1>2, <1>3

\* A client that takes back nothing more, and starts and registers nothing.
Bystander(c) ==
  \/ At(c, "idle")
  \/ Op(c) = "deletePlugin"
  \/ failed(c) /\ clients[c].pc \in {"rollback", "commit", "end"}

Spared(c) == overlaps = 1 /\ \A d \in Clients : d # c => Bystander(d)

\* The tables are what the transaction of the client has made them.
Sound(c) ==
  /\ clients[c].pc \in {"begin", "insert"} /\ Op(c) = "post" => request(c).plugin \in plugins
  /\ At(c, "readBack") =>
       WithId(service(c).id) # {} /\ \A s \in WithId(service(c).id) : Readable(s)
  /\ At(c, "rollback") /\ Op(c) = "post" => service(c) = Null
  /\ At(c, "removeAll") \/ (clients[c].pc \in {"commit", "end"} /\ Op(c) = "deletePlugin" /\ ~failed(c)) =>
       request(c).plugin \notin plugins

\* Only a request that overlaps it, and is over but for its own end, makes them
\* something else.
Transactions == Filed /\ (overlaps <= 1 => \A c \in Clients : Sound(c) \/ Spared(c))

LEMMA BystanderStays ==
  ASSUME IInv, NEW c \in Clients, Serve(c), NEW d \in Clients, Bystander(d)
  PROVE  Bystander(d)'
<1>1. /\ \A e \in Clients : e # c => clients'[e] = clients[e]
      /\ Follows(c) /\ clients[c].pc # "idle"
  BY LocalsFollow DEF Moves, At
<1>2. CASE d # c
  BY <1>1, <1>2 DEF Bystander, At, Op, request, failed
<1>3. CASE d = c /\ Op(d) = "deletePlugin"
  BY <1>1, <1>3, RestingIsIdle DEF Bystander, Follows, At, Op, request
<1>4. CASE d = c /\ failed(d) /\ clients[d].pc \in {"rollback", "commit", "end"}
  <2>1. Rollback(c) \/ Commit(c) \/ End(c)
    BY <1>4, Paths DEF Serve, Leads
  <2>2. Answer(c) \/ Goto(c, "commit") \/ Goto(c, "end")
    BY <1>4, <2>1 DEF Rollback, Commit, End, Finish
  <2>3. clients'[c].pc \in {"idle", "commit", "end"}
    BY <2>2, AnswerLeads, GotoLeads
  <2>4. clients'[c].pc # "idle" => clients'[c].failed
    BY <1>1, <1>4, RestingIsIdle DEF Follows, failed
  <2> QED
    BY <1>4, <2>3, <2>4 DEF Bystander, At, failed
<1> QED
  BY <1>1, <1>2, <1>3, <1>4 DEF Bystander, At

LEMMA SparedStays ==
  ASSUME IInv, NEW c \in Clients, Serve(c), NEW d \in Clients, Spared(d)
  PROVE  Spared(d)'
<1>1. overlaps' = overlaps
  BY LocalsFollow
<1> QED
  BY <1>1, BystanderStays DEF Spared

\* What a step of a request changes in the tables, but for what may take the
\* row or the plugin of another away.
LEMMA TablesFollow ==
  ASSUME IInv, NEW c \in Clients, Serve(c), ~DeletePlugin(c), ~Rollback(c),
         ~Delete(c) \/ UNCHANGED rows
  PROVE  /\ plugins' = plugins
         /\ \A s \in rows : \E new \in rows' : new.id = s.id
         /\ \A new \in rows' : \/ Insert(c) /\ new.id = lastId + 1
                               \/ \E s \in rows : s.id = new.id /\ s.plugin = new.plugin
<1>1. CASE UNCHANGED tables
  BY <1>1 DEF tables
<1>2. ASSUME NEW s, NEW name, NEW config, Write(s, name, config) PROVE
        /\ plugins' = plugins
        /\ \A old \in rows : \E new \in rows' : new.id = old.id
        /\ \A new \in rows' : \E old \in rows : old.id = new.id /\ old.plugin = new.plugin
  <2>1. CASE Writable(s, name)
    <3> DEFINE new == Updated(s, name, config)
    <3>1. PICK row \in WithId(s.id) : row = CHOOSE x \in WithId(s.id) : TRUE
      BY <2>1 DEF Writable
    <3>2. row \in rows /\ row \in Row /\ row.id = s.id
      BY <3>1 DEF WithId, IInv, Typed, DatabaseTyped
    <3>3. new.id = row.id /\ new.plugin = row.plugin
      BY <3>1, <3>2 DEF Updated, Row
    <3>4. rows' = (rows \ WithId(s.id)) \cup {new} /\ plugins' = plugins
      BY <1>2, <2>1 DEF Write, Execute
    <3> HIDE DEF new
    <3> QED
      BY <3>2, <3>3, <3>4 DEF WithId
  <2> QED
    BY <1>2, <2>1 DEF Write, database, tables
<1>3. CASE Save(c) \/ Update(c)
  BY <1>2, <1>3 DEF Save, Update
<1>4. CASE Insert(c) /\ ~UNCHANGED database
  <2>1. PICK s : s.id = lastId + 1 /\ Execute(plugins, rows \cup {s}, lastId + 1)
    BY <1>4 DEF Insert
  <2> QED
    BY <1>4, <2>1 DEF Execute
<1>5. CASE Delete(c)
  BY <1>5 DEF Delete, Execute
<1> QED
  BY <1>1, <1>3, <1>4, <1>5
     DEF Serve, Find, Get, Register, Toggle, PutBack, Ask, Configure, Verify, FindPlugin, Begin,
         Insert, ReadBack, Commit, End, StopRemoved, Remove, RemoveAll, database

\* The tables of a request that another takes something away from.
LEMMA OthersAreSpared ==
  ASSUME IInv, Fresh, NEW c \in Clients, Serve(c), overlaps <= 1,
         DeletePlugin(c) \/ Rollback(c) \/ (Delete(c) /\ ~UNCHANGED rows),
         NEW d \in Clients, d # c, ~At(d, "idle")
  PROVE  Spared(d)'
<1>1. /\ \A e \in Clients : e # c => clients'[e] = clients[e]
      /\ Follows(c) /\ clients[c].pc # "idle" /\ overlaps' = overlaps
  BY LocalsFollow DEF Moves, At
<1>2. overlaps = 1
  BY <1>1 DEF Fresh, Overlapping, Alone, At
<1>3. \A e \in Clients \ {c, d} : clients[e].pc = "idle"
  BY <1>1, <1>2 DEF Fresh, Overlapping, At
<1>4. Bystander(c)'
  <2>1. CASE DeletePlugin(c) \/ Rollback(c)
    <3>1. Bystander(c) \/ (Rollback(c) /\ failed(c) /\ clients[c].pc = "rollback")
      BY <2>1 DEF Bystander, DeletePlugin, Rollback, IInv, Knows, At, Op, request, failed
    <3>2. Bystander(c)
      BY <3>1 DEF Bystander
    <3> QED
      BY <3>2, BystanderStays
  <2>2. CASE Delete(c) /\ ~UNCHANGED rows
    BY <2>2, DeleteFollows DEF Bystander, At
  <2> QED
    BY <2>1, <2>2
<1> QED
  BY <1>1, <1>2, <1>3, <1>4 DEF Spared, Bystander, At

LEMMA OthersStaySound ==
  ASSUME IInv, Fresh, Filed, NEW c \in Clients, Serve(c), overlaps <= 1,
         NEW d \in Clients, d # c, Sound(d)
  PROVE  Sound(d)' \/ Spared(d)'
<1>1. clients'[d] = clients[d]
  BY LocalsFollow DEF Moves
<1>2. CASE At(d, "idle")
  BY <1>1, <1>2 DEF Sound, At
<1>3. CASE DeletePlugin(c) \/ Rollback(c) \/ (Delete(c) /\ ~UNCHANGED rows)
  BY <1>2, <1>3, OthersAreSpared
<1>4. CASE ~(DeletePlugin(c) \/ Rollback(c) \/ (Delete(c) /\ ~UNCHANGED rows))
  <2>1. /\ plugins' = plugins
        /\ \A s \in rows : \E new \in rows' : new.id = s.id
        /\ \A new \in rows' : \/ Insert(c) /\ new.id = lastId + 1
                              \/ \E s \in rows : s.id = new.id /\ s.plugin = new.plugin
    BY <1>4, TablesFollow
  <2>2. ASSUME At(d, "readBack")
        PROVE  /\ \E s \in rows' : s.id = service(d).id
               /\ \A s \in rows' : s.id = service(d).id => s.plugin \in plugins'
    <3>1. PICK old \in rows : old.id = service(d).id
      BY <2>2 DEF Sound, WithId
    <3>2. \A s \in rows : s.id = service(d).id => s.plugin \in plugins
      BY <2>2 DEF Sound, WithId, Readable
    <3>3. old.id # lastId + 1
      BY DEF Filed, IInv, Typed, DatabaseTyped, Row
    <3> QED
      BY <2>1, <3>1, <3>2, <3>3
  <2> QED
    BY <1>1, <2>1, <2>2 DEF Sound, At, Op, request, service, failed, WithId, Readable
<1> QED
  BY <1>3, <1>4

\* The tables of a request that has changed them itself.
LEMMA OwnStaySound ==
  ASSUME IInv, Filed, NEW c \in Clients, Serve(c), Sound(c)
  PROVE  Sound(c)'
<1>1. /\ clients[c] \in Local /\ Knows(clients[c], runnables) /\ Follows(c)
      /\ rows \subseteq Row /\ lastId \in Nat
      /\ clients'[c].pc # "idle" => clients'[c].request = clients[c].request
  BY LocalsFollow, RestingIsIdle DEF IInv, Typed, DatabaseTyped, Follows
<1>2. CASE FindPlugin(c) \/ Begin(c)
  <2>1. UNCHANGED plugins /\ clients'[c].pc \in {"begin", "insert", "findPlugin", "deletePlugin", "idle"}
    BY <1>2, Paths DEF FindPlugin, Begin, database, tables, Leads
  <2>2. clients'[c].pc = "begin" => request(c).plugin \in plugins
    BY <1>2, AnswerLeads DEF FindPlugin, Begin, Goto, IInv, Typed, Local
  <2>3. clients'[c].pc = "insert" => Begin(c) /\ clients[c].pc = "begin"
    BY <1>2, Paths DEF Leads
  <2> QED
    BY <1>1, <2>1, <2>2, <2>3 DEF Sound, At, Op, request
<1>3. CASE Insert(c)
  <2>1. clients[c].pc = "insert" /\ clients[c].request.op = "post" /\ clients[c].service = Null
    BY <1>1, <1>3 DEF Insert, At, Knows
  <2>2. CASE Fail(c)
    <3>1. clients'[c].pc = "rollback" /\ clients'[c].service = Null
      BY <2>1, <2>2, FailMoves
    <3> QED
      BY <3>1 DEF Sound, At, service
  <2>3. CASE ~Fail(c)
    <3>1. PICK s : /\ s = [id |-> lastId + 1, name |-> request(c).name,
                           plugin |-> request(c).plugin, config |-> request(c).config]
                   /\ Execute(plugins, rows \cup {s}, lastId + 1)
                   /\ clients' = [clients EXCEPT ![c].service = s, ![c].pc = "readBack"]
      BY <1>3, <2>3 DEF Insert
    <3>2. s \in Row /\ s.id = lastId + 1 /\ s.plugin = request(c).plugin
      BY <1>1, <2>1, <3>1, RequestFacts DEF Knows, Row, request
    <3>3. clients'[c].pc = "readBack" /\ clients'[c].service = s
      <4>1. clients'[c] = [clients[c] EXCEPT !.service = s, !.pc = "readBack"]
        BY <3>1, <3>2, ServiceMoves DEF Steps
      <4> QED
        BY <1>1, <4>1 DEF Local
    <3>4. rows' = rows \cup {s} /\ plugins' = plugins
      BY <3>1 DEF Execute
    <3>5. s.plugin \in plugins
      BY <2>1, <3>2 DEF Sound, Op, request
    <3>6. \A r \in rows : r.id # lastId + 1
      BY <1>1 DEF Filed, Row
    <3> QED
      BY <3>2, <3>3, <3>4, <3>5, <3>6 DEF Sound, At, service, WithId, Readable
  <2> QED
    BY <2>2, <2>3
<1>4. CASE ReadBack(c)
  <2>1. clients[c].request.op = "post"
    BY <1>1, <1>4 DEF ReadBack, Knows, At
  <2>2. {s \in WithId(service(c).id) : Readable(s)} # {}
    BY <1>4 DEF ReadBack, Sound
  <2>3. PICK s \in rows : clients' = [clients EXCEPT ![c].service = s, ![c].pc = "commit"]
    BY <1>4, <2>2 DEF ReadBack, WithId
  <2>4. clients'[c].pc = "commit"
    BY <1>1, <2>3 DEF IInv, Typed, Local
  <2> QED
    BY <1>1, <2>1, <2>4 DEF Sound, At, Op, request
<1>5. CASE DeletePlugin(c)
  <2>1. /\ clients[c].request.op = "deletePlugin"
        /\ plugins' = plugins \ {request(c).plugin}
        /\ clients'[c].pc \in {"commit", "rollback", "idle"}
    BY <1>1, <1>5, Paths DEF DeletePlugin, Execute, Knows, At, Leads
  <2> QED
    BY <1>1, <2>1 DEF Sound, At, Op, request
<1>6. CASE Rollback(c)
  <2>1. clients'[c].pc \in {"commit", "idle"}
    BY <1>6, Paths DEF Leads
  <2>2. clients'[c].pc # "idle" => clients'[c].failed
    BY <1>1, <1>6, RestingIsIdle DEF Follows, Rollback, Knows, At
  <2> QED
    BY <2>1, <2>2 DEF Sound, At, failed
<1>7. CASE Commit(c) \/ End(c)
  <2>1. /\ UNCHANGED plugins /\ clients[c].pc \in {"commit", "end"}
        /\ clients'[c].pc \in {"end", "get", "removeAll", "idle"}
    BY <1>7, Paths DEF Commit, End, tables, At, Leads
  <2>2. clients'[c].pc # "idle" => clients'[c].failed = clients[c].failed
    BY <1>1, <2>1, RestingIsIdle DEF Follows
  <2>3. clients'[c].pc = "removeAll" => ~failed(c) /\ clients[c].request.op = "deletePlugin"
    <3>1. CASE Finish(c)
      <4>1. Answer(c) \/ ~failed(c)
        BY <3>1 DEF Finish
      <4>2. Op(c) # "deletePlugin" => Answer(c) \/ Goto(c, "get")
        BY <1>1, <2>1, <3>1 DEF Finish, Knows, Op, request
      <4> QED
        BY <4>1, <4>2, AnswerLeads, GotoLeads DEF Op, request
    <3>2. CASE Goto(c, "end")
      BY <3>2, GotoLeads
    <3> QED
      BY <1>7, <3>1, <3>2 DEF Commit, End
  <2> QED
    BY <1>1, <2>1, <2>2, <2>3 DEF Sound, At, Op, request, failed
<1>8. CASE clients'[c].pc \notin {"begin", "insert", "readBack", "rollback", "commit", "end", "removeAll"}
  BY <1>8 DEF Sound, At
<1> QED
  BY <1>2, <1>3, <1>4, <1>5, <1>6, <1>7, <1>8, Paths DEF Serve, Leads

LEMMA TransactionsAreInductive == IInv /\ Fresh /\ Transactions /\ [Next]_vars => Transactions'
<1> SUFFICES ASSUME IInv, Fresh, Transactions, [Next]_vars PROVE Transactions'
  OBVIOUS
<1>1. Filed /\ Filed'
  BY FiledIsInductive DEF Transactions
<1> SUFFICES ASSUME overlaps' <= 1, NEW d \in Clients PROVE Sound(d)' \/ Spared(d)'
  BY <1>1 DEF Transactions
<1>2. CASE UNCHANGED vars \/ LoopEnds
  <2>1. UNCHANGED <<plugins, rows, clients, overlaps>>
    BY <1>2 DEF vars, LoopEnds, database, tables
  <2> QED
    <3>1. Sound(d) \/ Spared(d)
      BY <2>1 DEF Transactions
    <3>2. Sound(d) => Sound(d)'
      BY <2>1 DEF Sound, At, Op, request, service, failed, WithId, Readable
    <3>3. Spared(d) => Spared(d)'
      BY <2>1 DEF Spared, Bystander, At, Op, request, failed
    <3> QED
      BY <3>1, <3>2, <3>3
<1>3. CASE Restart
  <2>1. clients'[d].pc = "idle"
    BY <1>3, RestingIsIdle DEF Restart
  <2> QED
    BY <2>1 DEF Sound, At
<1>4. ASSUME NEW c \in Clients, Receive(c)
      PROVE  Sound(d)' \/ Spared(d)'
  <2>1. /\ \A e \in Clients : e # c => clients'[e] = clients[e]
        /\ clients'[c].pc \in {"findPlugin", "begin", "find"}
        /\ clients'[c].pc = "begin" => clients'[c].request.op = "deletePlugin"
        /\ UNCHANGED <<plugins, rows>> /\ overlaps \in Nat
        /\ IF \A e \in Clients : e # c => At(e, "idle")
           THEN overlaps' = overlaps ELSE overlaps' = overlaps + 1
    BY <1>4, ReceiveFollows DEF Fresh, database, tables
  <2>2. CASE d = c
    BY <2>1, <2>2 DEF Sound, At, Op, request
  <2>3. CASE d # c /\ At(d, "idle")
    BY <2>1, <2>3 DEF Sound, At
  <2>4. CASE d # c /\ ~At(d, "idle")
    <3>1. overlaps = 0
      BY <2>1, <2>4
    <3>2. Sound(d)
      BY <3>1 DEF Transactions, Spared
    <3> QED
      BY <2>1, <2>4, <3>2 DEF Sound, At, Op, request, service, failed, WithId, Readable
  <2> QED
    BY <2>2, <2>3, <2>4
<1>5. ASSUME NEW c \in Clients, Serve(c)
      PROVE  Sound(d)' \/ Spared(d)'
  <2>1. overlaps' = overlaps
    BY <1>5, LocalsFollow
  <2>2. Sound(d) \/ Spared(d)
    BY <2>1 DEF Transactions
  <2> QED
    BY <1>1, <1>5, <2>1, <2>2, OwnStaySound, OthersStaySound, SparedStays
<1> QED
  BY <1>2, <1>3, <1>4, <1>5 DEF Next

LEMMA InitTransactions == Init => Transactions
<1> SUFFICES ASSUME Init PROVE Transactions
  OBVIOUS
<1>1. \A c \in Clients : clients[c].pc = "idle"
  BY RestingIsIdle DEF Init
<1> QED
  BY <1>1, InitFiled DEF Transactions, Sound, At

------------------------------------------------------------------------------
(* One request during another.                                             *)

(***************************************************************************)
(* With one overlap at most, a deletion reaches the map only when the      *)
(* other request has deleted the row and is over, a runnable that is       *)
(* started or stopped is the one in the map, and one that is replaced is   *)
(* not running, since nobody may start it.                                 *)
(***************************************************************************)
Undisturbed ==
  overlaps <= 1 => \A c \in Clients :
    /\ At(c, "stop") \/ At(c, "remove") \/ (At(c, "delete") /\ WithId(service(c).id) = {}) =>
         overlaps = 1 /\ Alone(c)
    /\ At(c, "remove") /\ Known(c) # None => ~runnables[Known(c)].running
    /\ At(c, "toggle") \/ At(c, "putBack") => Known(c) = runnable(c)
    /\ At(c, "register") /\ Known(c) # None =>
         /\ overlaps = 1 /\ ~runnables[Known(c)].running
         /\ \A d \in Clients : d # c => At(d, "idle") \/ Op(d) \in {"post", "put"}

MapInv == Undisturbed /\ RunningIsInMap

\* With one overlap at most, only a deletion takes a row away that another
\* request is about to delete.
LEMMA RowsRemain ==
  ASSUME IInv, Fresh, Transactions, overlaps <= 1, NEW c \in Clients, Serve(c), ~Delete(c),
         NEW d \in Clients, d # c, At(d, "delete"), NEW old \in rows, old.id = service(d).id
  PROVE  \E new \in rows' : new.id = old.id
<1>1. CASE ~DeletePlugin(c) /\ ~Rollback(c)
  BY <1>1, TablesFollow
<1>2. CASE DeletePlugin(c)
  BY <1>2 DEF DeletePlugin, Execute
<1>3. CASE Rollback(c) /\ autoCommit
  BY <1>3 DEF Rollback, tables
<1>4. CASE Rollback(c) /\ ~autoCommit
  <2>1. rows' = saved.rows /\ clients[c].pc = "rollback"
    BY <1>4 DEF Rollback, At
  <2>2. CASE \E t \in saved.rows : t.id = old.id
    BY <2>1, <2>2
  <2>3. CASE \E e \in Clients : Inserted(e) /\ service(e).id = old.id
    <3>1. PICK e \in Clients : Inserted(e)
      BY <2>3
    <3>2. overlaps = 1
      BY <2>1 DEF Fresh, Overlapping, Alone, At
    <3>3. e = c
      BY <2>1, <3>1, <3>2 DEF Fresh, Overlapping, Inserted, At
    <3>4. ~Sound(c)
      BY <2>1, <3>1, <3>3 DEF Sound, Inserted, At
    <3>5. Bystander(d)
      BY <3>4 DEF Transactions, Spared
    <3>6. Op(d) # "deletePlugin"
      BY DEF IInv, Knows, Serviceless, At, Op, request
    <3> QED
      BY <3>5, <3>6 DEF Bystander, At
  <2> QED
    BY <2>2, <2>3 DEF Transactions, Filed
<1> QED
  BY <1>1, <1>2, <1>3, <1>4

LEMMA FoundIsRow ==
  ASSUME IInv, NEW c \in Clients, Find(c), clients'[c].pc # "idle"
  PROVE  /\ clients'[c].service \in rows /\ UNCHANGED rows
         /\ clients'[c].service.name = request(c).name
<1>1. ~Answer(c)
  BY AnswerLeads
<1>2. PICK s \in {s \in WithName(request(c).name) : Readable(s)} :
              clients' = [clients EXCEPT ![c].service = s,
                  ![c].pc = CASE Op(c) = "delete" -> "delete"
                              [] Op(c) = "put" /\ request(c).config = Null -> "update"
                              [] OTHER -> "get"]
  BY <1>1 DEF Find
<1>3. s \in rows /\ s.name = request(c).name
  BY <1>2 DEF WithName
<1>4. clients'[c].service = s
  BY <1>2 DEF IInv, Typed, Local
<1> QED
  BY <1>3, <1>4 DEF Find, database, tables

LEMMA ServeKeepsDeletions ==
  ASSUME IInv, Fresh, Transactions, MapInv, NEW c \in Clients, Serve(c), overlaps <= 1,
         NEW d \in Clients,
         \/ clients'[d].pc \in {"stop", "remove"}
         \/ clients'[d].pc = "delete" /\ (\A s \in rows' : s.id # clients'[d].service.id)
  PROVE  overlaps = 1 /\ (Alone(d))'
<1>1. /\ \A e \in Clients : e # c => clients'[e] = clients[e]
      /\ Follows(c) /\ clients[c].pc # "idle"
  BY LocalsFollow DEF Moves, At
<1>2. CASE d # c
  <2>1. clients'[d] = clients[d] /\ ~Alone(d) /\ clients[d].pc # "idle"
    BY <1>1, <1>2 DEF Alone, At
  <2>2. /\ clients[d].pc = "delete" /\ \A s \in rows' : s.id # clients[d].service.id
        /\ \E s \in rows : s.id = clients[d].service.id
    <3>1. clients[d].pc = "delete" /\ WithId(service(d).id) # {}
      BY <2>1 DEF MapInv, Undisturbed, At
    <3> QED
      BY <2>1, <3>1 DEF WithId, service
  <2>3. Delete(c)
    BY <1>2, <2>2, RowsRemain DEF At, service
  <2>4. rows' # rows
    BY <2>2
  <2>5. clients'[c].pc = "idle"
    BY <2>3, <2>4, DeleteFollows
  <2>6. overlaps = 1
    BY <1>1, <1>2, <2>1 DEF Fresh, Overlapping, Alone, At
  <2>7. \A e \in Clients \ {c, d} : clients[e].pc = "idle"
    BY <1>1, <1>2, <2>1, <2>6 DEF Fresh, Overlapping, At
  <2> QED
    BY <1>1, <2>5, <2>6, <2>7 DEF Alone, At
<1>3. CASE d = c
  <2>1. overlaps = 1 /\ Alone(c)
    <3>1. CASE clients'[c].pc = "stop"
      <4>1. Delete(c)
        BY <3>1, PathsTo
      <4>2. WithId(service(c).id) = {} /\ At(c, "delete")
        BY <3>1, <4>1, DeleteFollows DEF Delete
      <4> QED
        BY <4>2 DEF MapInv, Undisturbed
    <3>2. CASE clients'[c].pc = "remove"
      <4>1. At(c, "stop")
        BY <3>2, PathsTo DEF StopRemoved
      <4> QED
        BY <4>1 DEF MapInv, Undisturbed
    <3>3. CASE clients'[c].pc = "delete" /\ (\A s \in rows' : s.id # clients'[c].service.id)
      <4>1. clients'[c].service \in rows'
        BY <3>3, PathsTo, FoundIsRow
      <4> QED
        BY <3>3, <4>1
    <3> QED
      BY <1>3, <3>1, <3>2, <3>3
  <2> QED
    BY <1>1, <1>3, <2>1 DEF Alone, At
<1> QED
  BY <1>2, <1>3

LEMMA GetUses ==
  ASSUME IInv, NEW c \in Clients, Get(c), UNCHANGED runnables, clients'[c].pc # "idle"
  PROVE  /\ Known(c) # None /\ clients'[c].runnable = Known(c)
         /\ clients'[c].pc = IF Op(c) \in {"post", "put"} THEN "ask" ELSE "toggle"
<1>1. ~Answer(c)
  BY AnswerLeads
<1>2. clients'[c].pc # "register"
  BY PathsTo DEF Serve
<1>3. CASE clients' = [clients EXCEPT ![c].runnable = Len(runnables) + 1, ![c].pc = "register"]
  BY <1>2, <1>3 DEF IInv, Typed, Local
<1>4. Known(c) # None /\ UseRunnable(c, Known(c))
  BY <1>1, <1>3, <1>2 DEF Get
<1> QED
  BY <1>4, UseLeads

(***************************************************************************)
(* With one overlap at most, only registrations and removals change the    *)
(* map, but for the deletion of a plugin that another request took back.   *)
(***************************************************************************)
LEMMA MapMoves ==
  ASSUME IInv, Fresh, Transactions, MapInv, NEW c \in Clients, Serve(c), overlaps <= 1, NEW n \in Names
  PROVE  \/ services'[n] = services[n]
         \/ Remove(c) /\ n = service(c).name /\ services'[n] = None
         \/ Register(c) /\ n = service(c).name /\ services'[n] = runnable(c)
         \/ RemoveAll(c) /\ Spared(c) /\ services'[n] = None
<1>1. services \in [Names -> 0..Len(runnables)]
  BY DEF IInv, Typed
<1>2. CASE Remove(c)
  BY <1>1, <1>2 DEF Remove, Put
<1>3. CASE RemoveAll(c)
  <2>1. CASE request(c).plugin \notin plugins
    <3>1. {s \in rows : Readable(s) /\ s.plugin = request(c).plugin} = {}
      BY <2>1 DEF Readable
    <3> QED
      BY <1>3, <3>1 DEF RemoveAll
  <2>2. CASE Spared(c)
    BY <1>3, <2>2 DEF RemoveAll
  <2> QED
    BY <1>3, <2>1, <2>2 DEF Transactions, Sound, RemoveAll
<1>4. CASE PutBack(c)
  <2>1. Known(c) = runnable(c)
    BY <1>4 DEF PutBack, MapInv, Undisturbed
  <2>2. services'[n] = services[n]
    BY <1>1, <1>4, <2>1 DEF PutBack, Put, Known
  <2> QED
    BY <2>2
<1> QED
  BY <1>2, <1>3, <1>4, MapFollows

LEMMA ServeKeepsRemoved ==
  ASSUME IInv, Fresh, Transactions, MapInv, NEW c \in Clients, Serve(c), overlaps <= 1,
         NEW d \in Clients, clients'[d].pc = "remove",
         services'[clients'[d].service.name] # None
  PROVE  ~runnables'[services'[clients'[d].service.name]].running
<1>1. /\ \A e \in Clients : e # c => clients'[e] = clients[e]
      /\ Follows(c) /\ clients[c].pc # "idle"
  BY LocalsFollow DEF Moves, At
<1>2. CASE d # c
  BY <1>1, <1>2 DEF MapInv, Undisturbed, Alone, At
<1>3. CASE d = c
  <2>1. StopRemoved(c)
    BY <1>3, PathsTo
  <2>2. clients'[c].service = service(c)
    BY <1>1, <1>3, <2>1, RestingIsIdle DEF Follows, StopRemoved, At, service
  <2>3. services' = services /\ runnables' = Run({Known(c)}, FALSE)
    BY <2>1 DEF StopRemoved
  <2>4. service(c).name \in Names
    BY <2>1 DEF StopRemoved, IInv, Knows, Serviceless, Row, At, service
  <2>5. Known(c) \in 1..Len(runnables')
    <3>1. NamesKept
      BY RunnablesFollow
    <3>2. Known(c) \in 1..Len(runnables)
      <4>1. Known(c) # None
        BY <1>3, <2>2, <2>3 DEF Known
      <4>2. services \in [Names -> 0..Len(runnables)] /\ Len(runnables) \in Nat
        BY DEF IInv, Typed
      <4> QED
        BY <2>4, <4>1, <4>2 DEF Known, None
    <3>3. Len(runnables) \in Nat /\ Len(runnables') \in Nat /\ Len(runnables) <= Len(runnables')
      BY <3>1 DEF NamesKept, IInv, Typed
    <3> QED
      BY <3>2, <3>3
  <2>6. \A i \in 1..Len(runnables') :
           /\ i <= Len(runnables)
           /\ runnables'[i].running =>
                (~(i \in {Known(c)}) /\ runnables[i].running) \/ (i \in {Known(c)} /\ FALSE)
    BY <2>3, RunStartsOnly
  <2>7. ~runnables'[Known(c)].running
    BY <2>5, <2>6
  <2> QED
    BY <1>3, <2>2, <2>3, <2>7 DEF Known
<1> QED
  BY <1>2, <1>3

LEMMA ServeKeepsToggles ==
  ASSUME IInv, Fresh, Transactions, MapInv, NEW c \in Clients, Serve(c), overlaps <= 1,
         NEW d \in Clients, clients'[d].pc \in {"toggle", "putBack"}
  PROVE  services'[clients'[d].service.name] = clients'[d].runnable
<1>1. /\ \A e \in Clients : e # c => clients'[e] = clients[e]
      /\ Follows(c) /\ clients[c].pc # "idle"
  BY LocalsFollow DEF Moves, At
<1>2. CASE d # c
  <2>1. clients'[d] = clients[d] /\ clients[d].pc \in {"toggle", "putBack"}
    BY <1>1, <1>2
  <2>2. /\ Known(d) = runnable(d) /\ Op(d) \notin {"post", "put"}
        /\ runnable(d) # None /\ service(d).name \in Names
    <3>1. Known(d) = runnable(d)
      BY <2>1 DEF MapInv, Undisturbed, At
    <3>2. Op(d) \notin {"post", "put"}
      BY <2>1 DEF Fresh, Asked, At
    <3>3. runnable(d) # None /\ service(d).name \in Names
      BY <2>1 DEF IInv, Typed, Knows, Serviceless, Row, runnable, service, None
    <3> QED
      BY <3>1, <3>2, <3>3
  <2>3. ~Remove(c)
    BY <1>2, <2>1 DEF Remove, MapInv, Undisturbed, Alone, At
  <2>4. ASSUME Register(c), service(d).name = service(c).name PROVE FALSE
    <3>1. Known(c) = Known(d) /\ At(c, "register")
      BY <2>4 DEF Known, Register
    <3>2. At(d, "idle") \/ Op(d) \in {"post", "put"}
      BY <1>2, <2>2, <3>1 DEF MapInv, Undisturbed
    <3> QED
      BY <2>1, <2>2, <3>2 DEF At
  <2>5. ~Spared(c)
    BY <1>2, <2>1 DEF Spared, Bystander, IInv, Knows, Serviceless, At, Op, request
  <2>6. services'[service(d).name] = services[service(d).name]
    BY <2>2, <2>3, <2>4, <2>5, MapMoves
  <2> QED
    BY <2>1, <2>2, <2>6 DEF Known, service, runnable
<1>3. CASE d = c
  <2>1. clients'[c].service = service(c)
    BY <1>1, <1>3, PathsTo, RestingIsIdle DEF Follows, Get, Toggle, At, service
  <2>2. CASE clients'[c].pc = "toggle"
    <3>1. Get(c) /\ UNCHANGED runnables /\ services' = services
      BY <2>2, PathsTo DEF Get
    <3>2. clients'[c].runnable = Known(c)
      BY <2>2, <3>1, GetUses
    <3> QED
      BY <1>3, <2>1, <3>1, <3>2 DEF Known
  <2>3. CASE clients'[c].pc = "putBack"
    <3>1. Toggle(c) /\ At(c, "toggle") /\ services' = services
      BY <2>3, PathsTo DEF Toggle
    <3>2. Known(c) = runnable(c)
      BY <3>1 DEF MapInv, Undisturbed
    <3>3. clients'[c].runnable = runnable(c)
      BY <1>1, <2>3, <3>1, RestingIsIdle DEF Follows, At, runnable
    <3> QED
      BY <1>3, <2>1, <3>1, <3>2, <3>3 DEF Known
  <2> QED
    BY <1>3, <2>2, <2>3
<1> QED
  BY <1>2, <1>3

LEMMA ServeKeepsRegisters ==
  ASSUME IInv, Fresh, Transactions, MapInv, NEW c \in Clients, Serve(c), overlaps <= 1,
         NEW d \in Clients, clients'[d].pc = "register",
         services'[clients'[d].service.name] # None
  PROVE  /\ overlaps = 1 /\ ~runnables'[services'[clients'[d].service.name]].running
         /\ \A e \in Clients : e # d =>
              clients'[e].pc = "idle" \/ clients'[e].request.op \in {"post", "put"}
<1>1. /\ \A e \in Clients : e # c => clients'[e] = clients[e]
      /\ Follows(c) /\ clients[c].pc # "idle"
      /\ clients'[c].pc = "idle" \/ clients'[c].request = clients[c].request
  BY LocalsFollow, RestingIsIdle DEF Moves, At, Follows
<1>2. CASE d = c
  <2>1. /\ services' = services /\ Known(c) = None /\ clients'[c].service = service(c)
    BY <1>2, PathsTo, GetAppends DEF Get
  <2> QED
    BY <1>2, <2>1 DEF Known
<1>3. CASE d # c
  <2> DEFINE n == service(d).name
  <2>1. clients'[d] = clients[d] /\ At(d, "register") /\ n \in Names
    BY <1>1, <1>3 DEF At, IInv, Knows, Serviceless, Row, service
  <2>2. overlaps = 1
    BY <1>1, <1>3, <2>1 DEF Fresh, Overlapping, Alone, At
  <2>3. ASSUME services'[n] = services[n]
        PROVE  /\ ~runnables'[services'[n]].running
               /\ \A e \in Clients : e # d =>
                    clients'[e].pc = "idle" \/ clients'[e].request.op \in {"post", "put"}
    <3>1. Known(d) # None /\ Known(d) = services[n]
      BY <2>1, <2>3 DEF Known, service
    <3>2. /\ ~runnables[Known(d)].running
          /\ \A e \in Clients : e # d =>
               clients[e].pc = "idle" \/ clients[e].request.op \in {"post", "put"}
      BY <2>1, <3>1 DEF MapInv, Undisturbed, At, Op, request
    <3>3. ~Starts(Known(d), c)
      BY <1>3, <3>2 DEF Starts, Fresh, Asked, At, Op, request
    <3>4. Known(d) \in 1..Len(runnables')
      <4>1. NamesKept /\ services \in [Names -> 0..Len(runnables)]
        BY RunnablesFollow DEF IInv, Typed
      <4>2. Len(runnables) \in Nat /\ Len(runnables') \in Nat /\ Len(runnables) <= Len(runnables')
        BY <4>1 DEF NamesKept, IInv, Typed
      <4> QED
        BY <2>1, <3>1, <4>1, <4>2 DEF None
    <3>5. ~runnables'[Known(d)].running
      BY <3>2, <3>3, <3>4, RunnablesFollow DEF NoneStarts
    <3>6. \A e \in Clients : e # d =>
            clients'[e].pc = "idle" \/ clients'[e].request.op \in {"post", "put"}
      BY <1>1, <1>3, <3>2
    <3> QED
      BY <2>3, <3>1, <3>5, <3>6
  <2>4. ASSUME Register(c), services'[n] = runnable(c)
        PROVE  /\ ~runnables'[services'[n]].running
               /\ \A e \in Clients : e # d =>
                    clients'[e].pc = "idle" \/ clients'[e].request.op \in {"post", "put"}
    <3>1. ~runnables[runnable(c)].running /\ runnables' = runnables /\ At(c, "register")
      BY <2>4 DEF Register, Fresh, NewAreFresh
    <3>2. clients[c].request.op \in {"post", "put"}
      BY <3>1 DEF IInv, Knows, At
    <3>3. \A e \in Clients \ {c, d} : clients[e].pc = "idle"
      BY <1>1, <1>3, <2>1, <2>2 DEF Fresh, Overlapping, At
    <3> QED
      BY <1>1, <1>3, <2>4, <3>1, <3>2, <3>3
  <2>5. ~(services'[n] = None)
    BY <2>1 DEF service
  <2>6. services'[n] = services[n] \/ (Register(c) /\ services'[n] = runnable(c))
    <3> HIDE DEF n
    <3> QED
      BY <2>1, <2>5, MapMoves
  <2>7. n = clients'[d].service.name
    BY <2>1 DEF service
  <2> HIDE DEF n
  <2> QED
    BY <2>2, <2>3, <2>4, <2>6, <2>7
<1> QED
  BY <1>2, <1>3

LEMMA ServeKeepsRunning ==
  ASSUME IInv, Fresh, Transactions, MapInv, NEW c \in Clients, Serve(c), overlaps <= 1,
         NEW i \in DOMAIN runnables', runnables'[i].running
  PROVE  services'[runnables'[i].service.name] = i
<1>1. /\ NamesKept /\ NoneStarts(c) /\ Len(runnables) \in Nat /\ Len(runnables') \in Nat
      /\ DOMAIN runnables = 1..Len(runnables) /\ DOMAIN runnables' = 1..Len(runnables')
  BY RunnablesFollow DEF NamesKept, IInv, Typed
<1>2. (i <= Len(runnables) /\ runnables[i].running) \/ Starts(i, c)
  BY <1>1 DEF NoneStarts
<1>3. CASE Starts(i, c)
  <2>1. /\ i = runnable(c) /\ Toggle(c) /\ services' = services /\ At(c, "toggle")
    BY <1>3, Paths DEF Starts, Serve, Leads, At, Toggle
  <2>2. i \in 1..Len(runnables) /\ runnables[i].service.name = service(c).name
    BY <1>1, <2>1 DEF IInv, Knows, At, service, runnable
  <2>3. Known(c) = i
    BY <2>1 DEF MapInv, Undisturbed
  <2> QED
    BY <1>1, <2>1, <2>2, <2>3 DEF NamesKept, Known
<1>4. CASE i <= Len(runnables) /\ runnables[i].running
  <2> DEFINE n == runnables[i].service.name
  <2>1. i \in 1..Len(runnables) /\ n \in Names
    <3>1. i \in 1..Len(runnables)
      BY <1>1, <1>4
    <3>2. runnables[i] \in RunnableRow
      BY <3>1 DEF IInv, Typed
    <3> QED
      BY <3>1, <3>2 DEF RunnableRow, Row
  <2>2. services[n] = i /\ i # None
    BY <1>1, <1>4, <2>1 DEF MapInv, RunningIsInMap, None
  <2>3. runnables'[i].service.name = n
    BY <1>1, <2>1 DEF NamesKept
  <2> HIDE DEF n
  <2>4. ASSUME Remove(c) \/ Register(c), n = service(c).name PROVE FALSE
    <3>1. Known(c) = i /\ (At(c, "remove") \/ At(c, "register"))
      BY <2>2, <2>4 DEF Known, Remove, Register
    <3>2. ~runnables[Known(c)].running
      BY <2>2, <3>1 DEF MapInv, Undisturbed
    <3> QED
      BY <1>4, <3>1, <3>2
  <2>5. CASE RemoveAll(c)
    <3>1. PICK names : /\ runnables' = Run({services[m] : m \in names}, FALSE)
                       /\ services' = [m \in Names |-> IF m \in names THEN None ELSE services[m]]
      BY <2>5 DEF RemoveAll
    <3>2. i \notin {services[m] : m \in names}
      BY <1>1, <3>1, RunStartsOnly
    <3>3. services'[n] = services[n]
      BY <2>1, <2>2, <3>1, <3>2
    <3> QED
      BY <2>2, <2>3, <3>3
  <2>6. CASE ~RemoveAll(c)
    <3>1. services'[n] = services[n]
      BY <2>1, <2>4, <2>6, MapMoves
    <3> QED
      BY <2>2, <2>3, <3>1
  <2> QED
    BY <2>5, <2>6
<1> QED
  BY <1>2, <1>3, <1>4

LEMMA ServeKeepsMap ==
  ASSUME IInv, Fresh, Transactions, MapInv, NEW c \in Clients, Serve(c)
  PROVE  MapInv'
<1>1. overlaps' = overlaps
  BY LocalsFollow
<1>2. CASE overlaps <= 1
  <2> USE DEF Alone, At
  <2>1. ASSUME NEW d \in Clients,
               \/ clients'[d].pc \in {"stop", "remove"}
               \/ clients'[d].pc = "delete" /\ (\A s \in rows' : s.id # clients'[d].service.id)
        PROVE  overlaps = 1 /\ (Alone(d))'
    BY <1>2, <2>1, ServeKeepsDeletions
  <2>4. ASSUME NEW d \in Clients, clients'[d].pc = "remove",
               services'[clients'[d].service.name] # None
        PROVE  ~runnables'[services'[clients'[d].service.name]].running
    BY <1>2, <2>4, ServeKeepsRemoved
  <2>5. ASSUME NEW d \in Clients, clients'[d].pc \in {"toggle", "putBack"}
        PROVE  services'[clients'[d].service.name] = clients'[d].runnable
    BY <1>2, <2>5, ServeKeepsToggles
  <2>6. ASSUME NEW d \in Clients, clients'[d].pc = "register",
               services'[clients'[d].service.name] # None
        PROVE  /\ overlaps = 1 /\ ~runnables'[services'[clients'[d].service.name]].running
               /\ \A e \in Clients : e # d =>
                    clients'[e].pc = "idle" \/ clients'[e].request.op \in {"post", "put"}
    BY <1>2, <2>6, ServeKeepsRegisters
  <2>2. Undisturbed'
    BY <1>1, <2>1, <2>4, <2>5, <2>6
       DEF Undisturbed, Known, runnable, service, Op, request, WithId
  <2>3. RunningIsInMap'
    BY <1>2, ServeKeepsRunning DEF RunningIsInMap
  <2> QED
    BY <2>2, <2>3 DEF MapInv
<1>3. CASE ~(overlaps <= 1)
  BY <1>1, <1>3 DEF MapInv, Undisturbed, RunningIsInMap
<1> QED
  BY <1>2, <1>3

LEMMA ReceiveKeepsMap ==
  ASSUME IInv, Fresh, Transactions, MapInv, NEW c \in Clients, Receive(c)
  PROVE  MapInv'
<1>1. /\ \A d \in Clients : d # c => clients'[d] = clients[d]
      /\ clients'[c].pc \in {"findPlugin", "begin", "find"}
      /\ UNCHANGED <<rows, runnables, services>>
      /\ overlaps \in Nat
      /\ IF \A d \in Clients : d # c => At(d, "idle")
         THEN overlaps' = overlaps ELSE overlaps' = overlaps + 1
  BY ReceiveFollows DEF Fresh, database, tables
<1>2. ASSUME NEW d \in Clients, d # c, overlaps' <= 1, ~At(d, "idle")
      PROVE  overlaps = 0
  BY <1>1, <1>2
<1>3. overlaps' <= 1 => overlaps <= 1
  BY <1>1
<1>4. RunningIsInMap'
  BY <1>1, <1>3 DEF MapInv, RunningIsInMap
<1>5. Undisturbed'
  <2> SUFFICES ASSUME overlaps' <= 1, NEW d \in Clients,
                      clients'[d].pc \in {"stop", "remove", "delete", "toggle", "putBack", "register"}
               PROVE  /\ clients'[d].pc \notin {"stop", "remove"}
                      /\ clients'[d].pc = "delete" =>
                           ~(\A s \in rows' : s.id # clients'[d].service.id)
                      /\ clients'[d].pc \in {"toggle", "putBack"} =>
                           services'[clients'[d].service.name] = clients'[d].runnable
                      /\ clients'[d].pc = "register" =>
                           services'[clients'[d].service.name] = None
    BY DEF Undisturbed, At, Known, runnable, service, Op, request, WithId
  <2>1. d # c /\ clients'[d] = clients[d] /\ ~At(d, "idle")
    BY <1>1 DEF At
  <2>2. overlaps = 0
    BY <1>2, <2>1
  <2> QED
    BY <1>1, <2>1, <2>2 DEF MapInv, Undisturbed, At, Known, runnable, service, WithId
<1> QED
  BY <1>4, <1>5 DEF MapInv

LEMMA LoopEndsKeepsMap == IInv /\ MapInv /\ LoopEnds => MapInv'
<1> SUFFICES ASSUME IInv, MapInv, LoopEnds PROVE MapInv'
  OBVIOUS
<1>1. /\ NamesKept /\ UNCHANGED <<services, clients, rows, overlaps>>
      /\ Len(runnables') = Len(runnables) /\ Len(runnables) \in Nat
      /\ DOMAIN runnables = 1..Len(runnables) /\ DOMAIN runnables' = 1..Len(runnables)
      /\ \A i \in 1..Len(runnables) : runnables'[i].running => runnables[i].running
  BY LoopEndsFollows DEF IInv, Typed, NamesKept, database, tables
<1>2. RunningIsInMap'
  BY <1>1 DEF MapInv, RunningIsInMap, NamesKept
<1>3. \A c \in Clients : At(c, "remove") \/ At(c, "register") => service(c).name \in Names
  BY DEF IInv, Knows, Serviceless, Row, At, service
<1>4. \A c \in Clients : (At(c, "remove") \/ At(c, "register")) /\ Known(c) # None =>
        Known(c) \in 1..Len(runnables)
  BY <1>1, <1>3 DEF IInv, Typed, Known, None
<1>5. Undisturbed'
  BY <1>1, <1>4 DEF MapInv, Undisturbed, Alone, At, Known, runnable, service, Op, request, WithId
<1> QED
  BY <1>2, <1>5 DEF MapInv

LEMMA MapInvIsInductive == IInv /\ Fresh /\ Transactions /\ MapInv /\ [Next]_vars => MapInv'
<1> SUFFICES ASSUME IInv, Fresh, Transactions, MapInv, [Next]_vars PROVE MapInv'
  OBVIOUS
<1>1. CASE UNCHANGED vars
  BY <1>1 DEF vars, database, tables, manager, MapInv, Undisturbed, RunningIsInMap, Alone, At, Known,
              runnable, service, Op, request, WithId
<1>2. CASE LoopEnds
  BY <1>2, LoopEndsKeepsMap
<1>3. CASE Restart
  <2>1. /\ \A c \in Clients : clients'[c].pc = "idle"
        /\ DOMAIN runnables' = {}
    BY <1>3, RestingIsIdle DEF Restart
  <2> QED
    BY <2>1 DEF MapInv, Undisturbed, RunningIsInMap, At
<1>4. ASSUME NEW c \in Clients, Receive(c) \/ Serve(c)
      PROVE  MapInv'
  BY <1>4, ReceiveKeepsMap, ServeKeepsMap
<1> QED
  BY <1>1, <1>2, <1>3, <1>4 DEF Next

LEMMA InitMapInv == Init => MapInv
<1> SUFFICES ASSUME Init PROVE MapInv
  OBVIOUS
<1>1. \A c \in Clients : clients[c].pc = "idle"
  BY RestingIsIdle DEF Init
<1>2. DOMAIN runnables = {}
  BY DEF Init
<1> QED
  BY <1>1, <1>2 DEF MapInv, Undisturbed, RunningIsInMap, At

(***************************************************************************)
(* A runnable whose loop runs is in the map under its name, unless more    *)
(* than one request has been received during another: for any number of    *)
(* clients, services and runnables.                                        *)
(***************************************************************************)
THEOREM RunningRunnablesAreInTheMap == Spec => []RunningIsInMap
<1>1. MapInv => RunningIsInMap
  BY DEF MapInv
<1> QED
  BY <1>1, InitIInv, InitFresh, InitTransactions, InitMapInv, IInvIsInductive,
     FreshIsInductive, TransactionsAreInductive, MapInvIsInductive, PTL DEF Spec
------------------------------------------------------------------------------
(* What is remembered.                                                     *)

LEMMA RunKeepsRunnables ==
  ASSUME IInv, NEW numbers, NEW b \in BOOLEAN, runnables' = Run(numbers, b)
  PROVE  /\ Len(runnables') = Len(runnables)
         /\ \A i \in 1..Len(runnables) : /\ runnables'[i].service = runnables[i].service
                                        /\ runnables'[i].config = runnables[i].config
<1>1. runnables \in Seq(RunnableRow) /\ Len(runnables) \in Nat /\ DOMAIN runnables = 1..Len(runnables)
  BY DEF IInv, Typed
<1>2. \A i \in 1..Len(runnables) : runnables[i] \in RunnableRow
  BY <1>1
<1>3. \A i \in 1..Len(runnables) : /\ runnables'[i].service = runnables[i].service
                                 /\ runnables'[i].config = runnables[i].config
  BY <1>1, <1>2 DEF Run, RunnableRow
<1>4. NamesKept
  BY RunKeepsNames
<1>5. DOMAIN runnables' = 1..Len(runnables) /\ DOMAIN runnables' = 1..Len(runnables')
      /\ Len(runnables') \in Nat
  BY <1>1, <1>4 DEF Run, NamesKept
<1> QED
  BY <1>1, <1>3, <1>5

\* A row is written under its identifier.
LEMMA UpdatedFields ==
  ASSUME IInv, NEW s, NEW name, NEW config, Writable(s, name)
  PROVE  /\ Updated(s, name, config).id = s.id
         /\ Updated(s, name, config).name = name
         /\ Updated(s, name, config).config = config
<1>1. (CHOOSE row \in WithId(s.id) : TRUE) \in WithId(s.id)
  BY DEF Writable
<1>2. (CHOOSE row \in WithId(s.id) : TRUE) \in Row
  BY <1>1 DEF WithId, IInv, Typed, DatabaseTyped
<1> QED
  BY <1>1, <1>2 DEF Updated, WithId, Row

\* A runnable remembers the identifier for good, and keeps its configuration
\* until its script accepts another.
LEMMA RunnablesRemember ==
  ASSUME IInv, NEW c \in Clients, Serve(c), NEW i \in 1..Len(runnables)
  PROVE  /\ runnables'[i].service.id = runnables[i].service.id
         /\ \/ runnables'[i].config = runnables[i].config
            \/ /\ Verify(c) /\ Goto(c, "save") /\ i = runnable(c)
               /\ runnables'[i].config = Head(todo(c))
<1>1. runnables \in Seq(RunnableRow) /\ DOMAIN runnables = 1..Len(runnables)
      /\ runnables[i] \in RunnableRow
  BY DEF IInv, Typed
<1>2. CASE UNCHANGED runnables
  BY <1>2
<1>3. CASE Get(c) /\ ~UNCHANGED runnables
  BY <1>3, GetAppends
<1>4. CASE Verify(c)
  <2> DEFINE k == Head(todo(c))
             j == runnable(c)
  <2>1. UNCHANGED runnables \/ (runnables' = [runnables EXCEPT ![j].config = k] /\ Goto(c, "save"))
    BY <1>4 DEF Verify
  <2> HIDE DEF k, j
  <2>2. runnables' = [runnables EXCEPT ![j].config = k] =>
          /\ runnables'[i].service = runnables[i].service
          /\ runnables'[i].config = IF i = j THEN k ELSE runnables[i].config
    BY <1>1 DEF RunnableRow
  <2> QED
    BY <1>2, <1>4, <2>1, <2>2 DEF k, j
<1>5. CASE Save(c)
  <2> DEFINE j == runnable(c)
             old == runnables[j].service
             new == Updated(old, old.name, runnables[j].config)
  <2>1. runnables' = IF Written(old, old.name)
                     THEN [runnables EXCEPT ![j].service = new] ELSE runnables
    BY <1>5 DEF Save
  <2>2. Written(old, old.name) => new.id = old.id
    BY UpdatedFields DEF Written
  <2> HIDE DEF j, new
  <2>3. runnables' = [runnables EXCEPT ![j].service = new] =>
          /\ runnables'[i].service = IF i = j THEN new ELSE runnables[i].service
          /\ runnables'[i].config = runnables[i].config
    BY <1>1 DEF RunnableRow
  <2> QED
    BY <1>2, <2>1, <2>2, <2>3
<1>6. ASSUME NEW numbers, NEW b \in BOOLEAN, runnables' = Run(numbers, b)
      PROVE  /\ runnables'[i].service.id = runnables[i].service.id
             /\ runnables'[i].config = runnables[i].config
  BY <1>6, RunKeepsRunnables
<1>7. CASE Configure(c) \/ StopRemoved(c) \/ RemoveAll(c)
  BY <1>2, <1>6, <1>7 DEF Configure, StopRemoved, RemoveAll
<1>8. CASE Toggle(c)
  <2>1. (Op(c) = "start") \in BOOLEAN
    OBVIOUS
  <2> QED
    BY <1>6, <1>8, <2>1 DEF Toggle
<1> QED
  BY <1>2, <1>3, <1>4, <1>5, <1>7, <1>8
     DEF Serve, Insert, Find, Register, PutBack, Ask, Update, Delete, Remove, DeletePlugin,
         FindPlugin, Begin, ReadBack, Rollback, Commit, End, manager

\* The service of a request is the row it has found, or the one it has added.
LEMMA ServicesFollow ==
  ASSUME IInv, NEW c \in Clients, Serve(c), clients'[c].service # Null
  PROVE  \/ clients'[c].service = service(c)
         \/ clients'[c].service \in rows /\ (Find(c) \/ ReadBack(c))
         \/ /\ Insert(c) /\ ~Fail(c)
            /\ clients'[c].service = [id |-> lastId + 1, name |-> request(c).name,
                                      plugin |-> request(c).plugin, config |-> request(c).config]
<1>1. /\ clients \in [Clients -> Local] /\ clients[c] \in Local /\ Follows(c)
      /\ clients'[c].pc # "idle"
  BY LocalsFollow, RestingIsIdle DEF IInv, Typed, Follows
<1>2. ASSUME NEW s, NEW label, clients' = [clients EXCEPT ![c].service = s, ![c].pc = label]
      PROVE  clients'[c].service = s
  BY <1>1, <1>2 DEF Local
<1>3. ASSUME Fail(c), clients[c].pc \in {"insert", "readBack"}
      PROVE  clients'[c].service = service(c)
  BY <1>3, FailMoves DEF service
<1>4. CASE Insert(c)
  BY <1>2, <1>3, <1>4 DEF Insert, At
<1>5. CASE ReadBack(c)
  BY <1>2, <1>3, <1>5 DEF ReadBack, WithId, At
<1>6. CASE Find(c)
  BY <1>1, <1>6, FoundIsRow
<1>7. CASE clients[c].pc \notin {"insert", "readBack", "find"}
  BY <1>1, <1>7, RestingIsIdle DEF Follows, service
<1> QED
  BY <1>4, <1>5, <1>6, <1>7, Paths DEF Serve, Leads

\* No statement but the creation of a runnable makes the sequence longer.
LEMMA LengthFollows ==
  ASSUME IInv, NEW c \in Clients, Serve(c), ~(Get(c) /\ ~UNCHANGED runnables)
  PROVE  Len(runnables') = Len(runnables)
<1>1. CASE UNCHANGED runnables
  BY <1>1
<1>2. CASE (Verify(c) \/ Save(c)) /\ ~UNCHANGED runnables
  <2>1. PICK j \in DOMAIN runnables, r \in RunnableRow :
          /\ runnables' = [runnables EXCEPT ![j] = r]
          /\ r.service.name = runnables[j].service.name
          /\ r.running = runnables[j].running
    BY <1>2, VerifyReplaces, SaveReplaces
  <2> QED
    BY <2>1, ReplacedKeeps
<1>3. ASSUME NEW numbers, NEW b \in BOOLEAN, runnables' = Run(numbers, b)
      PROVE  Len(runnables') = Len(runnables)
  BY <1>3, RunKeepsRunnables
<1>4. (Op(c) = "start") \in BOOLEAN
  OBVIOUS
<1> QED
  BY <1>1, <1>2, <1>3, <1>4
     DEF Serve, Insert, Find, Register, PutBack, Ask, Update, Delete, Remove, DeletePlugin,
         FindPlugin, Begin, ReadBack, Rollback, Commit, End,
         manager, Configure, StopRemoved, RemoveAll, Toggle

------------------------------------------------------------------------------
(* What is stored.                                                         *)

\* Identifiers and names are keys of rows.
RowsKeyed(r) == \A s, t \in r : s.id = t.id \/ s.name = t.name => s = t

Keyed == RowsKeyed(rows) /\ RowsKeyed(saved.rows)

\* A statement.
LEMMA ExecuteKeeps ==
  ASSUME Keyed, NEW p, NEW r, NEW l, Execute(p, r, l), RowsKeyed(r)
  PROVE  Keyed'
BY DEF Keyed, Execute, Tables, RowsKeyed

LEMMA WriteKeepsKeys ==
  ASSUME IInv, Keyed, NEW s, NEW name, NEW config, Write(s, name, config)
  PROVE  Keyed'
<1>1. CASE Writable(s, name)
  <2> DEFINE new == Updated(s, name, config)
             r == (rows \ WithId(s.id)) \cup {new}
  <2>1. new.id = s.id /\ new.name = name
    BY <1>1, UpdatedFields
  <2>2. Execute(plugins, r, lastId)
    BY <1>1 DEF Write
  <2> HIDE DEF new
  <2>3. \A t \in rows \ WithId(s.id) : t.id # s.id /\ t.name # name
    BY <1>1 DEF Writable, WithId, WithName
  <2>4. RowsKeyed(r)
    BY <2>1, <2>3 DEF Keyed, RowsKeyed
  <2> HIDE DEF r
  <2> QED
    BY <2>2, <2>4, ExecuteKeeps
<1>2. CASE ~Writable(s, name)
  BY <1>2 DEF Write, Keyed, RowsKeyed, database, tables, connection
<1> QED
  BY <1>1, <1>2

\* The row that is added.
LEMMA InsertFollows ==
  ASSUME IInv, Filed, NEW c \in Clients, Insert(c), ~Fail(c)
  PROVE  \E s \in Row :
           /\ s.id = lastId + 1 /\ Execute(plugins, rows \cup {s}, lastId + 1)
           /\ \A t \in rows : t.name # s.name /\ t.id # s.id
           /\ clients'[c].service = s /\ clients'[c].pc = "readBack"
<1> DEFINE r == request(c)
           s == [id |-> lastId + 1, name |-> r.name, plugin |-> r.plugin, config |-> r.config]
<1>1. r \in Request /\ r.op = "post"
  BY DEF IInv, Knows, Insert, At, request
<1>2. s \in Row /\ s.id = lastId + 1 /\ s.name = r.name
  BY <1>1, RequestFacts DEF Row, IInv, Typed, DatabaseTyped
<1>3. /\ Execute(plugins, rows \cup {s}, lastId + 1) /\ WithName(r.name) = {}
      /\ clients' = [clients EXCEPT ![c].service = s, ![c].pc = "readBack"]
  BY DEF Insert
<1> HIDE DEF s
<1>4. clients'[c].service = s /\ clients'[c].pc = "readBack"
  BY <1>3 DEF IInv, Typed, Local
<1>5. \A t \in rows : t.id # lastId + 1
  BY DEF Filed, IInv, Typed, DatabaseTyped, Row
<1> QED
  BY <1>2, <1>3, <1>4, <1>5 DEF WithName

LEMMA ServeKeepsKeyed ==
  ASSUME IInv, Filed, Keyed, NEW c \in Clients, Serve(c)
  PROVE  Keyed'
<1>1. CASE UNCHANGED database
  BY <1>1 DEF Keyed, RowsKeyed, database, tables, connection
<1>2. CASE Insert(c)
  <2>1. CASE Fail(c)
    <3>1. clients'[c].pc # "readBack"
      BY <1>2, <2>1, FailMoves
    <3>2. clients' = [clients EXCEPT ![c].service = [id |-> lastId + 1, name |-> request(c).name,
                        plugin |-> request(c).plugin, config |-> request(c).config],
                        ![c].pc = "readBack"] => clients'[c].pc = "readBack"
      BY DEF IInv, Typed, Local
    <3> QED
      BY <1>1, <1>2, <3>1, <3>2 DEF Insert
  <2>2. CASE ~Fail(c)
    <3>1. PICK s \in Row : /\ Execute(plugins, rows \cup {s}, lastId + 1)
                           /\ \A t \in rows : t.name # s.name /\ t.id # s.id
      BY <1>2, <2>2, InsertFollows
    <3>2. RowsKeyed(rows \cup {s})
      BY <3>1 DEF Keyed, RowsKeyed
    <3> QED
      BY <3>1, <3>2, ExecuteKeeps
  <2> QED
    BY <2>1, <2>2
<1>3. CASE Save(c) \/ Update(c)
  <2>1. PICK s, name, config : Write(s, name, config)
    BY <1>3 DEF Save, Update
  <2> QED
    BY <2>1, WriteKeepsKeys
<1>4. CASE Delete(c)
  <2>1. RowsKeyed(rows \ WithId(service(c).id))
    BY DEF Keyed, RowsKeyed
  <2> QED
    BY <1>4, <2>1, ExecuteKeeps DEF Delete
<1>5. CASE DeletePlugin(c)
  <2>1. RowsKeyed(rows)
    BY DEF Keyed
  <2> QED
    BY <1>5, <2>1, ExecuteKeeps DEF DeletePlugin
<1>6. CASE Begin(c) \/ Rollback(c) \/ Commit(c) \/ End(c)
  <2>1. rows' \in {rows, saved.rows} /\ saved'.rows \in {rows, saved.rows}
    BY <1>6 DEF Begin, Rollback, Commit, End, Tables, tables, connection
  <2> QED
    BY <2>1 DEF Keyed, RowsKeyed
<1> QED
  BY <1>1, <1>2, <1>3, <1>4, <1>5, <1>6
     DEF Serve, Find, FindPlugin, ReadBack, Get, Register, Toggle, PutBack, Ask, Configure,
         Verify, StopRemoved, Remove, RemoveAll

LEMMA InitKeyed == Init => Keyed
BY DEF Init, Keyed, RowsKeyed, Tables

LEMMA KeyedIsInductive == IInv /\ Filed /\ Keyed /\ [Next]_vars => Keyed'
<1> SUFFICES ASSUME IInv, Filed, Keyed, [Next]_vars PROVE Keyed'
  OBVIOUS
<1>1. CASE UNCHANGED vars \/ LoopEnds \/ \E c \in Clients : Receive(c)
  <2>1. UNCHANGED database
    BY <1>1 DEF vars, LoopEnds, Receive
  <2> QED
    BY <2>1 DEF Keyed, RowsKeyed, database, tables, connection
<1>2. CASE Restart
  BY <1>2 DEF Restart, Keyed, RowsKeyed
<1>3. ASSUME NEW c \in Clients, Serve(c) PROVE Keyed'
  BY <1>3, ServeKeepsKeyed
<1> QED
  BY <1>1, <1>2, <1>3 DEF Next

------------------------------------------------------------------------------
(* One request at a time.                                                  *)

InDatabase(s) == \E row \in rows : row.id = s.id /\ row.name = s.name

\* The name of the row leads to the runnable i, which is its own.
Leading(i, s) ==
  services[s.name] = i /\ runnables[i].service.id = s.id /\ s.id \notin disturbed

\* Between verification and saving alone, a runnable is ahead of its row.
Stored ==
  \A s \in rows : \A i \in DOMAIN runnables :
    Leading(i, s) /\ (\A c \in Clients : At(c, "save") => runnable(c) # i) =>
      runnables[i].config \in {Null, s.config}

Working == {"get", "register", "ask", "configure", "verify", "save", "toggle", "putBack",
            "delete", "update", "clear"}
Configuring == {"get", "register", "ask", "configure", "verify", "save"}

\* A transaction that has a row to commit.
Adding(c) ==
  At(c, "readBack") \/ (clients[c].pc \in {"commit", "end"} /\ Op(c) = "post" /\ ~failed(c))

LocalInv(c) ==
  /\ clients[c].pc \in Working => InDatabase(service(c))
  /\ At(c, "find") => Op(c) # "post"
  /\ At(c, "update") => Op(c) = "put"
  /\ At(c, "clear") => Op(c) = "post"
  /\ clients[c].pc \in Configuring /\ Op(c) = "put" => request(c).config # Null
  \* A new row has no runnable yet, and the new one of a POST is not configured.
  /\ Adding(c) => InDatabase(service(c))
  /\ Adding(c) \/ (At(c, "get") /\ Op(c) = "post") =>
       \A i \in DOMAIN runnables : runnables[i].service.id # service(c).id
  /\ At(c, "register") => runnables[runnable(c)].config = Null
  /\ clients[c].pc \in {"register", "ask", "configure", "verify", "clear"} /\ Op(c) = "post" =>
       \A i \in DOMAIN runnables :
         runnables[i].service.id = service(c).id => runnables[i].config = Null
  \* What is configured is the runnable in the map, and last for the request.
  /\ clients[c].pc \in {"ask", "configure", "verify", "save"} => Known(c) = runnable(c)
  /\ clients[c].pc \in {"configure", "verify", "save"} =>
       todo(c)[Len(todo(c))] = request(c).config /\ (Op(c) = "post" => Len(todo(c)) = 1)
  /\ At(c, "save") => todo(c) # <<>> /\ runnables[runnable(c)].config = Head(todo(c))
  /\ At(c, "update") =>
       IF request(c).config = Null
       THEN service(c) \in rows
       ELSE Known(c) # None => runnables[Known(c)].config = request(c).config

(***************************************************************************)
(* An identifier that the file does not know is that of a transaction, and *)
(* no runnable has it: it may be given again.                              *)
(***************************************************************************)
Given ==
  /\ lastId # saved.lastId =>
       \E c \in Clients : clients[c].pc \in {"readBack", "commit"} /\ Op(c) = "post"
  /\ \A i \in DOMAIN runnables : runnables[i].service.id <= saved.lastId

SeqInv == overlaps = 0 => Stored /\ Given /\ \A c \in Clients : LocalInv(c)

LEMMA Sequential ==
  ASSUME IInv, Fresh, overlaps = 0, NEW c \in Clients, Serve(c)
  PROVE  \A d \in Clients : d # c => clients[d].pc = "idle" /\ clients'[d].pc = "idle"
BY LocalsFollow DEF Fresh, Overlapping, Alone, At, Moves

\* A client that is idle has nothing to respect, so one is enough.
LEMMA OneIsEnough ==
  ASSUME IInv, Fresh, overlaps = 0, NEW c \in Clients, Serve(c), Stored', Given', (LocalInv(c))'
  PROVE  SeqInv'
<1>1. \A d \in Clients : d # c => clients'[d].pc = "idle"
  BY Sequential
<1>2. ASSUME NEW d \in Clients, d # c PROVE (LocalInv(d))'
  BY <1>1, <1>2 DEF LocalInv, Adding, At, Working, Configuring
<1> QED
  BY <1>2 DEF SeqInv

LEMMA IdleIsLocal ==
  ASSUME NEW c \in Clients, clients'[c].pc = "idle"
  PROVE  (LocalInv(c))'
BY DEF LocalInv, Adding, At, Working, Configuring

\* Runnables are added, and keep what they remember.
Remembered ==
  \A i \in 1..Len(runnables) : /\ runnables'[i].service.id = runnables[i].service.id
                              /\ runnables'[i].config = runnables[i].config

LEMMA StoredStays ==
  ASSUME IInv, Stored, UNCHANGED <<rows, services, disturbed>>, Remembered, NamesKept,
         \A c \in Clients : ~At(c, "save")
  PROVE  Stored'
<1>1. /\ DOMAIN runnables = 1..Len(runnables) /\ DOMAIN runnables' = 1..Len(runnables')
      /\ Len(runnables) \in Nat /\ Len(runnables') \in Nat
      /\ services \in [Names -> 0..Len(runnables)] /\ rows \subseteq Row
  BY DEF NamesKept, IInv, Typed, DatabaseTyped
<1> SUFFICES ASSUME NEW s \in rows, NEW i \in DOMAIN runnables',
                    services[s.name] = i, runnables'[i].service.id = s.id, s.id \notin disturbed
             PROVE  runnables'[i].config \in {Null, s.config}
  BY DEF Stored, Leading
<1>2. s.name \in Names
  BY <1>1 DEF Row
<1>3. i \in 1..Len(runnables)
  BY <1>1, <1>2
<1> QED
  BY <1>1, <1>3 DEF Stored, Leading, Remembered

\* The configurations that are left to give.
LEMMA NextConfiguration ==
  ASSUME IInv, NEW c \in Clients, Configured(c) \/ Rejected(c)
  PROVE  \/ clients'[c].pc = "idle"
         \/ /\ Len(todo(c)) > 1 /\ clients'[c].pc = "configure"
            /\ clients'[c].todo = Tail(todo(c))
         \/ /\ ~(Len(todo(c)) > 1) /\ Configured(c) /\ Op(c) = "put"
            /\ clients'[c].pc = "update"
         \/ /\ Rejected(c) /\ Op(c) # "put" /\ clients'[c].pc = "clear"
<1>1. CASE Len(todo(c)) > 1
  <2>1. clients' = [clients EXCEPT ![c].todo = Tail(@), ![c].pc = "configure"]
    BY <1>1 DEF Configured, Rejected, Continue
  <2>2. clients'[c] = [clients[c] EXCEPT !.todo = Tail(@), !.pc = "configure"]
    BY <2>1 DEF IInv, Typed
  <2>3. clients[c] \in Local
    BY DEF IInv, Typed
  <2>4. clients'[c].pc = "configure" /\ clients'[c].todo = Tail(todo(c))
    BY <2>2, <2>3 DEF Local, todo
  <2> QED
    BY <1>1, <2>4
<1>2. CASE ~(Len(todo(c)) > 1)
  <2>1. CASE Configured(c)
    BY <1>2, <2>1, AnswerLeads, GotoLeads DEF Configured, Continue
  <2>2. CASE Rejected(c)
    BY <1>2, <2>2, AnswerLeads, GotoLeads DEF Rejected, Continue
  <2> QED
    BY <2>1, <2>2
<1> QED
  BY <1>1, <1>2

\* Of one request, with nothing else going on.
Sole(c) ==
  /\ IInv /\ Fresh /\ Transactions /\ MapInv /\ Keyed /\ SeqInv
  /\ overlaps = 0 /\ Serve(c)

LEMMA SoleIsFirst ==
  ASSUME NEW c \in Clients, Sole(c)
  PROVE  /\ IInv /\ Filed /\ Keyed /\ Stored /\ Given /\ LocalInv(c)
         /\ rows \subseteq Row /\ lastId \in Nat /\ saved.lastId \in Nat
         /\ \A d \in Clients : d # c => clients[d].pc = "idle" /\ clients'[d].pc = "idle"
BY Sequential DEF Sole, SeqInv, Transactions, IInv, Typed, DatabaseTyped

\* What a request has added nobody takes away before it commits.
LEMMA OwnIsReadBack ==
  ASSUME NEW c \in Clients, Sole(c), ReadBack(c)
  PROVE  /\ clients'[c].pc = "commit" /\ clients'[c].service \in rows
         /\ clients'[c].service.id = service(c).id
<1>1. WithId(service(c).id) # {} /\ \A s \in WithId(service(c).id) : Readable(s)
  BY DEF Sole, Transactions, Sound, Spared, ReadBack
<1>2. PICK s \in WithId(service(c).id) :
        clients' = [clients EXCEPT ![c].service = s, ![c].pc = "commit"]
  BY <1>1 DEF ReadBack
<1>3. clients'[c].service = s /\ clients'[c].pc = "commit"
  BY <1>2 DEF Sole, IInv, Typed, Local
<1> QED
  BY <1>3 DEF WithId

\* An addition that fails.
LEMMA InsertFails ==
  ASSUME IInv, NEW c \in Clients, Insert(c), Fail(c)
  PROVE  UNCHANGED database /\ clients'[c].pc = "rollback"
<1>1. clients'[c].pc = "rollback"
  BY FailMoves
<1>2. clients' = [clients EXCEPT ![c].service = [id |-> lastId + 1, name |-> request(c).name,
                    plugin |-> request(c).plugin, config |-> request(c).config],
                    ![c].pc = "readBack"] => clients'[c].pc = "readBack"
  BY DEF IInv, Typed, Local
<1> QED
  BY <1>1, <1>2 DEF Insert

\* The last identifier, in memory and in the file, after a step.
LEMMA LastIdFollows ==
  ASSUME NEW c \in Clients, Sole(c)
  PROVE  /\ saved.lastId <= saved'.lastId
         /\ lastId' # saved'.lastId =>
              clients'[c].pc \in {"readBack", "commit"} /\ clients'[c].request.op = "post"
<1>1. /\ IInv /\ Filed /\ Given
      /\ lastId \in Nat /\ saved.lastId \in Nat /\ saved.lastId <= lastId
      /\ \A d \in Clients : d # c => clients[d].pc = "idle"
      /\ clients'[c].pc # "idle" => clients'[c].request = clients[c].request
      /\ Knows(clients[c], runnables) /\ Serve(c)
  <2>1. clients'[c].pc # "idle" => clients'[c].request = clients[c].request
    BY LocalsFollow, RestingIsIdle DEF Follows, Sole
  <2> QED
    BY <2>1, SoleIsFirst DEF Filed, Sole, IInv
<1>2. clients[c].pc \notin {"readBack", "commit"} => lastId = saved.lastId
  BY <1>1 DEF Given
<1>3. CASE Insert(c)
  <2>1. clients[c].pc = "insert" /\ clients[c].request.op = "post"
    BY <1>1, <1>3 DEF Insert, At, Knows
  <2>2. CASE Fail(c)
    BY <1>1, <1>2, <1>3, <2>1, <2>2, InsertFails DEF database, tables, connection
  <2>3. CASE ~Fail(c)
    <3>1. PICK s \in Row : /\ Execute(plugins, rows \cup {s}, lastId + 1)
                           /\ clients'[c].pc = "readBack"
      BY <1>1, <1>3, <2>3, InsertFollows
    <3>2. lastId' = lastId + 1 /\ saved'.lastId \in {saved.lastId, lastId'}
      BY <3>1 DEF Execute, Tables
    <3>3. saved.lastId <= saved'.lastId
      BY <1>1, <3>2
    <3>4. clients'[c].pc = "readBack" /\ clients'[c].request.op = "post"
      BY <1>1, <2>1, <3>1
    <3> QED
      BY <3>3, <3>4
  <2> QED
    BY <2>2, <2>3
<1>4. CASE ReadBack(c)
  <2>1. clients'[c].pc = "commit" /\ clients[c].request.op = "post" /\ UNCHANGED database
    BY <1>1, <1>4, OwnIsReadBack DEF ReadBack, At, Knows
  <2> QED
    BY <1>1, <2>1 DEF database, tables, connection
<1>5. CASE Rollback(c) \/ Commit(c) \/ End(c)
  <2>1. autoCommit => saved.lastId = lastId
    BY <1>1 DEF Filed, Tables
  <2>2. lastId' = saved'.lastId /\ saved'.lastId \in {saved.lastId, lastId}
    BY <1>5, <2>1 DEF Rollback, Commit, End, Tables, tables, connection
  <2> QED
    BY <1>1, <2>2
<1>6. CASE /\ clients[c].pc \notin {"readBack", "commit"} /\ lastId' = lastId
           /\ saved' = saved \/ saved' = Tables'
  BY <1>1, <1>2, <1>6 DEF Tables
<1>7. CASE ~Insert(c) /\ ~ReadBack(c) /\ ~Rollback(c) /\ ~Commit(c) /\ ~End(c)
  <2>1. clients[c].pc \notin {"readBack", "commit"}
    BY <1>1, <1>7, Paths DEF Serve, Leads
  <2>2. lastId' = lastId /\ (saved' = saved \/ saved' = Tables')
    BY <1>1, <1>7
       DEF Serve, Find, FindPlugin, Begin, DeletePlugin, Get, Register, Toggle, PutBack, Ask,
           Configure, Verify, Save, Update, Delete, StopRemoved, Remove, RemoveAll, Write,
           Execute, database, tables, connection
  <2> QED
    BY <1>6, <2>1, <2>2
<1> QED
  BY <1>3, <1>4, <1>5, <1>7

LEMMA GivenStays ==
  ASSUME NEW c \in Clients, Sole(c)
  PROVE  Given'
<1>1. /\ IInv /\ Given /\ LocalInv(c) /\ Serve(c) /\ NamesKept /\ rows \subseteq Row /\ Filed
      /\ lastId \in Nat /\ saved.lastId \in Nat
      /\ saved.lastId <= saved'.lastId /\ saved'.lastId \in Nat
      /\ \A d \in Clients : d # c => clients[d].pc = "idle"
  <2>1. NamesKept /\ DatabaseTyped'
    <3>1. IInv'
      BY IInvIsInductive DEF Sole, Next
    <3> QED
      BY <3>1, RunnablesFollow DEF Sole, IInv, Typed
  <2>2. saved'.lastId \in Nat
    BY <2>1 DEF DatabaseTyped
  <2>3. saved.lastId <= saved'.lastId
    BY LastIdFollows
  <2>4. /\ IInv /\ Given /\ LocalInv(c) /\ rows \subseteq Row /\ Filed
        /\ lastId \in Nat /\ saved.lastId \in Nat
        /\ \A d \in Clients : d # c => clients[d].pc = "idle"
    BY SoleIsFirst
  <2>5. Serve(c)
    BY DEF Sole
  <2> QED
    BY <2>1, <2>2, <2>3, <2>4, <2>5
<1>2. /\ DOMAIN runnables = 1..Len(runnables) /\ DOMAIN runnables' = 1..Len(runnables')
      /\ Len(runnables) \in Nat /\ Len(runnables') \in Nat
      /\ \A i \in 1..Len(runnables) : runnables[i].service.id \in Nat
  <2>1. runnables \in Seq(RunnableRow) /\ runnables' \in Seq(RunnableRow)
    BY <1>1 DEF NamesKept, IInv, Typed
  <2>2. \A i \in 1..Len(runnables) : runnables[i] \in RunnableRow
    BY <2>1
  <2> QED
    BY <2>1, <2>2 DEF RunnableRow, Row
<1>3. ASSUME NEW i \in DOMAIN runnables' PROVE runnables'[i].service.id <= saved'.lastId
  <2>1. CASE i \in 1..Len(runnables)
    <3>1. runnables'[i].service.id = runnables[i].service.id
      BY <1>1, <2>1, RunnablesRemember
    <3>2. runnables[i].service.id <= saved.lastId
      BY <1>1, <1>2, <2>1 DEF Given
    <3> QED
      BY <1>1, <1>2, <2>1, <3>1, <3>2
  <2>2. CASE i \notin 1..Len(runnables)
    <3>1. Get(c) /\ ~UNCHANGED runnables
      BY <1>1, <1>2, <1>3, <2>2, LengthFollows
    <3>2. /\ Len(runnables') = Len(runnables) + 1
          /\ runnables'[Len(runnables) + 1] = NewRunnable(c)
      BY <1>1, <3>1, GetAppends
    <3>3. i = Len(runnables) + 1
      BY <1>2, <1>3, <2>2, <3>2
    <3>4. clients[c].pc = "get" /\ InDatabase(service(c))
      BY <1>1, <3>1 DEF Get, At, LocalInv, Working
    <3>5. lastId = saved.lastId
      BY <1>1, <3>4 DEF Given
    <3>6. service(c).id \in Nat /\ service(c).id <= saved.lastId
      BY <1>1, <3>4, <3>5 DEF InDatabase, Filed, Row
    <3> QED
      BY <1>1, <3>2, <3>3, <3>6 DEF NewRunnable
  <2> QED
    BY <2>1, <2>2
<1>4. lastId' # saved'.lastId =>
        \E d \in Clients : (clients[d].pc \in {"readBack", "commit"} /\ Op(d) = "post")'
  BY LastIdFollows DEF Op, request
<1> QED
  BY <1>3, <1>4 DEF Given

LEMMA FindIsStored ==
  ASSUME NEW c \in Clients, Sole(c), Find(c)
  PROVE  Stored' /\ (LocalInv(c))'
<1>1. /\ IInv /\ Stored /\ LocalInv(c) /\ clients[c].pc = "find"
      /\ UNCHANGED <<rows, runnables, services, disturbed>>
      /\ \A d \in Clients : d # c => clients[d].pc = "idle" /\ clients'[d].pc = "idle"
  BY SoleIsFirst DEF Find, manager, database, tables, At
<1>2. Stored'
  <2>1. Remembered /\ NamesKept
    BY <1>1, UnchangedNames DEF Remembered
  <2>2. \A d \in Clients : ~At(d, "save")
    BY <1>1 DEF At
  <2> QED
    BY <1>1, <2>1, <2>2, StoredStays
<1>3. CASE clients'[c].pc = "idle"
  BY <1>2, <1>3, IdleIsLocal
<1>4. CASE clients'[c].pc # "idle"
  <2>1. clients'[c].service \in rows
    BY <1>1, <1>4, FoundIsRow
  <2>2. clients'[c].request = clients[c].request
    BY <1>4, LocalsFollow, RestingIsIdle DEF Follows, Sole
  <2>3. clients'[c].pc = CASE Op(c) = "delete" -> "delete"
                            [] Op(c) = "put" /\ request(c).config = Null -> "update"
                            [] OTHER -> "get"
    <3>1. ~Answer(c)
      BY <1>1, <1>4, AnswerLeads
    <3>2. PICK s :
              clients' = [clients EXCEPT ![c].service = s,
                  ![c].pc = CASE Op(c) = "delete" -> "delete"
                              [] Op(c) = "put" /\ request(c).config = Null -> "update"
                              [] OTHER -> "get"]
      BY <3>1 DEF Find
    <3> DEFINE label == CASE Op(c) = "delete" -> "delete"
                          [] Op(c) = "put" /\ request(c).config = Null -> "update"
                          [] OTHER -> "get"
    <3>3. clients' = [clients EXCEPT ![c].service = s, ![c].pc = label]
      BY <3>2
    <3> HIDE DEF label
    <3>4. clients'[c].pc = label
      BY <1>1, <3>3 DEF IInv, Typed, Local
    <3> QED
      BY <3>4 DEF label
  <2>4. Op(c) # "post"
    BY <1>1 DEF LocalInv, At
  <2>5. \/ clients'[c].pc = "delete"
        \/ clients'[c].pc = "update" /\ Op(c) = "put" /\ request(c).config = Null
        \/ clients'[c].pc = "get" /\ (Op(c) = "put" => request(c).config # Null)
    BY <2>3
  <2>6. (LocalInv(c))'
    BY <1>1, <2>1, <2>2, <2>4, <2>5
       DEF LocalInv, Adding, At, Working, Configuring, InDatabase, service, request, Op
  <2> QED
    BY <1>2, <2>6
<1> QED
  BY <1>3, <1>4

LEMMA GetIsStored ==
  ASSUME NEW c \in Clients, Sole(c), Get(c)
  PROVE  Stored' /\ (LocalInv(c))'
<1>1. /\ IInv /\ Stored /\ LocalInv(c) /\ clients[c].pc = "get" /\ NamesKept
      /\ UNCHANGED <<rows, services, disturbed>>
      /\ \A d \in Clients : d # c => clients[d].pc = "idle" /\ clients'[d].pc = "idle"
  BY SoleIsFirst, RunnablesFollow DEF Get, database, tables, At, Serve
<1>2. Remembered
  BY <1>1, RunnablesRemember, Paths DEF Remembered, Serve, Leads
<1>3. Stored'
  <2>1. \A d \in Clients : ~At(d, "save")
    BY <1>1 DEF At
  <2> QED
    BY <1>1, <1>2, <2>1, StoredStays
<1>4. CASE clients'[c].pc = "idle"
  BY <1>3, <1>4, IdleIsLocal
<1>5. ASSUME clients'[c].pc # "idle" PROVE (LocalInv(c))'
  <2>1. clients'[c].request = clients[c].request /\ clients'[c].service = clients[c].service
    BY <1>1, <1>5, LocalsFollow, RestingIsIdle DEF Follows, Sole
  <2>2. /\ InDatabase(service(c))
        /\ Op(c) = "put" => request(c).config # Null
        /\ Op(c) = "post" =>
             \A i \in DOMAIN runnables : runnables[i].service.id # service(c).id
    BY <1>1 DEF LocalInv, Adding, At, Working, Configuring
  <2>3. CASE UNCHANGED runnables
    <3>1. clients'[c].runnable = Known(c) /\ clients'[c].pc \in {"ask", "toggle"}
      BY <1>1, <1>5, <2>3, GetUses
    <3> QED
      BY <1>1, <2>1, <2>2, <2>3, <3>1
         DEF LocalInv, Adding, At, Working, Configuring, InDatabase, service, request, runnable, Op, Known
  <2>4. CASE ~UNCHANGED runnables
    <3> DEFINE n == Len(runnables) + 1
    <3>1. /\ clients'[c].pc = "register" /\ clients'[c].runnable = n
          /\ Len(runnables') = n /\ runnables'[n] = NewRunnable(c)
          /\ \A i \in 1..Len(runnables) : runnables'[i] = runnables[i]
      BY <1>1, <2>4, GetAppends
    <3>2. DOMAIN runnables = 1..Len(runnables) /\ DOMAIN runnables' = 1..Len(runnables')
          /\ Len(runnables) \in Nat
      BY <1>1 DEF IInv, Typed, NamesKept
    <3>3. NewRunnable(c).config = Null
      BY DEF NewRunnable
    <3>4. Op(c) = "post" => \A i \in DOMAIN runnables' :
            runnables'[i].service.id = service(c).id => runnables'[i].config = Null
      BY <2>2, <3>1, <3>2, <3>3
    <3> HIDE DEF n
    <3> QED
      BY <1>1, <2>1, <2>2, <3>1, <3>3, <3>4
         DEF LocalInv, Adding, At, Working, Configuring, InDatabase, service, request, runnable, Op, Known
  <2> QED
    BY <2>3, <2>4
<1> QED
  BY <1>3, <1>4, <1>5

LEMMA RegisterIsStored ==
  ASSUME NEW c \in Clients, Sole(c), Register(c)
  PROVE  Stored' /\ (LocalInv(c))'
<1>1. /\ IInv /\ Stored /\ LocalInv(c) /\ clients[c].pc = "register"
      /\ UNCHANGED <<rows, runnables, disturbed>> /\ Put(service(c).name, runnable(c))
      /\ \A d \in Clients : d # c => clients[d].pc = "idle" /\ clients'[d].pc = "idle"
  BY SoleIsFirst DEF Register, database, tables, At
<1>2. /\ service(c).name \in Names /\ services \in [Names -> 0..Len(runnables)]
      /\ runnable(c) \in DOMAIN runnables /\ rows \subseteq Row
      /\ request(c).op \in {"post", "put"}
  BY <1>1 DEF IInv, Typed, DatabaseTyped, Knows, Serviceless, Row, service, runnable, request
<1>3. \A n \in Names : services'[n] = IF n = service(c).name THEN runnable(c) ELSE services[n]
  BY <1>1, <1>2 DEF Put
<1>4. runnables[runnable(c)].config = Null
  BY <1>1 DEF LocalInv, At
<1>5. Stored'
  <2> SUFFICES ASSUME NEW s \in rows, NEW i \in DOMAIN runnables,
                      services'[s.name] = i, runnables[i].service.id = s.id, s.id \notin disturbed
               PROVE  runnables[i].config \in {Null, s.config}
    BY <1>1 DEF Stored, Leading
  <2>1. s.name \in Names
    BY <1>2 DEF Row
  <2>2. CASE s.name = service(c).name
    BY <1>3, <1>4, <2>1, <2>2
  <2>3. CASE s.name # service(c).name
    BY <1>1, <1>3, <2>1, <2>3 DEF Stored, Leading, At
  <2> QED
    BY <2>2, <2>3
<1>6. CASE clients'[c].pc = "idle"
  BY <1>5, <1>6, IdleIsLocal
<1>7. CASE clients'[c].pc # "idle"
  <2>1. clients'[c].request = clients[c].request /\ clients'[c].service = clients[c].service
    BY <1>1, <1>7, LocalsFollow, RestingIsIdle DEF Follows, Sole
  <2>2. clients'[c].pc = "ask" /\ clients'[c].runnable = runnable(c)
    BY <1>1, <1>2, <1>7, UseLeads DEF Register, Op
  <2>3. services'[service(c).name] = runnable(c)
    BY <1>2, <1>3
  <2>4. /\ InDatabase(service(c))
        /\ Op(c) = "put" => request(c).config # Null
        /\ Op(c) = "post" => \A i \in DOMAIN runnables :
             runnables[i].service.id = service(c).id => runnables[i].config = Null
    BY <1>1 DEF LocalInv, Adding, At, Working, Configuring
  <2>5. (LocalInv(c))'
    BY <1>1, <2>1, <2>2, <2>3, <2>4
       DEF LocalInv, Adding, At, Working, Configuring, InDatabase, service, request, runnable, Op, Known
  <2> QED
    BY <1>5, <2>5
<1> QED
  BY <1>6, <1>7

\* Those that answer, and change neither rows nor what a runnable remembers.
LEMMA QuietIsStored ==
  ASSUME NEW c \in Clients, Sole(c), clients[c].pc # "save", ~Verify(c),
         UNCHANGED <<rows, services, disturbed>>
  PROVE  Stored' /\ Remembered /\ NamesKept
<1>1. /\ IInv /\ Stored
      /\ \A d \in Clients : d # c => clients[d].pc = "idle" /\ clients'[d].pc = "idle"
  BY SoleIsFirst
<1>2. Remembered /\ NamesKept
  BY <1>1, RunnablesRemember, RunnablesFollow DEF Remembered, Sole
<1>3. \A d \in Clients : ~At(d, "save")
  BY <1>1 DEF At
<1> QED
  BY <1>1, <1>2, <1>3, StoredStays

LEMMA InsertIsStored ==
  ASSUME NEW c \in Clients, Sole(c), Insert(c)
  PROVE  Stored' /\ (LocalInv(c))'
<1>1. /\ IInv /\ Filed /\ Stored /\ Given /\ clients[c].pc = "insert"
      /\ rows \subseteq Row /\ lastId \in Nat /\ saved.lastId \in Nat /\ saved.lastId <= lastId
      /\ UNCHANGED <<runnables, services, disturbed>>
      /\ \A d \in Clients : d # c => clients[d].pc = "idle" /\ clients'[d].pc = "idle"
  BY SoleIsFirst DEF Insert, manager, At, Filed
<1>2. CASE Fail(c)
  <2>1. UNCHANGED rows /\ clients'[c].pc = "rollback"
    BY <1>1, <1>2, InsertFails DEF database, tables
  <2>2. clients[c].pc # "save" /\ ~Verify(c)
    BY <1>1 DEF Verify, At
  <2> QED
    BY <1>1, <2>1, <2>2, QuietIsStored DEF LocalInv, Adding, At, Working, Configuring
<1>3. CASE ~Fail(c)
  <2>1. PICK s \in Row :
           /\ s.id = lastId + 1 /\ Execute(plugins, rows \cup {s}, lastId + 1)
           /\ \A t \in rows : t.name # s.name /\ t.id # s.id
           /\ clients'[c].service = s /\ clients'[c].pc = "readBack"
    BY <1>1, <1>3, InsertFollows
  <2>2. \A i \in DOMAIN runnables : runnables[i].service.id # s.id
    <3> SUFFICES ASSUME NEW i \in DOMAIN runnables PROVE runnables[i].service.id # s.id
      OBVIOUS
    <3>1. runnables[i].service.id \in Nat
      <4>1. runnables \in Seq(RunnableRow)
        BY <1>1 DEF IInv, Typed
      <4>2. runnables[i] \in RunnableRow
        BY <4>1
      <4> QED
        BY <4>2 DEF RunnableRow, Row
    <3>2. runnables[i].service.id <= saved.lastId /\ s.id = lastId + 1
      BY <1>1, <2>1 DEF Given
    <3> QED
      BY <1>1, <3>1, <3>2
  <2>3. rows' = rows \cup {s}
    BY <2>1 DEF Execute
  <2>4. Stored'
    BY <1>1, <2>2, <2>3 DEF Stored, Leading, At
  <2>5. (LocalInv(c))'
    BY <1>1, <2>1, <2>2, <2>3
       DEF LocalInv, Adding, At, Working, Configuring, InDatabase, service
  <2> QED
    BY <2>4, <2>5
<1> QED
  BY <1>2, <1>3

\* A rollback takes rows back, and disturbs those that it changes.
LEMMA RollbackIsStored ==
  ASSUME NEW c \in Clients, Sole(c), Rollback(c)
  PROVE  Stored'
<1>1. /\ IInv /\ Stored /\ clients[c].pc = "rollback" /\ UNCHANGED <<runnables, services>>
      /\ \A d \in Clients : d # c => clients[d].pc = "idle" /\ clients'[d].pc = "idle"
  BY SoleIsFirst DEF Rollback, manager, At
<1>2. \A d \in Clients : ~At(d, "save")
  BY <1>1 DEF At
<1>3. disturbed \subseteq disturbed' /\ \A s \in rows' : s.id \notin disturbed' => s \in rows
  BY DEF Rollback, tables
<1> QED
  BY <1>1, <1>2, <1>3 DEF Stored, Leading

LEMMA TransactionIsStored ==
  ASSUME NEW c \in Clients, Sole(c),
         FindPlugin(c) \/ Begin(c) \/ ReadBack(c) \/ Rollback(c) \/ Commit(c) \/ End(c)
  PROVE  Stored' /\ (LocalInv(c))'
<1>1. /\ IInv /\ LocalInv(c) /\ Knows(clients[c], runnables) /\ clients[c] \in Local
      /\ UNCHANGED <<runnables, services>>
      /\ clients[c].pc \in {"findPlugin", "begin", "readBack", "rollback", "commit", "end"}
      /\ clients'[c].pc \in {"idle", "begin", "deletePlugin", "insert", "findPlugin", "rollback",
                             "commit", "end", "get", "removeAll"}
      /\ clients'[c].pc # "idle" => clients'[c].request = clients[c].request
  <2>1. IInv /\ LocalInv(c) /\ Follows(c)
    BY SoleIsFirst, LocalsFollow DEF Sole
  <2>2. UNCHANGED <<runnables, services>>
    BY DEF FindPlugin, Begin, ReadBack, Rollback, Commit, End, manager
  <2> QED
    BY <2>1, <2>2, Paths, RestingIsIdle DEF Leads, IInv, Typed, Follows
<1>2. Stored'
  <2>1. CASE Rollback(c)
    BY <2>1, RollbackIsStored
  <2>2. CASE ~Rollback(c)
    <3>1. clients[c].pc # "save" /\ ~Verify(c)
      BY <1>1 DEF Verify, At
    <3>2. UNCHANGED <<rows, services, disturbed>>
      BY <1>1, <2>2 DEF FindPlugin, Begin, ReadBack, Commit, End, database, tables
    <3> QED
      BY <3>1, <3>2, QuietIsStored
  <2> QED
    BY <2>1, <2>2
<1>3. CASE clients'[c].pc \notin {"commit", "end", "get"}
  BY <1>1, <1>2, <1>3 DEF LocalInv, Adding, At, Working, Configuring
<1>4. CASE ReadBack(c)
  <2>1. /\ clients'[c].pc = "commit" /\ clients'[c].service \in rows /\ UNCHANGED rows
        /\ clients'[c].service.id = service(c).id
    BY <1>4, OwnIsReadBack DEF ReadBack, database, tables
  <2>2. \A i \in DOMAIN runnables : runnables[i].service.id # service(c).id
    BY <1>1, <1>4 DEF LocalInv, Adding, ReadBack
  <2> QED
    BY <1>1, <1>2, <2>1, <2>2
       DEF LocalInv, Adding, At, Working, Configuring, InDatabase, service
<1>5. CASE Rollback(c) /\ clients'[c].pc = "commit"
  <2>1. clients'[c].failed
    BY <1>1, <1>5, LocalsFollow, RestingIsIdle DEF Sole, Follows, Rollback, At, Knows
  <2> QED
    BY <1>1, <1>2, <1>5, <2>1 DEF LocalInv, Adding, At, Working, Configuring, failed
<1>6. CASE (Commit(c) \/ End(c)) /\ clients'[c].pc \in {"end", "get"}
  <2>1. /\ clients[c].pc \in {"commit", "end"} /\ UNCHANGED rows
        /\ clients'[c].service = clients[c].service /\ clients'[c].failed = clients[c].failed
    BY <1>1, <1>6, LocalsFollow, RestingIsIdle DEF Sole, Follows, Commit, End, At, tables
  <2>2. clients'[c].pc = "get" => Op(c) = "post" /\ ~failed(c)
    <3>1. CASE Finish(c)
      BY <1>1, <3>1, AnswerLeads, GotoLeads DEF Finish
    <3>2. CASE Goto(c, "end")
      BY <1>1, <3>2, GotoLeads
    <3> QED
      BY <1>6, <3>1, <3>2 DEF Commit, End
  <2>3. Op(c) = "post" /\ ~failed(c) =>
          /\ InDatabase(service(c))
          /\ \A i \in DOMAIN runnables : runnables[i].service.id # service(c).id
    BY <1>1, <2>1 DEF LocalInv, Adding
  <2> QED
    BY <1>1, <1>2, <1>6, <2>1, <2>2, <2>3
       DEF LocalInv, Adding, At, Working, Configuring, InDatabase, service, Op, request, failed
<1>7. clients'[c].pc \in {"commit", "end", "get"} =>
        ReadBack(c) \/ Rollback(c) \/ Commit(c) \/ End(c)
  BY <1>1, Paths DEF Leads
<1>8. /\ Rollback(c) => clients'[c].pc \in {"idle", "commit"}
      /\ Commit(c) \/ End(c) => clients'[c].pc # "commit"
  BY <1>1, Paths DEF Leads
<1> QED
  BY <1>3, <1>4, <1>5, <1>6, <1>7, <1>8

LEMMA ToggleIsStored ==
  ASSUME NEW c \in Clients, Sole(c), Toggle(c) \/ PutBack(c) \/ RemoveAll(c) \/ DeletePlugin(c)
  PROVE  Stored' /\ (LocalInv(c))'
<1>1. /\ IInv /\ LocalInv(c) /\ clients[c].pc \in {"toggle", "putBack", "removeAll", "deletePlugin"}
      /\ UNCHANGED <<rows, disturbed>>
      /\ clients'[c].pc \in {"idle", "putBack", "commit", "rollback"}
      /\ clients'[c].pc = "putBack" => clients[c].pc = "toggle"
      /\ clients'[c].pc = "commit" => clients[c].pc = "deletePlugin"
  BY SoleIsFirst, Paths
     DEF Toggle, PutBack, RemoveAll, DeletePlugin, Execute, database, tables, At, Leads
<1>2. services' = services
  <2>1. CASE Toggle(c) \/ DeletePlugin(c)
    BY <2>1 DEF Toggle, DeletePlugin, manager
  <2>2. CASE PutBack(c) \/ RemoveAll(c)
    <3>1. services \in [Names -> 0..Len(runnables)]
      BY <1>1 DEF IInv, Typed
    <3>2. \A n \in Names : services'[n] = services[n]
      <4>1. overlaps <= 1 /\ ~Remove(c) /\ ~Register(c) /\ ~Spared(c)
        BY <1>1 DEF Sole, Remove, Register, At, Spared
      <4> QED
        BY <1>1, <4>1, MapMoves DEF Sole
    <3>3. \E f : services' = [n \in Names |-> f[n]]
      <4>1. CASE RemoveAll(c)
        <5>1. PICK names : services' = [n \in Names |-> IF n \in names THEN None ELSE services[n]]
          BY <4>1 DEF RemoveAll
        <5>2. services' = [n \in Names |-> services'[n]]
          BY <5>1
        <5> QED
          BY <5>2
      <4>2. CASE PutBack(c)
        <5>1. services' = [n \in Names |-> services'[n]]
          BY <3>1, <4>2 DEF PutBack, Put
        <5> QED
          BY <5>1
      <4> QED
        BY <2>2, <4>1, <4>2
    <3> QED
      BY <3>1, <3>2, <3>3
  <2> QED
    BY <2>1, <2>2
<1>3. Stored'
  <2>1. clients[c].pc # "save" /\ ~Verify(c)
    BY <1>1 DEF Verify, At
  <2> QED
    BY <1>1, <1>2, <2>1, QuietIsStored
<1>4. (LocalInv(c))'
  <2>1. CASE clients'[c].pc = "putBack"
    <3>1. clients'[c].service = clients[c].service /\ InDatabase(service(c))
      BY <1>1, <2>1, LocalsFollow, RestingIsIdle DEF Follows, Sole, LocalInv, Working
    <3> QED
      BY <1>1, <2>1, <3>1 DEF LocalInv, Adding, At, Working, Configuring, InDatabase, service
  <2>2. CASE clients'[c].pc = "commit"
    <3>1. clients'[c].request.op = "deletePlugin"
      BY <1>1, <2>2, LocalsFollow, RestingIsIdle DEF Follows, Sole, IInv, Knows
    <3> QED
      BY <2>2, <3>1 DEF LocalInv, Adding, At, Working, Configuring, Op, request
  <2>3. CASE clients'[c].pc \notin {"putBack", "commit"}
    BY <1>1, <2>3 DEF LocalInv, Adding, At, Working, Configuring
  <2> QED
    BY <2>1, <2>2, <2>3
<1> QED
  BY <1>3, <1>4

LEMMA DeleteIsStored ==
  ASSUME NEW c \in Clients, Sole(c), Delete(c)
  PROVE  Stored' /\ (LocalInv(c))'
<1>1. /\ IInv /\ Stored /\ clients[c].pc = "delete"
      /\ UNCHANGED <<runnables, services, disturbed>> /\ rows' \subseteq rows
      /\ clients'[c].pc \in {"idle", "stop"}
      /\ \A d \in Clients : d # c => clients[d].pc = "idle" /\ clients'[d].pc = "idle"
  BY SoleIsFirst, Paths DEF Delete, Execute, manager, At, Leads
<1>2. Stored'
  BY <1>1 DEF Stored, Leading, At
<1>3. (LocalInv(c))'
  BY <1>1 DEF LocalInv, Adding, At, Working, Configuring
<1> QED
  BY <1>2, <1>3

LEMMA AskIsStored ==
  ASSUME NEW c \in Clients, Sole(c), Ask(c)
  PROVE  Stored' /\ (LocalInv(c))'
<1>1. /\ IInv /\ LocalInv(c) /\ clients[c].pc = "ask"
      /\ UNCHANGED <<rows, runnables, services, disturbed>>
  BY SoleIsFirst DEF Ask, database, tables, manager, At
<1>2. Stored'
  <2>1. clients[c].pc # "save" /\ ~Verify(c)
    BY <1>1 DEF Verify, At
  <2> QED
    BY <1>1, <2>1, QuietIsStored
<1>3. CASE clients'[c].pc = "idle"
  BY <1>2, <1>3, IdleIsLocal
<1>4. CASE clients'[c].pc # "idle"
  <2>1. /\ clients'[c].request = clients[c].request /\ clients'[c].service = clients[c].service
        /\ clients'[c].runnable = clients[c].runnable
    BY <1>1, <1>4, LocalsFollow, RestingIsIdle DEF Follows, Sole
  <2>2. PICK old \in {<<>>} \cup {<<service(c).config>> : x \in {"put"} \cap {Op(c)}} :
          clients' = [clients EXCEPT ![c].todo = Append(old, request(c).config),
                                     ![c].pc = "configure"]
    <3>1. ~Answer(c)
      BY <1>1, <1>4, AnswerLeads
    <3> QED
      BY <3>1 DEF Ask
  <2> DEFINE q == Append(old, request(c).config)
  <2>3. clients'[c].pc = "configure" /\ clients'[c].todo = q
    <3>1. clients' = [clients EXCEPT ![c].todo = q, ![c].pc = "configure"]
      BY <2>2
    <3> HIDE DEF q
    <3> QED
      BY <1>1, <3>1 DEF IInv, Typed, Local
  <2>4. request(c).config \in MaybeConfig /\ service(c).config \in MaybeConfig
    BY <1>1, RequestFacts DEF IInv, Knows, Serviceless, Row, request, service
  <2>5. q[Len(q)] = request(c).config /\ (Op(c) = "post" => Len(q) = 1)
    <3>1. CASE old = <<>>
      BY <2>4, <3>1
    <3>2. CASE old = <<service(c).config>> /\ Op(c) = "put"
      BY <2>4, <3>2
    <3> QED
      BY <3>1, <3>2
  <2> HIDE DEF q
  <2>6. /\ InDatabase(service(c)) /\ Known(c) = runnable(c)
        /\ Op(c) = "put" => request(c).config # Null
        /\ Op(c) = "post" => \A i \in DOMAIN runnables :
             runnables[i].service.id = service(c).id => runnables[i].config = Null
    BY <1>1 DEF LocalInv, Adding, At, Working, Configuring
  <2>7. (LocalInv(c))'
    BY <1>1, <2>1, <2>3, <2>5, <2>6
       DEF LocalInv, Adding, At, Working, Configuring, InDatabase, service, request, runnable, todo, Op, Known
  <2> QED
    BY <1>2, <2>7
<1> QED
  BY <1>3, <1>4

\* On to the next configuration, or to the row.
LEMMA ContinueIsLocal ==
  ASSUME NEW c \in Clients, Sole(c), Configured(c) \/ Rejected(c),
         clients[c].pc \in {"configure", "verify", "save"}, services' = services,
         \E row \in rows' : row.id = service(c).id /\ row.name = service(c).name,
         clients'[c].pc = "update" => runnables'[runnable(c)].config = Head(todo(c)),
         clients'[c].pc = "clear" =>
           \A i \in DOMAIN runnables' :
             runnables'[i].service.id = service(c).id => runnables'[i].config = Null
  PROVE  (LocalInv(c))'
<1>1. IInv /\ LocalInv(c)
  BY SoleIsFirst
<1>2. CASE clients'[c].pc = "idle"
  BY <1>2, IdleIsLocal
<1>3. CASE clients'[c].pc # "idle"
  <2>1. /\ clients'[c].request = clients[c].request /\ clients'[c].service = clients[c].service
        /\ clients'[c].runnable = clients[c].runnable
    BY <1>1, <1>3, LocalsFollow, RestingIsIdle DEF Follows, Sole
  <2>2. /\ Known(c) = runnable(c) /\ Op(c) \in {"post", "put"}
        /\ Op(c) = "put" => request(c).config # Null
        /\ todo(c)[Len(todo(c))] = request(c).config
        /\ Op(c) = "post" => Len(todo(c)) = 1
    <3>1. clients[c].request.op \in {"post", "put"}
      BY <1>1 DEF IInv, Knows
    <3> QED
      BY <1>1, <3>1 DEF LocalInv, At, Configuring, Op, request
  <2>3. todo(c) \in Seq(MaybeConfig) /\ todo(c) # <<>>
    BY <1>1 DEF IInv, Typed, Local, Knows, LocalInv, At, todo
  <2>4. CASE Len(todo(c)) > 1 /\ clients'[c].pc = "configure" /\ clients'[c].todo = Tail(todo(c))
    <3> DEFINE q == Tail(todo(c))
    <3>1. q[Len(q)] = request(c).config /\ Op(c) # "post"
      BY <2>2, <2>3, <2>4
    <3>2. clients'[c].todo = q
      BY <2>4
    <3> HIDE DEF q
    <3> QED
      BY <2>1, <2>2, <2>4, <3>1, <3>2
         DEF LocalInv, Adding, At, Working, Configuring, InDatabase, service, request, runnable, todo, Op, Known
  <2>5. CASE ~(Len(todo(c)) > 1) /\ Op(c) = "put" /\ clients'[c].pc = "update"
    <3>1. Head(todo(c)) = request(c).config
      <4> DEFINE q == todo(c)
      <4>1. q \in Seq(MaybeConfig) /\ q # <<>> /\ ~(Len(q) > 1)
        BY <2>3, <2>5
      <4> HIDE DEF q
      <4>4. Len(q) \in Nat /\ Len(q) # 0
        BY <4>1, EmptySeq, LenProperties
      <4>2. Len(q) = 1
        <5> DEFINE n == Len(q)
        <5>1. n \in Nat /\ n # 0 /\ ~(n > 1)
          BY <4>1, <4>4
        <5> HIDE DEF n
        <5>2. n = 1
          BY <5>1
        <5> QED
          BY <5>2 DEF n
      <4>3. q[Len(q)] = Head(q)
        BY <4>1, <4>2
      <4> QED
        BY <2>2, <4>3 DEF q
    <3> QED
      BY <2>1, <2>2, <2>5, <3>1
         DEF LocalInv, Adding, At, Working, Configuring, InDatabase, service, request, runnable, Op, Known
  <2>6. CASE Op(c) # "put" /\ clients'[c].pc = "clear"
    BY <2>1, <2>2, <2>6
       DEF LocalInv, Adding, At, Working, Configuring, InDatabase, service, request, runnable, Op
  <2> QED
    BY <1>1, <1>3, <2>4, <2>5, <2>6, NextConfiguration
<1> QED
  BY <1>2, <1>3

LEMMA ConfigureIsStored ==
  ASSUME NEW c \in Clients, Sole(c), Configure(c)
  PROVE  Stored' /\ (LocalInv(c))'
<1>1. /\ IInv /\ LocalInv(c) /\ clients[c].pc = "configure"
      /\ UNCHANGED <<rows, services, disturbed>>
  BY SoleIsFirst DEF Configure, database, tables, At
<1>2. Stored' /\ Remembered /\ NamesKept
  <2>1. clients[c].pc # "save" /\ ~Verify(c)
    BY <1>1 DEF Verify, At
  <2> QED
    BY <1>1, <2>1, QuietIsStored
<1>3. /\ InDatabase(service(c))
      /\ \E row \in rows' : row.id = service(c).id /\ row.name = service(c).name
  BY <1>1 DEF LocalInv, Working, InDatabase
<1>4. Op(c) = "post" => \A i \in DOMAIN runnables :
        runnables[i].service.id = service(c).id => runnables[i].config = Null
  BY <1>1 DEF LocalInv
<1>5. /\ runnable(c) \in DOMAIN runnables /\ DOMAIN runnables = 1..Len(runnables)
      /\ Op(c) \in {"post", "put"}
  BY <1>1 DEF IInv, Typed, Knows, runnable, Op, request
<1>6. CASE Configured(c) /\ UNCHANGED runnables /\ runnables[runnable(c)].config = Head(todo(c))
  <2>1. clients'[c].pc = "clear" => Op(c) = "post"
    BY <1>1, <1>5, <1>6, NextConfiguration
  <2>2. clients'[c].pc = "clear" =>
           \A i \in DOMAIN runnables' :
             runnables'[i].service.id = service(c).id => runnables'[i].config = Null
    BY <1>4, <1>6, <2>1
  <2>3. (LocalInv(c))'
    BY <1>1, <1>3, <1>6, <2>2, ContinueIsLocal
  <2> QED
    BY <1>2, <2>3
<1>7. CASE Goto(c, "verify") /\ runnables' = Run({runnable(c)}, FALSE)
  <2>1. /\ clients'[c].pc = "verify"
        /\ clients'[c].request = clients[c].request /\ clients'[c].service = clients[c].service
        /\ clients'[c].runnable = clients[c].runnable /\ clients'[c].todo = clients[c].todo
    <3>1. "verify" \in Steps
      BY DEF Steps
    <3>2. clients'[c] = [clients[c] EXCEPT !.pc = "verify"] /\ clients[c] \in Local
      BY <1>1, <1>7, <3>1, GotoMoves
    <3> QED
      BY <3>2 DEF Local
  <2>2. DOMAIN runnables' = 1..Len(runnables)
    BY <1>1, <1>7, RunKeepsRunnables DEF Run, IInv, Typed
  <2>3. Op(c) = "post" => \A i \in DOMAIN runnables' :
        runnables'[i].service.id = service(c).id => runnables'[i].config = Null
    BY <1>2, <1>4, <1>5, <2>2 DEF Remembered
  <2>4. /\ Known(c) = runnable(c)
        /\ Op(c) = "put" => request(c).config # Null
        /\ todo(c)[Len(todo(c))] = request(c).config /\ (Op(c) = "post" => Len(todo(c)) = 1)
    BY <1>1 DEF LocalInv, Configuring
  <2>5. (LocalInv(c))'
    BY <1>1, <1>3, <2>1, <2>3, <2>4
       DEF LocalInv, Adding, At, Working, Configuring, InDatabase, service, request, runnable, todo, Op, Known
  <2> QED
    BY <1>2, <2>5
<1> QED
  BY <1>6, <1>7 DEF Configure

LEMMA VerifyIsStored ==
  ASSUME NEW c \in Clients, Sole(c), Verify(c)
  PROVE  Stored' /\ (LocalInv(c))'
<1>1. /\ IInv /\ LocalInv(c) /\ Stored /\ clients[c].pc = "verify" /\ NamesKept
      /\ UNCHANGED <<rows, services, disturbed>>
      /\ \A d \in Clients : d # c => clients[d].pc = "idle" /\ clients'[d].pc = "idle"
  BY SoleIsFirst, RunnablesFollow DEF Verify, database, tables, At, Sole
<1>2. /\ InDatabase(service(c))
      /\ \E row \in rows' : row.id = service(c).id /\ row.name = service(c).name
  BY <1>1 DEF LocalInv, Working, InDatabase
<1>3. /\ runnable(c) \in DOMAIN runnables /\ DOMAIN runnables = 1..Len(runnables)
      /\ Op(c) \in {"post", "put"} /\ runnables \in Seq(RunnableRow)
      /\ todo(c) # <<>> /\ todo(c) \in Seq(MaybeConfig)
  BY <1>1 DEF IInv, Typed, Knows, runnable, Op, request, todo, Local
<1>4. ASSUME Rejected(c) \/ Answer(c), UNCHANGED runnables
      PROVE  Stored' /\ (LocalInv(c))'
  <2>1. Stored'
    <3>1. Remembered
      BY <1>4 DEF Remembered
    <3>2. \A d \in Clients : ~At(d, "save")
      BY <1>1 DEF At
    <3> QED
      BY <1>1, <3>1, <3>2, StoredStays
  <2>2. CASE Answer(c)
    BY <1>1, <2>1, <2>2, AnswerLeads, IdleIsLocal
  <2>3. CASE Rejected(c)
    <3>1. clients'[c].pc # "update"
      BY <1>1, <2>3, AnswerLeads, GotoLeads, NextConfiguration DEF Rejected, Continue
    <3>2. clients'[c].pc = "clear" => Op(c) = "post"
      BY <1>1, <1>3, <2>3, NextConfiguration
    <3>3. Op(c) = "post" => \A i \in DOMAIN runnables' :
            runnables'[i].service.id = service(c).id => runnables'[i].config = Null
      BY <1>1, <1>4 DEF LocalInv
    <3>4. (LocalInv(c))'
      BY <1>1, <1>2, <2>3, <3>1, <3>2, <3>3, ContinueIsLocal
    <3> QED
      BY <2>1, <3>4
  <2> QED
    BY <1>4, <2>2, <2>3
<1>5. ASSUME Goto(c, "save"), runnables' = [runnables EXCEPT ![runnable(c)].config = Head(todo(c))]
      PROVE  Stored' /\ (LocalInv(c))'
  <2>1. /\ clients'[c].pc = "save"
        /\ clients'[c].request = clients[c].request /\ clients'[c].service = clients[c].service
        /\ clients'[c].runnable = clients[c].runnable /\ clients'[c].todo = clients[c].todo
    <3>1. "save" \in Steps
      BY DEF Steps
    <3>2. clients'[c] = [clients[c] EXCEPT !.pc = "save"] /\ clients[c] \in Local
      BY <1>1, <1>5, <3>1, GotoMoves
    <3> QED
      BY <3>2 DEF Local
  <2> DEFINE k == Head(todo(c))
             j == runnable(c)
  <2>2. runnables[j] \in RunnableRow /\ j \in DOMAIN runnables
    BY <1>3
  <2>3. runnables' = [runnables EXCEPT ![j].config = k]
    BY <1>5
  <2> HIDE DEF k, j
  <2>4. runnables'[j].config = k /\ DOMAIN runnables' = DOMAIN runnables
        /\ \A i \in DOMAIN runnables : i # j => runnables'[i] = runnables[i]
    BY <1>3, <2>2, <2>3 DEF RunnableRow
  <2>5. runnables'[j].service = runnables[j].service
    BY <1>3, <2>2, <2>3 DEF RunnableRow
  <2>6. Stored'
    <3> SUFFICES ASSUME NEW s \in rows, NEW i \in DOMAIN runnables', i # j,
                        services[s.name] = i, runnables'[i].service.id = s.id, s.id \notin disturbed
                 PROVE  runnables'[i].config \in {Null, s.config}
      BY <1>1, <2>1 DEF Stored, Leading, At, runnable, j
    <3> QED
      BY <1>1, <2>4 DEF Stored, Leading, At
  <2>7. /\ Known(c) = runnable(c)
        /\ Op(c) = "put" => request(c).config # Null
        /\ todo(c)[Len(todo(c))] = request(c).config /\ (Op(c) = "post" => Len(todo(c)) = 1)
    BY <1>1 DEF LocalInv, Configuring
  <2>8. (LocalInv(c))'
    BY <1>1, <1>2, <1>3, <2>1, <2>4, <2>7
       DEF LocalInv, Adding, At, Working, Configuring, InDatabase, service, request, runnable, todo, Op, Known, k, j
  <2> QED
    BY <2>6, <2>8
<1> QED
  BY <1>4, <1>5 DEF Verify

LEMMA ConfiguredIsNotCleared ==
  ASSUME IInv, NEW c \in Clients, Configured(c)
  PROVE  clients'[c].pc # "clear"
<1>1. CASE Len(todo(c)) > 1
  <2>1. clients' = [clients EXCEPT ![c].todo = Tail(@), ![c].pc = "configure"]
    BY <1>1 DEF Configured, Continue
  <2>2. clients'[c] = [clients[c] EXCEPT !.todo = Tail(@), !.pc = "configure"]
    BY <2>1 DEF IInv, Typed
  <2>3. clients[c] \in Local
    BY DEF IInv, Typed
  <2> QED
    BY <2>2, <2>3 DEF Local
<1>2. CASE ~(Len(todo(c)) > 1)
  BY <1>2, AnswerLeads, GotoLeads DEF Configured, Continue
<1> QED
  BY <1>1, <1>2

(***************************************************************************)
(* The runnable in the map saves its configuration in its own row, or, when *)
(* the row under its name is another service's, nothing.                   *)
(***************************************************************************)
LEMMA SaveIsStored ==
  ASSUME NEW c \in Clients, Sole(c), Save(c)
  PROVE  Stored' /\ (LocalInv(c))'
<1> DEFINE i == runnable(c)
           r == runnables[i]
           s == r.service
<1>1. /\ IInv /\ LocalInv(c) /\ Stored /\ clients[c].pc = "save" /\ services' = services
      /\ \A d \in Clients : d # c => clients[d].pc = "idle" /\ clients'[d].pc = "idle"
      /\ Configured(c) /\ Write(s, s.name, r.config) /\ Keyed
  BY SoleIsFirst DEF Save, At, Sole
<1>2. /\ i \in DOMAIN runnables /\ r \in RunnableRow /\ service(c).name \in Names
      /\ rows \subseteq Row /\ i # None
  BY <1>1 DEF IInv, Typed, DatabaseTyped, Knows, Serviceless, runnable, service, Row, None
<1>3. services[service(c).name] = i /\ s.name = service(c).name
  <2>1. Known(c) = i
    BY <1>1 DEF LocalInv
  <2> QED
    BY <1>1, <1>2, <2>1 DEF Known, IInv, FoundByItsName
<1>4. PICK own \in rows : own.id = service(c).id /\ own.name = service(c).name
  BY <1>1 DEF LocalInv, Working, InDatabase
<1>5. WithName(s.name) = {own} /\ WithId(own.id) = {own}
  BY <1>1, <1>3, <1>4 DEF Keyed, RowsKeyed, WithName, WithId
<1>6. /\ DOMAIN runnables' = DOMAIN runnables
      /\ \A j \in DOMAIN runnables : /\ runnables'[j].service.id = runnables[j].service.id
                                    /\ runnables'[j].config = runnables[j].config
  <2>1. Len(runnables') = Len(runnables)
    <3>1. CASE UNCHANGED runnables
      BY <3>1
    <3>2. CASE ~UNCHANGED runnables
      <4>1. PICK j \in DOMAIN runnables, q \in RunnableRow :
              /\ runnables' = [runnables EXCEPT ![j] = q]
              /\ q.service.name = runnables[j].service.name
              /\ q.running = runnables[j].running
        BY <1>1, <3>2, SaveReplaces
      <4> QED
        BY <1>1, <4>1, ReplacedKeeps
    <3> QED
      BY <3>1, <3>2
  <2>2. NamesKept /\ ~Verify(c)
    BY <1>1, RunnablesFollow DEF Sole, Verify, At
  <2>3. DOMAIN runnables = 1..Len(runnables) /\ DOMAIN runnables' = 1..Len(runnables')
    BY <1>1, <2>2 DEF NamesKept, IInv, Typed
  <2> QED
    BY <1>1, <2>1, <2>2, <2>3, RunnablesRemember DEF Sole
<1>7. \A t \in rows, j \in DOMAIN runnables :
        services[t.name] = j /\ runnables[j].service.id = t.id /\ t.id \notin disturbed /\ t # own =>
          runnables[j].config \in {Null, t.config}
  <2> SUFFICES ASSUME NEW t \in rows, NEW j \in DOMAIN runnables, services[t.name] = j,
                      runnables[j].service.id = t.id, t.id \notin disturbed, t # own
               PROVE  runnables[j].config \in {Null, t.config}
    OBVIOUS
  <2>1. t.name # own.name /\ t.name \in Names /\ own.name \in Names
    BY <1>1, <1>2 DEF Keyed, RowsKeyed, Row
  <2>2. j # i
    <3>1. j # None
      BY <1>1 DEF IInv, Typed, None
    <3>2. runnables[j].service.name = t.name
      BY <1>1, <2>1, <3>1 DEF IInv, FoundByItsName
    <3> QED
      BY <1>3, <1>4, <2>1, <3>2
  <2>3. \A d \in Clients : At(d, "save") => runnable(d) # j
    BY <1>1, <2>2 DEF At
  <2> QED
    BY <1>1, <2>3 DEF Stored, Leading
<1>8. Stored' /\ \E row \in rows' : row.id = service(c).id /\ row.name = service(c).name
  <2>1. CASE s.id = own.id
    <3> DEFINE new == Updated(s, s.name, r.config)
    <3>1. Writable(s, s.name)
      BY <1>5, <2>1 DEF Writable
    <3>2. new.id = own.id /\ new.name = own.name /\ new.config = r.config
      BY <1>1, <1>3, <1>4, <2>1, <3>1, UpdatedFields
    <3>3. rows' = (rows \ {own}) \cup {new} /\ disturbed' = disturbed
      <4>1. rows' = (rows \ WithId(s.id)) \cup {new}
            /\ disturbed' = disturbed \cup {row.id : row \in WithId(s.id) \ WithName(s.name)}
        BY <1>1, <3>1 DEF Write, Execute, database, tables
      <4> QED
        BY <1>5, <2>1, <4>1
    <3> HIDE DEF new
    <3>4. Stored'
      <4> SUFFICES ASSUME NEW t \in rows', NEW j \in DOMAIN runnables', services[t.name] = j,
                          runnables'[j].service.id = t.id, t.id \notin disturbed
                   PROVE  runnables'[j].config \in {Null, t.config}
        BY <1>1, <3>3 DEF Stored, Leading
      <4>1. CASE t = new
        BY <1>3, <1>4, <1>6, <3>2, <4>1
      <4>2. CASE t # new
        BY <1>6, <1>7, <3>3, <4>2
      <4> QED
        BY <4>1, <4>2
    <3> QED
      BY <1>4, <3>2, <3>3, <3>4
  <2>2. CASE s.id # own.id
    <3>1. ~Writable(s, s.name)
      BY <1>5, <2>2 DEF Writable, WithId
    <3>2. UNCHANGED <<rows, disturbed>>
      BY <1>1, <3>1 DEF Write, Execute, database, tables
    <3>3. Stored'
      <4> SUFFICES ASSUME NEW t \in rows, NEW j \in DOMAIN runnables, services[t.name] = j,
                          runnables[j].service.id = t.id, t.id \notin disturbed
                   PROVE  runnables[j].config \in {Null, t.config}
        BY <1>1, <1>6, <3>2 DEF Stored, Leading
      <4>1. t # own
        BY <1>3, <1>4, <2>2
      <4> QED
        BY <1>7, <4>1
    <3> QED
      BY <1>4, <3>2, <3>3
  <2> QED
    BY <2>1, <2>2
<1>9. runnables'[runnable(c)].config = Head(todo(c))
  BY <1>1, <1>2, <1>6 DEF LocalInv, At
<1>10. clients'[c].pc # "clear"
  BY <1>1, ConfiguredIsNotCleared
<1>11. (LocalInv(c))'
  <2> HIDE DEF i, r, s
  <2> QED
    BY <1>1, <1>8, <1>9, <1>10, ContinueIsLocal
<1> QED
  BY <1>8, <1>11

LEMMA UpdateIsStored ==
  ASSUME NEW c \in Clients, Sole(c), Update(c)
  PROVE  Stored' /\ (LocalInv(c))'
<1> DEFINE s == service(c)
<1>1. /\ IInv /\ LocalInv(c) /\ Stored /\ clients[c].pc \in {"update", "clear"}
      /\ UNCHANGED <<runnables, services>> /\ Keyed
      /\ \A d \in Clients : d # c => clients[d].pc = "idle" /\ clients'[d].pc = "idle"
      /\ clients'[c].pc = "idle"
  BY SoleIsFirst, AnswerLeads DEF Update, At, Sole, manager
<1>2. PICK name, config :
        /\ At(c, "clear") => config = Null
        /\ ~At(c, "clear") =>
             config = IF request(c).config = Null THEN s.config ELSE request(c).config
        /\ Write(s, name, config)
  <2>1. Write(s, NewName(c), NewConfig(c))
    BY DEF Update
  <2>2. At(c, "clear") => NewConfig(c) = Null
    <3>1. At(c, "clear") => Op(c) = "post"
      BY <1>1 DEF LocalInv
    <3> QED
      BY <3>1 DEF NewConfig
  <2>3. ~At(c, "clear") =>
          NewConfig(c) = IF request(c).config = Null THEN s.config ELSE request(c).config
    <3>1. ~At(c, "clear") => Op(c) = "put"
      BY <1>1 DEF LocalInv, At
    <3> QED
      BY <3>1 DEF NewConfig
  <2> HIDE DEF s
  <2> QED
    BY <2>1, <2>2, <2>3
<1>3. PICK own \in rows : own.id = s.id /\ own.name = s.name
  BY <1>1 DEF LocalInv, Working, InDatabase
<1>4. WithId(s.id) = {own}
  BY <1>1, <1>3 DEF Keyed, RowsKeyed, WithId
<1>5. \A d \in Clients : ~At(d, "save")
  BY <1>1 DEF At
<1>6. CASE ~Writable(s, name)
  <2>1. UNCHANGED <<rows, disturbed>>
    BY <1>2, <1>6 DEF Write, Execute, database, tables
  <2>2. Stored'
    BY <1>1, <1>5, <2>1 DEF Stored, Leading
  <2> QED
    BY <1>1, <2>2, IdleIsLocal
<1>7. CASE Writable(s, name)
  <2> DEFINE new == Updated(s, name, config)
  <2>1. new.id = s.id /\ new.name = name /\ new.config = config
    BY <1>1, <1>7, UpdatedFields
  <2>2. /\ rows' = (rows \ {own}) \cup {new}
        /\ disturbed' = disturbed \cup {row.id : row \in {own} \ WithName(name)}
    BY <1>2, <1>4, <1>7 DEF Write, Execute, database, tables
  <2> HIDE DEF new
  <2>3. disturbed \subseteq disturbed' /\ (own.name # name => own.id \in disturbed')
    BY <1>3, <2>2 DEF WithName
  <2>4. Stored'
    <3> SUFFICES ASSUME NEW t \in rows', NEW j \in DOMAIN runnables, services[t.name] = j,
                        runnables[j].service.id = t.id, t.id \notin disturbed'
                 PROVE  runnables[j].config \in {Null, t.config}
      BY <1>1 DEF Stored, Leading
    <3>1. CASE t # new
      BY <1>1, <1>5, <2>2, <2>3, <3>1 DEF Stored, Leading
    <3>2. CASE t = new
      <4>1. own.name = name /\ own.id = t.id /\ t.name = own.name
        BY <1>3, <2>1, <2>3, <3>2
      <4>2. services[s.name] = j /\ j # None
        BY <1>1, <1>3, <4>1 DEF IInv, Typed, None
      <4>3. CASE At(c, "clear")
        BY <1>1, <1>3, <4>1, <4>3 DEF LocalInv, At
      <4>4. CASE ~At(c, "clear") /\ request(c).config # Null
        BY <1>1, <1>2, <2>1, <3>2, <4>2, <4>4 DEF LocalInv, At, Known
      <4>5. CASE ~At(c, "clear") /\ request(c).config = Null
        <5>1. s \in rows
          BY <1>1, <4>5 DEF LocalInv, At
        <5>2. s = own
          BY <1>1, <1>3, <5>1 DEF Keyed, RowsKeyed
        <5>3. config = own.config
          BY <1>2, <4>5, <5>2
        <5>4. own.id \notin disturbed
          BY <2>3, <4>1
        <5>5. runnables[j].config \in {Null, own.config}
          BY <1>1, <1>3, <1>5, <4>1, <4>2, <5>4 DEF Stored, Leading
        <5> QED
          BY <2>1, <3>2, <5>3, <5>5
      <4> QED
        BY <4>3, <4>4, <4>5
    <3> QED
      BY <3>1, <3>2
  <2> QED
    BY <1>1, <2>4, IdleIsLocal
<1> QED
  BY <1>6, <1>7

LEMMA ServeIsStored ==
  ASSUME NEW c \in Clients, Sole(c)
  PROVE  SeqInv'
<1>1. Serve(c) /\ IInv /\ Fresh /\ overlaps = 0
  BY DEF Sole
<1>2. ~StopRemoved(c) /\ ~Remove(c)
  <2>1. overlaps <= 1 /\ ~(overlaps = 1)
    BY <1>1
  <2>2. ~At(c, "stop") /\ ~At(c, "remove")
    BY <2>1 DEF Sole, MapInv, Undisturbed
  <2> QED
    BY <2>2 DEF StopRemoved, Remove
<1>3. Stored' /\ (LocalInv(c))'
  BY <1>1, <1>2, InsertIsStored, TransactionIsStored, FindIsStored, GetIsStored, RegisterIsStored, ToggleIsStored,
     AskIsStored, ConfigureIsStored, VerifyIsStored, SaveIsStored, UpdateIsStored,
     DeleteIsStored DEF Serve
<1> QED
  BY <1>1, <1>3, GivenStays, OneIsEnough

LEMMA ReceiveIsStored ==
  ASSUME IInv, Fresh, SeqInv, NEW c \in Clients, Receive(c)
  PROVE  SeqInv'
<1>1. /\ \A d \in Clients : d # c => clients'[d] = clients[d]
      /\ clients[c].pc = "idle"
      /\ clients'[c].pc \in {"findPlugin", "begin", "find"}
      /\ clients'[c].pc = "find" => clients'[c].request.op # "post"
      /\ UNCHANGED <<rows, lastId, saved, runnables, services, disturbed>>
      /\ overlaps \in Nat
      /\ IF \A d \in Clients : d # c => At(d, "idle")
         THEN overlaps' = overlaps ELSE overlaps' = overlaps + 1
  BY ReceiveFollows DEF Fresh, database, tables, connection
<1> SUFFICES ASSUME overlaps' = 0 PROVE Stored' /\ Given' /\ \A d \in Clients : (LocalInv(d))'
  BY DEF SeqInv
<1>2. overlaps = 0 /\ \A d \in Clients : clients[d].pc = "idle"
  BY <1>1 DEF At
<1>3. Stored'
  BY <1>1, <1>2 DEF SeqInv, Stored, Leading, At
<1>4. (LocalInv(c))'
  BY <1>1 DEF LocalInv, Adding, At, Working, Configuring, Op, request
<1>5. ASSUME NEW d \in Clients, d # c PROVE (LocalInv(d))'
  BY <1>1, <1>2, <1>5, IdleIsLocal
<1>6. Given'
  BY <1>1, <1>2 DEF SeqInv, Given
<1> QED
  BY <1>3, <1>4, <1>5, <1>6

LEMMA LoopEndsIsStored == IInv /\ SeqInv /\ LoopEnds => SeqInv'
<1> SUFFICES ASSUME IInv, SeqInv, LoopEnds, overlaps' = 0
             PROVE  Stored' /\ Given' /\ \A d \in Clients : (LocalInv(d))'
  BY DEF SeqInv
<1>1. UNCHANGED <<services, clients, rows, lastId, saved, disturbed, overlaps>>
  BY LoopEndsFollows DEF database, tables, connection
<1>2. /\ DOMAIN runnables' = DOMAIN runnables
      /\ \A i \in DOMAIN runnables : /\ runnables'[i].service.id = runnables[i].service.id
                                    /\ runnables'[i].config = runnables[i].config
  <2>1. PICK j : runnables' = Run({j}, FALSE)
    BY DEF LoopEnds
  <2>2. DOMAIN runnables = 1..Len(runnables) /\ DOMAIN runnables' = DOMAIN runnables
    BY <2>1 DEF IInv, Typed, Run
  <2> QED
    BY <2>1, <2>2, RunKeepsRunnables
<1>3. Stored /\ Given
  BY <1>1 DEF SeqInv
<1>4. Stored'
  BY <1>1, <1>2, <1>3 DEF Stored, Leading, At, runnable
<1>5. ASSUME NEW c \in Clients PROVE (LocalInv(c))'
  <2>1. LocalInv(c)
    BY <1>1 DEF SeqInv
  <2>2. clients[c].pc \in {"register", "save"} => runnable(c) \in DOMAIN runnables
    BY DEF IInv, Knows, runnable
  <2>3. At(c, "update") /\ Known(c) # None => Known(c) \in DOMAIN runnables
    <3> SUFFICES ASSUME At(c, "update"), Known(c) # None PROVE Known(c) \in DOMAIN runnables
      OBVIOUS
    <3>1. service(c).name \in Names
      BY DEF IInv, Knows, Serviceless, Row, At, service
    <3>2. services \in [Names -> 0..Len(runnables)] /\ DOMAIN runnables = 1..Len(runnables)
          /\ Len(runnables) \in Nat
      BY DEF IInv, Typed
    <3> QED
      BY <3>1, <3>2 DEF Known, None
  <2> QED
    BY <1>1, <1>2, <2>1, <2>2, <2>3
       DEF LocalInv, Adding, At, Working, Configuring, InDatabase, service, request, runnable, todo, Op, Known, failed
<1>6. Given'
  BY <1>1, <1>2, <1>3 DEF Given, Op, request
<1> QED
  BY <1>4, <1>5, <1>6

LEMMA SeqInvIsInductive ==
  IInv /\ Fresh /\ Transactions /\ MapInv /\ Keyed /\ SeqInv /\ [Next]_vars => SeqInv'
<1> SUFFICES ASSUME IInv, Fresh, Transactions, MapInv, Keyed, SeqInv, [Next]_vars PROVE SeqInv'
  OBVIOUS
<1>1. CASE UNCHANGED vars
  BY <1>1 DEF vars, database, tables, connection, manager, SeqInv, Stored, Given, Leading,
              LocalInv, Adding, At, Working, Configuring, InDatabase, service, request, runnable,
              todo, failed, Op, Known
<1>2. CASE LoopEnds
  BY <1>2, LoopEndsIsStored
<1>3. CASE Restart
  <2>1. \A c \in Clients : clients'[c].pc = "idle"
    BY <1>3, RestingIsIdle DEF Restart
  <2>2. DOMAIN runnables' = {}
    BY <1>3 DEF Restart
  <2>3. Stored'
    BY <2>2 DEF Stored
  <2>4. \A c \in Clients : (LocalInv(c))'
    BY <2>1, IdleIsLocal
  <2>5. Given'
    BY <1>3, <2>2 DEF Restart, Given
  <2> QED
    BY <2>3, <2>4, <2>5 DEF SeqInv
<1>4. ASSUME NEW c \in Clients, Receive(c) PROVE SeqInv'
  BY <1>4, ReceiveIsStored
<1>5. ASSUME NEW c \in Clients, Serve(c) PROVE SeqInv'
  <2>1. CASE overlaps = 0
    BY <1>5, <2>1, ServeIsStored DEF Sole
  <2>2. CASE overlaps # 0
    BY <1>5, <2>2, LocalsFollow DEF SeqInv
  <2> QED
    BY <2>1, <2>2
<1> QED
  BY <1>1, <1>2, <1>3, <1>4, <1>5 DEF Next

LEMMA InitSeqInv == Init => SeqInv
<1> SUFFICES ASSUME Init PROVE SeqInv
  OBVIOUS
<1>1. \A c \in Clients : clients[c].pc = "idle"
  BY RestingIsIdle DEF Init
<1>2. Stored
  BY DEF Init, Stored
<1>3. Given
  BY DEF Init, Given, Tables
<1> QED
  BY <1>1, <1>2, <1>3 DEF SeqInv, LocalInv, Adding, At, Working, Configuring

Inductive == IInv /\ Fresh /\ Transactions /\ MapInv /\ Keyed /\ SeqInv

LEMMA SpecInductive == Spec => []Inductive
<1>1. Init => Inductive
  BY InitIInv, InitFresh, InitTransactions, InitMapInv, InitKeyed, InitSeqInv DEF Inductive
<1>2. Inductive /\ [Next]_vars => Inductive'
  <2>1. Transactions => Filed
    BY DEF Transactions
  <2> QED
    BY <2>1, IInvIsInductive, FreshIsInductive, TransactionsAreInductive, MapInvIsInductive,
       KeyedIsInductive, SeqInvIsInductive DEF Inductive
<1> QED
  BY <1>1, <1>2, PTL DEF Spec

(***************************************************************************)
(* Requests that do not overlap leave every runnable that its own name     *)
(* leads to with no configuration or with the one in its row, however      *)
(* they end, unless the service was disturbed.                               *)
(***************************************************************************)
THEOREM ConfigurationsAreStored == Spec => []ConfiguredAsStored
<1>1. Inductive => ConfiguredAsStored
  <2> SUFFICES ASSUME Inductive, overlaps = 0, \A c \in Clients : At(c, "idle"),
                      NEW s \in rows, s.id \notin disturbed, services[s.name] # None,
                      runnables[services[s.name]].service.id = s.id
               PROVE  runnables[services[s.name]].config \in {Null, s.config}
    BY DEF ConfiguredAsStored
  <2> DEFINE i == services[s.name]
  <2>1. s.name \in Names
    BY DEF Inductive, IInv, Typed, DatabaseTyped, Row
  <2>2. i \in DOMAIN runnables
    <3>1. services \in [Names -> 0..Len(runnables)] /\ DOMAIN runnables = 1..Len(runnables)
          /\ Len(runnables) \in Nat
      BY DEF Inductive, IInv, Typed
    <3> QED
      BY <2>1, <3>1 DEF None
  <2>3. Stored /\ \A c \in Clients : ~At(c, "save")
    BY DEF Inductive, SeqInv, At
  <2> QED
    BY <2>2, <2>3 DEF Stored, Leading
<1> QED
  BY <1>1, SpecInductive, PTL

LEMMA RowsAreOwn ==
  ASSUME NEW c \in Clients, Sole(c), ~Rollback(c), NEW s \in rows \ rows'
  PROVE  service(c) # Null /\ service(c).id = s.id
<1>1. IInv /\ LocalInv(c) /\ Keyed /\ Knows(clients[c], runnables) /\ Serve(c)
  BY SoleIsFirst DEF Sole, IInv
<1>2. Delete(c) \/ Update(c) \/ Save(c)
  <2>1. ~Insert(c) /\ ~DeletePlugin(c)
    BY DEF Insert, DeletePlugin, Execute, database, tables
  <2> QED
    BY <1>1, <2>1
       DEF Serve, Find, FindPlugin, Begin, ReadBack, Commit, End, Get, Register, Toggle, PutBack,
           Ask, Configure, Verify, StopRemoved, Remove, RemoveAll, database, tables
<1>3. service(c) # Null
  <2>1. clients[c].pc \in {"delete", "update", "clear", "save"}
    BY <1>2 DEF Delete, Update, Save, At
  <2> QED
    BY <1>1, <2>1, NullIsNoRow DEF Knows, Serviceless, service
<1>4. ASSUME NEW old, NEW name, NEW config, Write(old, name, config)
      PROVE  Writable(old, name) /\ s.id = old.id
  BY <1>4 DEF Write, Execute, WithId, database, tables
<1>5. CASE Delete(c)
  BY <1>1, <1>3, <1>5, DeleteFollows DEF WithId
<1>6. CASE Update(c)
  BY <1>3, <1>4, <1>6 DEF Update
<1>7. CASE Save(c)
  <2> DEFINE old == runnables[runnable(c)].service
  <2>1. At(c, "save") /\ Writable(old, old.name) /\ s.id = old.id
    <3>1. At(c, "save") /\ Write(old, old.name, runnables[runnable(c)].config)
      BY <1>7 DEF Save
    <3> QED
      BY <1>4, <3>1
  <2>2. PICK own \in rows : own.id = service(c).id /\ own.name = service(c).name
    BY <1>1, <2>1 DEF LocalInv, Working, InDatabase, At
  <2>3. old.name = service(c).name
    <3>1. Known(c) = runnable(c) /\ runnable(c) \in DOMAIN runnables
      BY <1>1, <2>1 DEF LocalInv, Knows, At, runnable
    <3>2. service(c).name \in Names
      BY <1>1, <2>1 DEF Knows, Serviceless, Row, At, service
    <3>3. runnable(c) # None
      BY <1>1, <3>1 DEF IInv, Typed, None
    <3> QED
      BY <1>1, <3>1, <3>2, <3>3 DEF IInv, FoundByItsName, Known
  <2>4. own.id = old.id
    <3>1. own \in WithName(old.name)
      BY <2>2, <2>3 DEF WithName
    <3> QED
      BY <2>1, <3>1 DEF Writable, WithId
  <2> QED
    BY <1>3, <2>1, <2>2, <2>4
<1> QED
  BY <1>2, <1>5, <1>6, <1>7

(***************************************************************************)
(* A request that runs alone changes and deletes no row but the one it     *)
(* has found or added, although its runnable writes to the service that    *)
(* the runnable remembers: other rows only go back to what the file has,   *)
(* when an addition fails and when the hub dies.                           *)
(***************************************************************************)
THEOREM RequestsKeepToTheirRow == Spec => OwnRowOnly
<1> DEFINE Own == \A s \in rows \ rows' :
                    \E c \in Clients : service(c) # Null /\ service(c).id = s.id
           Back == rows' = saved.rows /\ (Restart \/ \E c \in Clients : Rollback(c))
<1>1. ASSUME Inductive, [Next]_vars PROVE [overlaps = 0 => Own \/ Back]_vars
  <2> SUFFICES ASSUME overlaps = 0, Next PROVE Own \/ Back
    BY <1>1
  <2>1. ASSUME NEW c \in Clients, Serve(c), ~Rollback(c) PROVE Own
    BY <1>1, <2>1, RowsAreOwn DEF Sole, Inductive
  <2>2. ASSUME NEW c \in Clients, Rollback(c) PROVE Own \/ Back
    <3>1. UNCHANGED rows \/ rows' = saved.rows
      BY <2>2 DEF Rollback, tables
    <3> QED
      BY <2>2, <3>1
  <2>3. ASSUME UNCHANGED rows PROVE Own
    BY <2>3
  <2>4. (\E c \in Clients : Receive(c)) \/ LoopEnds => UNCHANGED rows
    BY DEF Receive, LoopEnds, database, tables
  <2>5. Restart => Back
    BY DEF Restart
  <2> HIDE DEF Own, Back
  <2> QED
    BY <2>1, <2>2, <2>3, <2>4, <2>5 DEF Next
<1>2. Inductive /\ [Next]_vars => [overlaps = 0 => Own \/ Back]_vars
  BY <1>1
<1> QED
  BY <1>2, SpecInductive, PTL DEF Spec, OwnRowOnly
------------------------------------------------------------------------------
(* The bounds.                                                             *)

(***************************************************************************)
(* An identifier and a runnable are left for every request that may take   *)
(* one: it is received only while there are more than the requests under   *)
(* way can take.  What is remembered was a row once.                       *)
(***************************************************************************)
Bounded ==
  /\ disturbed \subseteq Ids /\ overlaps \in 0..MaxOverlaps
  /\ lastId + Cardinality(Inserting) <= MaxServices
  /\ Len(runnables) + Cardinality(Creating) <= MaxRunnables
  /\ \A i \in DOMAIN runnables : runnables[i].service.id <= MaxServices
  /\ \A c \in Clients : service(c) # Null => service(c).id <= MaxServices

LEMMA FiniteClients ==
  ASSUME NEW S, S \subseteq Clients
  PROVE  IsFiniteSet(S) /\ Cardinality(S) \in Nat
<1>1. IsFiniteSet(S)
  BY FS_Subset, RegistryAssumption
<1> QED
  BY <1>1, FS_CardinalityType

LEMMA Counts ==
  /\ IsFiniteSet(Inserting) /\ Cardinality(Inserting) \in Nat
  /\ IsFiniteSet(Creating) /\ Cardinality(Creating) \in Nat
<1>1. Inserting \subseteq Clients /\ Creating \subseteq Clients
  BY DEF Inserting, Creating
<1> QED
  BY <1>1, FiniteClients

\* Who serves a request needs an identifier, and a runnable, only if it needed
\* one before.
LEMMA CountsFollow ==
  ASSUME IInv, NEW c \in Clients, Serve(c)
  PROVE  /\ Inserting' \subseteq Inserting
         /\ Insert(c) => c \in Inserting /\ c \notin Inserting'
         /\ Creating' \subseteq Creating
         /\ Get(c) /\ ~UNCHANGED runnables => c \in Creating /\ c \notin Creating'
<1>1. /\ \A d \in Clients : d # c => clients'[d] = clients[d]
      /\ Follows(c) /\ Knows(clients[c], runnables)
  BY LocalsFollow DEF Moves, IInv
<1>2. clients'[c].pc # "idle" => clients'[c].request = clients[c].request
  BY <1>1, RestingIsIdle DEF Follows
<1>3. /\ clients'[c].pc \in {"findPlugin", "begin", "insert"} =>
           clients[c].pc \in {"findPlugin", "begin", "insert"}
      /\ clients'[c].pc \in {"readBack", "rollback", "commit", "end"} /\ Op(c) = "post" =>
           clients[c].pc \in {"insert", "readBack", "rollback", "commit", "end"}
      /\ clients'[c].pc = "get" =>
           \/ clients[c].pc = "find"
           \/ clients[c].pc \in {"commit", "end"} /\ Op(c) = "post"
      /\ clients'[c].pc # "find"
      /\ Insert(c) => clients[c].pc = "insert" /\ clients'[c].pc \notin {"findPlugin", "begin", "insert"}
  <2>1. clients'[c].pc = "get" /\ clients[c].pc \in {"commit", "end"} => Op(c) = "post"
    <3>1. ASSUME Finish(c), Op(c) # "post" PROVE clients'[c].pc # "get"
      BY <3>1, AnswerLeads, GotoLeads DEF Finish
    <3>2. Goto(c, "end") => clients'[c].pc # "get"
      BY GotoLeads
    <3>3. clients[c].pc \in {"commit", "end"} => Commit(c) \/ End(c)
      BY Paths DEF Serve, Leads
    <3> QED
      BY <3>1, <3>2, <3>3 DEF Commit, End
  <2>2. clients[c].pc = "deletePlugin" => Op(c) # "post"
    BY <1>1 DEF Knows, Op, request
  <2> QED
    BY <2>1, <2>2, Paths DEF Serve, Leads
<1>4. Inserting' \subseteq Inserting
  BY <1>1, <1>2, <1>3 DEF Inserting, Op, request
<1>5. ASSUME Insert(c) PROVE c \in Inserting /\ c \notin Inserting'
  <2>1. clients[c].request.op = "post"
    BY <1>1, <1>3, <1>5 DEF Knows
  <2> QED
    BY <1>3, <1>5, <2>1 DEF Inserting, Op, request
<1>6. Creating' \subseteq Creating
  BY <1>1, <1>2, <1>3 DEF Creating, Op, request
<1>7. ASSUME Get(c), ~UNCHANGED runnables PROVE c \in Creating /\ c \notin Creating'
  <2>1. Op(c) \in {"post", "put"} /\ clients'[c].pc = "register" /\ clients[c].pc = "get"
    BY <1>7, GetAppends DEF Get, At
  <2> QED
    BY <2>1 DEF Creating
<1> QED
  BY <1>4, <1>5, <1>6, <1>7

\* The identifiers of the rows are within the bound.
LEMMA IdsAreBounded ==
  ASSUME IInv, Filed, Bounded
  PROVE  /\ lastId \in 0..MaxServices /\ saved.lastId \in 0..lastId /\ MaxServices \in Nat
         /\ \A s \in Row : s.id <= MaxServices => s \in Service
         /\ \A s \in rows \cup saved.rows : s \in Row /\ s.id <= MaxServices /\ s.id \in Ids
<1>1. lastId \in Nat /\ Cardinality(Inserting) \in Nat /\ MaxServices \in Nat
      /\ saved.lastId \in Nat /\ rows \subseteq Row /\ saved.rows \subseteq Row
  BY Counts, RegistryAssumption DEF IInv, Typed, DatabaseTyped
<1>2. lastId \in 0..MaxServices /\ saved.lastId \in 0..lastId
  BY <1>1 DEF Bounded, Filed
<1>3. ASSUME NEW s \in Row, s.id <= MaxServices PROVE s \in Service /\ s.id \in Ids
  <2>1. s.id \in Ids
    BY <1>1, <1>2, <1>3 DEF Row, Ids
  <2> QED
    BY <2>1 DEF Row, Service, MaybeConfig
<1>4. \A s \in rows \cup saved.rows : s \in Row /\ s.id <= MaxServices
  BY <1>1, <1>2 DEF Filed, Row
<1> QED
  BY <1>1, <1>2, <1>3, <1>4

LEMMA InitBounded == Init => Bounded
<1> SUFFICES ASSUME Init PROVE Bounded
  OBVIOUS
<1>1. Inserting = {} /\ Creating = {}
  BY RestingIsIdle DEF Init, Inserting, Creating, At
<1>2. Cardinality({}) = 0
  BY FS_EmptySet
<1>3. Len(runnables) = 0 /\ DOMAIN runnables = {}
  BY DEF Init
<1>4. \A c \in Clients : service(c) = Null
  BY RestingIsIdle DEF Init, service
<1> QED
  BY <1>1, <1>2, <1>3, <1>4, RegistryAssumption DEF Init, Bounded

\* What a step does to the identifiers that are remembered.
LEMMA MemoryIsBounded ==
  ASSUME IInv, Filed, Bounded, NEW c \in Clients, Serve(c)
  PROVE  /\ \A i \in DOMAIN runnables' : runnables'[i].service.id <= MaxServices
         /\ \A d \in Clients : clients'[d].service # Null => clients'[d].service.id <= MaxServices
<1>1. /\ \A d \in Clients : d # c => clients'[d] = clients[d]
      /\ NamesKept /\ Len(runnables) \in Nat /\ DOMAIN runnables = 1..Len(runnables)
  BY LocalsFollow, RunnablesFollow DEF Moves, IInv, Typed
<1>2. DOMAIN runnables' = 1..Len(runnables') /\ Len(runnables') \in Nat
  BY <1>1 DEF NamesKept
<1>3. ASSUME NEW i \in DOMAIN runnables' PROVE runnables'[i].service.id <= MaxServices
  <2>1. CASE i \in 1..Len(runnables)
    <3>1. runnables'[i].service.id = runnables[i].service.id
      BY <2>1, RunnablesRemember
    <3> QED
      BY <1>1, <2>1, <3>1 DEF Bounded
  <2>2. CASE i \notin 1..Len(runnables)
    <3>1. Get(c) /\ ~UNCHANGED runnables
      BY <1>1, <1>2, <1>3, <2>2, LengthFollows
    <3>2. /\ Len(runnables') = Len(runnables) + 1
          /\ runnables'[Len(runnables) + 1] = NewRunnable(c)
      BY <3>1, GetAppends
    <3>4. i = Len(runnables) + 1
      BY <1>1, <1>2, <1>3, <2>2, <3>2
    <3>3. service(c) # Null
      BY <3>1, NullIsNoRow DEF Get, At, IInv, Knows, Serviceless, service
    <3> QED
      BY <3>2, <3>3, <3>4 DEF NewRunnable, Bounded
  <2> QED
    BY <2>1, <2>2
<1>4. ASSUME clients'[c].service # Null PROVE clients'[c].service.id <= MaxServices
  <2>1. CASE clients'[c].service = service(c)
    BY <1>4, <2>1 DEF Bounded
  <2>2. CASE clients'[c].service \in rows
    BY <2>2, IdsAreBounded
  <2>3. CASE Insert(c) /\ clients'[c].service.id = lastId + 1
    <3>1. c \in Inserting
      BY <2>3, CountsFollow
    <3>2. Cardinality(Inserting) # 0
      BY <3>1, Counts, FS_EmptySet
    <3>3. lastId \in Nat /\ MaxServices \in Nat
      BY IdsAreBounded
    <3> QED
      BY <2>3, <3>2, <3>3, Counts DEF Bounded
  <2>4. [id |-> lastId + 1, name |-> request(c).name,
         plugin |-> request(c).plugin, config |-> request(c).config].id = lastId + 1
    OBVIOUS
  <2> QED
    BY <1>4, <2>1, <2>2, <2>3, <2>4, ServicesFollow
<1>5. \A d \in Clients : clients'[d].service # Null => clients'[d].service.id <= MaxServices
  BY <1>1, <1>4 DEF Bounded, service
<1> QED
  BY <1>3, <1>5

LEMMA ServeKeepsBounded ==
  ASSUME IInv, Filed, Bounded, NEW c \in Clients, Serve(c)
  PROVE  Bounded'
<1>1. /\ Inserting' \subseteq Inserting /\ Creating' \subseteq Creating
      /\ Insert(c) => c \in Inserting /\ c \notin Inserting'
      /\ Get(c) /\ ~UNCHANGED runnables => c \in Creating /\ c \notin Creating'
  BY CountsFollow
<1>2. /\ IsFiniteSet(Inserting) /\ Cardinality(Inserting) \in Nat
      /\ IsFiniteSet(Creating) /\ Cardinality(Creating) \in Nat
  BY Counts
<1>3. /\ lastId \in Nat /\ MaxServices \in Nat /\ saved.lastId \in 0..lastId
      /\ MaxRunnables \in Nat /\ Len(runnables) \in Nat
  BY IdsAreBounded, RegistryAssumption DEF IInv, Typed
<1>4. overlaps' \in 0..MaxOverlaps
  BY LocalsFollow DEF Bounded
<1>5. disturbed' \subseteq Ids
  <2>1. CASE Save(c) \/ Update(c)
    <3>1. PICK s, name, config : Write(s, name, config)
      BY <2>1 DEF Save, Update
    <3> QED
      BY <3>1, IdsAreBounded DEF Write, WithId, Bounded
  <2>2. CASE Rollback(c)
    BY <2>2, IdsAreBounded DEF Rollback, Bounded
  <2>3. CASE UNCHANGED disturbed
    BY <2>3 DEF Bounded
  <2> QED
    BY <2>1, <2>2, <2>3
       DEF Serve, Insert, Find, Get, Register, Toggle, PutBack, Ask, Configure, Verify,
           Delete, StopRemoved, Remove, DeletePlugin, RemoveAll, FindPlugin, Begin, ReadBack,
           Commit, End
<1>6. lastId' + Cardinality(Inserting') <= MaxServices
  <2>1. Cardinality(Inserting') <= Cardinality(Inserting) /\ Cardinality(Inserting') \in Nat
    BY <1>1, <1>2, FS_Subset, FS_CardinalityType
  <2>2. CASE Insert(c)
    <3>1. c \in Inserting /\ lastId' \in {lastId, lastId + 1}
      BY <1>1, <2>2 DEF Insert, Execute, database, tables
    <3>2. Cardinality(Inserting \ {c}) = Cardinality(Inserting) - 1 /\ IsFiniteSet(Inserting \ {c})
      BY <1>2, <3>1, FS_RemoveElement
    <3>3. Inserting' \subseteq Inserting \ {c}
      BY <1>1, <2>2
    <3>4. Cardinality(Inserting') <= Cardinality(Inserting \ {c})
      BY <3>2, <3>3, FS_Subset
    <3> QED
      BY <1>2, <1>3, <2>1, <3>1, <3>2, <3>4 DEF Bounded
  <2>3. CASE Rollback(c)
    <3>1. lastId' \in {lastId, saved.lastId}
      BY <2>3 DEF Rollback, tables
    <3> QED
      BY <1>2, <1>3, <2>1, <3>1 DEF Bounded
  <2>4. CASE ~Insert(c) /\ ~Rollback(c)
    <3>1. UNCHANGED lastId
      BY <2>4
         DEF Serve, Find, Get, Register, Toggle, PutBack, Ask, Configure, Verify, Save, Update,
             Delete, StopRemoved, Remove, DeletePlugin, RemoveAll, FindPlugin, Begin, ReadBack,
             Commit, End, Write, Execute, database, tables
    <3> QED
      BY <1>2, <1>3, <2>1, <3>1 DEF Bounded
  <2> QED
    BY <2>2, <2>3, <2>4
<1>7. Len(runnables') + Cardinality(Creating') <= MaxRunnables
  <2>1. CASE Get(c) /\ ~UNCHANGED runnables
    <3>1. Len(runnables') = Len(runnables) + 1
      BY <2>1, GetAppends
    <3>2. Creating' \subseteq Creating \ {c} /\ c \in Creating
      BY <1>1, <2>1
    <3>3. Cardinality(Creating \ {c}) = Cardinality(Creating) - 1 /\ IsFiniteSet(Creating \ {c})
      BY <1>2, <3>2, FS_RemoveElement
    <3>4. Cardinality(Creating') <= Cardinality(Creating \ {c}) /\ Cardinality(Creating') \in Nat
      BY <3>2, <3>3, FS_Subset, FS_CardinalityType
    <3> QED
      BY <1>2, <1>3, <3>1, <3>3, <3>4 DEF Bounded
  <2>2. CASE ~(Get(c) /\ ~UNCHANGED runnables)
    <3>1. Len(runnables') = Len(runnables)
      BY <2>2, LengthFollows
    <3>2. Cardinality(Creating') <= Cardinality(Creating) /\ Cardinality(Creating') \in Nat
      BY <1>1, <1>2, FS_Subset, FS_CardinalityType
    <3> QED
      BY <1>2, <1>3, <3>1, <3>2 DEF Bounded
  <2> QED
    BY <2>1, <2>2
<1>8. /\ \A i \in DOMAIN runnables' : runnables'[i].service.id <= MaxServices
      /\ \A d \in Clients : clients'[d].service # Null => clients'[d].service.id <= MaxServices
  BY MemoryIsBounded
<1> QED
  BY <1>4, <1>5, <1>6, <1>7, <1>8 DEF Bounded, service

LEMMA ReceiveKeepsBounded ==
  ASSUME IInv, Bounded, NEW c \in Clients, Receive(c)
  PROVE  Bounded'
<1>1. clients \in [Clients -> Local] /\ clients[c] \in Local /\ Len(runnables) \in Nat
      /\ lastId \in Nat /\ MaxServices \in Nat /\ MaxRunnables \in Nat /\ MaxOverlaps \in Nat
  BY RegistryAssumption DEF IInv, Typed, DatabaseTyped
<1>2. PICK r \in Request :
        /\ r.op = "post" => lastId + Cardinality(Inserting) < MaxServices
        /\ r.op \in {"post", "put"} => Len(runnables) + Cardinality(Creating) < MaxRunnables
        /\ clients' = [clients EXCEPT ![c].request = r,
                         ![c].pc = CASE r.op = "post" -> "findPlugin"
                                     [] r.op = "deletePlugin" -> "begin"
                                     [] OTHER -> "find"]
  BY DEF Receive
<1>3. PICK label \in {"findPlugin", "begin", "find"} :
        clients' = [clients EXCEPT ![c].request = r, ![c].pc = label]
  BY <1>2
<1>4. /\ clients'[c] = [clients[c] EXCEPT !.request = r, !.pc = label]
      /\ \A d \in Clients : d # c => clients'[d] = clients[d]
  BY <1>1, <1>3
<1>5. clients'[c].pc = label /\ clients'[c].request = r /\ clients[c].pc = "idle"
      /\ clients'[c].service = clients[c].service
  BY <1>1, <1>4 DEF Local, Receive, At
<1>6. /\ UNCHANGED <<lastId, runnables, disturbed>>
      /\ overlaps' = overlaps \/ (overlaps < MaxOverlaps /\ overlaps' = overlaps + 1)
  BY DEF Receive, database, tables, manager
<1>7. /\ IsFiniteSet(Inserting) /\ Cardinality(Inserting) \in Nat
      /\ IsFiniteSet(Creating) /\ Cardinality(Creating) \in Nat
  BY Counts
<1>8. lastId' + Cardinality(Inserting') <= MaxServices
  <2>1. CASE r.op = "post"
    <3>1. Inserting' \subseteq Inserting \cup {c} /\ c \notin Inserting
      BY <1>4, <1>5 DEF Inserting, Op, request
    <3>2. Cardinality(Inserting \cup {c}) = Cardinality(Inserting) + 1
          /\ IsFiniteSet(Inserting \cup {c})
      BY <1>7, <3>1, FS_AddElement
    <3>3. Cardinality(Inserting') <= Cardinality(Inserting \cup {c}) /\ Cardinality(Inserting') \in Nat
      BY <3>1, <3>2, FS_Subset, FS_CardinalityType
    <3> QED
      BY <1>1, <1>2, <1>6, <1>7, <2>1, <3>2, <3>3
  <2>2. CASE r.op # "post"
    <3>1. Inserting' = Inserting
      BY <1>4, <1>5, <2>2 DEF Inserting, Op, request
    <3> QED
      BY <1>6, <3>1 DEF Bounded
  <2> QED
    BY <2>1, <2>2
<1>9. Len(runnables') + Cardinality(Creating') <= MaxRunnables
  <2>1. CASE r.op \in {"post", "put"}
    <3>1. Creating' \subseteq Creating \cup {c} /\ c \notin Creating
      BY <1>4, <1>5 DEF Creating, Op, request
    <3>2. Cardinality(Creating \cup {c}) = Cardinality(Creating) + 1
          /\ IsFiniteSet(Creating \cup {c})
      BY <1>7, <3>1, FS_AddElement
    <3>3. Cardinality(Creating') <= Cardinality(Creating \cup {c}) /\ Cardinality(Creating') \in Nat
      BY <3>1, <3>2, FS_Subset, FS_CardinalityType
    <3> QED
      BY <1>1, <1>2, <1>6, <1>7, <2>1, <3>2, <3>3
  <2>2. CASE r.op \notin {"post", "put"}
    <3>1. Creating' = Creating
      BY <1>4, <1>5, <2>2 DEF Creating, Op, request
    <3> QED
      BY <1>6, <3>1 DEF Bounded
  <2> QED
    BY <2>1, <2>2
<1>10. overlaps' \in 0..MaxOverlaps
  BY <1>1, <1>6 DEF Bounded
<1>11. \A d \in Clients : clients'[d].service = clients[d].service
  BY <1>4, <1>5
<1> QED
  BY <1>6, <1>8, <1>9, <1>10, <1>11 DEF Bounded, service

LEMMA BoundedIsInductive == IInv /\ Transactions /\ Bounded /\ [Next]_vars => Bounded'
<1> SUFFICES ASSUME IInv, Filed, Bounded, [Next]_vars PROVE Bounded'
  BY DEF Transactions
<1>1. CASE UNCHANGED vars
  BY <1>1 DEF vars, database, tables, manager, Bounded, Inserting, Creating, Op, request, service
<1>2. CASE LoopEnds
  <2>1. UNCHANGED <<lastId, clients, disturbed, overlaps>> /\ Len(runnables') = Len(runnables)
    BY <1>2, LoopEndsFollows DEF database, tables
  <2>2. PICK i \in DOMAIN runnables : runnables' = Run({i}, FALSE)
    BY <1>2 DEF LoopEnds
  <2>3. /\ DOMAIN runnables = 1..Len(runnables) /\ DOMAIN runnables' = DOMAIN runnables
        /\ \A j \in 1..Len(runnables) : runnables'[j].service = runnables[j].service
    BY <2>2, RunKeepsRunnables DEF IInv, Typed, Run
  <2> QED
    BY <2>1, <2>3 DEF Bounded, Inserting, Creating, Op, request, service
<1>3. CASE Restart
  <2>1. Inserting' = {} /\ Creating' = {} /\ \A c \in Clients : clients'[c].service = Null
    BY <1>3, RestingIsIdle DEF Restart, Inserting, Creating
  <2>2. Cardinality({}) = 0
    BY FS_EmptySet
  <2>3. /\ Len(runnables') = 0 /\ DOMAIN runnables' = {}
        /\ lastId' = saved.lastId /\ disturbed' = {} /\ overlaps' = 0
    BY <1>3 DEF Restart
  <2>4. lastId' \in 0..MaxServices
    BY <2>3, IdsAreBounded
  <2> QED
    BY <2>1, <2>2, <2>3, <2>4, RegistryAssumption DEF Bounded, service
<1>4. ASSUME NEW c \in Clients, Receive(c) \/ Serve(c) PROVE Bounded'
  BY <1>4, ReceiveKeepsBounded, ServeKeepsBounded
<1> QED
  BY <1>1, <1>2, <1>3, <1>4 DEF Next

LEMMA BoundedIsTyped == IInv /\ Fresh /\ Transactions /\ Bounded => TypeOK
<1> SUFFICES ASSUME IInv, Fresh, Filed, Bounded PROVE TypeOK
  BY DEF Transactions
<1>1. /\ lastId \in 0..MaxServices /\ saved.lastId \in 0..lastId /\ MaxServices \in Nat
      /\ \A s \in Row : s.id <= MaxServices => s \in Service
      /\ \A s \in rows \cup saved.rows : s \in Service
  BY IdsAreBounded
<1>2. plugins \subseteq Plugins /\ rows \subseteq Service /\ autoCommit \in BOOLEAN
  BY <1>1 DEF IInv, Typed, DatabaseTyped
<1>3. saved \in File
  <2>1. saved \in [plugins : SUBSET Plugins, rows : SUBSET Row, lastId : Nat]
    BY DEF IInv, Typed, DatabaseTyped
  <2>2. saved.lastId \in 0..MaxServices /\ saved.rows \subseteq Service
    BY <1>1
  <2> QED
    BY <2>1, <2>2 DEF File
<1>4. runnables \in Seq(RunnableRow) /\ Len(runnables) \in Nat /\ DOMAIN runnables = 1..Len(runnables)
  BY DEF IInv, Typed
<1>5. ASSUME NEW i \in 1..Len(runnables) PROVE runnables[i] \in Runnable
  <2>1. runnables[i] \in RunnableRow /\ runnables[i].service.id <= MaxServices
    BY <1>4 DEF Bounded
  <2>2. runnables[i].service \in Service
    BY <1>1, <2>1 DEF RunnableRow
  <2> QED
    BY <2>1, <2>2 DEF RunnableRow, Runnable, MaybeConfig
<1>6. runnables \in Seq(Runnable)
  BY <1>4, <1>5
<1>7. Len(runnables) <= MaxRunnables
  BY <1>4, Counts, RegistryAssumption DEF Bounded
<1>8. ASSUME NEW c \in Clients PROVE clients[c] \in Client
  <2>1. clients[c] \in Local
    BY DEF IInv, Typed
  <2>2. clients[c].service \in Service \cup {Null}
    BY <1>1, <2>1 DEF Bounded, service, Local
  <2>3. clients[c].runnable \in 0..MaxRunnables
    BY <1>4, <1>7, RegistryAssumption DEF Fresh, NewAreFresh, runnable
  <2> QED
    BY <2>1, <2>2, <2>3 DEF Local, Client, MaybeConfig
<1>9. clients \in [Clients -> Client] /\ services \in [Names -> 0..Len(runnables)]
  BY <1>8 DEF IInv, Typed
<1> QED
  BY <1>1, <1>2, <1>3, <1>6, <1>7, <1>9 DEF TypeOK, Bounded

(***************************************************************************)
(* Every variable keeps its type: the locals of a request refer to rows    *)
(* that were given an identifier and to runnables that there are, and the  *)
(* bounds on both are not exceeded by requests that overlap.               *)
(***************************************************************************)
THEOREM RegistryTypeInvariant == Spec => []TypeOK
BY InitIInv, InitFresh, InitTransactions, InitBounded, IInvIsInductive, FreshIsInductive,
   TransactionsAreInductive, BoundedIsInductive, BoundedIsTyped, PTL DEF Spec
=============================================================================
