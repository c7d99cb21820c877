--------------------------- MODULE ServiceRegistry ---------------------------
(***************************************************************************)
(* The services of the hub: their rows in the database, and the map of     *)
(* runnable services that ServiceManager keeps beside them, under the      *)
(* requests that create, configure, rename, delete, start and stop them    *)
(* and delete their plugins.  A runnable is found by the name of a row     *)
(* but remembers the service it was created for, and writes to that one.   *)
(*                                                                         *)
(* A step of a request is one call on the database, on the map or on the   *)
(* runnable.  All requests share one connection and so one transaction,    *)
(* as in module HubDatabase; what interleaves inside a runnable is in      *)
(* module ServiceRunner.                                                   *)
(***************************************************************************)
EXTENDS Naturals, Sequences, FiniteSets

CONSTANTS
  Clients,       \* the threads that execute requests
  Names,         \* the names of services
  Configs,       \* the configurations that requests carry
  Plugins,       \* the service plugins uploaded before
  MaxServices,   \* bound: the services added
  MaxRunnables,  \* bound: the runnables created between two restarts
  MaxOverlaps,   \* bound: the requests received during another between two restarts
  Null           \* null

ASSUME RegistryAssumption ==
  /\ IsFiniteSet(Clients)
  /\ MaxServices \in Nat /\ MaxRunnables \in Nat /\ MaxOverlaps \in Nat
  /\ Null \notin Configs
  /\ Null \notin [id : Nat, name : Names, plugin : Plugins, config : Configs \cup {Null}]

VARIABLES
  plugins,    \* the plugins, as the connection sees them
  rows,       \* the services, as the connection sees them
  lastId,     \* the identifier given last
  saved,      \* the three of them in the file
  autoCommit, \* the connection's auto-commit mode
  runnables,  \* the runnables created since the start, by number
  services,   \* the map of ServiceManager: names to runnables, 0 for none
  clients,    \* where a client is, what its request is, the service it has read or
              \* added, whether its transaction has failed, the runnable it has
              \* found or created, or 0, and the configurations it has yet to give
              \* to that runnable
  disturbed,  \* history: the services renamed, or whose row a rollback changed,
              \* since the start
  overlaps    \* history: the requests received during another since the start

tables == <<plugins, rows, lastId>>
connection == <<saved, autoCommit>>
database == <<tables, connection>>
manager == <<runnables, services>>
vars == <<database, manager, clients, disturbed, overlaps>>

None == 0
Ids == 1..MaxServices

Service == [id : Ids, name : Names, plugin : Plugins, config : Configs \cup {Null}]
Runnable == [service : Service, config : Configs \cup {Null}, running : BOOLEAN]

\* A configuration that the body does not give is Null.
Request ==
  [op : {"post"}, name : Names, plugin : Plugins, config : Configs \cup {Null}]
    \cup [op : {"put"}, name : Names, newName : Names, config : Configs \cup {Null}]
    \cup [op : {"delete", "start", "stop"}, name : Names]
    \cup [op : {"deletePlugin"}, plugin : Plugins]

Steps == {"idle", "findPlugin", "begin", "insert", "readBack", "rollback", "commit", "end",
          "find", "get", "register", "ask", "configure", "verify",
          "save", "clear", "update", "delete", "stop", "remove", "toggle", "putBack",
          "deletePlugin", "removeAll"}

File == [plugins : SUBSET Plugins, rows : SUBSET Service, lastId : 0..MaxServices]

Client == [pc : Steps, request : Request \cup {Null}, service : Service \cup {Null},
           failed : BOOLEAN, runnable : 0..MaxRunnables, todo : Seq(Configs \cup {Null})]

Resting == [pc |-> "idle", request |-> Null, service |-> Null, failed |-> FALSE,
            runnable |-> None, todo |-> <<>>]

TypeOK ==
  /\ plugins \subseteq Plugins
  /\ rows \subseteq Service /\ lastId \in 0..MaxServices
  /\ saved \in File /\ autoCommit \in BOOLEAN
  /\ runnables \in Seq(Runnable) /\ Len(runnables) <= MaxRunnables
  /\ services \in [Names -> 0..Len(runnables)]
  /\ clients \in [Clients -> Client]
  /\ disturbed \subseteq Ids
  /\ overlaps \in 0..MaxOverlaps

Tables == [plugins |-> plugins, rows |-> rows, lastId |-> lastId]

\* openDatabase leaves auto-commit off.
Init ==
  /\ plugins = Plugins /\ rows = {} /\ lastId = 0
  /\ saved = Tables /\ autoCommit = FALSE
  /\ runnables = <<>>
  /\ services = [n \in Names |-> None]
  /\ clients = [c \in Clients |-> Resting]
  /\ disturbed = {} /\ overlaps = 0

------------------------------------------------------------------------------
(* The database, one statement at a time.                                  *)

At(c, label) == clients[c].pc = label
Goto(c, label) == clients' = [clients EXCEPT ![c].pc = label]
Answer(c) == clients' = [clients EXCEPT ![c] = Resting]

request(c) == clients[c].request
service(c) == clients[c].service
runnable(c) == clients[c].runnable
todo(c) == clients[c].todo
failed(c) == clients[c].failed
Op(c) == request(c).op

WithId(id) == {s \in rows : s.id = id}
WithName(name) == {s \in rows : s.name = name}

\* getService builds no object when the service's plugin is missing.
Readable(s) == s.plugin \in plugins

\* Mutant: names need not be unique.
AnyName(s, name) == WithId(s.id) # {}

\* UPDATE ... WHERE id = ? finds the row, and the name stays unique.
Writable(s, name) == WithId(s.id) # {} /\ WithName(name) \subseteq WithId(s.id)

Updated(s, name, config) ==
  [CHOOSE row \in WithId(s.id) : TRUE EXCEPT !.name = name, !.config = config]

\* A statement that changes the tables; alone, it commits.
Execute(newPlugins, newRows, newId) ==
  /\ plugins' = newPlugins /\ rows' = newRows /\ lastId' = newId
  /\ saved' = IF autoCommit THEN Tables' ELSE saved
  /\ UNCHANGED autoCommit

\* updateService, of a service object that may be out of date.
Write(s, name, config) ==
  IF Writable(s, name)
  THEN /\ Execute(plugins, (rows \ WithId(s.id)) \cup {Updated(s, name, config)}, lastId)
       /\ disturbed' = disturbed \cup {row.id : row \in WithId(s.id) \ WithName(name)}
  ELSE UNCHANGED <<database, disturbed>>

\* Whether it returns an object.
Written(s, name) == Writable(s, name) /\ \A row \in WithId(s.id) : Readable(row)

------------------------------------------------------------------------------
(* Requests reach the handlers.                                            *)

\* The requests that may still add a service, and create a runnable.
Inserting ==
  {c \in Clients : clients[c].pc \in {"findPlugin", "begin", "insert"} /\ Op(c) = "post"}
Creating ==
  {c \in Clients : \/ clients[c].pc \in {"find", "get"} /\ Op(c) \in {"post", "put"}
                   \/ clients[c].pc \in {"findPlugin", "begin", "insert", "readBack",
                                         "rollback", "commit", "end"} /\ Op(c) = "post"}

Receive(c) ==
  /\ At(c, "idle")
  /\ \E r \in Request :
       /\ r.op = "post" => lastId + Cardinality(Inserting) < MaxServices
       /\ r.op \in {"post", "put"} => Len(runnables) + Cardinality(Creating) < MaxRunnables
       /\ clients' = [clients EXCEPT ![c].request = r,
                         ![c].pc = CASE r.op = "post" -> "findPlugin"
                                     [] r.op = "deletePlugin" -> "begin"
                                     [] OTHER -> "find"]
  /\ IF \E d \in Clients \ {c} : ~At(d, "idle")
     THEN overlaps < MaxOverlaps /\ overlaps' = overlaps + 1
     ELSE UNCHANGED overlaps
  /\ UNCHANGED <<database, manager, disturbed>>

\* getService(name).
Find(c) ==
  /\ At(c, "find")
  /\ LET found == {s \in WithName(request(c).name) : Readable(s)}
     IN  IF found = {}
         THEN Answer(c)
         ELSE \E s \in found :
                clients' = [clients EXCEPT ![c].service = s,
                  ![c].pc = CASE Op(c) = "delete" -> "delete"
                              [] Op(c) = "put" /\ request(c).config = Null -> "update"
                              [] OTHER -> "get"]
  /\ UNCHANGED <<database, manager, disturbed, overlaps>>

------------------------------------------------------------------------------
(* The transactions: addService and deleteServiceInfo.                     *)

\* A POST looks for the plugin first, a deletion inside its transaction; it
\* leaves the transaction open when there is no plugin.
FindPlugin(c) ==
  /\ At(c, "findPlugin")
  /\ IF request(c).plugin \in plugins
     THEN Goto(c, IF Op(c) = "post" THEN "begin" ELSE "deletePlugin")
     ELSE Answer(c)
  /\ UNCHANGED <<database, manager, disturbed, overlaps>>

Begin(c) ==
  /\ At(c, "begin")
  /\ autoCommit' = FALSE
  /\ Goto(c, IF Op(c) = "post" THEN "insert" ELSE "findPlugin")
  /\ UNCHANGED <<tables, saved, manager, disturbed, overlaps>>

Fail(c) == clients' = [clients EXCEPT ![c].failed = TRUE, ![c].pc = "rollback"]

\* The name is unique.  Foreign keys are not enforced: see HubDatabase.
Insert(c) ==
  /\ At(c, "insert")
  /\ LET r == request(c)
         s == [id |-> lastId + 1, name |-> r.name, plugin |-> r.plugin, config |-> r.config]
     IN  IF WithName(r.name) = {}
         THEN /\ Execute(plugins, rows \cup {s}, lastId + 1)
              /\ clients' = [clients EXCEPT ![c].service = s, ![c].pc = "readBack"]
         ELSE /\ Fail(c)
              /\ UNCHANGED database
  /\ UNCHANGED <<manager, disturbed, overlaps>>

\* getService(insertId).
ReadBack(c) ==
  /\ At(c, "readBack")
  /\ LET found == {s \in WithId(service(c).id) : Readable(s)}
     IN  IF found = {}
         THEN Fail(c)
         ELSE \E s \in found :
                clients' = [clients EXCEPT ![c].service = s, ![c].pc = "commit"]
  /\ UNCHANGED <<database, manager, disturbed, overlaps>>

DeletePlugin(c) ==
  /\ At(c, "deletePlugin")
  /\ Execute(plugins \ {request(c).plugin}, rows, lastId)
  /\ IF request(c).plugin \in plugins
     THEN Goto(c, "commit")
     ELSE Fail(c)
  /\ UNCHANGED <<manager, disturbed, overlaps>>

Finish(c) ==
  IF failed(c) THEN Answer(c) ELSE Goto(c, IF Op(c) = "post" THEN "get" ELSE "removeAll")

(***************************************************************************)
(* The connection may have changes that other requests were answered: a    *)
(* rollback takes them back, too.  rollback() and commit() throw when      *)
(* another request has turned auto-commit on meanwhile: the rest of the    *)
(* block is skipped.                                                       *)
(***************************************************************************)
Rollback(c) ==
  /\ At(c, "rollback")
  /\ IF autoCommit
     THEN Finish(c) /\ UNCHANGED <<tables, disturbed>>
     ELSE /\ plugins' = saved.plugins /\ rows' = saved.rows /\ lastId' = saved.lastId
          /\ disturbed' = disturbed \cup
               {s.id : s \in (rows \ saved.rows) \cup (saved.rows \ rows)}
          /\ Goto(c, "commit")
  /\ UNCHANGED <<connection, manager, overlaps>>

Commit(c) ==
  /\ At(c, "commit")
  /\ IF autoCommit
     THEN Finish(c) /\ UNCHANGED saved
     ELSE Goto(c, "end") /\ saved' = Tables
  /\ UNCHANGED <<tables, autoCommit, manager, disturbed, overlaps>>

\* setAutoCommit(true) commits, too.
End(c) ==
  /\ At(c, "end")
  /\ autoCommit' = TRUE
  /\ saved' = Tables
  /\ Finish(c)
  /\ UNCHANGED <<tables, manager, disturbed, overlaps>>

------------------------------------------------------------------------------
(* The map of runnable services.                                           *)

Known(c) == services[service(c).name]

NewRunnable(c) == [service |-> service(c), config |-> Null, running |-> FALSE]

\* A POST without a configuration is over once the runnable is in the map.
UseRunnable(c, number) ==
  IF Op(c) = "post" /\ request(c).config = Null
  THEN Answer(c)
  ELSE clients' = [clients EXCEPT ![c].runnable = number,
                     ![c].pc = IF Op(c) \in {"post", "put"} THEN "ask" ELSE "toggle"]

\* Mutant: every request creates a runnable.
GetNew(c) ==
  /\ At(c, "get")
  /\ IF Op(c) \in {"post", "put"}
     THEN /\ runnables' = Append(runnables, NewRunnable(c))
          /\ clients' = [clients EXCEPT ![c].runnable = Len(runnables) + 1,
                                        ![c].pc = "register"]
     ELSE /\ IF Known(c) = None THEN Answer(c) ELSE UseRunnable(c, Known(c))
          /\ UNCHANGED runnables
  /\ UNCHANGED <<database, services, disturbed, overlaps>>

\* getRunnableService creates what it does not find; startStopRunnableService
\* does not, and says of a service without a runnable that it is started, or
\* stopped, already.
Get(c) ==
  /\ At(c, "get")
  /\ IF Known(c) = None /\ Op(c) \in {"post", "put"}
     THEN /\ runnables' = Append(runnables, NewRunnable(c))
          /\ clients' = [clients EXCEPT ![c].runnable = Len(runnables) + 1,
                                        ![c].pc = "register"]
     ELSE /\ IF Known(c) = None THEN Answer(c) ELSE UseRunnable(c, Known(c))
          /\ UNCHANGED runnables
  /\ UNCHANGED <<database, services, disturbed, overlaps>>

Put(name, number) == services' = [services EXCEPT ![name] = number]

Register(c) ==
  /\ At(c, "register")
  /\ Put(service(c).name, runnable(c))
  /\ UseRunnable(c, runnable(c))
  /\ UNCHANGED <<database, runnables, disturbed, overlaps>>

Run(numbers, b) ==
  [i \in DOMAIN runnables |->
     IF i \in numbers THEN [runnables[i] EXCEPT !.running = b] ELSE runnables[i]]

\* start() or stop(), when isStarted() says that it changes something.
Toggle(c) ==
  /\ At(c, "toggle")
  /\ runnables' = Run({runnable(c)}, Op(c) = "start")
  /\ IF runnables' = runnables THEN Answer(c) ELSE Goto(c, "putBack")
  /\ UNCHANGED <<database, services, disturbed, overlaps>>

PutBack(c) ==
  /\ At(c, "putBack")
  /\ Put(service(c).name, runnable(c))
  /\ Answer(c)
  /\ UNCHANGED <<database, runnables, disturbed, overlaps>>

------------------------------------------------------------------------------
(* The configuration of a runnable.                                        *)

\* A PUT first gives the configuration of the row to a script that needs one
\* (getConfiguredRunnableService), and ignores whether the script rejects it.
\* The question may throw, too.
Ask(c) ==
  /\ At(c, "ask")
  /\ \/ \E old \in {<<>>} \cup {<<service(c).config>> : x \in {"put"} \cap {Op(c)}} :
          clients' = [clients EXCEPT ![c].todo = Append(old, request(c).config),
                                     ![c].pc = "configure"]
     \/ Op(c) = "put" /\ Answer(c)
  /\ UNCHANGED <<database, manager, disturbed, overlaps>>

\* The next configuration, or the end.
Continue(c, end) ==
  IF Len(todo(c)) > 1
  THEN clients' = [clients EXCEPT ![c].todo = Tail(@), ![c].pc = "configure"]
  ELSE end

Configured(c) == Continue(c, IF Op(c) = "put" THEN Goto(c, "update") ELSE Answer(c))

Rejected(c) == Continue(c, IF Op(c) = "put" THEN Answer(c) ELSE Goto(c, "clear"))

Configure(c) ==
  /\ At(c, "configure")
  /\ IF runnables[runnable(c)].config = Head(todo(c))
     THEN Configured(c) /\ UNCHANGED runnables
     ELSE Goto(c, "verify") /\ runnables' = Run({runnable(c)}, FALSE)
  /\ UNCHANGED <<database, services, disturbed, overlaps>>

\* Mutant: the configuration is assigned before the script accepts it.
VerifyAssigned(c) ==
  /\ At(c, "verify")
  /\ runnables' = [runnables EXCEPT ![runnable(c)].config = Head(todo(c))]
  /\ Goto(c, "save") \/ Rejected(c) \/ Answer(c)
  /\ UNCHANGED <<database, services, disturbed, overlaps>>

\* The script accepts the configuration, rejects it or throws.
Verify(c) ==
  /\ At(c, "verify")
  /\ \/ /\ runnables' = [runnables EXCEPT ![runnable(c)].config = Head(todo(c))]
        /\ Goto(c, "save")
     \/ (Rejected(c) \/ Answer(c)) /\ UNCHANGED runnables
  /\ UNCHANGED <<database, services, disturbed, overlaps>>

\* updateConfiguration: the row and the name are those the runnable remembers.
Save(c) ==
  /\ At(c, "save")
  /\ LET r == runnables[runnable(c)]
         s == r.service
     IN  /\ Write(s, s.name, r.config)
         /\ runnables' = IF Written(s, s.name)
                         THEN [runnables EXCEPT ![runnable(c)].service =
                                 Updated(s, s.name, r.config)]
                         ELSE runnables
  /\ Configured(c)
  /\ UNCHANGED <<services, overlaps>>

\* What an update writes.
NewName(c) == IF Op(c) = "put" THEN request(c).newName ELSE service(c).name
NewConfig(c) ==
  CASE At(c, "clear") -> Null
    [] Op(c) = "put" /\ request(c).config = Null -> service(c).config
    [] OTHER -> request(c).config

\* Mutant: the name and the configuration, both strings, are swapped.
UpdateSwapped(c) ==
  /\ At(c, "update") \/ At(c, "clear")
  /\ Write(service(c), NewConfig(c), NewName(c))
  /\ Answer(c)
  /\ UNCHANGED <<manager, overlaps>>

\* Mutant: the runnable learns the new name, and stays under the old one.
UpdateRunnable(c) ==
  /\ At(c, "update") \/ At(c, "clear")
  /\ Write(service(c), NewName(c), NewConfig(c))
  /\ runnables' = IF Written(service(c), NewName(c)) /\ Known(c) # None
                  THEN [runnables EXCEPT ![Known(c)].service =
                          Updated(service(c), NewName(c), NewConfig(c))]
                  ELSE runnables
  /\ Answer(c)
  /\ UNCHANGED <<services, overlaps>>

\* The last word of a PUT; a POST takes the rejected configuration back.
Update(c) ==
  /\ At(c, "update") \/ At(c, "clear")
  /\ Write(service(c), NewName(c), NewConfig(c))
  /\ Answer(c)
  /\ UNCHANGED <<manager, overlaps>>

------------------------------------------------------------------------------
(* Deletions.                                                              *)

\* deleteService answers null exactly when it has deleted the row, so the
\* handler goes on to the map only when another request has deleted it.
Delete(c) ==
  /\ At(c, "delete")
  /\ Execute(plugins, rows \ WithId(service(c).id), lastId)
  /\ IF rows' # rows THEN Answer(c) ELSE Goto(c, "stop")
  /\ UNCHANGED <<manager, disturbed, overlaps>>

\* removeService: stop what is in the map, then remove it.
StopRemoved(c) ==
  /\ At(c, "stop")
  /\ runnables' = Run({Known(c)}, FALSE)
  /\ Goto(c, "remove")
  /\ UNCHANGED <<database, services, disturbed, overlaps>>

Remove(c) ==
  /\ At(c, "remove")
  /\ Put(service(c).name, None)
  /\ Answer(c)
  /\ UNCHANGED <<database, runnables, disturbed, overlaps>>

\* removeAllServicesForServiceInfo: the names in the map whose service can be
\* read and has the plugin.  The plugin is gone, so no such service can be read.
RemoveAll(c) ==
  /\ At(c, "removeAll")
  /\ LET names == {s.name : s \in {s \in rows : Readable(s) /\ s.plugin = request(c).plugin}}
     IN  /\ runnables' = Run({services[n] : n \in names}, FALSE)
         /\ services' = [n \in Names |-> IF n \in names THEN None ELSE services[n]]
  /\ Answer(c)
  /\ UNCHANGED <<database, disturbed, overlaps>>

------------------------------------------------------------------------------

\* A loop that has nothing left to wait for ends.
LoopEnds ==
  /\ \E i \in DOMAIN runnables : runnables[i].running /\ runnables' = Run({i}, FALSE)
  /\ UNCHANGED <<database, services, clients, disturbed, overlaps>>

\* The hub dies, and starts with the file and an empty map.
Restart ==
  /\ plugins' = saved.plugins /\ rows' = saved.rows /\ lastId' = saved.lastId
  /\ autoCommit' = FALSE
  /\ runnables' = <<>>
  /\ services' = [n \in Names |-> None]
  /\ clients' = [c \in Clients |-> Resting]
  /\ disturbed' = {} /\ overlaps' = 0
  /\ UNCHANGED saved

Serve(c) ==
  \/ Find(c)
  \/ FindPlugin(c) \/ Begin(c) \/ Insert(c) \/ ReadBack(c) \/ DeletePlugin(c)
  \/ Rollback(c) \/ Commit(c) \/ End(c)
  \/ Get(c) \/ Register(c) \/ Toggle(c) \/ PutBack(c)
  \/ Ask(c) \/ Configure(c) \/ Verify(c) \/ Save(c) \/ Update(c)
  \/ Delete(c) \/ StopRemoved(c) \/ Remove(c) \/ RemoveAll(c)

Next ==
  \/ \E c \in Clients : Receive(c) \/ Serve(c)
  \/ LoopEnds
  \/ Restart

Spec == Init /\ [][Next]_vars

------------------------------------------------------------------------------
(* What the registry owes the services.  More overlaps than each allows    *)
(* can break it, as the README tells.                                      *)

(***************************************************************************)
(* A runnable whose loop runs is in the map under the name of the service  *)
(* it was created for, whatever was renamed, deleted or created since:     *)
(* none is replaced there while it runs, even if one request overlapped.   *)
(***************************************************************************)
RunningIsInMap ==
  overlaps <= 1 => \A i \in DOMAIN runnables :
                     runnables[i].running => services[runnables[i].service.name] = i

(***************************************************************************)
(* Between requests, a runnable that the name of its own service leads to  *)
(* has no configuration, or the one in the row, whatever was verified,     *)
(* rejected or thrown, in a POST or a PUT: unless the service was renamed, *)
(* or the rollback of a failed addition took back what a request had been  *)
(* answered about its row.                                                 *)
(***************************************************************************)
ConfiguredAsStored ==
  overlaps = 0 /\ (\A c \in Clients : At(c, "idle")) =>
    \A s \in {s \in rows : s.id \notin disturbed /\ services[s.name] # None} :
      LET r == runnables[services[s.name]]
      IN  r.service.id = s.id => r.config \in {Null, s.config}

(***************************************************************************)
(* A request changes and deletes the row it has found or added and no      *)
(* other, although a runnable writes to the service it remembers: under    *)
(* the name that leads to a runnable of another service there is a row     *)
(* that keeps the name from it.  Other rows only ever go back to what the  *)
(* file has, when an addition fails and when the hub dies.                 *)
(***************************************************************************)
OwnRowOnly ==
  [][overlaps = 0 =>
       \/ \A s \in rows \ rows' :
            \E c \in Clients : service(c) # Null /\ service(c).id = s.id
       \/ rows' = saved.rows /\ (Restart \/ \E c \in Clients : Rollback(c))]_vars

(***************************************************************************)
(* Requests that overlap included, the map leads from a name to a runnable *)
(* that remembers this name, so that no runnable is found by two names,    *)
(* and what a request configures is stored under the name it asked for.    *)
(***************************************************************************)
FoundByItsName ==
  \A n \in Names : services[n] # None => runnables[services[n]].service.name = n
=============================================================================
