----------------------------- MODULE HubDatabase -----------------------------
(***************************************************************************)
(* The database of the hub: IotHubDatabaseSqliteJDBCImpl, used by the      *)
(* request handlers through IotHubDataAccess.  All requests share ONE JDBC *)
(* connection without any lock, so they share its transaction as well: a   *)
(* statement of one request may run between two statements of another.     *)
(*                                                                         *)
(* Three of the tables stand for all: service plugins, the services that   *)
(* refer to them by a foreign key, and feeds, whose addition takes several *)
(* statements.  A step of a request is one call on the connection.         *)
(***************************************************************************)
EXTENDS Integers, FiniteSets

CONSTANTS
  Clients,  \* the threads that execute requests
  Names,    \* the names that requests carry
  Configs,  \* the configurations that requests carry
  MaxId,    \* bound: the rows inserted into one database file
  MaxParts, \* bound: the further rows of a feed
  Null      \* null

ASSUME DatabaseAssumption ==
  /\ IsFiniteSet(Clients)
  /\ MaxId \in Nat
  /\ MaxParts \in Nat \ {0}
  /\ Null \notin Names \cup Configs

VARIABLES
  committed,    \* the tables in the file
  working,      \* the tables as the connection sees them
  autoCommit,   \* the connection's auto-commit mode
  foreignKeys,  \* whether the connection enforces foreign keys
  isOpen,       \* whether the hub is up and its database open
  pc,           \* where a client is
  request,      \* what its request is
  row,          \* the key of the row that its request works on
  failed,       \* whether its local result is null
  added,        \* history: the keys of the rows whose addition was answered
  updated       \* history: the rows as answered updates left them, if made in
                \* auto-commit mode

connection == <<committed, working, autoCommit, foreignKeys, isOpen>>
locals == <<request, row, failed>>
histories == <<added, updated>>
vars == <<connection, pc, locals, histories>>

Ids == 1..MaxId
Tables == {"plugins", "services", "feeds"}
Additions == {"addPlugin", "addService", "addFeed"}
Deletions == {"deletePlugin", "deleteService", "deleteFeed"}

\* ref is the foreign key of a service; missing is the number of the further
\* rows of a feed, its keywords, fields or feature, that are still to be inserted.
Row == [table : Tables, id : Ids, name : Names, config : Configs \cup {Null},
        ref : Ids \cup {0}, missing : 0..MaxParts]
Database == [rows : SUBSET Row, seq : 0..MaxId]

(***************************************************************************)
(* What a handler passes to IotHubDataAccess.  Plugins are deleted, and    *)
(* services attached to them, by an identifier that may not exist; a PUT   *)
(* may rename the service.                                                 *)
(***************************************************************************)
Request ==
  [op : {"addPlugin", "deleteService", "deleteFeed"}, name : Names]
    \cup [op : {"addFeed"}, name : Names, parts : 1..MaxParts]
    \cup [op : {"deletePlugin"}, plugin : Ids]
    \cup [op : {"addService"}, name : Names, plugin : Ids, config : Configs \cup {Null}]
    \cup [op : {"updateService"}, name : Names, newName : Names, config : Configs]

Answers == {"ok", "ko"}
Steps == {"begin", "find", "insert", "parts", "readBack", "delete", "update",
          "rollback", "commit", "end"}

TypeOK ==
  /\ committed \in Database
  /\ working \in Database
  /\ autoCommit \in BOOLEAN
  /\ foreignKeys \in BOOLEAN
  /\ isOpen \in BOOLEAN
  /\ pc \in [Clients -> Answers \cup Steps]
  /\ request \in [Clients -> Request \cup {Null}]
  /\ row \in [Clients -> 0..MaxId]
  /\ failed \in [Clients -> BOOLEAN]
  /\ added \in SUBSET Ids
  /\ updated \in SUBSET Row

Init ==
  /\ committed = [rows |-> {}, seq |-> 0]
  /\ working = committed
  /\ autoCommit = TRUE /\ foreignKeys = FALSE /\ isOpen = FALSE
  /\ pc = [c \in Clients |-> "ko"]
  /\ request = [c \in Clients |-> Null]
  /\ row = [c \in Clients |-> 0]
  /\ failed = [c \in Clients |-> FALSE]
  /\ added = {} /\ updated = {}

------------------------------------------------------------------------------
(* The connection, as sqlite-jdbc implements java.sql.Connection.          *)

\* A statement that changes the tables; alone, it commits.
Execute(rows, seq) ==
  /\ working' = [rows |-> rows, seq |-> seq]
  /\ committed' = IF autoCommit THEN working' ELSE committed

\* Leaving a transaction this way commits it.
SetAutoCommit(b) ==
  /\ autoCommit' = b
  /\ committed' = IF b THEN working ELSE committed

------------------------------------------------------------------------------
(* The hub comes and goes.                                                 *)

(***************************************************************************)
(* openDatabase() creates the tables of a new file, then or otherwise      *)
(* issues PRAGMA foreign_keys=ON.  Both go through executeUpdate, which    *)
(* turns auto-commit off and leaves it so; inside the transaction that     *)
(* this begins, SQLite ignores the pragma.                                 *)
(***************************************************************************)
Open ==
  /\ ~isOpen
  /\ isOpen' = TRUE
  /\ autoCommit' = FALSE
  /\ foreignKeys' = FALSE
  /\ UNCHANGED <<committed, working, pc, locals, histories>>

\* The process dies, or close() closes the connection under the requests that
\* are still running: either way the open transaction is lost.
GoDown ==
  /\ isOpen
  /\ isOpen' = FALSE
  /\ working' = committed
  /\ autoCommit' = TRUE
  /\ pc' = [c \in Clients |-> "ko"]
  /\ request' = [c \in Clients |-> Null]
  /\ UNCHANGED <<committed, foreignKeys, row, failed, histories>>

------------------------------------------------------------------------------
(* The steps of a request.                                                 *)

Op(c) == request[c].op
Goto(c, label) == pc' = [pc EXCEPT ![c] = label]

WithId(table, id) == {r \in working.rows : r.table = table /\ r.id = id}
WithName(table, name) == {r \in working.rows : r.table = table /\ r.name = name}

\* getService builds no object when the service's plugin is missing.
Readable(r) == r.table = "services" => WithId("plugins", r.ref) # {}

Adding == {c \in Clients : pc[c] \in {"begin", "find", "insert"} /\ Op(c) \in Additions}

Receive(c) ==
  /\ isOpen
  /\ pc[c] \in Answers
  /\ \E r \in Request :
       /\ r.op \in Additions => working.seq + Cardinality(Adding) < MaxId
       /\ request' = [request EXCEPT ![c] = r]
       /\ Goto(c, IF r.op \in {"addPlugin", "addFeed", "deletePlugin"}
                  THEN "begin" ELSE "find")
  /\ row' = [row EXCEPT ![c] = 0]
  /\ failed' = [failed EXCEPT ![c] = FALSE]
  /\ UNCHANGED <<connection, histories>>

\* Mutant: every statement of an addition commits.
BeginNothing(c) ==
  /\ pc[c] = "begin"
  /\ SetAutoCommit(TRUE)
  /\ Goto(c, IF Op(c) = "deletePlugin" THEN "find" ELSE "insert")
  /\ UNCHANGED <<working, foreignKeys, isOpen, locals, histories>>

Begin(c) ==
  /\ pc[c] = "begin"
  /\ SetAutoCommit(FALSE)
  /\ Goto(c, IF Op(c) = "deletePlugin" THEN "find" ELSE "insert")
  /\ UNCHANGED <<working, foreignKeys, isOpen, locals, histories>>

\* The row that the request is about; deletePlugin returns null at once if
\* there is none, and leaves auto-commit off.
Target(c) ==
  {r \in CASE Op(c) \in {"addService", "deletePlugin"} ->
                WithId("plugins", request[c].plugin)
           [] Op(c) \in {"updateService", "deleteService"} ->
                WithName("services", request[c].name)
           [] Op(c) = "deleteFeed" -> WithName("feeds", request[c].name) :
     Readable(r)}

Find(c) ==
  /\ pc[c] = "find"
  /\ IF Target(c) = {}
     THEN Goto(c, "ko") /\ UNCHANGED row
     ELSE /\ \E r \in Target(c) : row' = [row EXCEPT ![c] = r.id]
          /\ Goto(c, CASE Op(c) = "addService" -> "begin"
                       [] Op(c) = "updateService" -> "update"
                       [] OTHER -> "delete")
  /\ UNCHANGED <<connection, request, failed, histories>>

NewRow(c) ==
  LET r == request[c]
  IN  [table   |-> CASE r.op = "addPlugin" -> "plugins"
                     [] r.op = "addService" -> "services"
                     [] r.op = "addFeed" -> "feeds",
       id      |-> working.seq + 1,
       name    |-> r.name,
       config  |-> IF r.op = "addService" THEN r.config ELSE Null,
       ref     |-> IF r.op = "addService" THEN r.plugin ELSE 0,
       missing |-> IF r.op = "addFeed" THEN r.parts ELSE 0]

Violates(r) ==
  \/ WithName(r.table, r.name) \ WithId(r.table, r.id) # {}
  \/ foreignKeys /\ ~Readable(r)

\* A constraint that fails raises an SQLException.
Insert(c) ==
  /\ pc[c] = "insert"
  /\ IF Violates(NewRow(c))
     THEN /\ failed' = [failed EXCEPT ![c] = TRUE]
          /\ Goto(c, "rollback")
          /\ UNCHANGED <<committed, working, row>>
     ELSE /\ Execute(working.rows \cup {NewRow(c)}, working.seq + 1)
          /\ row' = [row EXCEPT ![c] = working.seq + 1]
          /\ Goto(c, IF Op(c) = "addFeed" THEN "parts" ELSE "readBack")
          /\ UNCHANGED failed
  /\ UNCHANGED <<autoCommit, foreignKeys, isOpen, request, histories>>

\* The first row of the feed's own that is missing is inserted.
WithPart(c) ==
  {IF r.id = row[c] /\ r.missing > 0 THEN [r EXCEPT !.missing = @ - 1] ELSE r :
     r \in working.rows}

(***************************************************************************)
(* The keywords, the fields and the feature of a feed, one by one.  Any of *)
(* them may violate a constraint: a keyword or a field that the request    *)
(* names twice is not UNIQUE.                                              *)
(***************************************************************************)
InsertPart(c) ==
  /\ pc[c] = "parts"
  /\ \/ /\ Execute(WithPart(c), working.seq)
        /\ Goto(c, IF \E r \in WithPart(c) : r.id = row[c] /\ r.missing > 0
                   THEN "parts" ELSE "readBack")
        /\ UNCHANGED failed
     \/ /\ failed' = [failed EXCEPT ![c] = TRUE]
        /\ Goto(c, "rollback")
        /\ UNCHANGED <<committed, working>>
  /\ UNCHANGED <<autoCommit, foreignKeys, isOpen, request, row, histories>>

\* A row as the request wants it.
Renewed(c, r) == [r EXCEPT !.name = request[c].newName, !.config = request[c].config]

Found(c) == \E r \in working.rows : r.id = row[c] /\ Readable(r)

ReadBack(c) ==
  /\ pc[c] = "readBack"
  /\ failed' = [failed EXCEPT ![c] = ~Found(c)]
  /\ Goto(c, IF Op(c) # "updateService" THEN "rollback"
             ELSE IF Found(c) THEN "ok" ELSE "ko")
  /\ updated' = IF Op(c) = "updateService" /\ autoCommit
                THEN updated \cup {Renewed(c, r) : r \in {r \in working.rows : r.id = row[c]}}
                ELSE updated
  /\ UNCHANGED <<connection, request, row, added>>

\* Mutant: the columns of the statement are swapped.
UpdateSwapped(c) ==
  /\ pc[c] = "update"
  /\ LET old == WithId("services", row[c])
         new == {[r EXCEPT !.name = request[c].config, !.config = request[c].newName] :
                   r \in old}
     IN  IF old = {} \/ \E r \in new : Violates(r)
         THEN Goto(c, "ko") /\ UNCHANGED <<committed, working>>
         ELSE /\ Execute((working.rows \ old) \cup new, working.seq)
              /\ Goto(c, "readBack")
  /\ UNCHANGED <<autoCommit, foreignKeys, isOpen, locals, histories>>

\* Mutant: only the object is updated.
UpdateNothing(c) ==
  /\ pc[c] = "update"
  /\ Goto(c, "readBack")
  /\ UNCHANGED <<connection, locals, histories>>

\* updateService: one statement, and no transaction of its own.
Update(c) ==
  /\ pc[c] = "update"
  /\ LET old == WithId("services", row[c])
         new == {Renewed(c, r) : r \in old}
     IN  IF old = {} \/ \E r \in new : Violates(r)
         THEN Goto(c, "ko") /\ UNCHANGED <<committed, working, updated>>
         ELSE /\ Execute((working.rows \ old) \cup new, working.seq)
              /\ updated' = {r \in updated : r.id # row[c]}
              /\ Goto(c, "readBack")
  /\ UNCHANGED <<autoCommit, foreignKeys, isOpen, locals, added>>

(***************************************************************************)
(* DELETE, by identifier except for a feed, and what it cascades to.       *)
(* deleteService answers with null exactly when it has deleted the row.    *)
(***************************************************************************)
Doomed(c) ==
  CASE Op(c) = "deletePlugin" ->
         LET plugin == WithId("plugins", row[c])
         IN  plugin \cup {r \in working.rows :
                            foreignKeys /\ plugin # {} /\ r.ref = row[c]}
    [] Op(c) = "deleteService" -> WithId("services", row[c])
    [] Op(c) = "deleteFeed" -> WithName("feeds", request[c].name)

Delete(c) ==
  /\ pc[c] = "delete"
  /\ Execute(working.rows \ Doomed(c), working.seq)
  /\ added' = added \ {r.id : r \in Doomed(c)}
  /\ updated' = {r \in updated : r.id \notin {d.id : d \in Doomed(c)}}
  /\ failed' = [failed EXCEPT ![c] = Op(c) = "deletePlugin" /\ Doomed(c) = {}]
  /\ Goto(c, CASE Op(c) = "deletePlugin" -> "rollback"
               [] Op(c) = "deleteService" -> IF Doomed(c) = {} THEN "ok" ELSE "ko"
               [] OTHER -> "ok")
  /\ UNCHANGED <<autoCommit, foreignKeys, isOpen, request, row>>

Answer(c) ==
  /\ Goto(c, IF failed[c] THEN "ko" ELSE "ok")
  /\ added' = IF failed[c] \/ Op(c) \notin Additions THEN added ELSE added \cup {row[c]}
  /\ UNCHANGED updated

\* rollback() and commit() throw when another request has turned auto-commit
\* on meanwhile: the rest of the block is skipped.
Rollback(c) ==
  /\ pc[c] = "rollback"
  /\ IF failed[c] /\ autoCommit
     THEN Answer(c) /\ UNCHANGED working
     ELSE /\ working' = IF failed[c] THEN committed ELSE working
          /\ Goto(c, "commit")
          /\ UNCHANGED histories
  /\ UNCHANGED <<committed, autoCommit, foreignKeys, isOpen, locals>>

\* Mutant: the transaction is ended by a rollback.
CommitNothing(c) ==
  /\ pc[c] = "commit"
  /\ IF autoCommit
     THEN Answer(c) /\ UNCHANGED working
     ELSE working' = committed /\ Goto(c, "end") /\ UNCHANGED histories
  /\ UNCHANGED <<committed, autoCommit, foreignKeys, isOpen, locals>>

Commit(c) ==
  /\ pc[c] = "commit"
  /\ IF autoCommit
     THEN Answer(c) /\ UNCHANGED committed
     ELSE committed' = working /\ Goto(c, "end") /\ UNCHANGED histories
  /\ UNCHANGED <<working, autoCommit, foreignKeys, isOpen, locals>>

End(c) ==
  /\ pc[c] = "end"
  /\ SetAutoCommit(TRUE)
  /\ Answer(c)
  /\ UNCHANGED <<working, foreignKeys, isOpen, locals>>

------------------------------------------------------------------------------

Serve(c) ==
  \/ Begin(c) \/ Find(c) \/ Insert(c) \/ InsertPart(c) \/ ReadBack(c)
  \/ Update(c) \/ Delete(c)
  \/ Rollback(c) \/ Commit(c) \/ End(c)

Next ==
  \/ Open
  \/ GoDown
  \/ \E c \in Clients : Receive(c) \/ Serve(c)

Spec == Init /\ [][Next]_vars

------------------------------------------------------------------------------
(* What the database owes the requests.                                    *)

(***************************************************************************)
(* What the hub has answered that it added is in the file, whatever        *)
(* request or crash follows, until a request deletes it.                   *)
(***************************************************************************)
AddedIsDurable == added \subseteq {r.id : r \in committed.rows}

(***************************************************************************)
(* A feed reaches the file with all its keywords, fields and its feature,  *)
(* or not at all, although one statement adds each and any of them may     *)
(* fail after others have been executed.                                   *)
(***************************************************************************)
FeedsAreWhole == \A r \in committed.rows : r.missing = 0

(***************************************************************************)
(* An update that is answered is in the file, whatever request or crash    *)
(* follows, until a request changes or deletes the row: provided that the  *)
(* connection was in auto-commit mode, since updateService commits nothing *)
(* itself.                                                                 *)
(***************************************************************************)
UpdatedIsDurable == updated \subseteq committed.rows
=============================================================================
