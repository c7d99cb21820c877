-------------------------- MODULE HubDatabaseProofs --------------------------
(***************************************************************************)
(* Theorems about module HubDatabase, for any number of names,             *)
(* configurations and rows.  Types are kept however the requests overlap.  *)
(* The rest holds when they come one at a time: when they overlap, the     *)
(* rollback of one undoes the insertions of others.                        *)
(***************************************************************************)
EXTENDS HubDatabase, FiniteSetTheorems, TLAPS

\* Requests one at a time.
Alone == \A c, d \in Clients : c = d

Keys(rows) == {r.id : r \in rows}

(***************************************************************************)
(* What a request is about where it is.                                    *)
(***************************************************************************)
Suits(label, r) ==
  /\ label \in Steps => r \in Request
  /\ label \in {"begin", "rollback", "commit", "end"} => r.op \in Additions \cup {"deletePlugin"}
  /\ label = "find" => r.op \in Deletions \cup {"addService", "updateService"}
  /\ label = "insert" => r.op \in Additions
  /\ label = "parts" => r.op = "addFeed"
  /\ label = "readBack" => r.op \in Additions \cup {"updateService"}
  /\ label = "update" => r.op = "updateService"
  /\ label = "delete" => r.op \in Deletions

Requested == \A c \in Clients : Suits(pc[c], request[c])

\* The keys that additions under way may still take are within the bound.  (A
\* rollback takes keys back, but none of those that are in the file.)
Owed ==
  /\ committed.seq <= working.seq
  /\ working.seq + Cardinality(Adding) <= MaxId

\* What is answered as added has a key.
Inserted(label, r, key, isFailed) ==
  label \in {"rollback", "commit", "end"} /\ r.op \in Additions /\ ~isFailed => key \in Ids

TypedInv ==
  /\ TypeOK /\ Requested /\ Owed
  /\ \A c \in Clients : Inserted(pc[c], request[c], row[c], failed[c])

\* Outside a transaction the connection sees the file.
Transactional ==
  /\ autoCommit => working = committed
  /\ \A c \in Clients : pc[c] \in {"insert", "parts"} => ~autoCommit

\* AUTOINCREMENT: no key is given twice.
Keyed(db) ==
  /\ \A r \in db.rows : r.id <= db.seq
  /\ \A r, s \in db.rows : r.id = s.id => r = s

\* Only the row that a request is adding parts to, or has failed to, is not whole;
\* it is not in the file.
Whole ==
  /\ FeedsAreWhole
  /\ \A r \in working.rows :
       \/ r.missing = 0
       \/ \E c \in Clients :
            /\ pc[c] = "parts" \/ (pc[c] = "rollback" /\ failed[c])
            /\ r.id = row[c]

\* What has been answered, or will be unless it fails, is in the tables too.
Kept ==
  /\ AddedIsDurable
  /\ added \subseteq Keys(working.rows)
  /\ \A c \in Clients :
       pc[c] \in {"rollback", "commit", "end"} /\ ~failed[c] /\ Op(c) \in Additions
         => row[c] \in Keys(working.rows)

\* What has been updated is in the tables too, as the request wants it.
Renewals ==
  /\ UpdatedIsDurable
  /\ updated \subseteq working.rows
  /\ \A c \in Clients : pc[c] = "readBack" /\ Op(c) = "updateService" =>
       \A r \in working.rows : r.id = row[c] => Renewed(c, r) = r

Sound == Transactional /\ Keyed(committed) /\ Keyed(working)
Safe == Sound /\ Whole /\ Kept /\ Renewals
IInv == TypedInv /\ Safe

------------------------------------------------------------------------------
(* Types, however many requests overlap.                                   *)

LEMMA ExecuteTypes ==
  ASSUME TypeOK, NEW rows \in SUBSET Row, NEW seq \in 0..MaxId, Execute(rows, seq)
  PROVE  /\ working' \in Database /\ committed' \in Database
         /\ working'.rows = rows /\ working'.seq = seq
         /\ committed' = IF autoCommit THEN working' ELSE committed
BY DEF Execute, TypeOK, Database

LEMMA NewRowTypes ==
  ASSUME NEW c \in Clients, request[c] \in Request, Op(c) \in Additions, working.seq + 1 \in Ids
  PROVE  NewRow(c) \in Row
<1>1. /\ request[c].name \in Names
      /\ Op(c) = "addService" =>
           request[c].config \in Configs \cup {Null} /\ request[c].plugin \in Ids
      /\ Op(c) = "addFeed" => request[c].parts \in 0..MaxParts
  BY DatabaseAssumption DEF Op, Additions, Request
<1>2. Null \in Configs \cup {Null} /\ 0 \in Ids \cup {0} /\ 0 \in 0..MaxParts
  BY DatabaseAssumption
<1>3. CASE Op(c) = "addPlugin"
  BY <1>1, <1>2, <1>3 DEF NewRow, Row, Op, Tables
<1>4. CASE Op(c) = "addService"
  BY <1>1, <1>2, <1>4 DEF NewRow, Row, Op, Tables
<1>5. CASE Op(c) = "addFeed"
  BY <1>1, <1>2, <1>5 DEF NewRow, Row, Op, Tables
<1> QED
  BY <1>3, <1>4, <1>5 DEF Additions

LEMMA AddingIsFinite ==
  /\ IsFiniteSet(Adding) /\ Cardinality(Adding) \in Nat
  /\ IsFiniteSet(Adding') /\ Cardinality(Adding') \in Nat
<1>1. Adding \subseteq Clients /\ Adding' \subseteq Clients
  BY DEF Adding
<1> QED
  BY <1>1, FS_Subset, FS_CardinalityType, DatabaseAssumption

\* What a step that takes no key has to respect.
LEMMA StepTypes ==
  ASSUME TypedInv, NEW c \in Clients, NEW label \in Answers \cup Steps, Goto(c, label),
         Suits(label, request[c]),
         label \in {"begin", "find", "insert"} => pc[c] \in {"begin", "find", "insert"},
         UNCHANGED <<isOpen, request, foreignKeys>>, autoCommit' \in BOOLEAN,
         working' \in Database, committed' \in Database,
         committed'.seq <= working'.seq, working'.seq <= working.seq,
         row' \in [Clients -> 0..MaxId], failed' \in [Clients -> BOOLEAN],
         \A d \in Clients : d # c => row'[d] = row[d] /\ failed'[d] = failed[d],
         Inserted(label, request[c], row'[c], failed'[c]),
         added' \in SUBSET Ids, updated' \in SUBSET Row
  PROVE  TypedInv'
<1>1. TypeOK /\ Requested /\ Owed
  BY DEF TypedInv
<1>2. /\ pc' \in [Clients -> Answers \cup Steps] /\ pc'[c] = label
      /\ \A d \in Clients : d # c => pc'[d] = pc[d]
  BY <1>1 DEF TypeOK, Goto
<1>3. TypeOK'
  BY <1>1, <1>2 DEF TypeOK
<1>4. Requested'
  <2>1. ASSUME NEW d \in Clients PROVE Suits(pc'[d], request'[d])
    <3>1. CASE d = c
      BY <1>2, <3>1
    <3>2. CASE d # c
      BY <1>1, <1>2, <3>2 DEF Requested, Suits, Op
    <3> QED
      BY <3>1, <3>2
  <2> QED
    BY <2>1 DEF Requested, Suits, Op
<1>5. Adding' \subseteq Adding
  BY <1>2 DEF Adding, Op
<1>6. Cardinality(Adding') <= Cardinality(Adding)
  BY <1>5, AddingIsFinite, FS_Subset
<1>7. working.seq \in Nat /\ working'.seq \in Nat /\ MaxId \in Nat
  BY <1>1, DatabaseAssumption DEF TypeOK, Database
<1>8. Owed'
  BY <1>1, <1>6, <1>7, AddingIsFinite DEF Owed
<1>9. \A d \in Clients : Inserted(pc'[d], request'[d], row'[d], failed'[d])
  BY <1>2 DEF TypedInv
<1> QED
  BY <1>3, <1>4, <1>8, <1>9 DEF TypedInv

LEMMA ReceiveTypes ==
  ASSUME TypedInv, NEW c \in Clients, Receive(c)
  PROVE  TypedInv'
<1>1. PICK r \in Request :
        /\ r.op \in Additions => working.seq + Cardinality(Adding) < MaxId
        /\ request' = [request EXCEPT ![c] = r]
        /\ Goto(c, IF r.op \in {"addPlugin", "addFeed", "deletePlugin"} THEN "begin" ELSE "find")
  BY DEF Receive
<1> DEFINE label == IF r.op \in {"addPlugin", "addFeed", "deletePlugin"} THEN "begin" ELSE "find"
<1>2. /\ TypeOK /\ Requested /\ Owed /\ pc[c] \in Answers
      /\ row' = [row EXCEPT ![c] = 0] /\ failed' = [failed EXCEPT ![c] = FALSE]
      /\ UNCHANGED <<committed, working, autoCommit, foreignKeys, isOpen, added, updated>>
  BY DEF TypedInv, Receive, connection, histories
<1>3. label \in {"begin", "find"} /\ Suits(label, r) /\ Goto(c, label)
  <2>1. r.op \in Additions \cup Deletions \cup {"updateService"}
    BY DEF Request, Additions, Deletions
  <2> QED
    BY <1>1, <2>1 DEF Suits, Additions, Deletions
<1> HIDE DEF label
<1>4. /\ pc' \in [Clients -> Answers \cup Steps] /\ pc'[c] = label /\ request'[c] = r
      /\ \A d \in Clients : d # c => pc'[d] = pc[d] /\ request'[d] = request[d]
  BY <1>1, <1>2, <1>3 DEF TypeOK, Goto, Steps
<1>5. TypeOK'
  <2>1. request' \in [Clients -> Request \cup {Null}]
    BY <1>1, <1>2 DEF TypeOK
  <2>2. row' \in [Clients -> 0..MaxId] /\ failed' \in [Clients -> BOOLEAN]
    BY <1>2, DatabaseAssumption DEF TypeOK
  <2> QED
    BY <1>2, <1>4, <2>1, <2>2 DEF TypeOK
<1>6. Requested'
  <2>1. ASSUME NEW d \in Clients PROVE Suits(pc'[d], request'[d])
    <3>1. CASE d = c
      BY <1>3, <1>4, <3>1
    <3>2. CASE d # c
      BY <1>2, <1>4, <3>2 DEF Requested, Suits, Op
    <3> QED
      BY <3>1, <3>2
  <2> QED
    BY <2>1 DEF Requested, Suits, Op
<1>7. Owed'
  <2>1. working.seq \in Nat /\ MaxId \in Nat
    BY <1>2, DatabaseAssumption DEF TypeOK, Database
  <2>2. CASE r.op \in Additions
    <3>1. Adding' \subseteq Adding \cup {c}
      BY <1>4 DEF Adding, Op
    <3>2. c \notin Adding
      BY <1>2 DEF Adding, Answers
    <3>3. IsFiniteSet(Adding \cup {c}) /\ Cardinality(Adding \cup {c}) = Cardinality(Adding) + 1
      BY <3>2, AddingIsFinite, FS_AddElement
    <3>4. Cardinality(Adding') <= Cardinality(Adding) + 1
      BY <3>1, <3>3, FS_Subset
    <3> QED
      BY <1>1, <1>2, <2>1, <2>2, <3>4, AddingIsFinite DEF Owed
  <2>3. CASE r.op \notin Additions
    <3>1. Adding' \subseteq Adding
      BY <1>4, <2>3 DEF Adding, Op
    <3>2. Cardinality(Adding') <= Cardinality(Adding)
      BY <3>1, AddingIsFinite, FS_Subset
    <3> QED
      BY <1>2, <2>1, <3>2, AddingIsFinite DEF Owed
  <2> QED
    BY <2>2, <2>3
<1>8. ASSUME NEW d \in Clients PROVE Inserted(pc'[d], request'[d], row'[d], failed'[d])
  <2>1. CASE d = c
    BY <1>3, <1>4, <2>1 DEF Inserted
  <2>2. CASE d # c
    <3>1. row'[d] = row[d] /\ failed'[d] = failed[d]
      BY <1>2, <2>2 DEF TypeOK
    <3> QED
      BY <1>4, <2>2, <3>1 DEF TypedInv
  <2> QED
    BY <2>1, <2>2
<1> QED
  BY <1>5, <1>6, <1>7, <1>8 DEF TypedInv

LEMMA InsertTypes ==
  ASSUME TypedInv, NEW c \in Clients, Insert(c)
  PROVE  TypedInv'
<1>1. /\ TypeOK /\ Requested /\ Owed /\ pc[c] = "insert" /\ request[c] \in Request
      /\ Op(c) \in Additions
      /\ UNCHANGED <<autoCommit, foreignKeys, isOpen, request, added, updated>>
  BY DEF TypedInv, Insert, Requested, Suits, Op, histories, Steps
<1>2. working.seq \in Nat /\ MaxId \in Nat /\ working.rows \in SUBSET Row
  BY <1>1, DatabaseAssumption DEF TypeOK, Database
<1>3. CASE Violates(NewRow(c))
  <2>1. /\ failed' = [failed EXCEPT ![c] = TRUE] /\ Goto(c, "rollback")
        /\ UNCHANGED <<committed, working, row>>
    BY <1>3 DEF Insert
  <2>2. Suits("rollback", request[c])
    BY <1>1 DEF Suits, Op
  <2>3. /\ failed' \in [Clients -> BOOLEAN] /\ working' \in Database /\ committed' \in Database
        /\ working'.seq = working.seq /\ committed'.seq <= working'.seq
        /\ row' \in [Clients -> 0..MaxId] /\ autoCommit' \in BOOLEAN
        /\ added' \in SUBSET Ids /\ updated' \in SUBSET Row
    BY <1>1, <2>1 DEF TypeOK, Owed
  <2>4. failed'[c] /\ \A d \in Clients : d # c => row'[d] = row[d] /\ failed'[d] = failed[d]
    BY <1>1, <2>1 DEF TypeOK
  <2>5. Inserted("rollback", request[c], row'[c], failed'[c])
    BY <2>4 DEF Inserted
  <2>6. "rollback" \in Answers \cup Steps /\ working'.seq <= working.seq
    BY <1>2, <2>3 DEF Steps
  <2> QED
    BY <1>1, <2>1, <2>2, <2>3, <2>4, <2>5, <2>6, StepTypes
<1>4. CASE ~Violates(NewRow(c))
  <2> DEFINE new == NewRow(c)
             key == working.seq + 1
             label == IF Op(c) = "addFeed" THEN "parts" ELSE "readBack"
  <2>1. /\ Execute(working.rows \cup {new}, key) /\ UNCHANGED failed
        /\ row' = [row EXCEPT ![c] = key] /\ Goto(c, label)
    BY <1>4 DEF Insert
  <2>2. label \in {"parts", "readBack"} /\ Suits(label, request[c])
    BY <1>1 DEF Suits, Op
  <2>3. Cardinality(Adding) \in Nat /\ IsFiniteSet(Adding) /\ c \in Adding
    BY <1>1, AddingIsFinite DEF Adding
  <2>4. Cardinality(Adding \ {c}) = Cardinality(Adding) - 1 /\ IsFiniteSet(Adding \ {c})
    BY <2>3, FS_RemoveElement
  <2>5. Cardinality(Adding \ {c}) \in Nat
    BY <2>4, FS_CardinalityType
  <2>6. key \in Ids /\ key \in 0..MaxId
    BY <1>1, <1>2, <2>3, <2>4, <2>5 DEF Owed, Ids
  <2>7. new \in Row
    BY <1>1, <2>6, NewRowTypes
  <2> HIDE DEF new, key, label
  <2>8. /\ working' \in Database /\ committed' \in Database
        /\ working'.seq = key /\ committed' = IF autoCommit THEN working' ELSE committed
    BY <1>1, <1>2, <2>1, <2>6, <2>7, ExecuteTypes
  <2>9. /\ pc' \in [Clients -> Answers \cup Steps] /\ pc'[c] = label
        /\ \A d \in Clients : d # c => pc'[d] = pc[d]
    BY <1>1, <2>1, <2>2 DEF TypeOK, Goto, Steps
  <2>10. row' \in [Clients -> 0..MaxId]
    BY <1>1, <2>1, <2>6 DEF TypeOK
  <2>11. TypeOK'
    BY <1>1, <2>1, <2>8, <2>9, <2>10 DEF TypeOK
  <2>12. Requested'
    <3>1. ASSUME NEW d \in Clients PROVE Suits(pc'[d], request'[d])
      <4>1. CASE d = c
        BY <1>1, <2>2, <2>9, <4>1
      <4>2. CASE d # c
        BY <1>1, <2>9, <4>2 DEF Requested, Suits, Op
      <4> QED
        BY <4>1, <4>2
    <3> QED
      BY <3>1 DEF Requested, Suits, Op
  <2>13. Adding' \subseteq Adding \ {c}
    BY <1>1, <2>2, <2>9 DEF Adding, Op
  <2>14. Cardinality(Adding') <= Cardinality(Adding) - 1
    BY <2>4, <2>13, FS_Subset
  <2>15. key = working.seq + 1
    BY DEF key
  <2>16. committed'.seq <= key
    BY <1>1, <1>2, <2>8, <2>15 DEF Owed, TypeOK, Database
  <2>17. Owed'
    BY <1>1, <1>2, <2>3, <2>8, <2>14, <2>15, <2>16, AddingIsFinite DEF Owed
  <2>18. ASSUME NEW d \in Clients PROVE Inserted(pc'[d], request'[d], row'[d], failed'[d])
    <3>1. CASE d = c
      BY <2>2, <2>9, <3>1 DEF Inserted
    <3>2. CASE d # c
      <4>1. row'[d] = row[d] /\ failed'[d] = failed[d]
        BY <1>1, <2>1, <3>2 DEF TypeOK
      <4> QED
        BY <1>1, <2>9, <3>2, <4>1 DEF TypedInv
    <3> QED
      BY <3>1, <3>2
  <2> QED
    BY <2>11, <2>12, <2>17, <2>18 DEF TypedInv
<1> QED
  BY <1>3, <1>4

\* The other statements keep the sequence; what they write are rows.
LEMMA StatementTypes ==
  ASSUME TypedInv, NEW c \in Clients, NEW rows \in SUBSET Row, Execute(rows, working.seq),
         NEW label \in Answers \cup Steps, Goto(c, label), Suits(label, request[c]),
         label \notin {"begin", "find", "insert"},
         UNCHANGED <<autoCommit, foreignKeys, isOpen, request, row>>,
         failed' \in [Clients -> BOOLEAN], \A d \in Clients : d # c => failed'[d] = failed[d],
         Inserted(label, request[c], row[c], failed'[c]),
         added' \in SUBSET Ids, updated' \in SUBSET Row
  PROVE  TypedInv'
<1>1. TypeOK /\ Owed
  BY DEF TypedInv
<1>2. working.seq \in 0..MaxId /\ working.seq \in Nat
  BY <1>1, DatabaseAssumption DEF TypeOK, Database
<1>3. /\ working' \in Database /\ committed' \in Database /\ working'.seq = working.seq
      /\ committed' = IF autoCommit THEN working' ELSE committed
  BY <1>1, <1>2, ExecuteTypes
<1>4. committed'.seq <= working'.seq
  BY <1>1, <1>2, <1>3 DEF Owed
<1> QED
  BY <1>1, <1>2, <1>3, <1>4, StepTypes DEF TypeOK

LEMMA WithPartTypes ==
  ASSUME TypeOK, NEW c \in Clients
  PROVE  /\ WithPart(c) \in SUBSET Row
         /\ \A s \in WithPart(c) : \E r \in working.rows : s.id = r.id /\ (r.missing = 0 => s = r)
         /\ \A r \in working.rows : \E s \in WithPart(c) : s.id = r.id /\ (r.missing = 0 => s = r)
<1> DEFINE More(r) == IF r.id = row[c] /\ r.missing > 0 THEN [r EXCEPT !.missing = @ - 1] ELSE r
<1>1. \A s : s \in WithPart(c) <=> \E r \in working.rows : s = More(r)
  BY DEF WithPart
<1>2. ASSUME NEW r \in working.rows
      PROVE  More(r) \in Row /\ More(r).id = r.id /\ (r.missing = 0 => More(r) = r)
  <2>1. r \in Row /\ r.missing \in 0..MaxParts /\ MaxParts \in Nat
    BY DatabaseAssumption DEF TypeOK, Database, Row
  <2> QED
    BY <2>1 DEF Row
<1> HIDE DEF More
<1> QED
  BY <1>1, <1>2

LEMMA InsertPartTypes ==
  ASSUME TypedInv, NEW c \in Clients, InsertPart(c)
  PROVE  TypedInv'
<1>1. /\ TypeOK /\ Requested /\ pc[c] = "parts" /\ request[c] \in Request /\ Op(c) = "addFeed"
      /\ UNCHANGED <<autoCommit, foreignKeys, isOpen, request, row, added, updated>>
  BY DEF TypedInv, InsertPart, Requested, Suits, Op, Steps, histories
<1>2. CASE /\ failed' = [failed EXCEPT ![c] = TRUE]
           /\ Goto(c, "rollback")
           /\ UNCHANGED <<committed, working>>
  <2>1. Suits("rollback", request[c])
    BY <1>1 DEF Suits, Op, Additions
  <2>2. /\ failed' \in [Clients -> BOOLEAN] /\ failed'[c]
        /\ \A d \in Clients : d # c => row'[d] = row[d] /\ failed'[d] = failed[d]
    BY <1>1, <1>2 DEF TypeOK
  <2>3. Inserted("rollback", request[c], row'[c], failed'[c])
    BY <2>2 DEF Inserted
  <2>4. /\ working' \in Database /\ committed' \in Database
        /\ committed'.seq <= working'.seq /\ working'.seq <= working.seq
        /\ row' \in [Clients -> 0..MaxId] /\ autoCommit' \in BOOLEAN
        /\ added' \in SUBSET Ids /\ updated' \in SUBSET Row
    BY <1>1, <1>2, DatabaseAssumption DEF TypedInv, TypeOK, Owed, Database
  <2> QED
    BY <1>1, <1>2, <2>1, <2>2, <2>3, <2>4, StepTypes DEF Steps
<1>3. CASE /\ Execute(WithPart(c), working.seq)
           /\ Goto(c, IF \E r \in WithPart(c) : r.id = row[c] /\ r.missing > 0
                      THEN "parts" ELSE "readBack")
           /\ UNCHANGED failed
  <2> DEFINE label == IF \E r \in WithPart(c) : r.id = row[c] /\ r.missing > 0
                      THEN "parts" ELSE "readBack"
  <2>1. label \in {"parts", "readBack"} /\ Suits(label, request[c])
    BY <1>1 DEF Suits, Op, Additions
  <2>2. WithPart(c) \in SUBSET Row
    BY <1>1, WithPartTypes
  <2> HIDE DEF label
  <2> QED
    BY <1>1, <1>3, <2>1, <2>2, StatementTypes DEF TypeOK, Steps, Inserted, label
<1> QED
  BY <1>2, <1>3 DEF InsertPart

LEMMA UpdateTypes ==
  ASSUME TypedInv, NEW c \in Clients, Update(c)
  PROVE  TypedInv'
<1> DEFINE old == WithId("services", row[c])
           new == {Renewed(c, r) : r \in old}
           rows == (working.rows \ old) \cup new
<1>1. /\ TypeOK /\ Requested /\ Owed /\ pc[c] = "update" /\ request[c] \in Request
      /\ Op(c) = "updateService"
      /\ UNCHANGED <<autoCommit, foreignKeys, isOpen, request, row, failed, added>>
  BY DEF TypedInv, Update, Requested, Suits, Op, locals, Steps
<1>2. working.rows \in SUBSET Row /\ working.seq \in Nat
  BY <1>1, DatabaseAssumption DEF TypeOK, Database
<1>3. CASE old = {} \/ \E r \in new : Violates(r)
  <2>1. Goto(c, "ko") /\ UNCHANGED <<committed, working, updated>>
    BY <1>3 DEF Update
  <2>2. Suits("ko", request[c])
    BY DEF Suits, Steps
  <2> QED
    BY <1>1, <1>2, <2>1, <2>2, StepTypes DEF TypeOK, Owed, Answers, Inserted
<1>4. CASE ~(old = {} \/ \E r \in new : Violates(r))
  <2>1. /\ Execute(rows, working.seq) /\ Goto(c, "readBack")
        /\ updated' = {r \in updated : r.id # row[c]}
    BY <1>4 DEF Update
  <2>2. request[c].newName \in Names /\ request[c].config \in Configs
    BY <1>1 DEF Op, Request
  <2>3. rows \in SUBSET Row
    BY <1>2, <2>2 DEF Renewed, WithId, Row
  <2>4. Suits("readBack", request[c])
    BY <1>1 DEF Suits, Op
  <2> HIDE DEF rows
  <2> QED
    BY <1>1, <2>1, <2>3, <2>4, StatementTypes DEF TypeOK, Steps, Inserted
<1> QED
  BY <1>3, <1>4

LEMMA DeleteTypes ==
  ASSUME TypedInv, NEW c \in Clients, Delete(c)
  PROVE  TypedInv'
<1> DEFINE label == CASE Op(c) = "deletePlugin" -> "rollback"
                      [] Op(c) = "deleteService" -> IF Doomed(c) = {} THEN "ok" ELSE "ko"
                      [] OTHER -> "ok"
           rows == working.rows \ Doomed(c)
<1>1. /\ TypeOK /\ Requested /\ pc[c] = "delete" /\ Goto(c, label)
      /\ Execute(rows, working.seq)
      /\ added' \subseteq added /\ updated' \subseteq updated
      /\ failed' = [failed EXCEPT ![c] = Op(c) = "deletePlugin" /\ Doomed(c) = {}]
      /\ UNCHANGED <<autoCommit, foreignKeys, isOpen, request, row>>
  BY DEF TypedInv, Delete
<1>2. request[c] \in Request
  BY <1>1 DEF Requested, Suits, Op, Steps
<1>3. label \in {"rollback", "ok", "ko"} /\ Suits(label, request[c])
  BY <1>2 DEF Suits, Op, Steps
<1>4. /\ rows \in SUBSET Row /\ failed' \in [Clients -> BOOLEAN]
      /\ \A d \in Clients : d # c => failed'[d] = failed[d]
  BY <1>1 DEF TypeOK, Database
<1>5. Inserted(label, request[c], row[c], failed'[c])
  BY DEF Inserted, Op, Additions
<1> HIDE DEF label, rows
<1> QED
  BY <1>1, <1>3, <1>4, <1>5, StatementTypes DEF TypeOK, Steps, Answers

\* A query, or a call that begins a transaction, changes no table.
LEMMA BeginTypes ==
  ASSUME TypedInv, NEW c \in Clients, Begin(c)
  PROVE  TypedInv'
<1> DEFINE label == IF Op(c) = "deletePlugin" THEN "find" ELSE "insert"
<1>1. /\ TypeOK /\ Requested /\ Owed /\ pc[c] = "begin" /\ Goto(c, label)
      /\ autoCommit' = FALSE /\ committed' = committed
      /\ UNCHANGED <<working, foreignKeys, isOpen, request, row, failed, added, updated>>
  BY DEF TypedInv, Begin, SetAutoCommit, locals, histories
<1>2. label \in {"find", "insert"} /\ Suits(label, request[c])
  BY <1>1 DEF Requested, Suits, Op, Steps, Deletions
<1>3. working.seq \in Nat
  BY <1>1, DatabaseAssumption DEF TypeOK, Database
<1>4. autoCommit' \in BOOLEAN
  BY <1>1
<1> HIDE DEF label
<1> QED
  BY <1>1, <1>2, <1>3, <1>4, StepTypes DEF TypeOK, Owed, Steps, Inserted

LEMMA FindTypes ==
  ASSUME TypedInv, NEW c \in Clients, Find(c)
  PROVE  TypedInv'
<1>1. /\ TypeOK /\ Requested /\ Owed /\ pc[c] = "find"
      /\ UNCHANGED <<committed, working, autoCommit, foreignKeys, isOpen>>
      /\ UNCHANGED <<request, failed, added, updated>>
  BY DEF TypedInv, Find, connection, histories
<1>2. working.seq \in Nat
  BY <1>1, DatabaseAssumption DEF TypeOK, Database
<1>3. CASE Target(c) = {}
  <2>1. Goto(c, "ko") /\ UNCHANGED row
    BY <1>3 DEF Find
  <2>2. Suits("ko", request[c])
    BY DEF Suits, Steps
  <2> QED
    BY <1>1, <1>2, <2>1, <2>2, StepTypes DEF TypeOK, Owed, Answers, Inserted
<1>4. CASE Target(c) # {}
  <2> DEFINE label == CASE Op(c) = "addService" -> "begin"
                        [] Op(c) = "updateService" -> "update"
                        [] OTHER -> "delete"
  <2>1. Goto(c, label) /\ \E r \in Target(c) : row' = [row EXCEPT ![c] = r.id]
    BY <1>4 DEF Find
  <2>2. request[c] \in Request /\ Op(c) \in Deletions \cup {"addService", "updateService"}
    BY <1>1 DEF Requested, Suits, Op, Steps
  <2>3. Target(c) \subseteq working.rows
    BY <2>2 DEF Target, WithId, WithName, Deletions
  <2>4. /\ row' \in [Clients -> 0..MaxId]
        /\ \A d \in Clients : d # c => row'[d] = row[d]
    BY <1>1, <2>1, <2>3 DEF TypeOK, Database, Row, Ids
  <2>5. label \in {"begin", "update", "delete"} /\ Suits(label, request[c])
    BY <2>2 DEF Suits, Op, Additions, Steps
  <2> HIDE DEF label
  <2> QED
    BY <1>1, <1>2, <2>1, <2>4, <2>5, StepTypes DEF TypeOK, Owed, Steps, Inserted
<1> QED
  BY <1>3, <1>4

LEMMA ReadBackTypes ==
  ASSUME TypedInv, NEW c \in Clients, ReadBack(c)
  PROVE  TypedInv'
<1> DEFINE label == IF Op(c) # "updateService" THEN "rollback"
                    ELSE IF Found(c) THEN "ok" ELSE "ko"
           read == {r \in working.rows : r.id = row[c]}
<1>1. /\ TypeOK /\ Requested /\ Owed /\ pc[c] = "readBack" /\ Goto(c, label)
      /\ failed' = [failed EXCEPT ![c] = ~Found(c)]
      /\ UNCHANGED <<committed, working, autoCommit, foreignKeys, isOpen, request, row, added>>
  BY DEF TypedInv, ReadBack, connection
<1>2. request[c] \in Request /\ Op(c) \in Additions \cup {"updateService"}
  BY <1>1 DEF Requested, Suits, Op, Steps
<1>3. label \in {"rollback", "ok", "ko"} /\ Suits(label, request[c])
  BY <1>2 DEF Suits, Op, Steps
<1>4. working.rows \in SUBSET Row /\ working.seq \in Nat
  BY <1>1, DatabaseAssumption DEF TypeOK, Database
<1>5. Found(c) \in BOOLEAN /\ (Found(c) => row[c] \in Ids)
  BY <1>4 DEF Found, Row
<1>6. /\ failed' \in [Clients -> BOOLEAN] /\ failed'[c] = ~Found(c)
      /\ \A d \in Clients : d # c => failed'[d] = failed[d]
  BY <1>1, <1>5 DEF TypeOK
<1>7. updated' \in SUBSET Row
  <2>1. CASE Op(c) = "updateService" /\ autoCommit
    <3>1. request[c].newName \in Names /\ request[c].config \in Configs
      BY <1>2, <2>1 DEF Op, Request
    <3>2. \A r \in read : Renewed(c, r) \in Row
      BY <1>4, <3>1 DEF Renewed, Row
    <3>3. updated' = updated \cup {Renewed(c, r) : r \in read}
      BY <2>1 DEF ReadBack
    <3> QED
      BY <1>1, <3>2, <3>3 DEF TypeOK
  <2>2. CASE ~(Op(c) = "updateService" /\ autoCommit)
    BY <1>1, <2>2 DEF ReadBack, TypeOK
  <2> QED
    BY <2>1, <2>2
<1>8. Inserted(label, request[c], row'[c], failed'[c])
  BY <1>1, <1>5, <1>6 DEF Inserted
<1> HIDE DEF label, read
<1> QED
  BY <1>1, <1>3, <1>4, <1>6, <1>7, <1>8, StepTypes DEF TypeOK, Owed, Steps, Answers

(***************************************************************************)
(* The answer, whatever the last call on the connection does to it.        *)
(***************************************************************************)
LEMMA AnswerTypes ==
  ASSUME TypedInv, NEW c \in Clients, pc[c] \in {"rollback", "commit", "end"}, Answer(c),
         UNCHANGED <<working, foreignKeys, isOpen, request, row, failed>>,
         autoCommit' \in BOOLEAN, committed' \in {committed, working}
  PROVE  TypedInv'
<1>1. TypeOK /\ Owed /\ Inserted(pc[c], request[c], row[c], failed[c])
  BY DEF TypedInv
<1>2. PICK label \in Answers : Goto(c, label)
  BY DEF Answer, Answers
<1>3. Suits(label, request[c]) /\ Inserted(label, request[c], row[c], failed[c])
  BY DEF Suits, Inserted, Steps, Answers
<1>4. added' \in SUBSET Ids /\ updated' = updated
  BY <1>1 DEF Answer, Inserted, Op, TypeOK
<1>5. working.seq \in Nat
  BY <1>1, DatabaseAssumption DEF TypeOK, Database
<1>6. committed' \in Database /\ committed'.seq <= working'.seq
  BY <1>1, <1>5 DEF TypeOK, Owed
<1> QED
  BY <1>1, <1>2, <1>3, <1>4, <1>5, <1>6, StepTypes DEF TypeOK, Answers

LEMMA RollbackTypes ==
  ASSUME TypedInv, NEW c \in Clients, Rollback(c)
  PROVE  TypedInv'
<1>1. /\ TypeOK /\ Requested /\ Owed /\ pc[c] = "rollback"
      /\ Inserted(pc[c], request[c], row[c], failed[c])
      /\ UNCHANGED <<committed, autoCommit, foreignKeys, isOpen, request, row, failed>>
  BY DEF TypedInv, Rollback, locals
<1>2. CASE failed[c] /\ autoCommit
  <2>1. Answer(c) /\ UNCHANGED working
    BY <1>2 DEF Rollback
  <2> QED
    BY <1>1, <2>1, AnswerTypes DEF TypeOK
<1>3. CASE ~(failed[c] /\ autoCommit)
  <2>1. /\ working' = IF failed[c] THEN committed ELSE working
        /\ Goto(c, "commit") /\ UNCHANGED <<added, updated>>
    BY <1>3 DEF Rollback, histories
  <2>2. Suits("commit", request[c]) /\ Inserted("commit", request[c], row[c], failed[c])
    BY <1>1 DEF Requested, Suits, Inserted, Steps, Op
  <2>3. /\ working' \in Database /\ working'.seq <= working.seq
        /\ committed.seq <= working'.seq
    <3>1. working.seq \in Nat /\ committed.seq \in Nat
      BY <1>1, DatabaseAssumption DEF TypeOK, Database
    <3> QED
      BY <1>1, <2>1, <3>1 DEF TypeOK, Owed
  <2> QED
    BY <1>1, <2>1, <2>2, <2>3, StepTypes DEF TypeOK, Steps
<1> QED
  BY <1>2, <1>3

LEMMA CommitTypes ==
  ASSUME TypedInv, NEW c \in Clients, Commit(c)
  PROVE  TypedInv'
<1>1. /\ TypeOK /\ Requested /\ pc[c] = "commit"
      /\ Inserted(pc[c], request[c], row[c], failed[c])
      /\ UNCHANGED <<working, autoCommit, foreignKeys, isOpen, request, row, failed>>
  BY DEF TypedInv, Commit, locals
<1>2. CASE autoCommit
  <2>1. Answer(c) /\ UNCHANGED committed
    BY <1>2 DEF Commit
  <2> QED
    BY <1>1, <2>1, AnswerTypes DEF TypeOK
<1>3. CASE ~autoCommit
  <2>1. committed' = working /\ Goto(c, "end") /\ UNCHANGED <<added, updated>>
    BY <1>3 DEF Commit, histories
  <2>2. Suits("end", request[c]) /\ Inserted("end", request[c], row[c], failed[c])
    BY <1>1 DEF Requested, Suits, Inserted, Steps, Op
  <2>3. working.seq \in Nat
    BY <1>1, DatabaseAssumption DEF TypeOK, Database
  <2> QED
    BY <1>1, <2>1, <2>2, <2>3, StepTypes DEF TypeOK, Steps
<1> QED
  BY <1>2, <1>3

LEMMA EndTypes ==
  ASSUME TypedInv, NEW c \in Clients, End(c)
  PROVE  TypedInv'
<1>1. /\ pc[c] = "end" /\ Answer(c) /\ autoCommit' = TRUE /\ committed' = working
      /\ UNCHANGED <<working, foreignKeys, isOpen, request, row, failed>>
  BY DEF End, SetAutoCommit, locals
<1> QED
  BY <1>1, AnswerTypes

LEMMA TypedInvIsInductive ==
  ASSUME TypedInv, [Next]_vars
  PROVE  TypedInv'
<1> USE DEF TypedInv
<1>1. CASE Open
  BY <1>1 DEF Open, locals, histories, TypeOK, Requested, Owed, Adding, Op
<1>2. CASE GoDown
  <2> USE <1>2 DEF GoDown, locals, histories
  <2>1. TypeOK'
    BY DEF TypeOK, Answers
  <2>2. Requested' /\ \A c \in Clients : Inserted(pc'[c], request'[c], row'[c], failed'[c])
    BY DEF Requested, Suits, Inserted, Steps, Op
  <2>3. Adding' = {}
    BY DEF Adding
  <2>4. Cardinality(Adding') = 0
    BY <2>3, FS_EmptySet
  <2>5. Owed'
    BY <2>4, DatabaseAssumption DEF TypeOK, Database, Owed
  <2> QED
    BY <2>1, <2>2, <2>5
<1>3. ASSUME NEW c \in Clients, Receive(c) \/ Serve(c) PROVE TypedInv'
  BY <1>3, ReceiveTypes, BeginTypes, FindTypes, InsertTypes, InsertPartTypes, ReadBackTypes,
     UpdateTypes, DeleteTypes, RollbackTypes, CommitTypes, EndTypes DEF Serve
<1>4. CASE UNCHANGED vars
  BY <1>4 DEF vars, connection, locals, histories, TypeOK, Requested, Owed, Adding, Op
<1> QED
  BY <1>1, <1>2, <1>3, <1>4 DEF Next

LEMMA InitTypedInv == Init => TypedInv
<1> SUFFICES ASSUME Init PROVE TypedInv
  OBVIOUS
<1>1. TypeOK
  <2>1. 0 \in 0..MaxId /\ committed \in Database /\ working \in Database
    BY DatabaseAssumption DEF Init, Database
  <2> QED
    BY <2>1 DEF Init, TypeOK, Answers
<1>2. Requested
  BY DEF Init, Requested, Suits, Steps
<1>3. \A c \in Clients : Inserted(pc[c], request[c], row[c], failed[c])
  BY DEF Init, Inserted
<1>4. Adding = {}
  BY DEF Init, Adding
<1>5. Cardinality(Adding) = 0
  BY <1>4, FS_EmptySet
<1>6. Owed
  BY <1>5, DatabaseAssumption DEF Init, Owed
<1> QED
  BY <1>1, <1>2, <1>3, <1>6 DEF TypedInv

------------------------------------------------------------------------------
(* What holds when requests come one at a time.                            *)

LEMMA InitSafe == Init => Safe
<1> SUFFICES ASSUME Init PROVE Safe
  OBVIOUS
<1> USE DatabaseAssumption DEF Init
<1>1. Sound
  BY DEF Sound, Transactional, Keyed
<1>2. Whole /\ Kept /\ Renewals
  BY DEF Whole, Kept, Renewals, FeedsAreWhole, AddedIsDurable, UpdatedIsDurable, Keys
<1> QED
  BY <1>1, <1>2 DEF Safe

LEMMA OpenKeeps ==
  ASSUME IInv, Open
  PROVE  Safe'
<1> USE DEF Open, locals, histories, IInv, Safe
<1>1. Sound'
  BY DEF Sound, Transactional, Keyed
<1>2. Whole' /\ Kept' /\ Renewals'
  BY DEF Whole, Kept, Renewals, FeedsAreWhole, AddedIsDurable, UpdatedIsDurable, Keys, Op, Renewed
<1> QED
  BY <1>1, <1>2 DEF Safe

LEMMA GoDownKeeps ==
  ASSUME IInv, GoDown
  PROVE  Safe'
<1> USE DEF GoDown, locals, histories, IInv, Safe
<1>1. Sound'
  BY DEF Sound, Transactional, Keyed
<1>2. Whole' /\ Kept' /\ Renewals'
  BY DEF Whole, Kept, Renewals, FeedsAreWhole, AddedIsDurable, UpdatedIsDurable, Keys, Op, Renewed
<1> QED
  BY <1>1, <1>2 DEF Safe

------------------------------------------------------------------------------
(* The requests.  The client that moves is the only one.                   *)

\* Where the client is is all that a step does to pc.
LEMMA GotoMoves ==
  ASSUME Alone, NEW c \in Clients, TypeOK, NEW label \in Answers \cup Steps, Goto(c, label)
  PROVE  /\ pc' \in [Clients -> Answers \cup Steps]
         /\ \A d \in Clients : d = c /\ pc'[d] = label
BY DEF Alone, TypeOK, Goto

LEMMA ReceiveKeeps ==
  ASSUME Alone, IInv, NEW c \in Clients, Receive(c)
  PROVE  Safe'
<1> USE DEF IInv, Safe
<1>1. PICK r \in Request :
        /\ r.op \in Additions => working.seq + Cardinality(Adding) < MaxId
        /\ request' = [request EXCEPT ![c] = r]
        /\ Goto(c, IF r.op \in {"addPlugin", "addFeed", "deletePlugin"}
                   THEN "begin" ELSE "find")
  BY DEF Receive
<1>2. /\ pc[c] \in Answers /\ UNCHANGED <<connection, histories>>
      /\ row' = [row EXCEPT ![c] = 0] /\ failed' = [failed EXCEPT ![c] = FALSE]
  BY DEF Receive
<1>3. TypeOK
  BY DEF TypedInv
<1>4. /\ pc' \in [Clients -> Answers \cup Steps]
      /\ \A d \in Clients : d = c /\ pc'[d] = IF r.op \in {"addPlugin", "addFeed", "deletePlugin"}
                   THEN "begin" ELSE "find"
  BY <1>1, <1>3, GotoMoves DEF Steps
<1>5. Sound'
  BY <1>2, <1>4 DEF Sound, Transactional, Keyed, connection
<1>6. Whole' /\ Kept' /\ Renewals'
  BY <1>2, <1>4 DEF Whole, Kept, Renewals, FeedsAreWhole, AddedIsDurable, UpdatedIsDurable,
                    Keys, Op, connection, histories, Answers
<1> QED
  BY <1>5, <1>6 DEF Safe

LEMMA BeginKeeps ==
  ASSUME Alone, IInv, NEW c \in Clients, Begin(c)
  PROVE  Safe'
<1> DEFINE label == IF Op(c) = "deletePlugin" THEN "find" ELSE "insert"
<1>1. /\ pc[c] = "begin" /\ Goto(c, label)
      /\ autoCommit' = FALSE /\ committed' = committed
      /\ UNCHANGED <<working, foreignKeys, isOpen, request, row, failed, added, updated>>
  BY DEF Begin, SetAutoCommit, locals, histories
<1>2. TypeOK
  BY DEF IInv, TypedInv
<1>3. label \in {"find", "insert"} /\ (label = "find" <=> Op(c) = "deletePlugin")
  OBVIOUS
<1> HIDE DEF label
<1>4. /\ pc' \in [Clients -> Answers \cup Steps]
      /\ \A d \in Clients : d = c /\ pc'[d] = label
  BY <1>1, <1>2, <1>3, GotoMoves DEF Steps
<1>5. Sound'
  BY <1>1, <1>4 DEF IInv, Safe, Sound, Transactional, Keyed
<1>6. Whole' /\ Kept' /\ Renewals'
  BY <1>1, <1>3, <1>4 DEF IInv, Safe, Whole, Kept, Renewals, FeedsAreWhole, AddedIsDurable,
                          UpdatedIsDurable, Keys, Op
<1> QED
  BY <1>5, <1>6 DEF Safe

LEMMA FindKeeps ==
  ASSUME Alone, IInv, NEW c \in Clients, Find(c)
  PROVE  Safe'
<1>1. TypeOK /\ pc[c] = "find" /\ UNCHANGED <<connection, request, failed, added, updated>>
  BY DEF IInv, TypedInv, Find, histories
<1>2. CASE Target(c) = {}
  <2>1. Goto(c, "ko") /\ UNCHANGED row
    BY <1>2 DEF Find
  <2>2. /\ pc' \in [Clients -> Answers \cup Steps]
        /\ \A d \in Clients : d = c /\ pc'[d] = "ko"
    BY <1>1, <2>1, GotoMoves DEF Answers
  <2>3. Sound'
    BY <1>1, <2>2 DEF IInv, Safe, Sound, Transactional, Keyed, connection
  <2>4. Whole' /\ Kept' /\ Renewals'
    BY <1>1, <2>1, <2>2 DEF IInv, Safe, Whole, Kept, Renewals, FeedsAreWhole, AddedIsDurable,
                            UpdatedIsDurable, Keys, connection
  <2> QED
    BY <2>3, <2>4 DEF Safe
<1>3. CASE Target(c) # {}
  <2> DEFINE label == CASE Op(c) = "addService" -> "begin"
                        [] Op(c) = "updateService" -> "update"
                        [] OTHER -> "delete"
  <2>1. Goto(c, label) /\ \E r \in Target(c) : row' = [row EXCEPT ![c] = r.id]
    BY <1>3 DEF Find
  <2>2. Op(c) \in Deletions \cup {"addService", "updateService"}
    BY <1>1 DEF IInv, TypedInv, Requested, Suits, Op
  <2>3. Target(c) \subseteq working.rows
    BY <2>2 DEF Target, WithId, WithName, Deletions
  <2>4. row' \in [Clients -> 0..MaxId]
    BY <1>1, <2>1, <2>3 DEF TypeOK, Database, Row, Ids
  <2>5. /\ label \in {"begin", "update", "delete"}
        /\ label = "begin" => Op(c) = "addService"
        /\ label = "update" => Op(c) = "updateService"
        /\ label = "delete" => Op(c) \in Deletions
    BY <2>2
  <2> HIDE DEF label
  <2>6. /\ pc' \in [Clients -> Answers \cup Steps]
        /\ \A d \in Clients : d = c /\ pc'[d] = label
    BY <1>1, <2>1, <2>5, GotoMoves DEF Steps
  <2>7. Sound'
    BY <1>1, <2>5, <2>6 DEF IInv, Safe, Sound, Transactional, Keyed, connection
  <2>8. Whole' /\ Kept' /\ Renewals'
    BY <1>1, <2>5, <2>6 DEF IInv, Safe, Whole, Kept, Renewals, FeedsAreWhole, AddedIsDurable,
                            UpdatedIsDurable, Keys, Op, connection
  <2> QED
    BY <2>7, <2>8 DEF Safe
<1> QED
  BY <1>2, <1>3

LEMMA NewRowFacts ==
  ASSUME IInv, NEW c \in Clients, pc[c] = "insert"
  PROVE  /\ NewRow(c) \in Row /\ NewRow(c).id = working.seq + 1
         /\ working.seq \in Nat /\ working.seq + 1 \in 1..MaxId
         /\ Op(c) # "addFeed" => NewRow(c).missing = 0
<1>1. working.seq \in 0..MaxId /\ MaxId \in Nat
  BY DatabaseAssumption DEF IInv, TypedInv, TypeOK, Database
<1>2. request[c] \in Request /\ Op(c) \in Additions
  BY DEF IInv, TypedInv, Requested, Suits, Op, Steps
<1>3. working.seq < MaxId
  <2>1. c \in Adding
    BY <1>2 DEF Adding
  <2>2. Cardinality(Adding) # 0
    BY <2>1, AddingIsFinite, FS_EmptySet
  <2> QED
    BY <1>1, <2>2, AddingIsFinite DEF IInv, TypedInv, Owed
<1>4. working.seq + 1 \in Ids /\ working.seq \in Nat
  BY <1>1, <1>3 DEF Ids
<1>5. NewRow(c).id = working.seq + 1 /\ (Op(c) # "addFeed" => NewRow(c).missing = 0)
  BY DEF NewRow, Op
<1> QED
  BY <1>2, <1>4, <1>5, NewRowTypes DEF Ids

LEMMA InsertKeeps ==
  ASSUME Alone, IInv, NEW c \in Clients, Insert(c)
  PROVE  Safe'
<1>1. TypeOK /\ pc[c] = "insert" /\ ~autoCommit
      /\ UNCHANGED <<autoCommit, foreignKeys, isOpen, request, added, updated>>
  BY DEF IInv, Safe, TypedInv, Insert, Sound, Transactional, histories
<1>2. CASE Violates(NewRow(c))
  <2>1. /\ failed' = [failed EXCEPT ![c] = TRUE] /\ Goto(c, "rollback")
        /\ UNCHANGED <<committed, working, row>>
    BY <1>2 DEF Insert
  <2>2. /\ pc' \in [Clients -> Answers \cup Steps]
        /\ \A d \in Clients : d = c /\ pc'[d] = "rollback" /\ failed'[d]
    BY <1>1, <2>1, GotoMoves DEF Steps, TypeOK
  <2>3. Sound'
    BY <1>1, <2>1, <2>2 DEF IInv, Safe, Sound, Transactional, Keyed
  <2>4. Whole' /\ Kept' /\ Renewals'
    BY <1>1, <2>1, <2>2 DEF IInv, Safe, Whole, Kept, Renewals, FeedsAreWhole, AddedIsDurable,
                            UpdatedIsDurable, Keys, Op
  <2> QED
    BY <2>3, <2>4 DEF Safe
<1>3. CASE ~Violates(NewRow(c))
  <2> DEFINE new == NewRow(c)
             key == working.seq + 1
             label == IF Op(c) = "addFeed" THEN "parts" ELSE "readBack"
  <2>1. /\ Execute(working.rows \cup {new}, key) /\ UNCHANGED failed
        /\ row' = [row EXCEPT ![c] = key] /\ Goto(c, label)
    BY <1>3 DEF Insert
  <2>2. /\ new \in Row /\ new.id = key /\ key \in 0..MaxId /\ working.seq \in Nat
        /\ key = working.seq + 1 /\ (Op(c) # "addFeed" => new.missing = 0)
    BY <1>1, NewRowFacts
  <2>3. label \in {"parts", "readBack"} /\ (label = "parts" <=> Op(c) = "addFeed")
    OBVIOUS
  <2> HIDE DEF new, key, label
  <2>4. working.rows \in SUBSET Row
    BY <1>1 DEF TypeOK, Database
  <2>5. /\ working' \in Database /\ committed' = committed
        /\ working'.rows = working.rows \cup {new} /\ working'.seq = key
    BY <1>1, <2>1, <2>2, <2>4, ExecuteTypes
  <2>6. /\ pc' \in [Clients -> Answers \cup Steps]
        /\ \A d \in Clients : d = c /\ pc'[d] = label /\ row'[d] = key
    BY <1>1, <2>1, <2>3, GotoMoves DEF Steps, TypeOK
  <2>7. Keyed(working')
    <3>1. \A r \in working.rows : r.id \in Nat /\ r.id <= working.seq
      BY <2>4 DEF IInv, Safe, Sound, Keyed, Row, Ids
    <3> QED
      BY <2>2, <2>5, <3>1 DEF IInv, Safe, Sound, Keyed
  <2>8. Sound'
    BY <1>1, <2>5, <2>7 DEF IInv, Safe, Sound, Transactional, Keyed
  <2>9. Whole'
    BY <1>1, <2>2, <2>3, <2>5, <2>6 DEF IInv, Safe, Whole, FeedsAreWhole
  <2>10. Kept'
    BY <1>1, <2>3, <2>5, <2>6 DEF IInv, Safe, Kept, AddedIsDurable, Keys
  <2>11. Renewals'
    BY <1>1, <2>5, <2>6 DEF IInv, Safe, TypedInv, Requested, Suits, Renewals, UpdatedIsDurable,
                            Additions, Op
  <2> QED
    BY <2>8, <2>9, <2>10, <2>11 DEF Safe
<1> QED
  BY <1>2, <1>3

LEMMA InsertPartKeeps ==
  ASSUME Alone, IInv, NEW c \in Clients, InsertPart(c)
  PROVE  Safe'
<1> DEFINE rows == WithPart(c)
           label == IF \E r \in rows : r.id = row[c] /\ r.missing > 0 THEN "parts" ELSE "readBack"
<1>1. /\ TypeOK /\ pc[c] = "parts" /\ ~autoCommit /\ Op(c) = "addFeed"
      /\ UNCHANGED <<autoCommit, foreignKeys, isOpen, request, row, added, updated>>
  BY DEF IInv, Safe, TypedInv, Requested, Suits, InsertPart, Sound, Transactional, Op, histories
<1>2. CASE /\ failed' = [failed EXCEPT ![c] = TRUE]
           /\ Goto(c, "rollback")
           /\ UNCHANGED <<committed, working>>
  <2>1. /\ pc' \in [Clients -> Answers \cup Steps]
        /\ \A d \in Clients : d = c /\ pc'[d] = "rollback" /\ failed'[d]
    BY <1>1, <1>2, GotoMoves DEF Steps, TypeOK
  <2>2. Sound'
    BY <1>1, <1>2, <2>1 DEF IInv, Safe, Sound, Transactional, Keyed
  <2>3. Whole' /\ Kept' /\ Renewals'
    BY <1>1, <1>2, <2>1 DEF IInv, Safe, Whole, Kept, Renewals, FeedsAreWhole, AddedIsDurable,
                            UpdatedIsDurable, Keys, Op
  <2> QED
    BY <2>2, <2>3 DEF Safe
<1>3. CASE /\ Execute(rows, working.seq)
           /\ Goto(c, label)
           /\ UNCHANGED failed
  <2>1. label \in {"parts", "readBack"}
        /\ (label = "readBack" => \A r \in rows : r.id = row[c] => ~(r.missing > 0))
    OBVIOUS
  <2>2. /\ rows \in SUBSET Row
        /\ \A s \in rows : \E r \in working.rows : s.id = r.id /\ (r.missing = 0 => s = r)
        /\ \A r \in working.rows : \E s \in rows : s.id = r.id /\ (r.missing = 0 => s = r)
    BY <1>1, WithPartTypes
  <2>3. \A s \in rows : s.missing \in Nat
    BY <2>2, DatabaseAssumption DEF Row
  <2>4. Keyed([rows |-> rows, seq |-> working.seq])
    <3>1. ASSUME NEW r \in working.rows, NEW s \in working.rows, r.id = s.id PROVE r = s
      BY <3>1 DEF IInv, Safe, Sound, Keyed
    <3>2. ASSUME NEW s \in rows, NEW t \in rows, s.id = t.id PROVE s = t
      <4> DEFINE More(r) == IF r.id = row[c] /\ r.missing > 0
                            THEN [r EXCEPT !.missing = @ - 1] ELSE r
      <4>1. PICK r \in working.rows : s = More(r)
        BY DEF WithPart
      <4>2. PICK q \in working.rows : t = More(q)
        BY DEF WithPart
      <4>3. s.id = r.id /\ t.id = q.id
        BY <4>1, <4>2, <1>1 DEF TypeOK, Database, Row
      <4> HIDE DEF More
      <4> QED
        BY <3>1, <3>2, <4>1, <4>2, <4>3
    <3> QED
      BY <2>2, <3>2 DEF IInv, Safe, Sound, Keyed
  <2>5. updated \subseteq rows
    <3>1. ASSUME NEW r \in updated PROVE r \in rows
      <4>1. r \in working.rows /\ r.missing = 0
        BY <3>1 DEF IInv, Safe, Renewals, UpdatedIsDurable, Whole, FeedsAreWhole
      <4>2. PICK s \in rows : s.id = r.id /\ (r.missing = 0 => s = r)
        BY <2>2, <4>1
      <4> QED
        BY <4>1, <4>2
    <3> QED
      BY <3>1
  <2>6. \A s \in rows : s.missing = 0 \/ s.id = row[c]
    <3>1. ASSUME NEW s \in rows PROVE s.missing = 0 \/ s.id = row[c]
      <4>1. PICK r \in working.rows : s.id = r.id /\ (r.missing = 0 => s = r)
        BY <2>2
      <4>2. r.missing = 0 \/ r.id = row[c]
        BY DEF IInv, Safe, Whole, Alone
      <4> QED
        BY <4>1, <4>2
    <3> QED
      BY <3>1
  <2> HIDE DEF rows, label
  <2>7. /\ working' \in Database /\ committed' = committed
        /\ working'.rows = rows /\ working'.seq = working.seq
    BY <1>1, <1>3, <2>2, ExecuteTypes DEF TypeOK, Database
  <2>8. /\ pc' \in [Clients -> Answers \cup Steps]
        /\ \A d \in Clients : d = c /\ pc'[d] = label
    BY <1>1, <1>3, <2>1, GotoMoves DEF Steps
  <2>9. Sound'
    BY <1>1, <2>4, <2>7, <2>8 DEF IInv, Safe, Sound, Transactional, Keyed
  <2>10. Whole'
    <3>1. FeedsAreWhole'
      BY <2>7 DEF IInv, Safe, Whole, FeedsAreWhole
    <3>2. CASE label = "parts"
      BY <1>1, <2>6, <2>7, <2>8, <3>1, <3>2 DEF Whole
    <3>3. CASE label = "readBack"
      BY <2>1, <2>3, <2>6, <2>7, <3>1, <3>3 DEF Whole
    <3> QED
      BY <2>1, <3>2, <3>3
  <2>11. Kept'
    <3>1. added \subseteq Keys(rows)
      <4>1. \A r \in working.rows : \E s \in rows : s.id = r.id
        BY <2>2
      <4> QED
        BY <4>1 DEF IInv, Safe, Kept, Keys
    <3> QED
      BY <1>1, <2>1, <2>7, <2>8, <3>1 DEF IInv, Safe, Kept, AddedIsDurable, Keys
  <2>12. Renewals'
    BY <1>1, <2>5, <2>7, <2>8 DEF IInv, Safe, Renewals, UpdatedIsDurable, Op
  <2> QED
    BY <2>9, <2>10, <2>11, <2>12 DEF Safe
<1> QED
  BY <1>2, <1>3 DEF InsertPart

LEMMA ReadBackKeeps ==
  ASSUME Alone, IInv, NEW c \in Clients, ReadBack(c)
  PROVE  Safe'
<1> DEFINE label == IF Op(c) # "updateService" THEN "rollback"
                    ELSE IF Found(c) THEN "ok" ELSE "ko"
<1>1. /\ TypeOK /\ pc[c] = "readBack" /\ Goto(c, label)
      /\ failed' = [failed EXCEPT ![c] = ~Found(c)]
      /\ UNCHANGED <<connection, request, row, added>>
  BY DEF IInv, TypedInv, ReadBack
<1>2. label \in {"rollback", "ok", "ko"} /\ (label = "rollback" <=> Op(c) # "updateService")
  OBVIOUS
<1>3. Found(c) \in BOOLEAN /\ (Found(c) => row[c] \in Keys(working.rows))
  BY DEF Found, Keys
<1> HIDE DEF label
<1>4. /\ pc' \in [Clients -> Answers \cup Steps]
      /\ \A d \in Clients : d = c /\ pc'[d] = label
  BY <1>1, <1>2, GotoMoves DEF Steps, Answers
<1>5. updated' \subseteq committed.rows /\ updated' \subseteq working.rows
  <2>1. updated \subseteq committed.rows /\ updated \subseteq working.rows
    BY DEF IInv, Safe, Renewals, UpdatedIsDurable
  <2>2. CASE Op(c) = "updateService" /\ autoCommit
    <3>1. updated' = updated \cup {Renewed(c, r) : r \in {r \in working.rows : r.id = row[c]}}
      BY <2>2 DEF ReadBack
    <3>2. \A r \in working.rows : r.id = row[c] => Renewed(c, r) = r
      BY <1>1, <2>2 DEF IInv, Safe, Renewals
    <3>3. working = committed
      BY <2>2 DEF IInv, Safe, Sound, Transactional
    <3> QED
      BY <2>1, <3>1, <3>2, <3>3
  <2>3. CASE ~(Op(c) = "updateService" /\ autoCommit)
    BY <2>1, <2>3 DEF ReadBack
  <2> QED
    BY <2>2, <2>3
<1>6. Sound'
  BY <1>1, <1>2, <1>4 DEF IInv, Safe, Sound, Transactional, Keyed, connection
<1>7. Whole'
  BY <1>1, <1>4 DEF IInv, Safe, Whole, FeedsAreWhole, connection
<1>8. failed'[c] <=> ~Found(c)
  BY <1>1, <1>3 DEF TypeOK
<1>9. Kept'
  BY <1>1, <1>3, <1>4, <1>8 DEF IInv, Safe, Kept, AddedIsDurable, Keys, Op, connection
<1>10. Renewals'
  BY <1>1, <1>2, <1>4, <1>5 DEF Renewals, UpdatedIsDurable, connection
<1> QED
  BY <1>6, <1>7, <1>9, <1>10 DEF Safe

LEMMA UpdateKeeps ==
  ASSUME Alone, IInv, NEW c \in Clients, Update(c)
  PROVE  Safe'
<1> DEFINE old == WithId("services", row[c])
           new == {Renewed(c, r) : r \in old}
           rows == (working.rows \ old) \cup new
<1>1. /\ TypeOK /\ pc[c] = "update"
      /\ UNCHANGED <<autoCommit, foreignKeys, isOpen, request, row, failed, added>>
  BY DEF IInv, TypedInv, Update, locals
<1>2. request[c] \in Request /\ Op(c) = "updateService"
  BY <1>1 DEF IInv, TypedInv, Requested, Suits, Op, Steps
<1>3. CASE old = {} \/ \E r \in new : Violates(r)
  <2>1. Goto(c, "ko") /\ UNCHANGED <<committed, working, updated>>
    BY <1>3 DEF Update
  <2>2. /\ pc' \in [Clients -> Answers \cup Steps]
        /\ \A d \in Clients : d = c /\ pc'[d] = "ko"
    BY <1>1, <2>1, GotoMoves DEF Answers
  <2>3. Sound'
    BY <1>1, <2>1, <2>2 DEF IInv, Safe, Sound, Transactional, Keyed
  <2>4. Whole' /\ Kept' /\ Renewals'
    BY <1>1, <2>1, <2>2 DEF IInv, Safe, Whole, Kept, Renewals, FeedsAreWhole, AddedIsDurable,
                            UpdatedIsDurable, Keys
  <2> QED
    BY <2>3, <2>4 DEF Safe
<1>4. CASE old # {} /\ \A r \in new : ~Violates(r)
  <2>1. /\ Execute(rows, working.seq) /\ Goto(c, "readBack")
        /\ updated' = {r \in updated : r.id # row[c]}
    BY <1>4 DEF Update
  <2>2. working.rows \in SUBSET Row /\ working.seq \in 0..MaxId
    BY <1>1 DEF TypeOK, Database
  <2>3. request[c].newName \in Names /\ request[c].config \in Configs
    BY <1>2 DEF Op, Request
  <2>4. \A r \in Row : /\ Renewed(c, r) \in Row /\ Renewed(c, r).id = r.id
                       /\ Renewed(c, r).missing = r.missing
                       /\ Renewed(c, Renewed(c, r)) = Renewed(c, r)
    BY <2>3 DEF Renewed, Row
  <2>5. old \subseteq working.rows /\ \A r \in old : r.id = row[c]
    BY DEF WithId
  <2>6. \A r \in working.rows : r.id = row[c] => r \in old
    <3>1. PICK s \in working.rows : s.id = row[c] /\ s.table = "services"
      BY <1>4 DEF WithId
    <3>2. \A r \in working.rows : r.id = row[c] => r = s
      BY <3>1 DEF IInv, Safe, Sound, Keyed
    <3> QED
      BY <3>1, <3>2 DEF WithId
  <2>7. \A s \in new : \E r \in old : s = Renewed(c, r)
    OBVIOUS
  <2>8. new \subseteq Row /\ \A s \in new : s.id = row[c]
    BY <2>2, <2>4, <2>5, <2>7
  <2>9. \A s \in new : Renewed(c, s) = s /\ \E r \in old : s.missing = r.missing
    BY <2>2, <2>4, <2>5, <2>7
  <2>10. new # {} /\ \A r, s \in new : r = s
    <3>1. \A r, s \in old : r = s
      BY <2>5 DEF IInv, Safe, Sound, Keyed
    <3> QED
      BY <1>4, <2>7, <3>1
  <2> HIDE DEF old, new
  <2>11. \A k : k \in Keys(rows) <=> k \in Keys(working.rows)
    <3>1. \A s \in new : \E r \in old : s.id = r.id
      BY <1>4, <2>5, <2>8, <2>10
    <3>2. \A r \in old : \E s \in new : s.id = r.id
      BY <2>5, <2>8, <2>10
    <3> QED
      BY <2>5, <3>1, <3>2 DEF Keys
  <2>12. rows \in SUBSET Row
    BY <2>2, <2>8
  <2>13. Keyed([rows |-> rows, seq |-> working.seq])
    <3>1. \A r \in old : r.id <= working.seq
      BY <2>5 DEF IInv, Safe, Sound, Keyed
    <3>2. \A r \in rows : r.id <= working.seq
      BY <1>4, <2>5, <2>8, <3>1 DEF IInv, Safe, Sound, Keyed
    <3>3. \A r \in working.rows \ old : r.id # row[c]
      BY <2>6
    <3>4. \A r, s \in rows : r.id = s.id => r = s
      BY <2>8, <2>10, <3>3 DEF IInv, Safe, Sound, Keyed
    <3> QED
      BY <3>2, <3>4 DEF Keyed
  <2>14. \A r \in rows : r.missing = 0
    <3>1. \A r \in working.rows : r.missing = 0
      BY <1>1 DEF IInv, Safe, Whole, Alone
    <3> QED
      BY <2>5, <2>9, <3>1
  <2>15. updated' \subseteq rows
    BY <2>1, <2>5 DEF IInv, Safe, Renewals
  <2>16. \A r \in rows : r.id = row[c] => Renewed(c, r) = r
    BY <2>6, <2>9
  <2> HIDE DEF rows
  <2>17. /\ working' \in Database /\ committed' \in Database
         /\ working'.rows = rows /\ working'.seq = working.seq
         /\ committed' = IF autoCommit THEN working' ELSE committed
    BY <1>1, <2>1, <2>2, <2>12, ExecuteTypes
  <2>18. /\ pc' \in [Clients -> Answers \cup Steps]
         /\ \A d \in Clients : d = c /\ pc'[d] = "readBack"
    BY <1>1, <2>1, GotoMoves DEF Steps
  <2>19. Keyed(working')
    BY <2>13, <2>17 DEF Keyed
  <2>20. Sound'
    BY <1>1, <2>17, <2>18, <2>19 DEF IInv, Safe, Sound, Transactional, Keyed
  <2>21. Whole'
    BY <2>14, <2>17 DEF IInv, Safe, Whole, FeedsAreWhole
  <2>22. Kept'
    BY <1>1, <2>11, <2>17, <2>18 DEF IInv, Safe, Kept, AddedIsDurable, Keys
  <2>23. Renewals'
    <3>1. updated' \subseteq committed'.rows
      BY <2>1, <2>15, <2>17 DEF IInv, Safe, Renewals, UpdatedIsDurable
    <3>2. \A r \in working'.rows : r.id = row'[c] => Renewed(c, r)' = r
      BY <1>1, <2>16, <2>17 DEF Renewed
    <3> QED
      BY <2>15, <2>17, <2>18, <3>1, <3>2 DEF Renewals, UpdatedIsDurable
  <2> QED
    BY <2>20, <2>21, <2>22, <2>23 DEF Safe
<1> QED
  BY <1>3, <1>4

LEMMA DeleteKeeps ==
  ASSUME Alone, IInv, NEW c \in Clients, Delete(c)
  PROVE  Safe'
<1> DEFINE label == CASE Op(c) = "deletePlugin" -> "rollback"
                      [] Op(c) = "deleteService" -> IF Doomed(c) = {} THEN "ok" ELSE "ko"
                      [] OTHER -> "ok"
           gone == Doomed(c)
           rows == working.rows \ gone
           deaf == Op(c) = "deletePlugin" /\ gone = {}
<1>1. /\ TypeOK /\ pc[c] = "delete" /\ Goto(c, label)
      /\ Execute(rows, working.seq)
      /\ added' = added \ {r.id : r \in gone}
      /\ updated' = {r \in updated : r.id \notin {d.id : d \in gone}}
      /\ failed' = [failed EXCEPT ![c] = deaf]
      /\ UNCHANGED <<autoCommit, foreignKeys, isOpen, request, row>>
  BY DEF IInv, TypedInv, Delete
<1>2. Op(c) \in Deletions
  BY <1>1 DEF IInv, TypedInv, Requested, Suits, Op
<1>3. label \in {"rollback", "ok", "ko"} /\ (label = "rollback" => Op(c) = "deletePlugin")
  OBVIOUS
<1>4. deaf \in BOOLEAN
  OBVIOUS
<1>5. gone \subseteq working.rows
  BY <1>2 DEF Doomed, WithId, WithName, Deletions
<1> HIDE DEF label, gone, deaf
<1>6. working.rows \in SUBSET Row /\ rows \in SUBSET Row /\ working.seq \in 0..MaxId
  BY <1>1 DEF TypeOK, Database
<1>7. /\ added' \subseteq Keys(rows) /\ added' \subseteq added
      /\ updated' \subseteq rows /\ updated' \subseteq updated
  BY <1>1 DEF IInv, Safe, Kept, Renewals, Keys
<1> HIDE DEF rows
<1>8. rows \subseteq working.rows
  BY DEF rows
<1>9. /\ working' \in Database /\ committed' \in Database
      /\ working'.rows = rows /\ working'.seq = working.seq
      /\ committed' = IF autoCommit THEN working' ELSE committed
  BY <1>1, <1>6, ExecuteTypes
<1>10. /\ pc' \in [Clients -> Answers \cup Steps]
       /\ \A d \in Clients : d = c /\ pc'[d] = label
  BY <1>1, <1>3, GotoMoves DEF Steps, Answers
<1>11. Keyed(working')
  BY <1>8, <1>9 DEF IInv, Safe, Sound, Keyed
<1>12. Sound'
  BY <1>1, <1>3, <1>9, <1>10, <1>11 DEF IInv, Safe, Sound, Transactional, Keyed
<1>13. Whole'
  <2>1. \A r \in rows : r.missing = 0
    BY <1>1, <1>8 DEF IInv, Safe, Whole, Alone
  <2> QED
    BY <1>9, <2>1 DEF IInv, Safe, Whole, FeedsAreWhole
<1>14. Kept'
  <2>1. Op(c) \notin Additions
    BY <1>2 DEF Additions, Deletions
  <2> QED
    BY <1>1, <1>7, <1>9, <1>10, <2>1 DEF IInv, Safe, Kept, AddedIsDurable, Keys, Op
<1>15. Renewals'
  BY <1>3, <1>7, <1>9, <1>10 DEF IInv, Safe, Renewals, UpdatedIsDurable
<1> QED
  BY <1>12, <1>13, <1>14, <1>15 DEF Safe

(***************************************************************************)
(* The answer, once the file and the connection agree.                     *)
(***************************************************************************)
LEMMA AnswerKeeps ==
  ASSUME Alone, IInv, NEW c \in Clients, pc[c] \in {"rollback", "commit", "end"}, Answer(c),
         UNCHANGED <<working, foreignKeys, isOpen, locals>>,
         autoCommit' \in BOOLEAN, committed' = working,
         pc[c] = "rollback" => committed = working
  PROVE  Safe'
<1>1. TypeOK /\ UNCHANGED <<request, row, failed, updated>>
  BY DEF IInv, TypedInv, Answer, locals
<1>2. Goto(c, IF failed[c] THEN "ko" ELSE "ok")
  BY DEF Answer
<1>3. /\ pc' \in [Clients -> Answers \cup Steps]
      /\ \A d \in Clients : d = c /\ pc'[d] \in Answers
  BY <1>1, <1>2, GotoMoves DEF Answers
<1>4. added' \subseteq Keys(working.rows)
  <2>1. CASE failed[c] \/ Op(c) \notin Additions
    BY <2>1 DEF IInv, Safe, Kept, Answer
  <2>2. CASE ~failed[c] /\ Op(c) \in Additions
    BY <2>2 DEF IInv, Safe, Kept, Answer
  <2> QED
    BY <2>1, <2>2
<1>5. added' \in SUBSET Ids
  BY <1>1, <1>4 DEF Keys, TypeOK, Database, Row
<1>6. Sound'
  BY <1>3 DEF IInv, Safe, Sound, Transactional, Keyed, Answers
<1>7. Whole'
  <2>1. \A r \in working.rows : r.missing = 0
    BY DEF IInv, Safe, Whole, FeedsAreWhole, Alone
  <2> QED
    BY <2>1 DEF Whole, FeedsAreWhole
<1>8. Kept'
  BY <1>3, <1>4 DEF Kept, AddedIsDurable, Keys, Answers
<1>9. Renewals'
  BY <1>1, <1>3 DEF IInv, Safe, Renewals, UpdatedIsDurable, Answers
<1> QED
  BY <1>6, <1>7, <1>8, <1>9 DEF Safe

LEMMA RollbackKeeps ==
  ASSUME Alone, IInv, NEW c \in Clients, Rollback(c)
  PROVE  Safe'
<1>1. /\ TypeOK /\ pc[c] = "rollback"
      /\ UNCHANGED <<committed, autoCommit, foreignKeys, isOpen, request, row, failed>>
  BY DEF IInv, TypedInv, Rollback, locals
<1>2. CASE failed[c] /\ autoCommit
  <2>1. Answer(c) /\ UNCHANGED <<working, foreignKeys, isOpen, locals>>
    BY <1>2 DEF Rollback
  <2>2. committed' = working /\ autoCommit' \in BOOLEAN
    BY <1>1, <1>2 DEF IInv, Safe, Sound, Transactional, TypeOK
  <2> QED
    BY <1>1, <2>1, <2>2, AnswerKeeps
<1>3. CASE ~(failed[c] /\ autoCommit)
  <2>1. /\ working' = IF failed[c] THEN committed ELSE working
        /\ Goto(c, "commit") /\ UNCHANGED <<added, updated>>
    BY <1>3 DEF Rollback, histories
  <2>2. /\ pc' \in [Clients -> Answers \cup Steps]
        /\ \A d \in Clients : d = c /\ pc'[d] = "commit"
    BY <1>1, <2>1, GotoMoves DEF Steps
  <2>3. Sound'
    BY <1>1, <2>1, <2>2 DEF IInv, Safe, Sound, Transactional, Keyed
  <2>4. Whole'
    <3>1. ~failed[c] => \A r \in working.rows : r.missing = 0
      BY <1>1 DEF IInv, Safe, Whole, Alone
    <3> QED
      BY <1>1, <2>1, <3>1 DEF IInv, Safe, Whole, FeedsAreWhole
  <2>5. Kept'
    BY <1>1, <2>1, <2>2 DEF IInv, Safe, Kept, AddedIsDurable, Keys, Op
  <2>6. Renewals'
    BY <1>1, <2>1, <2>2 DEF IInv, Safe, Renewals, UpdatedIsDurable
  <2> QED
    BY <2>3, <2>4, <2>5, <2>6 DEF Safe
<1> QED
  BY <1>2, <1>3

LEMMA CommitKeeps ==
  ASSUME Alone, IInv, NEW c \in Clients, Commit(c)
  PROVE  Safe'
<1>1. /\ TypeOK /\ pc[c] = "commit"
      /\ UNCHANGED <<working, autoCommit, foreignKeys, isOpen, locals>>
      /\ UNCHANGED <<request, row, failed>>
  BY DEF IInv, TypedInv, Commit, locals
<1>2. CASE autoCommit
  <2>1. Answer(c) /\ committed' = committed
    BY <1>2 DEF Commit
  <2>2. committed' = working /\ autoCommit' \in BOOLEAN
    BY <1>1, <1>2, <2>1 DEF IInv, Safe, Sound, Transactional, TypeOK
  <2> QED
    BY <1>1, <2>1, <2>2, AnswerKeeps
<1>3. CASE ~autoCommit
  <2>1. committed' = working /\ Goto(c, "end") /\ UNCHANGED <<added, updated>>
    BY <1>3 DEF Commit, histories
  <2>2. /\ pc' \in [Clients -> Answers \cup Steps]
        /\ \A d \in Clients : d = c /\ pc'[d] = "end"
    BY <1>1, <2>1, GotoMoves DEF Steps
  <2>3. Sound'
    BY <1>1, <2>1, <2>2 DEF IInv, Safe, Sound, Transactional, Keyed
  <2>4. Whole'
    <3>1. \A r \in working.rows : r.missing = 0
      BY <1>1 DEF IInv, Safe, Whole, Alone
    <3> QED
      BY <1>1, <2>1, <3>1 DEF Whole, FeedsAreWhole
  <2>5. Kept'
    BY <1>1, <2>1, <2>2 DEF IInv, Safe, Kept, AddedIsDurable, Keys, Op
  <2>6. Renewals'
    BY <1>1, <2>1, <2>2 DEF IInv, Safe, Renewals, UpdatedIsDurable
  <2> QED
    BY <2>3, <2>4, <2>5, <2>6 DEF Safe
<1> QED
  BY <1>2, <1>3

LEMMA EndKeeps ==
  ASSUME Alone, IInv, NEW c \in Clients, End(c)
  PROVE  Safe'
<1>1. /\ pc[c] = "end" /\ Answer(c) /\ autoCommit' = TRUE /\ committed' = working
      /\ UNCHANGED <<working, foreignKeys, isOpen, locals>>
  BY DEF End, SetAutoCommit
<1> QED
  BY <1>1, AnswerKeeps

------------------------------------------------------------------------------

LEMMA IInvIsInductive ==
  ASSUME Alone, IInv, [Next]_vars
  PROVE  IInv'
<1>1. TypedInv'
  BY TypedInvIsInductive DEF IInv
<1>2. Safe'
  <2>1. CASE Open
    BY <2>1, OpenKeeps
  <2>2. CASE GoDown
    BY <2>2, GoDownKeeps
  <2>3. ASSUME NEW c \in Clients, Receive(c) \/ Serve(c) PROVE Safe'
    BY <2>3, ReceiveKeeps, BeginKeeps, FindKeeps, InsertKeeps, InsertPartKeeps, ReadBackKeeps,
       UpdateKeeps, DeleteKeeps, RollbackKeeps, CommitKeeps, EndKeeps DEF Serve
  <2>4. CASE UNCHANGED vars
    BY <2>4 DEF vars, connection, locals, histories, IInv, Safe, Sound, Transactional, Keyed,
                Whole, Kept, Renewals, FeedsAreWhole, AddedIsDurable, UpdatedIsDurable, Keys,
                Op, Renewed
  <2> QED
    BY <2>1, <2>2, <2>3, <2>4 DEF Next
<1> QED
  BY <1>1, <1>2 DEF IInv

THEOREM TypeInvariant == Spec => []TypeOK
<1>1. TypedInv => TypeOK
  BY DEF TypedInv
<1>2. TypedInv /\ [Next]_vars => TypedInv'
  BY TypedInvIsInductive
<1> QED
  BY <1>1, <1>2, InitTypedInv, PTL DEF Spec

(***************************************************************************)
(* The inductive invariant, when requests come one at a time.              *)
(***************************************************************************)
THEOREM SpecIInv ==
  ASSUME Alone
  PROVE  Spec => []IInv
<1>1. Init => IInv
  BY InitTypedInv, InitSafe DEF IInv
<1>2. IInv /\ [Next]_vars => IInv'
  BY IInvIsInductive
<1> QED
  BY <1>1, <1>2, PTL DEF Spec

(***************************************************************************)
(* What the hub has answered that it added stays in the file, whatever     *)
(* requests follow one another and wherever the process dies, until a      *)
(* request deletes it: the row is in the connection's tables from its      *)
(* insertion on, neither a rollback nor a crash takes a committed row      *)
(* away, and no answer precedes the commit.                                *)
(***************************************************************************)
THEOREM AdditionsAreDurable ==
  ASSUME Alone
  PROVE  Spec => []AddedIsDurable
<1>1. IInv => AddedIsDurable
  BY DEF IInv, Safe, Kept
<1> QED
  BY <1>1, SpecIInv, PTL

(***************************************************************************)
(* A feed reaches the file with all of its parts or not at all: the        *)
(* statements between its insertion and its completion are in a            *)
(* transaction, which the crash of the process discards.                   *)
(***************************************************************************)
THEOREM FeedsAreAddedWhole ==
  ASSUME Alone
  PROVE  Spec => []FeedsAreWhole
<1>1. IInv => FeedsAreWhole
  BY DEF IInv, Safe, Whole
<1> QED
  BY <1>1, SpecIInv, PTL

(***************************************************************************)
(* An answered update made in auto-commit mode stays in the file until a   *)
(* request changes or deletes the row: the row it read back is the one it  *)
(* wrote, and it is the only row with its key.                             *)
(***************************************************************************)
THEOREM UpdatesAreDurable ==
  ASSUME Alone
  PROVE  Spec => []UpdatedIsDurable
<1>1. IInv => UpdatedIsDurable
  BY DEF IInv, Safe, Renewals
<1> QED
  BY <1>1, SpecIInv, PTL
==============================================================================
