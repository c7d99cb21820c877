------------------------- MODULE EnablerRegistryProofs -------------------------
(***************************************************************************)
(* Theorems about module EnablerRegistry, for any number of requests, one  *)
(* after the other, and any number of enablers, features and plugins.      *)
(*                                                                         *)
(* The invariant is built in layers, each inductive with those before, and *)
(* most of them say the same of the tables, as the connection sees them,   *)
(* and of the file, to which a rollback or a crash goes back: IInv, what   *)
(* the locals of the client are worth; Keyed, the keys of the rows;        *)
(* Bounded, what the request may still take from the bounds; FlagInv,      *)
(* flags and feeds, and that nothing is uncommitted in auto-commit mode;   *)
(* Remembered, what plugin objects remember; SeqInv, features.             *)
(***************************************************************************)
EXTENDS EnablerRegistry, FiniteSetTheorems, SequenceTheorems, TLAPS

MaybeConfig == Configs \cup {Null}

\* A row, what getEnabler makes of it, and what else is kept, without the bounds.
Row == [id : Nat \ {0}, name : Names, plugin : Plugins, config : MaybeConfig]
Copy == [id : Nat \ {0}, name : Names, plugin : Plugins \cup {Null}, config : MaybeConfig]
FeatureRow == [id : Nat \ {0}, enabler : Nat \ {0}, kind : Kinds, isFeed : BOOLEAN]
Object == [script : Plugins, id : Nat \ {0}, name : Names, config : MaybeConfig]
Local == [pc : Steps, request : Request \cup {Null}, enabler : Copy \cup {Null},
          feature : Nat, plugin : Numbers \cup {None}, todo : Seq(MaybeConfig), count : Nat]

\* Where a client looks for its plugin object or configures it, has one, and
\* has an enabler.
Configuring == {"get", "register", "ask", "configure", "save"}
Holding == {"register", "ask", "configure", "save", "deleteFeatures", "add"}
Working == {"get", "update", "delete", "remove"} \cup Holding

\* The numbers of the plugin objects that the map or a request refers to.
Used == Live \ {None}

\* Enablers and features, in the tables or in the file.
Filed(es, fs) == es \subseteq Row /\ fs \subseteq FeatureRow /\ IsFiniteSet(fs)

\* What the file has: the fields of Rows.
FileRows == [enablers : SUBSET Row, features : SUBSET FeatureRow, feeds : SUBSET Nat,
             torn : SUBSET Nat, spoiled : SUBSET Nat]

Typed ==
  /\ pluginInfos \subseteq Plugins
  /\ lastEnabler \in Nat /\ lastFeature \in Nat
  /\ Filed(enablers, features)
  /\ feeds \subseteq Nat /\ torn \subseteq Nat /\ spoiled \subseteq Nat
  /\ saved \in FileRows /\ Filed(saved.enablers, saved.features) /\ autoCommit \in BOOLEAN
  /\ objects \in [Numbers -> Object \cup {Null}]
  /\ plugins \in [Names -> Numbers \cup {None}]
  /\ client \in Local

\* What the locals of a client are where it is.
Knows(x) ==
  /\ x.pc = "idle" => x = Resting
  /\ x.pc # "idle" => x.request \in Request
  /\ x.pc = "insert" => x.request.op = "post"
  /\ x.pc \in Configuring => x.request.op \in {"post", "put", "use"}
  /\ x.pc = "add" => x.request.op \in {"post", "put"}
  /\ x.pc \in {"deleteFeatures", "update"} => x.request.op = "put"
  /\ x.pc \in Configuring \cup {"deleteFeatures", "add"} /\ x.request.op = "put" =>
       x.request.config # Null
  /\ x.pc \in {"switch", "flag"} => x.request.op = "switch" /\ x.feature # 0
  /\ x.pc \in {"delete", "remove"} => x.request.op = "delete"
  /\ x.pc \in {"deletePlugin", "removeAll"} => x.request.op = "deletePlugin"
  /\ x.pc \in Working => x.enabler \in Copy
  /\ x.pc \in Holding => x.plugin # None
  /\ x.pc \in {"insert", "find", "get"} => x.plugin = None
  /\ x.pc \in {"insert", "find", "deleteFeatures"} \cup Configuring => x.count = 0
  /\ x.pc \in {"configure", "save"} => x.todo # <<>>

Known == \A i \in Used : objects[i] \in Object

IInv == Typed /\ Knows(client) /\ Known

------------------------------------------------------------------------------
(* What a step makes of the locals of its client.                          *)

\* The client moves, and its locals become these.
Becomes(label, r, e, f, p, t, n) ==
  /\ client' \in Local
  /\ client'.pc = label /\ client'.request = r /\ client'.enabler = e
  /\ client'.feature = f /\ client'.plugin = p
  /\ client'.todo = t /\ client'.count = n

feature == client.feature
count == client.count

LEMMA RequestFacts ==
  ASSUME NEW r \in Request
  PROVE  /\ r.op \in {"post", "put", "delete", "switch", "deletePlugin", "use"}
         /\ r.op = "post" => r.name \in Names /\ r.plugin \in Plugins
         /\ r.op = "put" => r.name \in Names /\ r.newName \in Names
         /\ r.op \in {"post", "put"} => r.config \in MaybeConfig
         /\ r.op = "delete" => r.name \in Names
         /\ r.op = "switch" => r.name \in Names /\ r.kind \in Switched /\ r.isFeed \in BOOLEAN
         /\ r.op = "deletePlugin" => r.plugin \in Plugins
BY DEF Request, MaybeConfig

LEMMA RestingIsLocal ==
  /\ Resting \in Local
  /\ Resting = [pc |-> "idle", request |-> Null, enabler |-> Null, feature |-> 0,
                plugin |-> None, todo |-> <<>>, count |-> 0]
<1>1. <<>> \in Seq(MaybeConfig)
  OBVIOUS
<1> QED
  BY <1>1 DEF Resting, Local, Steps, None

LEMMA LocalTypes ==
  ASSUME Typed
  PROVE  /\ client \in Local
         /\ client.pc \in Steps /\ request \in Request \cup {Null}
         /\ enabler \in Copy \cup {Null} /\ feature \in Nat
         /\ plugin \in Numbers \cup {None} /\ todo \in Seq(MaybeConfig) /\ count \in Nat
BY DEF Typed, Local, request, enabler, feature, plugin, todo, count

LEMMA AnswerBecomes ==
  ASSUME Answer
  PROVE  client' \in Local /\ client' = Resting
BY RestingIsLocal DEF Answer

LEMMA GotoBecomes ==
  ASSUME Typed, NEW label \in Steps, Goto(label)
  PROVE  Becomes(label, request, enabler, feature, plugin, todo, count)
<1> DEFINE y == [client EXCEPT !.pc = label]
<1>1. client' = y
  BY DEF Goto
<1>2. y \in Local
  BY LocalTypes DEF Local, count
<1>3. /\ y.pc = label /\ y.request = request /\ y.enabler = enabler /\ y.feature = feature
      /\ y.plugin = plugin /\ y.todo = todo /\ y.count = count
  BY LocalTypes DEF Local, request, enabler, feature, plugin, todo, count
<1> HIDE DEF y
<1> QED
  BY <1>1, <1>2, <1>3 DEF Becomes

LEMMA RequestBecomes ==
  ASSUME Typed, NEW label \in Steps, NEW r \in Request,
         client' = [client EXCEPT !.request = r, !.pc = label]
  PROVE  Becomes(label, r, enabler, feature, plugin, todo, count)
<1> DEFINE y == [client EXCEPT !.request = r, !.pc = label]
<1>1. client' = y
  OBVIOUS
<1>2. y \in Local
  BY LocalTypes DEF Local, count
<1>3. /\ y.pc = label /\ y.request = r /\ y.enabler = enabler /\ y.feature = feature
      /\ y.plugin = plugin /\ y.todo = todo /\ y.count = count
  BY LocalTypes DEF Local, request, enabler, feature, plugin, todo, count
<1> HIDE DEF y
<1> QED
  BY <1>1, <1>2, <1>3 DEF Becomes

LEMMA EnablerBecomes ==
  ASSUME Typed, NEW label \in Steps, NEW e \in Copy,
         client' = [client EXCEPT !.enabler = e, !.pc = label]
  PROVE  Becomes(label, request, e, feature, plugin, todo, count)
<1> DEFINE y == [client EXCEPT !.enabler = e, !.pc = label]
<1>1. client' = y
  OBVIOUS
<1>2. y \in Local
  BY LocalTypes DEF Local, count
<1>3. /\ y.pc = label /\ y.request = request /\ y.enabler = e /\ y.feature = feature
      /\ y.plugin = plugin /\ y.todo = todo /\ y.count = count
  BY LocalTypes DEF Local, request, enabler, feature, plugin, todo, count
<1> HIDE DEF y
<1> QED
  BY <1>1, <1>2, <1>3 DEF Becomes

LEMMA FoundBecomes ==
  ASSUME Typed, NEW label \in Steps, NEW e \in Copy, NEW n \in Nat,
         client' = [client EXCEPT !.enabler = e, !.count = n, !.pc = label]
  PROVE  Becomes(label, request, e, feature, plugin, todo, n)
<1> DEFINE y == [client EXCEPT !.enabler = e, !.count = n, !.pc = label]
<1>1. client' = y
  OBVIOUS
<1>2. y \in Local
  BY LocalTypes DEF Local, count
<1>3. /\ y.pc = label /\ y.request = request /\ y.enabler = e /\ y.feature = feature
      /\ y.plugin = plugin /\ y.todo = todo /\ y.count = n
  BY LocalTypes DEF Local, request, enabler, feature, plugin, todo, count
<1> HIDE DEF y
<1> QED
  BY <1>1, <1>2, <1>3 DEF Becomes

LEMMA FeatureBecomes ==
  ASSUME Typed, NEW label \in Steps, NEW f \in Nat,
         client' = [client EXCEPT !.feature = f, !.pc = label]
  PROVE  Becomes(label, request, enabler, f, plugin, todo, count)
<1> DEFINE y == [client EXCEPT !.feature = f, !.pc = label]
<1>1. client' = y
  OBVIOUS
<1>2. y \in Local
  BY LocalTypes DEF Local, count
<1>3. /\ y.pc = label /\ y.request = request /\ y.enabler = enabler /\ y.feature = f
      /\ y.plugin = plugin /\ y.todo = todo /\ y.count = count
  BY LocalTypes DEF Local, request, enabler, feature, plugin, todo, count
<1> HIDE DEF y
<1> QED
  BY <1>1, <1>2, <1>3 DEF Becomes

LEMMA PluginBecomes ==
  ASSUME Typed, NEW label \in Steps, NEW p \in Numbers \cup {None},
         client' = [client EXCEPT !.plugin = p, !.pc = label]
  PROVE  Becomes(label, request, enabler, feature, p, todo, count)
<1> DEFINE y == [client EXCEPT !.plugin = p, !.pc = label]
<1>1. client' = y
  OBVIOUS
<1>2. y \in Local
  BY LocalTypes DEF Local, count
<1>3. /\ y.pc = label /\ y.request = request /\ y.enabler = enabler /\ y.feature = feature
      /\ y.plugin = p /\ y.todo = todo /\ y.count = count
  BY LocalTypes DEF Local, request, enabler, feature, plugin, todo, count
<1> HIDE DEF y
<1> QED
  BY <1>1, <1>2, <1>3 DEF Becomes

LEMMA TodoBecomes ==
  ASSUME Typed, NEW label \in Steps, NEW t \in Seq(MaybeConfig),
         client' = [client EXCEPT !.todo = t, !.pc = label]
  PROVE  Becomes(label, request, enabler, feature, plugin, t, count)
<1> DEFINE y == [client EXCEPT !.todo = t, !.pc = label]
<1>1. client' = y
  OBVIOUS
<1>2. y \in Local
  BY LocalTypes DEF Local, count
<1>3. /\ y.pc = label /\ y.request = request /\ y.enabler = enabler /\ y.feature = feature
      /\ y.plugin = plugin /\ y.todo = t /\ y.count = count
  BY LocalTypes DEF Local, request, enabler, feature, plugin, todo, count
<1> HIDE DEF y
<1> QED
  BY <1>1, <1>2, <1>3 DEF Becomes

LEMMA CountBecomes ==
  ASSUME Typed, client' = [client EXCEPT !.count = @ + 1]
  PROVE  Becomes(client.pc, request, enabler, feature, plugin, todo, count + 1)
<1> DEFINE y == [client EXCEPT !.count = @ + 1]
<1>1. client' = y
  OBVIOUS
<1>2. y \in Local
  <2>1. client.count + 1 \in Nat
    BY LocalTypes DEF count
  <2> QED
    BY <2>1, LocalTypes DEF Local
<1>3. /\ y.pc = client.pc /\ y.request = request /\ y.enabler = enabler /\ y.feature = feature
      /\ y.plugin = plugin /\ y.todo = todo /\ y.count = count + 1
  BY LocalTypes DEF Local, request, enabler, feature, plugin, todo, count
<1> HIDE DEF y
<1> QED
  BY <1>1, <1>2, <1>3 DEF Becomes

\* The client goes on to show an enabler, as a request of its own.
Shows(e) == Becomes("get", [op |-> "use"], e, 0, None, <<>>, 0)

LEMMA ShownBecomes ==
  ASSUME Typed, NEW e \in Copy, ShowFeature(e)
  PROVE  Shows(e)
<1> DEFINE y == [Resting EXCEPT !.pc = "get", !.request = [op |-> "use"], !.enabler = e]
<1>1. client' = y
  BY DEF ShowFeature
<1>2. /\ y.pc = "get" /\ y.request = [op |-> "use"] /\ y.enabler = e /\ y.feature = 0
      /\ y.plugin = None /\ y.todo = <<>> /\ y.count = 0
  BY DEF Resting
<1>3. [op |-> "use"] \in Request /\ "get" \in Steps /\ Resting \in Local
  BY RestingIsLocal DEF Request, Steps
<1>4. y \in Local
  BY <1>3 DEF Local
<1> HIDE DEF y
<1> QED
  BY <1>1, <1>2, <1>4 DEF Shows, Becomes

LEMMA ShowBecomes ==
  ASSUME Typed, NEW e \in Copy, NEW n, Show(e, n)
  PROVE  (client' \in Local /\ client' = Resting) \/ Shows(e)
<1>1. Answer \/ ShowFeature(e)
  BY DEF Show, Answer, ShowFeature
<1> QED
  BY <1>1, AnswerBecomes, ShownBecomes

------------------------------------------------------------------------------
(* The steps of a client, one lemma for each action: where they lead.      *)

\* The client answers.
Rests == client' \in Local /\ client' = Resting

\* The client goes on with the locals it has, or with another list to pass on.
Goes(label) ==
  Becomes(label, request, enabler, feature, plugin, todo, count)
GoesWith(label, t) ==
  Becomes(label, request, enabler, feature, plugin, t, count)

LEMMA GotoGoes ==
  ASSUME Typed, NEW label \in Steps, Goto(label)
  PROVE  Goes(label)
BY GotoBecomes DEF Goes

LEMMA AnswerRests ==
  ASSUME Typed, Answer
  PROVE  Rests
BY AnswerBecomes DEF Rests

LEMMA Knowing ==
  ASSUME IInv
  PROVE  /\ Typed /\ Knows(client)
         /\ client.pc # "idle" => request \in Request
         /\ client.pc \in Working => enabler \in Copy
         /\ client.pc \in Holding => plugin \in Numbers /\ objects[plugin] \in Object
<1>1. Typed /\ Knows(client) /\ plugin \in Numbers \cup {None}
  BY LocalTypes DEF IInv
<1>2. plugin # None => plugin \in Numbers /\ objects[plugin] \in Object
  BY <1>1 DEF IInv, Known, Used, Live
<1> QED
  BY <1>1, <1>2 DEF Knows, request, enabler, plugin

LEMMA RowIsCopy == Row \subseteq Copy
BY DEF Row, Copy

LEMMA ReadIsCopy ==
  ASSUME NEW e \in Row
  PROVE  /\ Read(e) \in Copy /\ Read(e).id = e.id /\ Read(e).name = e.name
         /\ Read(e).config = e.config /\ Read(e).plugin \in {Null, e.plugin}
BY DEF Read, Row, Copy

LEMMA UpdatedIsRow ==
  ASSUME Typed, NEW id, NEW name \in Names, NEW config \in MaybeConfig, Writable(id, name)
  PROVE  /\ Updated(id, name, config) \in Row
         /\ Updated(id, name, config).id = id
         /\ Updated(id, name, config).name = name
         /\ Updated(id, name, config).config = config
         /\ \E e \in WithId(id) : Updated(id, name, config).plugin = e.plugin
<1> DEFINE e == CHOOSE x \in WithId(id) : TRUE
<1>1. e \in WithId(id)
  BY DEF Writable
<1>2. e \in Row /\ e.id = id
  BY <1>1 DEF WithId, Typed, Filed
<1>3. Updated(id, name, config) = [e EXCEPT !.name = name, !.config = config]
  BY DEF Updated
<1> HIDE DEF e
<1> QED
  BY <1>1, <1>2, <1>3 DEF Row

LEMMA InsertLeads ==
  ASSUME IInv, Insert
  PROVE  \/ /\ Rests /\ UNCHANGED lastEnabler
            /\ \/ RollBack
               \/ UNCHANGED <<enablers, features, feeds, connection, histories>>
         \/ \E e \in Row :
              /\ e = [id |-> lastEnabler + 1, name |-> request.name,
                      plugin |-> request.plugin, config |-> request.config]
              /\ WithName(e.name) = {} /\ Op = "post"
              /\ enablers' = enablers \cup {e} /\ lastEnabler' = lastEnabler + 1
              /\ UNCHANGED <<features, feeds, histories>> /\ Transaction
              /\ Becomes("get", request, e, feature, plugin, todo, count)
<1>1. Typed /\ request \in Request /\ Op = "post" /\ lastEnabler \in Nat
  BY Knowing DEF Insert, At, Knows, Op, request, Typed
<1>2. CASE ~(request.plugin \in pluginInfos /\ WithName(request.name) = {})
  BY <1>1, <1>2, AnswerRests DEF Insert
<1>3. CASE request.plugin \in pluginInfos /\ WithName(request.name) = {}
  <2> DEFINE e == [id |-> lastEnabler + 1, name |-> request.name,
                   plugin |-> request.plugin, config |-> request.config]
  <2>1. /\ enablers' = enablers \cup {e} /\ lastEnabler' = lastEnabler + 1
        /\ UNCHANGED <<features, feeds, histories>> /\ Transaction
        /\ client' = [client EXCEPT !.enabler = e, !.pc = "get"]
    BY <1>3 DEF Insert
  <2>2. e \in Row /\ e.name = request.name
    BY <1>1, RequestFacts DEF Row, Op
  <2>3. e \in Copy /\ "get" \in Steps
    BY <2>2, RowIsCopy DEF Steps
  <2> HIDE DEF e
  <2>4. Becomes("get", request, e, feature, plugin, todo, count)
    BY <1>1, <2>1, <2>3, EnablerBecomes
  <2> QED
    BY <1>1, <1>3, <2>1, <2>2, <2>4 DEF e
<1> QED
  BY <1>2, <1>3

\* A request finds the row of its name.
Finds(e, label, n) ==
  /\ e \in enablers /\ e.name = request.name /\ Readable(e)
  /\ Becomes(label, request, e, feature, plugin, todo, n)

LEMMA FindLeads ==
  ASSUME IInv, Find
  PROVE  \/ Rests
         \/ \E e \in enablers :
              \/ Op = "delete" /\ Finds(e, "delete", Cardinality(FeaturesOf(e.id)))
              \/ Op = "put" /\ request.config = Null /\ Finds(e, "update", 0)
              \/ Op = "put" /\ request.config # Null /\ Finds(e, "get", 0)
<1>1. Typed /\ Op \in {"put", "delete"}
  BY DEF Find, IInv
<1>2. CASE Answer
  BY <1>1, <1>2, AnswerRests
<1>3. CASE ~Answer
  <2>1. PICK e \in WithName(request.name) :
          /\ Readable(e)
          /\ client' = [client EXCEPT !.enabler = e,
                  !.count = IF Op = "delete" THEN Cardinality(FeaturesOf(e.id)) ELSE 0,
                  !.pc = CASE Op = "delete" -> "delete"
                              [] Op = "put" /\ request.config = Null -> "update"
                              [] OTHER -> "get"]
    BY <1>3 DEF Find
  <2>2. e \in enablers /\ e.name = request.name /\ e \in Copy
    BY <1>1, RowIsCopy DEF WithName, Typed, Filed
  <2>3. Cardinality(FeaturesOf(e.id)) \in Nat
    <3>1. FeaturesOf(e.id) \in SUBSET features
      BY DEF FeaturesOf
    <3> QED
      BY <1>1, <3>1, FS_Subset, FS_CardinalityType DEF Typed, Filed
  <2>4. "delete" \in Steps /\ "update" \in Steps /\ "get" \in Steps
    BY DEF Steps
  <2>5. CASE Op = "delete"
    <3>1. client' = [client EXCEPT !.enabler = e, !.count = Cardinality(FeaturesOf(e.id)),
                                     !.pc = "delete"]
      BY <2>1, <2>5
    <3> QED
      BY <1>1, <2>1, <2>2, <2>3, <2>4, <2>5, <3>1, FoundBecomes DEF Finds
  <2>6. CASE Op = "put" /\ request.config = Null
    <3>1. client' = [client EXCEPT !.enabler = e, !.count = 0, !.pc = "update"]
      BY <2>1, <2>6
    <3> QED
      BY <1>1, <2>1, <2>2, <2>4, <2>6, <3>1, FoundBecomes DEF Finds
  <2>7. CASE Op = "put" /\ request.config # Null
    <3>1. client' = [client EXCEPT !.enabler = e, !.count = 0, !.pc = "get"]
      BY <2>1, <2>7
    <3> QED
      BY <1>1, <2>1, <2>2, <2>4, <2>7, <3>1, FoundBecomes DEF Finds
  <2> QED
    BY <1>1, <2>5, <2>6, <2>7
<1> QED
  BY <1>2, <1>3

LEMMA FindAnyLeads ==
  ASSUME IInv, FindAny
  PROVE  \/ Rests
         \/ \E e \in enablers :
              Becomes("get", request, Read(e), feature, plugin, todo, count)
<1>1. Typed
  BY DEF IInv
<1>2. CASE Answer
  BY <1>1, <1>2, AnswerRests
<1>3. CASE ~Answer
  <2>1. PICK e \in enablers : client' = [client EXCEPT !.enabler = Read(e), !.pc = "get"]
    BY <1>3 DEF FindAny
  <2>2. Read(e) \in Copy /\ "get" \in Steps
    BY <1>1, ReadIsCopy DEF Typed, Filed, Steps
  <2> QED
    BY <1>1, <2>1, <2>2, EnablerBecomes
<1> QED
  BY <1>2, <1>3

LEMMA FindFeatureLeads ==
  ASSUME IInv, FindFeature
  PROVE  \/ Rests
         \/ \E e \in enablers : Shows(e)
         \/ \E f \in features :
              /\ f.isFeed # request.isFeed /\ Op = "switch"
              /\ Becomes("switch", request, enabler, f.id, plugin, todo, count)
<1>1. Typed
  BY DEF IInv
<1>2. CASE Answer
  BY <1>1, <1>2, AnswerRests
<1>3. CASE ~Answer
  <2> DEFINE found == {e \in WithName(request.name) : Readable(e)}
             named == {f \in features : f.kind = request.kind /\ \E e \in found : f.enabler = e.id}
  <2>1. PICK e \in found, f \in named :
          IF f.isFeed = request.isFeed
          THEN ShowFeature(e)
          ELSE client' = [client EXCEPT !.feature = f.id, !.pc = "switch"]
    BY <1>3 DEF FindFeature
  <2>2. e \in enablers /\ f \in features
    BY DEF WithName
  <2>3. CASE f.isFeed = request.isFeed
    <3>1. e \in Copy
      BY <1>1, <2>2, RowIsCopy DEF Typed, Filed
    <3> QED
      BY <1>1, <2>1, <2>2, <2>3, <3>1, ShownBecomes
  <2>4. CASE f.isFeed # request.isFeed
    <3>1. f.id \in Nat /\ "switch" \in Steps /\ Op = "switch"
      BY <1>1, <2>2 DEF Typed, Filed, FeatureRow, Steps, FindFeature
    <3> QED
      BY <1>1, <2>1, <2>2, <2>4, <3>1, FeatureBecomes
  <2> QED
    BY <2>3, <2>4
<1> QED
  BY <1>2, <1>3

\* The values of a function are no more than its arguments.
LEMMA FewValues ==
  ASSUME NEW S, IsFiniteSet(S), NEW f
  PROVE  IsFiniteSet({f[x] : x \in S}) /\ Cardinality({f[x] : x \in S}) <= Cardinality(S)
<1> DEFINE T == {f[x] : x \in S}
           g == [x \in S |-> f[x]]
<1>1. g \in Surjection(S, T)
  BY DEF Surjection
<1> HIDE DEF g, T
<1>2. IsFiniteSet(T) /\ Cardinality(T) <= Cardinality(S)
  BY <1>1, FS_Surjection
<1> QED
  BY <1>2 DEF T

LEMMA NumberLeft ==
  ASSUME IInv, At("get"), plugins[enabler.name] = None
  PROVE  Free # {}
<1>1. Typed /\ plugin = None /\ enabler.name \in Names
  BY Knowing DEF At, Knows, plugin, Working, Copy
<1> DEFINE A == {plugins[n] : n \in Names}
<1>2. IsFiniteSet(A) /\ Cardinality(A) <= Cardinality(Names) /\ Cardinality(Names) \in Nat
  BY FewValues, EnablersAssumption, FS_CardinalityType
<1>3. Live \subseteq A
  BY <1>1 DEF Live
<1> HIDE DEF A
<1>4. Cardinality(Numbers) = Cardinality(Names) + 1
  <2> DEFINE n == Cardinality(Names) + 1
  <2>1. n \in Nat
    BY <1>2
  <2> HIDE DEF n
  <2>2. Cardinality(1..n) = n
    BY <2>1, FS_Interval
  <2> QED
    BY <2>2 DEF n, Numbers
<1> SUFFICES ASSUME Free = {} PROVE FALSE
  OBVIOUS
<1>5. Numbers \subseteq A
  BY <1>3 DEF Free
<1>6. Cardinality(Numbers) <= Cardinality(A) /\ Cardinality(A) \in Nat
  BY <1>2, <1>5, FS_Subset, FS_CardinalityType
<1> QED
  BY <1>2, <1>4, <1>6

NewObject ==
  [script |-> enabler.plugin, id |-> enabler.id, name |-> enabler.name, config |-> Null]

\* The plugin object that the map has under the name, or a new one.
LEMMA GetLeads ==
  ASSUME IInv, Get
  PROVE  \/ Rests /\ UNCHANGED objects
         \/ \E i \in Used :
              /\ i = plugins[enabler.name] /\ UNCHANGED objects
              /\ Becomes("ask", request, enabler, feature, i, todo, count)
         \/ \E i \in Free :
              /\ plugins[enabler.name] = None /\ enabler.plugin \in Plugins
              /\ objects' = [objects EXCEPT ![i] = NewObject]
              /\ Becomes("register", request, enabler, feature, i, todo, count)
<1>1. Typed /\ At("get") /\ enabler \in Copy
  BY Knowing DEF Get, At, Working
<1>2. enabler.name \in Names /\ enabler.plugin \in Plugins \cup {Null}
  BY <1>1 DEF Copy
<1> DEFINE known == plugins[enabler.name]
<1>3. known \in Numbers \cup {None} /\ known \in Live
  BY <1>1, <1>2 DEF Typed, Live
<1>4. CASE known # None /\ UNCHANGED objects
           /\ client' = [client EXCEPT !.plugin = known, !.pc = "ask"]
  <2>1. known \in Used /\ "ask" \in Steps
    BY <1>3, <1>4 DEF Used, Steps
  <2> HIDE DEF known
  <2>2. Becomes("ask", request, enabler, feature, known, todo, count)
    BY <1>1, <1>3, <1>4, <2>1, PluginBecomes
  <2> QED
    BY <1>4, <2>1, <2>2 DEF known
<1>5. CASE known = None /\ enabler.plugin # Null
           /\ \E i : /\ i = CHOOSE j \in Free : TRUE
                     /\ objects' = [objects EXCEPT ![i] = NewObject]
                     /\ client' = [client EXCEPT !.plugin = i, !.pc = "register"]
  <2>1. PICK i : /\ i = CHOOSE j \in Free : TRUE
                 /\ objects' = [objects EXCEPT ![i] = NewObject]
                 /\ client' = [client EXCEPT !.plugin = i, !.pc = "register"]
    BY <1>5
  <2>2. i \in Free
    BY <1>1, <1>5, <2>1, NumberLeft
  <2>3. i \in Numbers /\ "register" \in Steps
    BY <2>2 DEF Free, Steps
  <2>4. Becomes("register", request, enabler, feature, i, todo, count)
    BY <1>1, <2>1, <2>3, PluginBecomes
  <2> QED
    BY <1>2, <1>5, <2>1, <2>2, <2>4
<1>6. CASE Answer /\ UNCHANGED objects
  BY <1>1, <1>6, AnswerRests
<1> HIDE DEF known
<1>7. \/ known # None /\ UNCHANGED objects
         /\ client' = [client EXCEPT !.plugin = known, !.pc = "ask"]
      \/ /\ known = None /\ enabler.plugin # Null
         /\ \E i : /\ i = CHOOSE j \in Free : TRUE
                   /\ objects' = [objects EXCEPT ![i] = NewObject]
                   /\ client' = [client EXCEPT !.plugin = i, !.pc = "register"]
      \/ Answer /\ UNCHANGED objects
  BY DEF Get, NewObject, known
<1> QED
  BY <1>4, <1>5, <1>6, <1>7

LEMMA RegisterLeads ==
  ASSUME IInv, Register
  PROVE  Goes("ask") /\ plugins' = [plugins EXCEPT ![enabler.name] = plugin]
BY GotoGoes DEF IInv, Register, Put, Steps

\* What follows the configuration.
Finishes ==
  \/ Op # "put" /\ Rests
  \/ /\ Op = "post" /\ Installable(objects[plugin])
     /\ GoesWith("add", <<>>)
  \/ Op = "put" /\ GoesWith("deleteFeatures", <<>>)

LEMMA DoneFinishes ==
  ASSUME Typed, Done
  PROVE  Finishes
<1>1. <<>> \in Seq(MaybeConfig) /\ "add" \in Steps /\ "deleteFeatures" \in Steps
  BY DEF Steps
<1>2. CASE Answer /\ Op # "put"
  BY <1>2, AnswerRests DEF Finishes
<1>3. CASE Op = "post" /\ ~Answer
  <2>1. /\ Installable(objects[plugin])
        /\ client' = [client EXCEPT !.todo = <<>>, !.pc = "add"]
    BY <1>3 DEF Done
  <2>2. GoesWith("add", <<>>)
    BY <1>1, <2>1, TodoBecomes DEF GoesWith
  <2> QED
    BY <1>3, <2>1, <2>2 DEF Finishes
<1>4. CASE Op = "put"
  <2>1. client' = [client EXCEPT !.todo = <<>>, !.pc = "deleteFeatures"]
    BY <1>4 DEF Done
  <2>2. GoesWith("deleteFeatures", <<>>)
    BY <1>1, <2>1, TodoBecomes DEF GoesWith
  <2> QED
    BY <1>4, <2>2 DEF Finishes
<1> QED
  BY <1>2, <1>3, <1>4 DEF Done

Old == IF objects[plugin].script \in Configurable THEN <<enabler.config>> ELSE <<>>
New == IF Op = "put" THEN <<request.config>> ELSE <<>>

LEMMA AskLeads ==
  ASSUME IInv, Ask
  PROVE  \/ Rests
         \/ Op # "put" /\ Finishes
         \/ /\ Old \o New # <<>>
            /\ GoesWith("configure", Old \o New)
<1>1. Typed /\ request \in Request /\ enabler \in Copy
  BY Knowing DEF Ask, At, Working, Holding
<1>2. /\ Old \in Seq(MaybeConfig) /\ New \in Seq(MaybeConfig)
      /\ Old \o New \in Seq(MaybeConfig)
  <2>1. enabler.config \in MaybeConfig
    BY <1>1 DEF Copy
  <2>2. Op = "put" => request.config \in MaybeConfig
    BY <1>1, RequestFacts DEF Op
  <2>3. Old \in Seq(MaybeConfig) /\ New \in Seq(MaybeConfig)
    BY <2>1, <2>2 DEF Old, New
  <2> QED
    BY <2>3
<1>3. \/ Old \o New = <<>> /\ Done
      \/ Answer
      \/ /\ Old \o New # <<>>
         /\ client' = [client EXCEPT !.todo = Old \o New, !.pc = "configure"]
  BY DEF Ask, Old, New
<1>4. CASE Old \o New = <<>> /\ Done
  <2>1. ASSUME Op = "put" PROVE FALSE
    <3>1. Len(Old \o New) = Len(Old) + Len(New) /\ Len(Old) \in Nat
      BY <1>2
    <3>2. Len(New) = 1 /\ Len(Old \o New) = 0
      BY <1>4, <2>1 DEF New
    <3> QED
      BY <3>1, <3>2
  <2> QED
    BY <1>1, <1>4, <2>1, DoneFinishes
<1>6. CASE Answer
  BY <1>1, <1>6, AnswerRests
<1>5. CASE Old \o New # <<>>
           /\ client' = [client EXCEPT !.todo = Old \o New, !.pc = "configure"]
  <2>1. "configure" \in Steps
    BY DEF Steps
  <2> DEFINE t == Old \o New
  <2>2. t \in Seq(MaybeConfig) /\ client' = [client EXCEPT !.todo = t, !.pc = "configure"]
    BY <1>2, <1>5
  <2> HIDE DEF t
  <2>3. Becomes("configure", request, enabler, feature, plugin, t, count)
    BY <1>1, <2>1, <2>2, TodoBecomes
  <2> QED
    BY <1>5, <2>3 DEF GoesWith, t
<1> QED
  BY <1>3, <1>4, <1>5, <1>6

\* The next configuration, if there is one.
Continues ==
  \/ Len(todo) > 1 /\ GoesWith("configure", Tail(todo))
  \/ Len(todo) <= 1 /\ Finishes

LEMMA ContinueLeads ==
  ASSUME Typed, todo # <<>>, Continue
  PROVE  Continues
<1>1. todo \in Seq(MaybeConfig) /\ "configure" \in Steps /\ Len(todo) \in Nat
  BY LocalTypes DEF Steps
<1>2. CASE Len(todo) > 1
  <2>1. Tail(todo) \in Seq(MaybeConfig)
    BY <1>1
  <2>2. client' = [client EXCEPT !.todo = Tail(todo), !.pc = "configure"]
    BY <1>2 DEF Continue, todo, Typed
  <2> DEFINE t == Tail(todo)
  <2> HIDE DEF t
  <2>3. Becomes("configure", request, enabler, feature, plugin, t, count)
    BY <1>1, <2>1, <2>2, TodoBecomes DEF t
  <2> QED
    BY <1>2, <2>3 DEF Continues, GoesWith, t
<1>3. CASE ~(Len(todo) > 1)
  BY <1>1, <1>3, DoneFinishes DEF Continue, Continues
<1> QED
  BY <1>2, <1>3

LEMMA ConfigureLeads ==
  ASSUME IInv, Configure
  PROVE  \/ Rests /\ UNCHANGED objects
         \/ /\ objects[plugin].config = Head(todo)
            /\ Continues /\ UNCHANGED objects
         \/ /\ ~(Op = "put" /\ Len(todo) = 1)
            /\ Continues /\ UNCHANGED objects
         \/ /\ objects' = [objects EXCEPT ![plugin].config = Head(todo)]
            /\ Goes("save")
<1>1. Typed /\ todo # <<>> /\ "save" \in Steps
  BY Knowing DEF Configure, At, Knows, todo, Steps
<1> QED
  BY <1>1, ContinueLeads, AnswerRests, GotoGoes DEF Configure

LEMMA SaveLeads ==
  ASSUME IInv, Save
  PROVE  Continues
<1>1. Typed /\ todo # <<>>
  BY Knowing DEF Save, At, Knows, todo
<1> QED
  BY <1>1, ContinueLeads DEF Save

LEMMA DeleteFeaturesLeads ==
  ASSUME IInv, DeleteFeatures
  PROVE  \/ Goes("add") /\ Installable(objects[plugin])
         \/ Goes("update")
<1>1. Typed /\ "add" \in Steps /\ "update" \in Steps
  BY DEF IInv, Steps
<1> QED
  BY <1>1, GotoGoes DEF DeleteFeatures

NewFeature ==
  [id |-> lastFeature + 1, enabler |-> enabler.id,
   kind |-> Offered[count + 1], isFeed |-> FALSE]

LEMMA OfferedTypes ==
  ASSUME IInv, client.pc \in Holding
  PROVE  /\ Offered \in Seq(Kinds) /\ Len(Offered) \in Nat /\ Len(Offered) <= MaxOffered
         /\ \A i \in 1..Len(Offered) : Offered[i] \in Kinds
<1>1. objects[plugin] \in Object
  BY Knowing
<1>2. objects[plugin].script \in Plugins /\ objects[plugin].config \in Configs \cup {Null}
  BY <1>1 DEF Object, MaybeConfig
<1>3. Offered \in Seq(Kinds) /\ Len(Offered) <= MaxOffered
  BY <1>2, EnablersAssumption DEF Offered
<1> QED
  BY <1>3

LEMMA AddLeads ==
  ASSUME IInv, Add
  PROVE  /\ NewFeature \in FeatureRow /\ count < Len(Offered)
         /\ Op \in {"post", "put"} /\ At("add")
         /\ features' = features \cup {NewFeature} /\ lastFeature' = lastFeature + 1
         /\ Becomes("add", request, enabler, feature, plugin, todo, count + 1)
<1>1. /\ Typed /\ client.pc = "add" /\ enabler \in Copy /\ count \in Nat
      /\ Op \in {"post", "put"} /\ count < Len(Offered)
  BY Knowing, LocalTypes DEF Add, At, Working, Holding, Knows, Op, request, count
<1>2. Offered[count + 1] \in Kinds
  <2>1. /\ Len(Offered) \in Nat
        /\ \A i \in 1..Len(Offered) : Offered[i] \in Kinds
    BY <1>1, OfferedTypes DEF Holding
  <2>2. count + 1 \in 1..Len(Offered)
    BY <1>1, <2>1
  <2> QED
    BY <2>1, <2>2
<1>3. NewFeature \in FeatureRow
  <2>1. lastFeature + 1 \in Nat \ {0} /\ enabler.id \in Nat \ {0}
    BY <1>1 DEF Typed, Copy
  <2> QED
    BY <1>2, <2>1 DEF NewFeature, FeatureRow
<1>4. /\ features' = features \cup {NewFeature} /\ lastFeature' = lastFeature + 1
      /\ client' = [client EXCEPT !.count = @ + 1]
  BY DEF Add, NewFeature, count
<1>5. Becomes(client.pc, request, enabler, feature, plugin, todo, count + 1)
  BY <1>1, <1>4, CountBecomes
<1> QED
  BY <1>1, <1>3, <1>4, <1>5 DEF At

LEMMA AddedLeads ==
  ASSUME IInv, Added
  PROVE  \/ Rests /\ Op = "post"
         \/ \E e \in WithId(enabler.id) : Op = "post" /\ Shows(Read(e))
         \/ \E e \in WithId(enabler.id) :
              /\ Op = "put"
              /\ Becomes("update", request, Read(e), feature, plugin, todo, count)
<1>1. Typed /\ Op \in {"post", "put"}
  BY Knowing DEF Added, At, Knows, Op, request
<1>3. ASSUME NEW e \in WithId(enabler.id)
      PROVE  Read(e) \in Copy
  BY <1>1, <1>3, ReadIsCopy DEF WithId, Typed, Filed
<1>4. ASSUME NEW e \in WithId(enabler.id), Op = "post", Show(Read(e), client.count)
      PROVE  Rests \/ Shows(Read(e))
  BY <1>1, <1>3, <1>4, ShowBecomes DEF Rests
<1>5. ASSUME NEW e \in WithId(enabler.id), Op # "post",
             client' = [client EXCEPT !.enabler = Read(e), !.pc = "update"]
      PROVE  /\ Op = "put"
             /\ Becomes("update", request, Read(e), feature, plugin, todo, count)
  BY <1>1, <1>3, <1>5, EnablerBecomes DEF Steps
<1> QED
  BY <1>1, <1>4, <1>5 DEF Added

LEMMA AddFailsLeads ==
  ASSUME IInv, AddFails
  PROVE  Rests
BY AnswerRests DEF AddFails, IInv

\* The configuration with which a PUT leaves the row.
NewConfig == IF request.config = Null THEN enabler.config ELSE request.config

LEMMA UpdateLeads ==
  ASSUME IInv, Update
  PROVE  /\ request.newName \in Names /\ NewConfig \in MaybeConfig
         /\ Write(enabler.id, request.newName, NewConfig)
         /\ \/ Rests
            \/ /\ Writable(enabler.id, request.newName)
               /\ Shows(Read(Updated(enabler.id, request.newName, NewConfig)))
         /\ \/ Writable(enabler.id, request.newName) /\ Spoil(FALSE)
            \/ ~Writable(enabler.id, request.newName) /\ Spoil(request.config # Null)
<1>1. Typed /\ request \in Request /\ Op = "put" /\ enabler \in Copy
  BY Knowing DEF Update, At, Knows, Op, request, Working
<1>2. request.newName \in Names /\ NewConfig \in MaybeConfig
  BY <1>1, RequestFacts DEF Op, NewConfig, Copy
<1>3. CASE Writable(enabler.id, request.newName)
  <2> DEFINE e == Updated(enabler.id, request.newName, NewConfig)
  <2>1. Read(e) \in Copy
    BY <1>1, <1>2, <1>3, UpdatedIsRow, ReadIsCopy
  <2>2. Show(Read(e), Cardinality(FeaturesOf(enabler.id)))
    BY <1>3 DEF Update, NewConfig
  <2> HIDE DEF e
  <2>3. Rests \/ Shows(Read(e))
    BY <1>1, <2>1, <2>2, ShowBecomes DEF Rests
  <2> QED
    BY <1>2, <1>3, <2>3 DEF Update, NewConfig, e
<1>4. CASE ~Writable(enabler.id, request.newName)
  BY <1>1, <1>2, <1>4, AnswerRests DEF Update, NewConfig
<1> QED
  BY <1>3, <1>4

LEMMA SwitchLeads ==
  ASSUME IInv, Switch
  PROVE  \/ Goes("flag") \/ Rests
BY GotoGoes, AnswerRests DEF IInv, Switch, Steps

LEMMA FlagLeads ==
  ASSUME IInv, Flag
  PROVE  \E e \in enablers : Shows(Read(e))
<1>1. Typed
  BY DEF IInv
<1>2. \E e \in enablers : ShowFeature(Read(e))
  BY DEF Flag, WithId
<1>3. \A e \in enablers : Read(e) \in Copy
  BY <1>1, ReadIsCopy DEF Typed, Filed
<1> QED
  BY <1>1, <1>2, <1>3, ShownBecomes

LEMMA DeleteLeads ==
  ASSUME IInv, Delete
  PROVE  Goes("remove")
BY GotoGoes DEF IInv, Delete, Steps

LEMMA RemoveLeads ==
  ASSUME IInv, Remove
  PROVE  /\ Rests \/ Shows(enabler)
         /\ plugins' = [plugins EXCEPT ![enabler.name] = None]
<1>1. Typed /\ enabler \in Copy
  BY Knowing DEF Remove, At, Working
<1> QED
  BY <1>1, ShowBecomes DEF Remove, Put, Rests

LEMMA DeletePluginLeads ==
  ASSUME IInv, DeletePlugin
  PROVE  Rests \/ Goes("removeAll")
BY GotoGoes, AnswerRests DEF IInv, DeletePlugin, Steps

LEMMA RemoveAllLeads ==
  ASSUME IInv, RemoveAll
  PROVE  /\ Rests /\ plugins' \in [Names -> Numbers \cup {None}]
         /\ \A n \in Names : plugins'[n] \in {plugins[n], None}
BY AnswerRests DEF IInv, RemoveAll, Typed, None

LEMMA ReceiveLeads ==
  ASSUME IInv, Receive
  PROVE  \E r \in Request, label \in {"insert", "deletePlugin", "find"} :
           /\ label = "insert" <=> r.op = "post"
           /\ label = "deletePlugin" <=> r.op = "deletePlugin"
           /\ Becomes(label, r, Null, 0, None, <<>>, 0)
           /\ r.op = "post" => lastEnabler < MaxEnablers
           /\ Adding(r) => lastFeature + MaxOffered <= MaxFeatures
<1>1. Typed /\ client = Resting
  BY Knowing DEF Receive, At, Knows
<1>2. /\ enabler = Null /\ feature = 0 /\ plugin = None /\ todo = <<>> /\ count = 0
  BY <1>1 DEF Resting, enabler, feature, plugin, todo, count
<1>3. PICK r \in Request :
        /\ r.op = "post" => lastEnabler < MaxEnablers
        /\ Adding(r) => lastFeature + MaxOffered <= MaxFeatures
        /\ client' = [client EXCEPT !.request = r,
                        !.pc = CASE r.op = "post" -> "insert"
                                 [] r.op = "deletePlugin" -> "deletePlugin"
                                 [] OTHER -> "find"]
  BY DEF Receive
<1>4. PICK label \in {"insert", "deletePlugin", "find"} :
        /\ client' = [client EXCEPT !.request = r, !.pc = label]
        /\ label = "insert" <=> r.op = "post"
        /\ label = "deletePlugin" <=> r.op = "deletePlugin"
  BY <1>3
<1>5. label \in Steps
  BY DEF Steps
<1>6. Becomes(label, r, enabler, feature, plugin, todo, count)
  BY <1>1, <1>4, <1>5, RequestBecomes
<1>7. Becomes(label, r, Null, 0, None, <<>>, 0)
  BY <1>2, <1>6
<1> QED
  BY <1>3, <1>4, <1>7

------------------------------------------------------------------------------
(* What the locals of a client are worth.                                  *)

\* After its step the client knows what it must, and has no other plugin object.
Keeps ==
  /\ client' \in Local /\ Knows(client')
  /\ client'.plugin \in {None, plugin}

LEMMA RestsKeeps ==
  ASSUME Rests
  PROVE  Keeps
<1>1. client' = Resting /\ client' \in Local
  BY DEF Rests
<1>2. Resting.pc = "idle" /\ Resting.plugin = None
  BY DEF Resting
<1> QED
  BY <1>1, <1>2 DEF Keeps, Knows, Configuring, Holding, Working

LEMMA ShowsKeeps ==
  ASSUME NEW e \in Copy, Shows(e)
  PROVE  Keeps
<1>1. [op |-> "use"] \in Request
  BY DEF Request
<1> QED
  BY <1>1 DEF Shows, Becomes, Keeps, Knows, Configuring, Holding, Working

LEMMA FinishesKeeps ==
  ASSUME IInv, client.pc \in {"ask", "configure", "save"}, Finishes
  PROVE  Keeps
<1>1. Knows(client)
  BY Knowing
<1>2. CASE Rests
  BY <1>2, RestsKeeps
<1>3. CASE Op = "post" /\ GoesWith("add", <<>>)
  BY <1>1, <1>3 DEF GoesWith, Becomes, Keeps, Knows, Configuring, Holding, Working,
     Op, request, enabler, feature, plugin, todo, count
<1>4. CASE Op = "put" /\ GoesWith("deleteFeatures", <<>>)
  BY <1>1, <1>4 DEF GoesWith, Becomes, Keeps, Knows, Configuring, Holding, Working,
     Op, request, enabler, feature, plugin, todo, count
<1> QED
  BY <1>2, <1>3, <1>4 DEF Finishes

LEMMA ContinuesKeeps ==
  ASSUME IInv, client.pc \in {"configure", "save"}, Continues
  PROVE  Keeps
<1>1. Knows(client) /\ todo \in Seq(MaybeConfig) /\ Len(todo) \in Nat
  BY Knowing, LocalTypes
<1>2. CASE Len(todo) <= 1
  BY <1>2, <1>1, FinishesKeeps DEF Continues
<1>3. CASE Len(todo) > 1
  <2>1. GoesWith("configure", Tail(todo))
    BY <1>1, <1>3 DEF Continues
  <2> DEFINE t == Tail(todo)
             n == Len(todo)
  <2>2. Len(t) = n - 1
    BY <1>1, <1>3
  <2> HIDE DEF t, n
  <2>3. Len(t) # 0
    BY <1>1, <1>3, <2>2 DEF n
  <2>4. t # <<>>
    BY <2>3
  <2>5. GoesWith("configure", t)
    BY <2>1 DEF t
  <2> QED
    BY <1>1, <2>4, <2>5 DEF GoesWith, Becomes, Keeps, Knows, Configuring, Holding, Working,
       Op, request, enabler, feature, plugin, todo, count
<1> QED
  BY <1>1, <1>2, <1>3

LEMMA GoesKeeps ==
  ASSUME IInv, NEW label, Goes(label),
         <<client.pc, label>> \in
           {<<"register", "ask">>, <<"configure", "save">>, <<"deleteFeatures", "add">>,
            <<"deleteFeatures", "update">>, <<"switch", "flag">>, <<"delete", "remove">>,
            <<"deletePlugin", "removeAll">>}
  PROVE  Keeps
<1>1. Knows(client)
  BY Knowing
<1> QED
  BY <1>1 DEF Goes, Becomes, Keeps, Knows, Configuring, Holding, Working,
     Op, request, enabler, feature, plugin, todo, count

\* The step leaves the enablers, the features and the file of the right type.
KeepsRows ==
  /\ pluginInfos' \subseteq Plugins
  /\ lastEnabler' \in Nat /\ lastFeature' \in Nat
  /\ Filed(enablers', features')
  /\ feeds' \subseteq Nat /\ torn' \subseteq Nat /\ spoiled' \subseteq Nat
  /\ saved' \in FileRows /\ Filed(saved'.enablers, saved'.features) /\ autoCommit' \in BOOLEAN

\* A step that leaves the plugin objects that are referred to, and puts no other
\* number into the map.
LEMMA StepKeeps ==
  ASSUME IInv, KeepsRows, client' \in Local, Knows(client'),
         objects' \in [Numbers -> Object \cup {Null}],
         plugins' \in [Names -> Numbers \cup {None}],
         \A i \in Used : objects'[i] \in Object,
         client'.plugin # None => objects'[client'.plugin] \in Object,
         \A n \in Names : plugins'[n] # None => plugins'[n] \in Used
  PROVE  IInv'
<1>1. Typed'
  BY DEF Typed, KeepsRows
<1>2. ASSUME NEW i \in Used' PROVE objects'[i] \in Object
  BY <1>2 DEF Used, Live, plugin
<1> QED
  BY <1>1, <1>2 DEF IInv, Known

\* One that does not touch the plugin objects or the map.
LEMMA QuietKeeps ==
  ASSUME IInv, Keeps, UNCHANGED manager, KeepsRows
  PROVE  IInv'
<1>1. \A n \in Names : plugins[n] # None => plugins[n] \in Used
  BY DEF Used, Live
<1>2. plugin # None => objects[plugin] \in Object
  BY DEF IInv, Known, Used, Live
<1> QED
  BY <1>1, <1>2, StepKeeps DEF IInv, Typed, Known, manager, Keeps

LEMMA DatabaseTypes ==
  ASSUME IInv, UNCHANGED <<database, histories>>
  PROVE  KeepsRows
BY DEF IInv, Typed, database, connection, identifiers, histories, KeepsRows

\* The file is left alone, or gets what is in the tables.
LEMMA FileTypes ==
  ASSUME IInv, Statement \/ Transaction,
         pluginInfos' \subseteq Plugins, lastEnabler' \in Nat, lastFeature' \in Nat,
         Filed(enablers', features'),
         feeds' \subseteq Nat, torn' \subseteq Nat, spoiled' \subseteq Nat
  PROVE  KeepsRows
<1>1. /\ Rows'.enablers = enablers' /\ Rows'.features = features'
      /\ Rows' \in FileRows
  BY DEF Rows, FileRows, Filed
<1>2. saved' \in {saved, Rows'} /\ autoCommit' \in BOOLEAN
  BY DEF Statement, Transaction, IInv, Typed
<1> QED
  BY <1>1, <1>2 DEF KeepsRows, IInv, Typed

\* The tables get what is in the file.
LEMMA RollBackTypes ==
  ASSUME IInv, RollBack, UNCHANGED <<pluginInfos, identifiers>>
  PROVE  KeepsRows
BY DEF IInv, Typed, RollBack, FileRows, KeepsRows, identifiers

LEMMA InsertKeeps ==
  ASSUME IInv, Insert
  PROVE  IInv'
<1>1. /\ UNCHANGED <<pluginInfos, lastFeature, manager>>
      /\ Knows(client) /\ client.pc = "insert" /\ Typed
  BY Knowing DEF Insert, At, manager
<1>2. CASE /\ Rests /\ UNCHANGED lastEnabler
           /\ RollBack \/ UNCHANGED <<enablers, features, feeds, connection, histories>>
  <2>1. KeepsRows
    BY <1>1, <1>2, RollBackTypes, DatabaseTypes DEF database, identifiers
  <2> QED
    BY <1>1, <1>2, <2>1, RestsKeeps, QuietKeeps
<1>3. ASSUME NEW e \in Row, enablers' = enablers \cup {e}, lastEnabler' = lastEnabler + 1,
             UNCHANGED <<features, feeds, histories>>, Transaction,
             Becomes("get", request, e, feature, plugin, todo, count)
      PROVE  IInv'
  <2>1. e \in Copy
    BY RowIsCopy
  <2>2. Keeps
    BY <1>1, <1>3, <2>1 DEF Becomes, Keeps, Knows, Configuring, Holding, Working,
       request, enabler, feature, plugin, todo, count
  <2>3. KeepsRows
    BY <1>1, <1>3, FileTypes DEF Typed, Filed, histories
  <2> QED
    BY <1>1, <2>2, <2>3, QuietKeeps
<1> QED
  BY <1>2, <1>3, InsertLeads

LEMMA FindKeeps ==
  ASSUME IInv, Find \/ FindAny \/ FindFeature
  PROVE  IInv'
<1>1. /\ UNCHANGED <<database, manager, histories>> /\ enablers \subseteq Row /\ features \subseteq FeatureRow
      /\ Knows(client) /\ client.pc = "find"
  BY Knowing DEF Find, FindAny, FindFeature, At, Typed, Filed, manager
<1>2. CASE Rests
  BY <1>1, <1>2, RestsKeeps, QuietKeeps, DatabaseTypes
<1>3. CASE Find /\ ~Rests
  <2>1. PICK e \in enablers, label \in {"delete", "update", "get"} : \E n :
          /\ label = "delete" => Op = "delete"
          /\ label = "update" => Op = "put"
          /\ label = "get" => Op = "put" /\ request.config # Null /\ n = 0
          /\ Becomes(label, request, e, feature, plugin, todo, n)
    BY <1>3, FindLeads DEF Finds
  <2>2. e \in Copy
    BY <1>1, RowIsCopy
  <2>3. Keeps
    BY <1>1, <2>1, <2>2 DEF Becomes, Keeps, Knows, Configuring, Holding, Working,
       Op, request, enabler, feature, plugin, todo, count
  <2> QED
    BY <1>1, <2>3, QuietKeeps, DatabaseTypes
<1>4. CASE FindAny /\ ~Rests
  <2>1. PICK e \in enablers :
          Becomes("get", request, Read(e), feature, plugin, todo, count)
    BY <1>4, FindAnyLeads
  <2>2. Read(e) \in Copy /\ Op = "use"
    BY <1>1, <1>4, ReadIsCopy DEF FindAny
  <2>3. Keeps
    BY <1>1, <2>1, <2>2 DEF Becomes, Keeps, Knows, Configuring, Holding, Working,
       Op, request, enabler, feature, plugin, todo, count
  <2> QED
    BY <1>1, <2>3, QuietKeeps, DatabaseTypes
<1>5. CASE FindFeature /\ ~Rests
  <2>1. CASE \E e \in enablers : Shows(e)
    <3>1. Keeps
      BY <1>1, <2>1, ShowsKeeps, RowIsCopy
    <3> QED
      BY <1>1, <3>1, QuietKeeps, DatabaseTypes
  <2>2. ASSUME NEW f \in features, Op = "switch",
               Becomes("switch", request, enabler, f.id, plugin, todo, count)
        PROVE  IInv'
    <3>1. f.id # 0
      BY <1>1 DEF FeatureRow
    <3>2. Keeps
      BY <1>1, <2>2, <3>1 DEF Becomes, Keeps, Knows, Configuring, Holding, Working,
         Op, request, enabler, feature, plugin, todo, count
    <3> QED
      BY <1>1, <3>2, QuietKeeps, DatabaseTypes
  <2> QED
    BY <1>5, <2>1, <2>2, FindFeatureLeads
<1> QED
  BY <1>2, <1>3, <1>4, <1>5

LEMMA ReceiveKeeps ==
  ASSUME IInv, Receive
  PROVE  IInv'
<1>1. UNCHANGED <<database, manager, histories>> /\ Knows(client) /\ client.pc = "idle" /\ plugin = None
  BY Knowing DEF Receive, At, Knows, Resting, plugin
<1>2. PICK r \in Request, label \in {"insert", "deletePlugin", "find"} :
        /\ label = "insert" <=> r.op = "post"
        /\ label = "deletePlugin" <=> r.op = "deletePlugin"
        /\ Becomes(label, r, Null, 0, None, <<>>, 0)
  BY ReceiveLeads
<1>3. Keeps
  BY <1>1, <1>2 DEF Becomes, Keeps, Knows, Configuring, Holding, Working
<1> QED
  BY <1>1, <1>3, QuietKeeps, DatabaseTypes

LEMMA MapIsUsed ==
  ASSUME Typed
  PROVE  /\ \A n \in Names : plugins[n] # None => plugins[n] \in Used
         /\ plugin # None => plugin \in Used
         /\ Used \subseteq Numbers
BY LocalTypes DEF Typed, Used, Live

LEMMA GetKeeps ==
  ASSUME IInv, Get
  PROVE  IInv'
<1>1. /\ UNCHANGED <<database, plugins, histories>> /\ Typed /\ Knows(client) /\ client.pc = "get"
      /\ enabler \in Copy /\ request \in Request
  BY Knowing DEF Get, At, Working
<1>2. CASE Rests /\ UNCHANGED objects
  BY <1>1, <1>2, RestsKeeps, QuietKeeps, DatabaseTypes DEF manager
<1>3. ASSUME NEW i \in Used, UNCHANGED objects,
             Becomes("ask", request, enabler, feature, i, todo, count)
      PROVE  IInv'
  <2>1. Knows(client') /\ client' \in Local /\ client'.plugin = i
    BY <1>1, <1>3 DEF Becomes, Used, Knows, Configuring, Holding, Working,
       request, enabler, feature, plugin, todo, count
  <2> QED
    BY <1>1, <1>3, <2>1, MapIsUsed, DatabaseTypes, StepKeeps DEF Typed, IInv, Known
<1>4. ASSUME NEW i \in Free, enabler.plugin \in Plugins,
             objects' = [objects EXCEPT ![i] = NewObject],
             Becomes("register", request, enabler, feature, i, todo, count)
      PROVE  IInv'
  <2>1. i \in Numbers /\ i # None /\ i \notin Used
    BY DEF Free, Used, Numbers, None
  <2>2. NewObject \in Object
    BY <1>1, <1>4 DEF NewObject, Object, Copy, MaybeConfig
  <2>3. Knows(client') /\ client' \in Local /\ client'.plugin = i
    BY <1>1, <1>4, <2>1 DEF Becomes, Knows, Configuring, Holding, Working,
       request, enabler, feature, plugin, todo, count
  <2>4. objects' \in [Numbers -> Object \cup {Null}] /\ objects'[i] \in Object
        /\ \A j \in Used : objects'[j] = objects[j]
    BY <1>1, <1>4, <2>1, <2>2, MapIsUsed DEF Typed
  <2>5. \A j \in Used : objects'[j] \in Object
    BY <2>4 DEF IInv, Known
  <2>6. /\ \A n \in Names : plugins'[n] # None => plugins'[n] \in Used
        /\ plugins' \in [Names -> Numbers \cup {None}]
    BY <1>1, MapIsUsed DEF Typed
  <2> QED
    BY <1>1, <2>3, <2>4, <2>5, <2>6, DatabaseTypes, StepKeeps
<1> QED
  BY <1>2, <1>3, <1>4, GetLeads

LEMMA RegisterKeeps ==
  ASSUME IInv, Register
  PROVE  IInv'
<1>1. /\ UNCHANGED <<database, objects, histories>> /\ Typed /\ client.pc = "register"
      /\ plugin \in Numbers /\ objects[plugin] \in Object
      /\ client.plugin # None
  BY Knowing DEF Register, At, Holding, Numbers, None, Knows
<1>2. /\ Goes("ask") /\ Keeps
      /\ plugins' = [plugins EXCEPT ![enabler.name] = plugin]
  BY <1>1, RegisterLeads, GoesKeeps
<1>3. plugin \in Used
  BY <1>1, MapIsUsed DEF plugin
<1>4. /\ plugins' \in [Names -> Numbers \cup {None}]
      /\ \A n \in Names : plugins'[n] # None => plugins'[n] \in Used
  BY <1>1, <1>2, <1>3, MapIsUsed DEF Typed
<1>5. \A i \in Used : objects'[i] \in Object
  BY <1>1 DEF IInv, Known
<1>6. client'.plugin # None => objects'[client'.plugin] \in Object
  BY <1>1, <1>2 DEF Keeps
<1>7. objects' \in [Numbers -> Object \cup {Null}]
  BY <1>1 DEF Typed
<1> QED
  BY <1>1, <1>2, <1>4, <1>5, <1>6, <1>7, DatabaseTypes, StepKeeps DEF Keeps

LEMMA AskKeeps ==
  ASSUME IInv, Ask
  PROVE  IInv'
<1>1. UNCHANGED <<database, manager, histories>> /\ Knows(client) /\ client.pc = "ask"
  BY Knowing DEF Ask, At
<1>2. CASE Rests \/ Finishes
  BY <1>1, <1>2, RestsKeeps, FinishesKeeps, QuietKeeps, DatabaseTypes
<1>3. CASE Old \o New # <<>> /\ GoesWith("configure", Old \o New)
  <2> DEFINE t == Old \o New
  <2> HIDE DEF t
  <2>1. t # <<>> /\ GoesWith("configure", t)
    BY <1>3 DEF t
  <2>2. Keeps
    BY <1>1, <2>1 DEF GoesWith, Becomes, Keeps, Knows, Configuring, Holding, Working,
       Op, request, enabler, feature, plugin, todo, count
  <2> QED
    BY <1>1, <2>2, QuietKeeps, DatabaseTypes
<1> QED
  BY <1>2, <1>3, AskLeads

LEMMA ConfigureKeeps ==
  ASSUME IInv, Configure
  PROVE  IInv'
<1>1. /\ UNCHANGED <<database, plugins, histories>> /\ Typed /\ client.pc = "configure"
      /\ todo # <<>> /\ todo \in Seq(MaybeConfig)
      /\ plugin \in Numbers /\ objects[plugin] \in Object
  BY Knowing, LocalTypes DEF Configure, At, Holding, Knows, todo
<1>2. CASE Keeps /\ UNCHANGED objects
  BY <1>1, <1>2, QuietKeeps, DatabaseTypes DEF manager
<1>3. CASE objects' = [objects EXCEPT ![plugin].config = Head(todo)] /\ Goes("save")
  <2> DEFINE o == [objects[plugin] EXCEPT !.config = Head(todo)]
  <2>1. Head(todo) \in MaybeConfig
    BY <1>1
  <2>2. o \in Object
    BY <1>1, <2>1 DEF Object
  <2>3. objects' = [objects EXCEPT ![plugin] = o]
    BY <1>1, <1>3 DEF Typed
  <2> HIDE DEF o
  <2>4. /\ objects' \in [Numbers -> Object \cup {Null}]
        /\ \A i \in Used : objects'[i] \in Object
        /\ objects'[plugin] \in Object
    BY <1>1, <2>2, <2>3, MapIsUsed DEF Typed, IInv, Known
  <2>5. Keeps
    BY <1>1, <1>3, GoesKeeps
  <2>6. /\ plugins' \in [Names -> Numbers \cup {None}]
        /\ \A n \in Names : plugins'[n] # None => plugins'[n] \in Used
    BY <1>1, MapIsUsed DEF Typed
  <2> QED
    BY <1>1, <2>4, <2>5, <2>6, DatabaseTypes, StepKeeps DEF Keeps
<1> QED
  BY <1>1, <1>2, <1>3, RestsKeeps, ContinuesKeeps, ConfigureLeads

\* A row is written whole.
LEMMA WriteKeepsRows ==
  ASSUME Typed, NEW id, NEW name \in Names, NEW config \in MaybeConfig, Write(id, name, config)
  PROVE  enablers' \subseteq Row
BY UpdatedIsRow DEF Write, Typed, Filed

LEMMA SaveKeeps ==
  ASSUME IInv, Save
  PROVE  IInv'
<1>1. /\ UNCHANGED <<pluginInfos, features, feeds, identifiers, manager, histories>> /\ Typed
      /\ client.pc = "save" /\ todo # <<>> /\ todo \in Seq(MaybeConfig)
      /\ objects[plugin] \in Object
  BY Knowing, LocalTypes DEF Save, At, Holding, Knows, todo, manager
<1>2. enablers' \subseteq Row
  <2>1. Head(todo) \in MaybeConfig /\ objects[plugin].name \in Names
    BY <1>1 DEF Object
  <2> QED
    BY <1>1, <2>1, WriteKeepsRows DEF Save
<1>3. KeepsRows
  BY <1>1, <1>2, FileTypes DEF Save, Typed, Filed, identifiers, histories
<1> QED
  BY <1>1, <1>3, SaveLeads, ContinuesKeeps, QuietKeeps

LEMMA DeleteFeaturesKeeps ==
  ASSUME IInv, DeleteFeatures
  PROVE  IInv'
<1>1. /\ UNCHANGED <<pluginInfos, enablers, feeds, identifiers, manager, torn>> /\ Typed
      /\ client.pc = "deleteFeatures" /\ spoiled' \subseteq spoiled
  BY Knowing DEF DeleteFeatures, At, manager
<1>2. features' \in SUBSET features
  BY DEF DeleteFeatures
<1>3. Filed(enablers', features')
  BY <1>1, <1>2, FS_Subset DEF Typed, Filed
<1>4. KeepsRows
  BY <1>1, <1>3, FileTypes DEF DeleteFeatures, Typed, identifiers
<1> QED
  BY <1>1, <1>4, DeleteFeaturesLeads, GoesKeeps, QuietKeeps

\* The histories stay of their type.
LEMMA SpoilTypes ==
  ASSUME IInv, NEW b, Spoil(b), client.pc \in Working
  PROVE  spoiled' \subseteq Nat
BY Knowing DEF Spoil, IInv, Typed, Copy

LEMMA AddKeeps ==
  ASSUME IInv, Add
  PROVE  IInv'
<1>1. /\ UNCHANGED <<pluginInfos, enablers, feeds, lastEnabler, manager, torn>> /\ Typed
      /\ client.pc = "add" /\ Knows(client)
  BY Knowing DEF Add, At, manager
<1>2. /\ features' = features \cup {NewFeature} /\ lastFeature' = lastFeature + 1
      /\ NewFeature \in FeatureRow
      /\ Becomes("add", request, enabler, feature, plugin, todo, count + 1)
  BY AddLeads
<1>3. Filed(enablers', features') /\ lastFeature' \in Nat /\ spoiled' \subseteq Nat
  BY <1>1, <1>2, FS_AddElement, SpoilTypes DEF Typed, Filed, Add, Working, Holding
<1>4. KeepsRows
  BY <1>1, <1>3, FileTypes DEF Add, Typed
<1>5. Keeps
  BY <1>1, <1>2 DEF Becomes, Keeps, Knows, Configuring, Holding, Working,
     request, enabler, feature, plugin, todo, count
<1> QED
  BY <1>1, <1>4, <1>5, QuietKeeps

LEMMA AddedKeeps ==
  ASSUME IInv, Added
  PROVE  IInv'
<1>1. /\ UNCHANGED <<database, manager, histories>> /\ Typed /\ Knows(client) /\ client.pc = "add"
  BY Knowing DEF Added, At
<1>2. CASE Rests
  BY <1>1, <1>2, RestsKeeps, QuietKeeps, DatabaseTypes
<1>3. ASSUME NEW e \in WithId(enabler.id), Shows(Read(e))
      PROVE  IInv'
  <2>1. Read(e) \in Copy
    BY <1>1, ReadIsCopy DEF WithId, Typed, Filed
  <2> QED
    BY <1>1, <1>3, <2>1, ShowsKeeps, QuietKeeps, DatabaseTypes
<1>4. ASSUME NEW e \in WithId(enabler.id), Op = "put",
             Becomes("update", request, Read(e), feature, plugin, todo, count)
      PROVE  IInv'
  <2>1. Read(e) \in Copy
    BY <1>1, ReadIsCopy DEF WithId, Typed, Filed
  <2>2. Keeps
    BY <1>1, <1>4, <2>1 DEF Becomes, Keeps, Knows, Configuring, Holding, Working,
       Op, request, enabler, feature, plugin, todo, count
  <2> QED
    BY <1>1, <2>2, QuietKeeps, DatabaseTypes
<1> QED
  BY <1>2, <1>3, <1>4, AddedLeads

LEMMA AddFailsKeeps ==
  ASSUME IInv, AddFails
  PROVE  IInv'
<1>1. /\ UNCHANGED <<pluginInfos, enablers, features, feeds, identifiers, manager, torn>> /\ Typed
      /\ client.pc = "add"
  BY Knowing DEF AddFails, At, manager
<1>2. spoiled' \subseteq Nat
  BY <1>1, SpoilTypes DEF AddFails, Working, Holding
<1>3. KeepsRows
  BY <1>1, <1>2, FileTypes DEF AddFails, Typed, Filed, identifiers
<1> QED
  BY <1>1, <1>3, AddFailsLeads, RestsKeeps, QuietKeeps

LEMMA UpdateKeeps ==
  ASSUME IInv, Update
  PROVE  IInv'
<1>1. /\ UNCHANGED <<pluginInfos, features, feeds, identifiers, manager, torn>> /\ Typed
      /\ client.pc = "update"
  BY Knowing DEF Update, At, manager
<1>2. enablers' \subseteq Row /\ spoiled' \subseteq Nat
  BY <1>1, UpdateLeads, WriteKeepsRows, SpoilTypes DEF Working
<1>3. KeepsRows
  BY <1>1, <1>2, FileTypes DEF Update, Typed, Filed, identifiers
<1>4. CASE Rests
  BY <1>1, <1>3, <1>4, RestsKeeps, QuietKeeps
<1>5. CASE /\ Writable(enabler.id, request.newName)
           /\ Shows(Read(Updated(enabler.id, request.newName, NewConfig)))
  <2> DEFINE e == Updated(enabler.id, request.newName, NewConfig)
  <2>1. e \in Row
    BY <1>1, <1>5, UpdateLeads, UpdatedIsRow
  <2>2. Shows(Read(e))
    BY <1>5
  <2> HIDE DEF e
  <2> QED
    BY <1>1, <1>3, <2>1, <2>2, ReadIsCopy, ShowsKeeps, QuietKeeps
<1> QED
  BY <1>4, <1>5, UpdateLeads

LEMMA SwitchKeeps ==
  ASSUME IInv, Switch
  PROVE  IInv'
<1>1. /\ UNCHANGED <<pluginInfos, identifiers, manager>> /\ Typed
      /\ client.pc = "switch" /\ feature \in Nat
  BY Knowing, LocalTypes DEF Switch, At, manager
<1>2. CASE RollBack
  BY <1>1, <1>2, SwitchLeads, RollBackTypes, RestsKeeps, GoesKeeps, QuietKeeps
<1>3. CASE ~RollBack
  <2>1. /\ feeds' \in {feeds \cup {feature}, feeds \ {feature}}
        /\ UNCHANGED <<enablers, features, histories>>
        /\ Statement \/ Transaction
    BY <1>3 DEF Switch, feature
  <2>2. KeepsRows
    BY <1>1, <2>1, FileTypes DEF Typed, identifiers, histories
  <2> QED
    BY <1>1, <2>2, SwitchLeads, RestsKeeps, GoesKeeps, QuietKeeps
<1> QED
  BY <1>2, <1>3

\* Flag replaces the row of the feature, if it is still there.
Flagged == {f \in features : f.id = feature}
Reflagged == {[f EXCEPT !.isFeed = request.isFeed] : f \in Flagged}

LEMMA FlagTypes ==
  ASSUME IInv, Flag
  PROVE  /\ features' = (features \ Flagged) \cup Reflagged
         /\ features' \subseteq FeatureRow /\ IsFiniteSet(features')
         /\ request.isFeed \in BOOLEAN /\ Flagged \subseteq features
<1>1. Typed /\ request.isFeed \in BOOLEAN
  BY Knowing, RequestFacts DEF Flag, At, Knows, request
<1>2. features' = (features \ Flagged) \cup Reflagged
  BY DEF Flag, Flagged, Reflagged, feature
<1>3. Reflagged \subseteq FeatureRow
  BY <1>1 DEF Typed, Filed, Flagged, Reflagged, FeatureRow
<1>4. IsFiniteSet(Reflagged)
  <2> DEFINE S == Flagged
             g == [f \in S |-> [f EXCEPT !.isFeed = request.isFeed]]
  <2>1. S \in SUBSET features
    BY DEF Flagged
  <2>2. IsFiniteSet(S)
    BY <1>1, <2>1, FS_Subset DEF Typed, Filed
  <2>3. Reflagged = {g[f] : f \in S}
    BY DEF Reflagged
  <2> HIDE DEF S, g
  <2> QED
    BY <2>2, <2>3, FewValues
<1>5. IsFiniteSet(features \ Flagged)
  <2>1. features \ Flagged \in SUBSET features
    OBVIOUS
  <2> QED
    BY <1>1, <2>1, FS_Subset DEF Typed, Filed
<1>6. IsFiniteSet(features')
  BY <1>2, <1>4, <1>5, FS_Union
<1> QED
  BY <1>1, <1>2, <1>3, <1>6 DEF Typed, Filed, Flagged

LEMMA FlagKeeps ==
  ASSUME IInv, Flag
  PROVE  IInv'
<1>1. UNCHANGED <<pluginInfos, enablers, feeds, identifiers, manager, histories>> /\ Typed
  BY Knowing DEF Flag, manager
<1>2. \A e \in enablers : Read(e) \in Copy
  BY <1>1, ReadIsCopy DEF Typed, Filed
<1>3. KeepsRows
  BY <1>1, FlagTypes, FileTypes DEF Flag, Typed, Filed, identifiers, histories
<1> QED
  BY <1>1, <1>2, <1>3, FlagLeads, ShowsKeeps, QuietKeeps

LEMMA DeleteKeeps ==
  ASSUME IInv, Delete
  PROVE  IInv'
<1>1. /\ UNCHANGED <<pluginInfos, features, feeds, identifiers, manager, histories>> /\ Typed
      /\ client.pc = "delete" /\ enablers' \subseteq enablers
  BY Knowing DEF Delete, At, manager
<1>2. KeepsRows
  BY <1>1, FileTypes DEF Delete, Typed, Filed, identifiers, histories
<1> QED
  BY <1>1, <1>2, DeleteLeads, GoesKeeps, QuietKeeps

LEMMA DeletePluginKeeps ==
  ASSUME IInv, DeletePlugin
  PROVE  IInv'
<1>1. /\ UNCHANGED <<enablers, features, feeds, identifiers, manager, histories>> /\ Typed
      /\ client.pc = "deletePlugin" /\ pluginInfos' \subseteq Plugins
  BY Knowing DEF DeletePlugin, At, Typed, manager
<1>2. CASE Transaction
  BY <1>1, <1>2, FileTypes, DeletePluginLeads, RestsKeeps, GoesKeeps, QuietKeeps
     DEF Typed, Filed, identifiers, histories
<1>3. CASE autoCommit' = FALSE /\ UNCHANGED saved
  <2>1. KeepsRows
    BY <1>1, <1>3 DEF KeepsRows, Typed, identifiers, histories
  <2> QED
    BY <1>1, <2>1, DeletePluginLeads, RestsKeeps, GoesKeeps, QuietKeeps
<1> QED
  BY <1>2, <1>3 DEF DeletePlugin

\* The map loses names.
LEMMA ForgetKeeps ==
  ASSUME IInv, Keeps, UNCHANGED <<database, objects, histories>>,
         plugins' \in [Names -> Numbers \cup {None}],
         \A n \in Names : plugins'[n] \in {plugins[n], None}
  PROVE  IInv'
<1>1. \A i \in Used : objects'[i] \in Object
  BY DEF IInv, Known
<1>2. client'.plugin # None => objects'[client'.plugin] \in Object
  BY <1>1, MapIsUsed DEF Keeps, IInv
<1>3. \A n \in Names : plugins'[n] # None => plugins'[n] \in Used
  BY MapIsUsed DEF IInv
<1>4. objects' \in [Numbers -> Object \cup {Null}]
  BY DEF IInv, Typed
<1> QED
  BY <1>1, <1>2, <1>3, <1>4, DatabaseTypes, StepKeeps DEF Keeps

LEMMA RemoveKeeps ==
  ASSUME IInv, Remove
  PROVE  IInv'
<1>1. UNCHANGED <<database, objects, histories>> /\ Typed /\ enabler \in Copy
  BY Knowing DEF Remove, At, Working
<1>2. /\ plugins' \in [Names -> Numbers \cup {None}]
      /\ \A n \in Names : plugins'[n] \in {plugins[n], None}
  BY <1>1, RemoveLeads DEF Typed
<1>3. Keeps
  BY <1>1, RemoveLeads, RestsKeeps, ShowsKeeps
<1> QED
  BY <1>1, <1>2, <1>3, ForgetKeeps

LEMMA RemoveAllKeeps ==
  ASSUME IInv, RemoveAll
  PROVE  IInv'
BY RemoveAllLeads, RestsKeeps, ForgetKeeps DEF RemoveAll

LEMMA RestingKnows == Knows(Resting)
BY DEF Resting, Knows, Configuring, Holding, Working, None

LEMMA RestartKeeps ==
  ASSUME IInv, Restart
  PROVE  IInv'
<1>1. Typed /\ client' = Resting /\ Knows(client') /\ client'.plugin = None
  BY RestingKnows DEF Restart, IInv, Resting
<1>2. CutOff \subseteq Nat /\ Unfinished \subseteq Nat
  BY Knowing, LocalTypes DEF IInv, CutOff, Unfinished, At, Working, Holding, Copy, feature
<1>3. /\ Filed(enablers', features')
      /\ feeds' \subseteq Nat /\ torn' \subseteq Nat /\ spoiled' \subseteq Nat
  BY <1>1, <1>2 DEF Restart, Typed, FileRows
<1>4. saved' \in FileRows /\ Filed(saved'.enablers, saved'.features)
  BY <1>3 DEF Restart, Rows, FileRows, Filed
<1>5. Typed'
  BY <1>1, <1>3, <1>4, RestingIsLocal DEF Restart, Typed, identifiers
<1>6. Used' = {}
  BY <1>1 DEF Restart, Used, Live, plugin
<1> QED
  BY <1>1, <1>5, <1>6 DEF IInv, Known

LEMMA InitKeeps ==
  ASSUME Init
  PROVE  IInv
<1>1. Filed(enablers, features) /\ saved \in FileRows /\ Filed(saved.enablers, saved.features)
  BY FS_EmptySet DEF Init, Rows, FileRows, Filed
<1>2. Typed
  BY <1>1, RestingIsLocal DEF Init, Typed
<1>3. Knows(client) /\ client.plugin = None
  BY RestingKnows DEF Init, Resting
<1>4. Used = {}
  BY <1>3 DEF Init, Used, Live, plugin
<1> QED
  BY <1>2, <1>3, <1>4 DEF IInv, Known

LEMMA IInvIsInductive ==
  ASSUME IInv, [Next]_vars
  PROVE  IInv'
<1>1. CASE UNCHANGED vars
  <2>1. UNCHANGED <<pluginInfos, enablers, features, feeds, lastEnabler, lastFeature, saved,
                    autoCommit, objects, plugins, client, torn, spoiled>>
    BY <1>1 DEF vars, database, identifiers, connection, manager, histories
  <2>2. Typed' /\ Used' = Used
    BY <2>1 DEF IInv, Typed, Used, Live, plugin
  <2> QED
    BY <2>1, <2>2 DEF IInv, Known
<1>2. ASSUME Receive \/ Serve
      PROVE  IInv'
  BY <1>2, ReceiveKeeps, InsertKeeps, FindKeeps, GetKeeps, RegisterKeeps, AskKeeps, ConfigureKeeps,
     SaveKeeps, DeleteFeaturesKeeps, AddKeeps, AddedKeeps, AddFailsKeeps, UpdateKeeps, SwitchKeeps,
     FlagKeeps, DeleteKeeps, RemoveKeeps, DeletePluginKeeps, RemoveAllKeeps DEF Serve
<1> QED
  BY <1>1, <1>2, RestartKeeps DEF Next


\* Any step of the client.
Acts == Receive \/ Serve

\* A failed addition takes back what the connection has not committed.
Undoes ==
  /\ RollBack /\ Rests /\ (At("insert") \/ At("switch"))
  /\ UNCHANGED <<pluginInfos, identifiers, manager>>

LEMMA InsertUndoes ==
  ASSUME IInv, Insert
  PROVE  \/ Undoes
         \/ UNCHANGED <<enablers, features, feeds, identifiers, connection, histories>>
         \/ Transaction /\ UNCHANGED <<features, feeds, lastFeature, histories>>
<1>1. Answer => Rests
  BY AnswerRests DEF IInv
<1> QED
  BY <1>1 DEF Insert, Undoes, identifiers

LEMMA SwitchUndoes ==
  ASSUME IInv, Switch
  PROVE  \/ Undoes
         \/ /\ feeds' = IF request.isFeed THEN feeds \cup {feature} ELSE feeds \ {feature}
            /\ IF feeds' # feeds THEN Goto("flag") ELSE Answer
            /\ UNCHANGED <<enablers, features, identifiers, histories>>
            /\ Statement \/ Transaction
<1>1. Answer => Rests
  BY AnswerRests DEF IInv
<1> QED
  BY <1>1 DEF Switch, Undoes, feature

LEMMA RowsChange ==
  ASSUME IInv, Acts
  PROVE  \/ UNCHANGED <<enablers, lastEnabler>>
         \/ /\ \E e \in Row : /\ e.id = lastEnabler + 1 /\ WithName(e.name) = {}
                              /\ enablers' = enablers \cup {e}
            /\ lastEnabler' = lastEnabler + 1 /\ At("insert")
         \/ /\ \E id \in Nat, name \in Names, config \in MaybeConfig : Write(id, name, config)
            /\ UNCHANGED lastEnabler /\ (At("save") \/ At("update"))
         \/ enablers' \subseteq enablers /\ UNCHANGED lastEnabler /\ At("delete")
         \/ Undoes
<1>1. CASE Insert
  <2>1. CASE Rests /\ RollBack /\ UNCHANGED lastEnabler
    BY <1>1, <2>1 DEF Insert, Undoes, identifiers
  <2>2. CASE ~(Rests /\ RollBack /\ UNCHANGED lastEnabler)
    BY <1>1, <2>2, InsertLeads DEF Insert
  <2> QED
    BY <2>1, <2>2
<1>2. CASE Save
  <2>1. objects[plugin] \in Object /\ todo \in Seq(MaybeConfig) /\ todo # <<>>
    BY <1>2, Knowing, LocalTypes DEF Save, At, Holding, Knows, todo
  <2>2. /\ Head(todo) \in MaybeConfig
        /\ objects[plugin].name \in Names /\ objects[plugin].id \in Nat
    BY <2>1 DEF Object
  <2> QED
    BY <1>2, <2>2 DEF Save, identifiers
<1>3. CASE Update
  <2>1. enabler.id \in Nat
    BY <1>3, Knowing DEF Update, At, Working, Copy
  <2> QED
    BY <1>3, <2>1, UpdateLeads DEF Update, identifiers
<1>4. CASE Delete
  BY <1>4 DEF Delete, identifiers
<1>5. CASE Switch
  BY <1>5, SwitchUndoes DEF identifiers
<1>6. CASE ~(Insert \/ Save \/ Update \/ Delete \/ Switch)
  BY <1>6 DEF Acts, Serve, Receive, Find, FindAny, FindFeature, Get, Register, Ask, Configure,
     DeleteFeatures, Add, Added, AddFails, Flag, Remove, DeletePlugin, RemoveAll, database,
     identifiers
<1> QED
  BY <1>1, <1>2, <1>3, <1>4, <1>5, <1>6

LEMMA FeaturesChange ==
  ASSUME IInv, Acts
  PROVE  \/ UNCHANGED <<features, feeds, lastFeature>>
         \/ features' \subseteq features /\ UNCHANGED <<feeds, lastFeature>> /\ At("deleteFeatures")
         \/ /\ features' = features \cup {NewFeature} /\ lastFeature' = lastFeature + 1
            /\ UNCHANGED feeds /\ At("add")
         \/ /\ features' = (features \ Flagged) \cup Reflagged
            /\ UNCHANGED <<feeds, lastFeature>> /\ Flag
         \/ /\ UNCHANGED <<features, lastFeature>>
            /\ feeds' \in {feeds \cup {feature}, feeds \ {feature}} /\ At("switch")
         \/ Undoes
<1>1. CASE DeleteFeatures
  BY <1>1 DEF DeleteFeatures, identifiers
<1>2. CASE Add
  BY <1>2, AddLeads DEF Add
<1>3. CASE Flag
  BY <1>3, FlagTypes DEF Flag, identifiers
<1>4. CASE Switch
  BY <1>4, SwitchUndoes DEF Switch, identifiers
<1>5. CASE Insert
  BY <1>5, InsertUndoes DEF Insert, identifiers
<1>6. CASE ~(DeleteFeatures \/ Add \/ Flag \/ Switch \/ Insert)
  BY <1>6 DEF Acts, Serve, Receive, Find, FindAny, FindFeature, Get, Register, Ask, Configure,
     Save, Update, Delete, Added, AddFails, Remove, DeletePlugin, RemoveAll, database, identifiers
<1> QED
  BY <1>1, <1>2, <1>3, <1>4, <1>5, <1>6

LEMMA HistoriesChange ==
  ASSUME IInv, Acts
  PROVE  \/ Undoes
         \/ /\ torn' = torn
            /\ spoiled' \subseteq spoiled \cup IF client.pc \in Working THEN {enabler.id} ELSE {}
<1>1. CASE DeleteFeatures \/ Add \/ AddFails \/ Update
  BY <1>1 DEF DeleteFeatures, Add, AddFails, Update, Spoil, At, Working, Holding
<1>2. CASE Insert \/ Switch
  BY <1>2, InsertUndoes, SwitchUndoes DEF histories
<1>3. CASE ~(DeleteFeatures \/ Add \/ AddFails \/ Update \/ Insert \/ Switch)
  BY <1>3 DEF Acts, Serve, Receive, Find, FindAny, FindFeature, Get, Register, Ask,
     Configure, Save, Added, Flag, Delete, Remove, DeletePlugin, RemoveAll, histories
<1> QED
  BY <1>1, <1>2, <1>3

\* The file gets what is in the tables, or nothing; the tables get what is in
\* the file only by a rollback, and then the request is over.
LEMMA FileChanges ==
  ASSUME IInv, Acts
  PROVE  \/ Statement
         \/ Transaction
         \/ Undoes
         \/ UNCHANGED <<enablers, features, feeds, connection, histories>>
         \/ /\ autoCommit' = FALSE /\ At("deletePlugin")
            /\ UNCHANGED <<enablers, features, feeds, saved, histories>> /\ Rests
<1>0. Typed
  BY DEF IInv
<1>1. CASE Insert
  BY <1>1, InsertUndoes
<1>2. CASE Switch
  BY <1>2, SwitchUndoes
<1>3. CASE DeletePlugin
  BY <1>0, <1>3, AnswerRests DEF DeletePlugin
<1>4. CASE Save \/ DeleteFeatures \/ Add \/ AddFails \/ Update \/ Flag \/ Delete
  BY <1>4 DEF Save, DeleteFeatures, Add, AddFails, Update, Flag, Delete
<1>5. CASE ~(Insert \/ Switch \/ DeletePlugin \/ Save \/ DeleteFeatures \/ Add \/ AddFails \/ Update
             \/ Flag \/ Delete)
  BY <1>5 DEF Acts, Serve, Receive, Find, FindAny, FindFeature, Get, Register, Ask, Configure,
     Added, Remove, RemoveAll, database
<1> QED
  BY <1>1, <1>2, <1>3, <1>4, <1>5

\* The feature and the enabler that the client has are those it had, or are read,
\* and it has another plugin object only if it looks for one.  The features that
\* it counts have been added.
Reads ==
  /\ client' \in Local
  /\ \/ client'.count \in {0, count}
     \/ client'.count = count + 1 /\ lastFeature' = lastFeature + 1
     \/ \E id \in Nat : client'.count = Cardinality(FeaturesOf(id)) /\ UNCHANGED lastFeature
  /\ client'.plugin \in {None, plugin} \/ At("get")
  /\ client'.feature \in {0, feature} \cup {f.id : f \in features}
  /\ \/ client'.enabler = Null /\ client'.pc \notin Working
     \/ /\ client'.enabler = enabler
        /\ client'.pc \in Working => client.pc \in Working
     \/ \E e \in enablers \cup enablers' :
          client'.enabler.id = e.id /\ client'.enabler.plugin \in {Null, e.plugin}
  /\ client'.pc \in Holding =>
       \/ At("get")
       \/ /\ client.pc \in Holding
          /\ client'.enabler = enabler /\ client'.plugin = plugin

\* Where one action alone leads.
Entered == {"insert", "switch", "flag"}

\* The request is over, is now to show an enabler, or adds less than before.
Lessens ==
  /\ client'.pc # "insert"
  /\ client'.pc = "switch" => FindFeature
  /\ client'.pc = "flag" => Switch
  /\ \/ client'.pc = "idle"
     \/ client'.request = [op |-> "use"]
     \/ client'.request = request /\ client'.count >= count

LEMMA RestsReads ==
  ASSUME Rests
  PROVE  Reads /\ Lessens /\ client' = Resting
BY DEF Rests, Reads, Lessens, Resting, Working, Holding

LEMMA ShowsReads ==
  ASSUME NEW e, Shows(e),
         \/ \E row \in enablers \cup enablers' : e.id = row.id /\ e.plugin \in {Null, row.plugin}
         \/ e = enabler /\ client.pc \in Working
  PROVE  Reads /\ Lessens /\ client'.request = [op |-> "use"] /\ client'.count = 0
BY DEF Shows, Becomes, Reads, Lessens, Entered, Holding

LEMMA GoesReads ==
  ASSUME Typed, NEW label,
         Goes(label) \/ \E t : GoesWith(label, t),
         label \notin Entered \/ (label = "flag" /\ Switch), label \in Working => client.pc \in Working,
         label \in Holding => client.pc \in Holding
  PROVE  Reads /\ Lessens /\ client'.request = request /\ client'.count = count
BY LocalTypes DEF Goes, GoesWith, Becomes, Reads, Lessens, Entered

LEMMA FinishesReads ==
  ASSUME Typed, client.pc \in Holding, Continues \/ Finishes
  PROVE  Reads /\ Lessens
<1>1. CASE Rests
  BY <1>1, RestsReads
<1>2. CASE ~Rests
  <2>1. PICK label : label \notin Entered /\ \E t : GoesWith(label, t)
    BY <1>2 DEF Continues, Finishes, Entered
  <2> QED
    BY <2>1, GoesReads DEF Working
<1> QED
  BY <1>1, <1>2

LEMMA ActsReads ==
  ASSUME IInv, Acts
  PROVE  Reads /\ (Serve => Lessens)
<1> USE DEF At
<1>0. Typed /\ Knows(client) /\ enablers \subseteq Row
  BY Knowing DEF Typed, Filed
<1>1. CASE Rests
  BY <1>1, RestsReads
<1>2. CASE Receive
  <2>1. Reads
    BY <1>2, ReceiveLeads DEF Becomes, Reads, Working, Holding, Entered
  <2>2. ~Serve \/ Rests
    BY <1>2 DEF Receive, Serve, Insert, Find, FindAny, FindFeature, Get, Register, Ask, Configure,
       Save, DeleteFeatures, Add, Added, AddFails, Update, Switch, Flag, Delete, Remove,
       DeletePlugin, RemoveAll
  <2> QED
    BY <2>1, <2>2, RestsReads
<1>3. CASE Insert /\ ~Rests
  BY <1>0, <1>3, InsertLeads, LocalTypes DEF Becomes, Reads, Lessens, Entered, Holding
<1>4. CASE Find /\ ~Rests
  <2>1. count = 0
    BY <1>0, <1>4 DEF Find, Knows, count
  <2>2. PICK e \in enablers : \E label, n :
          /\ label \notin Entered \cup Holding /\ n \in {0, Cardinality(FeaturesOf(e.id))}
          /\ Becomes(label, request, e, feature, plugin, todo, n)
    BY <1>4, FindLeads DEF Finds, Entered, Holding
  <2>3. PICK label, n :
          /\ label \notin Entered \cup Holding /\ n \in {0, Cardinality(FeaturesOf(e.id))}
          /\ Becomes(label, request, e, feature, plugin, todo, n)
    BY <2>2
  <2>4. n \in Nat
    <3>1. FeaturesOf(e.id) \in SUBSET features
      BY DEF FeaturesOf
    <3> QED
      BY <1>0, <2>3, <3>1, FS_Subset, FS_CardinalityType DEF Typed, Filed
  <2>5. e.id \in Nat /\ UNCHANGED lastFeature
    BY <1>0, <1>4 DEF Row, Find, database, identifiers
  <2> QED
    BY <2>1, <2>3, <2>4, <2>5 DEF Becomes, Reads, Lessens, Entered, Holding
<1>5. CASE FindAny /\ ~Rests
  <2>1. PICK e \in enablers :
          Becomes("get", request, Read(e), feature, plugin, todo, count)
    BY <1>5, FindAnyLeads
  <2>2. Read(e).id = e.id /\ Read(e).plugin \in {Null, e.plugin}
    BY <1>0, ReadIsCopy
  <2> QED
    BY <1>0, <2>1, <2>2, LocalTypes DEF Becomes, Reads, Lessens, Entered, Holding
<1>6. CASE FindFeature /\ ~Rests
  <2>1. CASE \E e \in enablers : Shows(e)
    BY <2>1, ShowsReads
  <2>2. CASE \E f \in features :
               Becomes("switch", request, enabler, f.id, plugin, todo, count)
    BY <1>0, <1>6, <2>2, LocalTypes DEF Becomes, Reads, Lessens, Entered, Working, Holding
  <2> QED
    BY <1>6, <2>1, <2>2, FindFeatureLeads
<1>7. CASE Get /\ ~Rests
  <2>1. PICK label, i : /\ label \notin Entered
                        /\ Becomes(label, request, enabler, feature, i, todo, count)
    BY <1>7, GetLeads DEF Entered
  <2>2. client.pc = "get" /\ client.pc \in Working
    BY <1>7 DEF Get, Working
  <2> QED
    BY <1>0, <2>1, <2>2, LocalTypes DEF Becomes, Reads, Lessens, Entered, Holding
<1>8. CASE Register
  BY <1>0, <1>8, RegisterLeads, GoesReads DEF Register, Working, Holding, Entered
<1>9. CASE Ask \/ Configure \/ Save
  <2>1. client.pc \in Working /\ client.pc \in Holding
    BY <1>9 DEF Ask, Configure, Save, Working, Holding, Entered
  <2>2. \/ Rests \/ Finishes \/ Continues
        \/ \E label : label \notin Entered /\ (Goes(label) \/ \E t : GoesWith(label, t))
    BY <1>9, AskLeads, ConfigureLeads, SaveLeads DEF Entered
  <2> QED
    BY <1>0, <2>1, <2>2, RestsReads, FinishesReads, GoesReads
<1>10. CASE DeleteFeatures
  BY <1>0, <1>10, DeleteFeaturesLeads, GoesReads DEF DeleteFeatures, Working, Holding, Entered
<1>11. CASE Add /\ ~Rests
  <2>1. /\ Becomes("add", request, enabler, feature, plugin, todo, count + 1)
        /\ lastFeature' = lastFeature + 1
    BY <1>11, AddLeads
  <2> QED
    BY <1>0, <1>11, <2>1, LocalTypes DEF Add, Becomes, Reads, Lessens, Entered, Holding
<1>12. CASE Added /\ ~Rests
  <2>1. CASE \E e \in WithId(enabler.id) : Shows(Read(e))
    BY <1>0, <2>1, ReadIsCopy, ShowsReads DEF WithId
  <2>2. CASE \E e \in WithId(enabler.id) :
               Becomes("update", request, Read(e), feature, plugin, todo, count)
    BY <1>0, <2>2, ReadIsCopy, LocalTypes DEF Becomes, Reads, Lessens, Entered, Holding, WithId
  <2> QED
    BY <1>12, <2>1, <2>2, AddedLeads
<1>13. CASE AddFails
  BY <1>1, <1>13, AddFailsLeads
<1>14. CASE Update /\ ~Rests
  <2> DEFINE e == Updated(enabler.id, request.newName, NewConfig)
  <2>1. Writable(enabler.id, request.newName) /\ Shows(Read(e))
    BY <1>14, UpdateLeads
  <2>2. e \in Row /\ e.id = enabler.id
    BY <1>0, <1>14, <2>1, UpdateLeads, UpdatedIsRow
  <2>3. \E row \in WithId(enabler.id) : e.plugin = row.plugin
    <3>1. request.newName \in Names /\ NewConfig \in MaybeConfig
      BY <1>0, <1>14, UpdateLeads
    <3>2. Typed /\ Writable(enabler.id, request.newName)
      BY <1>0, <2>1
    <3>3. \E row \in WithId(enabler.id) :
            Updated(enabler.id, request.newName, NewConfig).plugin = row.plugin
      BY <3>1, <3>2, UpdatedIsRow
    <3> QED
      BY <3>3
  <2> HIDE DEF e
  <2>4. Read(e).id = enabler.id /\ Read(e).plugin \in {Null, e.plugin}
    BY <2>2, ReadIsCopy
  <2>5. \E row \in enablers : Read(e).id = row.id /\ Read(e).plugin \in {Null, row.plugin}
    BY <2>3, <2>4 DEF WithId
  <2> QED
    BY <2>1, <2>5, ShowsReads
<1>15. CASE Switch
  BY <1>0, <1>1, <1>15, SwitchLeads, GoesReads DEF Working, Holding, Entered
<1>16. CASE Flag /\ ~Rests
  BY <1>0, <1>16, FlagLeads, ShowsReads, ReadIsCopy
<1>17. CASE Delete
  BY <1>0, <1>1, <1>17, DeleteLeads, GoesReads DEF Delete, Working, Holding, Entered
<1>18. CASE Remove
  BY <1>0, <1>1, <1>18, RemoveLeads, ShowsReads DEF Remove, Working
<1>19. CASE DeletePlugin
  BY <1>0, <1>1, <1>19, DeletePluginLeads, GoesReads DEF Working, Holding, Entered
<1>20. CASE RemoveAll
  BY <1>1, <1>20, RemoveAllLeads
<1> QED
  BY <1>1, <1>2, <1>3, <1>4, <1>5, <1>6, <1>7, <1>8, <1>9, <1>10, <1>11, <1>12, <1>13, <1>14,
     <1>15, <1>16, <1>17, <1>18, <1>19, <1>20 DEF Acts, Serve


------------------------------------------------------------------------------
(* The keys of the rows, in the tables and in the file.                    *)

KeyedRows(es, m) ==
  /\ \A e, g \in es : e.id = g.id \/ e.name = g.name => e = g
  /\ \A e \in es : e.id <= m

KeyedFeatures(fs, ds, m, n) ==
  /\ \A f, g \in fs : f.id = g.id => f = g
  /\ \A f \in fs : f.id <= n /\ f.enabler <= m
  /\ ds \subseteq 1..n

KeyedHistories(ts, ss, m, n) == ts \subseteq 1..n /\ ss \subseteq 1..m

KeyedTables ==
  /\ KeyedRows(enablers, lastEnabler)
  /\ KeyedFeatures(features, feeds, lastEnabler, lastFeature)
  /\ KeyedHistories(torn, spoiled, lastEnabler, lastFeature)

KeyedFile ==
  /\ KeyedRows(saved.enablers, lastEnabler)
  /\ KeyedFeatures(saved.features, saved.feeds, lastEnabler, lastFeature)
  /\ KeyedHistories(saved.torn, saved.spoiled, lastEnabler, lastFeature)

\* The feature and the enabler that a client knows have been added.
Numbered(x) ==
  /\ x.feature <= lastFeature
  /\ x.enabler = Null \/ x.enabler.id <= lastEnabler
  /\ x.pc \in Working => x.enabler.id <= lastEnabler

KeyedObjects ==
  /\ \A i \in Numbers : objects[i] = Null \/ objects[i].id <= lastEnabler
  /\ \A i \in Used : objects[i].id <= lastEnabler

Keyed == KeyedTables /\ KeyedFile /\ KeyedObjects /\ Numbered(client)

\* The identifiers given last only grow.
LEMMA KeysGrow ==
  ASSUME NEW es \in SUBSET Row, NEW fs \in SUBSET FeatureRow, NEW ds, NEW ts, NEW ss,
         NEW m \in Nat, NEW n \in Nat, NEW k \in Nat, NEW l \in Nat, m <= k, n <= l
  PROVE  /\ KeyedRows(es, m) => KeyedRows(es, k)
         /\ KeyedFeatures(fs, ds, m, n) => KeyedFeatures(fs, ds, k, l)
         /\ KeyedHistories(ts, ss, m, n) => KeyedHistories(ts, ss, k, l)
<1>1. /\ \A e \in es : e.id \in Nat
      /\ \A f \in fs : f.id \in Nat /\ f.enabler \in Nat
      /\ 1..m \subseteq 1..k /\ 1..n \subseteq 1..l
  BY DEF Row, FeatureRow
<1>2. KeyedRows(es, m) => KeyedRows(es, k)
  BY <1>1 DEF KeyedRows
<1>3. KeyedFeatures(fs, ds, m, n) => KeyedFeatures(fs, ds, k, l)
  BY <1>1 DEF KeyedFeatures
<1>4. KeyedHistories(ts, ss, m, n) => KeyedHistories(ts, ss, k, l)
  BY <1>1 DEF KeyedHistories
<1> QED
  BY <1>2, <1>3, <1>4

LEMMA IdentifiersGrow ==
  ASSUME IInv, Acts
  PROVE  /\ lastEnabler \in Nat /\ lastEnabler' \in Nat /\ lastEnabler <= lastEnabler'
         /\ lastFeature \in Nat /\ lastFeature' \in Nat /\ lastFeature <= lastFeature'
<1>1. lastEnabler \in Nat /\ lastFeature \in Nat
  BY DEF IInv, Typed
<1>2. lastEnabler' \in {lastEnabler, lastEnabler + 1}
  BY RowsChange DEF Undoes, identifiers
<1>3. lastFeature' \in {lastFeature, lastFeature + 1}
  BY FeaturesChange DEF Undoes, identifiers
<1> QED
  BY <1>1, <1>2, <1>3

\* What is in the file keeps its keys, and gives them to the tables.
LEMMA FileKeysGrow ==
  ASSUME IInv, Keyed, Acts
  PROVE  /\ KeyedRows(saved.enablers, lastEnabler')
         /\ KeyedFeatures(saved.features, saved.feeds, lastEnabler', lastFeature')
         /\ KeyedHistories(saved.torn, saved.spoiled, lastEnabler', lastFeature')
<1>1. saved.enablers \in SUBSET Row /\ saved.features \in SUBSET FeatureRow
  BY DEF IInv, Typed, Filed
<1> QED
  BY <1>1, IdentifiersGrow, KeysGrow DEF Keyed, KeyedFile

\* The row that a write leaves is the one that has the identifier.
LEMMA WriteChanges ==
  ASSUME Typed, NEW id, NEW name \in Names, NEW config \in MaybeConfig, Write(id, name, config),
         enablers' # enablers
  PROVE  \E e \in enablers, u \in Row :
           /\ e.id = id /\ u = Updated(id, name, config)
           /\ u.id = id /\ u.name = name /\ u.config = config
           /\ WithName(name) \subseteq WithId(id)
           /\ enablers' = (enablers \ WithId(id)) \cup {u}
           /\ \E x \in WithId(id) : u.plugin = x.plugin
<1>1. Writable(id, name)
  BY DEF Write
<1>2. \E e \in enablers : e.id = id
  BY <1>1 DEF Writable, WithId
<1> QED
  BY <1>1, <1>2, UpdatedIsRow DEF Write, Writable

LEMMA RowsStayKeyed ==
  ASSUME IInv, Keyed, Acts
  PROVE  KeyedRows(enablers', lastEnabler')
<1>1. KeyedRows(enablers, lastEnabler) /\ Typed /\ lastEnabler \in Nat /\ enablers \subseteq Row
  BY DEF Keyed, KeyedTables, IInv, Typed, Filed
<1>2. \A e \in enablers : e.id \in Nat
  BY <1>1 DEF Row
<1>3. CASE UNCHANGED <<enablers, lastEnabler>>
  BY <1>1, <1>3 DEF KeyedRows
<1>4. ASSUME NEW e \in Row, e.id = lastEnabler + 1, WithName(e.name) = {},
             enablers' = enablers \cup {e}, lastEnabler' = lastEnabler + 1
      PROVE  KeyedRows(enablers', lastEnabler')
  <2>1. \A g \in enablers : g.id # e.id /\ g.name # e.name /\ g.id <= lastEnabler'
    BY <1>1, <1>2, <1>4 DEF KeyedRows, WithName
  <2> QED
    BY <1>1, <1>4, <2>1 DEF KeyedRows
<1>5. ASSUME NEW id \in Nat, NEW name \in Names, NEW config \in MaybeConfig,
             Write(id, name, config), UNCHANGED lastEnabler, enablers' # enablers
      PROVE  KeyedRows(enablers', lastEnabler')
  <2>1. PICK e \in enablers, u \in Row :
           /\ e.id = id /\ u.id = id /\ u.name = name
           /\ WithName(name) \subseteq WithId(id)
           /\ enablers' = (enablers \ WithId(id)) \cup {u}
    BY <1>1, <1>5, WriteChanges
  <2>2. \A g \in enablers \ WithId(id) : g.id # u.id /\ g.name # u.name
    BY <2>1 DEF WithId, WithName
  <2> QED
    BY <1>1, <1>5, <2>1, <2>2 DEF KeyedRows
<1>6. CASE enablers' \subseteq enablers /\ UNCHANGED lastEnabler
  BY <1>1, <1>6 DEF KeyedRows
<1>7. CASE Undoes
  BY <1>7, FileKeysGrow DEF Undoes, RollBack
<1> QED
  BY <1>1, <1>3, <1>4, <1>5, <1>6, <1>7, RowsChange DEF KeyedRows

LEMMA FeaturesStayKeyed ==
  ASSUME IInv, Keyed, Acts
  PROVE  KeyedFeatures(features', feeds', lastEnabler', lastFeature')
<1>1. /\ KeyedFeatures(features, feeds, lastEnabler, lastFeature) /\ Typed /\ lastFeature \in Nat
      /\ features \subseteq FeatureRow /\ Knows(client) /\ Numbered(client)
  BY Knowing DEF Keyed, KeyedTables, Typed, Filed
<1>2. lastEnabler' >= lastEnabler /\ lastEnabler' \in Nat /\ lastEnabler \in Nat
  BY IdentifiersGrow
<1>3. \A f \in features : f.id \in Nat \ {0} /\ f.enabler \in Nat
  BY <1>1 DEF FeatureRow
<1>4. \A f \in features : f.enabler <= lastEnabler'
  BY <1>1, <1>2, <1>3 DEF KeyedFeatures
<1>5. CASE features' \subseteq features /\ UNCHANGED <<feeds, lastFeature>>
  BY <1>1, <1>4, <1>5 DEF KeyedFeatures
<1>6. CASE /\ features' = features \cup {NewFeature} /\ lastFeature' = lastFeature + 1
           /\ UNCHANGED feeds /\ At("add")
  <2>1. enabler.id <= lastEnabler' /\ enabler \in Copy
    <3>1. enabler \in Copy /\ enabler.id <= lastEnabler
      BY <1>1, <1>6, Knowing DEF At, Working, Holding, Numbered, enabler
    <3> QED
      BY <1>2, <3>1 DEF Copy
  <2>2. NewFeature.id = lastFeature + 1 /\ NewFeature.enabler = enabler.id
    BY DEF NewFeature
  <2>3. \A f \in features : f.id <= lastFeature' /\ f.id # NewFeature.id
    BY <1>1, <1>3, <1>6, <2>2 DEF KeyedFeatures
  <2>4. feeds' \subseteq 1..lastFeature'
    BY <1>1, <1>6 DEF KeyedFeatures
  <2> QED
    BY <1>1, <1>4, <1>6, <2>1, <2>2, <2>3, <2>4 DEF KeyedFeatures
<1>7. CASE /\ features' = (features \ Flagged) \cup Reflagged
           /\ UNCHANGED <<feeds, lastFeature>>
  <2>1. \A f \in Flagged :
          /\ [f EXCEPT !.isFeed = request.isFeed].id = f.id
          /\ [f EXCEPT !.isFeed = request.isFeed].enabler = f.enabler
    BY <1>1 DEF Flagged, FeatureRow
  <2>2. \A g \in Reflagged : \E f \in Flagged :
          /\ g.id = f.id /\ g.enabler = f.enabler
          /\ g = [f EXCEPT !.isFeed = request.isFeed]
    BY <2>1 DEF Reflagged
  <2>3. \A f, g \in Reflagged : f = g
    BY <1>1, <2>2 DEF KeyedFeatures, Flagged
  <2>4. \A f \in features \ Flagged, g \in Reflagged : f.id # g.id
    BY <2>2 DEF Flagged
  <2>5. \A g \in Reflagged : g.id <= lastFeature /\ g.enabler <= lastEnabler'
    BY <1>1, <1>4, <2>2 DEF KeyedFeatures, Flagged
  <2> QED
    BY <1>1, <1>4, <1>7, <2>3, <2>4, <2>5 DEF KeyedFeatures
<1>8. CASE /\ UNCHANGED <<features, lastFeature>>
           /\ feeds' \in {feeds \cup {feature}, feeds \ {feature}} /\ At("switch")
  <2>1. feature \in 1..lastFeature
    <3>1. feature # 0 /\ feature <= lastFeature /\ feature \in Nat
      BY <1>1, <1>8, LocalTypes DEF At, Knows, Numbered, feature
    <3> QED
      BY <1>1, <3>1
  <2> QED
    BY <1>1, <1>4, <1>8, <2>1 DEF KeyedFeatures
<1>9. CASE Undoes
  BY <1>9, FileKeysGrow DEF Undoes, RollBack
<1> QED
  BY <1>5, <1>6, <1>7, <1>8, <1>9, FeaturesChange

LEMMA HistoriesStayKeyed ==
  ASSUME IInv, Keyed, Acts
  PROVE  KeyedHistories(torn', spoiled', lastEnabler', lastFeature')
<1>1. /\ KeyedHistories(torn, spoiled, lastEnabler, lastFeature) /\ Numbered(client)
      /\ 1..lastEnabler \subseteq 1..lastEnabler' /\ 1..lastFeature \subseteq 1..lastFeature'
  BY IdentifiersGrow DEF Keyed, KeyedTables
<1>2. client.pc \in Working => enabler.id \in 1..lastEnabler
  <2>1. client.pc \in Working => enabler.id \in Nat \ {0} /\ enabler.id <= lastEnabler
    BY <1>1, Knowing DEF Copy, Numbered, enabler
  <2> QED
    BY <2>1, IdentifiersGrow
<1>3. CASE Undoes
  BY <1>3, FileKeysGrow DEF Undoes, RollBack
<1>4. CASE /\ torn' = torn
           /\ spoiled' \subseteq spoiled \cup IF client.pc \in Working THEN {enabler.id} ELSE {}
  BY <1>1, <1>2, <1>4 DEF KeyedHistories
<1> QED
  BY <1>3, <1>4, HistoriesChange

LEMMA FileStaysKeyed ==
  ASSUME IInv, Keyed, Acts, KeyedTables'
  PROVE  KeyedFile'
<1>1. CASE saved' = saved
  BY <1>1, FileKeysGrow DEF KeyedFile
<1>2. CASE saved' = Rows'
  BY <1>2 DEF KeyedFile, KeyedTables, Rows
<1> QED
  BY <1>1, <1>2, FileChanges DEF Statement, Transaction, Undoes, RollBack, connection

LEMMA LocalsStayNumbered ==
  ASSUME IInv, IInv', Keyed, Acts
  PROVE  Numbered(client)'
<1>1. /\ lastEnabler' >= lastEnabler /\ lastEnabler' \in Nat /\ lastEnabler \in Nat
      /\ lastFeature' >= lastFeature /\ lastFeature' \in Nat /\ lastFeature \in Nat
      /\ Typed /\ Typed' /\ Reads /\ KeyedRows(enablers, lastEnabler)
      /\ KeyedRows(enablers', lastEnabler')
      /\ KeyedFeatures(features, feeds, lastEnabler, lastFeature)
  BY IdentifiersGrow, RowsStayKeyed, ActsReads DEF IInv, Keyed, KeyedTables
<1>2. Numbered(client)
  BY DEF Keyed
<1>3. client'.feature <= lastFeature'
  <2>1. client'.feature \in {0, feature} \cup {f.id : f \in features}
    BY <1>1 DEF Reads
  <2>2. \A f \in features : f.id \in Nat /\ f.id <= lastFeature
    BY <1>1 DEF Typed, Filed, FeatureRow, KeyedFeatures
  <2>3. feature \in Nat /\ feature <= lastFeature
    BY <1>1, <1>2, LocalTypes DEF Numbered, feature
  <2>4. client'.feature \in Nat /\ client'.feature <= lastFeature
    BY <1>1, <2>1, <2>2, <2>3
  <2> QED
    BY <1>1, <2>4
<1>4. CASE client'.enabler = Null /\ client'.pc \notin Working
  BY <1>3, <1>4 DEF Numbered
<1>5. CASE /\ client'.enabler = enabler
           /\ client'.pc \in Working => client.pc \in Working
  <2>1. enabler # Null => enabler.id \in Nat
    BY <1>1, LocalTypes DEF Copy
  <2>2. client.pc \in Working => enabler.id \in Nat
    BY Knowing DEF Copy
  <2>3. enabler = Null \/ enabler.id <= lastEnabler'
    BY <1>1, <1>2, <2>1 DEF Numbered, enabler
  <2>4. client.pc \in Working => enabler.id <= lastEnabler'
    BY <1>1, <1>2, <2>2 DEF Numbered, enabler
  <2> QED
    BY <1>3, <1>5, <2>3, <2>4 DEF Numbered
<1>6. CASE \E e \in enablers \cup enablers' : client'.enabler.id = e.id
  <2>1. PICK e \in enablers \cup enablers' : client'.enabler.id = e.id
    BY <1>6
  <2>2. e.id \in Nat /\ e.id <= lastEnabler'
    <3>1. CASE e \in enablers
      BY <1>1, <3>1 DEF KeyedRows, Typed, Filed, Row
    <3>2. CASE e \in enablers'
      BY <1>1, <3>2 DEF KeyedRows, Typed, Filed, Row
    <3> QED
      BY <3>1, <3>2
  <2> QED
    BY <1>3, <2>1, <2>2 DEF Numbered
<1> QED
  BY <1>1, <1>4, <1>5, <1>6 DEF Reads

\* A plugin object is new, or is given a configuration.
LEMMA ObjectsChange ==
  ASSUME IInv, Acts
  PROVE  \/ UNCHANGED objects
         \/ \E i \in Free : /\ objects' = [objects EXCEPT ![i] = NewObject] /\ At("get")
                            /\ enabler.plugin \in Plugins
         \/ /\ objects' = [objects EXCEPT ![plugin].config = Head(todo)]
            /\ At("configure")
<1>1. CASE Get
  BY <1>1, GetLeads DEF Get
<1>2. CASE Configure
  BY <1>2, ConfigureLeads DEF Configure
<1>3. CASE ~(Get \/ Configure)
  BY <1>3 DEF Acts, Serve, Receive, Find, FindAny, FindFeature, Register, Ask,
     Insert, Save, DeleteFeatures, Add, Added, AddFails, Update, Switch, Flag, Delete, Remove,
     DeletePlugin, RemoveAll, manager
<1> QED
  BY <1>1, <1>2, <1>3

LEMMA MapChanges ==
  ASSUME IInv, Acts
  PROVE  \/ UNCHANGED plugins
         \/ plugins' = [plugins EXCEPT ![enabler.name] = plugin] /\ At("register")
         \/ plugins' = [plugins EXCEPT ![enabler.name] = None] /\ At("remove")
         \/ /\ plugins' \in [Names -> Numbers \cup {None}]
            /\ \A n \in Names : plugins'[n] \in {plugins[n], None}
            /\ At("removeAll")
<1>1. CASE Register
  BY <1>1, RegisterLeads DEF Register
<1>2. CASE Remove
  BY <1>2, RemoveLeads DEF Remove
<1>3. CASE RemoveAll
  BY <1>3, RemoveAllLeads DEF RemoveAll
<1>4. CASE ~(Register \/ Remove \/ RemoveAll)
  BY <1>4 DEF Acts, Serve, Receive, Find, FindAny, FindFeature, Get, Configure, Ask,
     Insert, Save, DeleteFeatures, Add, Added, AddFails, Update, Switch, Flag, Delete,
     DeletePlugin, manager
<1> QED
  BY <1>1, <1>2, <1>3, <1>4

\* What is referred to was referred to before, or is new.
LEMMA UsedChanges ==
  ASSUME IInv, Acts, NEW i \in Used'
  PROVE  \/ i \in Used
         \/ /\ At("get") /\ i \in Free /\ objects'[i] = NewObject
            /\ enabler.plugin \in Plugins
<1>1. Typed /\ Reads
  BY ActsReads DEF IInv
<1>2. i # None /\ (i \in {plugins'[n] : n \in Names} \/ i = client'.plugin)
  BY DEF Used, Live, plugin
<1>3. CASE i \in {plugins'[n] : n \in Names}
  <2>1. PICK n \in Names : i = plugins'[n]
    BY <1>3
  <2>2. i = plugins[n] \/ i = plugin
    BY <1>1, <1>2, <2>1, MapChanges DEF Typed
  <2> QED
    BY <1>1, <1>2, <2>2, MapIsUsed
<1>4. CASE i = client'.plugin
  <2>1. CASE client'.plugin \in {None, plugin}
    BY <1>1, <1>2, <1>4, <2>1, MapIsUsed
  <2>2. CASE At("get") /\ ~(client'.plugin \in {None, plugin})
    <3>1. Get
      BY <1>2, <1>4, <2>2 DEF Acts, Serve, At, Receive, Insert, Find, FindAny, FindFeature, Register,
         Ask, Configure, Save, DeleteFeatures, Add, Added, AddFails, Update, Switch, Flag, Delete,
         Remove, DeletePlugin, RemoveAll
    <3>2. CASE Rests
      BY <2>2, <3>2 DEF Rests, Resting
    <3>3. CASE \E j \in Used : client'.plugin = j
      BY <1>4, <3>3
    <3>4. CASE \E j \in Free : /\ objects' = [objects EXCEPT ![j] = NewObject]
                              /\ enabler.plugin \in Plugins
                              /\ client'.plugin = j
      BY <1>1, <1>4, <2>2, <3>4 DEF Typed, Free
    <3> QED
      BY <3>1, <3>2, <3>3, <3>4, GetLeads DEF Becomes
  <2> QED
    BY <1>1, <2>1, <2>2 DEF Reads
<1> QED
  BY <1>2, <1>3, <1>4

LEMMA ObjectsStayKeyed ==
  ASSUME IInv, Keyed, Acts
  PROVE  KeyedObjects'
<1>1. /\ lastEnabler' >= lastEnabler /\ lastEnabler' \in Nat /\ lastEnabler \in Nat
      /\ Typed /\ KeyedObjects /\ Numbered(client) /\ Knows(client)
  BY IdentifiersGrow, Knowing DEF Keyed
<1>2. \A i \in Numbers : objects[i] = Null \/ objects[i].id <= lastEnabler'
  <2> TAKE i \in Numbers
  <2>1. objects[i] # Null => objects[i].id \in Nat
    BY <1>1 DEF Typed, Object
  <2> QED
    BY <1>1, <2>1 DEF KeyedObjects
<1>3. \A i \in Used : objects[i].id <= lastEnabler'
  <2> TAKE i \in Used
  <2>1. objects[i].id \in Nat
    BY DEF IInv, Known, Object
  <2> QED
    BY <1>1, <2>1 DEF KeyedObjects
<1>4. CASE UNCHANGED objects
  <2>1. ~\E i \in Used' : i \in Free /\ objects'[i] = NewObject /\ At("get") /\ objects[i] # NewObject
    BY <1>4
  <2>2. At("get") => NewObject.id <= lastEnabler'
    <3>1. At("get") => enabler.id \in Nat /\ enabler.id <= lastEnabler
      BY <1>1, Knowing DEF At, Working, Numbered, enabler, Copy
    <3> QED
      BY <1>1, <3>1 DEF NewObject
  <2> QED
    BY <1>2, <1>3, <1>4, <2>2, UsedChanges DEF KeyedObjects
<1>5. ASSUME NEW i \in Free, objects' = [objects EXCEPT ![i] = NewObject], At("get")
      PROVE  KeyedObjects'
  <2>1. NewObject.id <= lastEnabler'
    <3>1. enabler.id \in Nat /\ enabler.id <= lastEnabler
      BY <1>1, <1>5, Knowing DEF At, Working, Numbered, enabler, Copy
    <3> QED
      BY <1>1, <3>1 DEF NewObject
  <2>2. \A j \in Numbers : objects'[j] \in {objects[j], NewObject}
    BY <1>1, <1>5 DEF Typed
  <2>3. \A j \in Used : objects'[j] = objects[j]
    BY <1>1, <1>5, MapIsUsed DEF Typed, Free, Used
  <2> QED
    BY <1>2, <1>3, <2>1, <2>2, <2>3, UsedChanges DEF KeyedObjects
<1>6. CASE objects' = [objects EXCEPT ![plugin].config = Head(todo)] /\ At("configure")
  <2>1. plugin \in Used /\ plugin \in Numbers /\ objects[plugin] \in Object
    BY <1>1, <1>6, Knowing, MapIsUsed DEF At, Holding, Knows, plugin
  <2>2. objects'[plugin].id = objects[plugin].id
    BY <1>1, <1>6, <2>1 DEF Typed, Object
  <2>3. \A j \in Numbers : j # plugin => objects'[j] = objects[j]
    BY <1>1, <1>6 DEF Typed
  <2>4. Used' \subseteq Used
    BY <1>6, UsedChanges DEF At
  <2> QED
    BY <1>1, <1>2, <1>3, <2>1, <2>2, <2>3, <2>4, MapIsUsed DEF KeyedObjects
<1> QED
  BY <1>4, <1>5, <1>6, ObjectsChange

\* The rows that a crash finds half changed have been added.
LEMMA HalvesAreNumbered ==
  ASSUME IInv, Keyed
  PROVE  CutOff \subseteq 1..lastFeature /\ Unfinished \subseteq 1..lastEnabler
<1>1. Typed /\ Knows(client) /\ Numbered(client) /\ lastFeature \in Nat /\ lastEnabler \in Nat
  BY Knowing DEF Keyed, Typed
<1>2. At("flag") => feature \in 1..lastFeature
  <2>1. At("flag") => feature # 0 /\ feature \in Nat /\ feature <= lastFeature
    BY <1>1, LocalTypes DEF At, Knows, Numbered, feature
  <2> QED
    BY <1>1, <2>1
<1>3. client.pc \in Working => enabler.id \in 1..lastEnabler
  <2>1. client.pc \in Working => enabler.id \in Nat \ {0} /\ enabler.id <= lastEnabler
    BY <1>1, Knowing DEF Copy, Numbered, enabler
  <2> QED
    BY <1>1, <2>1
<1> QED
  BY <1>2, <1>3 DEF CutOff, Unfinished, At, Working, Holding, feature

LEMMA RestartStaysKeyed ==
  ASSUME IInv, Keyed, Restart
  PROVE  Keyed'
<1>1. /\ UNCHANGED <<lastEnabler, lastFeature>> /\ Typed
      /\ plugins' = [n \in Names |-> None] /\ objects' = [i \in Numbers |-> Null]
      /\ client' = Resting
  BY DEF Restart, IInv, identifiers
<1>2. KeyedTables'
  BY <1>1, HalvesAreNumbered DEF Restart, Keyed, KeyedFile, KeyedTables, KeyedHistories
<1>3. KeyedFile'
  BY <1>2 DEF Restart, Rows, KeyedFile, KeyedTables
<1>4. Numbered(client)'
  BY <1>1 DEF Numbered, Resting, Working, Holding, Typed
<1>5. KeyedObjects'
  <2>1. Used' = {}
    BY <1>1 DEF Used, Live, plugin, Resting
  <2> QED
    BY <1>1, <2>1 DEF KeyedObjects
<1> QED
  BY <1>2, <1>3, <1>4, <1>5 DEF Keyed

LEMMA InitKeyed ==
  ASSUME Init
  PROVE  Keyed
<1>1. Used = {}
  BY DEF Init, Used, Live, plugin, Resting
<1>2. Numbered(client)
  BY DEF Init, Numbered, Resting, Working, Holding
<1>3. KeyedTables
  BY DEF Init, KeyedTables, KeyedRows, KeyedFeatures, KeyedHistories
<1>4. KeyedFile
  BY <1>3 DEF Init, Rows, KeyedFile, KeyedTables
<1> QED
  BY <1>1, <1>2, <1>3, <1>4 DEF Init, Keyed, KeyedObjects

LEMMA KeyedIsInductive ==
  ASSUME IInv, IInv', Keyed, [Next]_vars
  PROVE  Keyed'
<1>1. CASE UNCHANGED vars
  <2>1. UNCHANGED <<enablers, features, feeds, lastEnabler, lastFeature, saved, objects, plugins,
                    client, torn, spoiled>>
    BY <1>1 DEF vars, database, identifiers, connection, manager, histories
  <2>2. Used' = Used
    BY <2>1 DEF Used, Live, plugin
  <2> QED
    BY <2>1, <2>2 DEF Keyed, KeyedTables, KeyedFile, KeyedObjects, Numbered
<1>2. ASSUME Acts
      PROVE  Keyed'
  <2>1. KeyedTables'
    BY <1>2, RowsStayKeyed, FeaturesStayKeyed, HistoriesStayKeyed DEF KeyedTables
  <2> QED
    BY <1>2, <2>1, FileStaysKeyed, LocalsStayNumbered, ObjectsStayKeyed DEF Keyed
<1> QED
  BY <1>1, <1>2, RestartStaysKeyed DEF Next, Acts

------------------------------------------------------------------------------
(* The bounds: what the request under way may still take from them.        *)

Bounded ==
  /\ lastEnabler <= MaxEnablers
  /\ At("insert") => lastEnabler < MaxEnablers
  /\ lastFeature <= MaxFeatures
  /\ ~At("idle") /\ Adding(request) => lastFeature + MaxOffered <= MaxFeatures + count
  /\ count <= lastFeature

\* Few features: each has an identifier of its own.
LEMMA FewFeatures ==
  ASSUME IInv, Keyed
  PROVE  /\ Cardinality(features) <= lastFeature
         /\ \A id : Cardinality(FeaturesOf(id)) \in Nat /\ Cardinality(FeaturesOf(id)) <= lastFeature
<1>1. /\ IsFiniteSet(features) /\ lastFeature \in Nat /\ features \subseteq FeatureRow
      /\ KeyedFeatures(features, feeds, lastEnabler, lastFeature)
  BY DEF IInv, Typed, Filed, Keyed, KeyedTables
<1> DEFINE S == 1..lastFeature
           g == [x \in S |-> CHOOSE f \in features : f.id = x]
<1>2. \A f \in features : f.id \in S /\ f = g[f.id]
  BY <1>1 DEF KeyedFeatures, FeatureRow
<1>3. features \subseteq {g[x] : x \in S}
  BY <1>2
<1>4. IsFiniteSet(S) /\ Cardinality(S) = lastFeature
  BY <1>1, FS_Interval
<1> HIDE DEF S, g
<1>5. IsFiniteSet({g[x] : x \in S}) /\ Cardinality({g[x] : x \in S}) <= lastFeature
  BY <1>4, FewValues
<1>6. Cardinality(features) <= Cardinality({g[x] : x \in S})
  BY <1>3, <1>5, FS_Subset
<1>7. Cardinality(features) \in Nat /\ Cardinality({g[x] : x \in S}) \in Nat
  BY <1>1, <1>5, FS_CardinalityType
<1>8. ASSUME NEW id
      PROVE  Cardinality(FeaturesOf(id)) \in Nat /\ Cardinality(FeaturesOf(id)) <= Cardinality(features)
  <2>1. FeaturesOf(id) \in SUBSET features
    BY DEF FeaturesOf
  <2> QED
    BY <1>1, <2>1, FS_Subset, FS_CardinalityType
<1>9. Cardinality(features) <= lastFeature
  BY <1>1, <1>5, <1>6, <1>7
<1> QED
  BY <1>1, <1>7, <1>8, <1>9

LEMMA CountStaysBounded ==
  ASSUME IInv, Keyed, Bounded, Acts
  PROVE  client'.count <= lastFeature' /\ client'.count \in Nat
<1>1. /\ Reads /\ count \in Nat /\ count <= lastFeature
      /\ lastFeature \in Nat /\ lastFeature' \in Nat /\ lastFeature <= lastFeature'
  BY ActsReads, LocalTypes, IdentifiersGrow DEF IInv, Bounded
<1>2. CASE client'.count \in {0, count}
  BY <1>1, <1>2
<1>3. CASE client'.count = count + 1 /\ lastFeature' = lastFeature + 1
  BY <1>1, <1>3
<1>4. CASE \E id \in Nat : client'.count = Cardinality(FeaturesOf(id)) /\ UNCHANGED lastFeature
  BY <1>1, <1>4, FewFeatures
<1> QED
  BY <1>1, <1>2, <1>3, <1>4 DEF Reads

LEMMA ServeStaysBounded ==
  ASSUME IInv, IInv', Keyed, Bounded, Serve
  PROVE  Bounded'
<1>1. /\ Lessens /\ lastEnabler \in Nat /\ lastFeature \in Nat /\ count \in Nat
      /\ MaxOffered \in Nat /\ MaxFeatures \in Nat /\ MaxEnablers \in Nat
      /\ client'.count <= lastFeature' /\ client'.count \in Nat
  BY ActsReads, LocalTypes, CountStaysBounded, EnablersAssumption DEF Acts, IInv, Typed
<1>2. lastEnabler' <= MaxEnablers /\ client'.pc # "insert"
  <2>1. UNCHANGED lastEnabler \/ (At("insert") /\ lastEnabler' = lastEnabler + 1)
    BY RowsChange DEF Acts, Undoes, identifiers
  <2> QED
    BY <1>1, <2>1 DEF Bounded, Lessens
<1>3. CASE UNCHANGED lastFeature
  <2>1. ASSUME client'.pc # "idle", Adding(client'.request)
        PROVE  lastFeature' + MaxOffered <= MaxFeatures + client'.count
    <3>1. client'.request = request /\ client'.count >= count
      BY <1>1, <2>1 DEF Lessens, Adding
    <3>2. ~At("idle")
      BY DEF Serve, At, Insert, Find, FindAny, FindFeature, Get, Register, Ask, Configure,
         Save, DeleteFeatures, Add, Added, AddFails, Update, Switch, Flag, Delete, Remove,
         DeletePlugin, RemoveAll
    <3>3. lastFeature + MaxOffered <= MaxFeatures + count
      BY <2>1, <3>1, <3>2 DEF Bounded
    <3> QED
      BY <1>1, <1>3, <3>1, <3>3
  <2> QED
    BY <1>1, <1>2, <1>3, <2>1 DEF Bounded, At, request, count
<1>4. CASE lastFeature' = lastFeature + 1 /\ At("add")
  <2>1. Add
    <3>1. Add \/ Added \/ AddFails
      BY <1>4 DEF Serve, At, Insert, Find, FindAny, FindFeature, Get, Register, Ask, Configure,
         Save, DeleteFeatures, Update, Switch, Flag, Delete, Remove, DeletePlugin, RemoveAll
    <3>2. lastFeature' # lastFeature
      BY <1>1, <1>4
    <3> QED
      BY <3>1, <3>2 DEF Added, AddFails, database, identifiers
  <2>2. /\ Becomes("add", request, enabler, feature, plugin, todo, count + 1)
        /\ Op \in {"post", "put"} /\ count < Len(Offered)
    BY <2>1, AddLeads
  <2>3. Len(Offered) \in Nat /\ Len(Offered) <= MaxOffered
    BY <1>4, OfferedTypes DEF At, Holding
  <2>4. Adding(request)
    BY <1>4, <2>2, Knowing DEF Adding, At, Knows, Op, request
  <2>5. lastFeature + MaxOffered <= MaxFeatures + count
    BY <1>4, <2>4 DEF Bounded, At
  <2>6. lastFeature' <= MaxFeatures /\ lastFeature' + MaxOffered <= MaxFeatures + (count + 1)
    BY <1>1, <1>4, <2>2, <2>3, <2>5
  <2> QED
    BY <1>1, <1>2, <2>2, <2>6 DEF Bounded, At, request, count, Becomes
<1> QED
  BY <1>3, <1>4, FeaturesChange DEF Acts, Undoes, identifiers

LEMMA ReceiveStaysBounded ==
  ASSUME IInv, Keyed, Bounded, Receive
  PROVE  Bounded'
<1>1. /\ UNCHANGED <<lastEnabler, lastFeature>> /\ lastFeature \in Nat
      /\ MaxOffered \in Nat /\ MaxFeatures \in Nat
  BY EnablersAssumption DEF Receive, database, identifiers, IInv, Typed
<1>2. PICK r \in Request, label \in {"insert", "deletePlugin", "find"} :
        /\ label = "insert" <=> r.op = "post"
        /\ Becomes(label, r, Null, 0, None, <<>>, 0)
        /\ r.op = "post" => lastEnabler < MaxEnablers
        /\ Adding(r) => lastFeature + MaxOffered <= MaxFeatures
  BY ReceiveLeads
<1>3. client'.pc = label /\ client'.request = r /\ client'.count = 0
  BY <1>2 DEF Becomes
<1> QED
  BY <1>1, <1>2, <1>3 DEF Bounded, At, request, count

LEMMA RestartStaysBounded ==
  ASSUME IInv, Bounded, Restart
  PROVE  Bounded'
BY DEF Restart, Bounded, identifiers, Resting, At, request, count, IInv, Typed

LEMMA InitBounded ==
  ASSUME Init
  PROVE  Bounded
BY EnablersAssumption DEF Init, Bounded, Resting, At, count

LEMMA BoundedIsInductive ==
  ASSUME IInv, IInv', Keyed, Bounded, [Next]_vars
  PROVE  Bounded'
<1>1. CASE UNCHANGED vars
  BY <1>1 DEF vars, database, identifiers, Bounded, At, request, count
<1> QED
  BY <1>1, ServeStaysBounded, ReceiveStaysBounded, RestartStaysBounded DEF Next

\* What has been added has an identifier within the bounds.
LEMMA RowsWithinBounds ==
  ASSUME Bounded, lastEnabler \in Nat, lastFeature \in Nat, NEW es, NEW fs, Filed(es, fs),
         NEW ds, NEW ts, NEW ss, KeyedRows(es, lastEnabler),
         KeyedFeatures(fs, ds, lastEnabler, lastFeature),
         KeyedHistories(ts, ss, lastEnabler, lastFeature)
  PROVE  /\ es \subseteq Enabler /\ fs \subseteq Feature /\ ds \subseteq 1..MaxFeatures
         /\ ts \subseteq 1..MaxFeatures /\ ss \subseteq Ids
<1>1. \A n \in Nat \ {0} : n <= lastEnabler => n \in Ids
  BY EnablersAssumption DEF Ids, Bounded
<1>2. \A n \in Nat \ {0} : n <= lastFeature => n \in 1..MaxFeatures
  BY EnablersAssumption DEF Bounded
<1>3. es \subseteq Enabler
  BY <1>1 DEF Filed, KeyedRows, Row, Enabler, MaybeConfig
<1>4. fs \subseteq Feature
  <2> SUFFICES ASSUME NEW f \in fs PROVE f \in Feature
    OBVIOUS
  <2>1. /\ f \in FeatureRow /\ f.id \in Nat \ {0} /\ f.id <= lastFeature
        /\ f.enabler \in Nat \ {0} /\ f.enabler <= lastEnabler
    BY DEF Filed, FeatureRow, KeyedFeatures
  <2>2. f.id \in 1..MaxFeatures /\ f.enabler \in Ids
    BY <1>1, <1>2, <2>1
  <2> QED
    BY <2>1, <2>2 DEF FeatureRow, Feature
<1>5. 1..lastFeature \subseteq 1..MaxFeatures /\ 1..lastEnabler \subseteq Ids
  BY EnablersAssumption DEF Bounded, Ids
<1> QED
  BY <1>3, <1>4, <1>5 DEF KeyedFeatures, KeyedHistories

LEMMA TypesHold ==
  ASSUME IInv, Keyed, Bounded
  PROVE  TypeOK
<1>1. Typed /\ lastEnabler \in 0..MaxEnablers /\ lastFeature \in 0..MaxFeatures
  BY EnablersAssumption DEF IInv, Typed, Bounded
<1>2. /\ enablers \subseteq Enabler /\ features \subseteq Feature
      /\ torn \subseteq 1..MaxFeatures /\ spoiled \subseteq Ids /\ feeds \subseteq 1..lastFeature
  BY <1>1, RowsWithinBounds DEF Typed, Keyed, KeyedTables, KeyedFeatures
<1>3. saved \in File
  <2>1. /\ saved.enablers \subseteq Enabler /\ saved.features \subseteq Feature
        /\ saved.feeds \subseteq 1..MaxFeatures /\ saved.torn \subseteq 1..MaxFeatures
        /\ saved.spoiled \subseteq Ids
    BY <1>1, RowsWithinBounds DEF Typed, Keyed, KeyedFile
  <2> QED
    BY <1>1, <2>1 DEF Typed, FileRows, File
<1>4. \A n \in Nat \ {0} : n <= lastEnabler => n \in Ids
  BY <1>1, EnablersAssumption DEF Ids
<1>5. objects \in [Numbers -> Plugin \cup {Null}]
  <2> SUFFICES ASSUME NEW i \in Numbers, objects[i] # Null PROVE objects[i] \in Plugin
    BY <1>1 DEF Typed
  <2>1. objects[i] \in Object /\ objects[i].id <= lastEnabler
    BY <1>1 DEF Typed, Keyed, KeyedObjects
  <2> QED
    BY <1>4, <2>1 DEF Object, Plugin, MaybeConfig
<1>6. client \in Client
  <2>1. client \in Local /\ Numbered(client) /\ count <= lastFeature
    BY <1>1, LocalTypes DEF Keyed, Bounded
  <2>2. client.enabler \in Enabler \cup {Null}
    <3>1. CASE client.enabler # Null
      <4>1. client.enabler \in Copy /\ client.enabler.id <= lastEnabler
        BY <2>1, <3>1 DEF Local, Numbered
      <4> QED
        BY <1>4, <4>1 DEF Copy, Enabler, MaybeConfig
    <3> QED
      BY <3>1
  <2>3. client.feature \in 0..MaxFeatures /\ client.count \in 0..MaxFeatures
    <3>1. client.feature \in Nat /\ client.count \in Nat
      BY <2>1 DEF Local
    <3> QED
      BY <1>1, <2>1, <3>1, EnablersAssumption DEF Numbered, count
  <2> QED
    BY <2>1, <2>2, <2>3 DEF Local, Client, MaybeConfig
<1> QED
  BY <1>1, <1>2, <1>3, <1>5, <1>6 DEF TypeOK, Typed

\* Each layer holds with those before it.
LEMMA LayersHold == Spec => [](IInv /\ Keyed /\ Bounded)
<1>1. Init => IInv /\ Keyed /\ Bounded
  BY InitKeeps, InitKeyed, InitBounded
<1>2. IInv /\ Keyed /\ Bounded /\ [Next]_vars => (IInv /\ Keyed /\ Bounded)'
  BY IInvIsInductive, KeyedIsInductive, BoundedIsInductive
<1> QED
  BY <1>1, <1>2, PTL DEF Spec

(***************************************************************************)
(* TypeOK is an invariant: there is always a number for a new plugin       *)
(* object, each row that addEnabler and addFeature insert has an           *)
(* identifier of its own, also after a rollback, and what the request      *)
(* under way may still add fits into the bounds.                           *)
(***************************************************************************)
THEOREM TypeInvariant == Spec => []TypeOK
BY LayersHold, TypesHold, PTL

------------------------------------------------------------------------------
(* Flags and feeds.                                                        *)

\* The tables are as the file.
Committed ==
  /\ saved.enablers = enablers /\ saved.features = features /\ saved.feeds = feeds
  /\ saved.torn = torn /\ saved.spoiled = spoiled

FlagsFine(fs, ds, ts) == \A f \in fs : (f.isFeed <=> f.id \in ds) \/ f.id \in ts

\* The flags in the file are right as well when a rollback may bring them back,
\* and the feed is as wanted when the feature is to be flagged.
FlagInv ==
  /\ FlagMatchesFeed
  /\ At("flag") => (request.isFeed <=> feature \in feeds)
  /\ autoCommit => Committed
  /\ ~autoCommit => FlagsFine(saved.features, saved.feeds, saved.torn)

LEMMA CommittedStays ==
  ASSUME IInv, autoCommit => Committed, Acts, autoCommit'
  PROVE  Committed'
<1>1. CASE Statement \/ Transaction
  <2>1. saved' = Rows'
    BY <1>1, Zenon DEF Statement, Transaction
  <2> QED
    BY <2>1 DEF Rows, Committed
<1>2. CASE Undoes
  BY <1>2 DEF Undoes, RollBack, Committed
<1>3. CASE UNCHANGED <<enablers, features, feeds, connection, histories>>
  BY <1>3 DEF connection, histories, Committed
<1> QED
  BY <1>1, <1>2, <1>3, FileChanges

LEMMA FileStaysFine ==
  ASSUME IInv, FlagInv, Acts, ~autoCommit'
  PROVE  FlagsFine(saved'.features, saved'.feeds, saved'.torn)
<1>1. saved' = saved /\ (~autoCommit \/ At("deletePlugin"))
  <2>1. CASE Statement
    BY <2>1, Zenon DEF Statement
  <2>2. ~Transaction /\ ~Undoes
    BY Zenon DEF Transaction, Undoes, RollBack
  <2>3. CASE UNCHANGED connection
    <3>1. saved' = saved /\ autoCommit' = autoCommit
      BY <2>3 DEF connection
    <3> QED
      BY <3>1, Zenon
  <2>4. CASE saved' = saved /\ At("deletePlugin")
    BY <2>4
  <2> QED
    BY <2>1, <2>2, <2>3, <2>4, FileChanges
<1>2. CASE ~autoCommit
  BY <1>1, <1>2 DEF FlagInv
<1>3. CASE autoCommit /\ At("deletePlugin")
  <2>1. FlagsFine(features, feeds, torn)
    BY <1>3 DEF FlagInv, FlagMatchesFeed, At, FlagsFine
  <2> QED
    BY <1>1, <1>3, <2>1 DEF FlagInv, Committed
<1> QED
  BY <1>1, <1>2, <1>3

LEMMA UndoKeepsFlags ==
  ASSUME FlagInv, Undoes
  PROVE  FlagMatchesFeed' /\ ~At("flag")'
<1>1. FlagsFine(features, feeds, torn)
  BY DEF Undoes, FlagInv, FlagMatchesFeed, At, FlagsFine
<1>2. FlagsFine(saved.features, saved.feeds, saved.torn)
  BY <1>1 DEF FlagInv, Committed
<1>3. features' = saved.features /\ feeds' = saved.feeds /\ torn' = saved.torn
  BY DEF Undoes, RollBack
<1> QED
  BY <1>2, <1>3 DEF FlagMatchesFeed, FlagsFine, Undoes, Rests, At, Resting

\* The feature at hand gets its feed, or loses it.
LEMMA SwitchKeepsFlags ==
  ASSUME IInv, FlagInv, Switch, ~Undoes
  PROVE  /\ FlagMatchesFeed'
         /\ At("flag")' => (client'.request.isFeed <=> client'.feature \in feeds')
<1>1. FlagsFine(features, feeds, torn) /\ request.isFeed \in BOOLEAN /\ Typed
  BY Knowing, RequestFacts
     DEF FlagInv, FlagMatchesFeed, At, FlagsFine, Switch, Knows, request
<1>2. /\ feeds' = IF request.isFeed THEN feeds \cup {feature} ELSE feeds \ {feature}
      /\ IF feeds' # feeds THEN Goto("flag") ELSE Answer
      /\ features' = features /\ torn' = torn
  BY SwitchUndoes DEF histories
<1>3. CASE feeds' # feeds
  <2>1. Goes("flag")
    BY <1>1, <1>2, <1>3, GotoGoes DEF Steps
  <2>2. client'.pc = "flag" /\ client'.feature = feature /\ client'.request = request
    BY <2>1 DEF Goes, Becomes
  <2>3. \A f \in features : f.id # feature => (f.id \in feeds' <=> f.id \in feeds)
    BY <1>2
  <2>4. FlagMatchesFeed'
    BY <1>1, <1>2, <2>2, <2>3 DEF FlagMatchesFeed, FlagsFine, At
  <2> QED
    BY <1>1, <1>2, <2>2, <2>4
<1>4. CASE feeds' = feeds
  <2>1. client' = Resting
    BY <1>2, <1>4 DEF Answer
  <2>2. ~At("flag")'
    BY <2>1 DEF At, Resting
  <2> QED
    BY <1>1, <1>2, <1>4, <2>2 DEF FlagMatchesFeed, FlagsFine
<1> QED
  BY <1>3, <1>4

LEMMA FlagKeepsFlags ==
  ASSUME IInv, FlagInv, Flag
  PROVE  FlagMatchesFeed'
<1>1. /\ features' = (features \ Flagged) \cup Reflagged /\ features \subseteq FeatureRow
      /\ feeds' = feeds /\ torn' = torn /\ request.isFeed \in BOOLEAN
      /\ request.isFeed <=> feature \in feeds
  BY FlagTypes DEF Flag, histories, FlagInv, IInv, Typed, Filed
<1>2. ASSUME NEW f \in features \ Flagged
      PROVE  (f.isFeed <=> f.id \in feeds) \/ f.id \in torn
  BY DEF FlagInv, FlagMatchesFeed, Flagged, feature
<1>3. ASSUME NEW f \in Reflagged
      PROVE  f.isFeed <=> f.id \in feeds
  <2>1. PICK g \in Flagged : f = [g EXCEPT !.isFeed = request.isFeed]
    BY DEF Reflagged
  <2>2. f.id = feature /\ f.isFeed = request.isFeed
    BY <1>1, <2>1 DEF Flagged, FeatureRow
  <2> QED
    BY <1>1, <2>2
<1> QED
  BY <1>1, <1>2, <1>3 DEF FlagMatchesFeed

\* Neither of these: no flag and no feed changes.
LEMMA OthersKeepFlags ==
  ASSUME IInv, Keyed, FlagInv, Acts, ~Flag, ~Switch, ~Undoes
  PROVE  FlagMatchesFeed'
<1>1. torn' = torn /\ lastFeature \in Nat
  BY HistoriesChange DEF IInv, Typed
<1>2. ~At("flag") /\ ~At("switch")
  BY DEF Acts, Serve, At, Receive, Insert, Find, FindAny, FindFeature, Get, Register, Ask,
     Configure, Save, DeleteFeatures, Add, Added, AddFails, Update, Delete, Remove,
     DeletePlugin, RemoveAll
<1>3. FlagsFine(features, feeds, torn)
  BY <1>2 DEF FlagInv, FlagMatchesFeed, FlagsFine
<1>4. /\ feeds' = feeds
      /\ features' \subseteq features \/ features' = features \cup {NewFeature}
  BY <1>2, FeaturesChange
<1>5. ~NewFeature.isFeed /\ NewFeature.id \notin feeds
  BY <1>1 DEF NewFeature, Keyed, KeyedTables, KeyedFeatures
<1> QED
  BY <1>1, <1>3, <1>4, <1>5 DEF FlagMatchesFeed, FlagsFine

LEMMA ActsKeepFlags ==
  ASSUME IInv, Keyed, FlagInv, Acts
  PROVE  FlagInv'
<1>1. /\ autoCommit' => Committed'
      /\ ~autoCommit' => FlagsFine(saved'.features, saved'.feeds, saved'.torn)
  BY CommittedStays, FileStaysFine DEF FlagInv
<1>2. CASE Undoes
  BY <1>1, <1>2, UndoKeepsFlags DEF FlagInv
<1>3. CASE ~Undoes /\ Switch
  BY <1>1, <1>3, SwitchKeepsFlags DEF FlagInv, request, feature
<1>4. CASE ~Undoes /\ ~Switch
  <2>1. FlagMatchesFeed'
    BY <1>4, FlagKeepsFlags, OthersKeepFlags
  <2>2. ~At("flag")'
    <3>1. CASE Serve
      BY <1>4, <3>1, ActsReads DEF Acts, Lessens, At
    <3>2. CASE Receive
      BY <3>2, ReceiveLeads DEF Becomes, At
    <3> QED
      BY <3>1, <3>2 DEF Acts
  <2> QED
    BY <1>1, <2>1, <2>2 DEF FlagInv
<1> QED
  BY <1>2, <1>3, <1>4

\* A crash between the feed and the flag is remembered when it is committed.
LEMMA RestartKeepsFlags ==
  ASSUME IInv, FlagInv, Restart
  PROVE  FlagInv'
<1>1. /\ features' = saved.features /\ feeds' = saved.feeds /\ torn' = saved.torn \cup CutOff
      /\ ~autoCommit' /\ client' = Resting
      /\ saved'.features = features' /\ saved'.feeds = feeds' /\ saved'.torn = torn'
  BY DEF Restart, Rows
<1>2. FlagsFine(saved.features, saved.feeds, saved.torn \cup CutOff)
  <2>1. CASE ~autoCommit
    BY <2>1 DEF FlagInv, FlagsFine
  <2>2. CASE autoCommit
    BY <2>2 DEF FlagInv, Committed, FlagMatchesFeed, FlagsFine, CutOff
  <2> QED
    BY <2>1, <2>2
<1>3. ~At("flag")'
  BY <1>1 DEF At, Resting
<1> QED
  BY <1>1, <1>2, <1>3 DEF FlagInv, FlagMatchesFeed, FlagsFine

LEMMA InitKeepsFlags ==
  ASSUME Init
  PROVE  FlagInv
BY DEF Init, Rows, FlagInv, FlagMatchesFeed, FlagsFine, At, Resting

LEMMA FlagInvIsInductive ==
  ASSUME IInv, Keyed, FlagInv, [Next]_vars
  PROVE  FlagInv'
<1>1. CASE UNCHANGED vars
  BY <1>1 DEF vars, database, identifiers, connection, histories, FlagInv, FlagMatchesFeed,
     FlagsFine, Committed, At, request, feature
<1> QED
  BY <1>1, ActsKeepFlags, RestartKeepsFlags DEF Next, Acts

LEMMA FlagLayerHolds == Spec => []FlagInv
<1>1. Init => FlagInv
  BY InitKeepsFlags
<1>2. IInv /\ Keyed /\ FlagInv /\ [Next]_vars => FlagInv'
  BY FlagInvIsInductive
<1> QED
  BY <1>1, <1>2, LayersHold, PTL DEF Spec

(***************************************************************************)
(* FlagMatchesFeed is an invariant, for any number of enablers, features   *)
(* and requests: whether a transaction commits it, a crash loses it or the *)
(* rollback of a failed addition takes it back, a feature's flag goes with *)
(* its feed, unless the hub died between the two with auto-commit on.      *)
(***************************************************************************)
THEOREM FlagsMatchTheirFeeds == Spec => []FlagMatchesFeed
<1>1. FlagInv => FlagMatchesFeed
  BY DEF FlagInv
<1> QED
  BY <1>1, FlagLayerHolds, PTL

------------------------------------------------------------------------------
(* What plugin objects and copies of rows remember.                        *)

\* The rows that there are, or that a rollback or a crash may bring back.
AllRows == enablers \cup saved.enablers

\* The object that the map has under a name, and that the client works with, has
\* the name; it has the script of the row that it remembers; and so has the
\* client.  A row that comes back has the plugin it had.
Named ==
  /\ \A n \in Names : plugins[n] # None => objects[plugins[n]].name = n
  /\ client.pc \in Holding => objects[plugin].name = enabler.name
Made == \A i \in Used : \A e \in AllRows : e.id = objects[i].id => objects[i].script = e.plugin
Carried ==
  client.pc \in Working =>
    \A e \in AllRows : e.id = enabler.id => enabler.plugin \in {Null, e.plugin}
Agreeing == \A e, g \in AllRows : e.id = g.id => e.plugin = g.plugin

Remembered == Named /\ Made /\ Carried /\ Agreeing

LEMMA SavedIsOldOrNew ==
  ASSUME IInv, Acts
  PROVE  saved' \in {saved, Rows'}
BY FileChanges DEF Statement, Transaction, Undoes, RollBack, connection

\* A row keeps its plugin.
LEMMA RowsKeepPlugins ==
  ASSUME IInv, Acts, NEW e \in AllRows'
  PROVE  \/ \E g \in AllRows : g.id = e.id /\ g.plugin = e.plugin
         \/ e \in enablers' /\ e.id = lastEnabler + 1 /\ At("insert")
<1>1. Typed
  BY DEF IInv
<1>2. e \in enablers' \/ e \in saved.enablers
  BY SavedIsOldOrNew DEF AllRows, Rows
<1>3. CASE e \in saved.enablers \/ enablers' \subseteq enablers
  BY <1>2, <1>3 DEF AllRows
<1>4. ASSUME NEW g \in Row, g.id = lastEnabler + 1, enablers' = enablers \cup {g}, At("insert"),
             e \in enablers'
      PROVE  \/ e \in enablers
             \/ e \in enablers' /\ e.id = lastEnabler + 1 /\ At("insert")
  BY <1>4
<1>5. ASSUME NEW id \in Nat, NEW name \in Names, NEW config \in MaybeConfig, Write(id, name, config),
             enablers' # enablers, e \in enablers'
      PROVE  \E g \in enablers : g.id = e.id /\ g.plugin = e.plugin
  <2>1. PICK g \in enablers, u \in Row :
          /\ g.id = id /\ u.id = id /\ u.name = name
          /\ WithName(name) \subseteq WithId(id)
          /\ enablers' = (enablers \ WithId(id)) \cup {u}
          /\ \E x \in WithId(id) : u.plugin = x.plugin
    BY <1>1, <1>5, WriteChanges
  <2> QED
    BY <1>5, <2>1 DEF WithId
<1>6. Undoes => enablers' = saved.enablers
  BY DEF Undoes, RollBack
<1>7. \/ UNCHANGED enablers
      \/ \E g \in Row : g.id = lastEnabler + 1 /\ enablers' = enablers \cup {g} /\ At("insert")
      \/ \E id \in Nat, name \in Names, config \in MaybeConfig : Write(id, name, config)
      \/ enablers' \subseteq enablers
      \/ Undoes
  BY RowsChange
<1>8. CASE \E g \in Row : g.id = lastEnabler + 1 /\ enablers' = enablers \cup {g} /\ At("insert")
  BY <1>2, <1>3, <1>4, <1>8 DEF AllRows
<1>9. CASE \E id \in Nat, name \in Names, config \in MaybeConfig : Write(id, name, config)
  BY <1>2, <1>3, <1>5, <1>9 DEF AllRows
<1> QED
  BY <1>2, <1>3, <1>6, <1>7, <1>8, <1>9

LEMMA AllRowsAreNumbered ==
  ASSUME IInv, Keyed
  PROVE  lastEnabler \in Nat /\ \A e \in AllRows : e.id \in Nat /\ e.id <= lastEnabler
BY DEF IInv, Typed, Filed, Row, Keyed, KeyedTables, KeyedFile, KeyedRows, AllRows

LEMMA AgreeingStays ==
  ASSUME IInv, Keyed, Keyed', Remembered, Acts
  PROVE  Agreeing'
<1> SUFFICES ASSUME NEW e \in AllRows', NEW g \in AllRows', e.id = g.id
             PROVE  e.plugin = g.plugin
  BY DEF Agreeing
<1>1. CASE e.id = lastEnabler + 1
  <2>1. ~\E x \in AllRows : x.id = e.id
    BY <1>1, AllRowsAreNumbered
  <2>2. e \in enablers'
    BY <2>1, RowsKeepPlugins
  <2>3. g \in enablers'
    BY <2>1, RowsKeepPlugins
  <2>4. KeyedRows(enablers', lastEnabler')
    BY DEF Keyed, KeyedTables
  <2> QED
    BY <2>2, <2>3, <2>4 DEF KeyedRows
<1>2. CASE e.id # lastEnabler + 1
  <2>1. PICK x \in AllRows, y \in AllRows :
          x.id = e.id /\ x.plugin = e.plugin /\ y.id = g.id /\ y.plugin = g.plugin
    BY <1>2, RowsKeepPlugins
  <2> QED
    BY <2>1 DEF Remembered, Agreeing
<1> QED
  BY <1>1, <1>2

LEMMA CarriedStays ==
  ASSUME IInv, IInv', Keyed, Keyed', Remembered, Acts, Agreeing'
  PROVE  Carried'
<1> SUFFICES ASSUME client'.pc \in Working,
                    NEW e \in AllRows', e.id = client'.enabler.id
             PROVE  client'.enabler.plugin \in {Null, e.plugin}
  BY DEF Carried, enabler
<1>1. Reads
  BY ActsReads
<1>2. CASE client.pc \in Working /\ client'.enabler = enabler
  <2>1. e.id # lastEnabler + 1
    <3>1. enabler.id \in Nat /\ enabler.id <= lastEnabler
      BY <1>2, Knowing DEF Keyed, Numbered, enabler, Copy
    <3> QED
      BY <1>2, <3>1, AllRowsAreNumbered
  <2>2. PICK g \in AllRows : g.id = e.id /\ g.plugin = e.plugin
    BY <2>1, RowsKeepPlugins
  <2> QED
    BY <1>2, <2>2 DEF Remembered, Carried
<1>3. ASSUME NEW g \in enablers \cup enablers',
             client'.enabler.id = g.id /\ client'.enabler.plugin \in {Null, g.plugin}
      PROVE  client'.enabler.plugin \in {Null, e.plugin}
  <2>1. CASE g \in enablers'
    BY <1>3, <2>1 DEF Agreeing, AllRows
  <2>2. CASE g \in enablers
    <3>1. g \in AllRows
      BY <2>2 DEF AllRows
    <3>2. PICK x \in AllRows : x.id = e.id /\ x.plugin = e.plugin
      BY <1>3, <3>1, RowsKeepPlugins, AllRowsAreNumbered
    <3> QED
      BY <1>3, <3>1, <3>2 DEF Remembered, Agreeing
  <2> QED
    BY <2>1, <2>2
<1> QED
  BY <1>1, <1>2, <1>3 DEF Reads

\* Nothing but the configuration of an object that is referred to changes.
LEMMA ObjectsStay ==
  ASSUME IInv, Acts, NEW i \in Used
  PROVE  /\ objects'[i].id = objects[i].id /\ objects'[i].name = objects[i].name
         /\ objects'[i].script = objects[i].script
         /\ \/ objects'[i] = objects[i]
            \/ i = plugin /\ At("configure")
<1>1. Typed /\ Used \subseteq Numbers /\ objects[i] \in Object
  BY MapIsUsed DEF IInv, Known
<1>2. CASE UNCHANGED objects
  BY <1>2
<1>3. ASSUME NEW j \in Free, objects' = [objects EXCEPT ![j] = NewObject]
      PROVE  objects'[i] = objects[i]
  BY <1>1, <1>3 DEF Typed, Free, Used
<1>4. CASE objects' = [objects EXCEPT ![plugin].config = Head(todo)] /\ At("configure")
  <2>1. CASE i # plugin
    BY <1>1, <1>4, <2>1 DEF Typed
  <2>2. CASE i = plugin
    BY <1>1, <1>4, <2>2 DEF Typed, Object
  <2> QED
    BY <2>1, <2>2
<1> QED
  BY <1>2, <1>3, <1>4, ObjectsChange

LEMMA MadeStays ==
  ASSUME IInv, Keyed, Remembered, Acts
  PROVE  Made'
<1> SUFFICES ASSUME NEW i \in Used', NEW e \in AllRows', e.id = objects'[i].id
             PROVE  objects'[i].script = e.plugin
  BY DEF Made
<1>1. lastEnabler \in Nat /\ KeyedObjects
  BY DEF IInv, Typed, Keyed
<1>2. CASE i \in Used
  <2>1. objects'[i].id = objects[i].id /\ objects'[i].script = objects[i].script
    BY <1>2, ObjectsStay
  <2>2. e.id # lastEnabler + 1
    <3>1. objects[i].id <= lastEnabler /\ objects[i].id \in Nat
      BY <1>1, <1>2 DEF KeyedObjects, IInv, Known, Object
    <3> QED
      BY <1>1, <2>1, <3>1
  <2>3. PICK g \in AllRows : g.id = e.id /\ g.plugin = e.plugin
    BY <2>2, RowsKeepPlugins
  <2> QED
    BY <1>2, <2>1, <2>3 DEF Remembered, Made
<1>3. CASE At("get") /\ objects'[i] = NewObject /\ enabler.plugin \in Plugins
  <2>1. ~At("insert") /\ client.pc \in Working
    BY <1>3 DEF At, Working
  <2>2. PICK g \in AllRows : g.id = e.id /\ g.plugin = e.plugin
    BY <2>1, RowsKeepPlugins
  <2>3. enabler.plugin = g.plugin
    <3>1. g.id = enabler.id /\ enabler.plugin # Null
      BY <1>3, <2>2, EnablersAssumption DEF NewObject
    <3> QED
      BY <2>1, <3>1 DEF Remembered, Carried
  <2> QED
    BY <1>3, <2>2, <2>3 DEF NewObject
<1> QED
  BY <1>2, <1>3, UsedChanges

LEMMA NamedStays ==
  ASSUME IInv, IInv', Remembered, Acts
  PROVE  Named'
<1>1. /\ Typed /\ Reads /\ Named
  BY ActsReads DEF IInv, Remembered
<1>2. ASSUME NEW n \in Names, plugins'[n] # None
      PROVE  objects'[plugins'[n]].name = n
  <2>1. CASE plugins'[n] = plugins[n]
    <3>1. plugins[n] \in Used
      BY <1>1, <1>2, <2>1, MapIsUsed
    <3> QED
      BY <1>1, <1>2, <2>1, <3>1, ObjectsStay DEF Named
  <2>2. CASE plugins'[n] # plugins[n]
    <3>1. n = enabler.name /\ plugins'[n] = plugin /\ At("register")
      BY <1>1, <1>2, <2>2, MapChanges DEF Typed
    <3>2. plugin \in Used /\ objects[plugin].name = enabler.name
      BY <1>1, <1>2, <3>1, MapIsUsed DEF Named, At, Holding
    <3> QED
      BY <3>1, <3>2, ObjectsStay
  <2> QED
    BY <2>1, <2>2
<1>3. ASSUME client'.pc \in Holding
      PROVE  objects'[client'.plugin].name = client'.enabler.name
  <2>1. CASE client.pc \in Holding /\ client'.enabler = enabler /\ client'.plugin = plugin
    <3>1. plugin \in Used
      BY <1>1, <2>1, Knowing, MapIsUsed DEF Knows, plugin
    <3> QED
      BY <1>1, <2>1, <3>1, ObjectsStay DEF Named
  <2>2. CASE At("get")
    <3>1. Get
      BY <1>3, <2>2, ReceiveLeads DEF Becomes, Holding, Acts, Serve, At, Receive, Insert, Find,
         FindAny, FindFeature, Register,
         Ask, Configure, Save, DeleteFeatures, Add, Added, AddFails, Update, Switch, Flag, Delete,
         Remove, DeletePlugin, RemoveAll
    <3>2. enabler.name \in Names
      BY <2>2, Knowing DEF At, Working, Copy
    <3>3. ASSUME plugins[enabler.name] \in Used, UNCHANGED objects
          PROVE  objects'[plugins[enabler.name]].name = enabler.name
      BY <1>1, <3>2, <3>3 DEF Named, Used
    <3>4. ASSUME NEW i \in Free, objects' = [objects EXCEPT ![i] = NewObject]
          PROVE  objects'[i].name = enabler.name
      BY <1>1, <3>4 DEF Typed, Free, NewObject
    <3>5. client'.pc # "idle"
      BY <1>3 DEF Holding
    <3> QED
      BY <3>1, <3>3, <3>4, <3>5, GetLeads DEF Becomes, Rests, Resting
  <2> QED
    BY <1>1, <1>3, <2>1, <2>2 DEF Reads
<1> QED
  BY <1>2, <1>3 DEF Named, plugin, enabler

LEMMA RememberedIsInductive ==
  ASSUME IInv, IInv', Keyed, Keyed', Remembered, [Next]_vars
  PROVE  Remembered'
<1>1. CASE UNCHANGED vars
  <2>1. UNCHANGED <<enablers, saved, objects, plugins, client>>
    BY <1>1 DEF vars, database, connection, manager
  <2>2. Used' = Used /\ AllRows' = AllRows
    BY <2>1 DEF Used, Live, plugin, AllRows
  <2> QED
    BY <2>1, <2>2 DEF Remembered, Named, Made, Carried, Agreeing, plugin, enabler
<1>2. ASSUME Acts
      PROVE  Remembered'
  BY <1>2, NamedStays, MadeStays, CarriedStays, AgreeingStays DEF Remembered
<1>3. CASE Restart
  <2>1. /\ client'.pc = "idle" /\ client'.plugin = None
        /\ \A n \in Names : plugins'[n] = None
        /\ AllRows' = saved.enablers
    BY <1>3 DEF Restart, Resting, AllRows, Rows
  <2>2. Used' = {}
    BY <2>1 DEF Used, Live, plugin
  <2>3. Agreeing'
    BY <2>1 DEF Remembered, Agreeing, AllRows
  <2> QED
    BY <2>1, <2>2, <2>3 DEF Remembered, Named, Made, Carried, Working, Holding
<1> QED
  BY <1>1, <1>2, <1>3 DEF Next, Acts

LEMMA InitRemembers ==
  ASSUME Init
  PROVE  Remembered
<1>1. /\ client.pc = "idle" /\ client.plugin = None
      /\ \A n \in Names : plugins[n] = None
      /\ AllRows = {}
  BY DEF Init, Resting, AllRows, Rows
<1>2. Used = {}
  BY <1>1 DEF Used, Live, plugin
<1> QED
  BY <1>1, <1>2 DEF Remembered, Named, Made, Carried, Agreeing, Working, Holding

------------------------------------------------------------------------------
(* The features of an enabler.                                             *)

\* The features of the enabler are those of the plugin under the configuration.
Fits(id, p, k) ==
  /\ Cardinality(FeaturesOf(id)) = Len(Offers[p][k])
  /\ \A i \in DOMAIN Offers[p][k] : \E f \in FeaturesOf(id) : f.kind = Offers[p][k][i]
Sound(e) ==
  \/ e.id \in spoiled \/ FeaturesOf(e.id) = {}
  \/ \E k \in {e.config} \cup {k \in {Null} : e.plugin \notin Configurable} : Fits(e.id, e.plugin, k)

\* The same of an enabler with the features fs, when ss are spoiled.
SoundIn(e, fs, ss) ==
  \/ e.id \in ss \/ {f \in fs : f.enabler = e.id} = {}
  \/ \E k \in {e.config} \cup {k \in {Null} : e.plugin \notin Configurable} :
       /\ Cardinality({f \in fs : f.enabler = e.id}) = Len(Offers[e.plugin][k])
       /\ \A i \in DOMAIN Offers[e.plugin][k] :
            \E f \in {f \in fs : f.enabler = e.id} : f.kind = Offers[e.plugin][k][i]
FileSound == \A e \in saved.enablers : SoundIn(e, saved.features, saved.spoiled)

\* The client is replacing the features of the enabler, or has done so and is to
\* write the configuration.
Reworks(id) ==
  /\ At("deleteFeatures") \/ At("add") \/ (At("update") /\ request.config # Null)
  /\ enabler.id = id
SoundBut == \A e \in enablers : Sound(e) \/ Reworks(e.id)

\* The row has the name and the configuration of this copy; or the request shows
\* an enabler that has been deleted.
Holds(e) == \E g \in enablers : g.id = e.id /\ g.name = e.name /\ g.config = e.config
Lost == Op = "use" /\ WithId(enabler.id) = {}

Object0 == objects[plugin]

\* The plugin object of the enabler itself has not had another configuration.
Plain == Object0.id = enabler.id => Object0.config \in {Null, enabler.config}

AtGet ==
  /\ Holds(enabler) \/ (Lost /\ plugins[enabler.name] = None)
  /\ Op = "post" => /\ FeaturesOf(enabler.id) = {}
                       /\ \A i \in Used : objects[i].id # enabler.id

AtPlugin ==
  /\ Holds(enabler) \/ (Lost /\ Object0.id = enabler.id)
  /\ Op = "post" => FeaturesOf(enabler.id) = {} /\ Plain

\* What the client has yet to pass on to the plugin.
Passing ==
  IF Op = "put" THEN todo \in {<<request.config>>, <<enabler.config, request.config>>}
                   ELSE todo = <<enabler.config>>

AtAdd ==
  /\ WithId(enabler.id) # {}
  /\ Op = "post" => Holds(enabler) /\ Installable(Object0) /\ Plain
  /\ Op = "put" => Object0.config = request.config
  /\ Cardinality(FeaturesOf(enabler.id)) = count
  /\ count <= Len(Offered)
  /\ \A i \in 1..count : \E f \in FeaturesOf(enabler.id) : f.kind = Offered[i]
  /\ count # 0 => enabler.id \in spoiled \/ Object0.id = enabler.id

AtUpdate ==
  /\ WithId(enabler.id) # {}
  /\ request.config = Null => Holds(enabler)
  /\ request.config # Null =>
       \/ FeaturesOf(enabler.id) = {} \/ enabler.id \in spoiled
       \/ \A e \in WithId(enabler.id) : Fits(enabler.id, e.plugin, request.config)

LocalInv ==
  /\ At("get") => AtGet
  /\ client.pc \in {"register", "ask", "configure", "save"} => AtPlugin
  /\ client.pc \in {"configure", "save"} => Passing
  /\ At("save") => Object0.config = Head(todo)
  /\ At("deleteFeatures") => WithId(enabler.id) # {} /\ Object0.config = request.config
  /\ At("add") => AtAdd
  /\ At("update") => AtUpdate
  /\ At("remove") => WithId(enabler.id) = {}

\* What a rollback or a crash may bring back is sound as well.
SeqInv == SoundBut /\ LocalInv /\ (~autoCommit => FileSound)

LEMMA SoundInTables ==
  ASSUME NEW e
  PROVE  Sound(e) <=> SoundIn(e, features, spoiled)
BY DEF Sound, Fits, FeaturesOf, SoundIn

LEMMA SoundInTablesNext ==
  ASSUME NEW e
  PROVE  Sound(e)' <=> SoundIn(e, features', spoiled')
BY DEF Sound, Fits, FeaturesOf, SoundIn

\* An enabler whose features stay is as sound as before.
LEMMA SoundStays ==
  ASSUME NEW e, Sound(e), FeaturesOf(e.id)' = FeaturesOf(e.id), e.id \in spoiled => e.id \in spoiled'
  PROVE  Sound(e)'
BY DEF Sound, Fits

LEMMA QuietStaysSound ==
  ASSUME SoundBut, \A id : ~Reworks(id),
         enablers' \subseteq enablers, UNCHANGED <<features, spoiled>>
  PROVE  SoundBut'
<1>1. \A id : FeaturesOf(id)' = FeaturesOf(id)
  BY DEF FeaturesOf
<1> QED
  BY <1>1, SoundStays DEF SoundBut

LEMMA RestsLocally ==
  ASSUME client'.pc \in {"idle", "insert", "deletePlugin", "find", "delete",
                                                "switch", "flag", "removeAll"}
  PROVE  LocalInv'
BY DEF LocalInv, At

\* A client that is to show an enabler that there is.
LEMMA ShowsLocally ==
  ASSUME NEW e, Shows(e), Holds(e)'
  PROVE  LocalInv'
BY DEF Shows, Becomes, LocalInv, AtGet, Op, request, enabler, At

\* A rollback: the tables are as the file, and no request is under way.
LEMMA UndoOffers ==
  ASSUME FlagInv, SeqInv, Undoes
  PROVE  SoundBut' /\ LocalInv'
<1>1. /\ enablers' = saved.enablers /\ features' = saved.features /\ spoiled' = saved.spoiled
      /\ client' = Resting /\ \A id : ~Reworks(id)
  BY DEF Undoes, RollBack, Rests, Reworks, At
<1>2. FileSound
  <2>1. CASE autoCommit
    <3>1. \A e \in enablers : SoundIn(e, features, spoiled)
      BY <1>1, SoundInTables DEF SeqInv, SoundBut
    <3> QED
      BY <2>1, <3>1 DEF FlagInv, Committed, FileSound
  <2> QED
    BY <2>1 DEF SeqInv
<1>3. \A e \in enablers' : Sound(e)'
  BY <1>1, <1>2, SoundInTablesNext DEF FileSound
<1> QED
  BY <1>1, <1>3, RestsLocally DEF SoundBut, Resting

LEMMA ReceiveOffers ==
  ASSUME IInv, SoundBut, Receive
  PROVE  SoundBut' /\ LocalInv'
<1>1. UNCHANGED <<enablers, features, spoiled>> /\ \A id : ~Reworks(id)
  BY DEF Receive, database, histories, Reworks, At
<1>2. client'.pc \in {"insert", "deletePlugin", "find"}
  BY ReceiveLeads DEF Becomes
<1> QED
  BY <1>1, <1>2, QuietStaysSound, RestsLocally

LEMMA InsertOffers ==
  ASSUME IInv, Keyed, SoundBut, Insert, ~Undoes
  PROVE  SoundBut' /\ LocalInv'
<1>1. At("insert") /\ UNCHANGED <<features, objects, spoiled>> /\ \A id : ~Reworks(id)
  BY InsertUndoes DEF Insert, manager, histories, Reworks, At
<1>2. CASE Rests /\ UNCHANGED enablers
  BY <1>1, <1>2, QuietStaysSound, RestsLocally DEF Rests, Resting
<1>3. ASSUME NEW e \in Row, e.id = lastEnabler + 1, Op = "post",
             enablers' = enablers \cup {e},
             Becomes("get", request, e, feature, plugin, todo, count)
      PROVE  SoundBut' /\ LocalInv'
  <2>1. FeaturesOf(e.id)' = {}
    BY <1>1, <1>3 DEF Keyed, KeyedTables, KeyedFeatures, FeaturesOf, IInv, Typed, Filed, FeatureRow
  <2>2. \A g \in enablers : Sound(g)'
    BY <1>1, SoundStays DEF SoundBut, FeaturesOf
  <2>3. SoundBut'
    BY <1>3, <2>1, <2>2 DEF SoundBut, Sound
  <2>4. \A i \in Used' : objects'[i].id # e.id
    <3>1. Used' \subseteq Used
      BY <1>1, UsedChanges DEF Acts, Serve, At
    <3>2. \A i \in Used : objects[i].id <= lastEnabler /\ objects[i].id \in Nat
      BY DEF Keyed, KeyedObjects, IInv, Known, Object
    <3> QED
      BY <1>1, <1>3, <3>1, <3>2 DEF IInv, Typed, Filed
  <2>5. AtGet'
    BY <1>3, <2>1, <2>4 DEF AtGet, Holds, Becomes, Op, request, enabler
  <2> QED
    BY <1>3, <2>3, <2>5 DEF LocalInv, Becomes, At
<1>4. Rests => UNCHANGED enablers
  <2>1. ASSUME Rests, RollBack, UNCHANGED lastEnabler
        PROVE  Undoes
    BY <1>1, <2>1 DEF Undoes, Insert, identifiers, manager
  <2> QED
    BY <2>1, InsertLeads DEF Becomes, Rests, Resting
<1> QED
  BY <1>2, <1>3, <1>4, InsertLeads

LEMMA FindOffers ==
  ASSUME IInv, SoundBut, Find \/ FindAny \/ FindFeature
  PROVE  SoundBut' /\ LocalInv'
<1>1. At("find") /\ UNCHANGED <<enablers, features, spoiled>> /\ \A id : ~Reworks(id)
  BY DEF Find, FindAny, FindFeature, database, histories, Reworks, At
<1>2. SoundBut'
  BY <1>1, QuietStaysSound
<1>3. enablers \subseteq Row
  BY DEF IInv, Typed, Filed
<1>4. CASE Rests
  BY <1>2, <1>4, RestsLocally DEF Rests, Resting
<1>5. CASE Find
  <2>1. ASSUME NEW e \in enablers, NEW n, Op = "delete", Finds(e, "delete", n)
        PROVE  LocalInv'
    BY <2>1, RestsLocally DEF Finds, Becomes
  <2>2. ASSUME NEW e \in enablers, Op = "put", request.config = Null, Finds(e, "update", 0)
        PROVE  LocalInv'
    <3>1. WithId(e.id)' # {} /\ Holds(e)'
      BY <1>1 DEF WithId, Holds
    <3> QED
      BY <2>2, <3>1 DEF Finds, Becomes, LocalInv, AtUpdate, At, enabler, request
  <2>3. ASSUME NEW e \in enablers, Op = "put", Finds(e, "get", 0)
        PROVE  LocalInv'
    BY <1>1, <2>3 DEF Finds, Becomes, LocalInv, AtGet, Holds, At, enabler, request, Op
  <2> QED
    BY <1>2, <1>4, <1>5, <2>1, <2>2, <2>3, FindLeads
<1>6. CASE FindAny
  <2>1. ASSUME NEW e \in enablers,
               Becomes("get", request, Read(e), feature, plugin, todo, count)
        PROVE  LocalInv'
    <3>1. PICK r \in Copy : r = Read(e) /\ r.id = e.id /\ r.name = e.name /\ r.config = e.config
      BY <1>3, ReadIsCopy
    <3>2. Holds(r)' /\ Op = "use"
      BY <1>1, <1>6, <3>1 DEF Holds, FindAny
    <3> QED
      BY <2>1, <3>1, <3>2 DEF Becomes, LocalInv, AtGet, At, enabler, request, Op
  <2> QED
    BY <1>2, <1>4, <1>6, <2>1, FindAnyLeads
<1>7. CASE FindFeature
  <2>1. ASSUME NEW e \in enablers, Shows(e)
        PROVE  LocalInv'
    BY <1>1, <2>1, ShowsLocally DEF Holds
  <2>2. ASSUME NEW f \in features,
               Becomes("switch", request, enabler, f.id, plugin, todo, count)
        PROVE  LocalInv'
    BY <2>2, RestsLocally DEF Becomes
  <2> QED
    BY <1>2, <1>4, <1>7, <2>1, <2>2, FindFeatureLeads
<1> QED
  BY <1>5, <1>6, <1>7

LEMMA RowsStay ==
  ASSUME UNCHANGED <<enablers, features>>
  PROVE  \A e : /\ Holds(e)' <=> Holds(e)
                /\ WithId(e)' = WithId(e) /\ FeaturesOf(e)' = FeaturesOf(e)
BY DEF Holds, WithId, FeaturesOf

LEMMA GetOffers ==
  ASSUME IInv, SoundBut, LocalInv, Get
  PROVE  SoundBut' /\ LocalInv'
<1>1. /\ At("get") /\ UNCHANGED <<enablers, features, spoiled, plugins>> /\ (\A id : ~Reworks(id))
      /\ AtGet /\ Typed
  BY DEF Get, database, histories, Reworks, At, LocalInv, IInv
<1>2. SoundBut'
  BY <1>1, QuietStaysSound
<1>3. CASE Rests
  BY <1>2, <1>3, RestsLocally DEF Rests, Resting
<1>4. PICK e \in Copy : e = enabler
  BY <1>1, Knowing DEF Working, At
<1>5. (Holds(e)' <=> Holds(e)) /\ WithId(e.id)' = WithId(e.id) /\ FeaturesOf(e.id)' = FeaturesOf(e.id)
  BY <1>1, RowsStay
<1>6. ASSUME NEW i \in Used, i = plugins[e.name], UNCHANGED objects,
             Becomes("ask", request, e, feature, i, todo, count)
      PROVE  LocalInv'
  <2>1. Holds(e)
    BY <1>1, <1>4, <1>6 DEF AtGet, Used
  <2>2. Op = "post" => FeaturesOf(e.id) = {} /\ objects[i].id # e.id
    BY <1>1, <1>4 DEF AtGet
  <2>3. AtPlugin'
    BY <1>5, <1>6, <2>1, <2>2 DEF AtPlugin, Becomes, Plain, Object0, Op, request, enabler, plugin
  <2> QED
    BY <1>6, <2>3 DEF LocalInv, Becomes, At
<1>7. ASSUME NEW i \in Free, objects' = [objects EXCEPT ![i] = NewObject],
             Becomes("register", request, e, feature, i, todo, count)
      PROVE  LocalInv'
  <2>1. objects'[i].id = e.id /\ objects'[i].config = Null
    BY <1>1, <1>4, <1>7 DEF Free, Typed, Filed, NewObject
  <2>2. /\ Holds(e) \/ (Op = "use" /\ WithId(e.id) = {})
        /\ Op = "post" => FeaturesOf(e.id) = {}
    BY <1>1, <1>4 DEF AtGet, Lost
  <2>3. AtPlugin'
    BY <1>5, <1>7, <2>1, <2>2
       DEF AtPlugin, Becomes, Plain, Lost, Object0, Op, request, enabler, plugin
  <2> QED
    BY <1>7, <2>3 DEF LocalInv, Becomes, At
<1> QED
  BY <1>2, <1>3, <1>4, <1>6, <1>7, GetLeads

LEMMA RegisterOffers ==
  ASSUME IInv, SoundBut, LocalInv, Register
  PROVE  SoundBut' /\ LocalInv'
<1>1. /\ At("register") /\ UNCHANGED <<enablers, features, spoiled, objects>> /\ (\A id : ~Reworks(id))
      /\ AtPlugin /\ Goes("ask")
  BY RegisterLeads DEF Register, database, histories, Reworks, At, LocalInv
<1>2. SoundBut'
  BY <1>1, QuietStaysSound
<1>3. PICK e \in Copy : e = enabler
  BY <1>1, Knowing DEF Working, Holding, At
<1>4. (Holds(e)' <=> Holds(e)) /\ WithId(e.id)' = WithId(e.id) /\ FeaturesOf(e.id)' = FeaturesOf(e.id)
  BY <1>1, RowsStay
<1>5. AtPlugin'
  BY <1>1, <1>3, <1>4 DEF AtPlugin, Goes, Becomes, Plain, Lost, Object0, Op, request, enabler, plugin
<1> QED
  BY <1>1, <1>2, <1>5 DEF LocalInv, Goes, Becomes, At

\* The plugin has its configuration: what follows finds what it needs.
LEMMA FinishesLocally ==
  ASSUME IInv, NEW e \in Copy, e = enabler,
         client.pc \in {"ask", "configure", "save"}, Finishes, UNCHANGED <<features, objects>>,
         Op = "post" => Holds(e)' /\ FeaturesOf(e.id) = {} /\ Plain,
         Op = "put" => WithId(e.id)' # {} /\ Object0.config = request.config
  PROVE  LocalInv'
<1>1. CASE Rests
  BY <1>1, RestsLocally DEF Rests, Resting
<1>2. CASE Op = "post" /\ Installable(objects[plugin]) /\ GoesWith("add", <<>>)
  <2>1. FeaturesOf(e.id)' = {} /\ Cardinality({}) = 0
    BY <1>2, FS_EmptySet DEF FeaturesOf
  <2>2. count = 0 /\ Offered' = Offered /\ Len(Offered) \in Nat
    BY <1>2, Knowing, OfferedTypes
       DEF Knows, Configuring, Holding, count, Offered, GoesWith, Becomes, plugin
  <2>3. WithId(e.id)' # {}
    BY <1>2 DEF Holds, WithId
  <2>4. AtAdd'
    BY <1>2, <2>1, <2>2, <2>3
       DEF AtAdd, GoesWith, Becomes, Plain, Installable, Object0, Op, request, enabler, plugin, count
  <2> QED
    BY <1>2, <2>4 DEF LocalInv, GoesWith, Becomes, At
<1>3. CASE Op = "put" /\ GoesWith("deleteFeatures", <<>>)
  BY <1>3 DEF LocalInv, GoesWith, Becomes, Object0, request, enabler, plugin, At
<1> QED
  BY <1>1, <1>2, <1>3 DEF Finishes

LEMMA ShortLists ==
  ASSUME NEW a \in MaybeConfig, NEW b \in MaybeConfig
  PROVE  /\ <<>> \o <<>> = <<>> /\ <<>> \o <<a>> = <<a>> /\ <<a>> \o <<>> = <<a>>
         /\ <<a>> \o <<b>> = <<a, b>>
         /\ Len(<<a>>) = 1 /\ Len(<<a, b>>) = 2
         /\ Head(<<a>>) = a /\ Head(<<a, b>>) = a /\ Tail(<<a, b>>) = <<b>>
<1>1. <<>> \in Seq(MaybeConfig) /\ <<a>> \in Seq(MaybeConfig)
  OBVIOUS
<1>2. <<b>> \in Seq(MaybeConfig) /\ <<a, b>> \in Seq(MaybeConfig)
  OBVIOUS
<1>3. <<>> \o <<>> = <<>>
  OBVIOUS
<1>4. <<>> \o <<a>> = <<a>> /\ <<a>> \o <<>> = <<a>>
  BY <1>1, ConcatEmptySeq
<1>5. <<a>> \o <<b>> = <<a, b>>
  <2>1. <<a>> \o <<b>> \in Seq(MaybeConfig) /\ Len(<<a>> \o <<b>>) = 2 /\ Len(<<a, b>>) = 2
    BY <1>1, <1>2
  <2>2. \A i \in 1..2 : (<<a>> \o <<b>>)[i] = <<a, b>>[i]
    BY <1>1, <1>2
  <2> QED
    BY <1>2, <2>1, <2>2, SeqEqual
<1>6. Len(<<a>>) = 1 /\ Len(<<a, b>>) = 2 /\ Head(<<a>>) = a /\ Head(<<a, b>>) = a
  OBVIOUS
<1>7. Tail(<<a, b>>) = <<b>>
  <2>1. Tail(<<a, b>>) \in Seq(MaybeConfig) /\ Len(Tail(<<a, b>>)) = 1 /\ Tail(<<a, b>>)[1] = b
    BY <1>2
  <2> QED
    BY <1>2, <2>1, SeqEqual
<1> QED
  BY <1>3, <1>4, <1>5, <1>6, <1>7

LEMMA AskOffers ==
  ASSUME IInv, SoundBut, LocalInv, Ask
  PROVE  SoundBut' /\ LocalInv'
<1>1. /\ At("ask") /\ UNCHANGED <<enablers, features, spoiled, objects>> /\ (\A id : ~Reworks(id))
      /\ AtPlugin
  BY DEF Ask, database, manager, histories, Reworks, At, LocalInv
<1>2. SoundBut'
  BY <1>1, QuietStaysSound
<1>3. PICK e \in Copy : e = enabler
  BY <1>1, Knowing DEF Working, Holding, At
<1>4. (Holds(e)' <=> Holds(e)) /\ WithId(e.id)' = WithId(e.id) /\ FeaturesOf(e.id)' = FeaturesOf(e.id)
  BY <1>1, RowsStay
<1>5. CASE Rests
  BY <1>2, <1>5, RestsLocally DEF Rests, Resting
<1>6. CASE Op # "put" /\ Finishes
  <2>1. Op = "post" => Holds(e)' /\ FeaturesOf(e.id) = {} /\ Plain
    BY <1>1, <1>3, <1>4 DEF AtPlugin, Lost
  <2> QED
    BY <1>1, <1>2, <1>3, <1>6, <2>1, FinishesLocally DEF At
<1>7. CASE Old \o New # <<>> /\ GoesWith("configure", Old \o New)
  <2>1. AtPlugin'
    BY <1>1, <1>3, <1>4, <1>7
       DEF AtPlugin, GoesWith, Becomes, Plain, Lost, Object0, Op, request, enabler, plugin
  <2>2. Old \o New \in IF Op = "put"
                             THEN {<<request.config>>, <<e.config, request.config>>}
                             ELSE {<<e.config>>}
    <3>1. e.config \in MaybeConfig /\ (Op = "put" => request.config \in MaybeConfig)
      BY <1>1, Knowing, RequestFacts DEF Copy, At, Op
    <3> QED
      BY <1>3, <1>7, <3>1, ShortLists DEF Old, New
  <2>3. Passing'
    BY <1>3, <1>7, <2>2 DEF Passing, GoesWith, Becomes, Op, request, enabler, todo
  <2> QED
    BY <1>2, <1>7, <2>1, <2>3 DEF LocalInv, GoesWith, Becomes, At
<1> QED
  BY <1>5, <1>6, <1>7, AskLeads

LEMMA PassingFacts ==
  ASSUME IInv, client.pc \in {"configure", "save"}, Passing
  PROVE  \/ Op = "put" /\ Len(todo) = 1 /\ Head(todo) = request.config
         \/ /\ Op = "put" /\ Len(todo) = 2 /\ Head(todo) = enabler.config
            /\ Tail(todo) = <<request.config>>
         \/ Op # "put" /\ Len(todo) = 1 /\ Head(todo) = enabler.config
<1>1. PICK d \in MaybeConfig : d = enabler.config
  BY Knowing DEF Copy, Working, Holding
<1>2. CASE Op = "put"
  <2>1. PICK k \in MaybeConfig : k = request.config
    BY <1>2, Knowing, RequestFacts DEF Op
  <2>2. todo = <<k>> \/ todo = <<d, k>>
    BY <1>1, <1>2, <2>1 DEF Passing
  <2>3. CASE todo = <<k>>
    <3>1. Len(<<k>>) = 1 /\ Head(<<k>>) = k
      BY ShortLists
    <3> QED
      BY <1>2, <2>1, <2>3, <3>1, Zenon
  <2>4. CASE todo = <<d, k>>
    <3>1. Len(<<d, k>>) = 2 /\ Head(<<d, k>>) = d /\ Tail(<<d, k>>) = <<k>>
      BY ShortLists
    <3> QED
      BY <1>1, <1>2, <2>1, <2>4, <3>1, Zenon
  <2> QED
    BY <2>2, <2>3, <2>4
<1>3. CASE Op # "put"
  <2>1. todo = <<d>>
    BY <1>1, <1>3 DEF Passing
  <2>2. Len(<<d>>) = 1 /\ Head(<<d>>) = d
    BY ShortLists
  <2> QED
    BY <1>1, <1>3, <2>1, <2>2, Zenon
<1> QED
  BY <1>2, <1>3

LEMMA ContinuesLocally ==
  ASSUME IInv, NEW e \in Copy, e = enabler,
         client.pc \in {"configure", "save"}, Continues, UNCHANGED <<features, objects>>,
         Passing,
         Op = "post" => Holds(e)' /\ FeaturesOf(e.id) = {} /\ Plain,
         Op = "put" => WithId(e.id)' # {},
         Op = "put" /\ Len(todo) > 1 => Holds(e)',
         Op = "put" /\ Len(todo) = 1 => Object0.config = Head(todo)
  PROVE  LocalInv'
<1> DEFINE n == Len(todo)
<1>1. n \in Nat
  BY LocalTypes DEF IInv
<1>2. CASE Len(todo) > 1 /\ GoesWith("configure", Tail(todo))
  <2>1. Op = "put" /\ Tail(todo) = <<request.config>>
    <3>1. n > 1
      BY <1>2
    <3>2. n # 1
      <4> HIDE DEF n
      <4> QED
        BY <1>1, <3>1
    <3> QED
      BY <3>2, PassingFacts, Zenon
  <2>2. AtPlugin'
    BY <1>2, <2>1 DEF AtPlugin, GoesWith, Becomes, Op, request, enabler
  <2>3. Passing'
    BY <1>2, <2>1 DEF Passing, GoesWith, Becomes, Op, request, todo
  <2> QED
    BY <1>2, <2>2, <2>3 DEF LocalInv, GoesWith, Becomes, At
<1>3. CASE Len(todo) <= 1 /\ Finishes
  <2>1. Op = "put" => Len(todo) = 1 /\ Head(todo) = request.config
    BY <1>3, PassingFacts
  <2> QED
    BY <1>3, <2>1, FinishesLocally
<1> QED
  BY <1>2, <1>3 DEF Continues

LEMMA ConfigureOffers ==
  ASSUME IInv, SoundBut, LocalInv, Configure
  PROVE  SoundBut' /\ LocalInv'
<1>1. /\ At("configure") /\ UNCHANGED <<enablers, features, spoiled>> /\ (\A id : ~Reworks(id))
      /\ AtPlugin /\ Passing
  BY DEF Configure, database, histories, Reworks, At, LocalInv
<1>2. SoundBut'
  BY <1>1, QuietStaysSound
<1>3. PICK e \in Copy : e = enabler
  BY <1>1, Knowing DEF Working, Holding, At
<1>4. (Holds(e)' <=> Holds(e)) /\ WithId(e.id)' = WithId(e.id) /\ FeaturesOf(e.id)' = FeaturesOf(e.id)
  BY <1>1, RowsStay
<1>5. CASE Rests
  BY <1>2, <1>5, RestsLocally DEF Rests, Resting
<1>6. CASE /\ objects[plugin].config = Head(todo) \/ ~(Op = "put" /\ Len(todo) = 1)
           /\ Continues /\ UNCHANGED objects
  <2>1. /\ Op # "use" => Holds(e)' /\ WithId(e.id)' # {}
        /\ Op = "post" => FeaturesOf(e.id) = {} /\ Plain
    BY <1>1, <1>3, <1>4 DEF AtPlugin, Lost, Holds, WithId
  <2>2. Op = "put" /\ Len(todo) = 1 => Object0.config = Head(todo)
    BY <1>6 DEF Object0
  <2> QED
    BY <1>1, <1>2, <1>3, <1>6, <2>1, <2>2, ContinuesLocally DEF At
<1>7. CASE objects' = [objects EXCEPT ![plugin].config = Head(todo)] /\ Goes("save")
  <2>1. /\ objects'[plugin].config = Head(todo) /\ objects'[plugin].id = objects[plugin].id
    BY <1>1, <1>7, Knowing DEF Typed, Filed, Holding, At, Object
  <2>2. Op = "post" => Head(todo) = e.config
    BY <1>1, <1>3, PassingFacts DEF At
  <2>3. AtPlugin'
    BY <1>1, <1>3, <1>4, <1>7, <2>1, <2>2
       DEF AtPlugin, Goes, Becomes, Plain, Lost, Object0, Op, request, enabler, plugin
  <2>4. Passing'
    BY <1>1, <1>7 DEF Passing, Goes, Becomes, Op, request, enabler, todo
  <2>5. (Object0.config = Head(todo))'
    BY <1>7, <2>1 DEF Goes, Becomes, Object0, plugin, todo
  <2> QED
    BY <1>2, <1>7, <2>3, <2>4, <2>5 DEF LocalInv, Goes, Becomes, At
<1> QED
  BY <1>5, <1>6, <1>7, ConfigureLeads

LEMMA SaveOffers ==
  ASSUME IInv, Keyed, Remembered, SoundBut, LocalInv, Save
  PROVE  SoundBut' /\ LocalInv'
<1>1. /\ At("save") /\ UNCHANGED <<features, spoiled, objects>> /\ (\A id : ~Reworks(id))
      /\ AtPlugin /\ Passing /\ Object0.config = Head(todo) /\ Continues /\ Typed
  BY SaveLeads DEF Save, manager, histories, Reworks, At, LocalInv, IInv
<1>2. PICK e \in Copy : e = enabler
  BY <1>1, Knowing DEF Working, Holding, At
<1>3. PICK o \in Object : o = objects[plugin] /\ o.name = e.name
  BY <1>1, <1>2, Knowing DEF Holding, At, Remembered, Named
<1>4. PICK k \in MaybeConfig : k = Head(todo) /\ o.config = k
  BY <1>1, <1>3 DEF Object, Object0
<1>5. Write(o.id, o.name, k) /\ o.name \in Names
  BY <1>3, <1>4 DEF Save, Object
<1>6. FeaturesOf(e.id)' = FeaturesOf(e.id)
  BY <1>1 DEF FeaturesOf
<1>7. /\ Holds(e) \/ (Op = "use" /\ WithId(e.id) = {} /\ o.id = e.id)
      /\ Op = "post" => FeaturesOf(e.id) = {} /\ Plain
  BY <1>1, <1>2, <1>3 DEF AtPlugin, Lost, Object0
<1>8. \A g \in enablers : Sound(g)'
  BY <1>1, SoundStays DEF SoundBut, FeaturesOf
<1>9. CASE UNCHANGED enablers
  <2>1. Op # "use" => Holds(e)' /\ WithId(e.id)' # {}
    BY <1>7, <1>9 DEF Holds, WithId
  <2>2. LocalInv'
    BY <1>1, <1>2, <1>7, <2>1, ContinuesLocally DEF At
  <2> QED
    BY <1>8, <1>9, <2>2 DEF SoundBut
<1>10. CASE enablers' # enablers
  <2>1. PICK g \in enablers, u \in Row :
          /\ g.id = o.id /\ u.id = o.id /\ u.name = o.name /\ u.config = k
          /\ WithName(o.name) \subseteq WithId(o.id)
          /\ enablers' = (enablers \ WithId(o.id)) \cup {u}
          /\ \E x \in WithId(o.id) : u.plugin = x.plugin
    BY <1>1, <1>5, <1>10, WriteChanges
  <2>2. Holds(e)
    BY <1>7, <2>1 DEF WithId
  <2>3. g.id = e.id /\ g.config = e.config
    BY <1>3, <2>1, <2>2 DEF Holds, WithName, WithId, Keyed, KeyedTables, KeyedRows
  <2>4. WithId(o.id) = {g} /\ u.plugin = g.plugin
    BY <2>1 DEF WithId, Keyed, KeyedTables, KeyedRows
  <2>5. u # g
    BY <1>10, <2>1, <2>4
  <2>6. u.name = g.name
    BY <1>3, <2>1, <2>2, <2>3 DEF Holds, Keyed, KeyedTables, KeyedRows
  <2>7. k # e.config
    BY <1>1, <2>1, <2>3, <2>4, <2>5, <2>6 DEF Row, Typed, Filed
  <2>8. Op = "put" /\ Len(todo) = 1 /\ k = request.config
    BY <1>1, <1>2, <1>4, <2>7, PassingFacts DEF At
  <2>9. Finishes
    BY <1>1, <2>8 DEF Continues
  <2>10. GoesWith("deleteFeatures", <<>>)
    BY <2>8, <2>9 DEF Finishes
  <2>11. WithId(e.id)' # {}
    BY <2>1, <2>3 DEF WithId
  <2>12. LocalInv'
    BY <1>1, <1>2, <1>3, <1>4, <2>8, <2>9, <2>11, FinishesLocally DEF Object0, At
  <2>13. Reworks(u.id)'
    BY <1>2, <2>1, <2>3, <2>10 DEF Reworks, GoesWith, Becomes, enabler, At
  <2> QED
    BY <1>8, <2>1, <2>12, <2>13 DEF SoundBut
<1> QED
  BY <1>9, <1>10

LEMMA DeleteFeaturesOffers ==
  ASSUME IInv, SoundBut, LocalInv, DeleteFeatures
  PROVE  SoundBut' /\ LocalInv'
<1>1. PICK e \in Copy : e = enabler
  BY Knowing DEF DeleteFeatures, Working, Holding, At
<1>2. /\ At("deleteFeatures") /\ UNCHANGED <<enablers, objects>> /\ Op = "put"
      /\ features' = features \ FeaturesOf(e.id) /\ spoiled' = spoiled \ {e.id}
      /\ WithId(e.id) # {} /\ Object0.config = request.config /\ request.config # Null
      /\ count = 0
  BY <1>1, Knowing DEF DeleteFeatures, manager, At, LocalInv, Knows, Op, request, count
<1>3. FeaturesOf(e.id)' = {} /\ Cardinality({}) = 0
  BY <1>2, FS_EmptySet DEF FeaturesOf
<1>4. ASSUME NEW g \in enablers, g.id # e.id
      PROVE  Sound(g)'
  <2>1. FeaturesOf(g.id)' = FeaturesOf(g.id)
    BY <1>2, <1>4 DEF FeaturesOf
  <2>2. Sound(g)
    BY <1>1, <1>4 DEF SoundBut, Reworks
  <2> QED
    BY <1>2, <1>4, <2>1, <2>2, SoundStays
<1>5. Goes("add") \/ Goes("update")
  BY DeleteFeaturesLeads
<1>6. Reworks(e.id)'
  BY <1>1, <1>2, <1>5 DEF Reworks, Goes, Becomes, enabler, request, At
<1>7. SoundBut'
  BY <1>2, <1>4, <1>6 DEF SoundBut
<1>8. WithId(e.id)' # {}
  BY <1>2 DEF WithId
<1>9. CASE Goes("add")
  <2>1. Offered' = Offered /\ Len(Offered) \in Nat
    BY <1>2, <1>9, OfferedTypes DEF Offered, Goes, Becomes, plugin, Holding, At
  <2>2. /\ enabler' = e /\ request' = request /\ Op' = Op /\ count' = 0
        /\ Object0' = Object0
    BY <1>1, <1>2, <1>9 DEF Goes, Becomes, Object0, Op, request, enabler, plugin, count
  <2>3. AtAdd'
    <3>1. (WithId(enabler.id) # {})'
      BY <1>8, <2>2 DEF enabler
    <3>2. (Op = "put" /\ Object0.config = request.config)'
      BY <1>2, <2>2
    <3>3. (Cardinality(FeaturesOf(enabler.id)) = count)'
      BY <1>3, <2>2 DEF enabler
    <3>4. (count <= Len(Offered))'
      BY <2>1, <2>2
    <3>5. (\A i \in 1..count : \E f \in FeaturesOf(enabler.id) : f.kind = Offered[i])'
      BY <2>2
    <3> QED
      BY <2>2, <3>1, <3>2, <3>3, <3>4, <3>5 DEF AtAdd
  <2> QED
    BY <1>7, <1>9, <2>3 DEF LocalInv, Goes, Becomes, At
<1>10. CASE Goes("update")
  <2>1. AtUpdate'
    BY <1>1, <1>2, <1>3, <1>8, <1>10 DEF AtUpdate, Goes, Becomes, request, enabler
  <2> QED
    BY <1>7, <1>10, <2>1 DEF LocalInv, Goes, Becomes, At
<1> QED
  BY <1>5, <1>9, <1>10

\* A step that replaces or spoils the features of one enabler leaves the others sound.
LEMMA OthersStaySound ==
  ASSUME SoundBut, NEW e, e = enabler,
         \A id : id # e.id => FeaturesOf(id)' = FeaturesOf(id),
         spoiled \subseteq spoiled'
  PROVE  \A g \in enablers : g.id # e.id => Sound(g)'
BY SoundStays DEF SoundBut, Reworks

LEMMA AddOffers ==
  ASSUME IInv, Keyed, SoundBut, LocalInv, Add
  PROVE  SoundBut' /\ LocalInv'
<1>1. PICK e \in Copy : e = enabler
  BY Knowing DEF Add, Working, Holding, At
<1>2. /\ At("add") /\ UNCHANGED <<enablers, objects>> /\ AtAdd /\ count \in Nat
      /\ lastFeature \in Nat
  BY LocalTypes DEF Add, manager, LocalInv, IInv, Typed, Filed
<1>3. WithId(e.id) # {} /\ WithId(e.id)' = WithId(e.id) /\ (Holds(e)' <=> Holds(e))
  BY <1>1, <1>2 DEF AtAdd, WithId, Holds
<1>4. /\ features' = features \cup {NewFeature} /\ count < Len(Offered)
      /\ Becomes("add", request, e, feature, plugin, todo, count + 1)
  BY <1>1, <1>3, AddLeads
<1>5. PICK f \in FeatureRow :
        /\ f = NewFeature /\ f.id = lastFeature + 1 /\ f.enabler = e.id
        /\ f.kind = Offered[count + 1]
  BY <1>1, AddLeads DEF NewFeature
<1>6. f \notin features
  BY <1>2, <1>5 DEF Keyed, KeyedTables, KeyedFeatures, FeatureRow
<1>7. FeaturesOf(e.id)' = FeaturesOf(e.id) \cup {f}
  BY <1>4, <1>5 DEF FeaturesOf
<1>8. \A id : id # e.id => FeaturesOf(id)' = FeaturesOf(id)
  BY <1>4, <1>5 DEF FeaturesOf
<1>9. spoiled' = IF objects[plugin].id # e.id THEN spoiled \cup {e.id} ELSE spoiled
  BY <1>1 DEF Add, Spoil
<1>10. Reworks(e.id)'
  BY <1>4 DEF Reworks, Becomes, enabler, At
<1>11. SoundBut'
  <2>1. \A g \in enablers : g.id # e.id => Sound(g)'
    BY <1>1, <1>8, <1>9, OthersStaySound
  <2> QED
    BY <1>2, <1>10, <2>1 DEF SoundBut
<1>12. /\ enabler' = e /\ request' = request /\ Op' = Op /\ count' = count + 1
       /\ Object0' = Object0 /\ Offered' = Offered
  BY <1>2, <1>4 DEF Becomes, enabler, request, Op, count, Object0, Offered, plugin
<1>13. Cardinality(FeaturesOf(e.id)') = count + 1
  <2>1. IsFiniteSet(FeaturesOf(e.id)) /\ f \notin FeaturesOf(e.id)
    BY <1>6, FS_Subset DEF FeaturesOf, IInv, Typed, Filed
  <2>2. Cardinality(FeaturesOf(e.id)) = count
    BY <1>1, <1>2 DEF AtAdd
  <2> QED
    BY <1>7, <2>1, <2>2, FS_AddElement
<1>14. AtAdd'
  <2>1. (WithId(enabler.id) # {})'
    BY <1>3, <1>12 DEF enabler
  <2>2. (Op = "post" => Holds(enabler) /\ Installable(Object0) /\ Plain)'
    BY <1>1, <1>2, <1>3, <1>12 DEF AtAdd, Installable, Plain, enabler
  <2>3. (Op = "put" => Object0.config = request.config)'
    BY <1>2, <1>12 DEF AtAdd
  <2>4. (Cardinality(FeaturesOf(enabler.id)) = count)'
    BY <1>12, <1>13 DEF enabler
  <2>5. (count <= Len(Offered))'
    <3>1. Len(Offered) \in Nat
      BY <1>2, OfferedTypes DEF Holding, At
    <3> QED
      BY <1>2, <1>4, <1>12, <3>1
  <2>6. (\A i \in 1..count : \E g \in FeaturesOf(enabler.id) : g.kind = Offered[i])'
    <3>1. \A i \in 1..count : \E g \in FeaturesOf(e.id) : g.kind = Offered[i]
      BY <1>1, <1>2 DEF AtAdd
    <3>2. \A i \in 1..(count + 1) : \E g \in FeaturesOf(e.id)' : g.kind = Offered[i]
      BY <1>2, <1>5, <1>7, <3>1
    <3> QED
      BY <1>12, <3>2 DEF enabler
  <2>7. (enabler.id \in spoiled \/ Object0.id = enabler.id)'
    BY <1>9, <1>12 DEF Object0
  <2> QED
    BY <2>1, <2>2, <2>3, <2>4, <2>5, <2>6, <2>7 DEF AtAdd
<1> QED
  BY <1>4, <1>11, <1>14 DEF LocalInv, Becomes, At

LEMMA AddFailsOffers ==
  ASSUME IInv, SoundBut, LocalInv, AddFails
  PROVE  SoundBut' /\ LocalInv'
<1>1. PICK e : e = enabler
  OBVIOUS
<1>2. UNCHANGED <<enablers, features>> /\ spoiled' = spoiled \cup {e.id}
  BY <1>1 DEF AddFails, database, Spoil
<1>3. \A g \in enablers : g.id # e.id => Sound(g)'
  BY <1>1, <1>2, OthersStaySound DEF FeaturesOf
<1>4. LocalInv'
  BY AddFailsLeads, RestsLocally DEF Rests, Resting
<1> QED
  BY <1>2, <1>3, <1>4 DEF SoundBut, Sound

LEMMA AddedOffers ==
  ASSUME IInv, Keyed, Remembered, SoundBut, LocalInv, Added
  PROVE  SoundBut' /\ LocalInv'
<1>1. PICK e \in Copy : e = enabler
  BY Knowing DEF Added, Working, Holding, At
<1>2. /\ At("add") /\ UNCHANGED <<enablers, features, spoiled>> /\ AtAdd
      /\ count \in Nat /\ Typed
  BY LocalTypes DEF Added, database, histories, LocalInv, IInv
<1>3. PICK g \in enablers : g.id = e.id /\ g \in Row
  BY <1>1, <1>2 DEF AtAdd, WithId, Typed, Filed
<1>4. \A h \in WithId(e.id) : h = g
  BY <1>3 DEF WithId, Keyed, KeyedTables, KeyedRows
<1>5. PICK o \in Object : o = Object0 /\ plugin \in Used
  BY <1>2, Knowing, MapIsUsed DEF Object0, Holding, At, Knows, plugin
<1>6. \A h \in enablers : h.id # e.id => Sound(h)'
  BY <1>1, <1>2, OthersStaySound DEF FeaturesOf
<1>7. FeaturesOf(e.id) = {} \/ e.id \in spoiled \/ Fits(e.id, g.plugin, o.config)
  <2>1. CASE count = 0
    <3>1. IsFiniteSet(FeaturesOf(e.id))
      BY <1>2, FS_Subset DEF FeaturesOf, Typed, Filed
    <3> QED
      BY <1>1, <1>2, <2>1, <3>1, FS_EmptySet DEF AtAdd
  <2>2. CASE count # 0 /\ e.id \notin spoiled
    <3>1. o.id = e.id
      BY <1>1, <1>2, <1>5, <2>2 DEF AtAdd
    <3>2. o.script = g.plugin
      BY <1>3, <1>5, <3>1 DEF Remembered, Made, AllRows, Object0
    <3>3. Offered = Offers[g.plugin][o.config]
      BY <1>5, <3>2 DEF Offered, Object0
    <3>4. Len(Offered) \in Nat /\ DOMAIN Offered = 1..Len(Offered)
      BY <1>2, OfferedTypes DEF Holding, At
    <3>5. count = Len(Offered)
      BY <1>2, <3>4 DEF Added, AtAdd, count
    <3> QED
      BY <1>1, <1>2, <3>3, <3>4, <3>5 DEF Fits, AtAdd
  <2> QED
    BY <2>1, <2>2
<1>8. ASSUME Op = "post"
      PROVE  Sound(g)' /\ SoundBut'
  <2>1. /\ Holds(e) /\ (o.script \notin Configurable \/ o.config # Null)
        /\ o.id = e.id => o.config \in {Null, e.config}
    BY <1>1, <1>2, <1>5, <1>8 DEF AtAdd, Installable, Plain
  <2>2. g.config = e.config
    BY <1>3, <2>1 DEF Holds, Keyed, KeyedTables, KeyedRows
  <2>3. o.script = g.plugin \/ o.id # e.id
    BY <1>3, <1>5 DEF Remembered, Made, AllRows, Object0
  <2>4. FeaturesOf(e.id) = {} \/ e.id \in spoiled \/ o.id = e.id
    <3>1. IsFiniteSet(FeaturesOf(e.id))
      BY <1>2, FS_Subset DEF FeaturesOf, Typed, Filed
    <3> QED
      BY <1>1, <1>2, <1>5, <3>1, FS_EmptySet DEF AtAdd
  <2>5. Sound(g)
    BY <1>3, <1>7, <2>1, <2>2, <2>3, <2>4 DEF Sound
  <2>6. Sound(g)'
    BY <1>2, <2>5, SoundStays DEF FeaturesOf
  <2> QED
    BY <1>2, <1>3, <1>6, <2>6 DEF SoundBut, Keyed, KeyedTables, KeyedRows
<1>9. CASE Rests /\ Op = "post"
  BY <1>8, <1>9, RestsLocally DEF Rests, Resting
<1>10. CASE \E h \in WithId(e.id) : Op = "post" /\ Shows(Read(h))
  <2>1. PICK r \in Copy : r = Read(g) /\ r.id = g.id /\ r.name = g.name /\ r.config = g.config
    BY <1>3, ReadIsCopy
  <2>2. Holds(r)' /\ Shows(r)
    BY <1>2, <1>4, <1>10, <2>1 DEF Holds
  <2> QED
    BY <1>8, <1>10, <2>2, ShowsLocally
<1>11. CASE \E h \in WithId(e.id) :
              /\ Op = "put"
              /\ Becomes("update", request, Read(h), feature, plugin, todo, count)
  <2>1. PICK r \in Copy : r = Read(g) /\ r.id = e.id
    BY <1>3, ReadIsCopy
  <2>2. /\ Becomes("update", request, r, feature, plugin, todo, count)
        /\ Op = "put"
    BY <1>4, <1>11, <2>1
  <2>3. request.config # Null /\ o.config = request.config
    BY <1>2, <1>5, <2>2, Knowing DEF Knows, AtAdd, At, Op, request
  <2>4. Reworks(e.id)'
    BY <2>1, <2>2, <2>3 DEF Reworks, Becomes, enabler, request, At
  <2>5. /\ WithId(e.id)' = {g} /\ FeaturesOf(e.id)' = FeaturesOf(e.id)
        /\ Fits(e.id, g.plugin, o.config)' = Fits(e.id, g.plugin, o.config)
    <3>1. FeaturesOf(e.id)' = FeaturesOf(e.id)
      BY <1>2 DEF FeaturesOf
    <3> QED
      BY <1>2, <1>3, <1>4, <3>1 DEF WithId, Fits
  <2>6. AtUpdate'
    BY <1>2, <1>7, <2>1, <2>2, <2>3, <2>5 DEF AtUpdate, Becomes, enabler, request
  <2>7. LocalInv'
    BY <2>2, <2>6 DEF LocalInv, Becomes, At
  <2> QED
    BY <1>2, <1>6, <2>4, <2>7 DEF SoundBut
<1> QED
  BY <1>1, <1>3, <1>9, <1>10, <1>11, AddedLeads DEF WithId

LEMMA UpdateOffers ==
  ASSUME IInv, Keyed, SoundBut, LocalInv, Update
  PROVE  SoundBut' /\ LocalInv'
<1>1. PICK e \in Copy : e = enabler
  BY Knowing DEF Update, Working, At
<1>2. /\ At("update") /\ UNCHANGED features /\ AtUpdate /\ Typed
      /\ request.newName \in Names /\ NewConfig \in MaybeConfig
      /\ Write(e.id, request.newName, NewConfig)
  BY <1>1, UpdateLeads DEF Update, LocalInv, IInv
<1>3. PICK g \in enablers : g.id = e.id /\ g \in Row
  BY <1>1, <1>2 DEF AtUpdate, WithId, Typed, Filed
<1>4. WithId(e.id) = {g}
  BY <1>3 DEF WithId, Keyed, KeyedTables, KeyedRows
<1>5. \A id : FeaturesOf(id)' = FeaturesOf(id)
  BY <1>2 DEF FeaturesOf
<1>6. CASE ~Writable(e.id, request.newName)
  <2>1. /\ Rests /\ UNCHANGED enablers
        /\ spoiled' = IF request.config # Null THEN spoiled \cup {e.id} ELSE spoiled
    BY <1>1, <1>2, <1>6, UpdateLeads DEF Write, Spoil
  <2>2. \A h \in enablers : h.id # e.id => Sound(h)'
    BY <1>1, <1>5, <2>1, OthersStaySound
  <2>3. SoundBut'
    <3>1. CASE request.config # Null
      BY <2>1, <2>2, <3>1 DEF SoundBut, Sound
    <3>2. CASE request.config = Null
      <4>1. \A id : ~Reworks(id)
        BY <1>2, <3>2 DEF Reworks, At
      <4> QED
        BY <1>2, <2>1, <3>2, <4>1, QuietStaysSound
    <3> QED
      BY <3>1, <3>2
  <2>4. LocalInv'
    BY <2>1, RestsLocally DEF Rests, Resting
  <2> QED
    BY <2>3, <2>4
<1>7. CASE Writable(e.id, request.newName)
  <2>1. PICK u \in Row :
          /\ u = Updated(e.id, request.newName, NewConfig)
          /\ u.id = e.id /\ u.config = NewConfig /\ u.plugin = g.plugin
    BY <1>2, <1>4, <1>7, UpdatedIsRow
  <2>2. enablers' = (enablers \ {g}) \cup {u} /\ UNCHANGED spoiled /\ (Rests \/ Shows(Read(u)))
    BY <1>1, <1>2, <1>4, <1>7, <2>1, UpdateLeads DEF Write, Spoil
  <2>3. \A h \in enablers : h.id # e.id => Sound(h)'
    BY <1>1, <1>5, <2>2, OthersStaySound
  <2>4. Sound(u)'
    <3>1. CASE request.config = Null
      <4>1. u.config = g.config
        BY <1>1, <1>2, <1>3, <2>1, <3>1 DEF AtUpdate, NewConfig, Holds, Keyed, KeyedTables, KeyedRows
      <4>2. Sound(g)
        BY <1>2, <3>1 DEF SoundBut, Reworks, At
      <4>3. Sound(u)
        BY <1>3, <2>1, <4>1, <4>2 DEF Sound
      <4> QED
        BY <1>5, <2>2, <4>3, SoundStays
    <3>2. CASE request.config # Null
      <4>1. /\ u.config = request.config
            /\ FeaturesOf(e.id) = {} \/ e.id \in spoiled \/ Fits(e.id, g.plugin, request.config)
        BY <1>1, <1>2, <1>4, <2>1, <3>2 DEF AtUpdate, NewConfig
      <4>2. Sound(u)
        BY <2>1, <4>1 DEF Sound
      <4> QED
        BY <1>5, <2>2, <4>2, SoundStays
    <3> QED
      BY <3>1, <3>2
  <2>5. SoundBut'
    BY <1>4, <2>2, <2>3, <2>4 DEF SoundBut, WithId
  <2>6. CASE Rests
    BY <2>5, <2>6, RestsLocally DEF Rests, Resting
  <2>7. CASE Shows(Read(u))
    <3>1. PICK r \in Copy : r = Read(u) /\ r.id = u.id /\ r.name = u.name /\ r.config = u.config
      BY ReadIsCopy
    <3>2. Holds(r)' /\ Shows(r)
      BY <2>2, <2>7, <3>1 DEF Holds
    <3> QED
      BY <2>5, <3>2, ShowsLocally
  <2> QED
    BY <2>2, <2>6, <2>7
<1> QED
  BY <1>6, <1>7

LEMMA SwitchOffers ==
  ASSUME IInv, SoundBut, Switch, ~Undoes
  PROVE  SoundBut' /\ LocalInv'
<1>1. UNCHANGED <<enablers, features, spoiled>> /\ \A id : ~Reworks(id)
  BY SwitchUndoes DEF Switch, histories, Reworks, At
<1>2. client'.pc \in {"flag", "idle"}
  BY SwitchLeads DEF Goes, Becomes, Rests, Resting
<1> QED
  BY <1>1, <1>2, QuietStaysSound, RestsLocally

LEMMA DeleteOffers ==
  ASSUME IInv, SoundBut, Delete
  PROVE  SoundBut' /\ LocalInv'
<1>1. PICK e : e = enabler
  OBVIOUS
<1>2. /\ UNCHANGED <<features, spoiled>> /\ (\A id : ~Reworks(id))
      /\ enablers' = enablers \ WithId(e.id)
  BY <1>1 DEF Delete, histories, Reworks, At
<1>3. SoundBut' /\ WithId(e.id)' = {}
  BY <1>2, QuietStaysSound DEF WithId
<1>4. CASE Rests
  BY <1>3, <1>4, RestsLocally DEF Rests, Resting
<1>5. CASE Goes("remove")
  BY <1>1, <1>3, <1>5 DEF LocalInv, Goes, Becomes, enabler, At
<1> QED
  BY <1>4, <1>5, DeleteLeads

LEMMA RemoveOffers ==
  ASSUME IInv, SoundBut, LocalInv, Remove
  PROVE  SoundBut' /\ LocalInv'
<1>1. PICK e \in Copy : e = enabler
  BY Knowing DEF Remove, Working, At
<1>2. /\ UNCHANGED <<enablers, features, spoiled>> /\ (\A id : ~Reworks(id))
      /\ WithId(e.id) = {} /\ plugins \in [Names -> Numbers \cup {None}]
      /\ plugins' = [plugins EXCEPT ![e.name] = None]
  BY <1>1, RemoveLeads DEF Remove, database, histories, Reworks, At, LocalInv, IInv, Typed, Filed
<1>3. SoundBut' /\ WithId(e.id)' = {} /\ plugins'[e.name] = None
  BY <1>2, QuietStaysSound DEF WithId, Copy
<1>4. CASE Rests
  BY <1>3, <1>4, RestsLocally DEF Rests, Resting
<1>5. CASE Shows(e)
  <2>1. AtGet'
    BY <1>3, <1>5 DEF AtGet, Lost, Shows, Becomes, Op, request, enabler
  <2> QED
    BY <1>3, <1>5, <2>1 DEF LocalInv, Shows, Becomes, At
<1> QED
  BY <1>1, <1>4, <1>5, RemoveLeads

LEMMA DeletePluginOffers ==
  ASSUME IInv, SoundBut, DeletePlugin \/ RemoveAll
  PROVE  SoundBut' /\ LocalInv'
<1>1. UNCHANGED <<enablers, features, spoiled>> /\ \A id : ~Reworks(id)
  BY DEF DeletePlugin, RemoveAll, database, histories, Reworks, At
<1>2. client'.pc \in {"removeAll", "idle"}
  BY DeletePluginLeads, RemoveAllLeads DEF Goes, Becomes, Rests, Resting
<1> QED
  BY <1>1, <1>2, QuietStaysSound, RestsLocally

LEMMA FlagKeepsKinds ==
  ASSUME IInv, Keyed, Flag, NEW id
  PROVE  /\ FeaturesOf(id) = {} => FeaturesOf(id)' = {}
         /\ Cardinality(FeaturesOf(id)') = Cardinality(FeaturesOf(id))
         /\ \A f \in FeaturesOf(id) : \E g \in FeaturesOf(id)' : g.kind = f.kind
<1>1. /\ features' = (features \ Flagged) \cup Reflagged
      /\ request.isFeed \in BOOLEAN /\ features \subseteq FeatureRow /\ IsFiniteSet(features)
  BY FlagTypes DEF IInv, Typed, Filed
<1>2. CASE Flagged = {}
  <2>1. features' = features
    BY <1>1, <1>2 DEF Reflagged
  <2> QED
    BY <2>1 DEF FeaturesOf
<1>3. ASSUME NEW f \in Flagged
      PROVE  /\ FeaturesOf(id) = {} => FeaturesOf(id)' = {}
             /\ Cardinality(FeaturesOf(id)') = Cardinality(FeaturesOf(id))
             /\ \A h \in FeaturesOf(id) : \E g \in FeaturesOf(id)' : g.kind = h.kind
  <2>1. f \in features /\ f \in FeatureRow
    BY <1>1, <1>3 DEF Flagged
  <2>2. Flagged = {f}
    BY <1>3, <2>1 DEF Flagged, Keyed, KeyedTables, KeyedFeatures
  <2> DEFINE n == [f EXCEPT !.isFeed = request.isFeed]
  <2>3. n \in FeatureRow /\ n.id = f.id /\ n.enabler = f.enabler /\ n.kind = f.kind
    BY <1>1, <2>1 DEF FeatureRow
  <2>4. features' = (features \ {f}) \cup {n}
    BY <1>1, <2>2 DEF Reflagged
  <2> HIDE DEF n
  <2>5. CASE f.enabler # id
    <3>1. FeaturesOf(id)' = FeaturesOf(id)
      BY <2>1, <2>3, <2>4, <2>5 DEF FeaturesOf
    <3> QED
      BY <3>1
  <2>6. CASE f.enabler = id
    <3>1. FeaturesOf(id)' = (FeaturesOf(id) \ {f}) \cup {n} /\ f \in FeaturesOf(id)
      BY <2>1, <2>3, <2>4, <2>6 DEF FeaturesOf
    <3>2. n \notin FeaturesOf(id) \ {f}
      BY <2>1, <2>3 DEF FeaturesOf, Keyed, KeyedTables, KeyedFeatures
    <3>3. IsFiniteSet(FeaturesOf(id)) /\ IsFiniteSet(FeaturesOf(id) \ {f})
      BY <1>1, FS_Subset DEF FeaturesOf
    <3>4. /\ Cardinality(FeaturesOf(id) \ {f}) = Cardinality(FeaturesOf(id)) - 1
          /\ Cardinality(FeaturesOf(id)) \in Nat
      BY <3>1, <3>3, FS_RemoveElement, FS_CardinalityType
    <3>5. Cardinality((FeaturesOf(id) \ {f}) \cup {n}) = Cardinality(FeaturesOf(id) \ {f}) + 1
      BY <3>2, <3>3, FS_AddElement
    <3>6. Cardinality(FeaturesOf(id)') = Cardinality(FeaturesOf(id))
      BY <3>1, <3>4, <3>5
    <3> QED
      BY <2>3, <3>1, <3>6
  <2> QED
    BY <2>5, <2>6
<1> QED
  BY <1>2, <1>3

LEMMA FlagOffers ==
  ASSUME IInv, Keyed, SoundBut, Flag
  PROVE  SoundBut' /\ LocalInv'
<1>1. /\ UNCHANGED <<enablers, spoiled>> /\ (\A id : ~Reworks(id)) /\ enablers \subseteq Row
  BY DEF Flag, histories, Reworks, At, IInv, Typed, Filed
<1>2. ASSUME NEW e \in enablers
      PROVE  Sound(e)'
  <2>1. Sound(e)
    BY <1>1 DEF SoundBut
  <2>2. /\ FeaturesOf(e.id) = {} => FeaturesOf(e.id)' = {}
        /\ Cardinality(FeaturesOf(e.id)') = Cardinality(FeaturesOf(e.id))
        /\ \A f \in FeaturesOf(e.id) : \E g \in FeaturesOf(e.id)' : g.kind = f.kind
    BY FlagKeepsKinds
  <2>3. \A p, k : Fits(e.id, p, k) => Fits(e.id, p, k)'
    BY <2>2 DEF Fits
  <2> QED
    BY <1>1, <2>1, <2>2, <2>3 DEF Sound
<1>3. CASE Rests
  BY <1>1, <1>2, <1>3, RestsLocally DEF SoundBut, Rests, Resting
<1>4. ASSUME NEW e \in enablers, Shows(Read(e))
      PROVE  LocalInv'
  <2>1. PICK r \in Copy : r = Read(e) /\ r.id = e.id /\ r.name = e.name /\ r.config = e.config
    BY <1>1, ReadIsCopy
  <2> QED
    BY <1>1, <1>4, <2>1, ShowsLocally DEF Holds
<1> QED
  BY <1>1, <1>2, <1>3, <1>4, FlagLeads DEF SoundBut

\* What is sound in the tables when the file is no longer written stays so there.
LEMMA FileStaysSound ==
  ASSUME IInv, FlagInv, SeqInv, Acts, ~autoCommit'
  PROVE  FileSound'
<1>1. saved' = saved /\ (~autoCommit \/ At("deletePlugin"))
  <2>1. CASE Statement
    BY <2>1, Zenon DEF Statement
  <2>2. ~Transaction /\ ~Undoes
    BY Zenon DEF Transaction, Undoes, RollBack
  <2>3. CASE UNCHANGED connection
    <3>1. saved' = saved /\ autoCommit' = autoCommit
      BY <2>3 DEF connection
    <3> QED
      BY <3>1, Zenon
  <2>4. CASE saved' = saved /\ At("deletePlugin")
    BY <2>4
  <2> QED
    BY <2>1, <2>2, <2>3, <2>4, FileChanges
<1>2. CASE ~autoCommit
  BY <1>1, <1>2 DEF SeqInv, FileSound
<1>3. CASE autoCommit /\ At("deletePlugin")
  <2>1. \A id : ~Reworks(id)
    BY <1>3 DEF Reworks, At
  <2>2. \A e \in enablers : SoundIn(e, features, spoiled)
    BY <2>1, SoundInTables DEF SeqInv, SoundBut
  <2> QED
    BY <1>1, <1>3, <2>2 DEF FlagInv, Committed, FileSound
<1> QED
  BY <1>1, <1>2, <1>3

\* What a crash finds half done is remembered when it is committed.
LEMMA RestartOffers ==
  ASSUME FlagInv, SeqInv, Restart
  PROVE  SeqInv'
<1>1. /\ enablers' = saved.enablers /\ features' = saved.features
      /\ spoiled' = saved.spoiled \cup Unfinished /\ client' = Resting
      /\ saved'.enablers = enablers' /\ saved'.features = features' /\ saved'.spoiled = spoiled'
  BY DEF Restart, Rows
<1>2. ASSUME NEW e \in saved.enablers
      PROVE  SoundIn(e, saved.features, saved.spoiled \cup Unfinished)
  <2>1. CASE ~autoCommit
    BY <2>1 DEF SeqInv, FileSound, SoundIn
  <2>2. CASE autoCommit
    <3>1. e \in enablers /\ features = saved.features /\ spoiled = saved.spoiled
      BY <2>2 DEF FlagInv, Committed
    <3>2. Sound(e) \/ Reworks(e.id)
      BY <3>1 DEF SeqInv, SoundBut
    <3>3. Reworks(e.id) => e.id \in Unfinished
      BY <2>2 DEF Reworks, Unfinished
    <3> QED
      BY <3>1, <3>2, <3>3, SoundInTables DEF SoundIn
  <2> QED
    BY <2>1, <2>2
<1>3. \A e \in enablers' : Sound(e)'
  BY <1>1, <1>2, SoundInTablesNext
<1>4. FileSound'
  BY <1>1, <1>2 DEF FileSound
<1>5. LocalInv'
  BY <1>1, RestsLocally DEF Resting
<1> QED
  BY <1>3, <1>4, <1>5 DEF SeqInv, SoundBut

LEMMA InitOffers ==
  ASSUME Init
  PROVE  SeqInv
BY DEF Init, Rows, Resting, SeqInv, SoundBut, FileSound, LocalInv, At

LEMMA StutterOffers ==
  ASSUME SeqInv, UNCHANGED vars
  PROVE  SeqInv'
<1>1. UNCHANGED <<pluginInfos, enablers, features, objects, plugins, client, spoiled, saved,
                  autoCommit>>
  BY DEF vars, database, connection, manager, histories
<1>2. \A e \in enablers : Sound(e) => Sound(e)'
  BY <1>1, SoundStays DEF FeaturesOf
<1>3. SoundBut'
  BY <1>1, <1>2 DEF SeqInv, SoundBut, Reworks, At, enabler, request
<1>4. LocalInv
  BY DEF SeqInv
<1>5. AtGet => AtGet'
  BY <1>1 DEF AtGet, Holds, Lost, FeaturesOf, WithId, Used, Live, enabler, plugin, Op, request
<1>6. AtPlugin => AtPlugin'
  BY <1>1 DEF AtPlugin, Plain, Object0, Holds, Lost, FeaturesOf, WithId, enabler, plugin, Op, request
<1>7. Passing => Passing'
  BY <1>1 DEF Passing, todo, enabler, Op, request
<1>8. AtAdd => AtAdd'
  BY <1>1 DEF AtAdd, Plain, Object0, Holds, FeaturesOf, WithId, Installable, Offered, enabler,
              plugin, Op, request, count
<1>9. AtUpdate => AtUpdate'
  <2>1. PICK e : e = enabler
    OBVIOUS
  <2>2. e = enabler' /\ request' = request
    BY <1>1, <2>1 DEF enabler, request
  <2>3. /\ FeaturesOf(e.id)' = FeaturesOf(e.id) /\ WithId(e.id)' = WithId(e.id)
        /\ Holds(e)' <=> Holds(e)
    BY <1>1, RowsStay
  <2>4. \A p, k : Fits(e.id, p, k)' <=> Fits(e.id, p, k)
    BY <2>3 DEF Fits
  <2> QED
    BY <1>1, <2>1, <2>2, <2>3, <2>4 DEF AtUpdate, enabler, request
<1>10. LocalInv'
  BY <1>1, <1>4, <1>5, <1>6, <1>7, <1>8, <1>9
     DEF LocalInv, At, Object0, plugin, todo, WithId, enabler, request
<1>11. ~autoCommit' => FileSound'
  BY <1>1 DEF SeqInv, FileSound
<1> QED
  BY <1>3, <1>10, <1>11 DEF SeqInv

LEMMA SeqInvIsInductive ==
  ASSUME IInv, Keyed, FlagInv, Remembered, SeqInv, [Next]_vars
  PROVE  SeqInv'
<1>1. ASSUME Acts
      PROVE  SeqInv'
  <2>1. SoundBut' /\ LocalInv'
    <3>1. SoundBut /\ LocalInv
      BY DEF SeqInv
    <3> QED
      BY <1>1, <3>1, UndoOffers, ReceiveOffers, InsertOffers, FindOffers, GetOffers, RegisterOffers,
         AskOffers, ConfigureOffers, SaveOffers, DeleteFeaturesOffers, AddOffers, AddedOffers,
         AddFailsOffers, UpdateOffers, SwitchOffers, FlagOffers, DeleteOffers, RemoveOffers,
         DeletePluginOffers DEF Acts, Serve
  <2>2. ~autoCommit' => FileSound'
    BY <1>1, FileStaysSound
  <2> QED
    BY <2>1, <2>2 DEF SeqInv
<1> QED
  BY <1>1, StutterOffers, RestartOffers DEF Next, Acts

(***************************************************************************)
(* FeaturesAreOffered is an invariant: configurePersistant writes the row  *)
(* that the plugin object remembers, and under the name that it remembers; *)
(* that is the row of the enabler in the request, or none, and a PUT that  *)
(* has changed its configuration goes on to replace the features.  What a  *)
(* rollback or a crash brings back was left by a request that was over, or *)
(* is marked.                                                              *)
(***************************************************************************)
THEOREM FeaturesAreAlwaysOffered == Spec => []FeaturesAreOffered
<1>1. Init => Remembered /\ SeqInv
  BY InitRemembers, InitOffers
<1>2. /\ IInv /\ IInv' /\ Keyed /\ Keyed' /\ FlagInv /\ Remembered /\ SeqInv /\ [Next]_vars
      => Remembered' /\ SeqInv'
  BY RememberedIsInductive, SeqInvIsInductive
<1>3. SeqInv => FeaturesAreOffered
  <2>1. ASSUME SeqInv, At("idle"), NEW e \in enablers
        PROVE  Sound(e)
    BY <2>1 DEF SeqInv, SoundBut, Reworks, At
  <2> QED
    BY <2>1 DEF FeaturesAreOffered, Sound, Fits
<1> QED
  BY <1>1, <1>2, <1>3, LayersHold, FlagLayerHolds, PTL DEF Spec

=============================================================================
