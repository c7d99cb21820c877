--------------------------- MODULE EnablerRegistry ---------------------------
(***************************************************************************)
(* The enablers of the hub: their rows, the rows of their features and the *)
(* atomic feeds of these in the database, and the map of plugin objects    *)
(* that PluginManager keeps beside them, under the requests that create,   *)
(* configure, rename and delete enablers, switch the feed of a feature and *)
(* delete plugins.  A plugin object is found by the name of an enabler but *)
(* remembers the one it was created for, and writes to that one.           *)
(*                                                                         *)
(* A step of a request is one call on the database, on the map or on the   *)
(* plugin object.  The answer to a request shows an enabler with its       *)
(* features; it asks the plugin of each, which it creates and configures   *)
(* where it must, and is therefore part of the request.  One request runs  *)
(* at a time: module ServiceRegistry has what overlaps, statement by       *)
(* statement.                                                              *)
(***************************************************************************)
EXTENDS Naturals, Sequences, FiniteSets

CONSTANTS
  Names,         \* the names of enablers
  Configs,       \* the configurations that requests carry
  Plugins,       \* the plugins uploaded before
  Configurable,  \* the plugins that need a configuration
  Kinds,         \* the names of features
  Switched,      \* the names of features that requests to switch name
  Offers,        \* the features that a plugin has under a configuration, in order
  MaxEnablers,   \* bound: the enablers added
  MaxFeatures,   \* bound: the features added
  MaxOffered,    \* bound: the features that a plugin has at a time
  Null           \* null

ASSUME EnablersAssumption ==
  /\ MaxEnablers \in Nat /\ MaxFeatures \in Nat /\ MaxOffered \in Nat
  /\ IsFiniteSet(Names)
  /\ Configurable \subseteq Plugins /\ Switched \subseteq Kinds
  /\ Offers \in [Plugins -> [Configs \cup {Null} -> Seq(Kinds)]]
  /\ \A p \in Plugins : \A k \in Configs \cup {Null} : Len(Offers[p][k]) <= MaxOffered
  /\ Null \notin Configs \cup Plugins

VARIABLES
  pluginInfos,  \* the plugins in the database
  enablers,     \* the enablers, as the connection sees them
  features,     \* the features, as the connection sees them
  feeds,        \* the features with an atomic feed, which is named by their identifier
  lastEnabler, lastFeature,  \* the identifiers given last
  saved,        \* the enablers, features and feeds in the file, and their histories
  autoCommit,   \* the connection's auto-commit mode
  objects,      \* the plugin objects, by number
  plugins,      \* the map of PluginManager: names to plugin objects, 0 for none
  client,       \* where the client is, what its request is, and its locals
  torn,         \* history: the features that a crash has cut off from their feed
  spoiled       \* history: the enablers whose features are not their plugin's: a
                \* script threw, the hub died or the row was not written after all,
                \* or the plugin object was that of another enabler

identifiers == <<lastEnabler, lastFeature>>
connection == <<saved, autoCommit>>
database == <<pluginInfos, enablers, features, feeds, identifiers, connection>>
manager == <<objects, plugins>>
histories == <<torn, spoiled>>
vars == <<database, manager, client, histories>>

None == 0
Ids == 1..MaxEnablers

\* Enough for the objects that the map and the request refer to; the number of
\* an object that neither does is free again.
Numbers == 1..(Cardinality(Names) + 1)

\* As rows, and as the objects built from them, where the plugin may be null.
Enabler == [id : Ids, name : Names, plugin : Plugins \cup {Null}, config : Configs \cup {Null}]
Feature == [id : 1..MaxFeatures, enabler : Ids, kind : Kinds, isFeed : BOOLEAN]
Plugin == [script : Plugins, id : Ids, name : Names, config : Configs \cup {Null}]

\* A configuration that the body does not give is Null.  The request "use" is
\* for the value of a feed, or for the plugins that start() initialises.
Request ==
  [op : {"post"}, name : Names, plugin : Plugins, config : Configs \cup {Null}]
    \cup [op : {"put"}, name : Names, newName : Names, config : Configs \cup {Null}]
    \cup [op : {"delete"}, name : Names]
    \cup [op : {"switch"}, name : Names, kind : Switched, isFeed : BOOLEAN]
    \cup [op : {"deletePlugin"}, plugin : Plugins]
    \cup [op : {"use"}]

Steps == {"idle", "insert", "find", "get", "register", "ask", "configure", "save",
          "deleteFeatures", "add", "update", "delete", "remove", "switch", "flag",
          "deletePlugin", "removeAll"}

File == [enablers : SUBSET Enabler, features : SUBSET Feature, feeds : SUBSET (1..MaxFeatures),
         torn : SUBSET (1..MaxFeatures), spoiled : SUBSET Ids]

Client == [pc : Steps, request : Request \cup {Null}, enabler : Enabler \cup {Null},
           feature : 0..MaxFeatures, plugin : Numbers \cup {None},
           todo : Seq(Configs \cup {Null}), count : 0..MaxFeatures]

Resting == [pc |-> "idle", request |-> Null, enabler |-> Null, feature |-> 0,
            plugin |-> None, todo |-> <<>>, count |-> 0]

TypeOK ==
  /\ pluginInfos \subseteq Plugins
  /\ enablers \subseteq Enabler /\ lastEnabler \in 0..MaxEnablers
  /\ features \subseteq Feature /\ lastFeature \in 0..MaxFeatures
  /\ feeds \subseteq 1..lastFeature
  /\ saved \in File /\ autoCommit \in BOOLEAN
  /\ objects \in [Numbers -> Plugin \cup {Null}]
  /\ plugins \in [Names -> Numbers \cup {None}]
  /\ client \in Client
  /\ torn \subseteq 1..MaxFeatures /\ spoiled \subseteq Ids

Rows == [enablers |-> enablers, features |-> features, feeds |-> feeds,
         torn |-> torn, spoiled |-> spoiled]

\* openDatabase leaves auto-commit off.
Init ==
  /\ pluginInfos = Plugins /\ enablers = {} /\ features = {} /\ feeds = {}
  /\ lastEnabler = 0 /\ lastFeature = 0
  /\ objects = [i \in Numbers |-> Null]
  /\ plugins = [n \in Names |-> None]
  /\ client = Resting
  /\ torn = {} /\ spoiled = {}
  /\ saved = Rows /\ autoCommit = FALSE

------------------------------------------------------------------------------
(* The database, one call at a time.                                       *)

At(label) == client.pc = label
Goto(label) == client' = [client EXCEPT !.pc = label]
Answer == client' = Resting

request == client.request
enabler == client.enabler
plugin == client.plugin
todo == client.todo
Op == request.op

\* A statement of its own commits, unless auto-commit is off.
Statement ==
  /\ saved' = IF autoCommit THEN Rows' ELSE saved
  /\ UNCHANGED autoCommit

\* An addition turns auto-commit off, adds, commits and turns it on; so does the
\* deletion of a plugin.  It commits what requests have left uncommitted, too.
Transaction ==
  /\ saved' = Rows'
  /\ autoCommit' = TRUE

\* An addition that fails takes that back with its own.
RollBack ==
  /\ enablers' = saved.enablers /\ features' = saved.features /\ feeds' = saved.feeds
  /\ torn' = saved.torn /\ spoiled' = saved.spoiled
  /\ autoCommit' = TRUE
  /\ UNCHANGED saved

WithId(id) == {e \in enablers : e.id = id}
WithName(name) == {e \in enablers : e.name = name}
FeaturesOf(id) == {f \in features : f.enabler = id}

\* getEnabler(id) reads an enabler whose plugin is gone as one with a null
\* plugin; getEnabler(name) does not read it.
Read(e) == [e EXCEPT !.plugin = IF e.plugin \in pluginInfos THEN e.plugin ELSE Null]
Readable(e) == e.plugin \in pluginInfos

\* UPDATE ... WHERE id = ? finds the row, and the name stays unique.
Writable(id, name) == WithId(id) # {} /\ WithName(name) \subseteq WithId(id)
Updated(id, name, config) == [CHOOSE e \in WithId(id) : TRUE EXCEPT !.name = name, !.config = config]

\* updateEnabler.
Write(id, name, config) ==
  enablers' = IF Writable(id, name)
              THEN (enablers \ WithId(id)) \cup {Updated(id, name, config)}
              ELSE enablers

\* The answer: the plugin is asked for every feature, unless it is gone.
Show(e, count) ==
  client' =
    IF e.plugin = Null \/ count = 0
    THEN Resting
    ELSE [Resting EXCEPT !.pc = "get", !.request = [op |-> "use"], !.enabler = e]

------------------------------------------------------------------------------
(* Requests reach the handlers.                                            *)

Adding(r) == r.op = "post" \/ (r.op = "put" /\ r.config # Null)

Receive ==
  /\ At("idle")
  /\ \E r \in Request :
       /\ r.op = "post" => lastEnabler < MaxEnablers
       /\ Adding(r) => lastFeature + MaxOffered <= MaxFeatures
       /\ client' = [client EXCEPT !.request = r,
                       !.pc = CASE r.op = "post" -> "insert"
                                [] r.op = "deletePlugin" -> "deletePlugin"
                                [] OTHER -> "find"]
  /\ UNCHANGED <<database, manager, histories>>

\* addEnabler, for a plugin that exists and a name that is not taken.
Insert ==
  /\ At("insert")
  /\ LET r == request
         e == [id |-> lastEnabler + 1, name |-> r.name, plugin |-> r.plugin, config |-> r.config]
     IN  \/ /\ r.plugin \notin pluginInfos
            /\ Answer
            /\ UNCHANGED <<enablers, features, feeds, lastEnabler, connection, histories>>
         \/ /\ r.plugin \in pluginInfos /\ WithName(r.name) # {}
            /\ RollBack
            /\ Answer
            /\ UNCHANGED lastEnabler
         \/ /\ r.plugin \in pluginInfos /\ WithName(r.name) = {}
            /\ enablers' = enablers \cup {e}
            /\ lastEnabler' = lastEnabler + 1
            /\ client' = [client EXCEPT !.enabler = e, !.pc = "get"]
            /\ UNCHANGED <<features, feeds, histories>>
            /\ Transaction
  /\ UNCHANGED <<pluginInfos, lastFeature, manager>>

\* getEnabler(name), which reads the features too.
Find ==
  /\ At("find")
  /\ Op \in {"put", "delete"}
  /\ LET found == {e \in WithName(request.name) : Readable(e)}
     IN  IF found = {}
         THEN Answer
         ELSE \E e \in found :
                client' = [client EXCEPT !.enabler = e,
                  !.count = IF Op = "delete" THEN Cardinality(FeaturesOf(e.id)) ELSE 0,
                  !.pc = CASE Op = "delete" -> "delete"
                              [] Op = "put" /\ request.config = Null -> "update"
                              [] OTHER -> "get"]
  /\ UNCHANGED <<database, manager, histories>>

\* getEnabler(id), for the value of a feed; getEnablers, for start().
FindAny ==
  /\ At("find")
  /\ Op = "use"
  /\ \/ enablers = {} /\ Answer
     \/ \E e \in enablers : client' = [client EXCEPT !.enabler = Read(e), !.pc = "get"]
  /\ UNCHANGED <<database, manager, histories>>

\* The answer shows the feature, as Show does those of an enabler.
ShowFeature(e) ==
  client' = [Resting EXCEPT !.pc = "get", !.request = [op |-> "use"], !.enabler = e]

\* The first feature of that name; there is nothing to do if it is as requested.
FindFeature ==
  /\ At("find")
  /\ Op = "switch"
  /\ LET r == request
         found == {e \in WithName(r.name) : Readable(e)}
         named == {f \in features : f.kind = r.kind /\ \E e \in found : f.enabler = e.id}
     IN  IF named = {}
         THEN Answer
         ELSE \E e \in found, f \in named :
                /\ \A g \in named : f.id <= g.id
                /\ IF f.isFeed = r.isFeed
                   THEN ShowFeature(e)
                   ELSE client' = [client EXCEPT !.feature = f.id, !.pc = "switch"]
  /\ UNCHANGED <<database, manager, histories>>

------------------------------------------------------------------------------
(* The plugin object, and its configuration.                               *)

Live == {plugins[n] : n \in Names} \cup {plugin}
Free == Numbers \ Live

\* Mutant: the plugin of the enabler may be gone.
GetInAnyCase ==
  /\ At("get")
  /\ LET e == enabler
         known == plugins[e.name]
         new == IF known = None THEN CHOOSE i \in Free : TRUE ELSE known
     IN  /\ client' = [client EXCEPT !.plugin = new,
                                     !.pc = IF known = None THEN "register" ELSE "ask"]
         /\ objects' = IF known # None THEN objects
                       ELSE [objects EXCEPT ![new] =
                              [script |-> e.plugin, id |-> e.id, name |-> e.name, config |-> Null]]
  /\ UNCHANGED <<database, plugins, histories>>

\* getPlugin creates what it does not find, unless the enabler has no plugin
\* or the script cannot be read.
Get ==
  /\ At("get")
  /\ LET e == enabler
         known == plugins[e.name]
     IN  \/ /\ known # None
            /\ client' = [client EXCEPT !.plugin = known, !.pc = "ask"]
            /\ UNCHANGED objects
         \/ /\ known = None /\ e.plugin # Null
            /\ LET new == CHOOSE i \in Free : TRUE
               IN  /\ objects' = [objects EXCEPT ![new] =
                                    [script |-> e.plugin, id |-> e.id, name |-> e.name, config |-> Null]]
                   /\ client' = [client EXCEPT !.plugin = new, !.pc = "register"]
         \/ known = None /\ Answer /\ UNCHANGED objects
  /\ UNCHANGED <<database, plugins, histories>>

Put(name, number) == plugins' = [plugins EXCEPT ![name] = number]

Register ==
  /\ At("register")
  /\ Put(enabler.name, plugin)
  /\ Goto("ask")
  /\ UNCHANGED <<database, objects, histories>>

Installable(o) == o.script \notin Configurable \/ o.config # Null

\* What follows the configuration: a POST and a PUT add the features.
Done ==
  CASE Op = "post" ->
         IF Installable(objects[plugin])
         THEN client' = [client EXCEPT !.todo = <<>>, !.pc = "add"]
         ELSE Answer
    [] Op = "put" -> client' = [client EXCEPT !.todo = <<>>, !.pc = "deleteFeatures"]
    [] OTHER -> Answer

\* getConfiguredPlugin gives the configuration of the row to a plugin that
\* needs one, and ignores whether the script rejects it; a PUT then gives its
\* own to any plugin.  The question whether it needs one may throw.
Ask ==
  /\ At("ask")
  /\ LET old == IF objects[plugin].script \in Configurable
                THEN <<enabler.config>> ELSE <<>>
         new == IF Op = "put" THEN <<request.config>> ELSE <<>>
     IN  \/ old \o new = <<>> /\ Done
         \/ /\ old \o new # <<>>
            /\ client' = [client EXCEPT !.todo = old \o new, !.pc = "configure"]
         \/ Answer
  /\ UNCHANGED <<database, manager, histories>>

Continue ==
  IF Len(todo) > 1
  THEN client' = [client EXCEPT !.todo = Tail(@), !.pc = "configure"]
  ELSE Done

\* The configuration it has already is no news; otherwise the script accepts
\* the configuration, rejects it or throws.
Configure ==
  /\ At("configure")
  /\ \/ objects[plugin].config = Head(todo) /\ Continue /\ UNCHANGED objects
     \/ /\ objects[plugin].config # Head(todo)
        /\ \/ /\ objects' = [objects EXCEPT ![plugin].config = Head(todo)]
              /\ Goto("save")
           \/ /\ IF Op = "put" /\ Len(todo) = 1 THEN Answer ELSE Continue
              /\ UNCHANGED objects
           \/ Answer /\ UNCHANGED objects
  /\ UNCHANGED <<database, plugins, histories>>

\* configurePersistant: the row and the name are those the object remembers.
Save ==
  /\ At("save")
  /\ LET o == objects[plugin]
     IN  Write(o.id, o.name, Head(todo))
  /\ Continue
  /\ UNCHANGED <<pluginInfos, features, feeds, identifiers, manager, histories>>
  /\ Statement

------------------------------------------------------------------------------
(* The features of an enabler.                                             *)

\* Mutant: the features of the earlier configuration stay.
DeleteNoFeatures ==
  /\ At("deleteFeatures")
  /\ spoiled' = spoiled \ {enabler.id}
  /\ Goto(IF Installable(objects[plugin]) THEN "add" ELSE "update")
  /\ UNCHANGED <<pluginInfos, enablers, features, feeds, identifiers, manager, torn>>
  /\ Statement

\* deleteFeaturesOfEnabler; their feeds stay, and can no longer be read.
DeleteFeatures ==
  /\ At("deleteFeatures")
  /\ features' = features \ FeaturesOf(enabler.id)
  /\ spoiled' = spoiled \ {enabler.id}
  /\ Goto(IF Installable(objects[plugin]) THEN "add" ELSE "update")
  /\ UNCHANGED <<pluginInfos, enablers, feeds, identifiers, manager, torn>>
  /\ Statement

Offered == Offers[objects[plugin].script][objects[plugin].config]

Spoil(b) == spoiled' = IF b THEN spoiled \cup {enabler.id} ELSE spoiled

\* addFeature, for one feature.
Add ==
  /\ At("add")
  /\ client.count < Len(Offered)
  /\ features' = features \cup
       {[id |-> lastFeature + 1, enabler |-> enabler.id,
         kind |-> Offered[client.count + 1], isFeed |-> FALSE]}
  /\ lastFeature' = lastFeature + 1
  /\ client' = [client EXCEPT !.count = @ + 1]
  /\ Spoil(objects[plugin].id # enabler.id)
  /\ UNCHANGED <<pluginInfos, enablers, feeds, lastEnabler, manager, torn>>
  /\ Transaction

\* All are there: the enabler is read again.
Added ==
  /\ At("add")
  /\ client.count >= Len(Offered)
  /\ \E e \in WithId(enabler.id) :
       IF Op = "post"
       THEN Show(Read(e), client.count)
       ELSE client' = [client EXCEPT !.enabler = Read(e), !.pc = "update"]
  /\ UNCHANGED <<database, manager, histories>>

\* The script throws when it is asked for the next feature.
AddFails ==
  /\ At("add")
  /\ Answer
  /\ Spoil(TRUE)
  /\ UNCHANGED <<pluginInfos, enablers, features, feeds, identifiers, manager, torn>>
  /\ Statement

\* The last word of a PUT.  The name may be taken.
Update ==
  /\ At("update")
  /\ LET e == enabler
         r == request
         config == IF r.config = Null THEN e.config ELSE r.config
     IN  /\ Write(e.id, r.newName, config)
         /\ IF Writable(e.id, r.newName)
            THEN /\ Show(Read(Updated(e.id, r.newName, config)), Cardinality(FeaturesOf(e.id)))
                 /\ Spoil(FALSE)
            ELSE Answer /\ Spoil(r.config # Null)
  /\ UNCHANGED <<pluginInfos, features, feeds, identifiers, manager, torn>>
  /\ Statement

------------------------------------------------------------------------------
(* The feed of a feature: updateFeature of IotHubDataAccess.               *)

\* Mutant: deleteFeed answers with the feed, and leaves it.
SwitchOnOnly ==
  /\ At("switch")
  /\ LET id == client.feature
     IN  IF request.isFeed
         THEN IF id \in feeds
              THEN RollBack /\ Answer
              ELSE /\ feeds' = feeds \cup {id}
                   /\ Goto("flag")
                   /\ UNCHANGED <<enablers, features, histories>>
                   /\ Transaction
         ELSE /\ IF id \in feeds THEN Goto("flag") ELSE Answer
              /\ UNCHANGED <<enablers, features, feeds, connection, histories>>
  /\ UNCHANGED <<pluginInfos, identifiers, manager>>

\* addAtomicFeed, which fails when the name of the feed is taken, or deleteFeed,
\* when there is one.
Switch ==
  /\ At("switch")
  /\ LET id == client.feature
     IN  IF request.isFeed /\ id \in feeds
         THEN RollBack /\ Answer
         ELSE /\ feeds' = IF request.isFeed THEN feeds \cup {id} ELSE feeds \ {id}
              /\ IF feeds' # feeds THEN Goto("flag") ELSE Answer
              /\ UNCHANGED <<enablers, features, histories>>
              /\ IF request.isFeed THEN Transaction ELSE Statement
  /\ UNCHANGED <<pluginInfos, identifiers, manager>>

\* updateFeature of the database, a statement of its own.
Flag ==
  /\ At("flag")
  /\ LET old == {f \in features : f.id = client.feature}
     IN  /\ features' = (features \ old) \cup {[f EXCEPT !.isFeed = request.isFeed] : f \in old}
         /\ \E f \in old : \E e \in WithId(f.enabler) : ShowFeature(Read(e))
  /\ UNCHANGED <<pluginInfos, enablers, feeds, identifiers, manager, histories>>
  /\ Statement

------------------------------------------------------------------------------
(* Deletions.                                                              *)

Delete ==
  /\ At("delete")
  /\ enablers' = enablers \ WithId(enabler.id)
  /\ Goto("remove")
  /\ UNCHANGED <<pluginInfos, features, feeds, identifiers, manager, histories>>
  /\ Statement

\* removePlugin; then the answer shows the enabler that is gone.
Remove ==
  /\ At("remove")
  /\ Put(enabler.name, None)
  /\ Show(enabler, client.count)
  /\ UNCHANGED <<database, objects, histories>>

\* Without the plugin, it returns with auto-commit turned off.
DeletePlugin ==
  /\ At("deletePlugin")
  /\ pluginInfos' = pluginInfos \ {request.plugin}
  /\ UNCHANGED <<enablers, features, feeds, identifiers, manager, histories>>
  /\ IF request.plugin \in pluginInfos
     THEN Transaction /\ Goto("removeAll")
     ELSE autoCommit' = FALSE /\ UNCHANGED saved /\ Answer

\* removeAllPluginsForPluginInfo: the names in the map whose enabler can be
\* read and has the plugin.  The plugin is gone, so no such enabler can be read.
RemoveAll ==
  /\ At("removeAll")
  /\ LET names == {e.name : e \in {e \in enablers : Readable(e) /\ e.plugin = request.plugin}}
     IN  plugins' = [n \in Names |-> IF n \in names THEN None ELSE plugins[n]]
  /\ Answer
  /\ UNCHANGED <<database, objects, histories>>

------------------------------------------------------------------------------

\* The rows that a crash finds half changed in the file.
CutOff == IF autoCommit /\ At("flag") THEN {client.feature} ELSE {}
Unfinished ==
  IF autoCommit /\ (\/ At("deleteFeatures") \/ At("add")
                    \/ At("update") /\ request.config # Null)
  THEN {enabler.id} ELSE {}

\* The hub dies, and starts with the file and an empty map.  A crash within a
\* call on the database is one before it: the call commits at its end.
Restart ==
  /\ enablers' = saved.enablers /\ features' = saved.features /\ feeds' = saved.feeds
  /\ torn' = saved.torn \cup CutOff
  /\ spoiled' = saved.spoiled \cup Unfinished
  /\ saved' = Rows' /\ autoCommit' = FALSE
  /\ objects' = [i \in Numbers |-> Null]
  /\ plugins' = [n \in Names |-> None]
  /\ client' = Resting
  /\ UNCHANGED <<pluginInfos, identifiers>>

Serve ==
  \/ Insert \/ Find \/ FindAny \/ FindFeature
  \/ Get \/ Register \/ Ask \/ Configure \/ Save
  \/ DeleteFeatures \/ Add \/ Added \/ AddFails \/ Update
  \/ Switch \/ Flag
  \/ Delete \/ Remove \/ DeletePlugin \/ RemoveAll

Next == Receive \/ Serve \/ Restart

Spec == Init /\ [][Next]_vars

------------------------------------------------------------------------------
(* What the registry owes the enablers.                                    *)

(***************************************************************************)
(* A feature is flagged as a feed exactly when its atomic feed exists,     *)
(* although a transaction and a statement change them, and the rollback of *)
(* a failed addition may take either back later: except between the two,   *)
(* and after a crash there.  A feature whose flag and feed differ can be   *)
(* switched neither on nor off.                                            *)
(***************************************************************************)
FlagMatchesFeed ==
  \A f \in features :
    \/ f.isFeed <=> f.id \in feeds
    \/ f.id \in torn
    \/ At("flag") /\ client.feature = f.id

(***************************************************************************)
(* Between requests, an enabler has no features, or those that its plugin  *)
(* offers under the configuration in its row, each once, whatever was      *)
(* rejected, renamed, deleted or rolled back before: unless a script threw *)
(* or the hub died in between, or the enabler had the plugin object of     *)
(* another.  The next PUT that adds the features mends it.                 *)
(***************************************************************************)
FeaturesAreOffered ==
  At("idle") =>
    \A e \in {e \in enablers : e.id \notin spoiled /\ FeaturesOf(e.id) # {}} :
      \E k \in {e.config} \cup {k \in {Null} : e.plugin \notin Configurable} :
        /\ Cardinality(FeaturesOf(e.id)) = Len(Offers[e.plugin][k])
        /\ \A i \in DOMAIN Offers[e.plugin][k] :
             \E f \in FeaturesOf(e.id) : f.kind = Offers[e.plugin][k][i]
=============================================================================
