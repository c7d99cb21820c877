# Kahvihub: a TLA+ verification development

Kahvihub is an Internet-of-things hub: a Java process that serves an HTTP API,
keeps its plugins, enablers, features, feeds and services in an SQLite file, and
runs the scripts of plugins and services in a JavaScript engine (Duktape, reached
through JNI).  This directory holds TLA+ modules of its core, the TLC
configurations that model-check them, and proofs that TLAPS checks.

Paths below are relative to `src/`; `J/` abbreviates
`core/src/main/java/fi/helsinki/cs/iot/hub/`.

Contents: [the system](#the-system), [the modules](#the-modules),
[the runs](#the-runs), [fairness](#fairness), [the proofs](#the-proofs),
[divergences found](#divergences-found), [assumptions](#assumptions-and-abstractions),
[what is not modelled](#what-is-not-modelled), [the plan](#the-plan).

## The system

### How the parts interact

```
 HTTP clients --> NanoHTTPD --> API dispatch --> request handlers
                (a thread per request)              |      |      |
                                                    |      |      +--> IotHubDataAccess --> database
                                                    |      |           (one shared JDBC connection)
                                                    |      +--> PluginManager --> enabler scripts
                                                    +--> ServiceManager --> service runner
                                                                              | start / stop flag
                                                                              v
                                                            a Java thread: script + event loop
                                                                              | JNI
                                                                              v
                                                                 poll(), sockets, HTTP requests
```

Every request runs in a thread of its own, and nothing in the hub takes a lock
(`synchronized` occurs only inside the vendored web server).  Shared state is
therefore read and written one field access, or one database call, at a time.

### Inventory

| component | state | operations | hard behaviour | what makes it correct | module |
|---|---|---|---|---|---|
| **JavaScript event loop** (`core/src/main/resources/ecma_eventloop.js`, `jni/src/jsDuktapeWrapper.c`, `poll.c`) | the sorted timer array, the expiring timer, the readers by descriptor, the exit flag, the stop flag of the wrapper | set/clear timers, request exit, setReader/close, the passes and polls of `run` | callbacks that change timers while the loop iterates over them; `now` read once per pass; the stop flag changes under the loop; `poll()` has 20 entries; the functions on sockets throw, as nothing registers `Socket` | the array behaves as a set of armed timers; none fires early, twice or after it was cleared; none starves; an exit is final | `EventLoop` |
| **C event loop** (`jni/src/c_eventloop.c`) | an array of timers, an array of `pollfd` that lives across rounds, the callbacks in the global stash | as the JavaScript loop | deletions during the expiry pass; entries marked deleted until a compaction; arrays with a fixed number of slots; a descriptor that is closed and given out again within a round | as above; callbacks and timers match; no event reaches a socket it was not reported of | `CEventLoop` |
| **Service runner** (`J/model/service/JavascriptStringRunnableService.java`) | the field `thread`, the configuration, the stop flag shared by all loops of the service | start, stop, configure, `isStarted` | requests interleave field access by field access; a stopped loop lingers and a later start revives it | requests do not fail; a started service is heard and has its configuration; the stop flag silences every loop | `ServiceRunner` |
| **Service registry** (`J/model/service/ServiceManager.java`, `J/api/handlers/services/*`) | a map from names to runnable services, beside the rows | POST, PUT, DELETE, start and stop of services; DELETE of a plugin | map and rows are updated in separate steps, and by different keys: the map by name, the writes of a runnable by the service it remembers; an addition that fails rolls back what others were answered | no runnable is found by two names; one that runs can be found and stopped; a request writes to its own row | `ServiceRegistry` |
| **Plugin and enabler registry** (`J/model/enabler/PluginManager.java`, `J/api/handlers/enablers/*`) | a map from enabler names to plugin objects, beside the rows | POST, PUT, DELETE of enablers; DELETE of a plugin | as above; a configuration replaces features, and the answer to a request creates plugin objects | an enabler has the features that its plugin offers | `EnablerRegistry` |
| **Features and feeds** (`J/database/IotHubDataAccess.java`, `J/api/handlers/feeds/*`) | the feature's flag and its atomic feed | switch a feature, add and delete feeds | two rows, a transaction and a statement outside of it | the flag is set exactly when the feed exists | `EnablerRegistry` |
| **Hub database** (`embedded/.../database/sqliteJdbc/IotHubDatabaseSqliteJDBCImpl.java`, `J/database/IotHubDataAccess.java`) | the file, the transaction and auto-commit mode of the one connection, the foreign-key mode | open, close, add, update, delete for plugins, services, enablers, features and feeds | all requests share the transaction; a statement may fail after others; the process may die between two calls | what was acknowledged is durable; a feed is whole or absent | `HubDatabase` |
| **TCP socket object** (`jni/src/tcpSocket.c`, `J/jsengine/TcpSocket.java`, `DuktapeJavascriptEngineWrapper.java`) | the object's status and settings; the wrapper's map of sockets and its counter of identifiers | connect, send, close | legal calls in an unexpected order; requests to one plugin share the map and the counter, unlocked | what is sent reaches the peer that was connected to | `ScriptSockets` |
| **Plugin upload** (`J/api/handlers/plugins/PluginPostRequestHandler.java`) | the files of plugins, named by a row count | POST of a plugin | the count is read long before the row is inserted | no two plugins share a file | none |
| **Socket server** (`J/utils/socketserver/MultiThreadedSocketServer.java`) | the run flag, the server socket, the acceptor | start, stop | a start that follows a stop | one acceptor at most | none |
| **API dispatch** (`J/api/handlers/basic/*`, `J/api/request/IotHubRequest.java`) | none that changes | handle | none | the first handler that answers wins | none |
| Application files, Web server, Administration pages, Start-up, Native plugins, HTTP requests of scripts, Data model, Duktape | little or none of their own | | | see [what is not modelled](#what-is-not-modelled) | none |

`PROJECT.json` lists, under `hazards`, what in this code a test hardly reaches,
each at its line, with the properties that cover it.

## The modules

| level | modules |
|---|---|
| operators on the timer array | `TimerList` |
| what the timer API promises | `TimerService` |
| the two loops that implement it | `EventLoop`, `CEventLoop` |
| one service: its thread, its loops | `ServiceRunner` |
| the hub: rows, maps and requests | `ServiceRegistry`, `EnablerRegistry` |
| the connection under the rows | `HubDatabase` |
| sockets of scripts | `ScriptSockets` |
| instances for TLC | `MCEventLoop`, `MCCEventLoop`, `MCServiceRunner`, `MCServiceRegistry`, `MCEnablerRegistry`, `MCHubDatabase`, `MCScriptSockets` |
| proofs | `TimerListProofs`, `EventLoopProofs`, `CEventLoopProofs`, `ScriptSocketsProofs`, `ServiceRegistryProofs`, `EnablerRegistryProofs`, `HubDatabaseProofs`, `ServiceRunnerProofs` |

The levels of the hub meet at named abstractions.  `ServiceRunner` takes a loop to be
what `EventLoop` says of it from outside: something with or without timers and readers left.
`ServiceRegistry` takes a runnable to run or not to run, and leaves the inside of start
and stop to `ServiceRunner`; it has the connection of `HubDatabase` below it, statement by
statement, with its transaction, its auto-commit mode and its file.  `EnablerRegistry` has the
file and the mode too, and takes a call on the database to be one step: with one request
at a time, nothing can come between its statements but a crash, and that undoes them.

### TimerList, TimerService, EventLoop

`TimerList` has the array operations: `InsertTimer` (the walk of `insertTimer`
from the end, ties going after the timers that are already there),
`RemoveTimer` (the search of `removeTimerById`) and `PopTimer`.  They are
plain definitions on sequences, so that they can be proved about.

`EventLoop` is the whole of `EventLoop.run`, `processTimers` and the API that
scripts call.  `pc` says where the loop's thread is; the two values in
`UserCode` are the places where a script runs: its loading and a timer callback.  There it
may call the API any number of times, in any order.

The sockets of this loop cannot be used.  `EventLoop.server`, `connect` and `write`, and the
round that `run` makes over the reported descriptors, call the native object `Socket`, but no
code calls `socket_register` (`jni/src/socket.c:279`): `loadEnvironment`
(`jni/src/jsDuktapeWrapper.c:181-231`) registers `Poll` alone.  So `server`, `connect` and `write`
throw a ReferenceError before they change anything (a call that throws is no action of
the module), and no listener or connect ever waits.  `setReader` does work, with any number;
the first report on a descriptor that has a reader throws out of `run`, through
`wrapped_compile_execute`, and the loop is over with its timers (`PollReportsReader`,
`crashed`).

| code | actions |
|---|---|
| `setTimeout`, `setInterval`, `clearTimeout`, `clearInterval` | `SetTimer`, `ClearTimer` |
| `requestEventLoopExit` | `RequestExit` |
| `EventLoop.setReader`, `close` | `SetReader`, `Close` |
| `wrapped_compile_execute` | `StartLoop` |
| `processTimers` | `BeginPass`, `ExpireTimer`, `TimerCallbackEnds`, `EndPass` |
| `run` | `LeaveLoop`, `BeginPoll`, `PollReportsReader`, `PollTimesOut` |
| `stopAllEvents` of the wrapper | `StopAllEvents` |
| the clock | `Tick` |

`reading` is the set of descriptors that have a reader.  `expiring` is empty or a singleton.

`TimerService` is what the timer API promises: a set of armed timers, of which
one that is due and not later than any other may fire.  It knows neither arrays
nor passes.  `EventLoop` instantiates it with the refinement mapping `Armed`
(the timers of the array, and the expiring interval unless its callback has
cleared it), and `ImplementsTimerService` states the implementation.  The
target of a rearmed interval is a choice of the specification, from `Lateness`
and a delay after the target it missed to a delay from now: the code counts from
the `now` of the pass, which may be stale.  That a clear takes effect is not visible to
the refinement (a clear that does nothing would map to a stutter), so the history variable
`cleared` records which armed timers were cleared, and `ClearIsFinal` says that they are
gone.

### CEventLoop

The same loop as `c_eventloop.c` has it, with the script part that the wrapper
carries for it (`fdPollHandler`, `server`, `connect`, `setReader`, `close`).  The code is
compiled but `eventloop_register` is called nowhere (the call at
`jni/src/jsDuktapeWrapper.c:210` is commented out), so it is the alternative the team
keeps, not what the hub runs.  (Its counters and its exit flag are statics of the process, which
`eventloop_register` would not reset; the module is about the first loop of a process, which
finds them at zero.)  It implements the same `TimerService`, with one
difference: a timer is due AT its target (`Lateness` 0), where the JavaScript loop waits
for the millisecond after it (`Lateness` 1).

| code | actions |
|---|---|
| `create_timer`, `delete_timer` | `CreateTimer`, `DeleteTimer` |
| `listen_fd` with `EventLoop.server`, `connect`, `setReader`, `close` | `Server`, `Connect`, `SetReader`, `Close`, on `ListenFd` |
| `expire_timers` | `BeginPass`, `ExpireTimer`, `TimerCallbackEnds`, `EndPass` |
| `eventloop_run`: compaction and `poll()` | `LeaveLoop`, `BeginPoll`, `PollReports`, `PollTimesOut`, `PollFails` |
| the loop over `poll_list` | `SkipSlot`, `CallHandler`, `EndRound` |
| `fdPollHandler` | `ReadData`, `ReadEnd`, `InputFails`, `Accept`, `NothingToRead`, `Connected`, `NothingToConnect`, `SocketCallbackReturns`, `SocketCallbackThrows`, `CloseForcibly`, `NoError` |

The poll list is a sequence of entries with a descriptor, the requested and the
reported events; the descriptor `Deleted` (0 in the code) marks an entry for the
compaction of the next round.  The handler runs with the descriptor it was called with,
which a callback of its own may close and open again meanwhile.  Both arrays have a limit,
`MaxTimers` and `MaxFds`: a timer without a slot throws into the script, an interval
without a slot throws out of the loop (`crashed`), a socket without a slot is open but never
polled (`refused`).

### ServiceRunner: start, stop, configure

One service under requests of several threads.  A client's `pc` is the next
field access of its request: `TestNull` and `TestAlive` are the two reads of the
field in `isStarted()`, `Resume`, `CreateThread`, `LaunchThread` the steps of
`start()`, `Cancel`, `Forget` those of `stop()`, `Verify`, `Store` those of
`configure()`; the write to the row that follows is in `ServiceRegistry`.  A Java thread that runs the script is a
`loop`; what `EventLoop` says of its inside is abstracted to what it has left to
wait for: a loop with timers or readers left does not end by itself, the stop flag
prevents the callbacks of timers (it is tested by `processTimers`, `BeginTimer`) and nothing
else, and a report on a reader ends the loop (`ReportReader`).

### ServiceRegistry: services and the map of runnables

`rows`, `plugins` and `lastId` are the tables as the connection sees them, `saved` the same in the
file, `autoCommit` the mode of the connection, `services` the map of `ServiceManager`,
`runnables` the objects it leads to.  A request is a record; a client walks through its
handler one call at a time (`pc`), with the handler's locals: the service it has read, the
runnable it has found or created, the configurations it has yet to pass on.

| code | actions |
|---|---|
| a request arrives | `Receive` |
| `addService` of a POST | `FindPlugin`, `Begin`, `Insert`, `ReadBack`, `Rollback`, `Commit`, `End` |
| `getService` of any handler | `Find` |
| `ServiceManager.getRunnableService`, `configureService` up to the put | `Get`, `Register` |
| `startStopRunnableService` | `Get`, `Toggle`, `PutBack` |
| `needConfiguration`, `configure`, `setConfiguration` of a runnable | `Ask`, `Configure`, `Verify`, `Save` |
| the last part of a PUT | `Update` |
| `ServiceDeleteRequestHandler` | `Delete`, then `StopRemoved` and `Remove` |
| `deleteServiceInfo` | `Begin`, `FindPlugin`, `DeletePlugin`, `Rollback`, `Commit`, `End` |
| `removeAllServicesForServiceInfo` | `RemoveAll` |
| a script that has nothing left to wait for; a restart | `LoopEnds`, `Restart` |

A runnable remembers the service it was created for and writes to the row of THAT service.
After a rename the map leads from the old name to a runnable that remembers the old
name, which is why map, rows and memory can disagree, and what the properties are about.

The transaction is shared.  `openDatabase` leaves auto-commit off, and so does the deletion of a
plugin that is not there; then an update or a deletion is answered, but not committed, until some
addition ends.  If that addition fails, because its name is taken, its `rollback()` takes the
answered changes back (`Rollback`), while the map and the runnables keep what they have.
`disturbed` records the services whose row changed that way, or that were renamed:
`ConfiguredAsStored` says nothing of them, and `OwnRowOnly` says that rows other than
the request's own change in this way only.  Requests to other parts of the hub use the
same connection; what they do to the rows of services, commit them or roll them back, a POST of
a service does as well.

### EnablerRegistry: enablers, features, feeds and plugin objects

The same structure for `PluginManager`, with two more tables: the features of an
enabler, which a configuration replaces, and their atomic feeds.  `Switch` and `Flag` are
`updateFeature`: a transaction, or a deletion, for the feed, and a statement for the flag.
`Statement` is a change that commits when auto-commit is on, `Transaction` one that
commits itself and all that was left uncommitted, `RollBack` an addition that fails.
`torn` and `spoiled` belong to the rows, so they go back to the file with them.

One request runs at a time.  With two, neither property holds: a failing addition of one request
rolls back the feed that another has inserted and not committed, whose commit then fails
silently and whose flag is set all the same (`addAtomicFeed`,
`IotHubDatabaseSqliteJDBCImpl.java:154-225`, and the rollback at 1280-1288); and the features of an
enabler can be deleted by two requests, of which one then misses some and fails
(`deleteFeaturesOfEnabler`, 1587), or shows features of an enabler that is gone.

The answer to a request shows the enabler with its
features, which asks the plugin of each feature (`Enabler.toJSON`, `Feature.toJSON`,
`getConfiguredPlugin`): `Show` sends the request through `Get`, `Register`, `Ask`,
`Configure` once more for each, and that has effects.  `Offers` is what the script of a
plugin answers under a configuration; a script may throw instead (`AddFails`).  The
request `use` stands for the reading of a feed's value and for the initialisation of a
plugin by `start()`.  `Restart` is a crash anywhere.

### HubDatabase: transactions on a shared connection

The file (`committed`), the tables as the connection sees them (`working`), its
auto-commit and foreign-key modes.  A step of a request is one call on the
connection.  Three tables stand for all: service plugins (`addServiceInfo`,
`deleteServiceInfo`), services with their foreign key (`updateService` included), and
feeds, which take several statements: the feed, then each of its keywords and fields or its
feature (`InsertPart`), any of which may violate a constraint.  `missing` counts those that are
still to be inserted.  `Open` has the effect of the `executeUpdate` that
opening ends with: auto-commit stays off, and the pragma is issued inside a transaction,
where SQLite ignores it.  `GoDown` is a crash, or a shutdown with requests under way.

### ScriptSockets: the TCPSocket object

Every request to a plugin evaluates its script in a heap of its own, so objects belong
to one thread; requests to one plugin share the Java wrapper, with its map `sockets` and
its counter `lastSocketId`.  `Call` is the entry of `connect` or `close`, `Get`, `Remove`,
`OnError` are the close of the wrapper and what the C code makes of its answer, `ConnectFails`,
`Choose`, `Put`, `Read`, `Store`, `Connected` the accesses of a connect: `lastSocketId++` is
a read and a store.  `Throw` is a call that ends in a TypeError.

### Instances and mutants

The `MC` modules extend their module with `TLC` and define the symmetry sets, and for
`EnablerRegistry` the value of `Offers` and the view.  The configurations give
the constants their values; no definition is replaced.

Definitions preceded by a comment `Mutant:` are faulty variants of the definition
that follows.  No specification uses them: each shows that a property can
fail, since TLC finds the property violated when the variant takes its place
(`mutants` in `PROJECT.json`).

## The runs

Each takes at most about three minutes with two workers.

| run | shows | bounds, and why they are enough |
|---|---|---|
| `EventLoopTimers` | type, `TimersSorted`, `IdsAreUnique`, `ClearIsFinal`, `ImplementsTimerService`, `ExitIsFinal`, `DueTimersFire`, `ExitEndsLoop` | 3 timers: an interval, a timer before it and one after it.  Delays 0 and 2 cover the raised minimum and a longer one, and a clock of 4 makes timers that callbacks add, and intervals they rearm, due again before it ends, so that they compete with the one they could starve; 2 expirys per pass, so that passes are cut short.  The stop flag flips at any time.  2 readers and a poll limit of 1.  No symmetry, because of the liveness. |
| `CEventLoopTimers` | type, `TimersSorted`, `CallbacksMatchTimers`, `ImplementsTimerService`, `DueTimersFire` | 3 timers for 2 slots, so that a creation and the requeueing of an interval meet a full list; 1 expiry per pass |
| `CEventLoopSockets` | `NoStaleEvents`, `ClosedIsNotDispatched`, `WaitingArePolled` | 2 sockets for 2 slots, in which deleted entries stay until a compaction, so that the list overflows; a descriptor is closed and given out again within a round |
| `ServiceSequential` | type, `RequestsSucceed`, `StartedIsHeard`, `StartedIsConfigured` | one request at a time, 3 threads, 2 configurations: two starts can leave two earlier loops behind |
| `ServiceConcurrent` | `FlagSilencesTimers` | two requests at a time, 2 threads: both ways of losing a thread occur (two starts that race, and a stop that races a start) |
| `ServiceStopped` | `AlreadyStopped` fails | one client |
| `Registry` | type, `RunningIsInMap`, `FoundByItsName` | two requests at a time, of which one is received during the other between two restarts; 2 services under 2 names, so that a name is taken, freed by a rename or a deletion and taken again; 1 configuration, 1 plugin, that is deleted; 2 runnables per start of the hub |
| `RegistrySequential` | `ConfiguredAsStored`, `OwnRowOnly` | one request at a time; 3 services under 2 names, so that an addition fails while another row has an uncommitted change; 2 configurations, so that what runs and what is stored can differ |
| `Enablers` | type, `FeaturesAreOffered` | a plugin that needs a configuration and one that does not; 2 enablers under 2 names, so that additions fail and an enabler meets the plugin object of another; a configuration that replaces one feature by two, 3 features; crashes anywhere.  No feature is switched (`Switched` is empty). |
| `EnablerFeeds` | `FlagMatchesFeed` | 2 enablers under one name, 4 features of 2 names, all of which can be switched; additions that fail with uncommitted changes of the flag or of the feed; crashes anywhere |
| `DatabaseSequential` | type, `AddedIsDurable`, `FeedsAreWhole`, `UpdatedIsDurable` | one request at a time, a crash anywhere; 2 names collide or not, 3 rows let a service be deleted and added again; a feed has up to 2 further rows, so that one fails, or the process dies, after another |
| `ScriptSockets` | type, `MessagesReachTheirPeer`, `TypeErrorsNeedAClose`, `SpentIsClosed` | 2 requests with 2 objects each, 4 connections: identifiers of one thread's sockets interleave with those of the other's |

Deadlock is checked in every run but those of the C loop, which ends when it has
nothing left to wait for.  `EventLoop` ends too (`done`, `crashed`), but there the stop flag
can still be flipped.

Symmetry: descriptors, clients, names and configurations are never compared but for
equality, and no run with a liveness property has a symmetry set.  In the run `Enablers`
the plugins, the configuration and the features differ, so they are not in it.

The view `Reachable` of `Enablers` and `EnablerFeeds` leaves out what no further step reads:
plugin objects that neither the map nor the request refers to, features and feeds of enablers that
are gone from the tables and from the file (identifiers are never given out again, and no request
under way holds them), and the histories of those rows.  The properties of the two runs say
nothing of what it leaves out: the type of the plugin objects that nothing refers to is that
of the objects they were.

### What the bounds on overlaps say

`ServiceRegistry` counts requests that are received during another (`overlaps`), and each
property names how many it withstands.  `FoundByItsName` has no such condition.
`RunningIsInMap` holds with one overlap and can fail with two; `ConfiguredAsStored` and
`OwnRowOnly` hold for a single user and fail with one.  The properties of `EnablerRegistry` are
for a single user altogether, and so are those of `HubDatabase`.  `RequestsSucceed` fails with
two clients, and `MessagesReachTheirPeer` and `SpentIsClosed` when two connects choose
their identifiers at a time (`raced`).  Nothing in the hub takes a lock: these are limits of the
code.  A property with such a condition says nothing of what happens beyond it.

## Fairness

- `EventLoop!FairSpec`, `CEventLoop!FairSpec`: weak fairness of `Loop` and of `Tick`.
  The loop's thread is scheduled and the clock advances.  That user code returns is part
  of `Loop`: a callback that never returns blocks the only thread of the script, and nothing
  can be promised.  Nothing obliges a script to call the API, nor another thread
  to set or clear the stop flag.  `DueTimersFire` therefore excuses a loop that is
  told to stop, and in `EventLoop` one with a reader, whose report ends `run`; it needs no
  assumption on how many timers callbacks add, since `maxExpirys` bounds a pass.
- `ServiceRunner!FairSpec`: weak fairness of every client's steps once it has a
  request, and of every loop's.  No client is obliged to send a request, nor `poll()` to report
  anything.  `FlagSilencesTimers` holds because a callback under way returns and no other begins
  while the flag is set.

The registries, the database and the sockets have safety properties only: a request there
ends because each of its calls returns, and nothing waits for anything.

## The proofs

Proved with TLAPS for every value of the constants that the modules' assumptions admit.

| module | theorem | property |
|---|---|---|
| `EventLoopProofs` | `TypeCorrect` | `TypeOK` |
| | `TimersStaySorted` | `TimersSorted` |
| | `IdsStayUnique` | `IdsAreUnique` |
| | `ClearingIsFinal` | `ClearIsFinal` |
| | `ExitStaysFinal` | `ExitIsFinal` |
| | `LoopImplementsTimerService` | `ImplementsTimerService` |
| `CEventLoopProofs` | `CLoopTypeInvariant` | `TypeOK` |
| | `CTimersStaySorted` | `TimersSorted` |
| | `CallbacksAlwaysMatch` | `CallbacksMatchTimers` |
| | `CLoopImplementsTimerService` | `ImplementsTimerService` |
| | `EventsAreFresh` | `NoStaleEvents` |
| | `ClosedSocketsAreNotDispatched` | `ClosedIsNotDispatched` |
| | `WaitingSocketsArePolled` | `WaitingArePolled` |
| `ScriptSocketsProofs` | `ScriptSocketsTypeInvariant` | `TypeOK` |
| | `TypeErrorsAlwaysNeedAClose` | `TypeErrorsNeedAClose` |
| | `MessagesAlwaysReachTheirPeer` | `MessagesReachTheirPeer` |
| | `SpentObjectsAreClosed` | `SpentIsClosed` |
| `ServiceRegistryProofs` | `RegistryTypeInvariant` | `TypeOK` |
| | `RunnablesAreFoundByTheirName` | `FoundByItsName` |
| | `RunningRunnablesAreInTheMap` | `RunningIsInMap` |
| | `ConfigurationsAreStored` | `ConfiguredAsStored` |
| | `RequestsKeepToTheirRow` | `OwnRowOnly` |
| `EnablerRegistryProofs` | `TypeInvariant` | `TypeOK` |
| | `FlagsMatchTheirFeeds` | `FlagMatchesFeed` |
| | `FeaturesAreAlwaysOffered` | `FeaturesAreOffered` |
| `HubDatabaseProofs` | `TypeInvariant` | `TypeOK` |
| | `AdditionsAreDurable` (one client) | `AddedIsDurable` |
| | `FeedsAreAddedWhole` (one client) | `FeedsAreWhole` |
| | `UpdatesAreDurable` (one client) | `UpdatedIsDurable` |
| `ServiceRunnerProofs` | `TypeInvariant` | `TypeOK` |
| | `RequestsNeverFail` (one client) | `RequestsSucceed` |
| | `StartedServicesAreHeard` (one client) | `StartedIsHeard` |
| | `StartedServicesAreConfigured` (one client) | `StartedIsConfigured` |

These are all the safety properties, the action properties and the refinements of the passing
runs.  Where a property holds for a limited number of overlapping requests only, that
limit is a condition inside the property (`overlaps`, `raced`) wherever the module counts them,
so that the theorem is about any number of clients; "one client" in the table is a
hypothesis of the theorem, `Alone`, where it does not.

`TimerListProofs` has the facts on the operators that both loops rest on: an insertion
yields a sequence that is one longer, has the old timers and the new one, and stays sorted
(`InsertTimerSorted`); a removal keeps the order, keeps ids distinct and removes
exactly that id (`RemoveTimerKeeps`); popping the last timer is the special case.
The crux is that the position found by the walk from the end is the LAST timer
that is not earlier, so that all the timers after it are strictly earlier.

**The JavaScript loop**, under `LoopAssumption` (all bounds are natural numbers, the
minimum delay and the number of expirys positive).  The inductive invariant is `IInv`: the
type, the order of the list, and the uniqueness of ids.  None of the parts is inductive
alone.  Order needs the type (targets must be integers to be compared, and `Rearmed`
must yield a timer).  Uniqueness needs that every id in use is below `nextTimerId` (so
that a new timer is fresh), and that the expiring timer's id is not on the list (so that its
reinsertion does not duplicate it), which in turn needs that the list's ids were
distinct before the pop.  `ExitStaysFinal` rests on an invariant of its own,
`PollInv`: no exit is pending while the loop polls, so a pass that follows a poll finds none but
those its own callbacks request.  `ClearingIsFinal` rests on `ClearedInv`: no cleared
id is armed, and all are below `nextTimerId`.  It is inductive given `IInv`: because ids are
unique, the search that stops at its first match has removed the only one.

**That it implements `TimerService`** needs one invariant more, `PassInv`: a timer is
outside the list only while its callback runs, one at a time, and the `now` that a pass has
read is not ahead of the clock.  `Armed` is rewritten as a union of sets (`ArmedAsSets`), after
which each action of the loop maps to one action of the service: a creation to `Arm`, a
clear to `Clear`, an expiry to `Fire`, the end of a callback to `Finish`, the clock to `Tick`,
everything else to a stutter.  Sortedness is what makes the expiring timer an earliest one,
and unique ids are what makes a removal the removal of one element of a set.

**The C loop**, under `CLoopAssumption`.  `IInv` adds two conjuncts: `CallbacksMatchTimers`
itself, and `ExpiringIsKnown`.  The latter is needed because `timer_expiring` is zeroed at the
end of a pass only; between the end of a callback and the next expiry it still holds a
timer that is back on the list or gone, and `delete_timer` looks at it first.  The invariant
says that what it holds is then on the list, or marked as removed, or nothing, so that
`Armed` never counts a timer twice or one that is gone.  The refinement goes as above, with
one case more: an interval that finds the list full stays armed in a loop that is over.

**Its poll list.**  `PollInv` is one invariant for the three properties about sockets.  No
descriptor has two entries (`Unique`), so that an update touches the one entry there is; the list
only grows while a round goes over it (`SlotsInList`), so the slots of the round are still
there; reported events lie between the current slot and the last one of the round, and nowhere
outside a round (`EventsAreOfRound`); the entries of closed descriptors have no
events (`Quiet`), also when the descriptor is given out again; `poll()` is called with a compact
list (`PolledIsCompact`); and every descriptor in a table has its entry, until the list has
overflowed (`WaitingAreListed`).  Most of the work is in the compaction: that what it leaves is a
subsequence, without duplicates and with the same live entries, is shown from the function
that gives each live entry its new place.  `Bounded` has the counters and the capacities; the
type of the whole state follows from it and the other two invariants.

**The sockets of scripts**, under `SocketsAssumption`.  `IInv` says which objects a thread's
call may be on: a close runs on a connected object, a connect on one without settings, and an
object that was closed or not connected again is `spent`.  Together with `TypeErrorsNeedAClose`
this is inductive, however the requests interleave: identifiers may collide, but settings
belong to one object of one thread.

*Identifiers.*  That they stay within their bounds is not obvious, because a connection is counted
when its socket is put into the map, and an identifier later, when `lastSocketId++` is stored.
`Debts` counts what the calls in between still owe: the counter, and every value of it that was
read and not stored yet, plus the number of those calls, is at most the number of connections.
This holds for any number of threads that lose each other's increments.

*Peers* (`PeerInv`).  As long as no two calls chose identifiers at a time (`~raced`), at most one
thread is choosing, and it has the identifier after the last (`OneChooses`); the
identifier that an object has a claim to, in its settings or on the way there (`Held`), is its
own alone, and the map has the object's connection there (`Peers`); and a close looks for
the identifier of the object it was called for (`ClosesItsOwn`).  That the connections in the map
are distinct is needed for the objects that hold nothing: their socket is not in
the map under any identifier, which is what `SpentIsClosed` says.

**The service registry**, under `RegistryAssumption`.  `IInv` says what a client's locals are
worth at each of its steps (`Knows`).  Its heart: a runnable that is about to be put into
the map remembers the name under which the client will put it there.  This survives the steps
of all other clients because no step changes the name that a runnable remembers
(`NamesKept`): `updateConfiguration` writes its own name back, and a rename writes the row but
not the runnable.  A rename that told the runnable, but not the map, would break the
theorem, as the mutant of `FoundByItsName` shows.

The other theorems add layers to it, each inductive given those before.

- `Fresh`: how many clients can be under way with `overlaps` at 0 or 1, that a runnable
  about to be registered is stopped and known to nobody else.
- `Transactions`.  `Filed`, for any number of clients: the file is up to date in auto-commit
  mode, identifiers are given upwards, and the rows that the file does not have are those of
  additions under way.  With at most one overlap, `Sound`: the tables are what the
  transaction of a client has made them, so that its row is there to be read back and a deleted
  plugin is gone; unless the other request has come in between, and then (`Spared`) that one is
  over but for its end, or only deletes a plugin.
- `MapInv`, for at most one overlap: a runnable that is started is the one in the map
  (`Known(c) = runnable(c)`), and one that is replaced in the map is not running.  A deletion
  gets to the map only when another request has deleted the row first, or has rolled its
  addition back; then that was the one overlap, and it is over.
- `Keyed`: identifiers and names are keys of the rows, in the tables and in the file.
- `SeqInv`, without overlaps: a runnable agrees with its row, but for the one whose
  configuration the client is about to save, and unless the row is `disturbed` (`Stored`); what
  the client's locals are worth then (`LocalInv`): its service is in the database, it configures
  the runnable that the map has, and a PUT configures it with the configuration of the request
  last; and `Given`: a rollback takes identifiers back, and gives them again, but no
  runnable remembers one of those.
- `Bounded`, for the type: the identifiers and runnables that the requests under way may still
  take are within the bounds.  It is what the guards of `Receive` are for.

`OwnRowOnly` follows from `LocalInv` for the statements of a request; for the rollback and the
restart there is nothing to prove but that they restore the file.

**The enabler registry**, under `EnablersAssumption`.  Most of its layers say the same thing twice:
of the tables as the connection sees them, and of the file, since a rollback or a crash puts the
file in the place of the tables.  The steps are therefore split into those that change
something and the two that go back (`Undoes`), and what holds of the file is known from the time when
it was written: in auto-commit mode it is what the tables are (`Committed`).

`IInv` says what the client's locals and the objects in use are, and that rows are of their type
on both sides (`Filed`).  `Keyed` has the keys of rows, features and objects, and that nothing
refers to what has yet to be numbered; the identifiers given last are not taken back, so that
this survives a rollback.  `Bounded` has what the request may still take from the
bounds.  Numbers of plugin objects that neither the map nor the client holds are used again, and
one is free whenever an object is created, since there are more numbers than names and client.

`FlagMatchesFeed` rests on `FlagInv`: when the flag is to be written the feed is as wanted; the
file has no mismatch either, as far as a rollback may bring it back; and in auto-commit mode
everything is committed.  The last is what a crash needs: if the file is behind, then it is behind
by both changes or by the flag only, and in that case the client is at `flag` and the
crash records the feature (`CutOff`).

`FeaturesAreOffered` rests on what plugin objects remember.  `Remembered`: an object has the name
under which the map or the client has it, and the script of the row whose identifier it
remembers, be that row in the tables or come back from the file (`AllRows`); a row keeps its plugin
on both sides (`Agreeing`), and identifiers are not given twice.  `SeqInv`: every enabler is
`Sound` (its features are those of its plugin under the stored configuration, or none) or is the
one whose features the client is replacing, or has replaced while the configuration is
yet to be written (`Reworks`); what the file has, when it differs, is sound as well
(`FileSound`).  `LocalInv` follows the client through `get`, `configure`, `save`, `deleteFeatures`,
`add`, `update`.  Two facts are needed that a test would hardly show.  A save writes the row that
the OBJECT remembers, not the one of the request, and only if the name still matches, so it may
change a row only as far as that is the request's own (`Holds`, `Plain`).  And a PUT that has put
another configuration into an object always goes on to replace the features, so no saved
configuration is left without its features, in the tables or, if auto-commit is on, in the file
(`Unfinished`).

**The database**, under `DatabaseAssumption`.  The type holds for any number of clients
(`TypedInv`): an addition is received only when a key is left for it, the requests that
may still take one are counted (`Owed`), and a rollback by any of them takes the key counter
back, but never below that of the file.

The other three theorems are about one client at a time (`Alone`): the rollback of one request
undoes what others have inserted and answered, so with two clients none of them holds.  `Safe`
has four parts.  `Sound`: outside a transaction the connection sees what is in the file, and
keys are not given twice.  `Whole`: the one row that is not whole is that of a feed whose
further rows are being inserted, or one of which has failed and whose rollback is to come; it is not
in the file, since auto-commit is off from before its insertion until after its end.  `Kept`: what was answered as added, or will be unless the request
fails, is in the tables as the connection sees them and, once answered, in the file.
`Renewals`: the same for updates.  The work is in the crash, which replaces the tables by the file
and ends the request, and in the opening that leaves the connection inside a transaction.

**The service runner**, under `RunnerAssumption`.  Types hold for any number of clients; the labels
of a request are those of its own code (`Labels`).  The other three theorems are about one client at a time and any number of threads: with two clients
`RequestsSucceed` fails, as two starts can launch the same thread.  `Safe` says what a request
may rely on because an earlier access of its own has seen it (`Remembered`: a thread that is about
to be launched is the one in the field and has not run; a configuration is changed only while
there is no thread); that a live loop in the field is silenced only by a stop that is about to
forget it (`Heard`); and that a running loop in the field has the current configuration
(`Configured`).  The loops meanwhile begin
callbacks and end as they like; the earlier ones, forgotten but alive, are why the
conditions are about the loop that the field refers to.

Only model-checked: the liveness properties (`DueTimersFire`, `ExitEndsLoop`,
`FlagSilencesTimers`), which need fairness and `ENABLED` and are beyond the prover; and the
run that finds a counterexample.

No induction over data is proved; the modules use no recursive operators.

## Divergences found

A run whose property, quoted from a message of the repository, TLC finds violated by what the
code does: `ServiceStopped`.  The hub answers that a service is already stopped while an earlier
loop, revived by the flag that a later start cleared, calls timers back.

The following were met while modelling.  The modules do what the code does there; no run is
spent on them, because no comment or test says otherwise, or because a passing run's
condition states the limit already.

*JavaScript event loop*
- Scripts cannot use the sockets that the loop offers them, as `Socket` is registered nowhere, and
  a `setReader` ends the loop at the first report (see [above](#timerlist-timerservice-eventloop)).
- The round over the poll set does not look at `exitRequested`, in spite of "don't call any more
  callbacks" (`ecma_eventloop.js:143-145`); with the sockets out of use, no callback is left for it
  to call.
- Beyond 20 readers `poll_poll` fails at once, and the loop goes round without waiting.

*C event loop*
- When a round reports data and an error, and the callback of the data closes its own
  socket and opens another that is given the same number, the handler goes on to close the
  new one.
- A second close of a descriptor appends an entry without events to the poll list; a
  `setReader` before the connection is up forgets the callback of the connect; an interval
  that finds the list full throws out of the loop; `deleteTimer(0)` answers true.

*Service registry*
- `deleteService` answers null exactly when it has deleted the row (the test of
  `IotHubDatabaseSqliteJDBCImpl.java:1714` is inverted), so the DELETE of a running service
  neither stops it nor takes it out of the map.  `RunningIsInMap` therefore does not speak of
  rows.
- After the deletion of a plugin, `removeAllServicesForServiceInfo` looks for services through
  rows that can no longer be read, and removes nothing.
- A rename leaves the runnable under the old name (`updateRunnableService` is called from the
  unregistered administration pages only).
- After a restart the map is empty, and the start of a service is answered with "already
  started" (`ServiceGetRequestHandler.java:93`) until a PUT carries a configuration.
- A POST whose configuration makes the script throw leaves that configuration in the row.
- A POST that fails takes back what other requests were answered before it and was not
  committed: an update, a rename, a deletion (`disturbed`).  A service whose configuration is taken
  back that way runs on with the one it was given.

*Enablers*
- The answer to the DELETE of an enabler creates the plugin object of its name anew
  (`EnablerDeleteRequestHandler.java:70-71`), so that the next enabler of that name gets the
  script of the old plugin.  `FeaturesAreOffered` excepts such an enabler as `spoiled`.
- With two requests at a time, the flag of a feature may be set without a feed, see
  [above](#enablerregistry-enablers-features-feeds-and-plugin-objects).
- An enabler whose plugin was deleted can no longer be read by name: it can never be deleted,
  and its name stays taken.  `start()` then meets a null pointer at it and leaves the remaining
  plugins uninitialised.
- A crash between the feed and the flag leaves a feature that can be switched neither on nor
  off, until a configuration replaces it (`torn`).

*Database*
- With requests at a time, the rollback of one undoes the insertions of others, on the shared connection;
  `DatabaseSequential` has one client for that reason.
- An update that is answered before the transaction that opening began has ended is lost in
  a crash, and in a rollback; `UpdatedIsDurable` is about auto-commit mode for that reason.
- Foreign keys are never enforced, in spite of `ON DELETE CASCADE`: deleting a plugin leaves its
  services and enablers.

*Sockets of scripts*
- The identifier of a connect is documented as unique (`tcpSocket.c:23`); two requests to one
  plugin can be given the same one (`raced`).
- After a close the object stays `CONNECTED` without settings, and every later call on it
  throws a TypeError.
- Sockets that a script has not closed outlive its heap.

## Assumptions and abstractions

- Java fields are sequentially consistent.  They are neither volatile nor
  guarded, so the memory model allows more; an outcome that the models exclude may
  still happen.
- A script's calls, the network, the clock and the clients are unconstrained within
  the bounds named in the modules.
- `poll()` may report any descriptor that has a reader of the JavaScript loop; nothing else is ever
  polled there.  In the C loop it reports, for a descriptor, what was asked for it, with an error or
  without; on one that is closed, an error.  The C loop goes through its array from front to
  back.
- A server or connect that fails before it is registered only leaks a descriptor
  in the C loop, and is left out there.
- Scripts accept a configuration, reject it or throw, as they like.  What a plugin
  offers depends on its script and its configuration only.
- The atomic feed of a feature is named `atomicFeature<id>`.  Feeds that somebody adds by hand
  under such a name, which would make the addition of the atomic feed fail, are not modelled.
- Tables of the database are reduced to what the properties tell apart: a key, a name, a
  configuration, a foreign key, and how many of a feed's further rows are missing.
- Debug output is off and formatting is left out.
- Bounds (`MaxId`, `Horizon`, `MaxThreads`, `MaxServices`, `MaxRunnables`, `MaxOverlaps`,
  `MaxEnablers`, `MaxFeatures`, `MaxOffered`, `MaxConnections`) stand in guards and are marked
  "bound" where they are declared.
- The proofs assume of the constants what the modules' ASSUMEs say: that bounds are natural
  numbers (some of them positive), that there are finitely many clients, threads of scripts, their
  socket objects and enabler names, so that what is under way can be counted, and that the values which
  stand for "none" are not values of the other kind.

## What is not modelled

| part | why |
|---|---|
| Duktape (`jni/src/duktape.c`, `duktape.h`) | third-party.  It is 77131 of the 79184 lines of C in the repository, so the share of C lines that the modules stand for is small whatever they model; most of what they model is Java and JavaScript. |
| Web server | third-party (NanoHTTPD); its thread per request is what the models take as clients |
| API dispatch | a sequential choice of the handler by the URI, without state that changes |
| Application files, HTTP requests of scripts | I/O without state of their own |
| Administration pages | registered nowhere: the server dispatches to the API handlers only |
| Start-up and configuration | reads a file and wires the singletons, once |
| Native plugins | class loading and reflection around foreign code |
| Plugin upload | file I/O and a check of the script; the plugins that the registries start from are its result.  The file name comes from a row count that may be stale, see the hazards. |
| Socket server | nothing in the hub uses it, only the tests, to have a peer |
| Data model and JSON | immutable values and their formatting; the one place where showing a value changes state, the JSON of an enabler, is in `EnablerRegistry` |
| Composed and executable feeds | no state beside their rows |

## The plan

Done: all the modules named above, with their runs and theorems.

Next, proofs: what survives of the promises of `HubDatabase` when requests overlap, once it is
stated (the first item below); and that a runnable of `ServiceRegistry`, which runs or does not
run, is implemented by the thread and the loops of `ServiceRunner`.

Next, models:

1. `HubDatabase` with several clients and what survives of its promises: which requests a
   rollback may undo.
2. `PluginFiles`: file names from row counts.
3. The composition of `ServiceRegistry` with `ServiceRunner`.
