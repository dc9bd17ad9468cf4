# TLA+ models of the GNSS HAL of this device tree

This directory holds TLA+ specifications of the stateful parts of the
Qualcomm GNSS HAL under `src/gps`, TLC configurations that check them on small
instances, and proofs that TLAPS checks. The rest of the repository (overlays,
sepolicy, init scripts, build files) is data; the two other programs in it, the
lights HAL (`src/interfaces/light`) and the doze application (`src/parts`), are
listed in the inventory.

    tlc -workers 2 -config TrackingEager.cfg MCGnssTracking
    tlc -workers 2 -config Adapters.cfg MCAdapters
    tlapm AgpsProofs.tla

and likewise for the other modules named `...Proofs`.

`PROJECT.json` maps every definition to the lines it stands for, lists the runs,
one mutant of the code for each property, the hazards, the findings and the
theorems.

## 1. Inventory

### Threads and queues

    client (binder) threads --> LocationAPI (gDataMutex) --> xxxCommand()
                                                                | sendMsg
                                                                v
      callbacks <-- handlers (LocMsg::proc) of ONE thread: MsgTask of LocContext
                                  |                             ^
                       LocApi requests                          | LocApiResponse
                                  v                             |
                   LocApiBase / modem implementation, own LocApiMsgTask thread

* A `LocContext` has one `MsgTask`: a thread that takes messages from a FIFO
  (`msg_q.c`) and runs `proc()` of each to completion. Every adapter (GNSS,
  batching, geofence) posts its work there, so handlers do not interleave. What
  interleaves is everything *between* handlers: commands of several clients,
  responses of the modem, engine up and down, calls of the framework.
* A handler that needs the modem hands `LocApi` a `LocApiResponse` with a lambda.
  `returnToSender` posts it back, so the second half of an operation runs later,
  against whatever the session maps hold by then.
* `LocApiBase` opens and reopens the modem in messages of its own thread
  (`LocOpenMsg`, `LocSsrMsg`) and reports engine up to each adapter, which posts
  a message for it.

### Components

| component | state | operations | what makes it correct |
|---|---|---|---|
| GNSS adapter, tracking (`GnssAdapter.cpp` 2172-3091, 5495-5551) | `mClientData`, `mTimeBasedTrackingSessions`, `mDistanceBasedTrackingSessions`, `mPendingMsgs`, `mPowerOn`, `mIsEngineCapabilitiesKnown` | add and remove client, start, update, stop, engine up, robust location configuration, seven kinds of response | one answer per command; the one engine session serves all; power state is true; no session without owner |
| AGPS (`Agps.cpp`, `GnssAdapter.cpp` 4493-4728) | per network interface: state, subscribers, type, APN | request and release of the modem; open, closed, failed of the framework | nobody waits for ever; no connection that is believed in and gone; no handle kept subscribed that the modem has done with |
| Network initiated requests | `mNiData`: two sessions with a lock, a condition and a thread per request | notify, respond, time out | each request is answered once, with the answer that is its own |
| ODCPI | `mOdcpiRequestActive`, the saved request, a timer | start, stop, emergency, expiry, callbacks with priorities | an active request is repeated until it is stopped |
| Configuration | `mLocConfigInfo`, `mGnssSvIdConfig`, the power vote, GPS lock and AFW control | enable, disable, update, NFW, constellations, integrator's modes, engine up | the modem ends with what was asked for, over restarts |
| XTRA observer | connections, TAC, MCC/MNC, lock, `mReqStatusReceived` | updates, handshake, delayed start | the daemon knows what the HAL knows |
| Reports, NMEA | satellites of the last fix, leap second, sentences | position, satellites, system information | what is marked used was used; sentences are complete; time goes forward |
| LocApiBase, LocAdapterBase, ContextBase, LocContext | table of adapters, event mask | add, remove adapter, update event mask, open, close, dispatch | mask is the union of the adapters'; every live adapter hears engine up |
| Batching adapter | sessions, trip sessions, pending messages, batch full mask | start, update, stop, trips, engine up | as tracking; what runs has its full batch reported |
| Geofence adapter | geofences by (client, id) and by hardware id | add, remove, pause, resume, modify, breach, engine up | both maps and the modem agree; restart re-creates all |
| LocationAPI | `gData`: client data, destroy data | createInstance, updateCallbacks, destroy, completion per adapter | the instance is deleted once, after all adapters have let go |
| LocationAPIClientBase | request queues, session and fence dictionaries | request and response per command | a response is matched to its request; nothing runs that cannot be stopped |
| HIDL services and API clients (`android/2.0`) | callbacks per interface version, sessions, pending configuration, cached capabilities | set callback, start, stop, cleanup, measurement, batch and fence calls, service died | a framework that died leaves nothing running; the next one is served |
| MsgTask, msg_q, linked_list, LocThread | list, `unblocked`, reference count | send, receive, unblock, destroy, start, stop | no lost wake-up, nothing freed twice |
| LocTimer, LocHeap | heap of deadlines per container | start, stop, expire | stopped or called, once; earliest first |
| SystemStatus, SystemStatusOsObserver | caches, network table, subscriptions of data items, modules and backhaul | sentences, items, subscribe, update, unsubscribe, turn on, connect | every subscriber hears of its items; the latest report is the latest |
| loc_cfg, LocIpc, LogBuffer | - | parsing, sockets, a ring of log lines | - |
| GNSS adapter: aiding data, power state, dead reckoning | - | a call handed to the modem and its answer reported | - |
| Battery listener, lights HAL, doze application, device configuration | -; LED states; sensors; none | - | - |

### What is hard here

Continuations run against changed state (a session stopped, updated, or its
client destroyed, while its request was in flight). The modem restarts between a
request and its response; so do the XTRA daemon and the framework, which are
processes of their own. Commands that wait in `mPendingMsgs` are overtaken. Answers are
matched to requests by kind and order. Some paths set an error and answer nobody.
One engine session, one trip, one event mask stand for many. A few objects are shared
by threads without a lock. `PROJECT.json` "hazards" has all of these at their lines, with
the properties that watch over them.

## 2. Modules

| modules | of | composed by | run |
|---|---|---|---|
| GnssTracking, GnssTrackingProofs | tracking sessions | MCGnssTracking | Tracking* |
| Agps, AgpsProofs | AGPS state machines | MCExchange, MCAgps | Exchange, AgpsRestart |
| LocThread, MsgTask (extends it), LinkedList (refines Fifo), LocHeap (refines PriorityBag), LocTimer; TaskProofs, UtilProofs | utilities | MCInfra | Infra |
| LocationAPI, LocationAPIProofs, NiRequests | what must end | MCLive | Live, NiAnswer |
| ClientSessions, ClientFences, ControlClient, BiDict (proofs: ClientProofs) | LocationAPIClientBase | MCClient (part of MCExchange), MCAdapters | Exchange, ClientOverlap, Adapters |
| Geofence, LocApiBase, Odcpi, GnssConfig; ModemProofs | adapters and what is under them | MCAdapters | Adapters |
| OsObserver, SystemStatus, XtraObserver; ObserverProofs | system status and its observers | MCAdapters | Adapters |
| GnssService; ClientProofs (of it, Reports and ClientSessions) | HIDL service and API clients | MCAdapters | Adapters |
| Batching (proofs: ModemProofs), Reports (ClientProofs), Nmea | what the modem gathers for clients | MCExchange | Exchange |

`Pointers.tla` only declares `Null`. The map of `PROJECT.json` gives the lines of every
definition; mutants ("A mutant: ...") are defined beside what they change.

MCInfra, MCLive, MCClient, MCAdapters and MCExchange put components together in one
run with a variable `part` that the initial state sets and no step changes: a
behaviour takes the steps of one part. This is sound where the parts share no
variable, as then no invariant of one depends on the steps of another. Client
sessions and client fences share `mLocationAPI`, and both parts contain its steps;
the observer's items and its framework actions share only the queue of its thread; the
three parts of the HIDL service share its state, and call disjoint sets of interfaces.

### GnssTracking.tla (with MCGnssTracking.tla)

The whole life of a tracking session. One action per handler, and per branch of a
handler where it has several; a lambda is a *continuation* record `cont` in the
request, and comes back in the `resp` message.

| model | code |
|---|---|
| `msgs` | queue of the adapter's MsgTask (FIFO) |
| `api`, `engine` | LocApi and the modem: requests taken in order, each executed or rejected; `engine.tb` is the one time based session, `engine.db` the distance sessions |
| `time`, `dist` | the two session maps; `None` means not in the map |
| `pending` | `mPendingMsgs` |
| `powerOn` | `mPowerOn`, written by every save and erase through `reportPowerStateIfChanged` |
| an element of `Ids` | a key (client, session id); its number is its place in the order of the maps |
| `life`, `issued`, `answers` | what clients did and heard: auxiliary, for the properties |
| `startTimeBasedTrackingMultiplex`, `updateTrackingMultiplex`, `stopTimeBasedTrackingMultiplex` | the functions of those names; the value is the sequence of requests they send, and the empty sequence is `reportToClientWithNoWait = true` |
| `restartSessions` | `restartSessions(modemSSR)` |
| `ProcRemoveClientTime`, `ProcRemoveClient` | the loops of `stopClientSessions`, one step per time based session, with the message still at the head |

Abstractions. TrackingOptions are the five fields the control looks at (`longTbm`
is the comparison of tbm with its threshold, `distance` is `minDistance > 0`).
Handlers are atomic: they all run in one thread and share nothing with others
but the queues. The modem is external: requests are served in the order they
are sent, and a modem that is down rejects. The reopening after a crash is taken
to succeed. Not modelled: the engine hub, SPE at N Hz (an automotive build
feature), the contents of responses (only that one is made), and position reports.

### Agps.tla (with MCExchange.tla and MCAgps.tla)

The state machines of the two network interfaces.

| model | code |
|---|---|
| `queue` | the adapter's message queue (init, request, release, opened, failed, closed) |
| `state`, `subs`, `agpsType` | `mState`, `mSubscriberList`, `mAgpsType` of `mAgnssNif` and `mInternetNif` |
| `created` | which of the two exist: `createAgpsStateMachines` makes those the callback types ask for, and runs as a message |
| `fw`, `conn` | the framework (external): what it has been asked and has not served; whether it holds the connection |
| `modem` | the modem's view of its handles (external) |

`FrameworkOpensBadApn` is `dataConnOpenCommand` with an APN it refuses: it runs
`reportAtlClosed` in the caller's thread and posts nothing. It is one atomic step
here; the race with the message thread is not modelled. `addSubscriber` adds no
handle twice, so subscribers are a set. `requestATL` is the only maker of subscribers,
always with `mWaitForCloseComplete = mIsInactive = false`; hence no subscriber is ever
inactive and RELEASING is never entered. `TypeOK`
says so, and it is proved.

`FreedRead`: `deleteSubscriber` is called with an element of the very list it
walks, frees it when it comes to it, and goes on comparing with the freed
object. What the read finds is undefined; `FreedRead` is the set of handles it may
find, and other subscribers with such a handle may be deleted, too. The run uses
`{}` (the memory still holds the old handle, which no other element has); the
proofs, all but that of `OpenHandlesBacked`, hold for every value.

### Infrastructure: LocThread, MsgTask, LinkedList, Fifo, LocHeap, PriorityBag, LocTimer

| model | code |
|---|---|
| `owner`, `worker` (LocThread) | where the client of a `LocThread` and the thread it spawned are; each read or write of the delegate's `mRunnable`, `mJoinable`, `mThandle`, `mRefCount` is a step |
| `refCount`, `runnable` | `mRefCount`, at zero the delegate is deleted; the runnable object |
| MsgTask's receive | `msg_q_rcv`: lock, test, wait, woken; the signal of `msg_q_snd` and the broadcast of `msg_q_unblock` are steps of others |
| cells and links (LinkedList) | `list_element`, its `next` and `prev`, `p_head` and `p_tail`: every statement that moves a link |
| `mTree` (LocHeap) | the `LocHeapNode`s with `mData` and `mSize`; nodes never move, so one is the way to it from the top (`mLeft`, `mRight`). The nested calls of push, pop and remove go along the way to one node, the new one or the one that goes: `PushEnds` and `PopEnds` say which, `CarriedDown` and `PulledUp` what the swaps on the way do to the data, and `Found` what the pruned search of `remove` finds, in which the data differ, so that left before right makes no difference |
| containers, delegates (LocTimer) | `LocTimerContainer` with its heap, its timerfd and the thread that polls it, `LocTimerDelegate`s, `LocTimer::start` and `stop` under the timer's lock |

**Abstract specifications.** `Fifo` is a queue of data with what the last call handed out;
`LinkedList!Queue == INSTANCE Fifo WITH ...` maps the chain of cells, read from `p_tail`, to it.
`PriorityBag` is a set of rankables from which `pop` takes one that nothing outranks;
`LocHeap!Bag == INSTANCE PriorityBag WITH ...` maps the data of the tree to it. The runs check
`Queue!Spec` and `Bag!Spec` as properties, so every step of the pointers is a step of the
abstraction or none. MsgTask takes its queue to be a sequence and LocTimer its heap to be a set
with an order of due times, which these two refinements justify.

Left out: failing allocations, the second kind of container (timers and alarms are
alike), and scheduling priorities.

### LocationAPI, NiRequests

LocationAPI keeps instances, the adapters each was added to, the destroy data and the
bits still missing in its mask; each adapter's message is a step, and so is what its
thread does after it lets go of `gDataMutex`. NiRequests has the two sessions, a thread for each
request and the adapter's messages; the adapter's test of `pSession->rawRequest`
and its write of the answer under the lock are two steps, as in the code.

### Client side: ClientSessions, ClientFences, ControlClient, BiDict

`requests` are the `RequestQueue`s (`found` is the request a response was handed to, with
the one its command belongs to, which is auxiliary); `BiDict` is the dictionary, whose `set` may
leave the old pair. The adapter behind them is what its own models make of it: it takes
commands in order and answers each once; fences' answers come when the engine answers, in any
order. `addedAs` and `breached` (auxiliary) are the id each fence was added under and what the client was
told of breaches. `Careful` says that callers wait for the answers about sessions by id and fences
before they call again. The callers in this repository do not (`GnssAPIClient`, `BatchingAPIClient` and
`GeofenceAPIClient` call as the framework does), so MCClient has `Careful = FALSE`; only `NoOrphan`, in
Adapters, is claimed for callers that wait.

LocationAPI.h promises that the ids match every response with its command. That promise, `AnswersMatch` and
`FenceAnswersMatch`, is what the code breaks, in three ways (the run ClientOverlap, and section 4); what holds of it without any hypothesis on callers or numbers is
`TrackingAnswersMatch` and `ControlAnswersMatch`, and of the fences `BreachesNamed`.

### Adapters: Geofence, Batching, LocApiBase, Odcpi, GnssConfig, XtraObserver

Each has the adapter's messages as a queue, requests the modem has not served as another,
and the modem (external): it serves in order, refuses what it does not know, and, in
Geofence and Batching, crashes, which fails what was outstanding and is followed by an
engine up message. In GnssConfig the LocApi thread is an actor of its own, because `setConfig`
and the configuration calls share `mLocConfigInfo` with the adapter's thread without a lock. In
XtraObserver the daemon and the HAL restart, and a datagram to a daemon that is not there
is lost. In LocApiBase the messages are LocOpenMsg, LocSsrMsg and LocCloseMsg with the mask each
captured; an event is delivered adapter by adapter, to all or to the first that takes it.

### OsObserver, SystemStatus

OsObserver has the two maps of `LocUnorderedSetMap`, the cache and its values, messages
of its one thread, and the counters of modules and of the backhaul, which callers change in
their own threads. SystemStatus keeps, for each item, the last `maxItem` reports;
a report equal to the latest is dropped. `Lengths` are the lengths of a sentence its parser
tells apart; `Parsed` is what it makes of one that is too short: zeros for PQWM1, for the others
what was on the stack. The table of networks is modelled with its holes.

### Reports, Nmea

Fixes, satellites and system information go from the modem's or the engine hub's
thread through a message to the clients whose callbacks ask for them. A sentence is a record of
what the fields say: talker, counts, satellites, mode, time. Coordinates, datum
conversion and checksums are left out.

### GnssService

| model | code |
|---|---|
| `framework` | the system server, a process that dies and restarts: its generation, what it opened. A callback is known by the generation it belongs to |
| `work` | calls and death notices for the one binder thread (`service.cpp`: `configureRpcThreadpool(1, true)`), in order |
| `links` | `linkToDeath` of the callbacks; linking to a dead one brings its notice at once |
| `gnss`, `gnssClient` | `Gnss` (callbacks of 1.0, 1.1, 2.0, `mApi`, `mPendingConfig`) and `GnssAPIClient` with its session |
| `capabilitiesOf` | the cached mask and each thread's way through `onCapabilitiesCb`, which the adapter's thread and `requestCapabilities` both run |
| `measurement`, `batchService`, `fenceService` | the three extensions and their clients |
| `connectedBy` | network state kept in the system status until `resetNetworkInfo` |

Assumed: a framework opens an interface before it uses it (network state, too); the notices of one death
commute, as they touch different interfaces; with `SlowStart` a new framework starts after the
calls of the dead one are served. Not modelled: AGnss, NI and visibility callbacks, debug data, measurement
corrections, conversions of values. In this build `gnssStatusCb` is never registered.

### The modules named ...Proofs

The theorems about the components they extend, see section 5.

## 3. Runs

`CHECK_DEADLOCK FALSE` everywhere: the inputs are bounded, so every run ends in
states with no more to do. No symmetry is used: keys are ordered by the maps, sessions and
fences are numbered, and the sets of model values are of two or three.

| run | asks | bounds |
|---|---|---|
| TrackingEager | is a command answered twice? does the engine serve every time based session, across a crash? | one client, three sessions, four commands posted without waiting, one crash |
| TrackingPatient | is everyone answered? is the power state the truth? does every session have an owner? | two clients of one session each, four commands, one rejected request, one crash, clients wait for each answer |
| TrackingLive | is every command answered in the end? | one client, two sessions, three commands, one crash, one configuration change; weak fairness |
| TrackingPower (violation) | does the engine run in the strongest mode asked for? | three sessions, no crash |
| TrackingDestroy (violation) | does a destroyed client end its sessions, if it does not wait? | one client, two sessions, three commands |
| AgpsRestart (violation) | does a modem restart drop its subscribers? | as the part agps of Exchange, without bad APN and loss |
| Infra | do list and heap implement queue and bag? are messages handled in order until the task is destroyed, is the thread's delegate deleted once, is each timer stopped or called once? | three cells, four data; five items with equal ranks; two messages and the one that destroys the task from within; two timers, three starts, two delays |
| Live | is an instance deleted once and last? does every network request end? | two instances over two adapters (addresses used again), one message outstanding; two requests, two sessions |
| NiAnswer (violation) | is the answer to a request its own? | as Live |
| ClientOverlap (violation) | does a response match its command, about sessions by id? | as the parts of Exchange, three unserved commands, no shared number |
| Adapters | do clients, adapters, observers and the service keep what they promise? | per part, below |
| Exchange | is what is reported true, complete and in order? do batches report when full? do the AGPS machines, the framework and the modem agree? do answers reach those who asked, if they do not wait? | per part, below |

The parts of Exchange:

| part | properties | bounds |
|---|---|---|
| reports | `UsedTrue`, `GsvComplete`, `ClockForward` | three clients, five fixes, four satellite reports, a leap second, one message |
| batch, batches | `FullReported` | three batching sessions, one of which the modem refuses, one crash; two commands under way for two of them, or one for any of three |
| agps | `PendingAnswered`, `AcquiredBacked`, `OpenBacked`, `SubscribersInUse` | two handles, both interfaces, three requests, one restart, one bad APN, one lost connection |
| sessions | `TrackingAnswersMatch` | one id, three session numbers, two unserved commands; a network request that shares a number with a session and one that does not; nobody waits |
| fences | `BreachesNamed` | two ids, two fences, a call under way |
| control | `ControlAnswersMatch` | two configurations, five calls |

The parts of Adapters and the property each is about:

| part | property | bounds |
|---|---|---|
| client | `NoOrphan` | one id, three session numbers, three unserved commands, a network request numbered apart |
| fence, fences | `ModemAgrees` | two hardware numbers, a crash, refusals; two commands under way about one fence, or one about either of two |
| registry | `MaskSettles` | three adapters for a table of two, two events of which one is excluded, one restart |
| odcpi | `OdcpiTimed` | three messages |
| config | `LockAgrees`, `ModeKept` | both kinds of the lock, two configurations, two engine ups |
| observer, actions | `ObserverServes` | two clients, two items with one change; three requests for modules and backhaul |
| status, shortStatus | `LatestReported` | a long sentence of each of its lengths, a short one, one item of the system, two values, two entries kept |
| xtra | `XtraInformed` | three fields, two datagrams, one restart |
| service, configuring, extensions | `FrameworkServed` | two frameworks, four calls, every interface version, one report of capabilities |

What the properties say is at each of them; in short: `SubscribersInUse`, no machine keeps subscribed a handle the modem has given back or was
told the end of (it says nothing of connections: section 4 has those); `TrackingAnswersMatch` and
`ControlAnswersMatch`, a response of tracking, of a network request whose number no session has, and of the
control client is handed to the request whose command it answers; `BreachesNamed`, a breach is told under the id its
fence was added under; `NoOrphan`, no session runs that the client cannot stop;
`ModemAgrees`, the adapter knows every fence of the modem by number and key;
`MaskSettles`, the connection delivers what the adapters still there register for;
`OdcpiTimed`, an active request has a timer or an expiry under way; `LockAgrees` and
`ModeKept`, the modem ends with the lock and mode that were asked for; `ObserverServes`, every subscriber
was told the latest value and modules are on while needed; `LatestReported`, the latest entry is
what was said last; `XtraInformed`, an informed daemon knows what the HAL knows;
`FrameworkServed`, a dead framework leaves nothing running and the next is served; `UsedTrue`, a
satellite is marked used only if the latest fix used it; `GsvComplete`, every satellite
is listed once, and as many as announced; `ClockForward`, the time written never goes back; `FullReported`, what runs has the
event of a full batch registered.

Why the bounds are enough. Multiplexing compares one session with the rest, and the
least of the rest with the next: three sessions show every ordering. A hazard
of the continuations needs one command in flight and one that overtakes it, after
one or two that set the scene: three or four commands. Two crashes would repeat
the state after one. `MaxQueue` bounds only what *clients* add: responses and
requests are never held back, so no handler is disabled by the bound. In the part agps the
third request re-uses a handle, or meets a machine that has released.

The options in `MixedOptions` are two time based ones (one below
`MIN_TRACKING_INTERVAL`, so that the clamp acts) whose intervals and modes are
ordered differently and one distance based; `LiveOptions` has one of size 0.

For the other components: a race of a command with a restart needs one command and one restart;
what it leaves behind shows with one command more. Two adapters and a table of two meet every
case of leaving and moving up; three shows one that is turned away. In the client one id is used again
after it ended, which is where numbers and ids part. Four calls of two frameworks are a
registration and a use of each. The heap needs five items for a removal from the middle with
subtrees on both sides. Bounds named "wait at this many messages" stop clients only;
answers and events of the modem are never held back.

When the properties are claimed. `PowerStateTrue`, `SessionsOwned` and
`EngineServesTime` compare two sides that are joined by queues, so they speak of states in
which all queues have drained. `PowerStateTrue` is claimed for patient clients
and without rejected requests, crashes and configuration changes: with each of
these TLC finds a session the modem runs and the adapter has forgotten, or the
reverse, along the lines the hazards name (`GnssAdapter.cpp:2345, 2781, 5519`).
`AllAnswered` and `EventuallyAnswered` hold whatever fails, and excuse exactly the
commands the code forgets: a start turned down for its callbacks or options
(2626-2670 has no report on that path, though LocationAPI.h:62-70 lists the error
codes responseCallback returns), commands of a client that is gone, and an update whose
request failed (2891-2902 answers only success).

The properties of Adapters and Exchange are likewise claimed when the queues have drained, and
some with an excuse that the module names: `LockAgrees` and `ModeKept` not when a command was
overtaken (`late`), `FullReported` not once a stop was refused or an answer about a trip came when it had
ended (`excused`), `NoOrphan` for careful callers, `FrameworkServed` for a slow start, `DestroyDeletes` for
instances destroyed with a callback.

### Fairness

Weak fairness only, and only of threads that loop for good:

* `FairSpec` of GnssTracking: the message thread as a whole (`MsgTask` loops over a blocking
  receive, and some handler is enabled whenever the queue is not empty) and LocApi as a whole:
  each request is served or rejected in the end.
* MCInfra: the owner's calls once begun, the spawned thread, and a destruction begun on
  the task's own thread (pthreads run); the container's MsgTask, the thread that polls the timerfd, and
  the clock.
* MCLive: the adapters' thread, and for network requests the adapter's thread and the
  threads of the requests, whose timed wait ends by itself.

Nothing is assumed of clients, the user, the modem's crashes or the framework.

### Findings

* **TrackingPower.** The comment at GnssAdapter.cpp:2684 looks for "the smallest
  interval and powerMode". Both are found, but the options the engine is restarted
  with are those of the session with the smallest interval, and only the interval
  or mode of the newcomer is put in. Three sessions suffice for the engine to run
  in M2 while one of them asked for M1. Stopping a session, and a modem restart,
  do apply the strongest mode.
* **TrackingDestroy.** The switch from distance to time based tracking erases the
  session and starts it again in a response, which does not ask whether the client
  is still there. A client destroyed in between leaves a session behind that
  nothing can stop.
* **AgpsRestart.** Agps.h:196 announces that subscribers are dropped on a modem
  restart; `handleModemSSR` is never called.
* **ClientOverlap.** A session is started and its mode changed before the answer. The change stops it and starts
  another under its id, so the first answers find no session in the dictionary and the answer to the change
  pops the request of the start (LocationAPIClientBase.cpp:967).
* **NiAnswer.** `MsgGnssNiResponse::proc` tests whether a session waits for the answer before it
  takes the session's lock (GnssAdapter.cpp:3133, 3148). If the request times out in between,
  `niThreadProc` has reset the flag "for the next session" (4054) already, and the answer is written into
  the session, where the thread of the next request finds it and reports it as its own.

## 4. What the code does not keep

The following were met while modelling. The first group is stated as a definition in a module and is violated
by the code, or by the code under the constants named; no passing run checks it, so they
are notes for a reader of the code.

| definition | module | what happens |
|---|---|---|
| `PauseSurvives` | Geofence | with `HwIds = {1}, MaxRestarts = 2, Refusals = FALSE`: the re-added fence is saved as not paused (GeofenceAdapter.cpp:172), so the second engine up arms a fence its client paused (LocationAPI.h:158) |
| `FullUnregistered` | Batching | a trip counts twice, in both maps, so that its own stop finds a count of two: the event stays registered although nothing runs (BatchingAdapter.cpp:872, against the comment at 870) |
| `FullReported` without `excused` | Batching | (a) trip 3 starts and the modem will refuse it; trip 1 starts meanwhile and only queries; the refusal ends trip 3; the query's answer keeps trip 1, which does not run but counts, so that a routine session started next finds the count not zero and does not register. (b) the trip completes while its stop is under way: the registration goes with the second of the two, the trip stays in `mBatchingSessions`, counted, with the same effect |
| `LockFollows`, `DisabledExcluded` | GnssConfig | an NFW command posted before and handled after the change to the behaviour of P locks NI (GnssAdapter.cpp:5217); a disabled constellation does not stay excluded when satellites are excluded later (1814) |
| `MapsInverse` | OsObserver | `update` of LocUnorderedSetMap.h (186-196) returns the values that stay and not those removed, and none at all when the new set is empty, so that the two maps do not remain the inverse of each other |
| `ConnectedTypesKept` | SystemStatus | a hole in the table of networks hides the rows behind it: the bit of a type with a connected handle is lost (SystemStatus.h:563) |
| `ThrottleInformed` | XtraObserver | the answer to the daemon never holds the throttle |
| `NeverEarly` | LocTimer | the message that expires timers pops the first one whatever its time (LocTimer.cpp:371, against the comment at 368), so that a timer may be called early |
| `LatestCapabilities` | GnssService | with two masks: `requestCapabilities` caches and tells the mask it read before a newer report came (GnssAPIClient.cpp:361) |
| `ClockForward` without `TimesGiven` | Reports | a fix without `hasGpsTime` in the leap second is written with its UTC (loc_nmea.cpp:1027), a second back from the 60 of the fix before |
| `FencesFollow` | GnssService | the second framework's callback is ignored (GnssGeofencing.cpp:55), `geofenceRemoveAll` is a TODO |
| `FrameworkServed`, `SlowStart = FALSE` | GnssService | late calls of the dead framework are taken for the new one's: its measurement callback is refused, or a session runs on |
| `ConnectionReleased` | Agps | violated with two handles, two requests and nothing failing: a grant that finds its machine RELEASED is only logged (Agps.cpp:178), against the comment at 133. (1) A handle requests and releases while its connection is being opened, and a second requests: open, close, open are on their way to the framework. (2) The first "opened" makes the machine ACQUIRED, for the second handle. (3) The framework serves the close; "closed" ends the second handle and releases the machine. (4) It serves the second open, and that "opened" arrives in RELEASED: the connection stays up with no subscriber |
| `AnswersMatch`, `Ids = {}`, `NiIds = {1}` | ClientSessions | network requests and sessions are numbered by two counters (GnssAdapter.cpp:4144, LocAdapterBase.cpp:62), and a response has a number only. With a network request answered and tracking started, both numbered 1, the answer to the first is handed to the request of the second |
| `FenceAnswersMatch`, `Careful = FALSE` | ClientFences | every collective answer pops the first request of the one queue of fences (LocationAPIClientBase.cpp:937, against LocationAPI.h:132). An add waits for the modem, a modify or pause of the same fence is turned down at once |
| `NoOrphan`, `Careful = FALSE` | ClientSessions | a stop waits behind a start that is refused, the id is started again, and the answer of that start is handed to the stop, which forgets the session that now runs |
| `NoOrphan`, `NiIds` among the sessions | ClientSessions | the answer to a network request is handed to a request about the session of the same number |

`DeletedIffStarted` (LocThread), `TouchedAlive` (MsgTask) and `DestroyTold` (LocationAPI) are further statements
that no run checks.

Others, by component:

* LocationAPI: destroy without a callback never deletes; an empty function is called
  (LocationAPI.cpp:124, 288, inverted tests). Batching messages that waited for the engine
  are posted again and may start a session for a client that is gone.
* Client: a trip that completes while its stop is in flight leaves the stop's request in
  the queue for good; `locAPIRemoveAllGeofences` passes sessions where ids are expected;
  `locAPIModifyGeofences` passes options that do not line up with the ids it kept (735); a failed add leaves the
  id in the dictionary and a failed remove loses it. Control: answers to configuration calls
  never match a request (the pointers differ), so these pile up; deleting or enabling twice drops the first request.
* LocApiBase: a close followed by a queued restart opens again with no adapter; the eleventh adapter
  is ignored; comments promise "the first handling adapter" over loops to all (374, 397, 596).
* GnssConfig: `MsgGnssGetConfig`'s lambda captures `this` of a message that is deleted after proc; the index
  of robust location is not advanced; SBAS numbers shift by 64 or more; computed errors of an update are lost.
* Batching: the session of a second trip is not saved and cannot be stopped as one; completed and
  stopped trips stay in `mBatchingSessions`; a failed stop saves the default options;
  `stopTripBatchingMultiplexCommon` uses what `find` returned without a test; a start that waited is overtaken by its stop.
* NI: if `pthread_create` fails the session is busy for good; a request nobody has a callback for is not answered.
  ODCPI: a start that is no emergency overwrites an ongoing one that is.
* Observer: counters of modules and backhaul are changed on callers' threads without a lock; backhaul
  requests cached before the framework is there become one. SystemStatus: removal from a full network table
  reads one past its end; sentences that are too short return uninitialised memory; fixes are compared by position only.
* Reports, Nmea: satellites of some signals are counted in a default group and never listed; NavIC has no
  GSA; GSA lists twelve; `USED_IN_FIX` is only ever set (GnssAdapter.cpp:3750); a fix for the FLP alone
  clears the satellites used.
* GnssService: a pending configuration does not keep the server's name (Gnss.cpp:236).

## 5. Proofs

`AgpsProofs.tla` proves, for every set of handles and types and every bound, from
`AgpsConstantsOK` alone unless said otherwise:

| theorem | statement | rests on |
|---|---|---|
| TypeCorrect | `Spec => []TypeOK` | inductive by itself |
| SubscribersMatch | `[]SubscribersMatchState` | `TypeOK`; one lemma per handler |
| OpenHandlesBacked | `[]OpenBacked` | `TypeOK`; `FreedRead = {}`, since otherwise a handle the modem uses may be deleted with another |
| PendingIsAnswered | `[]PendingAnswered` | `TypeOK`: every step that makes a machine PENDING queues a request, and every step that takes the request away queues its answer |
| AcquiredIsBacked | `[]AcquiredBacked` | needs the strengthening `OpenedBacked`: an "opened" still in the queue is backed, too, by the connection or by a "closed" *behind* it. Without it a late grant could acquire a connection whose close was handled before. |
| SubscribersAreInUse | `[]SubscribersInUse` (of handles; for connections see section 4) | needs the strengthening `UseInv`: each handle has at most one request in the queue, a handle with a request queued is neither idle nor a subscriber, and no handle is a subscriber of both machines. Without it a handle could go idle while a second copy of it is about to become a subscriber. |

`GnssTrackingProofs.tla` proves from `ConstantsOK` alone unless said otherwise:

| theorem | statement | rests on |
|---|---|---|
| TypeCorrect | `Spec => []TypeOK` | inductive by itself, but the multiplexing chooses sessions: that a choice exists follows from a least element of every set of keys and intervals (well-foundedness of the naturals) and from the keys being finite (the "sessions in map order") |
| NeverAnsweredTwice | `[]AnsweredAtMostOnce` | `TypeOK` and the strengthening `AnswerInv` |
| AllCommandsAnswered | `[]AllAnswered` | `AnswerInv` and the strengthening `ForgetInv` |
| EngineServes | `[]EngineServesTime` | the strengthening `ServeInv`, and the assumption `DistanceAsked` |
| SessionsHaveOwners | `Patient => (Spec => []SessionsOwned)` | `AnswerInv`, `ForgetInv`, `PatientInv` and the strengthening `OwnInv` |
| PowerStateReported | `Patient /\ DistanceSupported => (Spec => []PowerStateTrue)` | all of the above but `ServeInv`, and the strengthening `TruthInv` |

`AnswerInv` says where the right to answer a command is. A command is *carried* by
its own message (in `msgs` or `pending`), by the one request made for it (in `api`), or by the
response to that request. `CarriedOnce(n)` says that command n is carried at most once
in all three queues together, that a command that is carried has no answer yet, and
that one not yet issued is carried nowhere. `AnsweredAtMostOnce` alone is not
inductive: a state with an answer given and a second response in the queue satisfies
it. The lemmas `HandledOnce`, `SentOnce`, `AnsweredOnce` and `PassedOnce` say what each
shape of handler does to the carrier; `MultiplexOne` says that each multiplexing
function sends at most one request for its command, and `RestartIdle` that a
restart of all sessions sends requests for nobody.

`ForgetInv` is the other half: each command issued is carried, or answered, or excused (`CarriedInv`).
To keep that, a handler must find what carries a command still true of it: a message or a
continuation holds the key the command was issued for, and only an update is restarted
(`MatchInv`); the message that adds a client is in front of every command of the client, so that
`reportResponse` finds it or it is gone (`AddedInv`); and a request can fail before any
crash only if the modem rejects it, since the first request opens it (`OpenFirst`).

`ServeInv` says what the engine will run. The last request about the time based
session decides (`EndsServing`): its options cover every session of the map; with no such request the engine's
own session does (`ServingInv`). Each handler's requests keep this by what the multiplexing computes (`StartKeeps`, `UpdateKeeps`,
`StopKeeps`, `RestartKeeps`). While the modem is to be opened, or has been and the message is on its way, nothing
is claimed, since the adapter then starts over; but a request that failed meanwhile makes its
handler erase or restore a session, and that response comes before the message that restarts everything
(`FailedInv`). 
`OwnInv` says who may still save a session. A client that waits for its answers has at most one
command without one, and none when it is removed (`PatientInv`); every continuation that saves or
erases a session carries such a command, but for those of the removal itself (`ChangesInv`); so once
the removal is handled nothing can bring a session back, and what is left of the client is a distance session
whose stop is at the modem (`OwnedInv`). `Patient` is needed: clients that do not wait leave sessions behind
(section 4).

`TruthInv` says that the modem ends up with what the maps hold. For each session, and for the
engine's one session, the last request in `api` that touches it decides, or, if there is
none, what the modem runs now (`EndsOn`): the result is on exactly if the map holds the session and no stop of it
is under way (`SessionTrue`, `EngineTrue`). While a session changes from one kind to the other, it is in
neither map, or in the one it leaves, by the continuation that flies (`Flying`). A modem that never failed a request came
up once, before every distance session (`FirstUpInv`). `DistanceSupported` is stronger than `DistanceAsked`:
without support a session that asks for a distance is started as time based, and the update at
GnssAdapter.cpp:2843 then asks for a distance session anyway.

`DistanceAsked` says that the modem supports distance based tracking or no options ask for a distance: the switch of a
session at GnssAdapter.cpp:2843 does not test it (see the hazards), and without it the theorem is false.

The other proof modules each begin with the specification of a component (`TaskSpec`,
`ListSpec`, ...), which a run composes with others as one of its parts:

| theorem | module | statement | the inductive invariant, and why it is needed |
|---|---|---|---|
| ThreadDelegate, TaskDelegate | TaskProofs | `[]DelegateShared`, of a thread alone and of a MsgTask's | `ThreadInv`: the reference count is the number of the two holders that have not let go, by their place in the code; between the decrement and the test the count alone does not say who deletes |
| TaskTypes | TaskProofs | `[]TaskTypeOK` | `Control`: where the clients and the thread are in the queue's functions, and who has its lock |
| TaskOrder | TaskProofs | `[]HandledInOrder` | `OrderInv`: what was handled, the message taken but not handled, and the queue are together what was accepted, in order |
| ListRefinesFifo | UtilProofs | `ListSpec => ListIsFifo`: the list is a Fifo | `ListInv`: there is a sequence of cells along which `next` and `prev` are the inverse of each other from `p_tail` to `p_head`. The walks of the code are functions of the number of steps; that they go along this sequence is shown by its least place where they would leave it |
| HeapRefinesBag, HeapStaysConsistent | UtilProofs | `HeapSpec => HeapIsPriorityBag`: the heap is a PriorityBag; `[]HeapConsistent` | `HeapInv`: what is above a node is in the tree (`TreeOf`), no child outranks its parent, sizes count subtrees, and no datum is there twice. A push sorts the new datum into the data along its way (`PushOrdered`, `PushJoins`), a pop gives every node but the one it starts at a new place for its datum (`PopMoves`); the search finds all because nothing outranks what is above it (`OrderedAll`, `FindsAll`) |
| TimersStayAlive | UtilProofs | `[]TimersAlive` | `TimerInv`: who refers to a delegate (heap, expiry, timer, a message under way) by the place it is in, so that none is freed which someone holds |
| StartsEndOnce | UtilProofs | `EndsOnce`, an action property | `TimerInv` |
| DeletesLast | LocationAPIProofs | `[]DeletedLast` | `ApiInv`: an adapter that knows a client, or has a message to, is loaded (`ToldLoaded`), so destroy waits for each that could know it (`WaitsForRest`); the removal is the last message about a client (`RemovedLast`); so that the one who completes (`CompletesLast`) and an address that is free (`FreshFree`) are known to nobody |
| OdcpiRepeated | ModemProofs | `[]OdcpiTimed` | `OdcpiInv`: also while a message waits that will start or stop the timer |
| RegistrySettles | ModemProofs | `[](MaskSettles /\ TableOnce)` | `RegistryInv`: each message under way, applied to the mask, still ends in the union of what is registered |
| LockSettles, ModeSettles | ModemProofs | `[]LockAgrees`, `[]ModeKept` | `ConfigInv`: the modem's lock once the requests and messages under way are served (`LockAfter`), for each way in which they can follow each other |
| FencesAgree | ModemProofs | `[]ModemAgrees` | `FenceInv`: the last message about a number of the modem saves the fence it has there, or none is under way and it is saved (`ModemHeard`); that a late answer does not save a fence twice, under two numbers of which one is lost, needs that whatever may still add a fence of a client that is there (its command, its call, its request, the response that grants it, its place in the maps) is one (`AddedOnce`, `AddedFirst`), also when the adapter adds all fences anew while the first request is at the modem |
| FullReportedHolds | ModemProofs | `[]FullReported` | `BatchInv`: in every state, not only a quiet one, the event is registered or nothing counts, until what is excused happens. No piece of a handler that does not count anew loses it (`Keeps`); the one that takes the registration away with a trip, StopTripDone, does so when that trip is all that counts (`LastTrip`), which needs that the trip has not ended meanwhile |
| StatusLatest | ObserverProofs | `[]LatestReported`, and no history outgrows `maxItem` | `StatusInv` |
| ObserverTold | ObserverProofs | `[]ObserverServes` | `ObserverInv`: the counters of modules and backhaul, with the messages that will change them, count who needs them |
| XtraFollows | ObserverProofs | `[]XtraInformed` | `XtraInv`: what the daemon knows with the datagrams it has not read, up to a restart of either |
| FrameworkIsServed | ClientProofs | `[]FrameworkServed`, for every choice of the calls a framework makes | `ServeInv`: what runs at the modem runs only while somebody is linked to the death of the framework (`GnssLinked`, `MeasurementLinked`, `BatchingLinked`); the notices of a death are the last of the queue, and no link of a dead framework is without one (`NoticesLast`); a call that needs an open interface comes behind the one that opens it (`CallsOpen`), so that nothing is started for a framework that is not linked |
| UsedInLastFix | ClientProofs | `[]UsedTrue` | `KeptTrue`: the satellites kept for the next report are those of the fix told last, for every signal if it has them |
| TimeForward | ClientProofs | `TimesGiven => (ReportsSpec => ClockForward)`, an action property | `ClockInv`: the fixes under way are in order of time, and not before the one written last; none of the leap second is before the information that announces it is saved (`LeapKnown`). The order of the written times then is arithmetic (`NeverBack`): of the times of a leap second and around it, digit by digit |
| GsvListsAll | ClientProofs | `[]GsvComplete` | `GsvInv`: the satellites told are as the engine reports them, and the sentences are those made of them. The rest is about what the code makes (`GsvPart`): each group's sentences once; places and satellites are paired one to one (`PlacesCount`) |
| NoneOrphaned | ClientProofs | `Careful /\ NiApart => (ClientSpec => []NoOrphan)` | `SessionsInv`: what is still to be served leaves nothing running that nobody can stop (`NoneLeft`) |
| TrackingAnswersFound | ClientProofs | `ClientSpec => []TrackingAnswersMatch` | `TrackedInv`: the tracking queue is that of the commands of its session, in their order; a session by id never has the number of the one tracked; every number of a session was given out |
| ControlAnswersFound | ClientProofs | `ClientSpec => []ControlAnswersMatch` | `ControlAnswers`: each of the two queues is that of the commands that will take from it |
| BreachesAreNamed | ClientProofs | `ClientSpec => []BreachesNamed` | `FencesTold`: both directions of the dictionary have each fence with the id it was added under, whichever pairs are lost or stay |

`SessionsInv` holds of the client's sessions before the client is destroyed: the dictionary is its own
inverse (`Paired`), though `set` alone does not keep it so; a session that runs, or whose start is a command,
is tracked, or in the dictionary, or has its stop further back among the commands (`NoneLeft`); and a
response that will forget a session of the dictionary comes when that session has ended and nothing will start it
(`EndedFirst`). The last is where waiting is needed: the caller has one command at most about the sessions of
the dictionary, and the queue has its request (`AskedOnce`), so that the response is of that command. Destroy
leaves the removal as the last command, which stops all.

For the answers, the tracking queue is in the order of the commands of its session (`InOrder`: an increasing
enumeration of their places), so that the head of the queue is the request of the first of them; tracking
needs no waiting, as each start takes a new number and drops the old queue. Where a network request has the
session's number that order is not claimed (`TrackedInTurn`). The control client's two queues are in order for their two
ids in the same way. Of the fences no order of answers is needed: the dictionary may lose
pairs, or keep old ones, but what it has it has under the right id.

For the GSV sentences, the counters and the filter agree for each named satellite (`CountedIn`, a table of the
signals): it is counted in one group, that group lists it, and no two groups share talker and signal (`GroupApart`). The
groups' sentences are put one after another (`PartsJoin`), so that a sentence is there once for each group and number.
The rank of a satellite in its group, which its group's numbers 1 to n enumerate (`NthRanked`), gives its
sentence and its place, and distinct places have distinct satellites; so the places are as many as the satellites, of a group as of all.

NoneOrphaned alone needs two hypotheses, without which TLC finds it violated (section 4): `Careful`, that callers
wait for the answers about sessions by id and fences, and `NiApart`, that `NiIds` has none of the numbers `1 .. MaxSession`.
The three theorems about answers and breaches have none: callers may overlap their calls as they like, and network requests
have any numbers.

The assumptions on constants are those of the modules, each about what the build has:
`ListAssumption`, the cells are finitely many (memory is) and none is the null pointer; `TimerAssumption`, null is no timer and no
number; `ConfigAssumption`, null is none of the two modes; `ApiAssumption`, the kinds are the three of LocationAPI.h;
`FenceAssumption` and `BatchAssumption`, the fences, the modem's numbers and the ids of sessions are finitely many (all are
32 bit numbers in the code);
`ServiceAssumption`, there is a first framework and a mask of capabilities is not zero; `TimesAssumption`, a
leap second is at a full second and is one (loc_nmea.cpp:1041), and the time of the engine's fixes goes forward and does not
begin in it; `SvAssumption`, a satellite in view is reported with one of the signals of its system or with none
(LocationDataTypes.h:557).
FrameworkIsServed has the hypothesis `SlowStart`, without which it is false (section 4), and UsedInLastFix that
the engine reports no satellite as used (`UnusedSvs`): `reportSv` only adds the mark (GnssAdapter.cpp:3750).
TimeForward has the hypothesis `TimesGiven`, that the engine gives the GPS time of each fix; without it the theorem is false
(section 4); that a leap second is announced before it comes is part of the model (`TimePasses`).
No bound of a run (`MaxPosted`, `MaxMsgs`, ...) is assumed to have a value.

The strengthened invariants were model-checked before they were proved. The proof
of each invariant has one step per action.

Every safety invariant, action property and refinement that a passing run checks has its theorem. Only
model-checked is the liveness (`EventuallyAnswered`, `QueueDrains`, `DestroyEnds`, `TimersEnd`, `DestroyDeletes`,
`NiEnds`), as liveness under fairness is out of this prover's reach. Both refinements, of Fifo and of PriorityBag, are proved; that the calls of the heap can take place (each way has an end)
is ENABLED and stays with the run, which takes each of them. `TypeOK` and `SubscribersMatchState` of Agps and `HeapConsistent` are proved and no longer checked by a run.

## 6. Plan

1. **Core** (done): GnssTracking, Agps and their proofs.
2. **The rest of the HAL** (done): the modules of section 2 and their runs.
3. **The utilities, observers, LocationAPI and the modem's registrations proved** (done): section 5.
4. **The sessions' owners, the power state, the modem's fences and the client's sessions and answers, the full batches, the time written, the sentences and the heap proved** (done): section 5.
5. **Runs to add**: a GnssTracking run with `DistanceSupported = FALSE`, in which the update at
   GnssAdapter.cpp:2843 asks for a session the save does not record as one.

## 7. Not modelled, and why

Configuration parsing, log buffers and socket framing are conversions without shared state. Aiding data,
power state and dead reckoning hand one call to the modem and report its answer. The engine hub is a
library outside the repository. The battery listener, the lights HAL, the doze application and device
configuration are glue to a platform outside this repository. Measurements,
ephemerides and data reports are fanned out as they are. Data races proper are represented by the order of the
accesses where a module names them (LocThread, NiRequests, GnssConfig, OsObserver, GnssService) and otherwise by an
atomic step (the bad APN path of Agps).
