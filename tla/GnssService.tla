----------------------------- MODULE GnssService -----------------------------
(***************************************************************************)
(* The HIDL service: IGnss, its measurement, batching and geofencing       *)
(* interfaces and the API clients behind them.  The framework lives in     *)
(* another process, which may die and start again; its calls, and the      *)
(* notices of its death, reach the service's only binder thread            *)
(* (service.cpp: configureRpcThreadpool(1, true)) in the order they are    *)
(* sent.  Capabilities come on the adapter's thread at any time.           *)
(* A callback is known by the generation of the framework it belongs to.   *)
(***************************************************************************)
EXTENDS Naturals, Sequences, SequencesExt

CONSTANTS MaxFrameworks,  \* bound: generations of the framework
          MaxServiceCalls,\* bound: calls of all of them
          CapabilityMasks,\* what the adapter reports, positive
          MaxCapabilities,\* bound: reports of capabilities
          SlowStart       \* TRUE: a framework starts when the calls of the last one are served
ASSUME ServiceAssumption ==
  /\ MaxFrameworks \in Nat \ {0} /\ MaxServiceCalls \in Nat /\ MaxCapabilities \in Nat
  /\ CapabilityMasks \subseteq Nat \ {0} /\ SlowStart \in BOOLEAN

Nobody == 0
Generations == 1 .. MaxFrameworks
Versions == {"1_0", "1_1", "2_0"}
ConfigItems == {"gpsLock", "assistanceServer"}

VARIABLES
  framework,     \* generation, whether it runs, what it has opened, its calls
  work,          \* calls and death notices for the binder thread
  links,         \* callbacks linked to a death recipient
  gnss,          \* Gnss: callbacks of each version, mApi exists, mPendingConfig
  gnssClient,    \* GnssAPIClient and the session it has at the LocationAPI
  capabilitiesOf,\* GnssAPIClient: the cached mask, and each thread's way through onCapabilitiesCb
  measurement,   \* GnssMeasurement and MeasurementAPIClient
  batchService,  \* GnssBatching and BatchingAPIClient
  fenceService,  \* GnssGeofencing and GeofenceAPIClient
  connectedBy,     \* frameworks whose network the system status holds
  serviceSeen    \* auxiliary: what frameworks were told, refused and configured last

serviceVars == <<framework, work, links, gnss, gnssClient, capabilitiesOf, measurement,
                 batchService, fenceService, connectedBy, serviceSeen>>
gnssVars == <<gnss, gnssClient, capabilitiesOf, connectedBy>>
extensionVars == <<measurement, batchService, fenceService>>

NoCallbacks == [v \in Versions |-> Nobody]
NotConfigured == [k \in ConfigItems |-> 0]
Step(at, mask) == [at |-> at, mask |-> mask]
Resting == Step("idle", 0)
ServiceInit ==
  /\ framework = [now |-> 1, up |-> TRUE, opened |-> {}, calls |-> 0]
  /\ work = <<>> /\ links = {}
  /\ gnss = [callbacks |-> NoCallbacks, mApi |-> FALSE, mPendingConfig |-> NotConfigured]
  /\ gnssClient = [mGnssCbIface |-> Nobody, mGnssCbIface_2_0 |-> Nobody, mTracking |-> FALSE,
                   session |-> Nobody, enabled |-> Nobody, config |-> NotConfigured]
  /\ capabilitiesOf = [mask |-> 0, reports |-> 0, binder |-> Resting, adapter |-> Resting]
  /\ measurement = [callbacks |-> NoCallbacks, client |-> NoCallbacks, session |-> Nobody]
  /\ batchService = [callbacks |-> NoCallbacks, api |-> Nobody, session |-> Nobody]
  /\ fenceService = [api |-> Nobody, fences |-> {}]
  /\ connectedBy = {}
  /\ serviceSeen = [told |-> [g \in Generations |-> 0], refused |-> {}, configured |-> NotConfigured]

(***************************************************************************)
(* The framework and the kernel (external).                                *)
(***************************************************************************)
Interface ==
  [setCallback |-> "gnss", start |-> "gnss", stop |-> "gnss", setPositionMode |-> "gnss",
   cleanup |-> "gnss", updateConfiguration |-> "always", updateNetworkState |-> "gnss",
   setMeasurementCallback |-> "measurement", close |-> "measurement",
   init |-> "batching", startBatch |-> "batching", stopBatch |-> "batching", cleanupBatch |-> "batching",
   setGeofenceCallback |-> "geofencing", addGeofence |-> "geofencing"]
Opening == {"setCallback", "setMeasurementCallback", "init", "setGeofenceCallback"}
Closing == {"cleanup", "close", "cleanupBatch"}
Offers ==
  [gnss |-> Versions, measurement |-> Versions, batching |-> {"1_0", "2_0"}, geofencing |-> {"1_0"}]

Alive(g) == framework.up /\ framework.now = g
\* The framework opens an interface before it uses it, and closes it once.
FrameworkCalls(names) ==
  \E name \in names, v \in Versions, item \in ConfigItems :
    LET i == Interface[name] IN
    /\ framework.up /\ framework.calls < MaxServiceCalls
    /\ v \in IF name \in Opening THEN Offers[i] ELSE {"1_0"}
    /\ name # "updateConfiguration" => item = "gpsLock"
    /\ i = "always" \/ name \in Opening \/ i \in framework.opened
    /\ framework' = [framework EXCEPT !.calls = @ + 1,
         !.opened = IF name \in Opening THEN @ \cup {i} ELSE IF name \in Closing THEN @ \ {i} ELSE @]
    /\ work' = Append(work, [call |-> name, v |-> v, by |-> framework.now, item |-> item,
                             value |-> IF i = "always" THEN framework'.calls ELSE 0])
    /\ UNCHANGED <<links, gnssVars, extensionVars, serviceSeen>>

\* The kernel tells of a death once for each linked callback.  The notices of one
\* death touch different interfaces, so that their order does not matter.
Notice(l) == [call |-> "serviceDied", v |-> l.v, by |-> l.by, iface |-> l.iface]
FrameworkDies ==
  /\ framework.up
  /\ framework' = [framework EXCEPT !.up = FALSE, !.opened = {}]
  /\ LET order == SetToSeq(links) IN work' = work \o [n \in DOMAIN order |-> Notice(order[n])]
  /\ UNCHANGED <<links, gnssVars, extensionVars, serviceSeen>>
FrameworkStarts ==
  /\ ~framework.up /\ framework.now < MaxFrameworks /\ (SlowStart => work = <<>>)
  /\ framework' = [framework EXCEPT !.now = @ + 1, !.up = TRUE]
  /\ UNCHANGED <<work, links, gnssVars, extensionVars, serviceSeen>>

(***************************************************************************)
(* The binder thread.                                                      *)
(***************************************************************************)
Taken(name) == work # <<>> /\ capabilitiesOf.binder = Resting /\ Head(work).call = name
By == Head(work).by
Served == work' = Tail(work) /\ UNCHANGED framework
LinksOf(i) == {l \in links : l.iface = i}
\* Who links to a callback whose owner is dead is told at once.
linkToDeath(i, unlinked) ==
  LET l == [iface |-> i, v |-> Head(work).v, by |-> By] IN
  /\ links' = (links \ unlinked) \cup {l}
  /\ work' = Tail(work) \o (IF Alive(By) THEN <<>> ELSE <<Notice(l)>>)
  /\ UNCHANGED framework

\* GnssAPIClient, with the session and the technology it has at the LocationAPI.
gnssUpdateCallbacks(client, g) == [client EXCEPT !.mGnssCbIface = g]
gnssUpdateCallbacks_2_0(client, g) == [client EXCEPT !.mGnssCbIface_2_0 = g]
gnssStart(client, g) == [client EXCEPT !.mTracking = TRUE, !.session = IF @ = Nobody THEN g ELSE @]
gnssStop(client) == [client EXCEPT !.mTracking = FALSE, !.session = Nobody]
gnssEnable(client, g) == [client EXCEPT !.enabled = IF @ = Nobody THEN g ELSE @]
gnssDisable(client) == [client EXCEPT !.enabled = Nobody]
gnssConfigurationUpdate(client, config) ==
  [client EXCEPT !.config = [k \in ConfigItems |-> IF config[k] # 0 THEN config[k] ELSE @[k]]]
\* A new client is given what was configured before there was one.
getApi == IF gnss.mApi THEN gnssClient ELSE gnssConfigurationUpdate(gnssClient, gnss.mPendingConfig)

\* The client's callbacks of the other versions go first.
Register(v, client) ==
  /\ Taken("setCallback") /\ Head(work).v = v
  /\ linkToDeath("gnss", LinksOf("gnss"))
  /\ gnss' = [callbacks |-> [NoCallbacks EXCEPT ![v] = By], mApi |-> TRUE, mPendingConfig |-> NotConfigured]
  /\ gnssClient' = gnssEnable(client, By)
  /\ capabilitiesOf' = [capabilitiesOf EXCEPT !.binder = Step("request", 0)]
  /\ UNCHANGED <<connectedBy, extensionVars, serviceSeen>>
\* (A mutant: a callback of the newest kind stays.)
setCallback_1_1_beside == Register("1_1", gnssUpdateCallbacks(getApi, By))
setCallback == Register("1_0", gnssUpdateCallbacks(gnssUpdateCallbacks_2_0(getApi, Nobody), By))
setCallback_1_1 == Register("1_1", gnssUpdateCallbacks(gnssUpdateCallbacks_2_0(getApi, Nobody), By))
setCallback_2_0 == Register("2_0", gnssUpdateCallbacks_2_0(gnssUpdateCallbacks(getApi, Nobody), By))

GnssCall(name, client) ==
  /\ Taken(name) /\ Served
  /\ gnssClient' = IF gnss.mApi THEN client ELSE gnssClient
  /\ UNCHANGED <<links, gnss, capabilitiesOf, connectedBy, extensionVars, serviceSeen>>
start == GnssCall("start", gnssStart(gnssClient, By))
stop == GnssCall("stop", gnssStop(gnssClient))
\* The client is given the callbacks again before the mode.
setPositionMode ==
  LET cb == gnss.callbacks IN
  GnssCall("setPositionMode",
    IF cb["2_0"] # Nobody THEN gnssUpdateCallbacks_2_0(gnssClient, cb["2_0"])
    ELSE IF cb["1_1"] # Nobody THEN gnssUpdateCallbacks(gnssClient, cb["1_1"])
    ELSE IF cb["1_0"] # Nobody THEN gnssUpdateCallbacks(gnssClient, cb["1_0"]) ELSE gnssClient)
\* The callbacks are kept, for emergencies.
CleanedUp(client) == gnssDisable(gnssStop(client))
cleanup == GnssCall("cleanup", CleanedUp(gnssClient))

\* A pending server's name is kept only in the place of one that is there.
Pending(item, value) == IF item = "assistanceServer" THEN 0 ELSE value
updateConfiguration ==
  /\ Taken("updateConfiguration") /\ Served
  /\ LET c == Head(work) IN
     /\ gnss' = IF gnss.mApi THEN gnss ELSE [gnss EXCEPT !.mPendingConfig[c.item] = Pending(c.item, c.value)]
     /\ gnssClient' = IF gnss.mApi
          THEN gnssConfigurationUpdate(gnssClient, [NotConfigured EXCEPT ![c.item] = c.value]) ELSE gnssClient
     /\ serviceSeen' = [serviceSeen EXCEPT !.configured[c.item] = c.value]
  /\ UNCHANGED <<links, capabilitiesOf, connectedBy, extensionVars>>
updateNetworkState ==
  /\ Taken("updateNetworkState") /\ Served
  /\ connectedBy' = connectedBy \cup {By}
  /\ UNCHANGED <<links, gnss, gnssClient, capabilitiesOf, extensionVars, serviceSeen>>

(***************************************************************************)
(* Capabilities, on both threads: binder and adapter.                      *)
(***************************************************************************)
AdapterReports ==
  /\ gnss.mApi /\ capabilitiesOf.adapter = Resting /\ capabilitiesOf.reports < MaxCapabilities
  /\ \E mask \in CapabilityMasks :
       capabilitiesOf' = [capabilitiesOf EXCEPT !.adapter = Step("given", mask), !.reports = @ + 1]
  /\ UNCHANGED <<framework, work, links, gnss, gnssClient, connectedBy, extensionVars, serviceSeen>>
\* Reads without the lock what the other thread may be about to write.
requestCapabilities ==
  /\ capabilitiesOf.binder.at = "request"
  /\ capabilitiesOf' = [capabilitiesOf EXCEPT
       !.binder = IF capabilitiesOf.mask # 0 THEN Step("given", capabilitiesOf.mask) ELSE Resting]
  /\ UNCHANGED <<framework, work, links, gnss, gnssClient, connectedBy, extensionVars, serviceSeen>>
\* To whom GnssAPIClient reports.
Destination ==
  IF gnssClient.mGnssCbIface_2_0 # Nobody THEN gnssClient.mGnssCbIface_2_0 ELSE gnssClient.mGnssCbIface
onCapabilitiesCb(thread) ==
  /\ LET step == capabilitiesOf[thread] IN
     \/ /\ step.at = "given"
        /\ capabilitiesOf' = [capabilitiesOf EXCEPT !.mask = step.mask, ![thread].at = "cached"]
        /\ UNCHANGED serviceSeen
     \/ /\ step.at = "cached"
        /\ capabilitiesOf' = [capabilitiesOf EXCEPT ![thread] = Resting]
        /\ serviceSeen' = IF Destination = Nobody THEN serviceSeen
                          ELSE [serviceSeen EXCEPT !.told[Destination] = step.mask]
  /\ UNCHANGED <<framework, work, links, gnss, gnssClient, connectedBy, extensionVars>>

(***************************************************************************)
(* Measurements, batches and fences.                                       *)
(***************************************************************************)
\* A callback of a version is refused while there is one of that version.
setMeasurementCallback ==
  LET v == Head(work).v IN
  /\ Taken("setMeasurementCallback")
  /\ \/ /\ measurement.callbacks[v] # Nobody
        /\ Served
        /\ serviceSeen' = IF measurement.callbacks[v] = By THEN serviceSeen
                          ELSE [serviceSeen EXCEPT !.refused = @ \cup {By}]
        /\ UNCHANGED <<links, measurement>>
     \/ /\ measurement.callbacks[v] = Nobody
        /\ linkToDeath("measurement", LinksOf("measurement"))
        /\ measurement' = [callbacks |-> [NoCallbacks EXCEPT ![v] = By],
                           client |-> [NoCallbacks EXCEPT ![v] = By],
                           session |-> IF measurement.session = Nobody THEN By ELSE measurement.session]
        /\ UNCHANGED serviceSeen
  /\ UNCHANGED <<gnssVars, batchService, fenceService>>
MeasurementClosed == [measurement EXCEPT !.callbacks = NoCallbacks, !.session = Nobody]
close ==
  /\ Taken("close") /\ Served
  /\ measurement' = MeasurementClosed /\ links' = links \ LinksOf("measurement")
  /\ UNCHANGED <<gnssVars, batchService, fenceService, serviceSeen>>

\* The old instance is destroyed, and with it its session.
init ==
  LET v == Head(work).v IN
  /\ Taken("init")
  /\ linkToDeath("batching", {l \in LinksOf("batching") : l.v = v})
  /\ batchService' = [callbacks |-> [batchService.callbacks EXCEPT ![v] = By], api |-> By, session |-> Nobody]
  /\ UNCHANGED <<gnssVars, measurement, fenceService, serviceSeen>>
BatchCall(name, session) ==
  /\ Taken(name) /\ Served
  /\ batchService' = [batchService EXCEPT !.session = IF batchService.api = Nobody THEN @ ELSE session]
  /\ UNCHANGED <<links, gnssVars, measurement, fenceService, serviceSeen>>
startBatch == BatchCall("startBatch", IF batchService.session = Nobody THEN By ELSE batchService.session)
stopBatch == BatchCall("stopBatch", Nobody)
BatchCleanedUp == [batchService EXCEPT !.callbacks = NoCallbacks, !.session = Nobody]
cleanupBatch ==
  /\ Taken("cleanupBatch") /\ Served
  /\ batchService' = BatchCleanedUp /\ links' = links \ LinksOf("batching")
  /\ UNCHANGED <<gnssVars, measurement, fenceService, serviceSeen>>

\* Only the first callback ever is taken.
setGeofenceCallback ==
  /\ Taken("setGeofenceCallback")
  /\ \/ fenceService.api # Nobody /\ Served /\ UNCHANGED <<links, fenceService>>
     \/ /\ fenceService.api = Nobody /\ linkToDeath("geofencing", LinksOf("geofencing"))
        /\ fenceService' = [fenceService EXCEPT !.api = By]
  /\ UNCHANGED <<gnssVars, measurement, batchService, serviceSeen>>
addGeofence ==
  /\ Taken("addGeofence") /\ Served
  /\ fenceService' = [fenceService EXCEPT !.fences = IF fenceService.api = Nobody THEN @ ELSE @ \cup {By}]
  /\ UNCHANGED <<links, gnssVars, measurement, batchService, serviceSeen>>
\* "TODO": no fence is removed.
geofenceRemoveAll == fenceService

\* An unlinked recipient is not told any more.
serviceDied ==
  /\ Taken("serviceDied") /\ Served
  /\ LET l == [iface |-> Head(work).iface, v |-> Head(work).v, by |-> By]
         told(i) == l \in links /\ l.iface = i IN
     /\ links' = links \
          (IF told("measurement") \/ told("batching") THEN LinksOf(l.iface) ELSE {l})
     /\ connectedBy' = IF told("gnss") THEN {} ELSE connectedBy
     /\ gnssClient' = IF told("gnss") /\ gnss.mApi THEN CleanedUp(gnssClient) ELSE gnssClient
     /\ measurement' = IF told("measurement") THEN MeasurementClosed ELSE measurement
     /\ batchService' = IF told("batching") THEN BatchCleanedUp ELSE batchService
     /\ fenceService' = IF told("geofencing") THEN geofenceRemoveAll ELSE fenceService
  /\ UNCHANGED <<gnss, capabilitiesOf, serviceSeen>>

BinderNext ==
  \/ setCallback \/ setCallback_1_1 \/ setCallback_2_0 \/ start \/ stop \/ setPositionMode \/ cleanup
  \/ updateConfiguration \/ updateNetworkState \/ requestCapabilities \/ serviceDied
  \/ setMeasurementCallback \/ close \/ init \/ startBatch \/ stopBatch \/ cleanupBatch
  \/ setGeofenceCallback \/ addGeofence
ServiceNext(names) ==
  \/ FrameworkCalls(names) \/ FrameworkDies \/ FrameworkStarts
  \/ BinderNext \/ AdapterReports \/ \E thread \in {"binder", "adapter"} : onCapabilitiesCb(thread)

-----------------------------------------------------------------------------
(* Properties.                                                             *)

ServiceQuiet == work = <<>> /\ capabilitiesOf.binder = Resting /\ capabilitiesOf.adapter = Resting
Living == IF framework.up THEN {framework.now} ELSE {}
\* What runs at the modem runs for a framework that lives.
DeadStopped ==
  {gnssClient.session, gnssClient.enabled, measurement.session, batchService.session} \cup connectedBy
    \subseteq Living \cup {Nobody}
\* Reports go to the framework that asked for them, not to one before it.
LatestHears ==
  /\ "gnss" \in framework.opened =>
       Destination = framework.now /\ \A v \in Versions : gnss.callbacks[v] \in {Nobody, framework.now}
  /\ measurement.session # Nobody =>
       \E v \in Versions : measurement.client = [NoCallbacks EXCEPT ![v] = framework.now]
  /\ batchService.session # Nobody => batchService.api = framework.now
  /\ framework.now \notin serviceSeen.refused
\* A framework hears of the capabilities, whether they are known before it
\* registers, after, or meanwhile.
CapabilitiesTold ==
  "gnss" \in framework.opened /\ capabilitiesOf.reports # 0 => serviceSeen.told[framework.now] # 0
\* What is configured before there is a client reaches it, too, but for the server.
ConfigReaches == gnss.mApi => gnssClient.config["gpsLock"] = serviceSeen.configured["gpsLock"]
\* When all calls and notices are handled, a restarted framework finds a service
\* that works for it alone: nothing the dead one left runs on, the living one is
\* refused nothing, hears the reports and the capabilities, and is configured.
FrameworkServed ==
  ServiceQuiet => DeadStopped /\ LatestHears /\ CapabilitiesTold /\ ConfigReaches

\* The capabilities told last are those reported last.  The code violates it:
\* requestCapabilities caches what it read before a newer report came.
LatestCapabilities ==
  ServiceQuiet /\ "gnss" \in framework.opened =>
    serviceSeen.told[framework.now] \in {0, capabilitiesOf.mask}
\* Fences are reported to the framework that set them.  The code violates it: the
\* second framework's callback is not taken and the first one's fences stay.
FencesFollow == ServiceQuiet => fenceService.fences \subseteq Living \cap {fenceService.api}
=============================================================================
