----------------------------- MODULE MCAdapters -----------------------------
(***************************************************************************)
(* The adapters and observers around the tracking sessions, one per        *)
(* behaviour: part chooses in the initial state whose steps are taken.     *)
(* They share no variables, so interleaving them would add nothing: the    *)
(* observer's items and actions share the queue of its thread only, and    *)
(* sentences fill different items.  Of the HAL client only the sessions    *)
(* move here; all of it does in MCClient.                                  *)
(***************************************************************************)
EXTENDS ClientSessions, Geofence, LocApiBase, Odcpi, GnssConfig, OsObserver,
        SystemStatus, XtraObserver, GnssService

MCKeys == {<<1, 1>>, <<2, 2>>}
MCXtraValues == [lock |-> {{}, {"MO", "NI"}}, tac |-> {1}, throttle |-> {1}]
MCNetworks == {<<1, 1>>}

\* Two commands under way about one fence, or one about either of two.
FenceKeys == [fence |-> {<<1, 1>>}, fences |-> MCKeys]
FenceRoom == [fence |-> 2, fences |-> 1]
GnssCalls == {name \in DOMAIN Interface : Interface[name] = "gnss"}
ServiceCalls ==
  [service |-> GnssCalls, configuring |-> {"setCallback", "updateConfiguration"},
   extensions |-> {name \in DOMAIN Interface : Interface[name] \notin {"gnss", "always"}}]

VARIABLE part
adapterRunVars == <<part, clientVars, fenceVars, registryVars, odcpiVars, configVars,
                    observerVars, statusVars, xtraVars, serviceVars>>

MCInit ==
  /\ part \in {"client", "fence", "fences", "registry", "odcpi",
              "config", "observer", "actions", "status", "shortStatus", "xtra",
              "service", "configuring", "extensions"}
  /\ ClientInit /\ GeofenceInit /\ RegistryInit /\ OdcpiInit /\ ConfigInit
  /\ ObserverInit /\ StatusInit /\ XtraInit /\ ServiceInit
  /\ part = "config" \/ GPS_LOCK = {"MO"}

\* Only variables of the part that moves change.
OtherParts == <<part, fenceVars, registryVars, odcpiVars, configVars, observerVars,
                statusVars, xtraVars, serviceVars>>
ClientPart == part = "client" /\ UNCHANGED <<OtherParts, controlVars>>
FencePart ==
  part \in DOMAIN FenceKeys /\ UNCHANGED <<part, clientVars, registryVars,
    odcpiVars, configVars, observerVars, statusVars, xtraVars, serviceVars>>
RegistryPart ==
  part = "registry" /\ UNCHANGED <<part, clientVars, fenceVars,
    odcpiVars, configVars, observerVars, statusVars, xtraVars, serviceVars>>
OdcpiPart ==
  part = "odcpi" /\ UNCHANGED <<part, clientVars, fenceVars,
    registryVars, configVars, observerVars, statusVars, xtraVars, serviceVars>>
ConfigPart ==
  part = "config" /\ UNCHANGED <<part, clientVars, fenceVars,
    registryVars, odcpiVars, observerVars, statusVars, xtraVars, serviceVars>>
ActionsPart ==
  part = "actions" /\ UNCHANGED <<part, clientVars, fenceVars,
    registryVars, odcpiVars, configVars, statusVars, xtraVars, serviceVars>>
ObserverPart ==
  part = "observer" /\ UNCHANGED <<part, clientVars, fenceVars,
    registryVars, odcpiVars, configVars, statusVars, xtraVars, serviceVars>>
StatusPart ==
  part \in {"status", "shortStatus"} /\ UNCHANGED <<part, clientVars, fenceVars,
    registryVars, odcpiVars, configVars, observerVars, xtraVars, serviceVars>>
XtraPart ==
  part = "xtra" /\ UNCHANGED <<part, clientVars, fenceVars, registryVars,
    odcpiVars, configVars, observerVars, statusVars, serviceVars>>

ServicePart ==
  part \in DOMAIN ServiceCalls /\ UNCHANGED <<part, clientVars, fenceVars, registryVars,
    odcpiVars, configVars, observerVars, statusVars, xtraVars>>

MCNext ==
  \/ ClientPart /\ (LifeNext \/ (SessionsNext /\ UNCHANGED fenceClientVars))
  \/ FencePart /\ FenceServed
  \/ FencePart /\ InFlight < FenceRoom[part] /\ FenceCallers(FenceKeys[part])
  \/ RegistryPart /\ RegistryNext
  \/ OdcpiPart /\ OdcpiNext
  \/ ConfigPart /\ ConfigNext
  \/ ObserverPart /\ ItemsNext
  \/ ActionsPart /\ ActionsNext
  \/ StatusPart /\ (OthersNext \/ SentencesNext(IF part = "status" THEN {"PQWM1"} ELSE {"PQWP1"}))
  \/ XtraPart /\ XtraNext
  \/ ServicePart /\ ServiceNext(ServiceCalls[part])

MCSpec == MCInit /\ [][MCNext]_adapterRunVars
=============================================================================
