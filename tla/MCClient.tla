------------------------------ MODULE MCClient ------------------------------
(***************************************************************************)
(* The HAL client alone, for callers that do not wait for their answers    *)
(* (as BatchingAPIClient, GeofenceAPIClient and GnssAPIClient do not): its *)
(* sessions, its geofences and the control client, one per behaviour.      *)
(* They share no variable but whether the client is set.  A request by id  *)
(* whose session is gone before its answer stays in the queue for good:    *)
(* MaxUnserved bounds that queue too.                                      *)
(***************************************************************************)
EXTENDS ClientSessions

VARIABLE part
clientRunVars == <<part, clientVars>>

ClientParts == {"sessions", "fences", "control"}
MCClientInit == ClientInit /\ part \in ClientParts

SessionsPart ==
  /\ part = "sessions" /\ UNCHANGED <<part, controlVars>>
  /\ LifeNext \/ (SessionsNext /\ UNCHANGED fenceClientVars)
  /\ Len(requests'["session"].reqs) <= MaxUnserved
FencesPart ==
  /\ part = "fences" /\ UNCHANGED <<part, controlVars>>
  /\ LifeNext \/ (FenceClientNext /\ UNCHANGED <<mLocationAPI, sessionVars>>)
ControlPart ==
  /\ part = "control" /\ UNCHANGED <<part, mLocationAPI, sessionVars, fenceClientVars>>
  /\ ControlNext

MCClientNext == SessionsPart \/ FencesPart \/ ControlPart
MCClientSpec == MCClientInit /\ [][MCClientNext]_clientRunVars
=============================================================================
