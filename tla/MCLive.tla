------------------------------- MODULE MCLive -------------------------------
(***************************************************************************)
(* What must end: the life of LocationAPI objects, and the requests of the *)
(* network.  part chooses in the initial state which of the two moves;     *)
(* they share no variable.                                                 *)
(***************************************************************************)
EXTENDS LocationAPI, NiRequests

VARIABLE part
liveVars == <<part, apiVars, niVars>>

MCInit == part \in {"api", "ni"} /\ LocationAPIInit /\ NiInit

ApiPart == part = "api" /\ UNCHANGED <<part, niVars>>
NiPart == part = "ni" /\ UNCHANGED <<part, apiVars>>

MCNext == (ApiPart /\ LocationAPINext) \/ (NiPart /\ NiNext)

\* The threads of the adapters and the thread of each request are scheduled.
MCSpec ==
  /\ MCInit /\ [][MCNext]_liveVars
  /\ WF_liveVars(AdapterThread /\ ApiPart)
  /\ WF_liveVars(NiAdapter /\ NiPart)
  /\ WF_liveVars(NiThread /\ NiPart)
=============================================================================
