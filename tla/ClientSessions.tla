--------------------------- MODULE ClientSessions ---------------------------
(***************************************************************************)
(* LocationAPIClientBase: the tracking session, the sessions by id and the *)
(* NI answers of one HAL client, the queues of requests it keeps to know   *)
(* what each response is for, and the callers of the HAL (GnssAPIClient,   *)
(* GnssBatching).  The adapter is what its other models make of it: it     *)
(* takes commands in order and answers each once with the session's id.    *)
(* A call holds the client's mutex and is one step; a response takes it to *)
(* find its request and acts on the request after releasing it.  The       *)
(* geofences of the client and the control client have modules of their    *)
(* own.                                                                    *)
(***************************************************************************)
EXTENDS ClientFences, ControlClient

CONSTANTS Ids,         \* ids of the client's sessions
          MaxSession,  \* bound: sessions the adapters number, from 1
          NiIds,       \* numbers of network initiated requests
          MaxUnserved  \* bound: calls wait while this many commands are unserved
ASSUME ClientAssumption ==
  /\ Ids \subseteq Nat /\ MaxSession \in Nat /\ NiIds \subseteq Nat \ {0}
  /\ MaxUnserved \in Nat

VARIABLES
  requests,       \* mRequestQueues: session and requests of each kind
  mTracking, mSessionBiDict,
  commands,       \* what the adapters have not served yet
  running,        \* sessions the adapters have started
  lastSession,    \* the last session number given out
  found           \* the request of a response, and what it answers, until done

sessionVars == <<requests, mTracking, mSessionBiDict, commands, running, lastSession, found>>
clientVars == <<mLocationAPI, sessionVars, fenceClientVars, controlVars>>

NoneFound == [queue |-> "none", request |-> "none", answers |-> "none", session |-> 0, ok |-> TRUE]
QueueKinds == {"tracking", "session", "ni"}
ClientInit ==
  /\ FenceClientInit /\ ControlInit
  /\ mTracking = FALSE /\ mSessionBiDict = BiEmpty
  /\ requests = [q \in QueueKinds |-> [session |-> 0, reqs |-> <<>>]]
  /\ commands = <<>> /\ running = {} /\ lastSession = 0 /\ found = NoneFound

Command(op, s, req) == [op |-> op, session |-> s, request |-> req]
Push(q, req) == [requests EXCEPT ![q].reqs = Append(@, req)]
RestartKeeping(q, s, req) == [requests EXCEPT ![q] = [session |-> s, reqs |-> Append(@.reqs, req)]]
Restart(q, s, req) == [requests EXCEPT ![q] = [session |-> s, reqs |-> <<req>>]]
CanCall == mLocationAPI = "set" /\ Len(commands) < MaxUnserved
Fresh == lastSession + 1

locAPISetCallbacks ==
  /\ mLocationAPI = "unset" /\ mLocationAPI' = "set"
  /\ UNCHANGED <<sessionVars, fenceClientVars>>

locAPIStartTrackingAgain ==
  /\ CanCall /\ lastSession < MaxSession
  /\ lastSession' = Fresh
  /\ requests' = Restart("tracking", Fresh, "start")
  /\ commands' = Append(commands, Command("start", Fresh, "start"))
  /\ mTracking' = TRUE
  /\ UNCHANGED <<mLocationAPI, mSessionBiDict, running, found>>
locAPIStartTracking ==
  /\ CanCall /\ lastSession < MaxSession /\ ~mTracking
  /\ lastSession' = Fresh
  /\ requests' = Restart("tracking", Fresh, "start")
  /\ commands' = Append(commands, Command("start", Fresh, "start"))
  /\ mTracking' = TRUE
  /\ UNCHANGED <<mLocationAPI, mSessionBiDict, running, found>>
locAPIStopTracking ==
  /\ CanCall /\ requests["tracking"].session > 0
  /\ requests' = Push("tracking", "stop")
  /\ commands' = Append(commands, Command("stop", requests["tracking"].session, "stop"))
  /\ mTracking' = FALSE
  /\ UNCHANGED <<mLocationAPI, mSessionBiDict, running, lastSession, found>>
locAPIUpdateTrackingOptions ==
  /\ CanCall /\ requests["tracking"].session > 0 /\ mTracking
  /\ requests' = Push("tracking", "update")
  /\ commands' = Append(commands, Command("update", requests["tracking"].session, "update"))
  /\ UNCHANGED <<mLocationAPI, mTracking, mSessionBiDict, running, lastSession, found>>

\* A careful caller waits until what it asked of its sessions is answered.
MayAsk == Careful => (found = NoneFound /\ requests["session"].reqs = <<>>)

\* Sessions by id: a tracking one in mode ON_FIX, else a batching one.  Which
\* adapter serves it makes no difference to the client.
locAPIStartSession(id, mode) ==
  /\ CanCall /\ lastSession < MaxSession /\ MayAsk /\ ~hasId(mSessionBiDict, id)
  /\ lastSession' = Fresh
  /\ requests' = Push("session", "start")
  /\ commands' = Append(commands, Command("start", Fresh, "start"))
  /\ mSessionBiDict' = biSet(mSessionBiDict, id, Fresh, [id |-> id, mode |-> mode])
  /\ UNCHANGED <<mLocationAPI, mTracking, running, found>>
locAPIStopSession(id) ==
  /\ CanCall /\ MayAsk /\ hasId(mSessionBiDict, id)
  /\ requests' = Push("session", "stop")
  /\ commands' = Append(commands, Command("stop", getSession(mSessionBiDict, id), "stop"))
  /\ UNCHANGED <<mLocationAPI, mTracking, mSessionBiDict, running, lastSession, found>>
\* A change of mode between tracking and batching stops the old session and starts a new one, with one
\* request for both, which the response of the start is to find.
SwitchMode(id, mode) ==
  LET s == getSession(mSessionBiDict, id) IN
  /\ lastSession < MaxSession /\ lastSession' = Fresh
  /\ commands' = commands \o <<Command("stop", s, "none"), Command("start", Fresh, "update")>>
  /\ mSessionBiDict' = biSet(rmById(mSessionBiDict, id), id, Fresh, [id |-> id, mode |-> mode])
KeepMode(id, mode) ==
  LET s == getSession(mSessionBiDict, id) IN
  /\ commands' = Append(commands, Command("update", s, "update"))
  /\ mSessionBiDict' = biSet(rmById(mSessionBiDict, id), id, s, [id |-> id, mode |-> mode])
  /\ UNCHANGED lastSession
SessionMode(id) == mSessionBiDict.ext[getSession(mSessionBiDict, id)].mode
locAPIUpdateSessionOptions(id, mode) ==
  /\ CanCall /\ MayAsk /\ hasId(mSessionBiDict, id)
  /\ requests' = Push("session", "update")
  /\ IF (SessionMode(id) = "fix") = (mode = "fix") THEN KeepMode(id, mode) ELSE SwitchMode(id, mode)
  /\ UNCHANGED <<mLocationAPI, mTracking, running, found>>
locAPIGetBatchedLocations(id) ==
  /\ CanCall /\ MayAsk /\ hasId(mSessionBiDict, id)
  /\ SessionMode(id) # "fix"
  /\ requests' = Push("session", "get")
  /\ commands' = Append(commands, Command("get", getSession(mSessionBiDict, id), "get"))
  /\ UNCHANGED <<mLocationAPI, mTracking, mSessionBiDict, running, lastSession, found>>
\* The user's answer to the network request ni, which has a number of its own.
locAPIGnssNiResponse(ni) ==
  /\ CanCall
  /\ requests' = Restart("ni", ni, "ni")
  /\ commands' = Append(commands, Command("ni", ni, "ni"))
  /\ UNCHANGED <<mLocationAPI, mTracking, mSessionBiDict, running, lastSession, found>>
destroyClient ==
  /\ mLocationAPI = "set" /\ mLocationAPI' = "gone"
  /\ requests' = [q \in QueueKinds |-> [session |-> 0, reqs |-> <<>>]]
  /\ commands' = Append(commands, Command("remove", 0, "none"))
  /\ DropFenceRequests
  /\ UNCHANGED <<mTracking, mSessionBiDict, running, lastSession, found>>

\* getRequestBySession: the queue whose session it is, else that of the
\* sessions by id if one of them has the number.
TakesFirst(s) ==
  LET own == {q \in {"tracking", "ni"} : requests[q].session = s} IN
  IF "tracking" \in own THEN "tracking" ELSE IF "ni" \in own THEN "ni" ELSE "none"
getRequestBySession(s) ==
  LET first == TakesFirst(s) IN
  IF first # "none" /\ requests[first].reqs # <<>> THEN first
  ELSE IF hasSession(mSessionBiDict, s) /\ requests["session"].reqs # <<>> THEN "session"
  ELSE "none"
\* The adapters serve the next command; the response finds its request.
Serve ==
  /\ commands # <<>> /\ found = NoneFound
  /\ commands' = Tail(commands)
  /\ LET c == Head(commands)
         q == getRequestBySession(c.session)
     IN \E ok \in BOOLEAN :
          /\ c.op \in {"stop", "update", "get"} => ok = (c.session \in running)
          /\ running' = CASE c.op = "start" /\ ok -> running \cup {c.session}
                          [] c.op = "stop" -> running \ {c.session}
                          [] c.op = "remove" -> {}
                          [] OTHER -> running
          /\ IF q = "none" THEN UNCHANGED <<requests, found>>
             ELSE /\ requests' = [requests EXCEPT ![q].reqs = Tail(@)]
                  /\ found' = [queue |-> q, request |-> Head(requests[q].reqs), answers |-> c.request,
                               session |-> c.session, ok |-> ok]
  /\ UNCHANGED <<mLocationAPI, mTracking, mSessionBiDict, lastSession>>
\* onResponse of the request: a refused start and a stop that succeeded end
\* the session for the client.
ForgetsOnResponse(f) == (f.request = "start" /\ ~f.ok) \/ (f.request = "stop" /\ f.ok)
onResponse ==
  /\ found # NoneFound /\ found' = NoneFound
  /\ mSessionBiDict' = IF ForgetsOnResponse(found) /\ hasSession(mSessionBiDict, found.session)
                       THEN rmBySession(mSessionBiDict, found.session) ELSE mSessionBiDict
  /\ UNCHANGED <<mLocationAPI, requests, mTracking, commands, running, lastSession>>

\* The batching adapter completes trips: the user hears of them by their ids,
\* and they are forgotten.
beforeBatchingStatusCb ==
  /\ \E trips \in (SUBSET running) \ {{}} :
       /\ \A s \in trips : hasSession(mSessionBiDict, s) /\ mSessionBiDict.ext[s].mode = "trip"
       /\ running' = running \ trips
       /\ mSessionBiDict' = rmSessions(mSessionBiDict, trips)
  /\ UNCHANGED <<mLocationAPI, requests, mTracking, commands, lastSession, found>>

LifeNext == locAPISetCallbacks \/ destroyClient
SessionsNext ==
  \/ locAPIStartTracking \/ locAPIStopTracking \/ locAPIUpdateTrackingOptions
  \/ \E id \in Ids, mode \in {"fix", "batch", "trip"} :
       locAPIStartSession(id, mode) \/ locAPIUpdateSessionOptions(id, mode)
  \/ \E id \in Ids : locAPIStopSession(id) \/ locAPIGetBatchedLocations(id)
  \/ \E ni \in NiIds : locAPIGnssNiResponse(ni)
  \/ Serve \/ onResponse \/ beforeBatchingStatusCb
ClientNext ==
  \/ LifeNext /\ UNCHANGED controlVars
  \/ SessionsNext /\ UNCHANGED <<fenceClientVars, controlVars>>
  \/ FenceClientNext /\ UNCHANGED <<mLocationAPI, sessionVars, controlVars>>
  \/ ControlNext /\ UNCHANGED <<mLocationAPI, sessionVars, fenceClientVars>>

\* LocationAPI.h:64: the session's id is used "in the responseCallback to match
\* command with response": whatever is asked, and of whichever session, the
\* request a response is handed to is the one whose command it answers.
AnswersMatch == found.request = found.answers

\* That much of it the tracking session and the answers to network requests
\* have, however calls overlap and a start overtakes what was asked of the
\* session before it: their responses are handed to the requests they are for,
\* but for a number that a session and a network request share.
TrackingAnswersMatch ==
  \/ found.queue = "tracking" /\ found.session \notin NiIds
  \/ found.queue = "ni" /\ found.session > lastSession
  => found.request = found.answers

\* No session runs in the adapters that the client could not stop: it is the
\* one tracked, or is known under an id, or its stop is on the way
\* (LocationAPIClientBase.cpp:479, :543, :946).  Claimed of callers that wait for
\* their answers (Careful), with network requests numbered apart: for others a
\* stop may take the answer of a start and forget the session that runs.
NoOrphan ==
  \A s \in running :
    \/ mTracking /\ requests["tracking"].session = s
    \/ hasSession(mSessionBiDict, s) /\ getSession(mSessionBiDict, getId(mSessionBiDict, s)) = s
    \/ \E i \in DOMAIN commands : commands[i].op = "remove" \/
         (commands[i].op = "stop" /\ commands[i].session = s)
=============================================================================
