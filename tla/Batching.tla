------------------------------ MODULE Batching ------------------------------
(***************************************************************************)
(* BatchingAdapter.cpp: batching sessions, of which trip sessions share    *)
(* the modem's one outdoor trip, and the registration for the event that   *)
(* the batch is full.  Commands, the modem's responses and its events are  *)
(* messages of the adapter's thread; commands wait until the engine's      *)
(* capabilities are known.  Distances and intervals of trips are left out: *)
(* whether the ongoing trip has to be restarted for another one is open.   *)
(* The modem is external and serves requests in order.                     *)
(***************************************************************************)
EXTENDS Naturals, SequencesExt, FiniteSetsExt

CONSTANTS BatchIds,    \* ids that generateSessionId gives out
          BatchClient, \* the client each is given to
          Refused,     \* ids whose options the modem does not accept
          MaxBatch,    \* bound: callers wait at this many messages
          MaxCrashes   \* bound: crashes of the modem
ASSUME BatchAssumption ==
  /\ BatchIds \subseteq Nat /\ IsFiniteSet(BatchIds) /\ Refused \subseteq BatchIds
  /\ MaxBatch \in Nat /\ MaxCrashes \in Nat

Modes == {"routine", "trip", "noAutoReport"}
NoSession == "none"

VARIABLES
  mBatchingSessions, \* the mode of each session, or NoSession
  mTripSessions,     \* sessions that take part in the outdoor trip
  batchFull,         \* the mask has LOC_API_ADAPTER_BIT_BATCH_FULL
  capabilitiesKnown, pendingBatch, \* mPendingMsgs until they are
  batchMsgs,         \* messages of the adapter's thread
  batchRequests,     \* requests the modem has not served
  batching,          \* sessions, with their mode, that the modem runs
  tripRunning,       \* the modem runs the outdoor trip
  modemUp, crashes,
  startedIds,        \* ids given out
  excused             \* auxiliary: the modem refused to stop a session, or answered
                      \* about a trip that had ended meanwhile

sessionState == <<mBatchingSessions, mTripSessions, batchFull>>
batchModem == <<batching, tripRunning, modemUp, crashes, excused>>
batchVars == <<sessionState, capabilitiesKnown, pendingBatch, batchMsgs, batchRequests,
               batchModem, startedIds>>

BatchInit ==
  /\ mBatchingSessions = [s \in BatchIds |-> NoSession] /\ mTripSessions = {}
  /\ batchFull = FALSE /\ capabilitiesKnown = FALSE /\ pendingBatch = <<>>
  /\ batchMsgs = <<>> /\ batchRequests = <<>>
  /\ batching = [s \in BatchIds |-> NoSession] /\ tripRunning = FALSE
  /\ modemUp = FALSE /\ crashes = 0 /\ startedIds = {}
  /\ excused = FALSE

\* The mode a message carries is the one asked for; restart tells an update
\* from a stop; ok is the modem's answer; had the mode of a session to be stopped.
BMsg(op, id, mode, restart) ==
  [op |-> op, id |-> id, mode |-> mode, restart |-> restart, ok |-> TRUE, had |-> NoSession]

\* Commands of the clients.
BatchesUnderWay == Len(batchMsgs) + Len(batchRequests) + Len(pendingBatch)
Callable == BatchesUnderWay < MaxBatch
PostBatch(m) ==
  /\ batchMsgs' = Append(batchMsgs, m)
  /\ UNCHANGED <<sessionState, capabilitiesKnown, pendingBatch, batchRequests, batchModem>>
startBatchingCommand(s, mode) ==
  /\ Callable /\ s \notin startedIds /\ startedIds' = startedIds \cup {s}
  /\ PostBatch(BMsg("start", s, mode, FALSE))
BatchCommand(m) ==
  /\ Callable /\ m.id \in startedIds /\ PostBatch(m) /\ UNCHANGED startedIds
updateBatchingOptionsCommand(s, mode) == BatchCommand(BMsg("update", s, mode, TRUE))
stopBatchingCommand(s) == BatchCommand(BMsg("stop", s, "routine", FALSE))
getBatchedLocationsCommand(s) == BatchCommand(BMsg("fetch", s, "routine", FALSE))
\* LocAdapterBase's addClientCommand and removeClientCommand, of s's client.
addBatchClientCommand(s) ==
  Callable /\ PostBatch(BMsg("addClient", s, "routine", FALSE)) /\ UNCHANGED startedIds
removeBatchClientCommand(s) == BatchCommand(BMsg("removeClient", s, "routine", FALSE))

\* The state a handler works on: the sessions, the trips, the registration and
\* the requests it has sent to the modem.
Now == [ss |-> mBatchingSessions, ts |-> mTripSessions, full |-> batchFull, rs |-> <<>>]
Send(st, op, s, mode, restart) == [st EXCEPT !.rs = Append(@, BMsg(op, s, mode, restart))]
saveBatchingSession(st, s, mode) == [st EXCEPT !.ss[s] = mode]
eraseBatchingSession(st, s) == [st EXCEPT !.ss[s] = NoSession]
\* A trip in both maps counts twice.
autoReportBatchingSessionsCount(st) ==
  Cardinality({s \in BatchIds : st.ss[s] \notin {NoSession, "noAutoReport"}}) + Cardinality(st.ts)
EnableBatching(st, mode) ==
  IF mode # "noAutoReport" /\ autoReportBatchingSessionsCount(st) = 0
  THEN [st EXCEPT !.full = TRUE] ELSE st
DisableIfLast(st, mode) ==
  IF mode # "noAutoReport" /\ autoReportBatchingSessionsCount(st) = 0
  THEN [st EXCEPT !.full = FALSE] ELSE st

startBatching(st, s, mode) ==
  Send(saveBatchingSession(EnableBatching(st, mode), s, mode), "startBatching", s, mode, FALSE)
\* Only the first trip is saved as a session; for another one the modem is asked
\* how far the trip came.
startTripBatchingMultiplex(st, s) ==
  IF st.ts = {}
  THEN Send([saveBatchingSession(EnableBatching(st, "trip"), s, "trip") EXCEPT !.ts = {s}],
            "startTrip", s, "trip", FALSE)
  ELSE Send(st, "queryTrip", s, "trip", FALSE)
Begin(st, s, mode) ==
  IF mode = "trip" THEN startTripBatchingMultiplex(st, s) ELSE startBatching(st, s, mode)

\* stopBatching; the request carries the mode the session had in "had".
stopBatching(st, s, mode, restart) ==
  IF st.ss[s] = NoSession THEN st
  ELSE [eraseBatchingSession(st, s) EXCEPT
          !.rs = Append(@, [BMsg("stopBatching", s, mode, restart) EXCEPT !.had = st.ss[s]])]
restartTripBatching(st) ==
  IF st.ts = {} THEN DisableIfLast(Send(st, "endTrip", 0, "trip", FALSE), "trip")
  ELSE Send(st, "requeryTrip", 0, "trip", FALSE)
\* The session stays among mBatchingSessions unless it is to be restarted.
stopTripBatchingMultiplexCommon(st, s, mode, restart) ==
  LET gone == [st EXCEPT !.ts = @ \ {s}]
      rest == IF gone.ts = {} THEN gone ELSE restartTripBatching(gone)
  IN IF restart THEN Begin(eraseBatchingSession(rest, s), s, mode) ELSE rest
stopTripBatchingMultiplex(st, s, mode, restart) ==
  IF Cardinality(st.ts) = 1 THEN Send(st, "stopTrip", s, mode, restart)
  ELSE stopTripBatchingMultiplexCommon(st, s, mode, restart)

\* The adapter looks a session up before it stops or updates it.
StopOrUpdate(m) ==
  IF mBatchingSessions[m.id] = NoSession THEN Now
  ELSE IF m.id \in mTripSessions THEN stopTripBatchingMultiplex(Now, m.id, m.mode, m.restart)
  ELSE stopBatching(Now, m.id, m.mode, m.restart)
updateClientsEventMask(st) == [st EXCEPT !.full = autoReportBatchingSessionsCount(st) > 0]
\* The maps are in the order of the ids.
Ascending(S) == {p \in [1 .. Cardinality(S) -> S] : \A i, j \in DOMAIN p : i < j => p[i] < p[j]}
\* Removing a client stops its sessions, in turn, each by the mode it was saved with.
SessionsOf(c) == {s \in BatchIds : BatchClient[s] = c /\ mBatchingSessions[s] # NoSession}
StopAsSaved(st, s) ==
  IF mBatchingSessions[s] = "trip" THEN stopTripBatchingMultiplex(st, s, "routine", FALSE)
  ELSE stopBatching(st, s, "routine", FALSE)
stopBatchSessions(order) ==
  LET after[i \in 0 .. Len(order)] == IF i = 0 THEN Now ELSE StopAsSaved(after[i - 1], order[i])
  IN after[Len(order)]

\* The modem's responses.
StartDone(m) == IF m.ok THEN Now ELSE DisableIfLast(eraseBatchingSession(Now, m.id), m.mode)
StopDoneUncounted(m) ==
  IF ~m.ok THEN saveBatchingSession(Now, m.id, m.mode)
  ELSE LET st == IF m.had = "noAutoReport" THEN Now ELSE [Now EXCEPT !.full = FALSE]
       IN IF m.restart THEN Begin(st, m.id, m.mode) ELSE st
\* A failed stop saves the session with the options of the update, or with none.
StopDone(m) ==
  IF ~m.ok THEN saveBatchingSession(Now, m.id, m.mode)
  ELSE LET st == DisableIfLast(Now, m.had)
       IN IF m.restart THEN Begin(st, m.id, m.mode) ELSE st
StartTripDone(m) ==
  IF m.ok THEN Now
  ELSE DisableIfLast([eraseBatchingSession(Now, m.id) EXCEPT !.ts = @ \ {m.id}], "trip")
StopTripDone(m) ==
  LET st == IF m.ok /\ autoReportBatchingSessionsCount(Now) = 1 THEN [Now EXCEPT !.full = FALSE] ELSE Now
  IN stopTripBatchingMultiplexCommon(st, m.id, m.mode, m.restart)
\* A query answered: the new trip is added, and the modem's trip perhaps restarted.
QueryTripDone(m, again) ==
  LET st == IF m.ok THEN [Now EXCEPT !.ts = @ \cup {m.id}] ELSE Now
  IN IF again THEN Send(st, "reStartTrip", m.id, "trip", FALSE) ELSE st
RequeryTripDone(again) ==
  IF again THEN Send(Now, "reStartTrip", 0, "trip", FALSE) ELSE Now
\* reportCompletedTripsEvent: the trips that came far enough end.
CompletedTrips(done) ==
  IF done = {} THEN Now ELSE restartTripBatching([Now EXCEPT !.ts = @ \ done])
\* restartSessions, after the modem came back.
PlainSessions == {s \in BatchIds : mBatchingSessions[s] \notin {NoSession, "trip"}}
restartSessions(order) ==
  LET again == [i \in DOMAIN order |-> BMsg("startAgain", order[i], mBatchingSessions[order[i]], FALSE)]
      st == [Now EXCEPT !.full = @ \/ autoReportBatchingSessionsCount(Now) > 0, !.rs = again]
  IN IF mTripSessions = {} THEN st
     ELSE Send(st, "startTripAgain", CHOOSE s \in mTripSessions : TRUE, "trip", FALSE)

Save(st) ==
  /\ mBatchingSessions' = st.ss /\ mTripSessions' = st.ts /\ batchFull' = st.full
  /\ batchRequests' = batchRequests \o st.rs
Apply(st) == Save(st) /\ batchMsgs' = Tail(batchMsgs)
NeedsEngine == {"start", "update", "stop", "fetch"}
HandlePending(m) ==
  /\ pendingBatch' = Append(pendingBatch, m) /\ batchMsgs' = Tail(batchMsgs)
  /\ UNCHANGED <<sessionState, batchRequests, capabilitiesKnown>>
\* MsgSSREvent: the sessions are restarted, then what waited is sent again.
handleBatchEngineUp ==
  /\ capabilitiesKnown' = TRUE
  /\ \E order \in Ascending(PlainSessions) : Save(restartSessions(order))
  /\ batchMsgs' = Tail(batchMsgs) \o pendingBatch /\ pendingBatch' = <<>>
HandleOther(m) ==
  /\ \/ m.op = "start" /\ Apply(Begin(Now, m.id, m.mode))
     \/ m.op \in {"stop", "update"} /\ Apply(StopOrUpdate(m))
     \/ /\ m.op = "removeClient"
        /\ \E order \in Ascending(SessionsOf(BatchClient[m.id])) :
             Apply(updateClientsEventMask(stopBatchSessions(order)))
     \/ m.op = "addClient" /\ Apply(updateClientsEventMask(Now))
     \/ m.op = "startBatching" /\ Apply(StartDone(m))
     \/ m.op = "stopBatching" /\ Apply(StopDone(m))
     \/ m.op = "startTrip" /\ Apply(StartTripDone(m))
     \/ m.op = "stopTrip" /\ Apply(StopTripDone(m))
     \/ m.op = "queryTrip" /\ \E again \in BOOLEAN : Apply(QueryTripDone(m, again))
     \/ m.op = "requeryTrip" /\ \E again \in BOOLEAN : Apply(RequeryTripDone(again))
     \/ m.op = "completed" /\ \E done \in SUBSET mTripSessions : Apply(CompletedTrips(done))
     \/ m.op \in {"fetch", "startAgain", "startTripAgain", "reStartTrip", "endTrip", "report"} /\ Apply(Now)
  /\ UNCHANGED <<capabilitiesKnown, pendingBatch>>
\* An answer about a trip that ended while it was on its way.
TripOver(m) ==
  \/ m.op = "queryTrip" /\ m.ok /\ mTripSessions = {}
  \/ m.op = "stopTrip" /\ m.id \notin mTripSessions
HandleBatch ==
  /\ batchMsgs # <<>>
  /\ LET m == Head(batchMsgs)
     IN IF m.op = "engineUp" THEN handleBatchEngineUp
        ELSE IF m.op \in NeedsEngine /\ ~capabilitiesKnown THEN HandlePending(m)
        ELSE HandleOther(m)
  /\ excused' = (excused \/ TripOver(Head(batchMsgs)))
  /\ UNCHANGED <<batching, tripRunning, modemUp, crashes, startedIds>>

\* The modem (external).  It refuses to start what it does not accept and to
\* stop what does not run, and a crash fails what it had not served.
Accepts(r) ==
  /\ modemUp
  /\ CASE r.op = "stopBatching" -> batching[r.id] # NoSession
       [] r.op \in {"stopTrip", "endTrip", "reStartTrip"} -> tripRunning
       [] r.op \in {"startBatching", "startAgain", "startTrip", "startTripAgain"} -> r.id \notin Refused
       [] OTHER -> TRUE
ServeBatch(r) ==
  LET ok == Accepts(r) IN
    /\ batchMsgs' = Append(batchMsgs, [r EXCEPT !.ok = ok])
    /\ excused' = (excused \/ (r.op = "stopBatching" /\ ~ok))
    /\ batching' = IF ~ok THEN batching
                   ELSE CASE r.op \in {"startBatching", "startAgain"} -> [batching EXCEPT ![r.id] = r.mode]
                          [] r.op = "stopBatching" -> [batching EXCEPT ![r.id] = NoSession]
                          [] OTHER -> batching
    /\ tripRunning' = IF ~ok THEN tripRunning
                      ELSE CASE r.op \in {"startTrip", "startTripAgain"} -> TRUE
                             [] r.op \in {"stopTrip", "endTrip"} -> FALSE
                             [] OTHER -> tripRunning
ModemServesBatch ==
  /\ batchRequests # <<>> /\ ServeBatch(Head(batchRequests))
  /\ batchRequests' = Tail(batchRequests)
  /\ UNCHANGED <<sessionState, capabilitiesKnown, pendingBatch, modemUp, crashes, startedIds>>
ModemComesUp ==
  /\ ~modemUp /\ modemUp' = TRUE
  /\ batchMsgs' = Append(batchMsgs, BMsg("engineUp", 0, "routine", FALSE))
  /\ UNCHANGED <<sessionState, capabilitiesKnown, pendingBatch, batchRequests, batching,
                 tripRunning, crashes, excused, startedIds>>
ModemGoesDown ==
  /\ modemUp /\ crashes < MaxCrashes /\ modemUp' = FALSE /\ crashes' = crashes + 1
  /\ batching' = [s \in BatchIds |-> NoSession] /\ tripRunning' = FALSE
  /\ batchMsgs' = batchMsgs \o [i \in DOMAIN batchRequests |-> [batchRequests[i] EXCEPT !.ok = FALSE]]
  /\ batchRequests' = <<>>
  /\ excused' = (excused \/ \E r \in Range(batchRequests) : r.op = "stopBatching")
  /\ UNCHANGED <<sessionState, capabilitiesKnown, pendingBatch, startedIds>>
\* reportLocations and reportBatchStatusChange only call the clients.
ModemReports(op) ==
  /\ Callable /\ modemUp /\ PostBatch(BMsg(op, 0, "trip", FALSE)) /\ UNCHANGED startedIds

BatchCallers(ids) == \E s \in ids :
  \/ \E mode \in Modes : startBatchingCommand(s, mode) \/ updateBatchingOptionsCommand(s, mode)
  \/ stopBatchingCommand(s) \/ getBatchedLocationsCommand(s)
  \/ addBatchClientCommand(s) \/ removeBatchClientCommand(s)
BatchEvents == (tripRunning /\ ModemReports("completed")) \/ ModemReports("report")
BatchServed == HandleBatch \/ ModemServesBatch \/ ModemComesUp \/ ModemGoesDown
BatchNext == BatchCallers(BatchIds) \/ BatchEvents \/ BatchServed

\* With nothing under way, a session or a trip that the adapter keeps and the
\* modem runs, and that reports when its batch is full, has the event registered,
\* whatever started, stopped, failed or was restarted around it
\* (BatchingAdapter.cpp:376, :392, :516, :872).  It need not hold once the modem
\* refused a stop, or answered about a trip that had ended: a session or trip is
\* kept then that does not run, and counted, so that the next is not registered.
BatchQuiet == batchMsgs = <<>> /\ batchRequests = <<>> /\ modemUp
BatchRegistered ==
  \/ batchFull
  \/ /\ ~tripRunning \/ mTripSessions = {}
     /\ \A s \in BatchIds : ~(batching[s] = "routine" /\ mBatchingSessions[s] = "routine")
FullReported == BatchQuiet /\ ~excused => BatchRegistered

\* BatchingAdapter.cpp:870: "unregister for batch full event if this was the
\* last batching session that is interested in batch full event".
FullUnregistered ==
  BatchQuiet /\ ~tripRunning /\ (\A s \in BatchIds : batching[s] = NoSession) => ~batchFull
=============================================================================
