---------------------------- MODULE GnssTracking ----------------------------
(***************************************************************************)
(* The tracking sessions of the GNSS adapter (src/gps/gnss/GnssAdapter.cpp).*)
(*                                                                         *)
(* Client threads post commands to the one message thread of the adapter   *)
(* (msgs, FIFO).  Its handlers keep two session maps, mTimeBasedTracking-  *)
(* Sessions (time) and mDistanceBasedTrackingSessions (dist).  All time    *)
(* based sessions share ONE engine session: each handler computes whether  *)
(* the engine must be restarted with new options and posts the request to  *)
(* the modem interface LocApi (api, FIFO), which answers later with a      *)
(* response message.  The modem may crash at any moment (SSR); the message *)
(* that reopens it makes the adapter restart every session.                *)
(*                                                                         *)
(* A session key (client, id) is one number of Ids: its place in the key   *)
(* order of the session maps.  Every id belongs to the client Owner[id].   *)
(***************************************************************************)
EXTENDS Integers, Sequences, FiniteSets

CONSTANTS
  Clients,             \* the LocationAPI instances
  TrackingClients,     \* those that registered a callback tracking needs
  Ids,                 \* session keys, in the order of the maps
  Owner,               \* the client each key belongs to
  Options,             \* the TrackingOptions clients ask for
  None,                \* no options: the key is not in the map
  MinInterval,         \* MIN_TRACKING_INTERVAL
  DistanceSupported,   \* the modem supports distance based tracking
  Patient,             \* clients wait for an answer before they go on
  MaxCmds,             \* bound: commands clients issue
  MaxQueue,            \* bound: clients post nothing while this much is queued
  MaxSsr,              \* bound: modem restarts
  MaxFails,            \* bound: requests the modem rejects while it is up
  MaxConfigs           \* bound: changes of the robust location configuration

INVALID == 0
M2 == 2
M4 == 4
PowerModes == 0 .. 5

\* TrackingOptions: size is zero for options never filled in; longTbm says
\* that tbm exceeds TRACKING_TBM_THRESHOLD_MILLIS; distance is minDistance > 0.
OptionType ==
  [size : {0, 1}, minInterval : Nat, powerMode : PowerModes,
   longTbm : BOOLEAN, distance : BOOLEAN]

ASSUME ConstantsOK ==
  /\ TrackingClients \subseteq Clients
  /\ Ids \subseteq Nat /\ IsFiniteSet(Ids)
  /\ Owner \in [Ids -> Clients]
  /\ Options \subseteq OptionType
  /\ None \notin OptionType
  /\ MinInterval \in Nat
  /\ DistanceSupported \in BOOLEAN
  /\ Patient \in BOOLEAN
  /\ MaxCmds \in Nat /\ MaxQueue \in Nat /\ MaxSsr \in Nat /\ MaxFails \in Nat
  /\ MaxConfigs \in Nat

VARIABLES
  msgs,        \* queue of the adapter's MsgTask
  pending,     \* mPendingMsgs
  clients,     \* keys of mClientData
  time,        \* mTimeBasedTrackingSessions
  dist,        \* mDistanceBasedTrackingSessions
  powerOn,     \* mPowerOn
  capsKnown,   \* mIsEngineCapabilitiesKnown
  api,         \* requests LocApi has accepted and not yet executed
  engine,      \* the modem: up, its time based session, its distance sessions
  life,        \* each LocationAPI instance: none, live or gone
  issued,      \* commands issued so far, in order
  answers,     \* how often each of them was answered
  ssrs,        \* modem restarts so far
  fails,       \* rejected requests so far
  configs      \* configuration changes so far

adapterVars == <<clients, time, dist, powerOn, capsKnown, pending>>
clientVars == <<life, issued, configs>>
modemVars == <<engine, ssrs, fails>>
vars == <<msgs, api, answers, adapterVars, clientVars, modemVars>>

Cmds == 1 .. MaxCmds
NoCmd == 0

-----------------------------------------------------------------------------
(* Messages of the adapter's queue, requests to LocApi, and the            *)
(* continuations (the lambdas of LocApiResponse) that tie them together.   *)

Cont ==
       [k : {"started", "stopped", "distStopped", "clientDistStopped"},
        id : Ids, cmd : Cmds \cup {NoCmd}]
  \cup [k : {"updated", "switched", "distRestart", "distRestarted"},
        id : Ids, cmd : Cmds \cup {NoCmd}, opt : OptionType]
  \cup [k : {"ignore"}]
NoCont == [k |-> "none"]

Command ==
       [t : {"start", "update"}, id : Ids, opt : OptionType, cmd : Cmds]
  \cup [t : {"stop"}, id : Ids, cmd : Cmds]
Msg ==
       Command
  \cup [t : {"add", "remove"}, client : Clients]
  \cup [t : {"resp"}, cont : Cont, ok : BOOLEAN]
  \cup [t : {"engineUp", "config"}]

Request ==
       [op : {"startTB"}, opt : OptionType, cont : Cont \cup {NoCont}]
  \cup [op : {"stopFix"}, cont : Cont \cup {NoCont}]
  \cup [op : {"startDB", "stopDB"}, id : Ids, cont : Cont]
  \cup [op : {"open"}]

TypeOK ==
  /\ msgs \in Seq(Msg)
  /\ pending \in Seq(Command)
  /\ clients \subseteq Clients
  /\ time \in [Ids -> OptionType \cup {None}]
  /\ dist \in [Ids -> OptionType \cup {None}]
  /\ powerOn \in BOOLEAN
  /\ capsKnown \in BOOLEAN
  /\ api \in Seq(Request)
  /\ engine \in [up : BOOLEAN, tb : OptionType \cup {None}, db : SUBSET Ids]
  /\ life \in [Clients -> {"none", "live", "gone"}]
  /\ issued \in Seq([op : {"start", "update", "stop"}, id : Ids,
                     valid : BOOLEAN])
  /\ Len(issued) <= MaxCmds
  /\ answers \in [Cmds -> Nat]
  /\ ssrs \in 0 .. MaxSsr
  /\ fails \in 0 .. MaxFails
  /\ configs \in 0 .. MaxConfigs

-----------------------------------------------------------------------------
(* Sessions.                                                               *)

TimeIds == {id \in Ids : time[id] # None}
DistIds == {id \in Ids : dist[id] # None}

\* The first session, in map order, of those with the smallest interval.
SmallestInterval(S) ==
  CHOOSE s \in S : \A t \in S :
    \/ time[s].minInterval < time[t].minInterval
    \/ time[s].minInterval = time[t].minInterval /\ s <= t

LeastPower(S) ==
  CHOOSE p \in {time[s].powerMode : s \in S} :
    \A s \in S : p <= time[s].powerMode

\* The loops that compute multiplexedPowerMode start from INVALID and take
\* the next session's mode whenever they hold INVALID: a session with an
\* INVALID mode makes them forget the sessions before it.
MultiplexedPower(S) ==
  LET tail == {s \in S : \A z \in S : time[z].powerMode = INVALID => z < s}
  IN  IF tail = {} THEN INVALID ELSE LeastPower(tail)

ClampInterval(opt) ==
  [opt EXCEPT !.minInterval = IF @ < MinInterval THEN MinInterval ELSE @]
TbmFallback(opt) ==
  IF opt.powerMode = M4 /\ opt.longTbm THEN [opt EXCEPT !.powerMode = M2]
                                       ELSE opt

IsDistance(opt) == opt.distance /\ DistanceSupported

reportPowerStateIfChanged ==
  powerOn' = (\E id \in Ids : time'[id] # None \/ dist'[id] # None)

saveTrackingSession(id, opt) ==
  /\ IF IsDistance(opt)
       THEN dist' = [dist EXCEPT ![id] = opt] /\ UNCHANGED time
       ELSE time' = [time EXCEPT ![id] = opt] /\ UNCHANGED dist
  /\ reportPowerStateIfChanged

\* Mutant: the framework is not told that the last session has ended.
eraseTrackingSessionUnreported(id) ==
  /\ IF time[id] # None
       THEN time' = [time EXCEPT ![id] = None] /\ UNCHANGED dist
       ELSE dist' = [dist EXCEPT ![id] = None] /\ UNCHANGED time
  /\ UNCHANGED powerOn

eraseTrackingSession(id) ==
  /\ IF time[id] # None
       THEN time' = [time EXCEPT ![id] = None] /\ UNCHANGED dist
       ELSE dist' = [dist EXCEPT ![id] = None] /\ UNCHANGED time
  /\ reportPowerStateIfChanged

\* The answer to command cmd of the owner of id; a client that is not (or no
\* longer) registered gets none.
reportResponse(id, cmd) ==
  answers' = IF Owner[id] \in clients /\ cmd # NoCmd
               THEN [answers EXCEPT ![cmd] = @ + 1] ELSE answers

-----------------------------------------------------------------------------
(* Multiplexing.  Each operator is the sequence of requests (none or one)  *)
(* the code sends; the client is answered at once iff there is none.       *)

StartTB(opt, cont) == [op |-> "startTB", opt |-> opt, cont |-> cont]
Started(id, cmd) == [k |-> "started", id |-> id, cmd |-> cmd]

\* Mutant: a faster session raises only the power mode of the engine session.
startTimeBasedTrackingMultiplexSlow(id, opt, cmd) ==
  LET base == time[SmallestInterval(TimeIds)]
      power == MultiplexedPower(TimeIds)
      mux == [base EXCEPT !.powerMode = IF opt.powerMode < power
                                          THEN opt.powerMode ELSE @]
  IN  IF TimeIds = {} THEN <<StartTB(opt, Started(id, cmd))>>
      ELSE IF opt.minInterval < base.minInterval \/ opt.powerMode < power
        THEN <<StartTB(mux, Started(id, cmd))>>
      ELSE << >>

startTimeBasedTrackingMultiplex(id, opt, cmd) ==
  LET base == time[SmallestInterval(TimeIds)]
      faster == opt.minInterval < base.minInterval
      stronger == opt.powerMode < MultiplexedPower(TimeIds)
      mux == [base EXCEPT
                !.minInterval = IF faster THEN opt.minInterval ELSE @,
                !.powerMode = IF stronger THEN opt.powerMode ELSE @]
  IN  IF TimeIds = {} THEN <<StartTB(opt, Started(id, cmd))>>
      ELSE IF faster \/ stronger THEN <<StartTB(mux, Started(id, cmd))>>
      ELSE << >>

updateTrackingMultiplex(id, opt, cmd) ==
  LET others == TimeIds \ {id}
      base == time[SmallestInterval(others)]
      faster == opt.minInterval < base.minInterval
      stronger == opt.powerMode < MultiplexedPower(others)
      mux == [base EXCEPT
                !.minInterval = IF faster THEN opt.minInterval ELSE @,
                !.powerMode = IF stronger THEN opt.powerMode ELSE @]
      updated == [k |-> "updated", id |-> id, cmd |-> cmd, opt |-> time[id]]
  IN  IF /\ time[id].minInterval = opt.minInterval
         /\ time[id].powerMode = opt.powerMode THEN << >>
      ELSE IF others = {} THEN <<StartTB(opt, updated)>>
      ELSE IF faster \/ stronger THEN <<StartTB(mux, updated)>>
      ELSE << >>

stopTimeBasedTrackingMultiplex(id, cmd) ==
  LET others == TimeIds \ {id}
      base == time[SmallestInterval(others)]
      power == MultiplexedPower(others)
      stopped == [k |-> "stopped", id |-> id, cmd |-> cmd]
  IN  IF others = {} THEN <<[op |-> "stopFix", cont |-> stopped]>>
      ELSE IF \/ time[id].minInterval < base.minInterval
              \/ time[id].powerMode < power
        THEN <<StartTB([base EXCEPT !.powerMode = power], Started(id, cmd))>>
      ELSE << >>

\* Mutant: the client is never answered here.
SendOnly(reqs, id, cmd) == api' = api \o reqs /\ UNCHANGED answers

\* Send the requests reqs; when there are none, answer the client now.
SendOrReport(reqs, id, cmd) ==
  /\ api' = api \o reqs
  /\ IF reqs = << >> THEN reportResponse(id, cmd) ELSE UNCHANGED answers

-----------------------------------------------------------------------------
(* Client threads.                                                         *)

CanPost == Len(msgs) + Len(api) < MaxQueue

\* A patient client has no unanswered command about key id.
NothingPending(id) ==
  \A n \in DOMAIN issued : issued[n].id = id => answers[n] # 0

Issue(op, id, valid) ==
  /\ CanPost
  /\ life[Owner[id]] = "live"
  /\ Patient => NothingPending(id)
  /\ Len(issued) < MaxCmds
  /\ issued' = Append(issued, [op |-> op, id |-> id, valid |-> valid])

addClientCommand(c) ==
  /\ CanPost
  /\ life[c] = "none"
  /\ life' = [life EXCEPT ![c] = "live"]
  /\ msgs' = Append(msgs, [t |-> "add", client |-> c])
  /\ UNCHANGED <<api, answers, adapterVars, issued, configs, modemVars>>

removeClientCommand(c) ==
  /\ CanPost
  /\ life[c] = "live"
  /\ Patient => \A id \in Ids : Owner[id] = c => NothingPending(id)
  /\ life' = [life EXCEPT ![c] = "gone"]
  /\ msgs' = Append(msgs, [t |-> "remove", client |-> c])
  /\ UNCHANGED <<api, answers, adapterVars, issued, configs, modemVars>>

KnownToClient(id) ==
  \E i \in DOMAIN issued : issued[i].op = "start" /\ issued[i].id = id

\* generateSessionId gives a start an id no other session has.
startTrackingCommand(id, opt) ==
  /\ ~KnownToClient(id)
  /\ Issue("start", id, opt.size # 0)
  /\ msgs' = Append(msgs, [t |-> "start", id |-> id, opt |-> opt,
                           cmd |-> Len(issued) + 1])
  /\ UNCHANGED <<api, answers, adapterVars, life, configs, modemVars>>

updateTrackingOptionsCommand(id, opt) ==
  /\ KnownToClient(id)
  /\ Issue("update", id, opt.size # 0)
  /\ msgs' = Append(msgs, [t |-> "update", id |-> id, opt |-> opt,
                           cmd |-> Len(issued) + 1])
  /\ UNCHANGED <<api, answers, adapterVars, life, configs, modemVars>>

stopTrackingCommand(id) ==
  /\ KnownToClient(id)
  /\ Issue("stop", id, TRUE)
  /\ msgs' = Append(msgs, [t |-> "stop", id |-> id, cmd |-> Len(issued) + 1])
  /\ UNCHANGED <<api, answers, adapterVars, life, configs, modemVars>>

\* A LocationControlAPI client changes the robust location configuration.
configRobustLocationCommand ==
  /\ CanPost
  /\ configs < MaxConfigs
  /\ configs' = configs + 1
  /\ msgs' = Append(msgs, [t |-> "config"])
  /\ UNCHANGED <<api, answers, adapterVars, life, issued, modemVars>>

-----------------------------------------------------------------------------
(* Handlers of the adapter's message thread, one per message.              *)

Handle(t) == msgs # << >> /\ Head(msgs).t = t

ProcAddClient ==
  /\ Handle("add")
  /\ msgs' = Tail(msgs)
  /\ clients' = clients \cup {Head(msgs).client}
  /\ UNCHANGED <<api, answers, time, dist, powerOn, capsKnown, pending,
                 clientVars, modemVars>>

\* stopClientSessions: the iterations of its first loop, in map order.  The
\* message stays in front, so no other handler runs before the client is
\* erased.
ProcRemoveClientTime ==
  /\ Handle("remove")
  /\ LET mine == {id \in TimeIds : Owner[id] = Head(msgs).client}
     IN  \E id \in mine :
           /\ \A j \in mine : id <= j
           /\ api' = api \o stopTimeBasedTrackingMultiplex(id, NoCmd)
           /\ eraseTrackingSession(id)
  /\ UNCHANGED <<msgs, answers, clients, capsKnown, pending, clientVars,
                 modemVars>>

\* The keys of S in map order.
InOrder(S) ==
  {q \in [1 .. Cardinality(S) -> S] : \A i, j \in DOMAIN q : i < j => q[i] < q[j]}

\* Mutant: only the distance based sessions of the client are stopped.
ProcRemoveClientDistanceOnly ==
  /\ Handle("remove")
  /\ \E q \in InOrder({id \in DistIds : Owner[id] = Head(msgs).client}) :
       api' = api \o [i \in DOMAIN q |->
                [op |-> "stopDB", id |-> q[i],
                 cont |-> [k |-> "clientDistStopped", id |-> q[i],
                           cmd |-> NoCmd]]]
  /\ clients' = clients \ {Head(msgs).client}
  /\ msgs' = Tail(msgs)
  /\ UNCHANGED <<answers, time, dist, powerOn, capsKnown, pending, clientVars,
                 modemVars>>

\* The second loop of stopClientSessions and eraseClient.
ProcRemoveClient ==
  /\ Handle("remove")
  /\ \A id \in TimeIds : Owner[id] # Head(msgs).client
  /\ \E q \in InOrder({id \in DistIds : Owner[id] = Head(msgs).client}) :
       api' = api \o [i \in DOMAIN q |->
                [op |-> "stopDB", id |-> q[i],
                 cont |-> [k |-> "clientDistStopped", id |-> q[i],
                           cmd |-> NoCmd]]]
  /\ clients' = clients \ {Head(msgs).client}
  /\ msgs' = Tail(msgs)
  /\ UNCHANGED <<answers, time, dist, powerOn, capsKnown, pending, clientVars,
                 modemVars>>

\* A distance based request waits until the engine's capabilities are known.
MustWait(m) == ~capsKnown /\ m.opt.distance

ProcWait ==
  /\ Handle("start") \/ Handle("update")
  /\ MustWait(Head(msgs))
  /\ pending' = Append(pending, Head(msgs))
  /\ msgs' = Tail(msgs)
  /\ UNCHANGED <<api, answers, clients, time, dist, powerOn, capsKnown,
                 clientVars, modemVars>>

CanTrack(c) == c \in clients /\ c \in TrackingClients

\* The error of a start that cannot be served is set and never reported.
ProcStartRejected ==
  /\ Handle("start")
  /\ LET m == Head(msgs)
     IN  /\ ~MustWait(m)
         /\ ~CanTrack(Owner[m.id]) \/ m.opt.size = 0
  /\ msgs' = Tail(msgs)
  /\ UNCHANGED <<api, answers, adapterVars, clientVars, modemVars>>

ProcStartDistance ==
  /\ Handle("start")
  /\ LET m == Head(msgs)
         opt == ClampInterval(m.opt)
     IN  /\ ~MustWait(m) /\ CanTrack(Owner[m.id]) /\ m.opt.size # 0
         /\ IsDistance(m.opt)
         /\ saveTrackingSession(m.id, opt)
         /\ api' = Append(api, [op |-> "startDB", id |-> m.id,
                                cont |-> Started(m.id, m.cmd)])
  /\ msgs' = Tail(msgs)
  /\ UNCHANGED <<answers, clients, capsKnown, pending, clientVars, modemVars>>

ProcStartTime ==
  /\ Handle("start")
  /\ LET m == Head(msgs)
         opt == TbmFallback(ClampInterval(m.opt))
     IN  /\ ~MustWait(m) /\ CanTrack(Owner[m.id]) /\ m.opt.size # 0
         /\ ~IsDistance(m.opt)
         /\ SendOrReport(startTimeBasedTrackingMultiplex(m.id, opt, m.cmd),
                         m.id, m.cmd)
         /\ saveTrackingSession(m.id, opt)
  /\ msgs' = Tail(msgs)
  /\ UNCHANGED <<clients, capsKnown, pending, clientVars, modemVars>>

ProcUpdateRejected ==
  /\ Handle("update")
  /\ LET m == Head(msgs)
     IN  /\ ~MustWait(m)
         /\ m.id \notin TimeIds \cup DistIds \/ m.opt.size = 0
         /\ reportResponse(m.id, m.cmd)
  /\ msgs' = Tail(msgs)
  /\ UNCHANGED <<api, adapterVars, clientVars, modemVars>>

\* The branches of MsgUpdateTracking are told apart by the maps the key is in
\* and by what the new options ask for.
UpdateAccepted(ids, distance) ==
  /\ Handle("update")
  /\ ~MustWait(Head(msgs)) /\ Head(msgs).opt.size # 0
  /\ Head(msgs).id \in ids
  /\ Head(msgs).opt.distance = distance
UpdatedOptions == ClampInterval(TbmFallback(Head(msgs).opt))

\* Time to distance: the erase and the save of one handler, in that order.
\* The save tests DistanceSupported, the request does not.
ProcUpdateTimeToDistance ==
  /\ UpdateAccepted(TimeIds, TRUE)
  /\ LET id == Head(msgs).id
         opt == UpdatedOptions
         reqs == stopTimeBasedTrackingMultiplex(id, Head(msgs).cmd)
     IN  /\ api' = Append(api \o reqs, [op |-> "startDB", id |-> id,
                                        cont |-> [k |-> "ignore"]])
         /\ IF reqs = << >> THEN reportResponse(id, Head(msgs).cmd)
                            ELSE UNCHANGED answers
         /\ time' = [time EXCEPT ![id] = IF IsDistance(opt) THEN None ELSE opt]
         /\ dist' = [dist EXCEPT ![id] = IF IsDistance(opt) THEN opt ELSE @]
         /\ reportPowerStateIfChanged
  /\ msgs' = Tail(msgs)
  /\ UNCHANGED <<clients, capsKnown, pending, clientVars, modemVars>>

\* Distance to time: the session is erased now and started as a time based
\* one by the response to the stop.
ProcUpdateDistanceToTime ==
  /\ UpdateAccepted(DistIds, FALSE)
  /\ LET m == Head(msgs)
     IN  /\ eraseTrackingSession(m.id)
         /\ api' = Append(api,
              [op |-> "stopDB", id |-> m.id,
               cont |-> [k |-> "switched", id |-> m.id, cmd |-> m.cmd,
                         opt |-> UpdatedOptions]])
  /\ msgs' = Tail(msgs)
  /\ UNCHANGED <<answers, clients, capsKnown, pending, clientVars, modemVars>>

ProcUpdateTime ==
  /\ UpdateAccepted(TimeIds \ DistIds, FALSE)
  /\ LET m == Head(msgs)
     IN  /\ SendOrReport(updateTrackingMultiplex(m.id, UpdatedOptions, m.cmd),
                         m.id, m.cmd)
         /\ saveTrackingSession(m.id, UpdatedOptions)
  /\ msgs' = Tail(msgs)
  /\ UNCHANGED <<clients, capsKnown, pending, clientVars, modemVars>>

\* Distance to distance: stopped, restarted by the response to the stop, and
\* saved by the response to the restart.
ProcUpdateDistance ==
  /\ UpdateAccepted(DistIds \ TimeIds, TRUE)
  /\ LET m == Head(msgs)
     IN  api' = Append(api,
           [op |-> "stopDB", id |-> m.id,
            cont |-> [k |-> "distRestart", id |-> m.id, cmd |-> m.cmd,
                      opt |-> UpdatedOptions]])
  /\ msgs' = Tail(msgs)
  /\ UNCHANGED <<answers, adapterVars, clientVars, modemVars>>

ProcStopTime ==
  /\ Handle("stop")
  /\ Head(msgs).id \in TimeIds
  /\ LET m == Head(msgs)
     IN  /\ SendOrReport(stopTimeBasedTrackingMultiplex(m.id, m.cmd),
                         m.id, m.cmd)
         /\ eraseTrackingSession(m.id)
  /\ msgs' = Tail(msgs)
  /\ UNCHANGED <<clients, capsKnown, pending, clientVars, modemVars>>

\* A distance based session is erased only when the modem has stopped it.
ProcStopDistance ==
  /\ Handle("stop")
  /\ Head(msgs).id \in DistIds \ TimeIds
  /\ LET m == Head(msgs)
     IN  api' = Append(api,
           [op |-> "stopDB", id |-> m.id,
            cont |-> [k |-> "distStopped", id |-> m.id, cmd |-> m.cmd]])
  /\ msgs' = Tail(msgs)
  /\ UNCHANGED <<answers, adapterVars, clientVars, modemVars>>

ProcStopUnknown ==
  /\ Handle("stop")
  /\ Head(msgs).id \notin TimeIds \cup DistIds
  /\ reportResponse(Head(msgs).id, Head(msgs).cmd)
  /\ msgs' = Tail(msgs)
  /\ UNCHANGED <<api, adapterVars, clientVars, modemVars>>

-----------------------------------------------------------------------------
(* The engine comes up, at start or after a modem crash.                   *)

\* The first session of the highest power mode; one of INVALID mode that comes
\* first wins, and nothing is lower than INVALID.
HighestPower(S) ==
  LET first == CHOOSE s \in S : \A t \in S : s <= t
      rivals == IF time[first].powerMode = INVALID THEN {first}
                ELSE {s \in S : time[s].powerMode # INVALID}
  IN  CHOOSE s \in rivals : \A t \in rivals :
        \/ time[s].powerMode < time[t].powerMode
        \/ time[s].powerMode = time[t].powerMode /\ s <= t

\* checkAndRestartTimeBasedSession: one session for all, whose response
\* nobody waits for.  setLocationOptions leaves power mode and tbm alone.
checkAndRestartTimeBasedSession ==
  LET smallest == time[SmallestInterval(TimeIds)]
  IN  IF TimeIds = {} THEN << >>
      ELSE <<StartTB([time[HighestPower(TimeIds)] EXCEPT
                        !.minInterval = smallest.minInterval,
                        !.distance = smallest.distance], NoCont)>>

\* Every session the adapter knows is started again.
restartSessions ==
  {checkAndRestartTimeBasedSession
     \o [i \in DOMAIN q |-> [op |-> "startDB", id |-> q[i],
                             cont |-> [k |-> "ignore"]]] : q \in InOrder(DistIds)}

\* Mutant: the messages that waited for the engine stay where they are.
ProcEngineUpForgetful ==
  /\ Handle("engineUp")
  /\ capsKnown' = TRUE
  /\ \E reqs \in restartSessions : api' = api \o reqs
  /\ msgs' = Tail(msgs)
  /\ UNCHANGED <<pending, answers, clients, time, dist, powerOn, clientVars,
                 modemVars>>

\* restartSessions(true), then the messages that waited are posted again.
ProcEngineUp ==
  /\ Handle("engineUp")
  /\ capsKnown' = TRUE
  /\ \E reqs \in restartSessions : api' = api \o reqs
  /\ msgs' = Tail(msgs) \o pending
  /\ pending' = << >>
  /\ UNCHANGED <<answers, clients, time, dist, powerOn, clientVars, modemVars>>

\* suspendSessions, then restartSessions(false).
ProcConfigRobustLocation ==
  /\ Handle("config")
  /\ \E reqs \in restartSessions :
       api' = api \o (IF TimeIds = {} THEN << >>
                      ELSE <<[op |-> "stopFix", cont |-> NoCont]>>) \o reqs
  /\ msgs' = Tail(msgs)
  /\ UNCHANGED <<answers, adapterVars, clientVars, modemVars>>

-----------------------------------------------------------------------------
(* Responses of the modem, each the lambda that the request carried.       *)

Response(k) ==
  /\ Handle("resp")
  /\ Head(msgs).cont.k = k
  /\ msgs' = Tail(msgs)
  /\ UNCHANGED <<clients, capsKnown, pending, clientVars, modemVars>>
Err == ~Head(msgs).ok
TheCont == Head(msgs).cont

ProcStarted ==
  /\ Response("started")
  /\ IF Err THEN eraseTrackingSession(TheCont.id)
            ELSE UNCHANGED <<time, dist, powerOn>>
  /\ reportResponse(TheCont.id, TheCont.cmd)
  /\ UNCHANGED api

ProcUpdated ==
  /\ Response("updated")
  /\ IF Err THEN saveTrackingSession(TheCont.id, TheCont.opt)
            ELSE UNCHANGED <<time, dist, powerOn>>
  /\ reportResponse(TheCont.id, TheCont.cmd)
  /\ UNCHANGED api

ProcStopped ==
  /\ Response("stopped")
  /\ reportResponse(TheCont.id, TheCont.cmd)
  /\ UNCHANGED <<api, time, dist, powerOn>>

ProcDistStopped ==
  /\ Response("distStopped") \/ Response("clientDistStopped")
  /\ IF Err THEN UNCHANGED <<time, dist, powerOn>>
            ELSE eraseTrackingSession(TheCont.id)
  /\ reportResponse(TheCont.id, TheCont.cmd)
  /\ UNCHANGED api

ProcSwitched ==
  /\ Response("switched")
  /\ SendOrReport(startTimeBasedTrackingMultiplex(TheCont.id, TheCont.opt,
                                                  TheCont.cmd),
                  TheCont.id, TheCont.cmd)
  /\ saveTrackingSession(TheCont.id, TheCont.opt)

\* Mutants: the restart forgets the options it has to save; the client is told
\* of the stop as well as of the restart.
ProcDistRestartForgetful ==
  /\ Response("distRestart")
  /\ api' = IF Err THEN api
            ELSE Append(api, [op |-> "startDB", id |-> TheCont.id,
                              cont |-> [k |-> "distRestarted", id |-> TheCont.id,
                                        cmd |-> TheCont.cmd]])
  /\ UNCHANGED <<answers, time, dist, powerOn>>
ProcDistRestartTold ==
  /\ Response("distRestart")
  /\ api' = IF Err THEN api
            ELSE Append(api, [op |-> "startDB", id |-> TheCont.id,
                              cont |-> [TheCont EXCEPT !.k = "distRestarted"]])
  /\ reportResponse(TheCont.id, TheCont.cmd)
  /\ UNCHANGED <<time, dist, powerOn>>

ProcDistRestart ==
  /\ Response("distRestart")
  /\ api' = IF Err THEN api
            ELSE Append(api, [op |-> "startDB", id |-> TheCont.id,
                              cont |-> [TheCont EXCEPT !.k = "distRestarted"]])
  /\ UNCHANGED <<answers, time, dist, powerOn>>

ProcDistRestarted ==
  /\ Response("distRestarted")
  /\ IF Err THEN UNCHANGED <<time, dist, powerOn>>
            ELSE saveTrackingSession(TheCont.id, TheCont.opt)
  /\ reportResponse(TheCont.id, TheCont.cmd)
  /\ UNCHANGED api

ProcIgnored ==
  /\ Response("ignore")
  /\ UNCHANGED <<api, answers, time, dist, powerOn>>

-----------------------------------------------------------------------------
(* The modem and LocApi (external): requests are executed in order, each   *)
(* succeeds or fails, and a response is posted when one is wanted.         *)

Effect(r) ==
  CASE r.op = "startTB" -> [engine EXCEPT !.tb = r.opt]
    [] r.op = "stopFix" -> [engine EXCEPT !.tb = None]
    [] r.op = "startDB" -> [engine EXCEPT !.db = @ \cup {r.id}]
    [] r.op = "stopDB" -> [engine EXCEPT !.db = @ \ {r.id}]

Respond(r, ok) ==
  msgs' = IF r.cont = NoCont THEN msgs
          ELSE Append(msgs, [t |-> "resp", cont |-> r.cont, ok |-> ok])

ApiSuccess ==
  /\ api # << >> /\ Head(api).op # "open"
  /\ engine.up
  /\ engine' = Effect(Head(api))
  /\ Respond(Head(api), TRUE)
  /\ api' = Tail(api)
  /\ UNCHANGED <<answers, adapterVars, clientVars, ssrs, fails>>

\* A modem that is down serves no request.
ApiFailure ==
  /\ api # << >> /\ Head(api).op # "open"
  /\ engine.up => fails < MaxFails
  /\ fails' = IF engine.up THEN fails + 1 ELSE fails
  /\ Respond(Head(api), FALSE)
  /\ api' = Tail(api)
  /\ UNCHANGED <<answers, adapterVars, clientVars, engine, ssrs>>

\* LocOpenMsg at start, LocSsrMsg after a crash: reopen, then handleEngineUpEvent.
ApiOpen ==
  /\ api # << >> /\ Head(api).op = "open"
  /\ engine' = [engine EXCEPT !.up = TRUE]
  /\ msgs' = Append(msgs, [t |-> "engineUp"])
  /\ api' = Tail(api)
  /\ UNCHANGED <<answers, adapterVars, clientVars, ssrs, fails>>

\* The modem crashes and loses its sessions; handleEngineDownEvent posts LocSsrMsg.
ModemCrash ==
  /\ engine.up
  /\ ssrs < MaxSsr
  /\ ssrs' = ssrs + 1
  /\ engine' = [up |-> FALSE, tb |-> None, db |-> {}]
  /\ api' = Append(api, [op |-> "open"])
  /\ UNCHANGED <<msgs, answers, adapterVars, clientVars, fails>>

-----------------------------------------------------------------------------

Init ==
  /\ msgs = << >> /\ pending = << >>
  /\ clients = {}
  /\ time = [id \in Ids |-> None] /\ dist = [id \in Ids |-> None]
  /\ powerOn = FALSE /\ capsKnown = FALSE
  /\ api = <<[op |-> "open"]>>
  /\ engine = [up |-> FALSE, tb |-> None, db |-> {}]
  /\ life = [c \in Clients |-> "none"]
  /\ issued = << >>
  /\ answers = [n \in Cmds |-> 0]
  /\ ssrs = 0 /\ fails = 0 /\ configs = 0

ClientStep ==
  \/ \E c \in Clients : addClientCommand(c) \/ removeClientCommand(c)
  \/ configRobustLocationCommand
  \/ \E id \in Ids :
       \/ \E opt \in Options : \/ startTrackingCommand(id, opt)
                               \/ updateTrackingOptionsCommand(id, opt)
       \/ stopTrackingCommand(id)

MsgTaskStep ==
  \/ ProcAddClient \/ ProcRemoveClientTime \/ ProcRemoveClient
  \/ ProcWait \/ ProcStartRejected \/ ProcStartDistance \/ ProcStartTime
  \/ ProcUpdateRejected \/ ProcUpdateTimeToDistance
  \/ ProcUpdateDistanceToTime \/ ProcUpdateTime \/ ProcUpdateDistance
  \/ ProcStopTime \/ ProcStopDistance \/ ProcStopUnknown
  \/ ProcEngineUp \/ ProcConfigRobustLocation
  \/ ProcStarted \/ ProcUpdated \/ ProcStopped \/ ProcDistStopped
  \/ ProcSwitched \/ ProcDistRestart \/ ProcDistRestarted \/ ProcIgnored

LocApiStep == ApiSuccess \/ ApiFailure \/ ApiOpen

Next == ClientStep \/ MsgTaskStep \/ LocApiStep \/ ModemCrash

Spec == Init /\ [][Next]_vars

\* Fairness: the adapter's thread and LocApi's thread keep taking messages from
\* their queues (MsgTask::run loops for good), and the modem serves or rejects
\* each request.
FairSpec == Spec /\ WF_vars(MsgTaskStep) /\ WF_vars(LocApiStep)

-----------------------------------------------------------------------------
(* Properties.                                                             *)

Quiescent == msgs = << >> /\ pending = << >> /\ api = << >>

\* No command is answered twice, whatever the modem rejects and whenever it
\* crashes: every path of a handler and of the lambdas it leaves behind calls
\* reportResponse for its command at most once in all.
AnsweredAtMostOnce == \A n \in Cmds : answers[n] <= 1

\* Commands nobody owes an answer: a start that hasCallbacksToStartTracking or
\* the size check turns down, any command of a destroyed client, and an update
\* whose request failed (the restart of a distance based session gives up).
Unservable(i) ==
  i.op = "start" /\ (~i.valid \/ Owner[i.id] \notin TrackingClients)
Excused(n) ==
  \/ Unservable(issued[n])
  \/ life[Owner[issued[n].id]] = "gone"
  \/ issued[n].op = "update" /\ fails + ssrs > 0

\* Once all queues have drained every other command has its answer, whatever the
\* modem rejected and whenever it crashed, commands that waited for the engine
\* to come up included.
AllAnswered ==
  Quiescent => \A n \in DOMAIN issued : answers[n] = 1 \/ Excused(n)

\* Every command is answered in the end: no message waits forever in
\* mPendingMsgs, no continuation is lost.
EventuallyAnswered ==
  \A n \in Cmds :
    n \in DOMAIN issued ~> n \in DOMAIN issued /\ (answers[n] = 1 \/ Excused(n))

\* Multiplexing starves no session: once the queues have drained the one engine
\* session runs at least as often as every time based session asks for, modem
\* crashes included, however eager the clients, as long as the modem rejects no
\* request while it is up.
EngineServesTime ==
  Quiescent /\ fails = 0 =>
    \A id \in TimeIds :
      engine.tb # None /\ engine.tb.minInterval <= time[id].minInterval

\* The power state reported to the framework is the truth about the modem:
\* once the queues have drained it runs a session iff mPowerOn says so, its
\* distance sessions are those the adapter knows, and no session is in both
\* maps.
PowerStateTrue ==
  Quiescent /\ fails = 0 /\ ssrs = 0 /\ configs = 0 =>
    /\ powerOn <=> engine.tb # None \/ engine.db # {}
    /\ TimeIds = {} <=> engine.tb = None
    /\ engine.db = DistIds
    /\ TimeIds \cap DistIds = {}

\* Once the queues have drained every session belongs to a client that still
\* exists: destroying a client ends its sessions for good.
SessionsOwned ==
  Quiescent /\ fails = 0 /\ ssrs = 0 =>
    \A id \in TimeIds \cup DistIds : life[Owner[id]] # "gone"

\* When several sessions run, the engine runs in a power mode at least as
\* high as every one of them demands ("find the smallest interval and
\* powerMode", GnssAdapter.cpp:2684); M1 is the highest mode.
PowerCovered ==
  Quiescent /\ fails = 0 /\ ssrs = 0 =>
    \A id \in TimeIds : engine.tb.powerMode <= time[id].powerMode
=============================================================================
