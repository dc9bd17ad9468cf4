-------------------------------- MODULE Agps --------------------------------
(***************************************************************************)
(* The AGPS state machines (src/gps/gnss/Agps.cpp) and the commands of the *)
(* GNSS adapter that drive them (GnssAdapter.cpp:4493-4728).               *)
(*                                                                         *)
(* The modem asks for a data connection under a handle of its own          *)
(* (requestATL) and gives it back (releaseATL).  AgpsManager keeps one     *)
(* state machine per network interface, asks the framework to set the      *)
(* connection up or tear it down, and tells the modem the outcome.  All    *)
(* handlers run in the adapter's message thread (queue, FIFO), except that *)
(* an open with a bad APN is turned down in the framework's own thread.    *)
(* Subscribers never ask to wait for the close (requestATL builds them     *)
(* with mWaitForCloseComplete = mIsInactive = false), so all of them are   *)
(* active and the state RELEASING is never entered.                        *)
(***************************************************************************)
EXTENDS Integers, Sequences, FiniteSets

CONSTANTS
  Handles,          \* connection handles of the modem
  Types,            \* the AGPS types it asks for
  EmergencyPdn,     \* USE_EMERGENCY_PDN_FOR_EMERGENCY_SUPL # 0
  FreedRead,        \* handles a read of a freed subscriber may find
  MaxRequests,      \* bound: requests of the modem
  MaxSsr,           \* bound: modem restarts
  MaxRejects,       \* bound: opens with a bad APN
  MaxLost           \* bound: connections the framework loses

Nifs == {"AGNSS", "INTERNET"}
AllTypes == {"SUPL", "SUPL_ES", "WWAN"}

ASSUME AgpsConstantsOK ==
  /\ Types \subseteq AllTypes
  /\ EmergencyPdn \in BOOLEAN
  /\ FreedRead \subseteq Handles
  /\ MaxRequests \in Nat /\ MaxSsr \in Nat
  /\ MaxRejects \in Nat /\ MaxLost \in Nat

VARIABLES
  queue,        \* the adapter's message queue
  created,      \* the state machines that exist
  state,        \* mState of each machine
  subs,         \* mSubscriberList of each machine, by handle
  agpsType,     \* mAgpsType of each machine
  fw,           \* requests and releases the framework has yet to serve
  conn,         \* whether the framework holds the connection up
  modem,        \* what the modem knows of each handle
  asked, ssrs, rejects, lost    \* counters for the bounds

machineVars == <<created, state, subs, agpsType>>
counters == <<asked, ssrs, rejects, lost>>
vars == <<queue, machineVars, fw, conn, modem, counters>>

States == {"RELEASED", "PENDING", "ACQUIRED"}
Msg ==
       [t : {"request"}, h : Handles, type : Types]
  \cup [t : {"release"}, h : Handles]
  \cup [t : {"opened", "failed", "closed"}, m : Nifs]
  \cup [t : {"init"}, nifs : SUBSET Nifs]

TypeOK ==
  /\ queue \in Seq(Msg)
  /\ created \subseteq Nifs
  /\ state \in [Nifs -> States]
  /\ subs \in [Nifs -> SUBSET Handles]
  /\ agpsType \in [Nifs -> AllTypes]
  /\ fw \in [Nifs -> Seq([op : {"request", "release"}, type : AllTypes])]
  /\ conn \in [Nifs -> BOOLEAN]
  /\ modem \in [Handles -> {"idle", "opening", "open", "closing"}]
  /\ asked \in 0 .. MaxRequests /\ ssrs \in 0 .. MaxSsr
  /\ rejects \in 0 .. MaxRejects /\ lost \in 0 .. MaxLost

getAgpsStateMachine(type) == IF type = "WWAN" THEN "INTERNET" ELSE "AGNSS"

\* The rewriting of an emergency request at the head of requestATL.
EffectiveType(type) ==
  IF type = "SUPL_ES" /\ ~EmergencyPdn THEN "SUPL" ELSE type

-----------------------------------------------------------------------------
(* What the modem makes of mAtlOpenStatusCb and mAtlCloseStatusCb          *)
(* (external): a failed open and a close both end the handle's use.        *)

ToldOpen(s) == IF s = "opening" THEN "open" ELSE s

NotifyGranted(S) ==
  modem' = [h \in Handles |-> IF h \in S THEN ToldOpen(modem[h]) ELSE modem[h]]
\* mAtlOpenStatusCb with failure, or mAtlCloseStatusCb.
NotifyEnded(S) ==
  modem' = [h \in Handles |-> IF h \in S THEN "idle" ELSE modem[h]]

\* The modem (external): it opens idle handles and closes those in use; a
\* restart makes it forget them all.
ModemRequest(h, type) ==
  /\ modem[h] = "idle"
  /\ asked < MaxRequests
  /\ asked' = asked + 1
  /\ modem' = [modem EXCEPT ![h] = "opening"]
  /\ queue' = Append(queue, [t |-> "request", h |-> h, type |-> type])
  /\ UNCHANGED <<machineVars, fw, conn, ssrs, rejects, lost>>

ModemRelease(h) ==
  /\ modem[h] \in {"opening", "open"}
  /\ modem' = [modem EXCEPT ![h] = "closing"]
  /\ queue' = Append(queue, [t |-> "release", h |-> h])
  /\ UNCHANGED <<machineVars, fw, conn, counters>>

\* AgpsManager::handleModemSSR would drop the subscribers; nothing calls it.
ModemRestart ==
  /\ ssrs < MaxSsr
  /\ ssrs' = ssrs + 1
  /\ modem' = [h \in Handles |-> "idle"]
  /\ UNCHANGED <<queue, machineVars, fw, conn, asked, rejects, lost>>

-----------------------------------------------------------------------------
(* Message handlers.                                                       *)

Handle(t) == queue # << >> /\ Head(queue).t = t /\ queue' = Tail(queue)

\* createAgpsStateMachines: a machine that exists is kept as it is.
ProcInit ==
  /\ Handle("init")
  /\ created' = created \cup Head(queue).nifs
  /\ UNCHANGED <<state, subs, agpsType, fw, conn, modem, counters>>

requestOrReleaseDataConn(m, op, type) ==
  fw' = [fw EXCEPT ![m] = Append(@, [op |-> op, type |-> type])]

\* requestATL without a state machine: told at once that the open failed.
ProcRequestNoMachine ==
  /\ Handle("request")
  /\ getAgpsStateMachine(EffectiveType(Head(queue).type)) \notin created
  /\ NotifyEnded({Head(queue).h})
  /\ UNCHANGED <<machineVars, fw, conn, counters>>

\* processAgpsEventSubscribe: the first subscriber makes the machine ask for
\* the connection, a late one is told at once that it is up.
Subscribe(m, h) ==
  /\ subs' = [subs EXCEPT ![m] = @ \cup {h}]
  /\ \/ /\ state[m] = "RELEASED"
        /\ requestOrReleaseDataConn(m, "request", agpsType'[m])
        /\ state' = [state EXCEPT ![m] = "PENDING"]
        /\ UNCHANGED modem
     \/ state[m] = "PENDING" /\ UNCHANGED <<state, fw, modem>>
     \/ state[m] = "ACQUIRED" /\ NotifyGranted({h}) /\ UNCHANGED <<state, fw>>

\* requestATL: setType, then the event.
ProcRequest ==
  /\ Handle("request")
  /\ LET type == EffectiveType(Head(queue).type)
         m == getAgpsStateMachine(type)
     IN  /\ m \in created
         /\ agpsType' = [agpsType EXCEPT ![m] = type]
         /\ Subscribe(m, Head(queue).h)
  /\ UNCHANGED <<created, conn, counters>>

\* The machine releaseATL finds: the AGNSS one is searched first.
Machines(h) == {m \in created : h \in subs[m]}
Finds(m, h) == m \in Machines(h) /\ ("AGNSS" \in Machines(h) => m = "AGNSS")

\* deleteSubscriber goes on comparing the rest of the list with the
\* subscriber it has just freed, when that one is the list's own element.
deleteSubscriber(S, h) ==
  {S \ ({h} \cup extra) : extra \in SUBSET (FreedRead \cap S)}

\* processAgpsEventUnsubscribe: the last subscriber to leave releases the
\* connection, with the type of whoever asked last.
Unsubscribe(m, h) ==
  /\ \/ state[m] = "RELEASED" /\ UNCHANGED <<state, subs, fw>>
     \/ /\ state[m] # "RELEASED"
        /\ \E rest \in deleteSubscriber(subs[m], h) :
             /\ subs' = [subs EXCEPT ![m] = rest]
             /\ IF rest = {}
                  THEN /\ state' = [state EXCEPT ![m] = "RELEASED"]
                       /\ requestOrReleaseDataConn(m, "release", agpsType[m])
                  ELSE UNCHANGED <<state, fw>>
  /\ NotifyEnded({h})

\* releaseATL.
ProcRelease ==
  /\ Handle("release")
  /\ \E m \in Nifs : Finds(m, Head(queue).h) /\ Unsubscribe(m, Head(queue).h)
  /\ UNCHANGED <<created, agpsType, conn, counters>>

\* A handle no machine knows: nobody is told anything.
ProcReleaseUnknown ==
  /\ Handle("release")
  /\ Machines(Head(queue).h) = {}
  /\ UNCHANGED <<machineVars, fw, conn, modem, counters>>

\* reportAtlOpenSuccess, processAgpsEventGranted: unexpected unless PENDING.
ProcOpened ==
  /\ Handle("opened")
  /\ LET m == Head(queue).m
     IN  IF state[m] = "PENDING"
           THEN /\ state' = [state EXCEPT ![m] = "ACQUIRED"]
                /\ NotifyGranted(subs[m])
           ELSE UNCHANGED <<state, modem>>
  /\ UNCHANGED <<created, subs, agpsType, fw, conn, counters>>

\* Mutants: the machine waits on after a failed open; it keeps the subscribers
\* it has told of the failure.
ProcFailedStuck ==
  /\ Handle("failed")
  /\ LET m == Head(queue).m
     IN  IF state[m] = "PENDING"
           THEN NotifyEnded(subs[m]) /\ subs' = [subs EXCEPT ![m] = {}]
           ELSE UNCHANGED <<subs, modem>>
  /\ UNCHANGED <<created, state, agpsType, fw, conn, counters>>
ProcFailedKeeping ==
  /\ Handle("failed")
  /\ LET m == Head(queue).m
     IN  IF state[m] = "PENDING"
           THEN /\ state' = [state EXCEPT ![m] = "RELEASED"]
                /\ NotifyEnded(subs[m])
           ELSE UNCHANGED <<state, modem>>
  /\ UNCHANGED <<created, subs, agpsType, fw, conn, counters>>

\* reportAtlOpenFailed, processAgpsEventDenied.
ProcFailed ==
  /\ Handle("failed")
  /\ LET m == Head(queue).m
     IN  IF state[m] = "PENDING"
           THEN /\ state' = [state EXCEPT ![m] = "RELEASED"]
                /\ NotifyEnded(subs[m])
                /\ subs' = [subs EXCEPT ![m] = {}]
           ELSE UNCHANGED <<state, subs, modem>>
  /\ UNCHANGED <<created, agpsType, fw, conn, counters>>

\* Mutants: an unexpected close is ignored; the subscribers are not told of it.
reportAtlClosedIgnored(m) == UNCHANGED <<state, subs, modem>>
reportAtlClosedSilent(m) ==
  /\ UNCHANGED modem
  /\ IF state[m] = "ACQUIRED"
       THEN /\ state' = [state EXCEPT ![m] = "RELEASED"]
            /\ subs' = [subs EXCEPT ![m] = {}]
       ELSE UNCHANGED <<state, subs>>

\* reportAtlClosed, processAgpsEventReleased: forced when ACQUIRED, no effect
\* otherwise.
reportAtlClosed(m) ==
  IF state[m] = "ACQUIRED"
    THEN /\ state' = [state EXCEPT ![m] = "RELEASED"]
         /\ NotifyEnded(subs[m])
         /\ subs' = [subs EXCEPT ![m] = {}]
    ELSE UNCHANGED <<state, subs, modem>>

ProcClosed ==
  /\ Handle("closed")
  /\ reportAtlClosed(Head(queue).m)
  /\ UNCHANGED <<created, agpsType, fw, conn, counters>>

-----------------------------------------------------------------------------
(* The framework (external) serves what it is asked in order, and calls    *)
(* dataConnOpenCommand, dataConnFailedCommand or dataConnClosedCommand.    *)

ToServe(m, op) == fw[m] # << >> /\ Head(fw[m]).op = op
                /\ fw' = [fw EXCEPT ![m] = Tail(@)]
Post(t, m) == queue' = Append(queue, [t |-> t, m |-> m])

FrameworkOpens(m) ==
  /\ ToServe(m, "request")
  /\ conn' = [conn EXCEPT ![m] = TRUE]
  /\ Post("opened", m)
  /\ UNCHANGED <<machineVars, modem, counters>>

FrameworkFails(m) ==
  /\ ToServe(m, "request")
  /\ Post("failed", m)
  /\ UNCHANGED <<machineVars, conn, modem, counters>>

FrameworkCloses(m) ==
  /\ ToServe(m, "release")
  /\ conn' = [conn EXCEPT ![m] = FALSE]
  /\ Post("closed", m)
  /\ UNCHANGED <<machineVars, modem, counters>>

FrameworkLoses(m) ==
  /\ conn[m]
  /\ lost < MaxLost
  /\ lost' = lost + 1
  /\ conn' = [conn EXCEPT ![m] = FALSE]
  /\ Post("closed", m)
  /\ UNCHANGED <<machineVars, fw, modem, asked, ssrs, rejects>>

\* dataConnOpenCommand with an APN longer than MAX_APN_LEN: it reports the
\* connection closed, from the framework's thread, and posts nothing.
FrameworkOpensBadApn(m) ==
  /\ rejects < MaxRejects
  /\ rejects' = rejects + 1
  /\ ToServe(m, "request")
  /\ conn' = [conn EXCEPT ![m] = TRUE]
  /\ reportAtlClosed(m)
  /\ UNCHANGED <<queue, created, agpsType, asked, ssrs, lost>>

-----------------------------------------------------------------------------

Init ==
  /\ \E nifs \in SUBSET Nifs : queue = <<[t |-> "init", nifs |-> nifs]>>
  /\ created = {}
  /\ state = [m \in Nifs |-> "RELEASED"]
  /\ subs = [m \in Nifs |-> {}]
  /\ agpsType = [m \in Nifs |-> IF m = "AGNSS" THEN "SUPL" ELSE "WWAN"]
  /\ fw = [m \in Nifs |-> << >>]
  /\ conn = [m \in Nifs |-> FALSE]
  /\ modem = [h \in Handles |-> "idle"]
  /\ asked = 0 /\ ssrs = 0 /\ rejects = 0 /\ lost = 0

ModemStep ==
  \/ \E h \in Handles : \/ \E type \in Types : ModemRequest(h, type)
                        \/ ModemRelease(h)
  \/ ModemRestart

ManagerStep ==
  \/ ProcInit \/ ProcRequestNoMachine \/ ProcRequest \/ ProcRelease
  \/ ProcReleaseUnknown \/ ProcOpened \/ ProcFailed \/ ProcClosed

FrameworkStep ==
  \E m \in Nifs :
    \/ FrameworkOpens(m) \/ FrameworkFails(m) \/ FrameworkCloses(m)
    \/ FrameworkLoses(m) \/ FrameworkOpensBadApn(m)

Next == ModemStep \/ ManagerStep \/ FrameworkStep

Spec == Init /\ [][Next]_vars

-----------------------------------------------------------------------------
(* Properties.                                                             *)

Queued(m, t) == \E i \in DOMAIN queue : queue[i] = [t |-> t, m |-> m]

\* Nobody waits for an answer that cannot come: while a machine is PENDING the
\* framework has a request of it to serve, or its answer is on the way (as long
\* as no open was turned down for its APN).
PendingAnswered ==
  rejects = 0 =>
    \A m \in Nifs : state[m] = "PENDING" =>
      \/ \E i \in DOMAIN fw[m] : fw[m][i].op = "request"
      \/ Queued(m, "opened") \/ Queued(m, "failed")

\* A machine never believes in a connection that is gone: while it is ACQUIRED
\* the framework holds the connection, or its close is on the way.
AcquiredBacked ==
  \A m \in Nifs : state[m] = "ACQUIRED" => conn[m] \/ Queued(m, "closed")

\* The modem never uses a handle whose connection the manager would not tear
\* down with it: an open handle is a subscriber of an ACQUIRED machine.
OpenBacked ==
  \A h \in Handles : modem[h] = "open" =>
    \E m \in Nifs : state[m] = "ACQUIRED" /\ h \in subs[m]

\* No machine keeps subscribed a handle that the modem has given back or was
\* told the end of, whatever closes, denials and new requests of the handle
\* cross on the way (until the modem restarts).  The connection is another
\* matter: see ConnectionReleased.
SubscribersInUse ==
  ssrs = 0 => \A m \in Nifs : \A h \in subs[m] : modem[h] # "idle"

\* "If no subscribers in list, release data connection" (Agps.cpp:133): when
\* nothing is under way any more, a connection that is up has a subscriber.
ConnectionReleased ==
  \A m \in Nifs : queue = << >> /\ fw[m] = << >> /\ conn[m] => subs[m] # {}

\* A released machine has no subscribers ("Subscriber list should be empty if
\* we are in released state", Agps.cpp:201), and a machine that is not released
\* has some.
SubscribersMatchState ==
  \A m \in Nifs : subs[m] = {} <=> state[m] = "RELEASED"

\* A modem restart drops all its subscribers ("Drop all subscribers, in case of
\* Modem SSR", Agps.h:196).
RestartDropsSubscribers ==
  \A m \in Nifs : \A h \in subs[m] : modem[h] # "idle"
=============================================================================
