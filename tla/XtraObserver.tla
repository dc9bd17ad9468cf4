---------------------------- MODULE XtraObserver ----------------------------
(***************************************************************************)
(* XtraSystemStatusObserver.cpp: the HAL keeps the XTRA daemon, a process  *)
(* of its own, informed of the GPS lock, the connections, the tracking     *)
(* area code and the operator.  Nothing is sent before the daemon has      *)
(* asked; what it missed until then is in the answer.  Either process may  *)
(* restart, and a datagram for a daemon that is not there is lost.         *)
(***************************************************************************)
EXTENDS Naturals, Sequences, Pointers

CONSTANTS XtraFields,    \* what is told, the lock among it
          XtraValues,    \* values of a field; of the lock, sets of its bits
          MaxXtraMsgs,   \* bound: callers wait at this many messages
          MaxDatagrams,  \* bound: datagrams the socket of the daemon holds
          MaxXtraRestarts \* bound: restarts of either process
ASSUME XtraAssumption ==
  MaxXtraMsgs \in Nat /\ MaxDatagrams \in Nat \ {0} /\ MaxXtraRestarts \in Nat

VARIABLES
  fields,              \* mGpsLock, mConnections, mTac, mMccmnc, mXtraThrottle; Null: not known
  mReqStatusReceived,
  mDelayLocTimer,      \* the timer of 100 ms after the start runs
  xtraMsgs,            \* messages of the HAL's thread
  daemonUp, datagrams, \* the daemon's socket
  view,                \* what the daemon knows
  answered,            \* this daemon was sent the answer of this HAL
  xtraRestarts
xtraVars == <<fields, mReqStatusReceived, mDelayLocTimer, xtraMsgs, daemonUp, datagrams,
              view, answered, xtraRestarts>>

Nothing == [f \in XtraFields |-> Null]
XtraInit ==
  /\ fields = Nothing /\ mReqStatusReceived = FALSE /\ mDelayLocTimer = TRUE /\ xtraMsgs = <<>>
  /\ daemonUp = FALSE /\ datagrams = <<>> /\ view = Nothing
  /\ answered = FALSE /\ xtraRestarts = 0

PostXtra(m) == Len(xtraMsgs) < MaxXtraMsgs /\ xtraMsgs' = Append(xtraMsgs, m)
TakeXtra(op) == xtraMsgs # <<>> /\ Head(xtraMsgs).op = op /\ xtraMsgs' = Tail(xtraMsgs)
\* A datagram is queued, or lost when nobody listens.
SendDatagram(d) ==
  IF daemonUp THEN Len(datagrams) < MaxDatagrams /\ datagrams' = Append(datagrams, d)
  ELSE UNCHANGED datagrams

\* The adapter, and the observer of the system status, post what is new.
NewValue(f, v) ==
  /\ PostXtra([op |-> "update", field |-> f, value |-> v])
  /\ UNCHANGED <<fields, mReqStatusReceived, mDelayLocTimer, daemonUp, datagrams, view, answered, xtraRestarts>>
timeOutCallback ==
  /\ mDelayLocTimer /\ mDelayLocTimer' = FALSE /\ SendDatagram([op |-> "halinit"])
  /\ UNCHANGED <<fields, mReqStatusReceived, xtraMsgs, daemonUp, view, answered, xtraRestarts>>

\* Of the lock only the bit of applications is told.
Recorded(f, v) == IF f = "lock" THEN v \ {"NI"} ELSE v
Update ==
  /\ TakeXtra("update")
  /\ LET f == Head(xtraMsgs).field
         v == Recorded(f, Head(xtraMsgs).value)
     IN /\ fields' = [fields EXCEPT ![f] = v]
        /\ IF mReqStatusReceived THEN SendDatagram([op |-> "update", field |-> f, value |-> v])
           ELSE UNCHANGED datagrams
  /\ UNCHANGED <<mReqStatusReceived, mDelayLocTimer, daemonUp, view, answered, xtraRestarts>>
\* The throttle is not in the answer.
XtraAnswered(f) == IF f = "throttle" THEN Null ELSE fields[f]
\* (A mutant: the answer does not count as the handshake.)
onStatusRequestedOnce ==
  /\ TakeXtra("requestStatus") /\ mReqStatusReceived' = Head(xtraMsgs).updated
  /\ IF Head(xtraMsgs).updated THEN UNCHANGED <<datagrams, answered>>
     ELSE /\ SendDatagram([op |-> "respondStatus", fields |-> [f \in XtraFields |-> XtraAnswered(f)]])
          /\ answered' = daemonUp
  /\ UNCHANGED <<fields, mDelayLocTimer, daemonUp, view, xtraRestarts>>
onStatusRequested ==
  /\ TakeXtra("requestStatus") /\ mReqStatusReceived' = TRUE
  /\ IF Head(xtraMsgs).updated THEN UNCHANGED <<datagrams, answered>>
     ELSE /\ SendDatagram([op |-> "respondStatus", fields |-> [f \in XtraFields |-> XtraAnswered(f)]])
          /\ answered' = daemonUp
  /\ UNCHANGED <<fields, mDelayLocTimer, daemonUp, view, xtraRestarts>>
\* The daemon asks when it starts, and again when the HAL has started; it may
\* then say that it is up to date.
AskStatus(updated) == PostXtra([op |-> "requestStatus", updated |-> updated])
DaemonStarts ==
  /\ ~daemonUp /\ daemonUp' = TRUE /\ AskStatus(FALSE) /\ view' = Nothing /\ datagrams' = <<>>
  /\ answered' = FALSE
  /\ UNCHANGED <<fields, mReqStatusReceived, mDelayLocTimer, xtraRestarts>>
DaemonDies ==
  /\ daemonUp /\ daemonUp' = FALSE /\ xtraRestarts < MaxXtraRestarts /\ xtraRestarts' = xtraRestarts + 1
  /\ datagrams' = <<>> /\ answered' = FALSE
  /\ UNCHANGED <<fields, mReqStatusReceived, mDelayLocTimer, xtraMsgs, view>>
DaemonReceives ==
  /\ daemonUp /\ datagrams # <<>> /\ datagrams' = Tail(datagrams)
  /\ LET d == Head(datagrams)
     IN /\ IF d.op = "halinit" THEN \E updated \in BOOLEAN : AskStatus(updated) ELSE UNCHANGED xtraMsgs
        /\ view' = CASE d.op = "update" -> [view EXCEPT ![d.field] = d.value]
                     [] d.op = "respondStatus" ->
                          [f \in XtraFields |-> IF f = "throttle" THEN view[f] ELSE d.fields[f]]
                     [] OTHER -> view
  /\ UNCHANGED <<fields, mReqStatusReceived, mDelayLocTimer, daemonUp, answered, xtraRestarts>>
HalRestarts ==
  /\ xtraRestarts < MaxXtraRestarts /\ xtraRestarts' = xtraRestarts + 1
  /\ fields' = Nothing /\ mReqStatusReceived' = FALSE /\ mDelayLocTimer' = TRUE /\ xtraMsgs' = <<>>
  /\ answered' = FALSE
  /\ UNCHANGED <<daemonUp, datagrams, view>>

XtraNext ==
  \/ \E f \in XtraFields : \E v \in XtraValues[f] : NewValue(f, v)
  \/ timeOutCallback \/ Update \/ onStatusRequested
  \/ DaemonStarts \/ DaemonDies \/ DaemonReceives \/ HalRestarts

XtraSpec == XtraInit /\ [][XtraNext]_xtraVars

\* A daemon that was answered and has read its datagrams knows every field the
\* answer has as the HAL does, whatever was updated before, between or after
\* the start, the question and the answer (XtraSystemStatusObserver.cpp:121, :207).
XtraInformed ==
  answered /\ datagrams = <<>> => \A f \in XtraFields \ {"throttle"} : view[f] = fields[f]
\* The same of the throttle, which the answer lacks.
ThrottleInformed ==
  answered /\ datagrams = <<>> /\ "throttle" \in XtraFields /\ fields["throttle"] # Null =>
    view["throttle"] = fields["throttle"]
=============================================================================
