------------------------------- MODULE Odcpi -------------------------------
(***************************************************************************)
(* On demand cell position injection (GnssAdapter.cpp): the modem starts   *)
(* and stops its requests for a position, the adapter passes them to the   *)
(* framework and repeats an active one each time its timer expires, and    *)
(* otherwise keeps silent until then.  The timer calls from a thread of    *)
(* its own and only posts a message.                                       *)
(***************************************************************************)
EXTENDS Naturals, Sequences

CONSTANTS MaxOdcpi  \* bound: the modem waits at this many messages
ASSUME OdcpiAssumption == MaxOdcpi \in Nat

VARIABLES
  mCallbackPriority,   \* of mOdcpiRequestCb, 0 while there is none
  wifiRegistered,      \* the mask has LOC_API_ADAPTER_BIT_REQUEST_WIFI
  mOdcpiRequestActive, emergency, \* mOdcpiRequest.isEmergencyMode
  timerActive,         \* OdcpiTimer::mActive
  armed,               \* the LocTimer runs
  odcpiMsgs            \* messages of the adapter's thread

odcpiVars == <<mCallbackPriority, wifiRegistered, mOdcpiRequestActive, emergency, timerActive, armed, odcpiMsgs>>
timerState == <<timerActive, armed>>

OdcpiInit ==
  /\ mCallbackPriority = 0 /\ wifiRegistered = FALSE /\ mOdcpiRequestActive = FALSE
  /\ emergency = FALSE /\ timerActive = FALSE /\ armed = FALSE /\ odcpiMsgs = <<>>

OMsg(op, e) == [op |-> op, emergency |-> e]
OdcpiRoom == Len(odcpiMsgs) < MaxOdcpi
SendOdcpi(m) ==
  /\ odcpiMsgs' = Append(odcpiMsgs, m)
  /\ UNCHANGED <<mCallbackPriority, wifiRegistered, mOdcpiRequestActive, emergency, timerState>>
\* The modem's requests, the framework's positions, and restarts of the modem.
requestOdcpiEvent(op, e) == OdcpiRoom /\ SendOdcpi(OMsg(op, e))
\* The timer's thread.
TimerFires ==
  /\ armed /\ armed' = FALSE /\ odcpiMsgs' = Append(odcpiMsgs, OMsg("expire", FALSE))
  /\ UNCHANGED <<mCallbackPriority, wifiRegistered, mOdcpiRequestActive, emergency, timerActive>>

StartTimer == timerActive' = TRUE /\ armed' = TRUE
StopTimer == timerActive' = FALSE /\ armed' = FALSE
TakeOdcpi(op) == odcpiMsgs # <<>> /\ Head(odcpiMsgs).op = op /\ odcpiMsgs' = Tail(odcpiMsgs)

\* The callback of a lower priority does not replace one of a higher.
initOdcpi(priority) ==
  /\ mCallbackPriority' = IF priority >= mCallbackPriority THEN priority ELSE mCallbackPriority
  /\ wifiRegistered' = TRUE
  /\ UNCHANGED <<mOdcpiRequestActive, emergency, timerState, odcpiMsgs>>

\* A start: the first one, an emergency over one that is not, one while the
\* timer runs after a stop, or one that changes only what is repeated.
requestStart ==
  /\ TakeOdcpi("start")
  /\ LET e == Head(odcpiMsgs).emergency
     IN IF mCallbackPriority = 0 THEN UNCHANGED <<mOdcpiRequestActive, emergency, timerState>>
        ELSE /\ emergency' = e /\ mOdcpiRequestActive' = TRUE
             /\ IF \/ ~mOdcpiRequestActive /\ ~timerActive
                   \/ ~emergency /\ e
                THEN StartTimer
                ELSE UNCHANGED timerState
  /\ UNCHANGED <<mCallbackPriority, wifiRegistered>>
\* A stop lets the timer run.
requestStop ==
  /\ TakeOdcpi("stop")
  /\ mOdcpiRequestActive' = (mOdcpiRequestActive /\ mCallbackPriority = 0)
  /\ UNCHANGED <<mCallbackPriority, wifiRegistered, emergency, timerState>>
odcpiTimerExpireOnce ==
  /\ TakeOdcpi("expire")
  /\ IF mOdcpiRequestActive THEN UNCHANGED timerState
     ELSE StopTimer
  /\ UNCHANGED <<mCallbackPriority, wifiRegistered, mOdcpiRequestActive, emergency>>
odcpiTimerExpire ==
  /\ TakeOdcpi("expire")
  /\ IF mOdcpiRequestActive THEN StartTimer
     ELSE StopTimer
  /\ UNCHANGED <<mCallbackPriority, wifiRegistered, mOdcpiRequestActive, emergency>>
\* The engine restarts: the request is not active, the timer still runs.
restartSessionsOdcpi ==
  /\ TakeOdcpi("engineUp") /\ mOdcpiRequestActive' = FALSE
  /\ UNCHANGED <<mCallbackPriority, wifiRegistered, emergency, timerState>>

OdcpiNext ==
  \/ \E op \in {"start", "stop", "engineUp"}, e \in BOOLEAN : requestOdcpiEvent(op, e)
  \/ \E priority \in 1 .. 2 : initOdcpi(priority)
  \/ TimerFires \/ requestStart \/ requestStop \/ odcpiTimerExpire \/ restartSessionsOdcpi

OdcpiSpec == OdcpiInit /\ [][OdcpiNext]_odcpiVars

\* An active request is repeated: its timer runs or its expiry is on its way,
\* whichever starts, stops, emergencies and restarts it raced with
\* (GnssAdapter.cpp:4262, :4409).
OdcpiTimed ==
  mOdcpiRequestActive =>
    timerActive /\ (armed \/ \E i \in DOMAIN odcpiMsgs : odcpiMsgs[i].op = "expire")
=============================================================================
