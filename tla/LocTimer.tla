------------------------------ MODULE LocTimer ------------------------------
(***************************************************************************)
(* LocTimer.cpp: timers of clients (LocTimer), each start of one being a   *)
(* LocTimerDelegate that ticks in a container: a heap (LocHeap, here a set *)
(* and the order of its due times), a timerfd armed for the first of them, *)
(* a thread that polls the fd and the MsgTask that owns the heap.  The     *)
(* lock of a LocTimer makes start and stop single steps; everything else   *)
(* interleaves.  The containers for timers and alarms are alike; this is   *)
(* one of them.                                                            *)
(***************************************************************************)
EXTENDS Pointers, Integers, Sequences, FiniteSets

CONSTANTS
  Timers,      \* the LocTimer objects; they live for good
  Delays,      \* the time outs they are started with
  MaxStarts,   \* bound: calls of start
  MaxNow       \* bound: the time at which starting ends
ASSUME TimerAssumption ==
  /\ MaxStarts \in Nat /\ Delays \subseteq Nat /\ MaxNow \in Nat
  /\ Null \notin Nat /\ Null \notin Timers

VARIABLES
  now,        \* CLOCK_BOOTTIME
  delegates,  \* the delegates made so far; a number is a pointer to one
  mTimer,     \* mTimer of each LocTimer
  timerQ,     \* messages of LocTimerMsgTask
  heap,       \* the delegates in the container
  fd,         \* the time the timerfd is armed for; Null: disarmed
  polled,     \* whether the epoll set has the fd
  poll,       \* where the poll thread is in expire()
  expiring,   \* the popped delegate, or the client read from it, in MsgTimerExpire
  outcome     \* auxiliary: how each start ended

timerVars == <<now, delegates, mTimer, timerQ, heap, fd, polled, poll, expiring, outcome>>

Delegates == 1 .. Len(delegates)
TimerInit ==
  /\ now = 0 /\ delegates = <<>> /\ timerQ = <<>> /\ heap = {}
  /\ mTimer = [t \in Timers |-> Null]
  /\ fd = Null /\ polled = FALSE /\ poll = "wait" /\ expiring = <<"idle">>
  /\ outcome = <<>>

Due(d) == delegates[d].due
\* The heap's top; among equals the heap may have either on top.
Tops(h) == IF h = {} THEN {Null} ELSE {d \in h : \A e \in h : Due(d) <= Due(e)}

-----------------------------------------------------------------------------
(* Clients.                                                                *)

Start(t, delay) ==
  /\ mTimer[t] = Null
  /\ Len(delegates) < MaxStarts /\ now < MaxNow
  /\ delegates' = Append(delegates, [client |-> t, due |-> now + delay, live |-> TRUE])
  /\ mTimer' = [mTimer EXCEPT ![t] = Len(delegates) + 1]
  /\ timerQ' = Append(timerQ, <<"push", Len(delegates) + 1>>)
  /\ outcome' = Append(outcome, "ticking")
  /\ UNCHANGED <<now, heap, fd, polled, poll, expiring>>

\* LocTimer::stop of a timer that ticks, with destroyLocked of its delegate.
StopTicking(t, why) ==
  /\ mTimer' = [mTimer EXCEPT ![t] = Null]
  /\ delegates' = [delegates EXCEPT ![mTimer[t]].client = Null]
  /\ timerQ' = Append(timerQ, <<"remove", mTimer[t]>>)
  /\ outcome' = [outcome EXCEPT ![mTimer[t]] = why]

Stop(t) ==
  /\ mTimer[t] # Null
  /\ StopTicking(t, "stopped")
  /\ UNCHANGED <<now, heap, fd, polled, poll, expiring>>

-----------------------------------------------------------------------------
(* The container, in the MsgTask.                                          *)

\* updateSoonestTime, given the tops before and after.
updateSoonestTime(prior, top) ==
  IF top # prior /\ (top = Null \/ prior = Null \/ Due(top) < Due(prior))
  THEN polled' = (top # Null) /\ fd' = IF top = Null THEN Null ELSE Due(top)
  ELSE UNCHANGED <<fd, polled>>

ProcPush ==
  /\ expiring = <<"idle">> /\ timerQ # <<>> /\ Head(timerQ)[1] = "push"
  /\ LET d == Head(timerQ)[2] IN
     /\ heap' = heap \cup {d}
     /\ \E prior \in Tops(heap) :
          updateSoonestTime(prior,
            IF prior = Null \/ Due(d) < Due(prior) THEN d ELSE prior)
  /\ timerQ' = Tail(timerQ)
  /\ UNCHANGED <<now, delegates, mTimer, poll, expiring, outcome>>

\* MsgTimerRemove; the container's time changes when its top was removed.
ProcRemoveDangling ==
  /\ expiring = <<"idle">> /\ timerQ # <<>> /\ Head(timerQ)[1] = "remove"
  /\ delegates' = [delegates EXCEPT ![Head(timerQ)[2]].live = FALSE]
  /\ timerQ' = Tail(timerQ)
  /\ UNCHANGED <<now, mTimer, heap, fd, polled, poll, expiring, outcome>>
ProcRemove ==
  /\ expiring = <<"idle">> /\ timerQ # <<>> /\ Head(timerQ)[1] = "remove"
  /\ LET d == Head(timerQ)[2] IN
     /\ heap' = heap \ {d}
     /\ \E prior \in Tops(heap), top \in Tops(heap \ {d}) :
          IF prior = d THEN updateSoonestTime(Null, top) ELSE UNCHANGED <<fd, polled>>
     /\ delegates' = [delegates EXCEPT ![d].live = FALSE]
  /\ timerQ' = Tail(timerQ)
  /\ UNCHANGED <<now, mTimer, poll, expiring, outcome>>

\* MsgTimerExpire pops the first timer whatever its time, and then those whose
\* time has come.
PopFirst ==
  /\ expiring = <<"idle">> /\ timerQ # <<>> /\ Head(timerQ)[1] = "expire"
  /\ \E top \in Tops(heap) :
       /\ expiring' = IF top = Null THEN <<"end", Null>> ELSE <<"expire", top>>
       /\ heap' = heap \ {top}
  /\ UNCHANGED <<now, delegates, mTimer, timerQ, fd, polled, poll, outcome>>
popIfOutRanks ==
  /\ expiring[1] = "next"
  /\ \E top \in Tops(heap) :
       IF top # Null /\ Due(top) <= now
       THEN expiring' = <<"expire", top>> /\ heap' = heap \ {top}
       ELSE expiring' = <<"end", Null>> /\ UNCHANGED heap
  /\ UNCHANGED <<now, delegates, mTimer, timerQ, fd, polled, poll, outcome>>

\* LocTimerDelegate::expire reads mClient without the lock; client->stop() then takes
\* it, and may find the client stopped, or even started again.
ReadClient ==
  /\ expiring[1] = "expire"
  /\ expiring' = IF delegates[expiring[2]].client = Null THEN <<"next", Null>>
                 ELSE <<"client", delegates[expiring[2]].client, expiring[2]>>
  /\ UNCHANGED <<now, delegates, mTimer, timerQ, heap, fd, polled, poll, outcome>>
CallUnasked ==
  /\ expiring[1] = "client"
  /\ outcome' = [outcome EXCEPT ![expiring[3]] = "called"]
  /\ expiring' = <<"next", Null>>
  /\ UNCHANGED <<now, delegates, mTimer, timerQ, heap, fd, polled, poll>>
Call ==
  /\ expiring[1] = "client"
  /\ LET t == expiring[2] IN
     IF mTimer[t] # Null
     THEN StopTicking(t, IF Due(mTimer[t]) <= now THEN "called" ELSE "called early")
     ELSE UNCHANGED <<mTimer, delegates, timerQ, outcome>>
  /\ expiring' = <<"next", Null>>
  /\ UNCHANGED <<now, heap, fd, polled, poll>>

ProcExpireForgets ==
  /\ expiring[1] = "end"
  /\ expiring' = <<"idle">>
  /\ timerQ' = Tail(timerQ)
  /\ UNCHANGED <<now, delegates, mTimer, heap, fd, polled, poll, outcome>>
ProcExpireEnds ==
  /\ expiring[1] = "end"
  /\ \E top \in Tops(heap) : IF top = Null THEN UNCHANGED <<fd, polled>>
                             ELSE updateSoonestTime(Null, top)
  /\ expiring' = <<"idle">>
  /\ timerQ' = Tail(timerQ)
  /\ UNCHANGED <<now, delegates, mTimer, heap, poll, outcome>>

-----------------------------------------------------------------------------
(* The poll thread: epoll_wait, then expire() of the container.            *)

EpollWait ==
  /\ poll = "wait"
  /\ polled /\ fd # Null /\ now >= fd
  /\ poll' = "disarm"
  /\ UNCHANGED <<now, delegates, mTimer, timerQ, heap, fd, polled, expiring, outcome>>
Disarm ==
  /\ poll = "disarm"
  /\ fd' = Null /\ poll' = "remove"
  /\ UNCHANGED <<now, delegates, mTimer, timerQ, heap, polled, expiring, outcome>>
RemovePoll ==
  /\ poll = "remove"
  /\ polled' = FALSE /\ poll' = "send"
  /\ UNCHANGED <<now, delegates, mTimer, timerQ, heap, fd, expiring, outcome>>
SendExpire ==
  /\ poll = "send"
  /\ timerQ' = Append(timerQ, <<"expire", Null>>) /\ poll' = "wait"
  /\ UNCHANGED <<now, delegates, mTimer, heap, fd, polled, expiring, outcome>>

\* Time stops when no timer can be started or be due any more.
Tick ==
  /\ now < MaxNow \/ \E d \in Delegates : Due(d) > now
  /\ now' = now + 1
  /\ UNCHANGED <<delegates, mTimer, timerQ, heap, fd, polled, poll, expiring, outcome>>

Container == ProcPush \/ ProcRemove \/ PopFirst \/ popIfOutRanks \/ ReadClient \/
             Call \/ ProcExpireEnds
PollTask == EpollWait \/ Disarm \/ RemovePoll \/ SendExpire

TimerNext ==
  \/ \E t \in Timers : Stop(t) \/ \E delay \in Delays : Start(t, delay)
  \/ Container \/ PollTask \/ Tick
\* Both threads run, and time goes on.
TimerFairness ==
  WF_timerVars(Container) /\ WF_timerVars(PollTask) /\ WF_timerVars(Tick)
TimerSpec == TimerInit /\ [][TimerNext]_timerVars /\ TimerFairness

-----------------------------------------------------------------------------
(* Properties.                                                             *)

TimerTypeOK ==
  /\ now \in Nat /\ heap \subseteq Delegates /\ polled \in BOOLEAN
  /\ fd \in Nat \cup {Null}
  /\ \A t \in Timers : mTimer[t] \in Delegates \cup {Null}

\* The heap and the expiry only hold delegates that are still allocated, and
\* each LocTimer and its delegate point at each other, although a delegate may be
\* popped, stopped by its client and removed in any order.
TimersAlive ==
  /\ \A d \in heap : delegates[d].live
  /\ expiring[1] = "expire" => delegates[expiring[2]].live
  /\ \A t \in Timers : mTimer[t] # Null =>
       delegates[mTimer[t]].client = t /\ delegates[mTimer[t]].live

\* A start ends in one of two ways: its timer is stopped (stop() returned true) or
\* called back.  Neither is ever followed by the other.
EndsOnce ==
  [][\A d \in Delegates : outcome[d] # "ticking" => outcome'[d] = outcome[d]]_timerVars

\* No timer is forgotten: whatever is stopped and started around it, and however
\* arming, disarming and the poll set interleave between the two threads, a timer
\* that ticks is stopped or called back in the end.
TimersEnd ==
  \A d \in 1 .. MaxStarts :
    (d \in Delegates /\ outcome[d] = "ticking") ~> (d \in Delegates /\ outcome[d] # "ticking")

\* MsgTimerExpire is to "pop everything in the heap that outRanks now, i.e. has
\* time older than now" (LocTimer.cpp:368): no callback before its time.
NeverEarly == \A d \in Delegates : outcome[d] # "called early"
=============================================================================
