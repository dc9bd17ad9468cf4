----------------------------- MODULE AgpsProofs -----------------------------
(***************************************************************************)
(* Proofs about Agps: type correctness and the invariants the runs check,  *)
(* for every set of handles and types, every bound, and any number of      *)
(* requests, modem restarts, lost connections and turned down APNs.        *)
(***************************************************************************)
EXTENDS Agps, TLAPS

USE DEF Nifs, AllTypes

-----------------------------------------------------------------------------
(* Sequences.                                                              *)

\* What a FIFO step does to the positions of a queue: taking the head moves
\* everything one place to the front, posting adds one place at the end.
LEMMA TailPositions ==
  ASSUME NEW S, NEW s \in Seq(S), s # << >>
  PROVE  /\ Tail(s) \in Seq(S)
         /\ Head(s) \in S
         /\ Head(s) = s[1]
         /\ 1 \in DOMAIN s
         /\ \A i \in DOMAIN Tail(s) : i + 1 \in DOMAIN s /\ Tail(s)[i] = s[i + 1]
         /\ \A i \in DOMAIN s : i # 1 => i - 1 \in DOMAIN Tail(s)
                                        /\ Tail(s)[i - 1] = s[i]
  OBVIOUS

LEMMA AppendPositions ==
  ASSUME NEW S, NEW s \in Seq(S), NEW e \in S
  PROVE  /\ Append(s, e) \in Seq(S)
         /\ DOMAIN Append(s, e) = DOMAIN s \cup {Len(s) + 1}
         /\ Len(s) + 1 \notin DOMAIN s
         /\ \A i \in DOMAIN s : i < Len(s) + 1 /\ Append(s, e)[i] = s[i]
         /\ Append(s, e)[Len(s) + 1] = e
  OBVIOUS

-----------------------------------------------------------------------------
(* Type correctness.                                                       *)

LEMMA InitType == Init => TypeOK
  <1> SUFFICES ASSUME Init PROVE TypeOK
    OBVIOUS
  <1>1. queue \in Seq(Msg)
    BY DEF Init, Msg
  <1> QED
    BY <1>1, AgpsConstantsOK DEF Init, TypeOK, States

LEMMA ModemType == TypeOK /\ ModemStep => TypeOK'
  <1> SUFFICES ASSUME TypeOK, ModemStep PROVE TypeOK'
    OBVIOUS
  <1>1. ASSUME NEW h \in Handles, NEW type \in Types, ModemRequest(h, type)
        PROVE  TypeOK'
    <2>1. [t |-> "request", h |-> h, type |-> type] \in Msg
      BY DEF Msg
    <2>2. queue' \in Seq(Msg)
      BY <1>1, <2>1 DEF ModemRequest, TypeOK
    <2> QED
      BY <1>1, <2>2, AgpsConstantsOK DEF ModemRequest, TypeOK, machineVars
  <1>2. ASSUME NEW h \in Handles, ModemRelease(h) PROVE TypeOK'
    <2>1. [t |-> "release", h |-> h] \in Msg
      BY DEF Msg
    <2>2. queue' \in Seq(Msg)
      BY <1>2, <2>1 DEF ModemRelease, TypeOK
    <2> QED
      BY <1>2, <2>2 DEF ModemRelease, TypeOK, machineVars, counters
  <1>3. CASE ModemRestart
    BY <1>3, AgpsConstantsOK DEF ModemRestart, TypeOK, machineVars
  <1> QED
    BY <1>1, <1>2, <1>3 DEF ModemStep

\* Taking the head of the queue leaves a queue, and the head is a message.
LEMMA HandleType ==
  ASSUME TypeOK, NEW t, Handle(t)
  PROVE  queue' \in Seq(Msg) /\ Head(queue) \in Msg /\ Head(queue).t = t
  BY TailPositions DEF Handle, TypeOK

LEMMA TypeOfMessages ==
  ASSUME NEW e \in Msg
  PROVE  /\ e.t \in {"request", "release"} => e.h \in Handles
         /\ e.t = "request" => e.type \in Types
         /\ e.t \in {"opened", "failed", "closed"} => e.m \in Nifs
         /\ e.t = "init" => e.nifs \subseteq Nifs
  BY DEF Msg

\* Asking the framework for something keeps the type of its queues.
LEMMA RequestType ==
  ASSUME TypeOK, NEW m \in Nifs, NEW op \in {"request", "release"},
         NEW type \in AllTypes, requestOrReleaseDataConn(m, op, type)
  PROVE  fw' \in [Nifs -> Seq([op : {"request", "release"}, type : AllTypes])]
  <1>1. fw[m] \in Seq([op : {"request", "release"}, type : AllTypes])
    BY DEF TypeOK
  <1>2. Append(fw[m], [op |-> op, type |-> type])
          \in Seq([op : {"request", "release"}, type : AllTypes])
    BY <1>1
  <1> QED
    BY <1>2 DEF requestOrReleaseDataConn, TypeOK

\* The part of the type invariant that an event of a subscriber touches.
SubscriptionType ==
  /\ state \in [Nifs -> States]
  /\ subs \in [Nifs -> SUBSET Handles]
  /\ fw \in [Nifs -> Seq([op : {"request", "release"}, type : AllTypes])]
  /\ modem \in [Handles -> {"idle", "opening", "open", "closing"}]

LEMMA SubscribeType ==
  ASSUME TypeOK, NEW m \in Nifs, NEW h \in Handles,
         agpsType'[m] \in AllTypes, Subscribe(m, h)
  PROVE  SubscriptionType'
  <1>1. subs' \in [Nifs -> SUBSET Handles]
    BY DEF TypeOK, Subscribe
  <1>2. state' \in [Nifs -> States]
    BY DEF TypeOK, Subscribe, States
  <1>3. modem' \in [Handles -> {"idle", "opening", "open", "closing"}]
    BY DEF TypeOK, Subscribe, NotifyGranted, ToldOpen
  <1>4. fw' \in [Nifs -> Seq([op : {"request", "release"}, type : AllTypes])]
    BY RequestType DEF TypeOK, Subscribe
  <1> QED
    BY <1>1, <1>2, <1>3, <1>4 DEF SubscriptionType

LEMMA UnsubscribeType ==
  ASSUME TypeOK, NEW m \in Nifs, NEW h \in Handles, Unsubscribe(m, h)
  PROVE  SubscriptionType'
  <1>1. subs' \in [Nifs -> SUBSET Handles]
    <2>1. CASE subs' = subs
      BY <2>1 DEF TypeOK
    <2>2. CASE \E rest \in deleteSubscriber(subs[m], h) : subs' = [subs EXCEPT ![m] = rest]
      <3>1. PICK rest \in deleteSubscriber(subs[m], h) : subs' = [subs EXCEPT ![m] = rest]
        BY <2>2
      <3>2. rest \subseteq subs[m]
        BY <3>1 DEF deleteSubscriber
      <3>3. QED
        BY <3>1, <3>2 DEF TypeOK
    <2>3. QED
      BY <2>1, <2>2 DEF Unsubscribe
  <1>2. state' \in [Nifs -> States]
    BY DEF TypeOK, Unsubscribe, States
  <1>3. modem' \in [Handles -> {"idle", "opening", "open", "closing"}]
    BY DEF TypeOK, Unsubscribe, NotifyEnded
  <1>4. agpsType[m] \in AllTypes
    BY DEF TypeOK
  <1>5. fw' \in [Nifs -> Seq([op : {"request", "release"}, type : AllTypes])]
    BY <1>4, RequestType DEF TypeOK, Unsubscribe
  <1> QED
    BY <1>1, <1>2, <1>3, <1>5 DEF SubscriptionType

LEMMA ManagerType == TypeOK /\ ManagerStep => TypeOK'
  <1> SUFFICES ASSUME TypeOK, ManagerStep PROVE TypeOK'
    OBVIOUS
  <1>1. CASE ProcInit
    <2>1. queue' \in Seq(Msg) /\ Head(queue).nifs \subseteq Nifs
      BY <1>1, HandleType, TypeOfMessages DEF ProcInit
    <2> QED
      BY <1>1, <2>1 DEF ProcInit, TypeOK, counters
  <1>2. CASE ProcRequestNoMachine
    <2>1. queue' \in Seq(Msg)
      BY <1>2, HandleType DEF ProcRequestNoMachine
    <2> QED
      BY <1>2, <2>1 DEF ProcRequestNoMachine, NotifyEnded, TypeOK,
                        machineVars, counters
  <1>3. CASE ProcRequest
    <2> DEFINE type == EffectiveType(Head(queue).type)
               m == getAgpsStateMachine(type)
    <2>1. /\ queue' \in Seq(Msg)
          /\ Head(queue).h \in Handles /\ Head(queue).type \in Types
      BY <1>3, HandleType, TypeOfMessages DEF ProcRequest
    <2>2. type \in AllTypes /\ m \in Nifs
      BY <2>1, AgpsConstantsOK DEF EffectiveType, getAgpsStateMachine
    <2>3. agpsType' \in [Nifs -> AllTypes] /\ agpsType'[m] = type
      BY <1>3, <2>2 DEF ProcRequest, TypeOK
    <2>4. SubscriptionType'
      BY <1>3, <2>1, <2>2, <2>3, SubscribeType DEF ProcRequest
    <2> QED
      BY <1>3, <2>1, <2>3, <2>4 DEF ProcRequest, SubscriptionType, TypeOK,
                                    counters
  <1>4. CASE ProcRelease
    <2>1. queue' \in Seq(Msg) /\ Head(queue).h \in Handles
      BY <1>4, HandleType, TypeOfMessages DEF ProcRelease
    <2>2. SubscriptionType'
      BY <1>4, <2>1, UnsubscribeType DEF ProcRelease
    <2> QED
      BY <1>4, <2>1, <2>2 DEF ProcRelease, SubscriptionType, TypeOK, counters
  <1>5. CASE ProcReleaseUnknown
    <2>1. queue' \in Seq(Msg)
      BY <1>5, HandleType DEF ProcReleaseUnknown
    <2> QED
      BY <1>5, <2>1 DEF ProcReleaseUnknown, TypeOK, machineVars, counters
  <1>6. CASE ProcOpened
    <2>1. queue' \in Seq(Msg) /\ Head(queue).m \in Nifs
      BY <1>6, HandleType, TypeOfMessages DEF ProcOpened
    <2> QED
      BY <1>6, <2>1 DEF ProcOpened, TypeOK, States, NotifyGranted, ToldOpen,
                        counters
  <1>7. CASE ProcFailed
    <2>1. queue' \in Seq(Msg) /\ Head(queue).m \in Nifs
      BY <1>7, HandleType, TypeOfMessages DEF ProcFailed
    <2> QED
      BY <1>7, <2>1 DEF ProcFailed, TypeOK, States, NotifyEnded, counters
  <1>8. CASE ProcClosed
    <2>1. queue' \in Seq(Msg) /\ Head(queue).m \in Nifs
      BY <1>8, HandleType, TypeOfMessages DEF ProcClosed
    <2> QED
      BY <1>8, <2>1 DEF ProcClosed, reportAtlClosed, TypeOK, States,
                        NotifyEnded, counters
  <1> QED
    BY <1>1, <1>2, <1>3, <1>4, <1>5, <1>6, <1>7, <1>8 DEF ManagerStep

LEMMA ServeType ==
  ASSUME TypeOK, NEW m \in Nifs, NEW op, ToServe(m, op)
  PROVE  fw' \in [Nifs -> Seq([op : {"request", "release"}, type : AllTypes])]
  <1>1. fw[m] \in Seq([op : {"request", "release"}, type : AllTypes])
    BY DEF TypeOK
  <1>2. Tail(fw[m]) \in Seq([op : {"request", "release"}, type : AllTypes])
    BY <1>1, TailPositions DEF ToServe
  <1> QED
    BY <1>2 DEF ToServe, TypeOK

LEMMA PostType ==
  ASSUME TypeOK, NEW m \in Nifs, NEW t \in {"opened", "failed", "closed"},
         Post(t, m)
  PROVE  queue' \in Seq(Msg) /\ [t |-> t, m |-> m] \in Msg
  <1>1. [t |-> t, m |-> m] \in Msg
    BY DEF Msg
  <1> QED
    BY <1>1, AppendPositions DEF Post, TypeOK

LEMMA FrameworkType == TypeOK /\ FrameworkStep => TypeOK'
  <1> SUFFICES ASSUME TypeOK, NEW m \in Nifs,
                      \/ FrameworkOpens(m) \/ FrameworkFails(m)
                      \/ FrameworkCloses(m) \/ FrameworkLoses(m)
                      \/ FrameworkOpensBadApn(m)
               PROVE  TypeOK'
    BY DEF FrameworkStep
  <1>1. CASE FrameworkOpens(m)
    BY <1>1, ServeType, PostType DEF FrameworkOpens, TypeOK, machineVars, counters
  <1>2. CASE FrameworkFails(m)
    BY <1>2, ServeType, PostType DEF FrameworkFails, TypeOK, machineVars, counters
  <1>3. CASE FrameworkCloses(m)
    BY <1>3, ServeType, PostType DEF FrameworkCloses, TypeOK, machineVars, counters
  <1>4. CASE FrameworkLoses(m)
    BY <1>4, PostType, AgpsConstantsOK DEF FrameworkLoses, TypeOK, machineVars
  <1>5. CASE FrameworkOpensBadApn(m)
    <2>1. fw' \in [Nifs -> Seq([op : {"request", "release"}, type : AllTypes])]
      BY <1>5, ServeType DEF FrameworkOpensBadApn
    <2> QED
      BY <1>5, <2>1, AgpsConstantsOK
      DEF FrameworkOpensBadApn, reportAtlClosed, NotifyEnded, TypeOK, States
  <1> QED
    BY <1>1, <1>2, <1>3, <1>4, <1>5

LEMMA NextType == TypeOK /\ [Next]_vars => TypeOK'
  <1> SUFFICES ASSUME TypeOK, [Next]_vars PROVE TypeOK'
    OBVIOUS
  <1>1. CASE Next
    BY <1>1, ModemType, ManagerType, FrameworkType DEF Next
  <1>2. CASE UNCHANGED vars
    BY <1>2 DEF vars, machineVars, counters, TypeOK
  <1> QED
    BY <1>1, <1>2

\* Every variable keeps its type: messages of the queue are well formed, no
\* bound is passed, and mState never leaves RELEASED, PENDING and ACQUIRED.
THEOREM TypeCorrect == Spec => []TypeOK
  BY InitType, NextType, PTL DEF Spec

-----------------------------------------------------------------------------
(* Subscriber lists and states.                                            *)

LEMMA SubscriptionMatchesState ==
  ASSUME TypeOK, SubscribersMatchState, NEW m \in Nifs, NEW h \in Handles,
         Subscribe(m, h) \/ Unsubscribe(m, h)
  PROVE  SubscribersMatchState'
  <1>1. subs \in [Nifs -> SUBSET Handles] /\ state \in [Nifs -> States]
    BY DEF TypeOK
  <1>2. subs[m] = {} <=> state[m] = "RELEASED"
    BY DEF SubscribersMatchState
  <1>3. \E S \in SUBSET Handles, t \in States :
          /\ subs' = [subs EXCEPT ![m] = S] /\ state' = [state EXCEPT ![m] = t]
          /\ S = {} <=> t = "RELEASED"
    <2>1. CASE Subscribe(m, h)
      <3>1. subs' = [subs EXCEPT ![m] = subs[m] \cup {h}]
        BY <2>1 DEF Subscribe
      <3>2. \E t \in States \ {"RELEASED"} : state' = [state EXCEPT ![m] = t]
        <4>1. state' = [state EXCEPT ![m] = "PENDING"]
                \/ (state[m] \in {"PENDING", "ACQUIRED"} /\ state' = [state EXCEPT ![m] = state[m]])
          BY <1>1, <2>1 DEF Subscribe
        <4> QED
          BY <4>1 DEF States
      <3>3. PICK t \in States \ {"RELEASED"} : state' = [state EXCEPT ![m] = t]
        BY <3>2
      <3>4. subs[m] \cup {h} \in SUBSET Handles /\ subs[m] \cup {h} # {}
        BY <1>1
      <3> QED
        BY <3>1, <3>3, <3>4
    <2>2. CASE Unsubscribe(m, h)
      <3>1. CASE state[m] = "RELEASED" /\ UNCHANGED <<state, subs>>
        <4>1. subs' = [subs EXCEPT ![m] = subs[m]] /\ state' = [state EXCEPT ![m] = state[m]]
          BY <1>1, <3>1
        <4> QED
          BY <1>1, <1>2, <4>1
      <3>2. CASE state[m] # "RELEASED" /\ \E rest \in deleteSubscriber(subs[m], h) :
                   /\ subs' = [subs EXCEPT ![m] = rest]
                   /\ state' = [state EXCEPT ![m] = IF rest = {} THEN "RELEASED" ELSE state[m]]
        <4>1. PICK rest \in deleteSubscriber(subs[m], h) :
                   /\ subs' = [subs EXCEPT ![m] = rest]
                   /\ state' = [state EXCEPT ![m] = IF rest = {} THEN "RELEASED" ELSE state[m]]
          BY <3>2
        <4>2. rest \in SUBSET Handles
          BY <1>1 DEF deleteSubscriber
        <4>3. state[m] \in States /\ "RELEASED" \in States
          BY <1>1 DEF States
        <4> QED
          BY <3>2, <4>1, <4>2, <4>3
      <3>3. state = [state EXCEPT ![m] = state[m]]
        BY <1>1
      <3> QED
        BY <2>2, <3>1, <3>2, <3>3 DEF Unsubscribe
    <2> QED
      BY <2>1, <2>2
  <1>4. PICK S \in SUBSET Handles, t \in States :
          /\ subs' = [subs EXCEPT ![m] = S] /\ state' = [state EXCEPT ![m] = t]
          /\ S = {} <=> t = "RELEASED"
    BY <1>3
  <1>5. \A k \in Nifs : subs'[k] = {} <=> state'[k] = "RELEASED"
    BY <1>1, <1>4 DEF SubscribersMatchState
  <1> QED
    BY <1>5 DEF SubscribersMatchState

LEMMA NextMatchesState ==
  TypeOK /\ SubscribersMatchState /\ [Next]_vars => SubscribersMatchState'
  <1> SUFFICES ASSUME TypeOK, SubscribersMatchState, [Next]_vars
               PROVE  SubscribersMatchState'
    OBVIOUS
  <1>1. CASE ModemStep
    BY <1>1 DEF ModemStep, ModemRequest, ModemRelease, ModemRestart,
                machineVars, SubscribersMatchState
  <1>2. CASE ManagerStep
    <2>1. CASE ProcRequest
      <3> DEFINE type == EffectiveType(Head(queue).type)
                 m == getAgpsStateMachine(type)
      <3>1. Head(queue).h \in Handles /\ m \in Nifs
        BY <2>1, HandleType, TypeOfMessages
        DEF ProcRequest, getAgpsStateMachine
      <3> QED
        BY <2>1, <3>1, SubscriptionMatchesState DEF ProcRequest
    <2>2. CASE ProcRelease
      <3>1. Head(queue).h \in Handles
        BY <2>2, HandleType, TypeOfMessages DEF ProcRelease
      <3> QED
        BY <2>2, <3>1, SubscriptionMatchesState DEF ProcRelease
    <2>3. CASE ProcOpened
      BY <2>3 DEF ProcOpened, SubscribersMatchState, TypeOK
    <2>4. CASE ProcFailed
      BY <2>4 DEF ProcFailed, SubscribersMatchState, TypeOK
    <2>5. CASE ProcClosed
      BY <2>5 DEF ProcClosed, reportAtlClosed, SubscribersMatchState, TypeOK
    <2>6. CASE ProcInit \/ ProcRequestNoMachine \/ ProcReleaseUnknown
      BY <2>6 DEF ProcInit, ProcRequestNoMachine, ProcReleaseUnknown,
                  machineVars, SubscribersMatchState
    <2> QED
      BY <1>2, <2>1, <2>2, <2>3, <2>4, <2>5, <2>6 DEF ManagerStep
  <1>3. CASE FrameworkStep
    BY <1>3 DEF FrameworkStep, FrameworkOpens, FrameworkFails, FrameworkCloses,
                FrameworkLoses, FrameworkOpensBadApn, reportAtlClosed,
                machineVars, SubscribersMatchState, TypeOK
  <1>4. CASE UNCHANGED vars
    BY <1>4 DEF vars, machineVars, SubscribersMatchState
  <1> QED
    BY <1>1, <1>2, <1>3, <1>4 DEF Next

\* A machine has subscribers exactly when it is not RELEASED, whatever order
\* requests, releases and answers of the framework come in, and whatever
\* deleteSubscriber finds in freed memory.
THEOREM SubscribersMatch == Spec => []SubscribersMatchState
  <1>1. Init => SubscribersMatchState
    BY DEF Init, SubscribersMatchState
  <1> QED
    BY <1>1, NextMatchesState, TypeCorrect, PTL DEF Spec

-----------------------------------------------------------------------------
(* Open handles.                                                           *)

LEMMA SubscriptionBacksOpen ==
  ASSUME TypeOK, OpenBacked, FreedRead = {}, NEW m \in Nifs,
         NEW h \in Handles, Subscribe(m, h) \/ Unsubscribe(m, h)
  PROVE  OpenBacked'
  <1>1. CASE Subscribe(m, h)
    BY <1>1 DEF Subscribe, NotifyGranted, ToldOpen, OpenBacked, TypeOK
  <1>2. CASE Unsubscribe(m, h)
    <2>1. subs'[m] = subs[m] \ {h} \/ UNCHANGED subs
      BY <1>2 DEF Unsubscribe, deleteSubscriber, TypeOK
    <2>2. \A n \in Nifs : n # m => subs'[n] = subs[n] /\ state'[n] = state[n]
      BY <1>2 DEF Unsubscribe, TypeOK
    <2>3. state[m] = "ACQUIRED" => state'[m] = "ACQUIRED" \/ subs[m] \subseteq {h}
      BY <1>2 DEF Unsubscribe, deleteSubscriber, TypeOK
    <2>4. \A g \in Handles : modem'[g] = "open" => modem[g] = "open" /\ g # h
      BY <1>2 DEF Unsubscribe, NotifyEnded, TypeOK
    <2> QED
      BY <2>1, <2>2, <2>3, <2>4 DEF OpenBacked
  <1> QED
    BY <1>1, <1>2

LEMMA NextBacksOpen ==
  FreedRead = {} /\ TypeOK /\ OpenBacked /\ [Next]_vars => OpenBacked'
  <1> SUFFICES ASSUME FreedRead = {}, TypeOK, OpenBacked, [Next]_vars
               PROVE  OpenBacked'
    OBVIOUS
  <1>1. CASE ModemStep
    <2>1. \A h \in Handles : modem'[h] = "open" => modem[h] = "open"
      BY <1>1 DEF ModemStep, ModemRequest, ModemRelease, ModemRestart, TypeOK
    <2>2. UNCHANGED <<state, subs>>
      BY <1>1 DEF ModemStep, ModemRequest, ModemRelease, ModemRestart,
                  machineVars
    <2> QED
      BY <2>1, <2>2 DEF OpenBacked
  <1>2. CASE ManagerStep
    <2>1. CASE ProcRequest
      <3> DEFINE type == EffectiveType(Head(queue).type)
                 m == getAgpsStateMachine(type)
      <3>1. Head(queue).h \in Handles /\ m \in Nifs
        BY <2>1, HandleType, TypeOfMessages
        DEF ProcRequest, getAgpsStateMachine
      <3> QED
        BY <2>1, <3>1, SubscriptionBacksOpen DEF ProcRequest
    <2>2. CASE ProcRelease
      <3>1. Head(queue).h \in Handles
        BY <2>2, HandleType, TypeOfMessages DEF ProcRelease
      <3> QED
        BY <2>2, <3>1, SubscriptionBacksOpen DEF ProcRelease
    <2>3. CASE ProcOpened
      <3> DEFINE m == Head(queue).m
      <3>1. CASE state[m] = "PENDING"
        <4>1. m \in Nifs
          BY <2>3, HandleType, TypeOfMessages DEF ProcOpened
        <4>2. state' = [state EXCEPT ![m] = "ACQUIRED"] /\ UNCHANGED subs
          BY <2>3, <3>1 DEF ProcOpened
        <4>3. \A h \in Handles : modem'[h] = "open"
                                => modem[h] = "open" \/ h \in subs[m]
          BY <2>3, <3>1 DEF ProcOpened, NotifyGranted
        <4> QED
          BY <4>1, <4>2, <4>3 DEF OpenBacked, TypeOK
      <3>2. CASE state[m] # "PENDING"
        BY <2>3, <3>2 DEF ProcOpened, OpenBacked
      <3> QED
        BY <3>1, <3>2
    <2>4. CASE ProcFailed
      BY <2>4 DEF ProcFailed, NotifyEnded, OpenBacked, TypeOK
    <2>5. CASE ProcClosed
      BY <2>5 DEF ProcClosed, reportAtlClosed, NotifyEnded, OpenBacked, TypeOK
    <2>6. CASE ProcRequestNoMachine
      BY <2>6 DEF ProcRequestNoMachine, NotifyEnded, machineVars, OpenBacked
    <2>7. CASE ProcInit \/ ProcReleaseUnknown
      BY <2>7 DEF ProcInit, ProcReleaseUnknown, machineVars, OpenBacked
    <2> QED
      BY <1>2, <2>1, <2>2, <2>3, <2>4, <2>5, <2>6, <2>7 DEF ManagerStep
  <1>3. CASE FrameworkStep
    BY <1>3 DEF FrameworkStep, FrameworkOpens, FrameworkFails, FrameworkCloses,
                FrameworkLoses, FrameworkOpensBadApn, reportAtlClosed,
                NotifyEnded, machineVars, OpenBacked, TypeOK
  <1>4. CASE UNCHANGED vars
    BY <1>4 DEF vars, machineVars, OpenBacked
  <1> QED
    BY <1>1, <1>2, <1>3, <1>4 DEF Next

\* A handle the modem uses is a subscriber of an ACQUIRED machine, so losing or
\* closing the connection reaches its user; this rests on deleteSubscriber
\* finding no other subscriber in the memory it has freed.
THEOREM OpenHandlesBacked == FreedRead = {} /\ Spec => []OpenBacked
  <1>1. Init => OpenBacked
    BY DEF Init, OpenBacked
  <1>2. ASSUME FreedRead = {} PROVE Spec => []OpenBacked
    <2>1. TypeOK /\ OpenBacked /\ [Next]_vars => OpenBacked'
      BY <1>2, NextBacksOpen
    <2> QED
      BY <1>1, <2>1, TypeCorrect, PTL DEF Spec
  <1> QED
    BY <1>2

-----------------------------------------------------------------------------
(* Answers of the framework.                                               *)

\* Messages other than the one that is handled stay in the queue.
LEMMA QueuedBehind ==
  ASSUME TypeOK, NEW t, Handle(t), NEW u, NEW m, Queued(m, u),
         t # u \/ Head(queue).m # m
  PROVE  Queued(m, u)'
  <1>1. PICK i \in DOMAIN queue : queue[i] = [t |-> u, m |-> m]
    BY DEF Queued
  <1>2. queue # << >> /\ queue' = Tail(queue) /\ Head(queue).t = t
    BY DEF Handle
  <1>3. i # 1
    BY <1>1, <1>2, TailPositions DEF TypeOK
  <1>4. \A k \in DOMAIN queue : k # 1 => /\ k - 1 \in DOMAIN Tail(queue)
                                         /\ Tail(queue)[k - 1] = queue[k]
    BY <1>2, TailPositions DEF TypeOK
  <1>5. i - 1 \in DOMAIN queue' /\ queue'[i - 1] = queue[i]
    BY <1>1, <1>2, <1>3, <1>4
  <1> QED
    BY <1>1, <1>5 DEF Queued

\* Posting a message keeps those in the queue.
LEMMA QueuedBefore ==
  ASSUME TypeOK, NEW e \in Msg, queue' = Append(queue, e),
         NEW u, NEW m, Queued(m, u)
  PROVE  Queued(m, u)'
  <1>1. PICK i \in DOMAIN queue : queue[i] = [t |-> u, m |-> m]
    BY DEF Queued
  <1>2. i \in DOMAIN queue' /\ queue'[i] = queue[i]
    BY AppendPositions DEF TypeOK
  <1> QED
    BY <1>1, <1>2 DEF Queued

\* What the modem posts.
LEMMA ModemPosts ==
  ASSUME ModemStep
  PROVE  \/ queue' = queue
         \/ \E e \in Msg : /\ queue' = Append(queue, e)
                           /\ e.t \in {"request", "release"}
  <1>1. ASSUME NEW h \in Handles, NEW type \in Types, ModemRequest(h, type)
        PROVE  \E e \in Msg : queue' = Append(queue, e) /\ e.t = "request"
    <2>1. [t |-> "request", h |-> h, type |-> type] \in Msg
      BY DEF Msg
    <2> QED
      BY <1>1, <2>1 DEF ModemRequest
  <1>2. ASSUME NEW h \in Handles, ModemRelease(h)
        PROVE  \E e \in Msg : queue' = Append(queue, e) /\ e.t = "release"
    <2>1. [t |-> "release", h |-> h] \in Msg
      BY DEF Msg
    <2> QED
      BY <1>2, <2>1 DEF ModemRelease
  <1> QED
    BY <1>1, <1>2 DEF ModemStep, ModemRestart

LEMMA PostQueues ==
  ASSUME TypeOK, NEW t \in {"opened", "failed", "closed"}, NEW m \in Nifs,
         Post(t, m)
  PROVE  /\ Queued(m, t)'
         /\ \A u, n : Queued(n, u) => Queued(n, u)'
  <1>1. [t |-> t, m |-> m] \in Msg
    BY PostType
  <1>2. Len(queue) + 1 \in DOMAIN queue'
        /\ queue'[Len(queue) + 1] = [t |-> t, m |-> m]
    BY <1>1, AppendPositions DEF Post, TypeOK
  <1> QED
    BY <1>1, <1>2, QueuedBefore DEF Post, Queued

\* The framework has a request of m to serve, or its answer is on the way.
Owed(m) ==
  \/ \E i \in DOMAIN fw[m] : fw[m][i].op = "request"
  \/ Queued(m, "opened") \/ Queued(m, "failed")

\* Serving one thing leaves the others.
LEMMA RequestsBehind ==
  ASSUME TypeOK, NEW m \in Nifs, NEW op, ToServe(m, op), op # "request",
         NEW n \in Nifs, NEW i \in DOMAIN fw[n], fw[n][i].op = "request"
  PROVE  \E j \in DOMAIN fw'[n] : fw'[n][j].op = "request"
  <1>1. fw[m] \in Seq([op : {"request", "release"}, type : AllTypes])
    BY DEF TypeOK
  <1>2. CASE n = m
    <2>1. fw'[n] = Tail(fw[n]) /\ fw[n] # << >> /\ Head(fw[n]).op = op
      BY <1>2 DEF ToServe, TypeOK
    <2>2. i # 1
      BY <1>1, <1>2, <2>1, TailPositions
    <2>3. i - 1 \in DOMAIN fw'[n] /\ fw'[n][i - 1] = fw[n][i]
      BY <1>1, <1>2, <2>1, <2>2, TailPositions
    <2> QED
      BY <2>3
  <1>3. CASE n # m
    BY <1>3 DEF ToServe, TypeOK
  <1> QED
    BY <1>2, <1>3

LEMMA RequestsBefore ==
  ASSUME TypeOK, NEW m \in Nifs, NEW op \in {"request", "release"},
         NEW type \in AllTypes, requestOrReleaseDataConn(m, op, type)
  PROVE  /\ \A n \in Nifs : (\E i \in DOMAIN fw[n] : fw[n][i].op = "request")
               => \E i \in DOMAIN fw'[n] : fw'[n][i].op = "request"
         /\ op = "request" =>
              \E i \in DOMAIN fw'[m] : fw'[m][i].op = "request"
  <1>1. fw[m] \in Seq([op : {"request", "release"}, type : AllTypes])
    BY DEF TypeOK
  <1>2. fw'[m] = Append(fw[m], [op |-> op, type |-> type])
        /\ \A n \in Nifs : n # m => fw'[n] = fw[n]
    BY DEF requestOrReleaseDataConn, TypeOK
  <1>3. /\ \A i \in DOMAIN fw[m] : i \in DOMAIN fw'[m] /\ fw'[m][i] = fw[m][i]
        /\ Len(fw[m]) + 1 \in DOMAIN fw'[m]
        /\ fw'[m][Len(fw[m]) + 1] = [op |-> op, type |-> type]
    BY <1>1, <1>2, AppendPositions
  <1> QED
    BY <1>2, <1>3

\* A subscriber's event withdraws no request and makes a machine PENDING only
\* along with a request.
LEMMA SubscriptionKeepsRequests ==
  ASSUME TypeOK, NEW m \in Nifs, NEW h \in Handles,
         \/ Subscribe(m, h) /\ agpsType'[m] \in AllTypes
         \/ Unsubscribe(m, h),
         NEW n \in Nifs, state'[n] = "PENDING"
  PROVE  \/ \E i \in DOMAIN fw'[n] : fw'[n][i].op = "request"
         \/ /\ state[n] = "PENDING"
            /\ ~ \E i \in DOMAIN fw[n] : fw[n][i].op = "request"
  <1>1. CASE Subscribe(m, h) /\ agpsType'[m] \in AllTypes
    BY <1>1, RequestsBefore DEF Subscribe, TypeOK
  <1>2. CASE Unsubscribe(m, h)
    <2>1. agpsType[m] \in AllTypes
      BY DEF TypeOK
    <2>2. state[n] = "PENDING"
      BY <1>2 DEF Unsubscribe, TypeOK
    <2> QED
      BY <1>2, <2>1, <2>2, RequestsBefore DEF Unsubscribe, TypeOK
  <1> QED
    BY <1>1, <1>2

LEMMA NextAnswersPending ==
  TypeOK /\ PendingAnswered /\ [Next]_vars => PendingAnswered'
  <1> SUFFICES ASSUME TypeOK, PendingAnswered, [Next]_vars, rejects' = 0,
                      NEW n \in Nifs, state'[n] = "PENDING"
               PROVE  Owed(n)'
    BY DEF PendingAnswered, Owed
  <1> USE DEF Owed
  <1>0. rejects = 0 => (state[n] = "PENDING" => Owed(n))
    BY DEF PendingAnswered
  <1>1. CASE ModemStep
    <2>1. UNCHANGED <<state, fw, rejects>>
      BY <1>1 DEF ModemStep, ModemRequest, ModemRelease, ModemRestart,
                  machineVars, counters
    <2>2. queue' = queue \/ \E e \in Msg : queue' = Append(queue, e)
      BY <1>1, ModemPosts
    <2>3. \A u, m : Queued(m, u) => Queued(m, u)'
      BY <2>2, QueuedBefore DEF Queued
    <2> QED
      BY <1>0, <2>1, <2>3
  <1>2. CASE ManagerStep
    <2>0. rejects = 0
      BY <1>2 DEF ManagerStep, ProcInit, ProcRequestNoMachine, ProcRequest,
                  ProcRelease, ProcReleaseUnknown, ProcOpened, ProcFailed,
                  ProcClosed, counters
    <2>1. CASE ProcRequest
      <3> DEFINE type == EffectiveType(Head(queue).type)
                 m == getAgpsStateMachine(type)
      <3>1. Head(queue).h \in Handles /\ Head(queue).type \in Types
        BY <2>1, HandleType, TypeOfMessages DEF ProcRequest
      <3>2. type \in AllTypes /\ m \in Nifs
        BY <3>1, AgpsConstantsOK DEF EffectiveType, getAgpsStateMachine
      <3>3. agpsType'[m] \in AllTypes /\ Subscribe(m, Head(queue).h)
        BY <2>1, <3>2 DEF ProcRequest, TypeOK
      <3>4. \A u \in {"opened", "failed"} : Queued(n, u) => Queued(n, u)'
        BY <2>1, QueuedBehind DEF ProcRequest
      <3> QED
        BY <1>0, <2>0, <3>1, <3>2, <3>3, <3>4, SubscriptionKeepsRequests
    <2>2. CASE ProcRelease
      <3>1. Head(queue).h \in Handles
        BY <2>2, HandleType, TypeOfMessages DEF ProcRelease
      <3>2. \A u \in {"opened", "failed"} : Queued(n, u) => Queued(n, u)'
        BY <2>2, QueuedBehind DEF ProcRelease
      <3> QED
        BY <1>0, <2>0, <2>2, <3>1, <3>2, SubscriptionKeepsRequests
        DEF ProcRelease
    <2>3. CASE ProcOpened
      <3>1. Head(queue).m # n /\ state[n] = "PENDING" /\ fw' = fw
        BY <2>3 DEF ProcOpened, TypeOK
      <3> QED
        BY <1>0, <2>0, <2>3, <3>1, QueuedBehind DEF ProcOpened
    <2>4. CASE ProcFailed
      <3>1. Head(queue).m # n /\ state[n] = "PENDING" /\ fw' = fw
        BY <2>4 DEF ProcFailed, TypeOK
      <3> QED
        BY <1>0, <2>0, <2>4, <3>1, QueuedBehind DEF ProcFailed
    <2>5. CASE ProcClosed
      <3>1. state[n] = "PENDING" /\ fw' = fw
        BY <2>5 DEF ProcClosed, reportAtlClosed, TypeOK
      <3> QED
        BY <1>0, <2>0, <2>5, <3>1, QueuedBehind DEF ProcClosed
    <2>6. CASE ProcInit \/ ProcRequestNoMachine \/ ProcReleaseUnknown
      <3>1. state[n] = "PENDING" /\ fw' = fw
        BY <2>6 DEF ProcInit, ProcRequestNoMachine, ProcReleaseUnknown,
                    machineVars
      <3>2. \A u \in {"opened", "failed"} : Queued(n, u) => Queued(n, u)'
        BY <2>6, QueuedBehind DEF ProcInit, ProcRequestNoMachine,
                                  ProcReleaseUnknown
      <3> QED
        BY <1>0, <2>0, <3>1, <3>2
    <2> QED
      BY <1>2, <2>1, <2>2, <2>3, <2>4, <2>5, <2>6 DEF ManagerStep
  <1>3. CASE FrameworkStep
    <2> SUFFICES ASSUME NEW m \in Nifs,
                        \/ FrameworkOpens(m) \/ FrameworkFails(m)
                        \/ FrameworkCloses(m) \/ FrameworkLoses(m)
                        \/ FrameworkOpensBadApn(m)
                 PROVE  Owed(n)'
      BY <1>3 DEF FrameworkStep
    <2>1. CASE FrameworkOpensBadApn(m)
      BY <2>1 DEF FrameworkOpensBadApn, TypeOK
    <2>2. CASE FrameworkOpens(m) \/ FrameworkFails(m)
      <3>1. PICK u \in {"opened", "failed"} : Post(u, m)
        BY <2>2 DEF FrameworkOpens, FrameworkFails
      <3>2. /\ rejects = 0 /\ state[n] = "PENDING"
            /\ n # m => fw'[n] = fw[n]
        BY <2>2 DEF FrameworkOpens, FrameworkFails, ToServe, machineVars,
                    counters, TypeOK
      <3> QED
        BY <1>0, <3>1, <3>2, PostQueues
    <2>3. CASE FrameworkCloses(m)
      <3>1. rejects = 0 /\ state[n] = "PENDING" /\ Owed(n)
        BY <1>0, <2>3 DEF FrameworkCloses, machineVars, counters
      <3>2. \A u : Queued(n, u) => Queued(n, u)'
        BY <2>3, PostQueues DEF FrameworkCloses
      <3> QED
        BY <2>3, <3>1, <3>2, RequestsBehind DEF FrameworkCloses
    <2>4. CASE FrameworkLoses(m)
      <3>1. rejects = 0 /\ state[n] = "PENDING" /\ fw' = fw
        BY <2>4 DEF FrameworkLoses, machineVars
      <3>2. \A u : Queued(n, u) => Queued(n, u)'
        BY <2>4, PostQueues DEF FrameworkLoses
      <3> QED
        BY <1>0, <3>1, <3>2
    <2> QED
      BY <2>1, <2>2, <2>3, <2>4
  <1>4. CASE UNCHANGED vars
    BY <1>0, <1>4 DEF vars, machineVars, counters, Queued
  <1> QED
    BY <1>1, <1>2, <1>3, <1>4 DEF Next

\* No machine waits for an answer that cannot come, as long as no open was
\* turned down for its APN: whatever was requested, cancelled and lost since,
\* the framework still owes a PENDING machine an answer.
THEOREM PendingIsAnswered == Spec => []PendingAnswered
  <1>1. Init => PendingAnswered
    BY DEF Init, PendingAnswered
  <1> QED
    BY <1>1, NextAnswersPending, TypeCorrect, PTL DEF Spec

-----------------------------------------------------------------------------
(* Connections that are gone.                                              *)

\* What keeps AcquiredBacked: an open that has yet to be handled tells of a
\* connection that is still up, or whose close is queued behind it.
OpenedBacked ==
  \A m \in Nifs : \A i \in DOMAIN queue : queue[i] = [t |-> "opened", m |-> m] =>
    \/ conn[m]
    \/ \E j \in DOMAIN queue : j > i /\ queue[j] = [t |-> "closed", m |-> m]

\* Handling a message brings the order behind it one place to the front.
LEMMA OpenedBackedBehind ==
  ASSUME TypeOK, OpenedBacked, NEW t, Handle(t), UNCHANGED conn
  PROVE  OpenedBacked'
  <1> SUFFICES ASSUME NEW m \in Nifs, NEW i \in DOMAIN queue',
                      queue'[i] = [t |-> "opened", m |-> m], ~conn'[m]
               PROVE  \E j \in DOMAIN queue' :
                        j > i /\ queue'[j] = [t |-> "closed", m |-> m]
    BY DEF OpenedBacked
  <1>1. queue # << >> /\ queue' = Tail(queue)
    BY DEF Handle
  <1>2. i \in Nat /\ i >= 1
    BY <1>1, TailPositions DEF TypeOK
  <1>3. i + 1 \in DOMAIN queue /\ queue[i + 1] = [t |-> "opened", m |-> m]
    BY <1>1, TailPositions DEF TypeOK
  <1>4. PICK j \in DOMAIN queue :
          j > i + 1 /\ queue[j] = [t |-> "closed", m |-> m]
    BY <1>3 DEF OpenedBacked
  <1>5. j \in Nat /\ j # 1 /\ j - 1 > i
    BY <1>2, <1>4 DEF TypeOK
  <1>6. \A k \in DOMAIN queue : k # 1 => /\ k - 1 \in DOMAIN Tail(queue)
                                         /\ Tail(queue)[k - 1] = queue[k]
    BY <1>1, TailPositions DEF TypeOK
  <1>7. j - 1 \in DOMAIN queue' /\ queue'[j - 1] = queue[j]
    BY <1>1, <1>5, <1>6
  <1> QED
    BY <1>4, <1>5, <1>7

\* A message posted behind them leaves opens backed, when it is no open of a
\* connection that is down and connections that went down had it posted.
LEMMA OpenedBackedBefore ==
  ASSUME TypeOK, OpenedBacked, NEW e \in Msg, queue' = Append(queue, e),
         \A m \in Nifs : e = [t |-> "opened", m |-> m] => conn'[m],
         \A m \in Nifs : conn[m] /\ ~conn'[m] => e = [t |-> "closed", m |-> m]
  PROVE  OpenedBacked'
  <1> SUFFICES ASSUME NEW m \in Nifs, NEW i \in DOMAIN queue',
                      queue'[i] = [t |-> "opened", m |-> m], ~conn'[m]
               PROVE  \E j \in DOMAIN queue' :
                        j > i /\ queue'[j] = [t |-> "closed", m |-> m]
    BY DEF OpenedBacked
  <1>1. /\ DOMAIN queue' = DOMAIN queue \cup {Len(queue) + 1}
        /\ \A k \in DOMAIN queue : k < Len(queue) + 1 /\ queue'[k] = queue[k]
        /\ queue'[Len(queue) + 1] = e
    BY AppendPositions DEF TypeOK
  <1>2. i \in DOMAIN queue /\ queue[i] = [t |-> "opened", m |-> m]
    BY <1>1
  <1>3. CASE conn[m]
    BY <1>1, <1>2, <1>3
  <1>4. CASE ~conn[m]
    <2>1. PICK j \in DOMAIN queue :
            j > i /\ queue[j] = [t |-> "closed", m |-> m]
      BY <1>2, <1>4 DEF OpenedBacked
    <2> QED
      BY <1>1, <2>1
  <1> QED
    BY <1>3, <1>4

LEMMA NextBacksOpened ==
  TypeOK /\ OpenedBacked /\ [Next]_vars => OpenedBacked'
  <1> SUFFICES ASSUME TypeOK, OpenedBacked, [Next]_vars PROVE OpenedBacked'
    OBVIOUS
  <1>1. CASE ModemStep
    <2>1. UNCHANGED conn
      BY <1>1 DEF ModemStep, ModemRequest, ModemRelease, ModemRestart
    <2>2. CASE queue' = queue
      BY <2>1, <2>2 DEF OpenedBacked
    <2>3. CASE queue' # queue
      <3>1. PICK e \in Msg : queue' = Append(queue, e)
                             /\ e.t \in {"request", "release"}
        BY <1>1, <2>3, ModemPosts
      <3>2. \A m \in Nifs : e # [t |-> "opened", m |-> m]
        BY <3>1
      <3> QED
        BY <2>1, <3>1, <3>2, OpenedBackedBefore
    <2> QED
      BY <2>2, <2>3
  <1>2. CASE ManagerStep
    <2>1. UNCHANGED conn /\ \E t : Handle(t)
      BY <1>2 DEF ManagerStep, ProcInit, ProcRequestNoMachine, ProcRequest,
                  ProcRelease, ProcReleaseUnknown, ProcOpened, ProcFailed,
                  ProcClosed
    <2> QED
      BY <2>1, OpenedBackedBehind
  <1>3. CASE FrameworkStep
    <2> SUFFICES ASSUME NEW m \in Nifs,
                        \/ FrameworkOpens(m) \/ FrameworkFails(m)
                        \/ FrameworkCloses(m) \/ FrameworkLoses(m)
                        \/ FrameworkOpensBadApn(m)
                 PROVE  OpenedBacked'
      BY <1>3 DEF FrameworkStep
    <2>1. CASE FrameworkOpensBadApn(m)
      <3>1. queue' = queue /\ conn' = [conn EXCEPT ![m] = TRUE]
        BY <2>1 DEF FrameworkOpensBadApn
      <3> QED
        BY <3>1 DEF OpenedBacked, TypeOK
    <2>2. CASE FrameworkOpens(m)
      <3>1. [t |-> "opened", m |-> m] \in Msg /\ Post("opened", m)
            /\ conn' = [conn EXCEPT ![m] = TRUE]
        BY <2>2, PostType DEF FrameworkOpens
      <3> QED
        BY <3>1, OpenedBackedBefore DEF Post, TypeOK
    <2>3. CASE FrameworkFails(m)
      <3>1. [t |-> "failed", m |-> m] \in Msg /\ Post("failed", m)
            /\ UNCHANGED conn
        BY <2>3, PostType DEF FrameworkFails
      <3> QED
        BY <3>1, OpenedBackedBefore DEF Post, TypeOK
    <2>4. CASE FrameworkCloses(m) \/ FrameworkLoses(m)
      <3>1. [t |-> "closed", m |-> m] \in Msg /\ Post("closed", m)
            /\ conn' = [conn EXCEPT ![m] = FALSE]
        BY <2>4, PostType DEF FrameworkCloses, FrameworkLoses
      <3> QED
        BY <3>1, OpenedBackedBefore DEF Post, TypeOK
    <2> QED
      BY <2>1, <2>2, <2>3, <2>4
  <1>4. CASE UNCHANGED vars
    BY <1>4 DEF vars, OpenedBacked
  <1> QED
    BY <1>1, <1>2, <1>3, <1>4 DEF Next

LEMMA NextBacksAcquired ==
  TypeOK /\ OpenedBacked /\ AcquiredBacked /\ [Next]_vars => AcquiredBacked'
  <1> SUFFICES ASSUME TypeOK, OpenedBacked, AcquiredBacked, [Next]_vars,
                      NEW n \in Nifs, state'[n] = "ACQUIRED", ~conn'[n]
               PROVE  Queued(n, "closed")'
    BY DEF AcquiredBacked
  <1>0. state[n] = "ACQUIRED" => conn[n] \/ Queued(n, "closed")
    BY DEF AcquiredBacked
  <1>1. CASE ModemStep
    <2>1. UNCHANGED <<state, conn>>
      BY <1>1 DEF ModemStep, ModemRequest, ModemRelease, ModemRestart,
                  machineVars
    <2>2. queue' = queue \/ \E e \in Msg : queue' = Append(queue, e)
      BY <1>1, ModemPosts
    <2>3. \A u, m : Queued(m, u) => Queued(m, u)'
      BY <2>2, QueuedBefore DEF Queued
    <2> QED
      BY <1>0, <2>1, <2>3
  <1>2. CASE ManagerStep
    <2>0. UNCHANGED conn
      BY <1>2 DEF ManagerStep, ProcInit, ProcRequestNoMachine, ProcRequest,
                  ProcRelease, ProcReleaseUnknown, ProcOpened, ProcFailed,
                  ProcClosed
    <2>1. CASE ProcOpened
      <3>1. CASE state[n] = "ACQUIRED"
        BY <1>0, <2>0, <2>1, <3>1, QueuedBehind DEF ProcOpened
      <3>2. CASE state[n] # "ACQUIRED"
        <4>1. Head(queue).m = n
          BY <2>1, <3>2 DEF ProcOpened, TypeOK
        <4>2. queue # << >> /\ queue' = Tail(queue) /\ Head(queue).t = "opened"
          BY <2>1 DEF ProcOpened, Handle
        <4>3. Head(queue) \in Msg /\ 1 \in DOMAIN queue /\ Head(queue) = queue[1]
          BY <4>2, TailPositions DEF TypeOK
        <4>4. queue[1] = [t |-> "opened", m |-> n]
          BY <4>1, <4>2, <4>3 DEF Msg
        <4>5. Queued(n, "closed")
          BY <2>0, <4>3, <4>4 DEF OpenedBacked, Queued
        <4> QED
          BY <2>1, <4>5, QueuedBehind DEF ProcOpened
      <3> QED
        BY <3>1, <3>2
    <2>2. CASE ProcClosed
      <3>1. state[n] = "ACQUIRED" /\ Head(queue).m # n
        BY <2>2 DEF ProcClosed, reportAtlClosed, TypeOK
      <3> QED
        BY <1>0, <2>0, <2>2, <3>1, QueuedBehind DEF ProcClosed
    <2>3. CASE ProcFailed
      <3>1. state[n] = "ACQUIRED"
        BY <2>3 DEF ProcFailed, TypeOK
      <3> QED
        BY <1>0, <2>0, <2>3, <3>1, QueuedBehind DEF ProcFailed
    <2>4. CASE ProcRequest
      <3>1. state[n] = "ACQUIRED"
        BY <2>4 DEF ProcRequest, Subscribe, getAgpsStateMachine, TypeOK
      <3> QED
        BY <1>0, <2>0, <2>4, <3>1, QueuedBehind DEF ProcRequest
    <2>5. CASE ProcRelease
      <3>1. state[n] = "ACQUIRED"
        BY <2>5 DEF ProcRelease, Unsubscribe, TypeOK
      <3> QED
        BY <1>0, <2>0, <2>5, <3>1, QueuedBehind DEF ProcRelease
    <2>6. CASE ProcInit \/ ProcRequestNoMachine \/ ProcReleaseUnknown
      BY <1>0, <2>0, <2>6, QueuedBehind
      DEF ProcInit, ProcRequestNoMachine, ProcReleaseUnknown, machineVars
    <2> QED
      BY <1>2, <2>1, <2>2, <2>3, <2>4, <2>5, <2>6 DEF ManagerStep
  <1>3. CASE FrameworkStep
    <2> SUFFICES ASSUME NEW m \in Nifs,
                        \/ FrameworkOpens(m) \/ FrameworkFails(m)
                        \/ FrameworkCloses(m) \/ FrameworkLoses(m)
                        \/ FrameworkOpensBadApn(m)
                 PROVE  Queued(n, "closed")'
      BY <1>3 DEF FrameworkStep
    <2>1. CASE FrameworkOpensBadApn(m)
      <3>1. queue' = queue /\ state[n] = "ACQUIRED" /\ ~conn[n]
        BY <2>1 DEF FrameworkOpensBadApn, reportAtlClosed, TypeOK
      <3> QED
        BY <1>0, <3>1 DEF Queued
    <2>2. CASE FrameworkOpens(m) \/ FrameworkFails(m)
      <3>1. PICK u \in {"opened", "failed"} : Post(u, m)
        BY <2>2 DEF FrameworkOpens, FrameworkFails
      <3>2. state[n] = "ACQUIRED" /\ ~conn[n]
        BY <2>2 DEF FrameworkOpens, FrameworkFails, machineVars, TypeOK
      <3> QED
        BY <1>0, <3>1, <3>2, PostQueues
    <2>3. CASE FrameworkCloses(m) \/ FrameworkLoses(m)
      <3>1. /\ Post("closed", m)
            /\ state[n] = "ACQUIRED"
            /\ n # m => ~conn[n]
        BY <2>3 DEF FrameworkCloses, FrameworkLoses, machineVars, TypeOK
      <3> QED
        BY <1>0, <3>1, PostQueues
    <2> QED
      BY <2>1, <2>2, <2>3
  <1>4. CASE UNCHANGED vars
    BY <1>0, <1>4 DEF vars, machineVars, Queued
  <1> QED
    BY <1>1, <1>2, <1>3, <1>4 DEF Next

\* A machine that believes in a connection has it, or will hear of its close:
\* an open that arrives after the connection was closed or lost is always
\* followed by that close, the framework's thread and the queue being FIFO.
THEOREM AcquiredIsBacked == Spec => []AcquiredBacked
  <1>1. Init => OpenedBacked /\ AcquiredBacked
    BY DEF Init, OpenedBacked, AcquiredBacked
  <1> QED
    BY <1>1, NextBacksOpened, NextBacksAcquired, TypeCorrect, PTL DEF Spec

-----------------------------------------------------------------------------
(* Subscribers the modem has forgotten.                                    *)

Requested(h) ==
  \E i \in DOMAIN queue : queue[i].t = "request" /\ queue[i].h = h
RequestedOnce ==
  \A i, j \in DOMAIN queue :
    queue[i].t = "request" /\ queue[j].t = "request"
      /\ queue[i].h = queue[j].h => i = j

\* What keeps SubscribersInUse until the modem restarts: a handle in use is in
\* one place only, the request queued for it or the list of one machine.
UseInv ==
  ssrs = 0 =>
    /\ RequestedOnce
    /\ \A m \in Nifs : \A h \in subs[m] : modem[h] # "idle"
    /\ \A h \in Handles : Requested(h) =>
         modem[h] # "idle" /\ \A m \in Nifs : h \notin subs[m]
    /\ \A m, n \in Nifs : m # n => subs[m] \cap subs[n] = {}

\* A request that is handled was the only one of its handle.
LEMMA RequestsLeft ==
  ASSUME TypeOK, RequestedOnce, NEW t, Handle(t)
  PROVE  /\ RequestedOnce'
         /\ \A h : Requested(h)' => Requested(h)
         /\ \A h : t = "request" /\ h = Head(queue).h
                    => Requested(h) /\ ~Requested(h)'
  <1>1. /\ queue # << >> /\ queue' = Tail(queue) /\ Head(queue).t = t
        /\ queue \in Seq(Msg)
    BY DEF Handle, TypeOK
  <1>2. \A i \in DOMAIN queue' :
          /\ i \in Nat /\ i >= 1
          /\ i + 1 \in DOMAIN queue /\ queue'[i] = queue[i + 1]
    BY <1>1, TailPositions
  <1>3. 1 \in DOMAIN queue /\ queue[1] = Head(queue)
    BY <1>1, TailPositions
  <1>4. RequestedOnce'
    BY <1>2 DEF RequestedOnce
  <1>5. \A h : Requested(h)' => Requested(h)
    BY <1>2 DEF Requested
  <1>6. ASSUME NEW h, t = "request", h = Head(queue).h
        PROVE  Requested(h) /\ ~Requested(h)'
    <2>1. Requested(h)
      BY <1>1, <1>3, <1>6 DEF Requested
    <2>2. ASSUME NEW i \in DOMAIN queue', queue'[i].t = "request",
                 queue'[i].h = h
          PROVE  FALSE
      <3>1. i + 1 = 1
        BY <1>1, <1>2, <1>3, <1>6, <2>2 DEF RequestedOnce
      <3> QED
        BY <1>2, <3>1
    <2> QED
      BY <2>1, <2>2 DEF Requested
  <1> QED
    BY <1>4, <1>5, <1>6

\* A message that is posted is a request, or leaves the requests as they are.
LEMMA RequestsPosted ==
  ASSUME TypeOK, RequestedOnce, NEW e \in Msg, queue' = Append(queue, e),
         e.t = "request" => ~Requested(e.h)
  PROVE  /\ RequestedOnce'
         /\ \A h : Requested(h)' => Requested(h) \/ (e.t = "request" /\ h = e.h)
  <1>1. /\ DOMAIN queue' = DOMAIN queue \cup {Len(queue) + 1}
        /\ \A i \in DOMAIN queue : queue'[i] = queue[i]
        /\ queue'[Len(queue) + 1] = e
    BY AppendPositions DEF TypeOK
  <1>2. RequestedOnce'
    BY <1>1 DEF RequestedOnce, Requested
  <1>3. \A h : Requested(h)' => Requested(h) \/ (e.t = "request" /\ h = e.h)
    BY <1>1 DEF Requested
  <1> QED
    BY <1>2, <1>3

LEMMA ModemUse == TypeOK /\ UseInv /\ ModemStep => UseInv'
  <1> SUFFICES ASSUME TypeOK, UseInv, ModemStep, ssrs' = 0 PROVE UseInv'
    BY DEF UseInv
  <1>0. ssrs = 0 /\ UNCHANGED subs
    <2>1. ssrs \in Nat
      BY AgpsConstantsOK DEF TypeOK
    <2>2. ssrs' = ssrs \/ ssrs' = ssrs + 1
      BY DEF ModemStep, ModemRequest, ModemRelease, ModemRestart, counters
    <2>3. UNCHANGED subs
      BY DEF ModemStep, ModemRequest, ModemRelease, ModemRestart, machineVars
    <2> QED
      BY <2>1, <2>2, <2>3
  <1>1. ASSUME NEW h \in Handles, NEW type \in Types, ModemRequest(h, type)
        PROVE  UseInv'
    <2> DEFINE e == [t |-> "request", h |-> h, type |-> type]
    <2>1. e \in Msg /\ queue' = Append(queue, e) /\ e.h = h
      BY <1>1 DEF ModemRequest, Msg
    <2>2. ~Requested(h) /\ \A m \in Nifs : h \notin subs[m]
      BY <1>0, <1>1 DEF UseInv, ModemRequest
    <2>3. RequestedOnce' /\ \A g : Requested(g)' => Requested(g) \/ g = h
      BY <1>0, <2>1, <2>2, RequestsPosted DEF UseInv
    <2>4. modem' = [modem EXCEPT ![h] = "opening"]
      BY <1>1 DEF ModemRequest
    <2> QED
      BY <1>0, <2>2, <2>3, <2>4 DEF UseInv, TypeOK
  <1>2. ASSUME NEW h \in Handles, ModemRelease(h) PROVE UseInv'
    <2> DEFINE e == [t |-> "release", h |-> h]
    <2>1. e \in Msg /\ queue' = Append(queue, e) /\ e.t = "release"
      BY <1>2 DEF ModemRelease, Msg
    <2>2. RequestedOnce' /\ \A g : Requested(g)' => Requested(g)
      BY <1>0, <2>1, RequestsPosted DEF UseInv
    <2>3. modem' = [modem EXCEPT ![h] = "closing"]
      BY <1>2 DEF ModemRelease
    <2> QED
      BY <1>0, <2>2, <2>3 DEF UseInv, TypeOK
  <1>3. CASE ModemRestart
    BY <1>0, <1>3 DEF ModemRestart
  <1> QED
    BY <1>1, <1>2, <1>3 DEF ModemStep

LEMMA ManagerUse ==
  TypeOK /\ SubscribersMatchState /\ UseInv /\ ManagerStep => UseInv'
  <1> SUFFICES ASSUME TypeOK, SubscribersMatchState, UseInv, ManagerStep,
                      ssrs' = 0
               PROVE  UseInv'
    BY DEF UseInv
  <1>0. ssrs = 0 /\ \E t : Handle(t)
    BY DEF ManagerStep, ProcInit, ProcRequestNoMachine, ProcRequest,
           ProcRelease, ProcReleaseUnknown, ProcOpened, ProcFailed, ProcClosed,
           counters
  <1>1. RequestedOnce' /\ \A h : Requested(h)' => Requested(h)
    BY <1>0, RequestsLeft DEF UseInv
  <1>2. CASE ProcInit \/ ProcReleaseUnknown
    BY <1>0, <1>1, <1>2 DEF ProcInit, ProcReleaseUnknown, machineVars, UseInv
  <1>3. CASE ProcRequestNoMachine
    <2>0. PICK h \in Handles : h = Head(queue).h
      BY <1>3, HandleType, TypeOfMessages DEF ProcRequestNoMachine
    <2>1. Requested(h) /\ ~Requested(h)'
      BY <1>0, <1>3, <2>0, RequestsLeft DEF ProcRequestNoMachine, UseInv
    <2>2. UNCHANGED subs /\ \A g \in Handles : g # h => modem'[g] = modem[g]
      BY <1>3, <2>0 DEF ProcRequestNoMachine, NotifyEnded, machineVars
    <2> QED
      BY <1>0, <1>1, <2>1, <2>2 DEF UseInv, TypeOK
  <1>4. CASE ProcRequest
    <2>0. PICK h \in Handles : h = Head(queue).h
      BY <1>4, HandleType, TypeOfMessages DEF ProcRequest
    <2>1. Requested(h) /\ ~Requested(h)'
      BY <1>0, <1>4, <2>0, RequestsLeft DEF ProcRequest, UseInv
    <2>2. PICK m \in Nifs : subs' = [subs EXCEPT ![m] = @ \cup {h}]
      BY <1>4, <2>0 DEF ProcRequest, Subscribe, getAgpsStateMachine
    <2>3. \A g \in Handles : modem[g] # "idle" => modem'[g] # "idle"
      BY <1>4 DEF ProcRequest, Subscribe, NotifyGranted, ToldOpen
    <2> QED
      BY <1>0, <1>1, <2>1, <2>2, <2>3 DEF UseInv, TypeOK
  <1>5. CASE ProcRelease
    <2>1. PICK h \in Handles : h = Head(queue).h
      BY <1>5, HandleType, TypeOfMessages DEF ProcRelease
    <2>2. PICK m \in Nifs : Finds(m, h) /\ Unsubscribe(m, h)
      BY <1>5, <2>1 DEF ProcRelease
    <2>3. h \in subs[m] /\ state[m] # "RELEASED"
      BY <2>2 DEF Finds, Machines, SubscribersMatchState
    <2>4. /\ h \notin subs'[m] /\ subs'[m] \subseteq subs[m]
          /\ \A n \in Nifs : n # m => subs'[n] = subs[n]
      BY <2>2, <2>3 DEF Unsubscribe, deleteSubscriber, TypeOK
    <2>5. \A g \in Handles : g # h => modem'[g] = modem[g]
      BY <2>2 DEF Unsubscribe, NotifyEnded
    <2> QED
      BY <1>0, <1>1, <2>1, <2>3, <2>4, <2>5 DEF UseInv, TypeOK
  <1>6. CASE ProcOpened
    <2>1. UNCHANGED subs
          /\ \A g \in Handles : modem[g] # "idle" => modem'[g] # "idle"
      BY <1>6 DEF ProcOpened, NotifyGranted, ToldOpen
    <2> QED
      BY <1>0, <1>1, <2>1 DEF UseInv, TypeOK
  <1>7. CASE ProcFailed \/ ProcClosed
    <2> DEFINE m == Head(queue).m
    <2>1. m \in Nifs
      BY <1>7, HandleType, TypeOfMessages DEF ProcFailed, ProcClosed
    <2>2. \/ UNCHANGED <<subs, modem>>
          \/ NotifyEnded(subs[m]) /\ subs' = [subs EXCEPT ![m] = {}]
      BY <1>7 DEF ProcFailed, ProcClosed, reportAtlClosed
    <2>3. CASE UNCHANGED <<subs, modem>>
      BY <1>0, <1>1, <2>3 DEF UseInv
    <2>4. CASE NotifyEnded(subs[m]) /\ subs' = [subs EXCEPT ![m] = {}]
      BY <1>0, <1>1, <2>1, <2>4 DEF UseInv, NotifyEnded, TypeOK
    <2> QED
      BY <2>2, <2>3, <2>4
  <1> QED
    BY <1>2, <1>3, <1>4, <1>5, <1>6, <1>7 DEF ManagerStep

LEMMA FrameworkUse == TypeOK /\ UseInv /\ FrameworkStep => UseInv'
  <1> SUFFICES ASSUME TypeOK, UseInv, ssrs' = 0, NEW m \in Nifs,
                      \/ FrameworkOpens(m) \/ FrameworkFails(m)
                      \/ FrameworkCloses(m) \/ FrameworkLoses(m)
                      \/ FrameworkOpensBadApn(m)
               PROVE  UseInv'
    BY DEF UseInv, FrameworkStep
  <1>1. CASE FrameworkOpensBadApn(m)
    <2>1. ssrs = 0 /\ queue' = queue
      BY <1>1 DEF FrameworkOpensBadApn
    <2>2. RequestedOnce' /\ \A h : Requested(h)' => Requested(h)
      BY <2>1 DEF UseInv, Requested, RequestedOnce
    <2>3. CASE UNCHANGED <<subs, modem>>
      BY <2>1, <2>2, <2>3 DEF UseInv
    <2>4. CASE NotifyEnded(subs[m]) /\ subs' = [subs EXCEPT ![m] = {}]
      BY <2>1, <2>2, <2>4 DEF UseInv, NotifyEnded, TypeOK
    <2> QED
      BY <1>1, <2>3, <2>4 DEF FrameworkOpensBadApn, reportAtlClosed
  <1>2. CASE \/ FrameworkOpens(m) \/ FrameworkFails(m)
             \/ FrameworkCloses(m) \/ FrameworkLoses(m)
    <2>1. ssrs = 0 /\ UNCHANGED <<subs, modem>>
      BY <1>2 DEF FrameworkOpens, FrameworkFails, FrameworkCloses,
                  FrameworkLoses, machineVars, counters
    <2>2. PICK t \in {"opened", "failed", "closed"} : Post(t, m)
      BY <1>2 DEF FrameworkOpens, FrameworkFails, FrameworkCloses, FrameworkLoses
    <2>3. [t |-> t, m |-> m] \in Msg
      BY <2>2, PostType
    <2>4. RequestedOnce' /\ \A h : Requested(h)' => Requested(h)
      BY <2>1, <2>2, <2>3, RequestsPosted DEF UseInv, Post
    <2> QED
      BY <2>1, <2>4 DEF UseInv
  <1> QED
    BY <1>1, <1>2

\* Until the modem restarts, no connection outlives the modem's interest: a
\* handle stays on a subscriber list only while the modem has it in use, whatever
\* deleteSubscriber finds in freed memory.
THEOREM SubscribersAreInUse == Spec => []SubscribersInUse
  <1>1. Init => UseInv
    <2>1. Init => \A h \in Handles : ~Requested(h)
      BY DEF Init, Requested
    <2>2. Init => RequestedOnce
      BY DEF Init, RequestedOnce
    <2> QED
      BY <2>1, <2>2 DEF Init, UseInv
  <1>2. TypeOK /\ SubscribersMatchState /\ UseInv /\ [Next]_vars => UseInv'
    <2>1. UseInv /\ UNCHANGED vars => UseInv'
      BY DEF vars, machineVars, counters, UseInv, Requested, RequestedOnce
    <2> QED
      BY <2>1, ModemUse, ManagerUse, FrameworkUse DEF Next
  <1>3. UseInv => SubscribersInUse
    BY DEF UseInv, SubscribersInUse
  <1> QED
    BY <1>1, <1>2, <1>3, TypeCorrect, SubscribersMatch, PTL DEF Spec
=============================================================================
