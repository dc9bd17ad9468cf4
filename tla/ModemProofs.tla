---------------------------- MODULE ModemProofs ----------------------------
(***************************************************************************)
(* Proofs about what stands between the adapters and the modem: the ODCPI  *)
(* requests (Odcpi), the table of adapters over one connection             *)
(* (LocApiBase), the locks and modes (GnssConfig), the fences (Geofence)   *)
(* and the batches (Batching), for every number of adapters, events,       *)
(* messages, fences, sessions and restarts.                                *)
(***************************************************************************)
EXTENDS Odcpi, LocApiBase, GnssConfig, Geofence, Batching, Functions, FiniteSetTheorems,
        WellFoundedInduction, TLAPS

-----------------------------------------------------------------------------
(* Sequences.                                                              *)

\* A queue loses its head or gains a last element, and stays a queue.
LEMMA QueueTail ==
  ASSUME NEW S, NEW s \in Seq(S), s # <<>>
  PROVE  /\ Tail(s) \in Seq(S) /\ Head(s) \in S
         /\ \A i \in DOMAIN s : s[i] = Head(s) \/
              (i - 1 \in DOMAIN Tail(s) /\ Tail(s)[i - 1] = s[i])
  OBVIOUS

\* The positions of a sequence, but for the last.
LEMMA Below == \A n \in Nat : \A i \in 1 .. n : i # n => i \in 1 .. n - 1
  OBVIOUS

LEMMA QueueAppend ==
  ASSUME NEW S, NEW s \in Seq(S), NEW e \in S
  PROVE  /\ Append(s, e) \in Seq(S) /\ Append(s, e) # <<>>
         /\ Len(s) + 1 \in DOMAIN Append(s, e) /\ Append(s, e)[Len(s) + 1] = e
         /\ \A i \in DOMAIN s : i \in DOMAIN Append(s, e) /\ Append(s, e)[i] = s[i]
  OBVIOUS

-----------------------------------------------------------------------------
(* ODCPI requests.                                                         *)

OdcpiMsg == [op : {"start", "stop", "engineUp", "expire"}, emergency : BOOLEAN]
ExpiryQueued == \E i \in DOMAIN odcpiMsgs : odcpiMsgs[i].op = "expire"

\* The adapter's view of its timer is never ahead of the timer: while it takes it
\* to be active it runs, or its message has still to be read.
OdcpiInv ==
  /\ odcpiMsgs \in Seq(OdcpiMsg)
  /\ timerActive => armed \/ ExpiryQueued
  /\ mOdcpiRequestActive => timerActive

LEMMA OdcpiInvInit == OdcpiInit => OdcpiInv
  BY DEF OdcpiInit, OdcpiInv

\* A message that is taken and is not the expiry leaves the expiry in the queue.
LEMMA ExpiryStays ==
  ASSUME odcpiMsgs \in Seq(OdcpiMsg), NEW op, op # "expire", TakeOdcpi(op), ExpiryQueued
  PROVE  ExpiryQueued'
  <1>1. PICK i \in DOMAIN odcpiMsgs : odcpiMsgs[i].op = "expire"
    BY DEF ExpiryQueued
  <1>2. odcpiMsgs[i] # Head(odcpiMsgs)
    BY <1>1 DEF TakeOdcpi
  <1>3. i - 1 \in DOMAIN Tail(odcpiMsgs) /\ Tail(odcpiMsgs)[i - 1] = odcpiMsgs[i]
    BY <1>2, QueueTail DEF TakeOdcpi
  <1> QED
    BY <1>1, <1>3 DEF TakeOdcpi, ExpiryQueued

LEMMA OdcpiInvStep == OdcpiInv /\ [OdcpiNext]_odcpiVars => OdcpiInv'
  <1> SUFFICES ASSUME OdcpiInv, [OdcpiNext]_odcpiVars PROVE OdcpiInv'
    OBVIOUS
  <1>1. CASE UNCHANGED odcpiVars
    BY <1>1 DEF odcpiVars, timerState, OdcpiInv, ExpiryQueued
  <1>2. ASSUME NEW op \in {"start", "stop", "engineUp"}, NEW e \in BOOLEAN,
               requestOdcpiEvent(op, e)
        PROVE  OdcpiInv'
    <2>1. OMsg(op, e) \in OdcpiMsg
      BY DEF OMsg, OdcpiMsg
    <2>2. /\ odcpiMsgs' \in Seq(OdcpiMsg)
          /\ \A i \in DOMAIN odcpiMsgs : i \in DOMAIN odcpiMsgs' /\ odcpiMsgs'[i] = odcpiMsgs[i]
      BY <1>2, <2>1, QueueAppend DEF requestOdcpiEvent, SendOdcpi, OdcpiInv
    <2>3. ExpiryQueued => ExpiryQueued'
      BY <2>2 DEF ExpiryQueued
    <2> QED
      BY <1>2, <2>2, <2>3 DEF requestOdcpiEvent, SendOdcpi, timerState, OdcpiInv
  <1>3. ASSUME NEW priority \in 1 .. 2, initOdcpi(priority) PROVE OdcpiInv'
    BY <1>3 DEF initOdcpi, timerState, OdcpiInv, ExpiryQueued
  <1>4. CASE TimerFires
    <2> DEFINE m == OMsg("expire", FALSE)
    <2>1. m \in OdcpiMsg /\ m.op = "expire"
      BY DEF OMsg, OdcpiMsg
    <2>2. odcpiMsgs' = Append(odcpiMsgs, m)
      BY <1>4 DEF TimerFires
    <2> HIDE DEF m
    <2>3. odcpiMsgs' \in Seq(OdcpiMsg)
      BY <2>1, <2>2, QueueAppend DEF OdcpiInv
    <2>4. \E i \in DOMAIN odcpiMsgs' : odcpiMsgs'[i] = m
      BY <2>1, <2>2, QueueAppend DEF OdcpiInv
    <2>5. ExpiryQueued'
      BY <2>1, <2>4 DEF ExpiryQueued
    <2> QED
      BY <1>4, <2>3, <2>5 DEF TimerFires, OdcpiInv
  <1>5. ASSUME NEW op, TakeOdcpi(op) PROVE odcpiMsgs' \in Seq(OdcpiMsg)
    BY <1>5, QueueTail DEF TakeOdcpi, OdcpiInv
  <1>6. CASE requestStart
    <2>1. odcpiMsgs' \in Seq(OdcpiMsg) /\ (ExpiryQueued => ExpiryQueued')
      BY <1>5, <1>6, ExpiryStays DEF requestStart, OdcpiInv
    <2> QED
      BY <1>6, <2>1 DEF requestStart, StartTimer, timerState, OdcpiInv
  <1>7. CASE requestStop
    <2>1. odcpiMsgs' \in Seq(OdcpiMsg) /\ (ExpiryQueued => ExpiryQueued')
      BY <1>5, <1>7, ExpiryStays DEF requestStop, OdcpiInv
    <2> QED
      BY <1>7, <2>1 DEF requestStop, timerState, OdcpiInv
  <1>8. CASE odcpiTimerExpire
    <2>1. odcpiMsgs' \in Seq(OdcpiMsg)
      BY <1>5, <1>8 DEF odcpiTimerExpire
    <2> QED
      BY <1>8, <2>1 DEF odcpiTimerExpire, StartTimer, StopTimer, OdcpiInv
  <1>9. CASE restartSessionsOdcpi
    <2>1. odcpiMsgs' \in Seq(OdcpiMsg) /\ (ExpiryQueued => ExpiryQueued')
      BY <1>5, <1>9, ExpiryStays DEF restartSessionsOdcpi, OdcpiInv
    <2> QED
      BY <1>9, <2>1 DEF restartSessionsOdcpi, timerState, OdcpiInv
  <1> QED
    BY <1>1, <1>2, <1>3, <1>4, <1>6, <1>7, <1>8, <1>9 DEF OdcpiNext

\* An active request has its timer running or its expiry on its way, for any number
\* of starts, stops, emergencies, expiries and restarts in any order.
THEOREM OdcpiRepeated == OdcpiSpec => []OdcpiTimed
  <1>1. OdcpiInv => OdcpiTimed
    BY DEF OdcpiInv, OdcpiTimed, ExpiryQueued
  <1> QED
    BY <1>1, OdcpiInvInit, OdcpiInvStep, PTL DEF OdcpiSpec

-----------------------------------------------------------------------------
(* The table of adapters.                                                  *)

ApiMsg == [op : {"open", "ssr", "close"}, adapter : SUBSET Adapters]
RegistryTypeOK ==
  /\ mLocAdapters \in Seq(Adapters) /\ Len(mLocAdapters) <= MAX_ADAPTERS
  /\ mEvtMask \in [Adapters -> SUBSET Events]
  /\ apiMsgs \in Seq(ApiMsg)

\* No adapter is in the table twice.
TableOnce ==
  \A i, j \in DOMAIN mLocAdapters : mLocAdapters[i] = mLocAdapters[j] => i = j

RegistryInv == RegistryTypeOK /\ TableOnce /\ MaskSettles

\* Removing an adapter takes it out of the table and leaves every other one in it
\* once, although the last one moves to its place.
LEMMA ShiftRemoves ==
  ASSUME RegistryTypeOK, TableOnce, NEW a \in Adapters, Registered(a), Shift(a)
  PROVE  /\ mLocAdapters' \in Seq(Adapters)
         /\ Len(mLocAdapters') = Len(mLocAdapters) - 1
         /\ TableOnce'
         /\ \A b \in Adapters : Registered(b)' <=> b # a /\ Registered(b)
  <1> DEFINE s == mLocAdapters
             n == Len(s)
             j == CHOOSE i \in DOMAIN s : s[i] = a
             t == [s EXCEPT ![j] = Last(s)]
  <1>1. s \in Seq(Adapters) /\ n \in Nat /\ DOMAIN s = 1 .. n
    BY DEF RegistryTypeOK
  <1>2. j \in 1 .. n /\ s[j] = a /\ n > 0
    BY <1>1 DEF Registered
  <1>3. Last(s) = s[n] /\ s[n] \in Adapters
    BY <1>1, <1>2 DEF Last
  <1>4. mLocAdapters' = SubSeq(t, 1, Len(t) - 1)
    BY DEF Shift, Front
  <1> HIDE DEF j
  <1>5. t \in Seq(Adapters) /\ Len(t) = n
    BY <1>1, <1>2, <1>3
  <1>6. \A i \in 1 .. n : t[i] = IF i = j THEN s[n] ELSE s[i]
    BY <1>1, <1>2, <1>3
  <1> HIDE DEF t
  <1>7. /\ mLocAdapters' \in Seq(Adapters) /\ Len(mLocAdapters') = n - 1
        /\ DOMAIN mLocAdapters' = 1 .. n - 1
        /\ \A i \in 1 .. n - 1 : mLocAdapters'[i] = t[i]
    BY <1>1, <1>2, <1>4, <1>5
  <1>8. \A i, k \in 1 .. n : s[i] = s[k] => i = k
    BY <1>1 DEF TableOnce
  <1>9. TableOnce'
    BY <1>1, <1>2, <1>6, <1>7, <1>8 DEF TableOnce
  <1>10. ASSUME NEW b \in Adapters, Registered(b)' PROVE b # a /\ Registered(b)
    <2>1. PICK i \in 1 .. n - 1 : mLocAdapters'[i] = b
      BY <1>7, <1>10 DEF Registered
    <2>2. b = IF i = j THEN s[n] ELSE s[i]
      BY <1>1, <1>6, <1>7, <2>1
    <2> QED
      BY <1>1, <1>2, <1>8, <2>1, <2>2 DEF Registered
  <1>11. ASSUME NEW b \in Adapters, b # a, Registered(b) PROVE Registered(b)'
    <2>1. PICK i \in 1 .. n : s[i] = b
      BY <1>1, <1>11 DEF Registered
    <2>2. i # j
      BY <1>2, <1>11, <2>1
    <2>3. CASE i # n
      <3>1. i \in 1 .. n - 1
        BY <1>1, <2>1, <2>3, Below
      <3>2. mLocAdapters'[i] = t[i]
        BY <1>7, <3>1
      <3>3. t[i] = b
        BY <1>6, <2>1, <2>2
      <3> QED
        BY <1>7, <3>1, <3>2, <3>3 DEF Registered
    <2>4. CASE i = n
      <3>1. j \in 1 .. n - 1
        BY <1>1, <1>2, <2>2, <2>4, Below
      <3>2. mLocAdapters'[j] = t[j]
        BY <1>7, <3>1
      <3>3. t[j] = b
        BY <1>2, <1>6, <2>1, <2>4
      <3> QED
        BY <1>7, <3>1, <3>2, <3>3 DEF Registered
    <2> QED
      BY <2>3, <2>4
  <1> QED
    BY <1>7, <1>9, <1>10, <1>11

LEMMA RegistryInvInit == RegistryInit => RegistryInv
  BY RegistryAssumption
  DEF RegistryInit, RegistryInv, RegistryTypeOK, TableOnce, MaskSettles

\* A message posted by a caller or by the modem's thread.
LEMMA SendApiType ==
  ASSUME apiMsgs \in Seq(ApiMsg), NEW op \in {"open", "ssr", "close"},
         NEW A \in SUBSET Adapters, SendApi(RMsg(op, A))
  PROVE  apiMsgs' \in Seq(ApiMsg) /\ apiMsgs' # <<>>
  <1>1. RMsg(op, A) \in ApiMsg
    BY DEF RMsg, ApiMsg
  <1> QED
    BY <1>1, QueueAppend DEF SendApi

LEMMA RegistryCallers ==
  ASSUME RegistryInv, NEW a \in Adapters,
         \/ addAdapter(a) \/ removeAdapter(a)
         \/ \E mask \in SUBSET Events : updateEvtMask(a, mask)
  PROVE  RegistryInv'
  <1>1. /\ RegistryTypeOK /\ TableOnce /\ MaskSettles
        /\ mLocAdapters \in Seq(Adapters) /\ apiMsgs \in Seq(ApiMsg)
        /\ mEvtMask \in [Adapters -> SUBSET Events]
    BY DEF RegistryInv, RegistryTypeOK
  <1>2. CASE addAdapter(a) /\ Len(mLocAdapters) < MAX_ADAPTERS
    <2>1. mLocAdapters' = Append(mLocAdapters, a) /\ mEvtMask' = mEvtMask
          /\ SendApi(RMsg("open", {a})) /\ ~Registered(a)
      BY <1>2 DEF addAdapter
    <2>2. apiMsgs' \in Seq(ApiMsg) /\ apiMsgs' # <<>>
      BY <1>1, <2>1, SendApiType
    <2>3. /\ mLocAdapters' \in Seq(Adapters) /\ Len(mLocAdapters') = Len(mLocAdapters) + 1
          /\ DOMAIN mLocAdapters' = 1 .. Len(mLocAdapters) + 1
          /\ DOMAIN mLocAdapters = 1 .. Len(mLocAdapters)
          /\ \A i \in DOMAIN mLocAdapters :
               mLocAdapters'[i] = mLocAdapters[i] /\ mLocAdapters'[i] # a
          /\ mLocAdapters'[Len(mLocAdapters) + 1] = a
      BY <1>1, <2>1 DEF Registered
    <2>4. TableOnce'
      BY <1>1, <2>3 DEF TableOnce
    <2>5. Len(mLocAdapters') <= MAX_ADAPTERS
      BY <1>1, <1>2, <2>3, RegistryAssumption
    <2> QED
      BY <1>1, <2>1, <2>2, <2>3, <2>4, <2>5 DEF RegistryInv, RegistryTypeOK, MaskSettles
  <1>3. CASE addAdapter(a) /\ ~(Len(mLocAdapters) < MAX_ADAPTERS)
    BY <1>3 DEF addAdapter, RegistryInv, RegistryTypeOK, TableOnce, MaskSettles, getEvtMask
  <1>4. CASE removeAdapter(a)
    <2>1. Shift(a) /\ Registered(a) /\ mEvtMask' = mEvtMask
      BY <1>4 DEF removeAdapter
    <2>2. /\ mLocAdapters' \in Seq(Adapters) /\ TableOnce'
          /\ Len(mLocAdapters') = Len(mLocAdapters) - 1
      BY <1>1, <2>1, ShiftRemoves
    <2>3. apiMsgs' \in Seq(ApiMsg) /\ apiMsgs' # <<>>
      BY <1>1, <1>4, SendApiType DEF removeAdapter, NoAdapter
    <2>4. Len(mLocAdapters') <= MAX_ADAPTERS
      BY <1>1, <2>2, RegistryAssumption DEF RegistryTypeOK
    <2> QED
      BY <1>1, <2>1, <2>2, <2>3, <2>4 DEF RegistryInv, RegistryTypeOK, MaskSettles
  <1>5. ASSUME NEW mask \in SUBSET Events, updateEvtMask(a, mask) PROVE RegistryInv'
    <2>1. mLocAdapters' = mLocAdapters /\ mEvtMask' = [mEvtMask EXCEPT ![a] = mask]
      BY <1>5 DEF updateEvtMask
    <2>2. apiMsgs' \in Seq(ApiMsg) /\ apiMsgs' # <<>>
      BY <1>1, <1>5, SendApiType DEF updateEvtMask, NoAdapter
    <2>3. mEvtMask' \in [Adapters -> SUBSET Events]
      BY <1>1, <2>1
    <2> QED
      BY <1>1, <2>1, <2>2, <2>3 DEF RegistryInv, RegistryTypeOK, TableOnce, MaskSettles
  <1> QED
    BY <1>2, <1>3, <1>4, <1>5

\* The message task brings the connection up to the table as it then is.
LEMMA RegistryProc == RegistryInv /\ ProcApi => RegistryInv'
  <1> SUFFICES ASSUME RegistryInv, ProcApi PROVE RegistryInv'
    OBVIOUS
  <1> DEFINE m == Head(apiMsgs)
  <1>1. apiMsgs' \in Seq(ApiMsg) /\ m \in ApiMsg
    BY QueueTail DEF ProcApi, RegistryInv, RegistryTypeOK
  <1>2. mLocAdapters' = mLocAdapters /\ mEvtMask' = mEvtMask /\ getEvtMask' = getEvtMask
    BY DEF ProcApi, getEvtMask
  <1>3. LocOpenMsg(m) \/ LocSsrMsg \/ LocCloseMsg
    BY <1>1 DEF ProcApi, ApiMsg
  <1>4. open' => openMask' = getEvtMask
    BY <1>3, Zenon DEF LocOpenMsg, LocSsrMsg, LocCloseMsg, Open
  <1> QED
    BY <1>1, <1>2, <1>4 DEF RegistryInv, RegistryTypeOK, TableOnce, MaskSettles

LEMMA RegistryInvStep == RegistryInv /\ [RegistryNext]_registryVars => RegistryInv'
  <1> SUFFICES ASSUME RegistryInv, [RegistryNext]_registryVars PROVE RegistryInv'
    OBVIOUS
  <1>1. ASSUME UNCHANGED <<mLocAdapters, mEvtMask, open, openMask, apiMsgs>>
        PROVE  RegistryInv'
    BY <1>1 DEF RegistryInv, RegistryTypeOK, TableOnce, MaskSettles, getEvtMask
  <1>2. CASE UNCHANGED registryVars
    BY <1>1, <1>2 DEF registryVars
  <1>3. CASE handleEngineDownEvent
    <2>1. apiMsgs' \in Seq(ApiMsg) /\ apiMsgs' # <<>>
      BY <1>3, SendApiType DEF handleEngineDownEvent, RegistryInv, RegistryTypeOK, NoAdapter
    <2>2. mLocAdapters' = mLocAdapters /\ mEvtMask' = mEvtMask
      BY <1>3 DEF handleEngineDownEvent, Arrives
    <2> QED
      BY <2>1, <2>2 DEF RegistryInv, RegistryTypeOK, TableOnce, MaskSettles
  <1>4. CASE TO_ADAPTERS
    BY <1>1, <1>4 DEF TO_ADAPTERS
  <1>5. ASSUME NEW event, handleEvent(event) PROVE RegistryInv'
    BY <1>1, <1>5 DEF handleEvent, Arrives
  <1> QED
    BY <1>2, <1>3, <1>4, <1>5, RegistryCallers, RegistryProc DEF RegistryNext

\* Once the messages are done an open connection delivers what the adapters in the
\* table register for, and no adapter is in the table twice, for any number of
\* adapters and whatever they, the message task and the modem interleave.
THEOREM RegistrySettles == RegistrySpec => [](MaskSettles /\ TableOnce)
  <1>1. RegistryInv => MaskSettles /\ TableOnce
    BY DEF RegistryInv
  <1> QED
    BY <1>1, RegistryInvInit, RegistryInvStep, PTL DEF RegistrySpec

-----------------------------------------------------------------------------
(* Queues of any elements.                                                 *)

IsQueue(s) == s \in Seq({s[i] : i \in DOMAIN s})

LEMMA AnyQueue ==
  ASSUME NEW S, NEW s \in Seq(S)
  PROVE  IsQueue(s)
  <1> DEFINE T == {s[i] : i \in DOMAIN s}
  <1>1. Len(s) \in Nat /\ DOMAIN s = 1 .. Len(s)
    OBVIOUS
  <1>2. \A i \in 1 .. Len(s) : s[i] \in T
    BY <1>1
  <1> HIDE DEF T
  <1>3. s \in Seq(T)
    BY <1>1, <1>2
  <1> QED
    BY <1>3 DEF IsQueue, T

LEMMA TakenQueue ==
  ASSUME NEW s, IsQueue(s), s # <<>>
  PROVE  /\ IsQueue(Tail(s)) /\ Head(s) = s[1] /\ 1 \in DOMAIN s
         /\ \A i \in DOMAIN Tail(s) : i + 1 \in DOMAIN s /\ Tail(s)[i] = s[i + 1]
         /\ \A i \in DOMAIN s : i # 1 => i - 1 \in DOMAIN Tail(s)
                                        /\ Tail(s)[i - 1] = s[i]
         /\ DOMAIN s \subseteq Nat \ {0} /\ DOMAIN Tail(s) \subseteq Nat \ {0}
  <1> DEFINE S == {s[i] : i \in DOMAIN s}
  <1>1. s \in Seq(S)
    BY DEF IsQueue
  <1> HIDE DEF S
  <1>2. /\ Tail(s) \in Seq(S) /\ Len(s) \in Nat \ {0} /\ DOMAIN s = 1 .. Len(s)
        /\ Len(Tail(s)) = Len(s) - 1 /\ DOMAIN Tail(s) = 1 .. Len(s) - 1
        /\ Head(s) = s[1]
        /\ \A i \in 1 .. Len(s) - 1 : Tail(s)[i] = s[i + 1]
    BY <1>1
  <1>3. IsQueue(Tail(s))
    BY <1>2, AnyQueue
  <1> QED
    BY <1>2, <1>3

LEMMA JoinedQueue ==
  ASSUME NEW s, NEW t, IsQueue(s), IsQueue(t)
  PROVE  /\ IsQueue(s \o t)
         /\ \A i \in DOMAIN s : i \in DOMAIN (s \o t) /\ (s \o t)[i] = s[i]
         /\ \A j \in DOMAIN t : Len(s) + j \in DOMAIN (s \o t)
                               /\ (s \o t)[Len(s) + j] = t[j]
         /\ \A k \in DOMAIN (s \o t) : \/ k \in DOMAIN s
                                      \/ k - Len(s) \in DOMAIN t
         /\ DOMAIN s = 1 .. Len(s) /\ DOMAIN t = 1 .. Len(t)
         /\ Len(s) \in Nat /\ Len(t) \in Nat
         /\ DOMAIN (s \o t) = 1 .. Len(s) + Len(t)
  <1> DEFINE S == {s[i] : i \in DOMAIN s}
             T == {t[i] : i \in DOMAIN t}
  <1>1. s \in Seq(S) /\ t \in Seq(T)
    BY DEF IsQueue
  <1> HIDE DEF S, T
  <1>0. s \in Seq(S \cup T) /\ t \in Seq(S \cup T)
    BY <1>1
  <1>2. /\ DOMAIN s = 1 .. Len(s) /\ DOMAIN t = 1 .. Len(t)
        /\ Len(s) \in Nat /\ Len(t) \in Nat
        /\ s \o t \in Seq(S \cup T) /\ Len(s \o t) = Len(s) + Len(t)
        /\ DOMAIN (s \o t) = 1 .. Len(s) + Len(t)
        /\ \A i \in 1 .. Len(s) : (s \o t)[i] = s[i]
        /\ \A j \in 1 .. Len(t) : (s \o t)[Len(s) + j] = t[j]
    BY <1>0
  <1>3. IsQueue(s \o t)
    BY <1>2, AnyQueue
  <1> QED
    BY <1>2, <1>3

\* What a position of a joined queue is.
LEMMA JoinedPositions ==
  ASSUME NEW s, NEW t, IsQueue(s), IsQueue(t), NEW k \in DOMAIN (s \o t), k \notin DOMAIN s
  PROVE  /\ k \in Int /\ k - Len(s) \in DOMAIN t
         /\ (s \o t)[k] = t[k - Len(s)]
  <1>1. /\ Len(s) \in Nat /\ DOMAIN s = 1 .. Len(s) /\ Len(t) \in Nat
        /\ DOMAIN t = 1 .. Len(t) /\ k \in 1 .. Len(s) + Len(t)
        /\ \A j \in DOMAIN t : (s \o t)[Len(s) + j] = t[j]
    BY JoinedQueue
  <1>2. k \in Int /\ k - Len(s) \in DOMAIN t
    BY <1>1
  <1>3. (s \o t)[Len(s) + (k - Len(s))] = t[k - Len(s)]
    BY <1>1, <1>2
  <1>4. Len(s) + (k - Len(s)) = k
    BY <1>1, <1>2
  <1> QED
    BY <1>2, <1>3, <1>4

LEMMA PostedQueue ==
  ASSUME NEW s, NEW e, IsQueue(s)
  PROVE  /\ IsQueue(Append(s, e))
         /\ \A i \in DOMAIN s : i \in DOMAIN Append(s, e) /\ Append(s, e)[i] = s[i]
         /\ Len(s) + 1 \in DOMAIN Append(s, e) /\ Append(s, e)[Len(s) + 1] = e
  <1> DEFINE R == {s[i] : i \in DOMAIN s}
             S == R \cup {e}
  <1>0. s \in Seq(R)
    BY DEF IsQueue
  <1> HIDE DEF R
  <1>1. s \in Seq(S) /\ e \in S
    BY <1>0
  <1> HIDE DEF S
  <1>2. /\ Append(s, e) \in Seq(S) /\ DOMAIN s = 1 .. Len(s) /\ Len(s) \in Nat
        /\ Len(Append(s, e)) = Len(s) + 1 /\ DOMAIN Append(s, e) = 1 .. Len(s) + 1
        /\ \A i \in 1 .. Len(s) : Append(s, e)[i] = s[i]
        /\ Append(s, e)[Len(s) + 1] = e
    BY <1>1
  <1>3. IsQueue(Append(s, e))
    BY <1>2, AnyQueue
  <1> QED
    BY <1>2, <1>3

LEMMA NoQueue == IsQueue(<<>>)
  BY DEF IsQueue

LEMMA ShortQueues ==
  ASSUME NEW a, NEW b, NEW c, NEW d
  PROVE  IsQueue(<<a>>) /\ IsQueue(<<a, b>>) /\ IsQueue(<<a, b, c, d>>)
  <1>1. <<a>> \in Seq({a}) /\ <<a, b>> \in Seq({a, b}) /\ <<a, b, c, d>> \in Seq({a, b, c, d})
    OBVIOUS
  <1> QED
    BY <1>1, AnyQueue

-----------------------------------------------------------------------------
(* The configuration of the modem.                                         *)

\* The modem came up and the adapter's thread does not know yet.
UpQueued == \E i \in DOMAIN configMsgs : configMsgs[i].op = "engineUp"
Asks(s, op) == \E i \in DOMAIN s : s[i].op = op

\* The lock the modem has once it has done s is w; it keeps lock meanwhile.
LockAfter(s, lock, w) ==
  \/ lock = w /\ ~Asks(s, "lock")
  \/ \E i \in DOMAIN s : /\ s[i].op = "lock" /\ s[i].lock = w
                        /\ \A j \in DOMAIN s : j > i => s[j].op # "lock"

ConfigQueues == IsQueue(configMsgs) /\ IsQueue(apiConfigs)

\* An engine that is up and known to be so has, or is about to be told, the lock
\* that is wanted.
LockInv == engineIsUp /\ ~UpQueued /\ ~late => LockAfter(apiConfigs, modemLock, LockWanted)

\* Likewise for the integrator's mode; only that mode ever replaces the file's, and
\* the file is read only while there is none.
TuncInv ==
  ~late => /\ loading => tunc # "user"
           /\ tunc # "user" => modemTunc = "conf" /\ ~Asks(apiConfigs, "tunc")
           /\ tunc \in {Null, "conf", "user"}
           /\ tunc = "user" /\ engineIsUp /\ ~UpQueued =>
                modemTunc = "user" \/ Asks(apiConfigs, "tunc") \/ Asks(apiConfigs, "config")

ConfigInv == ConfigQueues /\ LockInv /\ TuncInv

\* Messages for the modem that are neither about the lock nor about the mode.
Unasked(ms) == IsQueue(ms) /\ ~Asks(ms, "lock") /\ ~Asks(ms, "tunc")

LEMMA ConfigInvInit == ConfigInit => ConfigInv
  <1> SUFFICES ASSUME ConfigInit PROVE ConfigInv
    OBVIOUS
  <1>1. IsQueue(<<>>)
    BY NoQueue
  <1>2. ~Asks(<<>>, "tunc")
    BY DEF Asks
  <1> QED
    BY <1>1, <1>2, ConfigAssumption DEF ConfigInit, ConfigInv, ConfigQueues, LockInv, TuncInv

LEMMA LockAfterMore ==
  ASSUME NEW s, NEW t, NEW lock, NEW w, IsQueue(s), IsQueue(t), ~Asks(t, "lock"),
         LockAfter(s, lock, w)
  PROVE  LockAfter(s \o t, lock, w)
  <1>1. \A k \in DOMAIN (s \o t) : k \notin DOMAIN s => (s \o t)[k].op # "lock"
    <2> SUFFICES ASSUME NEW k \in DOMAIN (s \o t), k \notin DOMAIN s
                 PROVE  (s \o t)[k].op # "lock"
      OBVIOUS
    <2>1. k - Len(s) \in DOMAIN t /\ (s \o t)[k] = t[k - Len(s)]
      BY JoinedPositions
    <2> QED
      BY <2>1 DEF Asks
  <1>2. \A i \in DOMAIN s : i \in DOMAIN (s \o t) /\ (s \o t)[i] = s[i]
    BY JoinedQueue
  <1> QED
    BY <1>1, <1>2 DEF LockAfter, Asks

LEMMA LockAfterSent ==
  ASSUME NEW s, NEW t, NEW lock, NEW w, IsQueue(s), IsQueue(t),
         1 \in DOMAIN t, t[1].op = "lock", t[1].lock = w,
         \A j \in DOMAIN t : j # 1 => t[j].op # "lock"
  PROVE  LockAfter(s \o t, lock, w)
  <1>1. /\ Len(s) \in Nat /\ DOMAIN s = 1 .. Len(s)
        /\ Len(s) + 1 \in DOMAIN (s \o t) /\ (s \o t)[Len(s) + 1] = t[1]
        /\ Len(t) \in Nat /\ DOMAIN (s \o t) = 1 .. Len(s) + Len(t)
    BY JoinedQueue
  <1>2. ASSUME NEW k \in DOMAIN (s \o t), k > Len(s) + 1 PROVE (s \o t)[k].op # "lock"
    <2>0. k \in Int
      BY <1>1
    <2>3. k \notin DOMAIN s
      BY <1>1, <1>2, <2>0
    <2>1. k - Len(s) \in DOMAIN t /\ (s \o t)[k] = t[k - Len(s)]
      BY <2>3, JoinedPositions
    <2>2. k - Len(s) # 1
      BY <1>1, <1>2, <2>0
    <2> QED
      BY <2>1, <2>2
  <1> DEFINE last == Len(s) + 1
  <1>3. /\ last \in DOMAIN (s \o t)
        /\ (s \o t)[last].op = "lock" /\ (s \o t)[last].lock = w
        /\ \A j \in DOMAIN (s \o t) : j > last => (s \o t)[j].op # "lock"
    BY <1>1, <1>2
  <1> HIDE DEF last
  <1> QED
    BY <1>3 DEF LockAfter

LEMMA LockAfterTaken ==
  ASSUME NEW s, NEW lock, NEW w, IsQueue(s), s # <<>>, LockAfter(s, lock, w)
  PROVE  IF Head(s).op = "lock" THEN LockAfter(Tail(s), Head(s).lock, w)
                                ELSE LockAfter(Tail(s), lock, w)
  <1>1. /\ \A i \in DOMAIN Tail(s) : i + 1 \in DOMAIN s /\ Tail(s)[i] = s[i + 1]
        /\ \A i \in DOMAIN s : i # 1 => i - 1 \in DOMAIN Tail(s)
                                       /\ Tail(s)[i - 1] = s[i]
        /\ DOMAIN s \subseteq Nat \ {0} /\ DOMAIN Tail(s) \subseteq Nat \ {0}
        /\ Head(s) = s[1]
    BY TakenQueue
  <1>2. CASE lock = w /\ ~Asks(s, "lock")
    <2>1. ~Asks(Tail(s), "lock")
      BY <1>1, <1>2 DEF Asks
    <2>2. Head(s).op # "lock"
      <3>1. 1 \in DOMAIN s
        BY TakenQueue
      <3> QED
        BY <1>1, <1>2, <3>1 DEF Asks
    <2> QED
      BY <1>2, <2>1, <2>2 DEF LockAfter
  <1>3. ASSUME NEW i \in DOMAIN s, s[i].op = "lock", s[i].lock = w,
               \A j \in DOMAIN s : j > i => s[j].op # "lock"
        PROVE  IF Head(s).op = "lock" THEN LockAfter(Tail(s), Head(s).lock, w)
                                      ELSE LockAfter(Tail(s), lock, w)
    <2>1. CASE i = 1
      <3>1. \A j \in DOMAIN Tail(s) : Tail(s)[j].op # "lock"
        <4> SUFFICES ASSUME NEW j \in DOMAIN Tail(s) PROVE Tail(s)[j].op # "lock"
          OBVIOUS
        <4>1. j + 1 \in DOMAIN s /\ Tail(s)[j] = s[j + 1] /\ j + 1 > 1
          BY <1>1
        <4> QED
          BY <1>3, <2>1, <4>1
      <3> QED
        BY <1>1, <1>3, <2>1, <3>1 DEF LockAfter, Asks
    <2>2. CASE i # 1
      <3>1. i - 1 \in DOMAIN Tail(s) /\ Tail(s)[i - 1] = s[i]
        BY <1>1, <2>2
      <3>2. \A j \in DOMAIN Tail(s) : j > i - 1 => Tail(s)[j].op # "lock"
        <4> SUFFICES ASSUME NEW j \in DOMAIN Tail(s), j > i - 1
                     PROVE  Tail(s)[j].op # "lock"
          OBVIOUS
        <4>1. j + 1 \in DOMAIN s /\ Tail(s)[j] = s[j + 1] /\ j \in Nat /\ i \in Nat
          BY <1>1
        <4>2. j + 1 > i
          BY <4>1
        <4> QED
          BY <1>3, <4>1, <4>2
      <3> QED
        BY <1>3, <3>1, <3>2 DEF LockAfter
    <2> QED
      BY <2>1, <2>2
  <1> QED
    BY <1>2, <1>3 DEF LockAfter

\* What a queue asks for after messages are put in or one is taken out.
LEMMA AsksJoined ==
  ASSUME NEW s, NEW t, NEW op, IsQueue(s), IsQueue(t)
  PROVE  Asks(s \o t, op) <=> Asks(s, op) \/ Asks(t, op)
  <1>1. ASSUME Asks(s \o t, op) PROVE Asks(s, op) \/ Asks(t, op)
    <2>1. PICK k \in DOMAIN (s \o t) : (s \o t)[k].op = op
      BY <1>1 DEF Asks
    <2>2. CASE k \in DOMAIN s
      BY <2>1, <2>2, JoinedQueue DEF Asks
    <2>3. CASE k \notin DOMAIN s
      BY <2>1, <2>3, JoinedPositions DEF Asks
    <2> QED
      BY <2>2, <2>3
  <1>2. ASSUME Asks(s, op) PROVE Asks(s \o t, op)
    BY <1>2, JoinedQueue DEF Asks
  <1>3. ASSUME Asks(t, op) PROVE Asks(s \o t, op)
    <2>1. PICK j \in DOMAIN t : t[j].op = op
      BY <1>3 DEF Asks
    <2>2. Len(s) + j \in DOMAIN (s \o t) /\ (s \o t)[Len(s) + j] = t[j]
      BY JoinedQueue
    <2> QED
      BY <2>1, <2>2 DEF Asks
  <1> QED
    BY <1>1, <1>2, <1>3

LEMMA AsksTaken ==
  ASSUME NEW s, NEW op, IsQueue(s), s # <<>>
  PROVE  /\ Asks(Tail(s), op) => Asks(s, op)
         /\ Asks(s, op) /\ Head(s).op # op => Asks(Tail(s), op)
  <1>1. /\ \A i \in DOMAIN Tail(s) : i + 1 \in DOMAIN s /\ Tail(s)[i] = s[i + 1]
        /\ \A i \in DOMAIN s : i # 1 => i - 1 \in DOMAIN Tail(s)
                                       /\ Tail(s)[i - 1] = s[i]
        /\ Head(s) = s[1]
    BY TakenQueue
  <1>2. Asks(Tail(s), op) => Asks(s, op)
    BY <1>1 DEF Asks
  <1>3. Asks(s, op) /\ Head(s).op # op => Asks(Tail(s), op)
    <2>1. SUFFICES ASSUME Asks(s, op), Head(s).op # op PROVE Asks(Tail(s), op)
      OBVIOUS
    <2>2. PICK i \in DOMAIN s : s[i].op = op
      BY <2>1 DEF Asks
    <2>3. i # 1
      BY <1>1, <2>1, <2>2
    <2>4. i - 1 \in DOMAIN Tail(s) /\ Tail(s)[i - 1].op = op
      BY <1>1, <2>2, <2>3
    <2> QED
      BY <2>4 DEF Asks
  <1> QED
    BY <1>2, <1>3

LEMMA NothingJoined ==
  ASSUME NEW s, IsQueue(s)
  PROVE  s \o <<>> = s
  <1> DEFINE S == {s[i] : i \in DOMAIN s}
  <1>1. s \in Seq(S)
    BY DEF IsQueue
  <1> HIDE DEF S
  <1> QED
    BY <1>1

\* A command of the adapter's thread that has ms for the modem.
Handled(ms) ==
  /\ configMsgs # <<>> /\ Head(configMsgs).op # "engineUp" /\ configMsgs' = Tail(configMsgs)
  /\ apiConfigs' = apiConfigs \o ms
  /\ UNCHANGED <<modemConfig, engineState>>

LEMMA HandledQueues ==
  ASSUME ConfigInv, NEW ms, IsQueue(ms), Handled(ms)
  PROVE  ConfigQueues' /\ (UpQueued => UpQueued')
  <1>1. IsQueue(configMsgs) /\ IsQueue(apiConfigs)
    BY DEF ConfigInv, ConfigQueues
  <1>2. IsQueue(configMsgs') /\ IsQueue(apiConfigs')
    BY <1>1, TakenQueue, JoinedQueue DEF Handled
  <1>3. Asks(configMsgs, "engineUp") => Asks(configMsgs', "engineUp")
    BY <1>1, AsksTaken DEF Handled
  <1> QED
    BY <1>2, <1>3 DEF ConfigQueues, UpQueued, Asks

\* Commands that are not about the lock, and those that are.
LEMMA LockKept ==
  ASSUME ConfigInv, NEW ms, IsQueue(ms), ~Asks(ms, "lock"), Handled(ms),
         LockWanted' = LockWanted, late => late'
  PROVE  LockInv'
  <1>1. UpQueued => UpQueued'
    BY HandledQueues
  <1>2. modemLock' = modemLock /\ engineIsUp' = engineIsUp /\ apiConfigs' = apiConfigs \o ms
    BY DEF Handled, modemConfig, engineState
  <1>3. IsQueue(apiConfigs)
    BY DEF ConfigInv, ConfigQueues
  <1>4. LockAfter(apiConfigs, modemLock, LockWanted) =>
          LockAfter(apiConfigs', modemLock', LockWanted')
    BY <1>2, <1>3, LockAfterMore
  <1> QED
    BY <1>1, <1>2, <1>4 DEF ConfigInv, LockInv

LEMMA LockSent ==
  ASSUME ConfigInv, NEW e, e.op = "lock", e.lock = LockWanted', Handled(<<e>>)
  PROVE  LockInv'
  <1> DEFINE t == <<e>>
  <1>1. IsQueue(apiConfigs) /\ IsQueue(t)
    BY ShortQueues DEF ConfigInv, ConfigQueues
  <1>2. DOMAIN t = {1} /\ t[1] = e
    OBVIOUS
  <1>3. apiConfigs' = apiConfigs \o t
    BY DEF Handled
  <1> HIDE DEF t
  <1>4. LockAfter(apiConfigs \o t, modemLock', LockWanted')
    BY <1>1, <1>2, LockAfterSent
  <1> QED
    BY <1>3, <1>4 DEF LockInv

\* Commands that are not about the mode.
LEMMA TuncKept ==
  ASSUME ConfigInv, NEW ms, IsQueue(ms), ~Asks(ms, "tunc"), Handled(ms),
         UNCHANGED tuncState, late => late'
  PROVE  TuncInv'
  <1>1. UpQueued => UpQueued'
    BY HandledQueues
  <1>2. /\ modemTunc' = modemTunc /\ engineIsUp' = engineIsUp
        /\ tunc' = tunc /\ loading' = loading
    BY DEF Handled, modemConfig, engineState, tuncState
  <1>3. IsQueue(apiConfigs) /\ apiConfigs' = apiConfigs \o ms
    BY DEF ConfigInv, ConfigQueues, Handled
  <1>4. /\ Asks(apiConfigs', "tunc") <=> Asks(apiConfigs, "tunc")
        /\ Asks(apiConfigs, "config") => Asks(apiConfigs', "config")
    BY <1>3, AsksJoined
  <1> QED
    BY <1>1, <1>2, <1>4 DEF ConfigInv, TuncInv

Other(m) == m.op \notin {"lock", "tunc"}
LEMMA QuietFew ==
  /\ Unasked(<<>>)
  /\ \A a : Other(a) => Unasked(<<a>>)
  /\ \A a, b : Other(a) /\ Other(b) => Unasked(<<a, b>>)
  <1>1. Unasked(<<>>)
    BY NoQueue DEF Unasked, Asks
  <1>2. ASSUME NEW a, Other(a) PROVE Unasked(<<a>>)
    <2>1. IsQueue(<<a>>)
      BY ShortQueues
    <2>2. DOMAIN <<a>> = {1} /\ <<a>>[1] = a
      OBVIOUS
    <2> QED
      BY <1>2, <2>1, <2>2 DEF Unasked, Asks, Other
  <1>3. ASSUME NEW a, NEW b, Other(a), Other(b) PROVE Unasked(<<a, b>>)
    <2>1. IsQueue(<<a, b>>)
      BY ShortQueues
    <2>2. DOMAIN <<a, b>> = {1, 2} /\ <<a, b>>[1] = a /\ <<a, b>>[2] = b
      OBVIOUS
    <2> QED
      BY <1>3, <2>1, <2>2 DEF Unasked, Asks, Other
  <1> QED
    BY <1>1, <1>2, <1>3

LEMMA QuietJoined ==
  ASSUME NEW s, NEW t, Unasked(s), Unasked(t)
  PROVE  Unasked(s \o t)
  BY JoinedQueue, AsksJoined DEF Unasked

LEMMA OtherMessages ==
  /\ \A x : Other(AExclude(x)) /\ Other(AEnable(x)) /\ Other(AIds(x))
  /\ \A op : op \notin {"lock", "tunc"} => Other(APlain(op))
  BY DEF Other, AExclude, AEnable, AIds, APlain

LEMMA SendSvTypesQuiet ==
  ASSUME NEW reset \in BOOLEAN, NEW ids, NEW excluded, NEW enabled
  PROVE  Unasked(SendSvTypes(reset, ids, excluded, enabled))
  <1> DEFINE r == IF reset THEN <<APlain("reset")>> ELSE <<>>
             x == <<AExclude(Excluding(ids, excluded))>>
             e == IF enabled = {} THEN <<>> ELSE <<AEnable(enabled)>>
  <1>1. Unasked(r) /\ Unasked(x) /\ Unasked(e)
    BY QuietFew, OtherMessages
  <1>2. SendSvTypes(reset, ids, excluded, enabled) = (r \o x) \o e
    BY DEF SendSvTypes
  <1> HIDE DEF r, x, e
  <1>3. Unasked((r \o x) \o e)
    BY <1>1, QuietJoined
  <1> QED
    BY <1>2, <1>3

\* The commands that have quiet messages or none for the modem.
LEMMA QuietCommand ==
  ASSUME ConfigInv, NEW ms, Unasked(ms), Handled(ms), UNCHANGED <<lockState, tuncState>>,
         late => late'
  PROVE  ConfigInv'
  <1>1. LockWanted' = LockWanted
    BY DEF lockState, LockWanted
  <1>2. ConfigQueues'
    BY HandledQueues DEF Unasked
  <1>3. LockInv' /\ TuncInv'
    BY <1>1, LockKept, TuncKept DEF Unasked
  <1> QED
    BY <1>2, <1>3 DEF ConfigInv

LEMMA QuietCommands ==
  ASSUME ConfigInv,
         \/ Pend \/ AskModem \/ TellConfig \/ UpdateSvIds \/ gnssSvTypeConfigUpdate
         \/ ResetSvTypes \/ updateSvConfig \/ resetSvConfig
  PROVE  ConfigInv'
  <1> USE DEF Take, ToApi, Handled
  <1>1. apiConfigs \o <<>> = apiConfigs
    BY NothingJoined DEF ConfigInv, ConfigQueues
  <1>2. CASE Pend
    <2>1. Handled(<<>>)
      BY <1>1, <1>2 DEF Pend, Waits
    <2> QED
      BY <1>2, <2>1, QuietFew, QuietCommand DEF Pend
  <1>3. CASE AskModem
    <2>1. PICK op \in {"getBlacklistSv", "getConstellationControl"} : Handled(<<APlain(op)>>)
      BY <1>3 DEF AskModem
    <2>2. Unasked(<<APlain(op)>>)
      BY QuietFew, OtherMessages
    <2> QED
      BY <1>3, <2>1, <2>2, QuietCommand DEF AskModem
  <1>4. CASE TellConfig
    <2>1. Handled(<<>>)
      BY <1>1, <1>4 DEF TellConfig
    <2> QED
      BY <1>4, <2>1, QuietFew, QuietCommand DEF TellConfig
  <1>5. CASE UpdateSvIds
    <2>1. Handled(<<AIds(Arg.svs)>>)
      BY <1>5 DEF UpdateSvIds
    <2>2. Unasked(<<AIds(Arg.svs)>>)
      BY QuietFew, OtherMessages
    <2> QED
      BY <1>5, <2>1, <2>2, QuietCommand DEF UpdateSvIds
  <1>6. CASE gnssSvTypeConfigUpdate
    <2> DEFINE ms == SendSvTypes(typesEnabled \ typesEnabled' # {}, mGnssSvIdConfig,
                                 typesExcluded', typesEnabled')
    <2>1. Handled(ms)
      BY <1>6 DEF gnssSvTypeConfigUpdate
    <2>2. Unasked(ms)
      BY SendSvTypesQuiet
    <2> HIDE DEF ms
    <2> QED
      BY <1>6, <2>1, <2>2, QuietCommand DEF gnssSvTypeConfigUpdate
  <1>7. CASE ResetSvTypes
    <2>1. Handled(<<AExclude(mGnssSvIdConfig), APlain("reset")>>)
      BY <1>7 DEF ResetSvTypes
    <2>2. Unasked(<<AExclude(mGnssSvIdConfig), APlain("reset")>>)
      BY QuietFew, OtherMessages
    <2> QED
      BY <1>7, <2>1, <2>2, QuietCommand DEF ResetSvTypes
  <1>8. CASE updateSvConfig
    <2> DEFINE r == IF typesEnabled \ typesEnabled' # {} THEN <<APlain("reset")>> ELSE <<>>
               x == <<AExclude(mGnssSvIdConfig'), AEnable(typesEnabled')>>
    <2>1. Handled(r \o x)
      BY <1>8 DEF updateSvConfig
    <2>2. Unasked(r) /\ Unasked(x)
      BY QuietFew, OtherMessages
    <2> HIDE DEF r, x
    <2>3. Unasked(r \o x)
      BY <2>2, QuietJoined
    <2> QED
      BY <1>8, <2>1, <2>3, QuietCommand DEF updateSvConfig
  <1>9. CASE resetSvConfig
    <2>1. Handled(<<AExclude(NoMask), APlain("reset")>>)
      BY <1>9 DEF resetSvConfig
    <2>2. Unasked(<<AExclude(NoMask), APlain("reset")>>)
      BY QuietFew, OtherMessages
    <2> QED
      BY <1>9, <2>1, <2>2, QuietCommand DEF resetSvConfig
  <1> QED
    BY <1>2, <1>3, <1>4, <1>5, <1>6, <1>7, <1>8, <1>9

\* Whoever changes what the lock is to be tells the modem.
LEMMA LockCommand ==
  ASSUME ConfigInv, NEW lock, Handled(<<ALock(lock)>>), lock = LockWanted' \/ late',
         UNCHANGED tuncState, late => late'
  PROVE  ConfigInv'
  <1> DEFINE e == ALock(lock)
  <1>1. e.op = "lock" /\ e.lock = lock /\ Handled(<<e>>)
    BY DEF ALock
  <1> HIDE DEF e
  <1>2. IsQueue(<<e>>)
    BY ShortQueues
  <1>3. ~Asks(<<e>>, "tunc")
    <2>1. DOMAIN <<e>> = {1} /\ <<e>>[1] = e
      OBVIOUS
    <2> QED
      BY <1>1, <2>1 DEF Asks
  <1>4. ConfigQueues' /\ TuncInv'
    BY <1>1, <1>2, <1>3, HandledQueues, TuncKept
  <1>5. LockInv'
    <2>1. CASE lock = LockWanted'
      BY <1>1, <2>1, LockSent
    <2>2. CASE late'
      BY <2>2 DEF LockInv
    <2> QED
      BY <2>1, <2>2
  <1> QED
    BY <1>4, <1>5 DEF ConfigInv

LEMMA LockCommands ==
  ASSUME ConfigInv, Enable \/ Disable \/ NfwControl \/ UpdateLock
  PROVE  ConfigInv'
  <1> USE DEF Take, ToApi, Handled, LockWanted
  <1>1. apiConfigs \o <<>> = apiConfigs
    BY NothingJoined DEF ConfigInv, ConfigQueues
  <1>2. CASE Enable
    <2>1. CASE afwEnabled
      <3>1. Handled(<<>>) /\ UNCHANGED <<lockState, tuncState, late>>
        BY <1>1, <1>2, <2>1 DEF Enable
      <3> QED
        BY <3>1, QuietFew, QuietCommand
    <2>2. CASE ~afwEnabled
      <3> DEFINE lock == IF mSupportNfwControl THEN GPS_LOCK' ELSE {}
      <3>1. Handled(<<ALock(lock)>>) /\ UNCHANGED <<tuncState, late>>
        BY <1>2, <2>2 DEF Enable
      <3>2. lock = LockWanted'
        BY <1>2, <2>2 DEF Enable
      <3> HIDE DEF lock
      <3> QED
        BY <3>1, <3>2, LockCommand
    <2> QED
      BY <2>1, <2>2
  <1>3. CASE Disable
    <2>1. CASE ~afwEnabled
      <3>1. Handled(<<>>) /\ UNCHANGED <<lockState, tuncState, late>>
        BY <1>1, <1>3, <2>1 DEF Disable
      <3> QED
        BY <3>1, QuietFew, QuietCommand
    <2>2. CASE afwEnabled
      <3>1. Handled(<<ALock(GPS_LOCK')>>) /\ UNCHANGED <<tuncState, late>>
        BY <1>3, <2>2 DEF Disable
      <3>2. GPS_LOCK' = LockWanted'
        BY <1>3, <2>2 DEF Disable
      <3> QED
        BY <3>1, <3>2, LockCommand
    <2> QED
      BY <2>1, <2>2
  <1>4. CASE NfwControl
    <2>1. Handled(<<ALock(GPS_LOCK')>>) /\ UNCHANGED tuncState /\ (late => late')
      BY <1>4 DEF NfwControl
    <2>2. GPS_LOCK' = LockWanted' \/ late'
      BY <1>4 DEF NfwControl
    <2> QED
      BY <2>1, <2>2, LockCommand
  <1>5. CASE UpdateLock
    <2>1. CASE ~afwEnabled
      <3>1. Handled(<<ALock(GPS_LOCK')>>) /\ UNCHANGED <<tuncState, late>>
        BY <1>5, <2>1 DEF UpdateLock
      <3>2. GPS_LOCK' = LockWanted'
        BY <1>5, <2>1 DEF UpdateLock
      <3> QED
        BY <3>1, <3>2, LockCommand
    <2>2. CASE afwEnabled /\ mSupportNfwControl
      <3>1. Handled(<<ALock({})>>) /\ UNCHANGED <<tuncState, late>>
        BY <1>5, <2>2 DEF UpdateLock
      <3>2. {} = LockWanted'
        BY <1>5, <2>2 DEF UpdateLock
      <3> QED
        BY <3>1, <3>2, LockCommand
    <2>3. CASE afwEnabled /\ ~mSupportNfwControl
      <3>1. Handled(<<>>) /\ UNCHANGED <<tuncState, late>>
        BY <1>1, <1>5, <2>3 DEF UpdateLock
      <3>2. LockWanted' = LockWanted
        BY <1>5, <2>3 DEF UpdateLock
      <3>3. LockInv' /\ TuncInv' /\ ConfigQueues'
        BY <3>1, <3>2, QuietFew, LockKept, TuncKept, HandledQueues DEF Unasked
      <3> QED
        BY <3>3 DEF ConfigInv
    <2> QED
      BY <2>1, <2>2, <2>3
  <1> QED
    BY <1>2, <1>3, <1>4, <1>5

\* The integrator's mode is decided and sent, or came while the file was read.
LEMMA TuncCommand == ConfigInv /\ setConstrainedTunc => ConfigInv'
  <1> SUFFICES ASSUME ConfigInv, setConstrainedTunc PROVE ConfigInv'
    OBVIOUS
  <1> DEFINE e == APlain("tunc")
  <1>1. e.op = "tunc" /\ Handled(<<e>>)
    BY DEF setConstrainedTunc, Take, ToApi, Handled, APlain
  <1> HIDE DEF e
  <1>2. IsQueue(<<e>>) /\ Asks(<<e>>, "tunc") /\ ~Asks(<<e>>, "lock")
    <2>1. DOMAIN <<e>> = {1} /\ <<e>>[1] = e
      OBVIOUS
    <2> QED
      BY <1>1, <2>1, ShortQueues DEF Asks
  <1>3. ConfigQueues'
    BY <1>1, <1>2, HandledQueues
  <1>4. LockWanted' = LockWanted /\ (late => late')
    BY DEF setConstrainedTunc, lockState, LockWanted
  <1>5. LockInv'
    BY <1>1, <1>2, <1>4, LockKept
  <1>6. tunc' = "user" /\ loading' = loading /\ late' = (late \/ loading)
    BY DEF setConstrainedTunc
  <1>7. Asks(apiConfigs', "tunc")
    BY <1>1, <1>2, AsksJoined DEF Handled, ConfigInv, ConfigQueues
  <1> QED
    BY <1>3, <1>5, <1>6, <1>7 DEF ConfigInv, TuncInv

-----------------------------------------------------------------------------
(* The modem comes up: all is told again, the lock first.                  *)

SetConfigMessages(lock) ==
  <<ALock(lock), AIds(convertFromGnssSvIdConfig(mGnssSvIdConfig)), APlain("config"),
    AExclude(mGnssSvIdConfig)>>

LEMMA SetConfigSends ==
  ASSUME NEW lock, SetConfig(lock)
  PROVE  \E ms : /\ apiConfigs' = apiConfigs \o ms
                 /\ IsQueue(ms) /\ ~Asks(ms, "tunc") /\ Asks(ms, "config")
                 /\ 1 \in DOMAIN ms /\ ms[1] = ALock(lock)
                 /\ \A j \in DOMAIN ms : j # 1 => ms[j].op # "lock"
  <1> DEFINE a == ALock(lock)
             b == AIds(convertFromGnssSvIdConfig(mGnssSvIdConfig))
             c == APlain("config")
             d == AExclude(mGnssSvIdConfig)
             f == <<a, b, c, d>>
             t == IF typesSized THEN SendSvTypes(FALSE, mGnssSvIdConfig, typesExcluded, typesEnabled)
                  ELSE <<>>
  <1>1. apiConfigs' = apiConfigs \o (f \o t)
    BY DEF SetConfig, ToApi
  <1>2. Unasked(t)
    BY SendSvTypesQuiet, QuietFew
  <1>3. a.op = "lock" /\ b.op = "ids" /\ c.op = "config" /\ d.op = "exclude" /\ a = ALock(lock)
    BY DEF ALock, AIds, APlain, AExclude
  <1> HIDE DEF a, b, c, d, t
  <1>4. IsQueue(f) /\ DOMAIN f = 1 .. 4 /\ f[1] = a /\ f[2] = b /\ f[3] = c /\ f[4] = d
    <2>1. IsQueue(f)
      BY ShortQueues
    <2>2. f \in Seq({a, b, c, d}) /\ Len(f) = 4
      OBVIOUS
    <2>3. f[1] = a /\ f[2] = b /\ f[3] = c /\ f[4] = d
      OBVIOUS
    <2> HIDE DEF f
    <2>4. DOMAIN f = 1 .. 4
      BY <2>2
    <2> QED
      BY <2>1, <2>3, <2>4
  <1> HIDE DEF f
  <1>5. ~Asks(f, "tunc") /\ Asks(f, "config")
    BY <1>3, <1>4 DEF Asks
  <1>6. IsQueue(f \o t) /\ ~Asks(f \o t, "tunc") /\ Asks(f \o t, "config")
    BY <1>2, <1>4, <1>5, JoinedQueue, AsksJoined DEF Unasked
  <1>7. 1 \in DOMAIN (f \o t) /\ (f \o t)[1] = a
    <2>1. 1 \in DOMAIN f
      BY <1>4
    <2>2. IsQueue(f) /\ IsQueue(t)
      BY <1>2, <1>4 DEF Unasked
    <2>3. \A i \in DOMAIN f : i \in DOMAIN (f \o t) /\ (f \o t)[i] = f[i]
      BY <2>2, JoinedQueue
    <2> QED
      BY <1>4, <2>1, <2>3
  <1>8. ASSUME NEW j \in DOMAIN (f \o t), j # 1 PROVE (f \o t)[j].op # "lock"
    <2>1. CASE j \in DOMAIN f
      <3>1. (f \o t)[j] = f[j]
        BY <1>2, <1>4, <2>1, JoinedQueue DEF Unasked
      <3> QED
        BY <1>3, <1>4, <1>8, <2>1, <3>1
    <2>2. CASE j \notin DOMAIN f
      <3>1. j - Len(f) \in DOMAIN t /\ (f \o t)[j] = t[j - Len(f)]
        BY <1>2, <1>4, <2>2, JoinedPositions DEF Unasked
      <3> QED
        BY <1>2, <3>1 DEF Unasked, Asks
    <2> QED
      BY <2>1, <2>2
  <1> QED
    BY <1>1, <1>3, <1>6, <1>7, <1>8

LEMMA EngineUpCommand ==
  ASSUME ConfigInv, IsQueue(pendingConfigs), handleConfigEngineUp
  PROVE  ConfigInv'
  <1>1. /\ configMsgs # <<>> /\ configMsgs' = Tail(configMsgs) \o pendingConfigs
        /\ SetConfig(LockWanted)
        /\ UNCHANGED <<lockState, tuncState, modemConfig, engineState, late>>
    BY DEF handleConfigEngineUp, HandleEngineUp
  <1>2. IsQueue(configMsgs')
    BY <1>1, TakenQueue, JoinedQueue DEF ConfigInv, ConfigQueues
  <1>3. PICK ms : /\ apiConfigs' = apiConfigs \o ms
                  /\ IsQueue(ms) /\ ~Asks(ms, "tunc") /\ Asks(ms, "config")
                  /\ 1 \in DOMAIN ms /\ ms[1] = ALock(LockWanted)
                  /\ \A j \in DOMAIN ms : j # 1 => ms[j].op # "lock"
    BY <1>1, SetConfigSends
  <1>4. IsQueue(apiConfigs')
    BY <1>3, JoinedQueue DEF ConfigInv, ConfigQueues
  <1>5. LockWanted' = LockWanted
    BY <1>1 DEF lockState, LockWanted
  <1>6. LockAfter(apiConfigs \o ms, modemLock', LockWanted)
    <2>1. ms[1].op = "lock" /\ ms[1].lock = LockWanted
      BY <1>3 DEF ALock
    <2>2. IsQueue(apiConfigs)
      BY DEF ConfigInv, ConfigQueues
    <2> QED
      BY <1>3, <2>1, <2>2, LockAfterSent
  <1>7. LockInv'
    BY <1>3, <1>5, <1>6 DEF LockInv
  <1>8. (Asks(apiConfigs', "tunc") <=> Asks(apiConfigs, "tunc")) /\ Asks(apiConfigs', "config")
    BY <1>3, AsksJoined DEF ConfigInv, ConfigQueues
  <1>9. tunc' = tunc /\ loading' = loading /\ modemTunc' = modemTunc /\ late' = late
    BY <1>1 DEF tuncState, modemConfig
  <1>10. TuncInv'
    BY <1>8, <1>9 DEF ConfigInv, TuncInv
  <1> QED
    BY <1>2, <1>4, <1>7, <1>10 DEF ConfigInv, ConfigQueues

-----------------------------------------------------------------------------
(* The thread of LocApi tells the modem.                                   *)

\* It takes a message; the modem may answer.
Told ==
  /\ apiConfigs # <<>> /\ apiConfigs' = Tail(apiConfigs)
  /\ configMsgs' = configMsgs \/ \E m : configMsgs' = Append(configMsgs, m)
  /\ UNCHANGED <<lockState, engineState, late>>

LEMMA ToldQueues ==
  ASSUME ConfigInv, Told
  PROVE  ConfigQueues' /\ (UpQueued => UpQueued') /\ LockWanted' = LockWanted
         /\ IsQueue(apiConfigs)
  <1>1. IsQueue(configMsgs) /\ IsQueue(apiConfigs)
    BY DEF ConfigInv, ConfigQueues
  <1>2. IsQueue(apiConfigs')
    BY <1>1, TakenQueue DEF Told
  <1>3. IsQueue(configMsgs') /\ (UpQueued => UpQueued')
    <2>1. CASE configMsgs' = configMsgs
      BY <1>1, <2>1 DEF UpQueued
    <2>2. ASSUME NEW m, configMsgs' = Append(configMsgs, m)
          PROVE  IsQueue(configMsgs') /\ (UpQueued => UpQueued')
      <3>1. /\ IsQueue(configMsgs')
            /\ \A i \in DOMAIN configMsgs : i \in DOMAIN configMsgs'
                                         /\ configMsgs'[i] = configMsgs[i]
        BY <1>1, <2>2, PostedQueue
      <3> QED
        BY <3>1 DEF UpQueued
    <2> QED
      BY <2>1, <2>2 DEF Told
  <1> QED
    BY <1>1, <1>2, <1>3 DEF Told, ConfigQueues, lockState, LockWanted

LEMMA ToldLock ==
  ASSUME ConfigInv, Told, engineIsUp =>
           modemLock' = IF Head(apiConfigs).op = "lock" THEN Head(apiConfigs).lock ELSE modemLock
  PROVE  LockInv'
  <1>1. (UpQueued => UpQueued') /\ LockWanted' = LockWanted /\ IsQueue(apiConfigs)
    BY ToldQueues
  <1>2. engineIsUp' = engineIsUp /\ late' = late /\ apiConfigs # <<>>
        /\ apiConfigs' = Tail(apiConfigs)
    BY DEF Told, engineState
  <1>3. engineIsUp /\ LockAfter(apiConfigs, modemLock, LockWanted) =>
          LockAfter(Tail(apiConfigs), modemLock', LockWanted)
    BY <1>1, <1>2, LockAfterTaken
  <1> QED
    BY <1>1, <1>2, <1>3 DEF ConfigInv, LockInv

\* A message that is neither the mode nor the configuration.
LEMMA ToldTunc ==
  ASSUME ConfigInv, Told, Head(apiConfigs).op \notin {"tunc", "config"},
         UNCHANGED <<tuncState, modemTunc>>
  PROVE  TuncInv'
  <1>1. (UpQueued => UpQueued') /\ IsQueue(apiConfigs)
    BY ToldQueues
  <1>2. engineIsUp' = engineIsUp /\ late' = late /\ apiConfigs # <<>>
        /\ apiConfigs' = Tail(apiConfigs) /\ tunc' = tunc /\ loading' = loading
        /\ modemTunc' = modemTunc
    BY DEF Told, engineState, tuncState
  <1>3. /\ Asks(apiConfigs', "tunc") <=> Asks(apiConfigs, "tunc")
        /\ Asks(apiConfigs', "config") <=> Asks(apiConfigs, "config")
    BY <1>1, <1>2, AsksTaken
  <1> QED
    BY <1>1, <1>2, <1>3 DEF ConfigInv, TuncInv

LEMMA ToldOther ==
  ASSUME ConfigInv,
         \/ setGpsLockSync \/ setBlacklistSv \/ gnssSvIdConfigUpdateSync
         \/ setConstellationControl \/ getBlacklistSv \/ getConstellationControl
  PROVE  ConfigInv'
  <1> USE DEF TakeApi
  <1>1. Told
    <2>1. CASE setGpsLockSync
      BY <2>1 DEF setGpsLockSync, ApiUnchanged, Told
    <2>2. CASE setBlacklistSv \/ gnssSvIdConfigUpdateSync \/ setConstellationControl
      BY <2>2 DEF setBlacklistSv, gnssSvIdConfigUpdateSync, setConstellationControl,
                  ApiUnchanged, Told
    <2>3. CASE getBlacklistSv \/ getConstellationControl
      BY <2>3 DEF getBlacklistSv, getConstellationControl, Answers, Told
    <2> QED
      BY <2>1, <2>2, <2>3
  <1>2. /\ Head(apiConfigs).op \notin {"tunc", "config"}
        /\ UNCHANGED <<tuncState, modemTunc>>
    BY DEF setGpsLockSync, setBlacklistSv, gnssSvIdConfigUpdateSync, setConstellationControl,
           getBlacklistSv, getConstellationControl, Answers, modemConfig
  <1>3. engineIsUp =>
          modemLock' = IF Head(apiConfigs).op = "lock" THEN Head(apiConfigs).lock ELSE modemLock
    <2>1. CASE setGpsLockSync
      BY <2>1 DEF setGpsLockSync, KeepIf
    <2>2. CASE ~setGpsLockSync
      BY <2>2 DEF setBlacklistSv, gnssSvIdConfigUpdateSync, setConstellationControl,
                  getBlacklistSv, getConstellationControl, Answers, modemConfig
    <2> QED
      BY <2>1, <2>2
  <1> QED
    BY <1>1, <1>2, <1>3, ToldQueues, ToldLock, ToldTunc DEF ConfigInv

LEMMA ToldMode == ConfigInv /\ setConstrainedTuncMode => ConfigInv'
  <1> SUFFICES ASSUME ConfigInv, setConstrainedTuncMode PROVE ConfigInv'
    OBVIOUS
  <1>1. /\ Told /\ Head(apiConfigs).op = "tunc" /\ modemLock' = modemLock
        /\ tunc' = tunc /\ loading' = loading
        /\ modemTunc' = (IF engineIsUp THEN "user" ELSE modemTunc)
    BY DEF setConstrainedTuncMode, TakeApi, ApiUnchanged, Told, KeepIf, tuncState
  <1>2. LockInv' /\ ConfigQueues'
    BY <1>1, ToldLock, ToldQueues
  <1>3. Asks(apiConfigs, "tunc")
    <2>1. 1 \in DOMAIN apiConfigs /\ Head(apiConfigs) = apiConfigs[1]
      BY <1>1, TakenQueue DEF Told, ConfigInv, ConfigQueues
    <2> QED
      BY <1>1, <2>1 DEF Asks
  <1>4. late' = late /\ engineIsUp' = engineIsUp
    BY <1>1 DEF Told, engineState
  <1>5. TuncInv'
    BY <1>1, <1>3, <1>4 DEF ConfigInv, TuncInv
  <1> QED
    BY <1>2, <1>5 DEF ConfigInv

\* The configuration: the mode there is, or the file's, read in two steps.
LEMMA ToldConfig == ConfigInv /\ gnssUpdateConfig => ConfigInv'
  <1> SUFFICES ASSUME ConfigInv, gnssUpdateConfig PROVE ConfigInv'
    OBVIOUS
  <1>1. /\ apiConfigs # <<>> /\ Head(apiConfigs).op = "config" /\ modemLock' = modemLock
        /\ configMsgs' = configMsgs /\ UNCHANGED <<lockState, engineState, late>>
    BY DEF gnssUpdateConfig, ApiUnchanged
  <1>2. late' = late /\ engineIsUp' = engineIsUp /\ UpQueued' = UpQueued
        /\ LockWanted' = LockWanted
    BY <1>1 DEF engineState, UpQueued, lockState, LockWanted
  <1>3. CASE apiConfigs' = Tail(apiConfigs)
    <2>1. Told
      BY <1>1, <1>3 DEF Told
    <2>2. LockInv' /\ ConfigQueues'
      BY <1>1, <2>1, ToldLock, ToldQueues
    <2>3. Asks(apiConfigs', "tunc") <=> Asks(apiConfigs, "tunc")
      BY <1>1, <1>3, AsksTaken DEF ConfigInv, ConfigQueues
    <2>4. CASE loading
      <3>1. LoadTunc
        BY <2>4 DEF gnssUpdateConfig
      <3>2. tunc' = "conf" /\ loading' = FALSE
            /\ modemTunc' = (IF engineIsUp THEN "conf" ELSE modemTunc)
        BY <3>1 DEF LoadTunc, KeepIf
      <3>3. TuncInv'
        BY <1>2, <2>3, <2>4, <3>2 DEF ConfigInv, TuncInv
      <3> QED
        BY <2>2, <3>3 DEF ConfigInv
    <2>5. CASE ~loading
      <3>1. gnssUpdateConfigTunc
        BY <2>5 DEF gnssUpdateConfig
      <3>2. CASE tunc = Null
        <4>1. loading' = TRUE /\ tunc' = tunc /\ modemTunc' = modemTunc
          BY <3>1, <3>2 DEF gnssUpdateConfigTunc
        <4>2. TuncInv'
          BY <1>2, <2>3, <3>2, <4>1, ConfigAssumption DEF ConfigInv, TuncInv
        <4> QED
          BY <2>2, <4>2 DEF ConfigInv
      <3>3. CASE tunc # Null
        <4>1. loading' = loading /\ tunc' = tunc
              /\ modemTunc' = (IF engineIsUp THEN tunc ELSE modemTunc)
          BY <3>1, <3>3 DEF gnssUpdateConfigTunc, KeepIf
        <4>2. TuncInv'
          BY <1>2, <2>3, <3>3, <4>1, <2>5 DEF ConfigInv, TuncInv
        <4> QED
          BY <2>2, <4>2 DEF ConfigInv
      <3> QED
        BY <3>2, <3>3
    <2> QED
      BY <2>4, <2>5
  <1>4. CASE UNCHANGED apiConfigs /\ loading' = TRUE /\ tunc = Null /\ UNCHANGED <<tunc, modemTunc>>
    <2>1. LockInv' /\ ConfigQueues'
      BY <1>1, <1>2, <1>4 DEF ConfigInv, LockInv, ConfigQueues
    <2>2. TuncInv'
      BY <1>2, <1>4, ConfigAssumption DEF ConfigInv, TuncInv
    <2> QED
      BY <2>1, <2>2 DEF ConfigInv
  <1> QED
    BY <1>3, <1>4 DEF gnssUpdateConfig, LoadTunc, gnssUpdateConfigTunc

-----------------------------------------------------------------------------
(* Callers, and the modem's own restarts.                                  *)

LEMMA CallerStep ==
  ASSUME ConfigInv, NEW m, PostConfig(m)
  PROVE  ConfigInv'
  <1>1. IsQueue(configMsgs) /\ configMsgs' = Append(configMsgs, m)
    BY DEF ConfigInv, ConfigQueues, PostConfig
  <1>2. IsQueue(configMsgs') /\ \A i \in DOMAIN configMsgs :
                                 i \in DOMAIN configMsgs' /\ configMsgs'[i] = configMsgs[i]
    BY <1>1, PostedQueue
  <1>3. UpQueued => UpQueued'
    BY <1>2 DEF UpQueued
  <1>4. UNCHANGED <<lockState, tuncState, apiConfigs, modemConfig, engineState, late>>
    BY DEF PostConfig
  <1> QED
    BY <1>2, <1>3, <1>4 DEF ConfigInv, ConfigQueues, LockInv, TuncInv, lockState, LockWanted,
       tuncState, modemConfig, engineState

LEMMA CallersStep ==
  ASSUME ConfigInv,
         \/ enableCommand \/ disableCommand \/ \E enable \in BOOLEAN : nfwControlCommand(enable)
         \/ gnssUpdateConfigCommand
         \/ \E svs \in SUBSET Constellations :
               gnssUpdateSvTypeConfigCommand(svs) \/ gnssUpdateSvConfigCommand(svs)
         \/ gnssGetConfigCommand \/ gnssGetSvTypeConfigCommand
         \/ gnssResetSvTypeConfigCommand \/ gnssResetSvConfigCommand
         \/ setConstrainedTuncCommand
  PROVE  ConfigInv'
  BY CallerStep
  DEF enableCommand, disableCommand, nfwControlCommand, gnssUpdateConfigCommand,
      gnssUpdateSvTypeConfigCommand, gnssUpdateSvConfigCommand, gnssGetConfigCommand,
      gnssGetSvTypeConfigCommand, gnssResetSvTypeConfigCommand, gnssResetSvConfigCommand,
      setConstrainedTuncCommand

LEMMA RestartStep ==
  ASSUME ConfigInv, ConfigEngineUp \/ EngineDown
  PROVE  ConfigInv'
  <1>1. CASE ConfigEngineUp
    <2>1. IsQueue(configMsgs) /\ configMsgs' = Append(configMsgs, Plain("engineUp"))
      BY <1>1 DEF ConfigInv, ConfigQueues, ConfigEngineUp
    <2>2. /\ IsQueue(configMsgs')
          /\ Len(configMsgs) + 1 \in DOMAIN configMsgs'
          /\ configMsgs'[Len(configMsgs) + 1] = Plain("engineUp")
      BY <2>1, PostedQueue
    <2>3. UpQueued'
      BY <2>2 DEF UpQueued, Plain, CMsg
    <2>4. /\ UNCHANGED <<tuncState, apiConfigs, late>> /\ modemTunc' = "conf"
      BY <1>1 DEF ConfigEngineUp
    <2> QED
      BY <2>2, <2>3, <2>4 DEF ConfigInv, ConfigQueues, LockInv, TuncInv, tuncState
  <1>2. CASE EngineDown
    BY <1>2 DEF EngineDown, ConfigInv, ConfigQueues, LockInv, TuncInv, tuncState, modemConfig
  <1> QED
    BY <1>1, <1>2

\* What waits for the capabilities is a queue, too.
LEMMA PendingStep ==
  ASSUME IsQueue(pendingConfigs), [ConfigNext]_configVars
  PROVE  IsQueue(pendingConfigs')
  <1>1. \A e : IsQueue(Append(pendingConfigs, e))
    BY PostedQueue
  <1>2. CASE Pend
    BY <1>1, <1>2 DEF Pend
  <1>3. CASE handleConfigEngineUp
    BY <1>3, NoQueue DEF handleConfigEngineUp, HandleEngineUp
  <1>4. CASE UNCHANGED configVars
    BY <1>4 DEF configVars, capsState
  <1>5. \A m : PostConfig(m) => UNCHANGED pendingConfigs
    BY DEF PostConfig, capsState
  <1>6. CASE \/ enableCommand \/ disableCommand
             \/ \E enable \in BOOLEAN : nfwControlCommand(enable)
             \/ gnssUpdateConfigCommand
             \/ \E svs \in SUBSET Constellations :
                   gnssUpdateSvTypeConfigCommand(svs) \/ gnssUpdateSvConfigCommand(svs)
             \/ gnssGetConfigCommand \/ gnssGetSvTypeConfigCommand
             \/ gnssResetSvTypeConfigCommand \/ gnssResetSvConfigCommand
             \/ setConstrainedTuncCommand
    BY <1>5, <1>6
    DEF enableCommand, disableCommand, nfwControlCommand, gnssUpdateConfigCommand,
        gnssUpdateSvTypeConfigCommand, gnssUpdateSvConfigCommand, gnssGetConfigCommand,
        gnssGetSvTypeConfigCommand, gnssResetSvTypeConfigCommand, gnssResetSvConfigCommand,
        setConstrainedTuncCommand
  <1>7. CASE \/ Enable \/ Disable \/ NfwControl \/ UpdateLock \/ AskModem \/ TellConfig
             \/ UpdateSvIds \/ gnssSvTypeConfigUpdate \/ ResetSvTypes \/ updateSvConfig
             \/ resetSvConfig \/ setConstrainedTunc
    BY <1>7 DEF Enable, Disable, NfwControl, UpdateLock, AskModem, TellConfig, UpdateSvIds,
       gnssSvTypeConfigUpdate, ResetSvTypes, updateSvConfig, resetSvConfig,
       setConstrainedTunc, capsState
  <1>8. CASE LocApiThread \/ ConfigEngineUp \/ EngineDown
    BY <1>8 DEF LocApiThread, setGpsLockSync, setBlacklistSv, gnssSvIdConfigUpdateSync,
       setConstellationControl, getBlacklistSv, getConstellationControl, Answers,
       setConstrainedTuncMode, gnssUpdateConfig, ApiUnchanged, ConfigEngineUp, EngineDown,
       capsState
  <1> QED
    BY <1>2, <1>3, <1>4, <1>6, <1>7, <1>8 DEF ConfigNext

LEMMA ConfigInvStep ==
  ConfigInv /\ IsQueue(pendingConfigs) /\ [ConfigNext]_configVars => ConfigInv'
  <1> SUFFICES ASSUME ConfigInv, IsQueue(pendingConfigs), [ConfigNext]_configVars
               PROVE  ConfigInv'
    OBVIOUS
  <1>1. CASE UNCHANGED configVars
    BY <1>1 DEF configVars, lockState, tuncState, modemConfig, engineState, ConfigInv,
       ConfigQueues, LockInv, TuncInv, UpQueued, LockWanted
  <1>2. CASE LocApiThread
    BY <1>2, ToldOther, ToldMode, ToldConfig DEF LocApiThread
  <1>3. CASE Enable \/ Disable \/ NfwControl \/ UpdateLock
    BY <1>3, LockCommands
  <1>4. CASE \/ Pend \/ AskModem \/ TellConfig \/ UpdateSvIds \/ gnssSvTypeConfigUpdate
             \/ ResetSvTypes \/ updateSvConfig \/ resetSvConfig
    BY <1>4, QuietCommands
  <1>5. CASE setConstrainedTunc \/ handleConfigEngineUp
    BY <1>5, TuncCommand, EngineUpCommand
  <1>6. CASE ConfigEngineUp \/ EngineDown
    BY <1>6, RestartStep
  <1> QED
    BY <1>1, <1>2, <1>3, <1>4, <1>5, <1>6, CallersStep DEF ConfigNext

\* What holds of the modem once all messages are done.
ConfigDone == ConfigInv /\ IsQueue(pendingConfigs)

LEMMA ConfigDoneHolds == ConfigSpec => []ConfigDone
  <1>1. ConfigInit => ConfigDone
    BY ConfigInvInit, NoQueue DEF ConfigInit, ConfigDone
  <1>2. ConfigDone /\ [ConfigNext]_configVars => ConfigDone'
    BY ConfigInvStep, PendingStep DEF ConfigDone
  <1> QED
    BY <1>1, <1>2, PTL DEF ConfigSpec

LEMMA NothingAsked ==
  ASSUME Settled
  PROVE  engineIsUp /\ ~UpQueued /\ \A op : ~Asks(apiConfigs, op)
  BY DEF Settled, UpQueued, Asks

\* Once all messages are done the modem locks what is wanted, for any commands, any
\* number of restarts of the modem, and however the two threads interleave; but for a
\* command that was overtaken.
THEOREM LockSettles == ConfigSpec => []LockAgrees
  <1>1. ConfigDone => LockAgrees
    BY NothingAsked DEF ConfigDone, LockAgrees, ConfigInv, LockInv, LockAfter, Asks
  <1> QED
    BY <1>1, ConfigDoneHolds, PTL

\* Once all messages are done the modem has the mode that is in force, under the same
\* conditions.
THEOREM ModeSettles == ConfigSpec => []ModeKept
  <1>1. ConfigDone => ModeKept
    BY NothingAsked DEF ConfigDone, ModeKept, ConfigInv, TuncInv
  <1> QED
    BY <1>1, ConfigDoneHolds, PTL

-----------------------------------------------------------------------------
(* Geofences.                                                              *)

FenceSpec == GeofenceInit /\ [][GeofenceNext]_fenceVars

FenceItem == [key : Keys, paused : BOOLEAN] \cup {NoFence}
FenceOps == DOMAIN FenceCalls \cup {FenceCalls[c] : c \in DOMAIN FenceCalls}
              \cup {Done[r] : r \in DOMAIN Done} \cup {"breach"}
FenceMsg ==
  [op : FenceOps, key : Keys, hw : HwIds \cup {0}, ok : BOOLEAN, paused : BOOLEAN]
    \cup [op : {"engineUp"}, key : {Null}, hw : {0}, ok : {TRUE}, paused : {FALSE}]
    \cup [op : {"removeClient"}, key : {<<k[1], 0>> : k \in Keys}, hw : {0}, ok : {TRUE}, paused : {FALSE}]
FenceRequest == [op : DOMAIN Done, key : Keys, hw : HwIds \cup {0}, ok : BOOLEAN, paused : BOOLEAN]

FenceTypes ==
  /\ mGeofences \in [HwIds -> FenceItem] /\ mGeofenceIds \in [Keys -> HwIds \cup {0}]
  /\ fenceMsgs \in Seq(FenceMsg) /\ requested \in Seq(FenceRequest)
  /\ modem \in [HwIds -> FenceItem] /\ added \subseteq Keys
  /\ \A m \in Range(fenceMsgs) : m.op = "removeClient" => m.key[1] \in goneClients

Live(k, gone) == k[1] \notin gone

\* What may still add a fence: the command and its call, the request, and the
\* response that grants it.
Adds(m) ==
  \/ m.op \in {"cmdAdd", "add", "readd"}
  \/ m.op \in {"addDone", "readdDone"} /\ m.ok

\* The fence of a client that is still there is in one place: what may add it,
\* in either queue, or the adapter's maps, which then have it by its key, too.
OnceIn(s, gone) ==
  \A i, j \in DOMAIN s :
    Adds(s[i]) /\ Adds(s[j]) /\ Live(s[i].key, gone) /\ s[i].key = s[j].key => i = j
ApartIn(s, r, gone) ==
  \A m \in Range(s), n \in Range(r) : Adds(m) /\ Adds(n) /\ Live(m.key, gone) => m.key # n.key
AddedOnce ==
  /\ OnceIn(fenceMsgs, goneClients) /\ OnceIn(requested, goneClients)
  /\ ApartIn(fenceMsgs, requested, goneClients)
MayAdd(m) == Adds(m) => m.key \in added /\ (Live(m.key, goneClients) => \A h \in HwIds : mGeofences[h].key # m.key)
AddedFirst ==
  /\ \A m \in Range(fenceMsgs) : MayAdd(m)
  /\ \A m \in Range(requested) : MayAdd(m)
  /\ \A h \in HwIds : mGeofences[h].key \in added \cup {Null}
KnownByKey ==
  \A h \in HwIds :
    mGeofences[h] # NoFence /\ Live(mGeofences[h].key, goneClients) => mGeofenceIds[mGeofences[h].key] = h

\* What the adapter has still to hear of the modem's number h.
Saves(m, h) == m.op \in {"addDone", "readdDone"} /\ m.ok /\ m.hw = h
Touches(m, h) ==
  \/ m.op = "engineUp"
  \/ Saves(m, h)
  \/ m.op \in {"removeDone", "removeOfClientDone"} /\ m.ok /\ m.hw = h

\* The fence of the modem at h is the one the adapter has there once it has read its
\* messages: the last of them about h saves it, or there is none and it is saved.
HeardIn(s, kept, its, h) ==
  \/ kept = its /\ \A m \in Range(s) : ~Touches(m, h)
  \/ \E i \in DOMAIN s :
       /\ Saves(s[i], h) /\ s[i].key = its
       /\ \A j \in DOMAIN s : j > i => ~Touches(s[j], h)
ModemHeard == \A h \in Fences(modem) : HeardIn(fenceMsgs, mGeofences[h].key, modem[h].key, h)

GrantsNumbered == \A m \in Range(fenceMsgs) : m.op \in {Done[r] : r \in DOMAIN Done} /\ m.ok => m.hw \in HwIds
FenceInv ==
  /\ FenceTypes /\ GrantsNumbered
  /\ AddedOnce /\ AddedFirst /\ KnownByKey
  /\ ModemHeard /\ (~up => Fences(modem) = {})

\* The messages of a queue that loses its head, or gains some at its end.
LEMMA TailKeeps ==
  ASSUME NEW S, NEW s \in Seq(S), s # <<>>
  PROVE  /\ Tail(s) \in Seq(S) /\ Head(s) \in S /\ Head(s) \in Range(s) /\ Range(Tail(s)) \subseteq Range(s)
         /\ Len(Tail(s)) = Len(s) - 1 /\ DOMAIN s = 1 .. Len(s) /\ DOMAIN Tail(s) = 1 .. Len(s) - 1
         /\ Len(s) \in Nat /\ Len(s) > 0 /\ s[1] = Head(s)
         /\ \A i \in DOMAIN Tail(s) : i + 1 \in DOMAIN s /\ Tail(s)[i] = s[i + 1]
  <1>1. Len(s) \in Nat /\ Len(s) > 0 /\ DOMAIN s = 1 .. Len(s) /\ s[1] = Head(s) /\ Head(s) \in S
    OBVIOUS
  <1>2. Tail(s) \in Seq(S) /\ Len(Tail(s)) = Len(s) - 1 /\ DOMAIN Tail(s) = 1 .. Len(s) - 1
    OBVIOUS
  <1>3. \A i \in DOMAIN Tail(s) : i + 1 \in DOMAIN s /\ Tail(s)[i] = s[i + 1]
    BY <1>1, <1>2
  <1> QED
    BY <1>1, <1>2, <1>3 DEF Range

LEMMA JoinKeeps ==
  ASSUME NEW S, NEW s \in Seq(S), NEW t \in Seq(S)
  PROVE  /\ s \o t \in Seq(S) /\ Range(s \o t) = Range(s) \cup Range(t)
         /\ Len(s) \in Nat /\ Len(t) \in Nat /\ DOMAIN s = 1 .. Len(s) /\ DOMAIN t = 1 .. Len(t)
         /\ DOMAIN (s \o t) = 1 .. Len(s) + Len(t)
         /\ \A i \in DOMAIN s : i \in DOMAIN (s \o t) /\ (s \o t)[i] = s[i]
         /\ \A i \in DOMAIN t : Len(s) + i \in DOMAIN (s \o t) /\ (s \o t)[Len(s) + i] = t[i]
         /\ \A i \in DOMAIN (s \o t) : i \in DOMAIN s \/ (i > Len(s) /\ i - Len(s) \in DOMAIN t)
  <1>1. /\ s \o t \in Seq(S) /\ DOMAIN (s \o t) = 1 .. Len(s) + Len(t)
        /\ Len(s) \in Nat /\ Len(t) \in Nat /\ DOMAIN s = 1 .. Len(s) /\ DOMAIN t = 1 .. Len(t)
    OBVIOUS
  <1>2. \A i \in DOMAIN s : i \in DOMAIN (s \o t) /\ (s \o t)[i] = s[i]
    OBVIOUS
  <1>3. \A i \in DOMAIN t : Len(s) + i \in DOMAIN (s \o t) /\ (s \o t)[Len(s) + i] = t[i]
    BY <1>1
  <1>4. \A i \in DOMAIN (s \o t) : i \in DOMAIN s \/ (i > Len(s) /\ i - Len(s) \in DOMAIN t)
    BY <1>1
  <1>5. Range(s \o t) \subseteq Range(s) \cup Range(t)
    <2> SUFFICES ASSUME NEW i \in DOMAIN (s \o t) PROVE (s \o t)[i] \in Range(s) \cup Range(t)
      BY DEF Range
    <2>1. CASE i \in DOMAIN s
      BY <2>1, <1>2 DEF Range
    <2>2. CASE i > Len(s) /\ i - Len(s) \in DOMAIN t
      <3> DEFINE j == i - Len(s)
      <3>1. j \in DOMAIN t /\ Len(s) + j = i
        BY <2>2, <1>1
      <3> HIDE DEF j
      <3> QED
        BY <3>1, <1>3 DEF Range
    <2> QED
      BY <2>1, <2>2, <1>4
  <1>6. Range(s) \subseteq Range(s \o t)
    BY <1>2 DEF Range
  <1>7. Range(t) \subseteq Range(s \o t)
    BY <1>3 DEF Range
  <1> QED
    BY <1>1, <1>2, <1>3, <1>4, <1>5, <1>6, <1>7

LEMMA OnePosted ==
  ASSUME NEW S, NEW s \in Seq(S), NEW e \in S
  PROVE  /\ Append(s, e) = s \o <<e>> /\ <<e>> \in Seq(S) /\ DOMAIN <<e>> = {1} /\ <<e>>[1] = e
         /\ Range(<<e>>) = {e} /\ Range(Append(s, e)) = Range(s) \cup {e}
  <1>1. Append(s, e) = s \o <<e>> /\ <<e>> \in Seq(S) /\ DOMAIN <<e>> = {1} /\ <<e>>[1] = e
    OBVIOUS
  <1>2. Range(<<e>>) = {e}
    BY <1>1 DEF Range
  <1> DEFINE t == <<e>>
  <1>3. t \in Seq(S)
    BY <1>1
  <1> HIDE DEF t
  <1>4. Range(s \o t) = Range(s) \cup Range(t)
    BY <1>3, JoinKeeps
  <1> QED
    BY <1>1, <1>2, <1>4 DEF t

\* What may be added once stays so.
LEMMA OnceTail ==
  ASSUME NEW S, NEW s \in Seq(S), s # <<>>, NEW gone, OnceIn(s, gone)
  PROVE  /\ OnceIn(Tail(s), gone)
         /\ \A m \in Range(Tail(s)) : Adds(m) /\ Adds(Head(s)) /\ Live(m.key, gone) => m.key # Head(s).key
  <1>1. OnceIn(Tail(s), gone)
    <2> SUFFICES ASSUME NEW i \in DOMAIN Tail(s), NEW j \in DOMAIN Tail(s), Adds(Tail(s)[i]), Adds(Tail(s)[j]),
                        Live(Tail(s)[i].key, gone), Tail(s)[i].key = Tail(s)[j].key
                 PROVE  i = j
      BY DEF OnceIn
    <2>1. /\ i + 1 \in DOMAIN s /\ Tail(s)[i] = s[i + 1] /\ j + 1 \in DOMAIN s /\ Tail(s)[j] = s[j + 1]
          /\ i \in Nat /\ j \in Nat
      BY TailKeeps
    <2>2. i + 1 = j + 1
      BY <2>1 DEF OnceIn
    <2> QED
      BY <2>1, <2>2
  <1>2. ASSUME NEW i \in DOMAIN Tail(s), Adds(Tail(s)[i]), Adds(Head(s)), Live(Tail(s)[i].key, gone)
        PROVE  Tail(s)[i].key # Head(s).key
    <2>1. i + 1 \in DOMAIN s /\ Tail(s)[i] = s[i + 1] /\ 1 \in DOMAIN s /\ s[1] = Head(s) /\ i \in Nat /\ i > 0
      BY TailKeeps
    <2>2. s[i + 1].key = s[1].key => i + 1 = 1
      BY <2>1, <1>2 DEF OnceIn
    <2> QED
      BY <2>1, <2>2
  <1> QED
    BY <1>1, <1>2 DEF Range

LEMMA OnceJoin ==
  ASSUME NEW S, NEW s \in Seq(S), NEW t \in Seq(S), NEW gone, OnceIn(s, gone), OnceIn(t, gone), ApartIn(s, t, gone)
  PROVE  OnceIn(s \o t, gone)
  <1> DEFINE u == s \o t
  <1> SUFFICES ASSUME NEW i \in DOMAIN u, NEW j \in DOMAIN u, Adds(u[i]), Adds(u[j]),
                      Live(u[i].key, gone), u[i].key = u[j].key
               PROVE  i = j
    BY DEF OnceIn
  <1>1. /\ \A k \in DOMAIN s : u[k] = s[k]
        /\ \A k \in DOMAIN t : u[Len(s) + k] = t[k]
        /\ \A k \in DOMAIN u : k \in Nat /\ (k \in DOMAIN s \/ (k > Len(s) /\ k - Len(s) \in DOMAIN t))
        /\ Len(s) \in Nat
    BY JoinKeeps
  <1>2. CASE i \in DOMAIN s /\ j \in DOMAIN s
    BY <1>1, <1>2 DEF OnceIn
  <1>3. ASSUME NEW k \in DOMAIN u, k - Len(s) \in DOMAIN t
        PROVE  u[k] = t[k - Len(s)]
    <2> DEFINE l == k - Len(s)
    <2>1. Len(s) + l = k /\ l \in DOMAIN t
      BY <1>1, <1>3
    <2> HIDE DEF l
    <2>2. u[k] = t[l]
      BY <2>1, <1>1
    <2> QED
      BY <2>2 DEF l
  <1> HIDE DEF u
  <1>4. CASE i - Len(s) \in DOMAIN t /\ j - Len(s) \in DOMAIN t
    <2>1. i - Len(s) = j - Len(s)
      BY <1>3, <1>4 DEF OnceIn
    <2> QED
      BY <2>1, <1>1
  <1>5. CASE i \in DOMAIN s /\ j - Len(s) \in DOMAIN t
    <2>1. u[i] \in Range(s) /\ u[j] \in Range(t)
      BY <1>1, <1>3, <1>5 DEF Range
    <2> QED
      BY <2>1 DEF ApartIn
  <1>6. CASE j \in DOMAIN s /\ i - Len(s) \in DOMAIN t
    <2>1. u[j] \in Range(s) /\ u[i] \in Range(t)
      BY <1>1, <1>3, <1>6 DEF Range
    <2> QED
      BY <2>1 DEF ApartIn
  <1> QED
    BY <1>1, <1>2, <1>4, <1>5, <1>6

\* Messages that add nothing are in nobody's way, and one adds once.
LEMMA OnceQuiet ==
  ASSUME NEW t, NEW gone, \A m \in Range(t) : ~Adds(m)
  PROVE  OnceIn(t, gone) /\ \A s : ApartIn(s, t, gone) /\ ApartIn(t, s, gone)
  BY DEF OnceIn, ApartIn, Range

LEMMA OnceOne ==
  ASSUME NEW e, NEW gone
  PROVE  OnceIn(<<e>>, gone)
  <1>1. DOMAIN <<e>> = {1}
    OBVIOUS
  <1> QED
    BY <1>1 DEF OnceIn

LEMMA OnceGone ==
  ASSUME NEW s, NEW r, NEW gone, NEW more, gone \subseteq more
  PROVE  (OnceIn(s, gone) => OnceIn(s, more)) /\ (ApartIn(s, r, gone) => ApartIn(s, r, more))
  BY DEF OnceIn, ApartIn, Live

LEMMA FenceOpNames ==
  /\ DOMAIN FenceCalls = {"cmdAdd", "cmdRemove", "cmdPause", "cmdResume", "cmdModify"}
  /\ \A c \in DOMAIN FenceCalls :
       FenceCalls[c] \in {"add", "remove", "pause", "resume", "modify"} /\ (FenceCalls[c] = "add" <=> c = "cmdAdd")
  /\ DOMAIN Done = {"add", "readd", "remove", "pause", "resume", "modify", "removeOfClient", "pauseAgain"}
  /\ Done["add"] = "addDone" /\ Done["readd"] = "readdDone" /\ Done["remove"] = "removeDone"
  /\ Done["pause"] = "pauseDone" /\ Done["resume"] = "resumeDone" /\ Done["modify"] = "modifyDone"
  /\ Done["removeOfClient"] = "removeOfClientDone" /\ Done["pauseAgain"] = "pauseAgainDone"
  <1>1. /\ FenceCalls["cmdAdd"] = "add" /\ FenceCalls["cmdRemove"] = "remove" /\ FenceCalls["cmdPause"] = "pause"
        /\ FenceCalls["cmdResume"] = "resume" /\ FenceCalls["cmdModify"] = "modify"
        /\ DOMAIN FenceCalls = {"cmdAdd", "cmdRemove", "cmdPause", "cmdResume", "cmdModify"}
    BY DEF FenceCalls
  <1> QED
    BY <1>1 DEF Done

DoneOps == {"addDone", "readdDone", "removeDone", "pauseDone", "resumeDone", "modifyDone",
            "removeOfClientDone", "pauseAgainDone"}
LEMMA FenceOpSets ==
  /\ {Done[r] : r \in DOMAIN Done} = DoneOps
  /\ FenceOps = {"cmdAdd", "cmdRemove", "cmdPause", "cmdResume", "cmdModify",
                 "add", "remove", "pause", "resume", "modify", "breach"} \cup DoneOps
  <1>1. {Done[r] : r \in DOMAIN Done} = DoneOps
    BY FenceOpNames DEF DoneOps
  <1>2. /\ FenceCalls["cmdAdd"] = "add" /\ FenceCalls["cmdRemove"] = "remove" /\ FenceCalls["cmdPause"] = "pause"
        /\ FenceCalls["cmdResume"] = "resume" /\ FenceCalls["cmdModify"] = "modify"
    BY DEF FenceCalls
  <1>3. {FenceCalls[c] : c \in DOMAIN FenceCalls} = {"add", "remove", "pause", "resume", "modify"}
    BY <1>2, FenceOpNames
  <1> QED
    BY <1>1, <1>3, FenceOpNames DEF FenceOps

LEMMA FenceInvInit == GeofenceInit => FenceInv
  <1> SUFFICES ASSUME GeofenceInit PROVE FenceInv
    OBVIOUS
  <1>1. /\ fenceMsgs = <<>> /\ requested = <<>> /\ Range(fenceMsgs) = {} /\ Range(requested) = {}
        /\ \A h \in HwIds : mGeofences[h] = NoFence /\ modem[h] = NoFence
    BY DEF GeofenceInit, Range
  <1>2. FenceTypes
    BY <1>1 DEF GeofenceInit, FenceTypes, FenceItem
  <1>3. AddedOnce
    BY <1>1 DEF AddedOnce, OnceIn, ApartIn
  <1>4. AddedFirst
    BY <1>1 DEF AddedFirst, NoFence
  <1>5. KnownByKey /\ GrantsNumbered
    BY <1>1 DEF KnownByKey, GrantsNumbered
  <1>6. Fences(modem) = {}
    BY <1>1 DEF Fences
  <1> QED
    BY <1>2, <1>3, <1>4, <1>5, <1>6 DEF FenceInv, ModemHeard

\* What a number of the adapter or of the modem has.
LEMMA FenceItems ==
  ASSUME NEW item \in FenceItem
  PROVE  /\ item.key \in Keys \cup {Null} /\ item.paused \in BOOLEAN
         /\ item = NoFence <=> item.key = Null
         /\ item # NoFence => \A p \in BOOLEAN : [item EXCEPT !.paused = p] \in FenceItem
  <1>1. CASE item = NoFence
    BY <1>1 DEF FenceItem, NoFence
  <1>2. CASE item \in [key : Keys, paused : BOOLEAN]
    <2>1. item.key \in Keys /\ item.paused \in BOOLEAN /\ item.key # Null
      BY <1>2, FenceAssumption
    <2>2. item # NoFence
      BY <2>1 DEF NoFence
    <2>3. \A p \in BOOLEAN : [item EXCEPT !.paused = p] \in [key : Keys, paused : BOOLEAN]
      BY <1>2
    <2> QED
      BY <2>1, <2>2, <2>3 DEF FenceItem
  <1> QED
    BY <1>1, <1>2 DEF FenceItem

\* What the adapter has still to hear of a number, when messages join that are not about it.
LEMMA HeardJoin ==
  ASSUME NEW S, NEW s \in Seq(S), NEW t \in Seq(S), NEW kept, NEW its, NEW h, HeardIn(s, kept, its, h),
         \A m \in Range(t) : ~Touches(m, h)
  PROVE  HeardIn(s \o t, kept, its, h)
  <1> DEFINE u == s \o t
  <1>1. /\ Range(u) = Range(s) \cup Range(t) /\ Len(s) \in Nat
        /\ \A i \in DOMAIN s : i \in DOMAIN u /\ u[i] = s[i]
    BY JoinKeeps
  <1>2. ASSUME NEW i \in DOMAIN u, i \notin DOMAIN s
        PROVE  u[i] \in Range(t)
    <2> DEFINE j == i - Len(s)
    <2>1. j \in DOMAIN t /\ Len(s) + j = i
      BY <1>2, JoinKeeps
    <2> HIDE DEF j
    <2>2. u[Len(s) + j] = t[j]
      BY <2>1, JoinKeeps
    <2> QED
      BY <2>1, <2>2 DEF Range
  <1> HIDE DEF u
  <1>3. CASE kept = its /\ \A m \in Range(s) : ~Touches(m, h)
    BY <1>1, <1>3 DEF HeardIn, u
  <1>4. ASSUME NEW i \in DOMAIN s, Saves(s[i], h), s[i].key = its,
               \A j \in DOMAIN s : j > i => ~Touches(s[j], h)
        PROVE  HeardIn(u, kept, its, h)
    <2>1. \A j \in DOMAIN u : j > i => ~Touches(u[j], h)
      BY <1>1, <1>2, <1>4
    <2> QED
      BY <1>1, <1>4, <2>1 DEF HeardIn
  <1> QED
    BY <1>3, <1>4 DEF HeardIn, u

\* The same when the adapter reads a message and does as it says.
LEMMA HeardTail ==
  ASSUME NEW S, NEW s \in Seq(S), s # <<>>, NEW kept, NEW now, NEW its, NEW h, HeardIn(s, kept, its, h),
         Touches(Head(s), h) \/ now = kept, Saves(Head(s), h) => now = Head(s).key
  PROVE  HeardIn(Tail(s), now, its, h)
  <1> DEFINE u == Tail(s)
  <1>2. /\ Head(s) \in Range(s) /\ Range(u) \subseteq Range(s)
        /\ s[1] = Head(s) /\ DOMAIN s = 1 .. Len(s) /\ Len(s) \in Nat
        /\ DOMAIN u = 1 .. Len(s) - 1
        /\ \A i \in DOMAIN u : i + 1 \in DOMAIN s /\ u[i] = s[i + 1]
    BY TailKeeps
  <1> HIDE DEF u
  <1>3. CASE kept = its /\ \A m \in Range(s) : ~Touches(m, h)
    BY <1>2, <1>3 DEF HeardIn, u
  <1>4. ASSUME NEW i \in DOMAIN s, Saves(s[i], h), s[i].key = its,
               \A j \in DOMAIN s : j > i => ~Touches(s[j], h)
        PROVE  HeardIn(u, now, its, h)
    <2>1. CASE i = 1
      <3>1. \A j \in DOMAIN u : ~Touches(u[j], h)
        BY <1>2, <1>4, <2>1
      <3>2. \A m \in Range(u) : ~Touches(m, h)
        BY <3>1 DEF Range
      <3> QED
        BY <1>2, <1>4, <2>1, <3>2 DEF HeardIn
    <2>2. CASE i # 1
      <3> DEFINE k == i - 1
      <3>1. k \in DOMAIN u /\ k + 1 = i /\ u[k] = s[i] /\ k \in Nat
        BY <1>2, <1>4, <2>2
      <3>2. \A j \in DOMAIN u : j > k => ~Touches(u[j], h)
        BY <1>2, <1>4, <3>1
      <3> HIDE DEF k
      <3> QED
        BY <1>4, <3>1, <3>2 DEF HeardIn
    <2> QED
      BY <2>1, <2>2
  <1> QED
    BY <1>3, <1>4 DEF HeardIn, u

\* The queues when the adapter reads a message: it goes, and requests join that add
\* nothing.
LEMMA OnceTaken ==
  ASSUME FenceTypes, AddedOnce, fenceMsgs # <<>>, NEW t \in Seq(FenceRequest), \A r \in Range(t) : ~Adds(r),
         fenceMsgs' = Tail(fenceMsgs), requested' = requested \o t, goneClients' = goneClients
  PROVE  /\ AddedOnce' /\ requested' \in Seq(FenceRequest) /\ fenceMsgs' \in Seq(FenceMsg)
         /\ Range(fenceMsgs)' \subseteq Range(fenceMsgs) /\ Range(requested)' = Range(requested) \cup Range(t)
         /\ Head(fenceMsgs) \in Range(fenceMsgs)
  <1>1. fenceMsgs \in Seq(FenceMsg) /\ requested \in Seq(FenceRequest)
    BY DEF FenceTypes
  <1>2. /\ fenceMsgs' \in Seq(FenceMsg) /\ Range(fenceMsgs') \subseteq Range(fenceMsgs)
        /\ Head(fenceMsgs) \in Range(fenceMsgs) /\ OnceIn(fenceMsgs', goneClients)
    BY <1>1, TailKeeps, OnceTail DEF AddedOnce
  <1>3. requested' \in Seq(FenceRequest) /\ Range(requested') = Range(requested) \cup Range(t)
    BY <1>1, JoinKeeps
  <1>4. OnceIn(requested', goneClients)
    BY <1>1, OnceQuiet, OnceJoin DEF AddedOnce
  <1>5. ApartIn(fenceMsgs', requested', goneClients)
    BY <1>2, <1>3 DEF AddedOnce, ApartIn
  <1> QED
    BY <1>2, <1>3, <1>4, <1>5 DEF AddedOnce

\* A command goes to the end of the queue as a call.
LEMMA CallQueued ==
  ASSUME FenceInv, fenceMsgs # <<>>, Head(fenceMsgs).op \in DOMAIN FenceCalls, ToCallQueue(Head(fenceMsgs)),
         UNCHANGED <<modemState, callerState>>
  PROVE  FenceInv'
  <1> DEFINE m == Head(fenceMsgs)
             call == [m EXCEPT !.op = FenceCalls[m.op]]
             rest == Tail(fenceMsgs)
  <1>1. /\ fenceMsgs \in Seq(FenceMsg) /\ m \in FenceMsg /\ m \in Range(fenceMsgs) /\ rest \in Seq(FenceMsg)
        /\ Range(rest) \subseteq Range(fenceMsgs)
    BY TailKeeps DEF FenceInv, FenceTypes
  <1>2. UNCHANGED <<mGeofences, mGeofenceIds, requested, modem, up, added, goneClients>> /\ fenceMsgs' = Append(rest, call)
    BY DEF ToCallQueue, fenceState, modemState, callerState
  <1>3. m \in [op : FenceOps, key : Keys, hw : HwIds \cup {0}, ok : BOOLEAN, paused : BOOLEAN]
    BY <1>1, FenceOpNames DEF FenceMsg
  <1>4. call \in FenceMsg /\ call.key = m.key /\ call.op \in {"add", "remove", "pause", "resume", "modify"}
        /\ (call.op = "add" <=> m.op = "cmdAdd")
    <2>1. FenceCalls[m.op] \in {"add", "remove", "pause", "resume", "modify"} /\ (FenceCalls[m.op] = "add" <=> m.op = "cmdAdd")
      BY FenceOpNames
    <2>2. FenceCalls[m.op] \in FenceOps
      BY <2>1, FenceOpSets
    <2>3. call = [op |-> FenceCalls[m.op], key |-> m.key, hw |-> m.hw, ok |-> m.ok, paused |-> m.paused]
      BY <1>3
    <2>4. call \in [op : FenceOps, key : Keys, hw : HwIds \cup {0}, ok : BOOLEAN, paused : BOOLEAN]
      BY <1>3, <2>2, <2>3
    <2> QED
      BY <2>1, <2>3, <2>4 DEF FenceMsg
  <1>5. Adds(call) => Adds(m)
    BY <1>4 DEF Adds
  <1>6. \A n \in Range(rest) : Adds(n) /\ Adds(m) /\ Live(n.key, goneClients) => n.key # m.key
    BY <1>1, OnceTail DEF FenceInv, AddedOnce
  <1>7. OnceIn(rest, goneClients)
    BY <1>1, OnceTail DEF FenceInv, AddedOnce
  <1>18. rest = Tail(fenceMsgs) /\ m = Head(fenceMsgs)
    OBVIOUS
  <1>8. \A h \in HwIds : ~Touches(call, h) /\ ~Touches(m, h)
    BY <1>4, FenceOpNames DEF Touches, Saves
  <1> HIDE DEF call, rest, m
  <1>9. Append(rest, call) = rest \o <<call>> /\ <<call>> \in Seq(FenceMsg) /\ Range(<<call>>) = {call}
        /\ Range(fenceMsgs') = Range(rest) \cup {call}
    BY <1>1, <1>2, <1>4, OnePosted
  <1>10. fenceMsgs' \in Seq(FenceMsg)
    BY <1>1, <1>2, <1>4
  <1>11. OnceIn(fenceMsgs', goneClients)
    <2>1. ApartIn(rest, <<call>>, goneClients)
      BY <1>4, <1>5, <1>6, <1>9 DEF ApartIn
    <2> QED
      BY <1>1, <1>2, <1>7, <1>9, <2>1, OnceOne, OnceJoin
  <1>12. AddedOnce'
    <2>1. ApartIn(fenceMsgs', requested, goneClients)
      BY <1>1, <1>4, <1>5, <1>9 DEF FenceInv, AddedOnce, ApartIn
    <2> QED
      BY <1>2, <1>11, <2>1 DEF FenceInv, AddedOnce
  <1>13. AddedFirst'
    <2>1. \A n \in Range(fenceMsgs') : MayAdd(n)'
      BY <1>1, <1>2, <1>4, <1>5, <1>9 DEF FenceInv, AddedFirst, MayAdd
    <2> QED
      BY <1>2, <2>1 DEF FenceInv, AddedFirst, MayAdd
  <1>14. FenceTypes'
    <2>1. \A n \in Range(fenceMsgs') : n.op = "removeClient" => n.key[1] \in goneClients
      BY <1>1, <1>4, <1>9 DEF FenceInv, FenceTypes
    <2> QED
      BY <1>2, <1>10, <2>1 DEF FenceInv, FenceTypes
  <1>15. KnownByKey' /\ (~up' => Fences(modem)' = {})
    BY <1>2 DEF FenceInv, KnownByKey, Fences
  <1>16. GrantsNumbered'
    BY <1>1, <1>2, <1>4, <1>9, FenceOpSets DEF FenceInv, GrantsNumbered, DoneOps
  <1>17. ModemHeard'
    <2> SUFFICES ASSUME NEW h \in HwIds, HeardIn(fenceMsgs, mGeofences[h].key, modem[h].key, h)
                 PROVE  HeardIn(fenceMsgs', mGeofences[h].key, modem[h].key, h)
      BY <1>2 DEF FenceInv, ModemHeard, Fences
    <2>1. HeardIn(rest, mGeofences[h].key, modem[h].key, h)
      <3>1. ~Touches(m, h) /\ ~Saves(m, h)
        BY <1>8 DEF Touches
      <3> QED
        BY <1>1, <1>18, <3>1, HeardTail
    <2> QED
      BY <1>1, <1>2, <1>8, <1>9, <2>1, HeardJoin
  <1> QED
    BY <1>12, <1>13, <1>14, <1>15, <1>16, <1>17 DEF FenceInv

\* What reading a message does to the map by number: it saves the fence, forgets it,
\* or leaves its key.
Updates(m) ==
  \A h \in HwIds :
    \/ mGeofences'[h].key = mGeofences[h].key /\ ~Saves(m, h)
    \/ mGeofences'[h].key = m.key /\ Saves(m, h)
    \/ mGeofences'[h].key = Null /\ Touches(m, h) /\ ~Saves(m, h)
Reads(t) ==
  /\ fenceMsgs # <<>> /\ fenceMsgs' = Tail(fenceMsgs) /\ requested' = requested \o t
  /\ t \in Seq(FenceRequest) /\ UNCHANGED <<modem, up, added, goneClients>>
  /\ mGeofences' \in [HwIds -> FenceItem] /\ mGeofenceIds' \in [Keys -> HwIds \cup {0}]
  /\ Updates(Head(fenceMsgs))

LEMMA ReadHeard ==
  ASSUME FenceInv, NEW t, Reads(t)
  PROVE  /\ FenceTypes' /\ GrantsNumbered' /\ ModemHeard' /\ (~up => Fences(modem) = {})'
         /\ Range(fenceMsgs)' \subseteq Range(fenceMsgs) /\ Range(requested)' = Range(requested) \cup Range(t)
         /\ Head(fenceMsgs) \in Range(fenceMsgs) /\ Head(fenceMsgs) \in FenceMsg
  <1>1. /\ fenceMsgs \in Seq(FenceMsg) /\ requested \in Seq(FenceRequest) /\ t \in Seq(FenceRequest)
        /\ fenceMsgs # <<>> /\ fenceMsgs' = Tail(fenceMsgs) /\ requested' = requested \o t
    BY DEF FenceInv, FenceTypes, Reads
  <1>2. /\ fenceMsgs' \in Seq(FenceMsg) /\ Range(fenceMsgs') \subseteq Range(fenceMsgs)
        /\ Head(fenceMsgs) \in Range(fenceMsgs) /\ Head(fenceMsgs) \in FenceMsg
    BY <1>1, TailKeeps
  <1>3. requested' \in Seq(FenceRequest) /\ Range(requested') = Range(requested) \cup Range(t)
    BY <1>1, JoinKeeps
  <1>4. FenceTypes' /\ GrantsNumbered'
    BY <1>2, <1>3 DEF FenceInv, FenceTypes, GrantsNumbered, Reads
  <1>5. (~up => Fences(modem) = {})' /\ Fences(modem)' = Fences(modem)
    BY DEF FenceInv, Reads, Fences
  <1>6. ModemHeard'
    <2> SUFFICES ASSUME NEW h \in HwIds, HeardIn(fenceMsgs, mGeofences[h].key, modem[h].key, h)
                 PROVE  HeardIn(fenceMsgs', mGeofences'[h].key, modem[h].key, h)
      BY <1>5 DEF FenceInv, ModemHeard, Fences, Reads
    <2>1. /\ Touches(Head(fenceMsgs), h) \/ mGeofences'[h].key = mGeofences[h].key
          /\ Saves(Head(fenceMsgs), h) => mGeofences'[h].key = Head(fenceMsgs).key
      BY DEF Reads, Updates, Touches
    <2> QED
      BY <1>1, <2>1, HeardTail
  <1> QED
    BY <1>2, <1>3, <1>4, <1>5, <1>6

\* A fence of a client still there whose adding is read is nowhere else.
LEMMA ReadOnce ==
  ASSUME FenceInv, NEW t, Reads(t), KnownByKey', \A r \in Range(t) : ~Adds(r)
  PROVE  FenceInv'
  <1> DEFINE m == Head(fenceMsgs)
  <1>1. /\ FenceTypes' /\ GrantsNumbered' /\ ModemHeard' /\ (~up => Fences(modem) = {})'
        /\ Range(fenceMsgs)' \subseteq Range(fenceMsgs) /\ Range(requested)' = Range(requested) \cup Range(t)
        /\ m \in Range(fenceMsgs)
    BY ReadHeard
  <1>2. AddedOnce'
    BY OnceTaken DEF FenceInv, Reads
  <1>3. fenceMsgs \in Seq(FenceMsg) /\ fenceMsgs # <<>> /\ fenceMsgs' = Tail(fenceMsgs)
        /\ UNCHANGED <<added, goneClients>>
    BY DEF FenceInv, FenceTypes, Reads
  <1>4. \A n \in Range(fenceMsgs') : Adds(n) /\ Adds(m) /\ Live(n.key, goneClients) => n.key # m.key
    BY <1>3, OnceTail DEF FenceInv, AddedOnce
  <1>5. \A n \in Range(requested) : Adds(n) /\ Adds(m) /\ Live(n.key, goneClients) => n.key # m.key
    BY <1>1 DEF FenceInv, AddedOnce, ApartIn
  <1>6. \A h \in HwIds : mGeofences'[h].key = mGeofences[h].key \/ mGeofences'[h].key = Null
                          \/ (mGeofences'[h].key = m.key /\ Adds(m))
    BY DEF Reads, Updates, Saves, Adds
  <1>7. \A n \in Range(fenceMsgs) \cup Range(requested) : Adds(n) => n.key \in added /\ n.key # Null
    BY FenceAssumption DEF FenceInv, AddedFirst, MayAdd, FenceTypes
  <1>8. ASSUME NEW n \in Range(fenceMsgs') \cup Range(requested'), Adds(n)
        PROVE  n.key \in added /\ (Live(n.key, goneClients) => \A h \in HwIds : mGeofences'[h].key # n.key)
    <2>1. n \in Range(fenceMsgs) \cup Range(requested)
      BY <1>1, <1>8
    <2>2. n.key \in added /\ n.key # Null
      BY <1>7, <1>8, <2>1
    <2>3. Live(n.key, goneClients) => \A h \in HwIds : mGeofences[h].key # n.key
      BY <1>8, <2>1 DEF FenceInv, AddedFirst, MayAdd
    <2>4. Adds(m) /\ Live(n.key, goneClients) => n.key # m.key
      BY <1>1, <1>4, <1>5, <1>8
    <2> QED
      BY <1>6, <2>2, <2>3, <2>4
  <1>9. \A h \in HwIds : mGeofences'[h].key \in added \cup {Null}
    BY <1>1, <1>6, <1>7 DEF FenceInv, AddedFirst
  <1>10. AddedFirst'
    BY <1>3, <1>8, <1>9 DEF AddedFirst, MayAdd
  <1> QED
    BY <1>1, <1>2, <1>10 DEF FenceInv

\* A call that adds is requested.
LEMMA AddRequested ==
  ASSUME FenceInv, NEW m, m = Head(fenceMsgs), Reads(<<m>>), UNCHANGED <<mGeofences, mGeofenceIds>>
  PROVE  FenceInv'
  <1> DEFINE t == <<m>>
  <1>1. /\ FenceTypes' /\ GrantsNumbered' /\ ModemHeard' /\ (~up => Fences(modem) = {})'
        /\ Range(fenceMsgs)' \subseteq Range(fenceMsgs) /\ Range(requested)' = Range(requested) \cup Range(t)
        /\ m \in Range(fenceMsgs)
    BY ReadHeard
  <1>2. fenceMsgs \in Seq(FenceMsg) /\ fenceMsgs # <<>> /\ fenceMsgs' = Tail(fenceMsgs)
        /\ UNCHANGED <<added, goneClients>> /\ requested \in Seq(FenceRequest) /\ requested' = requested \o t
        /\ t \in Seq(FenceRequest)
    BY DEF FenceInv, FenceTypes, Reads
  <1>3. Range(t) = {m} /\ OnceIn(t, goneClients)
    BY OnceOne DEF Range
  <1>4. \A n \in Range(fenceMsgs') : Adds(n) /\ Adds(m) /\ Live(n.key, goneClients) => n.key # m.key
    BY <1>2, OnceTail DEF FenceInv, AddedOnce
  <1>5. OnceIn(fenceMsgs', goneClients)
    BY <1>2, OnceTail DEF FenceInv, AddedOnce
  <1> HIDE DEF t
  <1>6. OnceIn(requested', goneClients)
    <2>1. ApartIn(requested, t, goneClients)
      BY <1>1, <1>3 DEF FenceInv, AddedOnce, ApartIn
    <2> QED
      BY <1>2, <1>3, <2>1, OnceJoin DEF FenceInv, AddedOnce
  <1>7. ApartIn(fenceMsgs', requested', goneClients)
    BY <1>1, <1>3, <1>4 DEF FenceInv, AddedOnce, ApartIn
  <1>8. AddedOnce'
    BY <1>2, <1>5, <1>6, <1>7 DEF AddedOnce
  <1>9. AddedFirst'
    BY <1>1, <1>2, <1>3 DEF FenceInv, AddedFirst, MayAdd
  <1>10. KnownByKey'
    BY <1>2 DEF FenceInv, KnownByKey
  <1> QED
    BY <1>1, <1>8, <1>9, <1>10 DEF FenceInv

\* The message at the head.
LEMMA HeadMessage ==
  ASSUME FenceInv, fenceMsgs # <<>>, NEW m, m = Head(fenceMsgs)
  PROVE  /\ m \in FenceMsg /\ m.op \in FenceOps \cup {"engineUp", "removeClient"}
         /\ m.op \notin {"engineUp", "removeClient"} =>
              /\ m.key \in Keys /\ m.hw \in HwIds \cup {0} /\ m.ok \in BOOLEAN /\ m.paused \in BOOLEAN
              /\ m = [op |-> m.op, key |-> m.key, hw |-> m.hw, ok |-> m.ok, paused |-> m.paused]
         /\ m.op = "removeClient" => m.key[1] \in goneClients
         /\ m.op \in DoneOps /\ m.ok => m.hw \in HwIds
         /\ MayAdd(m)
  <1>1. m \in FenceMsg /\ m \in Range(fenceMsgs)
    BY TailKeeps DEF FenceInv, FenceTypes
  <1>2. m.op \in FenceOps \cup {"engineUp", "removeClient"}
    BY <1>1 DEF FenceMsg
  <1>3. m.op \notin {"engineUp", "removeClient"} =>
          m \in [op : FenceOps, key : Keys, hw : HwIds \cup {0}, ok : BOOLEAN, paused : BOOLEAN]
    BY <1>1 DEF FenceMsg
  <1> QED
    BY <1>1, <1>2, <1>3, FenceOpSets DEF FenceInv, FenceTypes, GrantsNumbered, AddedFirst

\* What reading a message keeps.
ReadFrame == fenceMsgs # <<>> /\ UNCHANGED <<modemState, callerState>>

LEMMA ReadsState ==
  ASSUME FenceInv, ReadFrame, NEW t \in Seq(FenceRequest), Request(t),
         mGeofences' \in [HwIds -> FenceItem], mGeofenceIds' \in [Keys -> HwIds \cup {0}],
         Updates(Head(fenceMsgs))
  PROVE  Reads(t)
  BY DEF ReadFrame, Request, Reads, modemState, callerState

LEMMA UnchangedUpdates ==
  ASSUME FenceInv, ReadFrame, UNCHANGED <<mGeofences, mGeofenceIds>>, NEW m, \A h \in HwIds : ~Saves(m, h)
  PROVE  /\ mGeofences' \in [HwIds -> FenceItem] /\ mGeofenceIds' \in [Keys -> HwIds \cup {0}]
         /\ Updates(m) /\ KnownByKey'
  BY DEF FenceInv, FenceTypes, Updates, KnownByKey, ReadFrame, callerState

LEMMA NothingRequested ==
  /\ <<>> \in Seq(FenceRequest) /\ \A r \in Range(<<>>) : ~Adds(r)
  /\ \A r \in FenceRequest : ~Adds(r) => <<r>> \in Seq(FenceRequest) /\ \A n \in Range(<<r>>) : ~Adds(n)
  BY DEF Range

LEMMA CallAddKept ==
  ASSUME FenceInv, ReadFrame, Head(fenceMsgs).op = "add", CallAdd(Head(fenceMsgs))
  PROVE  FenceInv'
  <1> DEFINE m == Head(fenceMsgs)
  <1>1. m \in FenceRequest
    BY HeadMessage, FenceOpNames DEF ReadFrame, FenceRequest
  <1>2. <<m>> \in Seq(FenceRequest)
    BY <1>1
  <1>3. UNCHANGED <<mGeofences, mGeofenceIds>> /\ Request(<<m>>)
    BY DEF CallAdd, fenceState
  <1>4. \A h \in HwIds : ~Saves(m, h)
    BY DEF Saves
  <1>5. Reads(<<m>>)
    <2> DEFINE t == <<m>>
    <2>1. t \in Seq(FenceRequest) /\ Request(t)
      BY <1>2, <1>3
    <2> HIDE DEF t
    <2>2. Reads(t)
      BY <1>3, <1>4, <2>1, UnchangedUpdates, ReadsState
    <2> QED
      BY <2>2 DEF t
  <1> QED
    BY <1>3, <1>5, AddRequested

LEMMA CallOtherKept ==
  ASSUME FenceInv, ReadFrame, Head(fenceMsgs).op \in {"remove", "pause", "resume", "modify"},
         CallOther(Head(fenceMsgs))
  PROVE  FenceInv'
  <1> DEFINE m == Head(fenceMsgs)
             r == [m EXCEPT !.hw = mGeofenceIds[m.key]]
  <1>1. UNCHANGED <<mGeofences, mGeofenceIds>> /\ \A h \in HwIds : ~Saves(m, h)
    BY DEF CallOther, fenceState, Saves
  <1>2. r \in FenceRequest /\ ~Adds(r)
    <2>1. /\ m.key \in Keys /\ m.ok \in BOOLEAN /\ m.paused \in BOOLEAN
          /\ m = [op |-> m.op, key |-> m.key, hw |-> m.hw, ok |-> m.ok, paused |-> m.paused]
      BY HeadMessage DEF ReadFrame
    <2>2. mGeofenceIds[m.key] \in HwIds \cup {0}
      BY <2>1 DEF FenceInv, FenceTypes
    <2>3. r = [op |-> m.op, key |-> m.key, hw |-> mGeofenceIds[m.key], ok |-> m.ok, paused |-> m.paused]
      BY <2>1
    <2> QED
      BY <2>1, <2>2, <2>3, FenceOpNames DEF FenceRequest, Adds
  <1>3. Request(<<>>) \/ Request(<<r>>)
    BY DEF CallOther
  <1> HIDE DEF r
  <1>4. \E t \in Seq(FenceRequest) : Request(t) /\ \A n \in Range(t) : ~Adds(n)
    BY <1>2, <1>3, NothingRequested
  <1> QED
    BY <1>1, <1>4, UnchangedUpdates, ReadsState, ReadOnce

\* A fence is saved at the number the modem gave it.
LEMMA SavedKept ==
  ASSUME FenceInv, ReadFrame, NEW m, m = Head(fenceMsgs), m.op \in {"addDone", "readdDone"},
         IF m.ok THEN saveGeofenceItem(m) ELSE UNCHANGED fenceState,
         NEW t \in Seq(FenceRequest), Request(t), \A n \in Range(t) : ~Adds(n)
  PROVE  FenceInv'
  <1>1. /\ m.key \in Keys /\ m.ok \in BOOLEAN /\ (m.ok => m.hw \in HwIds) /\ MayAdd(m)
    BY HeadMessage DEF ReadFrame, DoneOps
  <1>2. CASE ~m.ok
    BY <1>2, UnchangedUpdates, ReadsState, ReadOnce DEF fenceState, Saves
  <1>3. CASE m.ok
    <2> DEFINE item == [key |-> m.key, paused |-> FALSE]
    <2>1. /\ item \in FenceItem /\ item.key = m.key
      BY <1>1 DEF FenceItem
    <2>2. mGeofences' = [mGeofences EXCEPT ![m.hw] = item] /\ mGeofenceIds' = [mGeofenceIds EXCEPT ![m.key] = m.hw]
      BY <1>3 DEF saveGeofenceItem
    <2> HIDE DEF item
    <2>3. /\ mGeofences' \in [HwIds -> FenceItem] /\ mGeofenceIds' \in [Keys -> HwIds \cup {0}]
          /\ mGeofences'[m.hw] = item /\ \A h \in HwIds : h # m.hw => mGeofences'[h] = mGeofences[h]
          /\ mGeofenceIds'[m.key] = m.hw /\ \A k \in Keys : k # m.key => mGeofenceIds'[k] = mGeofenceIds[k]
      BY <1>1, <1>3, <2>1, <2>2 DEF FenceInv, FenceTypes
    <2>4. Updates(m)
      BY <1>3, <2>1, <2>3 DEF Updates, Saves
    <2>5. Adds(m)
      BY <1>3 DEF Adds
    <2>6. ASSUME NEW h \in HwIds, mGeofences'[h] # NoFence, Live(mGeofences'[h].key, goneClients)
          PROVE  mGeofenceIds'[mGeofences'[h].key] = h
      <3>1. CASE h = m.hw
        BY <2>1, <2>3, <3>1
      <3>2. CASE h # m.hw
        <4>1. mGeofences'[h] = mGeofences[h] /\ mGeofences[h] \in FenceItem
          BY <2>3, <3>2 DEF FenceInv, FenceTypes
        <4>2. mGeofences[h].key # m.key
          BY <2>5, <1>1, <2>6, <4>1 DEF MayAdd
        <4>3. mGeofences[h].key \in Keys
          BY <2>6, <4>1, FenceItems
        <4> QED
          BY <2>3, <2>6, <4>1, <4>2, <4>3 DEF FenceInv, KnownByKey
      <3> QED
        BY <3>1, <3>2
    <2>7. KnownByKey'
      BY <2>6 DEF KnownByKey, ReadFrame, callerState
    <2> QED
      BY <2>3, <2>4, <2>7, ReadsState, ReadOnce
  <1> QED
    BY <1>1, <1>2, <1>3

LEMMA RespondAddKept ==
  ASSUME FenceInv, ReadFrame, Head(fenceMsgs).op = "addDone", RespondAdd(Head(fenceMsgs))
  PROVE  FenceInv'
  BY NothingRequested, SavedKept DEF RespondAdd

LEMMA RespondReaddKept ==
  ASSUME FenceInv, ReadFrame, Head(fenceMsgs).op = "readdDone", RespondReadd(Head(fenceMsgs))
  PROVE  FenceInv'
  <1> DEFINE m == Head(fenceMsgs)
             r == FMsg("pauseAgain", m.key, m.hw)
  <1>1. r \in FenceRequest /\ ~Adds(r)
    BY HeadMessage, FenceOpNames DEF ReadFrame, FMsg, FenceRequest, Adds
  <1>2. Request(<<r>>) \/ Request(<<>>)
    BY DEF RespondReadd
  <1> HIDE DEF r
  <1>3. \E t \in Seq(FenceRequest) : Request(t) /\ \A n \in Range(t) : ~Adds(n)
    BY <1>1, <1>2, NothingRequested
  <1> QED
    BY <1>3, SavedKept DEF RespondReadd

LEMMA KeptFence ==
  ASSUME FenceInv, ReadFrame, NEW m, m = Head(fenceMsgs), \A h \in HwIds : ~Saves(m, h), KeepFence(m)
  PROVE  FenceInv'
  BY NothingRequested, UnchangedUpdates, ReadsState, ReadOnce DEF KeepFence, fenceState

\* A removal that succeeded, or a fence the maps do not have.
LEMMA RemovedKept ==
  ASSUME FenceInv, ReadFrame, NEW m, m = Head(fenceMsgs), m.op = "removeDone", removeGeofenceItem(m)
  PROVE  FenceInv'
  <1> DEFINE key == mGeofences[m.hw].key
  <1>1. m.ok \in BOOLEAN /\ (m.ok => m.hw \in HwIds) /\ Request(<<>>) /\ \A h \in HwIds : ~Saves(m, h)
    BY HeadMessage DEF ReadFrame, DoneOps, removeGeofenceItem, Saves
  <1>2. CASE ~(m.ok /\ key # Null /\ mGeofenceIds[key] # 0)
    <2>1. UNCHANGED <<mGeofences, mGeofenceIds>>
      BY <1>2 DEF removeGeofenceItem, fenceState
    <2> QED
      BY <1>1, <2>1, NothingRequested, UnchangedUpdates, ReadsState, ReadOnce
  <1>3. CASE m.ok /\ key # Null /\ mGeofenceIds[key] # 0
    <2>1. /\ mGeofenceIds' = [mGeofenceIds EXCEPT ![key] = 0]
          /\ mGeofences' = [mGeofences EXCEPT ![m.hw] = NoFence]
      BY <1>3 DEF removeGeofenceItem
    <2>2. m.hw \in HwIds /\ NoFence \in FenceItem /\ NoFence.key = Null
      BY <1>1, <1>3 DEF FenceItem, NoFence
    <2>3. mGeofences[m.hw] \in FenceItem /\ key \in Keys
      BY <1>3, <2>2, FenceItems DEF FenceInv, FenceTypes
    <2> HIDE DEF key
    <2>4. /\ mGeofences' \in [HwIds -> FenceItem] /\ mGeofenceIds' \in [Keys -> HwIds \cup {0}]
          /\ mGeofences'[m.hw] = NoFence /\ \A h \in HwIds : h # m.hw => mGeofences'[h] = mGeofences[h]
          /\ \A k \in Keys : k # key => mGeofenceIds'[k] = mGeofenceIds[k]
      BY <2>1, <2>2, <2>3 DEF FenceInv, FenceTypes
    <2>5. Updates(m)
      BY <1>1, <1>3, <2>2, <2>4 DEF Updates, Touches
    <2>6. ASSUME NEW h \in HwIds, mGeofences'[h] # NoFence, Live(mGeofences'[h].key, goneClients)
          PROVE  mGeofenceIds'[mGeofences'[h].key] = h
      <3>1. h # m.hw /\ mGeofences'[h] = mGeofences[h] /\ mGeofences[h] \in FenceItem
        BY <2>4, <2>6 DEF FenceInv, FenceTypes
      <3>2. mGeofenceIds[mGeofences[h].key] = h /\ mGeofences[h].key \in Keys
        BY <2>6, <3>1, FenceItems DEF FenceInv, KnownByKey
      <3>3. CASE mGeofences[h].key = key
        <4>1. mGeofences[m.hw] # NoFence /\ mGeofences[m.hw].key = key
          BY <1>3, <2>3, FenceItems DEF key
        <4>2. mGeofenceIds[key] = m.hw
          BY <2>2, <2>6, <3>1, <3>3, <4>1 DEF FenceInv, KnownByKey
        <4> QED
          BY <3>1, <3>2, <3>3, <4>2
      <3> QED
        BY <2>4, <3>1, <3>2, <3>3
    <2>7. KnownByKey'
      BY <2>6 DEF KnownByKey, ReadFrame, callerState
    <2> QED
      BY <1>1, <2>4, <2>5, <2>7, NothingRequested, ReadsState, ReadOnce
  <1> QED
    BY <1>1, <1>2, <1>3

\* A pause or a resume leaves whose the fence is.
LEMMA ItemSet ==
  ASSUME FenceInv, ReadFrame, NEW m, m = Head(fenceMsgs), m.op \in {"pauseDone", "resumeDone"},
         NEW p \in BOOLEAN, SetItem(m, [mGeofences[m.hw] EXCEPT !.paused = p])
  PROVE  FenceInv'
  <1> DEFINE item == [mGeofences[m.hw] EXCEPT !.paused = p]
  <1>1. m.ok \in BOOLEAN /\ (m.ok => m.hw \in HwIds) /\ Request(<<>>) /\ \A h \in HwIds : ~Saves(m, h)
    BY HeadMessage DEF ReadFrame, DoneOps, SetItem, Saves
  <1>2. /\ mGeofenceIds' = mGeofenceIds
        /\ mGeofences' = mGeofences \/
             (mGeofences' = [mGeofences EXCEPT ![m.hw] = item] /\ m.ok /\ mGeofences[m.hw] # NoFence)
    BY DEF SetItem
  <1>3. ASSUME mGeofences' = [mGeofences EXCEPT ![m.hw] = item], m.ok, mGeofences[m.hw] # NoFence
        PROVE  FenceInv'
    <2>1. m.hw \in HwIds /\ mGeofences[m.hw] \in FenceItem
      BY <1>1, <1>3 DEF FenceInv, FenceTypes
    <2>2. item \in FenceItem /\ item.key = mGeofences[m.hw].key
      BY <1>3, <2>1, FenceItems DEF FenceItem, NoFence
    <2>3. item # NoFence
      BY <1>3, <2>1, <2>2, FenceItems
    <2> HIDE DEF item
    <2>4. /\ mGeofences' \in [HwIds -> FenceItem] /\ mGeofenceIds' \in [Keys -> HwIds \cup {0}]
          /\ \A h \in HwIds : mGeofences'[h].key = mGeofences[h].key /\ (mGeofences'[h] # NoFence <=> mGeofences[h] # NoFence)
      BY <1>2, <1>3, <2>1, <2>2, <2>3 DEF FenceInv, FenceTypes
    <2>5. Updates(m)
      BY <1>1, <2>4 DEF Updates
    <2>6. KnownByKey'
      BY <1>2, <2>4 DEF FenceInv, KnownByKey, ReadFrame, callerState
    <2> QED
      BY <1>1, <2>4, <2>5, <2>6, NothingRequested, ReadsState, ReadOnce
  <1>4. CASE mGeofences' = mGeofences
    BY <1>1, <1>2, <1>4, NothingRequested, UnchangedUpdates, ReadsState, ReadOnce
  <1> QED
    BY <1>2, <1>3, <1>4

\* The last fences of a client that has gone.
LEMMA RemovedOfClientKept ==
  ASSUME FenceInv, ReadFrame, NEW m, m = Head(fenceMsgs), m.op = "removeOfClientDone", RespondRemoveOfClient(m)
  PROVE  FenceInv'
  <1>1. m.ok \in BOOLEAN /\ (m.ok => m.hw \in HwIds) /\ Request(<<>>) /\ \A h \in HwIds : ~Saves(m, h)
    BY HeadMessage DEF ReadFrame, DoneOps, RespondRemoveOfClient, Saves
  <1>2. mGeofenceIds' = mGeofenceIds
    BY DEF RespondRemoveOfClient
  <1>3. CASE ~m.ok
    <2>1. mGeofences' = mGeofences
      BY <1>3 DEF RespondRemoveOfClient
    <2> QED
      BY <1>1, <1>2, <2>1, NothingRequested, UnchangedUpdates, ReadsState, ReadOnce
  <1>4. CASE m.ok
    <2>1. mGeofences' = [mGeofences EXCEPT ![m.hw] = NoFence]
      BY <1>4 DEF RespondRemoveOfClient
    <2>2. m.hw \in HwIds /\ NoFence \in FenceItem /\ NoFence.key = Null
      BY <1>1, <1>4 DEF FenceItem, NoFence
    <2>3. /\ mGeofences' \in [HwIds -> FenceItem] /\ mGeofenceIds' \in [Keys -> HwIds \cup {0}]
          /\ mGeofences'[m.hw] = NoFence /\ \A h \in HwIds : h # m.hw => mGeofences'[h] = mGeofences[h]
      BY <1>2, <2>1, <2>2 DEF FenceInv, FenceTypes
    <2>4. Updates(m)
      BY <1>1, <1>4, <2>2, <2>3 DEF Updates, Touches
    <2>5. KnownByKey'
      BY <1>2, <2>3 DEF FenceInv, KnownByKey, ReadFrame, callerState
    <2> QED
      BY <1>1, <2>3, <2>4, <2>5, NothingRequested, ReadsState, ReadOnce
  <1> QED
    BY <1>1, <1>3, <1>4

\* An order of a finite set names its members, each once.
LEMMA OrderNames ==
  ASSUME NEW S, IsFiniteSet(S), NEW order \in Orders(S)
  PROVE  /\ Cardinality(S) \in Nat /\ DOMAIN order = 1 .. Cardinality(S)
         /\ \A i \in DOMAIN order : order[i] \in S
         /\ \A i, j \in DOMAIN order : order[i] = order[j] => i = j
  <1>1. Cardinality(S) \in Nat
    BY FS_CardinalityType
  <1> QED
    BY <1>1 DEF Orders

LEMMA ListedQueue ==
  ASSUME NEW S, NEW n \in Nat, NEW f, DOMAIN f = 1 .. n, f = [i \in 1 .. n |-> f[i]], \A i \in 1 .. n : f[i] \in S
  PROVE  f \in Seq(S) /\ Range(f) = {f[i] : i \in 1 .. n}
  <1>1. f \in [1 .. n -> S]
    OBVIOUS
  <1>2. f \in Seq(S)
    BY <1>1
  <1> QED
    BY <1>2 DEF Range

\* The client's keys go, and the fences are to be removed.
LEMMA StoppedKept ==
  ASSUME FenceInv, ReadFrame, NEW m, m = Head(fenceMsgs), m.op = "removeClient", stopClientSessions(m)
  PROVE  FenceInv'
  <1> DEFINE mine == {k \in Keys : k[1] = m.key[1] /\ mGeofenceIds[k] # 0}
  <1>1. m.key[1] \in goneClients /\ \A h \in HwIds : ~Saves(m, h)
    BY HeadMessage DEF ReadFrame, Saves
  <1>2. PICK order \in Orders(mine) :
          Request([i \in DOMAIN order |-> FMsg("removeOfClient", order[i], mGeofenceIds[order[i]])])
    BY DEF stopClientSessions
  <1> DEFINE t == [i \in DOMAIN order |-> FMsg("removeOfClient", order[i], mGeofenceIds[order[i]])]
  <1>3. /\ mGeofenceIds' = [k \in Keys |-> IF k \in mine THEN 0 ELSE mGeofenceIds[k]] /\ mGeofences' = mGeofences
    BY DEF stopClientSessions
  <1>4. /\ Cardinality(mine) \in Nat /\ DOMAIN order = 1 .. Cardinality(mine)
        /\ \A i \in DOMAIN order : order[i] \in mine
    <2>1. IsFiniteSet(mine)
      BY FS_Subset, FenceAssumption
    <2> QED
      BY <2>1, OrderNames
  <1>5. \A i \in DOMAIN order : t[i] \in FenceRequest /\ ~Adds(t[i])
    <2> SUFFICES ASSUME NEW i \in DOMAIN order PROVE t[i] \in FenceRequest /\ ~Adds(t[i])
      OBVIOUS
    <2>1. order[i] \in Keys /\ mGeofenceIds[order[i]] \in HwIds \cup {0}
      BY <1>4 DEF FenceInv, FenceTypes
    <2> QED
      BY <2>1, FenceOpNames DEF FMsg, FenceRequest, Adds
  <1>6. t \in Seq(FenceRequest) /\ \A r \in Range(t) : ~Adds(r)
    <2> DEFINE n == Cardinality(mine)
    <2>1. n \in Nat /\ DOMAIN t = 1 .. n /\ t = [i \in 1 .. n |-> t[i]] /\ \A i \in 1 .. n : t[i] \in FenceRequest /\ ~Adds(t[i])
      BY <1>4, <1>5
    <2> HIDE DEF n, t
    <2> QED
      BY <2>1, ListedQueue
  <1>7. /\ mGeofences' \in [HwIds -> FenceItem] /\ mGeofenceIds' \in [Keys -> HwIds \cup {0}]
        /\ \A k \in Keys : Live(k, goneClients) => mGeofenceIds'[k] = mGeofenceIds[k]
    BY <1>1, <1>3 DEF FenceInv, FenceTypes, Live
  <1>8. Updates(m)
    BY <1>1, <1>3 DEF Updates
  <1>9. KnownByKey'
    <2> SUFFICES ASSUME NEW h \in HwIds, mGeofences[h] # NoFence, Live(mGeofences[h].key, goneClients)
                 PROVE  mGeofenceIds'[mGeofences[h].key] = h
      BY <1>3 DEF KnownByKey, ReadFrame, callerState
    <2>1. mGeofences[h].key \in Keys
      BY FenceItems DEF FenceInv, FenceTypes
    <2> QED
      BY <1>7, <2>1 DEF FenceInv, KnownByKey
  <1> HIDE DEF t
  <1>10. Request(t)
    BY <1>2 DEF t
  <1> QED
    BY <1>6, <1>7, <1>8, <1>9, <1>10, ReadsState, ReadOnce

\* Every fence is added anew, under the key it had.
LEMMA RestartKept ==
  ASSUME FenceInv, ReadFrame, NEW m, m = Head(fenceMsgs), m.op = "engineUp", restartGeofences
  PROVE  FenceInv'
  <1> DEFINE old == Fences(mGeofences)
  <1>1. PICK order \in Orders(old) : Request(Readds(order))
    BY DEF restartGeofences
  <1> DEFINE t == Readds(order)
  <1>2. /\ \A h \in HwIds : mGeofences'[h] = NoFence
        /\ mGeofences' \in [HwIds -> FenceItem] /\ mGeofenceIds' \in [Keys -> HwIds \cup {0}]
    BY DEF restartGeofences, FenceItem
  <1>3. /\ Cardinality(old) \in Nat /\ DOMAIN order = 1 .. Cardinality(old)
        /\ \A i \in DOMAIN order : order[i] \in old
        /\ \A i, j \in DOMAIN order : order[i] = order[j] => i = j
    <2>1. IsFiniteSet(old)
      BY FS_Subset, FenceAssumption DEF Fences
    <2> QED
      BY <2>1, OrderNames
  <1>4. \A h \in old : /\ h \in HwIds /\ mGeofences[h] # NoFence /\ mGeofences[h].key \in Keys /\ mGeofences[h].key \in added
                       /\ mGeofences[h].paused \in BOOLEAN
    BY FenceItems, FenceAssumption DEF Fences, FenceInv, FenceTypes, AddedFirst
  <1>5. ASSUME NEW i \in DOMAIN order
        PROVE  /\ t[i] \in FenceRequest /\ t[i].key = mGeofences[order[i]].key
    <2>1. order[i] \in old
      BY <1>3
    <2>2. t[i] = [op |-> "readd", key |-> mGeofences[order[i]].key, hw |-> 0, ok |-> TRUE,
                  paused |-> mGeofences[order[i]].paused]
      BY DEF Readds, FMsg
    <2> QED
      BY <1>4, <2>1, <2>2, FenceOpNames DEF FenceRequest
  <1>6. t \in Seq(FenceRequest) /\ Range(t) = {t[i] : i \in DOMAIN order} /\ DOMAIN t = DOMAIN order
    <2> DEFINE n == Cardinality(old)
    <2>1. n \in Nat /\ DOMAIN t = 1 .. n /\ t = [i \in 1 .. n |-> t[i]] /\ \A i \in 1 .. n : t[i] \in FenceRequest
      BY <1>3, <1>5 DEF Readds
    <2>2. DOMAIN t = DOMAIN order
      BY DEF Readds
    <2>3. DOMAIN order = 1 .. n
      BY <1>3
    <2> HIDE DEF n, t
    <2> QED
      BY <2>1, <2>2, <2>3, ListedQueue
  <1> HIDE DEF t, old
  <1>7. OnceIn(t, goneClients)
    <2> SUFFICES ASSUME NEW i \in DOMAIN order, NEW j \in DOMAIN order, Live(t[i].key, goneClients), t[i].key = t[j].key
                 PROVE  i = j
      BY <1>6 DEF OnceIn
    <2>1. order[i] \in old /\ order[j] \in old
      BY <1>3
    <2>2. mGeofenceIds[t[i].key] = order[i] /\ mGeofenceIds[t[j].key] = order[j]
      BY <1>4, <1>5, <2>1 DEF FenceInv, KnownByKey
    <2> QED
      BY <1>3, <2>2
  <1>8. \A n \in Range(fenceMsgs) \cup Range(requested), r \in Range(t) :
          Adds(n) /\ Live(n.key, goneClients) => n.key # r.key
    <2> SUFFICES ASSUME NEW n \in Range(fenceMsgs) \cup Range(requested), NEW i \in DOMAIN order,
                        Adds(n), Live(n.key, goneClients)
                 PROVE  n.key # t[i].key
      BY <1>6
    <2>1. order[i] \in HwIds
      BY <1>3, <1>4
    <2> QED
      BY <1>5, <2>1 DEF FenceInv, AddedFirst, MayAdd
  <1>9. Reads(t)
    <2>1. Updates(m)
      BY <1>2 DEF Updates, Touches, Saves, NoFence
    <2>2. Request(t)
      BY <1>1 DEF t
    <2> QED
      BY <1>2, <1>6, <2>1, <2>2, ReadsState
  <1>10. /\ FenceTypes' /\ GrantsNumbered' /\ ModemHeard' /\ (~up => Fences(modem) = {})'
         /\ Range(fenceMsgs)' \subseteq Range(fenceMsgs) /\ Range(requested)' = Range(requested) \cup Range(t)
    BY <1>9, ReadHeard
  <1>11. fenceMsgs \in Seq(FenceMsg) /\ fenceMsgs # <<>> /\ fenceMsgs' = Tail(fenceMsgs)
         /\ UNCHANGED <<added, goneClients>> /\ requested \in Seq(FenceRequest) /\ requested' = requested \o t
    BY <1>9 DEF FenceInv, FenceTypes, Reads
  <1>12. OnceIn(fenceMsgs', goneClients)
    BY <1>11, OnceTail DEF FenceInv, AddedOnce
  <1>13. OnceIn(requested', goneClients)
    <2>1. ApartIn(requested, t, goneClients)
      BY <1>8 DEF ApartIn
    <2> QED
      BY <1>6, <1>7, <1>11, <2>1, OnceJoin DEF FenceInv, AddedOnce
  <1>14. ApartIn(fenceMsgs', requested', goneClients)
    BY <1>8, <1>10 DEF FenceInv, AddedOnce, ApartIn
  <1>15. AddedFirst'
    <2>1. \A n \in Range(fenceMsgs') \cup Range(requested') : Adds(n) => n.key \in added /\ n.key # Null
      <3>1. \A n \in Range(fenceMsgs) \cup Range(requested) : Adds(n) => n.key \in added /\ n.key # Null
        BY FenceAssumption DEF FenceInv, AddedFirst, MayAdd, FenceTypes
      <3>2. \A n \in Range(t) : n.key \in added /\ n.key # Null
        BY <1>3, <1>4, <1>5, <1>6, FenceAssumption
      <3> QED
        BY <1>10, <3>1, <3>2
    <2> QED
      BY <1>2, <1>11, <2>1 DEF AddedFirst, MayAdd, NoFence
  <1>16. KnownByKey'
    BY <1>2 DEF KnownByKey
  <1> QED
    BY <1>10, <1>11, <1>12, <1>13, <1>14, <1>15, <1>16 DEF FenceInv, AddedOnce

\* The adapter's thread.
LEMMA HandleKept ==
  ASSUME FenceInv, HandleFenceMsg
  PROVE  FenceInv'
  <1> DEFINE m == Head(fenceMsgs)
  <1>1. ReadFrame /\ Handle(m) /\ fenceMsgs # <<>> /\ UNCHANGED <<modemState, callerState>>
    BY DEF HandleFenceMsg, ReadFrame
  <1>2. m.op \in FenceOps \cup {"engineUp", "removeClient"}
    BY <1>1, HeadMessage
  <1>3. CASE m.op \in DOMAIN FenceCalls
    <2>1. ToCallQueue(m)
      BY <1>1, <1>3, FenceOpNames DEF Handle
    <2> QED
      BY <1>1, <1>3, <2>1, CallQueued
  <1>4. ASSUME m.op \notin DOMAIN FenceCalls PROVE FenceInv'
    <2>1. m.op = "add" => CallAdd(m)
      BY <1>1, <1>4 DEF Handle
    <2>2. m.op \in {"remove", "pause", "resume", "modify"} => CallOther(m)
      BY <1>1, <1>4 DEF Handle
    <2>3. m.op = "removeClient" => stopClientSessions(m)
      BY <1>1, <1>4 DEF Handle
    <2>4. m.op = "addDone" => RespondAdd(m)
      BY <1>1, <1>4 DEF Handle
    <2>5. m.op = "readdDone" => RespondReadd(m)
      BY <1>1, <1>4 DEF Handle
    <2>6. m.op = "removeDone" => removeGeofenceItem(m)
      BY <1>1, <1>4 DEF Handle
    <2>7. m.op = "pauseDone" => SetItem(m, [mGeofences[m.hw] EXCEPT !.paused = TRUE])
      BY <1>1, <1>4 DEF Handle, pauseGeofenceItem
    <2>8. m.op = "resumeDone" => SetItem(m, [mGeofences[m.hw] EXCEPT !.paused = FALSE])
      BY <1>1, <1>4 DEF Handle, resumeGeofenceItem
    <2>9. m.op \in {"modifyDone", "breach", "pauseAgainDone"} => KeepFence(m)
      BY <1>1, <1>4 DEF Handle, modifyGeofenceItem, geofenceBreach
    <2>10. m.op = "removeOfClientDone" => RespondRemoveOfClient(m)
      BY <1>1, <1>4 DEF Handle
    <2>11. m.op = "engineUp" => restartGeofences
      BY <1>1, <1>4 DEF Handle
    <2>12. m.op \in {"modifyDone", "breach", "pauseAgainDone"} => \A h \in HwIds : ~Saves(m, h)
      BY DEF Saves
    <2>13. m.op \in {"pauseDone", "resumeDone"} => FenceInv'
      BY <1>1, <2>7, <2>8, ItemSet
    <2>14. m.op \in {"modifyDone", "breach", "pauseAgainDone"} => FenceInv'
      BY <1>1, <2>9, <2>12, KeptFence
    <2>15. m.op \in {"removeDone", "removeOfClientDone", "engineUp", "removeClient"} => FenceInv'
      BY <1>1, <2>3, <2>6, <2>10, <2>11, RemovedKept, RemovedOfClientKept, RestartKept, StoppedKept
    <2>16. m.op \in {"add", "addDone", "readdDone", "remove", "pause", "resume", "modify"} => FenceInv'
      BY <1>1, <2>1, <2>2, <2>4, <2>5, CallAddKept, CallOtherKept, RespondAddKept, RespondReaddKept
    <2>17. m.op \in {"add", "remove", "pause", "resume", "modify", "breach", "engineUp", "removeClient"} \cup DoneOps
      BY <1>2, <1>4, FenceOpSets, FenceOpNames
    <2> QED
      BY <2>13, <2>14, <2>15, <2>16, <2>17 DEF DoneOps
  <1> QED
    BY <1>3, <1>4

\* Clients, the engine and a modem that comes up add a message at the end.
LEMMA PostKept ==
  ASSUME FenceInv, NEW e \in FenceMsg, Post(e), UNCHANGED <<fenceState, requested, modem>>,
         added \subseteq added', added' \subseteq Keys, goneClients \subseteq goneClients',
         \A h \in Fences(modem) : ~Touches(e, h), up' \/ ~up,
         Adds(e) => e.key \notin added /\ e.key \in added',
         e.op = "removeClient" => e.key[1] \in goneClients', e.op \notin DoneOps
  PROVE  FenceInv'
  <1> DEFINE t == <<e>>
  <1>1. /\ fenceMsgs \in Seq(FenceMsg) /\ requested \in Seq(FenceRequest)
    BY DEF FenceInv, FenceTypes
  <1>2. /\ fenceMsgs' = fenceMsgs \o t /\ t \in Seq(FenceMsg) /\ Range(t) = {e} /\ OnceIn(t, goneClients)
        /\ Range(fenceMsgs') = Range(fenceMsgs) \cup {e}
    BY <1>1, OnePosted, OnceOne DEF Post
  <1> HIDE DEF t
  <1>3. UNCHANGED <<mGeofences, mGeofenceIds, requested, modem>>
    BY DEF fenceState
  <1>4. Adds(e) => \A n \in Range(fenceMsgs) \cup Range(requested) : Adds(n) => n.key # e.key
    BY DEF FenceInv, AddedFirst, MayAdd
  <1>5. AddedOnce'
    <2>1. ApartIn(fenceMsgs, t, goneClients)
      BY <1>2, <1>4 DEF ApartIn
    <2>2. OnceIn(fenceMsgs', goneClients)
      BY <1>1, <1>2, <2>1, OnceJoin DEF FenceInv, AddedOnce
    <2>3. ApartIn(fenceMsgs', requested, goneClients)
      BY <1>2, <1>4 DEF FenceInv, AddedOnce, ApartIn
    <2>4. OnceIn(requested, goneClients)
      BY DEF FenceInv, AddedOnce
    <2>5. OnceIn(fenceMsgs', goneClients') /\ OnceIn(requested, goneClients') /\ ApartIn(fenceMsgs', requested, goneClients')
      BY <2>2, <2>3, <2>4, OnceGone
    <2> QED
      BY <1>3, <2>5 DEF AddedOnce
  <1>6. AddedFirst'
    <2>1. \A k : Live(k, goneClients') => Live(k, goneClients)
      BY DEF Live
    <2>2. \A n \in Range(fenceMsgs) \cup Range(requested) : MayAdd(n)'
      BY <1>3, <2>1 DEF FenceInv, AddedFirst, MayAdd
    <2>3. MayAdd(e)'
      <3>1. Adds(e) => \A h \in HwIds : mGeofences[h].key # e.key
        BY FenceAssumption DEF FenceInv, AddedFirst
      <3> QED
        BY <1>3, <3>1 DEF MayAdd
    <2> QED
      BY <1>2, <1>3, <2>2, <2>3 DEF FenceInv, AddedFirst
  <1>7. KnownByKey'
    BY <1>3 DEF FenceInv, KnownByKey, Live
  <1>8. FenceTypes'
    <2>1. fenceMsgs' \in Seq(FenceMsg)
      BY <1>1, <1>2, JoinKeeps
    <2>2. \A n \in Range(fenceMsgs') : n.op = "removeClient" => n.key[1] \in goneClients'
      BY <1>2 DEF FenceInv, FenceTypes
    <2> QED
      BY <1>3, <2>1, <2>2 DEF FenceInv, FenceTypes
  <1>9. GrantsNumbered'
    BY <1>2, FenceOpSets DEF FenceInv, GrantsNumbered
  <1>10. ModemHeard'
    <2> SUFFICES ASSUME NEW h \in Fences(modem)
                 PROVE  HeardIn(fenceMsgs', mGeofences[h].key, modem[h].key, h)
      BY <1>3 DEF ModemHeard, Fences
    <2>1. HeardIn(fenceMsgs, mGeofences[h].key, modem[h].key, h)
      BY DEF FenceInv, ModemHeard
    <2> QED
      BY <1>1, <1>2, <2>1, HeardJoin
  <1>11. (~up => Fences(modem) = {})'
    BY <1>3 DEF FenceInv, Fences
  <1> QED
    BY <1>5, <1>6, <1>7, <1>8, <1>9, <1>10, <1>11 DEF FenceInv

LEMMA CallersKept ==
  ASSUME FenceInv, FenceCallers(Keys)
  PROVE  FenceInv'
  <1>1. added \subseteq Keys /\ modem \in [HwIds -> FenceItem]
    BY DEF FenceInv, FenceTypes
  <1>2. ASSUME NEW op \in DOMAIN FenceCalls, NEW k \in Keys
        PROVE  /\ FMsg(op, k, 0) \in FenceMsg /\ FMsg(op, k, 0).op = op /\ FMsg(op, k, 0).key = k
               /\ op \notin DoneOps /\ op # "removeClient" /\ \A h : ~Touches(FMsg(op, k, 0), h)
    BY FenceOpNames, FenceOpSets DEF FMsg, FenceMsg, Touches, Saves, DoneOps
  <1>3. ASSUME NEW k \in Keys, addGeofencesCommand(k) PROVE FenceInv'
    <2> DEFINE e == FMsg("cmdAdd", k, 0)
    <2>1. /\ Post(e) /\ UNCHANGED <<fenceState, requested, modem, goneClients, up>> /\ k \notin added
          /\ added' = added \cup {k}
      BY <1>3 DEF addGeofencesCommand, modemState
    <2>2. /\ e \in FenceMsg /\ e.op = "cmdAdd" /\ e.key = k /\ e.op \notin DoneOps /\ \A h : ~Touches(e, h)
      BY <1>2, FenceOpNames
    <2> HIDE DEF e
    <2> QED
      BY <1>1, <2>1, <2>2, PostKept
  <1>4. ASSUME NEW k \in Keys, NEW op \in DOMAIN FenceCalls \ {"cmdAdd"}, FenceCommand(op, k) PROVE FenceInv'
    <2> DEFINE e == FMsg(op, k, 0)
    <2>1. /\ Post(e) /\ UNCHANGED <<fenceState, requested, modem, goneClients, up, added>>
      BY <1>4 DEF FenceCommand, modemState, callerState
    <2>2. /\ e \in FenceMsg /\ e.op # "removeClient" /\ e.op \notin DoneOps /\ \A h : ~Touches(e, h) /\ e.op = op
      BY <1>2
    <2>3. ~Adds(e)
      BY <2>2, FenceOpNames DEF Adds
    <2> HIDE DEF e
    <2> QED
      BY <1>1, <2>1, <2>2, <2>3, PostKept
  <1>5. ASSUME NEW k \in Keys, removeClientCommand(k[1]) PROVE FenceInv'
    <2> DEFINE e == FMsg("removeClient", <<k[1], 0>>, 0)
    <2>1. /\ Post(e) /\ UNCHANGED <<fenceState, requested, modem, up, added>>
          /\ goneClients' = goneClients \cup {k[1]}
      BY <1>5 DEF removeClientCommand, modemState
    <2>2. /\ e \in FenceMsg /\ e.op = "removeClient" /\ e.key = <<k[1], 0>>
      BY DEF FMsg, FenceMsg
    <2>3. e.op \notin DoneOps /\ ~Adds(e) /\ (\A h : ~Touches(e, h)) /\ e.key[1] = k[1]
      BY <2>2 DEF Adds, Touches, Saves, DoneOps
    <2> HIDE DEF e
    <2> QED
      BY <1>1, <2>1, <2>2, <2>3, PostKept
  <1>6. ASSUME NEW h \in HwIds, ModemBreach(h) PROVE FenceInv'
    <2> DEFINE e == FMsg("breach", modem[h].key, h)
    <2>1. /\ Post(e) /\ UNCHANGED <<fenceState, requested, modem, up, added, goneClients>> /\ h \in Fences(modem)
      BY <1>6 DEF ModemBreach, modemState, callerState
    <2>2. modem[h].key \in Keys
      BY <1>1, <2>1, FenceItems DEF Fences
    <2>3. e \in FenceMsg /\ e.op = "breach"
      BY <2>2, FenceOpSets DEF FMsg, FenceMsg
    <2>4. e.op \notin DoneOps /\ ~Adds(e) /\ \A g : ~Touches(e, g)
      BY <2>3 DEF Adds, Touches, Saves, DoneOps
    <2> HIDE DEF e
    <2> QED
      BY <1>1, <2>1, <2>3, <2>4, PostKept
  <1>7. {"cmdRemove", "cmdPause", "cmdResume", "cmdModify"} \subseteq DOMAIN FenceCalls \ {"cmdAdd"}
    BY FenceOpNames
  <1> QED
    BY <1>3, <1>4, <1>5, <1>6, <1>7 DEF FenceCallers, removeGeofencesCommand, pauseGeofencesCommand,
       resumeGeofencesCommand, modifyGeofencesCommand

LEMMA UpKept ==
  ASSUME FenceInv, ModemUp
  PROVE  FenceInv'
  <1> DEFINE e == FMsg("engineUp", Null, 0)
  <1>1. /\ Post(e) /\ UNCHANGED <<fenceState, requested, modem, added, goneClients>> /\ ~up
    BY DEF ModemUp, callerState
  <1>2. e \in FenceMsg /\ e.op = "engineUp"
    BY DEF FMsg, FenceMsg
  <1>3. e.op \notin DoneOps /\ ~Adds(e)
    BY <1>2 DEF Adds, DoneOps
  <1>4. Fences(modem) = {} /\ added \subseteq Keys
    BY <1>1 DEF FenceInv, FenceTypes
  <1> HIDE DEF e
  <1> QED
    BY <1>1, <1>2, <1>3, <1>4, PostKept

\* The number the modem gives is a free one.
LEMMA LeastFree ==
  ASSUME NEW S \in SUBSET HwIds, S # {}
  PROVE  LeastOf(S) \in S
  <1>1. S \in SUBSET Nat
    BY FenceAssumption
  <1>2. PICK x \in S : \A y \in S : ~ (<<y, x>> \in OpToRel(<, Nat))
    BY <1>1, NatLessThanWellFounded, WFMin, Zenon
  <1>3. \A y \in S : ~(y < x)
    BY <1>1, <1>2 DEF OpToRel
  <1>4. \A y \in S : x <= y
    BY <1>1, <1>3
  <1> QED
    BY <1>4 DEF LeastOf

LEMMA ResponseIs ==
  ASSUME NEW r \in FenceRequest, NEW hw \in HwIds \cup {0}, NEW ok \in BOOLEAN
  PROVE  Response(r, hw, ok) = [op |-> Done[r.op], key |-> r.key, hw |-> hw, ok |-> ok, paused |-> r.paused]
  <1> DEFINE a == [r EXCEPT !.op = Done[r.op]]
             b == [a EXCEPT !.hw = hw]
  <1>1. a = [op |-> Done[r.op], key |-> r.key, hw |-> r.hw, ok |-> r.ok, paused |-> r.paused]
    BY DEF FenceRequest
  <1>2. Response(r, hw, ok) = [b EXCEPT !.ok = ok]
    BY DEF Response
  <1> HIDE DEF a
  <1>3. b = [op |-> Done[r.op], key |-> r.key, hw |-> hw, ok |-> r.ok, paused |-> r.paused]
    BY <1>1
  <1> HIDE DEF b
  <1> QED
    BY <1>2, <1>3

\* What the modem answers, and what it then has.
LEMMA ServedOne ==
  ASSUME FenceInv, NEW r \in FenceRequest, NEW ok \in BOOLEAN, ServeOne(r, ok)
  PROVE  \E e \in FenceMsg :
           /\ Post(e) /\ e.op \in DoneOps /\ e.key = r.key /\ e.ok = ok /\ (ok => e.hw \in HwIds /\ up)
           /\ Adds(e) => Adds(r)
           /\ modem' \in [HwIds -> FenceItem] /\ (~ok => modem' = modem)
           /\ \A h \in HwIds :
                \/ Saves(e, h) /\ modem'[h].key = e.key
                \/ ~Saves(e, h) /\ modem'[h] = NoFence
                \/ ~Touches(e, h) /\ modem'[h].key = modem[h].key /\ (modem'[h] # NoFence => modem[h] # NoFence)
  <1> DEFINE adds == r.op \in {"add", "readd"}
             hw == IF adds /\ Free # {} THEN LeastOf(Free) ELSE r.hw
             e == Response(r, hw, ok)
  <1>1. /\ r = [op |-> r.op, key |-> r.key, hw |-> r.hw, ok |-> r.ok, paused |-> r.paused]
        /\ r.op \in DOMAIN Done /\ r.key \in Keys /\ r.hw \in HwIds \cup {0} /\ r.paused \in BOOLEAN
    BY DEF FenceRequest
  <1>2. /\ ok => up /\ (IF adds THEN Free # {} ELSE hw \in Fences(modem))
        /\ Post(e)
        /\ modem' = IF ~ok THEN modem
                    ELSE CASE adds -> [modem EXCEPT ![hw] = [key |-> r.key, paused |-> FALSE]]
                           [] r.op \in {"remove", "removeOfClient"} -> [modem EXCEPT ![hw] = NoFence]
                           [] r.op \in {"pause", "pauseAgain"} -> [modem EXCEPT ![hw].paused = TRUE]
                           [] r.op = "resume" -> [modem EXCEPT ![hw].paused = FALSE]
                           [] r.op = "modify" -> modem
    BY DEF ServeOne
  <1>3. Free # {} => LeastOf(Free) \in Free
    BY LeastFree DEF Free
  <1>4. hw \in HwIds \cup {0} /\ (ok => hw \in HwIds)
    <2>1. Free \subseteq HwIds /\ Fences(modem) \subseteq HwIds
      BY DEF Free, Fences
    <2>2. CASE adds /\ Free # {}
      <3>1. hw = LeastOf(Free)
        BY <2>2
      <3> QED
        BY <1>3, <2>1, <2>2, <3>1
    <2>3. CASE ~(adds /\ Free # {})
      <3>1. hw = r.hw
        BY <2>3
      <3>2. ok => hw \in Fences(modem)
        BY <1>2, <2>3
      <3> HIDE DEF hw
      <3> QED
        BY <1>1, <2>1, <3>1, <3>2
    <2> QED
      BY <2>2, <2>3
  <1> HIDE DEF hw
  <1>5. e = [op |-> Done[r.op], key |-> r.key, hw |-> hw, ok |-> ok, paused |-> r.paused]
    BY <1>4, ResponseIs
  <1> HIDE DEF e
  <1>6. /\ e \in FenceMsg /\ e.op = Done[r.op] /\ e.op \in DoneOps /\ e.key = r.key /\ e.ok = ok /\ e.hw = hw
    <2>1. Done[r.op] \in DoneOps
      BY <1>1, FenceOpSets
    <2>2. Done[r.op] \in FenceOps
      BY <2>1, FenceOpSets
    <2> QED
      BY <1>1, <1>4, <1>5, <2>1, <2>2 DEF FenceMsg
  <1>7. /\ e.op = "addDone" <=> r.op = "add"
        /\ e.op = "readdDone" <=> r.op = "readd"
        /\ e.op = "removeDone" <=> r.op = "remove"
        /\ e.op = "removeOfClientDone" <=> r.op = "removeOfClient"
        /\ e.op # "engineUp"
    BY <1>1, <1>6, FenceOpNames
  <1>8. Adds(e) => Adds(r)
    BY <1>6, <1>7 DEF Adds, DoneOps
  <1>9. modem \in [HwIds -> FenceItem]
    BY DEF FenceInv, FenceTypes
  <1> DEFINE Had(h) == \/ Saves(e, h) /\ modem'[h].key = e.key
                       \/ ~Saves(e, h) /\ modem'[h] = NoFence
                       \/ ~Touches(e, h) /\ modem'[h].key = modem[h].key /\ (modem'[h] # NoFence => modem[h] # NoFence)
             Has == modem' \in [HwIds -> FenceItem] /\ (~ok => modem' = modem) /\ \A h \in HwIds : Had(h)
  <1>10. ASSUME ~ok PROVE Has
    <2>1. modem' = modem /\ \A h \in HwIds : ~Touches(e, h)
      BY <1>2, <1>6, <1>7, <1>10 DEF Touches, Saves
    <2> QED
      BY <1>9, <1>10, <2>1
  <1>11. ASSUME ok, adds PROVE Has
    <2> DEFINE item == [key |-> r.key, paused |-> FALSE]
    <2>1. modem' = [modem EXCEPT ![hw] = item] /\ hw \in HwIds
      BY <1>2, <1>4, <1>11
    <2>2. item \in FenceItem /\ item.key = e.key
      BY <1>1, <1>6 DEF FenceItem
    <2> HIDE DEF item
    <2>3. modem' \in [HwIds -> FenceItem] /\ modem'[hw] = item /\ \A h \in HwIds : h # hw => modem'[h] = modem[h]
      BY <1>9, <2>1, <2>2
    <2>4. \A h \in HwIds : (Saves(e, h) <=> h = hw) /\ (Touches(e, h) => h = hw)
      BY <1>6, <1>7, <1>11 DEF Touches, Saves
    <2>5. \A h \in HwIds : Had(h)
      <3> SUFFICES ASSUME NEW h \in HwIds PROVE Had(h)
        OBVIOUS
      <3>1. CASE h = hw
        BY <2>2, <2>3, <2>4, <3>1
      <3>2. CASE h # hw
        BY <2>3, <2>4, <3>2
      <3> QED
        BY <3>1, <3>2
    <2> QED
      BY <1>11, <2>3, <2>5
  <1>12. ASSUME ok, r.op \in {"remove", "removeOfClient"} PROVE Has
    <2>1. modem' = [modem EXCEPT ![hw] = NoFence] /\ hw \in HwIds
      BY <1>2, <1>4, <1>12
    <2>2. modem' \in [HwIds -> FenceItem] /\ modem'[hw] = NoFence /\ \A h \in HwIds : h # hw => modem'[h] = modem[h]
      BY <1>9, <2>1 DEF FenceItem
    <2>3. \A h \in HwIds : ~Saves(e, h) /\ (Touches(e, h) => h = hw)
      BY <1>6, <1>7, <1>12 DEF Touches, Saves
    <2> QED
      BY <1>12, <2>2, <2>3
  <1>13. ASSUME ok, r.op \in {"pause", "pauseAgain", "resume", "modify"} PROVE Has
    <2>1. PICK p \in BOOLEAN : modem' = [modem EXCEPT ![hw].paused = p] \/ modem' = modem
      <3>1. modem' = [modem EXCEPT ![hw].paused = TRUE] \/ modem' = [modem EXCEPT ![hw].paused = FALSE] \/ modem' = modem
        BY <1>2, <1>13
      <3> QED
        BY <3>1
    <2>2. hw \in HwIds /\ modem[hw] # NoFence /\ modem[hw] \in FenceItem
      BY <1>2, <1>9, <1>13 DEF Fences
    <2> DEFINE item == [modem[hw] EXCEPT !.paused = p]
    <2>3. item \in FenceItem /\ item.key = modem[hw].key
      BY <2>2, FenceItems DEF FenceItem, NoFence
    <2>4. modem' = [modem EXCEPT ![hw] = item] \/ modem' = modem
      BY <2>1
    <2> HIDE DEF item
    <2>5. modem' \in [HwIds -> FenceItem] /\ \A h \in HwIds : modem'[h].key = modem[h].key /\ (h # hw => modem'[h] = modem[h])
      BY <1>9, <2>2, <2>3, <2>4
    <2>6. \A h \in HwIds : ~Touches(e, h)
      BY <1>6, <1>7, <1>13 DEF Touches, Saves
    <2>7. \A h \in HwIds : Had(h)
      BY <2>2, <2>5, <2>6
    <2> QED
      BY <1>13, <2>5, <2>7
  <1>14. Has
    BY <1>1, <1>10, <1>11, <1>12, <1>13, FenceOpNames
  <1>15. Post(e) /\ (ok => e.hw \in HwIds /\ up)
    BY <1>2, <1>4, <1>6 DEF e
  <1> QED
    BY <1>6, <1>8, <1>14, <1>15

LEMMA ServesKept ==
  ASSUME FenceInv, ModemServes
  PROVE  FenceInv'
  <1> DEFINE r == Head(requested)
  <1>1. /\ requested # <<>> /\ requested' = Tail(requested)
        /\ UNCHANGED <<mGeofences, mGeofenceIds, up, added, goneClients>>
    BY DEF ModemServes, fenceState, callerState
  <1>2. PICK ok \in BOOLEAN : ServeOne(r, ok)
    BY DEF ModemServes
  <1>3. fenceMsgs \in Seq(FenceMsg) /\ requested \in Seq(FenceRequest) /\ modem \in [HwIds -> FenceItem]
    BY DEF FenceInv, FenceTypes
  <1>4. r \in FenceRequest /\ r \in Range(requested) /\ requested' \in Seq(FenceRequest)
        /\ Range(requested') \subseteq Range(requested) /\ OnceIn(requested', goneClients)
        /\ \A n \in Range(requested') : Adds(n) /\ Adds(r) /\ Live(n.key, goneClients) => n.key # r.key
    BY <1>1, <1>3, TailKeeps, OnceTail DEF FenceInv, AddedOnce
  <1>5. PICK e \in FenceMsg :
           /\ Post(e) /\ e.op \in DoneOps /\ e.key = r.key /\ e.ok = ok /\ (ok => e.hw \in HwIds /\ up)
           /\ Adds(e) => Adds(r)
           /\ modem' \in [HwIds -> FenceItem] /\ (~ok => modem' = modem)
           /\ \A h \in HwIds :
                \/ Saves(e, h) /\ modem'[h].key = e.key
                \/ ~Saves(e, h) /\ modem'[h] = NoFence
                \/ ~Touches(e, h) /\ modem'[h].key = modem[h].key /\ (modem'[h] # NoFence => modem[h] # NoFence)
    <2> HIDE DEF r
    <2> QED
      BY <1>2, <1>4, ServedOne
  <1> DEFINE t == <<e>>
  <1>6. /\ fenceMsgs' = fenceMsgs \o t /\ t \in Seq(FenceMsg) /\ Range(t) = {e} /\ OnceIn(t, goneClients)
        /\ Range(fenceMsgs') = Range(fenceMsgs) \cup {e} /\ DOMAIN t = {1} /\ t[1] = e
    BY <1>3, <1>5, OnePosted, OnceOne DEF Post
  <1> HIDE DEF t, r
  <1>7. AddedOnce'
    <2>1. \A n \in Range(fenceMsgs) : Adds(n) /\ Adds(r) /\ Live(n.key, goneClients) => n.key # r.key
      BY <1>4 DEF FenceInv, AddedOnce, ApartIn
    <2>2. ApartIn(fenceMsgs, t, goneClients)
      BY <1>5, <1>6, <2>1 DEF ApartIn
    <2>3. OnceIn(fenceMsgs', goneClients)
      BY <1>3, <1>6, <2>2, OnceJoin DEF FenceInv, AddedOnce
    <2>4. \A n \in Range(requested') : Adds(n) /\ Adds(e) /\ Live(e.key, goneClients) => e.key # n.key
      BY <1>4, <1>5
    <2>5. ApartIn(fenceMsgs', requested', goneClients)
      BY <1>4, <1>6, <2>4 DEF FenceInv, AddedOnce, ApartIn
    <2> QED
      BY <1>1, <1>4, <2>3, <2>5 DEF AddedOnce
  <1>8. AddedFirst'
    <2>1. MayAdd(r)
      BY <1>4 DEF FenceInv, AddedFirst
    <2>2. MayAdd(e)'
      BY <1>1, <1>5, <2>1 DEF MayAdd
    <2>3. \A n \in Range(fenceMsgs) \cup Range(requested) : MayAdd(n)'
      BY <1>1 DEF FenceInv, AddedFirst, MayAdd
    <2> QED
      BY <1>1, <1>4, <1>6, <2>2, <2>3 DEF FenceInv, AddedFirst
  <1>9. KnownByKey'
    BY <1>1 DEF FenceInv, KnownByKey
  <1>10. FenceTypes'
    <2>1. fenceMsgs' \in Seq(FenceMsg)
      BY <1>3, <1>6, JoinKeeps
    <2>2. \A n \in Range(fenceMsgs') : n.op = "removeClient" => n.key[1] \in goneClients
      BY <1>5, <1>6 DEF FenceInv, FenceTypes, DoneOps
    <2> QED
      BY <1>1, <1>4, <1>5, <2>1, <2>2 DEF FenceInv, FenceTypes
  <1>11. GrantsNumbered'
    BY <1>5, <1>6, FenceOpSets DEF FenceInv, GrantsNumbered
  <1>12. ModemHeard'
    <2> SUFFICES ASSUME NEW h \in HwIds, modem'[h] # NoFence
                 PROVE  HeardIn(fenceMsgs', mGeofences[h].key, modem'[h].key, h)
      BY <1>1 DEF ModemHeard, Fences
    <2>1. CASE Saves(e, h) /\ modem'[h].key = e.key
      <3> DEFINE n == Len(fenceMsgs) + 1
      <3>1. n \in DOMAIN fenceMsgs' /\ fenceMsgs'[n] = e /\ \A j \in DOMAIN fenceMsgs' : ~(j > n)
        <4>1. fenceMsgs' = Append(fenceMsgs, e)
          BY <1>5 DEF Post
        <4> QED
          BY <1>3, <4>1
      <3> HIDE DEF n
      <3> QED
        BY <2>1, <3>1 DEF HeardIn
    <2>2. CASE ~Touches(e, h) /\ modem'[h].key = modem[h].key /\ modem[h] # NoFence
      <3>1. HeardIn(fenceMsgs, mGeofences[h].key, modem[h].key, h)
        BY <2>2 DEF FenceInv, ModemHeard, Fences
      <3>2. \A n \in Range(t) : ~Touches(n, h)
        BY <1>6, <2>2
      <3>3. HeardIn(fenceMsgs \o t, mGeofences[h].key, modem[h].key, h)
        BY <1>3, <1>6, <3>1, <3>2, HeardJoin
      <3> QED
        BY <1>6, <2>2, <3>3
    <2> QED
      BY <1>5, <2>1, <2>2
  <1>13. (~up => Fences(modem) = {})'
    BY <1>1, <1>5 DEF FenceInv, Fences
  <1> QED
    BY <1>7, <1>8, <1>9, <1>10, <1>11, <1>12, <1>13 DEF FenceInv

\* A crash: the modem has forgotten all fences and refuses what it was asked.
LEMMA CrashKept ==
  ASSUME FenceInv, ModemCrash
  PROVE  FenceInv'
  <1> DEFINE t == [i \in DOMAIN requested |-> Response(requested[i], requested[i].hw, FALSE)]
  <1>1. /\ fenceMsgs' = fenceMsgs \o t /\ requested' = <<>> /\ modem' = [h \in HwIds |-> NoFence]
        /\ UNCHANGED <<mGeofences, mGeofenceIds, added, goneClients>>
    BY DEF ModemCrash, fenceState, callerState
  <1>2. fenceMsgs \in Seq(FenceMsg) /\ requested \in Seq(FenceRequest)
    BY DEF FenceInv, FenceTypes
  <1>3. ASSUME NEW i \in DOMAIN requested
        PROVE  t[i] \in FenceMsg /\ t[i].op # "removeClient" /\ ~t[i].ok /\ ~Adds(t[i])
    <2> DEFINE r == requested[i]
    <2>1. /\ r \in FenceRequest
      BY <1>2
    <2>2. t[i] = [op |-> Done[r.op], key |-> r.key, hw |-> r.hw, ok |-> FALSE, paused |-> r.paused]
      BY <2>1 DEF Response, FenceRequest
    <2>3. Done[r.op] \in DoneOps /\ Done[r.op] \in FenceOps
      BY <2>1, FenceOpSets DEF FenceRequest
    <2> HIDE DEF t
    <2> QED
      BY <2>1, <2>2, <2>3 DEF FenceRequest, FenceMsg, DoneOps, Adds
  <1>4. t \in Seq(FenceMsg) /\ Range(t) = {t[i] : i \in DOMAIN requested}
    <2> DEFINE n == Len(requested)
    <2>1. n \in Nat /\ DOMAIN requested = 1 .. n
      BY <1>2
    <2>2. DOMAIN t = 1 .. n /\ t = [i \in 1 .. n |-> t[i]] /\ \A i \in 1 .. n : t[i] \in FenceMsg
      BY <1>3, <2>1
    <2> HIDE DEF n, t
    <2> QED
      BY <2>1, <2>2, ListedQueue
  <1> HIDE DEF t
  <1>5. \A m \in Range(t) : ~Adds(m) /\ m.op # "removeClient" /\ ~m.ok
    BY <1>3, <1>4
  <1>6. fenceMsgs' \in Seq(FenceMsg) /\ Range(fenceMsgs') = Range(fenceMsgs) \cup Range(t)
    BY <1>1, <1>2, <1>4, JoinKeeps
  <1>7. AddedOnce'
    <2>1. OnceIn(fenceMsgs', goneClients)
      BY <1>1, <1>2, <1>4, <1>5, OnceQuiet, OnceJoin DEF FenceInv, AddedOnce
    <2>2. Range(requested') = {}
      BY <1>1 DEF Range
    <2>3. OnceIn(requested', goneClients)
      BY <1>1 DEF OnceIn
    <2>4. ApartIn(fenceMsgs', requested', goneClients)
      BY <2>2 DEF ApartIn
    <2> QED
      BY <1>1, <2>1, <2>3, <2>4 DEF AddedOnce
  <1>8. AddedFirst'
    <2>1. Range(requested') = {}
      BY <1>1 DEF Range
    <2> QED
      BY <1>1, <1>5, <1>6, <2>1 DEF FenceInv, AddedFirst, MayAdd
  <1>9. KnownByKey' /\ GrantsNumbered'
    BY <1>1, <1>5, <1>6 DEF FenceInv, KnownByKey, GrantsNumbered
  <1>10. FenceTypes'
    <2>1. modem' \in [HwIds -> FenceItem]
      BY <1>1 DEF FenceItem
    <2> QED
      BY <1>1, <1>5, <1>6, <2>1 DEF FenceInv, FenceTypes
  <1>11. Fences(modem)' = {}
    BY <1>1 DEF Fences
  <1> QED
    BY <1>7, <1>8, <1>9, <1>10, <1>11 DEF FenceInv, ModemHeard

LEMMA FenceInvStep == FenceInv /\ [GeofenceNext]_fenceVars => FenceInv'
  <1> SUFFICES ASSUME FenceInv, [GeofenceNext]_fenceVars PROVE FenceInv'
    OBVIOUS
  <1>1. CASE UNCHANGED fenceVars
    BY <1>1 DEF fenceVars, fenceState, modemState, callerState, FenceInv, FenceTypes, GrantsNumbered, AddedOnce,
      AddedFirst, MayAdd, KnownByKey, ModemHeard, Fences
  <1>2. CASE FenceCallers(Keys)
    BY <1>2, CallersKept
  <1>3. CASE FenceServed
    BY <1>3, HandleKept, ServesKept, CrashKept, UpKept DEF FenceServed
  <1> QED
    BY <1>1, <1>2, <1>3 DEF GeofenceNext

\* With nothing under way the adapter knows every fence of the modem by its number,
\* and that of a client still there by its key, whatever was refused and however
\* often the modem crashed.
THEOREM FencesAgree == FenceSpec => []ModemAgrees
  <1>1. FenceInv => ModemAgrees
    <2> SUFFICES ASSUME FenceInv, Quiet, NEW h \in Fences(modem)
                 PROVE  /\ mGeofences[h].key = modem[h].key
                        /\ modem[h].key[1] \notin goneClients => mGeofenceIds[modem[h].key] = h
      BY DEF ModemAgrees
    <2>1. HeardIn(fenceMsgs, mGeofences[h].key, modem[h].key, h) /\ fenceMsgs = <<>>
      BY DEF FenceInv, ModemHeard, Quiet
    <2>2. mGeofences[h].key = modem[h].key
      BY <2>1 DEF HeardIn
    <2>3. modem[h] \in FenceItem /\ mGeofences[h] \in FenceItem /\ h \in HwIds /\ modem[h] # NoFence
      BY DEF Fences, FenceInv, FenceTypes
    <2>4. mGeofences[h] # NoFence
      BY <2>2, <2>3, FenceItems
    <2> QED
      BY <2>2, <2>3, <2>4 DEF FenceInv, KnownByKey, Live
  <1> QED
    BY <1>1, FenceInvInit, FenceInvStep, PTL DEF FenceSpec
-----------------------------------------------------------------------------
(* Batches.                                                                *)

BatchSpec == BatchInit /\ [][BatchNext]_batchVars

BatchOps == {"start", "update", "stop", "fetch", "addClient", "removeClient", "engineUp", "completed",
             "report", "startBatching", "stopBatching", "startTrip", "stopTrip", "queryTrip",
             "requeryTrip", "reStartTrip", "endTrip", "startAgain", "startTripAgain"}
SessionModes == Modes \cup {NoSession}
\* A message or request; what is to be stopped or updated is a session.
BatchMsg ==
  {m \in [op : BatchOps, id : Nat, mode : Modes, restart : BOOLEAN, ok : BOOLEAN, had : SessionModes] :
     m.op \in {"stop", "update"} => m.id \in BatchIds}

\* What a handler works on, and whether the event is registered if something counts.
HandlerState(st) ==
  /\ st \in [ss : [BatchIds -> SessionModes], ts : SUBSET Nat, full : BOOLEAN, rs : Seq(BatchMsg)]
  /\ IsFiniteSet(st.ts)
Counted(st) == {s \in BatchIds : st.ss[s] \notin {NoSession, "noAutoReport"}}
RegisteredIn(st) == st.full \/ (Counted(st) = {} /\ st.ts = {})

\* Only a stop that was refused, and that is excused, stands among the messages, and
\* only commands wait for the engine.
Stops(q, x) == \A i \in DOMAIN q : q[i].op = "stopBatching" /\ ~q[i].ok => x
Commands(q) == \A i \in DOMAIN q : q[i].op \in NeedsEngine

\* The event is registered while anything counts, not only when all is quiet, until
\* what is excused happens; and a stop that was refused is excused when it is answered.
BatchInv ==
  /\ mBatchingSessions \in [BatchIds -> SessionModes] /\ mTripSessions \in SUBSET Nat
  /\ IsFiniteSet(mTripSessions) /\ batchFull \in BOOLEAN /\ excused \in BOOLEAN
  /\ batchMsgs \in Seq(BatchMsg) /\ batchRequests \in Seq(BatchMsg) /\ pendingBatch \in Seq(BatchMsg)
  /\ Stops(batchMsgs, excused) /\ Commands(pendingBatch)
  /\ excused \/ RegisteredIn(Now)

LEMMA CountZero ==
  ASSUME NEW st, HandlerState(st)
  PROVE  /\ autoReportBatchingSessionsCount(st) \in Nat
         /\ autoReportBatchingSessionsCount(st) = 0 <=> Counted(st) = {} /\ st.ts = {}
  <1>1. IsFiniteSet(Counted(st))
    BY BatchAssumption, FS_Subset DEF Counted
  <1>2. IsFiniteSet(st.ts)
    BY DEF HandlerState
  <1>3. Cardinality(Counted(st)) \in Nat /\ Cardinality(st.ts) \in Nat
    BY <1>1, <1>2, FS_CardinalityType
  <1>4. (Cardinality(Counted(st)) = 0 <=> Counted(st) = {}) /\ (Cardinality(st.ts) = 0 <=> st.ts = {})
    BY <1>1, <1>2, FS_EmptySet
  <1>5. autoReportBatchingSessionsCount(st) = Cardinality(Counted(st)) + Cardinality(st.ts)
    BY DEF autoReportBatchingSessionsCount, Counted
  <1> QED
    BY <1>3, <1>4, <1>5

\* How the pieces of the handlers leave the state.
Keeps(st, r) == HandlerState(r) /\ (RegisteredIn(st) => RegisteredIn(r))
SameButRequests(st, r) == r.ss = st.ss /\ r.ts = st.ts /\ r.full = st.full

LEMMA SentKeeps ==
  ASSUME NEW st, HandlerState(st), NEW op \in BatchOps \ {"stop", "update"}, NEW s \in Nat, NEW mode \in Modes, NEW restart \in BOOLEAN
  PROVE  Keeps(st, Send(st, op, s, mode, restart)) /\ SameButRequests(st, Send(st, op, s, mode, restart))
  <1> DEFINE m == BMsg(op, s, mode, restart)
             rs == Append(st.rs, m)
  <1>1. m \in BatchMsg
    BY DEF BMsg, BatchMsg, SessionModes
  <1>2. rs \in Seq(BatchMsg)
    BY <1>1 DEF HandlerState
  <1>3. Send(st, op, s, mode, restart) = [st EXCEPT !.rs = rs]
    BY DEF Send
  <1> HIDE DEF m, rs
  <1> QED
    BY <1>2, <1>3 DEF Keeps, SameButRequests, HandlerState, RegisteredIn, Counted

\* Replacing one field.
LEMMA FullKeeps ==
  ASSUME NEW st, HandlerState(st), NEW f \in BOOLEAN
  PROVE  LET r == [st EXCEPT !.full = f]
         IN HandlerState(r) /\ r.full = f /\ r.ss = st.ss /\ r.ts = st.ts /\ Counted(r) = Counted(st)
  BY DEF HandlerState, Counted

LEMMA TripsOnly ==
  ASSUME NEW st, HandlerState(st), NEW T \in SUBSET Nat, IsFiniteSet(T)
  PROVE  LET r == [st EXCEPT !.ts = T]
         IN HandlerState(r) /\ r.ts = T /\ r.ss = st.ss /\ r.full = st.full /\ Counted(r) = Counted(st)
  BY DEF HandlerState, Counted

LEMMA SavedAs ==
  ASSUME NEW st, HandlerState(st), NEW s, NEW mode \in SessionModes
  PROVE  LET r == saveBatchingSession(st, s, mode)
         IN /\ HandlerState(r) /\ r.ts = st.ts /\ r.full = st.full
            /\ mode \in {NoSession, "noAutoReport"} => Counted(r) \subseteq Counted(st)
  <1> DEFINE ss == [st.ss EXCEPT ![s] = mode]
             r == [st EXCEPT !.ss = ss]
  <1>1. saveBatchingSession(st, s, mode) = r
    BY DEF saveBatchingSession, HandlerState
  <1>2. ss \in [BatchIds -> SessionModes]
    BY DEF HandlerState
  <1>3. \A x \in BatchIds : ss[x] = IF x = s THEN mode ELSE st.ss[x]
    BY DEF HandlerState
  <1> HIDE DEF ss
  <1>4. HandlerState(r) /\ r.ts = st.ts /\ r.full = st.full /\ r.ss = ss
    BY <1>2 DEF HandlerState
  <1>5. mode \in {NoSession, "noAutoReport"} => Counted(r) \subseteq Counted(st)
    BY <1>3, <1>4 DEF Counted
  <1> QED
    BY <1>1, <1>4, <1>5

LEMMA ErasedKeeps ==
  ASSUME NEW st, HandlerState(st), NEW s
  PROVE  /\ Keeps(st, eraseBatchingSession(st, s))
         /\ eraseBatchingSession(st, s).ts = st.ts
  <1>1. eraseBatchingSession(st, s) = saveBatchingSession(st, s, NoSession) /\ NoSession \in SessionModes
    BY DEF eraseBatchingSession, saveBatchingSession, SessionModes
  <1> QED
    BY <1>1, SavedAs DEF Keeps, RegisteredIn

LEMMA EnabledKeeps ==
  ASSUME NEW st, HandlerState(st), NEW mode
  PROVE  /\ Keeps(st, EnableBatching(st, mode))
         /\ EnableBatching(st, mode).ts = st.ts
         /\ RegisteredIn(st) /\ mode # "noAutoReport" => EnableBatching(st, mode).full
  <1>1. CASE mode # "noAutoReport" /\ autoReportBatchingSessionsCount(st) = 0
    BY <1>1, FullKeeps DEF EnableBatching, Keeps, RegisteredIn
  <1>2. CASE ~(mode # "noAutoReport" /\ autoReportBatchingSessionsCount(st) = 0)
    BY <1>2, CountZero DEF EnableBatching, Keeps, RegisteredIn
  <1> QED
    BY <1>1, <1>2

LEMMA DisabledKeeps ==
  ASSUME NEW st, HandlerState(st), NEW mode
  PROVE  Keeps(st, DisableIfLast(st, mode))
  <1>1. CASE mode # "noAutoReport" /\ autoReportBatchingSessionsCount(st) = 0
    BY <1>1, FullKeeps, CountZero DEF DisableIfLast, Keeps, RegisteredIn
  <1>2. CASE ~(mode # "noAutoReport" /\ autoReportBatchingSessionsCount(st) = 0)
    BY <1>2 DEF DisableIfLast, Keeps
  <1> QED
    BY <1>1, <1>2

LEMMA KeepsAlong ==
  ASSUME NEW st, NEW r, NEW x, Keeps(st, r), Keeps(r, x)
  PROVE  Keeps(st, x)
  BY DEF Keeps

\* Beginning a session enables the event before the session counts.
LEMMA StartKeeps ==
  ASSUME NEW st, HandlerState(st), NEW s \in Nat, NEW mode \in Modes
  PROVE  Keeps(st, startBatching(st, s, mode))
  <1> DEFINE e == EnableBatching(st, mode)
             r == saveBatchingSession(e, s, mode)
  <1>1. Keeps(st, e) /\ (RegisteredIn(st) /\ mode # "noAutoReport" => e.full)
    BY EnabledKeeps
  <1> HIDE DEF e
  <1>2. HandlerState(r) /\ r.ts = e.ts /\ r.full = e.full
        /\ (mode \in {NoSession, "noAutoReport"} => Counted(r) \subseteq Counted(e))
    BY <1>1, SavedAs DEF Keeps, SessionModes
  <1>3. RegisteredIn(st) => RegisteredIn(r)
    BY <1>1, <1>2 DEF Keeps, RegisteredIn
  <1> HIDE DEF r
  <1>4. Keeps(r, Send(r, "startBatching", s, mode, FALSE))
    BY <1>2, SentKeeps DEF BatchOps
  <1>5. Keeps(st, Send(r, "startBatching", s, mode, FALSE))
    BY <1>2, <1>3, <1>4 DEF Keeps
  <1> QED
    BY <1>5 DEF startBatching, r, e

LEMMA StartTripKeeps ==
  ASSUME NEW st, HandlerState(st), NEW s \in Nat
  PROVE  Keeps(st, startTripBatchingMultiplex(st, s))
  <1>0. "trip" \in Modes /\ "startTrip" \in BatchOps /\ "queryTrip" \in BatchOps
    BY DEF Modes, BatchOps
  <1>1. CASE st.ts = {}
    <2> DEFINE e == EnableBatching(st, "trip")
               r == saveBatchingSession(e, s, "trip")
               t == [r EXCEPT !.ts = {s}]
    <2>1. Keeps(st, e) /\ (RegisteredIn(st) => e.full)
      BY EnabledKeeps
    <2> HIDE DEF e
    <2>2. HandlerState(r) /\ r.full = e.full
      BY <1>0, <2>1, SavedAs DEF Keeps, SessionModes
    <2> HIDE DEF r
    <2>3. {s} \in SUBSET Nat /\ IsFiniteSet({s})
      BY FS_Singleton
    <2>4. HandlerState(t) /\ t.full = r.full
      BY <2>2, <2>3, TripsOnly
    <2> HIDE DEF t
    <2>5. Keeps(t, Send(t, "startTrip", s, "trip", FALSE))
      BY <1>0, <2>4, SentKeeps
    <2>6. Keeps(st, Send(t, "startTrip", s, "trip", FALSE))
      BY <2>1, <2>2, <2>4, <2>5 DEF Keeps, RegisteredIn
    <2> QED
      BY <1>1, <2>6 DEF startTripBatchingMultiplex, t, r, e
  <1>2. CASE st.ts # {}
    BY <1>0, <1>2, SentKeeps DEF startTripBatchingMultiplex
  <1> QED
    BY <1>1, <1>2

LEMMA BeginKeeps ==
  ASSUME NEW st, HandlerState(st), NEW s \in Nat, NEW mode \in Modes
  PROVE  Keeps(st, Begin(st, s, mode))
  BY StartKeeps, StartTripKeeps DEF Begin

LEMMA StoppedKeeps ==
  ASSUME NEW st, HandlerState(st), NEW s \in BatchIds, NEW mode \in Modes, NEW restart \in BOOLEAN
  PROVE  Keeps(st, stopBatching(st, s, mode, restart)) /\ stopBatching(st, s, mode, restart).ts = st.ts
  <1>1. CASE st.ss[s] = NoSession
    BY <1>1 DEF stopBatching, Keeps
  <1>2. CASE st.ss[s] # NoSession
    <2> DEFINE e == eraseBatchingSession(st, s)
               m == [BMsg("stopBatching", s, mode, restart) EXCEPT !.had = st.ss[s]]
               rs == Append(e.rs, m)
               r == [e EXCEPT !.rs = rs]
    <2>1. Keeps(st, e) /\ e.ts = st.ts
      BY ErasedKeeps
    <2>2. m \in BatchMsg
      <3>1. st.ss[s] \in SessionModes /\ s \in Nat
        BY BatchAssumption DEF HandlerState
      <3> QED
        BY <3>1 DEF BMsg, BatchMsg, BatchOps, SessionModes
    <2>3. stopBatching(st, s, mode, restart) = r
      BY <1>2 DEF stopBatching
    <2> HIDE DEF e, m
    <2>4. rs \in Seq(BatchMsg)
      BY <2>1, <2>2 DEF Keeps, HandlerState
    <2> HIDE DEF rs
    <2>5. Keeps(e, r) /\ r.ts = e.ts
      BY <2>1, <2>4 DEF Keeps, HandlerState, RegisteredIn, Counted
    <2> HIDE DEF r
    <2> QED
      BY <2>1, <2>3, <2>5, KeepsAlong
  <1> QED
    BY <1>1, <1>2

LEMMA RestartTripKeeps ==
  ASSUME NEW st, HandlerState(st)
  PROVE  Keeps(st, restartTripBatching(st)) 
  <1>0. "trip" \in Modes /\ "endTrip" \in BatchOps /\ "requeryTrip" \in BatchOps /\ 0 \in Nat
    BY DEF Modes, BatchOps
  <1>1. CASE st.ts = {}
    <2> DEFINE r == Send(st, "endTrip", 0, "trip", FALSE)
    <2>1. Keeps(st, r)
      BY <1>0, SentKeeps
    <2> HIDE DEF r
    <2>2. Keeps(r, DisableIfLast(r, "trip"))
      BY <2>1, DisabledKeeps DEF Keeps
    <2>3. Keeps(st, DisableIfLast(r, "trip"))
      BY <2>1, <2>2, KeepsAlong
    <2> QED
      BY <1>1, <2>3 DEF restartTripBatching, r
  <1>2. CASE st.ts # {}
    BY <1>0, <1>2, SentKeeps DEF restartTripBatching
  <1> QED
    BY <1>1, <1>2

\* Taking a trip away.
LEMMA FewerTrips ==
  ASSUME NEW st, HandlerState(st), NEW S
  PROVE  LET r == [st EXCEPT !.ts = @ \ S]
         IN Keeps(st, r) /\ r.ts = st.ts \ S /\ r.full = st.full /\ Counted(r) = Counted(st)
  <1> DEFINE T == st.ts \ S
  <1>1. T \in SUBSET Nat /\ IsFiniteSet(T)
    BY FS_Subset DEF HandlerState
  <1>2. [st EXCEPT !.ts = @ \ S] = [st EXCEPT !.ts = T]
    BY DEF HandlerState
  <1>3. st.ts = {} => T = {}
    OBVIOUS
  <1>4. T = st.ts \ S
    OBVIOUS
  <1> HIDE DEF T
  <1> QED
    BY <1>1, <1>2, <1>3, <1>4, TripsOnly DEF Keeps, RegisteredIn

LEMMA TripStoppedKeeps ==
  ASSUME NEW st, HandlerState(st), NEW s \in Nat, NEW mode \in Modes, NEW restart \in BOOLEAN,
         NEW reg \in BOOLEAN, reg => RegisteredIn([st EXCEPT !.ts = @ \ {s}])
  PROVE  LET r == stopTripBatchingMultiplexCommon(st, s, mode, restart)
         IN HandlerState(r) /\ (reg => RegisteredIn(r))
  <1> DEFINE gone == [st EXCEPT !.ts = @ \ {s}]
             rest == IF gone.ts = {} THEN gone ELSE restartTripBatching(gone)
             erased == eraseBatchingSession(rest, s)
  <1>1. HandlerState(gone) /\ (reg => RegisteredIn(gone))
    BY FewerTrips DEF Keeps
  <1>2. stopTripBatchingMultiplexCommon(st, s, mode, restart) = IF restart THEN Begin(erased, s, mode) ELSE rest
    BY DEF stopTripBatchingMultiplexCommon
  <1> HIDE DEF gone
  <1>3. Keeps(gone, rest)
    BY <1>1, RestartTripKeeps DEF Keeps
  <1> HIDE DEF rest
  <1>4. Keeps(rest, erased)
    BY <1>3, ErasedKeeps DEF Keeps
  <1> HIDE DEF erased
  <1>5. Keeps(erased, Begin(erased, s, mode))
    BY <1>4, BeginKeeps DEF Keeps
  <1> QED
    BY <1>1, <1>2, <1>3, <1>4, <1>5 DEF Keeps

LEMMA TripStoppedAlso ==
  ASSUME NEW st, HandlerState(st), NEW s \in Nat, NEW mode \in Modes, NEW restart \in BOOLEAN
  PROVE  Keeps(st, stopTripBatchingMultiplexCommon(st, s, mode, restart))
  <1>1. RegisteredIn(st) => RegisteredIn([st EXCEPT !.ts = @ \ {s}])
    BY FewerTrips DEF Keeps
  <1>2. RegisteredIn(st) \in BOOLEAN
    BY DEF RegisteredIn, HandlerState
  <1> QED
    BY <1>1, <1>2, TripStoppedKeeps DEF Keeps

LEMMA TripMultiplexKeeps ==
  ASSUME NEW st, HandlerState(st), NEW s \in Nat, NEW mode \in Modes, NEW restart \in BOOLEAN
  PROVE  Keeps(st, stopTripBatchingMultiplex(st, s, mode, restart))
  <1>1. Keeps(st, Send(st, "stopTrip", s, mode, restart))
    BY SentKeeps DEF BatchOps
  <1>2. Keeps(st, stopTripBatchingMultiplexCommon(st, s, mode, restart))
    BY TripStoppedAlso
  <1> QED
    BY <1>1, <1>2 DEF stopTripBatchingMultiplex

-----------------------------------------------------------------------------
(* The handlers of the adapter's thread.                                   *)

LEMMA NowState ==
  ASSUME BatchInv
  PROVE  HandlerState(Now) /\ (excused \/ RegisteredIn(Now)) /\ Now.ts = mTripSessions /\ Now.ss = mBatchingSessions
  BY DEF BatchInv, HandlerState, Now

LEMMA LeastNatural ==
  ASSUME NEW S \in SUBSET Nat, NEW k \in S
  PROVE  \E x \in S : \A y \in S : ~(y < x)
  <1>1. PICK x \in S : \A y \in S : ~ (<<y, x>> \in OpToRel(<, Nat))
    BY NatLessThanWellFounded, WFMin, Zenon
  <1> QED
    BY <1>1 DEF OpToRel

\* Every number from 0 to n is reached by steps.
LEMMA Reached ==
  ASSUME NEW n \in Nat, NEW D, 0 \in D, \A k \in Nat : k < n /\ k \in D => k + 1 \in D
  PROVE  \A k \in 0 .. n : k \in D
  <1> SUFFICES ASSUME NEW k \in 0 .. n, k \notin D
               PROVE  FALSE
    OBVIOUS
  <1> DEFINE S == {j \in 0 .. n : j \notin D}
  <1>1. S \in SUBSET Nat /\ k \in S /\ \A j \in S : j \in 0 .. n /\ j \notin D
    OBVIOUS
  <1>2. \A j \in 0 .. n : j \in D \/ j \in S
    OBVIOUS
  <1> HIDE DEF S
  <1>3. PICK x \in S : \A y \in S : ~(y < x)
    BY <1>1, LeastNatural
  <1>4. x # 0 /\ x - 1 \in Nat /\ x - 1 < n /\ x - 1 \in 0 .. n /\ x - 1 < x /\ (x - 1) + 1 = x
    BY <1>1, <1>3
  <1>5. x - 1 \in D
    BY <1>2, <1>3, <1>4
  <1> QED
    BY <1>1, <1>3, <1>4, <1>5

\* The sessions of a client are stopped in turn: there is such a course of states.
Course(after, order, n) ==
  after[0] = Now /\ \A i \in 1 .. n : after[i] = StopAsSaved(after[i - 1], order[i])
LEMMA CourseExists ==
  ASSUME NEW order, NEW n \in Nat
  PROVE  \E after : Course(after, order, n)
  <1> DEFINE D == {k \in 0 .. n : \E after : Course(after, order, k)}
  <1>1. 0 \in D
    <2>1. Course([i \in {0} |-> Now], order, 0)
      BY DEF Course
    <2> QED
      BY <2>1
  <1>2. ASSUME NEW k \in Nat, k < n, k \in D
        PROVE  k + 1 \in D
    <2>1. PICK f : Course(f, order, k)
      BY <1>2
    <2> DEFINE x == StopAsSaved(f[k], order[k + 1])
               g == [i \in 0 .. k + 1 |-> IF i = k + 1 THEN x ELSE f[i]]
    <2>2. g[0] = f[0] /\ g[k + 1] = x /\ g[k] = f[k] /\ \A i \in 1 .. k : g[i] = f[i] /\ g[i - 1] = f[i - 1]
      OBVIOUS
    <2>3. x = StopAsSaved(f[k], order[k + 1])
      OBVIOUS
    <2> HIDE DEF g, x
    <2>4. \A i \in 1 .. k + 1 : g[i] = StopAsSaved(g[i - 1], order[i])
      <3> SUFFICES ASSUME NEW i \in 1 .. k + 1
                   PROVE  g[i] = StopAsSaved(g[i - 1], order[i])
        OBVIOUS
      <3>1. CASE i = k + 1
        <4>1. i - 1 = k
          BY <3>1
        <4> QED
          BY <2>2, <2>3, <3>1, <4>1
      <3>2. CASE i \in 1 .. k
        BY <2>1, <2>2, <3>2 DEF Course
      <3> QED
        BY <3>1, <3>2
    <2>5. Course(g, order, k + 1)
      BY <2>1, <2>2, <2>4 DEF Course
    <2> QED
      BY <1>2, <2>5
  <1> HIDE DEF D
  <1>3. n \in D
    BY <1>1, <1>2, Reached
  <1> QED
    BY <1>3 DEF D

LEMMA StoppedInTurn ==
  ASSUME BatchInv, NEW S \in SUBSET BatchIds, NEW order \in Ascending(S)
  PROVE  HandlerState(stopBatchSessions(order))
  <1>1. IsFiniteSet(S) /\ Cardinality(S) \in Nat
    BY BatchAssumption, FS_Subset, FS_CardinalityType
  <1> DEFINE n == Cardinality(S)
  <1>2. order \in [1 .. n -> BatchIds] /\ Len(order) = n /\ n \in Nat
    BY <1>1 DEF Ascending
  <1> HIDE DEF n
  <1> DEFINE Body(f) == [i \in 0 .. Len(order) |-> IF i = 0 THEN Now ELSE StopAsSaved(f[i - 1], order[i])]
             after == CHOOSE f : f = Body(f)
  <1>3. \E f : f = Body(f)
    <2>1. PICK f : Course(f, order, n)
      BY <1>2, CourseExists
    <2> DEFINE g == [i \in 0 .. n |-> f[i]]
    <2>2. \A i \in 0 .. n : g[i] = f[i]
      OBVIOUS
    <2>3. g = [i \in 0 .. n |-> g[i]]
      OBVIOUS
    <2> HIDE DEF g
    <2>4. \A i \in 0 .. n : g[i] = IF i = 0 THEN Now ELSE StopAsSaved(g[i - 1], order[i])
      <3> SUFFICES ASSUME NEW i \in 0 .. n
                   PROVE  g[i] = IF i = 0 THEN Now ELSE StopAsSaved(g[i - 1], order[i])
        OBVIOUS
      <3>1. CASE i = 0
        BY <2>1, <2>2, <3>1 DEF Course
      <3>2. CASE i # 0
        <4>1. i \in 1 .. n /\ i - 1 \in 0 .. n
          BY <1>2, <3>2
        <4> QED
          BY <2>1, <2>2, <3>2, <4>1 DEF Course
      <3> QED
        BY <3>1, <3>2
    <2>5. g = Body(g)
      BY <1>2, <2>3, <2>4
    <2> QED
      BY <2>5
  <1>4. after = Body(after)
    <2> HIDE DEF Body
    <2> QED
      BY <1>3
  <1>5. stopBatchSessions(order) = after[Len(order)]
    BY DEF stopBatchSessions
  <1> HIDE DEF after
  <1>6. /\ after[0] = Now
        /\ \A i \in 0 .. n : i # 0 => after[i] = StopAsSaved(after[i - 1], order[i])
    BY <1>2, <1>4
  <1> HIDE DEF Body
  <1> DEFINE D == {k \in 0 .. n : HandlerState(after[k])}
  <1>7. 0 \in D
    BY <1>2, <1>6, NowState
  <1>8. ASSUME NEW k \in Nat, k < n, k \in D
        PROVE  k + 1 \in D
    <2>1. k + 1 \in 0 .. n /\ k + 1 # 0 /\ (k + 1) - 1 = k /\ k + 1 \in 1 .. n
      BY <1>2, <1>8
    <2>2. after[k + 1] = StopAsSaved(after[k], order[k + 1]) /\ order[k + 1] \in BatchIds /\ HandlerState(after[k])
      BY <1>2, <1>6, <1>8, <2>1
    <2>3. HandlerState(StopAsSaved(after[k], order[k + 1]))
      <3> DEFINE x == after[k]
                 s == order[k + 1]
      <3>1. HandlerState(x) /\ s \in BatchIds /\ s \in Nat /\ "routine" \in Modes
        BY <2>2, BatchAssumption DEF Modes
      <3> HIDE DEF x, s
      <3>2. HandlerState(StopAsSaved(x, s))
        BY <3>1, TripMultiplexKeeps, StoppedKeeps DEF StopAsSaved, Keeps
      <3> QED
        BY <3>2 DEF x, s
    <2> QED
      BY <2>1, <2>2, <2>3
  <1> HIDE DEF D
  <1>9. n \in D
    <2>1. \A k \in 0 .. n : k \in D
      BY <1>2, <1>7, <1>8, Reached, Zenon
    <2> QED
      BY <1>2, <2>1
  <1> QED
    BY <1>2, <1>5, <1>9 DEF D

\* What a handler of the message m leaves the state in.
Left(m, st) == HandlerState(st) /\ (excused \/ TripOver(m) \/ RegisteredIn(st))

LEMMA KeptIsLeft ==
  ASSUME BatchInv, NEW m, NEW st, Keeps(Now, st)
  PROVE  Left(m, st)
  BY NowState DEF Keeps, Left

\* The mask counted anew always has the event if something counts.
LEMMA MaskUpdated ==
  ASSUME NEW st, HandlerState(st)
  PROVE  HandlerState(updateClientsEventMask(st)) /\ RegisteredIn(updateClientsEventMask(st))
  <1> DEFINE f == autoReportBatchingSessionsCount(st) > 0
             r == [st EXCEPT !.full = f]
  <1>1. f \in BOOLEAN /\ (~f => Counted(st) = {} /\ st.ts = {})
    BY CountZero
  <1>2. updateClientsEventMask(st) = r
    BY DEF updateClientsEventMask
  <1> HIDE DEF f
  <1>3. HandlerState(r) /\ r.full = f /\ r.ts = st.ts /\ Counted(r) = Counted(st)
    BY <1>1, FullKeeps
  <1> QED
    BY <1>1, <1>2, <1>3 DEF RegisteredIn

LEMMA StartAnswered ==
  ASSUME BatchInv, NEW m \in BatchMsg
  PROVE  Left(m, StartDone(m))
  <1> DEFINE e == eraseBatchingSession(Now, m.id)
  <1>1. Keeps(Now, e)
    BY NowState, ErasedKeeps
  <1> HIDE DEF e
  <1>2. Keeps(e, DisableIfLast(e, m.mode))
    BY <1>1, DisabledKeeps DEF Keeps
  <1>3. Keeps(Now, DisableIfLast(e, m.mode)) /\ Keeps(Now, Now)
    BY <1>1, <1>2, NowState, KeepsAlong DEF Keeps
  <1>4. StartDone(m) = IF m.ok THEN Now ELSE DisableIfLast(e, m.mode)
    BY DEF StartDone, e
  <1> QED
    BY <1>3, <1>4, KeptIsLeft

\* A stop that was refused is excused; one that was not may disable the event.
LEMMA StopAnswered ==
  ASSUME BatchInv, NEW m \in BatchMsg, ~m.ok => excused
  PROVE  Left(m, StopDone(m))
  <1>1. m.mode \in Modes /\ m.mode \in SessionModes /\ m.id \in Nat
    BY DEF BatchMsg, SessionModes
  <1>2. CASE ~m.ok
    <2>1. HandlerState(saveBatchingSession(Now, m.id, m.mode))
      BY <1>1, NowState, SavedAs
    <2> QED
      BY <1>2, <2>1 DEF StopDone, Left
  <1>3. CASE m.ok
    <2> DEFINE d == DisableIfLast(Now, m.had)
    <2>1. Keeps(Now, d)
      BY NowState, DisabledKeeps
    <2>2. StopDone(m) = IF m.restart THEN Begin(d, m.id, m.mode) ELSE d
      BY <1>3 DEF StopDone
    <2> HIDE DEF d
    <2>3. Keeps(d, Begin(d, m.id, m.mode))
      BY <1>1, <2>1, BeginKeeps DEF Keeps
    <2> QED
      BY <2>1, <2>2, <2>3, KeepsAlong, KeptIsLeft
  <1> QED
    BY <1>2, <1>3

LEMMA StartTripAnswered ==
  ASSUME BatchInv, NEW m \in BatchMsg
  PROVE  Left(m, StartTripDone(m))
  <1> DEFINE e == eraseBatchingSession(Now, m.id)
             g == [e EXCEPT !.ts = @ \ {m.id}]
  <1>1. Keeps(Now, e)
    BY NowState, ErasedKeeps
  <1>2. StartTripDone(m) = IF m.ok THEN Now ELSE DisableIfLast(g, "trip")
    BY DEF StartTripDone
  <1> HIDE DEF e
  <1>3. Keeps(e, g)
    BY <1>1, FewerTrips DEF Keeps
  <1> HIDE DEF g
  <1>4. Keeps(g, DisableIfLast(g, "trip"))
    BY <1>3, DisabledKeeps DEF Keeps
  <1>5. Keeps(Now, DisableIfLast(g, "trip")) /\ Keeps(Now, Now)
    BY <1>1, <1>3, <1>4, NowState, KeepsAlong DEF Keeps
  <1> QED
    BY <1>2, <1>5, KeptIsLeft

\* The last trip is all that counted when it is stopped: nothing counts then.
LEMMA LastTrip ==
  ASSUME NEW st, HandlerState(st), autoReportBatchingSessionsCount(st) = 1, NEW s \in st.ts
  PROVE  Counted(st) = {} /\ st.ts = {s}
  <1>1. IsFiniteSet(Counted(st)) /\ IsFiniteSet(st.ts)
    BY BatchAssumption, FS_Subset DEF Counted, HandlerState
  <1>2. Cardinality(Counted(st)) \in Nat /\ Cardinality(st.ts) \in Nat
    BY <1>1, FS_CardinalityType
  <1>3. Cardinality(st.ts) # 0 /\ (Cardinality(Counted(st)) = 0 <=> Counted(st) = {})
    BY <1>1, FS_EmptySet
  <1>4. autoReportBatchingSessionsCount(st) = Cardinality(Counted(st)) + Cardinality(st.ts)
    BY DEF autoReportBatchingSessionsCount, Counted
  <1>5. Cardinality(Counted(st)) = 0 /\ Cardinality(st.ts) = 1
    BY <1>2, <1>3, <1>4
  <1>6. \E x : st.ts = {x}
    BY <1>1, <1>5, FS_Singleton
  <1> QED
    BY <1>3, <1>5, <1>6

LEMMA StopTripAnswered ==
  ASSUME BatchInv, NEW m \in BatchMsg, m.op = "stopTrip"
  PROVE  Left(m, StopTripDone(m))
  <1>1. m.mode \in Modes /\ m.id \in Nat /\ m.restart \in BOOLEAN
    BY DEF BatchMsg
  <1> DEFINE last == m.ok /\ autoReportBatchingSessionsCount(Now) = 1
             off == [Now EXCEPT !.full = FALSE]
  <1>2. CASE ~last
    <2>1. StopTripDone(m) = stopTripBatchingMultiplexCommon(Now, m.id, m.mode, m.restart)
      BY <1>2 DEF StopTripDone
    <2>2. Keeps(Now, stopTripBatchingMultiplexCommon(Now, m.id, m.mode, m.restart))
      BY <1>1, NowState, TripStoppedAlso
    <2> QED
      BY <2>1, <2>2, KeptIsLeft
  <1>3. CASE last
    <2>1. StopTripDone(m) = stopTripBatchingMultiplexCommon(off, m.id, m.mode, m.restart)
      BY <1>3 DEF StopTripDone
    <2>2. HandlerState(off) /\ off.ts = mTripSessions /\ Counted(off) = Counted(Now)
      BY NowState, FullKeeps
    <2> HIDE DEF off
    <2>3. CASE m.id \notin mTripSessions
      <3>1. HandlerState(stopTripBatchingMultiplexCommon(off, m.id, m.mode, m.restart))
        BY <1>1, <2>2, TripStoppedAlso DEF Keeps
      <3> QED
        BY <2>1, <2>3, <3>1 DEF Left, TripOver
    <2>4. CASE m.id \in mTripSessions
      <3>1. Counted(Now) = {} /\ mTripSessions = {m.id}
        BY <1>3, <2>4, NowState, LastTrip
      <3> DEFINE gone == [off EXCEPT !.ts = @ \ {m.id}]
      <3>2. gone.ts = off.ts \ {m.id} /\ Counted(gone) = Counted(off)
        BY <2>2, FewerTrips
      <3>3. RegisteredIn(gone)
        <4> HIDE DEF gone
        <4> QED
          BY <2>2, <3>1, <3>2 DEF RegisteredIn
      <3>4. /\ HandlerState(stopTripBatchingMultiplexCommon(off, m.id, m.mode, m.restart))
            /\ RegisteredIn(stopTripBatchingMultiplexCommon(off, m.id, m.mode, m.restart))
        BY <1>1, <2>2, <3>3, TripStoppedKeeps
      <3> QED
        BY <2>1, <3>4 DEF Left
    <2> QED
      BY <2>3, <2>4
  <1> QED
    BY <1>2, <1>3

LEMMA QueryAnswered ==
  ASSUME BatchInv, NEW m \in BatchMsg, m.op = "queryTrip", NEW again \in BOOLEAN
  PROVE  Left(m, QueryTripDone(m, again))
  <1> DEFINE T == mTripSessions \cup {m.id}
             more == [Now EXCEPT !.ts = T]
             st == IF m.ok THEN more ELSE Now
  <1>1. m.id \in Nat /\ "trip" \in Modes /\ "reStartTrip" \in BatchOps
    BY DEF BatchMsg, Modes, BatchOps
  <1>2. T \in SUBSET Nat /\ IsFiniteSet(T)
    BY <1>1, FS_AddElement DEF BatchInv
  <1>3. QueryTripDone(m, again) = IF again THEN Send(st, "reStartTrip", m.id, "trip", FALSE) ELSE st
    BY DEF QueryTripDone, Now
  <1> HIDE DEF T
  <1>4. HandlerState(more) /\ more.full = Now.full
    BY <1>2, NowState, TripsOnly
  <1> HIDE DEF more
  <1>5. RegisteredIn(Now) /\ mTripSessions # {} => RegisteredIn(more)
    BY <1>4, NowState DEF RegisteredIn
  <1>6. Left(m, st)
    BY <1>4, <1>5, NowState DEF Left, TripOver
  <1> HIDE DEF st
  <1>7. Keeps(st, Send(st, "reStartTrip", m.id, "trip", FALSE))
    BY <1>1, <1>6, SentKeeps DEF Left
  <1> QED
    BY <1>3, <1>6, <1>7 DEF Left, Keeps

LEMMA RequeryAnswered ==
  ASSUME BatchInv, NEW m, NEW again \in BOOLEAN
  PROVE  Left(m, RequeryTripDone(again))
  <1>1. 0 \in Nat /\ "trip" \in Modes /\ "reStartTrip" \in BatchOps \ {"stop", "update"} /\ FALSE \in BOOLEAN
    BY DEF Modes, BatchOps
  <1>2. Keeps(Now, Send(Now, "reStartTrip", 0, "trip", FALSE)) /\ Keeps(Now, Now)
    BY <1>1, NowState, SentKeeps DEF Keeps
  <1> QED
    BY <1>2, KeptIsLeft DEF RequeryTripDone

LEMMA CompletedLeft ==
  ASSUME BatchInv, NEW m, NEW done
  PROVE  Left(m, CompletedTrips(done))
  <1> DEFINE g == [Now EXCEPT !.ts = @ \ done]
  <1>1. Keeps(Now, g) /\ Keeps(Now, Now)
    BY NowState, FewerTrips DEF Keeps
  <1>2. CompletedTrips(done) = IF done = {} THEN Now ELSE restartTripBatching(g)
    BY DEF CompletedTrips
  <1> HIDE DEF g
  <1>3. Keeps(g, restartTripBatching(g))
    BY <1>1, RestartTripKeeps DEF Keeps
  <1> QED
    BY <1>1, <1>2, <1>3, KeepsAlong, KeptIsLeft

\* A session to be stopped or updated is one of the ids.
LEMMA StopOrUpdateLeft ==
  ASSUME BatchInv, NEW m \in BatchMsg, m.op \in {"stop", "update"}
  PROVE  Left(m, StopOrUpdate(m))
  <1>1. m.mode \in Modes /\ m.id \in BatchIds /\ m.id \in Nat /\ m.restart \in BOOLEAN
    BY BatchAssumption DEF BatchMsg
  <1>2. /\ Keeps(Now, stopTripBatchingMultiplex(Now, m.id, m.mode, m.restart))
        /\ Keeps(Now, stopBatching(Now, m.id, m.mode, m.restart))
        /\ Keeps(Now, Now)
    BY <1>1, NowState, TripMultiplexKeeps, StoppedKeeps DEF Keeps
  <1> QED
    BY <1>2, KeptIsLeft DEF StopOrUpdate

\* The clients' masks are counted anew when one comes or goes.
LEMMA ClientsLeft ==
  ASSUME BatchInv, NEW m
  PROVE  /\ Left(m, updateClientsEventMask(Now))
         /\ \A c, order : order \in Ascending(SessionsOf(c)) => Left(m, updateClientsEventMask(stopBatchSessions(order)))
  <1>1. Left(m, updateClientsEventMask(Now))
    BY NowState, MaskUpdated DEF Left
  <1>2. ASSUME NEW c, NEW order \in Ascending(SessionsOf(c))
        PROVE  Left(m, updateClientsEventMask(stopBatchSessions(order)))
    <2>1. SessionsOf(c) \in SUBSET BatchIds
      BY DEF SessionsOf
    <2>2. HandlerState(stopBatchSessions(order))
      BY <2>1, StoppedInTurn
    <2> QED
      BY <2>2, MaskUpdated DEF Left
  <1> QED
    BY <1>1, <1>2

LEMMA BeginLeft ==
  ASSUME BatchInv, NEW m \in BatchMsg
  PROVE  Left(m, Begin(Now, m.id, m.mode))
  <1>1. m.mode \in Modes /\ m.id \in Nat
    BY DEF BatchMsg
  <1> QED
    BY <1>1, NowState, BeginKeeps, KeptIsLeft

-----------------------------------------------------------------------------
(* Steps.                                                                  *)

\* Two queues one after the other.
LEMMA Joined ==
  ASSUME NEW S, NEW s \in Seq(S), NEW t \in Seq(S)
  PROVE  /\ s \o t \in Seq(S)
         /\ \A i \in DOMAIN (s \o t) : \/ i \in DOMAIN s /\ (s \o t)[i] = s[i]
                                       \/ i - Len(s) \in DOMAIN t /\ (s \o t)[i] = t[i - Len(s)]
  OBVIOUS

LEMMA QueueStops ==
  ASSUME NEW q \in Seq(BatchMsg), NEW x, Stops(q, x), q # <<>>
  PROVE  /\ Tail(q) \in Seq(BatchMsg) /\ Head(q) \in BatchMsg /\ Stops(Tail(q), x)
         /\ Head(q).op = "stopBatching" /\ ~Head(q).ok => x
  BY DEF Stops

LEMMA JoinedStops ==
  ASSUME NEW q \in Seq(BatchMsg), NEW p \in Seq(BatchMsg), NEW x, Stops(q, x), Stops(p, x)
  PROVE  q \o p \in Seq(BatchMsg) /\ Stops(q \o p, x)
  <1> DEFINE r == q \o p
  <1>1. r \in Seq(BatchMsg) /\ \A i \in DOMAIN r : \/ i \in DOMAIN q /\ r[i] = q[i]
                                                   \/ i - Len(q) \in DOMAIN p /\ r[i] = p[i - Len(q)]
    BY Joined
  <1> HIDE DEF r
  <1>2. Stops(r, x)
    BY <1>1 DEF Stops
  <1> QED
    BY <1>1, <1>2 DEF r

LEMMA AppendStops ==
  ASSUME NEW q \in Seq(BatchMsg), NEW m \in BatchMsg, NEW x, Stops(q, x),
         m.op = "stopBatching" /\ ~m.ok => x
  PROVE  Append(q, m) \in Seq(BatchMsg) /\ Stops(Append(q, m), x)
  <1>1. /\ Append(q, m) \in Seq(BatchMsg)
        /\ \A i \in DOMAIN Append(q, m) : Append(q, m)[i] = m \/ (i \in DOMAIN q /\ Append(q, m)[i] = q[i])
    OBVIOUS
  <1> QED
    BY <1>1 DEF Stops


LEMMA StopsAlso ==
  ASSUME NEW q, NEW x, NEW y, Stops(q, x), x => y
  PROVE  Stops(q, y)
  BY DEF Stops

\* The state a handler left is saved: the event is registered in it, or it is excused.
LEMMA SavedInv ==
  ASSUME BatchInv, NEW st, HandlerState(st), Save(st), excused' \in BOOLEAN, excused' \/ RegisteredIn(st),
         batchMsgs' \in Seq(BatchMsg), pendingBatch' \in Seq(BatchMsg), Stops(batchMsgs', excused'), Commands(pendingBatch')
  PROVE  BatchInv'
  <1>1. st.ss \in [BatchIds -> SessionModes] /\ st.ts \in SUBSET Nat /\ st.full \in BOOLEAN /\ st.rs \in Seq(BatchMsg)
        /\ IsFiniteSet(st.ts)
    BY DEF HandlerState
  <1>2. mBatchingSessions' = st.ss /\ mTripSessions' = st.ts /\ batchFull' = st.full
        /\ batchRequests' = batchRequests \o st.rs
    BY DEF Save
  <1>3. batchRequests' \in Seq(BatchMsg)
    BY <1>1, <1>2, Joined DEF BatchInv
  <1>4. Now'.ss = st.ss /\ Now'.ts = st.ts /\ Now'.full = st.full
    BY <1>2 DEF Now
  <1>5. RegisteredIn(st) => RegisteredIn(Now)'
    BY <1>4 DEF RegisteredIn, Counted
  <1> QED
    BY <1>1, <1>2, <1>3, <1>5 DEF BatchInv

\* A handler that leaves its message's state, as it should, keeps the invariant.
LEMMA AppliedInv ==
  ASSUME BatchInv, batchMsgs # <<>>, excused' = (excused \/ TripOver(Head(batchMsgs))), pendingBatch' = pendingBatch,
         NEW st, Left(Head(batchMsgs), st), Apply(st)
  PROVE  BatchInv'
  <1>1. HandlerState(st) /\ Save(st) /\ batchMsgs' = Tail(batchMsgs)
    BY DEF Left, Apply
  <1>2. excused' \in BOOLEAN /\ (excused => excused') /\ (excused' \/ RegisteredIn(st))
    BY DEF Left, BatchInv, TripOver
  <1>3. batchMsgs' \in Seq(BatchMsg) /\ Stops(batchMsgs', excused)
    BY <1>1, QueueStops DEF BatchInv
  <1>4. Stops(batchMsgs', excused')
    BY <1>2, <1>3, StopsAlso
  <1>5. pendingBatch' \in Seq(BatchMsg) /\ Commands(pendingBatch')
    BY DEF BatchInv
  <1> QED
    BY <1>1, <1>2, <1>3, <1>4, <1>5, SavedInv

LEMMA OtherInv ==
  ASSUME BatchInv, batchMsgs # <<>>, excused' = (excused \/ TripOver(Head(batchMsgs))),
         HandleOther(Head(batchMsgs))
  PROVE  BatchInv'
  <1> DEFINE m == Head(batchMsgs)
  <1>1. m \in BatchMsg /\ (m.op = "stopBatching" /\ ~m.ok => excused)
    BY QueueStops DEF BatchInv
  <1>2. pendingBatch' = pendingBatch
    BY DEF HandleOther
  <1>3. ASSUME NEW st, Left(m, st), Apply(st)
        PROVE  BatchInv'
    BY <1>2, <1>3, AppliedInv
  <1>4. HandleOther(m)
    OBVIOUS
  <1> HIDE DEF m
  <1>5. CASE m.op = "start" /\ Apply(Begin(Now, m.id, m.mode))
    BY <1>1, <1>3, <1>5, BeginLeft
  <1>6. CASE m.op \in {"stop", "update"} /\ Apply(StopOrUpdate(m))
    BY <1>1, <1>3, <1>6, StopOrUpdateLeft
  <1>7. CASE \E order \in Ascending(SessionsOf(BatchClient[m.id])) :
               Apply(updateClientsEventMask(stopBatchSessions(order)))
    BY <1>3, <1>7, ClientsLeft
  <1>8. CASE m.op = "addClient" /\ Apply(updateClientsEventMask(Now))
    BY <1>3, <1>8, ClientsLeft
  <1>9. CASE m.op = "startBatching" /\ Apply(StartDone(m))
    BY <1>1, <1>3, <1>9, StartAnswered
  <1>10. CASE m.op = "stopBatching" /\ Apply(StopDone(m))
    BY <1>1, <1>3, <1>10, StopAnswered
  <1>11. CASE m.op = "startTrip" /\ Apply(StartTripDone(m))
    BY <1>1, <1>3, <1>11, StartTripAnswered
  <1>12. CASE m.op = "stopTrip" /\ Apply(StopTripDone(m))
    BY <1>1, <1>3, <1>12, StopTripAnswered
  <1>13. CASE m.op = "queryTrip" /\ \E again \in BOOLEAN : Apply(QueryTripDone(m, again))
    BY <1>1, <1>3, <1>13, QueryAnswered
  <1>14. CASE \E again \in BOOLEAN : Apply(RequeryTripDone(again))
    BY <1>3, <1>14, RequeryAnswered
  <1>15. CASE \E done \in SUBSET mTripSessions : Apply(CompletedTrips(done))
    BY <1>3, <1>15, CompletedLeft
  <1>16. CASE Apply(Now)
    BY <1>3, <1>16, NowState DEF Left
  <1> QED
    BY <1>4, <1>5, <1>6, <1>7, <1>8, <1>9, <1>10, <1>11, <1>12, <1>13, <1>14, <1>15, <1>16 DEF HandleOther

LEMMA SameSessions ==
  ASSUME BatchInv, UNCHANGED sessionState, excused' \in BOOLEAN, excused => excused',
         batchMsgs' \in Seq(BatchMsg), batchRequests' \in Seq(BatchMsg), pendingBatch' \in Seq(BatchMsg),
         Stops(batchMsgs', excused'), Commands(pendingBatch')
  PROVE  BatchInv'
  <1>1. mBatchingSessions' = mBatchingSessions /\ mTripSessions' = mTripSessions /\ batchFull' = batchFull
    BY DEF sessionState
  <1>2. RegisteredIn(Now) => RegisteredIn(Now)'
    BY <1>1 DEF RegisteredIn, Counted, Now
  <1>3. excused' \/ RegisteredIn(Now)'
    BY <1>2 DEF BatchInv
  <1> QED
    BY <1>1, <1>3 DEF BatchInv

\* A command waits for the engine.
LEMMA PendingInv ==
  ASSUME BatchInv, batchMsgs # <<>>, excused' = (excused \/ TripOver(Head(batchMsgs))),
         Head(batchMsgs).op \in NeedsEngine, HandlePending(Head(batchMsgs))
  PROVE  BatchInv'
  <1>1. Head(batchMsgs) \in BatchMsg /\ batchMsgs' \in Seq(BatchMsg) /\ Stops(batchMsgs', excused)
    BY QueueStops DEF BatchInv, HandlePending
  <1>2. excused' \in BOOLEAN /\ (excused => excused')
    BY DEF BatchInv, TripOver
  <1>3. Stops(batchMsgs', excused')
    BY <1>1, <1>2, StopsAlso
  <1>4. pendingBatch' \in Seq(BatchMsg) /\ Commands(pendingBatch')
    BY <1>1 DEF BatchInv, HandlePending, Commands
  <1>5. UNCHANGED sessionState /\ batchRequests' \in Seq(BatchMsg)
    BY DEF BatchInv, HandlePending
  <1> QED
    BY <1>1, <1>2, <1>3, <1>4, <1>5, SameSessions

\* After a restart the event is registered if it was or something counts.
LEMMA RestartedLeft ==
  ASSUME BatchInv, NEW order \in Ascending(PlainSessions)
  PROVE  HandlerState(restartSessions(order)) /\ (RegisteredIn(Now) => RegisteredIn(restartSessions(order)))
  <1> DEFINE again == [i \in DOMAIN order |-> BMsg("startAgain", order[i], mBatchingSessions[order[i]], FALSE)]
             f == Now.full \/ autoReportBatchingSessionsCount(Now) > 0
             named == [Now EXCEPT !.full = f]
             st == [named EXCEPT !.rs = again]
             one == CHOOSE s \in mTripSessions : TRUE
  <1>1. IsFiniteSet(PlainSessions) /\ Cardinality(PlainSessions) \in Nat
    BY BatchAssumption, FS_Subset, FS_CardinalityType DEF PlainSessions
  <1>2. order \in [1 .. Cardinality(PlainSessions) -> PlainSessions]
    BY DEF Ascending
  <1>3. \A s \in PlainSessions : s \in Nat /\ mBatchingSessions[s] \in Modes
    BY BatchAssumption DEF PlainSessions, BatchInv, SessionModes
  <1>4. \A s \in PlainSessions : BMsg("startAgain", s, mBatchingSessions[s], FALSE) \in BatchMsg
    BY <1>3 DEF BMsg, BatchMsg, BatchOps, SessionModes
  <1>5. again \in Seq(BatchMsg)
    <2> DEFINE n == Cardinality(PlainSessions)
               e(i) == BMsg("startAgain", order[i], mBatchingSessions[order[i]], FALSE)
    <2>1. n \in Nat /\ DOMAIN order = 1 .. n /\ \A i \in 1 .. n : order[i] \in PlainSessions
      BY <1>1, <1>2
    <2>2. \A i \in 1 .. n : e(i) \in BatchMsg
      BY <1>4, <2>1
    <2>3. again = [i \in 1 .. n |-> e(i)]
      BY <2>1
    <2> HIDE DEF again, e, n
    <2> QED
      BY <2>1, <2>2, <2>3
  <1>6. f \in BOOLEAN
    BY NowState DEF HandlerState
  <1>7. restartSessions(order) = IF mTripSessions = {} THEN st ELSE Send(st, "startTripAgain", one, "trip", FALSE)
    <2>1. [Now EXCEPT !.full = @ \/ autoReportBatchingSessionsCount(Now) > 0, !.rs = again] = st
      BY NowState DEF HandlerState
    <2> HIDE DEF again, st
    <2> QED
      BY <2>1 DEF restartSessions, again, one
  <1>8. mTripSessions # {} => one \in Nat
    BY DEF BatchInv
  <1>9. Now.full => f
    OBVIOUS
  <1> HIDE DEF again, f, one
  <1>10. HandlerState(named) /\ named.full = f /\ named.ts = Now.ts /\ Counted(named) = Counted(Now)
    BY <1>6, NowState, FullKeeps
  <1>11. RegisteredIn(Now) => RegisteredIn(named)
    <2> HIDE DEF named
    <2> QED
      BY <1>9, <1>10 DEF RegisteredIn
  <1> HIDE DEF named
  <1>12. HandlerState(st) /\ (RegisteredIn(named) => RegisteredIn(st))
    BY <1>5, <1>10 DEF HandlerState, RegisteredIn, Counted
  <1> HIDE DEF st
  <1>13. mTripSessions # {} => Keeps(st, Send(st, "startTripAgain", one, "trip", FALSE))
    <2>1. "startTripAgain" \in BatchOps \ {"stop", "update"} /\ "trip" \in Modes
      BY DEF BatchOps, Modes
    <2> QED
      BY <1>8, <1>12, <2>1, SentKeeps
  <1> QED
    BY <1>7, <1>11, <1>12, <1>13 DEF Keeps

LEMMA EngineUpInv ==
  ASSUME BatchInv, batchMsgs # <<>>, excused' = (excused \/ TripOver(Head(batchMsgs))), handleBatchEngineUp
  PROVE  BatchInv'
  <1>1. PICK order \in Ascending(PlainSessions) : Save(restartSessions(order))
    BY DEF handleBatchEngineUp
  <1> DEFINE st == restartSessions(order)
  <1>2. HandlerState(st) /\ (RegisteredIn(Now) => RegisteredIn(st)) /\ Save(st)
    BY <1>1, RestartedLeft
  <1> HIDE DEF st
  <1>3. excused' \in BOOLEAN /\ (excused => excused') /\ (excused' \/ RegisteredIn(st))
    BY <1>2 DEF BatchInv, TripOver
  <1>4. Tail(batchMsgs) \in Seq(BatchMsg) /\ Stops(Tail(batchMsgs), excused')
    BY <1>3, QueueStops, StopsAlso DEF BatchInv
  <1>5. pendingBatch \in Seq(BatchMsg) /\ Stops(pendingBatch, excused')
    BY DEF BatchInv, Commands, Stops, NeedsEngine
  <1> DEFINE t == Tail(batchMsgs)
             x == excused'
  <1>6. batchMsgs' = t \o pendingBatch /\ pendingBatch' = <<>>
    BY DEF handleBatchEngineUp
  <1>7. t \o pendingBatch \in Seq(BatchMsg) /\ Stops(t \o pendingBatch, x)
    <2> HIDE DEF t, x
    <2> QED
      BY <1>4, <1>5, JoinedStops DEF t, x
  <1>8. batchMsgs' \in Seq(BatchMsg) /\ Stops(batchMsgs', excused')
    BY <1>6, <1>7
  <1>9. pendingBatch' \in Seq(BatchMsg) /\ Commands(pendingBatch')
    BY <1>6 DEF Commands
  <1> QED
    BY <1>2, <1>3, <1>8, <1>9, SavedInv

LEMMA HandledInv ==
  ASSUME BatchInv, HandleBatch
  PROVE  BatchInv'
  <1>1. batchMsgs # <<>> /\ excused' = (excused \/ TripOver(Head(batchMsgs)))
    BY DEF HandleBatch
  <1>2. \/ handleBatchEngineUp
        \/ Head(batchMsgs).op \in NeedsEngine /\ HandlePending(Head(batchMsgs))
        \/ HandleOther(Head(batchMsgs))
    BY DEF HandleBatch
  <1> QED
    BY <1>1, <1>2, EngineUpInv, PendingInv, OtherInv

\* A message is posted, and nothing else changes.
LEMMA PostedInv ==
  ASSUME BatchInv, NEW m \in BatchMsg, m.op # "stopBatching", PostBatch(m)
  PROVE  BatchInv'
  <1>1. Append(batchMsgs, m) \in Seq(BatchMsg) /\ Stops(Append(batchMsgs, m), excused)
    BY AppendStops DEF BatchInv
  <1>2. batchMsgs' = Append(batchMsgs, m) /\ excused' = excused /\ UNCHANGED sessionState
        /\ batchRequests' = batchRequests /\ pendingBatch' = pendingBatch
    BY DEF PostBatch, batchModem
  <1> QED
    BY <1>1, <1>2, SameSessions DEF BatchInv

LEMMA CallersInv ==
  ASSUME BatchInv, NEW s \in BatchIds, BatchCallers({s})
  PROVE  BatchInv'
  <1> DEFINE Asked == {"fetch", "addClient", "removeClient", "stop"}
  <1>1. PICK m : m \in {BMsg(op, s, "routine", FALSE) : op \in Asked}
                       \cup {BMsg("start", s, mode, FALSE) : mode \in Modes}
                       \cup {BMsg("update", s, mode, TRUE) : mode \in Modes}
                 /\ PostBatch(m)
    BY DEF BatchCallers, startBatchingCommand, updateBatchingOptionsCommand, stopBatchingCommand,
           getBatchedLocationsCommand, addBatchClientCommand, removeBatchClientCommand, BatchCommand
  <1>2. \A op \in Asked \cup {"start", "update"} : \A mode \in Modes : \A restart \in BOOLEAN :
          BMsg(op, s, mode, restart) \in BatchMsg /\ BMsg(op, s, mode, restart).op # "stopBatching"
    BY BatchAssumption DEF BMsg, BatchMsg, BatchOps, SessionModes
  <1>3. "routine" \in Modes
    BY DEF Modes
  <1>4. m \in BatchMsg /\ m.op # "stopBatching"
    BY <1>1, <1>2, <1>3
  <1> QED
    BY <1>1, <1>4, PostedInv

LEMMA EventsInv ==
  ASSUME BatchInv, BatchEvents
  PROVE  BatchInv'
  <1>1. PICK op \in {"completed", "report"} : PostBatch(BMsg(op, 0, "trip", FALSE))
    BY DEF BatchEvents, ModemReports
  <1>2. BMsg(op, 0, "trip", FALSE) \in BatchMsg /\ BMsg(op, 0, "trip", FALSE).op # "stopBatching"
    BY DEF BMsg, BatchMsg, BatchOps, SessionModes, Modes
  <1> QED
    BY <1>1, <1>2, PostedInv

\* The modem's answer; a refused stop is excused.
LEMMA ServedInv ==
  ASSUME BatchInv, ModemServesBatch
  PROVE  BatchInv'
  <1> DEFINE r == Head(batchRequests)
             ok == Accepts(r)
             m == [r EXCEPT !.ok = ok]
  <1>1. r \in BatchMsg /\ Tail(batchRequests) \in Seq(BatchMsg)
    BY DEF BatchInv, ModemServesBatch
  <1>2. ok \in BOOLEAN
    BY DEF Accepts
  <1>3. /\ batchMsgs' = Append(batchMsgs, m) /\ batchRequests' = Tail(batchRequests)
        /\ excused' = (excused \/ (r.op = "stopBatching" /\ ~ok))
        /\ UNCHANGED sessionState /\ pendingBatch' = pendingBatch
    BY DEF ModemServesBatch, ServeBatch
  <1> HIDE DEF r, ok
  <1>4. m \in BatchMsg /\ m.op = r.op /\ m.ok = ok
    BY <1>1, <1>2 DEF BatchMsg
  <1> HIDE DEF m
  <1>5. excused' \in BOOLEAN /\ (excused => excused') /\ (m.op = "stopBatching" /\ ~m.ok => excused')
    BY <1>3, <1>4 DEF BatchInv
  <1> DEFINE x == excused'
  <1>6. Stops(batchMsgs, x)
    BY <1>5, StopsAlso DEF BatchInv
  <1>7. Append(batchMsgs, m) \in Seq(BatchMsg) /\ Stops(Append(batchMsgs, m), x)
    <2>1. batchMsgs \in Seq(BatchMsg) /\ (m.op = "stopBatching" /\ ~m.ok => x)
      BY <1>5 DEF BatchInv
    <2> HIDE DEF x
    <2> QED
      BY <1>4, <1>6, <2>1, AppendStops
  <1>8. batchMsgs' \in Seq(BatchMsg) /\ Stops(batchMsgs', excused')
    BY <1>3, <1>7
  <1> QED
    BY <1>1, <1>3, <1>5, <1>8, SameSessions DEF BatchInv

LEMMA UpInv ==
  ASSUME BatchInv, ModemComesUp
  PROVE  BatchInv'
  <1> DEFINE m == BMsg("engineUp", 0, "routine", FALSE)
  <1>1. m \in BatchMsg /\ m.op # "stopBatching"
    BY DEF BMsg, BatchMsg, BatchOps, SessionModes, Modes
  <1>2. batchMsgs' = Append(batchMsgs, m) /\ excused' = excused /\ UNCHANGED sessionState
        /\ batchRequests' = batchRequests /\ pendingBatch' = pendingBatch
    BY DEF ModemComesUp
  <1> HIDE DEF m
  <1>3. Append(batchMsgs, m) \in Seq(BatchMsg) /\ Stops(Append(batchMsgs, m), excused)
    BY <1>1, AppendStops DEF BatchInv
  <1> QED
    BY <1>2, <1>3, SameSessions DEF BatchInv

\* A crash fails what was not served.
LEMMA DownInv ==
  ASSUME BatchInv, ModemGoesDown
  PROVE  BatchInv'
  <1> DEFINE failed == [i \in DOMAIN batchRequests |-> [batchRequests[i] EXCEPT !.ok = FALSE]]
             x == excused'
  <1>1. /\ batchMsgs' = batchMsgs \o failed /\ batchRequests' = <<>> /\ UNCHANGED sessionState
        /\ pendingBatch' = pendingBatch
        /\ excused' = (excused \/ \E r \in Range(batchRequests) : r.op = "stopBatching")
    BY DEF ModemGoesDown
  <1>2. excused' \in BOOLEAN /\ (excused => excused')
    BY <1>1 DEF BatchInv
  <1>3. \A r \in BatchMsg : [r EXCEPT !.ok = FALSE] \in BatchMsg /\ [r EXCEPT !.ok = FALSE].op = r.op
    BY DEF BatchMsg
  <1>4. batchRequests \in Seq(BatchMsg)
    BY DEF BatchInv
  <1>5. failed \in Seq(BatchMsg) /\ DOMAIN failed = DOMAIN batchRequests
        /\ \A i \in DOMAIN failed : failed[i].op = batchRequests[i].op
    <2> DEFINE n == Len(batchRequests)
               e(i) == [batchRequests[i] EXCEPT !.ok = FALSE]
    <2>1. n \in Nat /\ DOMAIN batchRequests = 1 .. n
      BY <1>4
    <2>2. \A i \in 1 .. n : e(i) \in BatchMsg /\ e(i).op = batchRequests[i].op
      BY <1>3, <1>4, <2>1
    <2>3. failed = [i \in 1 .. n |-> e(i)]
      BY <2>1
    <2> HIDE DEF failed, e, n
    <2> QED
      BY <2>1, <2>2, <2>3
  <1>6. Stops(failed, x)
    <2> HIDE DEF failed
    <2> QED
      BY <1>1, <1>5 DEF Stops, Range
  <1>7. Stops(batchMsgs, x) /\ batchMsgs \in Seq(BatchMsg)
    BY <1>2, StopsAlso DEF BatchInv
  <1>8. batchMsgs \o failed \in Seq(BatchMsg) /\ Stops(batchMsgs \o failed, x)
    <2> HIDE DEF failed, x
    <2> QED
      BY <1>5, <1>6, <1>7, JoinedStops
  <1>9. batchMsgs' \in Seq(BatchMsg) /\ Stops(batchMsgs', excused')
    BY <1>1, <1>8
  <1> QED
    BY <1>1, <1>2, <1>9, SameSessions DEF BatchInv

LEMMA BatchStarts == BatchInit => BatchInv
  <1> SUFFICES ASSUME BatchInit
               PROVE  BatchInv
    OBVIOUS
  <1>1. Counted(Now) = {} /\ Now.ts = {}
    BY DEF BatchInit, Counted, Now
  <1>2. mBatchingSessions \in [BatchIds -> SessionModes] /\ mTripSessions \in SUBSET Nat
        /\ IsFiniteSet(mTripSessions) /\ batchFull \in BOOLEAN /\ excused \in BOOLEAN
    BY FS_EmptySet DEF BatchInit, SessionModes
  <1>3. /\ batchMsgs \in Seq(BatchMsg) /\ batchRequests \in Seq(BatchMsg) /\ pendingBatch \in Seq(BatchMsg)
        /\ Stops(batchMsgs, excused) /\ Commands(pendingBatch)
    BY DEF BatchInit, Stops, Commands
  <1> QED
    BY <1>1, <1>2, <1>3 DEF BatchInv, RegisteredIn

LEMMA BatchSteps == BatchInv /\ [BatchNext]_batchVars => BatchInv'
  <1> SUFFICES ASSUME BatchInv, [BatchNext]_batchVars
               PROVE  BatchInv'
    OBVIOUS
  <1>1. CASE BatchCallers(BatchIds)
    <2>1. PICK s \in BatchIds : BatchCallers({s})
      BY <1>1 DEF BatchCallers
    <2> QED
      BY <2>1, CallersInv
  <1>2. CASE BatchEvents
    BY <1>2, EventsInv
  <1>3. CASE BatchServed
    BY <1>3, HandledInv, ServedInv, UpInv, DownInv DEF BatchServed
  <1>4. CASE UNCHANGED batchVars
    <2>1. UNCHANGED sessionState /\ excused' = excused /\ batchMsgs' = batchMsgs
          /\ batchRequests' = batchRequests /\ pendingBatch' = pendingBatch
      BY <1>4 DEF batchVars, batchModem
    <2> QED
      BY <2>1, SameSessions DEF BatchInv
  <1> QED
    BY <1>1, <1>2, <1>3, <1>4 DEF BatchNext

\* The event that the batch is full is registered while a session or a trip that the
\* modem runs reports by it, for every number of sessions, clients, messages and
\* crashes, unless the modem refused a stop or answered about a trip that had ended
\* (BatchingAdapter.cpp:376, :392, :516, :872).
THEOREM FullReportedHolds == BatchSpec => []FullReported
  <1>1. BatchInv => FullReported
    BY DEF BatchInv, FullReported, BatchRegistered, RegisteredIn, Counted, Now, NoSession
  <1> QED
    BY <1>1, BatchStarts, BatchSteps, PTL DEF BatchSpec
=============================================================================
