--------------------------- MODULE ObserverProofs ---------------------------
(***************************************************************************)
(* Proofs about the observers: the history of reports (SystemStatus), the  *)
(* data items of the operating system and who is told of them              *)
(* (OsObserver), and the XTRA daemon (XtraObserver), for every number of   *)
(* items, clients, values, messages and restarts.                          *)
(***************************************************************************)
EXTENDS SystemStatus, OsObserver, XtraObserver, TLAPS

-----------------------------------------------------------------------------
(* The history of an item.                                                 *)

Values == ItemValues \cup {0}
Entries == [value : Values, more : Seq(Values)]
History(report) == report \in Seq(Entries) /\ Len(report) <= maxItem

StatusTypeOK ==
  /\ mCache \in [Items -> Seq(Entries)]
  /\ \A i \in Items : Len(mCache[i]) <= maxItem
  /\ said \in [Items -> SUBSET Entries]

StatusInv == StatusTypeOK /\ LatestReported

\* What is pushed is the latest entry, and the oldest makes room for it.
LEMMA PushBackHistory ==
  ASSUME NEW report, History(report), NEW entry \in Entries
  PROVE  /\ History(PushBack(report, entry))
         /\ PushBack(report, entry) # <<>> /\ Last(PushBack(report, entry)) = entry
  <1>0. maxItem \in Nat \ {0}
    BY SystemStatusAssumption
  <1>1. CASE Len(report) = maxItem
    <2> DEFINE t == Tail(report)
    <2>1. t \in Seq(Entries) /\ Len(t) = maxItem - 1
      BY <1>0, <1>1 DEF History
    <2> HIDE DEF t
    <2>2. /\ Append(t, entry) \in Seq(Entries) /\ Len(Append(t, entry)) = maxItem
          /\ Append(t, entry)[maxItem] = entry /\ Append(t, entry) # <<>>
      BY <1>0, <2>1
    <2>3. PushBack(report, entry) = Append(t, entry)
      BY <1>1 DEF PushBack, t
    <2> QED
      BY <1>0, <2>2, <2>3 DEF Last, History
  <1>2. CASE Len(report) # maxItem
    <2>1. /\ Append(report, entry) \in Seq(Entries)
          /\ Len(Append(report, entry)) = Len(report) + 1
          /\ Append(report, entry)[Len(report) + 1] = entry /\ Append(report, entry) # <<>>
      BY DEF History
    <2>2. PushBack(report, entry) = Append(report, entry)
      BY <1>2 DEF PushBack
    <2>3. Len(report) + 1 <= maxItem
      BY <1>0, <1>2 DEF History
    <2> QED
      BY <2>1, <2>2, <2>3 DEF Last, History
  <1> QED
    BY <1>1, <1>2

\* After an entry is set, the latest one says the same, unless it is one that is
\* ignored.
LEMMA SetHistory ==
  ASSUME NEW report, History(report), NEW i, NEW entry \in Entries
  PROVE  LET r == setIteminReport(report, i, entry)
         IN  /\ History(r)
             /\ Ignored(i, entry) \/ (r # <<>> /\ Same(i, entry, Last(r)))
  <1>1. CASE Ignored(i, entry) \/ Unchanged(report, i, entry)
    BY <1>1 DEF setIteminReport, Unchanged
  <1>2. CASE ~(Ignored(i, entry) \/ Unchanged(report, i, entry))
    BY <1>2, PushBackHistory DEF setIteminReport, Same
  <1> QED
    BY <1>1, <1>2

\* What the parsers and the handlers make are entries.
LEMMA ParsedEntryType ==
  ASSUME NEW i, NEW n \in Nat, NEW v \in Values
  PROVE  ParsedEntry(i, n, v) \in Entries
  <1> DEFINE flags == Longer(i, n)
             more == [k \in DOMAIN flags |-> IF flags[k] THEN v ELSE 0]
  <1>1. flags \in Seq(BOOLEAN)
    <2>1. (n >= 2) \in BOOLEAN /\ (n >= 4) \in BOOLEAN /\ (n >= 3) \in BOOLEAN
          /\ (n = 2) \in BOOLEAN
      OBVIOUS
    <2>2. \A a, b \in BOOLEAN : <<a, b>> \in Seq(BOOLEAN) /\ <<a>> \in Seq(BOOLEAN)
      OBVIOUS
    <2>3. <<>> \in Seq(BOOLEAN)
      OBVIOUS
    <2> QED
      BY <2>1, <2>2, <2>3, Zenon DEF Longer
  <1> HIDE DEF flags
  <1>2. Len(flags) \in Nat /\ DOMAIN flags = 1 .. Len(flags)
    BY <1>1
  <1>3. more \in [1 .. Len(flags) -> Values]
    BY <1>2 DEF Values
  <1> HIDE DEF more
  <1>4. more \in Seq(Values)
    BY <1>2, <1>3
  <1>5. ParsedEntry(i, n, v) = [value |-> v, more |-> more]
    BY DEF ParsedEntry, Entry, more, flags
  <1> QED
    BY <1>4, <1>5 DEF Entries

LEMMA ParsedType ==
  ASSUME NEW s, NEW i, NEW n \in Nat, NEW w \in Values
  PROVE  Parsed(s, i, n, w) \in Entries
  <1>1. /\ ParsedEntry(i, n, w) \in Entries /\ ParsedEntry(i, 4, w) \in Entries
        /\ ParsedEntry(i, 0, 0) \in Entries
    BY ParsedEntryType DEF Values
  <1> QED
    BY <1>1 DEF Parsed, DefaultEntry

LEMMA EntryType ==
  ASSUME NEW v \in ItemValues, NEW rest \in ItemValues
  PROVE  Entry(v, <<rest>>) \in Entries /\ Entry(v, <<>>) \in Entries
  BY DEF Entry, Entries, Values

\* The reports of a sentence, of a fix or of a data item: some items get an entry.
LEMMA SaidKeepsReports ==
  ASSUME StatusInv, NEW S \in SUBSET Items, NEW entry \in [S -> Entries],
         mCache' = [i \in Items |-> IF i \in S THEN setIteminReport(mCache[i], i, entry[i])
                                   ELSE mCache[i]],
         \A i \in Items : IF i \in S THEN said'[i] \subseteq {entry[i]} ELSE said'[i] = said[i],
         DOMAIN said' = Items, said' = [i \in Items |-> said'[i]]
  PROVE  StatusInv'
  <1>1. \A i \in Items : History(mCache[i])
    BY DEF StatusInv, StatusTypeOK, History
  <1>2. \A i \in S : /\ History(mCache'[i])
                     /\ Ignored(i, entry[i]) \/
                          (mCache'[i] # <<>> /\ Same(i, entry[i], Last(mCache'[i])))
    BY <1>1, SetHistory
  <1>3. \A i \in Items : i \notin S => mCache'[i] = mCache[i]
    OBVIOUS
  <1>4. StatusTypeOK'
    <2>1. \A i \in Items : said'[i] \in SUBSET Entries
      BY DEF StatusInv, StatusTypeOK
    <2>2. said' \in [Items -> SUBSET Entries]
      BY <2>1
    <2> QED
      BY <1>1, <1>2, <1>3, <2>2 DEF StatusTypeOK, History
  <1>5. LatestReported'
    BY SMTT(30), <1>2, <1>3 DEF StatusInv, LatestReported, getIteminReport
  <1> QED
    BY <1>4, <1>5 DEF StatusInv

LEMMA StatusInvInit == StatusInit => StatusInv
  <1> SUFFICES ASSUME StatusInit PROVE StatusInv
    OBVIOUS
  <1>1. <<>> \in Seq(Entries) /\ Len(<<>>) <= maxItem
    BY SystemStatusAssumption
  <1> QED
    BY <1>1 DEF StatusInit, StatusInv, StatusTypeOK, LatestReported

LEMMA SentenceStep ==
  ASSUME StatusInv, NEW s \in Sentences, NEW v \in ItemValues, NEW n \in Lengths(s),
         setNmeaString(s, n, v)
  PROVE  StatusInv'
  <1>1. n \in Nat
    BY DEF Lengths
  <1>2. PICK w \in Garbled(n, v) :
          /\ mCache' = [i \in Items |-> IF i \notin SentenceItems[s] THEN mCache[i]
                                        ELSE setIteminReport(mCache[i], i, Parsed(s, i, n, w))]
          /\ said' = [i \in Items |-> IF i \notin SentenceItems[s] THEN said[i]
                                      ELSE IF n = 0 THEN {} ELSE {Parsed(s, i, n, w)}]
    BY DEF setNmeaString
  <1>3. w \in Values
    BY <1>2 DEF Garbled, Values
  <1> DEFINE S == SentenceItems[s]
             e == [i \in S |-> Parsed(s, i, n, w)]
  <1>4. S \subseteq Items
    BY DEF Items, EngineItems
  <1>5. e \in [S -> Entries] /\ \A i \in S : e[i] = Parsed(s, i, n, w)
    BY <1>1, <1>3, ParsedType
  <1> HIDE DEF S, e
  <1>6. mCache' = [i \in Items |-> IF i \in S THEN setIteminReport(mCache[i], i, e[i])
                                  ELSE mCache[i]]
    BY <1>2, <1>5 DEF S
  <1>7. \A i \in Items : IF i \in S THEN said'[i] \subseteq {e[i]} ELSE said'[i] = said[i]
    BY <1>2, <1>5 DEF S
  <1>8. DOMAIN said' = Items /\ said' = [i \in Items |-> said'[i]]
    BY <1>2
  <1> QED
    BY <1>4, <1>5, <1>6, <1>7, <1>8, SaidKeepsReports

LEMMA SaidStep ==
  ASSUME StatusInv, NEW i \in Items, NEW entry \in Entries, Said(i, entry)
  PROVE  StatusInv'
  <1> DEFINE e == [k \in {i} |-> entry]
  <1>1. e \in [{i} -> Entries] /\ e[i] = entry
    OBVIOUS
  <1> HIDE DEF e
  <1>2. mCache' = [k \in Items |-> IF k \in {i} THEN setIteminReport(mCache[k], k, e[k])
                                  ELSE mCache[k]]
    BY <1>1 DEF Said, StatusInv, StatusTypeOK
  <1>3. \A k \in Items : IF k \in {i} THEN said'[k] \subseteq {e[k]} ELSE said'[k] = said[k]
    BY <1>1 DEF Said, StatusInv, StatusTypeOK
  <1>4. DOMAIN said' = Items /\ said' = [k \in Items |-> said'[k]]
    BY DEF Said, StatusInv, StatusTypeOK
  <1> QED
    BY <1>1, <1>2, <1>3, <1>4, SaidKeepsReports

\* All aiding data was deleted: the entry is made even if it says nothing new.
LEMMA DefaultStep == StatusInv /\ setDefaultGnssEngineStates => StatusInv'
  <1> SUFFICES ASSUME StatusInv, setDefaultGnssEngineStates PROVE StatusInv'
    OBVIOUS
  <1>1. \A i \in Items : DefaultEntry(i) \in Entries
    BY ParsedEntryType DEF DefaultEntry, Values
  <1>2. \A i \in Items : History(mCache[i])
    BY DEF StatusInv, StatusTypeOK, History
  <1>3. \A i \in Items :
          mCache'[i] = IF i \in EngineItems THEN PushBack(mCache[i], DefaultEntry(i)) ELSE mCache[i]
    BY DEF setDefaultGnssEngineStates
  <1>4. \A i \in EngineItems : /\ History(mCache'[i])
                               /\ mCache'[i] # <<>> /\ Last(mCache'[i]) = DefaultEntry(i)
    BY <1>1, <1>2, <1>3, PushBackHistory DEF Items
  <1>5. StatusTypeOK'
    <2>1. said' \in [Items -> SUBSET Entries]
      BY <1>1 DEF setDefaultGnssEngineStates, StatusInv, StatusTypeOK
    <2>2. mCache' \in [Items -> Seq(Entries)]
      BY <1>2, <1>3, <1>4 DEF setDefaultGnssEngineStates, History, Items
    <2> QED
      BY <1>2, <1>3, <1>4, <2>1, <2>2 DEF StatusTypeOK, History
  <1>6. LatestReported'
    BY <1>3, <1>4
    DEF StatusInv, LatestReported, getIteminReport, setDefaultGnssEngineStates, Same
  <1> QED
    BY <1>5, <1>6 DEF StatusInv

LEMMA StatusInvStep == StatusInv /\ [StatusNext]_statusVars => StatusInv'
  <1> SUFFICES ASSUME StatusInv, [StatusNext]_statusVars PROVE StatusInv'
    OBVIOUS
  <1>1. ASSUME UNCHANGED reportVars PROVE StatusInv'
    BY <1>1 DEF reportVars, StatusInv, StatusTypeOK, LatestReported, getIteminReport
  <1>2. CASE UNCHANGED statusVars
    BY <1>1, <1>2 DEF statusVars
  <1>3. CASE SentencesNext(Sentences)
    BY <1>3, SentenceStep DEF SentencesNext
  <1>4. ASSUME NEW v \in ItemValues, NEW rest \in ItemValues, eventPosition(v, rest)
        PROVE  StatusInv'
    BY <1>4, EntryType, SaidStep DEF eventPosition, Items, EngineItems
  <1>5. ASSUME NEW i \in OsItems, NEW v \in ItemValues, eventDataItemNotify(i, v)
        PROVE  StatusInv'
    BY <1>5, EntryType, SaidStep DEF eventDataItemNotify, Items
  <1>6. CASE NetworkEvent
    BY <1>1, <1>6 DEF NetworkEvent
  <1> QED
    BY <1>2, <1>3, <1>4, <1>5, <1>6, DefaultStep DEF StatusNext, OthersNext

\* The latest report of every item is what was last said of it, whatever sentences,
\* fixes, data items and deletions came, and no history outgrows its limit.
THEOREM StatusLatest ==
  StatusSpec => [](LatestReported /\ \A i \in Items : Len(mCache[i]) <= maxItem)
  <1>1. StatusInv => LatestReported /\ \A i \in Items : Len(mCache[i]) <= maxItem
    BY DEF StatusInv, StatusTypeOK
  <1> QED
    BY <1>1, StatusInvInit, StatusInvStep, PTL DEF StatusSpec

-----------------------------------------------------------------------------
(* The observer of the operating system.                                   *)

ClientOps == {"subscribe", "requestData", "updateSubscription", "unsubscribe", "unsubscribeAll"}
ObserverOps == ClientOps \cup
  {"notifyItems", "setSubscriptionObj", "turnOn", "turnOff", "connect", "disconnect"}
ObserverMsg ==
  {m \in [op : ObserverOps, client : Observers \cup {{}}, items : SUBSET DataItems, value : 0 .. MaxValue] :
     /\ m.op \in ClientOps => m.client \in Observers
     /\ m.op = "notifyItems" => m.value # 0}

ClientMaps == [Observers -> SUBSET DataItems]
ItemMaps == [DataItems -> SUBSET Observers]
ObserverTypeOK ==
  /\ mClientToDataItems \in ClientMaps
  /\ mDataItemToClients \in ItemMaps
  /\ mDataItemCache \in [DataItems -> 0 .. MaxValue]
  /\ received \in [Observers -> [DataItems -> 0 .. MaxValue]]
  /\ observerMsgs \in Seq(ObserverMsg)
  /\ mActiveRequestCount \in [DataItems -> Nat]
  /\ modulesOn \in SUBSET DataItems

\* Nobody was told a value of an item that never had one.
NoValueYet == \A c \in Observers, d \in DataItems : mDataItemCache[d] = 0 => received[c][d] = 0

\* Once ms is done, module d is on: its last message turns it on, or it has none
\* and is on.
TurnsModule(m, d) == m.op \in {"turnOn", "turnOff"} /\ d \in m.items
OnAfter(ms, d, modules) ==
  \/ d \in modules /\ \A i \in DOMAIN ms : ~TurnsModule(ms[i], d)
  \/ \E i \in DOMAIN ms : /\ TurnsModule(ms[i], d) /\ ms[i].op = "turnOn"
                          /\ \A j \in DOMAIN ms : j > i => ~TurnsModule(ms[j], d)
CountsFollow ==
  \A d \in DataItems : OnAfter(observerMsgs, d, modulesOn) <=> mActiveRequestCount[d] > 0

ItemsInv == ObserverTypeOK /\ NoValueYet /\ LatestTold
ObserverInv == ItemsInv /\ CountsFollow

LEMMA QueueTaken ==
  ASSUME NEW S, NEW s \in Seq(S), s # <<>>
  PROVE  /\ Tail(s) \in Seq(S) /\ Head(s) \in S /\ Head(s) = s[1] /\ 1 \in DOMAIN s
         /\ \A i \in DOMAIN s : i # 1 => i - 1 \in DOMAIN Tail(s) /\ Tail(s)[i - 1] = s[i]
         /\ \A i \in DOMAIN Tail(s) : i + 1 \in DOMAIN s /\ Tail(s)[i] = s[i + 1]
         /\ DOMAIN s \subseteq Nat \ {0} /\ DOMAIN Tail(s) \subseteq Nat \ {0}
  OBVIOUS

LEMMA QueueSent ==
  ASSUME NEW S, NEW s \in Seq(S), NEW e \in S
  PROVE  /\ Append(s, e) \in Seq(S)
         /\ DOMAIN Append(s, e) = DOMAIN s \cup {Len(s) + 1} /\ Append(s, e)[Len(s) + 1] = e
         /\ \A i \in DOMAIN s : Append(s, e)[i] = s[i] /\ i < Len(s) + 1
         /\ DOMAIN s \subseteq Nat /\ Len(s) + 1 \in Nat
  OBVIOUS

\* A message that waits decides for the module it is about, and for no other.
LEMMA OnAfterSent ==
  ASSUME NEW ms \in Seq(ObserverMsg), NEW m \in ObserverMsg, NEW d, NEW modules
  PROVE  OnAfter(Append(ms, m), d, modules) <=>
           IF TurnsModule(m, d) THEN m.op = "turnOn" ELSE OnAfter(ms, d, modules)
  <1> DEFINE t == Append(ms, m)
             last == Len(ms) + 1
  <1>1. /\ DOMAIN t = DOMAIN ms \cup {last} /\ t[last] = m
        /\ \A i \in DOMAIN ms : t[i] = ms[i] /\ i < last
        /\ DOMAIN ms \subseteq Nat /\ last \in Nat
    BY QueueSent
  <1> HIDE DEF t, last
  <1>2. ASSUME TurnsModule(m, d) PROVE OnAfter(t, d, modules) <=> m.op = "turnOn"
    <2>1. \A j \in DOMAIN t : ~(j > last)
      BY <1>1
    <2>2. \A i \in DOMAIN t : i = last \/ last > i
      BY <1>1
    <2>3. last \in DOMAIN t
      BY <1>1
    <2> QED
      BY <1>1, <1>2, <2>1, <2>2, <2>3 DEF OnAfter
  <1>3. ASSUME ~TurnsModule(m, d) PROVE OnAfter(t, d, modules) <=> OnAfter(ms, d, modules)
    BY <1>1, <1>3 DEF OnAfter
  <1> QED
    BY <1>2, <1>3 DEF t

\* A message that is taken does what it says, and nothing else turns a module.
LEMMA OnAfterTaken ==
  ASSUME NEW ms \in Seq(ObserverMsg), ms # <<>>, NEW d, NEW before, NEW after,
         d \in after <=> IF TurnsModule(Head(ms), d) THEN Head(ms).op = "turnOn" ELSE d \in before
  PROVE  OnAfter(Tail(ms), d, after) <=> OnAfter(ms, d, before)
  <1> DEFINE t == Tail(ms)
             m == Head(ms)
  <1>1. /\ m = ms[1] /\ 1 \in DOMAIN ms
        /\ \A i \in DOMAIN ms : i # 1 => i - 1 \in DOMAIN t /\ t[i - 1] = ms[i]
        /\ \A i \in DOMAIN t : i + 1 \in DOMAIN ms /\ t[i] = ms[i + 1]
        /\ DOMAIN ms \subseteq Nat \ {0} /\ DOMAIN t \subseteq Nat \ {0}
    BY QueueTaken
  <1> HIDE DEF t, m
  <1>2. ASSUME OnAfter(t, d, after) PROVE OnAfter(ms, d, before)
    <2>1. CASE d \in after /\ \A i \in DOMAIN t : ~TurnsModule(t[i], d)
      <3>1. \A i \in DOMAIN ms : i # 1 => ~TurnsModule(ms[i], d)
        BY <1>1, <2>1
      <3>2. \A i \in DOMAIN ms : i > 1 => ~TurnsModule(ms[i], d)
        BY <1>1, <3>1
      <3> QED
        BY <1>1, <2>1, <3>1, <3>2 DEF OnAfter, m
    <2>2. ASSUME NEW i \in DOMAIN t, TurnsModule(t[i], d), t[i].op = "turnOn",
                 \A j \in DOMAIN t : j > i => ~TurnsModule(t[j], d)
          PROVE  OnAfter(ms, d, before)
      <3>1. i + 1 \in DOMAIN ms /\ ms[i + 1] = t[i]
        BY <1>1
      <3>2. ASSUME NEW j \in DOMAIN ms, j > i + 1 PROVE ~TurnsModule(ms[j], d)
        <4>1. j # 1 /\ j - 1 > i
          BY <1>1, <3>2
        <4> QED
          BY <1>1, <2>2, <4>1
      <3> DEFINE k == i + 1
      <3>3. k \in DOMAIN ms /\ ms[k] = t[i] /\ \A j \in DOMAIN ms : j > k => ~TurnsModule(ms[j], d)
        BY <3>1, <3>2
      <3> HIDE DEF k
      <3> QED
        BY <2>2, <3>3 DEF OnAfter
    <2> QED
      BY <1>2, <2>1, <2>2 DEF OnAfter
  <1>3. ASSUME OnAfter(ms, d, before) PROVE OnAfter(t, d, after)
    <2>1. CASE d \in before /\ \A i \in DOMAIN ms : ~TurnsModule(ms[i], d)
      BY <1>1, <2>1 DEF OnAfter, m
    <2>2. ASSUME NEW i \in DOMAIN ms, TurnsModule(ms[i], d), ms[i].op = "turnOn",
                 \A j \in DOMAIN ms : j > i => ~TurnsModule(ms[j], d)
          PROVE  OnAfter(t, d, after)
      <3>1. CASE i = 1
        <4>1. \A j \in DOMAIN t : ~TurnsModule(t[j], d)
          <5> SUFFICES ASSUME NEW j \in DOMAIN t PROVE ~TurnsModule(t[j], d)
            OBVIOUS
          <5>1. j + 1 \in DOMAIN ms /\ t[j] = ms[j + 1] /\ j + 1 > i
            BY <1>1, <3>1
          <5> QED
            BY <2>2, <5>1
        <4> QED
          BY <1>1, <2>2, <3>1, <4>1 DEF OnAfter, m
      <3>2. CASE i # 1
        <4> DEFINE k == i - 1
        <4>1. k \in DOMAIN t /\ t[k] = ms[i]
          BY <1>1, <3>2
        <4>2. ASSUME NEW j \in DOMAIN t, j > k PROVE ~TurnsModule(t[j], d)
          <5>1. j + 1 \in DOMAIN ms /\ t[j] = ms[j + 1] /\ j + 1 > i
            BY <1>1, <4>2
          <5> QED
            BY <2>2, <5>1
        <4> HIDE DEF k
        <4> QED
          BY <2>2, <4>1, <4>2 DEF OnAfter
      <3> QED
        BY <3>1, <3>2
    <2> QED
      BY <1>3, <2>1, <2>2 DEF OnAfter
  <1> QED
    BY <1>2, <1>3 DEF t

LEMMA ObserverInvInit == ObserverInit => ObserverInv
  <1> SUFFICES ASSUME ObserverInit PROVE ObserverInv
    OBVIOUS
  <1>1. <<>> \in Seq(ObserverMsg) /\ DOMAIN <<>> = {}
    OBVIOUS
  <1>2. 0 \in 0 .. MaxValue
    BY ObserverAssumption
  <1>3. ObserverTypeOK
    BY <1>1, <1>2 DEF ObserverInit, ObserverTypeOK, ClientMaps, ItemMaps
  <1>4. NoValueYet /\ LatestTold
    BY DEF ObserverInit, NoValueYet, LatestTold
  <1>5. CountsFollow
    BY <1>1 DEF ObserverInit, CountsFollow, OnAfter
  <1> QED
    BY <1>3, <1>4, <1>5 DEF ObserverInv, ItemsInv

\* A message of a client or of the framework waits; it turns no module.
LEMMA PostKeeps ==
  ASSUME ObserverInv, NEW m \in ObserverMsg, m.op \notin {"turnOn", "turnOff"}, PostObserver(m)
  PROVE  ObserverInv'
  <1>1. /\ UNCHANGED <<itemVars, actionVars>> /\ observerMsgs' = Append(observerMsgs, m)
        /\ observerMsgs \in Seq(ObserverMsg)
    BY DEF PostObserver, SendObserver, ObserverInv, ItemsInv, ObserverTypeOK
  <1>2. observerMsgs' \in Seq(ObserverMsg)
    BY <1>1, QueueSent
  <1>3. ItemsInv'
    BY <1>1, <1>2
    DEF ObserverInv, ItemsInv, ObserverTypeOK, NoValueYet, LatestTold, itemVars, maps, actionVars
  <1>4. \A d : ~TurnsModule(m, d)
    BY DEF TurnsModule
  <1>5. \A d : OnAfter(observerMsgs', d, modulesOn) <=> OnAfter(observerMsgs, d, modulesOn)
    BY <1>1, <1>4, OnAfterSent
  <1>6. CountsFollow'
    BY <1>1, <1>5 DEF ObserverInv, CountsFollow, actionVars
  <1> QED
    BY <1>3, <1>6 DEF ObserverInv

\* What the thread takes is a message, and the modules are turned by no other.
LEMMA TakeKeeps ==
  ASSUME ObserverInv, NEW op, TakeObserver(op)
  PROVE  /\ observerMsgs' \in Seq(ObserverMsg)
         /\ Head(observerMsgs) \in ObserverMsg /\ Head(observerMsgs).op = op
         /\ op \notin {"turnOn", "turnOff"} /\ UNCHANGED actionVars => CountsFollow'
  <1>1. /\ observerMsgs \in Seq(ObserverMsg) /\ observerMsgs # <<>>
        /\ observerMsgs' = Tail(observerMsgs) /\ Head(observerMsgs).op = op
    BY DEF TakeObserver, ObserverInv, ItemsInv, ObserverTypeOK
  <1>2. Tail(observerMsgs) \in Seq(ObserverMsg) /\ Head(observerMsgs) \in ObserverMsg
    BY <1>1, QueueTaken
  <1>3. ASSUME op \notin {"turnOn", "turnOff"}, UNCHANGED actionVars PROVE CountsFollow'
    <2>1. \A d : ~TurnsModule(Head(observerMsgs), d)
      BY <1>1, <1>3 DEF TurnsModule
    <2>2. \A d : OnAfter(observerMsgs', d, modulesOn) <=> OnAfter(observerMsgs, d, modulesOn)
      BY <1>1, <2>1, OnAfterTaken
    <2> QED
      BY <1>3, <2>2 DEF ObserverInv, CountsFollow, actionVars
  <1> QED
    BY <1>1, <1>2, <1>3

\* The handlers of the items change the maps, the cache and what was sent.
LEMMA HandledKeeps ==
  ASSUME ObserverInv, NEW op, op \notin {"turnOn", "turnOff"}, TakeObserver(op), UNCHANGED actionVars,
         mClientToDataItems' \in ClientMaps,
         mDataItemToClients' \in ItemMaps,
         mDataItemCache' \in [DataItems -> 0 .. MaxValue],
         received' \in [Observers -> [DataItems -> 0 .. MaxValue]],
         \A c \in Observers, d \in DataItems : mDataItemCache'[d] = 0 => received'[c][d] = 0,
         \A c \in Observers, d \in DataItems :
           d \in mClientToDataItems'[c] /\ c \in mDataItemToClients'[d] =>
             received'[c][d] = mDataItemCache'[d]
  PROVE  ObserverInv'
  <1>1. observerMsgs' \in Seq(ObserverMsg) /\ CountsFollow'
    BY TakeKeeps
  <1>2. mActiveRequestCount' = mActiveRequestCount /\ modulesOn' = modulesOn
    BY DEF actionVars
  <1>3. ObserverTypeOK'
    <2>1. mActiveRequestCount' \in [DataItems -> Nat] /\ modulesOn' \in SUBSET DataItems
      BY <1>2 DEF ObserverInv, ItemsInv, ObserverTypeOK
    <2> QED
      BY <1>1, <2>1 DEF ObserverTypeOK, ClientMaps, ItemMaps
  <1>4. NoValueYet'
    BY DEF NoValueYet
  <1>5. LatestTold'
    BY <1>3 DEF LatestTold, ObserverTypeOK, ClientMaps
  <1> QED
    BY <1>1, <1>3, <1>4, <1>5 DEF ObserverInv, ItemsInv

\* What a taken message of a client says.
LEMMA TakenFrom ==
  ASSUME ObserverInv, NEW op \in ClientOps, TakeObserver(op)
  PROVE  Head(observerMsgs).client \in Observers /\ Head(observerMsgs).items \in SUBSET DataItems
  BY TakeKeeps DEF ObserverMsg

\* A client is sent the value of each of the items that has one.
LEMMA CachedSent ==
  ASSUME ObserverTypeOK, NEW items, NEW client \in Observers, sendCachedDataItems(items, client)
  PROVE  /\ received' \in [Observers -> [DataItems -> 0 .. MaxValue]]
         /\ \A c \in Observers, d \in DataItems : received'[c][d] =
              IF c = client /\ d \in items /\ mDataItemCache[d] # 0 THEN mDataItemCache[d]
              ELSE received[c][d]
  <1> DEFINE told == [d \in DataItems |-> IF d \in items /\ mDataItemCache[d] # 0
                                         THEN mDataItemCache[d] ELSE received[client][d]]
  <1>1. told \in [DataItems -> 0 .. MaxValue]
    BY DEF ObserverTypeOK
  <1>2. received' = [received EXCEPT ![client] = told]
    BY DEF sendCachedDataItems
  <1>3. \A d \in DataItems : told[d] = IF d \in items /\ mDataItemCache[d] # 0
                                       THEN mDataItemCache[d] ELSE received[client][d]
    OBVIOUS
  <1> HIDE DEF told
  <1> QED
    BY <1>1, <1>2, <1>3 DEF ObserverTypeOK

LEMMA SubscribeStep ==
  ASSUME ObserverInv, NEW op \in {"subscribe", "requestData"}, SubscribeWith(op), UNCHANGED actionVars
  PROVE  ObserverInv'
  <1> DEFINE items == Head(observerMsgs).items
             client == Head(observerMsgs).client
  <1>1. /\ client \in Observers /\ items \in SUBSET DataItems
        /\ TakeObserver(op) /\ op \notin {"turnOn", "turnOff"}
    BY TakenFrom DEF SubscribeWith, ClientOps
  <1>2. /\ mDataItemToClients' = Added(mDataItemToClients, items, {client})
        /\ mClientToDataItems' = Added(mClientToDataItems, {client}, items)
        /\ sendCachedDataItems(items, client) /\ UNCHANGED mDataItemCache
    BY DEF SubscribeWith
  <1> HIDE DEF items, client
  <1>3. /\ mClientToDataItems \in ClientMaps
        /\ mDataItemToClients \in ItemMaps
        /\ mDataItemCache \in [DataItems -> 0 .. MaxValue] /\ ObserverTypeOK
    BY DEF ObserverInv, ItemsInv, ObserverTypeOK
  <1>4. /\ mClientToDataItems' \in ClientMaps
        /\ \A c \in Observers : c # client => mClientToDataItems'[c] = mClientToDataItems[c]
        /\ mClientToDataItems'[client] = mClientToDataItems[client] \cup items
    <2>1. mClientToDataItems' = [c \in Observers |-> IF c = client THEN mClientToDataItems[c] \cup items
                                                    ELSE mClientToDataItems[c]]
      BY <1>2, <1>3 DEF Added, ClientMaps
    <2> QED
      BY <1>1, <1>3, <2>1 DEF ClientMaps
  <1>5. /\ mDataItemToClients' \in ItemMaps
        /\ \A d \in DataItems : mDataItemToClients'[d] =
             IF d \in items THEN mDataItemToClients[d] \cup {client} ELSE mDataItemToClients[d]
    <2>1. mDataItemToClients' = [d \in DataItems |->
            IF d \in items THEN mDataItemToClients[d] \cup {client} ELSE mDataItemToClients[d]]
      BY <1>2, <1>3 DEF Added, ItemMaps
    <2> QED
      BY <1>1, <1>3, <2>1 DEF ItemMaps
  <1>6. /\ received' \in [Observers -> [DataItems -> 0 .. MaxValue]]
        /\ \A c \in Observers, d \in DataItems : received'[c][d] =
             IF c = client /\ d \in items /\ mDataItemCache[d] # 0 THEN mDataItemCache[d]
             ELSE received[c][d]
    BY <1>1, <1>2, <1>3, CachedSent
  <1>7. \A c \in Observers, d \in DataItems : mDataItemCache'[d] = 0 => received'[c][d] = 0
    BY <1>2, <1>6 DEF ObserverInv, ItemsInv, NoValueYet
  <1>8. \A c \in Observers, d \in DataItems :
          d \in mClientToDataItems'[c] /\ c \in mDataItemToClients'[d] =>
            received'[c][d] = mDataItemCache'[d]
    <2> SUFFICES ASSUME NEW c \in Observers, NEW d \in DataItems,
                        d \in mClientToDataItems'[c], c \in mDataItemToClients'[d]
                 PROVE  received'[c][d] = mDataItemCache[d]
      BY <1>2
    <2>1. CASE c = client /\ d \in items
      BY <1>6, <2>1 DEF ObserverInv, ItemsInv, NoValueYet
    <2>2. CASE ~(c = client /\ d \in items)
      <3>1. d \in mClientToDataItems[c] /\ c \in mDataItemToClients[d]
        BY <1>1, <1>4, <1>5, <2>2
      <3> QED
        BY <1>6, <2>2, <3>1 DEF ObserverInv, ItemsInv, LatestTold
    <2> QED
      BY <2>1, <2>2
  <1>9. mDataItemCache' \in [DataItems -> 0 .. MaxValue]
    BY <1>2, <1>3
  <1> QED
    BY <1>1, <1>4, <1>5, <1>6, <1>7, <1>8, <1>9, HandledKeeps

\* The items a client asks for anew are sent; those it already had are not, but it
\* is no longer among their clients.
LEMMA UpdateSubscriptionStep ==
  ASSUME ObserverInv, HandleUpdateSubscriptionReq, UNCHANGED actionVars
  PROVE  ObserverInv'
  <1> DEFINE items == Head(observerMsgs).items
             client == Head(observerMsgs).client
             common == UpdateReturns(mClientToDataItems, client, items)
             trimmed == Trimmed(mDataItemToClients, common, {client})
             fresh == items \ common
  <1>1. /\ client \in Observers /\ items \in SUBSET DataItems
        /\ TakeObserver("updateSubscription")
    BY TakenFrom DEF HandleUpdateSubscriptionReq, ClientOps
  <1>2. /\ mClientToDataItems' = [mClientToDataItems EXCEPT ![client] = items]
        /\ mDataItemToClients' = Added(trimmed, fresh, {client})
        /\ sendCachedDataItems(fresh, client) /\ UNCHANGED mDataItemCache
    BY DEF HandleUpdateSubscriptionReq
  <1> HIDE DEF items, client
  <1>3. /\ mClientToDataItems \in ClientMaps
        /\ mDataItemToClients \in ItemMaps
        /\ mDataItemCache \in [DataItems -> 0 .. MaxValue] /\ ObserverTypeOK
    BY DEF ObserverInv, ItemsInv, ObserverTypeOK
  <1>4. /\ mClientToDataItems' \in ClientMaps
        /\ \A c \in Observers : c # client => mClientToDataItems'[c] = mClientToDataItems[c]
        /\ mClientToDataItems'[client] = items
    BY <1>1, <1>2, <1>3 DEF ClientMaps
  <1>5. /\ trimmed \in ItemMaps
        /\ \A d \in DataItems : trimmed[d] =
             IF d \in common THEN mDataItemToClients[d] \ {client} ELSE mDataItemToClients[d]
    <2>1. trimmed = [d \in DataItems |-> IF d \in common THEN mDataItemToClients[d] \ {client}
                                        ELSE mDataItemToClients[d]]
      BY <1>3 DEF Trimmed, ItemMaps
    <2> HIDE DEF trimmed
    <2> QED
      BY <1>3, <2>1 DEF ItemMaps
  <1> HIDE DEF trimmed
  <1>6. /\ mDataItemToClients' \in ItemMaps
        /\ \A d \in DataItems : mDataItemToClients'[d] =
             IF d \in fresh THEN trimmed[d] \cup {client} ELSE trimmed[d]
    <2>1. mDataItemToClients' = [d \in DataItems |-> IF d \in fresh THEN trimmed[d] \cup {client}
                                                    ELSE trimmed[d]]
      BY <1>2, <1>5 DEF Added, ItemMaps
    <2> QED
      BY <1>1, <1>5, <2>1 DEF ItemMaps
  <1> HIDE DEF common
  <1>7. /\ received' \in [Observers -> [DataItems -> 0 .. MaxValue]]
        /\ \A c \in Observers, d \in DataItems : received'[c][d] =
             IF c = client /\ d \in fresh /\ mDataItemCache[d] # 0 THEN mDataItemCache[d]
             ELSE received[c][d]
    BY <1>1, <1>2, <1>3, CachedSent
  <1>8. \A c \in Observers, d \in DataItems : mDataItemCache'[d] = 0 => received'[c][d] = 0
    BY <1>2, <1>7 DEF ObserverInv, ItemsInv, NoValueYet
  <1>9. \A c \in Observers, d \in DataItems :
          d \in mClientToDataItems'[c] /\ c \in mDataItemToClients'[d] =>
            received'[c][d] = mDataItemCache'[d]
    <2> SUFFICES ASSUME NEW c \in Observers, NEW d \in DataItems,
                        d \in mClientToDataItems'[c], c \in mDataItemToClients'[d]
                 PROVE  received'[c][d] = mDataItemCache[d]
      BY <1>2
    <2>1. CASE c = client
      <3>1. d \in fresh
        BY <1>4, <1>5, <1>6, <2>1
      <3> QED
        BY <1>7, <2>1, <3>1 DEF ObserverInv, ItemsInv, NoValueYet
    <2>2. CASE c # client
      <3>1. d \in mClientToDataItems[c] /\ c \in mDataItemToClients[d]
        BY <1>4, <1>5, <1>6, <2>2
      <3> QED
        BY <1>7, <2>2, <3>1 DEF ObserverInv, ItemsInv, LatestTold
    <2> QED
      BY <2>1, <2>2
  <1>10. mDataItemCache' \in [DataItems -> 0 .. MaxValue]
    BY <1>2, <1>3
  <1> QED
    BY <1>1, <1>4, <1>6, <1>7, <1>8, <1>9, <1>10, HandledKeeps

LEMMA UnsubscribeStep ==
  ASSUME ObserverInv, NEW op \in {"unsubscribe", "unsubscribeAll"}, TakeObserver(op),
         NEW client, NEW items, Unsubscribe(client, items),
         UNCHANGED <<mDataItemCache, received>>, UNCHANGED actionVars
  PROVE  ObserverInv'
  <1> DEFINE unused == items \cap mClientToDataItems[client]
  <1>1. /\ mClientToDataItems' = Trimmed(mClientToDataItems, {client}, items)
        /\ mDataItemToClients' = Trimmed(mDataItemToClients, unused, {client})
    BY DEF Unsubscribe
  <1> HIDE DEF unused
  <1>2. ObserverTypeOK
    BY DEF ObserverInv, ItemsInv
  <1>3. /\ mClientToDataItems' \in ClientMaps
        /\ \A c \in Observers : mClientToDataItems'[c] \subseteq mClientToDataItems[c]
    <2>1. mClientToDataItems' = [c \in Observers |-> IF c = client THEN mClientToDataItems[c] \ items
                                                    ELSE mClientToDataItems[c]]
      BY <1>1, <1>2 DEF Trimmed, ObserverTypeOK, ClientMaps
    <2> QED
      BY <1>2, <2>1 DEF ObserverTypeOK, ClientMaps
  <1>4. /\ mDataItemToClients' \in ItemMaps
        /\ \A d \in DataItems : mDataItemToClients'[d] \subseteq mDataItemToClients[d]
    <2>1. mDataItemToClients' = [d \in DataItems |->
            IF d \in unused THEN mDataItemToClients[d] \ {client} ELSE mDataItemToClients[d]]
      BY <1>1, <1>2 DEF Trimmed, ObserverTypeOK, ItemMaps
    <2> QED
      BY <1>2, <2>1 DEF ObserverTypeOK, ItemMaps
  <1>5. /\ mDataItemCache' \in [DataItems -> 0 .. MaxValue]
        /\ received' \in [Observers -> [DataItems -> 0 .. MaxValue]]
    BY <1>2 DEF ObserverTypeOK
  <1>6. \A c \in Observers, d \in DataItems :
          d \in mClientToDataItems'[c] /\ c \in mDataItemToClients'[d] =>
            received'[c][d] = mDataItemCache'[d]
    BY <1>3, <1>4 DEF ObserverInv, ItemsInv, LatestTold
  <1>7. \A c \in Observers, d \in DataItems : mDataItemCache'[d] = 0 => received'[c][d] = 0
    BY DEF ObserverInv, ItemsInv, NoValueYet
  <1>8. op \notin {"turnOn", "turnOff"}
    OBVIOUS
  <1> QED
    BY <1>3, <1>4, <1>5, <1>6, <1>7, <1>8, HandledKeeps

\* A new value reaches everyone both maps know for the item.
LEMMA NotifyStep ==
  ASSUME ObserverInv, HandleNotify, UNCHANGED actionVars
  PROVE  ObserverInv'
  <1> DEFINE m == Head(observerMsgs)
             changed == updateCache(m.items, m.value)
             told(c) == {d \in changed : (\E e \in changed : c \in mDataItemToClients[e])
                                         /\ d \in mClientToDataItems[c]}
             v == m.value
  <1>1. /\ TakeObserver("notifyItems") /\ UNCHANGED maps
        /\ mDataItemCache' = [d \in DataItems |-> IF d \in changed THEN v ELSE mDataItemCache[d]]
        /\ received' = [c \in Observers |-> [d \in DataItems |-> IF d \in told(c) THEN v
                                                                 ELSE received[c][d]]]
    BY DEF HandleNotify
  <1>2. v \in 0 .. MaxValue /\ v # 0
    BY <1>1, TakeKeeps DEF ObserverMsg
  <1> HIDE DEF m, changed, v
  <1>3. ObserverTypeOK
    BY DEF ObserverInv, ItemsInv
  <1>4. mDataItemCache' \in [DataItems -> 0 .. MaxValue]
    BY <1>1, <1>2, <1>3 DEF ObserverTypeOK
  <1>5. received' \in [Observers -> [DataItems -> 0 .. MaxValue]]
    BY <1>1, <1>2, <1>3 DEF ObserverTypeOK
  <1>6. /\ mClientToDataItems' = mClientToDataItems /\ mDataItemToClients' = mDataItemToClients
        /\ mClientToDataItems' \in ClientMaps
        /\ mDataItemToClients' \in ItemMaps
    BY <1>1, <1>3 DEF maps, ObserverTypeOK
  <1>7. \A c \in Observers, d \in DataItems :
          d \in mClientToDataItems[c] /\ c \in mDataItemToClients[d] =>
            received'[c][d] = mDataItemCache'[d]
    BY <1>1 DEF ObserverInv, ItemsInv, LatestTold
  <1>8. \A c \in Observers, d \in DataItems : mDataItemCache'[d] = 0 => received'[c][d] = 0
    BY <1>1, <1>2 DEF ObserverInv, ItemsInv, NoValueYet
  <1> QED
    BY <1>1, <1>4, <1>5, <1>6, <1>7, <1>8, HandledKeeps

LEMMA ItemsStep == ObserverInv /\ ItemsNext => ObserverInv'
  <1> SUFFICES ASSUME ObserverInv, ItemsNext PROVE ObserverInv'
    OBVIOUS
  <1>0. 0 \in 0 .. MaxValue
    BY ObserverAssumption
  <1>1. ASSUME NEW c \in Observers, Calls(c) \/ unsubscribeAll(c) PROVE ObserverInv'
    <2>1. PICK op \in ClientOps, items \in SUBSET DataItems : PostObserver(VMsg(op, c, items, 0))
      BY <1>1 DEF Calls, unsubscribeAll, ClientOps
    <2>2. VMsg(op, c, items, 0) \in ObserverMsg /\ VMsg(op, c, items, 0).op \notin {"turnOn", "turnOff"}
      BY <1>0, <1>1 DEF VMsg, ObserverMsg, ObserverOps, ClientOps
    <2> QED
      BY <2>1, <2>2, PostKeeps
  <1>2. CASE notifyItems
    <2>1. PICK d \in DataItems, v \in 1 .. MaxValue : PostObserver(VMsg("notifyItems", {}, {d}, v))
      BY <1>2 DEF notifyItems
    <2>2. v \in 0 .. MaxValue /\ v # 0 /\ {d} \in SUBSET DataItems
      BY ObserverAssumption
    <2>3. VMsg("notifyItems", {}, {d}, v) \in ObserverMsg
      BY <2>2 DEF VMsg, ObserverMsg, ObserverOps, ClientOps
    <2>4. VMsg("notifyItems", {}, {d}, v).op = "notifyItems"
      BY DEF VMsg
    <2> QED
      BY <2>1, <2>3, <2>4, PostKeeps
  <1>3. CASE setSubscriptionObj
    <2> DEFINE m == VMsg("setSubscriptionObj", {}, {}, 0)
    <2>1. m \in ObserverMsg /\ m.op \notin {"turnOn", "turnOff"}
      BY <1>0 DEF VMsg, ObserverMsg, ObserverOps, ClientOps
    <2>2. PostObserver(m)
      BY <1>3 DEF setSubscriptionObj
    <2> QED
      BY <2>1, <2>2, PostKeeps
  <1>4. CASE HandleSubscribeReq /\ UNCHANGED actionVars
    BY <1>4, SubscribeStep DEF HandleSubscribeReq
  <1>5. CASE HandleUpdateSubscriptionReq /\ UNCHANGED actionVars
    BY <1>5, UpdateSubscriptionStep
  <1>6. CASE (HandleUnsubscribeReq \/ HandleUnsubscribeAllReq) /\ UNCHANGED actionVars
    <2>1. PICK op \in {"unsubscribe", "unsubscribeAll"} : \E client, items :
            TakeObserver(op) /\ Unsubscribe(client, items) /\ UNCHANGED <<mDataItemCache, received>>
      BY <1>6 DEF HandleUnsubscribeReq, HandleUnsubscribeAllReq
    <2>2. PICK client, items :
            TakeObserver(op) /\ Unsubscribe(client, items) /\ UNCHANGED <<mDataItemCache, received>>
      BY <2>1
    <2> QED
      BY <1>6, <2>1, <2>2, UnsubscribeStep
  <1>7. CASE HandleNotify /\ UNCHANGED actionVars
    BY <1>7, NotifyStep
  <1>8. CASE SetSubsObj /\ UNCHANGED actionVars
    <2>1. TakeObserver("setSubscriptionObj") /\ UNCHANGED <<maps, mDataItemCache, received>>
      BY <1>8 DEF SetSubsObj
    <2>2. observerMsgs' \in Seq(ObserverMsg) /\ CountsFollow'
      BY <1>8, <2>1, TakeKeeps
    <2> QED
      BY <1>8, <2>1, <2>2 DEF ObserverInv, ItemsInv, ObserverTypeOK, NoValueYet, LatestTold,
                             maps, actionVars
  <1> QED
    BY <1>1, <1>2, <1>3, <1>4, <1>5, <1>6, <1>7, <1>8 DEF ItemsNext

\* What the framework is asked does not touch the items.
LEMMA ItemsKept ==
  ASSUME ItemsInv, UNCHANGED itemVars, observerMsgs' \in Seq(ObserverMsg),
         mActiveRequestCount' \in [DataItems -> Nat], modulesOn' \in SUBSET DataItems
  PROVE  ItemsInv'
  BY DEF ItemsInv, ObserverTypeOK, NoValueYet, LatestTold, itemVars, maps

LEMMA AskMessage ==
  ASSUME NEW op \in {"turnOn", "turnOff", "connect", "disconnect"}, NEW items \in SUBSET DataItems
  PROVE  /\ VMsg(op, {}, items, 0) \in ObserverMsg
         /\ \A d : TurnsModule(VMsg(op, {}, items, 0), d) <=> op \in {"turnOn", "turnOff"} /\ d \in items
         /\ VMsg(op, {}, items, 0).op = op
  <1>1. 0 \in 0 .. MaxValue
    BY ObserverAssumption
  <1> QED
    BY <1>1 DEF VMsg, ObserverMsg, ObserverOps, ClientOps, TurnsModule

\* The first request for a module and the last each leave one message; the others
\* none.
LEMMA CountStep ==
  ASSUME ObserverInv, NEW d \in DataItems, NEW n \in Nat, NEW op \in {"turnOn", "turnOff"},
         mActiveRequestCount' = [mActiveRequestCount EXCEPT ![d] = n],
         IF (n > 0) = (mActiveRequestCount[d] > 0) THEN UNCHANGED observerMsgs
         ELSE AskFramework(op, {d}) /\ (op = "turnOn" <=> n > 0),
         UNCHANGED itemVars, UNCHANGED modulesOn
  PROVE  ObserverInv'
  <1> DEFINE m == VMsg(op, {}, {d}, 0)
  <1>1. /\ observerMsgs \in Seq(ObserverMsg) /\ mActiveRequestCount \in [DataItems -> Nat]
        /\ modulesOn \in SUBSET DataItems
    BY DEF ObserverInv, ItemsInv, ObserverTypeOK
  <1>2. mActiveRequestCount' \in [DataItems -> Nat]
    BY <1>1
  <1>3. /\ mActiveRequestCount'[d] = n
        /\ \A k \in DataItems : k # d => mActiveRequestCount'[k] = mActiveRequestCount[k]
    BY <1>1
  <1>4. m \in ObserverMsg /\ m.op = op /\ \A k : TurnsModule(m, k) <=> k = d
    BY AskMessage
  <1> HIDE DEF m
  <1>5. CASE (n > 0) = (mActiveRequestCount[d] > 0)
    <2>1. CountsFollow'
      BY <1>3, <1>5 DEF ObserverInv, CountsFollow
    <2> QED
      BY <1>1, <1>2, <1>5, <2>1, ItemsKept DEF ObserverInv
  <1>6. CASE (n > 0) # (mActiveRequestCount[d] > 0)
    <2>1. observerMsgs' = Append(observerMsgs, m) /\ (op = "turnOn" <=> n > 0)
      BY <1>6 DEF AskFramework, SendObserver, m
    <2>2. observerMsgs' \in Seq(ObserverMsg)
      BY <1>1, <1>4, <2>1, QueueSent
    <2>3. \A k \in DataItems : OnAfter(observerMsgs', k, modulesOn) <=>
            IF k = d THEN op = "turnOn" ELSE OnAfter(observerMsgs, k, modulesOn)
      BY <1>1, <1>4, <2>1, OnAfterSent
    <2>4. CountsFollow'
      BY <1>3, <2>1, <2>3 DEF ObserverInv, CountsFollow
    <2> QED
      BY <1>1, <1>2, <2>2, <2>4, ItemsKept DEF ObserverInv
  <1> QED
    BY <1>5, <1>6

\* The backhaul and the object leave the modules alone.
LEMMA BackhaulAsked ==
  ASSUME ObserverInv, NEW op \in {"connect", "disconnect"},
         AskFramework(op, {}) \/ UNCHANGED observerMsgs,
         UNCHANGED <<itemVars, mActiveRequestCount, modulesOn>>
  PROVE  ObserverInv'
  <1> DEFINE m == VMsg(op, {}, {}, 0)
  <1>1. /\ observerMsgs \in Seq(ObserverMsg) /\ mActiveRequestCount \in [DataItems -> Nat]
        /\ modulesOn \in SUBSET DataItems
    BY DEF ObserverInv, ItemsInv, ObserverTypeOK
  <1>2. m \in ObserverMsg /\ \A k : ~TurnsModule(m, k)
    BY AskMessage
  <1> HIDE DEF m
  <1>3. CASE UNCHANGED observerMsgs
    BY <1>1, <1>3, ItemsKept DEF ObserverInv, CountsFollow
  <1>4. CASE AskFramework(op, {})
    <2>1. observerMsgs' = Append(observerMsgs, m)
      BY <1>4 DEF AskFramework, SendObserver, m
    <2>2. observerMsgs' \in Seq(ObserverMsg)
      BY <1>1, <1>2, <2>1, QueueSent
    <2>3. \A k \in DataItems : OnAfter(observerMsgs', k, modulesOn) <=> OnAfter(observerMsgs, k, modulesOn)
      BY <1>1, <1>2, <2>1, OnAfterSent
    <2>4. CountsFollow'
      BY <2>3 DEF ObserverInv, CountsFollow
    <2> QED
      BY <1>1, <2>2, <2>4, ItemsKept DEF ObserverInv
  <1> QED
    BY <1>3, <1>4

LEMMA ActionsStep == ObserverInv /\ ActionsNext => ObserverInv'
  <1> SUFFICES ASSUME ObserverInv, ActionsNext PROVE ObserverInv'
    OBVIOUS
  <1>0. mActiveRequestCount \in [DataItems -> Nat] /\ modulesOn \in SUBSET DataItems
    BY DEF ObserverInv, ItemsInv, ObserverTypeOK
  <1>1. ASSUME NEW d \in DataItems, turnOn(d) PROVE ObserverInv'
    <2> DEFINE n == mActiveRequestCount[d] + 1
    <2>1. n \in Nat /\ n > 0 /\ (mActiveRequestCount[d] = 0 <=> ~(mActiveRequestCount[d] > 0))
      BY <1>0
    <2>2. /\ mActiveRequestCount' = [mActiveRequestCount EXCEPT ![d] = n]
          /\ IF mActiveRequestCount[d] = 0 THEN AskFramework("turnOn", {d}) ELSE UNCHANGED observerMsgs
          /\ UNCHANGED itemVars /\ UNCHANGED modulesOn
      BY <1>1 DEF turnOn
    <2> HIDE DEF n
    <2> QED
      BY <2>1, <2>2, CountStep
  <1>2. ASSUME NEW d \in DataItems, turnOff(d) PROVE ObserverInv'
    <2> DEFINE n == mActiveRequestCount[d] - 1
    <2>1. /\ n \in Nat /\ mActiveRequestCount[d] > 0
          /\ mActiveRequestCount[d] = 1 <=> ~(n > 0)
      BY <1>0, <1>2 DEF turnOff
    <2>2. /\ mActiveRequestCount' = [mActiveRequestCount EXCEPT ![d] = n]
          /\ IF mActiveRequestCount[d] = 1 THEN AskFramework("turnOff", {d}) ELSE UNCHANGED observerMsgs
          /\ UNCHANGED itemVars /\ UNCHANGED modulesOn
      BY <1>2 DEF turnOff
    <2> HIDE DEF n
    <2> QED
      BY <2>1, <2>2, CountStep
  <1>3. CASE connectBackhaul \/ disconnectBackhaul \/ setFrameworkActionReqObj
    <2>1. PICK op \in {"connect", "disconnect"} : AskFramework(op, {}) \/ UNCHANGED observerMsgs
      BY <1>3 DEF connectBackhaul, disconnectBackhaul, setFrameworkActionReqObj
    <2>2. UNCHANGED <<itemVars, mActiveRequestCount, modulesOn>>
      BY <1>3 DEF connectBackhaul, disconnectBackhaul, setFrameworkActionReqObj
    <2> QED
      BY <2>1, <2>2, BackhaulAsked
  <1>4. CASE HandleTurn
    <2>1. PICK op \in {"turnOn", "turnOff"} :
            /\ TakeObserver(op)
            /\ modulesOn' = IF op = "turnOn" THEN modulesOn \cup Head(observerMsgs).items
                            ELSE modulesOn \ Head(observerMsgs).items
      BY <1>4 DEF HandleTurn
    <2>2. UNCHANGED itemVars /\ UNCHANGED mActiveRequestCount
      BY <1>4 DEF HandleTurn
    <2>3. /\ observerMsgs' \in Seq(ObserverMsg)
          /\ Head(observerMsgs) \in ObserverMsg /\ Head(observerMsgs).op = op
      BY <2>1, TakeKeeps
    <2>4. modulesOn' \in SUBSET DataItems
      BY <1>0, <2>1, <2>3 DEF ObserverMsg
    <2>5. \A d \in DataItems : d \in modulesOn' <=>
            IF TurnsModule(Head(observerMsgs), d) THEN Head(observerMsgs).op = "turnOn" ELSE d \in modulesOn
      BY <2>1, <2>3 DEF TurnsModule
    <2>6. \A d \in DataItems : OnAfter(observerMsgs', d, modulesOn') <=> OnAfter(observerMsgs, d, modulesOn)
      <3>1. /\ observerMsgs \in Seq(ObserverMsg) /\ observerMsgs # <<>>
            /\ observerMsgs' = Tail(observerMsgs)
        BY <2>1 DEF TakeObserver, ObserverInv, ItemsInv, ObserverTypeOK
      <3> DEFINE after == modulesOn'
      <3>2. \A d \in DataItems : d \in after <=>
              IF TurnsModule(Head(observerMsgs), d) THEN Head(observerMsgs).op = "turnOn" ELSE d \in modulesOn
        BY <2>5
      <3> HIDE DEF after
      <3>3. \A d \in DataItems : OnAfter(Tail(observerMsgs), d, after) <=> OnAfter(observerMsgs, d, modulesOn)
        BY <3>1, <3>2, OnAfterTaken
      <3> QED
        BY <3>1, <3>3 DEF after
    <2>7. CountsFollow'
      BY <2>2, <2>6 DEF ObserverInv, CountsFollow
    <2> QED
      BY <1>0, <2>2, <2>3, <2>4, <2>7, ItemsKept DEF ObserverInv
  <1>5. CASE HandleBackhaul
    <2>1. PICK op \in {"connect", "disconnect"} : TakeObserver(op)
      BY <1>5 DEF HandleBackhaul
    <2>2. UNCHANGED itemVars /\ UNCHANGED mActiveRequestCount /\ UNCHANGED modulesOn
      BY <1>5 DEF HandleBackhaul
    <2>3. observerMsgs' \in Seq(ObserverMsg) /\ Head(observerMsgs).op = op
      BY <2>1, TakeKeeps
    <2>4. \A d : ~TurnsModule(Head(observerMsgs), d)
      BY <2>3 DEF TurnsModule
    <2>5. \A d \in DataItems : OnAfter(observerMsgs', d, modulesOn) <=> OnAfter(observerMsgs, d, modulesOn)
      BY <2>1, <2>4, OnAfterTaken DEF TakeObserver, ObserverInv, ItemsInv, ObserverTypeOK
    <2>6. CountsFollow'
      BY <2>2, <2>5 DEF ObserverInv, CountsFollow
    <2> QED
      BY <1>0, <2>2, <2>3, <2>6, ItemsKept DEF ObserverInv
  <1> QED
    BY <1>1, <1>2, <1>3, <1>4, <1>5 DEF ActionsNext

LEMMA ObserverInvStep == ObserverInv /\ [ObserverNext]_observerVars => ObserverInv'
  <1> SUFFICES ASSUME ObserverInv, [ObserverNext]_observerVars PROVE ObserverInv'
    OBVIOUS
  <1>1. CASE UNCHANGED observerVars
    BY <1>1, ItemsKept DEF observerVars, actionVars, ObserverInv, ItemsInv, ObserverTypeOK, CountsFollow
  <1> QED
    BY <1>1, ItemsStep, ActionsStep DEF ObserverNext

\* A client both maps know for an item has its last value, and once the messages
\* are done the modules that are on are those someone still needs, for any clients,
\* items, values and order of their messages.
THEOREM ObserverTold == ObserverSpec => []ObserverServes
  <1>1. ObserverInv => ObserverServes
    <2> SUFFICES ASSUME ObserverInv PROVE ObserverServes
      OBVIOUS
    <2>1. ASSUME observerMsgs = <<>>
          PROVE  modulesOn = {d \in DataItems : mActiveRequestCount[d] > 0}
      <3>1. DOMAIN observerMsgs = {}
        BY <2>1
      <3>2. \A d \in DataItems : d \in modulesOn <=> mActiveRequestCount[d] > 0
        BY <3>1 DEF ObserverInv, CountsFollow, OnAfter
      <3> QED
        BY <3>2 DEF ObserverInv, ItemsInv, ObserverTypeOK
    <2> QED
      BY <2>1 DEF ObserverInv, ItemsInv, ObserverServes, ModulesFollow
  <1> QED
    BY <1>1, ObserverInvInit, ObserverInvStep, PTL DEF ObserverSpec

-----------------------------------------------------------------------------
(* The XTRA daemon.                                                        *)

AnyValue == UNION {XtraValues[f] : f \in XtraFields}
Told == {Null} \cup AnyValue \cup {Recorded("lock", v) : v \in XtraValues["lock"]}
XtraMsg ==
  {m \in [op : {"update"}, field : XtraFields, value : AnyValue] : m.value \in XtraValues[m.field]}
    \cup [op : {"requestStatus"}, updated : BOOLEAN]
Datagram ==
  [op : {"halinit"}] \cup [op : {"update"}, field : XtraFields, value : Told]
    \cup [op : {"respondStatus"}, fields : [XtraFields -> Told]]

XtraTypeOK ==
  /\ fields \in [XtraFields -> Told] /\ view \in [XtraFields -> Told]
  /\ xtraMsgs \in Seq(XtraMsg) /\ datagrams \in Seq(Datagram)
  /\ daemonUp \in BOOLEAN /\ mReqStatusReceived \in BOOLEAN /\ answered \in BOOLEAN

\* Once the daemon, which knows known of f, has read ds, it knows v: the last
\* datagram about f says so, or there is none.
Writes(d, f) == (d.op = "update" /\ d.field = f) \/ (d.op = "respondStatus" /\ f # "throttle")
Says(d, f) == IF d.op = "update" THEN d.value ELSE d.fields[f]
KnownAfter(ds, f, known, v) ==
  \/ known = v /\ \A i \in DOMAIN ds : ~Writes(ds[i], f)
  \/ \E i \in DOMAIN ds : /\ Writes(ds[i], f) /\ Says(ds[i], f) = v
                          /\ \A j \in DOMAIN ds : j > i => ~Writes(ds[j], f)

\* A daemon that was answered gets every update after the answer.
DaemonFollows ==
  answered => /\ daemonUp /\ mReqStatusReceived
              /\ \A f \in XtraFields \ {"throttle"} : KnownAfter(datagrams, f, view[f], fields[f])
XtraInv == XtraTypeOK /\ DaemonFollows

LEMMA KnownSent ==
  ASSUME NEW ds \in Seq(Datagram), NEW d \in Datagram, NEW f, NEW known, NEW v,
         IF Writes(d, f) THEN Says(d, f) = v ELSE KnownAfter(ds, f, known, v)
  PROVE  KnownAfter(Append(ds, d), f, known, v)
  <1> DEFINE t == Append(ds, d)
             last == Len(ds) + 1
  <1>1. /\ DOMAIN t = DOMAIN ds \cup {last} /\ t[last] = d
        /\ \A i \in DOMAIN ds : t[i] = ds[i] /\ i < last
        /\ DOMAIN ds \subseteq Nat /\ last \in Nat
    BY QueueSent
  <1> HIDE DEF t, last
  <1>2. CASE Writes(d, f)
    <2>1. \A j \in DOMAIN t : ~(j > last)
      BY <1>1
    <2>2. last \in DOMAIN t
      BY <1>1
    <2> QED
      BY <1>1, <1>2, <2>1, <2>2 DEF KnownAfter, t
  <1>3. CASE ~Writes(d, f)
    BY <1>1, <1>3 DEF KnownAfter, t
  <1> QED
    BY <1>2, <1>3

LEMMA KnownTaken ==
  ASSUME NEW ds \in Seq(Datagram), ds # <<>>, NEW f, NEW known, NEW v, NEW after,
         KnownAfter(ds, f, known, v),
         after = IF Writes(Head(ds), f) THEN Says(Head(ds), f) ELSE known
  PROVE  KnownAfter(Tail(ds), f, after, v)
  <1> DEFINE t == Tail(ds)
             d == Head(ds)
  <1>1. /\ d = ds[1] /\ 1 \in DOMAIN ds
        /\ \A i \in DOMAIN ds : i # 1 => i - 1 \in DOMAIN t /\ t[i - 1] = ds[i]
        /\ \A i \in DOMAIN t : i + 1 \in DOMAIN ds /\ t[i] = ds[i + 1]
        /\ DOMAIN ds \subseteq Nat \ {0} /\ DOMAIN t \subseteq Nat \ {0}
    BY QueueTaken
  <1> HIDE DEF t, d
  <1>2. CASE known = v /\ \A i \in DOMAIN ds : ~Writes(ds[i], f)
    BY <1>1, <1>2 DEF KnownAfter, t, d
  <1>3. ASSUME NEW i \in DOMAIN ds, Writes(ds[i], f), Says(ds[i], f) = v,
               \A j \in DOMAIN ds : j > i => ~Writes(ds[j], f)
        PROVE  KnownAfter(t, f, after, v)
    <2>1. CASE i = 1
      <3>1. after = v
        BY <1>1, <1>3, <2>1 DEF d
      <3>2. \A j \in DOMAIN t : ~Writes(t[j], f)
        <4> SUFFICES ASSUME NEW j \in DOMAIN t PROVE ~Writes(t[j], f)
          OBVIOUS
        <4>1. j + 1 \in DOMAIN ds /\ t[j] = ds[j + 1] /\ j + 1 > i
          BY <1>1, <2>1
        <4> QED
          BY <1>3, <4>1
      <3> QED
        BY <3>1, <3>2 DEF KnownAfter
    <2>2. CASE i # 1
      <3> DEFINE k == i - 1
      <3>1. k \in DOMAIN t /\ t[k] = ds[i]
        BY <1>1, <2>2
      <3>2. ASSUME NEW j \in DOMAIN t, j > k PROVE ~Writes(t[j], f)
        <4>1. j + 1 \in DOMAIN ds /\ t[j] = ds[j + 1] /\ j + 1 > i
          BY <1>1, <3>2
        <4> QED
          BY <1>3, <4>1
      <3> HIDE DEF k
      <3> QED
        BY <1>3, <3>1, <3>2 DEF KnownAfter
    <2> QED
      BY <2>1, <2>2
  <1> QED
    BY <1>2, <1>3 DEF KnownAfter, t

LEMMA XtraInvInit == XtraInit => XtraInv
  <1> SUFFICES ASSUME XtraInit PROVE XtraInv
    OBVIOUS
  <1>1. Nothing \in [XtraFields -> Told]
    BY DEF Nothing, Told
  <1>2. <<>> \in Seq(XtraMsg) /\ <<>> \in Seq(Datagram)
    OBVIOUS
  <1> QED
    BY <1>1, <1>2 DEF XtraInit, XtraInv, XtraTypeOK, DaemonFollows

\* A datagram is sent to a daemon that is there.
LEMMA DatagramSent ==
  ASSUME XtraTypeOK, NEW d \in Datagram, SendDatagram(d)
  PROVE  /\ datagrams' \in Seq(Datagram)
         /\ daemonUp => datagrams' = Append(datagrams, d)
         /\ ~daemonUp => datagrams' = datagrams
  <1>1. datagrams \in Seq(Datagram)
    BY DEF XtraTypeOK
  <1>2. Append(datagrams, d) \in Seq(Datagram)
    BY <1>1, QueueSent
  <1> QED
    BY <1>1, <1>2 DEF SendDatagram

LEMMA XtraPosted ==
  ASSUME XtraTypeOK, NEW m \in XtraMsg, PostXtra(m)
  PROVE  xtraMsgs' \in Seq(XtraMsg)
  BY QueueSent DEF PostXtra, XtraTypeOK

LEMMA XtraTaken ==
  ASSUME XtraTypeOK, NEW op, TakeXtra(op)
  PROVE  xtraMsgs' \in Seq(XtraMsg) /\ Head(xtraMsgs) \in XtraMsg /\ Head(xtraMsgs).op = op
  BY QueueTaken DEF TakeXtra, XtraTypeOK

\* A datagram that says nothing of f, or says what f is, keeps the daemon informed.
LEMMA SentFollows ==
  ASSUME XtraTypeOK, NEW d \in Datagram, SendDatagram(d), daemonUp, NEW f, NEW v, NEW w,
         IF Writes(d, f) THEN Says(d, f) = w ELSE v = w /\ KnownAfter(datagrams, f, view[f], v)
  PROVE  KnownAfter(datagrams', f, view[f], w)
  <1>1. datagrams \in Seq(Datagram) /\ datagrams' = Append(datagrams, d)
    BY DatagramSent DEF XtraTypeOK
  <1>2. IF Writes(d, f) THEN Says(d, f) = w ELSE KnownAfter(datagrams, f, view[f], w)
    OBVIOUS
  <1>3. KnownAfter(Append(datagrams, d), f, view[f], w)
    BY <1>1, <1>2, KnownSent
  <1> QED
    BY <1>1, <1>3

\* What the three datagrams of the HAL are.
LEMMA DatagramKinds ==
  ASSUME NEW f \in XtraFields, NEW v \in Told, NEW g \in [XtraFields -> Told]
  PROVE  /\ [op |-> "halinit"] \in Datagram
         /\ [op |-> "update", field |-> f, value |-> v] \in Datagram
         /\ [op |-> "respondStatus", fields |-> g] \in Datagram
  BY DEF Datagram

LEMMA UpdateStep == XtraInv /\ Update => XtraInv'
  <1> SUFFICES ASSUME XtraInv, Update PROVE XtraInv'
    OBVIOUS
  <1> DEFINE f == Head(xtraMsgs).field
             v == Recorded(f, Head(xtraMsgs).value)
             d == [op |-> "update", field |-> f, value |-> v]
  <1>1. XtraTypeOK /\ TakeXtra("update")
    BY DEF XtraInv, Update
  <1>2. xtraMsgs' \in Seq(XtraMsg) /\ Head(xtraMsgs) \in XtraMsg /\ Head(xtraMsgs).op = "update"
    BY <1>1, XtraTaken
  <1>3. f \in XtraFields /\ Head(xtraMsgs).value \in XtraValues[f]
    BY <1>2 DEF XtraMsg
  <1>4. v \in Told
    BY <1>3 DEF Recorded, Told, AnyValue
  <1>5. /\ fields' = [fields EXCEPT ![f] = v]
        /\ IF mReqStatusReceived THEN SendDatagram(d) ELSE UNCHANGED datagrams
        /\ UNCHANGED <<mReqStatusReceived, mDelayLocTimer, daemonUp, view, answered, xtraRestarts>>
    BY DEF Update
  <1>6. d \in Datagram /\ d.op = "update" /\ d.field = f /\ d.value = v
    BY <1>3, <1>4 DEF Datagram
  <1> HIDE DEF f, v, d
  <1>7. datagrams' \in Seq(Datagram)
    BY <1>1, <1>5, <1>6, DatagramSent DEF XtraTypeOK
  <1>8. fields' \in [XtraFields -> Told]
    BY <1>1, <1>4, <1>5 DEF XtraTypeOK
  <1>9. XtraTypeOK'
    BY <1>1, <1>2, <1>5, <1>7, <1>8 DEF XtraTypeOK
  <1>10. ASSUME answered, NEW k \in XtraFields \ {"throttle"}
         PROVE  KnownAfter(datagrams', k, view[k], fields'[k])
    <2>1. daemonUp /\ mReqStatusReceived /\ KnownAfter(datagrams, k, view[k], fields[k])
      BY <1>10 DEF XtraInv, DaemonFollows
    <2>2. SendDatagram(d)
      BY <1>5, <2>1
    <2>3. Writes(d, k) <=> k = f
      BY <1>6 DEF Writes
    <2>4. Says(d, k) = v
      BY <1>6 DEF Says
    <2>5. fields'[k] = IF k = f THEN v ELSE fields[k]
      BY <1>1, <1>5 DEF XtraTypeOK
    <2> DEFINE w == fields'[k]
               w0 == fields[k]
    <2>6. IF Writes(d, k) THEN Says(d, k) = w ELSE w0 = w /\ KnownAfter(datagrams, k, view[k], w0)
      BY <2>1, <2>3, <2>4, <2>5
    <2> HIDE DEF w, w0
    <2>7. KnownAfter(datagrams', k, view[k], w)
      BY <1>1, <1>6, <2>1, <2>2, <2>6, SentFollows
    <2> QED
      BY <2>7 DEF w
  <1>11. DaemonFollows'
    BY <1>5, <1>10 DEF XtraInv, DaemonFollows
  <1> QED
    BY <1>9, <1>11 DEF XtraInv

LEMMA AnswerStep == XtraInv /\ onStatusRequested => XtraInv'
  <1> SUFFICES ASSUME XtraInv, onStatusRequested PROVE XtraInv'
    OBVIOUS
  <1> DEFINE g == [f \in XtraFields |-> XtraAnswered(f)]
             d == [op |-> "respondStatus", fields |-> g]
  <1>1. XtraTypeOK /\ TakeXtra("requestStatus") /\ mReqStatusReceived' = TRUE
    BY DEF XtraInv, onStatusRequested
  <1>2. xtraMsgs' \in Seq(XtraMsg)
    BY <1>1, XtraTaken
  <1>3. UNCHANGED <<fields, mDelayLocTimer, daemonUp, view, xtraRestarts>>
    BY DEF onStatusRequested
  <1>4. \/ UNCHANGED <<datagrams, answered>>
        \/ SendDatagram(d) /\ answered' = daemonUp
    BY DEF onStatusRequested
  <1>5. g \in [XtraFields -> Told] /\ \A f \in XtraFields \ {"throttle"} : g[f] = fields[f]
    BY <1>1 DEF XtraAnswered, XtraTypeOK, Told
  <1>6. d \in Datagram /\ d.op = "respondStatus" /\ d.fields = g
    BY <1>5 DEF Datagram
  <1> HIDE DEF g, d
  <1>7. datagrams' \in Seq(Datagram) /\ answered' \in BOOLEAN
    BY <1>1, <1>4, <1>6, DatagramSent DEF XtraTypeOK
  <1>8. mReqStatusReceived' \in BOOLEAN
    BY <1>1, Zenon
  <1>9. XtraTypeOK'
    BY <1>1, <1>2, <1>3, <1>7, <1>8 DEF XtraTypeOK
  <1>10. ASSUME SendDatagram(d), daemonUp, NEW k \in XtraFields \ {"throttle"}
         PROVE  KnownAfter(datagrams', k, view[k], fields[k])
    <2>1. Writes(d, k) /\ Says(d, k) = fields[k]
      BY <1>5, <1>6 DEF Writes, Says
    <2> DEFINE w == fields[k]
    <2> HIDE DEF w
    <2>2. IF Writes(d, k) THEN Says(d, k) = w ELSE w = w /\ KnownAfter(datagrams, k, view[k], w)
      BY <2>1 DEF w
    <2>3. KnownAfter(datagrams', k, view[k], w)
      BY <1>1, <1>6, <1>10, <2>2, SentFollows
    <2> QED
      BY <2>3 DEF w
  <1>11. DaemonFollows'
    <2>1. CASE UNCHANGED <<datagrams, answered>>
      BY <1>1, <1>3, <2>1 DEF XtraInv, DaemonFollows
    <2>2. CASE SendDatagram(d) /\ answered' = daemonUp
      BY <1>1, <1>3, <1>10, <2>2 DEF DaemonFollows
    <2> QED
      BY <1>4, <2>1, <2>2
  <1> QED
    BY <1>9, <1>11 DEF XtraInv

LEMMA ReceiveStep == XtraInv /\ DaemonReceives => XtraInv'
  <1> SUFFICES ASSUME XtraInv, DaemonReceives PROVE XtraInv'
    OBVIOUS
  <1> DEFINE d == Head(datagrams)
  <1>1. /\ XtraTypeOK /\ datagrams # <<>> /\ datagrams' = Tail(datagrams)
        /\ datagrams \in Seq(Datagram)
    BY DEF XtraInv, DaemonReceives, XtraTypeOK
  <1>2. d \in Datagram /\ datagrams' \in Seq(Datagram)
    BY <1>1, QueueTaken
  <1>3. /\ IF d.op = "halinit" THEN \E updated \in BOOLEAN : AskStatus(updated) ELSE UNCHANGED xtraMsgs
        /\ view' = CASE d.op = "update" -> [view EXCEPT ![d.field] = d.value]
                     [] d.op = "respondStatus" ->
                          [f \in XtraFields |-> IF f = "throttle" THEN view[f] ELSE d.fields[f]]
                     [] OTHER -> view
        /\ UNCHANGED <<fields, mReqStatusReceived, mDelayLocTimer, daemonUp, answered, xtraRestarts>>
    BY DEF DaemonReceives
  <1> HIDE DEF d
  <1>4. xtraMsgs' \in Seq(XtraMsg)
    <2>1. \A u \in BOOLEAN : [op |-> "requestStatus", updated |-> u] \in XtraMsg
      BY DEF XtraMsg
    <2> QED
      BY <1>1, <1>3, <2>1, XtraPosted DEF AskStatus, XtraTypeOK
  <1>5. /\ view' \in [XtraFields -> Told]
        /\ \A f \in XtraFields : view'[f] = IF Writes(d, f) THEN Says(d, f) ELSE view[f]
    <2>0. view \in [XtraFields -> Told]
      BY <1>1 DEF XtraTypeOK
    <2>1. CASE d.op = "update"
      <3>1. d.field \in XtraFields /\ d.value \in Told
        BY <1>2, <2>1 DEF Datagram
      <3>2. view' = [view EXCEPT ![d.field] = d.value]
        BY <1>3, <2>1
      <3> QED
        BY <2>0, <2>1, <3>1, <3>2 DEF Writes, Says
    <2>2. CASE d.op = "respondStatus"
      <3>1. d.fields \in [XtraFields -> Told]
        BY <1>2, <2>2 DEF Datagram
      <3>2. view' = [f \in XtraFields |-> IF f = "throttle" THEN view[f] ELSE d.fields[f]]
        BY <1>3, <2>2
      <3> QED
        BY <2>0, <2>2, <3>1, <3>2 DEF Writes, Says
    <2>3. CASE d.op # "update" /\ d.op # "respondStatus"
      <3>1. view' = view
        BY <1>3, <2>3
      <3> QED
        BY <2>0, <2>3, <3>1 DEF Writes
    <2> QED
      BY <2>1, <2>2, <2>3
  <1>6. XtraTypeOK'
    BY <1>1, <1>2, <1>3, <1>4, <1>5 DEF XtraTypeOK
  <1>7. ASSUME answered, NEW f \in XtraFields \ {"throttle"}
        PROVE  KnownAfter(datagrams', f, view'[f], fields[f])
    <2> DEFINE known == view[f]
               after == view'[f]
    <2>1. KnownAfter(datagrams, f, known, fields[f])
      BY <1>7 DEF XtraInv, DaemonFollows
    <2>2. after = IF Writes(Head(datagrams), f) THEN Says(Head(datagrams), f) ELSE known
      BY <1>5 DEF d
    <2> HIDE DEF known, after
    <2>3. KnownAfter(Tail(datagrams), f, after, fields[f])
      BY <1>1, <2>1, <2>2, KnownTaken
    <2> QED
      BY <1>1, <2>3 DEF after
  <1>8. DaemonFollows'
    BY <1>3, <1>7 DEF XtraInv, DaemonFollows
  <1> QED
    BY <1>6, <1>8 DEF XtraInv

LEMMA XtraInvStep == XtraInv /\ [XtraNext]_xtraVars => XtraInv'
  <1> SUFFICES ASSUME XtraInv, [XtraNext]_xtraVars PROVE XtraInv'
    OBVIOUS
  <1>0. XtraTypeOK /\ DaemonFollows
    BY DEF XtraInv
  <1>1. CASE UNCHANGED xtraVars
    BY <1>0, <1>1 DEF xtraVars, XtraInv, XtraTypeOK, DaemonFollows
  <1>2. ASSUME NEW f \in XtraFields, NEW v \in XtraValues[f], NewValue(f, v) PROVE XtraInv'
    <2>1. [op |-> "update", field |-> f, value |-> v] \in XtraMsg
      BY DEF XtraMsg, AnyValue
    <2>2. xtraMsgs' \in Seq(XtraMsg)
      BY <1>0, <1>2, <2>1, XtraPosted DEF NewValue
    <2> QED
      BY <1>0, <1>2, <2>2 DEF NewValue, XtraInv, XtraTypeOK, DaemonFollows
  <1>3. CASE timeOutCallback
    <2> DEFINE d == [op |-> "halinit"]
    <2>1. d \in Datagram /\ \A f : ~Writes(d, f)
      BY DEF Datagram, Writes
    <2>2. /\ SendDatagram(d)
          /\ UNCHANGED <<fields, mReqStatusReceived, xtraMsgs, daemonUp, view, answered, xtraRestarts>>
      BY <1>3 DEF timeOutCallback
    <2> HIDE DEF d
    <2>3. XtraTypeOK'
      BY <1>0, <2>1, <2>2, DatagramSent DEF XtraTypeOK
    <2>4. ASSUME answered, NEW f \in XtraFields \ {"throttle"}
          PROVE  KnownAfter(datagrams', f, view[f], fields[f])
      <3> DEFINE w == fields[f]
      <3>1. daemonUp /\ KnownAfter(datagrams, f, view[f], w)
        BY <1>0, <2>4 DEF DaemonFollows
      <3> HIDE DEF w
      <3>2. KnownAfter(datagrams', f, view[f], w)
        BY <1>0, <2>1, <2>2, <3>1, SentFollows
      <3> QED
        BY <3>2 DEF w
    <2>5. DaemonFollows'
      BY <1>0, <2>2, <2>4 DEF DaemonFollows
    <2> QED
      BY <2>3, <2>5 DEF XtraInv
  <1>4. CASE DaemonStarts
    <2>1. [op |-> "requestStatus", updated |-> FALSE] \in XtraMsg
      BY DEF XtraMsg
    <2>2. xtraMsgs' \in Seq(XtraMsg)
      BY <1>0, <1>4, <2>1, XtraPosted DEF DaemonStarts, AskStatus
    <2>3. view' \in [XtraFields -> Told] /\ datagrams' \in Seq(Datagram)
      BY <1>4 DEF DaemonStarts, Nothing, Told
    <2>4. daemonUp' \in BOOLEAN /\ answered' \in BOOLEAN /\ ~answered'
      BY <1>4, Zenon DEF DaemonStarts
    <2> QED
      BY <1>0, <1>4, <2>2, <2>3, <2>4 DEF DaemonStarts, XtraInv, XtraTypeOK, DaemonFollows
  <1>5. CASE DaemonDies
    <2>1. datagrams' \in Seq(Datagram)
      BY <1>5 DEF DaemonDies
    <2>2. daemonUp' \in BOOLEAN /\ answered' \in BOOLEAN /\ ~answered'
      BY <1>5, Zenon DEF DaemonDies
    <2> QED
      BY <1>0, <1>5, <2>1, <2>2 DEF DaemonDies, XtraInv, XtraTypeOK, DaemonFollows
  <1>6. CASE HalRestarts
    <2>1. fields' \in [XtraFields -> Told] /\ xtraMsgs' \in Seq(XtraMsg)
      BY <1>6 DEF HalRestarts, Nothing, Told
    <2>2. mReqStatusReceived' \in BOOLEAN /\ answered' \in BOOLEAN /\ ~answered'
      BY <1>6, Zenon DEF HalRestarts
    <2> QED
      BY <1>0, <1>6, <2>1, <2>2 DEF HalRestarts, XtraInv, XtraTypeOK, DaemonFollows
  <1> QED
    BY <1>1, <1>2, <1>3, <1>4, <1>5, <1>6, UpdateStep, AnswerStep, ReceiveStep DEF XtraNext

\* A daemon that was answered and has read its datagrams knows every field the
\* answer has, for any fields, values and restarts of either process.
THEOREM XtraFollows == XtraSpec => []XtraInformed
  <1>1. XtraInv => XtraInformed
    <2> SUFFICES ASSUME XtraInv, answered, datagrams = <<>>, NEW f \in XtraFields \ {"throttle"}
                 PROVE  view[f] = fields[f]
      BY DEF XtraInformed
    <2>1. DOMAIN datagrams = {}
      OBVIOUS
    <2> QED
      BY <2>1 DEF XtraInv, DaemonFollows, KnownAfter
  <1> QED
    BY <1>1, XtraInvInit, XtraInvStep, PTL DEF XtraSpec
=============================================================================
