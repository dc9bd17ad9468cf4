---------------------------- MODULE SystemStatus ----------------------------
(***************************************************************************)
(* SystemStatus.cpp/.h: the history the HAL keeps of what the engine says  *)
(* in debug sentences, of fixes and of the operating system's data items,  *)
(* at most maxItem entries of each, and the table of connected networks    *)
(* that each network item carries over from the one before it.  Every      *)
(* operation runs under mMutexSystemStatus, so it is one step.             *)
(***************************************************************************)
EXTENDS Naturals, Sequences, FiniteSets, SequencesExt

CONSTANTS Sentences,    \* the kinds of debug sentences that come
          OsItems,      \* data items of the operating system, the network apart
          ItemValues,   \* values of a field
          maxItem,      \* entries kept of an item (SystemStatus.h:76)
          MAX_NETWORK_HANDLES,
          Networks,     \* networks there are: <<type, handle>>
          MaxNetworkEvents \* bound: events of networks
ASSUME SystemStatusAssumption ==
  /\ maxItem \in Nat \ {0} /\ MAX_NETWORK_HANDLES \in Nat \ {0}
  /\ MaxNetworkEvents \in Nat /\ 0 \in ItemValues

VARIABLES
  mCache,         \* for each item its history, the latest entry last
  said,           \* what the engine or the system last said of it
  mNetworkInfo,   \* history of the network item
  connected,      \* networks that are connected
  networkEvents   \* their number, bounded

reportVars == <<mCache, said>>
networkVars == <<mNetworkInfo, connected, networkEvents>>
statusVars == <<reportVars, networkVars>>

\* The items a sentence fills, and how many of its lengths its parser tells
\* apart: 0 is one that is too short.
SentenceItems == [
  PQWM1 |-> {"TimeAndClock", "XoState", "RfAndParams", "ErrRecovery"},
  PQWP1 |-> {"InjectedPosition"}, PQWP2 |-> {"BestPosition"}, PQWP3 |-> {"Xtra"},
  PQWP4 |-> {"Ephemeris"}, PQWP5 |-> {"SvHealth"}, PQWP6 |-> {"Pdr"},
  PQWP7 |-> {"NavData"}, PQWS1 |-> {"PositionFailure"}]
Lengths(s) == CASE s = "PQWM1" -> 0 .. 4 [] s = "PQWP7" -> 0 .. 2 [] OTHER -> 0 .. 1
EngineItems == (UNION {SentenceItems[s] : s \in Sentences}) \cup {"Location"}
Items == EngineItems \cup OsItems

\* An entry: the value of the fields that are always there, and of those that
\* only a longer sentence has (the leap second and the time uncertainty, the
\* amplitudes, NavIC).
Entry(value, more) == [value |-> value, more |-> more]
Longer(i, n) ==
  CASE i = "TimeAndClock" -> <<n >= 2, n >= 4>> [] i = "RfAndParams" -> <<n >= 3>>
    [] i = "NavData" -> <<n = 2>> [] OTHER -> <<>>
ParsedEntry(i, n, v) == Entry(v, [k \in DOMAIN Longer(i, n) |-> IF Longer(i, n)[k] THEN v ELSE 0])
DefaultEntry(i) == ParsedEntry(i, 0, 0)
\* A PQWM1 that is too short reads as zeros.  The other parsers return what
\* was on the stack, for the one item of their sentence.
Garbled(n, v) == IF n = 0 THEN ItemValues ELSE {v}
Parsed(s, i, n, v) ==
  CASE n # 0 -> ParsedEntry(i, n, v) [] n = 0 /\ s = "PQWM1" -> DefaultEntry(i)
    [] OTHER -> ParsedEntry(i, 4, v)

StatusInit ==
  /\ mCache = [i \in Items |-> <<>>] /\ said = [i \in Items |-> {}]
  /\ mNetworkInfo = <<>> /\ connected = {} /\ networkEvents = 0

\* The comparison with the latest entry; a fix is compared by its position.
Same(i, entry, latest) == IF i = "Location" THEN entry.value = latest.value ELSE entry = latest
Ignored(i, entry) == i = "ErrRecovery" /\ entry.value = 0
\* (A mutant: the comparison with the oldest entry.)
OldestIs(report, i, entry) == report # <<>> /\ Same(i, entry, Head(report))
Unchanged(report, i, entry) == report # <<>> /\ Same(i, entry, Last(report))
PushBack(report, entry) ==
  IF Len(report) = maxItem THEN Append(Tail(report), entry) ELSE Append(report, entry)
setIteminReport(report, i, entry) ==
  IF Ignored(i, entry) \/ Unchanged(report, i, entry) THEN report ELSE PushBack(report, entry)

\* A sentence of kind s with n of its lengths fills its items.
setNmeaString(s, n, v) ==
  \E w \in Garbled(n, v) :
    /\ mCache' = [i \in Items |-> IF i \notin SentenceItems[s] THEN mCache[i]
                                  ELSE setIteminReport(mCache[i], i, Parsed(s, i, n, w))]
    /\ said' = [i \in Items |-> IF i \notin SentenceItems[s] THEN said[i]
                                ELSE IF n = 0 THEN {} ELSE {Parsed(s, i, n, w)}]
    /\ UNCHANGED networkVars
Said(i, entry) ==
  /\ mCache' = [mCache EXCEPT ![i] = setIteminReport(@, i, entry)]
  /\ said' = [said EXCEPT ![i] = {entry}]
  /\ UNCHANGED networkVars
\* A fix: its position, and its speed, accuracy and time.
eventPosition(v, rest) == Said("Location", Entry(v, <<rest>>))
eventDataItemNotify(i, v) == Said(i, Entry(v, <<>>))
\* When all aiding data was deleted, every item of the engine starts afresh.
setDefaultGnssEngineStates ==
  /\ mCache' = [i \in Items |-> IF i \in EngineItems THEN PushBack(mCache[i], DefaultEntry(i)) ELSE mCache[i]]
  /\ said' = [i \in Items |-> IF i \in EngineItems THEN {DefaultEntry(i)} ELSE said[i]]
  /\ UNCHANGED networkVars
\* What getReport gives of an item when asked for the latest only.
getIteminReport(i) == IF mCache[i] = <<>> THEN {} ELSE {Last(mCache[i])}

(***************************************************************************)
(* The network item.  Its table has one row for each connected network;    *)
(* the rows in use come first.                                             *)
(***************************************************************************)
Unknown == [handle |-> 0, type |-> 0]
Row(net) == [handle |-> net[2], type |-> net[1]]
Slots == 1 .. MAX_NETWORK_HANDLES
NetworkItem(net, isConnected, allTypes, table) ==
  [network |-> net, connected |-> isConnected, mAllTypes |-> allTypes, mAllNetworkHandles |-> table]
FirstItem(net, isConnected) ==
  NetworkItem(net, isConnected, {net[1]}, [k \in Slots |-> IF k = 1 THEN Row(net) ELSE Unknown])
\* The first row that is not in use, or one past the last.
FirstFree(table) ==
  CHOOSE k \in 1 .. MAX_NETWORK_HANDLES + 1 :
    (k \in Slots => table[k] = Unknown) /\ \A j \in 1 .. k - 1 : table[j] # Unknown
CollateConnected(net, cur) ==
  LET table == cur.mAllNetworkHandles
      free == FirstFree(table)
      known == \E k \in 1 .. free - 1 : table[k].handle = net[2]
  IN NetworkItem(net, TRUE, cur.mAllTypes \cup {net[1]},
                 IF known \/ free \notin Slots THEN table ELSE [table EXCEPT ![free] = Row(net)])
\* The row that goes is overwritten with the first one not in use.  With the
\* table full that is past its end: the row keeps the handle, with any type.
CollateDisconnected(net, cur) ==
  LET table == cur.mAllNetworkHandles
      free == FirstFree(table)
      rows == {k \in 1 .. free - 1 : table[k].handle = net[2]}
      others == {k \in 1 .. free - 1 : table[k].type = net[1] /\ table[k].handle # net[2]}
      gone == CHOOSE k \in rows : \A j \in rows : j <= k
      allTypes == IF others = {} THEN cur.mAllTypes \ {net[1]} ELSE {net[1]}
  IN IF rows = {} THEN {NetworkItem(net, FALSE, allTypes, table)}
     ELSE IF free \in Slots THEN {NetworkItem(net, FALSE, allTypes, [table EXCEPT ![gone] = Unknown])}
     ELSE {NetworkItem(net, FALSE, allTypes, [table EXCEPT ![gone] = [handle |-> net[2], type |-> t]]) :
             t \in {n[1] : n \in Networks}}
Collated(net, isConnected) ==
  IF mNetworkInfo = <<>> THEN {FirstItem(net, isConnected)}
  ELSE IF isConnected THEN {CollateConnected(net, Last(mNetworkInfo))}
  ELSE CollateDisconnected(net, Last(mNetworkInfo))
\* Only another table makes a new entry.
eventConnectionStatus(net, isConnected) ==
  \E item \in Collated(net, isConnected) :
    mNetworkInfo' = IF mNetworkInfo # <<>> /\ Last(mNetworkInfo).mAllNetworkHandles = item.mAllNetworkHandles
                    THEN mNetworkInfo ELSE PushBack(mNetworkInfo, item)
NetworkEvent ==
  /\ networkEvents < MaxNetworkEvents /\ networkEvents' = networkEvents + 1
  /\ \/ \E net \in Networks \ connected : eventConnectionStatus(net, TRUE) /\ connected' = connected \cup {net}
     \/ \E net \in connected : eventConnectionStatus(net, FALSE) /\ connected' = connected \ {net}
  /\ UNCHANGED reportVars

SentencesNext(ss) == \E s \in ss, v \in ItemValues : \E n \in Lengths(s) : setNmeaString(s, n, v)
OthersNext ==
  \/ \E v, rest \in ItemValues : eventPosition(v, rest)
  \/ \E i \in OsItems, v \in ItemValues : eventDataItemNotify(i, v)
  \/ setDefaultGnssEngineStates
  \/ NetworkEvent
StatusNext == SentencesNext(Sentences) \/ OthersNext

StatusSpec == StatusInit /\ [][StatusNext]_statusVars

\* The latest report of an item is what was last said of it, however often it
\* was said and whatever the history has dropped; a sentence that was too
\* short says nothing, and the parts of a fix but its position, and an empty
\* error recovery, may be of an earlier report (SystemStatus.cpp:1360).
LatestReported ==
  \A i \in Items : \A entry \in said[i] :
    Ignored(i, entry) \/ \E latest \in getIteminReport(i) : Same(i, entry, latest)
\* A type loses its bit "if no more handles of given type" are connected
\* (SystemStatus.h:563): one with a handle that is connected keeps it.
ConnectedTypesKept ==
  mNetworkInfo = <<>> \/ \A net \in connected : net[1] \in Last(mNetworkInfo).mAllTypes
=============================================================================
