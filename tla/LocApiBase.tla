----------------------------- MODULE LocApiBase -----------------------------
(***************************************************************************)
(* LocApiBase.cpp: the table of adapters over one connection to the        *)
(* modem, the messages with which its own thread opens, reopens and closes *)
(* the connection with the union of what the adapters register for, and    *)
(* the delivery of the modem's events: its own restarts, the reports that  *)
(* are for every adapter, and the requests that are for the first adapter  *)
(* that takes them.  An event is delivered adapter by adapter on the       *)
(* modem's thread, while adapters come and go on others.  What open and    *)
(* close do at the modem is external: LocApiBase's own do nothing.         *)
(***************************************************************************)
EXTENDS Naturals, SequencesExt

CONSTANTS Adapters, Events, ExcludedEvents,
          Takers,      \* adapters that take the modem's requests
          MAX_ADAPTERS,
          MaxApiMsgs,  \* bound: adapters wait at this many messages
          MaxEngine    \* bound: engine restarts and events delivered
ASSUME RegistryAssumption ==
  ExcludedEvents \subseteq Events /\ Takers \subseteq Adapters /\ MAX_ADAPTERS \in Nat \ {0} /\ MaxApiMsgs \in Nat /\ MaxEngine \in Nat

VARIABLES
  mLocAdapters,   \* the adapters, up to the first NULL
  mEvtMask,       \* what each registers for
  apiMsgs,        \* messages of LocApiMsgTask
  open, openMask, \* the connection
  engineRuns,     \* restarts and deliveries so far
  delivering,     \* the event the modem's thread delivers, and the index it is at
  toldEngineUp    \* adapters told that the engine is up, and not that it is down

registryVars == <<mLocAdapters, mEvtMask, apiMsgs, open, openMask, engineRuns, delivering, toldEngineUp>>

Idle == [event |-> "none", at |-> 0]
RegistryInit ==
  /\ mLocAdapters = <<>> /\ mEvtMask = [a \in Adapters |-> {}] /\ apiMsgs = <<>>
  /\ open = FALSE /\ openMask = {} /\ engineRuns = 0 /\ delivering = Idle /\ toldEngineUp = {}

RMsg(op, a) == [op |-> op, adapter |-> a]
NoAdapter == {}
Registered(a) == \E i \in DOMAIN mLocAdapters : mLocAdapters[i] = a
getEvtMask ==
  UNION {mEvtMask[mLocAdapters[i]] : i \in DOMAIN mLocAdapters} \ ExcludedEvents
SendApi(m) == apiMsgs' = Append(apiMsgs, m)
MayCall == Len(apiMsgs) < MaxApiMsgs

\* An adapter that finds no room in the table is left out of it.
addAdapter(a) ==
  /\ MayCall /\ ~Registered(a)
  /\ IF Len(mLocAdapters) < MAX_ADAPTERS
     THEN mLocAdapters' = Append(mLocAdapters, a) /\ SendApi(RMsg("open", {a}))
     ELSE UNCHANGED <<mLocAdapters, apiMsgs>>
  /\ UNCHANGED <<mEvtMask, open, openMask, engineRuns, delivering, toldEngineUp>>
\* The last adapter takes the place of the removed one.
Shift(a) ==
  LET j == CHOOSE i \in DOMAIN mLocAdapters : mLocAdapters[i] = a
  IN mLocAdapters' = Front([mLocAdapters EXCEPT ![j] = Last(mLocAdapters)])
removeAdapterQuietly(a) ==
  /\ MayCall /\ Registered(a) /\ Shift(a)
  /\ IF Len(mLocAdapters) = 1 THEN SendApi(RMsg("close", NoAdapter)) ELSE UNCHANGED apiMsgs
  /\ toldEngineUp' = toldEngineUp \ {a}
  /\ UNCHANGED <<mEvtMask, open, openMask, engineRuns, delivering>>
removeAdapter(a) ==
  /\ MayCall /\ Registered(a) /\ Shift(a)
  /\ SendApi(RMsg(IF Len(mLocAdapters) = 1 THEN "close" ELSE "open", NoAdapter))
  /\ toldEngineUp' = toldEngineUp \ {a}
  /\ UNCHANGED <<mEvtMask, open, openMask, engineRuns, delivering>>
\* An adapter enables, disables or sets events.
updateEvtMask(a, mask) ==
  /\ MayCall /\ Registered(a) /\ mask # mEvtMask[a]
  /\ mEvtMask' = [mEvtMask EXCEPT ![a] = mask] /\ SendApi(RMsg("open", NoAdapter))
  /\ UNCHANGED <<mLocAdapters, open, openMask, engineRuns, delivering, toldEngineUp>>

\* The messages of LocApiMsgTask: the mask is computed when they are processed.
Open(toTell, ok) ==
  /\ open' = ok /\ openMask' = IF ok THEN getEvtMask ELSE {}
  /\ toldEngineUp' = IF ok THEN toldEngineUp \cup toTell ELSE toldEngineUp
LocOpenMsg(m) == \E ok \in BOOLEAN : Open(m.adapter \cap Range(mLocAdapters), ok)
LocSsrMsg == \E ok \in BOOLEAN : Open(Range(mLocAdapters), ok)
LocCloseMsg == open' = FALSE /\ openMask' = {} /\ UNCHANGED toldEngineUp
ProcApi ==
  /\ apiMsgs # <<>> /\ apiMsgs' = Tail(apiMsgs)
  /\ LET m == Head(apiMsgs)
     IN CASE m.op = "open" -> LocOpenMsg(m) [] m.op = "ssr" -> LocSsrMsg [] m.op = "close" -> LocCloseMsg
  /\ UNCHANGED <<mLocAdapters, mEvtMask, engineRuns, delivering>>

\* The modem's thread: an event comes, and each adapter in turn is told.
ToAll == {"engineUp", "engineDown", "report"}
ToFirst == {"request"}
Arrives(event) ==
  /\ open /\ delivering = Idle /\ engineRuns < MaxEngine /\ engineRuns' = engineRuns + 1
  /\ delivering' = [event |-> event, at |-> 1]
  /\ UNCHANGED <<mLocAdapters, mEvtMask, open, openMask, toldEngineUp>>
\* That the engine is down makes the connection be opened anew.
handleEngineDownEvent == Arrives("engineDown") /\ SendApi(RMsg("ssr", NoAdapter))
handleEvent(event) == Arrives(event) /\ UNCHANGED apiMsgs
\* What an adapter does with it: a report it may act on, a request it takes or
\* leaves to the next.
TakenBy(a) == delivering.event \in ToFirst /\ a \in Takers
HeardBy(a) ==
  toldEngineUp' = CASE delivering.event = "engineUp" -> toldEngineUp \cup {a}
                    [] delivering.event = "engineDown" -> toldEngineUp \ {a}
                    [] OTHER -> toldEngineUp
TO_ADAPTERS ==
  /\ delivering # Idle
  /\ IF delivering.at \in DOMAIN mLocAdapters
     THEN LET a == mLocAdapters[delivering.at] IN
          /\ HeardBy(a)
          /\ delivering' = IF TakenBy(a) THEN Idle ELSE [delivering EXCEPT !.at = @ + 1]
     ELSE delivering' = Idle /\ UNCHANGED toldEngineUp
  /\ UNCHANGED <<mLocAdapters, mEvtMask, apiMsgs, open, openMask, engineRuns>>

RegistryNext ==
  \/ \E a \in Adapters : \/ addAdapter(a) \/ removeAdapter(a)
                         \/ \E mask \in SUBSET Events : updateEvtMask(a, mask)
  \/ ProcApi \/ handleEngineDownEvent \/ TO_ADAPTERS
  \/ \E event \in (ToAll \ {"engineDown"}) \cup ToFirst : handleEvent(event)

RegistrySpec == RegistryInit /\ [][RegistryNext]_registryVars

\* Once its messages are done, an open connection delivers exactly what the
\* adapters still in the table register for, whatever came, went, changed its
\* mask or restarted meanwhile (LocApiBase.cpp:167, :235, :268, :277).
MaskSettles ==
  apiMsgs = <<>> /\ open => openMask = getEvtMask
=============================================================================
