---------------------------- MODULE LocationAPI ----------------------------
(***************************************************************************)
(* LocationAPI.cpp: the instances callers create and destroy, the adapters *)
(* they make it load, and the messages each call leaves for the adapters'  *)
(* one thread.  Calls run under gDataMutex and are one step; what the      *)
(* adapter thread does after it unlocks the mutex is a step of its own.    *)
(* A deleted instance's address can be given to a new one.                 *)
(***************************************************************************)
EXTENDS Pointers, Naturals, Sequences

CONSTANTS Apis,      \* addresses of LocationAPI objects
          Kinds,     \* the adapters that clients ask for
          MaxPosted  \* bound: calls wait while this many messages are queued
ASSUME ApiAssumption ==
  Null \notin Apis /\ Kinds \subseteq {"gnss", "batching", "geofence"} /\ MaxPosted \in Nat

VARIABLES
  interface,         \* gXInterface and gXLoadFailed of each kind
  clientData,        \* keys of gData.clientData
  destroyClientData, \* waitAdapterMask of each entry of the map; {}: none
  controlAPI,        \* gData.controlAPI is set
  live, owned,       \* objects not deleted; those their caller may still use
  notify,            \* what became of the destroyCompleteCb of the instance
  posted,            \* messages of the adapters' MsgTask
  mClientData,       \* the clients of each adapter (LocAdapterBase)
  known, mPendingMsgs, \* isEngineCapabilitiesKnown of the adapters, what waits for it
  completing,        \* instance the adapter thread is about to delete
  aborted            \* an empty std::function was called

gData == <<interface, clientData, destroyClientData, controlAPI>>
callerVars == <<live, owned, notify, aborted>>
adapterVars == <<mClientData, known, mPendingMsgs>>
apiVars == <<gData, callerVars, posted, adapterVars, completing>>

LocationAPIInit ==
  /\ interface = [k \in Kinds |-> "unloaded"] /\ controlAPI = FALSE
  /\ clientData = {} /\ destroyClientData = [a \in Apis |-> {}]
  /\ live = {} /\ owned = {} /\ notify = [a \in Apis |-> "no"] /\ aborted = FALSE
  /\ posted = <<>> /\ completing = Null
  /\ mClientData = [k \in Kinds |-> {}] /\ known = {}
  /\ mPendingMsgs = [k \in Kinds |-> <<>>]

Msg(op, k, a) == [op |-> op, kind |-> k, client |-> a]
Loaded == {k \in Kinds : interface[k] = "loaded"}
Calling ==
  ~aborted /\ Len(posted) < MaxPosted /\ \A k \in Kinds : Len(mPendingMsgs[k]) < MaxPosted
\* A message for each of the kinds in S, in the code's order.
ToOne(op, k, a, S) == IF k \in S THEN <<Msg(op, k, a)>> ELSE <<>>
ToEach(op, a, S) ==
  ToOne(op, "gnss", a, S) \o ToOne(op, "batching", a, S) \o ToOne(op, "geofence", a, S)

\* The interface of each kind asked for is loaded once; a failure is kept.
Load(asked) ==
  \E outcome \in [Kinds -> {"loaded", "failed"}] :
    interface' = [k \in Kinds |-> IF k \in asked /\ interface[k] = "unloaded"
                                  THEN outcome[k] ELSE interface[k]]
\* addClient of each loaded kind among those asked for.
Adds(a, asked) == ToEach("add", a, {k \in asked : interface'[k] = "loaded"})
\* The same, the first followed by the one request for the capabilities.
AddsAsking(a, asked) ==
  LET adds == Adds(a, asked)
  IN IF adds = <<>> THEN <<>>
     ELSE <<adds[1], Msg("capabilities", adds[1].kind, a)>> \o Tail(adds)

createInstance(a, asked) ==
  /\ Calling /\ a \notin live
  /\ Load(asked)
  /\ posted' = posted \o AddsAsking(a, asked)
  /\ clientData' = clientData \cup {a}
  /\ live' = live \cup {a} /\ owned' = owned \cup {a}
  /\ notify' = [notify EXCEPT ![a] = "no"]
  /\ UNCHANGED <<destroyClientData, controlAPI, aborted, adapterVars, completing>>

updateCallbacks(a, asked) ==
  /\ Calling /\ a \in owned
  /\ Load(asked)
  /\ posted' = posted \o Adds(a, asked)
  /\ clientData' = clientData \cup {a}
  /\ UNCHANGED <<destroyClientData, controlAPI, callerVars, adapterVars, completing>>

\* destroy: every loaded adapter is told, whether the client used it or not,
\* and only if a callback was given does the last answer delete the object.
WaitGnssOnly(withCb) == IF withCb THEN Loaded \cap {"gnss"} ELSE {}
WaitEveryKind(withCb) == IF withCb /\ Loaded # {} THEN Kinds ELSE {}
WaitMask(withCb) == IF withCb THEN Loaded ELSE {}
\* What follows the unlock when nothing is to be waited for: the test of the
\* callback is inverted, so an empty one is called and a given one is not.
DestroyNow(a, withCb) ==
  /\ aborted' = ~withCb
  /\ live' = IF withCb THEN live \ {a} ELSE live
destroy(a, withCb) ==
  /\ ~aborted /\ a \in owned
  /\ owned' = owned \ {a}
  /\ notify' = [notify EXCEPT ![a] = IF withCb THEN "wanted" ELSE "no"]
  /\ IF a \in clientData
     THEN /\ destroyClientData' = [destroyClientData EXCEPT ![a] = WaitMask(withCb)]
          /\ posted' = posted \o ToEach("remove", a, Loaded)
          /\ clientData' = clientData \ {a}
          /\ IF Loaded = {} THEN DestroyNow(a, withCb) ELSE UNCHANGED <<live, aborted>>
     ELSE UNCHANGED <<destroyClientData, posted, clientData, live, aborted>>
  /\ UNCHANGED <<interface, controlAPI, adapterVars, completing>>

\* The session calls: a message if the interface is there, else only an id 0.
\* The tracking ones ask that the client is known as well.
TrackingCall(a) ==
  /\ Calling /\ a \in owned \cap clientData /\ "gnss" \in Loaded
  /\ posted' = Append(posted, Msg("session", "gnss", a))
BatchingCall(a) ==
  /\ Calling /\ a \in owned /\ "batching" \in Loaded
  /\ posted' = Append(posted, Msg("session", "batching", a))
GeofenceCall(a) ==
  /\ Calling /\ a \in owned /\ "geofence" \in Loaded
  /\ posted' = Append(posted, Msg("session", "geofence", a))
gnssNiResponse(a) ==
  /\ Calling /\ a \in owned /\ "gnss" \in Loaded
  /\ posted' = Append(posted, Msg("session", "gnss", a))
SessionCall ==
  /\ \E a \in Apis : TrackingCall(a) \/ BatchingCall(a) \/ GeofenceCall(a) \/ gnssNiResponse(a)
  /\ UNCHANGED <<gData, callerVars, adapterVars, completing>>

\* LocationControlAPI: one instance, made only when the GNSS interface is there.
createControl ==
  /\ Calling /\ ~controlAPI
  /\ Load({"gnss"} \cap Kinds)
  /\ controlAPI' = ("gnss" \in Kinds /\ interface'["gnss"] = "loaded")
  /\ posted' = IF controlAPI' THEN Append(posted, Msg("control", "gnss", Null)) ELSE posted
  /\ UNCHANGED <<clientData, destroyClientData, callerVars, adapterVars, completing>>
destroyControl ==
  /\ ~aborted /\ controlAPI /\ controlAPI' = FALSE
  /\ UNCHANGED <<interface, clientData, destroyClientData, callerVars, posted, adapterVars, completing>>
ControlCall ==
  /\ Calling /\ controlAPI /\ "gnss" \in Loaded
  /\ posted' = Append(posted, Msg("control", "gnss", Null))
  /\ UNCHANGED <<gData, callerVars, adapterVars, completing>>

\* onRemoveClientCompleteCb, under the mutex; the delete follows the unlock.
onRemoveClientCompleteCb(a, k) ==
  LET left == destroyClientData[a] \ {k} IN
  IF destroyClientData[a] = {} THEN UNCHANGED <<destroyClientData, completing>>
  ELSE /\ destroyClientData' = [destroyClientData EXCEPT ![a] = left]
       /\ completing' = IF left = {} THEN a ELSE Null
DeleteThis ==
  /\ completing # Null /\ completing' = Null
  /\ live' = live \ {completing}
  /\ UNCHANGED <<gData, owned, notify, aborted, posted, adapterVars>>

\* The messages of LocAdapterBase, one at a time on the adapters' thread.
MsgAddClient(m) ==
  /\ mClientData' = [mClientData EXCEPT ![m.kind] = @ \cup {m.client}]
  /\ UNCHANGED <<destroyClientData, completing, mPendingMsgs>>
MsgRemoveClient(m) ==
  /\ mClientData' = [mClientData EXCEPT ![m.kind] = @ \ {m.client}]
  /\ onRemoveClientCompleteCb(m.client, m.kind)
  /\ UNCHANGED mPendingMsgs
\* What needs the capabilities waits for them; a GNSS session message does
\* only if it asks for a distance.
MayWait(m) == m.op = "capabilities" \/ (m.op = "session" /\ m.kind # "geofence")
MustWait(m) == m.op = "capabilities" \/ (m.op = "session" /\ m.kind = "batching")
MsgWaits(m) ==
  /\ m.kind \notin known /\ MayWait(m)
  /\ mPendingMsgs' = [mPendingMsgs EXCEPT ![m.kind] = Append(@, m)]
  /\ UNCHANGED <<mClientData, destroyClientData, completing>>
MsgServed(m) ==
  /\ m.kind \in known \/ ~MustWait(m)
  /\ UNCHANGED <<mClientData, destroyClientData, completing, mPendingMsgs>>
HandleMsg ==
  /\ ~aborted /\ completing = Null /\ posted # <<>>
  /\ posted' = Tail(posted)
  /\ LET m == Head(posted) IN
       CASE m.op = "add" -> MsgAddClient(m)
         [] m.op = "remove" -> MsgRemoveClient(m)
         [] OTHER -> MsgWaits(m) \/ MsgServed(m)
  /\ UNCHANGED <<interface, clientData, controlAPI, callerVars, known>>
\* The modem comes up: what waited for the capabilities is posted again.
EngineUp(k) ==
  /\ ~aborted /\ completing = Null /\ interface[k] = "loaded" /\ k \notin known
  /\ known' = known \cup {k}
  /\ posted' = posted \o mPendingMsgs[k]
  /\ mPendingMsgs' = [mPendingMsgs EXCEPT ![k] = <<>>]
  /\ UNCHANGED <<gData, callerVars, mClientData, completing>>

AdapterThread == HandleMsg \/ (~aborted /\ DeleteThis)
LocationAPINext ==
  \/ \E a \in Apis, asked \in SUBSET Kinds : createInstance(a, asked) \/ updateCallbacks(a, asked)
  \/ \E a \in Apis, withCb \in BOOLEAN : destroy(a, withCb)
  \/ SessionCall \/ createControl \/ destroyControl \/ ControlCall
  \/ AdapterThread
  \/ \E k \in Kinds : EngineUp(k)
LocationAPISpec == LocationAPIInit /\ [][LocationAPINext]_apiVars

\* Every variable has its type.
ApiTypeOK ==
  /\ interface \in [Kinds -> {"unloaded", "loaded", "failed"}]
  /\ clientData \subseteq Apis /\ destroyClientData \in [Apis -> SUBSET Kinds]
  /\ owned \subseteq live /\ live \subseteq Apis /\ completing \in Apis \cup {Null}
  /\ mClientData \in [Kinds -> SUBSET Apis] /\ known \subseteq Kinds

\* The object is deleted last: once it is, no adapter counts it among its
\* clients and no queued message would make one do so or answer for it
\* (LocationAPI.cpp:113 waits for every adapter that destroy told), even when
\* adapters were loaded by other instances and at other times.
DeletedLast ==
  \A a \in Apis \ live :
    /\ destroyClientData[a] = {} /\ a \notin clientData
    /\ \A k \in Kinds : a \notin mClientData[k]
    /\ \A i \in DOMAIN posted : posted[i].client = a => posted[i].op \notin {"add", "remove"}

\* An instance destroyed with a callback is deleted in the end: every adapter
\* in the mask was told to remove the client and answers (LocationAPI.cpp:253).
DestroyDeletes ==
  \A a \in Apis : notify[a] = "wanted" ~> (a \notin live \/ notify[a] = "no" \/ aborted)

\* LocationAPI.cpp:252: when the adapters have answered, "we shall notify the
\* client": by the time the object is gone its callback has been called.
DestroyTold == \A a \in Apis \ live : notify[a] # "wanted"
=============================================================================
