----------------------------- MODULE OsObserver -----------------------------
(***************************************************************************)
(* SystemStatusOsObserver.cpp over SystemStatus.cpp: clients subscribe for *)
(* data items of the operating system, which come in messages, are kept in *)
(* a cache and passed on to the clients that want them.  Two maps of       *)
(* LocUnorderedSetMap.h hold who wants what, one by client and one by      *)
(* item, and the framework is subscribed for an item with its first entry. *)
(* The framework is also asked to turn modules on while someone needs them *)
(* and to connect the backhaul.                                            *)
(* All messages are processed by one thread, in order.                     *)
(***************************************************************************)
EXTENDS Naturals, Sequences, FiniteSets

CONSTANTS Observers, DataItems,
          MaxValue,     \* bound: values of a data item
          MaxObserverMsgs, \* bound: callers wait at this many messages
          MaxRequests   \* bound: requests for a module or the backhaul, messages of them
ASSUME ObserverAssumption == MaxValue \in Nat /\ MaxObserverMsgs \in Nat /\ MaxRequests \in Nat

VARIABLES
  mClientToDataItems, mDataItemToClients, \* an entry that is empty is none
  mDataItemCache,    \* 0 while there is no value
  received,          \* the last value each client was notified of
  mSubscriptionObj,  \* set
  subscribed,        \* items the framework is subscribed for
  observerMsgs,      \* messages of the observer's thread
  mFrameworkActionReqObj,   \* set
  mActiveRequestCount,      \* requests for each module
  mBackHaulConnectReqCount, \* cached until the object is set
  modulesOn, backhaul       \* what the framework was asked for last

maps == <<mClientToDataItems, mDataItemToClients>>
itemVars == <<maps, mDataItemCache, received, mSubscriptionObj, subscribed>>
actionVars == <<mFrameworkActionReqObj, mActiveRequestCount, mBackHaulConnectReqCount, modulesOn, backhaul>>
observerVars == <<itemVars, observerMsgs, actionVars>>

ObserverInit ==
  /\ mClientToDataItems = [c \in Observers |-> {}] /\ mDataItemToClients = [d \in DataItems |-> {}]
  /\ mDataItemCache = [d \in DataItems |-> 0]
  /\ received = [c \in Observers |-> [d \in DataItems |-> 0]]
  /\ mSubscriptionObj = FALSE /\ subscribed = {} /\ observerMsgs = <<>>
  /\ mFrameworkActionReqObj = FALSE /\ mActiveRequestCount = [d \in DataItems |-> 0]
  /\ mBackHaulConnectReqCount = 0 /\ modulesOn = {} /\ backhaul = FALSE

VMsg(op, c, items, value) == [op |-> op, client |-> c, items |-> items, value |-> value]
MayPost == Len(observerMsgs) < MaxObserverMsgs
SendObserver(m) == observerMsgs' = Append(observerMsgs, m)
PostObserver(m) == MayPost /\ SendObserver(m) /\ UNCHANGED <<itemVars, actionVars>>
\* Clients of the observer, the framework, and whoever brings the framework.
Calls(c) ==
  \E items \in SUBSET DataItems \ {{}}, op \in {"subscribe", "requestData", "updateSubscription", "unsubscribe"} :
    PostObserver(VMsg(op, c, items, 0))
unsubscribeAll(c) == PostObserver(VMsg("unsubscribeAll", c, {}, 0))
notifyItems == \E d \in DataItems, v \in 1 .. MaxValue : PostObserver(VMsg("notifyItems", {}, {d}, v))
setSubscriptionObj == ~mSubscriptionObj /\ PostObserver(VMsg("setSubscriptionObj", {}, {}, 0))

\* LocUnorderedSetMap: the operations on one map of sets.
Added(map, keys, vals) == [k \in DOMAIN map |-> IF k \in keys THEN map[k] \cup vals ELSE map[k]]
NewKeys(map, keys) == {k \in keys : map[k] = {}}
Trimmed(map, keys, vals) == [k \in DOMAIN map |-> IF k \in keys THEN map[k] \ vals ELSE map[k]]
GoneKeys(map, keys, vals) == {k \in keys : map[k] # {} /\ map[k] \subseteq vals}
\* update returns what the old set and the new one have in common, and takes
\* it out of the new one.
UpdateReturns(map, key, vals) == map[key] \cap vals

TakeObserver(op) ==
  /\ observerMsgs # <<>> /\ Head(observerMsgs).op = op /\ observerMsgs' = Tail(observerMsgs)
sendNothing(items, c) == UNCHANGED received
sendCachedDataItems(items, c) ==
  received' = [received EXCEPT ![c] = [d \in DataItems |-> IF d \in items /\ mDataItemCache[d] # 0
                                                           THEN mDataItemCache[d] ELSE @[d]]]
Framework(subscribes, unsubscribes) ==
  subscribed' = IF mSubscriptionObj THEN (subscribed \cup subscribes) \ unsubscribes ELSE subscribed

\* A request for data subscribes the client, and asks the framework once.
SubscribeWith(op) ==
  /\ TakeObserver(op)
  /\ LET m == Head(observerMsgs)
     IN /\ mDataItemToClients' = Added(mDataItemToClients, m.items, {m.client})
        /\ mClientToDataItems' = Added(mClientToDataItems, {m.client}, m.items)
        /\ sendCachedDataItems(m.items, m.client)
        /\ Framework(IF op = "subscribe" THEN NewKeys(mDataItemToClients, m.items) ELSE {}, {})
  /\ UNCHANGED <<mDataItemCache, mSubscriptionObj>>
HandleSubscribeReq == SubscribeWith("subscribe") \/ SubscribeWith("requestData")
HandleUpdateSubscriptionReq ==
  /\ TakeObserver("updateSubscription")
  /\ LET m == Head(observerMsgs)
         common == UpdateReturns(mClientToDataItems, m.client, m.items)
         trimmed == Trimmed(mDataItemToClients, common, {m.client})
         fresh == m.items \ common
     IN /\ mClientToDataItems' = [mClientToDataItems EXCEPT ![m.client] = m.items]
        /\ mDataItemToClients' = Added(trimmed, fresh, {m.client})
        /\ sendCachedDataItems(fresh, m.client)
        /\ Framework(NewKeys(trimmed, fresh), GoneKeys(mDataItemToClients, common, {m.client}))
  /\ UNCHANGED <<mDataItemCache, mSubscriptionObj>>
Unsubscribe(c, items) ==
  LET unused == items \cap mClientToDataItems[c]
  IN /\ mClientToDataItems' = Trimmed(mClientToDataItems, {c}, items)
     /\ mDataItemToClients' = Trimmed(mDataItemToClients, unused, {c})
     /\ Framework({}, GoneKeys(mDataItemToClients, unused, {c}))
HandleUnsubscribeReq ==
  /\ TakeObserver("unsubscribe") /\ Unsubscribe(Head(observerMsgs).client, Head(observerMsgs).items)
  /\ UNCHANGED <<mDataItemCache, received, mSubscriptionObj>>
HandleUnsubscribeAllReq ==
  /\ TakeObserver("unsubscribeAll")
  /\ Unsubscribe(Head(observerMsgs).client, mClientToDataItems[Head(observerMsgs).client])
  /\ UNCHANGED <<mDataItemCache, received, mSubscriptionObj>>
\* SystemStatus keeps the items of the model too (eventDataItemNotify).
updateCache(items, value) == {d \in items : mDataItemCache[d] # value}
\* Only a value that differs from the cached one is passed on, to the clients
\* of the item that have it among theirs.
HandleNotify ==
  /\ TakeObserver("notifyItems")
  /\ LET m == Head(observerMsgs)
         changed == updateCache(m.items, m.value)
         told(c) == {d \in changed : (\E e \in changed : c \in mDataItemToClients[e]) /\ d \in mClientToDataItems[c]}
     IN /\ mDataItemCache' = [d \in DataItems |-> IF d \in changed THEN m.value ELSE mDataItemCache[d]]
        /\ received' = [c \in Observers |-> [d \in DataItems |-> IF d \in told(c) THEN m.value ELSE received[c][d]]]
  /\ UNCHANGED <<maps, mSubscriptionObj, subscribed>>
SetSubsObj ==
  /\ TakeObserver("setSubscriptionObj") /\ mSubscriptionObj' = TRUE
  /\ subscribed' = subscribed \cup {d \in DataItems : mDataItemToClients[d] # {}}
  /\ UNCHANGED <<maps, mDataItemCache, received>>

\* The callers count the requests for a module themselves: the first turns it
\* on, the last turns it off.  Without the object nothing is counted.
MayRequest == Len(observerMsgs) < MaxRequests
AskFramework(op, items) == SendObserver(VMsg(op, {}, items, 0))
turnOn(d) ==
  /\ MayRequest /\ mFrameworkActionReqObj /\ mActiveRequestCount[d] < MaxRequests
  /\ mActiveRequestCount' = [mActiveRequestCount EXCEPT ![d] = @ + 1]
  /\ IF mActiveRequestCount[d] = 0 THEN AskFramework("turnOn", {d}) ELSE UNCHANGED observerMsgs
  /\ UNCHANGED <<itemVars, mFrameworkActionReqObj, mBackHaulConnectReqCount, modulesOn, backhaul>>
turnOff(d) ==
  /\ MayRequest /\ mFrameworkActionReqObj /\ mActiveRequestCount[d] > 0
  /\ mActiveRequestCount' = [mActiveRequestCount EXCEPT ![d] = @ - 1]
  /\ IF mActiveRequestCount[d] = 1 THEN AskFramework("turnOff", {d}) ELSE UNCHANGED observerMsgs
  /\ UNCHANGED <<itemVars, mFrameworkActionReqObj, mBackHaulConnectReqCount, modulesOn, backhaul>>
connectBackhaul ==
  /\ MayRequest
  /\ IF mFrameworkActionReqObj THEN AskFramework("connect", {}) /\ UNCHANGED mBackHaulConnectReqCount
     ELSE /\ mBackHaulConnectReqCount < MaxRequests /\ UNCHANGED observerMsgs
          /\ mBackHaulConnectReqCount' = mBackHaulConnectReqCount + 1
  /\ UNCHANGED <<itemVars, mFrameworkActionReqObj, mActiveRequestCount, modulesOn, backhaul>>
disconnectBackhaul ==
  /\ MayRequest
  /\ IF mFrameworkActionReqObj THEN AskFramework("disconnect", {}) /\ UNCHANGED mBackHaulConnectReqCount
     ELSE /\ mBackHaulConnectReqCount > 0 /\ UNCHANGED observerMsgs
          /\ mBackHaulConnectReqCount' = mBackHaulConnectReqCount - 1
  /\ UNCHANGED <<itemVars, mFrameworkActionReqObj, mActiveRequestCount, modulesOn, backhaul>>
\* However many connections were cached, one is asked for.
setFrameworkActionReqObj ==
  /\ ~mFrameworkActionReqObj /\ mFrameworkActionReqObj' = TRUE /\ mBackHaulConnectReqCount' = 0
  /\ IF mBackHaulConnectReqCount > 0 THEN AskFramework("connect", {}) ELSE UNCHANGED observerMsgs
  /\ UNCHANGED <<itemVars, mActiveRequestCount, modulesOn, backhaul>>
HandleTurn ==
  /\ \/ TakeObserver("turnOn") /\ modulesOn' = modulesOn \cup Head(observerMsgs).items
     \/ TakeObserver("turnOff") /\ modulesOn' = modulesOn \ Head(observerMsgs).items
  /\ UNCHANGED <<itemVars, mFrameworkActionReqObj, mActiveRequestCount, mBackHaulConnectReqCount, backhaul>>
HandleBackhaul ==
  /\ \/ TakeObserver("connect") /\ backhaul' = TRUE
     \/ TakeObserver("disconnect") /\ backhaul' = FALSE
  /\ UNCHANGED <<itemVars, mFrameworkActionReqObj, mActiveRequestCount, mBackHaulConnectReqCount, modulesOn>>

ItemsNext ==
  \/ \E c \in Observers : Calls(c) \/ unsubscribeAll(c)
  \/ notifyItems \/ setSubscriptionObj
  \/ /\ \/ HandleSubscribeReq \/ HandleUpdateSubscriptionReq \/ HandleUnsubscribeReq
        \/ HandleUnsubscribeAllReq \/ HandleNotify \/ SetSubsObj
     /\ UNCHANGED actionVars
ActionsNext ==
  \/ \E d \in DataItems : turnOn(d) \/ turnOff(d)
  \/ connectBackhaul \/ disconnectBackhaul \/ setFrameworkActionReqObj \/ HandleTurn \/ HandleBackhaul
ObserverNext == ItemsNext \/ ActionsNext

ObserverSpec == ObserverInit /\ [][ObserverNext]_observerVars

\* A client that both maps know for an item has its last value, whenever it
\* came relative to the subscription (SystemStatusOsObserver.cpp:114, :342).
LatestTold ==
  \A c \in Observers : \A d \in mClientToDataItems[c] :
    c \in mDataItemToClients[d] => received[c][d] = mDataItemCache[d]
\* Once the messages are done exactly the modules someone still needs are on
\* (SystemStatusOsObserver.cpp:390, :432), with what was told to the clients.
ModulesFollow ==
  observerMsgs = <<>> => modulesOn = {d \in DataItems : mActiveRequestCount[d] > 0}
ObserverServes == LatestTold /\ ModulesFollow
\* update "returns the VALs that are in effect removed from the keyed VAL set"
\* (LocUnorderedSetMap.h:186): the two maps then stay the inverse of one another.
MapsInverse ==
  \A c \in Observers, d \in DataItems : d \in mClientToDataItems[c] <=> c \in mDataItemToClients[d]
=============================================================================
