---------------------------- MODULE ClientProofs ----------------------------
(***************************************************************************)
(* Proofs about what the users of the stack get: that a framework which    *)
(* starts again finds a HIDL service that works for it alone               *)
(* (GnssService), for any number of frameworks, calls and reports of       *)
(* capabilities; that a satellite is told to be used only if the fix told  *)
(* last used it, that the time of the sentences never goes back and that   *)
(* the sentences of a report list all its satellites (Reports), for all    *)
(* fixes, satellites in view and clients; that a HAL client can stop every *)
(* session that runs, if it waits for its answers; and that whether it     *)
(* waits or not it acts on the responses of its tracking session and of    *)
(* the control client for the requests they answer, and tells the breach   *)
(* of a fence by the id that the fence was added under (ClientSessions).   *)
(*                                                                         *)
(* The argument for the service: what runs at the modem runs only while a  *)
(* callback is linked to the death of its framework; of a dead framework   *)
(* every link has its notice in the queue, behind the last of its calls;   *)
(* so that an empty queue means that nothing is linked.  An interface that *)
(* is opened and closed is linked whenever one of its calls is served,     *)
(* because its opening call came before.                                   *)
(*                                                                         *)
(* The argument for the client's sessions: its dictionary pairs ids with   *)
(* sessions; a session that leaves it, or that is tracked no more, has its *)
(* stop among the commands or was ended by what is being answered; what is *)
(* still to be served runs nothing that nobody can stop.  For the answers: *)
(* the requests of the tracking queue, and of the control client's, are    *)
(* those of the commands that are to take from it, in their order; a new   *)
(* session has a number of its own.  For the fences: an id leads to a      *)
(* session that was added under it, and a session to the id it was added   *)
(* under.                                                                  *)
(*                                                                         *)
(* The argument for the sentences: a satellite is counted in the one group *)
(* that lists it, and the groups differ in their talkers or their signals; *)
(* the sentences of the groups follow one another, so that each is there   *)
(* once; a satellite's rank in its group gives its sentence and its place  *)
(* in it, and the places so given are all there are.                       *)
(***************************************************************************)
EXTENDS GnssService, Reports, ClientSessions, FiniteSetTheorems, FunctionTheorems, SequenceTheorems, TLAPS

-----------------------------------------------------------------------------
(* The service: the binder thread's work and who is linked to a death.     *)

\* What the calls, the notices and the links are.
InterfaceNames == {"gnss", "always", "measurement", "batching", "geofencing"}
Interfaces == {"gnss", "measurement", "batching", "geofencing"}
Link == [iface : Interfaces, v : Versions, by : Nat]
CallItem == [call : DOMAIN Interface, v : Versions, by : Nat, item : ConfigItems, value : Nat]
NoticeItem == [call : {"serviceDied"}, v : Versions, by : Nat, iface : Interfaces]
Died(w) == w.call = "serviceDied"

\* The two interfaces that are open only between a first and a last call.
Opener == [gnss |-> "setCallback", batching |-> "init"]
Closer == [gnss |-> "cleanup", batching |-> "cleanupBatch"]
Linked(i) == \E l \in links : l.iface = i
\* Interface i is open when what comes before n is served.
OpenAt(i, n) ==
  \/ \E j \in 1 .. (n - 1) : /\ work[j].call = Opener[i]
                             /\ \A k \in j .. (n - 1) : work[k].call # Closer[i]
  \/ Linked(i) /\ \A k \in 1 .. (n - 1) : work[k].call # Closer[i]

\* Work and links are the framework's of now.
WorkOK ==
  /\ work \in Seq(CallItem \cup NoticeItem)
  /\ links \in SUBSET Link /\ IsFiniteSet(links)
  /\ framework \in [now : Generations, up : BOOLEAN, opened : SUBSET InterfaceNames, calls : Nat]
  /\ \A n \in DOMAIN work : work[n].by = framework.now
  /\ \A l \in links : l.by = framework.now
\* The notices come last, once the framework is dead, and no link goes untold.
NoticesLast ==
  /\ \A j, k \in DOMAIN work : j < k /\ Died(work[j]) => Died(work[k])
  /\ \A n \in DOMAIN work : Died(work[n]) => ~framework.up
  /\ ~framework.up => framework.opened = {}
  /\ ~framework.up => \A l \in links : \E n \in DOMAIN work : work[n] = Notice(l)
\* Interface i is needed at n: by the call there, or by what the framework may
\* call next.
Needs(i, n) ==
  \/ n \in DOMAIN work /\ ~Died(work[n]) /\ Interface[work[n].call] = i /\ work[n].call # Opener[i]
  \/ n = Len(work) + 1 /\ framework.up /\ i \in framework.opened
CallsOpen == \A i \in DOMAIN Opener, n \in Nat : Needs(i, n) => OpenAt(i, n)
QueueOK == WorkOK /\ NoticesLast /\ CallsOpen
\* What runs runs for the framework that was linked to, and a callback is its.
GnssLinked ==
  /\ gnssClient.session \in {Nobody, framework.now} /\ gnssClient.enabled \in {Nobody, framework.now}
  /\ connectedBy \subseteq {framework.now}
  /\ ~Linked("gnss") => gnssClient.session = Nobody /\ gnssClient.enabled = Nobody /\ connectedBy = {}
  /\ \A l \in links : l.iface = "gnss" =>
       /\ gnss.mApi /\ gnss.callbacks = [NoCallbacks EXCEPT ![l.v] = l.by]
       /\ gnssClient.mGnssCbIface_2_0 = (IF l.v = "2_0" THEN l.by ELSE Nobody)
       /\ gnssClient.mGnssCbIface = (IF l.v = "2_0" THEN Nobody ELSE l.by)
\* Whoever is linked has the only measurement callback, and nobody was refused.
MeasurementLinked ==
  /\ measurement.session \in {Nobody, framework.now}
  /\ ~Linked("measurement") => measurement.session = Nobody /\ measurement.callbacks = NoCallbacks
  /\ \A l \in links : l.iface = "measurement" =>
       measurement.callbacks = [NoCallbacks EXCEPT ![l.v] = l.by] /\ measurement.client = measurement.callbacks
  /\ serviceSeen.refused = {}
BatchingLinked ==
  /\ batchService.session \in {Nobody, framework.now}
  /\ ~Linked("batching") => batchService.session = Nobody
  /\ Linked("batching") => batchService.api = framework.now
ServiceTypes ==
  /\ gnss \in [callbacks : [Versions -> Nat], mApi : BOOLEAN, mPendingConfig : [ConfigItems -> Nat]]
  /\ gnssClient \in [mGnssCbIface : Nat, mGnssCbIface_2_0 : Nat, mTracking : BOOLEAN, session : Nat,
                     enabled : Nat, config : [ConfigItems -> Nat]]
  /\ capabilitiesOf \in [mask : Nat, reports : Nat,
                         binder : [at : {"idle", "request", "given", "cached"}, mask : Nat],
                         adapter : [at : {"idle", "given", "cached"}, mask : Nat]]
  /\ measurement \in [callbacks : [Versions -> Nat], client : [Versions -> Nat], session : Nat]
  /\ batchService \in [callbacks : [Versions -> Nat], api : Nat, session : Nat]
  /\ serviceSeen \in [told : [Generations -> Nat], refused : SUBSET Nat, configured : [ConfigItems -> Nat]]
\* A mask that is known and not yet told to who is linked is in a thread's hands,
\* or the binder thread is about to ask for it.
InHand(step) == step.at \in {"given", "cached"}
CapsTold ==
  /\ \A thread \in {"binder", "adapter"} : InHand(capabilitiesOf[thread]) => capabilitiesOf[thread].mask # 0
  /\ \A thread \in {"binder", "adapter"} : capabilitiesOf[thread].at = "cached" => capabilitiesOf.mask # 0
  /\ capabilitiesOf.reports # 0 /\ capabilitiesOf.mask = 0 => capabilitiesOf.adapter.at = "given"
  /\ Linked("gnss") /\ capabilitiesOf.reports # 0 =>
       \/ serviceSeen.told[framework.now] # 0
       \/ capabilitiesOf.binder.at = "request"
       \/ InHand(capabilitiesOf.binder) \/ InHand(capabilitiesOf.adapter)
\* The lock that was configured last is the client's, or waits for a client.
Configured ==
  /\ \A n \in DOMAIN work : ~Died(work[n]) /\ work[n].call = "updateConfiguration" => work[n].value # 0
  /\ IF gnss.mApi THEN gnssClient.config["gpsLock"] = serviceSeen.configured["gpsLock"]
     ELSE /\ gnss.mPendingConfig["gpsLock"] = serviceSeen.configured["gpsLock"]
          /\ gnssClient.config["gpsLock"] = 0
ServeInv ==
  /\ QueueOK /\ ServiceTypes
  /\ GnssLinked /\ MeasurementLinked /\ BatchingLinked /\ CapsTold /\ Configured


USE ServiceAssumption DEF Nobody

\* The names of the calls, as the proofs need them.
LEMMA InterfaceFacts ==
  /\ "serviceDied" \notin DOMAIN Interface
  /\ DOMAIN Opener = {"gnss", "batching"}
  /\ Opener["gnss"] = "setCallback" /\ Opener["batching"] = "init"
  /\ Closer["gnss"] = "cleanup" /\ Closer["batching"] = "cleanupBatch"
  /\ Interface["setCallback"] = "gnss" /\ Interface["cleanup"] = "gnss"
  /\ Interface["init"] = "batching" /\ Interface["cleanupBatch"] = "batching"
  /\ {"setCallback", "cleanup", "init", "cleanupBatch"} \subseteq DOMAIN Interface
BY DEF Interface, Opener, Closer

\* Every call belongs to an interface.
LEMMA InterfaceType == \A name \in DOMAIN Interface : Interface[name] \in InterfaceNames
<1>1. DOMAIN Interface =
        {"setCallback", "start", "stop", "setPositionMode", "cleanup", "updateConfiguration", "updateNetworkState",
         "setMeasurementCallback", "close", "init", "startBatch", "stopBatch", "cleanupBatch",
         "setGeofenceCallback", "addGeofence"}
  BY DEF Interface
<1>2. /\ Interface["setCallback"] = "gnss" /\ Interface["start"] = "gnss" /\ Interface["stop"] = "gnss"
      /\ Interface["setPositionMode"] = "gnss" /\ Interface["cleanup"] = "gnss"
      /\ Interface["updateConfiguration"] = "always" /\ Interface["updateNetworkState"] = "gnss"
      /\ Interface["setMeasurementCallback"] = "measurement" /\ Interface["close"] = "measurement"
      /\ Interface["init"] = "batching" /\ Interface["startBatch"] = "batching"
      /\ Interface["stopBatch"] = "batching" /\ Interface["cleanupBatch"] = "batching"
      /\ Interface["setGeofenceCallback"] = "geofencing" /\ Interface["addGeofence"] = "geofencing"
  BY DEF Interface
<1>3. \A name \in DOMAIN Interface : Interface[name] \in {"gnss", "always", "measurement", "batching", "geofencing"}
  BY <1>1, <1>2
<1>4. QED BY <1>3 DEF InterfaceNames

\* A piece of work is a call or a notice, as its name says.
LEMMA Items ==
  ASSUME NEW w \in CallItem \cup NoticeItem
  PROVE  /\ Died(w) => w \in NoticeItem
         /\ ~Died(w) => w \in CallItem /\ w.call \in DOMAIN Interface
<1> HIDE DEF Interface
<1> QED BY InterfaceFacts DEF Died, CallItem, NoticeItem

\* A link's notice is one.
LEMMA NoticeType ==
  ASSUME NEW l \in Link PROVE Notice(l) \in NoticeItem /\ Died(Notice(l)) /\ Notice(l).by = l.by
BY DEF Notice, Link, NoticeItem, Died

\* Whoever is open stays so when the piece of work in front is done.
LEMMA OpenShift ==
  ASSUME work \in Seq(CallItem \cup NoticeItem), work # <<>>,
         \A k \in 1 .. (Len(work) - 1) : work'[k] = work[k + 1],
         NEW i \in DOMAIN Opener, NEW n \in 1 .. Len(work), OpenAt(i, n + 1),
         work[1].call = Opener[i] => Linked(i)',
         Linked(i) /\ work[1].call # Closer[i] => Linked(i)'
  PROVE  OpenAt(i, n)'
<1>1. ASSUME NEW j \in 1 .. n, work[j].call = Opener[i], \A k \in j .. n : work[k].call # Closer[i]
      PROVE  OpenAt(i, n)'
  <2>1. CASE j = 1
    <3>1. \A k \in 1 .. (n - 1) : work'[k].call # Closer[i]
      <4> TAKE k \in 1 .. (n - 1)
      <4>1. k + 1 \in j .. n /\ k \in 1 .. (Len(work) - 1)
        BY <2>1
      <4>2. QED BY <1>1, <4>1
    <3>2. QED BY <1>1, <2>1, <3>1 DEF OpenAt
  <2>2. CASE j # 1
    <3>1. j - 1 \in 1 .. (n - 1) /\ j - 1 \in 1 .. (Len(work) - 1) /\ (j - 1) + 1 = j
      BY <2>2
    <3>2. work'[j - 1].call = Opener[i]
      BY <1>1, <3>1
    <3>3. \A k \in (j - 1) .. (n - 1) : work'[k].call # Closer[i]
      <4> TAKE k \in (j - 1) .. (n - 1)
      <4>1. k + 1 \in j .. n /\ k \in 1 .. (Len(work) - 1)
        BY <2>2
      <4>2. QED BY <1>1, <4>1
    <3>4. QED BY <3>1, <3>2, <3>3 DEF OpenAt
  <2>3. QED BY <2>1, <2>2
<1>2. ASSUME Linked(i), \A k \in 1 .. n : work[k].call # Closer[i]
      PROVE  OpenAt(i, n)'
  <2>1. Linked(i)'
    BY <1>2
  <2>2. \A k \in 1 .. (n - 1) : work'[k].call # Closer[i]
    <3> TAKE k \in 1 .. (n - 1)
    <3>1. k + 1 \in 1 .. n /\ k \in 1 .. (Len(work) - 1)
      OBVIOUS
    <3>2. QED BY <1>2, <3>1
  <2>3. QED BY <2>1, <2>2 DEF OpenAt
<1>3. (n + 1) - 1 = n
  OBVIOUS
<1>4. QED BY <1>1, <1>2, <1>3 DEF OpenAt

\* When the piece of work in front is done, what the rest needs is still open.
LEMMA NeedsShift ==
  ASSUME QueueOK, work # <<>>, work' \in Seq(CallItem \cup NoticeItem),
         framework' = framework, Len(work') >= Len(work) - 1,
         \A k \in 1 .. (Len(work) - 1) : work'[k] = work[k + 1],
         \A n \in DOMAIN work' : n > Len(work) - 1 => Died(work'[n]),
         framework.up => Len(work') = Len(work) - 1,
         \A i \in DOMAIN Opener : work[1].call = Opener[i] => Linked(i)',
         \A i \in DOMAIN Opener : Linked(i) /\ work[1].call # Closer[i] => Linked(i)'
  PROVE  CallsOpen'
<1> SUFFICES ASSUME NEW i \in DOMAIN Opener, NEW n \in Nat, Needs(i, n)' PROVE OpenAt(i, n)'
  BY DEF CallsOpen
<1>1. Len(work) \in Nat \ {0} /\ Len(work') \in Nat
  BY DEF QueueOK, WorkOK
<1>d. DOMAIN work = 1 .. Len(work) /\ DOMAIN work' = 1 .. Len(work')
  BY DEF QueueOK, WorkOK
<1>2. n \in 1 .. Len(work) /\ n + 1 \in Nat /\ Needs(i, n + 1)
  <2>1. CASE n \in DOMAIN work' /\ ~Died(work'[n]) /\ Interface[work'[n].call] = i /\ work'[n].call # Opener[i]
    <3>0. ~(n > Len(work) - 1)
      BY <2>1
    <3>a. n \in 1 .. Len(work')
      BY <1>d, <2>1
    <3>1. n >= 1
      BY <1>1, <3>a
    <3>2. n \in 1 .. (Len(work) - 1) /\ n + 1 \in 1 .. Len(work)
      BY <1>1, <3>0, <3>1
    <3>3. n + 1 \in DOMAIN work /\ work'[n] = work[n + 1]
      BY <1>d, <3>2
    <3>4. Needs(i, n + 1)
      BY <2>1, <3>3 DEF Needs, Died
    <3>5. QED BY <3>2, <3>4
  <2>2. CASE n = Len(work') + 1 /\ framework'.up /\ i \in framework'.opened
    <3>1. n = Len(work)
      BY <1>1, <2>2
    <3>2. QED BY <1>1, <2>2, <3>1 DEF Needs
  <2>3. QED BY <2>1, <2>2 DEF Needs, Died
<1>3. OpenAt(i, n + 1)
  BY <1>2 DEF QueueOK, CallsOpen
<1>4. QED BY <1>2, <1>3, OpenShift DEF QueueOK, WorkOK

\* What the one in front knows: it is the living framework's, and a call of an
\* interface that is open.
LEMMA InFront ==
  ASSUME QueueOK, NEW name, Taken(name)
  PROVE  /\ work # <<>> /\ work[1] = Head(work) /\ Head(work) \in CallItem \cup NoticeItem
         /\ Head(work).call = name /\ By = framework.now
         /\ name \in DOMAIN Interface => Head(work) \in CallItem /\ ~Died(Head(work))
         /\ \A i \in DOMAIN Opener : name \in DOMAIN Interface /\ Interface[name] = i /\ name # Opener[i] => Linked(i)
<1>1. /\ work # <<>> /\ work[1] = Head(work) /\ Head(work) \in CallItem \cup NoticeItem
      /\ Head(work).call = name /\ 1 \in DOMAIN work
  BY DEF QueueOK, WorkOK, Taken
<1>2. By = framework.now
  BY <1>1 DEF QueueOK, WorkOK, By
<1>3. name \in DOMAIN Interface => Head(work) \in CallItem /\ ~Died(Head(work))
  BY <1>1, Items, InterfaceFacts DEF Died
<1>4. ASSUME NEW i \in DOMAIN Opener, name \in DOMAIN Interface, Interface[name] = i, name # Opener[i]
      PROVE  Linked(i)
  <2>1. OpenAt(i, 1)
    BY <1>1, <1>3, <1>4 DEF QueueOK, CallsOpen, Needs
  <2>2. QED BY <2>1 DEF OpenAt
<1>5. QED BY <1>1, <1>2, <1>3, <1>4

\* A piece of work is served that links nobody.
LEMMA Popped ==
  ASSUME QueueOK, NEW name, Taken(name), Served, name \notin {"setCallback", "init"},
         links' \in SUBSET links,
         \A l \in links' : Notice(l) # Head(work),
         \A i \in DOMAIN Opener : name # "serviceDied" /\ name # Closer[i] /\ Linked(i) => Linked(i)'
  PROVE  QueueOK'
<1> DEFINE item == CallItem \cup NoticeItem
<1>1. /\ work \in Seq(item) /\ work # <<>> /\ work[1] = Head(work)
      /\ work' = Tail(work) /\ framework' = framework
  BY InFront DEF QueueOK, WorkOK, Served
<1>2. Len(work') = Len(work) - 1 /\ work' \in Seq(item) /\ DOMAIN work' = 1 .. (Len(work) - 1)
  BY <1>1
<1>3. \A k \in 1 .. (Len(work) - 1) : work'[k] = work[k + 1] /\ k + 1 \in DOMAIN work
  BY <1>1
<1>4. WorkOK'
  <2>1. links' \in SUBSET Link /\ IsFiniteSet(links')
    BY FS_Subset DEF QueueOK, WorkOK
  <2>2. \A n \in DOMAIN work' : work'[n].by = framework'.now
    BY <1>1, <1>2, <1>3 DEF QueueOK, WorkOK
  <2>3. \A l \in links' : l.by = framework'.now
    BY <1>1 DEF QueueOK, WorkOK
  <2>4. QED BY <1>1, <1>2, <2>1, <2>2, <2>3 DEF QueueOK, WorkOK
<1>5. NoticesLast'
  <2>1. \A j, k \in DOMAIN work' : j < k /\ Died(work'[j]) => Died(work'[k])
    BY <1>1, <1>2, <1>3 DEF QueueOK, NoticesLast
  <2>2. \A n \in DOMAIN work' : Died(work'[n]) => ~framework'.up
    BY <1>1, <1>2, <1>3 DEF QueueOK, NoticesLast
  <2>3. ASSUME ~framework'.up, NEW l \in links' PROVE \E n \in DOMAIN work' : work'[n] = Notice(l)
    <3>1. PICK n \in DOMAIN work : work[n] = Notice(l)
      BY <1>1, <2>3 DEF QueueOK, NoticesLast
    <3>2. n # 1
      BY <1>1, <3>1
    <3>3. n \in 1 .. Len(work)
      BY <1>1
    <3>4. n - 1 \in DOMAIN work' /\ work'[n - 1] = work[n]
      BY <1>1, <1>2, <1>3, <3>2, <3>3
    <3>5. QED BY <3>1, <3>4
  <2>4. QED BY <1>1, <2>1, <2>2, <2>3 DEF QueueOK, NoticesLast, Died, Notice
<1>6. CallsOpen'
  <2>1. CASE name = "serviceDied"
    <3>1. Died(work[1]) /\ 1 \in DOMAIN work
      BY <1>1, <2>1, InFront DEF Died
    <3>2. ~framework.up
      BY <3>1 DEF QueueOK, NoticesLast
    <3>3. \A n \in DOMAIN work' : Died(work'[n])
      <4> TAKE n \in DOMAIN work'
      <4>1. n + 1 \in DOMAIN work /\ 1 < n + 1 /\ work'[n] = work[n + 1]
        BY <1>2, <1>3
      <4>2. QED BY <3>1, <4>1 DEF QueueOK, NoticesLast
    <3>4. QED BY <1>1, <3>2, <3>3 DEF CallsOpen, Needs, Died
  <2>2. CASE name # "serviceDied"
    <3>1. \A i \in DOMAIN Opener : work[1].call # Opener[i]
      BY <1>1, InFront, InterfaceFacts
    <3>2. \A i \in DOMAIN Opener : Linked(i) /\ work[1].call # Closer[i] => Linked(i)'
      BY <1>1, <2>2, InFront
    <3>3. QED BY <1>1, <1>2, <1>3, <3>1, <3>2, NeedsShift
  <2>3. QED BY <2>1, <2>2
<1>7. QED BY <1>4, <1>5, <1>6 DEF QueueOK

\* The queue without the one in front, and with another behind.
LEMMA Behind ==
  ASSUME NEW S, NEW q \in Seq(S), q # <<>>, NEW w \in S, NEW r
  PROVE  /\ Len(q) \in Nat \ {0} /\ DOMAIN q = 1 .. Len(q)
         /\ r = Tail(q) => /\ r \in Seq(S) /\ Len(r) = Len(q) - 1 /\ DOMAIN r = 1 .. (Len(q) - 1)
                           /\ \A k \in 1 .. (Len(q) - 1) : r[k] = q[k + 1]
         /\ r = Tail(q) \o <<w>> => /\ r \in Seq(S) /\ Len(r) = Len(q) /\ DOMAIN r = 1 .. Len(q)
                                   /\ \A k \in 1 .. (Len(q) - 1) : r[k] = q[k + 1]
                                   /\ r[Len(q)] = w
<1>1. Len(q) \in Nat \ {0} /\ DOMAIN q = 1 .. Len(q)
  OBVIOUS
<1>2. ASSUME r = Tail(q) PROVE /\ r \in Seq(S) /\ Len(r) = Len(q) - 1 /\ DOMAIN r = 1 .. (Len(q) - 1)
                               /\ \A k \in 1 .. (Len(q) - 1) : r[k] = q[k + 1]
  BY <1>2
<1>3. ASSUME r = Tail(q) \o <<w>>
      PROVE  /\ r \in Seq(S) /\ Len(r) = Len(q) /\ DOMAIN r = 1 .. Len(q)
             /\ \A k \in 1 .. (Len(q) - 1) : r[k] = q[k + 1]
             /\ r[Len(q)] = w
  <2>1. /\ Tail(q) \in Seq(S) /\ Len(Tail(q)) = Len(q) - 1
        /\ \A k \in 1 .. (Len(q) - 1) : Tail(q)[k] = q[k + 1]
    OBVIOUS
  <2>2. PICK t \in Seq(S) : t = Tail(q)
    BY <2>1
  <2>3. <<w>> \in Seq(S) /\ Len(<<w>>) = 1 /\ <<w>>[1] = w
    OBVIOUS
  <2>4. /\ r \in Seq(S) /\ Len(r) = Len(t) + 1
        /\ \A k \in 1 .. (Len(t) + 1) : r[k] = IF k <= Len(t) THEN t[k] ELSE <<w>>[k - Len(t)]
    BY <1>3, <2>2, <2>3, ConcatProperties
  <2>5. QED BY <2>1, <2>2, <2>3, <2>4
<1>4. QED BY <1>1, <1>2, <1>3

\* A callback is linked to.
LEMMA LinkedTo ==
  ASSUME QueueOK, NEW name \in DOMAIN Interface, Taken(name), NEW i \in Interfaces, NEW unlinked \in SUBSET LinksOf(i),
         linkToDeath(i, unlinked), name # "cleanup", name # "cleanupBatch",
         name = "setCallback" => i = "gnss", name = "init" => i = "batching"
  PROVE  /\ QueueOK'
         /\ framework' = framework
         /\ links' = (links \ unlinked) \cup {[iface |-> i, v |-> Head(work).v, by |-> framework.now]}
         /\ Linked(i)' /\ \A j \in Interfaces \ {i} : Linked(j)' <=> Linked(j)
         /\ Head(work).v \in Versions
         /\ \A n \in DOMAIN work' : ~Died(work'[n]) => \E m \in DOMAIN work : work'[n] = work[m]
<1> DEFINE item == CallItem \cup NoticeItem
           l == [iface |-> i, v |-> Head(work).v, by |-> framework.now]
<1>1. /\ work \in Seq(item) /\ work # <<>> /\ work[1] = Head(work) /\ Head(work) \in CallItem
      /\ framework' = framework /\ By = framework.now /\ Head(work).call = name
  BY InFront DEF QueueOK, WorkOK, linkToDeath
<1>2. l \in Link /\ framework.now \in Nat /\ Head(work).v \in Versions
  BY <1>1 DEF QueueOK, WorkOK, Link, CallItem, Generations
<1>3. links' = (links \ unlinked) \cup {l}
  BY <1>1 DEF linkToDeath
<1>4. Notice(l) \in item
  BY <1>2, NoticeType
<1> HIDE DEF item, l
<1>5. Len(work) \in Nat \ {0}
  BY <1>1, <1>4, Behind
<1>d. DOMAIN work = 1 .. Len(work)
  BY <1>1, <1>4, Behind
<1>6. framework.up => work' = Tail(work)
  BY <1>1 DEF linkToDeath, Alive
<1>7. ~framework.up => work' = Tail(work) \o <<Notice(l)>>
  BY <1>1 DEF linkToDeath, Alive, l
<1>8. work' \in Seq(item) /\ \A k \in 1 .. (Len(work) - 1) : work'[k] = work[k + 1]
  BY <1>1, <1>4, <1>6, <1>7, Behind
<1>u. framework.up => DOMAIN work' = 1 .. (Len(work) - 1)
  BY <1>1, <1>4, <1>6, Behind
<1>v. ~framework.up => DOMAIN work' = 1 .. Len(work) /\ work'[Len(work)] = Notice(l)
  BY <1>1, <1>4, <1>7, Behind
<1>w. (framework.up => Len(work') = Len(work) - 1) /\ (~framework.up => Len(work') = Len(work))
  BY <1>1, <1>4, <1>6, <1>7, Behind
<1>9. Died(Notice(l)) /\ Notice(l).by = framework.now
  BY <1>2, NoticeType DEF l
<1>10. \A n \in DOMAIN work' :
         \/ n \in 1 .. (Len(work) - 1) /\ n + 1 \in DOMAIN work /\ work'[n] = work[n + 1]
         \/ ~framework.up /\ n = Len(work) /\ work'[n] = Notice(l)
  <2>1. \A n \in 1 .. Len(work) : n \in 1 .. (Len(work) - 1) \/ n = Len(work)
    BY <1>5
  <2>2. \A n \in 1 .. (Len(work) - 1) : n + 1 \in 1 .. Len(work)
    BY <1>5
  <2>3. \A n \in DOMAIN work' :
          n \in 1 .. (Len(work) - 1) \/ (~framework.up /\ n = Len(work) /\ work'[n] = Notice(l))
    BY <1>u, <1>v, <2>1
  <2>4. QED BY <1>8, <1>d, <2>2, <2>3
<1>11. WorkOK'
  <2>1. links' \in SUBSET Link /\ IsFiniteSet(links')
    <3>1. IsFiniteSet(links \ unlinked)
      BY FS_Subset DEF QueueOK, WorkOK
    <3>2. QED BY <1>2, <1>3, <3>1, FS_AddElement DEF QueueOK, WorkOK
  <2>2. \A n \in DOMAIN work' : work'[n].by = framework'.now
    <3> TAKE n \in DOMAIN work'
    <3>1. QED BY <1>1, <1>9, <1>10 DEF QueueOK, WorkOK
  <2>3. \A m \in links' : m.by = framework'.now
    BY <1>1, <1>3 DEF QueueOK, WorkOK, l
  <2>4. framework' \in [now : Generations, up : BOOLEAN, opened : SUBSET InterfaceNames, calls : Nat]
    BY <1>1 DEF QueueOK, WorkOK
  <2>5. QED BY <1>8, <2>1, <2>2, <2>3, <2>4 DEF WorkOK, item
<1>12. NoticesLast'
  <2>1. \A j, k \in DOMAIN work' : j < k /\ Died(work'[j]) => Died(work'[k])
    <3> TAKE j, k \in DOMAIN work'
    <3> SUFFICES ASSUME j < k, Died(work'[j]) PROVE Died(work'[k])
      OBVIOUS
    <3>1. CASE work'[k] = Notice(l)
      BY <1>9, <3>1
    <3>2. CASE k \in 1 .. (Len(work) - 1) /\ k + 1 \in DOMAIN work /\ work'[k] = work[k + 1]
      <4>1. j # Len(work)
        BY <1>5, <3>2
      <4>2. j \in 1 .. (Len(work) - 1) /\ j + 1 \in DOMAIN work /\ work'[j] = work[j + 1]
        BY <1>10, <4>1
      <4>3. j + 1 < k + 1
        BY <1>5, <3>2, <4>2
      <4>4. QED BY <3>2, <4>2, <4>3 DEF QueueOK, NoticesLast
    <3>3. QED BY <1>10, <3>1, <3>2
  <2>2. \A n \in DOMAIN work' : Died(work'[n]) => ~framework'.up
    <3> TAKE n \in DOMAIN work'
    <3>1. QED BY <1>1, <1>10 DEF QueueOK, NoticesLast
  <2>3. ASSUME ~framework'.up, NEW m \in links' PROVE \E n \in DOMAIN work' : work'[n] = Notice(m)
    <3>1. CASE m = l
      <4>1. Len(work) \in DOMAIN work' /\ work'[Len(work)] = Notice(l)
        <5>1. Len(work) \in 1 .. Len(work)
          BY <1>5
        <5>2. QED BY <1>1, <1>v, <2>3, <5>1
      <4>2. QED BY <3>1, <4>1
    <3>2. CASE m \in links
      <4>1. PICK n \in DOMAIN work : work[n] = Notice(m)
        BY <1>1, <2>3, <3>2 DEF QueueOK, NoticesLast
      <4>2. m \in Link
        BY <3>2 DEF QueueOK, WorkOK
      <4>3. n # 1
        BY <1>1, <4>1, <4>2, NoticeType, InFront
      <4>4. n \in 1 .. Len(work)
        BY <1>d
      <4>5. n - 1 \in 1 .. (Len(work) - 1) /\ (n - 1) + 1 = n
        BY <1>5, <4>3, <4>4
      <4>6. n - 1 \in DOMAIN work' /\ work'[n - 1] = work[n]
        <5>1. n - 1 \in 1 .. Len(work)
          BY <1>5, <4>5
        <5>2. QED BY <1>1, <1>8, <1>v, <2>3, <4>5, <5>1
      <4>7. QED BY <4>1, <4>6
    <3>3. QED BY <1>3, <3>1, <3>2
  <2>4. QED BY <1>1, <2>1, <2>2, <2>3 DEF QueueOK, NoticesLast, Died, Notice
<1>13. Linked(i)' /\ \A j \in Interfaces \ {i} : Linked(j)' <=> Linked(j)
  <2>1. l.iface = i /\ l \in links'
    BY <1>3 DEF l
  <2>2. Linked(i)'
    BY <2>1 DEF Linked
  <2>3. ASSUME NEW j \in Interfaces \ {i} PROVE Linked(j)' <=> Linked(j)
    <3>1. \A m \in links : m.iface = j => m \in links'
      BY <1>3 DEF LinksOf
    <3>2. \A m \in links' : m.iface = j => m \in links
      BY <1>3, <2>1
    <3>3. QED BY <3>1, <3>2 DEF Linked
  <2>4. QED BY <2>2, <2>3
<1>14. CallsOpen'
  <2>1. \A j \in DOMAIN Opener : work[1].call = Opener[j] => Linked(j)'
    BY <1>1, <1>13, InterfaceFacts
  <2>2. \A j \in DOMAIN Opener : Linked(j) => Linked(j)'
    BY <1>13, InterfaceFacts DEF Interfaces
  <2>3. \A n \in DOMAIN work' : n > Len(work) - 1 => Died(work'[n])
    <3> TAKE n \in DOMAIN work'
    <3>1. n \in 1 .. (Len(work) - 1) => ~(n > Len(work) - 1)
      BY <1>5
    <3>2. QED BY <1>9, <1>10, <3>1
  <2>4. Len(work') >= Len(work) - 1
    BY <1>5, <1>w
  <2>5. QED BY <1>1, <1>8, <1>w, <2>1, <2>2, <2>3, <2>4, NeedsShift DEF item
<1>15. \A n \in DOMAIN work' : ~Died(work'[n]) => \E m \in DOMAIN work : work'[n] = work[m]
  BY <1>9, <1>10
<1>16. QED BY <1>1, <1>2, <1>3, <1>11, <1>12, <1>13, <1>14, <1>15 DEF QueueOK, l

\* Nothing is taken or put.
LEMMA Stays ==
  ASSUME QueueOK, UNCHANGED <<framework, work, links>> PROVE QueueOK'
<1>1. WorkOK' /\ NoticesLast'
  BY DEF QueueOK, WorkOK, NoticesLast, Died, Notice
<1>2. CallsOpen'
  BY DEF QueueOK, CallsOpen, Needs, OpenAt, Linked, Died
<1>3. QED BY <1>1, <1>2 DEF QueueOK

\* The framework calls: what it calls is open, by an earlier call or by this one.
LEMMA Calls ==
  ASSUME QueueOK, NEW names \in SUBSET DOMAIN Interface, FrameworkCalls(names)
  PROVE  /\ QueueOK' /\ framework'.now = framework.now /\ links' = links
         /\ \A n \in DOMAIN work' : n \notin DOMAIN work => work'[n].value # 0 \/ work'[n].call # "updateConfiguration"
         /\ \A n \in DOMAIN work : n \in DOMAIN work' /\ work'[n] = work[n]
<1> DEFINE item == CallItem \cup NoticeItem
<1>1. PICK name \in names, v \in Versions, thing \in ConfigItems :
        LET i == Interface[name] IN
        /\ framework.up
        /\ v \in IF name \in Opening THEN Offers[i] ELSE {"1_0"}
        /\ i = "always" \/ name \in Opening \/ i \in framework.opened
        /\ framework' = [framework EXCEPT !.calls = @ + 1,
             !.opened = IF name \in Opening THEN @ \cup {i} ELSE IF name \in Closing THEN @ \ {i} ELSE @]
        /\ work' = Append(work, [call |-> name, v |-> v, by |-> framework.now, item |-> thing,
                                 value |-> IF i = "always" THEN framework'.calls ELSE 0])
        /\ links' = links
  BY DEF FrameworkCalls
<1>2. PICK w : w = [call |-> name, v |-> v, by |-> framework.now, item |-> thing,
                    value |-> IF Interface[name] = "always" THEN framework'.calls ELSE 0]
  OBVIOUS
<1>3. /\ framework \in [now : Generations, up : BOOLEAN, opened : SUBSET InterfaceNames, calls : Nat]
      /\ framework.now \in Nat /\ framework.calls \in Nat
  BY DEF QueueOK, WorkOK, Generations
<1>4. /\ framework'.now = framework.now /\ framework'.up /\ framework.up /\ framework'.calls = framework.calls + 1
      /\ framework' \in [now : Generations, up : BOOLEAN, opened : SUBSET InterfaceNames, calls : Nat]
      /\ framework'.opened = IF name \in Opening THEN framework.opened \cup {Interface[name]}
                             ELSE IF name \in Closing THEN framework.opened \ {Interface[name]} ELSE framework.opened
  <2>1. Interface[name] \in InterfaceNames
    BY InterfaceType
  <2>2. PICK opened : opened = IF name \in Opening THEN framework.opened \cup {Interface[name]}
                             ELSE IF name \in Closing THEN framework.opened \ {Interface[name]} ELSE framework.opened
    OBVIOUS
  <2>3. opened \in SUBSET InterfaceNames
    BY <1>3, <2>1, <2>2
  <2>4. framework' = [framework EXCEPT !.calls = @ + 1, !.opened = opened]
    BY <1>1, <1>3, <2>2
  <2>5. framework.up /\ framework.up \in BOOLEAN
    BY <1>1, <1>3
  <2>6. framework' = [now |-> framework.now, up |-> framework.up, opened |-> opened, calls |-> framework.calls + 1]
    BY <1>3, <2>4
  <2>7. framework' \in [now : Generations, up : BOOLEAN, opened : SUBSET InterfaceNames, calls : Nat]
    BY <1>3, <2>3, <2>6
  <2>8. QED BY <2>2, <2>5, <2>6, <2>7
<1>5. w \in CallItem /\ w.call = name /\ w.by = framework.now /\ ~Died(w)
      /\ (name = "updateConfiguration" => w.value # 0)
  <2>1. name # "serviceDied" /\ (name = "updateConfiguration" => Interface[name] = "always")
    BY DEF Interface
  <2>2. QED BY <1>2, <1>3, <1>4, <2>1 DEF CallItem, Died
<1>6. work \in Seq(item) /\ work' = Append(work, w)
  BY <1>1, <1>2 DEF QueueOK, WorkOK
<1>7. /\ work' \in Seq(item) /\ Len(work') = Len(work) + 1 /\ Len(work) \in Nat
      /\ work'[Len(work) + 1] = w /\ \A n \in 1 .. Len(work) : work'[n] = work[n]
  BY <1>5, <1>6
<1>8. DOMAIN work = 1 .. Len(work) /\ DOMAIN work' = 1 .. (Len(work) + 1)
  BY <1>6, <1>7
<1>9. \A n \in DOMAIN work' : n \in DOMAIN work \/ n = Len(work) + 1
  <2>1. \A n \in 1 .. (Len(work) + 1) : n \in 1 .. Len(work) \/ n = Len(work) + 1
    BY <1>7
  <2>2. QED BY <1>8, <2>1
<1>10. \A n \in DOMAIN work : n \in DOMAIN work' /\ work'[n] = work[n]
  <2>1. \A n \in 1 .. Len(work) : n \in 1 .. (Len(work) + 1)
    BY <1>7
  <2>2. QED BY <1>7, <1>8, <2>1
<1>11. WorkOK'
  <2>1. \A n \in DOMAIN work' : work'[n].by = framework'.now
    BY <1>4, <1>5, <1>7, <1>9, <1>10 DEF QueueOK, WorkOK
  <2>2. QED BY <1>1, <1>4, <1>7, <2>1 DEF QueueOK, WorkOK
<1>12. \A n \in DOMAIN work' : ~Died(work'[n])
  BY <1>4, <1>5, <1>7, <1>9, <1>10 DEF QueueOK, NoticesLast
<1>13. NoticesLast'
  BY <1>4, <1>12 DEF NoticesLast, Died
<1>14. ASSUME NEW i \in DOMAIN Opener, NEW n \in 1 .. (Len(work) + 1), OpenAt(i, n) PROVE OpenAt(i, n)'
  <2>1. \A k \in 1 .. (n - 1) : work'[k] = work[k]
    <3>1. \A k \in 1 .. (n - 1) : k \in 1 .. Len(work)
      BY <1>7
    <3>2. QED BY <1>7, <3>1
  <2>2. \A j \in 1 .. (n - 1) : \A k \in j .. (n - 1) : k \in 1 .. (n - 1)
    OBVIOUS
  <2>3. Linked(i)' <=> Linked(i)
    BY <1>1 DEF Linked
  <2>4. QED BY <1>14, <2>1, <2>2, <2>3 DEF OpenAt
<1>15. CallsOpen'
  <2> SUFFICES ASSUME NEW i \in DOMAIN Opener, NEW n \in Nat, Needs(i, n)' PROVE OpenAt(i, n)'
    BY DEF CallsOpen
  <2>1. CASE n \in DOMAIN work' /\ ~Died(work'[n]) /\ Interface[work'[n].call] = i /\ work'[n].call # Opener[i]
    <3>1. Needs(i, n)
      <4>1. CASE n \in DOMAIN work
        BY <1>10, <2>1, <4>1 DEF Needs, Died
      <4>2. CASE n = Len(work) + 1
        <5>1. Interface[name] = i /\ name # Opener[i]
          BY <1>5, <1>7, <2>1, <4>2
        <5>2. name \notin Opening /\ i # "always"
          BY <5>1 DEF Interface, Opening, Opener
        <5>3. i \in framework.opened
          BY <1>1, <5>1, <5>2
        <5>4. QED BY <1>1, <4>2, <5>3 DEF Needs
      <4>3. QED BY <1>9, <2>1, <4>1, <4>2
    <3>2. OpenAt(i, n)
      BY <3>1 DEF QueueOK, CallsOpen
    <3>3. n \in 1 .. (Len(work) + 1)
      BY <1>8, <2>1
    <3>4. QED BY <1>14, <3>2, <3>3
  <2>2. CASE n = Len(work') + 1 /\ framework'.up /\ i \in framework'.opened
    <3>1. n - 1 = Len(work) + 1 /\ n - 1 \in 1 .. (n - 1)
      BY <1>7, <2>2
    <3>2. CASE name = Opener[i]
      <4>1. work'[n - 1].call = Opener[i]
        BY <1>5, <1>7, <3>1, <3>2
      <4>2. Opener[i] # Closer[i]
        BY DEF Opener, Closer
      <4>3. \A k \in (n - 1) .. (n - 1) : work'[k].call # Closer[i]
        BY <3>1, <4>1, <4>2
      <4>4. QED BY <3>1, <4>1, <4>3 DEF OpenAt
    <3>3. CASE name # Opener[i]
      <4>1. i \in framework.opened /\ name # Closer[i]
        BY <1>4, <2>2, <3>3 DEF Interface, Opening, Closing, Opener, Closer
      <4>2. Needs(i, Len(work) + 1)
        BY <1>1, <4>1 DEF Needs
      <4>3. OpenAt(i, Len(work) + 1)
        BY <1>7, <4>2 DEF QueueOK, CallsOpen
      <4>4. work'[n - 1].call # Closer[i]
        BY <1>5, <1>7, <3>1, <4>1
      <4>5. \A k \in 1 .. (n - 1) : k = n - 1 \/ (k \in 1 .. Len(work) /\ work'[k] = work[k])
        BY <1>7, <3>1
      <4>6. Linked(i)' <=> Linked(i)
        BY <1>1 DEF Linked
      <4>7. CASE Linked(i) /\ \A k \in 1 .. Len(work) : work[k].call # Closer[i]
        BY <4>4, <4>5, <4>6, <4>7 DEF OpenAt
      <4>8. ASSUME NEW j \in 1 .. Len(work), work[j].call = Opener[i],
                   \A k \in j .. Len(work) : work[k].call # Closer[i]
            PROVE  OpenAt(i, n)'
        <5>1. j \in 1 .. (n - 1) /\ work'[j].call = Opener[i]
          BY <1>7, <3>1, <4>8
        <5>2. \A k \in j .. (n - 1) : k = n - 1 \/ (k \in j .. Len(work) /\ work'[k] = work[k])
          BY <1>7, <3>1
        <5>3. \A k \in j .. (n - 1) : work'[k].call # Closer[i]
          BY <4>4, <4>8, <5>2
        <5>4. QED BY <5>1, <5>3 DEF OpenAt
      <4>9. (Len(work) + 1) - 1 = Len(work)
        BY <1>7
      <4>10. QED BY <4>3, <4>7, <4>8, <4>9 DEF OpenAt
    <3>4. QED BY <3>2, <3>3
  <2>3. QED BY <2>1, <2>2 DEF Needs, Died
<1>16. \A n \in DOMAIN work' : n \notin DOMAIN work => work'[n].value # 0 \/ work'[n].call # "updateConfiguration"
  BY <1>5, <1>7, <1>9
<1>17. QED BY <1>1, <1>4, <1>10, <1>11, <1>13, <1>15, <1>16 DEF QueueOK

\* A finite set made a sequence: every member is at some place of it.
LEMMA InSeq ==
  ASSUME NEW S, IsFiniteSet(S)
  PROVE  /\ Cardinality(S) \in Nat /\ SetToSeq(S) \in [1 .. Cardinality(S) -> S]
         /\ \A s \in S : \E n \in 1 .. Cardinality(S) : SetToSeq(S)[n] = s
<1>1. Cardinality(S) \in Nat /\ ExistsBijection(1 .. Cardinality(S), S)
  BY FS_CardinalityType
<1>2. PICK b \in Bijection(1 .. Cardinality(S), S) : TRUE
  BY <1>1 DEF ExistsBijection
<1>3. b \in [1 .. Cardinality(S) -> S] /\ IsInjective(b)
  BY <1>2 DEF Bijection, Injection, IsInjective
<1>4. SetToSeq(S) \in [1 .. Cardinality(S) -> S] /\ IsInjective(SetToSeq(S))
  BY <1>3 DEF SetToSeq
<1>5. PICK f : f = SetToSeq(S)
  OBVIOUS
<1>6. f \in Injection(1 .. Cardinality(S), S)
  BY <1>4, <1>5 DEF Injection, IsInjective
<1>7. IsFiniteSet(1 .. Cardinality(S)) /\ Cardinality(1 .. Cardinality(S)) = Cardinality(S)
  <2>1. Cardinality(1 .. Cardinality(S)) = IF 1 > Cardinality(S) THEN 0 ELSE Cardinality(S) - 1 + 1
    BY <1>1, FS_Interval
  <2>2. IsFiniteSet(1 .. Cardinality(S))
    BY <1>1, FS_Interval
  <2>3. QED BY <1>1, <2>1, <2>2
<1>8. f \in Surjection(1 .. Cardinality(S), S)
  BY <1>6, <1>7, FS_Injection
<1>9. QED BY <1>1, <1>4, <1>5, <1>8 DEF Surjection

\* The framework dies: whoever is linked to it will be told.
LEMMA Dies ==
  ASSUME QueueOK, FrameworkDies
  PROVE  /\ QueueOK' /\ framework'.now = framework.now /\ links' = links /\ framework'.opened = {}
         /\ \A n \in DOMAIN work' : ~Died(work'[n]) => n \in DOMAIN work /\ work'[n] = work[n]
<1> DEFINE item == CallItem \cup NoticeItem
<1>1. PICK order : order = SetToSeq(links)
  OBVIOUS
<1>2. PICK c \in Nat : c = Cardinality(links)
  BY InSeq DEF QueueOK, WorkOK
<1>3. order \in [1 .. c -> links] /\ \A l \in links : \E n \in 1 .. c : order[n] = l
  BY <1>1, <1>2, InSeq DEF QueueOK, WorkOK
<1>4. PICK notices : notices = [n \in 1 .. c |-> Notice(order[n])]
  OBVIOUS
<1>5. \A n \in 1 .. c : /\ notices[n] = Notice(order[n]) /\ notices[n] \in NoticeItem /\ Died(notices[n])
                        /\ notices[n].by = framework.now
  <2> TAKE n \in 1 .. c
  <2>1. order[n] \in links /\ order[n] \in Link
    BY <1>3 DEF QueueOK, WorkOK
  <2>2. QED BY <1>4, <2>1, NoticeType DEF QueueOK, WorkOK
<1>6. notices \in [1 .. c -> item]
  BY <1>4, <1>5
<1>7. notices \in Seq(item) /\ Len(notices) = c
  BY <1>4, <1>6
<1>8. work \in Seq(item) /\ Len(work) \in Nat
  BY DEF QueueOK, WorkOK
<1>9. /\ work' = work \o notices /\ framework.up /\ links' = links
      /\ framework' = [framework EXCEPT !.up = FALSE, !.opened = {}]
  BY <1>1, <1>3, <1>4 DEF FrameworkDies
<1>10. /\ work' \in Seq(item) /\ Len(work') = Len(work) + c
       /\ \A n \in 1 .. (Len(work) + c) : work'[n] = IF n <= Len(work) THEN work[n] ELSE notices[n - Len(work)]
  <2> HIDE DEF item
  <2>1. QED BY <1>7, <1>8, <1>9, ConcatProperties
<1>d. DOMAIN work = 1 .. Len(work) /\ DOMAIN work' = 1 .. (Len(work) + c)
  BY <1>8, <1>10
<1>11. \A n \in DOMAIN work' :
         \/ n \in DOMAIN work /\ work'[n] = work[n]
         \/ n > Len(work) /\ n - Len(work) \in 1 .. c /\ work'[n] = notices[n - Len(work)]
  <2>1. \A n \in 1 .. (Len(work) + c) :
          \/ n \in 1 .. Len(work) /\ n <= Len(work)
          \/ n > Len(work) /\ ~(n <= Len(work)) /\ n - Len(work) \in 1 .. c
    BY <1>8
  <2>2. QED BY <1>10, <1>d, <2>1
<1>12. /\ framework' \in [now : Generations, up : BOOLEAN, opened : SUBSET InterfaceNames, calls : Nat]
       /\ framework'.now = framework.now /\ ~framework'.up /\ framework'.opened = {}
  BY <1>9 DEF QueueOK, WorkOK
<1>13. WorkOK'
  <2>1. \A n \in DOMAIN work' : work'[n].by = framework'.now
    BY <1>5, <1>11, <1>12 DEF QueueOK, WorkOK
  <2>2. QED BY <1>9, <1>10, <1>12, <2>1 DEF QueueOK, WorkOK
<1>14. \A n \in DOMAIN work : ~Died(work[n])
  BY <1>9 DEF QueueOK, NoticesLast
<1>15. NoticesLast'
  <2>1. ASSUME NEW j \in DOMAIN work', NEW k \in DOMAIN work', j < k, Died(work'[j]) PROVE Died(work'[k])
    <3>1. j > Len(work)
      BY <1>11, <1>14, <2>1
    <3>2. k \notin 1 .. Len(work)
      <4>1. j \in Nat /\ k \in Nat
        BY <1>8, <1>d
      <4>2. QED BY <1>8, <2>1, <3>1, <4>1
    <3>3. QED BY <1>5, <1>11, <1>d, <3>2
  <2>2. ASSUME NEW l \in links' PROVE \E n \in DOMAIN work' : work'[n] = Notice(l)
    <3>1. PICK n \in 1 .. c : order[n] = l
      BY <1>3, <1>9
    <3>2. Len(work) + n \in 1 .. (Len(work) + c) /\ ~(Len(work) + n <= Len(work)) /\ (Len(work) + n) - Len(work) = n
      BY <1>8
    <3>3. work'[Len(work) + n] = notices[n]
      BY <1>10, <3>2
    <3>4. QED BY <1>5, <1>d, <3>1, <3>2, <3>3
  <2>3. QED BY <1>12, <2>1, <2>2 DEF QueueOK, NoticesLast, Died, Notice
<1>16. CallsOpen'
  <2> SUFFICES ASSUME NEW i \in DOMAIN Opener, NEW n \in Nat, Needs(i, n)' PROVE OpenAt(i, n)'
    BY DEF CallsOpen
  <2>1. n \in DOMAIN work' /\ ~Died(work'[n])
    BY <1>12 DEF Needs, Died
  <2>2. n \in DOMAIN work /\ work'[n] = work[n]
    BY <1>5, <1>11, <2>1
  <2>3. Needs(i, n)
    BY <1>12, <2>1, <2>2 DEF Needs, Died
  <2>4. OpenAt(i, n)
    BY <2>3 DEF QueueOK, CallsOpen
  <2>5. n \in 1 .. Len(work)
    BY <1>d, <2>2
  <2>6. \A k \in 1 .. (n - 1) : work'[k] = work[k]
    <3>1. \A k \in 1 .. (n - 1) : k \in 1 .. (Len(work) + c) /\ k <= Len(work)
      BY <1>8, <2>5
    <3>2. QED BY <1>10, <3>1
  <2>7. \A j \in 1 .. (n - 1) : \A k \in j .. (n - 1) : k \in 1 .. (n - 1)
    OBVIOUS
  <2>8. Linked(i)' <=> Linked(i)
    BY <1>9 DEF Linked
  <2>9. QED BY <2>4, <2>6, <2>7, <2>8 DEF OpenAt
<1>17. \A n \in DOMAIN work' : ~Died(work'[n]) => n \in DOMAIN work /\ work'[n] = work[n]
  BY <1>5, <1>11
<1>18. QED BY <1>9, <1>12, <1>13, <1>15, <1>16, <1>17 DEF QueueOK

\* The next framework starts when no call of the last one waits: nobody is
\* linked to it any more.
LEMMA Starts ==
  ASSUME SlowStart = TRUE, QueueOK, FrameworkStarts
  PROVE  /\ QueueOK' /\ links = {} /\ links' = {} /\ work' = <<>> /\ framework'.opened = {}
<1>1. work = <<>> /\ ~framework.up /\ framework.now < MaxFrameworks /\ work' = work /\ links' = links
  BY DEF FrameworkStarts
<1>2. links = {}
  BY <1>1 DEF QueueOK, NoticesLast
<1>3. framework \in [now : Generations, up : BOOLEAN, opened : SUBSET InterfaceNames, calls : Nat]
  BY DEF QueueOK, WorkOK
<1>4. framework.opened = {}
  BY <1>1 DEF QueueOK, NoticesLast
<1>5. framework' = [framework EXCEPT !.now = @ + 1, !.up = TRUE]
  BY DEF FrameworkStarts
<1>6. framework.now + 1 \in Generations
  BY <1>1, <1>3 DEF Generations
<1>7. /\ framework' \in [now : Generations, up : BOOLEAN, opened : SUBSET InterfaceNames, calls : Nat]
      /\ framework'.opened = {} /\ framework'.up
  BY <1>3, <1>4, <1>5, <1>6
<1>8. WorkOK'
  BY <1>1, <1>2, <1>7, FS_EmptySet DEF WorkOK
<1>9. NoticesLast'
  BY <1>1, <1>2, <1>7 DEF NoticesLast, Died
<1>10. CallsOpen'
  BY <1>1, <1>7 DEF CallsOpen, Needs, Died
<1>11. QED BY <1>1, <1>2, <1>7, <1>8, <1>9, <1>10 DEF QueueOK

-----------------------------------------------------------------------------
(* What an action leaves alone.                                            *)

SameLinks(i) ==
  /\ \A l \in links : l.iface = i => l \in links'
  /\ \A l \in links' : l.iface = i => l \in links

\* GnssLinked is about the GNSS interface and its links alone.
LEMMA GnssKept ==
  ASSUME ServeInv, UNCHANGED <<gnss, gnssClient, connectedBy>>, framework'.now = framework.now, SameLinks("gnss")
  PROVE  GnssLinked'
<1>1. Linked("gnss") <=> Linked("gnss")'
  BY DEF SameLinks, Linked
<1>2. \A l \in links' : l.iface = "gnss" => l \in links
  BY DEF SameLinks
<1>3. QED BY <1>1, <1>2 DEF ServeInv, GnssLinked

\* MeasurementLinked is about the measurement interface and its links alone.
LEMMA MeasurementKept ==
  ASSUME ServeInv, UNCHANGED measurement, serviceSeen'.refused = serviceSeen.refused,
         framework'.now = framework.now, SameLinks("measurement")
  PROVE  MeasurementLinked'
<1>1. Linked("measurement") <=> Linked("measurement")'
  BY DEF SameLinks, Linked
<1>2. \A l \in links' : l.iface = "measurement" => l \in links
  BY DEF SameLinks
<1>3. QED BY <1>1, <1>2 DEF ServeInv, MeasurementLinked

\* BatchingLinked is about the batching interface and its links alone.
LEMMA BatchingKept ==
  ASSUME ServeInv, UNCHANGED batchService, framework'.now = framework.now, SameLinks("batching")
  PROVE  BatchingLinked'
<1>1. Linked("batching") <=> Linked("batching")'
  BY DEF SameLinks, Linked
<1>2. QED BY <1>1 DEF ServeInv, BatchingLinked

\* CapsTold is kept when neither capabilities nor who is told of them change.
LEMMA CapsKept ==
  ASSUME ServeInv, UNCHANGED capabilitiesOf, serviceSeen'.told = serviceSeen.told,
         framework'.now = framework.now, Linked("gnss")' => Linked("gnss")
  PROVE  CapsTold'
BY DEF ServeInv, CapsTold, InHand

\* Every call in the queue was in it before.
NoNews == \A n \in DOMAIN work' : ~Died(work'[n]) => \E m \in DOMAIN work : work'[n] = work[m]

\* Configured is kept when neither the client nor what is configured changes.
LEMMA ConfigKept ==
  ASSUME ServeInv, NoNews, gnss'.mApi = gnss.mApi, gnss'.mPendingConfig = gnss.mPendingConfig,
         gnssClient'.config = gnssClient.config, serviceSeen'.configured = serviceSeen.configured
  PROVE  Configured'
<1>1. \A n \in DOMAIN work' : ~Died(work'[n]) /\ work'[n].call = "updateConfiguration" => work'[n].value # 0
  BY DEF ServeInv, Configured, NoNews, Died
<1>2. QED BY <1>1 DEF ServeInv, Configured, Died

\* Serving the one in front puts no new call in the queue.
LEMMA TailNoNews == ASSUME QueueOK, work # <<>>, work' = Tail(work) PROVE NoNews
<1>1. Len(work) \in Nat \ {0} /\ work \in Seq(CallItem \cup NoticeItem)
  BY DEF QueueOK, WorkOK
<1>2. \A n \in 1 .. (Len(work) - 1) : n + 1 \in 1 .. Len(work) /\ work'[n] = work[n + 1]
  BY <1>1
<1>d. DOMAIN work = 1 .. Len(work) /\ DOMAIN work' = 1 .. (Len(work) - 1)
  BY <1>1
<1>3. QED BY <1>2, <1>d DEF NoNews

\* Links are to the callbacks of the framework of now.
LEMMA NowType ==
  ASSUME ServeInv
  PROVE  /\ framework.now \in Nat \ {0} /\ framework.now \in Generations
         /\ framework \in [now : Generations, up : BOOLEAN, opened : SUBSET InterfaceNames, calls : Nat]
         /\ \A l \in links : l \in Link /\ l.by = framework.now
BY DEF ServeInv, QueueOK, WorkOK, Generations

\* Without a change of the links every interface keeps its own.
LEMMA SameAll == ASSUME links' = links PROVE \A i : SameLinks(i) /\ (Linked(i)' <=> Linked(i))
BY DEF SameLinks, Linked

-----------------------------------------------------------------------------
(* The framework.                                                          *)

\* Calls, death and start of the framework keep the invariant.
LEMMA FrameworkServe ==
  ASSUME SlowStart = TRUE, ServeInv, NEW names \in SUBSET DOMAIN Interface,
         FrameworkCalls(names) \/ FrameworkDies \/ FrameworkStarts
  PROVE  ServeInv'
<1>1. CASE FrameworkCalls(names)
  <2>1. /\ QueueOK' /\ framework'.now = framework.now /\ links' = links
        /\ \A n \in DOMAIN work' : n \notin DOMAIN work => work'[n].value # 0 \/ work'[n].call # "updateConfiguration"
        /\ \A n \in DOMAIN work : n \in DOMAIN work' /\ work'[n] = work[n]
    BY <1>1, Calls DEF ServeInv
  <2>2. UNCHANGED <<gnssVars, extensionVars, serviceSeen>>
    BY <1>1 DEF FrameworkCalls
  <2>3. ServiceTypes'
    BY <2>2 DEF ServeInv, ServiceTypes, gnssVars, extensionVars
  <2>4. GnssLinked' /\ MeasurementLinked' /\ BatchingLinked' /\ CapsTold'
    BY <2>1, <2>2, SameAll, GnssKept, MeasurementKept, BatchingKept, CapsKept DEF gnssVars, extensionVars
  <2>5. \A n \in DOMAIN work' : ~Died(work'[n]) /\ work'[n].call = "updateConfiguration" => work'[n].value # 0
    BY <2>1 DEF ServeInv, Configured, Died
  <2>6. Configured'
    BY <2>2, <2>5 DEF ServeInv, Configured, Died, gnssVars
  <2>7. QED BY <2>1, <2>3, <2>4, <2>6 DEF ServeInv
<1>2. CASE FrameworkDies
  <2>1. /\ QueueOK' /\ framework'.now = framework.now /\ links' = links
        /\ \A n \in DOMAIN work' : ~Died(work'[n]) => n \in DOMAIN work /\ work'[n] = work[n]
    BY <1>2, Dies DEF ServeInv
  <2>2. UNCHANGED <<gnssVars, extensionVars, serviceSeen>>
    BY <1>2 DEF FrameworkDies
  <2>3. ServiceTypes'
    BY <2>2 DEF ServeInv, ServiceTypes, gnssVars, extensionVars
  <2>4. GnssLinked' /\ MeasurementLinked' /\ BatchingLinked' /\ CapsTold'
    BY <2>1, <2>2, SameAll, GnssKept, MeasurementKept, BatchingKept, CapsKept DEF gnssVars, extensionVars
  <2>5. Configured'
    BY <2>1, <2>2, ConfigKept DEF NoNews, gnssVars
  <2>6. QED BY <2>1, <2>3, <2>4, <2>5 DEF ServeInv
<1>3. CASE FrameworkStarts
  <2>1. QueueOK' /\ links = {} /\ links' = {} /\ work' = <<>>
    BY <1>3, Starts DEF ServeInv
  <2>2. UNCHANGED <<gnssVars, extensionVars, serviceSeen>>
    BY <1>3 DEF FrameworkStarts
  <2>3. ServiceTypes'
    BY <2>2 DEF ServeInv, ServiceTypes, gnssVars, extensionVars
  <2>4. \A i : ~Linked(i) /\ ~Linked(i)'
    BY <2>1 DEF Linked
  <2>5. GnssLinked'
    BY <2>1, <2>2, <2>4 DEF ServeInv, GnssLinked, gnssVars
  <2>6. MeasurementLinked' /\ BatchingLinked'
    BY <2>1, <2>2, <2>4 DEF ServeInv, MeasurementLinked, BatchingLinked, extensionVars
  <2>7. CapsTold'
    BY <2>2, <2>4 DEF ServeInv, CapsTold, InHand, gnssVars
  <2>8. Configured'
    BY <2>1, <2>2 DEF ServeInv, Configured, Died, gnssVars
  <2>9. QED BY <2>1, <2>3, <2>5, <2>6, <2>7, <2>8 DEF ServeInv
<1>4. QED BY <1>1, <1>2, <1>3

-----------------------------------------------------------------------------
(* The callbacks and the client of the GNSS interface.                     *)

GnssClientType ==
  [mGnssCbIface : Nat, mGnssCbIface_2_0 : Nat, mTracking : BOOLEAN, session : Nat, enabled : Nat,
   config : [ConfigItems -> Nat]]

\* The client that a callback is registered with: the old one, or one that is given
\* what was configured before.
LEMMA GetApi ==
  ASSUME ServeInv
  PROVE  /\ getApi \in GnssClientType /\ getApi.session = gnssClient.session /\ getApi.enabled = gnssClient.enabled
         /\ getApi.config["gpsLock"] = serviceSeen.configured["gpsLock"]
<1>1. gnssClient \in GnssClientType /\ gnss.mPendingConfig \in [ConfigItems -> Nat] /\ gnss.mApi \in BOOLEAN
  BY DEF ServeInv, ServiceTypes, GnssClientType
<1>2. CASE gnss.mApi
  BY <1>1, <1>2 DEF getApi, ServeInv, Configured
<1>3. CASE ~gnss.mApi
  <2>1. PICK config : config = [k \in ConfigItems |->
                                  IF gnss.mPendingConfig[k] # 0 THEN gnss.mPendingConfig[k] ELSE gnssClient.config[k]]
    OBVIOUS
  <2>2. config \in [ConfigItems -> Nat]
    BY <1>1, <2>1 DEF GnssClientType
  <2>3. getApi = [gnssClient EXCEPT !.config = config]
    BY <1>1, <1>3, <2>1 DEF getApi, gnssConfigurationUpdate, GnssClientType
  <2>4. /\ getApi \in GnssClientType /\ getApi.session = gnssClient.session /\ getApi.enabled = gnssClient.enabled
        /\ getApi.config = config
    BY <1>1, <2>2, <2>3 DEF GnssClientType
  <2>5. config["gpsLock"] = serviceSeen.configured["gpsLock"]
    BY <1>3, <2>1 DEF ServeInv, Configured, ConfigItems
  <2>6. QED BY <2>4, <2>5
<1>4. QED BY <1>1, <1>2, <1>3

\* The client is given one callback, that of the version that is registered.
LEMMA Registers ==
  ASSUME ServeInv, NEW v \in Versions, NEW client \in GnssClientType, Register(v, client),
         client.session = gnssClient.session, client.enabled = gnssClient.enabled,
         client.config["gpsLock"] = serviceSeen.configured["gpsLock"],
         client.mGnssCbIface_2_0 = IF v = "2_0" THEN By ELSE Nobody,
         client.mGnssCbIface = IF v = "2_0" THEN Nobody ELSE By
  PROVE  ServeInv'
<1>1. Taken("setCallback") /\ Head(work).v = v /\ linkToDeath("gnss", LinksOf("gnss"))
  BY DEF Register
<1>2. "setCallback" \in DOMAIN Interface
  BY InterfaceFacts
<1>3. By = framework.now /\ framework.now \in Nat \ {0}
  BY <1>1, InFront, NowType DEF ServeInv
<1>4. /\ QueueOK' /\ framework' = framework /\ Linked("gnss")'
      /\ links' = (links \ LinksOf("gnss")) \cup {[iface |-> "gnss", v |-> v, by |-> framework.now]}
      /\ NoNews
  <2>1. "gnss" \in Interfaces /\ LinksOf("gnss") \in SUBSET LinksOf("gnss")
    BY DEF Interfaces
  <2>2. QED BY <1>1, <1>2, <2>1, LinkedTo DEF ServeInv, NoNews
<1>5. /\ gnss' = [callbacks |-> [NoCallbacks EXCEPT ![v] = By], mApi |-> TRUE, mPendingConfig |-> NotConfigured]
      /\ gnssClient' = gnssEnable(client, By)
      /\ capabilitiesOf' = [capabilitiesOf EXCEPT !.binder = Step("request", 0)]
      /\ UNCHANGED <<connectedBy, extensionVars, serviceSeen>>
  BY DEF Register
<1>6. /\ gnssClient' \in GnssClientType
      /\ gnssClient'.enabled = (IF client.enabled = Nobody THEN By ELSE client.enabled)
      /\ gnssClient'.session = client.session /\ gnssClient'.config = client.config
      /\ gnssClient'.mGnssCbIface_2_0 = client.mGnssCbIface_2_0 /\ gnssClient'.mGnssCbIface = client.mGnssCbIface
  BY <1>3, <1>5 DEF gnssEnable, GnssClientType
<1>7. /\ capabilitiesOf'.binder = [at |-> "request", mask |-> 0] /\ capabilitiesOf'.adapter = capabilitiesOf.adapter
      /\ capabilitiesOf'.mask = capabilitiesOf.mask /\ capabilitiesOf'.reports = capabilitiesOf.reports
      /\ capabilitiesOf' \in [mask : Nat, reports : Nat,
                              binder : [at : {"idle", "request", "given", "cached"}, mask : Nat],
                              adapter : [at : {"idle", "given", "cached"}, mask : Nat]]
  BY <1>5 DEF ServeInv, ServiceTypes, Step
<1>8. ServiceTypes'
  <2>1. gnss' \in [callbacks : [Versions -> Nat], mApi : BOOLEAN, mPendingConfig : [ConfigItems -> Nat]]
    <3>1. [NoCallbacks EXCEPT ![v] = By] \in [Versions -> Nat] /\ NotConfigured \in [ConfigItems -> Nat]
      BY <1>3 DEF NoCallbacks, NotConfigured
    <3>2. QED BY <1>5, <3>1
  <2>2. QED BY <1>5, <1>6, <1>7, <2>1 DEF ServeInv, ServiceTypes, GnssClientType, extensionVars
<1>9. GnssLinked'
  <2>1. ASSUME NEW l \in links', l.iface = "gnss" PROVE l.v = v /\ l.by = framework.now
    BY <1>4, <2>1 DEF LinksOf
  <2>2. /\ gnssClient'.session \in {Nobody, framework'.now} /\ gnssClient'.enabled \in {Nobody, framework'.now}
        /\ connectedBy' \subseteq {framework'.now}
    BY <1>3, <1>4, <1>5, <1>6 DEF ServeInv, GnssLinked
  <2>3. gnss'.mApi /\ gnss'.callbacks = [NoCallbacks EXCEPT ![v] = framework.now]
    BY <1>3, <1>5
  <2>4. QED BY <1>3, <1>4, <1>6, <2>1, <2>2, <2>3 DEF GnssLinked
<1>10. SameLinks("measurement") /\ SameLinks("batching")
  BY <1>4 DEF SameLinks, LinksOf
<1>11. MeasurementLinked' /\ BatchingLinked'
  BY <1>4, <1>5, <1>10, MeasurementKept, BatchingKept DEF extensionVars
<1>12. CapsTold'
  BY <1>5, <1>7 DEF ServeInv, CapsTold, InHand
<1>13. Configured'
  <2>1. \A n \in DOMAIN work' : ~Died(work'[n]) /\ work'[n].call = "updateConfiguration" => work'[n].value # 0
    BY <1>4 DEF ServeInv, Configured, NoNews, Died
  <2>2. QED BY <1>5, <1>6, <2>1 DEF Configured, Died
<1>14. QED BY <1>4, <1>8, <1>9, <1>11, <1>12, <1>13 DEF ServeInv

\* The three versions of setCallback.
LEMMA CallbackServe ==
  ASSUME ServeInv, setCallback \/ setCallback_1_1 \/ setCallback_2_0 PROVE ServeInv'
<1>1. Taken("setCallback")
  BY DEF setCallback, setCallback_1_1, setCallback_2_0, Register
<1>2. By \in Nat
  BY <1>1, InFront, NowType DEF ServeInv
<1>3. /\ getApi \in GnssClientType /\ getApi.session = gnssClient.session /\ getApi.enabled = gnssClient.enabled
      /\ getApi.config["gpsLock"] = serviceSeen.configured["gpsLock"]
  BY GetApi
<1>4. PICK api \in GnssClientType : api = getApi
  BY <1>3
<1>5. CASE setCallback \/ setCallback_1_1
  <2>1. PICK client : client = gnssUpdateCallbacks(gnssUpdateCallbacks_2_0(api, Nobody), By)
    OBVIOUS
  <2>2. PICK v \in {"1_0", "1_1"} : Register(v, client)
    BY <1>4, <1>5, <2>1 DEF setCallback, setCallback_1_1
  <2>3. /\ client \in GnssClientType /\ client.session = api.session /\ client.enabled = api.enabled
        /\ client.config = api.config /\ client.mGnssCbIface_2_0 = Nobody /\ client.mGnssCbIface = By
    BY <1>2, <2>1 DEF GnssClientType, gnssUpdateCallbacks, gnssUpdateCallbacks_2_0
  <2>4. v \in Versions /\ v # "2_0"
    BY DEF Versions
  <2>5. QED BY <1>3, <1>4, <2>2, <2>3, <2>4, Registers
<1>6. CASE setCallback_2_0
  <2>1. PICK client : client = gnssUpdateCallbacks_2_0(gnssUpdateCallbacks(api, Nobody), By)
    OBVIOUS
  <2>2. Register("2_0", client)
    BY <1>4, <1>6, <2>1 DEF setCallback_2_0
  <2>3. /\ client \in GnssClientType /\ client.session = api.session /\ client.enabled = api.enabled
        /\ client.config = api.config /\ client.mGnssCbIface_2_0 = By /\ client.mGnssCbIface = Nobody
    BY <1>2, <2>1 DEF GnssClientType, gnssUpdateCallbacks, gnssUpdateCallbacks_2_0
  <2>4. "2_0" \in Versions
    BY DEF Versions
  <2>5. QED BY <1>3, <1>4, <2>2, <2>3, <2>4, Registers
<1>7. QED BY <1>5, <1>6

\* What is in front is served, and the links are as they were.
LEMMA Serves ==
  ASSUME ServeInv, NEW name, Taken(name), Served, name \notin {"setCallback", "init", "serviceDied"}, links' = links
  PROVE  QueueOK' /\ NoNews /\ framework' = framework /\ By = framework.now
<1>1. work # <<>> /\ Head(work).call = name /\ By = framework.now
  BY InFront DEF ServeInv
<1>2. \A l \in links' : Notice(l) # Head(work)
  BY <1>1 DEF Notice
<1>3. \A i : Linked(i)' <=> Linked(i)
  BY SameAll
<1>4. QueueOK'
  <2>1. links' \in SUBSET links /\ name \notin {"setCallback", "init"}
    OBVIOUS
  <2>2. QED BY <1>2, <1>3, <2>1, Popped DEF ServeInv
<1>5. QED BY <1>1, <1>4, TailNoNews DEF ServeInv, Served

\* The calls that need a client.
LEMMA ClientServe ==
  ASSUME ServeInv, NEW name \in {"start", "stop", "setPositionMode", "cleanup"}, NEW client \in GnssClientType,
         GnssCall(name, client), client.config = gnssClient.config,
         client.session \in {Nobody, framework.now}, client.enabled \in {Nobody, framework.now},
         client.mGnssCbIface_2_0 = gnssClient.mGnssCbIface_2_0, client.mGnssCbIface = gnssClient.mGnssCbIface
  PROVE  ServeInv'
<1>1. /\ Taken(name) /\ Served /\ gnssClient' = IF gnss.mApi THEN client ELSE gnssClient
      /\ UNCHANGED <<links, gnss, capabilitiesOf, connectedBy, extensionVars, serviceSeen>>
  BY DEF GnssCall
<1>2. QueueOK' /\ NoNews /\ framework' = framework
  BY <1>1, Serves
<1>3. Linked("gnss")
  <2>1. name \in DOMAIN Interface /\ Interface[name] = "gnss" /\ name # "setCallback"
    BY DEF Interface
  <2>2. QED BY <1>1, <2>1, InFront, InterfaceFacts DEF ServeInv
<1>4. SameLinks("measurement") /\ SameLinks("batching") /\ \A i : Linked(i)' <=> Linked(i)
  BY <1>1, SameAll
<1>5. gnssClient' \in GnssClientType
  BY <1>1 DEF ServeInv, ServiceTypes, GnssClientType
<1>6. ServiceTypes'
  BY <1>1, <1>5 DEF ServeInv, ServiceTypes, GnssClientType, extensionVars
<1>7. GnssLinked'
  BY <1>1, <1>2, <1>3, <1>4 DEF ServeInv, GnssLinked
<1>8. MeasurementLinked' /\ BatchingLinked'
  BY <1>1, <1>2, <1>4, MeasurementKept, BatchingKept DEF extensionVars
<1>9. CapsTold'
  BY <1>1, <1>2, <1>4, CapsKept
<1>10. Configured'
  BY <1>1, <1>2, ConfigKept
<1>11. QED BY <1>2, <1>6, <1>7, <1>8, <1>9, <1>10 DEF ServeInv

\* start, stop, cleanup and setPositionMode, which gives the client its own callback again.
LEMMA CallServe ==
  ASSUME ServeInv, start \/ stop \/ setPositionMode \/ cleanup PROVE ServeInv'
<1>1. gnssClient \in GnssClientType /\ gnssClient.session \in {Nobody, framework.now}
      /\ gnssClient.enabled \in {Nobody, framework.now}
  BY DEF ServeInv, ServiceTypes, GnssLinked, GnssClientType
<1>2. PICK cl \in GnssClientType : cl = gnssClient
  BY <1>1
<1>3. CASE start
  <2>1. By = framework.now /\ framework.now \in Nat
    BY <1>3, InFront, NowType DEF start, GnssCall, ServeInv
  <2>2. PICK client : client = gnssStart(cl, By)
    OBVIOUS
  <2>3. /\ client \in GnssClientType /\ client.config = cl.config
        /\ client.session = (IF cl.session = Nobody THEN By ELSE cl.session) /\ client.enabled = cl.enabled
        /\ client.mGnssCbIface_2_0 = cl.mGnssCbIface_2_0 /\ client.mGnssCbIface = cl.mGnssCbIface
    BY <2>1, <2>2 DEF gnssStart, GnssClientType
  <2>4. GnssCall("start", client)
    BY <1>2, <1>3, <2>2 DEF start
  <2>5. QED BY <1>1, <1>2, <2>1, <2>3, <2>4, ClientServe
<1>4. CASE stop
  <2>1. PICK client : client = gnssStop(cl)
    OBVIOUS
  <2>2. /\ client \in GnssClientType /\ client.config = cl.config
        /\ client.session = Nobody /\ client.enabled = cl.enabled
        /\ client.mGnssCbIface_2_0 = cl.mGnssCbIface_2_0 /\ client.mGnssCbIface = cl.mGnssCbIface
    BY <2>1 DEF gnssStop, GnssClientType
  <2>3. GnssCall("stop", client)
    BY <1>2, <1>4, <2>1 DEF stop
  <2>4. QED BY <1>1, <1>2, <2>2, <2>3, ClientServe
<1>5. CASE cleanup
  <2>1. PICK client : client = CleanedUp(cl)
    OBVIOUS
  <2>2. /\ client \in GnssClientType /\ client.config = cl.config
        /\ client.session = Nobody /\ client.enabled = Nobody
        /\ client.mGnssCbIface_2_0 = cl.mGnssCbIface_2_0 /\ client.mGnssCbIface = cl.mGnssCbIface
    BY <2>1 DEF CleanedUp, gnssStop, gnssDisable, GnssClientType
  <2>3. GnssCall("cleanup", client)
    BY <1>2, <1>5, <2>1 DEF cleanup
  <2>4. QED BY <1>1, <1>2, <2>2, <2>3, ClientServe
<1>6. CASE setPositionMode
  <2>1. PICK client : client =
          LET cb == gnss.callbacks IN
          IF cb["2_0"] # Nobody THEN gnssUpdateCallbacks_2_0(gnssClient, cb["2_0"])
          ELSE IF cb["1_1"] # Nobody THEN gnssUpdateCallbacks(gnssClient, cb["1_1"])
          ELSE IF cb["1_0"] # Nobody THEN gnssUpdateCallbacks(gnssClient, cb["1_0"]) ELSE gnssClient
    OBVIOUS
  <2>2. GnssCall("setPositionMode", client)
    BY <1>6, <2>1 DEF setPositionMode
  <2>3. Linked("gnss")
    <3>1. "setPositionMode" \in DOMAIN Interface /\ Interface["setPositionMode"] = "gnss"
      BY DEF Interface
    <3>2. QED BY <2>2, <3>1, InFront, InterfaceFacts DEF ServeInv, GnssCall
  <2>4. PICK l \in links : l.iface = "gnss"
    BY <2>3 DEF Linked
  <2>5. l \in Link /\ l.by \in Nat \ {0} /\ l.v \in Versions
    BY NowType DEF Link
  <2>6. /\ gnss.callbacks = [NoCallbacks EXCEPT ![l.v] = l.by]
        /\ gnssClient.mGnssCbIface_2_0 = (IF l.v = "2_0" THEN l.by ELSE Nobody)
        /\ gnssClient.mGnssCbIface = (IF l.v = "2_0" THEN Nobody ELSE l.by)
    BY <2>4 DEF ServeInv, GnssLinked
  <2>7. \A v \in Versions : gnss.callbacks[v] = IF v = l.v THEN l.by ELSE 0
    BY <2>5, <2>6 DEF NoCallbacks
  <2>8. client = gnssClient
    <3>1. CASE l.v = "2_0"
      <4>1. client = gnssUpdateCallbacks_2_0(gnssClient, l.by)
        BY <2>1, <2>5, <2>7, <3>1 DEF Versions
      <4>2. QED BY <1>1, <2>6, <3>1, <4>1 DEF gnssUpdateCallbacks_2_0, GnssClientType
    <3>2. CASE l.v = "1_1" \/ l.v = "1_0"
      <4>1. client = gnssUpdateCallbacks(gnssClient, l.by)
        BY <2>1, <2>5, <2>7, <3>2 DEF Versions
      <4>2. QED BY <1>1, <2>6, <3>2, <4>1 DEF gnssUpdateCallbacks, GnssClientType
    <3>3. QED BY <2>5, <3>1, <3>2 DEF Versions
  <2>9. QED BY <1>1, <2>2, <2>8, ClientServe
<1>7. QED BY <1>3, <1>4, <1>5, <1>6
\* What is configured is what the client has, or is kept until there is one.
LEMMA ConfigServe == ASSUME ServeInv, updateConfiguration PROVE ServeInv'
<1>1. Taken("updateConfiguration") /\ Served /\ UNCHANGED <<links, capabilitiesOf, connectedBy, extensionVars>>
  BY DEF updateConfiguration
<1>2. QueueOK' /\ NoNews /\ framework' = framework
  BY <1>1, Serves
<1>3. /\ Head(work) \in CallItem /\ 1 \in DOMAIN work /\ work[1] = Head(work)
      /\ ~Died(work[1]) /\ work[1].call = "updateConfiguration"
  <2>1. "updateConfiguration" \in DOMAIN Interface
    BY DEF Interface
  <2>2. /\ work # <<>> /\ Head(work) \in CallItem /\ ~Died(Head(work)) /\ Head(work).call = "updateConfiguration"
        /\ work[1] = Head(work)
    BY <1>1, <2>1, InFront DEF ServeInv
  <2>3. QED BY <2>2 DEF ServeInv, QueueOK, WorkOK
<1>4. PICK thing \in ConfigItems, val \in Nat \ {0} : thing = Head(work).item /\ val = Head(work).value
  BY <1>3 DEF CallItem, ServeInv, Configured
<1>5. /\ gnss' = IF gnss.mApi THEN gnss ELSE [gnss EXCEPT !.mPendingConfig[thing] = Pending(thing, val)]
      /\ gnssClient' = IF gnss.mApi
           THEN gnssConfigurationUpdate(gnssClient, [NotConfigured EXCEPT ![thing] = val]) ELSE gnssClient
      /\ serviceSeen' = [serviceSeen EXCEPT !.configured[thing] = val]
  BY <1>4 DEF updateConfiguration
<1>6. gnss \in [callbacks : [Versions -> Nat], mApi : BOOLEAN, mPendingConfig : [ConfigItems -> Nat]]
      /\ gnssClient \in GnssClientType
      /\ serviceSeen \in [told : [Generations -> Nat], refused : SUBSET Nat, configured : [ConfigItems -> Nat]]
  BY DEF ServeInv, ServiceTypes, GnssClientType
<1>7. /\ serviceSeen' \in [told : [Generations -> Nat], refused : SUBSET Nat, configured : [ConfigItems -> Nat]]
      /\ serviceSeen'.told = serviceSeen.told /\ serviceSeen'.refused = serviceSeen.refused
      /\ serviceSeen'.configured["gpsLock"] = IF thing = "gpsLock" THEN val ELSE serviceSeen.configured["gpsLock"]
  BY <1>5, <1>6 DEF ConfigItems
<1>8. /\ gnss' \in [callbacks : [Versions -> Nat], mApi : BOOLEAN, mPendingConfig : [ConfigItems -> Nat]]
      /\ gnss'.mApi = gnss.mApi /\ gnss'.callbacks = gnss.callbacks
      /\ ~gnss.mApi => gnss'.mPendingConfig["gpsLock"] =
                          IF thing = "gpsLock" THEN val ELSE gnss.mPendingConfig["gpsLock"]
  <2>1. Pending(thing, val) \in Nat /\ (thing = "gpsLock" => Pending(thing, val) = val)
    BY <1>4 DEF Pending
  <2>2. PICK p \in Nat : p = Pending(thing, val)
    BY <2>1
  <2>3. CASE gnss.mApi
    BY <1>5, <1>6, <2>3
  <2>4. CASE ~gnss.mApi
    BY <1>5, <1>6, <2>1, <2>2, <2>4 DEF ConfigItems
  <2>5. QED BY <1>6, <2>3, <2>4
<1>9. /\ gnssClient' \in GnssClientType
      /\ gnssClient'.session = gnssClient.session /\ gnssClient'.enabled = gnssClient.enabled
      /\ gnssClient'.mGnssCbIface = gnssClient.mGnssCbIface
      /\ gnssClient'.mGnssCbIface_2_0 = gnssClient.mGnssCbIface_2_0
      /\ ~gnss.mApi => gnssClient'.config = gnssClient.config
      /\ gnss.mApi => gnssClient'.config["gpsLock"] = IF thing = "gpsLock" THEN val ELSE gnssClient.config["gpsLock"]
  <2>1. CASE ~gnss.mApi
    BY <1>5, <1>6, <2>1
  <2>2. CASE gnss.mApi
    <3>1. PICK config : config = [k \in ConfigItems |-> IF k = thing THEN val ELSE gnssClient.config[k]]
      OBVIOUS
    <3>2. config \in [ConfigItems -> Nat]
      BY <1>6, <3>1 DEF GnssClientType
    <3>3. PICK given : given = [NotConfigured EXCEPT ![thing] = val]
      OBVIOUS
    <3>4. \A k \in ConfigItems : given[k] = IF k = thing THEN val ELSE 0
      BY <3>3 DEF NotConfigured
    <3>5. gnssClient' = [gnssClient EXCEPT !.config =
                           [k \in ConfigItems |-> IF given[k] # 0 THEN given[k] ELSE gnssClient.config[k]]]
      BY <1>5, <1>6, <2>2, <3>3 DEF gnssConfigurationUpdate, GnssClientType
    <3>6. [k \in ConfigItems |-> IF given[k] # 0 THEN given[k] ELSE gnssClient.config[k]] = config
      BY <3>1, <3>4
    <3>7. gnssClient' = [gnssClient EXCEPT !.config = config]
      BY <3>5, <3>6
    <3>8. config["gpsLock"] = IF thing = "gpsLock" THEN val ELSE gnssClient.config["gpsLock"]
      BY <3>1 DEF ConfigItems
    <3>9. QED BY <1>6, <2>2, <3>2, <3>7, <3>8 DEF GnssClientType
  <2>3. QED BY <2>1, <2>2
<1>10. SameLinks("gnss") /\ SameLinks("measurement") /\ SameLinks("batching") /\ \A i : Linked(i)' <=> Linked(i)
  BY <1>1, SameAll
<1>11. ServiceTypes'
  BY <1>1, <1>7, <1>8, <1>9 DEF ServeInv, ServiceTypes, GnssClientType, extensionVars
<1>12. GnssLinked'
  BY <1>1, <1>2, <1>8, <1>9, <1>10 DEF ServeInv, GnssLinked
<1>13. MeasurementLinked' /\ BatchingLinked'
  BY <1>1, <1>2, <1>7, <1>10, MeasurementKept, BatchingKept DEF extensionVars
<1>14. CapsTold'
  BY <1>1, <1>2, <1>7, <1>10, CapsKept
<1>15. Configured'
  <2>1. \A n \in DOMAIN work' : ~Died(work'[n]) /\ work'[n].call = "updateConfiguration" => work'[n].value # 0
    BY <1>2 DEF ServeInv, Configured, NoNews, Died
  <2>2. QED BY <1>6, <1>7, <1>8, <1>9, <2>1 DEF ServeInv, Configured, Died
<1>16. QED BY <1>2, <1>11, <1>12, <1>13, <1>14, <1>15 DEF ServeInv

\* The network is connected for a framework that is linked.
LEMMA NetworkServe == ASSUME ServeInv, updateNetworkState PROVE ServeInv'
<1>1. /\ Taken("updateNetworkState") /\ Served /\ connectedBy' = connectedBy \cup {By}
      /\ UNCHANGED <<links, gnss, gnssClient, capabilitiesOf, extensionVars, serviceSeen>>
  BY DEF updateNetworkState
<1>2. QueueOK' /\ NoNews /\ framework' = framework /\ By = framework.now
  BY <1>1, Serves
<1>3. Linked("gnss")
  <2>1. "updateNetworkState" \in DOMAIN Interface /\ Interface["updateNetworkState"] = "gnss"
    BY DEF Interface
  <2>2. QED BY <1>1, <2>1, InFront, InterfaceFacts DEF ServeInv
<1>4. SameLinks("measurement") /\ SameLinks("batching") /\ \A i : Linked(i)' <=> Linked(i)
  BY <1>1, SameAll
<1>5. ServiceTypes'
  BY <1>1 DEF ServeInv, ServiceTypes, extensionVars
<1>6. GnssLinked'
  BY <1>1, <1>2, <1>3, <1>4 DEF ServeInv, GnssLinked
<1>7. MeasurementLinked' /\ BatchingLinked'
  BY <1>1, <1>2, <1>4, MeasurementKept, BatchingKept DEF extensionVars
<1>8. CapsTold' /\ Configured'
  BY <1>1, <1>2, <1>4, CapsKept, ConfigKept
<1>9. QED BY <1>2, <1>5, <1>6, <1>7, <1>8 DEF ServeInv

-----------------------------------------------------------------------------
(* The capabilities.                                                       *)

CapsSet == [mask : Nat, reports : Nat,
            binder : [at : {"idle", "request", "given", "cached"}, mask : Nat],
            adapter : [at : {"idle", "given", "cached"}, mask : Nat]]
\* Only the capabilities and who was told of them change.
LEMMA CapsMove ==
  ASSUME ServeInv, UNCHANGED <<framework, work, links, gnss, gnssClient, connectedBy, extensionVars>>,
         serviceSeen'.refused = serviceSeen.refused, serviceSeen'.configured = serviceSeen.configured,
         capabilitiesOf' \in CapsSet,
         serviceSeen' \in [told : [Generations -> Nat], refused : SUBSET Nat, configured : [ConfigItems -> Nat]],
         CapsTold'
  PROVE  ServeInv'
<1>1. QueueOK'
  BY Stays DEF ServeInv
<1>2. SameLinks("gnss") /\ SameLinks("measurement") /\ SameLinks("batching")
  BY SameAll
<1>3. ServiceTypes'
  BY DEF ServeInv, ServiceTypes, CapsSet, extensionVars
<1>4. GnssLinked' /\ MeasurementLinked' /\ BatchingLinked'
  BY <1>2, GnssKept, MeasurementKept, BatchingKept DEF extensionVars
<1>5. Configured'
  BY DEF ServeInv, Configured, Died
<1>6. QED BY <1>1, <1>3, <1>4, <1>5 DEF ServeInv

\* Capabilities asked for, reported, cached and told, by either thread: until the
\* framework is told, one of the threads is on its way to tell it.
LEMMA CapsServe ==
  ASSUME ServeInv,
         requestCapabilities \/ AdapterReports \/ (\E thread \in {"binder", "adapter"} : onCapabilitiesCb(thread))
  PROVE  ServeInv'
<1>1. capabilitiesOf \in CapsSet
      /\ serviceSeen \in [told : [Generations -> Nat], refused : SUBSET Nat, configured : [ConfigItems -> Nat]]
  BY DEF ServeInv, ServiceTypes, CapsSet
<1>2. CASE requestCapabilities
  <2>1. /\ capabilitiesOf.binder.at = "request"
        /\ UNCHANGED <<framework, work, links, gnss, gnssClient, connectedBy, extensionVars, serviceSeen>>
    BY <1>2 DEF requestCapabilities
  <2>2. /\ capabilitiesOf' \in CapsSet
        /\ capabilitiesOf'.mask = capabilitiesOf.mask /\ capabilitiesOf'.reports = capabilitiesOf.reports
        /\ capabilitiesOf'.adapter = capabilitiesOf.adapter
        /\ capabilitiesOf.mask # 0 => capabilitiesOf'.binder = [at |-> "given", mask |-> capabilitiesOf.mask]
        /\ capabilitiesOf.mask = 0 => capabilitiesOf'.binder = [at |-> "idle", mask |-> 0]
    BY <1>1, <1>2 DEF requestCapabilities, CapsSet, Step, Resting
  <2>3. CapsTold'
    BY <2>1, <2>2 DEF ServeInv, CapsTold, InHand, Linked
  <2>4. QED BY <1>1, <2>1, <2>2, <2>3, CapsMove
<1>3. CASE AdapterReports
  <2>1. PICK mask \in CapabilityMasks :
          capabilitiesOf' = [capabilitiesOf EXCEPT !.adapter = Step("given", mask), !.reports = @ + 1]
    BY <1>3 DEF AdapterReports
  <2>2. UNCHANGED <<framework, work, links, gnss, gnssClient, connectedBy, extensionVars, serviceSeen>>
    BY <1>3 DEF AdapterReports
  <2>3. mask \in Nat \ {0}
    OBVIOUS
  <2>4. /\ capabilitiesOf' \in CapsSet
        /\ capabilitiesOf'.mask = capabilitiesOf.mask /\ capabilitiesOf'.binder = capabilitiesOf.binder
        /\ capabilitiesOf'.adapter = [at |-> "given", mask |-> mask]
    <3>1. PICK step \in [at : {"given"}, mask : Nat] : step = [at |-> "given", mask |-> mask]
      BY <2>3
    <3>2. PICK n \in Nat : n = capabilitiesOf.reports + 1
      BY <1>1 DEF CapsSet
    <3>3. capabilitiesOf' = [capabilitiesOf EXCEPT !.adapter = step, !.reports = n]
      BY <1>1, <2>1, <3>1, <3>2 DEF CapsSet, Step
    <3>4. QED BY <1>1, <3>1, <3>3 DEF CapsSet
  <2>5. CapsTold'
    BY <2>2, <2>3, <2>4 DEF ServeInv, CapsTold, InHand, Linked
  <2>6. QED BY <1>1, <2>2, <2>4, <2>5, CapsMove
<1>4. ASSUME NEW thread \in {"binder", "adapter"}, onCapabilitiesCb(thread) PROVE ServeInv'
  <2>1. PICK s : s = capabilitiesOf[thread]
    OBVIOUS
  <2>2. s.at \in {"idle", "request", "given", "cached"} /\ s.mask \in Nat /\ (InHand(s) => s.mask # 0)
    <3>1. /\ capabilitiesOf.binder.at \in {"idle", "request", "given", "cached"}
          /\ capabilitiesOf.adapter.at \in {"idle", "request", "given", "cached"}
          /\ capabilitiesOf.binder.mask \in Nat /\ capabilitiesOf.adapter.mask \in Nat
      BY <1>1 DEF CapsSet
    <3>2. InHand(s) => s.mask # 0
      BY <2>1 DEF ServeInv, CapsTold
    <3>3. CASE thread = "binder"
      <4>1. s = capabilitiesOf.binder
        BY <2>1, <3>3
      <4>2. QED BY <3>1, <3>2, <4>1
    <3>4. CASE thread = "adapter"
      <4>1. s = capabilitiesOf.adapter
        BY <2>1, <3>4
      <4>2. QED BY <3>1, <3>2, <4>1
    <3>5. QED BY <3>3, <3>4
  <2>3. UNCHANGED <<framework, work, links, gnss, gnssClient, connectedBy, extensionVars>>
    BY <1>4 DEF onCapabilitiesCb
  <2>4. CASE s.at = "given" /\ capabilitiesOf' = [capabilitiesOf EXCEPT !.mask = s.mask, ![thread].at = "cached"]
             /\ UNCHANGED serviceSeen
    <3>1. s.mask # 0
      BY <2>2, <2>4 DEF InHand
    <3>2. /\ capabilitiesOf' \in CapsSet
          /\ capabilitiesOf'.mask = s.mask /\ capabilitiesOf'.reports = capabilitiesOf.reports
          /\ thread = "binder" => /\ capabilitiesOf'.binder = [at |-> "cached", mask |-> s.mask]
                                  /\ capabilitiesOf'.adapter = capabilitiesOf.adapter
          /\ thread = "adapter" => /\ capabilitiesOf'.adapter = [at |-> "cached", mask |-> s.mask]
                                   /\ capabilitiesOf'.binder = capabilitiesOf.binder
      <4>1. CASE thread = "binder"
        <5>1. capabilitiesOf' = [capabilitiesOf EXCEPT !.mask = s.mask, !.binder = [at |-> "cached", mask |-> s.mask]]
          <6>1. s = capabilitiesOf.binder
            BY <2>1, <4>1
          <6>2. [s EXCEPT !.at = "cached"] = [at |-> "cached", mask |-> s.mask]
            BY <1>1, <6>1 DEF CapsSet
          <6>3. capabilitiesOf' = [capabilitiesOf EXCEPT !.mask = s.mask, !.binder.at = "cached"]
            BY <2>4, <4>1
          <6>4. QED BY <1>1, <6>1, <6>2, <6>3 DEF CapsSet
        <5>2. QED BY <1>1, <2>2, <4>1, <5>1 DEF CapsSet
      <4>2. CASE thread = "adapter"
        <5>1. capabilitiesOf' = [capabilitiesOf EXCEPT !.mask = s.mask, !.adapter = [at |-> "cached", mask |-> s.mask]]
          <6>1. s = capabilitiesOf.adapter
            BY <2>1, <4>2
          <6>2. [s EXCEPT !.at = "cached"] = [at |-> "cached", mask |-> s.mask]
            BY <1>1, <6>1 DEF CapsSet
          <6>3. capabilitiesOf' = [capabilitiesOf EXCEPT !.mask = s.mask, !.adapter.at = "cached"]
            BY <2>4, <4>2
          <6>4. QED BY <1>1, <6>1, <6>2, <6>3 DEF CapsSet
        <5>2. QED BY <1>1, <2>2, <4>2, <5>1 DEF CapsSet
      <4>3. QED BY <4>1, <4>2
    <3>3. CapsTold'
      BY <2>3, <2>4, <3>1, <3>2 DEF ServeInv, CapsTold, InHand, Linked
    <3>4. QED BY <1>1, <2>3, <2>4, <3>2, <3>3, CapsMove
  <2>5. CASE s.at = "cached" /\ capabilitiesOf' = [capabilitiesOf EXCEPT ![thread] = Resting]
             /\ serviceSeen' = IF Destination = Nobody THEN serviceSeen
                               ELSE [serviceSeen EXCEPT !.told[Destination] = s.mask]
    <3>1. s.mask # 0 /\ capabilitiesOf.mask # 0
      <4>1. capabilitiesOf[thread].at = "cached"
        BY <2>1, <2>5
      <4>2. capabilitiesOf.mask # 0
        BY <4>1 DEF ServeInv, CapsTold
      <4>3. QED BY <2>2, <2>5, <4>2 DEF InHand
    <3>2. /\ capabilitiesOf' \in CapsSet
          /\ capabilitiesOf'.mask = capabilitiesOf.mask /\ capabilitiesOf'.reports = capabilitiesOf.reports
          /\ thread = "binder" => /\ capabilitiesOf'.binder = [at |-> "idle", mask |-> 0]
                                  /\ capabilitiesOf'.adapter = capabilitiesOf.adapter
          /\ thread = "adapter" => /\ capabilitiesOf'.adapter = [at |-> "idle", mask |-> 0]
                                   /\ capabilitiesOf'.binder = capabilitiesOf.binder
      <4>1. CASE thread = "binder"
        <5>1. capabilitiesOf' = [capabilitiesOf EXCEPT !.binder = [at |-> "idle", mask |-> 0]]
          BY <2>5, <4>1 DEF Resting, Step
        <5>2. QED BY <1>1, <4>1, <5>1 DEF CapsSet
      <4>2. CASE thread = "adapter"
        <5>1. capabilitiesOf' = [capabilitiesOf EXCEPT !.adapter = [at |-> "idle", mask |-> 0]]
          BY <2>5, <4>2 DEF Resting, Step
        <5>2. QED BY <1>1, <4>2, <5>1 DEF CapsSet
      <4>3. QED BY <4>1, <4>2
    <3>3. PICK d : d = Destination
      OBVIOUS
    <3>4. /\ serviceSeen' \in [told : [Generations -> Nat], refused : SUBSET Nat, configured : [ConfigItems -> Nat]]
          /\ serviceSeen'.refused = serviceSeen.refused /\ serviceSeen'.configured = serviceSeen.configured
          /\ d # 0 /\ d \in Generations => serviceSeen'.told[d] = s.mask
      BY <1>1, <2>2, <2>5, <3>3
    <3>5. Linked("gnss") => d = framework.now /\ framework.now \in Generations /\ framework.now # 0
      <4> HAVE Linked("gnss")
      <4>1. PICK l \in links : l.iface = "gnss"
        BY DEF Linked
      <4>2. l.by = framework.now /\ framework.now \in Generations /\ framework.now # 0
        BY <4>1, NowType
      <4>3. QED BY <3>3, <4>1, <4>2 DEF Destination, ServeInv, GnssLinked
    <3>6. CapsTold'
      <4>1. Linked("gnss")' <=> Linked("gnss")
        BY <2>3, SameAll
      <4>2. Linked("gnss") => serviceSeen'.told[framework'.now] # 0
        BY <2>3, <3>1, <3>4, <3>5
      <4>3. \A t \in {"binder", "adapter"} : /\ InHand(capabilitiesOf'[t]) => capabilitiesOf'[t].mask # 0
                                             /\ capabilitiesOf'[t].at = "cached" => capabilitiesOf'.mask # 0
        BY <3>1, <3>2 DEF ServeInv, CapsTold, InHand
      <4>4. QED BY <3>1, <3>2, <4>1, <4>2, <4>3 DEF CapsTold, InHand
    <3>7. QED BY <2>3, <3>2, <3>4, <3>6, CapsMove
  <2>6. QED BY <1>4, <2>1, <2>4, <2>5 DEF onCapabilitiesCb
<1>5. QED BY <1>2, <1>3, <1>4

-----------------------------------------------------------------------------
(* Measurements, batches and fences.                                       *)

\* A call that unlinks may be the last one of an interface.
LEMMA ServesLess ==
  ASSUME ServeInv, NEW name, Taken(name), Served, name \notin {"setCallback", "init", "serviceDied"},
         links' \in SUBSET links,
         \A i \in DOMAIN Opener : name # Closer[i] /\ Linked(i) => Linked(i)'
  PROVE  QueueOK' /\ NoNews /\ framework' = framework
<1>1. work # <<>> /\ Head(work).call = name
  BY InFront DEF ServeInv
<1>2. \A l \in links' : Notice(l) # Head(work)
  BY <1>1 DEF Notice
<1>3. QueueOK'
  BY <1>2, Popped DEF ServeInv
<1>4. QED BY <1>1, <1>3, TailNoNews DEF ServeInv, Served

\* What an extension's step leaves alone.
LEMMA ExtensionKeeps ==
  ASSUME ServeInv, UNCHANGED <<gnssVars, serviceSeen>>, NoNews, framework' = framework, SameLinks("gnss")
  PROVE  GnssLinked' /\ CapsTold' /\ Configured'
<1>1. Linked("gnss")' <=> Linked("gnss")
  BY DEF SameLinks, Linked
<1>2. GnssLinked' /\ CapsTold' /\ Configured'
  BY <1>1, GnssKept, CapsKept, ConfigKept DEF gnssVars
<1>3. QED BY <1>2

MeasurementSet == [callbacks : [Versions -> Nat], client : [Versions -> Nat], session : Nat]
BatchSet == [callbacks : [Versions -> Nat], api : Nat, session : Nat]

\* The types of the extensions' steps.
LEMMA TypesKept ==
  ASSUME ServeInv, UNCHANGED <<gnssVars, serviceSeen>>, measurement' \in MeasurementSet, batchService' \in BatchSet
  PROVE  ServiceTypes'
BY DEF ServeInv, ServiceTypes, gnssVars, MeasurementSet, BatchSet

\* A callback is refused only in favour of the same framework's.
LEMMA MeasurementServe == ASSUME ServeInv, setMeasurementCallback PROVE ServeInv'
<1>1. Taken("setMeasurementCallback") /\ UNCHANGED <<gnssVars, batchService, fenceService>>
  BY DEF setMeasurementCallback
<1>2. /\ By = framework.now /\ framework.now \in Nat \ {0} /\ Head(work) \in CallItem /\ work # <<>>
      /\ "setMeasurementCallback" \in DOMAIN Interface
  <2>1. "setMeasurementCallback" \in DOMAIN Interface
    BY DEF Interface
  <2>2. QED BY <1>1, <2>1, InFront, NowType DEF ServeInv
<1>3. PICK v \in Versions : v = Head(work).v
  BY <1>2 DEF CallItem
<1>4. measurement \in MeasurementSet /\ batchService \in BatchSet
  BY DEF ServeInv, ServiceTypes, MeasurementSet, BatchSet
<1>5. \A u \in Versions : measurement.callbacks[u] \in {Nobody, framework.now}
  <2>1. CASE Linked("measurement")
    <3>1. PICK l \in links : l.iface = "measurement"
      BY <2>1 DEF Linked
    <3>2. l.by = framework.now /\ l.v \in Versions
      BY <3>1, NowType DEF Link
    <3>3. measurement.callbacks = [NoCallbacks EXCEPT ![l.v] = l.by]
      BY <3>1 DEF ServeInv, MeasurementLinked
    <3>4. QED BY <3>2, <3>3 DEF NoCallbacks
  <2>2. CASE ~Linked("measurement")
    BY <2>2 DEF ServeInv, MeasurementLinked, NoCallbacks
  <2>3. QED BY <2>1, <2>2
<1>6. CASE /\ measurement.callbacks[v] # Nobody /\ Served /\ UNCHANGED <<links, measurement>>
           /\ serviceSeen' = IF measurement.callbacks[v] = By THEN serviceSeen
                             ELSE [serviceSeen EXCEPT !.refused = @ \cup {By}]
  <2>1. UNCHANGED serviceSeen
    BY <1>2, <1>5, <1>6
  <2>2. QueueOK' /\ NoNews /\ framework' = framework
    BY <1>1, <1>6, Serves
  <2>3. SameLinks("gnss") /\ SameLinks("measurement") /\ SameLinks("batching")
    BY <1>6, SameAll
  <2>4. ServiceTypes'
    BY <1>1, <1>4, <1>6, <2>1, TypesKept
  <2>5. GnssLinked' /\ CapsTold' /\ Configured'
    BY <1>1, <2>1, <2>2, <2>3, ExtensionKeeps
  <2>6. MeasurementLinked' /\ BatchingLinked'
    BY <1>1, <1>6, <2>1, <2>2, <2>3, MeasurementKept, BatchingKept
  <2>7. QED BY <2>2, <2>4, <2>5, <2>6 DEF ServeInv
<1>7. CASE /\ linkToDeath("measurement", LinksOf("measurement")) /\ UNCHANGED serviceSeen
           /\ measurement' = [callbacks |-> [NoCallbacks EXCEPT ![v] = By], client |-> [NoCallbacks EXCEPT ![v] = By],
                              session |-> IF measurement.session = Nobody THEN By ELSE measurement.session]
  <2>1. /\ QueueOK' /\ framework' = framework /\ Linked("measurement")' /\ NoNews
        /\ links' = (links \ LinksOf("measurement")) \cup {[iface |-> "measurement", v |-> v, by |-> framework.now]}
    <3>1. "measurement" \in Interfaces /\ LinksOf("measurement") \in SUBSET LinksOf("measurement")
      BY DEF Interfaces
    <3>2. QED BY <1>1, <1>2, <1>3, <1>7, <3>1, LinkedTo DEF ServeInv, NoNews
  <2>2. SameLinks("gnss") /\ SameLinks("batching")
    BY <2>1 DEF SameLinks, LinksOf
  <2>3. PICK cb \in [Versions -> Nat] : cb = [NoCallbacks EXCEPT ![v] = framework.now]
    BY <1>2 DEF NoCallbacks
  <2>4. /\ measurement'.callbacks = cb /\ measurement'.client = cb
        /\ measurement'.session \in {Nobody, framework.now} /\ measurement' \in MeasurementSet
    BY <1>2, <1>4, <1>7, <2>3 DEF MeasurementSet, ServeInv, MeasurementLinked
  <2>5. ServiceTypes'
    BY <1>1, <1>4, <1>7, <2>4, TypesKept
  <2>6. GnssLinked' /\ CapsTold' /\ Configured'
    BY <1>1, <1>7, <2>1, <2>2, ExtensionKeeps
  <2>7. BatchingLinked'
    BY <1>1, <2>1, <2>2, BatchingKept
  <2>8. MeasurementLinked'
    <3>1. \A l \in links' : l.iface = "measurement" => l.v = v /\ l.by = framework.now
      BY <2>1 DEF LinksOf
    <3>2. serviceSeen'.refused = {}
      BY <1>7 DEF ServeInv, MeasurementLinked
    <3>3. \A l \in links' : l.iface = "measurement" => [NoCallbacks EXCEPT ![l.v] = l.by] = cb
      BY <2>3, <3>1
    <3>4. QED BY <2>1, <2>4, <3>2, <3>3 DEF MeasurementLinked
  <2>9. QED BY <2>1, <2>5, <2>6, <2>7, <2>8 DEF ServeInv
<1>8. QED BY <1>3, <1>6, <1>7 DEF setMeasurementCallback

\* close stops the measurements and unlinks.
LEMMA CloseServe == ASSUME ServeInv, close PROVE ServeInv'
<1>1. /\ Taken("close") /\ Served /\ UNCHANGED <<gnssVars, batchService, fenceService, serviceSeen>>
      /\ measurement' = [measurement EXCEPT !.callbacks = NoCallbacks, !.session = Nobody]
      /\ links' = links \ LinksOf("measurement")
  BY DEF close, MeasurementClosed
<1>2. SameLinks("gnss") /\ SameLinks("batching") /\ ~Linked("measurement")'
  BY <1>1 DEF SameLinks, LinksOf, Linked
<1>3. QueueOK' /\ NoNews /\ framework' = framework
  <2>1. \A i \in DOMAIN Opener : Linked(i) => Linked(i)'
    BY <1>2, InterfaceFacts DEF SameLinks, Linked
  <2>2. links' \in SUBSET links
    BY <1>1
  <2>3. QED BY <1>1, <2>1, <2>2, ServesLess
<1>4. NoCallbacks \in [Versions -> Nat]
  BY DEF NoCallbacks
<1>5. /\ measurement \in MeasurementSet /\ batchService \in BatchSet /\ measurement' \in MeasurementSet
      /\ measurement'.callbacks = NoCallbacks /\ measurement'.session = Nobody
  BY <1>1, <1>4 DEF ServeInv, ServiceTypes, MeasurementSet, BatchSet
<1>6. ServiceTypes'
  BY <1>1, <1>5, TypesKept
<1>7. GnssLinked' /\ CapsTold' /\ Configured'
  BY <1>1, <1>2, <1>3, ExtensionKeeps
<1>8. BatchingLinked'
  BY <1>1, <1>2, <1>3, BatchingKept
<1>9. MeasurementLinked'
  BY <1>1, <1>2, <1>5 DEF ServeInv, MeasurementLinked, Linked
<1>10. QED BY <1>3, <1>6, <1>7, <1>8, <1>9 DEF ServeInv

\* init makes a new client, without a session.
LEMMA InitServe == ASSUME ServeInv, init PROVE ServeInv'
<1>1. /\ Taken("init") /\ UNCHANGED <<gnssVars, measurement, fenceService, serviceSeen>>
      /\ linkToDeath("batching", {l \in LinksOf("batching") : l.v = Head(work).v})
  BY DEF init
<1>2. /\ By = framework.now /\ framework.now \in Nat \ {0} /\ Head(work) \in CallItem
      /\ "init" \in DOMAIN Interface
  BY <1>1, InFront, InterfaceFacts, NowType DEF ServeInv
<1>3. PICK v \in Versions : v = Head(work).v
  BY <1>2 DEF CallItem
<1>4. batchService' = [callbacks |-> [batchService.callbacks EXCEPT ![v] = framework.now],
                       api |-> framework.now, session |-> Nobody]
  BY <1>2, <1>3 DEF init
<1>5. PICK unlinked \in SUBSET LinksOf("batching") : unlinked = {l \in LinksOf("batching") : l.v = Head(work).v}
  OBVIOUS
<1>6. /\ QueueOK' /\ framework' = framework /\ Linked("batching")' /\ NoNews
      /\ links' = (links \ unlinked) \cup {[iface |-> "batching", v |-> Head(work).v, by |-> framework.now]}
  <2>1. "batching" \in Interfaces
    BY DEF Interfaces
  <2>2. QED BY <1>1, <1>2, <1>5, <2>1, LinkedTo DEF ServeInv, NoNews
<1>7. SameLinks("gnss") /\ SameLinks("measurement")
  BY <1>5, <1>6 DEF SameLinks, LinksOf
<1>8. measurement \in MeasurementSet /\ batchService \in BatchSet
  BY DEF ServeInv, ServiceTypes, MeasurementSet, BatchSet
<1>9. batchService' \in BatchSet /\ batchService'.api = framework.now /\ batchService'.session = Nobody
  <2>1. [batchService.callbacks EXCEPT ![v] = framework.now] \in [Versions -> Nat]
    BY <1>2, <1>8 DEF BatchSet
  <2>2. QED BY <1>2, <1>4, <2>1 DEF BatchSet
<1>10. ServiceTypes'
  BY <1>1, <1>8, <1>9, TypesKept
<1>11. GnssLinked' /\ CapsTold' /\ Configured'
  BY <1>1, <1>6, <1>7, ExtensionKeeps
<1>12. MeasurementLinked'
  BY <1>1, <1>6, <1>7, MeasurementKept
<1>13. BatchingLinked'
  BY <1>6, <1>9 DEF BatchingLinked
<1>14. QED BY <1>6, <1>10, <1>11, <1>12, <1>13 DEF ServeInv

\* A batch session is started and stopped only while somebody is linked.
LEMMA BatchServe == ASSUME ServeInv, startBatch \/ stopBatch PROVE ServeInv'
<1>1. PICK name \in {"startBatch", "stopBatch"} :
        /\ Taken(name) /\ Served /\ UNCHANGED <<links, gnssVars, measurement, fenceService, serviceSeen>>
        /\ \E session \in {Nobody, By, batchService.session} :
             batchService' = [batchService EXCEPT !.session = IF batchService.api = Nobody THEN @ ELSE session]
  BY DEF startBatch, stopBatch, BatchCall
<1>2. By = framework.now /\ framework.now \in Nat \ {0} /\ Linked("batching")
  <2>1. name \in DOMAIN Interface /\ Interface[name] = "batching" /\ name # "init"
    BY DEF Interface
  <2>2. QED BY <1>1, <2>1, InFront, InterfaceFacts, NowType DEF ServeInv
<1>3. QueueOK' /\ NoNews /\ framework' = framework
  BY <1>1, Serves
<1>4. \A i : SameLinks(i) /\ (Linked(i)' <=> Linked(i))
  BY <1>1, SameAll
<1>5. measurement \in MeasurementSet /\ batchService \in BatchSet /\ batchService.session \in {Nobody, framework.now}
      /\ batchService.api = framework.now
  BY <1>2 DEF ServeInv, ServiceTypes, MeasurementSet, BatchSet, BatchingLinked
<1>6. /\ batchService' \in BatchSet /\ batchService'.session \in {Nobody, framework.now}
      /\ batchService'.api = batchService.api
  <2>1. PICK session \in {Nobody, framework.now} :
          batchService' = [batchService EXCEPT !.session = IF batchService.api = Nobody THEN @ ELSE session]
    BY <1>1, <1>2, <1>5
  <2>2. batchService' = [batchService EXCEPT !.session = session]
    BY <1>2, <1>5, <2>1 DEF BatchSet
  <2>3. QED BY <1>2, <1>5, <2>2 DEF BatchSet
<1>7. ServiceTypes'
  BY <1>1, <1>5, <1>6, TypesKept
<1>8. GnssLinked' /\ CapsTold' /\ Configured'
  BY <1>1, <1>3, <1>4, ExtensionKeeps
<1>9. MeasurementLinked'
  BY <1>1, <1>3, <1>4, MeasurementKept
<1>10. BatchingLinked'
  BY <1>2, <1>3, <1>4, <1>5, <1>6 DEF BatchingLinked
<1>11. QED BY <1>3, <1>7, <1>8, <1>9, <1>10 DEF ServeInv

\* cleanup stops the batch session and unlinks.
LEMMA CleanupServe == ASSUME ServeInv, cleanupBatch PROVE ServeInv'
<1>1. /\ Taken("cleanupBatch") /\ Served /\ UNCHANGED <<gnssVars, measurement, fenceService, serviceSeen>>
      /\ batchService' = [batchService EXCEPT !.callbacks = NoCallbacks, !.session = Nobody]
      /\ links' = links \ LinksOf("batching")
  BY DEF cleanupBatch, BatchCleanedUp
<1>2. SameLinks("gnss") /\ SameLinks("measurement") /\ ~Linked("batching")'
  BY <1>1 DEF SameLinks, LinksOf, Linked
<1>3. QueueOK' /\ NoNews /\ framework' = framework
  <2>1. \A i \in DOMAIN Opener : "cleanupBatch" # Closer[i] /\ Linked(i) => Linked(i)'
    BY <1>2, InterfaceFacts DEF SameLinks, Linked
  <2>2. links' \in SUBSET links
    BY <1>1
  <2>3. QED BY <1>1, <2>1, <2>2, ServesLess
<1>4. NoCallbacks \in [Versions -> Nat]
  BY DEF NoCallbacks
<1>5. /\ measurement \in MeasurementSet /\ batchService' \in BatchSet /\ batchService'.session = Nobody
  BY <1>1, <1>4 DEF ServeInv, ServiceTypes, MeasurementSet, BatchSet
<1>6. ServiceTypes'
  BY <1>1, <1>5, TypesKept
<1>7. GnssLinked' /\ CapsTold' /\ Configured'
  BY <1>1, <1>2, <1>3, ExtensionKeeps
<1>8. MeasurementLinked'
  BY <1>1, <1>2, <1>3, MeasurementKept
<1>9. BatchingLinked'
  BY <1>2, <1>5 DEF BatchingLinked
<1>10. QED BY <1>3, <1>6, <1>7, <1>8, <1>9 DEF ServeInv

\* The geofence interface touches nothing of the others.
LEMMA FenceServe == ASSUME ServeInv, setGeofenceCallback \/ addGeofence PROVE ServeInv'
<1>1. UNCHANGED <<gnssVars, measurement, batchService, serviceSeen>>
  BY DEF setGeofenceCallback, addGeofence
<1>2. QueueOK' /\ NoNews /\ framework' = framework
      /\ SameLinks("gnss") /\ SameLinks("measurement") /\ SameLinks("batching")
  <2>1. CASE Served /\ UNCHANGED links /\ (Taken("setGeofenceCallback") \/ Taken("addGeofence"))
    <3>1. PICK name \in {"setGeofenceCallback", "addGeofence"} : Taken(name)
      BY <2>1
    <3>2. QueueOK' /\ NoNews /\ framework' = framework
      BY <2>1, <3>1, Serves
    <3>3. QED BY <2>1, <3>2, SameAll
  <2>2. CASE Taken("setGeofenceCallback") /\ linkToDeath("geofencing", LinksOf("geofencing"))
    <3>1. "setGeofenceCallback" \in DOMAIN Interface /\ "geofencing" \in Interfaces
          /\ LinksOf("geofencing") \in SUBSET LinksOf("geofencing")
      BY DEF Interface, Interfaces
    <3>2. /\ QueueOK' /\ framework' = framework /\ NoNews
          /\ links' = (links \ LinksOf("geofencing"))
                        \cup {[iface |-> "geofencing", v |-> Head(work).v, by |-> framework.now]}
      BY <2>2, <3>1, LinkedTo DEF ServeInv, NoNews
    <3>3. QED BY <3>2 DEF SameLinks, LinksOf
  <2>3. QED BY <2>1, <2>2 DEF setGeofenceCallback, addGeofence
<1>3. measurement \in MeasurementSet /\ batchService \in BatchSet
  BY DEF ServeInv, ServiceTypes, MeasurementSet, BatchSet
<1>4. ServiceTypes'
  BY <1>1, <1>3, TypesKept
<1>5. GnssLinked' /\ CapsTold' /\ Configured'
  BY <1>1, <1>2, ExtensionKeeps
<1>6. MeasurementLinked' /\ BatchingLinked'
  BY <1>1, <1>2, MeasurementKept, BatchingKept
<1>7. QED BY <1>2, <1>4, <1>5, <1>6 DEF ServeInv

\* The notice of a death: what ran for the link it is about stops.
LEMMA DiedServe == ASSUME ServeInv, serviceDied PROVE ServeInv'
<1>1. Taken("serviceDied") /\ Served /\ UNCHANGED <<gnss, capabilitiesOf, serviceSeen>>
  BY DEF serviceDied
<1>2. Head(work) \in NoticeItem /\ By = framework.now /\ work # <<>> /\ framework.now \in Nat \ {0}
  BY <1>1, InFront, Items, NowType DEF ServeInv, Died
<1>3. PICK l : l = [iface |-> Head(work).iface, v |-> Head(work).v, by |-> By]
  OBVIOUS
<1>4. l.iface \in Interfaces /\ l.by = framework.now
  BY <1>2, <1>3 DEF NoticeItem
<1>5. /\ links' = links \
           (IF l \in links /\ l.iface \in {"measurement", "batching"} THEN LinksOf(l.iface) ELSE {l})
      /\ connectedBy' = (IF l \in links /\ l.iface = "gnss" THEN {} ELSE connectedBy)
      /\ gnssClient' = (IF l \in links /\ l.iface = "gnss" /\ gnss.mApi THEN CleanedUp(gnssClient) ELSE gnssClient)
      /\ measurement' = (IF l \in links /\ l.iface = "measurement" THEN MeasurementClosed ELSE measurement)
      /\ batchService' = (IF l \in links /\ l.iface = "batching" THEN BatchCleanedUp ELSE batchService)
  BY <1>3 DEF serviceDied
<1>6. links' \in SUBSET links /\ l \notin links'
  BY <1>5 DEF LinksOf
<1>7. \A m \in links' : Notice(m) # Head(work)
  <2>1. SUFFICES ASSUME NEW m \in links', Notice(m) = Head(work) PROVE FALSE
    OBVIOUS
  <2>2. m \in Link
    BY <1>6, NowType
  <2>3. m.iface = l.iface /\ m.v = l.v /\ m.by = l.by
    BY <1>3, <2>1 DEF Notice, By
  <2>4. m = [iface |-> m.iface, v |-> m.v, by |-> m.by] /\ l = [iface |-> l.iface, v |-> l.v, by |-> l.by]
    BY <1>3, <2>2 DEF Link
  <2>5. QED BY <1>6, <2>3, <2>4
<1>8. QueueOK' /\ NoNews /\ framework' = framework
  <2>1. QueueOK'
    BY <1>1, <1>6, <1>7, Popped DEF ServeInv
  <2>2. QED BY <1>1, <1>2, <2>1, TailNoNews DEF ServeInv, Served
<1>9. \A i \in Interfaces : i # l.iface \/ l \notin links => SameLinks(i)
  BY <1>5 DEF SameLinks, LinksOf
<1>10. gnssClient \in GnssClientType /\ measurement \in MeasurementSet /\ batchService \in BatchSet
       /\ NoCallbacks \in [Versions -> Nat]
  BY DEF ServeInv, ServiceTypes, GnssClientType, MeasurementSet, BatchSet, NoCallbacks
<1>11. /\ gnssClient' \in GnssClientType /\ gnssClient'.config = gnssClient.config
       /\ l \in links /\ l.iface = "gnss" /\ gnss.mApi =>
            /\ gnssClient'.session = Nobody /\ gnssClient'.enabled = Nobody
            /\ gnssClient'.mGnssCbIface = gnssClient.mGnssCbIface
            /\ gnssClient'.mGnssCbIface_2_0 = gnssClient.mGnssCbIface_2_0
  <2>1. PICK cl \in GnssClientType : cl = gnssClient
    BY <1>10
  <2>2. PICK client : client = CleanedUp(cl)
    OBVIOUS
  <2>3. /\ client \in GnssClientType /\ client.config = cl.config /\ client.session = Nobody /\ client.enabled = Nobody
        /\ client.mGnssCbIface_2_0 = cl.mGnssCbIface_2_0 /\ client.mGnssCbIface = cl.mGnssCbIface
    BY <2>2 DEF CleanedUp, gnssStop, gnssDisable, GnssClientType
  <2>4. QED BY <1>5, <2>1, <2>2, <2>3
<1>12. measurement' \in MeasurementSet /\ batchService' \in BatchSet
       /\ (l \in links /\ l.iface = "measurement" =>
             measurement'.session = Nobody /\ measurement'.callbacks = NoCallbacks)
       /\ (l \in links /\ l.iface = "batching" => batchService'.session = Nobody)
  BY <1>5, <1>10 DEF MeasurementClosed, BatchCleanedUp, MeasurementSet, BatchSet
<1>13. ServiceTypes'
  BY <1>1, <1>11, <1>12 DEF ServeInv, ServiceTypes, GnssClientType, MeasurementSet, BatchSet
<1>14. GnssLinked'
  <2>1. CASE l \in links /\ l.iface = "gnss"
    <3>1. gnss.mApi
      BY <2>1 DEF ServeInv, GnssLinked
    <3>2. connectedBy' = {}
      BY <1>5, <2>1
    <3>3. QED BY <1>1, <1>6, <1>8, <1>11, <2>1, <3>1, <3>2 DEF ServeInv, GnssLinked
  <2>2. CASE ~(l \in links /\ l.iface = "gnss")
    <3>1. SameLinks("gnss")
      BY <1>9, <2>2 DEF Interfaces
    <3>2. QED BY <1>1, <1>5, <1>8, <2>2, <3>1, GnssKept
  <2>3. QED BY <2>1, <2>2
<1>15. MeasurementLinked'
  <2>1. CASE l \in links /\ l.iface = "measurement"
    <3>1. ~Linked("measurement")'
      BY <1>5, <2>1 DEF Linked, LinksOf
    <3>2. QED BY <1>1, <1>12, <2>1, <3>1 DEF ServeInv, MeasurementLinked, Linked
  <2>2. CASE ~(l \in links /\ l.iface = "measurement")
    <3>1. SameLinks("measurement")
      BY <1>9, <2>2 DEF Interfaces
    <3>2. QED BY <1>1, <1>5, <1>8, <2>2, <3>1, MeasurementKept
  <2>3. QED BY <2>1, <2>2
<1>16. BatchingLinked'
  <2>1. CASE l \in links /\ l.iface = "batching"
    <3>1. ~Linked("batching")'
      BY <1>5, <2>1 DEF Linked, LinksOf
    <3>2. QED BY <1>12, <2>1, <3>1 DEF BatchingLinked
  <2>2. CASE ~(l \in links /\ l.iface = "batching")
    <3>1. SameLinks("batching")
      BY <1>9, <2>2 DEF Interfaces
    <3>2. QED BY <1>1, <1>5, <1>8, <2>2, <3>1, BatchingKept
  <2>3. QED BY <2>1, <2>2
<1>17. CapsTold'
  <2>1. Linked("gnss")' => Linked("gnss")
    BY <1>6 DEF Linked
  <2>2. QED BY <1>1, <1>8, <2>1, CapsKept
<1>18. Configured'
  BY <1>1, <1>8, <1>11, ConfigKept
<1>19. QED BY <1>8, <1>13, <1>14, <1>15, <1>16, <1>17, <1>18 DEF ServeInv

-----------------------------------------------------------------------------
(* The framework is served.                                                *)

\* Nothing is linked to at first.
LEMMA ServeStarts == ServiceInit => ServeInv
<1> SUFFICES ASSUME ServiceInit PROVE ServeInv
  OBVIOUS
<1>1. /\ framework = [now |-> 1, up |-> TRUE, opened |-> {}, calls |-> 0] /\ work = <<>> /\ links = {}
  BY DEF ServiceInit
<1>2. framework \in [now : Generations, up : BOOLEAN, opened : SUBSET InterfaceNames, calls : Nat]
  BY <1>1 DEF Generations
<1>3. WorkOK
  BY <1>1, <1>2, FS_EmptySet DEF WorkOK
<1>4. NoticesLast
  BY <1>1 DEF NoticesLast
<1>5. CallsOpen
  BY <1>1 DEF CallsOpen, Needs
<1>6. NoCallbacks \in [Versions -> Nat] /\ NotConfigured \in [ConfigItems -> Nat] /\ NotConfigured["gpsLock"] = 0
      /\ [g \in Generations |-> 0] \in [Generations -> Nat]
  BY DEF NoCallbacks, NotConfigured, ConfigItems
<1>7. ServiceTypes
  BY <1>6 DEF ServiceInit, ServiceTypes, Resting, Step
<1>8. \A i : ~Linked(i)
  BY <1>1 DEF Linked
<1>9. GnssLinked /\ MeasurementLinked /\ BatchingLinked
  BY <1>1, <1>8 DEF ServiceInit, GnssLinked, MeasurementLinked, BatchingLinked
<1>10. CapsTold
  BY <1>8 DEF ServiceInit, CapsTold, InHand, Resting, Step
<1>11. Configured
  BY <1>1, <1>6 DEF ServiceInit, Configured
<1>12. QED BY <1>3, <1>4, <1>5, <1>7, <1>9, <1>10, <1>11 DEF ServeInv, QueueOK

\* Every step keeps the invariant.
LEMMA ServeStep ==
  ASSUME SlowStart = TRUE, NEW names \in SUBSET DOMAIN Interface, ServeInv, [ServiceNext(names)]_serviceVars
  PROVE  ServeInv'
<1>1. CASE BinderNext
  BY <1>1, CallbackServe, CallServe, ConfigServe, NetworkServe, CapsServe, DiedServe, MeasurementServe, CloseServe,
     InitServe, BatchServe, CleanupServe, FenceServe DEF BinderNext
<1>2. CASE FrameworkCalls(names) \/ FrameworkDies \/ FrameworkStarts
  BY <1>2, FrameworkServe
<1>3. CASE AdapterReports \/ \E thread \in {"binder", "adapter"} : onCapabilitiesCb(thread)
  BY <1>3, CapsServe
<1>4. CASE UNCHANGED serviceVars
  <2>1. UNCHANGED <<framework, work, links, gnss, gnssClient, connectedBy, extensionVars, capabilitiesOf, serviceSeen>>
    BY <1>4 DEF serviceVars, extensionVars
  <2>2. CapsTold'
    BY <2>1, SameAll, CapsKept DEF ServeInv
  <2>3. QED BY <2>1, <2>2, CapsMove DEF ServeInv, ServiceTypes, CapsSet
<1>5. QED BY <1>1, <1>2, <1>3, <1>4 DEF ServiceNext

\* With no work and no capabilities under way, the invariant says that the framework
\* is served.
LEMMA ServeMeans == ServeInv => FrameworkServed
<1> SUFFICES ASSUME ServeInv, ServiceQuiet PROVE FrameworkServed
  BY DEF FrameworkServed
<1>1. work = <<>> /\ capabilitiesOf.binder.at = "idle" /\ capabilitiesOf.adapter.at = "idle"
  BY DEF ServiceQuiet, Resting, Step
<1>2. framework.now \in Nat \ {0} /\ \A l \in links : l \in Link /\ l.by = framework.now
  BY NowType
<1>3. ~framework.up => links = {}
  BY <1>1 DEF ServeInv, QueueOK, NoticesLast
<1>4. ASSUME NEW i \in DOMAIN Opener, framework.up, i \in framework.opened PROVE Linked(i)
  <2>1. Needs(i, 1)
    BY <1>1, <1>4 DEF Needs
  <2>2. OpenAt(i, 1)
    BY <2>1 DEF ServeInv, QueueOK, CallsOpen
  <2>3. QED BY <2>2 DEF OpenAt
<1>5. "gnss" \in framework.opened => framework.up /\ Linked("gnss")
  BY <1>4, InterfaceFacts DEF ServeInv, QueueOK, NoticesLast
<1>6. DeadStopped
  <2>1. CASE framework.up
    BY <2>1 DEF DeadStopped, Living, ServeInv, GnssLinked, MeasurementLinked, BatchingLinked
  <2>2. CASE ~framework.up
    <3>1. \A i : ~Linked(i)
      BY <1>3, <2>2 DEF Linked
    <3>2. QED BY <2>2, <3>1 DEF DeadStopped, Living, ServeInv, GnssLinked, MeasurementLinked, BatchingLinked
  <2>3. QED BY <2>1, <2>2
<1>7. "gnss" \in framework.opened =>
        Destination = framework.now /\ \A v \in Versions : gnss.callbacks[v] \in {Nobody, framework.now}
  <2> HAVE "gnss" \in framework.opened
  <2>1. PICK l \in links : l.iface = "gnss"
    BY <1>5 DEF Linked
  <2>2. l.by = framework.now /\ l.v \in Versions
    BY <1>2, <2>1 DEF Link
  <2>3. gnss.callbacks = [NoCallbacks EXCEPT ![l.v] = l.by]
    BY <2>1 DEF ServeInv, GnssLinked
  <2>4. \A v \in Versions : gnss.callbacks[v] \in {Nobody, framework.now}
    BY <2>2, <2>3 DEF NoCallbacks
  <2>5. Destination = framework.now
    BY <1>2, <2>1, <2>2 DEF ServeInv, GnssLinked, Destination
  <2>6. QED BY <2>4, <2>5
<1>8. measurement.session # Nobody =>
        \E v \in Versions : measurement.client = [NoCallbacks EXCEPT ![v] = framework.now]
  <2> HAVE measurement.session # Nobody
  <2>1. PICK l \in links : l.iface = "measurement"
    BY DEF ServeInv, MeasurementLinked, Linked
  <2>2. l.by = framework.now /\ l.v \in Versions
    BY <1>2, <2>1 DEF Link
  <2>3. QED BY <2>1, <2>2 DEF ServeInv, MeasurementLinked
<1>9. batchService.session # Nobody => batchService.api = framework.now
  BY DEF ServeInv, BatchingLinked
<1>10. framework.now \notin serviceSeen.refused
  BY DEF ServeInv, MeasurementLinked
<1>11. LatestHears
  BY <1>7, <1>8, <1>9, <1>10 DEF LatestHears
<1>12. CapabilitiesTold
  BY <1>1, <1>5 DEF ServeInv, CapsTold, InHand, CapabilitiesTold
<1>13. ConfigReaches
  BY DEF ServeInv, Configured, ConfigReaches
<1>14. QED BY <1>6, <1>11, <1>12, <1>13 DEF FrameworkServed

\* FrameworkServed: when the calls and the notices of death are handled, nothing runs
\* for a dead framework, and the living one gets the reports, the capabilities and its
\* configuration (Gnss.cpp, GnssMeasurement.cpp, GnssBatching.cpp, their API clients),
\* whatever interfaces it uses, when a new framework starts after the old one's calls.
THEOREM FrameworkIsServed ==
  ASSUME SlowStart = TRUE, NEW CONSTANT names \in SUBSET DOMAIN Interface
  PROVE  ServiceInit /\ [][ServiceNext(names)]_serviceVars => []FrameworkServed
<1>1. ServiceInit => ServeInv
  BY ServeStarts
<1>2. ServeInv /\ [ServiceNext(names)]_serviceVars => ServeInv'
  BY ServeStep
<1>3. ServeInv => FrameworkServed
  BY ServeMeans
<1>4. QED BY <1>1, <1>2, <1>3, PTL

-----------------------------------------------------------------------------
(* The reports: the satellites used in the fix.                            *)

\* A satellite as the engine reports it: the adapter alone says that it was used.
UnusedSv == [type : STRING, id : Int, signal : STRING, used : {FALSE}]
UnusedSvs == SvReports \subseteq Seq(UnusedSv)

FixAt(f, e, t) == [f EXCEPT !.engine = e, !.gpsTime = Times[t], !.timestamp = UtcOf(Times[t])]
FixMsgs == {FixAt(f, e, t) : f \in Fixes, e \in {"SPE", "FUSED", "PPE"}, t \in Nat}
ReportMsg ==
       [op : {"position"}, fix : FixMsgs]
  \cup [op : {"enginePositions"}, fixes : Seq(FixMsgs)]
  \cup [op : {"sv"}, svs : Seq(UnusedSv)]
  \cup [op : {"nmea"}, consumed : BOOLEAN]
  \cup [op : {"systemInfo"}, leap : {[Leap EXCEPT !.change = b] : b \in BOOLEAN}]

ReportsSpec == ReportsInit /\ [][ReportsNext]_reportsVars

\* What is kept of the satellites used is that of the fix told last.
KeptTrue ==
  mGnssSvIdUsedInPosAvail =>
    /\ gnssFix.hasUsed /\ mGnssSvIdUsedInPosition = gnssFix.used
    /\ mGnssMbSvIdUsedInPosAvail <=> gnssFix.hasMultiband
    /\ mGnssMbSvIdUsedInPosAvail => mGnssMbSvIdUsedInPosition = gnssFix.mbUsed
UsedInv == reportMsgs \in Seq(ReportMsg) /\ now \in Nat /\ KeptTrue /\ UsedTrue

\* A fix, made a message, is one of FixMsgs.
LEMMA FixIn == ASSUME NEW f \in Fixes, NEW e \in {"SPE", "FUSED", "PPE"}, now \in Nat
               PROVE  Fix(f, e) \in FixMsgs
  <1>1. Fix(f, e) = FixAt(f, e, now)
    BY DEF Fix, FixAt
  <1>2. FixAt(f, e, now) \in FixMsgs
    BY DEF FixMsgs
  <1> QED
    BY <1>1, <1>2

\* A message sent leaves everything else as it is.
LEMMA Sent ==
  ASSUME UsedInv, NEW m \in ReportMsg, SendReport(m) PROVE UsedInv'
<1>1. reportMsgs' \in Seq(ReportMsg)
  BY DEF UsedInv, SendReport
<1>2. now' \in Nat
  BY DEF UsedInv, SendReport
<1>3. UNCHANGED <<usedVars, gnssFix, svTold>>
  BY DEF SendReport, outputs
<1>4. KeptTrue'
  BY <1>3 DEF UsedInv, KeptTrue, usedVars
<1>5. UsedTrue'
  BY <1>3 DEF UsedInv, UsedTrue, OneBased
<1>6. QED BY <1>1, <1>2, <1>4, <1>5 DEF UsedInv

\* Taking a message shortens the queue.
LEMMA Received1 ==
  ASSUME UsedInv, NEW op, Received(op)
  PROVE  /\ reportMsgs' \in Seq(ReportMsg)
         /\ Head(reportMsgs) \in ReportMsg /\ Head(reportMsgs).op = op
BY DEF UsedInv, Received

\* A fix is told and kept in one step.
LEMMA PositionKeeps ==
  ASSUME UsedInv, NEW fix, NEW was, Position(fix, was)
  PROVE  KeptTrue' /\ UsedTrue'
<1>1. svTold'.svs = <<>>
  BY DEF Position, NoSvs
<1>2. UsedTrue'
  BY <1>1 DEF UsedTrue
<1>3. KeptTrue'
  <2>1. CASE needReportForGnssClient(fix)
    <3>1. gnssFix' = Satellites(fix)
      BY <2>1 DEF Position
    <3>2. /\ gnssFix'.hasUsed = fix.hasUsed /\ gnssFix'.used = fix.used
          /\ gnssFix'.hasMultiband = fix.hasMultiband /\ gnssFix'.mbUsed = fix.mbUsed
      BY <3>1 DEF Satellites, NoFix
    <3>3. /\ mGnssSvIdUsedInPosAvail' = (needReportForGnssClient(fix) /\ fix.hasUsed)
          /\ mGnssMbSvIdUsedInPosAvail' = ((needReportForGnssClient(fix) /\ fix.hasUsed) /\ fix.hasMultiband)
          /\ mGnssSvIdUsedInPosAvail' => mGnssSvIdUsedInPosition' = fix.used
          /\ mGnssMbSvIdUsedInPosAvail' => mGnssMbSvIdUsedInPosition' = fix.mbUsed
      BY <2>1 DEF Position, KeepUsed
    <3>4. QED BY <2>1, <3>2, <3>3 DEF KeptTrue
  <2>2. CASE ~needReportForGnssClient(fix) /\ needReportForFlpClient(fix)
    <3>1. mGnssSvIdUsedInPosAvail' = FALSE
      BY <2>2 DEF Position, KeepUsed
    <3>2. QED BY <3>1 DEF KeptTrue
  <2>3. CASE ~needReportForGnssClient(fix) /\ ~needReportForFlpClient(fix)
    <3>1. UNCHANGED <<usedVars, gnssFix>>
      BY <2>3 DEF Position, KeepUsed
    <3>2. QED BY <3>1 DEF UsedInv, KeptTrue, usedVars
  <2>4. QED BY <2>1, <2>2, <2>3
<1>4. QED BY <1>2, <1>3

\* A satellite that is marked was used in the fix.
LEMMA Marked ==
  ASSUME KeptTrue, NEW sv \in UnusedSv, MarkUsed(sv).used
  PROVE  /\ gnssFix.hasUsed
         /\ OneBased(MarkUsed(sv)) \in
              (IF gnssFix.hasMultiband /\ MarkUsed(sv).type # "NAVIC" THEN gnssFix.mbUsed[MarkUsed(sv).signal]
               ELSE gnssFix.used[MarkUsed(sv).type])
<1>1. MarkUsed(sv).type = sv.type /\ MarkUsed(sv).id = sv.id /\ MarkUsed(sv).signal = sv.signal
  BY DEF MarkUsed, UnusedSv
<1>2. OneBased(MarkUsed(sv)) = OneBased(sv)
  BY <1>1 DEF OneBased
<1>3. OneBased(sv) \in UsedMask(sv)
  BY DEF MarkUsed, UnusedSv
<1>4. QED BY <1>1, <1>2, <1>3 DEF UsedMask, KeptTrue

\* The satellites in view are told with the marks of the fix told last.
LEMMA SvMarks ==
  ASSUME UsedInv, reportSv PROVE KeptTrue' /\ UsedTrue'
<1>1. KeptTrue'
  BY DEF reportSv, KeptTrue
<1> DEFINE in == Head(reportMsgs).svs
<1>2. in \in Seq(UnusedSv)
  <2>1. Received("sv")
    BY DEF reportSv
  <2>2. Head(reportMsgs) \in ReportMsg /\ Head(reportMsgs).op = "sv"
    BY <2>1, Received1
  <2>3. QED BY <2>2 DEF ReportMsg
<1>3. svTold'.svs = [i \in DOMAIN in |-> MarkUsed(in[i])]
  BY DEF reportSv
<1>4. gnssFix' = gnssFix
  BY DEF reportSv
<1>5. UsedTrue'
  <2> SUFFICES ASSUME NEW i \in DOMAIN svTold'.svs, svTold'.svs[i].used
               PROVE  /\ gnssFix.hasUsed
                      /\ OneBased(svTold'.svs[i]) \in
                           (IF gnssFix.hasMultiband /\ svTold'.svs[i].type # "NAVIC"
                            THEN gnssFix.mbUsed[svTold'.svs[i].signal] ELSE gnssFix.used[svTold'.svs[i].type])
    BY <1>4 DEF UsedTrue, OneBased
  <2>1. i \in DOMAIN in /\ svTold'.svs[i] = MarkUsed(in[i])
    BY <1>3
  <2>2. in[i] \in UnusedSv
    BY <1>2, <2>1
  <2>3. KeptTrue
    BY DEF UsedInv
  <2>4. MarkUsed(in[i]).used
    BY <2>1
  <2> HIDE DEF in
  <2>5. QED BY <2>1, <2>2, <2>3, <2>4, Marked
<1>6. QED BY <1>1, <1>5

\* Every step keeps the invariant.
LEMMA UsedStep ==
  ASSUME UnusedSvs, UsedInv, [ReportsNext]_reportsVars PROVE UsedInv'
<1>1. ASSUME NEW f \in Fixes, reportPositionEvent(f) PROVE UsedInv'
  <2>1. Fix(f, "SPE") \in FixMsgs
    BY FixIn DEF UsedInv
  <2>2. <<Fix(f, "SPE")>> \in Seq(FixMsgs)
    BY <2>1
  <2>3. CASE engHub
    <3>1. [op |-> "enginePositions", fixes |-> <<Fix(f, "SPE")>>] \in ReportMsg
      BY <2>2 DEF ReportMsg
    <3>2. QED BY <1>1, <2>3, <3>1, Sent DEF reportPositionEvent, reportEnginePositionsEvent
  <2>4. CASE ~engHub
    <3>1. [op |-> "position", fix |-> Fix(f, "SPE")] \in ReportMsg
      BY <2>1 DEF ReportMsg
    <3>2. QED BY <1>1, <2>4, <3>1, Sent DEF reportPositionEvent
  <2>5. QED BY <2>3, <2>4
<1>2. ASSUME NEW f \in Fixes, HubReports(f) PROVE UsedInv'
  <2>1. Fix(f, "FUSED") \in FixMsgs /\ Fix(f, "PPE") \in FixMsgs
    BY FixIn DEF UsedInv
  <2>2. <<Fix(f, "FUSED"), Fix(f, "PPE")>> \in Seq(FixMsgs)
    BY <2>1
  <2>3. [op |-> "enginePositions", fixes |-> <<Fix(f, "FUSED"), Fix(f, "PPE")>>] \in ReportMsg
    BY <2>2 DEF ReportMsg
  <2>4. QED BY <1>2, <2>3, Sent DEF HubReports, reportEnginePositionsEvent
<1>3. ASSUME NEW svs \in SvReports, NEW hub \in BOOLEAN, reportSvEvent(svs, hub) PROVE UsedInv'
  <2>1. [op |-> "sv", svs |-> svs] \in ReportMsg
    BY DEF ReportMsg, UnusedSvs
  <2>2. QED BY <1>3, <2>1, Sent DEF reportSvEvent
<1>4. ASSUME NEW b \in BOOLEAN, reportNmeaEvent(b) PROVE UsedInv'
  <2>1. [op |-> "nmea", consumed |-> b] \in ReportMsg
    BY DEF ReportMsg
  <2>2. QED BY <1>4, <2>1, Sent DEF reportNmeaEvent
<1>5. ASSUME NEW b \in BOOLEAN, reportLocationSystemInfoEvent(b) PROVE UsedInv'
  <2>1. [op |-> "systemInfo", leap |-> [Leap EXCEPT !.change = b]] \in ReportMsg
    BY DEF ReportMsg
  <2>2. QED BY <1>5, <2>1, Sent DEF reportLocationSystemInfoEvent
<1>6. CASE TimePasses \/ TracksOrNot \/ UNCHANGED reportsVars
  <2>1. UNCHANGED <<usedVars, gnssFix, svTold, reportMsgs>> /\ now' \in Nat
    BY <1>6 DEF TimePasses, TracksOrNot, reportsVars, outputs, UsedInv
  <2>2. KeptTrue'
    BY <2>1 DEF UsedInv, KeptTrue, usedVars
  <2>3. UsedTrue'
    BY <2>1 DEF UsedInv, UsedTrue, OneBased
  <2>4. QED BY <2>1, <2>2, <2>3 DEF UsedInv
<1>7. CASE reportPosition
  <2>1. reportMsgs' \in Seq(ReportMsg) /\ now' \in Nat
    BY <1>7, Received1 DEF reportPosition, engineVars, UsedInv
  <2>2. KeptTrue' /\ UsedTrue'
    BY <1>7, PositionKeeps DEF reportPosition
  <2>3. QED BY <2>1, <2>2 DEF UsedInv
<1>8. CASE reportEnginePositions
  <2>1. reportMsgs' \in Seq(ReportMsg) /\ now' \in Nat
    BY <1>8, Received1 DEF reportEnginePositions, engineVars, UsedInv
  <2>2. \/ \E fix, was : Position(fix, was)
        \/ svTold' = NoSvs /\ UNCHANGED <<usedVars, gnssFix>>
    BY <1>8 DEF reportEnginePositions
  <2>3. ASSUME svTold' = NoSvs /\ UNCHANGED <<usedVars, gnssFix>> PROVE KeptTrue' /\ UsedTrue'
    <3>1. KeptTrue'
      BY <2>3 DEF UsedInv, KeptTrue, usedVars
    <3>2. UsedTrue'
      BY <2>3 DEF UsedTrue, NoSvs
    <3>3. QED BY <3>1, <3>2
  <2>4. KeptTrue' /\ UsedTrue'
    BY <2>2, <2>3, PositionKeeps
  <2>5. QED BY <2>1, <2>4 DEF UsedInv
<1>9. CASE reportSv
  <2>1. reportMsgs' \in Seq(ReportMsg) /\ now' \in Nat
    BY <1>9, Received1 DEF reportSv, engineVars, UsedInv
  <2>2. KeptTrue' /\ UsedTrue'
    BY <1>9, SvMarks
  <2>3. QED BY <2>1, <2>2 DEF UsedInv
<1>10. CASE reportNmeaMsg \/ reportLocationSystemInfo
  <2>1. reportMsgs' \in Seq(ReportMsg)
    BY <1>10, Received1 DEF reportNmeaMsg, reportLocationSystemInfo
  <2>2. svTold' = NoSvs /\ UNCHANGED <<usedVars, gnssFix, now>>
    BY <1>10 DEF reportNmeaMsg, reportLocationSystemInfo, engineVars
  <2>3. KeptTrue'
    BY <2>2 DEF UsedInv, KeptTrue, usedVars
  <2>4. UsedTrue'
    BY <2>2 DEF UsedTrue, NoSvs
  <2>5. QED BY <2>1, <2>2, <2>3, <2>4 DEF UsedInv
<1>11. QED BY <1>1, <1>2, <1>3, <1>4, <1>5, <1>6, <1>7, <1>8, <1>9, <1>10 DEF ReportsNext

\* UsedTrue: a satellite that GnssAdapter::reportSv marks as used in the fix was used in
\* the fix that the GNSS clients were told of last, when the engine leaves the mark to it.
THEOREM UsedInLastFix == ASSUME UnusedSvs PROVE ReportsSpec => []UsedTrue
<1>1. ReportsInit => UsedInv
  BY DEF ReportsInit, UsedInv, KeptTrue, UsedTrue, NoSvs
<1>2. UsedInv /\ [ReportsNext]_reportsVars => UsedInv'
  BY UsedStep
<1>3. UsedInv => UsedTrue
  BY DEF UsedInv
<1>4. QED BY <1>1, <1>2, <1>3, PTL DEF ReportsSpec

-----------------------------------------------------------------------------
(* The reports: the time written.                                          *)

\* The engine gives the GPS time of every fix.
TimesGiven == \A f \in Fixes : "hasGpsTime" \in DOMAIN f /\ f.hasGpsTime

LeapTimes == {t \in Nat : t >= 1000 * Leap.before /\ t >= 1000 * Leap.after}
Leaping(t) == Leap.at <= t /\ t < Leap.at + 1000
\* The time that is written for the time t of GPS, by who knows of the leap second.
WrittenFor(t) ==
  IF Leaping(t) /\ Leap.after > Leap.before
  THEN <<(Leap.at - Leap.before * 1000 - 1000) \div 1000, 1, t % 1000>>
  ELSE <<UtcOf(t) \div 1000, 0, UtcOf(t) % 1000>>

LEMMA Divided ==
  \A x \in Nat : x \div 1000 \in Nat /\ x % 1000 \in Nat /\ x % 1000 < 1000 /\ x = 1000 * (x \div 1000) + (x % 1000)
  OBVIOUS

LEMMA InDigits ==
  ASSUME NEW p \in Nat, NEW q \in Nat, NEW r \in Nat, NEW s \in Nat, q < 1000, s < 1000,
         1000 * p + q <= 1000 * r + s
  PROVE  NotBefore(<<r, 0, s>>, <<p, 0, q>>)
  BY DEF NotBefore

LEMMA NeverBack ==
  ASSUME NEW t \in LeapTimes, NEW u \in LeapTimes, t <= u
  PROVE  NotBefore(WrittenFor(u), WrittenFor(t))
  <1>1. Leap.at \in Nat /\ Leap.before \in Nat /\ Leap.after \in Nat /\ Leap.at % 1000 = 0
        /\ Leap.after <= Leap.before + 1
    BY TimesAssumption
  <1> DEFINE at == Leap.at
             a == Leap.after
             b == Leap.before
             c == at \div 1000
  <1>2. at \in Nat /\ a \in Nat /\ b \in Nat /\ c \in Nat /\ a <= b + 1 /\ at = 1000 * c
    BY <1>1, Divided
  <1>3. UtcOf(t) = t - 1000 * (IF t >= at THEN a ELSE b) /\ UtcOf(u) = u - 1000 * (IF u >= at THEN a ELSE b)
    BY DEF UtcOf
  <1>4. t \in Nat /\ u \in Nat /\ t >= 1000 * a /\ t >= 1000 * b /\ u >= 1000 * a /\ u >= 1000 * b
    BY DEF LeapTimes
  <1>5. /\ Leaping(t) <=> at <= t /\ t < at + 1000
        /\ Leaping(u) <=> at <= u /\ u < at + 1000
    BY DEF Leaping
  <1> DEFINE x == UtcOf(t)
             y == UtcOf(u)
  <1>6. x \in Nat /\ y \in Nat
    BY <1>2, <1>3, <1>4
  <1> HIDE DEF at, a, b, c
  <1>7. x \div 1000 \in Nat /\ x % 1000 \in Nat /\ x % 1000 < 1000 /\ x = 1000 * (x \div 1000) + (x % 1000)
    BY <1>6, Divided
  <1>8. y \div 1000 \in Nat /\ y % 1000 \in Nat /\ y % 1000 < 1000 /\ y = 1000 * (y \div 1000) + (y % 1000)
    BY <1>6, Divided
  <1>9. (at - b * 1000 - 1000) \div 1000 = c - b - 1
    BY <1>2
  <1>10. Leaping(t) => t % 1000 = t - 1000 * c
    BY <1>2, <1>4, <1>5
  <1>11. Leaping(u) => u % 1000 = u - 1000 * c
    BY <1>2, <1>4, <1>5
  <1>12. WrittenFor(t) = IF Leaping(t) /\ a > b THEN <<c - b - 1, 1, t % 1000>> ELSE <<x \div 1000, 0, x % 1000>>
    BY <1>9 DEF WrittenFor, a, b, at
  <1>13. WrittenFor(u) = IF Leaping(u) /\ a > b THEN <<c - b - 1, 1, u % 1000>> ELSE <<y \div 1000, 0, y % 1000>>
    BY <1>9 DEF WrittenFor, a, b, at
  <1>14. CASE Leaping(t) /\ a > b /\ Leaping(u)
    BY <1>2, <1>4, <1>10, <1>11, <1>12, <1>13, <1>14 DEF NotBefore
  <1>15. CASE Leaping(t) /\ a > b /\ ~Leaping(u)
    <2>1. u >= at + 1000 /\ y = u - 1000 * a /\ a = b + 1
      BY <1>2, <1>3, <1>4, <1>5, <1>15
    <2>2. y \div 1000 > c - b - 1
      <3> HIDE DEF x, y
      <3> QED
        BY <1>2, <1>4, <1>8, <2>1
    <2> HIDE DEF x, y
    <2> QED
      BY <1>12, <1>13, <1>15, <2>2 DEF NotBefore
  <1>16. CASE ~(Leaping(t) /\ a > b) /\ Leaping(u) /\ a > b
    <2>1. t < at /\ x = t - 1000 * b
      BY <1>2, <1>3, <1>4, <1>5, <1>16
    <2>2. x \div 1000 <= c - b - 1
      <3> HIDE DEF x, y
      <3> QED
        BY <1>2, <1>4, <1>7, <2>1
    <2> HIDE DEF x, y
    <2> QED
      BY <1>2, <1>7, <1>12, <1>13, <1>16, <2>2 DEF NotBefore
  <1>17. CASE ~(Leaping(t) /\ a > b) /\ ~(Leaping(u) /\ a > b)
    <2>1. x <= y
      BY <1>2, <1>3, <1>4, <1>5, <1>17
    <2> HIDE DEF x, y
    <2>2. NotBefore(<<y \div 1000, 0, y % 1000>>, <<x \div 1000, 0, x % 1000>>)
      <3> DEFINE p == x \div 1000
                 q == x % 1000
                 r == y \div 1000
                 s == y % 1000
      <3>1. p \in Nat /\ q \in Nat /\ r \in Nat /\ s \in Nat /\ q < 1000 /\ s < 1000
            /\ x = 1000 * p + q /\ y = 1000 * r + s
        BY <1>7, <1>8
      <3> HIDE DEF p, q, r, s
      <3>2. NotBefore(<<r, 0, s>>, <<p, 0, q>>)
        BY <2>1, <3>1, InDigits
      <3> QED
        BY <3>2 DEF p, q, r, s
    <2> QED
      BY <1>12, <1>13, <1>17, <2>2
  <1> QED
    BY <1>14, <1>15, <1>16, <1>17

ClockMsg ==
       [op : {"position"}, fix : FixMsgs]
  \cup [op : {"enginePositions"}, fixes : Seq(FixMsgs)]
  \cup [op : {"sv"}, svs : SvReports]
  \cup [op : {"nmea"}, consumed : BOOLEAN]
  \cup [op : {"systemInfo"}, leap : {[Leap EXCEPT !.change = b] : b \in BOOLEAN}]
\* The fixes of a message.
FixesOf(m) ==
  {x \in FixMsgs : \/ m.op = "position" /\ x = m.fix
                   \/ m.op = "enginePositions" /\ \E i \in DOMAIN m.fixes : x = m.fixes[i]}
LeapKnown(t) == Leaping(t) => mLocSystemInfo.change
\* A time that may be written: it is not before the time written last, and not unknown.
Writable(t) == t \in LeapTimes /\ LeapKnown(t) /\ NotBefore(WrittenFor(t), clock)
InOrderOf(q) ==
  \A i, j \in DOMAIN q : i < j => \A x \in FixesOf(q[i]), y \in FixesOf(q[j]) : x.gpsTime <= y.gpsTime

Clocks == {<<p, q, r>> : p \in Int, q \in Int, r \in Int}

ClockInv ==
  /\ clock \in Clocks
  /\ now \in DOMAIN Times /\ reportMsgs \in Seq(ClockMsg)
  /\ mLocSystemInfo \in {[Leap EXCEPT !.change = b] : b \in BOOLEAN}
  /\ Writable(Times[now])
  /\ \A i \in DOMAIN reportMsgs : \A x \in FixesOf(reportMsgs[i]) :
       Writable(x.gpsTime) /\ x.gpsTime <= Times[now]
  /\ InOrderOf(reportMsgs)


LEMMA Digits ==
  ASSUME NEW t \in LeapTimes
  PROVE  WrittenFor(t) \in Clocks
  <1>1. Leap.at \in Nat /\ Leap.before \in Nat /\ Leap.after \in Nat /\ t \in Nat
    BY TimesAssumption DEF LeapTimes
  <1>2. UtcOf(t) \in Int
    BY <1>1 DEF UtcOf
  <1>3. UtcOf(t) \div 1000 \in Int /\ UtcOf(t) % 1000 \in Int /\ t % 1000 \in Int
    BY <1>1, <1>2
  <1>4. (Leap.at - Leap.before * 1000 - 1000) \div 1000 \in Int
    BY <1>1
  <1>5. 0 \in Int /\ 1 \in Int
    OBVIOUS
  <1> DEFINE A == <<(Leap.at - Leap.before * 1000 - 1000) \div 1000, 1, t % 1000>>
             B == <<UtcOf(t) \div 1000, 0, UtcOf(t) % 1000>>
             D == Clocks
  <1>6. A \in D
    BY <1>3, <1>4, <1>5 DEF Clocks
  <1>7. B \in D
    BY <1>3, <1>5 DEF Clocks
  <1> QED
    BY <1>6, <1>7 DEF WrittenFor

LEMMA FixSaid ==
  ASSUME NEW x \in FixMsgs, TimesGiven
  PROVE  x.hasGpsTime /\ x.timestamp = UtcOf(x.gpsTime)
  <1>1. PICK f \in Fixes, e \in {"SPE", "FUSED", "PPE"}, t \in Nat :
          x = FixAt(f, e, t)
    BY DEF FixMsgs
  <1>2. {"engine", "gpsTime", "timestamp"} \subseteq DOMAIN f /\ "hasGpsTime" \in DOMAIN f /\ f.hasGpsTime
    BY ReportsAssumption DEF TimesGiven
  <1> QED
    BY <1>1, <1>2 DEF FixAt

\* What is written of a fix is what its time calls for.
LEMMA WrittenTrue ==
  ASSUME NEW x \in FixMsgs, TimesGiven, Writable(x.gpsTime),
         mLocSystemInfo \in {[Leap EXCEPT !.change = b] : b \in BOOLEAN}
  PROVE  WrittenTime(x) = WrittenFor(x.gpsTime)
  <1> DEFINE t == x.gpsTime
             in == InTransition(x, mLocSystemInfo)
             time == get_utctime_with_leapsecond_transition(x, mLocSystemInfo)
  <1>1. x.hasGpsTime /\ x.timestamp = UtcOf(t)
    BY FixSaid
  <1>2. /\ mLocSystemInfo.at = Leap.at /\ mLocSystemInfo.before = Leap.before /\ mLocSystemInfo.after = Leap.after
        /\ mLocSystemInfo.change \in BOOLEAN
    BY TimesAssumption
  <1>3. in <=> Leaping(t) /\ Leap.after > Leap.before
    BY <1>1, <1>2 DEF InTransition, Writable, LeapKnown, Leaping
  <1>4. time = IF in THEN [utc |-> (Leap.at - Leap.before * 1000 - 1000) \div 1000, sixty |-> TRUE, ms |-> t % 1000]
               ELSE [utc |-> UtcOf(t) \div 1000, sixty |-> FALSE, ms |-> UtcOf(t) % 1000]
    BY <1>1, <1>2 DEF get_utctime_with_leapsecond_transition
  <1>5. Rmc("GN", x, mLocSystemInfo).time = time
    BY DEF Rmc
  <1> HIDE DEF in, time
  <1>6. WrittenTime(x) = <<time.utc, IF time.sixty THEN 1 ELSE 0, time.ms>>
    BY <1>5 DEF WrittenTime
  <1>7. CASE in
    <2>1. time.utc = (Leap.at - Leap.before * 1000 - 1000) \div 1000 /\ time.sixty /\ time.ms = t % 1000
      BY <1>4, <1>7
    <2> QED
      BY <1>3, <1>6, <1>7, <2>1 DEF WrittenFor
  <1>8. CASE ~in
    <2>1. time.utc = UtcOf(t) \div 1000 /\ ~time.sixty /\ time.ms = UtcOf(t) % 1000
      BY <1>4, <1>8
    <2> QED
      BY <1>3, <1>6, <1>8, <2>1 DEF WrittenFor
  <1> QED
    BY <1>7, <1>8

LEMMA ClockSame == ASSUME clock \in Clocks, clock' = clock PROVE NotBefore(clock', clock)
  BY DEF Clocks, NotBefore

LEMMA TimeIn == ASSUME NEW i \in DOMAIN Times PROVE Times[i] \in LeapTimes
  BY TimesAssumption DEF LeapTimes

\* A fix sent is of the engine's time.
LEMMA ClockSent ==
  ASSUME ClockInv, NEW m \in ClockMsg, SendReport(m), \A x \in FixesOf(m) : x.gpsTime = Times[now]
  PROVE  ClockInv' /\ NotBefore(clock', clock)
  <1>1. reportMsgs' = Append(reportMsgs, m) /\ now' = now /\ mLocSystemInfo' = mLocSystemInfo /\ clock' = clock
    BY DEF SendReport, outputs
  <1>2. \A t : Writable(t) => Writable(t)'
    BY <1>1 DEF Writable, LeapKnown
  <1>3. reportMsgs' \in Seq(ClockMsg)
    BY <1>1 DEF ClockInv
  <1>4. \A i \in DOMAIN reportMsgs' : \/ reportMsgs'[i] = m /\ i = Len(reportMsgs) + 1
                                      \/ i \in DOMAIN reportMsgs /\ reportMsgs'[i] = reportMsgs[i]
    <2>1. reportMsgs \in Seq(ClockMsg)
      BY DEF ClockInv
    <2> QED
      BY <1>1, <2>1
  <1>5. Times[now] \in LeapTimes /\ Times[now] <= Times[now]
    BY TimeIn, TimesAssumption DEF ClockInv
  <1>6. \A i \in DOMAIN reportMsgs' : \A x \in FixesOf(reportMsgs'[i]) : Writable(x.gpsTime) /\ x.gpsTime <= Times[now]
    BY <1>4, <1>5 DEF ClockInv
  <1>7. InOrderOf(reportMsgs')
    <2> SUFFICES ASSUME NEW i \in DOMAIN reportMsgs', NEW j \in DOMAIN reportMsgs', i < j,
                        NEW x \in FixesOf(reportMsgs'[i]), NEW y \in FixesOf(reportMsgs'[j])
                 PROVE  x.gpsTime <= y.gpsTime
      BY DEF InOrderOf
    <2>1. i \in DOMAIN reportMsgs /\ reportMsgs'[i] = reportMsgs[i]
      BY <1>3, <1>4, <1>1 DEF ClockInv
    <2>2. CASE reportMsgs'[j] = m
      BY <2>1, <2>2 DEF ClockInv
    <2>3. CASE j \in DOMAIN reportMsgs /\ reportMsgs'[j] = reportMsgs[j]
      BY <2>1, <2>3 DEF ClockInv, InOrderOf
    <2> QED
      BY <1>4, <2>2, <2>3
  <1>8. ClockInv'
    BY <1>1, <1>2, <1>3, <1>6, <1>7 DEF ClockInv
  <1> QED
    BY <1>1, <1>8, ClockSame DEF ClockInv

\* A message is taken; what is written is the time of a fix of it.
LEMMA ClockTold ==
  ASSUME ClockInv, TimesGiven, reportMsgs # <<>>, reportMsgs' = Tail(reportMsgs), now' = now,
         mLocSystemInfo' \in {[Leap EXCEPT !.change = b] : b \in BOOLEAN},
         mLocSystemInfo.change => mLocSystemInfo'.change,
         clock' = clock \/ \E x \in FixesOf(Head(reportMsgs)) : clock' = WrittenTime(x)
  PROVE  ClockInv' /\ NotBefore(clock', clock)
  <1> DEFINE m == Head(reportMsgs)
             q == Tail(reportMsgs)
  <1>1. /\ q \in Seq(ClockMsg) /\ 1 \in DOMAIN reportMsgs /\ m = reportMsgs[1]
        /\ \A i \in DOMAIN q : i + 1 \in DOMAIN reportMsgs /\ q[i] = reportMsgs[i + 1] /\ 1 < i + 1
        /\ \A i, j \in DOMAIN q : i < j => i + 1 < j + 1
    BY DEF ClockInv
  <1> HIDE DEF m, q
  <1>2. InOrderOf(q)
    BY <1>1 DEF ClockInv, InOrderOf
  <1>3. \A x \in FixesOf(m) : Writable(x.gpsTime) /\ x.gpsTime <= Times[now]
    BY <1>1 DEF ClockInv
  <1>4. \A i \in DOMAIN q : \A y \in FixesOf(q[i]) : Writable(y.gpsTime) /\ y.gpsTime <= Times[now]
    BY <1>1 DEF ClockInv
  <1>5. \A x \in FixesOf(m) : \A i \in DOMAIN q : \A y \in FixesOf(q[i]) : x.gpsTime <= y.gpsTime
    BY <1>1 DEF ClockInv, InOrderOf
  <1>6. Writable(Times[now])
    BY DEF ClockInv
  <1>7. clock' \in Clocks /\ NotBefore(clock', clock)
        /\ \A t \in {Times[now]} \cup UNION {{y.gpsTime : y \in FixesOf(q[i])} : i \in DOMAIN q} :
             t \in LeapTimes /\ NotBefore(WrittenFor(t), clock')
    <2>1. CASE clock' = clock
      BY <1>4, <1>6, <2>1, ClockSame DEF ClockInv, Writable
    <2>2. CASE \E x \in FixesOf(m) : clock' = WrittenTime(x)
      <3>1. PICK x \in FixesOf(m) : clock' = WrittenTime(x)
        BY <2>2
      <3>2. x \in FixMsgs /\ Writable(x.gpsTime) /\ x.gpsTime \in LeapTimes
        BY <1>3 DEF FixesOf, Writable
      <3>3. clock' = WrittenFor(x.gpsTime)
        BY <3>1, <3>2, WrittenTrue DEF ClockInv
      <3>4. clock' \in Clocks /\ NotBefore(clock', clock)
        BY <3>2, <3>3, Digits DEF Writable
      <3>5. ASSUME NEW t \in LeapTimes, x.gpsTime <= t
            PROVE  NotBefore(WrittenFor(t), clock')
        BY <3>2, <3>3, <3>5, NeverBack
      <3>6. NotBefore(WrittenFor(Times[now]), clock') /\ Times[now] \in LeapTimes
        BY <1>3, <1>6, <3>5 DEF Writable
      <3>7. ASSUME NEW i \in DOMAIN q, NEW y \in FixesOf(q[i])
            PROVE  NotBefore(WrittenFor(y.gpsTime), clock') /\ y.gpsTime \in LeapTimes
        BY <1>4, <1>5, <3>5, <3>7 DEF Writable
      <3> QED
        BY <3>4, <3>6, <3>7
    <2> QED
      BY <2>1, <2>2 DEF m
  <1>8. \A t : LeapKnown(t) => LeapKnown(t)'
    BY DEF LeapKnown
  <1>9. Writable(Times[now])'
    BY <1>6, <1>7, <1>8 DEF Writable
  <1>10. \A i \in DOMAIN q : \A x \in FixesOf(q[i]) : Writable(x.gpsTime)' /\ x.gpsTime <= Times[now]
    BY <1>4, <1>7, <1>8 DEF Writable
  <1>11. reportMsgs' = q
    BY DEF q
  <1>12. ClockInv'
    BY <1>1, <1>2, <1>7, <1>9, <1>10, <1>11 DEF ClockInv
  <1> QED
    BY <1>7, <1>12

LEMMA NotBeforeThen ==
  ASSUME NEW x \in Clocks, NEW y \in Clocks, NEW z \in Clocks, NotBefore(x, y), NotBefore(y, z)
  PROVE  NotBefore(x, z)
  BY DEF NotBefore, Clocks

LEMMA ClockUnchanged ==
  ASSUME ClockInv, UNCHANGED <<now, mLocSystemInfo, reportMsgs, clock>>
  PROVE  ClockInv' /\ NotBefore(clock', clock)
  <1>1. \A t : Writable(t) => Writable(t)'
    BY DEF Writable, LeapKnown
  <1>2. ClockInv'
    BY <1>1 DEF ClockInv
  <1> QED
    BY <1>2, ClockSame DEF ClockInv

LEMMA ClockStarts == ReportsInit => ClockInv
  <1> SUFFICES ASSUME ReportsInit PROVE ClockInv
    OBVIOUS
  <1>1. now = 1 /\ reportMsgs = <<>> /\ mLocSystemInfo = [Leap EXCEPT !.change = FALSE] /\ clock = <<0, 0, 0>>
    BY DEF ReportsInit, NoLeap
  <1>2. 1 \in DOMAIN Times /\ Times[1] \in LeapTimes
    BY TimesAssumption, TimeIn
  <1> DEFINE t == Times[1]
  <1>3. ~Leaping(t)
    BY <1>2, TimesAssumption DEF Leaping, LeapTimes
  <1>4. WrittenFor(t) = <<UtcOf(t) \div 1000, 0, UtcOf(t) % 1000>>
    BY <1>3 DEF WrittenFor
  <1>5. UtcOf(t) \in Nat
    BY <1>2, TimesAssumption DEF UtcOf, LeapTimes
  <1>6. UtcOf(t) \div 1000 \in Nat /\ UtcOf(t) % 1000 \in Nat /\ 0 \in Nat
    BY <1>5, Divided
  <1>7. NotBefore(WrittenFor(t), <<0, 0, 0>>)
    <2> DEFINE r == UtcOf(t) \div 1000
               s == UtcOf(t) % 1000
    <2> HIDE DEF r, s
    <2>1. r \in Nat /\ s \in Nat
      BY <1>6 DEF r, s
    <2>2. NotBefore(<<r, 0, s>>, <<0, 0, 0>>)
      BY <2>1 DEF NotBefore
    <2> QED
      BY <1>4, <2>2 DEF r, s
  <1>8. Writable(t)
    BY <1>1, <1>2, <1>3, <1>7 DEF Writable, LeapKnown
  <1>9. <<0, 0, 0>> \in Clocks
    BY DEF Clocks
  <1>10. reportMsgs \in Seq(ClockMsg) /\ DOMAIN reportMsgs = {}
    BY <1>1
  <1> QED
    BY <1>1, <1>2, <1>8, <1>9, <1>10 DEF ClockInv, InOrderOf

LEMMA FixSent ==
  ASSUME NEW f \in Fixes, NEW e \in {"SPE", "FUSED", "PPE"}, now \in DOMAIN Times
  PROVE  Fix(f, e) \in FixMsgs /\ Fix(f, e).gpsTime = Times[now]
  <1>1. now \in Nat
    BY TimesAssumption
  <1>2. {"engine", "gpsTime", "timestamp"} \subseteq DOMAIN f
    BY ReportsAssumption
  <1>3. Fix(f, e) \in FixMsgs
    BY <1>1, FixIn
  <1>4. Fix(f, e).gpsTime = Times[now]
    BY <1>2 DEF Fix
  <1> QED
    BY <1>3, <1>4

\* Every step keeps the invariant, and writes no time before the last.
LEMMA ClockStep ==
  ASSUME ClockInv, TimesGiven, ReportsNext
  PROVE  ClockInv' /\ NotBefore(clock', clock)
  <1>0. now \in DOMAIN Times
    BY DEF ClockInv
  <1>1. ASSUME NEW f \in Fixes, reportPositionEvent(f)
        PROVE  ClockInv' /\ NotBefore(clock', clock)
    <2> DEFINE x == Fix(f, "SPE")
    <2>1. x \in FixMsgs /\ x.gpsTime = Times[now]
      BY <1>0, FixSent
    <2>2. CASE engHub
      <3> DEFINE m == [op |-> "enginePositions", fixes |-> <<x>>]
      <3>1. SendReport(m)
        BY <1>1, <2>2 DEF reportPositionEvent, reportEnginePositionsEvent
      <3> HIDE DEF x
      <3>2. m \in ClockMsg /\ \A y \in FixesOf(m) : y = x
        BY <2>1 DEF ClockMsg, FixesOf
      <3> HIDE DEF m
      <3> QED
        BY <2>1, <3>1, <3>2, ClockSent
    <2>3. CASE ~engHub
      <3> DEFINE m == [op |-> "position", fix |-> x]
      <3>1. SendReport(m)
        BY <1>1, <2>3 DEF reportPositionEvent
      <3> HIDE DEF x
      <3>2. m \in ClockMsg /\ \A y \in FixesOf(m) : y = x
        BY <2>1 DEF ClockMsg, FixesOf
      <3> HIDE DEF m
      <3> QED
        BY <2>1, <3>1, <3>2, ClockSent
    <2> QED
      BY <2>2, <2>3
  <1>2. ASSUME NEW f \in Fixes, HubReports(f)
        PROVE  ClockInv' /\ NotBefore(clock', clock)
    <2> DEFINE x == Fix(f, "FUSED")
               z == Fix(f, "PPE")
               m == [op |-> "enginePositions", fixes |-> <<x, z>>]
    <2>1. x \in FixMsgs /\ x.gpsTime = Times[now] /\ z \in FixMsgs /\ z.gpsTime = Times[now]
      BY <1>0, FixSent
    <2>2. SendReport(m)
      BY <1>2 DEF HubReports, reportEnginePositionsEvent
    <2> HIDE DEF x, z
    <2>3. m \in ClockMsg /\ \A y \in FixesOf(m) : y = x \/ y = z
      BY <2>1 DEF ClockMsg, FixesOf
    <2> HIDE DEF m
    <2> QED
      BY <2>1, <2>2, <2>3, ClockSent
  <1>3. ASSUME NEW svs \in SvReports, NEW hub \in BOOLEAN, reportSvEvent(svs, hub)
        PROVE  ClockInv' /\ NotBefore(clock', clock)
    <2> DEFINE m == [op |-> "sv", svs |-> svs]
    <2>1. SendReport(m) /\ m \in ClockMsg /\ FixesOf(m) = {}
      BY <1>3 DEF reportSvEvent, ClockMsg, FixesOf
    <2> HIDE DEF m
    <2> QED
      BY <2>1, ClockSent
  <1>4. ASSUME NEW b \in BOOLEAN, reportNmeaEvent(b)
        PROVE  ClockInv' /\ NotBefore(clock', clock)
    <2> DEFINE m == [op |-> "nmea", consumed |-> b]
    <2>1. SendReport(m) /\ m \in ClockMsg /\ FixesOf(m) = {}
      BY <1>4 DEF reportNmeaEvent, ClockMsg, FixesOf
    <2> HIDE DEF m
    <2> QED
      BY <2>1, ClockSent
  <1>5. ASSUME NEW b \in BOOLEAN, reportLocationSystemInfoEvent(b)
        PROVE  ClockInv' /\ NotBefore(clock', clock)
    <2> DEFINE m == [op |-> "systemInfo", leap |-> [Leap EXCEPT !.change = b]]
    <2>1. SendReport(m) /\ m \in ClockMsg /\ FixesOf(m) = {}
      BY <1>5 DEF reportLocationSystemInfoEvent, ClockMsg, FixesOf
    <2> HIDE DEF m
    <2> QED
      BY <2>1, ClockSent
  <1>6. CASE TimePasses
    <2>1. now' = now + 1 /\ now' \in DOMAIN Times /\ UNCHANGED <<mLocSystemInfo, reportMsgs, clock>>
      BY <1>0, <1>6, TimesAssumption DEF TimePasses, outputs
    <2>2. Times[now] <= Times[now'] /\ Times[now'] \in LeapTimes /\ Times[now] \in LeapTimes
      BY <1>0, <2>1, TimesAssumption, TimeIn
    <2>3. LeapKnown(Times[now'])
      <3>1. mLocSystemInfo.change \/ Times[now'] < Leap.at
        BY <1>6, <2>1 DEF TimePasses
      <3> QED
        BY <2>2, <3>1, TimesAssumption DEF LeapKnown, Leaping, LeapTimes
    <2>4. NotBefore(WrittenFor(Times[now']), clock)
      <3>1. NotBefore(WrittenFor(Times[now']), WrittenFor(Times[now])) /\ NotBefore(WrittenFor(Times[now]), clock)
        BY <2>2, NeverBack DEF ClockInv, Writable
      <3>2. WrittenFor(Times[now']) \in Clocks /\ WrittenFor(Times[now]) \in Clocks /\ clock \in Clocks
        BY <2>2, Digits DEF ClockInv
      <3> QED
        BY <3>1, <3>2, NotBeforeThen
    <2>5. Writable(Times[now'])
      BY <2>2, <2>3, <2>4 DEF Writable
    <2>6. \A t : Writable(t) => Writable(t)'
      BY <2>1 DEF Writable, LeapKnown
    <2>7. \A i \in DOMAIN reportMsgs : \A x \in FixesOf(reportMsgs[i]) :
            Writable(x.gpsTime)' /\ x.gpsTime <= Times[now']
      <3> SUFFICES ASSUME NEW i \in DOMAIN reportMsgs, NEW x \in FixesOf(reportMsgs[i])
                   PROVE  Writable(x.gpsTime)' /\ x.gpsTime <= Times[now']
        OBVIOUS
      <3>1. Writable(x.gpsTime) /\ x.gpsTime <= Times[now]
        BY DEF ClockInv
      <3>2. x.gpsTime \in Nat /\ Times[now] \in Nat /\ Times[now'] \in Nat
        BY <2>2, <3>1 DEF Writable, LeapTimes
      <3>3. \A t, u, v \in Nat : t <= u /\ u <= v => t <= v
        OBVIOUS
      <3>4. x.gpsTime <= Times[now']
        BY <2>2, <3>1, <3>2, <3>3
      <3> QED
        BY <2>6, <3>1, <3>4
    <2>8. ClockInv'
      BY <2>1, <2>5, <2>6, <2>7 DEF ClockInv
    <2> QED
      BY <2>1, <2>8, ClockSame DEF ClockInv
  <1>7. CASE TracksOrNot
    <2>1. UNCHANGED <<now, mLocSystemInfo, reportMsgs, clock>>
      BY <1>7 DEF TracksOrNot, outputs
    <2> QED
      BY <2>1, ClockUnchanged
  <1>8. CASE reportPosition
    <2> DEFINE m == Head(reportMsgs)
    <2>1. reportMsgs # <<>> /\ reportMsgs' = Tail(reportMsgs) /\ now' = now /\ mLocSystemInfo' = mLocSystemInfo
          /\ m.op = "position" /\ Position(m.fix, NothingTold)
      BY <1>8 DEF reportPosition, Received, engineVars
    <2>2. m \in ClockMsg
      BY <2>1 DEF ClockInv
    <2> HIDE DEF m
    <2>3. m.fix \in FixMsgs /\ m.fix \in FixesOf(m)
      BY <2>1, <2>2 DEF ClockMsg, FixesOf
    <2>4. clock' = clock \/ clock' = WrittenTime(m.fix)
      BY <2>1 DEF Position
    <2>5. clock' = clock \/ \E x \in FixesOf(Head(reportMsgs)) : clock' = WrittenTime(x)
      BY <2>3, <2>4 DEF m
    <2> QED
      BY <2>1, <2>5, ClockTold DEF ClockInv
  <1>9. CASE reportEnginePositions
    <2> DEFINE m == Head(reportMsgs)
    <2>1. reportMsgs # <<>> /\ reportMsgs' = Tail(reportMsgs) /\ now' = now /\ mLocSystemInfo' = mLocSystemInfo
          /\ m.op = "enginePositions"
      BY <1>9 DEF reportEnginePositions, Received, engineVars
    <2>2. m \in ClockMsg
      BY <2>1 DEF ClockInv
    <2>3. clock' = clock \/ \E k \in DOMAIN m.fixes : \E was : Position(m.fixes[k], was)
      BY <1>9 DEF reportEnginePositions
    <2>4. clock' = clock \/ \E k \in DOMAIN m.fixes : clock' = WrittenTime(m.fixes[k])
      BY <2>3 DEF Position
    <2> HIDE DEF m
    <2>5. m.fixes \in Seq(FixMsgs)
      BY <2>1, <2>2 DEF ClockMsg, m
    <2>7. \A k \in DOMAIN m.fixes : m.fixes[k] \in FixesOf(m)
      BY <2>1, <2>5 DEF FixesOf, m
    <2>8. clock' = clock \/ \E x \in FixesOf(Head(reportMsgs)) : clock' = WrittenTime(x)
      BY <2>4, <2>7 DEF m
    <2> QED
      BY <2>1, <2>8, ClockTold DEF ClockInv
  <1>10. CASE reportSv \/ reportNmeaMsg
    <2>1. reportMsgs # <<>> /\ reportMsgs' = Tail(reportMsgs) /\ now' = now /\ mLocSystemInfo' = mLocSystemInfo
          /\ clock' = clock
      BY <1>10 DEF reportSv, reportNmeaMsg, Received, engineVars
    <2> QED
      BY <2>1, ClockTold DEF ClockInv
  <1>11. CASE reportLocationSystemInfo
    <2> DEFINE m == Head(reportMsgs)
    <2>1. reportMsgs # <<>> /\ reportMsgs' = Tail(reportMsgs) /\ now' = now /\ clock' = clock
          /\ m.op = "systemInfo" /\ mLocSystemInfo' = SavedInfo(m.leap)
      BY <1>11 DEF reportLocationSystemInfo, Received, engineVars
    <2>2. m \in ClockMsg
      BY <2>1 DEF ClockInv
    <2> HIDE DEF m
    <2>3. m.leap \in {[Leap EXCEPT !.change = b] : b \in BOOLEAN}
      BY <2>1, <2>2 DEF ClockMsg
    <2>4. mLocSystemInfo' \in {[Leap EXCEPT !.change = b] : b \in BOOLEAN}
      BY <2>1, <2>3 DEF SavedInfo, ClockInv
    <2>5. mLocSystemInfo.change => mLocSystemInfo'.change
      BY <2>1 DEF SavedInfo
    <2> QED
      BY <2>1, <2>4, <2>5, ClockTold
  <1> QED
    BY <1>1, <1>2, <1>3, <1>4, <1>5, <1>6, <1>7, <1>8, <1>9, <1>10, <1>11 DEF ReportsNext

\* The time written in the sentences never goes back (GnssAdapter.cpp:4006,
\* loc_nmea.cpp:1027), for any fixes, times, leap second and order of the messages, when
\* the engine gives the GPS time of its fixes.
THEOREM TimeForward ==
  ASSUME TimesGiven
  PROVE  ReportsSpec => ClockForward
  <1>1. ReportsInit => ClockInv
    BY ClockStarts
  <1>2. ClockInv /\ [ReportsNext]_reportsVars => ClockInv' /\ [NotBefore(clock', clock)]_reportsVars
    <2>1. CASE ReportsNext
      BY <2>1, ClockStep
    <2>2. CASE UNCHANGED reportsVars
      BY <2>2, ClockUnchanged DEF reportsVars, outputs
    <2> QED
      BY <2>1, <2>2
  <1> QED
    BY <1>1, <1>2, PTL DEF ReportsSpec, ClockForward

-----------------------------------------------------------------------------
(* The satellites in view: the sentences of a report, and what they list.  *)

\* What tells the sentences of two groups apart, and a satellite's own.
GroupKey(g) == <<Talker[GsvGroups[g][1]], convert_signalType_to_signalId(GsvGroups[g][2])>>
SvKey(sv) == <<Talker[sv.type], convert_signalType_to_signalId(SignalOf(sv))>>
SentenceKey(x) == <<x.talker, x.signal>>

\* The tables are as they are written.
LEMMA GroupKeys ==
  /\ GroupKey(1) = <<"GP", 1>> /\ GroupKey(2) = <<"GP", 8>> /\ GroupKey(3) = <<"GP", 6>>
  /\ GroupKey(4) = <<"GL", 1>> /\ GroupKey(5) = <<"GL", 3>>
  /\ GroupKey(6) = <<"GA", 7>> /\ GroupKey(7) = <<"GA", 1>> /\ GroupKey(8) = <<"GA", 2>>
  /\ GroupKey(9) = <<"GQ", 1>> /\ GroupKey(10) = <<"GQ", 8>> /\ GroupKey(11) = <<"GQ", 6>>
  /\ GroupKey(12) = <<"GB", 1>> /\ GroupKey(13) = <<"GB", 5>> /\ GroupKey(14) = <<"GI", 1>>
  BY DEF GroupKey, GsvGroups, Talker, convert_signalType_to_signalId, SignalId
LEMMA GroupApart ==
  ASSUME NEW g \in 1 .. 14, NEW h \in 1 .. 14, GroupKey(g) = GroupKey(h)
  PROVE  g = h
  BY GroupKeys

\* The signals of a named satellite.
LEMMA NamedSignals ==
  ASSUME NEW sv \in SvReported, Named(sv)
  PROVE  \/ sv.type = "GPS" /\ sv.signal \in {"none", "GPS_L1CA", "GPS_L2", "GPS_L5"}
         \/ sv.type = "GLONASS" /\ sv.signal \in {"none", "GLONASS_G1", "GLONASS_G2"}
         \/ sv.type = "GALILEO" /\ sv.signal \in {"none", "GALILEO_E1", "GALILEO_E5A", "GALILEO_E5B"}
         \/ sv.type = "QZSS" /\ sv.signal \in {"none", "QZSS_L1CA", "QZSS_L2", "QZSS_L5"}
         \/ sv.type = "BEIDOU" /\ sv.signal \in {"none", "BEIDOU_B1I", "BEIDOU_B2AI", "BEIDOU_B2AQ"}
         \/ sv.type = "NAVIC" /\ sv.signal \in {"none", "NAVIC_L5"}
  <1>1. sv.signal \in SignalsOf[sv.type] \cup {"none"}
    BY DEF SvReported
  <1>2. sv.type \in {"GPS", "GLONASS", "GALILEO", "BEIDOU", "QZSS", "NAVIC"}
    BY DEF Named, Systems, GsaSystems, ToSet
  <1>3. SignalOf(sv) \in {"GPS_L1CA", "GPS_L5", "GPS_L2", "GLONASS_G1", "GLONASS_G2", "GALILEO_E1", "GALILEO_E5A",
                          "GALILEO_E5B", "QZSS_L1CA", "QZSS_L5", "QZSS_L2", "BEIDOU_B1I", "BEIDOU_B2AI", "NAVIC_L5",
                          "BEIDOU_B2AQ"}
    BY DEF Named, GsvGroups
  <1>4. sv.signal \in SignalsOf[sv.type] => sv.signal # "none" /\ SignalOf(sv) = sv.signal
    BY <1>2 DEF SignalsOf, SignalOf
  <1> QED  BY <1>1, <1>2, <1>3, <1>4 DEF SignalsOf

\* What a named satellite is counted as, and its key.
LEMMA NamedKeys ==
  ASSUME NEW sv \in SvReported, Named(sv)
  PROVE  \E g \in 1 .. 14 :
           /\ sv.type = GsvGroups[g][1] /\ CountedAs(sv) = GsvGroups[g][2] /\ SvKey(sv) = GroupKey(g)
           /\ convert_signalType_to_signalId(SignalOf(sv)) = convert_signalType_to_signalId(GsvGroups[g][2])
  <1> USE DEF CountedAs, DefaultSignal, SignalOf, SvKey, GroupKey
  <1>1. CASE sv.type = "GPS" /\ sv.signal \in {"GPS_L1CA", "none"}
    <2>1. GsvGroups[1] = <<"GPS", "GPS_L1CA">> /\ SignalOf(sv) \in {"GPS_L1CA"}
      BY <1>1 DEF GsvGroups
    <2> QED  BY <1>1, <2>1
  <1>2. CASE sv.type = "GPS" /\ sv.signal \in {"GPS_L5"}
    <2>1. GsvGroups[2] = <<"GPS", "GPS_L5">> /\ SignalOf(sv) \in {"GPS_L5"}
      BY <1>2 DEF GsvGroups
    <2> QED  BY <1>2, <2>1
  <1>3. CASE sv.type = "GPS" /\ sv.signal \in {"GPS_L2"}
    <2>1. GsvGroups[3] = <<"GPS", "GPS_L2">> /\ SignalOf(sv) \in {"GPS_L2"}
      BY <1>3 DEF GsvGroups
    <2> QED  BY <1>3, <2>1
  <1>4. CASE sv.type = "GLONASS" /\ sv.signal \in {"GLONASS_G1", "none"}
    <2>1. GsvGroups[4] = <<"GLONASS", "GLONASS_G1">> /\ SignalOf(sv) \in {"GLONASS_G1"}
      BY <1>4 DEF GsvGroups
    <2> QED  BY <1>4, <2>1
  <1>5. CASE sv.type = "GLONASS" /\ sv.signal \in {"GLONASS_G2"}
    <2>1. GsvGroups[5] = <<"GLONASS", "GLONASS_G2">> /\ SignalOf(sv) \in {"GLONASS_G2"}
      BY <1>5 DEF GsvGroups
    <2> QED  BY <1>5, <2>1
  <1>6. CASE sv.type = "GALILEO" /\ sv.signal \in {"GALILEO_E1", "none"}
    <2>1. GsvGroups[6] = <<"GALILEO", "GALILEO_E1">> /\ SignalOf(sv) \in {"GALILEO_E1"}
      BY <1>6 DEF GsvGroups
    <2> QED  BY <1>6, <2>1
  <1>7. CASE sv.type = "GALILEO" /\ sv.signal \in {"GALILEO_E5A"}
    <2>1. GsvGroups[7] = <<"GALILEO", "GALILEO_E5A">> /\ SignalOf(sv) \in {"GALILEO_E5A"}
      BY <1>7 DEF GsvGroups
    <2> QED  BY <1>7, <2>1
  <1>8. CASE sv.type = "GALILEO" /\ sv.signal \in {"GALILEO_E5B"}
    <2>1. GsvGroups[8] = <<"GALILEO", "GALILEO_E5B">> /\ SignalOf(sv) \in {"GALILEO_E5B"}
      BY <1>8 DEF GsvGroups
    <2> QED  BY <1>8, <2>1
  <1>9. CASE sv.type = "QZSS" /\ sv.signal \in {"QZSS_L1CA", "none"}
    <2>1. GsvGroups[9] = <<"QZSS", "QZSS_L1CA">> /\ SignalOf(sv) \in {"QZSS_L1CA"}
      BY <1>9 DEF GsvGroups
    <2> QED  BY <1>9, <2>1
  <1>10. CASE sv.type = "QZSS" /\ sv.signal \in {"QZSS_L5"}
    <2>1. GsvGroups[10] = <<"QZSS", "QZSS_L5">> /\ SignalOf(sv) \in {"QZSS_L5"}
      BY <1>10 DEF GsvGroups
    <2> QED  BY <1>10, <2>1
  <1>11. CASE sv.type = "QZSS" /\ sv.signal \in {"QZSS_L2"}
    <2>1. GsvGroups[11] = <<"QZSS", "QZSS_L2">> /\ SignalOf(sv) \in {"QZSS_L2"}
      BY <1>11 DEF GsvGroups
    <2> QED  BY <1>11, <2>1
  <1>12. CASE sv.type = "BEIDOU" /\ sv.signal \in {"BEIDOU_B1I", "none"}
    <2>1. GsvGroups[12] = <<"BEIDOU", "BEIDOU_B1I">> /\ SignalOf(sv) \in {"BEIDOU_B1I"}
      BY <1>12 DEF GsvGroups
    <2> QED  BY <1>12, <2>1
  <1>13. CASE sv.type = "BEIDOU" /\ sv.signal \in {"BEIDOU_B2AI", "BEIDOU_B2AQ"}
    <2>1. GsvGroups[13] = <<"BEIDOU", "BEIDOU_B2AI">> /\ SignalOf(sv) \in {"BEIDOU_B2AI", "BEIDOU_B2AQ"}
      BY <1>13 DEF GsvGroups
    <2>2. convert_signalType_to_signalId("BEIDOU_B2AQ") = convert_signalType_to_signalId("BEIDOU_B2AI")
      BY DEF convert_signalType_to_signalId, SignalId
    <2> QED  BY <1>13, <2>1, <2>2
  <1>14. CASE sv.type = "NAVIC" /\ sv.signal \in {"NAVIC_L5", "none"}
    <2>1. GsvGroups[14] = <<"NAVIC", "NAVIC_L5">> /\ SignalOf(sv) \in {"NAVIC_L5"}
      BY <1>14 DEF GsvGroups
    <2> QED  BY <1>14, <2>1
  <1> QED  BY NamedSignals, <1>1, <1>2, <1>3, <1>4, <1>5, <1>6, <1>7, <1>8, <1>9, <1>10, <1>11, <1>12, <1>13, <1>14

\* It is counted in one group, and that group alone lists it.
LEMMA CountedIn ==
  ASSUME NEW sv \in SvReported, Named(sv), NEW g \in 1 .. 14
  PROVE  /\ sv.type = GsvGroups[g][1] /\ CountedAs(sv) = GsvGroups[g][2] <=> SvKey(sv) = GroupKey(g)
         /\ (/\ sv.type = GsvGroups[g][1]
             /\ convert_signalType_to_signalId(SignalOf(sv)) = convert_signalType_to_signalId(GsvGroups[g][2]))
            <=> SvKey(sv) = GroupKey(g)
  <1>1. PICK h \in 1 .. 14 :
          /\ sv.type = GsvGroups[h][1] /\ CountedAs(sv) = GsvGroups[h][2] /\ SvKey(sv) = GroupKey(h)
          /\ convert_signalType_to_signalId(SignalOf(sv)) = convert_signalType_to_signalId(GsvGroups[h][2])
    BY NamedKeys
  <1>2. SvKey(sv) = GroupKey(g) => g = h
    BY <1>1, GroupApart
  <1>3. GsvGroups[g] = GsvGroups[h] => g = h
    BY GroupApart DEF GroupKey
  <1>4. GsvGroups[g][1] = GsvGroups[h][1] /\ GsvGroups[g][2] = GsvGroups[h][2] => GsvGroups[g] = GsvGroups[h]
    BY DEF GsvGroups
  <1>5. sv.type = GsvGroups[g][1] /\ convert_signalType_to_signalId(SignalOf(sv)) = convert_signalType_to_signalId(GsvGroups[g][2])
          => SvKey(sv) = GroupKey(g)
    BY DEF SvKey, GroupKey
  <1> QED  BY <1>1, <1>2, <1>3, <1>4, <1>5

\* The elements of a set of naturals in their order: Nth is the inverse of an
\* element's rank.
Rank(S, i) == Cardinality({j \in S : j <= i})
LEMMA RankGrows ==
  ASSUME NEW S, IsFiniteSet(S), S \subseteq Nat, NEW i \in S, NEW j \in S, i < j
  PROVE  Rank(S, i) < Rank(S, j)
  <1>1. {l \in S : l <= i} \subseteq {l \in S : l <= j} /\ j \notin {l \in S : l <= i} /\ j \in {l \in S : l <= j}
    <2>1. \A l \in S : l <= i => l <= j
      OBVIOUS
    <2>2. ~(j <= i) /\ j <= j
      OBVIOUS
    <2> QED  BY <2>1, <2>2
  <1>2. IsFiniteSet({l \in S : l <= j}) /\ IsFiniteSet({l \in S : l <= i})
    BY FS_Subset
  <1>3. Cardinality({l \in S : l <= i}) <= Cardinality({l \in S : l <= j})
        /\ (Cardinality({l \in S : l <= j}) = Cardinality({l \in S : l <= i}) => {l \in S : l <= j} = {l \in S : l <= i})
    BY <1>1, <1>2, FS_Subset
  <1>4. Cardinality({l \in S : l <= i}) \in Nat /\ Cardinality({l \in S : l <= j}) \in Nat
    BY <1>2, FS_CardinalityType
  <1>5. {l \in S : l <= j} # {l \in S : l <= i}
    BY <1>1
  <1> QED  BY <1>3, <1>4, <1>5 DEF Rank
LEMMA RankBounds ==
  ASSUME NEW S, IsFiniteSet(S), S \subseteq Nat, NEW i \in S
  PROVE  Rank(S, i) \in 1 .. Cardinality(S)
  <1>1. {l \in S : l <= i} \subseteq S /\ i \in {l \in S : l <= i}
    OBVIOUS
  <1>2. IsFiniteSet({l \in S : l <= i}) /\ Cardinality({l \in S : l <= i}) <= Cardinality(S)
    BY <1>1, FS_Subset
  <1>3. Cardinality({l \in S : l <= i}) \in Nat /\ Cardinality(S) \in Nat
    BY <1>2, FS_CardinalityType
  <1>4. Cardinality({l \in S : l <= i}) # 0
    BY <1>1, <1>2, FS_EmptySet
  <1> QED  BY <1>2, <1>3, <1>4 DEF Rank
LEMMA RankInjective ==
  ASSUME NEW S, IsFiniteSet(S), S \subseteq Nat, NEW i \in S, NEW j \in S, Rank(S, i) = Rank(S, j)
  PROVE  i = j
  <1>1. Rank(S, i) \in Nat /\ Rank(S, j) \in Nat /\ i \in Nat /\ j \in Nat
    <2>1. Rank(S, i) \in 1 .. Cardinality(S) /\ Rank(S, j) \in 1 .. Cardinality(S)
      BY RankBounds
    <2> QED  BY <2>1
  <1>2. i < j => Rank(S, i) < Rank(S, j)
    BY RankGrows
  <1>3. j < i => Rank(S, j) < Rank(S, i)
    BY RankGrows
  <1> QED  BY <1>1, <1>2, <1>3
LEMMA NthRanked ==
  ASSUME NEW S, IsFiniteSet(S), S \subseteq Nat, NEW k \in 1 .. Cardinality(S)
  PROVE  Nth(S, k) \in S /\ Rank(S, Nth(S, k)) = k
  <1> DEFINE f == [i \in S |-> Rank(S, i)]
             T == 1 .. Cardinality(S)
  <1>1. Cardinality(S) \in Nat
    BY FS_CardinalityType
  <1>2. IsFiniteSet(T) /\ Cardinality(T) = Cardinality(S)
    BY <1>1, FS_Interval
  <1>3. f \in [S -> T]
    BY RankBounds
  <1>4. f \in Injection(S, T)
    <2>1. ASSUME NEW i \in S, NEW j \in S, f[i] = f[j] PROVE i = j
      BY <2>1, RankInjective
    <2> QED  BY <1>3, <2>1 DEF Injection, IsInjective
  <1>5. f \in Surjection(S, T)
    BY <1>2, <1>4, FS_Injection
  <1>6. \E i \in S : Rank(S, i) = k
    <2>1. \A t \in T : \E s \in S : f[s] = t
      BY <1>5 DEF Surjection
    <2> QED  BY <2>1
  <1> QED  BY <1>6 DEF Nth, Rank
LEMMA NthOfRank ==
  ASSUME NEW S, IsFiniteSet(S), S \subseteq Nat, NEW i \in S
  PROVE  Nth(S, Rank(S, i)) = i
  <1>1. Rank(S, i) \in 1 .. Cardinality(S)
    BY RankBounds
  <1>2. Nth(S, Rank(S, i)) \in S /\ Rank(S, Nth(S, Rank(S, i))) = Rank(S, i)
    BY <1>1, NthRanked
  <1> QED  BY <1>2, RankInjective

\* The satellites of a group, its sentences as the code makes them, and what
\* a part of the report says: each of these sentences once.
AllNamed(svs) == svs \in Seq(SvReported) /\ \A i \in DOMAIN svs : Named(svs[i])
Members(svs, key) == {i \in DOMAIN svs : SvKey(svs[i]) = key}
SentenceCount(svs, key) == (Cardinality(Members(svs, key)) + 3) \div 4
Sentence(svs, key, n) ==
  [sentence |-> "GSV", talker |-> key[1], of |-> SentenceCount(svs, key), number |-> n,
   inView |-> Cardinality(Members(svs, key)),
   svs |-> [k \in 1 .. Min({4, Cardinality(Members(svs, key)) + 4 - 4 * n}) |->
              GsvNumber(svs[Nth(Members(svs, key), 4 * n - 4 + k)])],
   signal |-> key[2]]
KeysTo(m) == {GroupKey(g) : g \in 1 .. m}
Sentences(svs) == {Sentence(svs, key, n) : key \in KeysTo(14), n \in Nat}
GsvPart(svs, s, K) ==
  /\ s \in Seq(Sentences(svs))
  /\ \A k \in DOMAIN s : \E key \in K : \E n \in 1 .. SentenceCount(svs, key) : s[k] = Sentence(svs, key, n)
  /\ \A key \in K : \A n \in 1 .. SentenceCount(svs, key) : \E k \in DOMAIN s : s[k] = Sentence(svs, key, n)
  /\ \A k, l \in DOMAIN s : s[k] = s[l] => k = l

LEMMA MembersFinite ==
  ASSUME NEW svs \in Seq(SvReported), NEW key
  PROVE  /\ IsFiniteSet(Members(svs, key)) /\ Members(svs, key) \subseteq Nat
         /\ Cardinality(Members(svs, key)) \in Nat /\ SentenceCount(svs, key) \in Nat
  <1>1. DOMAIN svs = 1 .. Len(svs) /\ Len(svs) \in Nat
    OBVIOUS
  <1>2. IsFiniteSet(1 .. Len(svs))
    BY <1>1, FS_Interval
  <1>3. Members(svs, key) \subseteq 1 .. Len(svs)
    BY <1>1 DEF Members
  <1>4. IsFiniteSet(Members(svs, key))
    BY <1>2, <1>3, FS_Subset
  <1>5. Cardinality(Members(svs, key)) \in Nat
    BY <1>4, FS_CardinalityType
  <1>6. (Cardinality(Members(svs, key)) + 3) \div 4 \in Nat
    BY <1>5
  <1> QED  BY <1>1, <1>3, <1>4, <1>5, <1>6 DEF SentenceCount
LEMMA GroupMembers ==
  ASSUME NEW svs, AllNamed(svs), NEW g \in 1 .. 14
  PROVE  /\ svCount(svs, GsvGroups[g]) = Cardinality(Members(svs, GroupKey(g)))
         /\ ListedIn(svs, GsvGroups[g]) = Members(svs, GroupKey(g))
  <1>1. \A i \in DOMAIN svs : svs[i] \in SvReported /\ Named(svs[i])
    BY DEF AllNamed
  <1>2. \A i \in DOMAIN svs : svs[i].type = GsvGroups[g][1] /\ CountedAs(svs[i]) = GsvGroups[g][2] <=> SvKey(svs[i]) = GroupKey(g)
    BY <1>1, CountedIn
  <1>3. \A i \in DOMAIN svs :
          (/\ svs[i].type = GsvGroups[g][1]
           /\ convert_signalType_to_signalId(SignalOf(svs[i])) = convert_signalType_to_signalId(GsvGroups[g][2]))
          <=> SvKey(svs[i]) = GroupKey(g)
    BY <1>1, CountedIn
  <1>4. {i \in DOMAIN svs : svs[i].type = GsvGroups[g][1] /\ CountedAs(svs[i]) = GsvGroups[g][2]} = Members(svs, GroupKey(g))
    BY <1>2 DEF Members
  <1>5. ListedIn(svs, GsvGroups[g]) = Members(svs, GroupKey(g))
    BY <1>3 DEF Members, ListedIn
  <1> QED  BY <1>4, <1>5 DEF svCount
LEMMA GroupSentences ==
  ASSUME NEW svs, AllNamed(svs), NEW g \in 1 .. 14
  PROVE  loc_nmea_generate_GSV(svs, GsvGroups[g])
           = [n \in 1 .. SentenceCount(svs, GroupKey(g)) |-> Sentence(svs, GroupKey(g), n)]
  <1>1. GroupKey(g)[1] = Talker[GsvGroups[g][1]]
        /\ GroupKey(g)[2] = convert_signalType_to_signalId(GsvGroups[g][2])
    BY DEF GroupKey
  <1> QED  BY <1>1, GroupMembers, Zenon DEF loc_nmea_generate_GSV, Sentence, SentenceCount

\* A group is such a part, and parts of different groups make one.
LEMMA GroupPart ==
  ASSUME NEW svs, AllNamed(svs), NEW g \in 1 .. 14
  PROVE  GsvPart(svs, loc_nmea_generate_GSV(svs, GsvGroups[g]), {GroupKey(g)})
  <1> DEFINE c == SentenceCount(svs, GroupKey(g))
             s == loc_nmea_generate_GSV(svs, GsvGroups[g])
  <1>1. c \in Nat
    BY MembersFinite DEF AllNamed
  <1>2. s = [n \in 1 .. c |-> Sentence(svs, GroupKey(g), n)]
    BY GroupSentences
  <1> HIDE DEF s, c
  <1>3. DOMAIN s = 1 .. c /\ \A n \in 1 .. c : s[n] = Sentence(svs, GroupKey(g), n)
    BY <1>2
  <1>4. \A n \in 1 .. c : Sentence(svs, GroupKey(g), n) \in Sentences(svs)
    BY <1>1 DEF Sentences, KeysTo
  <1>5. s \in Seq(Sentences(svs))
    BY <1>1, <1>2, <1>4
  <1>6. ASSUME NEW n, NEW m, Sentence(svs, GroupKey(g), n) = Sentence(svs, GroupKey(g), m) PROVE n = m
    BY <1>6 DEF Sentence
  <1>7. \A k, l \in DOMAIN s : s[k] = s[l] => k = l
    BY <1>3, <1>6
  <1>8. \A k \in DOMAIN s : \E n \in 1 .. c : s[k] = Sentence(svs, GroupKey(g), n)
    BY <1>3
  <1>9. \A n \in 1 .. c : \E k \in DOMAIN s : s[k] = Sentence(svs, GroupKey(g), n)
    BY <1>3
  <1>10. GsvPart(svs, s, {GroupKey(g)})
    BY <1>5, <1>7, <1>8, <1>9 DEF GsvPart, c
  <1> QED  BY <1>10 DEF s
LEMMA PartsJoin ==
  ASSUME NEW svs, NEW m \in 1 .. 13, NEW s, NEW t, GsvPart(svs, s, KeysTo(m)), GsvPart(svs, t, {GroupKey(m + 1)})
  PROVE  GsvPart(svs, s \o t, KeysTo(m + 1))
  <1> DEFINE u == s \o t
             C(key) == 1 .. SentenceCount(svs, key)
             Is(x, key, n) == x = Sentence(svs, key, n)
  <1>1. s \in Seq(Sentences(svs)) /\ t \in Seq(Sentences(svs))
    BY DEF GsvPart
  <1>2. u \in Seq(Sentences(svs)) /\ Len(u) = Len(s) + Len(t)
    BY <1>1
  <1>3. Len(s) \in Nat /\ Len(t) \in Nat /\ DOMAIN s = 1 .. Len(s) /\ DOMAIN t = 1 .. Len(t) /\ DOMAIN u = 1 .. Len(s) + Len(t)
    BY <1>1, <1>2
  <1>4. \A k \in DOMAIN s : k \in DOMAIN u /\ u[k] = s[k]
    BY <1>1, <1>3
  <1>5. \A k \in DOMAIN t : Len(s) + k \in DOMAIN u /\ u[Len(s) + k] = t[k]
    BY <1>1, <1>3
  <1>6. \A k \in DOMAIN u : k \in DOMAIN s \/ (k \notin DOMAIN s /\ k - Len(s) \in DOMAIN t /\ u[k] = t[k - Len(s)])
    BY <1>1, <1>3
  <1>7. KeysTo(m + 1) = KeysTo(m) \cup {GroupKey(m + 1)}
    <2>1. 1 .. m + 1 = (1 .. m) \cup {m + 1}
      OBVIOUS
    <2> QED  BY <2>1 DEF KeysTo
  <1>8. \A k \in DOMAIN s : \E key \in KeysTo(m) : \E n \in C(key) : Is(s[k], key, n)
    BY DEF GsvPart
  <1>9. \A k \in DOMAIN t : \E n \in C(GroupKey(m + 1)) : Is(t[k], GroupKey(m + 1), n)
    BY DEF GsvPart
  <1>10. \A key \in KeysTo(m) : \A n \in C(key) : \E k \in DOMAIN s : Is(s[k], key, n)
    BY DEF GsvPart
  <1>11. \A n \in C(GroupKey(m + 1)) : \E k \in DOMAIN t : Is(t[k], GroupKey(m + 1), n)
    BY DEF GsvPart
  <1>12. ASSUME NEW k \in DOMAIN s, NEW l \in DOMAIN t PROVE s[k] # t[l]
    <2>1. PICK g \in 1 .. m : \E n \in C(GroupKey(g)) : Is(s[k], GroupKey(g), n)
      BY <1>8 DEF KeysTo
    <2>2. PICK n \in C(GroupKey(g)) : s[k] = Sentence(svs, GroupKey(g), n)
      BY <2>1
    <2>3. PICK p \in C(GroupKey(m + 1)) : t[l] = Sentence(svs, GroupKey(m + 1), p)
      BY <1>9
    <2>4. g \in 1 .. 14 /\ m + 1 \in 1 .. 14 /\ g # m + 1
      OBVIOUS
    <2>5. ASSUME Sentence(svs, GroupKey(g), n) = Sentence(svs, GroupKey(m + 1), p) PROVE GroupKey(g) = GroupKey(m + 1)
      <3>1. GroupKey(g)[1] = GroupKey(m + 1)[1] /\ GroupKey(g)[2] = GroupKey(m + 1)[2]
        BY <2>5 DEF Sentence
      <3> QED  BY <3>1 DEF GroupKey
    <2> QED  BY <2>2, <2>3, <2>4, <2>5, GroupApart
  <1>13. \A k, l \in DOMAIN s : s[k] = s[l] => k = l
    BY DEF GsvPart
  <1>14. \A k, l \in DOMAIN t : t[k] = t[l] => k = l
    BY DEF GsvPart
  <1> HIDE DEF u, C, Is
  <1>15. ASSUME NEW k \in DOMAIN u PROVE \E key \in KeysTo(m + 1) : \E n \in C(key) : Is(u[k], key, n)
    BY <1>4, <1>6, <1>7, <1>8, <1>9
  <1>16. ASSUME NEW key \in KeysTo(m + 1), NEW n \in C(key) PROVE \E k \in DOMAIN u : Is(u[k], key, n)
    <2>1. CASE key \in KeysTo(m)
      <3>1. PICK k \in DOMAIN s : Is(s[k], key, n)
        BY <1>10, <2>1
      <3> QED  BY <1>4, <3>1
    <2>2. CASE key = GroupKey(m + 1)
      <3>1. PICK k \in DOMAIN t : Is(t[k], key, n)
        BY <1>11, <2>2
      <3> QED  BY <1>5, <3>1
    <2> QED  BY <1>7, <2>1, <2>2
  <1>17. ASSUME NEW k \in DOMAIN u, NEW l \in DOMAIN u, u[k] = u[l] PROVE k = l
    <2>1. CASE k \in DOMAIN s /\ l \in DOMAIN s
      BY <1>4, <1>13, <1>17, <2>1
    <2>2. CASE k \in DOMAIN s /\ l \notin DOMAIN s
      BY <1>4, <1>6, <1>12, <1>17, <2>2
    <2>3. CASE k \notin DOMAIN s /\ l \in DOMAIN s
      BY <1>4, <1>6, <1>12, <1>17, <2>3
    <2>4. CASE k \notin DOMAIN s /\ l \notin DOMAIN s
      <3>1. k - Len(s) = l - Len(s)
        BY <1>6, <1>14, <1>17, <2>4
      <3>2. k \in Nat /\ l \in Nat
        BY <1>3
      <3> QED  BY <1>3, <3>1, <3>2
    <2> QED  BY <2>1, <2>2, <2>3, <2>4
  <1> QED  BY <1>2, <1>15, <1>16, <1>17 DEF GsvPart, u, C, Is
\* The whole report.
LEMMA ReportWhole ==
  ASSUME NEW svs, AllNamed(svs)
  PROVE  GsvPart(svs, loc_nmea_generate_sv(svs), KeysTo(14))
  <1> DEFINE G(g) == loc_nmea_generate_GSV(svs, GsvGroups[g])
  <1>1. \A g \in 1 .. 14 : GsvPart(svs, G(g), {GroupKey(g)})
    BY GroupPart
  <1>2. KeysTo(1) = {GroupKey(1)}
    BY DEF KeysTo
  <1> HIDE DEF G
  <1>3. ASSUME NEW m \in 1 .. 13, NEW s, GsvPart(svs, s, KeysTo(m)) PROVE GsvPart(svs, s \o G(m + 1), KeysTo(m + 1))
    <2>1. m + 1 \in 1 .. 14
      OBVIOUS
    <2>2. GsvPart(svs, G(m + 1), {GroupKey(m + 1)})
      BY <1>1, <2>1
    <2> QED  BY <1>3, <2>2, PartsJoin
  <1>4. GsvPart(svs, G(1), KeysTo(1))
    BY <1>1, <1>2
  <1>5. GsvPart(svs, G(1) \o G(2), KeysTo(2))
    BY <1>3, <1>4
  <1>6. GsvPart(svs, G(1) \o G(2) \o G(3), KeysTo(3))
    BY <1>3, <1>5
  <1>7. GsvPart(svs, G(1) \o G(2) \o G(3) \o G(4), KeysTo(4))
    BY <1>3, <1>6
  <1>8. GsvPart(svs, G(1) \o G(2) \o G(3) \o G(4) \o G(5), KeysTo(5))
    BY <1>3, <1>7
  <1>9. GsvPart(svs, G(1) \o G(2) \o G(3) \o G(4) \o G(5) \o G(6), KeysTo(6))
    BY <1>3, <1>8
  <1>10. GsvPart(svs, G(1) \o G(2) \o G(3) \o G(4) \o G(5) \o G(6) \o G(7), KeysTo(7))
    BY <1>3, <1>9
  <1>11. GsvPart(svs, G(1) \o G(2) \o G(3) \o G(4) \o G(5) \o G(6) \o G(7) \o G(8), KeysTo(8))
    BY <1>3, <1>10
  <1>12. GsvPart(svs, G(1) \o G(2) \o G(3) \o G(4) \o G(5) \o G(6) \o G(7) \o G(8)
                 \o G(9), KeysTo(9))
    BY <1>3, <1>11
  <1>13. GsvPart(svs, G(1) \o G(2) \o G(3) \o G(4) \o G(5) \o G(6) \o G(7) \o G(8)
                 \o G(9) \o G(10), KeysTo(10))
    BY <1>3, <1>12
  <1>14. GsvPart(svs, G(1) \o G(2) \o G(3) \o G(4) \o G(5) \o G(6) \o G(7) \o G(8)
                 \o G(9) \o G(10) \o G(11), KeysTo(11))
    BY <1>3, <1>13
  <1>15. GsvPart(svs, G(1) \o G(2) \o G(3) \o G(4) \o G(5) \o G(6) \o G(7) \o G(8)
                 \o G(9) \o G(10) \o G(11) \o G(12), KeysTo(12))
    BY <1>3, <1>14
  <1>16. GsvPart(svs, G(1) \o G(2) \o G(3) \o G(4) \o G(5) \o G(6) \o G(7) \o G(8)
                 \o G(9) \o G(10) \o G(11) \o G(12) \o G(13), KeysTo(13))
    BY <1>3, <1>15
  <1>17. GsvPart(svs, G(1) \o G(2) \o G(3) \o G(4) \o G(5) \o G(6) \o G(7) \o G(8)
                 \o G(9) \o G(10) \o G(11) \o G(12) \o G(13) \o G(14), KeysTo(14))
    BY <1>3, <1>16
  <1> QED  BY <1>17 DEF loc_nmea_generate_sv, G

\* What a sentence lists: four satellites, but for the last of its group.
LEMMA SmallerOf ==
  ASSUME NEW a \in Int, NEW b \in Int
  PROVE  Min({a, b}) \in Int /\ Min({a, b}) = IF a <= b THEN a ELSE b
  <1>1. \E x \in {a, b} : \A y \in {a, b} : x <= y
    OBVIOUS
  <1>2. Min({a, b}) \in {a, b} /\ \A y \in {a, b} : Min({a, b}) <= y
    BY <1>1 DEF Min
  <1> QED  BY <1>2
LEMMA SentenceCountBounds ==
  ASSUME NEW c \in Nat, NEW n \in 1 .. (c + 3) \div 4
  PROVE  4 * n - 4 < c /\ (n < (c + 3) \div 4 => 4 * n < c)
  <1>1. PICK d \in Nat : d = (c + 3) \div 4
    OBVIOUS
  <1>2. 4 * d <= c + 3 /\ c + 3 < 4 * d + 4
    BY <1>1
  <1>3. n \in Nat /\ n <= d
    BY <1>1
  <1>4. 4 * n - 4 < c /\ (n < d => 4 * n < c)
    BY <1>2, <1>3
  <1> QED  BY <1>1, <1>4
GroupSentence(svs, x, g) ==
  LET listed == Members(svs, GroupKey(g)) IN
  /\ SentenceKey(x) = GroupKey(g) /\ x.talker = GroupKey(g)[1] /\ x.signal = GroupKey(g)[2]
  /\ x.number \in 1 .. SentenceCount(svs, GroupKey(g)) /\ x = Sentence(svs, GroupKey(g), x.number)
  /\ x.of = SentenceCount(svs, GroupKey(g)) /\ x.inView = Cardinality(listed)
  /\ x.number < x.of => Len(x.svs) = 4
  /\ \A q \in 1 .. 4 : q \in DOMAIN x.svs <=> 4 * x.number - 4 + q <= Cardinality(listed)
  /\ \A q \in DOMAIN x.svs : x.svs[q] = GsvNumber(svs[Nth(listed, 4 * x.number - 4 + q)])
LEMMA SentenceSays ==
  ASSUME NEW svs \in Seq(SvReported), NEW g \in 1 .. 14, NEW n \in 1 .. SentenceCount(svs, GroupKey(g)),
         NEW x, x = Sentence(svs, GroupKey(g), n)
  PROVE  GroupSentence(svs, x, g) /\ x.number = n
  <1> DEFINE key == GroupKey(g)
             c == Cardinality(Members(svs, key))
             w == Min({4, c + 4 - 4 * n})
             list == [k \in 1 .. w |-> GsvNumber(svs[Nth(Members(svs, key), 4 * n - 4 + k)])]
  <1>1. c \in Nat /\ SentenceCount(svs, key) = (c + 3) \div 4 /\ SentenceCount(svs, key) \in Nat
    BY MembersFinite DEF SentenceCount
  <1>2. n \in Nat /\ 4 * n - 4 < c /\ (n < SentenceCount(svs, key) => 4 * n < c)
    BY <1>1, SentenceCountBounds
  <1>3. x.svs = list
    BY DEF Sentence
  <1>4. /\ x.talker = key[1] /\ x.signal = key[2]
        /\ x.number = n /\ x.of = SentenceCount(svs, key)
        /\ x.inView = c
    BY DEF Sentence
  <1>5. SentenceKey(x) = key
    BY <1>4 DEF SentenceKey, GroupKey
  <1> HIDE DEF c
  <1>6. w \in Int /\ w = IF 4 <= c + 4 - 4 * n THEN 4 ELSE c + 4 - 4 * n
    BY <1>1, <1>2, SmallerOf
  <1>7. w \in Nat
    BY <1>1, <1>2, <1>6
  <1>8. n < SentenceCount(svs, key) => w = 4
    BY <1>1, <1>2, <1>6
  <1>9. \A q \in 1 .. 4 : q \in 1 .. w <=> 4 * n - 4 + q <= c
    BY <1>1, <1>2, <1>6
  <1> HIDE DEF w
  <1>10. DOMAIN list = 1 .. w /\ Len(list) = w
    BY <1>7
  <1>11. \A q \in DOMAIN list : list[q] = GsvNumber(svs[Nth(Members(svs, key), 4 * n - 4 + q)])
    BY <1>10
  <1> HIDE DEF list
  <1> QED  BY <1>3, <1>4, <1>5, <1>8, <1>9, <1>10, <1>11 DEF c, GroupSentence

\* The places of the sentences of some groups are as many as the satellites
\* of these groups: the place of a satellite follows from its rank.
PlacesOf(nmea, S) == {p \in S \X (1 .. 4) : p[2] \in DOMAIN nmea[p[1]].svs}
SentencesOf(nmea, P) == {k \in DOMAIN nmea : SentenceKey(nmea[k]) \in P}
MembersOf(svs, P) == {i \in DOMAIN svs : SvKey(svs[i]) \in P}
PlaceRank(nmea, p) == 4 * nmea[p[1]].number - 4 + p[2]
PlaceSv(svs, nmea, p) == Nth(Members(svs, SentenceKey(nmea[p[1]])), PlaceRank(nmea, p))
LEMMA SentenceIs ==
  ASSUME NEW svs, AllNamed(svs), NEW nmea, GsvPart(svs, nmea, KeysTo(14)), NEW k \in DOMAIN nmea
  PROVE  \E g \in 1 .. 14 : GroupSentence(svs, nmea[k], g)
  <1>1. PICK key \in KeysTo(14) : \E n \in 1 .. SentenceCount(svs, key) : nmea[k] = Sentence(svs, key, n)
    BY DEF GsvPart
  <1>2. PICK g \in 1 .. 14 : key = GroupKey(g)
    BY <1>1 DEF KeysTo
  <1>3. PICK n \in 1 .. SentenceCount(svs, GroupKey(g)) : nmea[k] = Sentence(svs, GroupKey(g), n)
    BY <1>1, <1>2
  <1>4. svs \in Seq(SvReported)
    BY DEF AllNamed
  <1> QED  BY <1>3, <1>4, SentenceSays
\* A place holds the satellite of its group that has its rank.
LEMMA PlaceHolds ==
  ASSUME NEW svs, AllNamed(svs), NEW nmea, GsvPart(svs, nmea, KeysTo(14)), NEW p \in PlacesOf(nmea, DOMAIN nmea)
  PROVE  /\ PlaceSv(svs, nmea, p) \in Members(svs, SentenceKey(nmea[p[1]]))
         /\ Rank(Members(svs, SentenceKey(nmea[p[1]])), PlaceSv(svs, nmea, p)) = PlaceRank(nmea, p)
         /\ nmea[p[1]].svs[p[2]] = GsvNumber(svs[PlaceSv(svs, nmea, p)])
  <1> DEFINE k == p[1]
             q == p[2]
  <1>1. k \in DOMAIN nmea /\ q \in 1 .. 4 /\ q \in DOMAIN nmea[k].svs
    BY DEF PlacesOf
  <1>2. PICK g \in 1 .. 14 : GroupSentence(svs, nmea[k], g)
    BY <1>1, SentenceIs
  <1> DEFINE M == Members(svs, SentenceKey(nmea[k]))
             n == nmea[k].number
  <1>3. IsFiniteSet(M) /\ M \subseteq Nat /\ Cardinality(M) \in Nat /\ SentenceCount(svs, GroupKey(g)) \in Nat
    BY MembersFinite DEF AllNamed
  <1>4. n \in Nat /\ n >= 1 /\ 4 * n - 4 + q <= Cardinality(M)
    BY <1>1, <1>2, <1>3 DEF GroupSentence
  <1>5. PlaceRank(nmea, p) \in 1 .. Cardinality(M)
    BY <1>1, <1>3, <1>4 DEF PlaceRank
  <1>6. PlaceSv(svs, nmea, p) \in M /\ Rank(M, PlaceSv(svs, nmea, p)) = PlaceRank(nmea, p)
    BY <1>3, <1>5, NthRanked DEF PlaceSv
  <1>7. nmea[k].svs[q] = GsvNumber(svs[PlaceSv(svs, nmea, p)])
    BY <1>1, <1>2 DEF PlaceSv, PlaceRank, GroupSentence
  <1> QED  BY <1>6, <1>7
\* Each satellite has a place, in a sentence of its group.
LEMMA PlaceFor ==
  ASSUME NEW svs, AllNamed(svs), NEW nmea, GsvPart(svs, nmea, KeysTo(14)), NEW i \in DOMAIN svs
  PROVE  \E p \in PlacesOf(nmea, DOMAIN nmea) : SentenceKey(nmea[p[1]]) = SvKey(svs[i]) /\ PlaceSv(svs, nmea, p) = i
  <1>1. PICK g \in 1 .. 14 : SvKey(svs[i]) = GroupKey(g)
    BY NamedKeys DEF AllNamed
  <1> DEFINE M == Members(svs, GroupKey(g))
             r == Rank(M, i)
             c == Cardinality(M)
  <1>2. i \in M
    BY <1>1 DEF Members
  <1>3. IsFiniteSet(M) /\ M \subseteq Nat /\ c \in Nat
    BY MembersFinite DEF AllNamed
  <1>4. r \in 1 .. c
    BY <1>2, <1>3, RankBounds
  <1>5. Nth(M, r) = i
    BY <1>2, <1>3, NthOfRank
  <1>6. SentenceCount(svs, GroupKey(g)) = (c + 3) \div 4
    BY DEF SentenceCount
  <1> HIDE DEF r, c
  <1>7. PICK n \in Nat : n = (r + 3) \div 4
    BY <1>3, <1>4
  <1>8. PICK d \in Nat : d = (c + 3) \div 4
    BY <1>3
  <1>9. 4 * n <= r + 3 /\ r + 3 < 4 * n + 4 /\ 4 * d <= c + 3 /\ c + 3 < 4 * d + 4
    BY <1>3, <1>4, <1>7, <1>8
  <1>10. n \in 1 .. d /\ r - (4 * n - 4) \in 1 .. 4
    BY <1>3, <1>4, <1>9
  <1>11. PICK k \in DOMAIN nmea : nmea[k] = Sentence(svs, GroupKey(g), n)
    BY <1>6, <1>8, <1>10 DEF GsvPart, KeysTo
  <1> DEFINE q == r - (4 * n - 4)
             p == <<k, q>>
  <1>12. SentenceKey(nmea[k]) = GroupKey(g) /\ nmea[k].number = n
         /\ \A a \in 1 .. 4 : a \in DOMAIN nmea[k].svs <=> 4 * n - 4 + a <= c
    <2>1. svs \in Seq(SvReported) /\ n \in 1 .. SentenceCount(svs, GroupKey(g))
      BY <1>6, <1>8, <1>10 DEF AllNamed
    <2>2. GroupSentence(svs, nmea[k], g) /\ nmea[k].number = n
      BY <1>11, <2>1, SentenceSays
    <2> QED  BY <2>2 DEF GroupSentence, c
  <1>13. 4 * n - 4 + q = r
    BY <1>4, <1>3
  <1>14. q \in DOMAIN nmea[k].svs
    BY <1>3, <1>4, <1>10, <1>12, <1>13
  <1>15. p \in PlacesOf(nmea, DOMAIN nmea)
    BY <1>10, <1>14 DEF PlacesOf
  <1>16. PlaceRank(nmea, p) = r
    BY <1>12, <1>13 DEF PlaceRank
  <1>17. PlaceSv(svs, nmea, p) = i
    BY <1>5, <1>12, <1>16 DEF PlaceSv
  <1> QED  BY <1>1, <1>12, <1>15, <1>17
LEMMA PlacesCount ==
  ASSUME NEW svs, AllNamed(svs), NEW nmea, GsvPart(svs, nmea, KeysTo(14)), NEW P
  PROVE  Cardinality(PlacesOf(nmea, SentencesOf(nmea, P))) = Cardinality(MembersOf(svs, P))
  <1> DEFINE S == PlacesOf(nmea, SentencesOf(nmea, P))
             D == MembersOf(svs, P)
             f == [p \in S |-> PlaceSv(svs, nmea, p)]
  <1>1. IsFiniteSet(D)
    <2>1. svs \in Seq(SvReported) /\ DOMAIN svs = 1 .. Len(svs) /\ Len(svs) \in Nat
      BY DEF AllNamed
    <2>2. IsFiniteSet(1 .. Len(svs)) /\ D \subseteq 1 .. Len(svs)
      BY <2>1, FS_Interval DEF MembersOf
    <2> QED  BY <2>2, FS_Subset
  <1>2. \A p \in S : /\ p \in PlacesOf(nmea, DOMAIN nmea) /\ SentenceKey(nmea[p[1]]) \in P
                     /\ p[1] \in DOMAIN nmea /\ p[2] \in 1 .. 4 /\ p = <<p[1], p[2]>>
    BY DEF PlacesOf, SentencesOf
  <1>3. ASSUME NEW p \in S
        PROVE  /\ PlaceSv(svs, nmea, p) \in DOMAIN svs /\ SvKey(svs[PlaceSv(svs, nmea, p)]) = SentenceKey(nmea[p[1]])
               /\ Rank(Members(svs, SentenceKey(nmea[p[1]])), PlaceSv(svs, nmea, p)) = PlaceRank(nmea, p)
    BY <1>2, PlaceHolds DEF Members
  <1>4. f \in [S -> D]
    BY <1>2, <1>3 DEF MembersOf
  <1>5. ASSUME NEW p \in S, NEW r \in S, PlaceSv(svs, nmea, p) = PlaceSv(svs, nmea, r) PROVE p = r
    <2>1. SentenceKey(nmea[p[1]]) = SentenceKey(nmea[r[1]])
      BY <1>3, <1>5
    <2>2. PlaceRank(nmea, p) = PlaceRank(nmea, r)
      BY <1>3, <1>5, <2>1
    <2>3. PICK g \in 1 .. 14 : GroupSentence(svs, nmea[p[1]], g)
      BY <1>2, SentenceIs
    <2>4. PICK h \in 1 .. 14 : GroupSentence(svs, nmea[r[1]], h)
      BY <1>2, SentenceIs
    <2>5. g = h
      BY <2>1, <2>3, <2>4, GroupApart DEF GroupSentence
    <2>6. SentenceCount(svs, GroupKey(g)) \in Nat
      BY MembersFinite DEF AllNamed
    <2>7. nmea[p[1]].number \in Nat /\ nmea[r[1]].number \in Nat
      BY <2>3, <2>4, <2>5, <2>6 DEF GroupSentence
    <2>8. p[2] \in 1 .. 4 /\ r[2] \in 1 .. 4
      BY <1>2
    <2>9. nmea[p[1]].number = nmea[r[1]].number /\ p[2] = r[2]
      BY <2>2, <2>7, <2>8 DEF PlaceRank
    <2>10. nmea[p[1]] = nmea[r[1]]
      BY <2>3, <2>4, <2>5, <2>9 DEF GroupSentence
    <2>11. p[1] = r[1]
      BY <1>2, <2>10 DEF GsvPart
    <2> QED  BY <1>2, <2>9, <2>11
  <1>6. f \in Injection(S, D)
    BY <1>4, <1>5 DEF Injection, IsInjective
  <1>7. ASSUME NEW i \in D PROVE \E p \in S : PlaceSv(svs, nmea, p) = i
    <2>1. i \in DOMAIN svs /\ SvKey(svs[i]) \in P
      BY DEF MembersOf
    <2>2. PICK p \in PlacesOf(nmea, DOMAIN nmea) : SentenceKey(nmea[p[1]]) = SvKey(svs[i]) /\ PlaceSv(svs, nmea, p) = i
      BY <2>1, PlaceFor
    <2>3. p \in S
      BY <2>1, <2>2 DEF PlacesOf, SentencesOf
    <2> QED  BY <2>2, <2>3
  <1>8. f \in Surjection(S, D)
    BY <1>4, <1>7 DEF Surjection
  <1> HIDE DEF f
  <1>9. Cardinality(S) = Cardinality(D)
    BY <1>1, <1>6, <1>8, FS_Injection
  <1> QED  BY <1>9
LEMMA SentencesCount ==
  ASSUME NEW svs, AllNamed(svs), NEW nmea, GsvPart(svs, nmea, KeysTo(14)), NEW g \in 1 .. 14
  PROVE  Cardinality(SentencesOf(nmea, {GroupKey(g)})) = SentenceCount(svs, GroupKey(g))
  <1> DEFINE S == SentencesOf(nmea, {GroupKey(g)})
             c == SentenceCount(svs, GroupKey(g))
             f == [k \in S |-> nmea[k].number]
  <1>1. c \in Nat
    BY MembersFinite DEF AllNamed
  <1>2. IsFiniteSet(1 .. c) /\ Cardinality(1 .. c) = c
    BY <1>1, FS_Interval
  <1>3. ASSUME NEW k \in S PROVE k \in DOMAIN nmea /\ nmea[k].number \in 1 .. c /\ nmea[k] = Sentence(svs, GroupKey(g), nmea[k].number)
    <2>1. k \in DOMAIN nmea /\ SentenceKey(nmea[k]) = GroupKey(g)
      BY DEF SentencesOf
    <2>2. PICK h \in 1 .. 14 : GroupSentence(svs, nmea[k], h)
      BY <2>1, SentenceIs
    <2>3. g = h
      BY <2>1, <2>2, GroupApart DEF GroupSentence
    <2> QED  BY <2>1, <2>2, <2>3 DEF GroupSentence
  <1>4. f \in Injection(S, 1 .. c)
    <2>1. f \in [S -> 1 .. c]
      BY <1>3
    <2>2. ASSUME NEW k \in S, NEW l \in S, nmea[k].number = nmea[l].number PROVE k = l
      <3>1. k \in DOMAIN nmea /\ l \in DOMAIN nmea /\ nmea[k] = nmea[l]
        BY <1>3, <2>2
      <3> QED  BY <3>1 DEF GsvPart
    <2> QED  BY <2>1, <2>2 DEF Injection, IsInjective
  <1>5. ASSUME NEW n \in 1 .. c PROVE \E k \in S : nmea[k].number = n
    <2>1. GroupKey(g) \in KeysTo(14) /\ svs \in Seq(SvReported)
      BY DEF KeysTo, AllNamed
    <2>2. PICK k \in DOMAIN nmea : nmea[k] = Sentence(svs, GroupKey(g), n)
      BY <2>1 DEF GsvPart
    <2>3. GroupSentence(svs, nmea[k], g) /\ nmea[k].number = n
      BY <2>1, <2>2, SentenceSays
    <2> QED  BY <2>2, <2>3 DEF GroupSentence, SentencesOf
  <1>6. f \in Surjection(S, 1 .. c)
    BY <1>4, <1>5 DEF Surjection, Injection
  <1> HIDE DEF f
  <1>7. Cardinality(S) = Cardinality(1 .. c)
    BY <1>2, <1>4, <1>6, FS_Injection
  <1> QED  BY <1>2, <1>7
\* What is announced is what is listed.
GsvAgrees(svs, nmea) ==
  /\ Cardinality(PlacesOf(nmea, DOMAIN nmea)) = Len(svs)
  /\ \A i \in DOMAIN svs :
       \E p \in PlacesOf(nmea, SentencesOf(nmea, {SvKey(svs[i])})) : nmea[p[1]].svs[p[2]] = GsvNumber(svs[i])
  /\ \A k \in DOMAIN nmea :
       LET same == SentencesOf(nmea, {SentenceKey(nmea[k])}) IN
       /\ Cardinality(PlacesOf(nmea, same)) = nmea[k].inView /\ Cardinality(same) = nmea[k].of
       /\ nmea[k].number < nmea[k].of => Len(nmea[k].svs) = 4
LEMMA WholeAgrees ==
  ASSUME NEW svs, AllNamed(svs), NEW nmea, GsvPart(svs, nmea, KeysTo(14))
  PROVE  GsvAgrees(svs, nmea)
  <1>1. Cardinality(PlacesOf(nmea, DOMAIN nmea)) = Len(svs)
    <2>1. ASSUME NEW k \in DOMAIN nmea PROVE SentenceKey(nmea[k]) \in KeysTo(14)
      <3>1. PICK g \in 1 .. 14 : GroupSentence(svs, nmea[k], g)
        BY SentenceIs
      <3> QED  BY <3>1 DEF GroupSentence, KeysTo
    <2>2. SentencesOf(nmea, KeysTo(14)) = DOMAIN nmea
      BY <2>1 DEF SentencesOf
    <2>3. ASSUME NEW i \in DOMAIN svs PROVE SvKey(svs[i]) \in KeysTo(14)
      <3>1. svs[i] \in SvReported /\ Named(svs[i])
        BY DEF AllNamed
      <3>2. PICK g \in 1 .. 14 : SvKey(svs[i]) = GroupKey(g)
        BY <3>1, NamedKeys
      <3> QED  BY <3>2 DEF KeysTo
    <2>4. MembersOf(svs, KeysTo(14)) = DOMAIN svs
      BY <2>3 DEF MembersOf
    <2>5. DOMAIN svs = 1 .. Len(svs) /\ Len(svs) \in Nat
      BY DEF AllNamed
    <2>6. Cardinality(1 .. Len(svs)) = Len(svs)
      <3>1. ASSUME NEW n \in Nat PROVE Cardinality(1 .. n) = n
        BY FS_Interval
      <3> QED  BY <2>5, <3>1
    <2>7. Cardinality(PlacesOf(nmea, SentencesOf(nmea, KeysTo(14)))) = Cardinality(MembersOf(svs, KeysTo(14)))
      BY PlacesCount
    <2> QED  BY <2>2, <2>4, <2>5, <2>6, <2>7
  <1>2. ASSUME NEW i \in DOMAIN svs
        PROVE  \E p \in PlacesOf(nmea, SentencesOf(nmea, {SvKey(svs[i])})) : nmea[p[1]].svs[p[2]] = GsvNumber(svs[i])
    <2>1. PICK p \in PlacesOf(nmea, DOMAIN nmea) : SentenceKey(nmea[p[1]]) = SvKey(svs[i]) /\ PlaceSv(svs, nmea, p) = i
      BY PlaceFor
    <2>2. nmea[p[1]].svs[p[2]] = GsvNumber(svs[i])
      BY <2>1, PlaceHolds
    <2>3. p \in PlacesOf(nmea, SentencesOf(nmea, {SvKey(svs[i])}))
      BY <2>1 DEF PlacesOf, SentencesOf
    <2> QED  BY <2>2, <2>3
  <1>3. ASSUME NEW k \in DOMAIN nmea
        PROVE  /\ Cardinality(PlacesOf(nmea, SentencesOf(nmea, {SentenceKey(nmea[k])}))) = nmea[k].inView
               /\ Cardinality(SentencesOf(nmea, {SentenceKey(nmea[k])})) = nmea[k].of
               /\ nmea[k].number < nmea[k].of => Len(nmea[k].svs) = 4
    <2>1. PICK g \in 1 .. 14 : GroupSentence(svs, nmea[k], g)
      BY SentenceIs
    <2>2. SentenceKey(nmea[k]) = GroupKey(g)
      BY <2>1 DEF GroupSentence
    <2>3. MembersOf(svs, {GroupKey(g)}) = Members(svs, GroupKey(g))
      BY DEF MembersOf, Members
    <2>4. Cardinality(PlacesOf(nmea, SentencesOf(nmea, {GroupKey(g)}))) = Cardinality(Members(svs, GroupKey(g)))
      BY <2>3, PlacesCount
    <2>5. Cardinality(SentencesOf(nmea, {GroupKey(g)})) = SentenceCount(svs, GroupKey(g))
      BY SentencesCount
    <2> QED  BY <2>1, <2>2, <2>4, <2>5 DEF GroupSentence
  <1> QED  BY <1>1, <1>2, <1>3 DEF GsvAgrees

\* The report told last: satellites as the engine reports them, and either no
\* sentences or those made of them.
GsvMade ==
  svTold.svs \in Seq(SvReported) /\ svTold.nmea \in {<<>>, loc_nmea_generate_sv(svTold.svs)}
GsvInv == reportMsgs \in Seq(ClockMsg) /\ now \in Nat /\ GsvMade

LEMMA MadeComplete ==
  ASSUME GsvInv PROVE GsvComplete
  <1> DEFINE svs == svTold.svs
             nmea == svTold.nmea
             Of(talker, signal) == {k \in DOMAIN nmea : nmea[k].talker = talker /\ nmea[k].signal = signal}
             Places(S) == {p \in S \X (1 .. 4) : p[2] \in DOMAIN nmea[p[1]].svs}
  <1> SUFFICES ASSUME nmea # <<>>, \A i \in DOMAIN svs : Named(svs[i])
               PROVE  /\ Cardinality(Places(DOMAIN nmea)) = Len(svs)
                      /\ \A i \in DOMAIN svs :
                           \E p \in Places(Of(Talker[svs[i].type], convert_signalType_to_signalId(SignalOf(svs[i])))) :
                             nmea[p[1]].svs[p[2]] = GsvNumber(svs[i])
                      /\ \A k \in DOMAIN nmea :
                           /\ Cardinality(Places(Of(nmea[k].talker, nmea[k].signal))) = nmea[k].inView
                           /\ Cardinality(Of(nmea[k].talker, nmea[k].signal)) = nmea[k].of
                           /\ nmea[k].number < nmea[k].of => Len(nmea[k].svs) = 4
    BY Zenon DEF GsvComplete
  <1>1. AllNamed(svs) /\ nmea = loc_nmea_generate_sv(svs)
    BY DEF GsvInv, GsvMade, AllNamed
  <1>2. GsvPart(svs, nmea, KeysTo(14))
    BY <1>1, ReportWhole
  <1>3. GsvAgrees(svs, nmea)
    BY <1>1, <1>2, WholeAgrees
  <1> HIDE DEF svs, nmea
  <1>4. \A S : Places(S) = PlacesOf(nmea, S)
    BY DEF PlacesOf
  <1>5. \A t, s : Of(t, s) = SentencesOf(nmea, {<<t, s>>})
    BY DEF SentencesOf, SentenceKey
  <1> HIDE DEF Places, Of
  <1> QED  BY <1>3, <1>4, <1>5 DEF GsvAgrees, SvKey, SentenceKey

LEMMA GsvSent ==
  ASSUME GsvInv, NEW m \in ClockMsg, SendReport(m) PROVE GsvInv'
  <1>1. reportMsgs' \in Seq(ClockMsg) /\ now' = now /\ svTold' = svTold
    BY DEF GsvInv, SendReport, outputs
  <1> QED  BY <1>1 DEF GsvInv, GsvMade
LEMMA GsvTakes ==
  ASSUME GsvInv, NEW op, Received(op)
  PROVE  reportMsgs' \in Seq(ClockMsg) /\ Head(reportMsgs) \in ClockMsg /\ Head(reportMsgs).op = op
  BY DEF GsvInv, Received
LEMMA NoSvsMade ==
  ASSUME svTold' = NoSvs PROVE GsvMade'
  BY DEF GsvMade, NoSvs
\* The satellites told are those reported, with their marks.
LEMMA SvMade ==
  ASSUME GsvInv, reportSv PROVE GsvMade'
  <1> DEFINE in == Head(reportMsgs).svs
             svs == [i \in DOMAIN in |-> MarkUsed(in[i])]
  <1>1. in \in Seq(SvReported)
    <2>1. Head(reportMsgs) \in ClockMsg /\ Head(reportMsgs).op = "sv"
      BY GsvTakes DEF reportSv
    <2>2. in \in SvReports
      BY <2>1 DEF ClockMsg
    <2> QED  BY <2>2, SvAssumption
  <1>2. svTold' = [svs |-> svs, nmea |-> IF NmeaWanted THEN loc_nmea_generate_sv(svs) ELSE <<>>]
    BY DEF reportSv
  <1> HIDE DEF in
  <1>3. ASSUME NEW sv \in SvReported PROVE MarkUsed(sv) \in SvReported
    <2>1. \A b : (sv.used \/ b) \in BOOLEAN
      OBVIOUS
    <2> QED  BY <2>1 DEF MarkUsed, SvReported
  <1>4. svs \in Seq(SvReported)
    BY <1>1, <1>3
  <1> HIDE DEF svs
  <1> QED  BY <1>2, <1>4 DEF GsvMade
LEMMA GsvStep ==
  ASSUME GsvInv, [ReportsNext]_reportsVars PROVE GsvInv'
  <1>0. now \in Nat
    BY DEF GsvInv
  <1>1. ASSUME NEW f \in Fixes, reportPositionEvent(f) PROVE GsvInv'
    <2>1. Fix(f, "SPE") \in FixMsgs
      BY <1>0, FixIn
    <2>2. CASE engHub
      <3>1. [op |-> "enginePositions", fixes |-> <<Fix(f, "SPE")>>] \in ClockMsg
        BY <2>1 DEF ClockMsg
      <3> QED  BY <1>1, <2>2, <3>1, GsvSent DEF reportPositionEvent, reportEnginePositionsEvent
    <2>3. CASE ~engHub
      <3>1. [op |-> "position", fix |-> Fix(f, "SPE")] \in ClockMsg
        BY <2>1 DEF ClockMsg
      <3> QED  BY <1>1, <2>3, <3>1, GsvSent DEF reportPositionEvent
    <2> QED  BY <2>2, <2>3
  <1>2. ASSUME NEW f \in Fixes, HubReports(f) PROVE GsvInv'
    <2>1. Fix(f, "FUSED") \in FixMsgs /\ Fix(f, "PPE") \in FixMsgs
      BY <1>0, FixIn
    <2>2. [op |-> "enginePositions", fixes |-> <<Fix(f, "FUSED"), Fix(f, "PPE")>>] \in ClockMsg
      BY <2>1 DEF ClockMsg
    <2> QED  BY <1>2, <2>2, GsvSent DEF HubReports, reportEnginePositionsEvent
  <1>3. ASSUME NEW svs \in SvReports, NEW hub \in BOOLEAN, reportSvEvent(svs, hub) PROVE GsvInv'
    <2>1. [op |-> "sv", svs |-> svs] \in ClockMsg
      BY DEF ClockMsg
    <2> QED  BY <1>3, <2>1, GsvSent DEF reportSvEvent
  <1>4. ASSUME NEW b \in BOOLEAN, reportNmeaEvent(b) PROVE GsvInv'
    <2>1. [op |-> "nmea", consumed |-> b] \in ClockMsg
      BY DEF ClockMsg
    <2> QED  BY <1>4, <2>1, GsvSent DEF reportNmeaEvent
  <1>5. ASSUME NEW b \in BOOLEAN, reportLocationSystemInfoEvent(b) PROVE GsvInv'
    <2>1. [op |-> "systemInfo", leap |-> [Leap EXCEPT !.change = b]] \in ClockMsg
      BY DEF ClockMsg
    <2> QED  BY <1>5, <2>1, GsvSent DEF reportLocationSystemInfoEvent
  <1>6. CASE TimePasses \/ TracksOrNot \/ UNCHANGED reportsVars
    <2>1. UNCHANGED <<svTold, reportMsgs>> /\ now' \in Nat
      BY <1>0, <1>6 DEF TimePasses, TracksOrNot, reportsVars, outputs
    <2> QED  BY <2>1 DEF GsvInv, GsvMade
  <1>7. CASE reportPosition
    <2>1. reportMsgs' \in Seq(ClockMsg) /\ now' \in Nat /\ svTold' = NoSvs
      BY <1>0, <1>7, GsvTakes DEF reportPosition, engineVars, Position
    <2> QED  BY <2>1, NoSvsMade DEF GsvInv
  <1>8. CASE reportEnginePositions
    <2>1. reportMsgs' \in Seq(ClockMsg) /\ now' \in Nat
      BY <1>0, <1>8, GsvTakes DEF reportEnginePositions, engineVars
    <2>2. svTold' = NoSvs
      BY <1>8 DEF reportEnginePositions, Position
    <2> QED  BY <2>1, <2>2, NoSvsMade DEF GsvInv
  <1>9. CASE reportSv
    <2>1. reportMsgs' \in Seq(ClockMsg) /\ now' \in Nat
      BY <1>0, <1>9, GsvTakes DEF reportSv, engineVars
    <2> QED  BY <1>9, <2>1, SvMade DEF GsvInv
  <1>10. CASE reportNmeaMsg \/ reportLocationSystemInfo
    <2>1. reportMsgs' \in Seq(ClockMsg) /\ now' \in Nat /\ svTold' = NoSvs
      BY <1>0, <1>10, GsvTakes DEF reportNmeaMsg, reportLocationSystemInfo, engineVars
    <2> QED  BY <2>1, NoSvsMade DEF GsvInv
  <1> QED  BY <1>1, <1>2, <1>3, <1>4, <1>5, <1>6, <1>7, <1>8, <1>9, <1>10 DEF ReportsNext

\* GsvComplete: the GSV sentences that loc_nmea_generate_sv makes of a report list every
\* satellite once, under the talker and the signal that announce it, as many as they
\* announce and four to a sentence (loc_nmea.cpp:733, :2100), for any number of
\* satellites on any of the signals the sentences name, in any order.
THEOREM GsvListsAll == ReportsSpec => []GsvComplete
  <1>1. ReportsInit => GsvInv
    BY DEF ReportsInit, GsvInv, GsvMade, NoSvs
  <1>2. GsvInv /\ [ReportsNext]_reportsVars => GsvInv'
    BY GsvStep
  <1>3. GsvInv => GsvComplete
    BY MadeComplete
  <1> QED  BY <1>1, <1>2, <1>3, PTL DEF ReportsSpec

-----------------------------------------------------------------------------
(* The client's sessions.                                                  *)

ClientSpec == ClientInit /\ [][ClientNext]_clientVars

\* The dictionary is its own inverse, both ways, as the client uses it.
Paired(d) ==
  /\ \A id \in DOMAIN d.forward : d.forward[id] \in DOMAIN d.backward /\ d.backward[d.forward[id]] = id
  /\ \A s \in DOMAIN d.backward : d.backward[s] \in DOMAIN d.forward /\ d.forward[d.backward[s]] = s
DictSessions == DOMAIN mSessionBiDict.backward

SessionOps == {"start", "stop", "update", "get", "ni", "remove", "none"}
SessionCommand == [op : SessionOps, session : Nat, request : SessionOps]
FoundRequests == [queue : QueueKinds \cup {"none"}, request : SessionOps, answers : SessionOps,
                  session : Nat, ok : BOOLEAN]
AnswerTypes ==
  /\ requests \in [QueueKinds -> [session : Nat, reqs : Seq(SessionOps)]]
  /\ commands \in Seq(SessionCommand) /\ found \in FoundRequests
SessionTypes ==
  /\ mLocationAPI \in {"unset", "set", "gone"}
  /\ requests \in [QueueKinds -> [session : Nat, reqs : Seq(SessionOps)]]
  /\ mTracking \in BOOLEAN /\ lastSession \in 0 .. MaxSession
  /\ commands \in Seq(SessionCommand)
  /\ found \in FoundRequests

\* Sessions are numbered in order; the one tracked is not in the dictionary.
SessionsNumbered ==
  /\ running \subseteq 1 .. lastSession /\ DictSessions \subseteq 1 .. lastSession
  /\ requests["tracking"].session \in (0 .. lastSession) \ DictSessions
  /\ requests["ni"].session \in NiIds \cup {0}
  /\ \A i \in DOMAIN commands :
       /\ commands[i].session \in (0 .. lastSession) \cup NiIds
       /\ commands[i].op = "start" => commands[i].session \in 1 .. lastSession

\* A command says what its request is for, unless one request is for two; the
\* start of a session is the first of its commands.
CommandsTrue(cmds, run) ==
  \A i \in DOMAIN cmds :
    /\ cmds[i].request \in {"start", "stop"} => cmds[i].op = cmds[i].request
    /\ cmds[i].op = "start" =>
         cmds[i].session \notin run /\ \A j \in 1 .. i - 1 : cmds[j].session # cmds[i].session

\* A careful caller has at most one command about the sessions of the dictionary
\* under way, and its request waits.
AskedOnce(cmds, reqs, dict) ==
  \A i \in DOMAIN cmds : cmds[i].session \in dict =>
    reqs = <<cmds[i].request>> /\ \A j \in DOMAIN cmds : cmds[j].session \in dict => j = i

\* A response that ends a session of the dictionary comes when it has ended.
EndedFirst(f, cmds, run, dict) ==
  ForgetsOnResponse(f) /\ f.session \in dict =>
    f.session \notin run /\ \A i \in DOMAIN cmds : cmds[i].op = "start" => cmds[i].session # f.session

\* What runs or will is kept by the client, or its stop is under way.
Tracked == IF mTracking THEN {requests["tracking"].session} ELSE {}
StopsIt(c, s) == c.op = "stop" /\ c.session = s
NoneLeft(cmds, run, kept) ==
  /\ \A s \in run : s \in kept \/ \E j \in DOMAIN cmds : StopsIt(cmds[j], s)
  /\ \A i \in DOMAIN cmds : cmds[i].op = "start" =>
       \/ cmds[i].session \in kept
       \/ \E j \in DOMAIN cmds : j > i /\ StopsIt(cmds[j], cmds[i].session)

\* Nothing is under way before the client is set; its removal is the last command.
LifeInv ==
  /\ mLocationAPI = "unset" => commands = <<>> /\ running = {} /\ found = NoneFound
  /\ mLocationAPI # "gone" => \A i \in DOMAIN commands : commands[i].op # "remove"
  /\ mLocationAPI = "gone" =>
       IF commands = <<>> THEN running = {} ELSE commands[Len(commands)].op = "remove"

SessionsInv ==
  /\ SessionTypes /\ SessionsNumbered /\ Paired(mSessionBiDict)
  /\ CommandsTrue(commands, running) /\ LifeInv
  /\ mLocationAPI # "gone" =>
       /\ AskedOnce(commands, requests["session"].reqs, DictSessions)
       /\ EndedFirst(found, commands, running, DictSessions)
       /\ NoneLeft(commands, running, DictSessions \cup Tracked)

-----------------------------------------------------------------------------
\* The dictionary.
LEMMA PairedSet ==
  ASSUME NEW d, Paired(d), NEW id, id \notin DOMAIN d.forward, NEW s, s \notin DOMAIN d.backward, NEW e
  PROVE  /\ Paired(biSet(d, id, s, e)) /\ DOMAIN biSet(d, id, s, e).backward = DOMAIN d.backward \cup {s}
  <1> DEFINE f == d.forward
             b == d.backward
             f1 == biSet(d, id, s, e).forward
             b1 == biSet(d, id, s, e).backward
  <1>1. /\ DOMAIN f1 = DOMAIN f \cup {id} /\ f1[id] = s /\ \A x \in DOMAIN f \ {id} : f1[x] = f[x]
        /\ DOMAIN b1 = DOMAIN b \cup {s} /\ b1[s] = id /\ \A x \in DOMAIN b \ {s} : b1[x] = b[x]
    BY DEF biSet, Put
  <1>2. /\ \A x \in DOMAIN f : f[x] \in DOMAIN b /\ b[f[x]] = x
        /\ \A x \in DOMAIN b : b[x] \in DOMAIN f /\ f[b[x]] = x
    BY DEF Paired
  <1> HIDE DEF f, b, f1, b1
  <1>3. \A x \in DOMAIN f1 : f1[x] \in DOMAIN b1 /\ b1[f1[x]] = x
    BY <1>1, <1>2 DEF f, b
  <1>4. \A x \in DOMAIN b1 : b1[x] \in DOMAIN f1 /\ f1[b1[x]] = x
    BY <1>1, <1>2 DEF f, b
  <1> QED
    BY <1>1, <1>3, <1>4 DEF Paired, b1, f1, b

LEMMA PairedWithout ==
  ASSUME NEW d, Paired(d), NEW S, S \subseteq DOMAIN d.backward, NEW r,
         DOMAIN r.forward = DOMAIN d.forward \ {d.backward[s] : s \in S},
         \A x \in DOMAIN r.forward : r.forward[x] = d.forward[x],
         DOMAIN r.backward = DOMAIN d.backward \ S,
         \A x \in DOMAIN r.backward : r.backward[x] = d.backward[x]
  PROVE  Paired(r)
  BY DEF Paired

LEMMA PairedRm ==
  ASSUME NEW d, Paired(d), NEW s \in DOMAIN d.backward
  PROVE  /\ Paired(rmBySession(d, s)) /\ DOMAIN rmBySession(d, s).backward = DOMAIN d.backward \ {s}
         /\ DOMAIN rmBySession(d, s).forward = DOMAIN d.forward \ {d.backward[s]}
  <1> DEFINE r == rmBySession(d, s)
  <1>1. /\ DOMAIN r.forward = DOMAIN d.forward \ {d.backward[s]}
        /\ \A x \in DOMAIN r.forward : r.forward[x] = d.forward[x]
        /\ DOMAIN r.backward = DOMAIN d.backward \ {s}
        /\ \A x \in DOMAIN r.backward : r.backward[x] = d.backward[x]
    BY DEF rmBySession, Drop, getId, Get
  <1> HIDE DEF r
  <1>2. {s} \subseteq DOMAIN d.backward /\ {d.backward[x] : x \in {s}} = {d.backward[s]}
    OBVIOUS
  <1>3. Paired(r)
    BY <1>1, <1>2, PairedWithout
  <1> QED
    BY <1>1, <1>3 DEF r

LEMMA PairedRmById ==
  ASSUME NEW d, Paired(d), NEW id \in DOMAIN d.forward
  PROVE  /\ rmById(d, id) = rmBySession(d, getSession(d, id)) /\ getSession(d, id) \in DOMAIN d.backward
         /\ Paired(rmById(d, id)) /\ DOMAIN rmById(d, id).backward = DOMAIN d.backward \ {getSession(d, id)}
         /\ id \notin DOMAIN rmById(d, id).forward
  <1>1. getSession(d, id) = d.forward[id] /\ d.forward[id] \in DOMAIN d.backward /\ d.backward[d.forward[id]] = id
    BY DEF Paired, getSession, Get
  <1>2. rmById(d, id) = rmBySession(d, getSession(d, id))
    BY <1>1 DEF rmById, rmBySession, getId, getSession, Get
  <1> QED
    BY <1>1, <1>2, PairedRm

LEMMA PairedRmAll ==
  ASSUME NEW d, Paired(d), NEW S, S \subseteq DOMAIN d.backward
  PROVE  /\ Paired(rmSessions(d, S)) /\ DOMAIN rmSessions(d, S).backward = DOMAIN d.backward \ S
  <1> DEFINE r == rmSessions(d, S)
  <1>1. /\ DOMAIN r.forward = DOMAIN d.forward \ {getId(d, s) : s \in S}
        /\ \A x \in DOMAIN r.forward : r.forward[x] = d.forward[x]
        /\ DOMAIN r.backward = DOMAIN d.backward \ S
        /\ \A x \in DOMAIN r.backward : r.backward[x] = d.backward[x]
    BY DEF rmSessions
  <1>2. {getId(d, s) : s \in S} = {d.backward[s] : s \in S}
    BY DEF getId, Get
  <1> HIDE DEF r
  <1>3. Paired(r)
    BY <1>1, <1>2, PairedWithout
  <1> QED
    BY <1>1, <1>3 DEF r

-----------------------------------------------------------------------------
\* The commands under way, when one is added at the end or the first is served.
LEMMA CommandLast ==
  ASSUME NEW S, NEW cmds \in Seq(S), NEW c \in S, NEW q, q = Append(cmds, c)
  PROVE  /\ q \in Seq(S) /\ q # <<>> /\ Len(q) = Len(cmds) + 1 /\ q[Len(q)] = c
         /\ DOMAIN q = DOMAIN cmds \cup {Len(q)} /\ DOMAIN cmds = 1 .. Len(cmds) /\ Len(cmds) \in Nat
         /\ \A i \in DOMAIN cmds : q[i] = cmds[i] /\ i < Len(q) /\ i \in Nat
  OBVIOUS

LEMMA CommandFirst ==
  ASSUME NEW S, NEW cmds \in Seq(S), cmds # <<>>, NEW q, q = Tail(cmds)
  PROVE  /\ q \in Seq(S) /\ Head(cmds) \in S /\ cmds[1] = Head(cmds) /\ 1 \in DOMAIN cmds
         /\ DOMAIN cmds \subseteq Nat
         /\ \A i \in DOMAIN q : i + 1 \in DOMAIN cmds /\ i \in Nat /\ i > 0 /\ q[i] = cmds[i + 1]
         /\ \A i \in DOMAIN cmds : i # 1 => i - 1 \in DOMAIN q /\ q[i - 1] = cmds[i]
  <1>1. /\ q \in Seq(S) /\ Head(cmds) \in S /\ cmds[1] = Head(cmds)
        /\ Len(cmds) \in Nat /\ Len(cmds) > 0 /\ DOMAIN cmds = 1 .. Len(cmds)
        /\ Len(q) = Len(cmds) - 1 /\ DOMAIN q = 1 .. Len(q)
    OBVIOUS
  <1>2. \A i \in 1 .. Len(q) : q[i] = cmds[i + 1]
    OBVIOUS
  <1>3. \A i \in DOMAIN cmds : i # 1 => i - 1 \in DOMAIN q /\ q[i - 1] = cmds[i]
    BY <1>1, <1>2
  <1> QED
    BY <1>1, <1>2, <1>3

LEMMA CommandLeft ==
  ASSUME NEW S, NEW cmds \in Seq(S), cmds # <<>>
  PROVE  IF Tail(cmds) = <<>> THEN cmds[Len(cmds)] = Head(cmds)
         ELSE Tail(cmds)[Len(Tail(cmds))] = cmds[Len(cmds)]
  <1> DEFINE q == Tail(cmds)
             n == Len(cmds)
  <1>1. /\ n \in Nat /\ n > 0 /\ Len(q) = n - 1 /\ q \in Seq(S) /\ cmds[1] = Head(cmds)
        /\ \A i \in 1 .. Len(q) : q[i] = cmds[i + 1]
    OBVIOUS
  <1> HIDE DEF q, n
  <1>2. q = <<>> => Len(q) = 0
    BY <1>1, EmptySeq
  <1>3. Len(q) = 0 => q = <<>>
    BY <1>1, EmptySeq
  <1>4. CASE q = <<>>
    <2>1. n = 1
      BY <1>1, <1>2, <1>4
    <2> QED
      BY <1>1, <1>4, <2>1 DEF q, n
  <1>5. CASE q # <<>>
    <2>1. Len(q) \in 1 .. Len(q) /\ Len(q) + 1 = n
      BY <1>1, <1>3, <1>5
    <2>2. q[Len(q)] = cmds[n]
      BY <1>1, <2>1
    <2> QED
      BY <1>5, <2>2 DEF q, n
  <1> QED
    BY <1>4, <1>5

LEMMA AddedTrue ==
  ASSUME NEW cmds \in Seq(SessionCommand), NEW run, CommandsTrue(cmds, run), NEW c \in SessionCommand,
         c.request \in {"start", "stop"} => c.op = c.request,
         c.op = "start" => c.session \notin run /\ \A j \in DOMAIN cmds : cmds[j].session # c.session
  PROVE  CommandsTrue(Append(cmds, c), run)
  <1> DEFINE q == Append(cmds, c)
  <1> q = Append(cmds, c)
    OBVIOUS
  <1> HIDE DEF q
  <1>1. /\ Len(q) = Len(cmds) + 1 /\ q[Len(q)] = c
        /\ DOMAIN q = DOMAIN cmds \cup {Len(q)} /\ DOMAIN cmds = 1 .. Len(cmds) /\ Len(cmds) \in Nat
        /\ \A i \in DOMAIN cmds : q[i] = cmds[i] /\ i < Len(q) /\ i \in Nat
    BY CommandLast
  <1>2. \A i \in DOMAIN q : \A j \in 1 .. i - 1 : j \in DOMAIN cmds
    BY <1>1
  <1>3. CommandsTrue(q, run)
    BY <1>1, <1>2 DEF CommandsTrue
  <1> QED
    BY <1>3

LEMMA ServedTrue ==
  ASSUME NEW cmds \in Seq(SessionCommand), cmds # <<>>, NEW run, CommandsTrue(cmds, run), NEW left,
         left \subseteq run \cup (IF Head(cmds).op = "start" THEN {Head(cmds).session} ELSE {})
  PROVE  /\ CommandsTrue(Tail(cmds), left)
         /\ Head(cmds).request \in {"start", "stop"} => Head(cmds).op = Head(cmds).request
         /\ \A i \in DOMAIN Tail(cmds) : Tail(cmds)[i].op = "start" => Tail(cmds)[i].session # Head(cmds).session
         /\ Head(cmds).op = "start" => Head(cmds).session \notin run
  <1> DEFINE q == Tail(cmds)
  <1> q = Tail(cmds)
    OBVIOUS
  <1> HIDE DEF q
  <1>1. /\ Head(cmds) \in SessionCommand /\ cmds[1] = Head(cmds) /\ 1 \in DOMAIN cmds
        /\ \A i \in DOMAIN q : i + 1 \in DOMAIN cmds /\ i \in Nat /\ i > 0 /\ q[i] = cmds[i + 1]
    BY CommandFirst
  <1>2. \A i \in DOMAIN q : q[i].op = "start" => q[i].session # Head(cmds).session
    <2> SUFFICES ASSUME NEW i \in DOMAIN q, q[i].op = "start"
                 PROVE  q[i].session # Head(cmds).session
      OBVIOUS
    <2>1. 1 \in 1 .. (i + 1) - 1
      BY <1>1
    <2> QED
      BY <1>1, <2>1 DEF CommandsTrue
  <1>3. CommandsTrue(q, left)
    <2> SUFFICES ASSUME NEW i \in DOMAIN q
                 PROVE  /\ q[i].request \in {"start", "stop"} => q[i].op = q[i].request
                        /\ q[i].op = "start" =>
                             q[i].session \notin left /\ \A j \in 1 .. i - 1 : q[j].session # q[i].session
      BY DEF CommandsTrue
    <2>1. q[i].op = "start" => q[i].session \notin left
      BY <1>1, <1>2 DEF CommandsTrue
    <2>2. ASSUME q[i].op = "start", NEW j \in 1 .. i - 1
          PROVE  q[j].session # q[i].session
      <3>1. i \in Nat /\ i \in 1 .. Len(q)
        BY <1>1, <2>2
      <3>2. j \in DOMAIN q /\ j + 1 \in 1 .. (i + 1) - 1
        BY <3>1, <2>2
      <3> QED
        BY <1>1, <2>2, <3>2 DEF CommandsTrue
    <2> QED
      BY <1>1, <2>1, <2>2 DEF CommandsTrue
  <1>4. Head(cmds).request \in {"start", "stop"} => Head(cmds).op = Head(cmds).request
    BY <1>1 DEF CommandsTrue
  <1>5. Head(cmds).op = "start" => Head(cmds).session \notin run
    BY <1>1 DEF CommandsTrue
  <1> QED
    BY <1>2, <1>3, <1>4, <1>5

LEMMA AddedKept ==
  ASSUME NEW cmds \in Seq(SessionCommand), NEW run, NEW kept, NoneLeft(cmds, run, kept), NEW c \in SessionCommand,
         NEW then, \A s \in kept : s \in then \/ StopsIt(c, s), c.op = "start" => c.session \in then
  PROVE  NoneLeft(Append(cmds, c), run, then)
  <1> DEFINE q == Append(cmds, c)
  <1> q = Append(cmds, c)
    OBVIOUS
  <1> HIDE DEF q
  <1>1. /\ q[Len(q)] = c
        /\ DOMAIN q = DOMAIN cmds \cup {Len(q)}
        /\ \A i \in DOMAIN cmds : q[i] = cmds[i] /\ Len(q) > i
    BY CommandLast
  <1>2. NoneLeft(q, run, then)
    BY <1>1 DEF NoneLeft
  <1> QED
    BY <1>2

LEMMA ServedKept ==
  ASSUME NEW cmds \in Seq(SessionCommand), cmds # <<>>, NEW run, NEW kept, NoneLeft(cmds, run, kept), NEW left,
         left \subseteq run \cup (IF Head(cmds).op = "start" THEN {Head(cmds).session} ELSE {}),
         Head(cmds).op = "stop" => Head(cmds).session \notin left
  PROVE  NoneLeft(Tail(cmds), left, kept)
  <1> DEFINE q == Tail(cmds)
  <1> q = Tail(cmds)
    OBVIOUS
  <1> HIDE DEF q
  <1>1. /\ cmds[1] = Head(cmds) /\ 1 \in DOMAIN cmds /\ DOMAIN cmds \subseteq Nat
        /\ \A i \in DOMAIN q : i + 1 \in DOMAIN cmds /\ i \in Nat /\ i > 0 /\ q[i] = cmds[i + 1]
        /\ \A i \in DOMAIN cmds : i # 1 => i - 1 \in DOMAIN q /\ q[i - 1] = cmds[i]
    BY CommandFirst
  <1>2. ASSUME NEW s \in left
        PROVE  s \in kept \/ \E j \in DOMAIN q : StopsIt(q[j], s)
    <2>1. CASE s \in run
      <3>1. s \in kept \/ \E j \in DOMAIN cmds : StopsIt(cmds[j], s)
        BY <2>1 DEF NoneLeft
      <3>2. \A j \in DOMAIN cmds : StopsIt(cmds[j], s) => j # 1
        BY <1>1, <1>2 DEF StopsIt
      <3> QED
        BY <1>1, <3>1, <3>2
    <2>2. CASE Head(cmds).op = "start" /\ s = Head(cmds).session
      <3>1. s \in kept \/ \E j \in DOMAIN cmds : j > 1 /\ StopsIt(cmds[j], s)
        BY <1>1, <2>2 DEF NoneLeft
      <3>2. \A j \in DOMAIN cmds : j > 1 => j # 1
        BY <1>1
      <3> QED
        BY <1>1, <3>1, <3>2
    <2> QED
      BY <1>2, <2>1, <2>2
  <1>3. ASSUME NEW i \in DOMAIN q, q[i].op = "start", q[i].session \notin kept
        PROVE  \E j \in DOMAIN q : j > i /\ StopsIt(q[j], q[i].session)
    <2>1. i + 1 \in DOMAIN cmds /\ i \in Nat /\ q[i] = cmds[i + 1]
      BY <1>1
    <2>2. PICK j \in DOMAIN cmds : j > i + 1 /\ StopsIt(cmds[j], q[i].session)
      BY <1>3, <2>1 DEF NoneLeft
    <2>3. j \in Nat /\ j # 1 /\ j - 1 > i
      BY <1>1, <2>1, <2>2
    <2> QED
      BY <1>1, <2>2, <2>3
  <1>4. NoneLeft(q, left, kept)
    BY <1>2, <1>3 DEF NoneLeft
  <1> QED
    BY <1>4

\* A command about no session of the dictionary does not disturb what was asked;
\* one about such a session is asked when nothing is.
LEMMA AddedApart ==
  ASSUME NEW cmds \in Seq(SessionCommand), NEW reqs, NEW dict, AskedOnce(cmds, reqs, dict),
         NEW c \in SessionCommand, NEW then, c.session \notin then,
         \A i \in DOMAIN cmds : cmds[i].session \in then => cmds[i].session \in dict
  PROVE  AskedOnce(Append(cmds, c), reqs, then)
  <1> DEFINE q == Append(cmds, c)
  <1> q = Append(cmds, c)
    OBVIOUS
  <1> HIDE DEF q
  <1>1. /\ q[Len(q)] = c /\ DOMAIN q = DOMAIN cmds \cup {Len(q)}
        /\ \A i \in DOMAIN cmds : q[i] = cmds[i]
    BY CommandLast
  <1>2. AskedOnce(q, reqs, then)
    BY <1>1 DEF AskedOnce
  <1> QED
    BY <1>2

LEMMA AddedAlone ==
  ASSUME NEW cmds \in Seq(SessionCommand), NEW c \in SessionCommand, NEW then,
         \A i \in DOMAIN cmds : cmds[i].session \notin then
  PROVE  AskedOnce(Append(cmds, c), <<c.request>>, then)
  <1> DEFINE q == Append(cmds, c)
  <1> q = Append(cmds, c)
    OBVIOUS
  <1> HIDE DEF q
  <1>1. /\ q[Len(q)] = c /\ DOMAIN q = DOMAIN cmds \cup {Len(q)}
        /\ \A i \in DOMAIN cmds : q[i] = cmds[i]
    BY CommandLast
  <1>2. AskedOnce(q, <<c.request>>, then)
    BY <1>1 DEF AskedOnce
  <1> QED
    BY <1>2

LEMMA ServedApart ==
  ASSUME NEW cmds \in Seq(SessionCommand), cmds # <<>>, NEW reqs, NEW dict, AskedOnce(cmds, reqs, dict), NEW later,
         Head(cmds).session \notin dict => later = reqs
  PROVE  AskedOnce(Tail(cmds), later, dict)
  <1> DEFINE q == Tail(cmds)
  <1> q = Tail(cmds)
    OBVIOUS
  <1> HIDE DEF q
  <1>1. /\ cmds[1] = Head(cmds) /\ 1 \in DOMAIN cmds
        /\ \A i \in DOMAIN q : i + 1 \in DOMAIN cmds /\ i \in Nat /\ i > 0 /\ q[i] = cmds[i + 1]
    BY CommandFirst
  <1>2. CASE Head(cmds).session \in dict
    <2>1. \A i \in DOMAIN q : q[i].session \notin dict
      BY <1>1, <1>2 DEF AskedOnce
    <2>2. AskedOnce(q, later, dict)
      BY <2>1 DEF AskedOnce
    <2> QED
      BY <2>2
  <1>3. CASE Head(cmds).session \notin dict
    <2>1. AskedOnce(q, reqs, dict)
      BY <1>1 DEF AskedOnce
    <2> QED
      BY <1>3, <2>1
  <1> QED
    BY <1>2, <1>3

LEMMA AddedEnds ==
  ASSUME NEW f, NEW cmds \in Seq(SessionCommand), NEW run, NEW dict, EndedFirst(f, cmds, run, dict),
         NEW c \in SessionCommand, c.op = "start" => c.session \notin dict
  PROVE  EndedFirst(f, Append(cmds, c), run, dict)
  <1> DEFINE q == Append(cmds, c)
  <1> q = Append(cmds, c)
    OBVIOUS
  <1> HIDE DEF q
  <1>1. /\ q[Len(q)] = c /\ DOMAIN q = DOMAIN cmds \cup {Len(q)}
        /\ \A i \in DOMAIN cmds : q[i] = cmds[i]
    BY CommandLast
  <1>2. EndedFirst(f, q, run, dict)
    BY <1>1 DEF EndedFirst
  <1> QED
    BY <1>2

\* The commands under way while the client is there, of sessions numbered up to last.
CommandsOK(cmds, run, last) ==
  /\ cmds \in Seq(SessionCommand) /\ CommandsTrue(cmds, run)
  /\ \A i \in DOMAIN cmds :
       /\ cmds[i].session \in (0 .. last) \cup NiIds /\ cmds[i].op # "remove"
       /\ cmds[i].op = "start" => cmds[i].session \in 1 .. last

LEMMA AddedOK ==
  ASSUME NEW cmds, NEW run, NEW last \in Nat, CommandsOK(cmds, run, last), run \subseteq 1 .. last,
         NEW c \in SessionCommand, NEW then \in Nat, then >= last, c.op # "remove",
         c.session \in (0 .. then) \cup NiIds, c.request \in {"start", "stop"} => c.op = c.request,
         c.op = "start" => c.session = last + 1 /\ c.session \notin NiIds
  PROVE  CommandsOK(Append(cmds, c), run, then)
  <1> DEFINE q == Append(cmds, c)
  <1> q = Append(cmds, c)
    OBVIOUS
  <1> HIDE DEF q
  <1>0. cmds \in Seq(SessionCommand)
    BY DEF CommandsOK
  <1>1. /\ q \in Seq(SessionCommand) /\ q[Len(q)] = c /\ DOMAIN q = DOMAIN cmds \cup {Len(q)}
        /\ \A i \in DOMAIN cmds : q[i] = cmds[i]
    BY <1>0, CommandLast
  <1>2. 0 .. last \subseteq 0 .. then /\ last + 1 \notin 0 .. last /\ last + 1 \notin 1 .. last
    OBVIOUS
  <1>3. c.op = "start" => c.session \notin run /\ \A j \in DOMAIN cmds : cmds[j].session # c.session
    BY <1>2 DEF CommandsOK
  <1>4. CommandsTrue(q, run)
    BY <1>0, <1>3, AddedTrue DEF CommandsOK
  <1>5. \A i \in DOMAIN q : /\ q[i].session \in (0 .. then) \cup NiIds /\ q[i].op # "remove"
                            /\ q[i].op = "start" => q[i].session \in 1 .. then
    <2>1. c.op = "start" => c.session \in 1 .. then
      <3>1. c.session \in Nat /\ (c.op = "start" => c.session \in 0 .. then /\ c.session = last + 1)
        BY DEF SessionCommand
      <3> QED
        BY <3>1
    <2>2. 1 .. last \subseteq 1 .. then
      OBVIOUS
    <2> QED
      BY <1>1, <1>2, <2>1, <2>2 DEF CommandsOK
  <1>6. CommandsOK(q, run, then)
    BY <1>1, <1>4, <1>5 DEF CommandsOK
  <1> QED
    BY <1>6

\* While the client is set, the invariant is that of its commands and of its sessions.
SetInv ==
  /\ requests \in [QueueKinds -> [session : Nat, reqs : Seq(SessionOps)]]
  /\ mTracking \in BOOLEAN /\ lastSession \in 0 .. MaxSession
  /\ found \in FoundRequests
  /\ running \subseteq 1 .. lastSession /\ DictSessions \subseteq 1 .. lastSession
  /\ requests["tracking"].session \in (0 .. lastSession) \ DictSessions
  /\ requests["ni"].session \in NiIds \cup {0}
  /\ Paired(mSessionBiDict) /\ CommandsOK(commands, running, lastSession)
  /\ AskedOnce(commands, requests["session"].reqs, DictSessions)
  /\ EndedFirst(found, commands, running, DictSessions)
  /\ NoneLeft(commands, running, DictSessions \cup Tracked)

LEMMA WhileSet ==
  ASSUME mLocationAPI = "set"
  PROVE  SessionsInv <=> SetInv
  BY DEF SessionsInv, SetInv, SessionTypes, SessionsNumbered, LifeInv, CommandsOK

\* A new session, or one that is not of the dictionary, is not in it, if the numbers of
\* network requests are apart.
NiApart == NiIds \cap (1 .. MaxSession) = {}
LEMMA FreshSession ==
  ASSUME SetInv, lastSession < MaxSession, NiApart
  PROVE  /\ Fresh \in 1 .. MaxSession /\ Fresh \in Nat /\ Fresh >= lastSession /\ lastSession \in Nat
         /\ Fresh \notin NiIds /\ Fresh \notin DictSessions
         /\ \A i \in DOMAIN commands : commands[i].session # Fresh
         /\ Fresh = lastSession + 1 /\ 0 .. lastSession \subseteq 0 .. Fresh /\ 1 .. lastSession \subseteq 1 .. Fresh
         /\ Fresh \notin 0 .. lastSession /\ Fresh \in 0 .. Fresh
  <1>1. lastSession \in Nat /\ MaxSession \in Nat
    BY ClientAssumption DEF SetInv
  <1>2. /\ Fresh \in 1 .. MaxSession /\ Fresh \in Nat /\ Fresh >= lastSession
        /\ Fresh = lastSession + 1 /\ 0 .. lastSession \subseteq 0 .. Fresh /\ 1 .. lastSession \subseteq 1 .. Fresh
        /\ Fresh \notin 0 .. lastSession /\ Fresh \in 0 .. Fresh /\ Fresh \notin 1 .. lastSession
    BY <1>1 DEF Fresh
  <1>3. Fresh \notin NiIds
    BY <1>2 DEF NiApart
  <1> QED
    BY <1>1, <1>2, <1>3 DEF SetInv, CommandsOK

LEMMA StartTrackingKeeps ==
  ASSUME SetInv, NiApart, locAPIStartTracking
  PROVE  SetInv'
  <1> DEFINE c == Command("start", Fresh, "start")
  <1>1. /\ lastSession < MaxSession /\ mTracking = FALSE /\ mTracking' = TRUE /\ lastSession' = Fresh
        /\ requests' = Restart("tracking", Fresh, "start") /\ commands' = Append(commands, c)
        /\ UNCHANGED <<mSessionBiDict, running, found>>
    BY DEF locAPIStartTracking, SetInv
  <1>2. /\ Fresh \in 1 .. MaxSession /\ Fresh \in Nat /\ Fresh >= lastSession /\ lastSession \in Nat
        /\ Fresh \notin NiIds /\ Fresh \notin DictSessions
        /\ Fresh = lastSession + 1 /\ 0 .. lastSession \subseteq 0 .. Fresh /\ 1 .. lastSession \subseteq 1 .. Fresh
        /\ Fresh \in 0 .. Fresh
    BY <1>1, FreshSession
  <1>3. /\ c \in SessionCommand /\ c.op = "start" /\ c.session = Fresh /\ c.request = "start"
    BY <1>2 DEF Command, SessionCommand, SessionOps
  <1>4. /\ requests' \in [QueueKinds -> [session : Nat, reqs : Seq(SessionOps)]]
        /\ requests'["tracking"].session = Fresh /\ requests'["ni"] = requests["ni"]
        /\ requests'["session"] = requests["session"]
    BY <1>1, <1>2 DEF SetInv, Restart, QueueKinds, SessionOps
  <1> HIDE DEF c
  <1>5. DictSessions' = DictSessions /\ Tracked = {} /\ Tracked' = {Fresh}
    BY <1>1, <1>4 DEF DictSessions, Tracked
  <1>6. commands \in Seq(SessionCommand) /\ CommandsOK(commands', running', lastSession')
    <2>1. commands \in Seq(SessionCommand) /\ CommandsOK(commands, running, lastSession) /\ running \subseteq 1 .. lastSession
      BY DEF SetInv, CommandsOK
    <2>2. CommandsOK(Append(commands, c), running, Fresh)
      BY <2>1, <1>2, <1>3, AddedOK
    <2> QED
      BY <1>1, <2>1, <2>2
  <1>7. AskedOnce(commands', requests'["session"].reqs, DictSessions')
    BY <1>1, <1>2, <1>3, <1>4, <1>5, <1>6, AddedApart DEF SetInv
  <1>8. EndedFirst(found', commands', running', DictSessions')
    BY <1>1, <1>2, <1>3, <1>5, <1>6, AddedEnds DEF SetInv
  <1>9. NoneLeft(commands', running', DictSessions' \cup Tracked')
    <2>1. NoneLeft(commands, running, DictSessions)
      BY <1>5 DEF SetInv
    <2>2. NoneLeft(Append(commands, c), running, DictSessions \cup {Fresh})
      BY <2>1, <1>3, <1>6, AddedKept
    <2> QED
      BY <1>1, <1>5, <2>2
  <1>10. /\ lastSession' \in 0 .. MaxSession /\ running' \subseteq 1 .. lastSession' /\ DictSessions' \subseteq 1 .. lastSession'
         /\ requests'["tracking"].session \in (0 .. lastSession') \ DictSessions'
    BY <1>1, <1>2, <1>4, <1>5 DEF SetInv
  <1> QED
    BY <1>1, <1>4, <1>6, <1>7, <1>8, <1>9, <1>10 DEF SetInv

\* A call that starts nothing: its command is the last, of a session with a number.
LEMMA CallKeeps ==
  ASSUME SetInv, NEW c \in SessionCommand, c.op \notin {"start", "remove"},
         c.session \in (0 .. lastSession) \cup NiIds, c.request \in {"start", "stop"} => c.op = c.request,
         commands' = Append(commands, c),
         UNCHANGED <<running, lastSession, found>>, Paired(mSessionBiDict'), DictSessions' = DictSessions,
         requests' \in [QueueKinds -> [session : Nat, reqs : Seq(SessionOps)]],
         requests'["tracking"].session = requests["tracking"].session,
         requests'["ni"].session \in NiIds \cup {0},
         mTracking' \in BOOLEAN,
         mTracking' = mTracking \/ (mTracking' = FALSE /\ StopsIt(c, requests["tracking"].session)),
         \/ c.session \notin DictSessions /\ requests'["session"] = requests["session"]
         \/ /\ requests["session"].reqs = <<>> /\ requests'["session"].reqs = <<c.request>>
  PROVE  SetInv'
  <1>0. commands \in Seq(SessionCommand) /\ lastSession \in Nat
    BY ClientAssumption DEF SetInv, CommandsOK
  <1>1. CommandsOK(commands', running', lastSession')
    <2>1. CommandsOK(commands, running, lastSession) /\ running \subseteq 1 .. lastSession
      BY DEF SetInv
    <2>2. /\ lastSession \in Nat /\ lastSession >= lastSession /\ c.op # "remove"
          /\ c.op = "start" => c.session = lastSession + 1 /\ c.session \notin NiIds
      BY <1>0
    <2> QED
      <3>1. CommandsOK(Append(commands, c), running, lastSession)
        BY <2>1, <2>2, AddedOK, ZenonT(30)
      <3> QED
        BY <3>1
  <1>2. AskedOnce(commands', requests'["session"].reqs, DictSessions')
    <2>1. CASE c.session \notin DictSessions /\ requests'["session"] = requests["session"]
      BY <1>0, <2>1, AddedApart DEF SetInv
    <2>2. CASE requests["session"].reqs = <<>> /\ requests'["session"].reqs = <<c.request>>
      <3>1. \A i \in DOMAIN commands : commands[i].session \notin DictSessions
        BY <2>2 DEF SetInv, AskedOnce
      <3> QED
        BY <1>0, <2>2, <3>1, AddedAlone
    <2> QED
      BY <2>1, <2>2
  <1>3. EndedFirst(found', commands', running', DictSessions')
    BY <1>0, AddedEnds DEF SetInv
  <1>4. \A s \in DictSessions \cup Tracked : s \in DictSessions' \cup Tracked' \/ StopsIt(c, s)
    BY DEF Tracked, SetInv
  <1>5. NoneLeft(commands', running', DictSessions' \cup Tracked')
    BY <1>0, <1>4, AddedKept DEF SetInv
  <1> QED
    BY <1>1, <1>2, <1>3, <1>5 DEF SetInv

LEMMA Pushed ==
  ASSUME NEW q \in QueueKinds, NEW op \in SessionOps, requests' = Push(q, op),
         requests \in [QueueKinds -> [session : Nat, reqs : Seq(SessionOps)]]
  PROVE  /\ requests' \in [QueueKinds -> [session : Nat, reqs : Seq(SessionOps)]]
         /\ requests'[q].reqs = Append(requests[q].reqs, op) /\ requests'[q].session = requests[q].session
         /\ \A x \in QueueKinds : x # q => requests'[x] = requests[x]
  <1> DEFINE r == requests
             t == requests'
             new == Append(r[q].reqs, op)
  <1>1. r[q] \in [session : Nat, reqs : Seq(SessionOps)] /\ new \in Seq(SessionOps)
    OBVIOUS
  <1>2. t = [r EXCEPT ![q].reqs = new]
    BY DEF Push
  <1> HIDE DEF new
  <1>3. t = [r EXCEPT ![q] = [r[q] EXCEPT !.reqs = new]]
    BY <1>1, <1>2
  <1>4. [r[q] EXCEPT !.reqs = new] \in [session : Nat, reqs : Seq(SessionOps)]
    BY <1>1
  <1>5. t \in [QueueKinds -> [session : Nat, reqs : Seq(SessionOps)]]
    BY <1>3, <1>4
  <1>6. t[q] = [r[q] EXCEPT !.reqs = new] /\ \A x \in QueueKinds : x # q => t[x] = r[x]
    BY <1>3
  <1>7. t[q].reqs = new /\ t[q].session = r[q].session
    BY <1>1, <1>6
  <1> QED
    BY <1>5, <1>6, <1>7 DEF new

LEMMA PushedTracking ==
  ASSUME SetInv, NEW op \in SessionOps, requests' = Push("tracking", op)
  PROVE  /\ requests' \in [QueueKinds -> [session : Nat, reqs : Seq(SessionOps)]]
         /\ requests'["tracking"].session = requests["tracking"].session
         /\ requests'["tracking"].reqs = Append(requests["tracking"].reqs, op)
         /\ requests'["ni"] = requests["ni"] /\ requests'["session"] = requests["session"]
  <1>1. "tracking" \in QueueKinds /\ "ni" \in QueueKinds /\ "session" \in QueueKinds
        /\ "ni" # "tracking" /\ "session" # "tracking"
    BY DEF QueueKinds
  <1>2. requests \in [QueueKinds -> [session : Nat, reqs : Seq(SessionOps)]]
    BY DEF SetInv
  <1> QED
    BY <1>1, <1>2, Pushed, Zenon

LEMMA NoneAsked ==
  ASSUME NEW cmds, NEW dict, AskedOnce(cmds, <<>>, dict)
  PROVE  \A i \in DOMAIN cmds : cmds[i].session \notin dict
  BY DEF AskedOnce

LEMMA StopTrackingKeeps ==
  ASSUME SetInv, locAPIStopTracking
  PROVE  SetInv'
  <1> DEFINE s == requests["tracking"].session
             c == Command("stop", s, "stop")
  <1>1. /\ requests' = Push("tracking", "stop")
        /\ commands' = Append(commands, c) /\ mTracking' = FALSE
        /\ UNCHANGED <<mSessionBiDict, running, lastSession, found>>
    BY DEF locAPIStopTracking
  <1>2. s \in 0 .. lastSession /\ s \in Nat /\ s \notin DictSessions
    BY DEF SetInv
  <1>3. /\ c \in SessionCommand /\ c.op = "stop" /\ c.session = s /\ c.request = "stop"
    BY <1>2 DEF Command, SessionCommand, SessionOps
  <1>4. /\ requests' \in [QueueKinds -> [session : Nat, reqs : Seq(SessionOps)]]
        /\ requests'["tracking"].session = s /\ requests'["ni"] = requests["ni"]
        /\ requests'["session"] = requests["session"]
    BY <1>1, PushedTracking DEF SessionOps
  <1>5. DictSessions' = DictSessions /\ Paired(mSessionBiDict') /\ StopsIt(c, s)
    BY <1>1, <1>3 DEF DictSessions, SetInv, StopsIt
  <1>6. requests["ni"].session \in NiIds \cup {0}
    BY DEF SetInv
  <1> HIDE DEF c, s
  <1> QED
    BY <1>1, <1>2, <1>3, <1>4, <1>5, <1>6, CallKeeps DEF s

LEMMA UpdateTrackingKeeps ==
  ASSUME SetInv, locAPIUpdateTrackingOptions
  PROVE  SetInv'
  <1> DEFINE s == requests["tracking"].session
             c == Command("update", s, "update")
  <1>1. /\ requests' = Push("tracking", "update")
        /\ commands' = Append(commands, c)
        /\ UNCHANGED <<mTracking, mSessionBiDict, running, lastSession, found>>
    BY DEF locAPIUpdateTrackingOptions
  <1>2. s \in 0 .. lastSession /\ s \in Nat /\ s \notin DictSessions /\ mTracking \in BOOLEAN
    BY DEF SetInv
  <1>3. /\ c \in SessionCommand /\ c.op = "update" /\ c.session = s /\ c.request = "update"
    BY <1>2 DEF Command, SessionCommand, SessionOps
  <1>4. /\ requests' \in [QueueKinds -> [session : Nat, reqs : Seq(SessionOps)]]
        /\ requests'["tracking"].session = s /\ requests'["ni"] = requests["ni"]
        /\ requests'["session"] = requests["session"]
    BY <1>1, PushedTracking DEF SessionOps
  <1>5. DictSessions' = DictSessions /\ Paired(mSessionBiDict')
    BY <1>1 DEF DictSessions, SetInv
  <1>6. requests["ni"].session \in NiIds \cup {0}
    BY DEF SetInv
  <1> HIDE DEF c, s
  <1> QED
    BY <1>1, <1>2, <1>3, <1>4, <1>5, <1>6, CallKeeps DEF s

LEMMA NiKeeps ==
  ASSUME SetInv, NiApart, NEW ni \in NiIds, locAPIGnssNiResponse(ni)
  PROVE  SetInv'
  <1> DEFINE c == Command("ni", ni, "ni")
  <1>1. /\ requests' = Restart("ni", ni, "ni") /\ commands' = Append(commands, c)
        /\ UNCHANGED <<mTracking, mSessionBiDict, running, lastSession, found>>
    BY DEF locAPIGnssNiResponse
  <1>2. ni \in Nat /\ ni \notin DictSessions /\ mTracking \in BOOLEAN
    <2>1. ni \in Nat \ {0} /\ ni \notin 1 .. MaxSession /\ MaxSession \in Nat /\ lastSession \in 0 .. MaxSession
      BY ClientAssumption DEF NiApart, SetInv
    <2> QED
      BY <2>1 DEF SetInv
  <1>3. /\ c \in SessionCommand /\ c.op = "ni" /\ c.session = ni /\ c.request = "ni"
    BY <1>2 DEF Command, SessionCommand, SessionOps
  <1>4. /\ requests' \in [QueueKinds -> [session : Nat, reqs : Seq(SessionOps)]]
        /\ requests'["tracking"] = requests["tracking"] /\ requests'["ni"].session = ni
        /\ requests'["session"] = requests["session"]
    BY <1>1, <1>2 DEF SetInv, Restart, QueueKinds, SessionOps
  <1>5. DictSessions' = DictSessions /\ Paired(mSessionBiDict')
    BY <1>1 DEF DictSessions, SetInv
  <1> HIDE DEF c
  <1> QED
    BY <1>1, <1>2, <1>3, <1>4, <1>5, CallKeeps

\* A call about a session by its id: the session is in the dictionary, and a careful
\* caller has nothing else under way.
LEMMA CallById ==
  ASSUME SetInv, NEW id, hasId(mSessionBiDict, id), MayAsk, Careful
  PROVE  LET s == getSession(mSessionBiDict, id) IN
         /\ s = mSessionBiDict.forward[id] /\ s \in DictSessions /\ s \in 0 .. lastSession /\ s \in Nat
         /\ found = NoneFound /\ requests["session"].reqs = <<>>
         /\ \A i \in DOMAIN commands : commands[i].session \notin DictSessions
  <1>0. found = NoneFound /\ requests["session"].reqs = <<>>
    BY DEF MayAsk
  <1>1. \A i \in DOMAIN commands : commands[i].session \notin DictSessions
    BY <1>0, NoneAsked DEF SetInv
  <1>2. 1 .. lastSession \subseteq 0 .. lastSession /\ 0 .. lastSession \subseteq Nat
    BY DEF SetInv
  <1> QED
    BY <1>0, <1>1, <1>2 DEF hasId, getSession, Get, SetInv, Paired, DictSessions

\* A request for a session by its id is the only one.
LEMMA PushedAlone ==
  ASSUME SetInv, requests["session"].reqs = <<>>, NEW op \in SessionOps, requests' = Push("session", op)
  PROVE  /\ requests' \in [QueueKinds -> [session : Nat, reqs : Seq(SessionOps)]]
         /\ requests'["tracking"] = requests["tracking"] /\ requests'["ni"] = requests["ni"]
         /\ requests'["session"].reqs = <<op>>
  <1>1. "tracking" \in QueueKinds /\ "ni" \in QueueKinds /\ "session" \in QueueKinds
        /\ "tracking" # "session" /\ "ni" # "session"
    BY DEF QueueKinds
  <1>2. requests \in [QueueKinds -> [session : Nat, reqs : Seq(SessionOps)]]
    BY DEF SetInv
  <1>3. /\ requests' \in [QueueKinds -> [session : Nat, reqs : Seq(SessionOps)]]
        /\ requests'["session"].reqs = Append(requests["session"].reqs, op)
        /\ requests'["tracking"] = requests["tracking"] /\ requests'["ni"] = requests["ni"]
    BY <1>1, <1>2, Pushed, Zenon
  <1> QED
    BY <1>3

LEMMA AskSessionKeeps ==
  ASSUME SetInv, Careful, MayAsk, NEW id, hasId(mSessionBiDict, id), NEW op \in {"stop", "get", "update"},
         requests' = Push("session", op),
         commands' = Append(commands, Command(op, getSession(mSessionBiDict, id), op)),
         UNCHANGED <<mTracking, running, lastSession, found>>,
         Paired(mSessionBiDict'), DictSessions' = DictSessions
  PROVE  SetInv'
  <1> DEFINE s == getSession(mSessionBiDict, id)
             c == Command(op, s, op)
  <1>1. /\ s \in DictSessions /\ s \in 0 .. lastSession /\ s \in Nat /\ requests["session"].reqs = <<>>
    BY CallById
  <1> HIDE DEF s
  <1>2. c \in SessionCommand /\ c.op = op /\ c.session = s /\ c.request = op /\ op \in SessionOps
    BY <1>1 DEF Command, SessionCommand, SessionOps
  <1>3. commands' = Append(commands, c)
    BY DEF s
  <1> HIDE DEF c
  <1>4. /\ requests' \in [QueueKinds -> [session : Nat, reqs : Seq(SessionOps)]]
        /\ requests'["tracking"] = requests["tracking"] /\ requests'["ni"] = requests["ni"]
        /\ requests'["session"].reqs = <<op>>
    BY <1>1, <1>2, PushedAlone
  <1>5. requests["ni"].session \in NiIds \cup {0} /\ mTracking \in BOOLEAN
    BY DEF SetInv
  <1> QED
    BY <1>1, <1>2, <1>3, <1>4, <1>5, CallKeeps

LEMMA StopSessionKeeps ==
  ASSUME SetInv, Careful, NEW id, locAPIStopSession(id) \/ locAPIGetBatchedLocations(id)
  PROVE  SetInv'
  <1>1. Paired(mSessionBiDict') /\ DictSessions' = DictSessions
    BY DEF locAPIStopSession, locAPIGetBatchedLocations, SetInv, DictSessions
  <1>2. CASE locAPIStopSession(id)
    BY <1>1, <1>2, AskSessionKeeps DEF locAPIStopSession
  <1>3. CASE locAPIGetBatchedLocations(id)
    BY <1>1, <1>3, AskSessionKeeps DEF locAPIGetBatchedLocations
  <1> QED
    BY <1>2, <1>3

LEMMA KeepModeKeeps ==
  ASSUME SetInv, Careful, NEW id, NEW mode, locAPIUpdateSessionOptions(id, mode), KeepMode(id, mode)
  PROVE  SetInv'
  <1> DEFINE s == getSession(mSessionBiDict, id)
             r == rmById(mSessionBiDict, id)
  <1>1. /\ MayAsk /\ hasId(mSessionBiDict, id) /\ requests' = Push("session", "update")
        /\ UNCHANGED <<mTracking, running, found>>
    BY DEF locAPIUpdateSessionOptions
  <1>2. /\ commands' = Append(commands, Command("update", s, "update"))
        /\ mSessionBiDict' = biSet(r, id, s, [id |-> id, mode |-> mode]) /\ UNCHANGED lastSession
    BY DEF KeepMode
  <1>3. Paired(mSessionBiDict) /\ id \in DOMAIN mSessionBiDict.forward
    BY <1>1 DEF SetInv, hasId
  <1>4. /\ s \in DOMAIN mSessionBiDict.backward /\ Paired(r)
        /\ DOMAIN r.backward = DOMAIN mSessionBiDict.backward \ {s} /\ id \notin DOMAIN r.forward
    BY <1>3, PairedRmById
  <1> HIDE DEF r
  <1>5. Paired(mSessionBiDict') /\ DOMAIN mSessionBiDict'.backward = DOMAIN r.backward \cup {s}
    BY <1>2, <1>4, PairedSet
  <1>6. DictSessions' = DictSessions
    BY <1>4, <1>5 DEF DictSessions
  <1> QED
    BY <1>1, <1>2, <1>5, <1>6, AskSessionKeeps

LEMMA SwitchModeKeeps ==
  ASSUME SetInv, NiApart, Careful, NEW id, NEW mode, locAPIUpdateSessionOptions(id, mode), SwitchMode(id, mode)
  PROVE  SetInv'
  <1> DEFINE s == getSession(mSessionBiDict, id)
             r == rmById(mSessionBiDict, id)
             a == Command("stop", s, "none")
             c == Command("start", Fresh, "update")
             mid == Append(commands, a)
  <1>1. /\ MayAsk /\ hasId(mSessionBiDict, id) /\ requests' = Push("session", "update")
        /\ UNCHANGED <<mTracking, running, found>>
    BY DEF locAPIUpdateSessionOptions
  <1>2. /\ lastSession < MaxSession /\ lastSession' = Fresh /\ commands' = commands \o <<a, c>>
        /\ mSessionBiDict' = biSet(r, id, Fresh, [id |-> id, mode |-> mode])
    BY DEF SwitchMode
  <1>3. Paired(mSessionBiDict) /\ id \in DOMAIN mSessionBiDict.forward
    BY <1>1 DEF SetInv, hasId
  <1>4. /\ s \in DictSessions /\ s \in 0 .. lastSession /\ s \in Nat
        /\ found = NoneFound /\ requests["session"].reqs = <<>>
        /\ \A i \in DOMAIN commands : commands[i].session \notin DictSessions
    BY <1>1, CallById
  <1>5. /\ Paired(r) /\ DOMAIN r.backward = DictSessions \ {s} /\ id \notin DOMAIN r.forward
    BY <1>3, PairedRmById DEF DictSessions
  <1> HIDE DEF r, s
  <1>6. /\ Fresh \in 1 .. MaxSession /\ Fresh \in Nat /\ Fresh >= lastSession /\ lastSession \in Nat
        /\ Fresh \notin NiIds /\ Fresh \notin DictSessions
        /\ \A i \in DOMAIN commands : commands[i].session # Fresh
        /\ Fresh = lastSession + 1 /\ 0 .. lastSession \subseteq 0 .. Fresh /\ 1 .. lastSession \subseteq 1 .. Fresh
        /\ Fresh \in 0 .. Fresh /\ Fresh \notin 0 .. lastSession
    BY <1>2, FreshSession
  <1>7. Paired(mSessionBiDict') /\ DictSessions' = (DictSessions \ {s}) \cup {Fresh}
    <2>1. Fresh \notin DOMAIN r.backward
      BY <1>5, <1>6
    <2>2. \A e : Paired(biSet(r, id, Fresh, e)) /\ DOMAIN biSet(r, id, Fresh, e).backward = DOMAIN r.backward \cup {Fresh}
      BY <1>5, <2>1, PairedSet
    <2> QED
      BY <1>2, <1>5, <2>2 DEF DictSessions
  <1>8. /\ a \in SessionCommand /\ a.op = "stop" /\ a.session = s /\ a.request = "none"
        /\ c \in SessionCommand /\ c.op = "start" /\ c.session = Fresh /\ c.request = "update"
        /\ "update" \in SessionOps
    BY <1>4, <1>6 DEF Command, SessionCommand, SessionOps
  <1>9. commands \in Seq(SessionCommand)
    BY DEF SetInv, CommandsOK
  <1>10. commands' = Append(mid, c)
    BY <1>2, <1>8, <1>9
  <1> HIDE DEF a, c
  <1>11. /\ mid \in Seq(SessionCommand)
         /\ \A i \in DOMAIN mid : mid[i].session = s \/ \E j \in DOMAIN commands : mid[i] = commands[j]
    BY <1>8, <1>9, CommandLast
  <1>12. CommandsOK(commands', running', lastSession')
    <2>1. CommandsOK(commands, running, lastSession) /\ running \subseteq 1 .. lastSession
      BY DEF SetInv
    <2>2. CommandsOK(mid, running, lastSession)
      <3>1. lastSession \in Nat /\ lastSession >= lastSession /\ s \in (0 .. lastSession) \cup NiIds
        BY <1>4, <1>6
      <3> QED
        BY <1>8, <2>1, <3>1, AddedOK
    <2> HIDE DEF mid
    <2>3. CommandsOK(Append(mid, c), running, Fresh)
      BY <1>6, <1>8, <2>1, <2>2, AddedOK
    <2> QED
      BY <1>1, <1>2, <1>10, <2>3
  <1>13. /\ requests' \in [QueueKinds -> [session : Nat, reqs : Seq(SessionOps)]]
         /\ requests'["tracking"] = requests["tracking"] /\ requests'["ni"] = requests["ni"]
         /\ requests'["session"].reqs = <<"update">>
    BY <1>1, <1>4, <1>8, PushedAlone
  <1>14. NoneLeft(commands', running', DictSessions' \cup Tracked')
    <2>1. NoneLeft(commands, running, DictSessions \cup Tracked)
      BY DEF SetInv
    <2>2. NoneLeft(mid, running, (DictSessions \ {s}) \cup Tracked)
      BY <1>8, <1>9, <2>1, AddedKept DEF StopsIt
    <2> HIDE DEF mid
    <2>3. NoneLeft(Append(mid, c), running, ((DictSessions \ {s}) \cup Tracked) \cup {Fresh})
      BY <1>8, <1>11, <2>2, AddedKept
    <2>4. Tracked' = Tracked
      BY <1>1, <1>13 DEF Tracked
    <2>5. ((DictSessions \ {s}) \cup Tracked) \cup {Fresh} = DictSessions' \cup Tracked'
      BY <1>7, <2>4
    <2> QED
      BY <1>1, <1>10, <2>3, <2>5
  <1>15. AskedOnce(commands', requests'["session"].reqs, DictSessions')
    <2>1. \A i \in DOMAIN mid : mid[i].session \notin DictSessions'
      BY <1>4, <1>6, <1>7, <1>11
    <2> HIDE DEF mid
    <2> QED
      BY <1>8, <1>10, <1>11, <1>13, <2>1, AddedAlone
  <1>16. EndedFirst(found', commands', running', DictSessions')
    BY <1>1, <1>4 DEF EndedFirst, ForgetsOnResponse, NoneFound
  <1>17. /\ lastSession' \in 0 .. MaxSession /\ running' \subseteq 1 .. lastSession' /\ DictSessions' \subseteq 1 .. lastSession'
         /\ requests'["tracking"].session \in (0 .. lastSession') \ DictSessions'
    <2>1. /\ running \subseteq 1 .. lastSession /\ DictSessions \subseteq 1 .. lastSession
          /\ requests["tracking"].session \in (0 .. lastSession) \ DictSessions
      BY DEF SetInv
    <2>2. Fresh \in 0 .. MaxSession /\ Fresh \in 1 .. Fresh
      BY <1>6
    <2> QED
      BY <1>1, <1>2, <1>6, <1>7, <1>13, <2>1, <2>2
  <1>18. /\ mTracking' \in BOOLEAN /\ requests'["ni"].session \in NiIds \cup {0}
         /\ found' \in FoundRequests
    BY <1>1, <1>13 DEF SetInv
  <1> QED
    BY <1>7, <1>12, <1>13, <1>14, <1>15, <1>16, <1>17, <1>18 DEF SetInv

LEMMA StartSessionKeeps ==
  ASSUME SetInv, NiApart, Careful, NEW id, NEW mode, locAPIStartSession(id, mode)
  PROVE  SetInv'
  <1> DEFINE c == Command("start", Fresh, "start")
             d == mSessionBiDict
  <1>1. /\ MayAsk /\ ~hasId(d, id) /\ requests' = Push("session", "start") /\ commands' = Append(commands, c)
        /\ mSessionBiDict' = biSet(d, id, Fresh, [id |-> id, mode |-> mode])
        /\ lastSession < MaxSession /\ lastSession' = Fresh
        /\ UNCHANGED <<mTracking, running, found>>
    BY DEF locAPIStartSession
  <1>2. /\ Fresh \in 1 .. MaxSession /\ Fresh \in Nat /\ Fresh >= lastSession /\ lastSession \in Nat
        /\ Fresh \notin NiIds /\ Fresh \notin DictSessions
        /\ \A i \in DOMAIN commands : commands[i].session # Fresh
        /\ Fresh = lastSession + 1 /\ 0 .. lastSession \subseteq 0 .. Fresh /\ 1 .. lastSession \subseteq 1 .. Fresh
        /\ Fresh \in 0 .. Fresh /\ Fresh \notin 0 .. lastSession
    BY <1>1, FreshSession
  <1>3. found = NoneFound /\ requests["session"].reqs = <<>>
    BY <1>1 DEF MayAsk
  <1>4. Paired(d) /\ id \notin DOMAIN d.forward /\ Fresh \notin DOMAIN d.backward
    BY <1>1, <1>2 DEF SetInv, hasId, DictSessions
  <1>5. Paired(mSessionBiDict') /\ DictSessions' = DictSessions \cup {Fresh}
    BY <1>1, <1>4, PairedSet DEF DictSessions
  <1>6. c \in SessionCommand /\ c.op = "start" /\ c.session = Fresh /\ c.request = "start" /\ "start" \in SessionOps
    BY <1>2 DEF Command, SessionCommand, SessionOps
  <1> HIDE DEF c
  <1>7. /\ requests' \in [QueueKinds -> [session : Nat, reqs : Seq(SessionOps)]]
        /\ requests'["tracking"] = requests["tracking"] /\ requests'["ni"] = requests["ni"]
        /\ requests'["session"].reqs = <<"start">>
    BY <1>1, <1>3, <1>6, PushedAlone
  <1>8. commands \in Seq(SessionCommand) /\ CommandsOK(commands', running', lastSession')
    <2>1. commands \in Seq(SessionCommand) /\ CommandsOK(commands, running, lastSession) /\ running \subseteq 1 .. lastSession
      BY DEF SetInv, CommandsOK
    <2>2. CommandsOK(Append(commands, c), running, Fresh)
      BY <2>1, <1>2, <1>6, AddedOK
    <2> QED
      BY <1>1, <2>1, <2>2
  <1>9. AskedOnce(commands', requests'["session"].reqs, DictSessions')
    <2>1. \A i \in DOMAIN commands : commands[i].session \notin DictSessions
      BY <1>3, NoneAsked DEF SetInv
    <2>2. \A i \in DOMAIN commands : commands[i].session \notin DictSessions'
      BY <1>2, <1>5, <2>1
    <2>3. AskedOnce(Append(commands, c), <<c.request>>, DictSessions')
      BY <1>6, <1>8, <2>2, AddedAlone
    <2> QED
      BY <1>1, <1>6, <1>7, <2>3
  <1>10. NoneLeft(commands', running', DictSessions' \cup Tracked')
    <2>1. NoneLeft(commands, running, DictSessions \cup Tracked) /\ Tracked' = Tracked
      BY <1>1, <1>7 DEF SetInv, Tracked
    <2>2. NoneLeft(Append(commands, c), running, DictSessions' \cup Tracked)
      BY <1>5, <1>6, <1>8, <2>1, AddedKept
    <2> QED
      BY <1>1, <2>1, <2>2
  <1>11. EndedFirst(found', commands', running', DictSessions')
    BY <1>1, <1>3 DEF EndedFirst, ForgetsOnResponse, NoneFound
  <1>12. /\ lastSession' \in 0 .. MaxSession /\ running' \subseteq 1 .. lastSession' /\ DictSessions' \subseteq 1 .. lastSession'
         /\ requests'["tracking"].session \in (0 .. lastSession') \ DictSessions'
    <2>1. /\ running \subseteq 1 .. lastSession /\ DictSessions \subseteq 1 .. lastSession
          /\ requests["tracking"].session \in (0 .. lastSession) \ DictSessions
      BY DEF SetInv
    <2>2. lastSession' \in 0 .. MaxSession
      BY <1>1, <1>2
    <2>3. running' \subseteq 1 .. lastSession'
      BY <1>1, <1>2, <2>1
    <2>4. DictSessions' \subseteq 1 .. lastSession'
      <3>1. Fresh \in 1 .. Fresh
        BY <1>2
      <3> QED
        BY <1>1, <1>2, <1>5, <2>1, <3>1
    <2>5. requests'["tracking"].session \in (0 .. lastSession') \ DictSessions'
      <3>1. requests["tracking"].session # Fresh
        BY <1>2, <2>1
      <3> QED
        BY <1>1, <1>2, <1>5, <1>7, <2>1, <3>1
    <2> QED
      BY <2>2, <2>3, <2>4, <2>5
  <1>13. /\ mTracking' \in BOOLEAN /\ requests'["ni"].session \in NiIds \cup {0}
         /\ found' \in FoundRequests
    BY <1>1, <1>7 DEF SetInv
  <1> QED
    BY <1>5, <1>7, <1>8, <1>9, <1>10, <1>11, <1>12, <1>13 DEF SetInv

\* The request a response is handed to: that of the sessions by id if and only if the
\* command is about one of them.
LEMMA RequestFound ==
  ASSUME SetInv, NiApart, commands # <<>>
  PROVE  LET s == Head(commands).session
             q == getRequestBySession(s)
         IN /\ s \notin DictSessions => q # "session"
            /\ s \in DictSessions => q = "session" /\ requests["session"].reqs = <<Head(commands).request>>
  <1> DEFINE s == Head(commands).session
             q == getRequestBySession(s)
  <1>1. commands[1] = Head(commands) /\ 1 \in DOMAIN commands
    BY CommandFirst DEF SetInv, CommandsOK
  <1>2. ASSUME s \notin DictSessions
        PROVE  q # "session"
    BY <1>2 DEF getRequestBySession, TakesFirst, hasSession, DictSessions
  <1>3. ASSUME s \in DictSessions
        PROVE  q = "session" /\ requests["session"].reqs = <<Head(commands).request>>
    <2>1. requests["session"].reqs = <<Head(commands).request>>
      BY <1>1, <1>3 DEF SetInv, AskedOnce
    <2>2. s # requests["tracking"].session
      BY <1>3 DEF SetInv
    <2>3. s # requests["ni"].session
      <3>1. s \in 1 .. lastSession /\ lastSession \in 0 .. MaxSession /\ MaxSession \in Nat
        BY <1>3, ClientAssumption DEF SetInv
      <3>2. s \in 1 .. MaxSession /\ s # 0
        BY <3>1
      <3> QED
        BY <3>2 DEF SetInv, NiApart
    <2>4. {t \in {"tracking", "ni"} : requests[t].session = s} = {}
      BY <2>2, <2>3
    <2>5. TakesFirst(s) = "none"
      BY <2>4 DEF TakesFirst
    <2> HIDE DEF s
    <2>6. requests["session"].reqs # <<>>
      BY <2>1
    <2> QED
      BY <1>3, <2>1, <2>5, <2>6 DEF getRequestBySession, hasSession, DictSessions, q
  <1> QED
    BY <1>2, <1>3

LEMMA RequestThere ==
  ASSUME NEW s, getRequestBySession(s) # "none"
  PROVE  getRequestBySession(s) \in QueueKinds /\ requests[getRequestBySession(s)].reqs # <<>>
  BY DEF getRequestBySession, TakesFirst, QueueKinds

\* What serving a command does, to the sessions that run and to the queues.
RunsAfter(c, ok) ==
  CASE c.op = "start" /\ ok -> running \cup {c.session}
    [] c.op = "stop" -> running \ {c.session}
    [] c.op = "remove" -> {}
    [] OTHER -> running
LEMMA ServedRuns ==
  ASSUME NEW c, NEW ok \in BOOLEAN
  PROVE  /\ RunsAfter(c, ok) \subseteq running \cup (IF c.op = "start" THEN {c.session} ELSE {})
         /\ c.op = "stop" => c.session \notin RunsAfter(c, ok)
         /\ c.op = "remove" => RunsAfter(c, ok) = {}
         /\ c.op = "start" /\ ~ok => RunsAfter(c, ok) = running
  <1>1. CASE c.op = "start" /\ ok
    BY <1>1 DEF RunsAfter
  <1>2. CASE c.op = "stop"
    BY <1>2 DEF RunsAfter
  <1>3. CASE c.op = "remove"
    BY <1>3 DEF RunsAfter
  <1>4. CASE ~(c.op = "start" /\ ok) /\ c.op # "stop" /\ c.op # "remove"
    <2>1. RunsAfter(c, ok) = running
      BY <1>4 DEF RunsAfter
    <2> QED
      BY <1>4, <2>1
  <1> QED
    BY <1>1, <1>2, <1>3, <1>4

LEMMA RequestTaken ==
  ASSUME NEW r \in [QueueKinds -> [session : Nat, reqs : Seq(SessionOps)]], NEW q \in QueueKinds,
         r[q].reqs # <<>>, NEW t, t = [r EXCEPT ![q].reqs = Tail(@)]
  PROVE  /\ t \in [QueueKinds -> [session : Nat, reqs : Seq(SessionOps)]]
         /\ Head(r[q].reqs) \in SessionOps /\ t[q].reqs = Tail(r[q].reqs)
         /\ \A x \in QueueKinds : t[x].session = r[x].session /\ (x # q => t[x] = r[x])
  <1> DEFINE new == Tail(r[q].reqs)
  <1>1. /\ r[q] \in [session : Nat, reqs : Seq(SessionOps)] /\ new \in Seq(SessionOps)
        /\ Head(r[q].reqs) \in SessionOps
    OBVIOUS
  <1>2. t = [r EXCEPT ![q].reqs = new]
    OBVIOUS
  <1> HIDE DEF new
  <1>3. t = [r EXCEPT ![q] = [r[q] EXCEPT !.reqs = new]]
    BY <1>1, <1>2
  <1>4. [r[q] EXCEPT !.reqs = new] \in [session : Nat, reqs : Seq(SessionOps)]
    BY <1>1
  <1> QED
    BY <1>1, <1>3, <1>4 DEF new

\* A step of the adapters: the command, whether it succeeds, and where its request is.
LEMMA ServeAnswersStep ==
  ASSUME AnswerTypes, Serve
  PROVE  LET c == Head(commands)
             q == getRequestBySession(c.session)
         IN /\ commands # <<>> /\ commands' = Tail(commands) /\ found = NoneFound /\ c \in SessionCommand
            /\ UNCHANGED <<mLocationAPI, mTracking, mSessionBiDict, lastSession>>
            /\ requests' \in [QueueKinds -> [session : Nat, reqs : Seq(SessionOps)]]
            /\ \A x \in QueueKinds :
                 requests'[x].session = requests[x].session /\ (x # q => requests'[x] = requests[x])
            /\ \E ok \in BOOLEAN :
                 /\ running' = RunsAfter(c, ok)
                 /\ IF q = "none" THEN found' = NoneFound
                    ELSE /\ q \in QueueKinds /\ requests[q].reqs # <<>>
                         /\ found' = [queue |-> q, request |-> Head(requests[q].reqs), answers |-> c.request,
                                      session |-> c.session, ok |-> ok]
                         /\ Head(requests[q].reqs) \in SessionOps /\ requests'[q].reqs = Tail(requests[q].reqs)
  <1> DEFINE c == Head(commands)
             q == getRequestBySession(c.session)
  <1>1. /\ commands # <<>> /\ commands' = Tail(commands) /\ found = NoneFound
        /\ UNCHANGED <<mLocationAPI, mTracking, mSessionBiDict, lastSession>>
    BY DEF Serve
  <1>2. PICK ok \in BOOLEAN :
          /\ running' = RunsAfter(c, ok)
          /\ IF q = "none" THEN UNCHANGED <<requests, found>>
             ELSE /\ requests' = [requests EXCEPT ![q].reqs = Tail(@)]
                  /\ found' = [queue |-> q, request |-> Head(requests[q].reqs), answers |-> c.request,
                               session |-> c.session, ok |-> ok]
    BY Zenon DEF Serve, RunsAfter
  <1>3. /\ commands \in Seq(SessionCommand)
        /\ requests \in [QueueKinds -> [session : Nat, reqs : Seq(SessionOps)]]
    BY DEF AnswerTypes
  <1>4. c \in SessionCommand
    BY <1>1, <1>3
  <1> HIDE DEF c
  <1>5. CASE q = "none"
    BY <1>1, <1>2, <1>3, <1>4, <1>5 DEF c
  <1>6. CASE q # "none"
    <2>1. q \in QueueKinds /\ requests[q].reqs # <<>>
      BY <1>6, RequestThere
    <2> HIDE DEF q
    <2>2. requests' = [requests EXCEPT ![q].reqs = Tail(@)]
      BY <1>2, <1>6
    <2>3. /\ requests' \in [QueueKinds -> [session : Nat, reqs : Seq(SessionOps)]]
          /\ Head(requests[q].reqs) \in SessionOps /\ requests'[q].reqs = Tail(requests[q].reqs)
          /\ \A x \in QueueKinds :
               requests'[x].session = requests[x].session /\ (x # q => requests'[x] = requests[x])
      <3>1. \A t : t = [requests EXCEPT ![q].reqs = Tail(@)] =>
              /\ t \in [QueueKinds -> [session : Nat, reqs : Seq(SessionOps)]]
              /\ Head(requests[q].reqs) \in SessionOps /\ t[q].reqs = Tail(requests[q].reqs)
              /\ \A x \in QueueKinds : t[x].session = requests[x].session /\ (x # q => t[x] = requests[x])
        BY <1>3, <2>1, RequestTaken
      <3> QED
        BY <2>2, <3>1
    <2> QED
      BY <1>1, <1>2, <1>4, <1>6, <2>1, <2>3 DEF c, q
  <1> QED
    BY <1>5, <1>6

LEMMA NoneFoundType == NoneFound \in FoundRequests
  <1>1. "none" \in SessionOps /\ TRUE \in BOOLEAN
    BY DEF SessionOps
  <1> QED
    BY <1>1 DEF NoneFound, FoundRequests

LEMMA ServeLife ==
  ASSUME SessionsInv, Serve
  PROVE  /\ SessionTypes' /\ SessionsNumbered' /\ Paired(mSessionBiDict')
         /\ CommandsTrue(commands', running') /\ LifeInv'
  <1> DEFINE c == Head(commands)
  <1>0. AnswerTypes
    BY DEF SessionsInv, SessionTypes, AnswerTypes
  <1>1. /\ commands # <<>> /\ commands' = Tail(commands) /\ c \in SessionCommand
        /\ UNCHANGED <<mLocationAPI, mTracking, mSessionBiDict, lastSession>>
        /\ requests' \in [QueueKinds -> [session : Nat, reqs : Seq(SessionOps)]]
        /\ \A x \in QueueKinds : requests'[x].session = requests[x].session
    BY <1>0, ServeAnswersStep
  <1>2. PICK ok \in BOOLEAN :
          /\ running' = RunsAfter(c, ok)
          /\ \/ found' = NoneFound
             \/ \E q \in QueueKinds, op \in SessionOps :
                  found' = [queue |-> q, request |-> op, answers |-> c.request, session |-> c.session, ok |-> ok]
    BY <1>0, ServeAnswersStep
  <1>3. /\ running' \subseteq running \cup (IF c.op = "start" THEN {c.session} ELSE {})
        /\ c.op = "remove" => running' = {}
    BY <1>2, ServedRuns
  <1>4. commands \in Seq(SessionCommand)
    BY DEF SessionsInv, SessionTypes
  <1>5. /\ commands[1] = c /\ 1 \in DOMAIN commands /\ commands' \in Seq(SessionCommand)
        /\ \A i \in DOMAIN commands' : i + 1 \in DOMAIN commands /\ commands'[i] = commands[i + 1]
    BY <1>1, <1>4, CommandFirst
  <1> HIDE DEF c
  <1>6. CommandsTrue(commands', running')
    <2>1. CommandsTrue(commands, running)
      BY DEF SessionsInv
    <2>2. running' \subseteq running \cup (IF Head(commands).op = "start" THEN {Head(commands).session} ELSE {})
      BY <1>3 DEF c
    <2>3. \A left : left \subseteq running \cup (IF Head(commands).op = "start" THEN {Head(commands).session} ELSE {})
                     => CommandsTrue(Tail(commands), left)
      BY <1>1, <1>4, <2>1, ServedTrue
    <2> QED
      BY <1>1, <2>2, <2>3
  <1>7. found' \in FoundRequests
    <2>1. c.request \in SessionOps /\ c.session \in Nat
      BY <1>1 DEF SessionCommand
    <2>2. CASE found' = NoneFound
      BY <2>2, NoneFoundType
    <2>3. ASSUME NEW q \in QueueKinds, NEW op \in SessionOps,
                 found' = [queue |-> q, request |-> op, answers |-> c.request, session |-> c.session, ok |-> ok]
          PROVE  found' \in FoundRequests
      BY <2>1, <2>3 DEF FoundRequests
    <2> QED
      BY <1>2, <2>2, <2>3
  <1>8. SessionTypes'
    <2>1. mLocationAPI \in {"unset", "set", "gone"} /\ mTracking \in BOOLEAN /\ lastSession \in 0 .. MaxSession
      BY DEF SessionsInv, SessionTypes
    <2> QED
      BY <1>1, <1>5, <1>7, <2>1 DEF SessionTypes
  <1>9. SessionsNumbered'
    <2>1. c.op = "start" => c.session \in 1 .. lastSession
      BY <1>5 DEF SessionsInv, SessionsNumbered
    <2>2. running' \subseteq 1 .. lastSession'
      BY <1>1, <1>3, <2>1 DEF SessionsInv, SessionsNumbered
    <2>3. DictSessions' = DictSessions
      BY <1>1 DEF DictSessions
    <2>4. /\ requests'["tracking"].session = requests["tracking"].session
          /\ requests'["ni"].session = requests["ni"].session
      BY <1>1 DEF QueueKinds
    <2> QED
      BY <1>1, <1>5, <2>2, <2>3, <2>4 DEF SessionsInv, SessionsNumbered
  <1>10. LifeInv'
    <2>1. mLocationAPI # "unset"
      BY <1>1 DEF SessionsInv, LifeInv
    <2>2. mLocationAPI # "gone" => \A i \in DOMAIN commands' : commands'[i].op # "remove"
      BY <1>5 DEF SessionsInv, LifeInv
    <2>3. mLocationAPI = "gone" => commands[Len(commands)].op = "remove"
      BY <1>1 DEF SessionsInv, LifeInv
    <2>4. IF commands' = <<>> THEN commands[Len(commands)] = c ELSE commands'[Len(commands')] = commands[Len(commands)]
      BY <1>1, <1>4, CommandLeft DEF c
    <2> QED
      BY <1>1, <1>3, <2>1, <2>2, <2>3, <2>4 DEF LifeInv
  <1> QED
    BY <1>1, <1>6, <1>8, <1>9, <1>10 DEF SessionsInv

LEMMA ServeKeeps ==
  ASSUME SessionsInv, NiApart, Serve
  PROVE  SessionsInv'
  <1> SUFFICES ASSUME mLocationAPI' # "gone"
               PROVE  /\ AskedOnce(commands', requests'["session"].reqs, DictSessions')
                      /\ EndedFirst(found', commands', running', DictSessions')
                      /\ NoneLeft(commands', running', DictSessions' \cup Tracked')
    BY ServeLife DEF SessionsInv
  <1> DEFINE c == Head(commands)
             q == getRequestBySession(c.session)
  <1>0. AnswerTypes
    BY DEF SessionsInv, SessionTypes, AnswerTypes
  <1>1. /\ commands # <<>> /\ commands' = Tail(commands) /\ found = NoneFound /\ c \in SessionCommand
        /\ UNCHANGED <<mLocationAPI, mTracking, mSessionBiDict, lastSession>>
        /\ \A x \in QueueKinds :
             requests'[x].session = requests[x].session /\ (x # q => requests'[x] = requests[x])
    BY <1>0, ServeAnswersStep
  <1>2. PICK ok \in BOOLEAN :
          /\ running' = RunsAfter(c, ok)
          /\ IF q = "none" THEN found' = NoneFound
             ELSE found' = [queue |-> q, request |-> Head(requests[q].reqs), answers |-> c.request,
                            session |-> c.session, ok |-> ok]
    BY <1>0, ServeAnswersStep
  <1>3. SetInv
    <2>1. mLocationAPI = "set"
      BY <1>1 DEF SessionsInv, SessionTypes, LifeInv
    <2> QED
      BY <2>1, WhileSet
  <1>4. /\ c.session \notin DictSessions => q # "session"
        /\ c.session \in DictSessions => q = "session" /\ requests["session"].reqs = <<c.request>>
    BY <1>1, <1>3, RequestFound
  <1>5. commands \in Seq(SessionCommand) /\ CommandsTrue(commands, running)
    BY <1>3 DEF SetInv, CommandsOK
  <1>6. /\ running' \subseteq running \cup (IF c.op = "start" THEN {c.session} ELSE {})
        /\ c.op = "stop" => c.session \notin running'
        /\ c.op = "start" /\ ~ok => running' = running
    BY <1>2, ServedRuns
  <1>7. /\ c.request \in {"start", "stop"} => c.op = c.request
        /\ \A i \in DOMAIN commands' : commands'[i].op = "start" => commands'[i].session # c.session
        /\ c.op = "start" => c.session \notin running
    BY <1>1, <1>5, <1>6, ServedTrue
  <1> HIDE DEF q
  <1>8. DictSessions' = DictSessions /\ Tracked' = Tracked
    BY <1>1 DEF DictSessions, Tracked, QueueKinds
  <1>9. AskedOnce(commands', requests'["session"].reqs, DictSessions')
    <2>1. AskedOnce(commands, requests["session"].reqs, DictSessions)
      BY <1>3 DEF SetInv
    <2>2. c.session \notin DictSessions => requests'["session"].reqs = requests["session"].reqs
      BY <1>1, <1>4 DEF QueueKinds
    <2> QED
      BY <1>1, <1>5, <1>8, <2>1, <2>2, ServedApart
  <1>10. NoneLeft(commands', running', DictSessions' \cup Tracked')
    <2>1. NoneLeft(commands, running, DictSessions \cup Tracked)
      BY <1>3 DEF SetInv
    <2> QED
      BY <1>1, <1>5, <1>6, <1>8, <2>1, ServedKept
  <1> HIDE DEF c
  <1>11. EndedFirst(found', commands', running', DictSessions')
    <2> SUFFICES ASSUME ForgetsOnResponse(found'), found'.session \in DictSessions
                 PROVE  /\ found'.session \notin running'
                        /\ \A i \in DOMAIN commands' : commands'[i].op = "start" => commands'[i].session # found'.session
      BY <1>8 DEF EndedFirst
    <2>1. q # "none"
      BY <1>2 DEF ForgetsOnResponse, NoneFound
    <2>2. found'.session = c.session /\ found'.request = Head(requests[q].reqs) /\ found'.ok = ok
      BY <1>2, <2>1
    <2>3. found'.request = c.request
      BY <1>4, <2>2
    <2>4. (c.op = "start" /\ ~ok) \/ c.op = "stop"
      BY <1>7, <2>2, <2>3 DEF ForgetsOnResponse
    <2> QED
      BY <1>6, <1>7, <2>2, <2>4
  <1> QED
    BY <1>9, <1>10, <1>11

\* Sessions that have ended, and will not start, may be forgotten.
LEMMA ForgottenKept ==
  ASSUME NEW cmds, NEW run, NEW kept, NoneLeft(cmds, run, kept), NEW left, left \subseteq run, NEW then,
         \A s \in kept : s \in then \/ (s \notin left /\ \A i \in DOMAIN cmds : cmds[i].op = "start" => cmds[i].session # s)
  PROVE  NoneLeft(cmds, left, then)
  BY DEF NoneLeft

\* The adapters, or a response, end sessions and forget some of them.
LEMMA EndKeeps ==
  ASSUME SessionsInv, NEW S, S \subseteq DictSessions, S \cap running' = {}, running' \subseteq running,
         Paired(mSessionBiDict'), DictSessions' = DictSessions \ S, found' = found \/ found' = NoneFound,
         mLocationAPI # "unset",
         mLocationAPI # "gone" =>
           \A s \in S : \A i \in DOMAIN commands : commands[i].op = "start" => commands[i].session # s,
         UNCHANGED <<mLocationAPI, requests, mTracking, commands, lastSession>>
  PROVE  SessionsInv'
  <1>1. SessionTypes'
    <2>1. found' \in FoundRequests
      BY NoneFoundType DEF SessionsInv, SessionTypes
    <2> QED
      BY <2>1 DEF SessionsInv, SessionTypes
  <1>2. SessionsNumbered'
    BY DEF SessionsInv, SessionsNumbered
  <1>3. CommandsTrue(commands', running')
    BY DEF SessionsInv, CommandsTrue
  <1>4. LifeInv'
    BY DEF SessionsInv, LifeInv
  <1>5. ASSUME mLocationAPI # "gone"
        PROVE  /\ AskedOnce(commands', requests'["session"].reqs, DictSessions')
               /\ EndedFirst(found', commands', running', DictSessions')
               /\ NoneLeft(commands', running', DictSessions' \cup Tracked')
    <2>1. /\ AskedOnce(commands, requests["session"].reqs, DictSessions)
          /\ EndedFirst(found, commands, running, DictSessions)
          /\ NoneLeft(commands, running, DictSessions \cup Tracked)
      BY <1>5 DEF SessionsInv
    <2>2. AskedOnce(commands, requests["session"].reqs, DictSessions \ S)
      BY <2>1 DEF AskedOnce
    <2>3. EndedFirst(found', commands, running', DictSessions')
      BY <2>1 DEF EndedFirst, ForgetsOnResponse, NoneFound
    <2>4. NoneLeft(commands, running', (DictSessions \ S) \cup Tracked)
      <3>1. \A s \in DictSessions \cup Tracked :
              \/ s \in (DictSessions \ S) \cup Tracked
              \/ s \notin running' /\ \A i \in DOMAIN commands : commands[i].op = "start" => commands[i].session # s
        BY <1>5
      <3> QED
        BY <2>1, <3>1, ForgottenKept
    <2>5. Tracked' = Tracked
      BY DEF Tracked
    <2> QED
      BY <2>2, <2>3, <2>4, <2>5
  <1> QED
    BY <1>1, <1>2, <1>3, <1>4, <1>5 DEF SessionsInv

LEMMA ResponseKeeps ==
  ASSUME SessionsInv, onResponse
  PROVE  SessionsInv'
  <1> DEFINE forget == ForgetsOnResponse(found) /\ hasSession(mSessionBiDict, found.session)
             S == IF forget THEN {found.session} ELSE {}
  <1>1. /\ found # NoneFound /\ found' = NoneFound
        /\ mSessionBiDict' = IF forget THEN rmBySession(mSessionBiDict, found.session) ELSE mSessionBiDict
        /\ UNCHANGED <<mLocationAPI, requests, mTracking, commands, running, lastSession>>
    BY DEF onResponse
  <1>2. mLocationAPI # "unset"
    BY <1>1 DEF SessionsInv, LifeInv
  <1>3. /\ S \subseteq DictSessions /\ Paired(mSessionBiDict') /\ DictSessions' = DictSessions \ S
    <2>1. CASE forget
      BY <1>1, <2>1, PairedRm DEF SessionsInv, hasSession, DictSessions
    <2>2. CASE ~forget
      BY <1>1, <2>2 DEF SessionsInv, DictSessions
    <2> QED
      BY <2>1, <2>2
  <1>4. CASE mLocationAPI # "gone"
    <2>1. S \cap running = {} /\ \A s \in S : \A i \in DOMAIN commands : commands[i].op = "start" => commands[i].session # s
      BY <1>4 DEF SessionsInv, EndedFirst, hasSession, DictSessions
    <2> HIDE DEF S
    <2> QED
      BY <1>1, <1>2, <1>3, <2>1, EndKeeps
  <1>5. CASE mLocationAPI = "gone"
    <2>1. SessionTypes'
      BY <1>1, NoneFoundType DEF SessionsInv, SessionTypes
    <2>2. SessionsNumbered'
      BY <1>1, <1>3 DEF SessionsInv, SessionsNumbered
    <2>3. CommandsTrue(commands', running') /\ LifeInv'
      BY <1>1, <1>5 DEF SessionsInv, LifeInv
    <2> QED
      BY <1>1, <1>3, <1>5, <2>1, <2>2, <2>3 DEF SessionsInv
  <1> QED
    BY <1>4, <1>5

LEMMA TripsKeep ==
  ASSUME SessionsInv, beforeBatchingStatusCb
  PROVE  SessionsInv'
  <1>1. PICK trips \in (SUBSET running) \ {{}} :
          /\ \A s \in trips : hasSession(mSessionBiDict, s)
          /\ running' = running \ trips /\ mSessionBiDict' = rmSessions(mSessionBiDict, trips)
    BY DEF beforeBatchingStatusCb
  <1>2. UNCHANGED <<mLocationAPI, requests, mTracking, commands, lastSession, found>>
    BY DEF beforeBatchingStatusCb
  <1>3. mLocationAPI # "unset"
    BY <1>1 DEF SessionsInv, LifeInv
  <1>4. trips \subseteq DictSessions /\ Paired(mSessionBiDict') /\ DictSessions' = DictSessions \ trips
    BY <1>1, PairedRmAll DEF SessionsInv, hasSession, DictSessions
  <1>5. \A s \in trips : \A i \in DOMAIN commands : commands[i].op = "start" => commands[i].session # s
    BY <1>1 DEF SessionsInv, CommandsTrue
  <1> QED
    BY <1>1, <1>2, <1>3, <1>4, <1>5, EndKeeps

LEMMA DestroyKeeps ==
  ASSUME SessionsInv, destroyClient
  PROVE  SessionsInv'
  <1> DEFINE c == Command("remove", 0, "none")
  <1>1. /\ mLocationAPI' = "gone" /\ commands' = Append(commands, c)
        /\ requests' = [q \in QueueKinds |-> [session |-> 0, reqs |-> <<>>]]
        /\ UNCHANGED <<mTracking, mSessionBiDict, running, lastSession, found>>
    BY DEF destroyClient
  <1>2. c \in SessionCommand /\ c.op = "remove" /\ c.session = 0 /\ c.request = "none"
    BY DEF Command, SessionCommand, SessionOps
  <1>3. commands \in Seq(SessionCommand) /\ CommandsTrue(commands, running)
    BY DEF SessionsInv, SessionTypes
  <1> HIDE DEF c
  <1>4. CommandsTrue(commands', running')
    BY <1>1, <1>2, <1>3, AddedTrue
  <1>5. /\ commands' \in Seq(SessionCommand) /\ commands' # <<>> /\ commands'[Len(commands')] = c
        /\ DOMAIN commands' = DOMAIN commands \cup {Len(commands')}
        /\ \A i \in DOMAIN commands : commands'[i] = commands[i]
    BY <1>1, <1>2, <1>3, CommandLast
  <1>6. /\ requests' \in [QueueKinds -> [session : Nat, reqs : Seq(SessionOps)]]
        /\ requests'["tracking"].session = 0 /\ requests'["ni"].session = 0
    BY <1>1 DEF QueueKinds
  <1>7. SessionTypes'
    BY <1>1, <1>5, <1>6 DEF SessionsInv, SessionTypes
  <1>8. SessionsNumbered'
    <2>1. lastSession \in Nat /\ 0 \in 0 .. lastSession /\ 0 \notin 1 .. lastSession
      BY ClientAssumption DEF SessionsInv, SessionTypes
    <2>2. DictSessions' = DictSessions
      BY <1>1 DEF DictSessions
    <2> QED
      BY <1>1, <1>2, <1>5, <1>6, <2>1, <2>2 DEF SessionsInv, SessionsNumbered
  <1>9. LifeInv'
    BY <1>1, <1>2, <1>5 DEF LifeInv
  <1> QED
    BY <1>1, <1>4, <1>7, <1>8, <1>9 DEF SessionsInv

LEMMA CallsKeep ==
  ASSUME SessionsInv, NiApart, Careful, mLocationAPI = "set",
         \/ locAPIStartTracking \/ locAPIStopTracking \/ locAPIUpdateTrackingOptions
         \/ \E id \in Ids, mode \in {"fix", "batch", "trip"} :
              locAPIStartSession(id, mode) \/ locAPIUpdateSessionOptions(id, mode)
         \/ \E id \in Ids : locAPIStopSession(id) \/ locAPIGetBatchedLocations(id)
         \/ \E ni \in NiIds : locAPIGnssNiResponse(ni)
  PROVE  SetInv'
  <1>0. SetInv
    BY WhileSet
  <1>1. CASE locAPIStartTracking
    BY <1>0, <1>1, StartTrackingKeeps
  <1>2. CASE locAPIStopTracking
    BY <1>0, <1>2, StopTrackingKeeps
  <1>3. CASE locAPIUpdateTrackingOptions
    BY <1>0, <1>3, UpdateTrackingKeeps
  <1>4. ASSUME NEW id \in Ids, NEW mode \in {"fix", "batch", "trip"}, locAPIStartSession(id, mode)
        PROVE  SetInv'
    BY <1>0, <1>4, StartSessionKeeps
  <1>5. ASSUME NEW id \in Ids, NEW mode \in {"fix", "batch", "trip"}, locAPIUpdateSessionOptions(id, mode)
        PROVE  SetInv'
    <2>1. KeepMode(id, mode) \/ SwitchMode(id, mode)
      BY <1>5 DEF locAPIUpdateSessionOptions
    <2> QED
      BY <1>0, <1>5, <2>1, KeepModeKeeps, SwitchModeKeeps
  <1>6. ASSUME NEW id \in Ids, locAPIStopSession(id) \/ locAPIGetBatchedLocations(id)
        PROVE  SetInv'
    BY <1>0, <1>6, StopSessionKeeps
  <1>7. ASSUME NEW ni \in NiIds, locAPIGnssNiResponse(ni)
        PROVE  SetInv'
    BY <1>0, <1>7, NiKeeps
  <1> QED
    BY <1>1, <1>2, <1>3, <1>4, <1>5, <1>6, <1>7

LEMMA CallsWhileSet ==
  ASSUME \/ locAPIStartTracking \/ locAPIStopTracking \/ locAPIUpdateTrackingOptions
         \/ \E id \in Ids, mode \in {"fix", "batch", "trip"} :
              locAPIStartSession(id, mode) \/ locAPIUpdateSessionOptions(id, mode)
         \/ \E id \in Ids : locAPIStopSession(id) \/ locAPIGetBatchedLocations(id)
         \/ \E ni \in NiIds : locAPIGnssNiResponse(ni)
  PROVE  mLocationAPI = "set" /\ UNCHANGED mLocationAPI
  BY DEF locAPIStartTracking, locAPIStopTracking, locAPIUpdateTrackingOptions, locAPIStartSession,
     locAPIUpdateSessionOptions, locAPIStopSession, locAPIGetBatchedLocations, locAPIGnssNiResponse, CanCall

LEMMA SessionsStep ==
  ASSUME SessionsInv, NiApart, Careful, [ClientNext]_clientVars
  PROVE  SessionsInv'
  <1>1. CASE UNCHANGED <<mLocationAPI, sessionVars>>
    BY <1>1 DEF sessionVars, SessionsInv, SessionTypes, SessionsNumbered, LifeInv, DictSessions, Tracked
  <1>2. CASE locAPISetCallbacks
    BY <1>2 DEF locAPISetCallbacks, sessionVars, SessionsInv, SessionTypes, SessionsNumbered, LifeInv,
       DictSessions, Tracked
  <1>3. CASE destroyClient
    BY <1>3, DestroyKeeps
  <1>4. CASE SessionsNext
    <2>1. CASE Serve \/ onResponse \/ beforeBatchingStatusCb
      BY <2>1, ServeKeeps, ResponseKeeps, TripsKeep
    <2>2. CASE ~(Serve \/ onResponse \/ beforeBatchingStatusCb)
      <3>1. \/ locAPIStartTracking \/ locAPIStopTracking \/ locAPIUpdateTrackingOptions
            \/ \E id \in Ids, mode \in {"fix", "batch", "trip"} :
                 locAPIStartSession(id, mode) \/ locAPIUpdateSessionOptions(id, mode)
            \/ \E id \in Ids : locAPIStopSession(id) \/ locAPIGetBatchedLocations(id)
            \/ \E ni \in NiIds : locAPIGnssNiResponse(ni)
        BY <1>4, <2>2, Zenon DEF SessionsNext
      <3>2. mLocationAPI = "set" /\ mLocationAPI' = "set"
        BY <3>1, CallsWhileSet, Zenon
      <3>3. SetInv'
        BY <3>1, <3>2, CallsKeep, Zenon
      <3>4. SessionsInv' <=> SetInv'
        BY <3>2 DEF SessionsInv, SetInv, SessionTypes, SessionsNumbered, LifeInv, CommandsOK
      <3> QED
        BY <3>3, <3>4
    <2> QED
      BY <2>1, <2>2
  <1> QED
    BY <1>1, <1>2, <1>3, <1>4 DEF ClientNext, LifeNext, clientVars

LEMMA SessionsInit ==
  ASSUME ClientInit
  PROVE  SessionsInv
  <1>1. /\ mLocationAPI = "unset" /\ mTracking = FALSE /\ mSessionBiDict = BiEmpty /\ commands = <<>>
        /\ requests = [q \in QueueKinds |-> [session |-> 0, reqs |-> <<>>]]
        /\ running = {} /\ lastSession = 0 /\ found = NoneFound
    BY DEF ClientInit, FenceClientInit
  <1>2. DictSessions = {} /\ Paired(mSessionBiDict)
    BY <1>1 DEF BiEmpty, Paired, DictSessions
  <1>3. requests \in [QueueKinds -> [session : Nat, reqs : Seq(SessionOps)]] /\ requests["tracking"].session = 0
        /\ requests["ni"].session = 0
    BY <1>1 DEF QueueKinds
  <1>4. SessionTypes
    <2>1. 0 \in 0 .. MaxSession
      BY ClientAssumption
    <2>2. commands \in Seq(SessionCommand)
      BY <1>1
    <2> QED
      BY <1>1, <1>3, <2>1, <2>2, NoneFoundType DEF SessionTypes
  <1>5. SessionsNumbered
    BY <1>1, <1>2, <1>3 DEF SessionsNumbered
  <1>6. EndedFirst(found, commands, running, DictSessions) /\ NoneLeft(commands, running, DictSessions \cup Tracked)
    BY <1>1, <1>2 DEF EndedFirst, NoneLeft
  <1> QED
    BY <1>1, <1>2, <1>4, <1>5, <1>6 DEF SessionsInv, CommandsTrue, LifeInv, AskedOnce

\* No session runs that the client could not stop, for any calls of a client that waits
\* for the answers about its sessions by id, whatever the adapters refuse, if the numbers
\* of network requests are none of a session (LocationAPIClientBase.cpp:479, :543, :946).
THEOREM NoneOrphaned == Careful /\ NiApart => (ClientSpec => []NoOrphan)
  <1> SUFFICES ASSUME Careful, NiApart
               PROVE  ClientSpec => []NoOrphan
    OBVIOUS
  <1>1. SessionsInv => NoOrphan
    <2> SUFFICES ASSUME SessionsInv, NEW s \in running
                 PROVE  \/ mTracking /\ requests["tracking"].session = s
                        \/ hasSession(mSessionBiDict, s) /\ getSession(mSessionBiDict, getId(mSessionBiDict, s)) = s
                        \/ \E i \in DOMAIN commands : commands[i].op = "remove" \/
                             (commands[i].op = "stop" /\ commands[i].session = s)
      BY DEF NoOrphan
    <2>1. CASE mLocationAPI = "gone"
      <3>1. commands # <<>> /\ commands[Len(commands)].op = "remove"
        BY <2>1 DEF SessionsInv, LifeInv
      <3>2. Len(commands) \in DOMAIN commands
        BY <3>1 DEF SessionsInv, SessionTypes
      <3> QED
        BY <3>1, <3>2
    <2>2. CASE mLocationAPI # "gone"
      <3>1. s \in DictSessions \/ s \in Tracked \/ \E j \in DOMAIN commands : StopsIt(commands[j], s)
        BY <2>2 DEF SessionsInv, NoneLeft
      <3>2. s \in DictSessions =>
              hasSession(mSessionBiDict, s) /\ getSession(mSessionBiDict, getId(mSessionBiDict, s)) = s
        BY DEF SessionsInv, Paired, hasSession, getSession, getId, Get, DictSessions
      <3> QED
        BY <3>1, <3>2 DEF Tracked, StopsIt
    <2> QED
      BY <2>1, <2>2
  <1>2. ClientInit => SessionsInv
    BY SessionsInit
  <1>3. SessionsInv /\ [ClientNext]_clientVars => SessionsInv'
    BY SessionsStep
  <1> QED
    BY <1>1, <1>2, <1>3, PTL DEF ClientSpec

-----------------------------------------------------------------------------
(* The client's answers.                                                   *)

\* The requests of a queue are, in order, those of the commands at the places mine.
InOrder(cmds, mine, reqs) ==
  \E p \in [1 .. Len(reqs) -> mine] :
    /\ \A j, k \in 1 .. Len(reqs) : j < k => p[j] < p[k]
    /\ \A i \in mine : \E k \in 1 .. Len(reqs) : p[k] = i
    /\ \A k \in 1 .. Len(reqs) : cmds[p[k]].request = reqs[k]

\* The tracking queue is in the order of the commands of its session, unless network
\* requests have that number too; a command is of a session with a number given out, or
\* answers a network request; and no session by id is the one tracked.
OfSession(cmds, s) == {i \in DOMAIN cmds : cmds[i].session = s}
TrackingInOrder(cmds, queue) ==
  IF queue.session = 0 THEN queue.reqs = <<>>
  ELSE InOrder(cmds, OfSession(cmds, queue.session), queue.reqs)
TrackedInTurn(cmds, queue) == queue.session \notin NiIds => TrackingInOrder(cmds, queue)
AnswersNi(c) == c.session \in NiIds /\ c.request = "ni"
CommandsBelow(cmds, last) == \A i \in DOMAIN cmds : cmds[i].session <= last \/ AnswersNi(cmds[i])
ApartFrom(d, last, s) == \A id \in DOMAIN d.forward : d.forward[id] \in (1 .. last) \ {s}
TrackedInv ==
  /\ AnswerTypes /\ lastSession \in Nat /\ CommandsBelow(commands, lastSession)
  /\ requests["tracking"].session \in 0 .. lastSession
  /\ requests["ni"].reqs \in {<<>>, <<"ni">>}
  /\ ApartFrom(mSessionBiDict, lastSession, requests["tracking"].session)
  /\ TrackedInTurn(commands, requests["tracking"])
  /\ TrackingAnswersMatch

\* The control client's two queues of single ids are in the order of the commands
\* with their id; no queue has an array.
CtrlOps == {"delete", "enable", "disable", "update", "get"}
OneCommand == [kind : {"one", "array"}, id : Nat, request : CtrlOps]
OfId(cmds, id) == {i \in DOMAIN cmds : cmds[i].kind = "one" /\ cmds[i].id = id}
QueueInOrder(cmds, queue) ==
  IF queue.session = 0 THEN queue.reqs = <<>>
  ELSE InOrder(cmds, OfId(cmds, queue.session), queue.reqs)
CtrlNumbered(cmds, last) == cmds \in Seq(OneCommand) /\ \A i \in DOMAIN cmds : cmds[i].id \in 1 .. last
ControlAnswers ==
  /\ lastControl \in Nat /\ CtrlNumbered(ctrlCommands, lastControl)
  /\ ctrlQueues \in [CtrlKinds -> [session : 0 .. lastControl, array : {NoArray}, reqs : Seq(CtrlOps)]]
  /\ ctrlQueues["delete"].session = ctrlQueues["control"].session => ctrlQueues["delete"].session = 0
  /\ \A q \in {"delete", "control"} : QueueInOrder(ctrlCommands, ctrlQueues[q])
  /\ ControlAnswersMatch

LEMMA OrderBy ==
  ASSUME NEW cmds, NEW mine, NEW reqs, NEW n, n = Len(reqs), NEW p \in [1 .. n -> mine],
         \A j, k \in 1 .. n : j < k => p[j] < p[k],
         \A i \in mine : \E k \in 1 .. n : p[k] = i,
         \A k \in 1 .. n : cmds[p[k]].request = reqs[k]
  PROVE  InOrder(cmds, mine, reqs)
  BY DEF InOrder

\* A queue in order with its commands stays so when a command of its own is added with
\* its request, or one of another's without, and when the first command is served.
LEMMA OrderAddedOther ==
  ASSUME NEW S, NEW cmds \in Seq(S), NEW c \in S, NEW mine \in SUBSET DOMAIN cmds, NEW reqs,
         InOrder(cmds, mine, reqs)
  PROVE  InOrder(Append(cmds, c), mine, reqs)
  <1> DEFINE q == Append(cmds, c)
  <1>1. \A i \in DOMAIN cmds : q[i] = cmds[i]
    BY CommandLast
  <1> HIDE DEF q
  <1>2. PICK p \in [1 .. Len(reqs) -> mine] :
          /\ \A j, k \in 1 .. Len(reqs) : j < k => p[j] < p[k]
          /\ \A i \in mine : \E k \in 1 .. Len(reqs) : p[k] = i
          /\ \A k \in 1 .. Len(reqs) : cmds[p[k]].request = reqs[k]
    BY DEF InOrder
  <1>3. \A k \in 1 .. Len(reqs) : q[p[k]].request = reqs[k]
    BY <1>1, <1>2
  <1>4. InOrder(q, mine, reqs)
    BY <1>2, <1>3 DEF InOrder
  <1> QED
    BY <1>4 DEF q

LEMMA OrderAdded ==
  ASSUME NEW S, NEW cmds \in Seq(S), NEW c \in S, NEW mine \in SUBSET DOMAIN cmds,
         NEW T, NEW reqs \in Seq(T), c.request \in T, InOrder(cmds, mine, reqs)
  PROVE  InOrder(Append(cmds, c), mine \cup {Len(cmds) + 1}, Append(reqs, c.request))
  <1> DEFINE q == Append(cmds, c)
             r == Append(reqs, c.request)
             n == Len(reqs)
             m == Len(cmds) + 1
  <1>1. /\ \A i \in DOMAIN cmds : q[i] = cmds[i] /\ i \in Nat /\ i < m
        /\ q[m] = c /\ m \in Nat
    BY CommandLast
  <1>2. n \in Nat /\ Len(r) = n + 1 /\ r[n + 1] = c.request /\ \A k \in 1 .. n : r[k] = reqs[k]
    OBVIOUS
  <1> HIDE DEF q, r, n, m
  <1>3. PICK p \in [1 .. n -> mine] :
          /\ \A j, k \in 1 .. n : j < k => p[j] < p[k]
          /\ \A i \in mine : \E k \in 1 .. n : p[k] = i
          /\ \A k \in 1 .. n : cmds[p[k]].request = reqs[k]
    BY DEF InOrder, n
  <1> DEFINE t == [k \in 1 .. n + 1 |-> IF k = n + 1 THEN m ELSE p[k]]
  <1>4. /\ \A k \in 1 .. n : k \in 1 .. n + 1 /\ t[k] = p[k] /\ p[k] \in mine /\ k # n + 1
        /\ n + 1 \in 1 .. n + 1 /\ t[n + 1] = m
        /\ \A k \in 1 .. n + 1 : k = n + 1 \/ k \in 1 .. n
    BY <1>2, <1>3
  <1>5. t \in [1 .. n + 1 -> mine \cup {m}]
    BY <1>4
  <1> HIDE DEF t
  <1>6. ASSUME NEW j \in 1 .. n + 1, NEW k \in 1 .. n + 1, j < k
        PROVE  t[j] < t[k]
    <2>1. j \in 1 .. n
      BY <1>2, <1>6
    <2>2. CASE k \in 1 .. n
      BY <1>3, <1>4, <1>6, <2>1, <2>2
    <2>3. CASE k = n + 1
      <3>1. t[j] \in DOMAIN cmds /\ t[k] = m
        BY <1>4, <2>1, <2>3
      <3> QED
        BY <1>1, <3>1
    <2> QED
      BY <1>4, <2>2, <2>3
  <1>7. \A i \in mine \cup {m} : \E k \in 1 .. n + 1 : t[k] = i
    BY <1>3, <1>4
  <1>8. \A k \in 1 .. n + 1 : q[t[k]].request = r[k]
    <2>1. \A k \in 1 .. n : q[t[k]].request = r[k]
      BY <1>1, <1>2, <1>3, <1>4
    <2>2. q[t[n + 1]].request = r[n + 1]
      BY <1>1, <1>2, <1>4
    <2> QED
      BY <1>4, <2>1, <2>2
  <1>9. InOrder(q, mine \cup {m}, r)
    <2> DEFINE w == n + 1
               all == mine \cup {m}
    <2>1. /\ w = Len(r) /\ t \in [1 .. w -> all]
          /\ \A j, k \in 1 .. w : j < k => t[j] < t[k]
          /\ \A i \in all : \E k \in 1 .. w : t[k] = i
          /\ \A k \in 1 .. w : q[t[k]].request = r[k]
      BY <1>2, <1>5, <1>6, <1>7, <1>8
    <2> HIDE DEF w, all
    <2>2. InOrder(q, all, r)
      BY <2>1, OrderBy
    <2> QED
      BY <2>2 DEF all
  <1> QED
    BY <1>9 DEF q, r, m

LEMMA OrderServedOther ==
  ASSUME NEW S, NEW cmds \in Seq(S), cmds # <<>>, NEW mine \in SUBSET DOMAIN cmds, 1 \notin mine, NEW reqs,
         InOrder(cmds, mine, reqs)
  PROVE  InOrder(Tail(cmds), {i \in DOMAIN Tail(cmds) : i + 1 \in mine}, reqs)
  <1> DEFINE q == Tail(cmds)
             left == {i \in DOMAIN q : i + 1 \in mine}
             n == Len(reqs)
  <1>1. /\ DOMAIN cmds \subseteq Nat
        /\ \A i \in DOMAIN q : i \in Nat /\ q[i] = cmds[i + 1]
        /\ \A i \in DOMAIN cmds : i # 1 => i - 1 \in DOMAIN q /\ q[i - 1] = cmds[i]
    BY CommandFirst
  <1> HIDE DEF q, n
  <1>2. PICK p \in [1 .. n -> mine] :
          /\ \A j, k \in 1 .. n : j < k => p[j] < p[k]
          /\ \A i \in mine : \E k \in 1 .. n : p[k] = i
          /\ \A k \in 1 .. n : cmds[p[k]].request = reqs[k]
    BY DEF InOrder, n
  <1> DEFINE t == [k \in 1 .. n |-> p[k] - 1]
  <1>3. \A k \in 1 .. n : /\ p[k] \in Nat /\ p[k] \in mine /\ t[k] = p[k] - 1 /\ t[k] + 1 = p[k]
                          /\ t[k] \in DOMAIN q /\ q[t[k]] = cmds[p[k]]
    BY <1>1, <1>2
  <1>4. t \in [1 .. n -> left]
    BY <1>3
  <1> HIDE DEF t
  <1>5. \A j, k \in 1 .. n : j < k => t[j] < t[k]
    BY <1>2, <1>3
  <1>6. ASSUME NEW i \in left
        PROVE  \E k \in 1 .. n : t[k] = i
    <2>1. i \in Nat /\ i + 1 \in mine
      BY <1>1
    <2>2. PICK k \in 1 .. n : p[k] = i + 1
      BY <1>2, <2>1
    <2> QED
      BY <1>3, <2>1, <2>2
  <1>7. \A k \in 1 .. n : q[t[k]].request = reqs[k]
    BY <1>2, <1>3
  <1> HIDE DEF left
  <1>8. InOrder(q, left, reqs)
    BY <1>4, <1>5, <1>6, <1>7 DEF InOrder, n
  <1> QED
    BY <1>8 DEF q, left

LEMMA OrderServed ==
  ASSUME NEW S, NEW cmds \in Seq(S), cmds # <<>>, NEW mine \in SUBSET DOMAIN cmds, 1 \in mine,
         NEW T, NEW reqs \in Seq(T), InOrder(cmds, mine, reqs)
  PROVE  /\ reqs # <<>> /\ Head(reqs) = Head(cmds).request
         /\ InOrder(Tail(cmds), {i \in DOMAIN Tail(cmds) : i + 1 \in mine}, Tail(reqs))
  <1> DEFINE q == Tail(cmds)
             left == {i \in DOMAIN q : i + 1 \in mine}
             n == Len(reqs)
             r == Tail(reqs)
  <1>1. /\ DOMAIN cmds \subseteq Nat /\ cmds[1] = Head(cmds)
        /\ \A i \in DOMAIN q : i \in Nat /\ i > 0 /\ q[i] = cmds[i + 1]
        /\ \A i \in DOMAIN cmds : i # 1 => i - 1 \in DOMAIN q /\ q[i - 1] = cmds[i]
        /\ \A i \in DOMAIN cmds : i > 0
    <2>1. DOMAIN cmds = 1 .. Len(cmds) /\ Len(cmds) \in Nat
      OBVIOUS
    <2>2. \A i \in DOMAIN cmds : i > 0
      BY <2>1
    <2> QED
      BY <2>2, CommandFirst
  <1>2. n \in Nat
    OBVIOUS
  <1> HIDE DEF q, n
  <1>3. PICK p \in [1 .. n -> mine] :
          /\ \A j, k \in 1 .. n : j < k => p[j] < p[k]
          /\ \A i \in mine : \E k \in 1 .. n : p[k] = i
          /\ \A k \in 1 .. n : cmds[p[k]].request = reqs[k]
    BY DEF InOrder, n
  <1>4. PICK f \in 1 .. n : p[f] = 1
    BY <1>3
  <1>5. f = 1 /\ n > 0 /\ 1 \in 1 .. n /\ p[1] = 1
    <2>1. 1 \in 1 .. n /\ n > 0 /\ (f = 1 \/ 1 < f)
      BY <1>2, <1>4
    <2>2. p[1] \in Nat /\ p[1] > 0
      BY <1>1, <1>3, <2>1
    <2>3. ~(1 < f)
      <3> SUFFICES ASSUME 1 < f
                   PROVE  FALSE
        OBVIOUS
      <3>1. p[1] < 1
        BY <1>3, <1>4, <2>1
      <3> QED
        BY <2>2, <3>1
    <2> QED
      BY <1>4, <2>1, <2>3
  <1>6. reqs # <<>>
    BY <1>5, EmptySeq DEF n
  <1>7. /\ Head(reqs) = reqs[1] /\ Len(r) = n - 1 /\ \A k \in 1 .. Len(r) : r[k] = reqs[k + 1]
    BY <1>6 DEF n
  <1> HIDE DEF r
  <1>8. \A k \in 1 .. n - 1 : k \in 1 .. n /\ k + 1 \in 1 .. n /\ k + 1 > 1
    BY <1>2
  <1> DEFINE t == [k \in 1 .. n - 1 |-> p[k + 1] - 1]
  <1>9. \A k \in 1 .. n - 1 : /\ p[k + 1] \in Nat /\ p[k + 1] \in mine /\ p[k + 1] # 1 /\ t[k] = p[k + 1] - 1
                              /\ t[k] + 1 = p[k + 1] /\ t[k] \in DOMAIN q /\ q[t[k]] = cmds[p[k + 1]]
    <2> SUFFICES ASSUME NEW k \in 1 .. n - 1
                 PROVE  /\ p[k + 1] \in Nat /\ p[k + 1] \in mine /\ p[k + 1] # 1 /\ t[k] = p[k + 1] - 1
                        /\ t[k] + 1 = p[k + 1] /\ t[k] \in DOMAIN q /\ q[t[k]] = cmds[p[k + 1]]
      OBVIOUS
    <2>1. k + 1 \in 1 .. n /\ 1 < k + 1
      BY <1>8
    <2>2. p[k + 1] \in mine /\ p[k + 1] \in Nat
      BY <1>1, <1>3, <2>1
    <2>3. 1 < p[k + 1]
      BY <1>3, <1>5, <2>1
    <2> QED
      BY <1>1, <2>2, <2>3
  <1>10. t \in [1 .. n - 1 -> left]
    BY <1>9
  <1> HIDE DEF t
  <1>11. ASSUME NEW j \in 1 .. n - 1, NEW k \in 1 .. n - 1, j < k
         PROVE  t[j] < t[k]
    <2>1. j + 1 \in 1 .. n /\ k + 1 \in 1 .. n /\ j + 1 < k + 1
      BY <1>8, <1>11
    <2>2. p[j + 1] < p[k + 1]
      BY <1>3, <2>1
    <2> QED
      BY <1>9, <2>2
  <1>12. ASSUME NEW i \in left
         PROVE  \E k \in 1 .. n - 1 : t[k] = i
    <2>1. i \in Nat /\ i > 0 /\ i + 1 \in mine
      BY <1>1
    <2>2. PICK k \in 1 .. n : p[k] = i + 1
      BY <1>3, <2>1
    <2>3. k # 1
      BY <1>5, <2>1, <2>2
    <2>4. k - 1 \in 1 .. n - 1 /\ (k - 1) + 1 = k
      BY <1>2, <2>3
    <2>5. t[k - 1] + 1 = i + 1 /\ t[k - 1] = p[k] - 1
      BY <1>9, <2>2, <2>4
    <2>6. t[k - 1] = i
      BY <2>1, <2>2, <2>5
    <2> QED
      BY <2>4, <2>6
  <1>13. \A k \in 1 .. n - 1 : q[t[k]].request = r[k]
    BY <1>3, <1>7, <1>8, <1>9
  <1>14. Head(reqs) = Head(cmds).request
    BY <1>1, <1>3, <1>5, <1>7
  <1> HIDE DEF left
  <1>15. InOrder(q, left, r)
    <2> DEFINE w == n - 1
    <2>1. w = Len(r) /\ t \in [1 .. w -> left]
      BY <1>7, <1>10
    <2>2. \A j, k \in 1 .. w : j < k => t[j] < t[k]
      BY <1>11
    <2>3. \A i \in left : \E k \in 1 .. w : t[k] = i
      BY <1>12
    <2>4. \A k \in 1 .. w : q[t[k]].request = r[k]
      BY <1>13
    <2> HIDE DEF w
    <2>5. t \in [1 .. Len(r) -> left] /\ \A j, k \in 1 .. Len(r) : j < k => t[j] < t[k]
      BY <2>1, <2>2
    <2>6. \A i \in left : \E k \in 1 .. Len(r) : t[k] = i
      BY <2>1, <2>3
    <2>7. \A k \in 1 .. Len(r) : q[t[k]].request = r[k]
      BY <2>1, <2>4
    <2> QED
      BY <2>5, <2>6, <2>7, Zenon DEF InOrder
  <1> QED
    BY <1>6, <1>14, <1>15 DEF q, left, r

LEMMA OrderNone ==
  ASSUME NEW cmds
  PROVE  InOrder(cmds, {}, <<>>)
  <1>1. Len(<<>>) = 0 /\ 1 .. 0 = {}
    OBVIOUS
  <1>2. [k \in 1 .. 0 |-> 0] \in [1 .. 0 -> {}]
    BY <1>1
  <1> QED
    BY <1>1, <1>2 DEF InOrder

\* The client's sessions: a command of another session, one of the session tracked, and
\* the first of a new one.
LEMMA AnswersAdded ==
  ASSUME NEW cmds \in Seq(SessionCommand), NEW c \in SessionCommand, NEW queue, TrackingInOrder(cmds, queue),
         c.session # queue.session \/ queue.session = 0
  PROVE  TrackingInOrder(Append(cmds, c), queue)
  <1> DEFINE q == Append(cmds, c)
  <1> q = Append(cmds, c)
    OBVIOUS
  <1> HIDE DEF q
  <1>1. /\ q[Len(q)] = c /\ DOMAIN q = DOMAIN cmds \cup {Len(q)} /\ Len(q) \notin DOMAIN cmds
        /\ \A i \in DOMAIN cmds : q[i] = cmds[i]
    <2>1. \A i \in DOMAIN cmds : q[i] = cmds[i] /\ i < Len(q) /\ i \in Nat
      BY CommandLast
    <2>2. Len(q) \notin DOMAIN cmds
      BY <2>1
    <2> QED
      BY <2>2, CommandLast
  <1>2. CASE queue.session = 0
    BY <1>2 DEF TrackingInOrder
  <1>3. CASE queue.session # 0
    <2>1. OfSession(q, queue.session) = OfSession(cmds, queue.session)
      BY <1>1, <1>3 DEF OfSession
    <2>2. InOrder(cmds, OfSession(cmds, queue.session), queue.reqs)
      BY <1>3 DEF TrackingInOrder
    <2>3. OfSession(cmds, queue.session) \in SUBSET DOMAIN cmds
      BY DEF OfSession
    <2>4. InOrder(q, OfSession(cmds, queue.session), queue.reqs)
      BY <2>2, <2>3, OrderAddedOther
    <2> QED
      BY <1>3, <2>1, <2>4 DEF TrackingInOrder
  <1> QED
    BY <1>2, <1>3

LEMMA AnswersPushed ==
  ASSUME NEW cmds \in Seq(SessionCommand), NEW c \in SessionCommand, NEW reqs \in Seq(SessionOps), NEW s, s # 0,
         InOrder(cmds, OfSession(cmds, s), reqs), c.session = s,
         NEW after, after.session = s, after.reqs = Append(reqs, c.request)
  PROVE  TrackingInOrder(Append(cmds, c), after)
  <1> DEFINE q == Append(cmds, c)
             mine == OfSession(cmds, s)
  <1> q = Append(cmds, c)
    OBVIOUS
  <1> HIDE DEF q
  <1>1. /\ q[Len(q)] = c /\ DOMAIN q = DOMAIN cmds \cup {Len(q)} /\ Len(q) = Len(cmds) + 1
        /\ \A i \in DOMAIN cmds : q[i] = cmds[i]
    BY CommandLast
  <1>2. OfSession(q, s) = mine \cup {Len(cmds) + 1}
    BY <1>1 DEF OfSession
  <1>3. mine \in SUBSET DOMAIN cmds /\ c.request \in SessionOps
    BY DEF OfSession, SessionCommand
  <1> HIDE DEF mine
  <1>4. InOrder(cmds, mine, reqs)
    BY DEF mine
  <1>5. InOrder(q, mine \cup {Len(cmds) + 1}, Append(reqs, c.request))
    BY <1>3, <1>4, OrderAdded
  <1> QED
    BY <1>2, <1>5 DEF TrackingInOrder

LEMMA AnswersStarted ==
  ASSUME NEW cmds \in Seq(SessionCommand), NEW c \in SessionCommand, c.session # 0,
         \A i \in DOMAIN cmds : cmds[i].session # c.session,
         NEW after, after.session = c.session, after.reqs = <<c.request>>
  PROVE  TrackingInOrder(Append(cmds, c), after)
  <1>1. OfSession(cmds, c.session) = {}
    BY DEF OfSession
  <1>2. InOrder(cmds, OfSession(cmds, c.session), <<>>)
    BY <1>1, OrderNone
  <1>3. <<>> \in Seq(SessionOps) /\ Append(<<>>, c.request) = <<c.request>>
    OBVIOUS
  <1> QED
    BY <1>2, <1>3, AnswersPushed

\* The adapters' next command, of the session tracked or of another.
LEMMA AnswersServed ==
  ASSUME NEW cmds \in Seq(SessionCommand), cmds # <<>>, NEW queue, queue.reqs \in Seq(SessionOps),
         TrackingInOrder(cmds, queue)
  PROVE  /\ queue.session # Head(cmds).session => TrackingInOrder(Tail(cmds), queue)
         /\ queue.session = 0 => TrackingInOrder(Tail(cmds), queue) /\ queue.reqs = <<>>
         /\ queue.session = Head(cmds).session /\ queue.session # 0 =>
              /\ queue.reqs # <<>> /\ Head(queue.reqs) = Head(cmds).request
              /\ \A after : after.session = queue.session /\ after.reqs = Tail(queue.reqs) =>
                   TrackingInOrder(Tail(cmds), after)
  <1> DEFINE q == Tail(cmds)
             s == queue.session
             mine == OfSession(cmds, s)
             left == {i \in DOMAIN q : i + 1 \in mine}
  <1> q = Tail(cmds)
    OBVIOUS
  <1> HIDE DEF q
  <1>1. /\ cmds[1] = Head(cmds) /\ 1 \in DOMAIN cmds
        /\ \A i \in DOMAIN q : i + 1 \in DOMAIN cmds /\ q[i] = cmds[i + 1]
    BY CommandFirst
  <1>2. OfSession(q, s) = left /\ mine \in SUBSET DOMAIN cmds
    BY <1>1 DEF OfSession
  <1>3. 1 \in mine <=> Head(cmds).session = s
    BY <1>1 DEF OfSession
  <1>4. s = 0 => TrackingInOrder(q, queue) /\ queue.reqs = <<>>
    BY DEF TrackingInOrder
  <1>5. s # 0 => InOrder(cmds, mine, queue.reqs)
    BY DEF TrackingInOrder
  <1>6. ASSUME s # 0, s # Head(cmds).session
        PROVE  TrackingInOrder(q, queue)
    <2> HIDE DEF mine
    <2>1. InOrder(Tail(cmds), {i \in DOMAIN Tail(cmds) : i + 1 \in mine}, queue.reqs)
      BY <1>2, <1>3, <1>5, <1>6, OrderServedOther
    <2>2. InOrder(q, left, queue.reqs)
      BY <2>1 DEF q
    <2> QED
      BY <1>2, <1>6, <2>2 DEF TrackingInOrder
  <1>7. ASSUME s # 0, s = Head(cmds).session
        PROVE  /\ queue.reqs # <<>> /\ Head(queue.reqs) = Head(cmds).request
               /\ \A after : after.session = queue.session /\ after.reqs = Tail(queue.reqs) =>
                    TrackingInOrder(q, after)
    <2> HIDE DEF mine
    <2>1. /\ queue.reqs # <<>> /\ Head(queue.reqs) = Head(cmds).request
          /\ InOrder(Tail(cmds), {i \in DOMAIN Tail(cmds) : i + 1 \in mine}, Tail(queue.reqs))
      BY <1>2, <1>3, <1>5, <1>7, OrderServed
    <2>2. InOrder(q, left, Tail(queue.reqs))
      BY <2>1 DEF q
    <2>3. ASSUME NEW after, after.session = queue.session, after.reqs = Tail(queue.reqs)
          PROVE  TrackingInOrder(q, after)
      BY <1>2, <1>7, <2>2, <2>3 DEF TrackingInOrder
    <2> QED
      BY <2>1, <2>3
  <1> QED
    BY <1>4, <1>6, <1>7

\* The numbers of the commands, when one is added and when the first is served.
LEMMA BelowAdded ==
  ASSUME NEW cmds \in Seq(SessionCommand), NEW last \in Nat, CommandsBelow(cmds, last), NEW then \in Nat,
         last <= then, NEW c \in SessionCommand, c.session <= then \/ AnswersNi(c), NEW q, q = Append(cmds, c)
  PROVE  q \in Seq(SessionCommand) /\ CommandsBelow(q, then)
  <1>1. /\ q \in Seq(SessionCommand) /\ q[Len(q)] = c /\ DOMAIN q = DOMAIN cmds \cup {Len(q)}
        /\ \A i \in DOMAIN cmds : q[i] = cmds[i]
    BY CommandLast
  <1>2. \A i \in DOMAIN cmds : cmds[i].session \in Nat /\ (cmds[i].session <= last \/ AnswersNi(cmds[i]))
    <2>1. \A i \in DOMAIN cmds : cmds[i] \in SessionCommand
      OBVIOUS
    <2> QED
      BY <2>1 DEF CommandsBelow, SessionCommand
  <1>3. \A i \in DOMAIN cmds : q[i].session <= then \/ AnswersNi(q[i])
    <2> SUFFICES ASSUME NEW i \in DOMAIN cmds
                 PROVE  cmds[i].session <= then \/ AnswersNi(cmds[i])
      BY <1>1
    <2> QED
      BY <1>2
  <1> QED
    BY <1>1, <1>3 DEF CommandsBelow

LEMMA BelowServed ==
  ASSUME NEW cmds \in Seq(SessionCommand), cmds # <<>>, NEW last, CommandsBelow(cmds, last)
  PROVE  /\ Tail(cmds) \in Seq(SessionCommand) /\ CommandsBelow(Tail(cmds), last)
         /\ Head(cmds).session <= last \/ AnswersNi(Head(cmds))
  <1> DEFINE q == Tail(cmds)
  <1>1. /\ q \in Seq(SessionCommand) /\ cmds[1] = Head(cmds) /\ 1 \in DOMAIN cmds
        /\ \A i \in DOMAIN q : i + 1 \in DOMAIN cmds /\ q[i] = cmds[i + 1]
    BY CommandFirst
  <1> HIDE DEF q
  <1>2. CommandsBelow(q, last) /\ (Head(cmds).session <= last \/ AnswersNi(Head(cmds)))
    BY <1>1 DEF CommandsBelow
  <1> QED
    BY <1>1, <1>2 DEF q

\* A call keeps the invariant if it keeps its parts.
LEMMA CallTracked ==
  ASSUME TrackedInv, UNCHANGED found, lastSession' \in Nat, lastSession <= lastSession',
         commands' \in Seq(SessionCommand), CommandsBelow(commands', lastSession'),
         requests' \in [QueueKinds -> [session : Nat, reqs : Seq(SessionOps)]],
         requests'["tracking"].session \in 0 .. lastSession', requests'["ni"].reqs \in {<<>>, <<"ni">>},
         ApartFrom(mSessionBiDict', lastSession', requests'["tracking"].session),
         TrackedInTurn(commands', requests'["tracking"])
  PROVE  TrackedInv'
  <1>1. found.session \in Nat /\ lastSession \in Nat /\ TrackingAnswersMatch
    BY DEF TrackedInv, AnswerTypes, FoundRequests
  <1>2. found.session > lastSession' => found.session > lastSession
    BY <1>1
  <1>3. TrackingAnswersMatch'
    BY <1>1, <1>2 DEF TrackingAnswersMatch
  <1>4. AnswerTypes'
    BY DEF TrackedInv, AnswerTypes
  <1> QED
    BY <1>3, <1>4 DEF TrackedInv

\* A command that is not of the session tracked.
LEMMA OtherTracked ==
  ASSUME TrackedInv, UNCHANGED found, NEW c \in SessionCommand, commands' = Append(commands, c),
         lastSession' \in Nat, lastSession <= lastSession', c.session <= lastSession' \/ AnswersNi(c),
         c.session # requests["tracking"].session \/ c.session \in NiIds,
         requests' \in [QueueKinds -> [session : Nat, reqs : Seq(SessionOps)]],
         requests'["tracking"] = requests["tracking"], requests'["ni"].reqs \in {<<>>, <<"ni">>},
         ApartFrom(mSessionBiDict', lastSession', requests["tracking"].session)
  PROVE  TrackedInv'
  <1> DEFINE t == requests["tracking"]
  <1>1. /\ commands \in Seq(SessionCommand) /\ CommandsBelow(commands, lastSession) /\ lastSession \in Nat
        /\ t.session \in 0 .. lastSession /\ TrackedInTurn(commands, t)
    BY DEF TrackedInv, AnswerTypes
  <1>2. commands' \in Seq(SessionCommand) /\ CommandsBelow(commands', lastSession')
    BY <1>1, BelowAdded
  <1>3. t.session \in 0 .. lastSession'
    BY <1>1
  <1> HIDE DEF t
  <1>4. TrackedInTurn(commands', t)
    <2> SUFFICES ASSUME t.session \notin NiIds
                 PROVE  TrackingInOrder(Append(commands, c), t)
      BY DEF TrackedInTurn
    <2>1. TrackingInOrder(commands, t) /\ c.session # t.session
      BY <1>1 DEF TrackedInTurn, t
    <2> QED
      BY <1>1, <2>1, AnswersAdded
  <1> QED
    BY <1>2, <1>3, <1>4, CallTracked DEF t

\* The number of a new session is nobody's, but for network requests.
LEMMA NewNumber ==
  ASSUME TrackedInv
  PROVE  /\ Fresh \in Nat /\ Fresh # 0 /\ lastSession \in Nat /\ lastSession <= Fresh
         /\ Fresh # requests["tracking"].session
         /\ \A i \in DOMAIN commands : commands[i].session # Fresh \/ AnswersNi(commands[i])
         /\ \A id \in DOMAIN mSessionBiDict.forward : mSessionBiDict.forward[id] \in (1 .. Fresh) \ {Fresh}
  <1>1. lastSession \in Nat /\ Fresh = lastSession + 1 /\ requests["tracking"].session \in 0 .. lastSession
    BY DEF TrackedInv, Fresh
  <1>2. \A i \in DOMAIN commands :
          commands[i].session \in Nat /\ (commands[i].session <= lastSession \/ AnswersNi(commands[i]))
    <2>1. commands \in Seq(SessionCommand) /\ CommandsBelow(commands, lastSession)
      BY DEF TrackedInv, AnswerTypes
    <2>2. \A i \in DOMAIN commands : commands[i] \in SessionCommand
      BY <2>1
    <2> QED
      BY <2>1, <2>2 DEF SessionCommand, CommandsBelow
  <1>3. \A id \in DOMAIN mSessionBiDict.forward : mSessionBiDict.forward[id] \in 1 .. lastSession
    BY DEF TrackedInv, ApartFrom
  <1>4. 1 .. lastSession \subseteq (1 .. Fresh) \ {Fresh}
    BY <1>1
  <1>5. \A i \in DOMAIN commands : commands[i].session # Fresh \/ AnswersNi(commands[i])
    BY <1>1, <1>2
  <1> QED
    BY <1>1, <1>3, <1>4, <1>5

LEMMA StartTrackingTracked ==
  ASSUME TrackedInv, locAPIStartTracking
  PROVE  TrackedInv'
  <1> DEFINE c == Command("start", Fresh, "start")
             after == [session |-> Fresh, reqs |-> <<"start">>]
  <1>1. /\ commands' = Append(commands, c) /\ lastSession' = Fresh /\ UNCHANGED <<found, mSessionBiDict>>
        /\ requests' = [requests EXCEPT !["tracking"] = after]
    BY DEF locAPIStartTracking, Restart
  <1>2. /\ Fresh \in Nat /\ Fresh # 0 /\ lastSession \in Nat /\ lastSession <= Fresh
        /\ \A i \in DOMAIN commands : commands[i].session # Fresh \/ AnswersNi(commands[i])
        /\ \A id \in DOMAIN mSessionBiDict.forward : mSessionBiDict.forward[id] \in (1 .. Fresh) \ {Fresh}
    BY NewNumber
  <1> HIDE DEF Fresh
  <1>3. c \in SessionCommand /\ c.session = Fresh /\ c.request = "start" /\ c.session <= Fresh
    BY <1>2 DEF Command, SessionCommand, SessionOps
  <1>4. /\ commands \in Seq(SessionCommand) /\ CommandsBelow(commands, lastSession)
        /\ requests \in [QueueKinds -> [session : Nat, reqs : Seq(SessionOps)]]
        /\ requests["ni"].reqs \in {<<>>, <<"ni">>}
    BY DEF TrackedInv, AnswerTypes
  <1>5. /\ after \in [session : Nat, reqs : Seq(SessionOps)]
        /\ after.session = Fresh /\ after.reqs = <<c.request>>
    BY <1>2, <1>3 DEF SessionOps
  <1> HIDE DEF c, after
  <1>6. commands' \in Seq(SessionCommand) /\ CommandsBelow(commands', lastSession')
    <2>1. \A q, then : q = Append(commands, c) /\ then = Fresh => q \in Seq(SessionCommand) /\ CommandsBelow(q, then)
      BY <1>2, <1>3, <1>4, BelowAdded
    <2> QED
      BY <1>1, <2>1
  <1>7. /\ requests' \in [QueueKinds -> [session : Nat, reqs : Seq(SessionOps)]]
        /\ requests'["tracking"] = after /\ requests'["ni"] = requests["ni"]
    <2>1. "tracking" \in QueueKinds /\ "ni" \in QueueKinds
      BY DEF QueueKinds
    <2> QED
      BY <1>1, <1>4, <1>5, <2>1
  <1>8. TrackedInTurn(commands', requests'["tracking"])
    <2> SUFFICES ASSUME Fresh \notin NiIds
                 PROVE  TrackingInOrder(Append(commands, c), after)
      BY <1>1, <1>5, <1>7 DEF TrackedInTurn
    <2>1. \A i \in DOMAIN commands : commands[i].session # c.session
      BY <1>2, <1>3 DEF AnswersNi
    <2>2. c.session # 0 /\ after.session = c.session /\ after.reqs = <<c.request>>
      BY <1>2, <1>3, <1>5
    <2> QED
      BY <1>3, <1>4, <2>1, <2>2, AnswersStarted
  <1>9. ApartFrom(mSessionBiDict', lastSession', requests'["tracking"].session)
    BY <1>1, <1>2, <1>5, <1>7 DEF ApartFrom
  <1>10. requests'["tracking"].session \in 0 .. lastSession' /\ requests'["ni"].reqs \in {<<>>, <<"ni">>}
    BY <1>1, <1>2, <1>4, <1>5, <1>7
  <1> QED
    BY <1>1, <1>2, <1>6, <1>7, <1>8, <1>9, <1>10, CallTracked

LEMMA PushTrackingTracked ==
  ASSUME TrackedInv, locAPIStopTracking \/ locAPIUpdateTrackingOptions
  PROVE  TrackedInv'
  <1> DEFINE t == requests["tracking"]
  <1>1. PICK op \in {"stop", "update"} :
          /\ t.session > 0 /\ requests' = Push("tracking", op)
          /\ commands' = Append(commands, Command(op, t.session, op))
          /\ UNCHANGED <<lastSession, found, mSessionBiDict>>
    BY DEF locAPIStopTracking, locAPIUpdateTrackingOptions
  <1> DEFINE c == Command(op, t.session, op)
  <1>2. /\ commands \in Seq(SessionCommand) /\ CommandsBelow(commands, lastSession) /\ lastSession \in Nat
        /\ requests \in [QueueKinds -> [session : Nat, reqs : Seq(SessionOps)]]
        /\ t.session \in 0 .. lastSession /\ TrackedInTurn(commands, t)
        /\ requests["ni"].reqs \in {<<>>, <<"ni">>} /\ t.reqs \in Seq(SessionOps)
        /\ ApartFrom(mSessionBiDict, lastSession, t.session)
    BY DEF TrackedInv, AnswerTypes, QueueKinds
  <1>3. t.session \in Nat /\ t.session # 0 /\ t.session <= lastSession
    BY <1>1, <1>2
  <1>4. c \in SessionCommand /\ c.session = t.session /\ c.request = op /\ op \in SessionOps
    BY <1>3 DEF Command, SessionCommand, SessionOps
  <1>5. /\ requests' \in [QueueKinds -> [session : Nat, reqs : Seq(SessionOps)]]
        /\ requests'["tracking"].session = t.session /\ requests'["tracking"].reqs = Append(t.reqs, op)
        /\ requests'["ni"] = requests["ni"]
    <2>1. "tracking" \in QueueKinds /\ "ni" \in QueueKinds /\ "ni" # "tracking"
      BY DEF QueueKinds
    <2> QED
      BY <1>1, <1>2, <1>4, <2>1, Pushed, Zenon
  <1>6. commands' = Append(commands, c)
    BY <1>1
  <1> HIDE DEF c, t
  <1>7. commands' \in Seq(SessionCommand) /\ CommandsBelow(commands', lastSession)
    <2>1. c.session <= lastSession /\ lastSession <= lastSession /\ lastSession \in Nat
      BY <1>2, <1>3, <1>4
    <2>2. \A q : q = Append(commands, c) => q \in Seq(SessionCommand) /\ CommandsBelow(q, lastSession)
      BY <1>2, <1>4, <2>1, BelowAdded
    <2> QED
      BY <1>6, <2>2
  <1>8. TrackedInTurn(commands', requests'["tracking"])
    <2> SUFFICES ASSUME t.session \notin NiIds
                 PROVE  TrackingInOrder(commands', requests'["tracking"])
      BY <1>5 DEF TrackedInTurn
    <2>1. InOrder(commands, OfSession(commands, t.session), t.reqs)
      BY <1>2, <1>3 DEF TrackedInTurn, TrackingInOrder
    <2>2. \A after : after.session = t.session /\ after.reqs = Append(t.reqs, c.request) =>
            TrackingInOrder(Append(commands, c), after)
      BY <1>2, <1>3, <1>4, <2>1, AnswersPushed
    <2> QED
      BY <1>4, <1>5, <1>6, <2>2
  <1>9. /\ requests'["tracking"].session \in 0 .. lastSession' /\ requests'["ni"].reqs \in {<<>>, <<"ni">>}
        /\ ApartFrom(mSessionBiDict', lastSession', requests'["tracking"].session)
        /\ CommandsBelow(commands', lastSession') /\ lastSession' \in Nat /\ lastSession <= lastSession'
    BY <1>1, <1>2, <1>5, <1>7
  <1> QED
    BY <1>1, <1>5, <1>7, <1>8, <1>9, CallTracked

LEMMA NiTracked ==
  ASSUME TrackedInv, NEW ni \in NiIds, locAPIGnssNiResponse(ni)
  PROVE  TrackedInv'
  <1> DEFINE c == Command("ni", ni, "ni")
             after == [session |-> ni, reqs |-> <<"ni">>]
  <1>1. /\ requests' = [requests EXCEPT !["ni"] = after] /\ commands' = Append(commands, c)
        /\ UNCHANGED <<lastSession, found, mSessionBiDict>>
    BY DEF locAPIGnssNiResponse, Restart
  <1>2. ni \in Nat
    BY ClientAssumption
  <1>3. c \in SessionCommand /\ AnswersNi(c) /\ c.session \in NiIds
    BY <1>2 DEF Command, SessionCommand, SessionOps, AnswersNi
  <1>4. after \in [session : Nat, reqs : Seq(SessionOps)] /\ after.reqs = <<"ni">>
    BY <1>2 DEF SessionOps
  <1>5. /\ requests \in [QueueKinds -> [session : Nat, reqs : Seq(SessionOps)]] /\ lastSession \in Nat
        /\ ApartFrom(mSessionBiDict, lastSession, requests["tracking"].session)
    BY DEF TrackedInv, AnswerTypes
  <1> HIDE DEF c, after
  <1>6. /\ requests' \in [QueueKinds -> [session : Nat, reqs : Seq(SessionOps)]]
        /\ requests'["tracking"] = requests["tracking"] /\ requests'["ni"].reqs \in {<<>>, <<"ni">>}
    <2>1. "tracking" \in QueueKinds /\ "ni" \in QueueKinds
      BY DEF QueueKinds
    <2> QED
      BY <1>1, <1>4, <1>5, <2>1
  <1>7. /\ lastSession' \in Nat /\ lastSession <= lastSession'
        /\ ApartFrom(mSessionBiDict', lastSession', requests["tracking"].session)
    BY <1>1, <1>5
  <1> QED
    BY <1>1, <1>3, <1>6, <1>7, OtherTracked

\* A request of a session by id leaves the other queues alone.
LEMMA PushById ==
  ASSUME TrackedInv, NEW op \in SessionOps, requests' = Push("session", op)
  PROVE  /\ requests' \in [QueueKinds -> [session : Nat, reqs : Seq(SessionOps)]]
         /\ requests'["tracking"] = requests["tracking"] /\ requests'["ni"] = requests["ni"]
         /\ requests'["ni"].reqs \in {<<>>, <<"ni">>}
  <1>1. /\ requests \in [QueueKinds -> [session : Nat, reqs : Seq(SessionOps)]]
        /\ requests["ni"].reqs \in {<<>>, <<"ni">>}
    BY DEF TrackedInv, AnswerTypes
  <1>2. "session" \in QueueKinds /\ "tracking" \in QueueKinds /\ "ni" \in QueueKinds
        /\ "session" # "tracking" /\ "session" # "ni"
    BY DEF QueueKinds
  <1>3. /\ requests' \in [QueueKinds -> [session : Nat, reqs : Seq(SessionOps)]]
        /\ \A x \in QueueKinds : x # "session" => requests'[x] = requests[x]
    BY <1>1, <1>2, Pushed, Zenon
  <1> QED
    BY <1>1, <1>2, <1>3

LEMMA ByIdTracked ==
  ASSUME TrackedInv, NEW id, hasId(mSessionBiDict, id), NEW op \in {"stop", "get", "update"},
         requests' = Push("session", op), UNCHANGED <<lastSession, found>>,
         commands' = Append(commands, Command(op, getSession(mSessionBiDict, id), op)),
         ApartFrom(mSessionBiDict', lastSession, requests["tracking"].session)
  PROVE  TrackedInv'
  <1> DEFINE s == getSession(mSessionBiDict, id)
             c == Command(op, s, op)
  <1>1. s \in (1 .. lastSession) \ {requests["tracking"].session} /\ lastSession \in Nat
    BY DEF hasId, getSession, Get, TrackedInv, ApartFrom
  <1> HIDE DEF s
  <1>2. s \in Nat /\ s <= lastSession /\ s # requests["tracking"].session
    BY <1>1
  <1>3. c \in SessionCommand /\ c.session = s /\ commands' = Append(commands, c)
    BY <1>2 DEF Command, SessionCommand, SessionOps, s
  <1>4. /\ requests' \in [QueueKinds -> [session : Nat, reqs : Seq(SessionOps)]]
        /\ requests'["tracking"] = requests["tracking"] /\ requests'["ni"].reqs \in {<<>>, <<"ni">>}
    <2>1. op \in SessionOps
      BY DEF SessionOps
    <2> QED
      BY <2>1, PushById, Zenon
  <1> HIDE DEF c
  <1>5. /\ lastSession' \in Nat /\ lastSession <= lastSession' /\ c.session <= lastSession'
        /\ ApartFrom(mSessionBiDict', lastSession', requests["tracking"].session)
    BY <1>1, <1>2, <1>3
  <1> QED
    BY <1>2, <1>3, <1>4, <1>5, OtherTracked

\* A session given an id, and ids taken from the dictionary.
LEMMA ApartSet ==
  ASSUME NEW d, NEW last \in Nat, NEW then \in Nat, last <= then, NEW t, ApartFrom(d, last, t),
         NEW s \in (1 .. then) \ {t}, NEW id, NEW e, NEW r, r = biSet(d, id, s, e)
  PROVE  ApartFrom(r, then, t)
  <1>1. /\ DOMAIN r.forward = DOMAIN d.forward \cup {id}
        /\ \A x \in DOMAIN r.forward : r.forward[x] = IF x = id THEN s ELSE d.forward[x]
    BY DEF biSet, Put
  <1>2. 1 .. last \subseteq 1 .. then
    OBVIOUS
  <1> QED
    BY <1>1, <1>2 DEF ApartFrom

LEMMA ApartDropped ==
  ASSUME NEW d, NEW last, NEW t, ApartFrom(d, last, t), NEW id, NEW s, NEW S
  PROVE  /\ ApartFrom(rmById(d, id), last, t) /\ ApartFrom(rmBySession(d, s), last, t)
         /\ ApartFrom(rmSessions(d, S), last, t)
  BY DEF ApartFrom, rmById, rmBySession, rmSessions, Drop

LEMMA StartSessionTracked ==
  ASSUME TrackedInv, NEW id, NEW mode, locAPIStartSession(id, mode)
  PROVE  TrackedInv'
  <1> DEFINE c == Command("start", Fresh, "start")
             t == requests["tracking"].session
             e == [id |-> id, mode |-> mode]
  <1>1. /\ requests' = Push("session", "start") /\ commands' = Append(commands, c) /\ lastSession' = Fresh
        /\ mSessionBiDict' = biSet(mSessionBiDict, id, Fresh, e) /\ UNCHANGED found
    BY DEF locAPIStartSession
  <1>2. Fresh \in Nat /\ Fresh # 0 /\ lastSession \in Nat /\ lastSession <= Fresh /\ Fresh # t
    BY NewNumber
  <1>3. ApartFrom(mSessionBiDict, lastSession, t)
    BY DEF TrackedInv
  <1> HIDE DEF Fresh, e, t
  <1>4. c \in SessionCommand /\ c.session = Fresh
    BY <1>2 DEF Command, SessionCommand, SessionOps
  <1> HIDE DEF c
  <1>5. Fresh \in (1 .. Fresh) \ {t}
    BY <1>2
  <1>6. ApartFrom(mSessionBiDict', Fresh, t)
    <2>1. \A r : r = biSet(mSessionBiDict, id, Fresh, e) => ApartFrom(r, Fresh, t)
      BY <1>2, <1>3, <1>5, ApartSet
    <2> QED
      BY <1>1, <2>1
  <1>7. /\ requests' \in [QueueKinds -> [session : Nat, reqs : Seq(SessionOps)]]
        /\ requests'["tracking"] = requests["tracking"] /\ requests'["ni"].reqs \in {<<>>, <<"ni">>}
    <2>1. "start" \in SessionOps
      BY DEF SessionOps
    <2> QED
      BY <1>1, <2>1, PushById, Zenon
  <1>8. /\ lastSession' \in Nat /\ lastSession <= lastSession' /\ c.session <= lastSession'
        /\ c.session # requests["tracking"].session
        /\ ApartFrom(mSessionBiDict', lastSession', requests["tracking"].session)
    BY <1>1, <1>2, <1>4, <1>6 DEF t
  <1> QED
    BY <1>1, <1>4, <1>7, <1>8, OtherTracked

LEMMA SwitchModeTracked ==
  ASSUME TrackedInv, NEW id, NEW mode, locAPIUpdateSessionOptions(id, mode), SwitchMode(id, mode)
  PROVE  TrackedInv'
  <1> DEFINE s == getSession(mSessionBiDict, id)
             t == requests["tracking"]
             a == Command("stop", s, "none")
             c == Command("start", Fresh, "update")
             mid == Append(commands, a)
             d == rmById(mSessionBiDict, id)
             e == [id |-> id, mode |-> mode]
  <1>1. /\ hasId(mSessionBiDict, id) /\ requests' = Push("session", "update") /\ UNCHANGED found
        /\ lastSession' = Fresh /\ commands' = commands \o <<a, c>> /\ mSessionBiDict' = biSet(d, id, Fresh, e)
    BY DEF locAPIUpdateSessionOptions, SwitchMode
  <1>2. s \in (1 .. lastSession) \ {t.session} /\ lastSession \in Nat
    BY <1>1 DEF hasId, getSession, Get, TrackedInv, ApartFrom
  <1>3. Fresh \in Nat /\ Fresh # 0 /\ lastSession <= Fresh /\ Fresh # t.session
    BY NewNumber
  <1>4. /\ commands \in Seq(SessionCommand) /\ CommandsBelow(commands, lastSession)
        /\ t.session \in 0 .. lastSession /\ TrackedInTurn(commands, t)
        /\ ApartFrom(mSessionBiDict, lastSession, t.session)
    BY DEF TrackedInv, AnswerTypes
  <1> HIDE DEF s, Fresh, e
  <1>5. s \in Nat /\ s <= lastSession /\ s <= Fresh /\ s # t.session
    BY <1>2, <1>3
  <1>6. a \in SessionCommand /\ a.session = s /\ c \in SessionCommand /\ c.session = Fresh
    BY <1>3, <1>5 DEF Command, SessionCommand, SessionOps
  <1>7. commands' = Append(mid, c)
    BY <1>1, <1>4, <1>6
  <1> HIDE DEF a, c, d, t
  <1>8. mid \in Seq(SessionCommand) /\ CommandsBelow(mid, lastSession)
    <2>1. a.session <= lastSession /\ lastSession <= lastSession /\ lastSession \in Nat
      BY <1>2, <1>5, <1>6
    <2> QED
      BY <1>4, <1>6, <2>1, BelowAdded
  <1>9. t.session \notin NiIds => TrackingInOrder(mid, t)
    BY <1>4, <1>5, <1>6, AnswersAdded DEF TrackedInTurn
  <1> HIDE DEF mid
  <1>10. commands' \in Seq(SessionCommand) /\ CommandsBelow(commands', lastSession')
    <2>1. c.session <= Fresh
      BY <1>3, <1>6
    <2>2. \A q : q = Append(mid, c) => q \in Seq(SessionCommand) /\ CommandsBelow(q, Fresh)
      BY <1>2, <1>3, <1>6, <1>8, <2>1, BelowAdded
    <2> QED
      BY <1>1, <1>7, <2>2
  <1>11. t.session \notin NiIds => TrackingInOrder(Append(mid, c), t)
    BY <1>3, <1>6, <1>8, <1>9, AnswersAdded
  <1>12. /\ requests' \in [QueueKinds -> [session : Nat, reqs : Seq(SessionOps)]]
         /\ requests'["tracking"] = t /\ requests'["ni"].reqs \in {<<>>, <<"ni">>}
    <2>1. "update" \in SessionOps
      BY DEF SessionOps
    <2> QED
      BY <1>1, <2>1, PushById, Zenon DEF t
  <1>13. TrackedInTurn(commands', requests'["tracking"])
    BY <1>7, <1>11, <1>12 DEF TrackedInTurn
  <1>14. ApartFrom(mSessionBiDict', lastSession', requests'["tracking"].session)
    <2>1. ApartFrom(d, lastSession, t.session)
      BY <1>4, ApartDropped DEF d
    <2>2. Fresh \in (1 .. Fresh) \ {t.session}
      BY <1>3
    <2>3. \A r : r = biSet(d, id, Fresh, e) => ApartFrom(r, Fresh, t.session)
      BY <1>2, <1>3, <2>1, <2>2, ApartSet
    <2> QED
      BY <1>1, <1>12, <2>3
  <1>15. /\ lastSession' \in Nat /\ lastSession <= lastSession'
         /\ requests'["tracking"].session \in 0 .. lastSession'
    BY <1>1, <1>2, <1>3, <1>4, <1>12
  <1> QED
    BY <1>1, <1>10, <1>12, <1>13, <1>14, <1>15, CallTracked

LEMMA UpdateSessionTracked ==
  ASSUME TrackedInv, NEW id, NEW mode, locAPIUpdateSessionOptions(id, mode)
  PROVE  TrackedInv'
  <1> DEFINE s == getSession(mSessionBiDict, id)
             t == requests["tracking"].session
             d == rmById(mSessionBiDict, id)
             e == [id |-> id, mode |-> mode]
  <1>1. /\ hasId(mSessionBiDict, id) /\ requests' = Push("session", "update") /\ UNCHANGED found
        /\ KeepMode(id, mode) \/ SwitchMode(id, mode)
    BY DEF locAPIUpdateSessionOptions
  <1>2. CASE KeepMode(id, mode)
    <2>1. /\ commands' = Append(commands, Command("update", s, "update")) /\ UNCHANGED lastSession
          /\ mSessionBiDict' = biSet(d, id, s, e)
      BY <1>2 DEF KeepMode
    <2>2. s \in (1 .. lastSession) \ {t} /\ lastSession \in Nat /\ ApartFrom(mSessionBiDict, lastSession, t)
      BY <1>1 DEF hasId, getSession, Get, TrackedInv, ApartFrom
    <2>3. ApartFrom(d, lastSession, t)
      BY <2>2, ApartDropped
    <2> HIDE DEF s, t, d, e
    <2>4. lastSession <= lastSession
      BY <2>2
    <2>5. \A r : r = biSet(d, id, s, e) => ApartFrom(r, lastSession, t)
      BY <2>2, <2>3, <2>4, ApartSet
    <2>6. ApartFrom(mSessionBiDict', lastSession, t)
      BY <2>1, <2>5
    <2> QED
      BY <1>1, <2>1, <2>6, ByIdTracked DEF s, t
  <1>3. CASE SwitchMode(id, mode)
    BY <1>3, SwitchModeTracked
  <1> QED
    BY <1>1, <1>2, <1>3

\* Each response finds the request of its command, whichever queue that is in.
LEMMA QueueFound ==
  ASSUME NEW s
  PROVE  LET q == getRequestBySession(s) IN
         /\ q \in {"tracking", "ni"} => requests[q].session = s
         /\ q \in {"tracking", "ni", "session", "none"}
         /\ requests["tracking"].session = s /\ requests["tracking"].reqs # <<>> => q = "tracking"
  <1> DEFINE own == {q \in {"tracking", "ni"} : requests[q].session = s}
             f == TakesFirst(s)
  <1>1. /\ f = "tracking" \/ f = "ni" \/ f = "none"
        /\ f = "tracking" <=> requests["tracking"].session = s
        /\ f = "ni" => requests["ni"].session = s
    BY DEF TakesFirst
  <1> HIDE DEF f
  <1>2. getRequestBySession(s) =
          IF f # "none" /\ requests[f].reqs # <<>> THEN f
          ELSE IF hasSession(mSessionBiDict, s) /\ requests["session"].reqs # <<>> THEN "session" ELSE "none"
    BY DEF getRequestBySession, f
  <1> QED
    BY <1>1, <1>2

\* What is served is found in its queue, and leaves the others in order.
LEMMA ServeTracked ==
  ASSUME TrackedInv, Serve
  PROVE  TrackedInv'
  <1> DEFINE c == Head(commands)
             q == getRequestBySession(c.session)
             t == requests["tracking"]
  <1>1. AnswerTypes
    BY DEF TrackedInv
  <1>2. /\ commands # <<>> /\ commands' = Tail(commands) /\ found = NoneFound /\ c \in SessionCommand
        /\ UNCHANGED <<mSessionBiDict, lastSession>>
        /\ requests' \in [QueueKinds -> [session : Nat, reqs : Seq(SessionOps)]]
        /\ \A x \in QueueKinds :
             requests'[x].session = requests[x].session /\ (x # q => requests'[x] = requests[x])
    BY <1>1, ServeAnswersStep
  <1>3. PICK ok \in BOOLEAN :
          IF q = "none" THEN found' = NoneFound
          ELSE /\ q \in QueueKinds /\ requests[q].reqs # <<>>
               /\ found' = [queue |-> q, request |-> Head(requests[q].reqs), answers |-> c.request,
                            session |-> c.session, ok |-> ok]
               /\ Head(requests[q].reqs) \in SessionOps /\ requests'[q].reqs = Tail(requests[q].reqs)
    BY <1>1, ServeAnswersStep
  <1>4. /\ q \in {"tracking", "ni"} => requests[q].session = c.session
        /\ q \in {"tracking", "ni", "session", "none"}
        /\ t.session = c.session /\ t.reqs # <<>> => q = "tracking"
    BY QueueFound
  <1>5. /\ commands \in Seq(SessionCommand) /\ t.reqs \in Seq(SessionOps) /\ TrackedInTurn(commands, t)
        /\ CommandsBelow(commands, lastSession) /\ lastSession \in Nat
        /\ requests["ni"].reqs \in {<<>>, <<"ni">>} /\ t.session \in 0 .. lastSession
        /\ ApartFrom(mSessionBiDict, lastSession, t.session)
    BY DEF TrackedInv, AnswerTypes, QueueKinds
  <1>6. /\ commands' \in Seq(SessionCommand) /\ CommandsBelow(commands', lastSession)
        /\ c.session <= lastSession \/ AnswersNi(c)
    BY <1>2, <1>5, BelowServed
  <1>7. t.session \notin NiIds =>
          /\ t.session # c.session => TrackingInOrder(Tail(commands), t)
          /\ t.session = 0 => TrackingInOrder(Tail(commands), t) /\ t.reqs = <<>>
          /\ t.session = c.session /\ t.session # 0 =>
               /\ t.reqs # <<>> /\ Head(t.reqs) = c.request
               /\ \A after : after.session = t.session /\ after.reqs = Tail(t.reqs) =>
                    TrackingInOrder(Tail(commands), after)
    BY <1>2, <1>5, AnswersServed DEF TrackedInTurn
  <1>8. c.session \in Nat /\ c.request \in SessionOps
    BY <1>2 DEF SessionCommand
  <1>9. /\ requests'["tracking"].session = t.session /\ (q # "tracking" => requests'["tracking"] = t)
        /\ q # "ni" => requests'["ni"] = requests["ni"]
    BY <1>2 DEF QueueKinds
  <1> HIDE DEF c, q, t
  <1>10. found' \in FoundRequests
    <2>1. CASE q = "none"
      BY <1>3, <2>1, NoneFoundType
    <2>2. CASE q # "none"
      BY <1>3, <1>8, <2>2 DEF FoundRequests
    <2> QED
      BY <2>1, <2>2
  <1>11. TrackedInTurn(commands', requests'["tracking"])
    <2> SUFFICES ASSUME t.session \notin NiIds
                 PROVE  TrackingInOrder(commands', requests'["tracking"])
      BY <1>9 DEF TrackedInTurn
    <2>1. CASE q = "tracking"
      <3>1. t.session = c.session /\ t.reqs # <<>> /\ requests'["tracking"].reqs = Tail(t.reqs)
        BY <1>3, <1>4, <2>1 DEF t
      <3>2. t.session # 0
        BY <1>7, <3>1
      <3> QED
        BY <1>2, <1>7, <1>9, <3>1, <3>2
    <2>2. CASE q # "tracking"
      <3>1. t.session # c.session \/ t.session = 0
        BY <1>4, <1>7, <2>2
      <3> QED
        BY <1>2, <1>7, <1>9, <2>2, <3>1
    <2> QED
      BY <2>1, <2>2
  <1>12. requests'["ni"].reqs \in {<<>>, <<"ni">>} /\ (q = "ni" => Head(requests["ni"].reqs) = "ni")
    <2>1. CASE q = "ni"
      <3>1. requests["ni"].reqs = <<"ni">> /\ requests'["ni"].reqs = Tail(requests["ni"].reqs)
        BY <1>3, <1>5, <2>1
      <3>2. Head(<<"ni">>) = "ni" /\ Tail(<<"ni">>) = <<>>
        OBVIOUS
      <3> QED
        BY <3>1, <3>2
    <2>2. CASE q # "ni"
      BY <1>5, <1>9, <2>2
    <2> QED
      BY <2>1, <2>2
  <1>13. TrackingAnswersMatch'
    <2>1. CASE q = "none" \/ q = "session"
      <3>1. found'.queue = q
        BY <1>3, <2>1 DEF NoneFound
      <3> QED
        BY <2>1, <3>1 DEF TrackingAnswersMatch
    <2>2. CASE q = "tracking"
      <3>1. /\ found'.queue = "tracking" /\ found'.session = t.session /\ t.session = c.session
            /\ found'.request = Head(t.reqs) /\ found'.answers = c.request /\ t.reqs # <<>>
        BY <1>3, <1>4, <2>2 DEF t
      <3>2. t.session \notin NiIds => Head(t.reqs) = c.request
        BY <1>7, <3>1
      <3> QED
        BY <3>1, <3>2 DEF TrackingAnswersMatch
    <2>3. CASE q = "ni"
      <3>1. /\ found'.queue = "ni" /\ found'.session = c.session
            /\ found'.request = "ni" /\ found'.answers = c.request
        BY <1>3, <1>12, <2>3
      <3>2. c.session > lastSession => c.request = "ni"
        BY <1>5, <1>6, <1>8 DEF AnswersNi
      <3> QED
        BY <1>2, <3>1, <3>2 DEF TrackingAnswersMatch
    <2> QED
      BY <1>4, <2>1, <2>2, <2>3
  <1>14. requests'["tracking"].session \in 0 .. lastSession /\ UNCHANGED <<mSessionBiDict, lastSession>>
    BY <1>2, <1>5, <1>9
  <1>15. ApartFrom(mSessionBiDict', lastSession', requests'["tracking"].session)
    BY <1>5, <1>9, <1>14
  <1>16. AnswerTypes'
    BY <1>2, <1>6, <1>10 DEF AnswerTypes
  <1> QED
    BY <1>5, <1>6, <1>11, <1>12, <1>13, <1>14, <1>15, <1>16 DEF TrackedInv

LEMMA EndTracked ==
  ASSUME TrackedInv, onResponse
  PROVE  TrackedInv'
  <1>1. /\ found' = NoneFound /\ UNCHANGED <<requests, commands, lastSession>>
        /\ mSessionBiDict' \in {mSessionBiDict, rmBySession(mSessionBiDict, found.session)}
    BY DEF onResponse
  <1>2. ApartFrom(mSessionBiDict', lastSession, requests["tracking"].session)
    <2>1. ApartFrom(mSessionBiDict, lastSession, requests["tracking"].session)
      BY DEF TrackedInv
    <2> QED
      BY <1>1, <2>1, ApartDropped
  <1>3. found' \in FoundRequests /\ TrackingAnswersMatch'
    BY <1>1, NoneFoundType DEF NoneFound, TrackingAnswersMatch
  <1>4. AnswerTypes'
    BY <1>1, <1>3 DEF TrackedInv, AnswerTypes
  <1> QED
    BY <1>1, <1>2, <1>3, <1>4 DEF TrackedInv

LEMMA TripsTracked ==
  ASSUME TrackedInv, beforeBatchingStatusCb
  PROVE  TrackedInv'
  <1>1. /\ UNCHANGED <<requests, commands, lastSession, found>>
        /\ \E trips : mSessionBiDict' = rmSessions(mSessionBiDict, trips)
    BY DEF beforeBatchingStatusCb
  <1>2. ApartFrom(mSessionBiDict', lastSession, requests["tracking"].session)
    <2>1. ApartFrom(mSessionBiDict, lastSession, requests["tracking"].session)
      BY DEF TrackedInv
    <2> QED
      BY <1>1, <2>1, ApartDropped
  <1>3. AnswerTypes' /\ TrackingAnswersMatch'
    BY <1>1 DEF TrackedInv, AnswerTypes, TrackingAnswersMatch
  <1> QED
    BY <1>1, <1>2, <1>3 DEF TrackedInv

LEMMA DestroyTracked ==
  ASSUME TrackedInv, destroyClient
  PROVE  TrackedInv'
  <1> DEFINE c == Command("remove", 0, "none")
             empty == [session |-> 0, reqs |-> <<>>]
  <1>1. /\ commands' = Append(commands, c) /\ requests' = [q \in QueueKinds |-> empty]
        /\ UNCHANGED <<mSessionBiDict, lastSession, found>>
    BY DEF destroyClient
  <1>2. c \in SessionCommand /\ c.session = 0
    BY DEF Command, SessionCommand, SessionOps
  <1>3. empty \in [session : Nat, reqs : Seq(SessionOps)] /\ empty.session = 0 /\ empty.reqs = <<>>
    OBVIOUS
  <1>4. /\ commands \in Seq(SessionCommand) /\ CommandsBelow(commands, lastSession) /\ lastSession \in Nat
        /\ ApartFrom(mSessionBiDict, lastSession, requests["tracking"].session)
    BY DEF TrackedInv, AnswerTypes
  <1> HIDE DEF c, empty
  <1>5. /\ requests' \in [QueueKinds -> [session : Nat, reqs : Seq(SessionOps)]]
        /\ requests'["tracking"] = empty /\ requests'["ni"] = empty
    BY <1>1, <1>3 DEF QueueKinds
  <1>6. commands' \in Seq(SessionCommand) /\ CommandsBelow(commands', lastSession)
    <2>1. c.session <= lastSession /\ lastSession <= lastSession
      BY <1>2, <1>4
    <2>2. \A q : q = Append(commands, c) => q \in Seq(SessionCommand) /\ CommandsBelow(q, lastSession)
      BY <1>2, <1>4, <2>1, BelowAdded
    <2> QED
      BY <1>1, <2>2
  <1>7. ApartFrom(mSessionBiDict', lastSession', requests'["tracking"].session)
    <2>1. \A s \in 1 .. lastSession : s # 0
      BY <1>4
    <2> QED
      BY <1>1, <1>3, <1>4, <1>5, <2>1 DEF ApartFrom
  <1>8. TrackedInTurn(commands', requests'["tracking"])
    BY <1>3, <1>5 DEF TrackedInTurn, TrackingInOrder
  <1>9. /\ lastSession' \in Nat /\ lastSession <= lastSession' /\ CommandsBelow(commands', lastSession')
        /\ requests'["tracking"].session \in 0 .. lastSession' /\ requests'["ni"].reqs \in {<<>>, <<"ni">>}
    BY <1>1, <1>3, <1>4, <1>5, <1>6
  <1> QED
    BY <1>1, <1>5, <1>6, <1>7, <1>8, <1>9, CallTracked

LEMMA TrackedStep ==
  ASSUME TrackedInv, [ClientNext]_clientVars
  PROVE  TrackedInv'
  <1>1. CASE UNCHANGED sessionVars
    BY <1>1 DEF sessionVars, TrackedInv, AnswerTypes, TrackingAnswersMatch
  <1>2. CASE destroyClient
    BY <1>2, DestroyTracked
  <1>3. CASE SessionsNext
    <2>1. CASE locAPIStartTracking
      BY <2>1, StartTrackingTracked
    <2>2. CASE locAPIStopTracking \/ locAPIUpdateTrackingOptions
      BY <2>2, PushTrackingTracked
    <2>3. ASSUME NEW id \in Ids, NEW mode \in {"fix", "batch", "trip"},
                 locAPIStartSession(id, mode) \/ locAPIUpdateSessionOptions(id, mode)
          PROVE  TrackedInv'
      BY <2>3, StartSessionTracked, UpdateSessionTracked
    <2>4. ASSUME NEW id \in Ids, locAPIStopSession(id) \/ locAPIGetBatchedLocations(id)
          PROVE  TrackedInv'
      <3>1. PICK op \in {"stop", "get", "update"} :
              /\ hasId(mSessionBiDict, id) /\ requests' = Push("session", op)
              /\ UNCHANGED <<lastSession, found, mSessionBiDict>>
              /\ commands' = Append(commands, Command(op, getSession(mSessionBiDict, id), op))
        BY <2>4 DEF locAPIStopSession, locAPIGetBatchedLocations
      <3>2. ApartFrom(mSessionBiDict', lastSession, requests["tracking"].session)
        BY <3>1 DEF TrackedInv
      <3> QED
        BY <3>1, <3>2, ByIdTracked
    <2>5. ASSUME NEW ni \in NiIds, locAPIGnssNiResponse(ni)
          PROVE  TrackedInv'
      BY <2>5, NiTracked
    <2>6. CASE Serve \/ onResponse \/ beforeBatchingStatusCb
      BY <2>6, ServeTracked, EndTracked, TripsTracked
    <2> QED
      BY <1>3, <2>1, <2>2, <2>3, <2>4, <2>5, <2>6 DEF SessionsNext
  <1>4. CASE locAPISetCallbacks
    BY <1>1, <1>4 DEF locAPISetCallbacks
  <1> QED
    BY <1>1, <1>2, <1>3, <1>4 DEF ClientNext, LifeNext, clientVars

\* Each response of the session tracked, and each answer to a network request, is handed
\* to the request it answers, for any calls, waiting or not, and whatever the adapters
\* refuse; but for numbers that a session and a network request share
\* (LocationAPIClientBase.cpp:957).
THEOREM TrackingAnswersFound == ClientSpec => []TrackingAnswersMatch
  <1>1. ClientInit => TrackedInv
    <2> SUFFICES ASSUME ClientInit
                 PROVE  TrackedInv
      OBVIOUS
    <2>1. /\ mSessionBiDict = BiEmpty /\ commands = <<>> /\ lastSession = 0 /\ found = NoneFound
          /\ requests = [q \in QueueKinds |-> [session |-> 0, reqs |-> <<>>]]
      BY DEF ClientInit
    <2>2. AnswerTypes
      BY <2>1, NoneFoundType DEF AnswerTypes
    <2>3. CommandsBelow(commands, lastSession)
      <3>1. DOMAIN commands = {}
        BY <2>1
      <3> QED
        BY <3>1 DEF CommandsBelow
    <2>4. requests["tracking"] = [session |-> 0, reqs |-> <<>>] /\ requests["ni"].reqs = <<>>
      BY <2>1 DEF QueueKinds
    <2>5. ApartFrom(mSessionBiDict, lastSession, requests["tracking"].session)
      BY <2>1 DEF ApartFrom, BiEmpty
    <2>6. TrackedInTurn(commands, requests["tracking"])
      BY <2>4 DEF TrackedInTurn, TrackingInOrder
    <2>7. TrackingAnswersMatch
      BY <2>1 DEF NoneFound, TrackingAnswersMatch
    <2> QED
      BY <2>1, <2>2, <2>3, <2>4, <2>5, <2>6, <2>7 DEF TrackedInv
  <1>2. TrackedInv /\ [ClientNext]_clientVars => TrackedInv'
    BY TrackedStep
  <1>3. TrackedInv => TrackingAnswersMatch
    BY DEF TrackedInv
  <1> QED
    BY <1>1, <1>2, <1>3, PTL DEF ClientSpec

\* The control client: its queues when a command is added or the first one served.
LEMMA QueueAdded ==
  ASSUME NEW cmds \in Seq(OneCommand), NEW c \in OneCommand, NEW queue, QueueInOrder(cmds, queue),
         c.kind = "one" => c.id # queue.session
  PROVE  QueueInOrder(Append(cmds, c), queue)
  <1> DEFINE q == Append(cmds, c)
             mine == OfId(cmds, queue.session)
  <1> q = Append(cmds, c)
    OBVIOUS
  <1> HIDE DEF q
  <1>1. /\ q[Len(q)] = c /\ DOMAIN q = DOMAIN cmds \cup {Len(q)}
        /\ \A i \in DOMAIN cmds : q[i] = cmds[i]
    BY CommandLast
  <1>2. CASE queue.session = 0
    BY <1>2 DEF QueueInOrder
  <1>3. CASE queue.session # 0
    <2>1. OfId(q, queue.session) = mine /\ mine \in SUBSET DOMAIN cmds
      <3>1. Len(q) \notin DOMAIN cmds
        <4>1. \A i \in DOMAIN cmds : i < Len(q) /\ i \in Nat
          BY CommandLast
        <4> QED
          BY <4>1
      <3> QED
        BY <1>1, <3>1 DEF OfId
    <2>2. InOrder(cmds, mine, queue.reqs)
      BY <1>3 DEF QueueInOrder
    <2> HIDE DEF mine
    <2>3. InOrder(q, mine, queue.reqs)
      BY <2>1, <2>2, OrderAddedOther
    <2> QED
      BY <1>3, <2>1, <2>3 DEF QueueInOrder
  <1> QED
    BY <1>2, <1>3

LEMMA QueuePushed ==
  ASSUME NEW cmds \in Seq(OneCommand), NEW c \in OneCommand, NEW reqs \in Seq(CtrlOps), NEW s, s # 0,
         InOrder(cmds, OfId(cmds, s), reqs), c.kind = "one", c.id = s,
         NEW after, after.session = s, after.reqs = Append(reqs, c.request)
  PROVE  QueueInOrder(Append(cmds, c), after)
  <1> DEFINE q == Append(cmds, c)
             mine == OfId(cmds, s)
  <1> q = Append(cmds, c)
    OBVIOUS
  <1> HIDE DEF q
  <1>1. /\ q[Len(q)] = c /\ DOMAIN q = DOMAIN cmds \cup {Len(q)} /\ Len(q) = Len(cmds) + 1
        /\ \A i \in DOMAIN cmds : q[i] = cmds[i]
    BY CommandLast
  <1>2. OfId(q, s) = mine \cup {Len(cmds) + 1}
    BY <1>1 DEF OfId
  <1>3. mine \in SUBSET DOMAIN cmds /\ c.request \in CtrlOps
    BY DEF OfId, OneCommand
  <1> HIDE DEF mine
  <1>4. InOrder(cmds, mine, reqs)
    BY DEF mine
  <1>5. InOrder(q, mine \cup {Len(cmds) + 1}, Append(reqs, c.request))
    BY <1>3, <1>4, OrderAdded
  <1> QED
    BY <1>2, <1>5 DEF QueueInOrder

LEMMA QueueStarted ==
  ASSUME NEW cmds \in Seq(OneCommand), NEW c \in OneCommand, c.kind = "one", c.id # 0,
         \A i \in DOMAIN cmds : cmds[i].id # c.id, NEW after, after.session = c.id, after.reqs = <<c.request>>
  PROVE  QueueInOrder(Append(cmds, c), after)
  <1>1. OfId(cmds, c.id) = {}
    BY DEF OfId
  <1>2. InOrder(cmds, OfId(cmds, c.id), <<>>)
    BY <1>1, OrderNone
  <1>3. <<>> \in Seq(CtrlOps) /\ Append(<<>>, c.request) = <<c.request>>
    OBVIOUS
  <1> QED
    BY <1>2, <1>3, QueuePushed

LEMMA QueueServed ==
  ASSUME NEW cmds \in Seq(OneCommand), cmds # <<>>, NEW queue, queue.reqs \in Seq(CtrlOps),
         QueueInOrder(cmds, queue), queue.session # 0
  PROVE  /\ ~(Head(cmds).kind = "one" /\ Head(cmds).id = queue.session) => QueueInOrder(Tail(cmds), queue)
         /\ Head(cmds).kind = "one" /\ Head(cmds).id = queue.session =>
              /\ queue.reqs # <<>> /\ Head(queue.reqs) = Head(cmds).request
              /\ \A after : after.session = queue.session /\ after.reqs = Tail(queue.reqs) =>
                   QueueInOrder(Tail(cmds), after)
  <1> DEFINE q == Tail(cmds)
             s == queue.session
             mine == OfId(cmds, s)
             left == {i \in DOMAIN q : i + 1 \in mine}
  <1> q = Tail(cmds)
    OBVIOUS
  <1> HIDE DEF q
  <1>1. /\ cmds[1] = Head(cmds) /\ 1 \in DOMAIN cmds
        /\ \A i \in DOMAIN q : i + 1 \in DOMAIN cmds /\ q[i] = cmds[i + 1]
    BY CommandFirst
  <1>2. OfId(q, s) = left /\ mine \in SUBSET DOMAIN cmds
    BY <1>1 DEF OfId
  <1>3. 1 \in mine <=> (Head(cmds).kind = "one" /\ Head(cmds).id = s)
    BY <1>1 DEF OfId
  <1>4. InOrder(cmds, mine, queue.reqs)
    BY DEF QueueInOrder
  <1> HIDE DEF mine
  <1>5. ASSUME 1 \notin mine
        PROVE  QueueInOrder(q, queue)
    <2>1. InOrder(Tail(cmds), {i \in DOMAIN Tail(cmds) : i + 1 \in mine}, queue.reqs)
      BY <1>2, <1>4, <1>5, OrderServedOther
    <2>2. InOrder(q, left, queue.reqs)
      BY <2>1 DEF q
    <2> QED
      BY <1>2, <2>2 DEF QueueInOrder
  <1>6. ASSUME 1 \in mine
        PROVE  /\ queue.reqs # <<>> /\ Head(queue.reqs) = Head(cmds).request
               /\ \A after : after.session = queue.session /\ after.reqs = Tail(queue.reqs) =>
                    QueueInOrder(q, after)
    <2>1. /\ queue.reqs # <<>> /\ Head(queue.reqs) = Head(cmds).request
          /\ InOrder(Tail(cmds), {i \in DOMAIN Tail(cmds) : i + 1 \in mine}, Tail(queue.reqs))
      BY <1>2, <1>4, <1>6, OrderServed
    <2>2. InOrder(q, left, Tail(queue.reqs))
      BY <2>1 DEF q
    <2>3. ASSUME NEW after, after.session = queue.session, after.reqs = Tail(queue.reqs)
          PROVE  QueueInOrder(q, after)
      BY <1>2, <2>2, <2>3 DEF QueueInOrder
    <2> QED
      BY <2>1, <2>3
  <1> QED
    BY <1>3, <1>5, <1>6

\* The calls of the service.
CtrlQueueType(last) == [CtrlKinds -> [session : 0 .. last, array : {NoArray}, reqs : Seq(CtrlOps)]]
LEMMA NumberedAdded ==
  ASSUME NEW cmds, NEW last \in Nat, CtrlNumbered(cmds, last), NEW c \in OneCommand, NEW then \in Nat, then >= last,
         c.id \in 1 .. then
  PROVE  CtrlNumbered(Append(cmds, c), then)
  <1> DEFINE q == Append(cmds, c)
  <1> q = Append(cmds, c)
    OBVIOUS
  <1> HIDE DEF q
  <1>0. cmds \in Seq(OneCommand) /\ 1 .. last \subseteq 1 .. then
    BY DEF CtrlNumbered
  <1>1. /\ q \in Seq(OneCommand) /\ q[Len(q)] = c /\ DOMAIN q = DOMAIN cmds \cup {Len(q)}
        /\ \A i \in DOMAIN cmds : q[i] = cmds[i]
    BY <1>0, CommandLast
  <1> QED
    BY <1>0, <1>1 DEF CtrlNumbered

LEMMA NextIdNew ==
  ASSUME ControlAnswers
  PROVE  /\ lastControl \in Nat /\ NextId \in Nat /\ NextId >= lastControl /\ NextId # 0
         /\ NextId \in 1 .. NextId /\ NextId \in 0 .. NextId
         /\ NextId \notin 0 .. lastControl /\ 0 .. lastControl \subseteq 0 .. NextId
         /\ \A i \in DOMAIN ctrlCommands : ctrlCommands[i].id # NextId
         /\ \A q \in CtrlKinds : ctrlQueues[q].session # NextId
  <1>1. /\ lastControl \in Nat /\ NextId \in Nat /\ NextId >= lastControl /\ NextId # 0
        /\ NextId \in 1 .. NextId /\ NextId \in 0 .. NextId
        /\ NextId \notin 0 .. lastControl /\ 0 .. lastControl \subseteq 0 .. NextId
    BY DEF ControlAnswers, NextId
  <1>2. \A i \in DOMAIN ctrlCommands : ctrlCommands[i].id \in 0 .. lastControl
    BY <1>1 DEF ControlAnswers, CtrlNumbered
  <1>3. \A q \in CtrlKinds : ctrlQueues[q].session \in 0 .. lastControl
    BY DEF ControlAnswers
  <1> QED
    BY <1>1, <1>2, <1>3

\* A call with an id of its own, whose queue starts anew.
LEMMA StartControlKeeps ==
  ASSUME ControlAnswers, NEW q \in {"delete", "control"}, NEW op \in CtrlOps, StartQueue(q, op),
         CtrlCommand("one", NextId, op), NewId, UNCHANGED ctrlFound
  PROVE  ControlAnswers'
  <1> DEFINE c == [kind |-> "one", id |-> NextId, request |-> op]
             o == IF q = "delete" THEN "control" ELSE "delete"
  <1>1. /\ lastControl \in Nat /\ NextId \in Nat /\ NextId >= lastControl /\ NextId # 0
        /\ NextId \in 1 .. NextId /\ NextId \in 0 .. NextId /\ 0 .. lastControl \subseteq 0 .. NextId
        /\ \A i \in DOMAIN ctrlCommands : ctrlCommands[i].id # NextId
        /\ \A x \in CtrlKinds : ctrlQueues[x].session # NextId
    BY NextIdNew
  <1>2. /\ ctrlCommands' = Append(ctrlCommands, c) /\ lastControl' = NextId
        /\ ctrlQueues' = [ctrlQueues EXCEPT ![q] = Queue(NextId, @.array, <<op>>)]
    BY DEF CtrlCommand, NewId, StartQueue
  <1>3. /\ ctrlQueues \in CtrlQueueType(lastControl) /\ ctrlCommands \in Seq(OneCommand)
        /\ CtrlNumbered(ctrlCommands, lastControl)
        /\ \A x \in {"delete", "control"} : QueueInOrder(ctrlCommands, ctrlQueues[x])
    BY DEF ControlAnswers, CtrlQueueType, CtrlNumbered
  <1>4. c \in OneCommand /\ c.kind = "one" /\ c.id = NextId /\ c.request = op
    BY <1>1 DEF OneCommand
  <1>5. /\ ctrlQueues' \in CtrlQueueType(NextId)
        /\ ctrlQueues'[q].session = NextId /\ ctrlQueues'[q].reqs = <<op>>
        /\ \A x \in CtrlKinds : x # q => ctrlQueues'[x] = ctrlQueues[x]
    <2>1. q \in CtrlKinds /\ ctrlQueues[q].array = NoArray
      BY <1>3 DEF CtrlKinds, CtrlQueueType
    <2>2. Queue(NextId, ctrlQueues[q].array, <<op>>) \in [session : 0 .. NextId, array : {NoArray}, reqs : Seq(CtrlOps)]
      BY <1>1, <2>1 DEF Queue
    <2>3. ctrlQueues \in [CtrlKinds -> [session : 0 .. NextId, array : {NoArray}, reqs : Seq(CtrlOps)]]
      BY <1>1, <1>3 DEF CtrlQueueType
    <2>4. ctrlQueues' = [ctrlQueues EXCEPT ![q] = Queue(NextId, ctrlQueues[q].array, <<op>>)]
      BY <1>2
    <2> QED
      BY <2>1, <2>2, <2>3, <2>4 DEF CtrlQueueType, Queue
  <1> HIDE DEF c
  <1>6. CtrlNumbered(ctrlCommands', lastControl')
    BY <1>1, <1>2, <1>3, <1>4, NumberedAdded
  <1>7. QueueInOrder(ctrlCommands', ctrlQueues'[q])
    <2>1. \A after : after.session = c.id /\ after.reqs = <<c.request>> => QueueInOrder(Append(ctrlCommands, c), after)
      BY <1>1, <1>3, <1>4, QueueStarted
    <2> QED
      BY <1>2, <1>4, <1>5, <2>1
  <1>8. \A x \in {"delete", "control"} : x # q =>
          QueueInOrder(ctrlCommands', ctrlQueues'[x]) /\ ctrlQueues'[x].session # NextId
    <2> SUFFICES ASSUME NEW x \in {"delete", "control"}, x # q
                 PROVE  QueueInOrder(ctrlCommands', ctrlQueues'[x]) /\ ctrlQueues'[x].session # NextId
      OBVIOUS
    <2>1. x \in CtrlKinds /\ ctrlQueues'[x] = ctrlQueues[x] /\ ctrlQueues[x].session # NextId
      BY <1>1, <1>5 DEF CtrlKinds
    <2>2. QueueInOrder(Append(ctrlCommands, c), ctrlQueues[x])
      BY <1>3, <1>4, <2>1, QueueAdded
    <2> QED
      BY <1>2, <2>1, <2>2
  <1>9. ctrlQueues'["delete"].session # ctrlQueues'["control"].session
    BY <1>5, <1>8
  <1>10. ControlAnswersMatch'
    BY DEF ControlAnswers, ControlAnswersMatch
  <1> QED
    BY <1>1, <1>2, <1>5, <1>6, <1>7, <1>8, <1>9, <1>10 DEF ControlAnswers, CtrlQueueType

LEMMA DisableKeeps ==
  ASSUME ControlAnswers, locAPIDisable
  PROVE  ControlAnswers'
  <1> DEFINE s == ctrlQueues["control"].session
             c == [kind |-> "one", id |-> s, request |-> "disable"]
  <1>1. /\ s > 0 /\ ctrlQueues' = [ctrlQueues EXCEPT !["control"].reqs = Append(@, "disable")]
        /\ ctrlCommands' = Append(ctrlCommands, c) /\ UNCHANGED <<lastControl, ctrlFound>>
    BY DEF locAPIDisable, CtrlCommand
  <1>2. /\ ctrlQueues \in CtrlQueueType(lastControl) /\ ctrlCommands \in Seq(OneCommand) /\ lastControl \in Nat
        /\ CtrlNumbered(ctrlCommands, lastControl)
        /\ QueueInOrder(ctrlCommands, ctrlQueues["delete"]) /\ QueueInOrder(ctrlCommands, ctrlQueues["control"])
        /\ ctrlQueues["delete"].session = ctrlQueues["control"].session => ctrlQueues["delete"].session = 0
    BY DEF ControlAnswers, CtrlQueueType, CtrlNumbered
  <1>3. s \in 0 .. lastControl /\ s \in 1 .. lastControl /\ s # 0 /\ s \in Nat
        /\ ctrlQueues["control"].reqs \in Seq(CtrlOps) /\ "disable" \in CtrlOps
    <2>1. s \in 0 .. lastControl /\ ctrlQueues["control"].reqs \in Seq(CtrlOps)
      BY <1>2 DEF CtrlQueueType, CtrlKinds
    <2> QED
      BY <1>1, <1>2, <2>1 DEF CtrlOps
  <1>4. c \in OneCommand /\ c.kind = "one" /\ c.id = s /\ c.request = "disable"
    BY <1>3 DEF OneCommand
  <1>5. /\ ctrlQueues' \in CtrlQueueType(lastControl)
        /\ ctrlQueues'["control"].session = s
        /\ ctrlQueues'["control"].reqs = Append(ctrlQueues["control"].reqs, "disable")
        /\ ctrlQueues'["delete"] = ctrlQueues["delete"]
    <2> DEFINE new == Append(ctrlQueues["control"].reqs, "disable")
    <2>1. new \in Seq(CtrlOps) /\ ctrlQueues["control"] \in [session : 0 .. lastControl, array : {NoArray}, reqs : Seq(CtrlOps)]
      BY <1>2, <1>3 DEF CtrlQueueType, CtrlKinds
    <2>2. ctrlQueues' = [ctrlQueues EXCEPT !["control"].reqs = new]
      BY <1>1
    <2> HIDE DEF new
    <2>3. ctrlQueues' = [ctrlQueues EXCEPT !["control"] = [ctrlQueues["control"] EXCEPT !.reqs = new]]
      BY <1>2, <2>2
    <2>4. [ctrlQueues["control"] EXCEPT !.reqs = new] \in [session : 0 .. lastControl, array : {NoArray}, reqs : Seq(CtrlOps)]
      BY <2>1
    <2> QED
      BY <1>2, <2>1, <2>3, <2>4 DEF CtrlQueueType, CtrlKinds, new
  <1> HIDE DEF c
  <1>6. CtrlNumbered(ctrlCommands', lastControl')
    BY <1>1, <1>2, <1>3, <1>4, NumberedAdded
  <1>7. QueueInOrder(ctrlCommands', ctrlQueues'["control"])
    <2>1. InOrder(ctrlCommands, OfId(ctrlCommands, s), ctrlQueues["control"].reqs)
      BY <1>2, <1>3 DEF QueueInOrder
    <2>2. \A after : after.session = s /\ after.reqs = Append(ctrlQueues["control"].reqs, c.request) =>
            QueueInOrder(Append(ctrlCommands, c), after)
      BY <1>2, <1>3, <1>4, <2>1, QueuePushed
    <2> QED
      BY <1>1, <1>4, <1>5, <2>2
  <1>8. QueueInOrder(ctrlCommands', ctrlQueues'["delete"])
    <2>1. c.id # ctrlQueues["delete"].session
      BY <1>2, <1>3, <1>4
    <2>2. QueueInOrder(Append(ctrlCommands, c), ctrlQueues["delete"])
      BY <1>2, <1>4, <2>1, QueueAdded
    <2> QED
      BY <1>1, <1>5, <2>2
  <1>9. ControlAnswersMatch'
    BY <1>1 DEF ControlAnswers, ControlAnswersMatch
  <1> QED
    BY <1>1, <1>2, <1>5, <1>6, <1>7, <1>8, <1>9 DEF ControlAnswers, CtrlQueueType

LEMMA ConfigKeeps ==
  ASSUME ControlAnswers, NEW q \in {"update", "get"}, PushConfig(q), CtrlCommand("array", NextId, q), NewId,
         UNCHANGED ctrlFound
  PROVE  ControlAnswers'
  <1> DEFINE c == [kind |-> "array", id |-> NextId, request |-> q]
  <1>1. /\ lastControl \in Nat /\ NextId \in Nat /\ NextId >= lastControl
        /\ NextId \in 1 .. NextId /\ 0 .. lastControl \subseteq 0 .. NextId
    BY NextIdNew
  <1>2. /\ ctrlQueues \in CtrlQueueType(lastControl) /\ ctrlCommands \in Seq(OneCommand)
        /\ CtrlNumbered(ctrlCommands, lastControl)
        /\ \A x \in {"delete", "control"} : QueueInOrder(ctrlCommands, ctrlQueues[x])
        /\ ctrlQueues["delete"].session = ctrlQueues["control"].session => ctrlQueues["delete"].session = 0
    BY DEF ControlAnswers, CtrlQueueType, CtrlNumbered
  <1>3. /\ ctrlCommands' = Append(ctrlCommands, c) /\ lastControl' = NextId
    BY DEF CtrlCommand, NewId
  <1>4. c \in OneCommand /\ c.kind = "array" /\ c.id = NextId
    BY <1>1 DEF OneCommand, CtrlOps
  <1>5. /\ ctrlQueues' \in CtrlQueueType(NextId)
        /\ \A x \in CtrlKinds : x # q => ctrlQueues'[x] = ctrlQueues[x]
    <2> DEFINE old == ctrlQueues[q]
               new == Queue(old.session, old.array, Append(old.reqs, q))
    <2>1. old \in [session : 0 .. lastControl, array : {NoArray}, reqs : Seq(CtrlOps)] /\ q \in CtrlKinds /\ q \in CtrlOps
      BY <1>2 DEF CtrlKinds, CtrlQueueType, CtrlOps
    <2>2. ctrlQueues' = [ctrlQueues EXCEPT ![q] = new]
      BY <2>1 DEF PushConfig
    <2>3. new \in [session : 0 .. NextId, array : {NoArray}, reqs : Seq(CtrlOps)]
      BY <1>1, <2>1 DEF Queue
    <2>4. ctrlQueues \in CtrlQueueType(NextId)
      BY <1>1, <1>2 DEF CtrlQueueType
    <2> HIDE DEF new
    <2> QED
      BY <2>1, <2>2, <2>3, <2>4 DEF CtrlQueueType
  <1> HIDE DEF c
  <1>6. CtrlNumbered(ctrlCommands', lastControl')
    BY <1>1, <1>2, <1>3, <1>4, NumberedAdded
  <1>7. \A x \in {"delete", "control"} : QueueInOrder(ctrlCommands', ctrlQueues'[x]) /\ ctrlQueues'[x] = ctrlQueues[x]
    <2> SUFFICES ASSUME NEW x \in {"delete", "control"}
                 PROVE  QueueInOrder(ctrlCommands', ctrlQueues'[x]) /\ ctrlQueues'[x] = ctrlQueues[x]
      OBVIOUS
    <2>1. ctrlQueues'[x] = ctrlQueues[x]
      BY <1>5 DEF CtrlKinds
    <2>2. QueueInOrder(Append(ctrlCommands, c), ctrlQueues[x])
      BY <1>2, <1>4, QueueAdded
    <2> QED
      BY <1>3, <2>1, <2>2
  <1>8. ControlAnswersMatch'
    BY DEF ControlAnswers, ControlAnswersMatch
  <1> QED
    BY <1>1, <1>2, <1>3, <1>5, <1>6, <1>7, <1>8 DEF ControlAnswers, CtrlQueueType

\* The queue a response belongs to.
LEMMA OwnersFound ==
  ASSUME NEW id, NEW waiting, waiting = {q \in getCtrlRequestBySession(id) : ctrlQueues[q].reqs # <<>>},
         ctrlQueues["delete"].session = id /\ ctrlQueues["control"].session = id =>
           ctrlQueues["delete"].reqs = <<>> /\ ctrlQueues["control"].reqs = <<>>
  PROVE  /\ waiting \subseteq {"delete", "control"}
         /\ \A q \in {"delete", "control"} :
              q \in waiting <=> ctrlQueues[q].session = id /\ ctrlQueues[q].reqs # <<>>
  BY DEF getCtrlRequestBySession, First

LEMMA NoArrayFound ==
  ASSUME ControlAnswers, NEW id \in Nat, id # 0
  PROVE  getRequestBySessionArrayPtr(id) = {}
  <1>1. ctrlQueues["update"].array = 0 /\ ctrlQueues["get"].array = 0
    BY DEF ControlAnswers, CtrlKinds, NoArray
  <1> QED
    BY <1>1 DEF getRequestBySessionArrayPtr, First

LEMMA CtrlResponseKeeps ==
  ASSUME ControlAnswers, onCtrlResponse
  PROVE  ControlAnswers'
  <1> DEFINE c == Head(ctrlCommands)
             owners == IF c.kind = "one" THEN getCtrlRequestBySession(c.id) ELSE getRequestBySessionArrayPtr(c.id)
             waiting == {q \in owners : ctrlQueues[q].reqs # <<>>}
  <1>1. /\ ctrlCommands # <<>> /\ ctrlCommands' = Tail(ctrlCommands) /\ UNCHANGED lastControl
        /\ IF waiting = {} THEN ctrlFound' = NoCtrlFound /\ UNCHANGED ctrlQueues
           ELSE \E q \in waiting : /\ ctrlFound' = <<Head(ctrlQueues[q].reqs), c.request>>
                                   /\ ctrlQueues' = [ctrlQueues EXCEPT ![q].reqs = Tail(@)]
    BY Zenon DEF onCtrlResponse
  <1>2. /\ ctrlQueues \in CtrlQueueType(lastControl) /\ ctrlCommands \in Seq(OneCommand)
        /\ CtrlNumbered(ctrlCommands, lastControl) /\ lastControl \in Nat
        /\ \A x \in {"delete", "control"} : QueueInOrder(ctrlCommands, ctrlQueues[x])
        /\ ctrlQueues["delete"].session = ctrlQueues["control"].session => ctrlQueues["delete"].session = 0
    BY DEF ControlAnswers, CtrlQueueType, CtrlNumbered
  <1>3. /\ c = ctrlCommands[1] /\ 1 \in DOMAIN ctrlCommands /\ c \in OneCommand
        /\ ctrlCommands' \in Seq(OneCommand)
        /\ \A i \in DOMAIN ctrlCommands' : i + 1 \in DOMAIN ctrlCommands /\ ctrlCommands'[i] = ctrlCommands[i + 1]
    BY <1>1, <1>2, CommandFirst
  <1>4. CtrlNumbered(ctrlCommands', lastControl')
    BY <1>1, <1>2, <1>3 DEF CtrlNumbered
  <1>5. c.id \in 1 .. lastControl /\ c.id \in Nat /\ c.id # 0
    <2>1. c.id \in 1 .. lastControl
      BY <1>2, <1>3 DEF CtrlNumbered
    <2> QED
      BY <1>2, <2>1
  <1>6. \A x \in {"delete", "control"} : ctrlQueues[x].reqs \in Seq(CtrlOps) /\ ctrlQueues[x].session \in Nat
    BY <1>2 DEF CtrlQueueType, CtrlKinds
  <1>7. \A x \in {"delete", "control"} :
          /\ ~(c.kind = "one" /\ c.id = ctrlQueues[x].session) => QueueInOrder(ctrlCommands', ctrlQueues[x])
          /\ c.kind = "one" /\ c.id = ctrlQueues[x].session =>
               /\ ctrlQueues[x].reqs # <<>> /\ Head(ctrlQueues[x].reqs) = c.request
               /\ \A after : after.session = ctrlQueues[x].session /\ after.reqs = Tail(ctrlQueues[x].reqs) =>
                    QueueInOrder(ctrlCommands', after)
    <2> SUFFICES ASSUME NEW x \in {"delete", "control"}
                 PROVE  /\ ~(c.kind = "one" /\ c.id = ctrlQueues[x].session) => QueueInOrder(ctrlCommands', ctrlQueues[x])
                        /\ c.kind = "one" /\ c.id = ctrlQueues[x].session =>
                             /\ ctrlQueues[x].reqs # <<>> /\ Head(ctrlQueues[x].reqs) = c.request
                             /\ \A after : after.session = ctrlQueues[x].session /\ after.reqs = Tail(ctrlQueues[x].reqs) =>
                                  QueueInOrder(ctrlCommands', after)
      OBVIOUS
    <2>1. CASE ctrlQueues[x].session = 0
      <3>1. ctrlQueues[x].reqs = <<>>
        BY <1>2, <2>1 DEF QueueInOrder
      <3> QED
        BY <1>5, <2>1, <3>1 DEF QueueInOrder
    <2>2. CASE ctrlQueues[x].session # 0
      <3>1. ctrlQueues[x].reqs \in Seq(CtrlOps) /\ QueueInOrder(ctrlCommands, ctrlQueues[x])
        BY <1>2, <1>6
      <3> HIDE DEF c
      <3>2. /\ ~(c.kind = "one" /\ c.id = ctrlQueues[x].session) => QueueInOrder(Tail(ctrlCommands), ctrlQueues[x])
            /\ c.kind = "one" /\ c.id = ctrlQueues[x].session =>
                 /\ ctrlQueues[x].reqs # <<>> /\ Head(ctrlQueues[x].reqs) = c.request
                 /\ \A after : after.session = ctrlQueues[x].session /\ after.reqs = Tail(ctrlQueues[x].reqs) =>
                      QueueInOrder(Tail(ctrlCommands), after)
        BY <1>1, <1>2, <2>2, <3>1, QueueServed DEF c
      <3> QED
        BY <1>1, <3>2
    <2> QED
      BY <2>1, <2>2
  <1>8. /\ waiting \subseteq {"delete", "control"}
        /\ \A q \in {"delete", "control"} : q \in waiting <=> c.kind = "one" /\ c.id = ctrlQueues[q].session
    <2>1. CASE c.kind = "one"
      <3>1. ~(ctrlQueues["delete"].session = c.id /\ ctrlQueues["control"].session = c.id)
        BY <1>2, <1>5
      <3>2. waiting = {q \in getCtrlRequestBySession(c.id) : ctrlQueues[q].reqs # <<>>}
        BY <2>1
      <3> HIDE DEF waiting, c
      <3>3. /\ waiting \subseteq {"delete", "control"}
            /\ \A q \in {"delete", "control"} :
                 q \in waiting <=> ctrlQueues[q].session = c.id /\ ctrlQueues[q].reqs # <<>>
        BY <3>1, <3>2, OwnersFound
      <3> QED
        BY <1>7, <2>1, <3>3
    <2>2. CASE c.kind # "one"
      <3>1. getRequestBySessionArrayPtr(c.id) = {}
        BY <1>5, NoArrayFound
      <3>2. waiting = {}
        BY <2>2, <3>1
      <3> QED
        BY <2>2, <3>2
    <2> QED
      BY <2>1, <2>2
  <1> HIDE DEF waiting, owners, c
  <1>9. CASE waiting = {}
    <2>1. ctrlFound' = NoCtrlFound /\ UNCHANGED ctrlQueues
      BY <1>1, <1>9
    <2>2. ControlAnswersMatch'
      BY <2>1 DEF ControlAnswersMatch, NoCtrlFound
    <2>3. \A x \in {"delete", "control"} : QueueInOrder(ctrlCommands', ctrlQueues'[x])
      BY <1>7, <1>8, <1>9, <2>1
    <2> QED
      BY <1>1, <1>2, <1>4, <2>1, <2>2, <2>3 DEF ControlAnswers, CtrlQueueType
  <1>10. ASSUME NEW q \in waiting, ctrlFound' = <<Head(ctrlQueues[q].reqs), c.request>>,
                ctrlQueues' = [ctrlQueues EXCEPT ![q].reqs = Tail(@)]
         PROVE  ControlAnswers'
    <2>1. q \in {"delete", "control"} /\ c.kind = "one" /\ c.id = ctrlQueues[q].session
      BY <1>8, <1>10
    <2>2. /\ ctrlQueues[q].reqs # <<>> /\ Head(ctrlQueues[q].reqs) = c.request /\ ctrlQueues[q].reqs \in Seq(CtrlOps)
          /\ \A after : after.session = ctrlQueues[q].session /\ after.reqs = Tail(ctrlQueues[q].reqs) =>
               QueueInOrder(ctrlCommands', after)
      BY <1>6, <1>7, <2>1
    <2>3. /\ ctrlQueues' \in CtrlQueueType(lastControl)
          /\ ctrlQueues'[q].session = ctrlQueues[q].session /\ ctrlQueues'[q].reqs = Tail(ctrlQueues[q].reqs)
          /\ \A x \in CtrlKinds : x # q => ctrlQueues'[x] = ctrlQueues[x]
      <3> DEFINE new == Tail(ctrlQueues[q].reqs)
      <3>1. /\ new \in Seq(CtrlOps) /\ q \in CtrlKinds
            /\ ctrlQueues[q] \in [session : 0 .. lastControl, array : {NoArray}, reqs : Seq(CtrlOps)]
        BY <1>2, <2>1, <2>2 DEF CtrlQueueType, CtrlKinds
      <3>2. ctrlQueues' = [ctrlQueues EXCEPT ![q].reqs = new]
        BY <1>10
      <3> HIDE DEF new
      <3>3. ctrlQueues' = [ctrlQueues EXCEPT ![q] = [ctrlQueues[q] EXCEPT !.reqs = new]]
        BY <1>2, <3>1, <3>2
      <3>4. [ctrlQueues[q] EXCEPT !.reqs = new] \in [session : 0 .. lastControl, array : {NoArray}, reqs : Seq(CtrlOps)]
        BY <3>1
      <3> QED
        BY <1>2, <3>1, <3>3, <3>4 DEF CtrlQueueType, new
    <2>4. QueueInOrder(ctrlCommands', ctrlQueues'[q])
      BY <2>2, <2>3
    <2>5. \A x \in {"delete", "control"} : x # q => QueueInOrder(ctrlCommands', ctrlQueues'[x])
      <3> SUFFICES ASSUME NEW x \in {"delete", "control"}, x # q
                   PROVE  QueueInOrder(ctrlCommands', ctrlQueues'[x])
        OBVIOUS
      <3>1. ctrlQueues'[x] = ctrlQueues[x]
        BY <2>3 DEF CtrlKinds
      <3>2. c.id # ctrlQueues[x].session
        BY <1>2, <1>5, <2>1
      <3> QED
        BY <1>7, <3>1, <3>2
    <2>6. \A x \in {"delete", "control"} : ctrlQueues'[x].session = ctrlQueues[x].session
      BY <2>3 DEF CtrlKinds
    <2>7. ControlAnswersMatch'
      BY <1>10, <2>2 DEF ControlAnswersMatch
    <2> QED
      BY <1>1, <1>2, <1>4, <2>3, <2>4, <2>5, <2>6, <2>7 DEF ControlAnswers, CtrlQueueType
  <1> QED
    BY <1>1, <1>9, <1>10

LEMMA ControlAnswersStep ==
  ASSUME ControlAnswers, [ClientNext]_clientVars
  PROVE  ControlAnswers'
  <1>1. CASE UNCHANGED controlVars
    BY <1>1 DEF controlVars, ControlAnswers, ControlAnswersMatch
  <1>2. CASE ControlNext
    <2>1. CASE locAPIGnssDeleteAidingData
      <3>1. "delete" \in CtrlOps
        BY DEF CtrlOps
      <3> QED
        BY <2>1, <3>1, StartControlKeeps DEF locAPIGnssDeleteAidingData
    <2>2. CASE locAPIEnable
      <3>1. "enable" \in CtrlOps
        BY DEF CtrlOps
      <3> QED
        BY <2>2, <3>1, StartControlKeeps DEF locAPIEnable
    <2>3. CASE locAPIDisable
      BY <2>3, DisableKeeps
    <2>4. ASSUME NEW config \in ControlConfigs, locAPIGnssUpdateConfig(config)
          PROVE  ControlAnswers'
      BY <2>4, ConfigKeeps DEF locAPIGnssUpdateConfig
    <2>5. CASE locAPIGnssGetConfig
      BY <2>5, ConfigKeeps DEF locAPIGnssGetConfig
    <2>6. CASE onCtrlResponse
      BY <2>6, CtrlResponseKeeps
    <2> QED
      BY <1>2, <2>1, <2>2, <2>3, <2>4, <2>5, <2>6 DEF ControlNext
  <1> QED
    BY <1>1, <1>2 DEF ClientNext, clientVars

LEMMA ControlAnswersInit ==
  ASSUME ControlInit
  PROVE  ControlAnswers
  <1>1. /\ lastControl = 0 /\ ctrlCommands = <<>> /\ ctrlFound = NoCtrlFound
        /\ ctrlQueues = [q \in CtrlKinds |-> Queue(0, NoArray, <<>>)]
    BY DEF ControlInit
  <1>2. CtrlNumbered(ctrlCommands, lastControl)
    <2>1. ctrlCommands \in Seq(OneCommand) /\ DOMAIN ctrlCommands = {}
      BY <1>1
    <2> QED
      BY <2>1 DEF CtrlNumbered
  <1>3. Queue(0, NoArray, <<>>) \in [session : 0 .. 0, array : {NoArray}, reqs : Seq(CtrlOps)]
    BY DEF Queue
  <1>4. ctrlQueues \in [CtrlKinds -> [session : 0 .. lastControl, array : {NoArray}, reqs : Seq(CtrlOps)]]
    BY <1>1, <1>3
  <1>5. \A q \in {"delete", "control"} : ctrlQueues[q].session = 0 /\ ctrlQueues[q].reqs = <<>>
    BY <1>1 DEF CtrlKinds, Queue
  <1>6. ControlAnswersMatch
    BY <1>1 DEF NoCtrlFound, ControlAnswersMatch
  <1> QED
    BY <1>1, <1>2, <1>4, <1>5, <1>6 DEF ControlAnswers, QueueInOrder

\* Each response of the control client is handed to the request it answers, for any calls,
\* waiting or not (LocationAPIClientBase.cpp:128).
THEOREM ControlAnswersFound == ClientSpec => []ControlAnswersMatch
  <1>1. ClientInit => ControlAnswers
    BY ControlAnswersInit DEF ClientInit
  <1>2. ControlAnswers /\ [ClientNext]_clientVars => ControlAnswers'
    BY ControlAnswersStep
  <1>3. ControlAnswers => ControlAnswersMatch
    BY DEF ControlAnswers
  <1> QED
    BY <1>1, <1>2, <1>3, PTL DEF ClientSpec

-----------------------------------------------------------------------------
(* The client's geofences.                                                 *)

\* The dictionary has each session with the id its fence was added under, and each id
\* with a session that was added under it.
FencesRecorded(d, added) ==
  /\ \A id \in DOMAIN d.forward : d.forward[id] \in DOMAIN added /\ added[d.forward[id]] = id
  /\ \A s \in DOMAIN d.backward : s \in DOMAIN added /\ d.backward[s] = added[s]
  /\ DOMAIN d.ext \subseteq DOMAIN d.backward
BreachesRecorded(heard, added) == \A b \in heard : b[1] \in DOMAIN added /\ b[2] = added[b[1]]
FencesTold ==
  /\ addedAs \in Seq(FenceIds) /\ lastFence = Len(addedAs)
  /\ FencesRecorded(mGeofenceBiDict, addedAs) /\ BreachesRecorded(breached, addedAs)

\* What setting some fences in the dictionary does.
SetOf(ids, sessions) == {k \in DOMAIN ids : sessions[k] > 0}
SetEach(f, keys, values, set) ==
  [x \in DOMAIN f \cup {keys[k] : k \in set} |->
     IF \E k \in set : keys[k] = x THEN values[CHOOSE k \in set : keys[k] = x] ELSE f[x]]
EachIsSet(g, f, keys, values, set) ==
  /\ DOMAIN g = DOMAIN f \cup {keys[k] : k \in set}
  /\ \A x \in DOMAIN g :
       \/ \E k \in set : keys[k] = x /\ g[x] = values[k]
       \/ x \in DOMAIN f /\ g[x] = f[x] /\ \A k \in set : keys[k] # x
LEMMA EachSet ==
  ASSUME NEW f, NEW keys, NEW values, NEW set, NEW g, g = SetEach(f, keys, values, set)
  PROVE  EachIsSet(g, f, keys, values, set)
  <1>1. DOMAIN g = DOMAIN f \cup {keys[k] : k \in set}
    BY DEF SetEach
  <1>2. ASSUME NEW x \in DOMAIN g, \E k \in set : keys[k] = x
        PROVE  \E k \in set : keys[k] = x /\ g[x] = values[k]
    <2> DEFINE k == CHOOSE k \in set : keys[k] = x
    <2>1. k \in set /\ keys[k] = x
      BY <1>2
    <2>2. g[x] = values[k]
      BY <1>1, <1>2 DEF SetEach
    <2> HIDE DEF k
    <2> QED
      BY <2>1, <2>2
  <1>3. ASSUME NEW x \in DOMAIN g, ~\E k \in set : keys[k] = x
        PROVE  x \in DOMAIN f /\ g[x] = f[x] /\ \A k \in set : keys[k] # x
    BY <1>1, <1>3 DEF SetEach
  <1> QED
    BY <1>1, <1>2, <1>3 DEF EachIsSet

LEMMA MasksSet ==
  ASSUME NEW d, NEW ids, NEW sessions, NEW masks, NEW r, r = SetMasks(d, ids, sessions, masks)
  PROVE  LET set == SetOf(ids, sessions) IN
         /\ EachIsSet(r.forward, d.forward, ids, sessions, set)
         /\ EachIsSet(r.backward, d.backward, sessions, ids, set)
         /\ EachIsSet(r.ext, d.ext, sessions, masks, set)
  <1> DEFINE set == SetOf(ids, sessions)
             f == d.forward
             b == d.backward
             x == d.ext
             f1 == r.forward
             b1 == r.backward
             x1 == r.ext
  <1>1. /\ f1 = SetEach(f, ids, sessions, set) /\ b1 = SetEach(b, sessions, ids, set)
        /\ x1 = SetEach(x, sessions, masks, set)
    BY DEF SetMasks, SetOf, SetEach
  <1> HIDE DEF set, f, b, x, f1, b1, x1
  <1>2. EachIsSet(f1, f, ids, sessions, set) /\ EachIsSet(b1, b, sessions, ids, set)
        /\ EachIsSet(x1, x, sessions, masks, set)
    BY <1>1, EachSet
  <1> QED
    BY <1>2 DEF set, f, b, x, f1, b1, x1

\* Fences set under the ids they were added under, and fences removed.
LEMMA RecordedSet ==
  ASSUME NEW d, NEW added, FencesRecorded(d, added), NEW ids, NEW sessions, NEW masks,
         NEW r, r = SetMasks(d, ids, sessions, masks),
         \A k \in SetOf(ids, sessions) : sessions[k] \in DOMAIN added /\ added[sessions[k]] = ids[k]
  PROVE  FencesRecorded(r, added)
  <1> DEFINE set == SetOf(ids, sessions)
  <1>1. /\ EachIsSet(r.forward, d.forward, ids, sessions, set)
        /\ EachIsSet(r.backward, d.backward, sessions, ids, set)
        /\ EachIsSet(r.ext, d.ext, sessions, masks, set)
    BY MasksSet
  <1>2. \A k \in set : sessions[k] \in DOMAIN added /\ added[sessions[k]] = ids[k]
    OBVIOUS
  <1> HIDE DEF set
  <1>3. \A id \in DOMAIN r.forward : r.forward[id] \in DOMAIN added /\ added[r.forward[id]] = id
    BY <1>1, <1>2 DEF EachIsSet, FencesRecorded
  <1>4. \A s \in DOMAIN r.backward : s \in DOMAIN added /\ r.backward[s] = added[s]
    BY <1>1, <1>2 DEF EachIsSet, FencesRecorded
  <1>5. DOMAIN r.ext \subseteq DOMAIN r.backward
    BY <1>1 DEF EachIsSet, FencesRecorded
  <1> QED
    BY <1>3, <1>4, <1>5 DEF FencesRecorded

LEMMA RecordedRemoved ==
  ASSUME NEW d, NEW added, FencesRecorded(d, added), NEW S
  PROVE  FencesRecorded(rmSessions(d, S), added)
  <1> DEFINE r == rmSessions(d, S)
  <1>1. /\ DOMAIN r.forward \subseteq DOMAIN d.forward
        /\ \A id \in DOMAIN r.forward : r.forward[id] = d.forward[id]
        /\ DOMAIN r.backward = DOMAIN d.backward \ S /\ DOMAIN r.ext = DOMAIN d.ext \ S
        /\ \A s \in DOMAIN r.backward : r.backward[s] = d.backward[s]
    BY DEF rmSessions
  <1> HIDE DEF r
  <1>2. FencesRecorded(r, added)
    BY <1>1 DEF FencesRecorded
  <1> QED
    BY <1>2 DEF r

\* Setting fences anew with the sessions they have.
LEMMA RecordedAgain ==
  ASSUME FencesTold, NEW ids, NEW masks, NEW r, r = SetMasks(mGeofenceBiDict, ids, Sessions(ids), masks)
  PROVE  FencesRecorded(r, addedAs)
  <1> DEFINE d == mGeofenceBiDict
             sessions == Sessions(ids)
  <1>1. addedAs \in Seq(FenceIds) /\ FencesRecorded(d, addedAs)
    BY DEF FencesTold
  <1>2. \A k \in SetOf(ids, sessions) : sessions[k] = getSession(d, ids[k]) /\ sessions[k] > 0
    BY DEF Sessions, SetOf
  <1>3. \A id : getSession(d, id) > 0 => id \in DOMAIN d.forward /\ getSession(d, id) = d.forward[id]
    <2>1. \A id : id \notin DOMAIN d.forward => getSession(d, id) = 0
      BY DEF getSession, Get
    <2>2. \A id \in DOMAIN d.forward : getSession(d, id) = d.forward[id]
      BY DEF getSession, Get
    <2>3. ~(0 > 0)
      OBVIOUS
    <2> QED
      BY <2>1, <2>2, <2>3
  <1> HIDE DEF sessions, d
  <1>4. \A k \in SetOf(ids, sessions) : sessions[k] \in DOMAIN addedAs /\ addedAs[sessions[k]] = ids[k]
    BY <1>1, <1>2, <1>3 DEF FencesRecorded
  <1> QED
    BY <1>1, <1>4, RecordedSet DEF sessions, d

\* The lists of ids that are passed.
LEMMA IdListType ==
  ASSUME NEW ids \in IdLists
  PROVE  ids \in Seq(FenceIds)
  <1>1. CASE ids \in {<<id>> : id \in FenceIds}
    <2>1. PICK id \in FenceIds : ids = <<id>>
      BY <1>1
    <2> QED
      BY <2>1
  <1>2. CASE ids \in FenceIds \X FenceIds
    <2>1. PICK a \in FenceIds, b \in FenceIds : ids = <<a, b>>
      BY <1>2
    <2> QED
      BY <2>1
  <1> QED
    BY <1>1, <1>2 DEF IdLists

LEMMA AddTold ==
  ASSUME FencesTold, NEW ids \in IdLists, NEW masks, locAPIAddGeofences(ids, masks)
  PROVE  FencesTold'
  <1> DEFINE sessions == [k \in DOMAIN ids |-> lastFence + k]
             d == mGeofenceBiDict
             all == addedAs \o ids
  <1>1. /\ mGeofenceBiDict' = SetMasks(d, ids, sessions, masks) /\ addedAs' = all
        /\ lastFence' = lastFence + Len(ids) /\ UNCHANGED breached
    BY DEF locAPIAddGeofences
  <1>2. /\ addedAs \in Seq(FenceIds) /\ lastFence = Len(addedAs)
        /\ FencesRecorded(d, addedAs) /\ BreachesRecorded(breached, addedAs)
    BY DEF FencesTold
  <1>3. ids \in Seq(FenceIds)
    BY IdListType
  <1>4. /\ all \in Seq(FenceIds) /\ Len(all) = lastFence + Len(ids) /\ DOMAIN addedAs \subseteq DOMAIN all
        /\ \A s \in DOMAIN addedAs : all[s] = addedAs[s]
        /\ \A k \in DOMAIN ids : lastFence + k \in DOMAIN all /\ all[lastFence + k] = ids[k]
    BY <1>2, <1>3
  <1>5. \A k \in DOMAIN ids : sessions[k] \in DOMAIN all /\ all[sessions[k]] = ids[k]
    BY <1>4
  <1> HIDE DEF all, sessions, d
  <1>6. FencesRecorded(d, all)
    BY <1>2, <1>4 DEF FencesRecorded
  <1>7. BreachesRecorded(breached, all)
    BY <1>2, <1>4 DEF BreachesRecorded
  <1>8. \A k \in SetOf(ids, sessions) : sessions[k] \in DOMAIN all /\ all[sessions[k]] = ids[k]
    BY <1>5 DEF SetOf
  <1>9. \A r : r = SetMasks(d, ids, sessions, masks) => FencesRecorded(r, all)
    BY <1>6, <1>8, RecordedSet
  <1> QED
    BY <1>1, <1>4, <1>7, <1>9 DEF FencesTold

LEMMA DictTold ==
  ASSUME FencesTold, UNCHANGED <<lastFence, addedAs, breached>>, FencesRecorded(mGeofenceBiDict', addedAs)
  PROVE  FencesTold'
  BY DEF FencesTold

LEMMA FencesToldStep ==
  ASSUME FencesTold, [ClientNext]_clientVars
  PROVE  FencesTold'
  <1>1. CASE UNCHANGED <<mGeofenceBiDict, lastFence, addedAs, breached>>
    BY <1>1 DEF FencesTold
  <1>2. ASSUME NEW ids, NEW masks, locAPIModifyGeofences(ids, masks) \/ locAPIResumeGeofences(ids, masks)
        PROVE  FencesTold'
    <2>1. /\ UNCHANGED <<lastFence, addedAs, breached>>
          /\ \/ mGeofenceBiDict' = mGeofenceBiDict
             \/ mGeofenceBiDict' = SetMasks(mGeofenceBiDict, ids, Sessions(ids), masks)
      BY <1>2 DEF locAPIModifyGeofences, locAPIResumeGeofences
    <2>2. \A r : r = SetMasks(mGeofenceBiDict, ids, Sessions(ids), masks) => FencesRecorded(r, addedAs)
      BY RecordedAgain
    <2>3. FencesRecorded(mGeofenceBiDict', addedAs)
      BY <2>1, <2>2 DEF FencesTold
    <2> QED
      BY <2>1, <2>3, DictTold
  <1>3. ASSUME NEW ids, locAPIRemoveGeofences(ids)
        PROVE  FencesTold'
    <2>1. /\ UNCHANGED <<lastFence, addedAs, breached>>
          /\ mGeofenceBiDict' = mGeofenceBiDict \/ \E S : mGeofenceBiDict' = rmSessions(mGeofenceBiDict, S)
      BY <1>3 DEF locAPIRemoveGeofences
    <2>2. \A S : FencesRecorded(rmSessions(mGeofenceBiDict, S), addedAs)
      BY RecordedRemoved DEF FencesTold
    <2>3. FencesRecorded(mGeofenceBiDict', addedAs)
      BY <2>1, <2>2 DEF FencesTold
    <2> QED
      BY <2>1, <2>3, DictTold
  <1>4. CASE beforeGeofenceBreachCb
    <2> DEFINE d == mGeofenceBiDict
    <2>1. UNCHANGED <<d, lastFence, addedAs>>
      BY <1>4 DEF beforeGeofenceBreachCb
    <2>2. \A b \in breached' : \E s \in DOMAIN d.ext : b = <<s, getId(d, s)>>
      BY <1>4 DEF beforeGeofenceBreachCb
    <2>3. FencesRecorded(d, addedAs)
      BY DEF FencesTold
    <2>4. \A s \in DOMAIN d.ext : s \in DOMAIN addedAs /\ getId(d, s) = addedAs[s]
      BY <2>3 DEF FencesRecorded, getId, Get
    <2>5. BreachesRecorded(breached', addedAs)
      BY <2>2, <2>4 DEF BreachesRecorded
    <2> QED
      BY <2>1, <2>5 DEF FencesTold
  <1>5. CASE FenceClientNext
    <2>1. ASSUME NEW ids \in IdLists, NEW masks, locAPIAddGeofences(ids, masks)
          PROVE  FencesTold'
      BY <2>1, AddTold
    <2>2. ASSUME NEW ids, locAPIPauseGeofences(ids)
          PROVE  FencesTold'
      BY <1>1, <2>2 DEF locAPIPauseGeofences
    <2>3. CASE locAPIRemoveAllGeofences
      BY <1>3, <2>3 DEF locAPIRemoveAllGeofences
    <2>4. CASE onCollectiveResponseCb \/ onCollectiveResponse
      BY <1>1, <2>4 DEF onCollectiveResponseCb, onCollectiveResponse
    <2> QED
      BY <1>2, <1>3, <1>4, <1>5, <2>1, <2>2, <2>3, <2>4 DEF FenceClientNext
  <1>6. CASE UNCHANGED fenceClientVars
    BY <1>1, <1>6 DEF fenceClientVars
  <1>7. CASE LifeNext
    BY <1>1, <1>7 DEF LifeNext, locAPISetCallbacks, destroyClient, DropFenceRequests, fenceClientVars
  <1> QED
    BY <1>5, <1>6, <1>7 DEF ClientNext, clientVars

\* The breach of a fence is told by the id its user added it under, for any calls of any
\* client, whatever the adapter refuses (LocationAPIClientBase.cpp:856).
THEOREM BreachesAreNamed == ClientSpec => []BreachesNamed
  <1>1. ClientInit => FencesTold
    <2> SUFFICES ASSUME ClientInit
                 PROVE  FencesTold
      OBVIOUS
    <2>1. mGeofenceBiDict = BiEmpty /\ lastFence = 0 /\ addedAs = <<>> /\ breached = {}
      BY DEF ClientInit, FenceClientInit
    <2>2. FencesRecorded(mGeofenceBiDict, addedAs) /\ BreachesRecorded(breached, addedAs)
      BY <2>1 DEF FencesRecorded, BreachesRecorded, BiEmpty
    <2> QED
      BY <2>1, <2>2 DEF FencesTold
  <1>2. FencesTold /\ [ClientNext]_clientVars => FencesTold'
    BY FencesToldStep
  <1>3. FencesTold => BreachesNamed
    BY DEF FencesTold, BreachesRecorded, BreachesNamed
  <1> QED
    BY <1>1, <1>2, <1>3, PTL DEF ClientSpec
=============================================================================
