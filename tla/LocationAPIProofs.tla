-------------------------- MODULE LocationAPIProofs --------------------------
(***************************************************************************)
(* Proof that the object of a LocationAPI instance is deleted last         *)
(* (LocationAPI), for any number of objects, calls and queued messages.    *)
(*                                                                         *)
(* The argument: an adapter that knows a client, or is about to, has been  *)
(* loaded; so an instance that is destroyed waits for every adapter that   *)
(* could know it, and the removal it queues for each is the last message   *)
(* that adapter gets about it.                                             *)
(***************************************************************************)
EXTENDS LocationAPI, TLAPS

Ops == {"add", "remove", "capabilities", "session", "control"}
KindNames == {"gnss", "batching", "geofence"}
ApiMsg == [op : Ops, kind : KindNames, client : Apis \cup {Null}]

\* A message by which the adapter of kind k is to know client a, or to forget it.
About(m, k, a) == m.op \in {"add", "remove"} /\ m.kind = k /\ m.client = a

\* The adapter of kind k has nothing more to do with client a.
Gone(k, a) ==
  /\ a \notin mClientData[k]
  /\ \A i \in DOMAIN posted : ~About(posted[i], k, a)

ApiTypes ==
  /\ ApiTypeOK
  /\ posted \in Seq(ApiMsg) /\ mPendingMsgs \in [Kinds -> Seq(ApiMsg)]
  /\ \A k \in Kinds : \A i \in DOMAIN mPendingMsgs[k] :
       mPendingMsgs[k][i].op \notin {"add", "remove"}
  /\ \A i \in DOMAIN posted : posted[i].op \in {"add", "remove"} =>
                               posted[i].client \in Apis /\ posted[i].kind \in Kinds

\* Only adapters that have been loaded are told about clients.
ToldLoaded == \A k \in Kinds, a \in Apis : ~Gone(k, a) => interface[k] = "loaded"

\* The removal of a client is the last message about it, and its caller is gone.
RemovedLast ==
  \A i \in DOMAIN posted, k \in Kinds, a \in Apis :
    About(posted[i], k, a) /\ posted[i].op = "remove" =>
      a \notin owned /\ \A j \in DOMAIN posted : j > i => ~About(posted[j], k, a)

\* What an object's adapters may still do, from its creation to its deletion.
OwnedKnown == clientData = owned /\ \A a \in owned : destroyClientData[a] = {}
WaitsForRest ==
  \A a \in Apis : destroyClientData[a] # {} =>
    a \in live \ owned /\ \A k \in Kinds \ destroyClientData[a] : Gone(k, a)
CompletesLast ==
  completing # Null =>
    /\ completing \in live \ owned /\ destroyClientData[completing] = {}
    /\ \A k \in Kinds : Gone(k, completing)
FreshFree == \A a \in Apis \ live : destroyClientData[a] = {} /\ \A k \in Kinds : Gone(k, a)

ApiInv ==
  /\ ApiTypes /\ ToldLoaded /\ RemovedLast
  /\ OwnedKnown /\ WaitsForRest /\ CompletesLast /\ FreshFree

-----------------------------------------------------------------------------
(* The messages of a call.                                                 *)

\* q tells each kind of S at most once, by op, about client a.
Tells(q, op, a, S) ==
  /\ q \in Seq(ApiMsg)
  /\ \A i \in DOMAIN q : q[i].op = op /\ q[i].client = a /\ q[i].kind \in S
  /\ \A i, j \in DOMAIN q : q[i].kind = q[j].kind => i = j

LEMMA Joined ==
  ASSUME NEW S, NEW q \in Seq(S), NEW r \in Seq(S), NEW t, t = q \o r
  PROVE  /\ t \in Seq(S) /\ Len(q) \in Nat /\ DOMAIN q = 1 .. Len(q)
         /\ \A i \in DOMAIN q : i \in DOMAIN t /\ t[i] = q[i]
         /\ \A i \in DOMAIN t : /\ i \in Nat
                               /\ \/ i \in DOMAIN q
                                  \/ /\ i > Len(q) /\ i - Len(q) \in DOMAIN r
                                     /\ t[i] = r[i - Len(q)]
  OBVIOUS

LEMMA TellsBoth ==
  ASSUME NEW op, NEW a, NEW S, NEW T, S \cap T = {},
         NEW q, Tells(q, op, a, S), NEW r, Tells(r, op, a, T)
  PROVE  Tells(q \o r, op, a, S \cup T)
  <1> DEFINE t == q \o r
  <1>1. q \in Seq(ApiMsg) /\ r \in Seq(ApiMsg)
    BY DEF Tells
  <1>2. /\ t \in Seq(ApiMsg) /\ Len(q) \in Nat /\ DOMAIN q = 1 .. Len(q)
        /\ \A i \in DOMAIN q : i \in DOMAIN t /\ t[i] = q[i]
        /\ \A i \in DOMAIN t : /\ i \in Nat
                              /\ \/ i \in DOMAIN q
                                 \/ /\ i > Len(q) /\ i - Len(q) \in DOMAIN r
                                    /\ t[i] = r[i - Len(q)]
    BY <1>1, Joined
  <1> HIDE DEF t
  <1>3. \A i \in DOMAIN t : \/ i \in DOMAIN q /\ t[i] = q[i] /\ t[i].kind \in S
                            \/ /\ i \notin DOMAIN q /\ i - Len(q) \in DOMAIN r
                               /\ t[i] = r[i - Len(q)] /\ t[i].kind \in T
    BY <1>2 DEF Tells
  <1>4. \A i \in DOMAIN t : t[i].op = op /\ t[i].client = a /\ t[i].kind \in S \cup T
    BY <1>3 DEF Tells
  <1>5. ASSUME NEW i \in DOMAIN t, NEW j \in DOMAIN t, t[i].kind = t[j].kind PROVE i = j
    <2>1. CASE i \in DOMAIN q /\ j \in DOMAIN q
      BY <1>2, <1>5, <2>1 DEF Tells
    <2>2. CASE i \notin DOMAIN q /\ j \notin DOMAIN q
      <3>1. /\ i - Len(q) \in DOMAIN r /\ t[i] = r[i - Len(q)]
            /\ j - Len(q) \in DOMAIN r /\ t[j] = r[j - Len(q)]
        BY <1>3, <2>2
      <3>2. i - Len(q) = j - Len(q)
        BY <1>5, <3>1 DEF Tells
      <3> QED
        BY <1>2, <3>2
    <2>3. CASE ~(i \in DOMAIN q <=> j \in DOMAIN q)
      BY <1>3, <1>5, <2>3
    <2> QED
      BY <2>1, <2>2, <2>3
  <1>6. Tells(t, op, a, S \cup T)
    BY <1>2, <1>4, <1>5 DEF Tells
  <1> QED
    BY <1>6 DEF t

LEMMA MsgType ==
  ASSUME NEW op \in Ops, NEW k \in KindNames, NEW a \in Apis \cup {Null}
  PROVE  LET m == Msg(op, k, a)
         IN m \in ApiMsg /\ m.op = op /\ m.kind = k /\ m.client = a
  BY DEF Msg, ApiMsg

LEMMA TellsEach ==
  ASSUME NEW op \in Ops, NEW a \in Apis, NEW S \in SUBSET Kinds
  PROVE  Tells(ToEach(op, a, S), op, a, S)
  <1>1. ASSUME NEW k \in KindNames
        PROVE  Tells(ToOne(op, k, a, S), op, a, S \cap {k})
    <2> DEFINE m == Msg(op, k, a)
    <2>1. m \in ApiMsg /\ m.op = op /\ m.kind = k /\ m.client = a
      BY MsgType
    <2> HIDE DEF m
    <2>2. CASE k \in S
      <3> DEFINE q == <<m>>
      <3>1. ToOne(op, k, a, S) = q
        BY <2>2 DEF ToOne, m
      <3>2. q \in Seq(ApiMsg) /\ DOMAIN q = {1} /\ q[1] = m
        BY <2>1
      <3> HIDE DEF q
      <3>3. Tells(q, op, a, S \cap {k})
        BY <2>1, <2>2, <3>2 DEF Tells
      <3> QED
        BY <3>1, <3>3
    <2>3. CASE k \notin S
      <3> DEFINE q == <<>>
      <3>1. ToOne(op, k, a, S) = q
        BY <2>3 DEF ToOne
      <3>2. q \in Seq(ApiMsg) /\ DOMAIN q = {}
        OBVIOUS
      <3> HIDE DEF q
      <3> QED
        BY <3>1, <3>2 DEF Tells
    <2> QED
      BY <2>2, <2>3
  <1> DEFINE x == ToOne(op, "gnss", a, S)
             y == ToOne(op, "batching", a, S)
             z == ToOne(op, "geofence", a, S)
             X == S \cap {"gnss"}
             Y == S \cap {"batching"}
             Z == S \cap {"geofence"}
  <1>2. Tells(x, op, a, X) /\ Tells(y, op, a, Y) /\ Tells(z, op, a, Z)
    BY <1>1 DEF KindNames
  <1>3. X \cap Y = {} /\ (X \cup Y) \cap Z = {} /\ (X \cup Y) \cup Z = S
    BY ApiAssumption
  <1>4. ToEach(op, a, S) = (x \o y) \o z
    BY DEF ToEach
  <1> HIDE DEF x, y, z, X, Y, Z
  <1>5. Tells(x \o y, op, a, X \cup Y)
    BY <1>2, <1>3, TellsBoth
  <1>6. Tells((x \o y) \o z, op, a, (X \cup Y) \cup Z)
    BY <1>2, <1>3, <1>5, TellsBoth
  <1> QED
    BY <1>3, <1>4, <1>6

\* q removes nobody, and makes no one but a a client of kinds of S.
Brings(q, a, S) ==
  /\ q \in Seq(ApiMsg)
  /\ \A i \in DOMAIN q : q[i].op # "remove" /\ (q[i].op = "add" => q[i].client = a /\ q[i].kind \in S)

LEMMA BringsAdds ==
  ASSUME NEW q, NEW a \in Apis, NEW S, Tells(q, "add", a, S)
  PROVE  Brings(q, a, S)
  BY DEF Tells, Brings

LEMMA BringsAsking ==
  ASSUME NEW adds, NEW a \in Apis, NEW S, Tells(adds, "add", a, S), adds # <<>>
  PROVE  Brings(<<adds[1], Msg("capabilities", adds[1].kind, a)>> \o Tail(adds), a, S)
  <1> DEFINE first == <<adds[1], Msg("capabilities", adds[1].kind, a)>>
             t == first \o Tail(adds)
  <1>1. /\ Tail(adds) \in Seq(ApiMsg) /\ 1 \in DOMAIN adds
        /\ \A i \in DOMAIN Tail(adds) : i + 1 \in DOMAIN adds /\ Tail(adds)[i] = adds[i + 1]
    BY DEF Tells
  <1>2. adds[1] \in ApiMsg /\ adds[1].op = "add" /\ adds[1].client = a /\ adds[1].kind \in S
    BY <1>1 DEF Tells
  <1> DEFINE m == Msg("capabilities", adds[1].kind, a)
  <1>3. m \in ApiMsg /\ m.op = "capabilities"
    <2>1. adds[1].kind \in KindNames
      BY <1>2 DEF ApiMsg
    <2>2. "capabilities" \in Ops
      BY DEF Ops
    <2> QED
      BY <2>1, <2>2, MsgType
  <1>4. first = <<adds[1], m>>
    OBVIOUS
  <1> HIDE DEF first, m
  <1>5. first \in Seq(ApiMsg) /\ DOMAIN first = {1, 2} /\ first[1] = adds[1] /\ first[2] = m
    BY <1>2, <1>3, <1>4
  <1>6. /\ t \in Seq(ApiMsg)
        /\ \A i \in DOMAIN t : \/ i \in DOMAIN first /\ t[i] = first[i]
                              \/ \E j \in DOMAIN Tail(adds) : t[i] = Tail(adds)[j]
    <2> DEFINE r == Tail(adds)
    <2>1. r \in Seq(ApiMsg)
      BY <1>1
    <2> HIDE DEF r
    <2>2. /\ t \in Seq(ApiMsg)
          /\ \A i \in DOMAIN t : \/ i \in DOMAIN first /\ t[i] = first[i]
                                \/ \E j \in DOMAIN r : t[i] = r[j]
      <3>1. t = first \o r /\ first \in Seq(ApiMsg)
        BY <1>5 DEF r
      <3> HIDE DEF t
      <3>2. /\ t \in Seq(ApiMsg) /\ Len(first) \in Nat /\ DOMAIN first = 1 .. Len(first)
            /\ \A i \in DOMAIN first : i \in DOMAIN t /\ t[i] = first[i]
            /\ \A i \in DOMAIN t : /\ i \in Nat
                                  /\ \/ i \in DOMAIN first
                                     \/ /\ i > Len(first) /\ i - Len(first) \in DOMAIN r
                                        /\ t[i] = r[i - Len(first)]
        BY <2>1, <3>1, Joined
      <3> QED
        BY <3>2
    <2> QED
      BY <2>2 DEF r
  <1> HIDE DEF t
  <1>7. ASSUME NEW i \in DOMAIN t
        PROVE  t[i].op # "remove" /\ (t[i].op = "add" => t[i].client = a /\ t[i].kind \in S)
    <2>1. CASE i \in DOMAIN first /\ t[i] = first[i]
      BY <1>2, <1>3, <1>5, <2>1
    <2>2. CASE \E j \in DOMAIN Tail(adds) : t[i] = Tail(adds)[j]
      BY <1>1, <2>2 DEF Tells
    <2> QED
      BY <1>6, <2>1, <2>2
  <1>8. Brings(t, a, S)
    BY <1>6, <1>7 DEF Brings
  <1> QED
    BY <1>8 DEF t, first

-----------------------------------------------------------------------------
(* The steps.                                                              *)

LEMMA ApiInvInit == LocationAPIInit => ApiInv
  <1> SUFFICES ASSUME LocationAPIInit PROVE ApiInv
    OBVIOUS
  <1>1. /\ interface = [k \in Kinds |-> "unloaded"] /\ clientData = {}
        /\ destroyClientData = [a \in Apis |-> {}] /\ live = {} /\ owned = {}
        /\ posted = <<>> /\ completing = Null /\ mClientData = [k \in Kinds |-> {}]
        /\ known = {} /\ mPendingMsgs = [k \in Kinds |-> <<>>]
    BY DEF LocationAPIInit
  <1>2. \A k \in Kinds, a \in Apis : Gone(k, a)
    BY <1>1 DEF Gone
  <1>3. ApiTypeOK
    BY <1>1 DEF ApiTypeOK
  <1>4. ApiTypes
    BY <1>1, <1>3 DEF ApiTypes
  <1>5. ToldLoaded /\ RemovedLast
    BY <1>1, <1>2 DEF ToldLoaded, RemovedLast
  <1>6. OwnedKnown /\ WaitsForRest /\ CompletesLast /\ FreshFree
    BY <1>1, <1>2 DEF OwnedKnown, WaitsForRest, CompletesLast, FreshFree
  <1> QED
    BY <1>4, <1>5, <1>6 DEF ApiInv

\* Loading keeps what is loaded.
LEMMA LoadKeeps ==
  ASSUME interface \in [Kinds -> {"unloaded", "loaded", "failed"}], NEW asked, Load(asked)
  PROVE  /\ interface' \in [Kinds -> {"unloaded", "loaded", "failed"}]
         /\ \A k \in Kinds : interface[k] = "loaded" => interface'[k] = "loaded"
  <1>1. PICK outcome \in [Kinds -> {"loaded", "failed"}] :
          interface' = [k \in Kinds |-> IF k \in asked /\ interface[k] = "unloaded"
                                       THEN outcome[k] ELSE interface[k]]
    BY DEF Load
  <1>2. \A k \in Kinds : outcome[k] \in {"loaded", "failed"}
    OBVIOUS
  <1> QED
    BY <1>1, <1>2

\* Messages that are not about clients change nothing of what is promised to them.
LEMMA QuietStep ==
  ASSUME ApiInv,
         interface' \in [Kinds -> {"unloaded", "loaded", "failed"}],
         \A k \in Kinds : interface[k] = "loaded" => interface'[k] = "loaded",
         NEW new \in Seq(ApiMsg), posted' = posted \o new,
         \A i \in DOMAIN new : new[i].op \notin {"add", "remove"},
         mPendingMsgs' \in [Kinds -> Seq(ApiMsg)],
         \A k \in Kinds : \A i \in DOMAIN mPendingMsgs'[k] :
           mPendingMsgs'[k][i].op \notin {"add", "remove"},
         known' \subseteq Kinds,
         UNCHANGED <<clientData, destroyClientData, live, owned, mClientData, completing>>
  PROVE  ApiInv'
  <1>1. /\ ApiTypes /\ ToldLoaded /\ RemovedLast
        /\ OwnedKnown /\ WaitsForRest /\ CompletesLast /\ FreshFree
    BY DEF ApiInv
  <1>2. /\ posted' \in Seq(ApiMsg)
        /\ \A i \in DOMAIN posted : i \in DOMAIN posted' /\ posted'[i] = posted[i]
        /\ \A i \in DOMAIN posted' : \/ i \in DOMAIN posted
                                     \/ posted'[i].op \notin {"add", "remove"}
    <2>1. posted \in Seq(ApiMsg)
      BY <1>1 DEF ApiTypes
    <2> QED
      BY <2>1, Joined
  <1>3. \A k, a : Gone(k, a)' <=> Gone(k, a)
    BY <1>2 DEF Gone, About
  <1>4. ApiTypeOK'
    BY <1>1 DEF ApiTypes, ApiTypeOK
  <1>5. ApiTypes'
    BY <1>1, <1>2, <1>4 DEF ApiTypes
  <1>6. ToldLoaded'
    BY <1>1, <1>3 DEF ToldLoaded
  <1>7. RemovedLast'
    <2> SUFFICES ASSUME NEW i \in DOMAIN posted', NEW k \in Kinds, NEW b \in Apis,
                        About(posted'[i], k, b), posted'[i].op = "remove"
                 PROVE  b \notin owned' /\ \A j \in DOMAIN posted' : j > i => ~About(posted'[j], k, b)
      BY DEF RemovedLast
    <2>1. i \in DOMAIN posted /\ posted'[i] = posted[i]
      BY <1>2
    <2>2. b \notin owned /\ \A j \in DOMAIN posted : j > i => ~About(posted[j], k, b)
      BY <1>1, <2>1 DEF RemovedLast
    <2> QED
      BY <1>2, <2>2 DEF About
  <1>8. OwnedKnown' /\ WaitsForRest' /\ CompletesLast' /\ FreshFree'
    BY <1>1, <1>3 DEF OwnedKnown, WaitsForRest, CompletesLast, FreshFree
  <1> QED
    BY <1>5, <1>6, <1>7, <1>8 DEF ApiInv

\* A call that makes an object, or one the caller still has, a client of adapters.
LEMMA AddsStep ==
  ASSUME ApiInv, NEW a \in Apis, a \in owned \/ a \notin live, NEW asked, Load(asked),
         NEW new, Brings(new, a, {k \in Kinds : interface'[k] = "loaded"}),
         posted' = posted \o new,
         clientData' = clientData \cup {a}, live' = live \cup {a}, owned' = owned \cup {a},
         UNCHANGED <<destroyClientData, adapterVars, completing>>
  PROVE  ApiInv'
  <1>1. /\ ApiTypes /\ ToldLoaded /\ RemovedLast
        /\ OwnedKnown /\ WaitsForRest /\ CompletesLast /\ FreshFree
    BY DEF ApiInv
  <1>2. /\ interface' \in [Kinds -> {"unloaded", "loaded", "failed"}]
        /\ \A k \in Kinds : interface[k] = "loaded" => interface'[k] = "loaded"
    BY <1>1, LoadKeeps DEF ApiTypes, ApiTypeOK
  <1>3. UNCHANGED <<mClientData, known, mPendingMsgs, destroyClientData, completing>>
    BY DEF adapterVars
  <1>4. /\ posted' \in Seq(ApiMsg)
        /\ \A i \in DOMAIN posted : i \in DOMAIN posted' /\ posted'[i] = posted[i]
        /\ \A i \in DOMAIN posted' : \/ i \in DOMAIN posted
                                     \/ /\ posted'[i].op # "remove"
                                        /\ posted'[i].op = "add" =>
                                             /\ posted'[i].client = a /\ posted'[i].kind \in Kinds
                                             /\ interface'[posted'[i].kind] = "loaded"
    <2>1. posted \in Seq(ApiMsg) /\ new \in Seq(ApiMsg)
      BY <1>1 DEF ApiTypes, Brings
    <2> QED
      BY <2>1, Joined DEF Brings
  <1>5. ASSUME NEW k \in Kinds, NEW b \in Apis, Gone(k, b), b # a PROVE Gone(k, b)'
    BY <1>3, <1>4, <1>5 DEF Gone, About
  <1>6. destroyClientData[a] = {} /\ completing # a
    BY <1>1, ApiAssumption DEF OwnedKnown, FreshFree, CompletesLast, ApiTypes, ApiTypeOK
  <1>7. ASSUME NEW k \in Kinds, NEW b \in Apis, ~Gone(k, b)' PROVE interface'[k] = "loaded"
    <2>1. CASE ~Gone(k, b)
      BY <1>1, <1>2, <2>1 DEF ToldLoaded
    <2>2. CASE Gone(k, b)
      <3>1. PICK i \in DOMAIN posted' : About(posted'[i], k, b)
        BY <1>3, <1>7, <2>2 DEF Gone
      <3>2. i \notin DOMAIN posted
        BY <1>4, <2>2, <3>1 DEF Gone
      <3> QED
        BY <1>4, <3>1, <3>2 DEF About
    <2> QED
      BY <2>1, <2>2
  <1>8. ToldLoaded'
    BY <1>7 DEF ToldLoaded
  <1>9. ApiTypes'
    <2>1. ApiTypeOK'
      BY <1>1, <1>2, <1>3 DEF ApiTypes, ApiTypeOK
    <2> QED
      BY <1>1, <1>3, <1>4, <2>1 DEF ApiTypes
  <1>10. RemovedLast'
    <2> SUFFICES ASSUME NEW i \in DOMAIN posted', NEW k \in Kinds, NEW b \in Apis,
                        About(posted'[i], k, b), posted'[i].op = "remove"
                 PROVE  b \notin owned' /\ \A j \in DOMAIN posted' : j > i => ~About(posted'[j], k, b)
      BY DEF RemovedLast
    <2>1. i \in DOMAIN posted /\ posted'[i] = posted[i]
      BY <1>4
    <2>2. b \notin owned /\ \A j \in DOMAIN posted : j > i => ~About(posted[j], k, b)
      BY <1>1, <2>1 DEF RemovedLast
    <2>3. b # a
      BY <1>1, <2>1, <2>2 DEF FreshFree, Gone
    <2> QED
      BY <1>4, <2>2, <2>3 DEF About
  <1>11. OwnedKnown'
    BY <1>1, <1>3, <1>6 DEF OwnedKnown
  <1>12. WaitsForRest'
    <2> SUFFICES ASSUME NEW b \in Apis, destroyClientData[b] # {}
                 PROVE  /\ b \in live' \ owned'
                        /\ \A k \in Kinds \ destroyClientData[b] : Gone(k, b)'
      BY <1>3 DEF WaitsForRest
    <2> QED
      BY <1>1, <1>5, <1>6 DEF WaitsForRest
  <1>13. CompletesLast'
    <2> SUFFICES ASSUME completing # Null
                 PROVE  /\ completing \in live' \ owned' /\ destroyClientData[completing] = {}
                        /\ \A k \in Kinds : Gone(k, completing)'
      BY <1>3 DEF CompletesLast
    <2> QED
      BY <1>1, <1>5, <1>6 DEF CompletesLast, ApiTypes, ApiTypeOK
  <1>14. FreshFree'
    <2> SUFFICES ASSUME NEW b \in Apis \ live'
                 PROVE  destroyClientData[b] = {} /\ \A k \in Kinds : Gone(k, b)'
      BY <1>3 DEF FreshFree
    <2> QED
      BY <1>1, <1>5 DEF FreshFree
  <1> QED
    BY <1>8, <1>9, <1>10, <1>11, <1>12, <1>13, <1>14 DEF ApiInv

\* A destroyed object waits for every adapter that could know it.
LEMMA DestroyStep ==
  ASSUME ApiInv, NEW a \in Apis, NEW withCb \in BOOLEAN, destroy(a, withCb)
  PROVE  ApiInv'
  <1>1. /\ ApiTypes /\ ToldLoaded /\ RemovedLast
        /\ OwnedKnown /\ WaitsForRest /\ CompletesLast /\ FreshFree
    BY DEF ApiInv
  <1> DEFINE new == ToEach("remove", a, Loaded)
             mask == WaitMask(withCb)
  <1>2. a \in owned /\ a \in clientData /\ a \in live /\ a # Null
    BY <1>1, ApiAssumption DEF destroy, OwnedKnown, ApiTypes, ApiTypeOK
  <1>3. /\ owned' = owned \ {a} /\ clientData' = clientData \ {a}
        /\ destroyClientData' = [destroyClientData EXCEPT ![a] = mask]
        /\ posted' = posted \o new
        /\ \/ live' = live
           \/ Loaded = {} /\ live' = live \ {a}
        /\ UNCHANGED <<interface, mClientData, known, mPendingMsgs, completing>>
    BY <1>2 DEF destroy, DestroyNow, adapterVars
  <1>4. mask \subseteq Loaded /\ (mask # {} => mask = Loaded) /\ Loaded \subseteq Kinds
    BY DEF WaitMask, Loaded
  <1>5. Tells(new, "remove", a, Loaded)
    <2>1. "remove" \in Ops /\ Loaded \in SUBSET Kinds
      BY DEF Ops, Loaded
    <2> QED
      BY <2>1, TellsEach
  <1> HIDE DEF new, mask
  <1>6. /\ posted' \in Seq(ApiMsg) /\ Len(posted) \in Nat /\ DOMAIN posted = 1 .. Len(posted)
        /\ \A i \in DOMAIN posted : i \in DOMAIN posted' /\ posted'[i] = posted[i]
        /\ \A i \in DOMAIN posted' : /\ i \in Nat
                                     /\ \/ i \in DOMAIN posted
                                        \/ /\ i > Len(posted) /\ i - Len(posted) \in DOMAIN new
                                           /\ posted'[i] = new[i - Len(posted)]
    <2>1. posted \in Seq(ApiMsg) /\ new \in Seq(ApiMsg)
      BY <1>1, <1>5 DEF ApiTypes, Tells
    <2> QED
      BY <1>3, <2>1, Joined
  <1>7. \A i \in DOMAIN posted' : i \notin DOMAIN posted =>
          posted'[i].client = a /\ posted'[i].kind \in Loaded /\ posted'[i].op = "remove"
    BY <1>5, <1>6 DEF Tells
  <1>8. ASSUME NEW k \in Kinds, NEW b \in Apis, Gone(k, b), b # a \/ k \notin Loaded
        PROVE  Gone(k, b)'
    BY <1>3, <1>6, <1>7, <1>8 DEF Gone, About
  <1>9. \A k \in Kinds : k \notin Loaded => Gone(k, a) /\ Gone(k, a)'
    BY <1>1, <1>8 DEF ToldLoaded, Loaded
  <1>10. /\ destroyClientData'[a] = mask
         /\ \A b \in Apis : b # a => destroyClientData'[b] = destroyClientData[b]
         /\ destroyClientData' \in [Apis -> SUBSET Kinds]
    BY <1>1, <1>3, <1>4 DEF ApiTypes, ApiTypeOK
  <1>11. ApiTypes'
    <2>1. ApiTypeOK'
      BY <1>1, <1>2, <1>3, <1>10 DEF ApiTypes, ApiTypeOK
    <2> QED
      BY <1>1, <1>3, <1>4, <1>6, <1>7, <2>1 DEF ApiTypes
  <1>12. ToldLoaded'
    BY <1>1, <1>3, <1>8, <1>9 DEF ToldLoaded, Loaded
  <1>13. RemovedLast'
    <2> SUFFICES ASSUME NEW i \in DOMAIN posted', NEW k \in Kinds, NEW b \in Apis,
                        About(posted'[i], k, b), posted'[i].op = "remove"
                 PROVE  b \notin owned' /\ \A j \in DOMAIN posted' : j > i => ~About(posted'[j], k, b)
      BY DEF RemovedLast
    <2>1. CASE i \in DOMAIN posted
      <3>1. b \notin owned /\ \A j \in DOMAIN posted : j > i => ~About(posted[j], k, b)
        BY <1>1, <1>6, <2>1 DEF RemovedLast
      <3>2. b # a
        BY <1>2, <3>1
      <3> QED
        BY <1>3, <1>6, <1>7, <3>1, <3>2 DEF About
    <2>2. CASE i \notin DOMAIN posted
      <3>1. b = a /\ i > Len(posted) /\ i - Len(posted) \in DOMAIN new
            /\ new[i - Len(posted)].kind = k /\ i \in Nat
        BY <1>6, <1>7, <2>2 DEF About
      <3>2. ASSUME NEW j \in DOMAIN posted', j > i, About(posted'[j], k, b) PROVE FALSE
        <4>1. j \in Nat /\ j > Len(posted)
          BY <1>6, <3>1, <3>2
        <4>2. j \notin DOMAIN posted
          BY <1>6, <4>1
        <4>3. j - Len(posted) \in DOMAIN new /\ new[j - Len(posted)].kind = k
          BY <1>6, <3>2, <4>2 DEF About
        <4>4. i - Len(posted) = j - Len(posted)
          BY <1>5, <3>1, <4>3 DEF Tells
        <4> QED
          BY <1>6, <3>1, <3>2, <4>1, <4>4
      <3> QED
        BY <1>3, <3>1, <3>2
    <2> QED
      BY <2>1, <2>2
  <1>14. OwnedKnown'
    BY <1>1, <1>3, <1>10 DEF OwnedKnown, ApiTypes, ApiTypeOK
  <1>15. WaitsForRest'
    <2> SUFFICES ASSUME NEW b \in Apis, destroyClientData'[b] # {}
                 PROVE  /\ b \in live' \ owned'
                        /\ \A k \in Kinds \ destroyClientData'[b] : Gone(k, b)'
      BY DEF WaitsForRest
    <2>1. CASE b = a
      BY <1>2, <1>3, <1>4, <1>9, <1>10, <2>1
    <2>2. CASE b # a
      <3>1. b \in live \ owned /\ \A k \in Kinds \ destroyClientData[b] : Gone(k, b)
        BY <1>1, <1>10, <2>2 DEF WaitsForRest
      <3> QED
        BY <1>3, <1>8, <1>10, <2>2, <3>1
    <2> QED
      BY <2>1, <2>2
  <1>16. CompletesLast'
    <2> SUFFICES ASSUME completing # Null
                 PROVE  /\ completing \in live' \ owned' /\ destroyClientData'[completing] = {}
                        /\ \A k \in Kinds : Gone(k, completing)'
      BY <1>3 DEF CompletesLast
    <2>1. /\ completing \in Apis /\ completing \in live \ owned /\ completing # a
          /\ destroyClientData[completing] = {} /\ \A k \in Kinds : Gone(k, completing)
      BY <1>1, <1>2 DEF CompletesLast, ApiTypes, ApiTypeOK
    <2> QED
      BY <1>3, <1>8, <1>10, <2>1
  <1>17. FreshFree'
    <2> SUFFICES ASSUME NEW b \in Apis \ live'
                 PROVE  destroyClientData'[b] = {} /\ \A k \in Kinds : Gone(k, b)'
      BY DEF FreshFree
    <2>1. CASE b = a
      BY <1>2, <1>3, <1>4, <1>9, <1>10, <2>1
    <2>2. CASE b # a
      <3>1. b \in Apis \ live
        BY <1>3, <2>2
      <3> QED
        BY <1>1, <1>8, <1>10, <2>2, <3>1 DEF FreshFree
    <2> QED
      BY <2>1, <2>2
  <1> QED
    BY <1>11, <1>12, <1>13, <1>14, <1>15, <1>16, <1>17 DEF ApiInv

\* The object is deleted when no adapter has anything to do with it.
LEMMA DeleteStep ==
  ASSUME ApiInv, DeleteThis
  PROVE  ApiInv'
  <1>1. /\ ApiTypes /\ ToldLoaded /\ RemovedLast
        /\ OwnedKnown /\ WaitsForRest /\ CompletesLast /\ FreshFree
    BY DEF ApiInv
  <1>2. /\ completing # Null /\ completing' = Null /\ live' = live \ {completing}
        /\ UNCHANGED <<interface, clientData, destroyClientData, owned, posted, mClientData,
                       known, mPendingMsgs>>
    BY DEF DeleteThis, gData, adapterVars
  <1>3. /\ completing \in Apis /\ completing \in live \ owned
        /\ destroyClientData[completing] = {} /\ \A k \in Kinds : Gone(k, completing)
    BY <1>1, <1>2 DEF CompletesLast, ApiTypes, ApiTypeOK
  <1>4. \A k, a : Gone(k, a)' <=> Gone(k, a)
    BY <1>2 DEF Gone
  <1>5. ApiTypes'
    <2>1. ApiTypeOK'
      BY <1>1, <1>2, <1>3 DEF ApiTypes, ApiTypeOK
    <2> QED
      BY <1>1, <1>2, <2>1 DEF ApiTypes
  <1>6. ToldLoaded' /\ RemovedLast' /\ OwnedKnown'
    BY <1>1, <1>2, <1>4 DEF ToldLoaded, RemovedLast, OwnedKnown
  <1>7. WaitsForRest' /\ CompletesLast' /\ FreshFree'
    BY <1>1, <1>2, <1>3, <1>4 DEF WaitsForRest, CompletesLast, FreshFree
  <1> QED
    BY <1>5, <1>6, <1>7 DEF ApiInv

\* An adapter handles a message: it gets no more to do with anyone but by an addition.
LEMMA HandleStep ==
  ASSUME ApiInv, HandleMsg
  PROVE  ApiInv'
  <1>1. /\ ApiTypes /\ ToldLoaded /\ RemovedLast
        /\ OwnedKnown /\ WaitsForRest /\ CompletesLast /\ FreshFree
    BY DEF ApiInv
  <1>0. PICK m : m = Head(posted)
    OBVIOUS
  <1> DEFINE c == m.client
             h == m.kind
  <1>2. /\ completing = Null /\ posted # <<>> /\ posted' = Tail(posted)
        /\ UNCHANGED <<interface, clientData, live, owned, known>>
        /\ \/ m.op = "add" /\ MsgAddClient(m)
           \/ m.op = "remove" /\ MsgRemoveClient(m)
           \/ m.op \notin {"add", "remove"} /\ (MsgWaits(m) \/ MsgServed(m))
    BY <1>0 DEF HandleMsg, callerVars
  <1>3. /\ posted' \in Seq(ApiMsg) /\ 1 \in DOMAIN posted /\ m = posted[1] /\ m \in ApiMsg
        /\ \A i \in DOMAIN posted' : /\ i \in Nat /\ i + 1 \in DOMAIN posted /\ i + 1 > 1
                                     /\ posted'[i] = posted[i + 1]
    <2>1. posted \in Seq(ApiMsg) /\ posted # <<>>
      BY <1>1, <1>2 DEF ApiTypes
    <2> QED
      BY <1>0, <1>2, <2>1
  <1>4. m.op \in {"add", "remove"} => c \in Apis
    BY <1>1, <1>3 DEF ApiTypes
  <1>5. ASSUME NEW k \in Kinds, NEW a \in Apis, Gone(k, a) PROVE ~About(m, k, a)
    BY <1>3, <1>5 DEF Gone
  <1>6. /\ mPendingMsgs' \in [Kinds -> Seq(ApiMsg)]
        /\ \A k \in Kinds : \A i \in DOMAIN mPendingMsgs'[k] :
             mPendingMsgs'[k][i].op \notin {"add", "remove"}
    <2>1. /\ mPendingMsgs \in [Kinds -> Seq(ApiMsg)]
          /\ \A k \in Kinds : \A i \in DOMAIN mPendingMsgs[k] :
               mPendingMsgs[k][i].op \notin {"add", "remove"}
      BY <1>1 DEF ApiTypes
    <2>2. CASE mPendingMsgs' = mPendingMsgs
      BY <2>1, <2>2
    <2>3. CASE MsgWaits(m) /\ m.op \notin {"add", "remove"}
      <3>1. mPendingMsgs' = [mPendingMsgs EXCEPT ![h] = Append(mPendingMsgs[h], m)]
        BY <2>3 DEF MsgWaits
      <3>2. CASE h \in Kinds
        <4> DEFINE q == mPendingMsgs[h]
        <4>1. q \in Seq(ApiMsg) /\ \A i \in DOMAIN q : q[i].op \notin {"add", "remove"}
          BY <2>1, <3>2
        <4> HIDE DEF q
        <4>2. /\ Append(q, m) \in Seq(ApiMsg)
              /\ \A i \in DOMAIN Append(q, m) :
                   (i \in DOMAIN q /\ Append(q, m)[i] = q[i]) \/ Append(q, m)[i] = m
          BY <1>3, <4>1
        <4>3. mPendingMsgs' = [mPendingMsgs EXCEPT ![h] = Append(q, m)]
          BY <3>1 DEF q
        <4> QED
          BY <2>1, <2>3, <3>2, <4>1, <4>2, <4>3
      <3>3. CASE h \notin Kinds
        BY <2>1, <3>1, <3>3
      <3> QED
        BY <3>2, <3>3
    <2> QED
      BY <1>2, <2>2, <2>3 DEF MsgAddClient, MsgRemoveClient, MsgServed
  <1>7. ApiTypes' /\ (completing' = Null \/ completing' \in Apis)
    <2>1. mClientData' \in [Kinds -> SUBSET Apis]
      <3>1. mClientData \in [Kinds -> SUBSET Apis]
        BY <1>1 DEF ApiTypes, ApiTypeOK
      <3>2. CASE m.op = "add" /\ MsgAddClient(m)
        BY <1>4, <3>1, <3>2 DEF MsgAddClient
      <3>3. CASE m.op = "remove" /\ MsgRemoveClient(m)
        BY <1>4, <3>1, <3>3 DEF MsgRemoveClient
      <3>4. CASE MsgWaits(m) \/ MsgServed(m)
        BY <3>1, <3>4 DEF MsgWaits, MsgServed
      <3> QED
        BY <1>2, <3>2, <3>3, <3>4
    <2>2. destroyClientData' \in [Apis -> SUBSET Kinds] /\ completing' \in Apis \cup {Null}
      <3>1. destroyClientData \in [Apis -> SUBSET Kinds]
        BY <1>1 DEF ApiTypes, ApiTypeOK
      <3>2. CASE m.op = "remove" /\ MsgRemoveClient(m)
        BY <1>2, <1>4, <3>1, <3>2 DEF MsgRemoveClient, onRemoveClientCompleteCb
      <3>3. CASE UNCHANGED <<destroyClientData, completing>>
        BY <1>2, <3>1, <3>3
      <3> QED
        BY <1>2, <3>2, <3>3 DEF MsgAddClient, MsgWaits, MsgServed
    <2>3. ApiTypeOK'
      BY <1>1, <1>2, <2>1, <2>2 DEF ApiTypes, ApiTypeOK
    <2>4. \A i \in DOMAIN posted' : posted'[i].op \in {"add", "remove"} =>
                                     posted'[i].client \in Apis /\ posted'[i].kind \in Kinds
      BY <1>1, <1>3 DEF ApiTypes
    <2> QED
      BY <1>3, <1>6, <2>2, <2>3, <2>4 DEF ApiTypes
  <1>8. ASSUME NEW k \in Kinds, NEW a \in Apis, Gone(k, a) PROVE Gone(k, a)'
    <2>1. \A i \in DOMAIN posted' : ~About(posted'[i], k, a)
      BY <1>3, <1>8 DEF Gone
    <2>2. a \notin mClientData'[k]
      <3>1. a \notin mClientData[k] /\ ~About(m, k, a)
        BY <1>5, <1>8 DEF Gone
      <3>2. mClientData \in [Kinds -> SUBSET Apis]
        BY <1>1 DEF ApiTypes, ApiTypeOK
      <3>3. CASE m.op = "add" /\ MsgAddClient(m)
        BY <3>1, <3>2, <3>3 DEF MsgAddClient, About
      <3>4. CASE m.op = "remove" /\ MsgRemoveClient(m)
        BY <3>1, <3>2, <3>4 DEF MsgRemoveClient
      <3>5. CASE MsgWaits(m) \/ MsgServed(m)
        BY <3>1, <3>5 DEF MsgWaits, MsgServed
      <3> QED
        BY <1>2, <3>3, <3>4, <3>5
    <2> QED
      BY <2>1, <2>2 DEF Gone
  <1>9. ToldLoaded'
    BY <1>1, <1>2, <1>8 DEF ToldLoaded
  <1>10. RemovedLast'
    <2> SUFFICES ASSUME NEW i \in DOMAIN posted', NEW k \in Kinds, NEW b \in Apis,
                        About(posted'[i], k, b), posted'[i].op = "remove"
                 PROVE  b \notin owned' /\ \A j \in DOMAIN posted' : j > i => ~About(posted'[j], k, b)
      BY DEF RemovedLast
    <2>1. b \notin owned /\ \A j \in DOMAIN posted : j > i + 1 => ~About(posted[j], k, b)
      BY <1>1, <1>3 DEF RemovedLast
    <2>2. ASSUME NEW j \in DOMAIN posted', j > i PROVE ~About(posted'[j], k, b)
      <3>1. j + 1 > i + 1 /\ j + 1 \in DOMAIN posted /\ posted'[j] = posted[j + 1]
        BY <1>3, <2>2
      <3> QED
        BY <2>1, <3>1
    <2> QED
      BY <1>2, <2>1, <2>2
  <1>11. CASE UNCHANGED <<destroyClientData, completing>>
    <2>1. OwnedKnown' /\ CompletesLast'
      BY <1>1, <1>2, <1>11 DEF OwnedKnown, CompletesLast
    <2>2. WaitsForRest' /\ FreshFree'
      BY <1>1, <1>2, <1>8, <1>11 DEF WaitsForRest, FreshFree
    <2> QED
      BY <1>7, <1>9, <1>10, <2>1, <2>2 DEF ApiInv
  <1>12. CASE m.op = "remove" /\ MsgRemoveClient(m) /\ ~UNCHANGED <<destroyClientData, completing>>
    <2> DEFINE left == destroyClientData[c] \ {h}
    <2>1. /\ destroyClientData[c] # {} /\ c \in Apis
          /\ destroyClientData' = [destroyClientData EXCEPT ![c] = left]
          /\ completing' = IF left = {} THEN c ELSE Null
          /\ mClientData' = [mClientData EXCEPT ![h] = @ \ {c}]
      BY <1>4, <1>12 DEF MsgRemoveClient, onRemoveClientCompleteCb
    <2> HIDE DEF left
    <2>2. /\ destroyClientData'[c] = left
          /\ \A b \in Apis : b # c => destroyClientData'[b] = destroyClientData[b]
      BY <1>1, <2>1 DEF ApiTypes, ApiTypeOK
    <2>3. c \in live \ owned /\ \A k \in Kinds \ destroyClientData[c] : Gone(k, c)
      BY <1>1, <2>1 DEF WaitsForRest
    <2>4. h \in Kinds => Gone(h, c)'
      <3> SUFFICES ASSUME h \in Kinds PROVE Gone(h, c)'
        OBVIOUS
      <3>1. About(posted[1], h, c) /\ posted[1].op = "remove"
        BY <1>3, <1>12 DEF About
      <3>2. \A j \in DOMAIN posted : j > 1 => ~About(posted[j], h, c)
        BY <1>1, <1>3, <2>1, <3>1 DEF RemovedLast
      <3>3. \A j \in DOMAIN posted' : ~About(posted'[j], h, c)
        BY <1>3, <3>2
      <3>4. c \notin mClientData'[h]
        BY <1>1, <2>1 DEF ApiTypes, ApiTypeOK
      <3> QED
        BY <3>3, <3>4 DEF Gone
    <2>5. \A k \in Kinds \ left : Gone(k, c)'
      <3> SUFFICES ASSUME NEW k \in Kinds, k \notin left PROVE Gone(k, c)'
        OBVIOUS
      <3>1. k = h \/ k \notin destroyClientData[c]
        BY DEF left
      <3> QED
        BY <1>8, <2>1, <2>3, <2>4, <3>1
    <2>6. OwnedKnown'
      BY <1>1, <1>2, <2>2, <2>3 DEF OwnedKnown, ApiTypes, ApiTypeOK
    <2>7. WaitsForRest'
      <3> SUFFICES ASSUME NEW b \in Apis, destroyClientData'[b] # {}
                   PROVE  /\ b \in live \ owned
                          /\ \A k \in Kinds \ destroyClientData'[b] : Gone(k, b)'
        BY <1>2 DEF WaitsForRest
      <3>1. CASE b = c
        BY <2>2, <2>3, <2>5, <3>1
      <3>2. CASE b # c
        BY <1>1, <1>8, <2>2, <3>2 DEF WaitsForRest
      <3> QED
        BY <3>1, <3>2
    <2>8. CompletesLast'
      <3> SUFFICES ASSUME completing' # Null
                   PROVE  /\ completing' \in live \ owned /\ destroyClientData'[completing'] = {}
                          /\ \A k \in Kinds : Gone(k, completing)'
        BY <1>2 DEF CompletesLast
      <3>1. left = {} /\ completing' = c
        BY <2>1
      <3>2. \A k \in Kinds : Gone(k, completing)'
        BY <2>5, <3>1 DEF Gone
      <3> QED
        BY <2>2, <2>3, <3>1, <3>2
    <2>9. FreshFree'
      <3> SUFFICES ASSUME NEW b \in Apis, b \notin live
                   PROVE  destroyClientData'[b] = {} /\ \A k \in Kinds : Gone(k, b)'
        BY <1>2 DEF FreshFree
      <3>1. b # c
        BY <2>3
      <3> QED
        BY <1>1, <1>8, <2>2, <3>1 DEF FreshFree
    <2> QED
      BY <1>7, <1>9, <1>10, <2>6, <2>7, <2>8, <2>9 DEF ApiInv
  <1> QED
    BY <1>2, <1>11, <1>12 DEF MsgAddClient, MsgWaits, MsgServed

LEMMA AppendJoins ==
  ASSUME NEW S, NEW q \in Seq(S), NEW m \in S
  PROVE  <<m>> \in Seq(S) /\ DOMAIN <<m>> = {1} /\ <<m>>[1] = m /\ Append(q, m) = q \o <<m>>
  OBVIOUS

\* A call for a session, or of the control interface, posts a message of its own.
LEMMA CallPosts ==
  ASSUME ApiInv,
         interface' \in [Kinds -> {"unloaded", "loaded", "failed"}],
         \A k \in Kinds : interface[k] = "loaded" => interface'[k] = "loaded",
         NEW op \in {"session", "control"}, NEW k \in KindNames, NEW a \in Apis \cup {Null},
         posted' = Append(posted, Msg(op, k, a)),
         UNCHANGED <<adapterVars, clientData, destroyClientData, live, owned, completing>>
  PROVE  ApiInv'
  <1> DEFINE m == Msg(op, k, a)
             new == <<m>>
  <1>1. m \in ApiMsg /\ m.op = op
    <2>1. op \in Ops
      BY DEF Ops
    <2> QED
      BY <2>1, MsgType
  <1>2. posted \in Seq(ApiMsg) /\ ApiTypes
    BY DEF ApiInv, ApiTypes
  <1>3. posted' = Append(posted, m)
    OBVIOUS
  <1> HIDE DEF m
  <1>4. new \in Seq(ApiMsg) /\ posted' = posted \o new /\ DOMAIN new = {1} /\ new[1] = m
    BY <1>1, <1>2, <1>3, AppendJoins
  <1> HIDE DEF new
  <1>5. \A i \in DOMAIN new : new[i].op \notin {"add", "remove"}
    BY <1>1, <1>4
  <1>6. /\ mPendingMsgs' \in [Kinds -> Seq(ApiMsg)] /\ known' \subseteq Kinds
        /\ \A l \in Kinds : \A i \in DOMAIN mPendingMsgs'[l] :
             mPendingMsgs'[l][i].op \notin {"add", "remove"}
        /\ UNCHANGED <<clientData, destroyClientData, live, owned, mClientData, completing>>
    BY <1>2 DEF adapterVars, ApiTypes, ApiTypeOK
  <1> QED
    BY <1>4, <1>5, <1>6, QuietStep

\* Nothing that is promised to an object depends on the control interface alone.
LEMMA ControlStep ==
  ASSUME ApiInv,
         interface' \in [Kinds -> {"unloaded", "loaded", "failed"}],
         \A k \in Kinds : interface[k] = "loaded" => interface'[k] = "loaded",
         UNCHANGED <<adapterVars, clientData, destroyClientData, live, owned, posted, completing>>
  PROVE  ApiInv'
  <1> DEFINE new == <<>>
  <1>1. posted \in Seq(ApiMsg) /\ ApiTypes
    BY DEF ApiInv, ApiTypes
  <1>2. new \in Seq(ApiMsg) /\ DOMAIN new = {} /\ posted \o new = posted
    BY <1>1
  <1> HIDE DEF new
  <1>3. posted' = posted \o new /\ \A i \in DOMAIN new : new[i].op \notin {"add", "remove"}
    BY <1>2
  <1>4. /\ mPendingMsgs' \in [Kinds -> Seq(ApiMsg)] /\ known' \subseteq Kinds
        /\ \A l \in Kinds : \A i \in DOMAIN mPendingMsgs'[l] :
             mPendingMsgs'[l][i].op \notin {"add", "remove"}
        /\ UNCHANGED <<clientData, destroyClientData, live, owned, mClientData, completing>>
    BY <1>1 DEF adapterVars, ApiTypes, ApiTypeOK
  <1> QED
    BY <1>2, <1>3, <1>4, QuietStep

LEMMA EngineUpStep ==
  ASSUME ApiInv, NEW k \in Kinds, EngineUp(k)
  PROVE  ApiInv'
  <1> DEFINE new == mPendingMsgs[k]
  <1>1. ApiTypes
    BY DEF ApiInv
  <1>2. /\ known' = known \cup {k} /\ posted' = posted \o new
        /\ mPendingMsgs' = [mPendingMsgs EXCEPT ![k] = <<>>]
        /\ UNCHANGED <<interface, clientData, destroyClientData, live, owned, mClientData, completing>>
    BY DEF EngineUp, gData, callerVars
  <1>3. new \in Seq(ApiMsg) /\ \A i \in DOMAIN new : new[i].op \notin {"add", "remove"}
    BY <1>1 DEF ApiTypes
  <1>4. /\ mPendingMsgs' \in [Kinds -> Seq(ApiMsg)]
        /\ \A l \in Kinds : \A i \in DOMAIN mPendingMsgs'[l] :
             mPendingMsgs'[l][i].op \notin {"add", "remove"}
    <2>1. <<>> \in Seq(ApiMsg) /\ DOMAIN <<>> = {}
      OBVIOUS
    <2>2. /\ mPendingMsgs \in [Kinds -> Seq(ApiMsg)]
          /\ \A l \in Kinds : \A i \in DOMAIN mPendingMsgs[l] :
               mPendingMsgs[l][i].op \notin {"add", "remove"}
      BY <1>1 DEF ApiTypes
    <2> QED
      BY <1>2, <2>1, <2>2
  <1> HIDE DEF new
  <1>5. /\ interface' \in [Kinds -> {"unloaded", "loaded", "failed"}] /\ known' \subseteq Kinds
        /\ \A l \in Kinds : interface[l] = "loaded" => interface'[l] = "loaded"
    BY <1>1, <1>2 DEF ApiTypes, ApiTypeOK
  <1> QED
    BY <1>2, <1>3, <1>4, <1>5, QuietStep

LEMMA ApiStep == ApiInv /\ [LocationAPINext]_apiVars => ApiInv'
  <1> SUFFICES ASSUME ApiInv, [LocationAPINext]_apiVars PROVE ApiInv'
    OBVIOUS
  <1>0. /\ interface \in [Kinds -> {"unloaded", "loaded", "failed"}]
        /\ \A a \in Apis : a \in owned => a \in live
        /\ clientData = owned
    BY DEF ApiInv, ApiTypes, ApiTypeOK, OwnedKnown
  <1>1. ASSUME NEW a \in Apis, NEW asked \in SUBSET Kinds, createInstance(a, asked)
        PROVE  ApiInv'
    <2> DEFINE S == {k \in asked : interface'[k] = "loaded"}
               adds == Adds(a, asked)
               new == AddsAsking(a, asked)
    <2>1. Tells(adds, "add", a, S)
      <3>1. "add" \in Ops /\ S \in SUBSET Kinds
        BY DEF Ops
      <3> QED
        BY <3>1, TellsEach DEF Adds
    <2>2. Brings(new, a, S)
      <3>1. CASE adds = <<>>
        <4>1. new = <<>>
          BY <3>1 DEF AddsAsking
        <4> HIDE DEF new
        <4> QED
          BY <4>1 DEF Brings
      <3>2. CASE adds # <<>>
        <4>1. new = <<adds[1], Msg("capabilities", adds[1].kind, a)>> \o Tail(adds)
          BY <3>2 DEF AddsAsking
        <4> HIDE DEF new, adds, S
        <4> QED
          BY <2>1, <3>2, <4>1, BringsAsking
      <3> QED
        BY <3>1, <3>2
    <2>3. /\ a \notin live /\ Load(asked) /\ posted' = posted \o new
          /\ clientData' = clientData \cup {a} /\ live' = live \cup {a} /\ owned' = owned \cup {a}
          /\ UNCHANGED <<destroyClientData, adapterVars, completing>>
      BY <1>1 DEF createInstance
    <2> HIDE DEF new, adds
    <2>4. Brings(new, a, {k \in Kinds : interface'[k] = "loaded"})
      BY <2>2 DEF Brings
    <2> QED
      BY <2>3, <2>4, AddsStep
  <1>2. ASSUME NEW a \in Apis, NEW asked \in SUBSET Kinds, updateCallbacks(a, asked)
        PROVE  ApiInv'
    <2> DEFINE S == {k \in asked : interface'[k] = "loaded"}
               new == Adds(a, asked)
    <2>1. Tells(new, "add", a, S)
      <3>1. "add" \in Ops /\ S \in SUBSET Kinds
        BY DEF Ops
      <3> QED
        BY <3>1, TellsEach DEF Adds
    <2>2. /\ a \in owned /\ Load(asked) /\ posted' = posted \o new
          /\ clientData' = clientData \cup {a} /\ UNCHANGED <<live, owned>>
          /\ UNCHANGED <<destroyClientData, adapterVars, completing>>
      BY <1>2 DEF updateCallbacks, callerVars
    <2> HIDE DEF new
    <2>3. Brings(new, a, S)
      BY <2>1, BringsAdds
    <2>4. Brings(new, a, {k \in Kinds : interface'[k] = "loaded"})
      BY <2>3 DEF Brings
    <2>5. live' = live \cup {a} /\ owned' = owned \cup {a}
      BY <1>0, <2>2
    <2> QED
      BY <2>2, <2>4, <2>5, AddsStep
  <1>3. ASSUME NEW a \in Apis, NEW withCb \in BOOLEAN, destroy(a, withCb) PROVE ApiInv'
    BY <1>3, DestroyStep
  <1>4. CASE SessionCall
    <2>1. PICK a \in Apis, k \in KindNames :
            /\ posted' = Append(posted, Msg("session", k, a))
            /\ UNCHANGED <<gData, callerVars, adapterVars, completing>>
      BY <1>4 DEF SessionCall, TrackingCall, BatchingCall, GeofenceCall, gnssNiResponse, KindNames
    <2>2. UNCHANGED <<interface, clientData, destroyClientData, live, owned, adapterVars, completing>>
      BY <2>1 DEF gData, callerVars
    <2> QED
      BY <1>0, <2>1, <2>2, CallPosts
  <1>5. CASE createControl
    <2>1. /\ Load({"gnss"} \cap Kinds)
          /\ UNCHANGED <<clientData, destroyClientData, live, owned, adapterVars, completing>>
          /\ posted' = Append(posted, Msg("control", "gnss", Null)) \/ UNCHANGED posted
      BY <1>5 DEF createControl, callerVars
    <2>2. /\ interface' \in [Kinds -> {"unloaded", "loaded", "failed"}]
          /\ \A k \in Kinds : interface[k] = "loaded" => interface'[k] = "loaded"
      BY <1>0, <2>1, LoadKeeps
    <2>3. "gnss" \in KindNames
      BY DEF KindNames
    <2>4. CASE posted' = Append(posted, Msg("control", "gnss", Null))
      BY <2>1, <2>2, <2>3, <2>4, CallPosts
    <2>5. CASE UNCHANGED posted
      BY <2>1, <2>2, <2>5, ControlStep
    <2> QED
      BY <2>1, <2>4, <2>5
  <1>6. CASE destroyControl \/ UNCHANGED apiVars
    <2>1. UNCHANGED <<interface, clientData, destroyClientData, live, owned, posted, adapterVars, completing>>
      BY <1>6 DEF destroyControl, apiVars, gData, callerVars
    <2> QED
      BY <1>0, <2>1, ControlStep
  <1>7. CASE ControlCall
    <2>1. /\ posted' = Append(posted, Msg("control", "gnss", Null))
          /\ UNCHANGED <<interface, clientData, destroyClientData, live, owned, adapterVars, completing>>
      BY <1>7 DEF ControlCall, gData, callerVars
    <2>2. "gnss" \in KindNames
      BY DEF KindNames
    <2> QED
      BY <1>0, <2>1, <2>2, CallPosts
  <1>8. CASE AdapterThread
    BY <1>8, HandleStep, DeleteStep DEF AdapterThread
  <1>9. ASSUME NEW k \in Kinds, EngineUp(k) PROVE ApiInv'
    BY <1>9, EngineUpStep
  <1> QED
    BY <1>1, <1>2, <1>3, <1>4, <1>5, <1>6, <1>7, <1>8, <1>9 DEF LocationAPINext

\* For any number of objects and calls, and queues of any length: an object is deleted
\* when no adapter has it for a client and no message would make one do so or answer.
THEOREM DeletesLast == LocationAPISpec => []DeletedLast
  <1>1. ApiInv => DeletedLast
    <2> SUFFICES ASSUME ApiInv, NEW a \in Apis \ live
                 PROVE  /\ destroyClientData[a] = {} /\ a \notin clientData
                        /\ \A k \in Kinds : a \notin mClientData[k]
                        /\ \A i \in DOMAIN posted :
                             posted[i].client = a => posted[i].op \notin {"add", "remove"}
      BY DEF DeletedLast
    <2>1. destroyClientData[a] = {} /\ \A k \in Kinds : Gone(k, a)
      BY DEF ApiInv, FreshFree
    <2>2. a \notin clientData
      BY DEF ApiInv, OwnedKnown, ApiTypes, ApiTypeOK
    <2>3. ASSUME NEW i \in DOMAIN posted, posted[i].client = a, posted[i].op \in {"add", "remove"}
          PROVE  FALSE
      <3>1. posted[i].kind \in Kinds
        BY <2>3 DEF ApiInv, ApiTypes
      <3> QED
        BY <2>1, <2>3, <3>1 DEF Gone, About
    <2> QED
      BY <2>1, <2>2, <2>3 DEF Gone
  <1> QED
    BY <1>1, ApiInvInit, ApiStep, PTL DEF LocationAPISpec

=============================================================================
