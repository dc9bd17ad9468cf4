------------------------------ MODULE Geofence ------------------------------
(***************************************************************************)
(* GeofenceAdapter.cpp: the fences of all clients, by the modem's number   *)
(* and by client and id, over a modem that may refuse, crash and restart.  *)
(* A command waits twice on the adapters' thread, as a message and then as *)
(* a call from the call queue of LocApi; the modem's responses and events  *)
(* are messages too.  The modem is external: it serves requests in order   *)
(* and gives a fence the lowest free number.  A command names one fence;   *)
(* one that names several is their calls in a row.  The answers to the     *)
(* clients are left out.                                                   *)
(***************************************************************************)
EXTENDS Pointers, Integers, Sequences, FiniteSets

CONSTANTS Keys,         \* <<client, id>> of the fences that may be added
          HwIds,        \* the modem's numbers
          MaxInFlight,  \* bound: clients and events wait at this many messages
          MaxRestarts,  \* bound: crashes of the modem
          Refusals      \* whether the modem may refuse what it could do
ASSUME FenceAssumption ==
  HwIds \subseteq Nat \ {0} /\ Null \notin Keys /\ MaxInFlight \in Nat /\ MaxRestarts \in Nat
  /\ Refusals \in BOOLEAN /\ IsFiniteSet(Keys) /\ IsFiniteSet(HwIds)

VARIABLES
  mGeofences, mGeofenceIds,
  fenceMsgs,     \* messages of the adapter's thread
  requested,     \* requests the modem has not served
  modem,         \* the modem's fences
  up, restarts,  \* the modem is up; how often it crashed
  added, goneClients, \* keys given out so far; clients removed
  pausedKeys     \* fences whose pause, and no resume since, succeeded

fenceState == <<mGeofences, mGeofenceIds>>
modemState == <<modem, up, restarts>>
callerState == <<added, goneClients>>
fenceVars == <<fenceState, fenceMsgs, requested, modemState, callerState, pausedKeys>>

NoFence == [key |-> Null, paused |-> FALSE]
Fences(m) == {h \in HwIds : m[h] # NoFence}
\* The orders in which a loop may take the elements of a set.
Orders(S) == {s \in [1 .. Cardinality(S) -> S] : \A i, j \in DOMAIN s : s[i] = s[j] => i = j}
LeastOf(S) == CHOOSE h \in S : \A g \in S : h <= g
FMsg(op, key, hw) == [op |-> op, key |-> key, hw |-> hw, ok |-> TRUE, paused |-> FALSE]

GeofenceInit ==
  /\ mGeofences = [h \in HwIds |-> NoFence] /\ mGeofenceIds = [k \in Keys |-> 0]
  /\ fenceMsgs = <<>> /\ requested = <<>> /\ modem = [h \in HwIds |-> NoFence]
  /\ up = TRUE /\ restarts = 0 /\ added = {} /\ goneClients = {} /\ pausedKeys = {}

\* Commands of the clients.
InFlight == Len(fenceMsgs) + Len(requested)
MayCommand(k) == InFlight < MaxInFlight /\ k[1] \notin goneClients
Post(m) == fenceMsgs' = Append(fenceMsgs, m)
addGeofencesCommand(k) ==
  /\ MayCommand(k) /\ k \notin added /\ added' = added \cup {k}
  /\ Post(FMsg("cmdAdd", k, 0))
  /\ UNCHANGED <<fenceState, requested, modemState, goneClients, pausedKeys>>
FenceCommand(op, k) ==
  /\ MayCommand(k) /\ k \in added /\ Post(FMsg(op, k, 0))
  /\ UNCHANGED <<fenceState, requested, modemState, callerState, pausedKeys>>
removeGeofencesCommand(k) == FenceCommand("cmdRemove", k)
pauseGeofencesCommand(k) == FenceCommand("cmdPause", k)
resumeGeofencesCommand(k) == FenceCommand("cmdResume", k)
modifyGeofencesCommand(k) == FenceCommand("cmdModify", k)
removeClientCommand(c) ==
  /\ c \notin goneClients /\ goneClients' = goneClients \cup {c}
  /\ Post(FMsg("removeClient", <<c, 0>>, 0))
  /\ UNCHANGED <<fenceState, requested, modemState, added, pausedKeys>>

\* What each message does.  A command comes back from the call queue as a call.
FenceCalls == [cmdAdd |-> "add", cmdRemove |-> "remove", cmdPause |-> "pause",
          cmdResume |-> "resume", cmdModify |-> "modify"]
ToCallQueue(m) ==
  /\ fenceMsgs' = Append(Tail(fenceMsgs), [m EXCEPT !.op = FenceCalls[m.op]])
  /\ UNCHANGED <<fenceState, requested, pausedKeys>>
Request(ms) == requested' = requested \o ms /\ fenceMsgs' = Tail(fenceMsgs)
CallAdd(m) == Request(<<m>>) /\ UNCHANGED <<fenceState, pausedKeys>>
\* The other calls look the modem's number up, and end there if it is unknown.
CallOther(m) ==
  /\ IF mGeofenceIds[m.key] = 0 THEN Request(<<>>)
     ELSE Request(<<[m EXCEPT !.hw = mGeofenceIds[m.key]]>>)
  /\ UNCHANGED <<fenceState, pausedKeys>>

saveGeofenceItem(m) ==
  /\ mGeofences' = [mGeofences EXCEPT ![m.hw] = [key |-> m.key, paused |-> FALSE]]
  /\ mGeofenceIds' = [mGeofenceIds EXCEPT ![m.key] = m.hw]
RespondAdd(m) ==
  /\ Request(<<>>)
  /\ IF m.ok THEN saveGeofenceItem(m) ELSE UNCHANGED fenceState
  /\ UNCHANGED pausedKeys
\* The response to an add of restartGeofences: the fence is paused again in the
\* modem if it was, and saved like a new one.
RespondReadd(m) ==
  /\ Request(IF m.ok /\ m.paused THEN <<FMsg("pauseAgain", m.key, m.hw)>> ELSE <<>>)
  /\ IF m.ok THEN saveGeofenceItem(m) ELSE UNCHANGED fenceState
  /\ UNCHANGED pausedKeys
KeepFence(m) == Request(<<>>) /\ UNCHANGED <<fenceState, pausedKeys>>
RemoveRefused(m) ==
  LET key == mGeofences[m.hw].key IN
  /\ Request(<<>>)
  /\ IF key # Null /\ mGeofenceIds[key] # 0
     THEN /\ mGeofenceIds' = [mGeofenceIds EXCEPT ![key] = 0]
          /\ mGeofences' = [mGeofences EXCEPT ![m.hw] = NoFence]
          /\ pausedKeys' = pausedKeys \ {key}
     ELSE UNCHANGED <<fenceState, pausedKeys>>
removeGeofenceItem(m) ==
  LET key == mGeofences[m.hw].key IN
  /\ Request(<<>>)
  /\ IF m.ok /\ key # Null /\ mGeofenceIds[key] # 0
     THEN /\ mGeofenceIds' = [mGeofenceIds EXCEPT ![key] = 0]
          /\ mGeofences' = [mGeofences EXCEPT ![m.hw] = NoFence]
          /\ pausedKeys' = pausedKeys \ {key}
     ELSE UNCHANGED <<fenceState, pausedKeys>>
SetItem(m, item) ==
  /\ Request(<<>>)
  /\ mGeofences' = IF m.ok /\ mGeofences[m.hw] # NoFence
                   THEN [mGeofences EXCEPT ![m.hw] = item] ELSE mGeofences
  /\ UNCHANGED mGeofenceIds
pauseGeofenceItem(m) ==
  /\ SetItem(m, [mGeofences[m.hw] EXCEPT !.paused = TRUE])
  /\ pausedKeys' = IF m.ok THEN pausedKeys \cup {m.key} ELSE pausedKeys
resumeGeofenceItem(m) ==
  /\ SetItem(m, [mGeofences[m.hw] EXCEPT !.paused = FALSE])
  /\ pausedKeys' = IF m.ok THEN pausedKeys \ {m.key} ELSE pausedKeys
\* modifyGeofenceItem changes the options only, which are left out.
modifyGeofenceItem(m) == KeepFence(m)
\* stopClientSessions: the keys go at once, each fence with the modem's response.
stopClientSessions(m) ==
  LET mine == {k \in Keys : k[1] = m.key[1] /\ mGeofenceIds[k] # 0} IN
  /\ \E order \in Orders(mine) :
       Request([i \in DOMAIN order |-> FMsg("removeOfClient", order[i], mGeofenceIds[order[i]])])
  /\ mGeofenceIds' = [k \in Keys |-> IF k \in mine THEN 0 ELSE mGeofenceIds[k]]
  /\ UNCHANGED <<mGeofences, pausedKeys>>
RespondRemoveOfClient(m) ==
  /\ Request(<<>>)
  /\ mGeofences' = IF m.ok THEN [mGeofences EXCEPT ![m.hw] = NoFence] ELSE mGeofences
  /\ UNCHANGED <<mGeofenceIds, pausedKeys>>

\* restartGeofences: the maps are emptied and every fence added anew.
Readds(order) ==
  [i \in DOMAIN order |->
     [FMsg("readd", mGeofences[order[i]].key, 0) EXCEPT !.paused = mGeofences[order[i]].paused]]
restartGeofences ==
  /\ \E order \in Orders(Fences(mGeofences)) :
       (\A i, j \in DOMAIN order : i < j => order[i] < order[j]) /\ Request(Readds(order))
  /\ mGeofences' = [h \in HwIds |-> NoFence] /\ mGeofenceIds' = [k \in Keys |-> 0]
  /\ UNCHANGED pausedKeys
\* geofenceBreach and geofenceStatus only call the clients.
geofenceBreach(m) == KeepFence(m)

Handle(m) ==
  CASE m.op \in DOMAIN FenceCalls -> ToCallQueue(m)
    [] m.op = "add" -> CallAdd(m)
    [] m.op \in {"remove", "pause", "resume", "modify"} -> CallOther(m)
    [] m.op = "removeClient" -> stopClientSessions(m)
    [] m.op = "addDone" -> RespondAdd(m)
    [] m.op = "readdDone" -> RespondReadd(m)
    [] m.op = "removeDone" -> removeGeofenceItem(m)
    [] m.op = "pauseDone" -> pauseGeofenceItem(m)
    [] m.op = "resumeDone" -> resumeGeofenceItem(m)
    [] m.op = "modifyDone" -> modifyGeofenceItem(m)
    [] m.op = "removeOfClientDone" -> RespondRemoveOfClient(m)
    [] m.op = "engineUp" -> restartGeofences
    [] m.op = "breach" -> geofenceBreach(m)
    [] m.op = "pauseAgainDone" -> KeepFence(m)
HandleFenceMsg ==
  /\ fenceMsgs # <<>> /\ Handle(Head(fenceMsgs))
  /\ UNCHANGED <<modemState, callerState>>

\* The modem (external): serves a request, crashes, comes back, sees a breach.
Done == [add |-> "addDone", readd |-> "readdDone", remove |-> "removeDone", pause |-> "pauseDone",
         resume |-> "resumeDone", modify |-> "modifyDone", removeOfClient |-> "removeOfClientDone",
         pauseAgain |-> "pauseAgainDone"]
Response(r, hw, ok) == [r EXCEPT !.op = Done[r.op], !.hw = hw, !.ok = ok]
Free == HwIds \ Fences(modem)
ServeOne(r, ok) ==
  LET adds == r.op \in {"add", "readd"}
      hw == IF adds /\ Free # {} THEN LeastOf(Free) ELSE r.hw
      able == up /\ (IF adds THEN Free # {} ELSE hw \in Fences(modem))
  IN /\ ok => able
     /\ able /\ ~Refusals => ok
     /\ Post(Response(r, hw, ok))
     /\ modem' = IF ~ok THEN modem
                 ELSE CASE adds -> [modem EXCEPT ![hw] = [key |-> r.key, paused |-> FALSE]]
                        [] r.op \in {"remove", "removeOfClient"} -> [modem EXCEPT ![hw] = NoFence]
                        [] r.op \in {"pause", "pauseAgain"} -> [modem EXCEPT ![hw].paused = TRUE]
                        [] r.op = "resume" -> [modem EXCEPT ![hw].paused = FALSE]
                        [] r.op = "modify" -> modem
ModemServes ==
  /\ requested # <<>> /\ requested' = Tail(requested)
  /\ \E ok \in BOOLEAN : ServeOne(Head(requested), ok)
  /\ UNCHANGED <<fenceState, up, restarts, callerState, pausedKeys>>
ModemCrash ==
  /\ up /\ restarts < MaxRestarts
  /\ up' = FALSE /\ restarts' = restarts + 1 /\ modem' = [h \in HwIds |-> NoFence]
  /\ fenceMsgs' = fenceMsgs \o [i \in DOMAIN requested |-> Response(requested[i], requested[i].hw, FALSE)]
  /\ requested' = <<>>
  /\ UNCHANGED <<fenceState, callerState, pausedKeys>>
ModemUp ==
  /\ ~up /\ up' = TRUE /\ Post(FMsg("engineUp", Null, 0))
  /\ UNCHANGED <<fenceState, requested, modem, restarts, callerState, pausedKeys>>
ModemBreach(h) ==
  /\ InFlight < MaxInFlight /\ h \in Fences(modem) /\ ~modem[h].paused
  /\ Post(FMsg("breach", modem[h].key, h))
  /\ UNCHANGED <<fenceState, requested, modemState, callerState, pausedKeys>>

FenceCallers(keys) ==
  \/ \E k \in keys : \/ addGeofencesCommand(k) \/ removeGeofencesCommand(k)
                     \/ pauseGeofencesCommand(k) \/ resumeGeofencesCommand(k)
                     \/ modifyGeofencesCommand(k) \/ removeClientCommand(k[1])
  \/ \E h \in HwIds : ModemBreach(h)
FenceServed == HandleFenceMsg \/ ModemServes \/ ModemCrash \/ ModemUp
GeofenceNext == FenceCallers(Keys) \/ FenceServed

\* With nothing under way the adapter knows every fence of the modem by its
\* number, and those of the clients that are still there by their keys, so that
\* they can be removed, after restarts and refusals
\* (GeofenceAdapter.cpp:152, :358, :65).
Quiet == fenceMsgs = <<>> /\ requested = <<>> /\ up
ModemAgrees ==
  Quiet => \A h \in Fences(modem) :
             /\ mGeofences[h].key = modem[h].key
             /\ modem[h].key[1] \notin goneClients => mGeofenceIds[modem[h].key] = h

\* LocationAPI.h:158: a paused fence is like a removed one until it is resumed,
\* so with nothing under way the modem does not watch it.
PauseSurvives ==
  Quiet => \A h \in Fences(modem) : modem[h].key \in pausedKeys => modem[h].paused
=============================================================================
