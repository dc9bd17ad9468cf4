---------------------------- MODULE ClientFences ----------------------------
(***************************************************************************)
(* The geofences of a HAL client (LocationAPIClientBase): the client's ids *)
(* and the adapter's sessions of them, and the one queue of requests that  *)
(* every collective response is matched against in order.  The geofence    *)
(* adapter is what its own model makes of it: it answers each command      *)
(* once, when the engine has answered it, in whatever order that is.       *)
(***************************************************************************)
EXTENDS BiDict, SequencesExt

CONSTANTS FenceIds, Breaches,
          MaxFences,     \* bound: fences the adapter numbers, from 1
          MaxFenceCalls, \* bound: calls wait while this many are unanswered
          Careful        \* whether callers wait for each answer
ASSUME ClientFenceAssumption ==
  /\ FenceIds \subseteq Nat \ {0} /\ MaxFences \in Nat /\ MaxFenceCalls \in Nat
  /\ Careful \in BOOLEAN

VARIABLES
  mLocationAPI,    \* "unset", then "set", then "gone": callers drop a destroyed client
  fenceSession,    \* whether the queue of fence requests is in use
  fenceReqs,       \* that queue
  mGeofenceBiDict,
  fenceCommands,   \* what the adapter has not answered yet
  fenced,          \* the adapter's fences, with the breaches of each
  lastFence,       \* the last session given to a fence
  fenceFound,      \* the request of a response and what it answers, until done
  addedAs,         \* history: the id that each session's fence was added under
  breached         \* the fences last told to the user: their sessions and ids

fenceClientVars ==
  <<fenceSession, fenceReqs, mGeofenceBiDict, fenceCommands, fenced, lastFence, fenceFound,
    addedAs, breached>>

NoFenceFound == <<>>
FenceClientInit ==
  /\ mLocationAPI = "unset" /\ fenceSession = FALSE /\ fenceReqs = <<>> /\ mGeofenceBiDict = BiEmpty
  /\ fenceCommands = <<>> /\ fenced = <<>> /\ lastFence = 0 /\ fenceFound = NoFenceFound
  /\ addedAs = <<>> /\ breached = {}

IdLists == {<<id>> : id \in FenceIds} \cup {ids \in FenceIds \X FenceIds : ids[1] # ids[2]}
Masks(ids) == [DOMAIN ids -> SUBSET Breaches]
Indices(ids) == [k \in DOMAIN ids |-> k]
\* The elements of a set of numbers in ascending order: the one sequence of them.
InTurn(S) == {p \in [1 .. Cardinality(S) -> S] : \A i, j \in DOMAIN p : i < j => p[i] < p[j]}
\* Those of the ids that have a session, in the order they are passed.
Known(ids) ==
  {[j \in DOMAIN p |-> ids[p[j]]] :
     p \in InTurn({k \in DOMAIN ids : getSession(mGeofenceBiDict, ids[k]) > 0})}
\* (A mutant: the sessions of the known ids come first.)
SessionsFirst(ids) ==
  LET known == SelectSeq(ids, LAMBDA id : getSession(mGeofenceBiDict, id) > 0) IN
  [k \in DOMAIN ids |-> IF k \in DOMAIN known THEN getSession(mGeofenceBiDict, known[k]) ELSE 0]
Sessions(ids) == [k \in DOMAIN ids |-> getSession(mGeofenceBiDict, ids[k])]

CanAskFences ==
  /\ mLocationAPI = "set" /\ Len(fenceCommands) < MaxFenceCalls
  /\ Careful => (fenceFound = NoFenceFound /\ fenceReqs = <<>>)
\* The request waits in the queue; the command names the fences that have a
\* session, and with them the masks as they were passed.
Ask(kind, ids, sessions, masks, removed) ==
  /\ fenceReqs' = Append(fenceReqs, [kind |-> kind, removed |-> removed])
  /\ fenceCommands' = Append(fenceCommands, [kind |-> kind, ids |-> ids, sessions |-> sessions, masks |-> masks])
\* Sets the ids that have a session, which are different ones.
SetMasks(d, ids, sessions, masks) ==
  LET set == {k \in DOMAIN ids : sessions[k] > 0}
      SetAll(f, keys, values) ==
        [x \in DOMAIN f \cup {keys[k] : k \in set} |->
           IF \E k \in set : keys[k] = x THEN values[CHOOSE k \in set : keys[k] = x] ELSE f[x]]
  IN [forward |-> SetAll(d.forward, ids, sessions), backward |-> SetAll(d.backward, sessions, ids),
      ext |-> SetAll(d.ext, sessions, masks)]
\* A call about fences none of which has a session asks for nothing.
AskKnown(kind, ids, masks) ==
  \E known \in Known(ids) :
    IF known = <<>> THEN UNCHANGED <<fenceReqs, fenceCommands>>
    ELSE Ask(kind, known, Sessions(known), masks, BiEmpty)

locAPIAddGeofences(ids, masks) ==
  /\ CanAskFences /\ lastFence + Len(ids) <= MaxFences
  /\ fenceSession' = TRUE
  /\ LET sessions == [k \in DOMAIN ids |-> lastFence + k]
     IN Ask("add", ids, sessions, masks, BiEmpty) /\ mGeofenceBiDict' = SetMasks(mGeofenceBiDict, ids, sessions, masks)
  /\ lastFence' = lastFence + Len(ids) /\ addedAs' = addedAs \o ids
  /\ UNCHANGED <<fenced, fenceFound, breached>>
\* The fences leave the dictionary at once; the request keeps their ids.
locAPIRemoveGeofences(ids) ==
  /\ CanAskFences /\ fenceSession
  /\ \E known \in Known(ids) :
       LET sessions == Sessions(known) IN
       IF known = <<>> THEN UNCHANGED <<fenceReqs, fenceCommands, mGeofenceBiDict>>
       ELSE /\ Ask("remove", known, sessions, <<>>,
                   SetMasks(BiEmpty, known, sessions, [k \in DOMAIN known |-> mGeofenceBiDict.ext[sessions[k]]]))
            /\ mGeofenceBiDict' = rmSessions(mGeofenceBiDict, {sessions[k] : k \in DOMAIN sessions})
  /\ UNCHANGED <<fenceSession, fenced, lastFence, fenceFound, addedAs, breached>>
\* It takes the sessions of all fences for their ids.
locAPIRemoveAllGeofences ==
  \E ids \in InTurn(getAllSessions(mGeofenceBiDict)) : locAPIRemoveGeofences(ids)
locAPIModifyGeofences(ids, masks) ==
  /\ CanAskFences /\ fenceSession
  /\ AskKnown("modify", ids, masks)
  /\ mGeofenceBiDict' = SetMasks(mGeofenceBiDict, ids, Sessions(ids), masks)
  /\ UNCHANGED <<fenceSession, fenced, lastFence, fenceFound, addedAs, breached>>
locAPIPauseGeofences(ids) ==
  /\ CanAskFences /\ fenceSession
  /\ AskKnown("pause", ids, <<>>)
  /\ UNCHANGED <<fenceSession, mGeofenceBiDict, fenced, lastFence, fenceFound, addedAs, breached>>
\* A resume may come with new masks, which only the client keeps.
locAPIResumeGeofences(ids, masks) ==
  /\ CanAskFences /\ fenceSession
  /\ AskKnown("resume", ids, <<>>)
  /\ mGeofenceBiDict' \in {mGeofenceBiDict, SetMasks(mGeofenceBiDict, ids, Sessions(ids), masks)}
  /\ UNCHANGED <<fenceSession, fenced, lastFence, fenceFound, addedAs, breached>>

\* What the adapter makes of a command that succeeds: its k-th fence gets the
\* k-th mask passed, though the client left out the ids that it did not know.
Obeyed(c) ==
  CASE c.kind = "add" -> FoldLeft(LAMBDA f, k : Put(f, c.sessions[k], c.masks[k]), fenced, Indices(c.ids))
    [] c.kind = "modify" ->
         FoldLeft(LAMBDA f, k : IF c.sessions[k] \in DOMAIN f THEN Put(f, c.sessions[k], c.masks[k]) ELSE f,
                  fenced, Indices(c.ids))
    [] c.kind = "remove" -> FoldLeft(Drop, fenced, c.sessions)
    [] OTHER -> fenced
\* The response of any unanswered command takes the first request.
onCollectiveResponseCb ==
  /\ fenceFound = NoFenceFound
  /\ \E i \in DOMAIN fenceCommands :
       LET c == fenceCommands[i] IN
       /\ fenceCommands' = RemoveAt(fenceCommands, i)
       /\ fenced' \in {fenced, Obeyed(c)}
       /\ IF fenceSession /\ fenceReqs # <<>>
          THEN fenceReqs' = Tail(fenceReqs) /\ fenceFound' = <<Head(fenceReqs), c>>
          ELSE UNCHANGED <<fenceReqs, fenceFound>>
  /\ UNCHANGED <<fenceSession, mGeofenceBiDict, lastFence, addedAs, breached>>
\* The ids the request tells its caller: those it kept of removed fences, else
\* those the dictionary now has of the sessions.
ToldIds(request, sessions) ==
  [k \in DOMAIN sessions |->
     getId(IF request.kind = "remove" THEN request.removed ELSE mGeofenceBiDict, sessions[k])]
onCollectiveResponse ==
  /\ fenceFound # NoFenceFound /\ fenceFound' = NoFenceFound
  /\ UNCHANGED <<fenceSession, fenceReqs, mGeofenceBiDict, fenceCommands, fenced, lastFence, addedAs, breached>>
\* The engine reports a breach of some fences: the user hears of those whose
\* mask has it, by their ids.
beforeGeofenceBreachCb ==
  /\ mLocationAPI = "set"
  /\ \E S \in (SUBSET DOMAIN fenced) \ {{}}, type \in Breaches :
       breached' = {<<s, getId(mGeofenceBiDict, s)>> :
                      s \in {x \in S \cap DOMAIN mGeofenceBiDict.ext : type \in mGeofenceBiDict.ext[x]}}
  /\ UNCHANGED <<fenceSession, fenceReqs, mGeofenceBiDict, fenceCommands, fenced, lastFence, fenceFound, addedAs>>

\* What destroy does to the fences: the requests are dropped.
DropFenceRequests ==
  /\ fenceSession' = FALSE /\ fenceReqs' = <<>>
  /\ UNCHANGED <<mGeofenceBiDict, fenceCommands, fenced, lastFence, fenceFound, addedAs, breached>>

FenceClientNext ==
  \/ \E ids \in IdLists : \E masks \in Masks(ids) :
       locAPIAddGeofences(ids, masks) \/ locAPIModifyGeofences(ids, masks) \/ locAPIResumeGeofences(ids, masks)
  \/ \E ids \in IdLists : locAPIRemoveGeofences(ids) \/ locAPIPauseGeofences(ids)
  \/ locAPIRemoveAllGeofences
  \/ onCollectiveResponseCb \/ onCollectiveResponse \/ beforeGeofenceBreachCb

\* LocationAPI.h:132: the ids are used "in the collectiveResponseCallback to
\* match command with response": the caller of each fence command hears, by the
\* ids it used, of that command.
FenceAnswersMatch ==
  fenceFound # NoFenceFound =>
    /\ fenceFound[1].kind = fenceFound[2].kind
    /\ ToldIds(fenceFound[1], fenceFound[2].sessions) = fenceFound[2].ids

\* A breach is told by the id that the user added that fence under
\* (LocationAPIClientBase.cpp:856), though ids are added again, removed and
\* passed with others that have no session while the adapter's fences stay.
BreachesNamed == \A b \in breached : b[2] = addedAs[b[1]]
=============================================================================
