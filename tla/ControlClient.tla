---------------------------- MODULE ControlClient ----------------------------
(***************************************************************************)
(* LocationAPIControlClient: what a HAL service enables, disables, deletes *)
(* and configures, and the queues of requests it keeps to know what each   *)
(* response is for.  The adapter answers each command once, in order: the  *)
(* configuration commands with arrays of ids, the others with one id.      *)
(***************************************************************************)
EXTENDS Naturals, Sequences

CONSTANTS ControlConfigs, \* configurations the service passes; the first is 0
          MaxControl,     \* bound: commands given, each with an id of its own
          MaxUnanswered   \* bound: calls wait while this many are unanswered
ASSUME ControlAssumption ==
  0 \in ControlConfigs /\ MaxControl \in Nat /\ MaxUnanswered \in Nat

VARIABLES
  mEnabled, mConfig,
  ctrlQueues,    \* session, array of ids and requests of each kind
  ctrlCommands,  \* what the adapter has not answered yet
  lastControl,   \* ids given out
  ctrlFound      \* the request of the last response and what it answers

controlVars == <<mEnabled, mConfig, ctrlQueues, ctrlCommands, lastControl, ctrlFound>>

NoArray == 0
Queue(session, array, reqs) == [session |-> session, array |-> array, reqs |-> reqs]
CtrlKinds == {"delete", "control", "update", "get"}
NoCtrlFound == <<"none", "none">>
ControlInit ==
  /\ mEnabled = FALSE /\ mConfig = 0 /\ lastControl = 0 /\ ctrlCommands = <<>>
  /\ ctrlQueues = [q \in CtrlKinds |-> Queue(0, NoArray, <<>>)] /\ ctrlFound = NoCtrlFound

NextId == lastControl + 1
CanControl == Len(ctrlCommands) < MaxUnanswered
CtrlCommand(kind, id, request) == ctrlCommands' = Append(ctrlCommands, [kind |-> kind, id |-> id, request |-> request])
NewId == lastControl < MaxControl /\ lastControl' = NextId
\* (A mutant: what was asked before stays in the queue.)
StartQueueKeeping(q, request) ==
  ctrlQueues' = [ctrlQueues EXCEPT ![q] = Queue(NextId, @.array, Append(@.reqs, request))]
StartQueue(q, request) == ctrlQueues' = [ctrlQueues EXCEPT ![q] = Queue(NextId, @.array, <<request>>)]

locAPIGnssDeleteAidingData ==
  /\ CanControl /\ NewId
  /\ StartQueue("delete", "delete") /\ CtrlCommand("one", NextId, "delete")
  /\ UNCHANGED <<mEnabled, mConfig, ctrlFound>>
locAPIEnable ==
  /\ CanControl /\ ~mEnabled /\ NewId
  /\ StartQueue("control", "enable") /\ CtrlCommand("one", NextId, "enable")
  /\ mEnabled' = TRUE
  /\ UNCHANGED <<mConfig, ctrlFound>>
locAPIDisable ==
  /\ CanControl /\ mEnabled
  /\ LET session == ctrlQueues["control"].session IN
     /\ session > 0
     /\ ctrlQueues' = [ctrlQueues EXCEPT !["control"].reqs = Append(@, "disable")]
     /\ CtrlCommand("one", session, "disable")
  /\ mEnabled' = FALSE
  /\ UNCHANGED <<mConfig, lastControl, ctrlFound>>
\* The array of ids is kept only where one is kept already, and none ever is.
PushConfig(q) ==
  ctrlQueues' = [ctrlQueues EXCEPT
    ![q] = IF @.array # NoArray THEN Queue(0, NextId, <<q>>) ELSE Queue(@.session, @.array, Append(@.reqs, q))]
\* The same configuration again is not passed on.
locAPIGnssUpdateConfig(config) ==
  /\ CanControl /\ config # mConfig /\ NewId /\ mConfig' = config
  /\ PushConfig("update") /\ CtrlCommand("array", NextId, "update")
  /\ UNCHANGED <<mEnabled, ctrlFound>>
locAPIGnssGetConfig ==
  /\ CanControl /\ NewId
  /\ PushConfig("get") /\ CtrlCommand("array", NextId, "get")
  /\ UNCHANGED <<mEnabled, mConfig, ctrlFound>>

\* The queue a response belongs to, if any: the first one with its id, or with
\* the array that it comes with.
First(q, r, Has(_)) == IF Has(q) THEN {q} ELSE IF Has(r) THEN {r} ELSE {}
getCtrlRequestBySession(id) == First("delete", "control", LAMBDA q : ctrlQueues[q].session = id)
getRequestBySessionArrayPtr(array) == First("update", "get", LAMBDA q : ctrlQueues[q].array = array)
onCtrlResponse ==
  /\ ctrlCommands # <<>> /\ ctrlCommands' = Tail(ctrlCommands)
  /\ LET c == Head(ctrlCommands)
         owners == IF c.kind = "one" THEN getCtrlRequestBySession(c.id) ELSE getRequestBySessionArrayPtr(c.id)
         waiting == {q \in owners : ctrlQueues[q].reqs # <<>>}
     IN IF waiting = {} THEN ctrlFound' = NoCtrlFound /\ UNCHANGED ctrlQueues
        ELSE \E q \in waiting : /\ ctrlFound' = <<Head(ctrlQueues[q].reqs), c.request>>
                                /\ ctrlQueues' = [ctrlQueues EXCEPT ![q].reqs = Tail(@)]
  /\ UNCHANGED <<mEnabled, mConfig, lastControl>>

ControlNext ==
  \/ locAPIGnssDeleteAidingData \/ locAPIEnable \/ locAPIDisable
  \/ \E config \in ControlConfigs : locAPIGnssUpdateConfig(config)
  \/ locAPIGnssGetConfig \/ onCtrlResponse

\* A response that is handed to a request is handed to the one whose command it
\* answers, however commands, enabling and disabling overlap: an answer from
\* before the last start of a queue finds nothing there.
ControlAnswersMatch == ctrlFound[1] = ctrlFound[2]
=============================================================================
