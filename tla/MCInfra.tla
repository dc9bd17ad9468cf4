------------------------------ MODULE MCInfra ------------------------------
(***************************************************************************)
(* The utilities under every adapter, one per behaviour: part chooses in   *)
(* the initial state whose steps are taken.  They share no variable, so    *)
(* interleaving them would add nothing.                                    *)
(***************************************************************************)
EXTENDS MsgTask, LinkedList, LocHeap, LocTimer

MCItems == 1 .. 5
MCRank == <<1, 2, 2, 3, 3>>

VARIABLE part
infraVars == <<part, taskVars, listVars, heapVars, timerVars>>

MCInit ==
  /\ part \in {"thread", "task", "list", "heap", "timer"}
  /\ TaskInit /\ linked_list_init /\ HeapInit /\ TimerInit
  /\ part \in {"thread", "task"} \/ joinable

ThreadPart == part = "thread" /\ UNCHANGED <<part, queueVars, listVars, heapVars, timerVars>>
TaskPart == part = "task" /\ UNCHANGED <<part, listVars, heapVars, timerVars>>
ListPart == part = "list" /\ UNCHANGED <<part, taskVars, heapVars, timerVars>>
HeapPart == part = "heap" /\ UNCHANGED <<part, taskVars, listVars, timerVars>>
TimerPart == part = "timer" /\ UNCHANGED <<part, taskVars, listVars, heapVars>>

MCNext ==
  \/ ThreadPart /\ ThreadNext
  \/ TaskPart /\ TaskNext
  \/ ListPart /\ ListNext
  \/ HeapPart /\ HeapNext
  \/ TimerPart /\ TimerNext

MCSpec ==
  /\ MCInit /\ [][MCNext]_infraVars
  /\ WF_infraVars(OwnerOfTask /\ TaskPart)
  /\ WF_infraVars(ThreadOfTask /\ TaskPart)
  /\ WF_infraVars(OnThread /\ DestroyTask /\ TaskPart)
  /\ WF_infraVars(Container /\ TimerPart)
  /\ WF_infraVars(PollTask /\ TimerPart)
  /\ WF_infraVars(Tick /\ TimerPart)

\* Every variable of the utilities has its type.
InfraTypeOK == TaskTypeOK /\ TimerTypeOK
=============================================================================
