------------------------------- MODULE MsgTask -------------------------------
(***************************************************************************)
(* MsgTask (src/gps/utils/MsgTask.cpp) and its queue msg_q (msg_q.c): the  *)
(* LocRunnable of a LocThread that receives messages and runs proc() of    *)
(* each.  The queue is a FIFO under a mutex and a condition variable;      *)
(* destroy() unblocks it and gives the LocThread up, possibly from within  *)
(* a message of the task itself (LocKillMsg of LocApiBase).                *)
(***************************************************************************)
EXTENDS LocThread

CONSTANTS Messages, Kill
ASSUME MessagesOK == Kill \in Messages

VARIABLES
  mQ,         \* the linked list of the queue, oldest message first
  unblocked,  \* unblocked of the queue
  fate,       \* what became of each message
  sent        \* auxiliary: the accepted messages in the order of sendMsg

queueVars == <<mQ, unblocked, fate, sent>>
taskVars == <<threadVars, queueVars>>

Fates == {"unsent", "queued", "proc", "done", "flushed", "lost"}
TaskTypeOK ==
  /\ ThreadTypeOK
  /\ mQ \in Seq(Messages) /\ sent \in Seq(Messages)
  /\ unblocked \in BOOLEAN
  /\ fate \in [Messages -> Fates]

TaskInit ==
  /\ ThreadInit
  /\ mQ = <<>> /\ sent = <<>> /\ unblocked = FALSE
  /\ fate = [m \in Messages |-> "unsent"]

\* pthread_cond_signal and _broadcast: the receiver is the only one that waits.
WakeNobody == UNCHANGED worker
Wake == worker' = IF worker = "wait" THEN "awake" ELSE worker

-----------------------------------------------------------------------------
(* Clients.                                                                *)

\* sendMsg ignores that msg_q_snd refuses a message once the queue is unblocked.
SendMsg(m) ==
  /\ fate[m] = "unsent"
  /\ runnable = "live" /\ owner \notin {"new", "check"}
  /\ m = Kill => owner = "up"
  /\ IF unblocked
     THEN /\ fate' = [fate EXCEPT ![m] = "lost"]
          /\ UNCHANGED <<mQ, sent, worker>>
     ELSE /\ fate' = [fate EXCEPT ![m] = "queued"]
          /\ mQ' = Append(mQ, m)
          /\ sent' = Append(sent, m)
          /\ Wake
  /\ UNCHANGED <<owner, running, joinable, refCount, runnable, unblocked>>

msg_q_unblock_quietly == unblocked' = TRUE /\ UNCHANGED <<worker, mQ, fate, sent>>
msg_q_unblock == unblocked' = TRUE /\ Wake /\ UNCHANGED <<mQ, fate, sent>>

msg_q_flush ==
  /\ mQ' = <<>>
  /\ fate' = [m \in Messages |-> IF fate[m] = "queued" THEN "flushed" ELSE fate[m]]
  /\ UNCHANGED <<unblocked, sent>>

\* destroy by the owner, or by the message that kills the task: the first step
\* unblocks, the second nulls mThread; then ~LocThread runs.
DestroyTask ==
  /\ owner = "up"
  /\ fate[Kill] = "unsent" \/ (worker = "proc" /\ fate[Kill] = "proc")
  /\ msg_q_unblock
  /\ owner' = "unblocked"
  /\ UNCHANGED <<running, joinable, refCount, runnable>>
NullThread ==
  /\ owner = "unblocked"
  /\ owner' = "bye"
  /\ UNCHANGED <<worker, running, joinable, refCount, runnable, queueVars>>

\* Without a thread, destroy deletes the task itself.
DeleteTask ==
  /\ owner = "failed"
  /\ owner' = "done" /\ runnable' = "deleted"
  /\ mQ' = <<>> /\ unblocked' = TRUE
  /\ fate' = [m \in Messages |-> IF fate[m] = "queued" THEN "flushed" ELSE fate[m]]
  /\ UNCHANGED <<worker, running, joinable, refCount, sent>>

OnThread == worker = "proc" /\ fate[Kill] = "proc"
OwnerOfTask ==
  \/ NullThread
  \/ (CheckRunning \/ OwnerLeaves \/ Join(OnThread)) /\ UNCHANGED queueVars

-----------------------------------------------------------------------------
(* run() on the thread: msg_q_rcv, then proc of the message.               *)

TakeNewest ==
  /\ mQ' = SubSeq(mQ, 1, Len(mQ) - 1)
  /\ fate' = [fate EXCEPT ![mQ[Len(mQ)]] = "proc"]
  /\ worker' = "proc"
Take ==
  /\ mQ' = Tail(mQ)
  /\ fate' = [fate EXCEPT ![Head(mQ)] = "proc"]
  /\ worker' = "proc"

\* The loop around pthread_cond_wait; after it an empty queue is a failure, and
\* run returns false.
AwaitMessage ==
  \/ /\ mQ # <<>> /\ Take
  \/ /\ mQ = <<>> /\ worker' = (IF unblocked THEN "post" ELSE "wait")
     /\ UNCHANGED <<mQ, fate>>
msg_q_rcv ==
  /\ \/ /\ worker = "run" /\ unblocked
        /\ worker' = "post" /\ UNCHANGED <<mQ, fate>>
     \/ (worker = "awake" \/ (worker = "run" /\ ~unblocked)) /\ AwaitMessage
  /\ UNCHANGED <<owner, running, joinable, refCount, runnable, unblocked, sent>>

\* proc returns and the message is deleted; one that destroys the task has done so.
EndProc ==
  /\ worker = "proc"
  /\ OnThread => owner = "done"
  /\ worker' = "loop"
  /\ fate' = [m \in Messages |-> IF fate[m] = "proc" THEN "done" ELSE fate[m]]
  /\ UNCHANGED <<owner, running, joinable, refCount, runnable, mQ, unblocked, sent>>

ThreadOfTask ==
  \/ msg_q_rcv \/ EndProc
  \/ (EnterMain \/ Loop \/ NullRunnable \/ EndMain) /\ UNCHANGED queueVars
  \/ DeleteRunnable /\ msg_q_flush

TaskNext ==
  \/ CreateThread /\ UNCHANGED queueVars
  \/ OwnerOfTask \/ ThreadOfTask \/ DestroyTask \/ DeleteTask
  \/ \E m \in Messages : SendMsg(m)

\* The thread runs and every handler ends; an owner inside destroy goes on.
\* Nobody has to destroy a task.
TaskFairness == WF_taskVars(OwnerOfTask) /\ WF_taskVars(ThreadOfTask) /\
                WF_taskVars(OnThread /\ DestroyTask)
TaskSpec == TaskInit /\ [][TaskNext]_taskVars /\ TaskFairness

-----------------------------------------------------------------------------
(* Properties.                                                             *)

\* Messages are handled one at a time and in the order they were sent, whether
\* the receiver polled or was woken, and when the task is destroyed what is
\* flushed is only the end of that order.
HandledInOrder ==
  \A i, j \in DOMAIN sent : i < j /\ fate[sent[j]] \in {"proc", "done"} =>
                                 fate[sent[i]] = "done"

\* A message in the queue does not stay there: no wake-up is lost between the test
\* of the list and the wait, and a destroyed task frees what it did not handle,
\* unless its thread could not be created or was told to stop before it began.
QueueDrains ==
  \A m \in Messages :
    fate[m] = "queued" ~> (fate[m] # "queued" \/ owner = "failed" \/ worker = "end")

\* destroy always completes and the thread ends, although the owner may have
\* to join a thread that is blocked in the receive, or is the thread itself.
DestroyEnds == unblocked ~> (owner = "done" /\ worker \in {"none", "end"})

\* "this obj will be deleted once thread is deleted" (MsgTask.h:50): destroy still
\* writes mThread after it has unblocked the queue.
TouchedAlive == owner = "unblocked" => runnable = "live"
=============================================================================
