----------------------------- MODULE TaskProofs -----------------------------
(***************************************************************************)
(* Proofs about LocThread and MsgTask, for every set of messages: type     *)
(* correctness, the delegate shared by the owner and the thread, and the   *)
(* order in which the messages of a task are handled.                      *)
(***************************************************************************)
EXTENDS MsgTask, TLAPS

USE DEF OwnerStates, WorkerStates

-----------------------------------------------------------------------------
(* LocThread on its own.                                                   *)

\* The thread cannot exist before its owner has created it.
ThreadInv == ThreadTypeOK /\ DelegateShared /\ (owner = "new" => worker = "none")

LEMMA ThreadInvInit == ThreadInit => ThreadInv
  <1> SUFFICES ASSUME ThreadInit PROVE ThreadInv
    OBVIOUS
  <1>1. refCount \in 0 .. 2
    BY DEF ThreadInit
  <1>2. running \in BOOLEAN /\ joinable \in BOOLEAN
    BY DEF ThreadInit
  <1>3. ThreadTypeOK
    BY <1>1, <1>2 DEF ThreadInit, ThreadTypeOK
  <1> QED
    BY <1>3 DEF ThreadInit, ThreadInv, DelegateShared

\* The steps of the owner keep the count right; Join may be that of the thread
\* itself.
LEMMA OwnerKeepsCount ==
  ASSUME ThreadInv, NEW self \in BOOLEAN,
         CreateThread \/ CheckRunning \/ Leave \/ OwnerLeaves \/ Join(self)
  PROVE  ThreadInv'
  <1> USE DEF ThreadInv, ThreadTypeOK, DelegateShared, OwnerHolds, WorkerHolds
  <1>1. CASE CreateThread
    <2>1. owner = "new" /\ owner' = "check" /\ runnable' = runnable /\ worker = "none"
      BY <1>1 DEF CreateThread
    <2>2. CASE running' = TRUE /\ refCount' = 2 /\ worker' = "main" /\ UNCHANGED joinable
      BY <2>1, <2>2
    <2>3. CASE running' = FALSE /\ refCount' = 1 /\ joinable' = FALSE /\ UNCHANGED worker
      <3>1. running' \in BOOLEAN /\ joinable' \in BOOLEAN
        BY <2>3, Zenon
      <3>2. refCount' = 1 /\ worker' = "none"
        BY <2>1, <2>3
      <3> QED
        BY <2>1, <3>1, <3>2
    <2> QED
      BY <1>1, <2>2, <2>3 DEF CreateThread
  <1>2. CASE CheckRunning
    BY <1>2 DEF CheckRunning, Destroy
  <1>3. CASE Leave
    BY <1>3 DEF Leave
  <1>4. CASE Bye
    BY <1>4 DEF Bye
  <1>5. CASE StopRunnable
    BY <1>5 DEF StopRunnable
  <1>6. CASE Release
    BY <1>6 DEF Release, Destroy
  <1>7. CASE Join(self)
    BY <1>7 DEF Join
  <1> QED
    BY <1>1, <1>2, <1>3, <1>4, <1>5, <1>6, <1>7 DEF OwnerLeaves

LEMMA MainKeepsCount ==
  ASSUME ThreadInv, MainLoop \/ Run
  PROVE  ThreadInv'
  <1> USE DEF ThreadInv, ThreadTypeOK, DelegateShared, OwnerHolds, WorkerHolds
  <1>1. CASE EnterMain
    BY <1>1 DEF EnterMain
  <1>2. CASE Loop
    BY <1>2 DEF Loop
  <1>3. CASE NullRunnable
    BY <1>3 DEF NullRunnable
  <1>4. CASE DeleteRunnable
    BY <1>4 DEF DeleteRunnable
  <1>5. CASE EndMain
    BY <1>5 DEF EndMain, Destroy
  <1>6. CASE Run
    BY <1>6 DEF Run
  <1> QED
    BY <1>1, <1>2, <1>3, <1>4, <1>5, <1>6 DEF MainLoop

\* The delegate of a LocThread, whatever its runnable does: it is deleted by the
\* last of the two that hold it and by nobody else.
THEOREM ThreadDelegate == ThreadSpec => [](ThreadTypeOK /\ DelegateShared)
  <1>1. ThreadInv /\ [ThreadNext]_threadVars => ThreadInv'
    <2> SUFFICES ASSUME ThreadInv, [ThreadNext]_threadVars PROVE ThreadInv'
      OBVIOUS
    <2>1. CASE UNCHANGED threadVars
      BY <2>1 DEF threadVars, ThreadInv, ThreadTypeOK, DelegateShared,
                  OwnerHolds, WorkerHolds
    <2>2. CASE ThreadNext
      BY <2>2, OwnerKeepsCount, MainKeepsCount DEF ThreadNext
    <2> QED
      BY <2>1, <2>2
  <1>2. ThreadInv => ThreadTypeOK /\ DelegateShared
    BY DEF ThreadInv
  <1> QED
    BY <1>1, <1>2, ThreadInvInit, PTL DEF ThreadSpec

-----------------------------------------------------------------------------
(* The control of a task: who can be where.                                *)

\* The thread runs only while create() has not been told otherwise, and nobody
\* unblocks the queue before start() returned; a task whose thread could not be
\* created never has a receiver; the runnable is deleted behind the loop.
Control ==
  /\ owner = "check" /\ worker # "none" => running
  /\ owner = "failed" => worker = "none"
  /\ unblocked => owner \notin {"new", "check", "up"}
  /\ worker = "post" => owner \notin {"new", "check"}
  /\ runnable = "deleted" => \/ worker \in {"destroy", "end"}
                             \/ worker = "none" /\ owner = "done"

TaskInv == ThreadInv /\ TaskTypeOK /\ Control

\* The actions of MsgTask that are not those of LocThread.
LEMMA OwnQueueSteps ==
  ASSUME ThreadInv, Control, unblocked \in BOOLEAN,
         (\E m \in Messages : SendMsg(m)) \/ DestroyTask \/ NullThread \/ DeleteTask
  PROVE  ThreadInv' /\ Control'
  <1> USE DEF ThreadInv, ThreadTypeOK, DelegateShared, OwnerHolds, WorkerHolds, Control
  <1>1. ASSUME NEW m \in Messages, SendMsg(m) PROVE ThreadInv' /\ Control'
    BY <1>1 DEF SendMsg, Wake
  <1>2. CASE DestroyTask
    BY <1>2 DEF DestroyTask, msg_q_unblock, Wake
  <1>3. CASE NullThread
    BY <1>3 DEF NullThread, queueVars
  <1>4. CASE DeleteTask
    BY <1>4 DEF DeleteTask
  <1> QED
    BY <1>1, <1>2, <1>3, <1>4

LEMMA OwnLoopSteps ==
  ASSUME ThreadInv, Control, unblocked \in BOOLEAN, msg_q_rcv \/ EndProc
  PROVE  ThreadInv' /\ Control'
  <1> USE DEF ThreadInv, ThreadTypeOK, DelegateShared, OwnerHolds, WorkerHolds, Control
  <1>1. CASE msg_q_rcv
    BY <1>1 DEF msg_q_rcv, AwaitMessage, Take
  <1>2. CASE EndProc
    BY <1>2 DEF EndProc
  <1> QED
    BY <1>1, <1>2

LEMMA ThreadStepsControl ==
  ASSUME ThreadInv, Control, UNCHANGED unblocked, NEW self \in BOOLEAN,
         \/ CreateThread \/ CheckRunning \/ OwnerLeaves \/ Join(self)
         \/ EnterMain \/ Loop \/ NullRunnable \/ EndMain \/ DeleteRunnable
  PROVE  Control'
  <1> USE DEF ThreadInv, ThreadTypeOK, Control
  <1>1. CASE CreateThread
    BY <1>1 DEF CreateThread
  <1>2. CASE CheckRunning
    BY <1>2 DEF CheckRunning
  <1>3. CASE OwnerLeaves
    BY <1>3 DEF OwnerLeaves, Bye, StopRunnable, Release
  <1>4. CASE Join(self)
    BY <1>4 DEF Join
  <1>5. CASE EnterMain
    BY <1>5 DEF EnterMain
  <1>6. CASE Loop
    BY <1>6 DEF Loop
  <1>7. CASE NullRunnable \/ DeleteRunnable
    BY <1>7 DEF NullRunnable, DeleteRunnable
  <1>8. CASE EndMain
    BY <1>8 DEF EndMain
  <1> QED
    BY <1>1, <1>2, <1>3, <1>4, <1>5, <1>6, <1>7, <1>8

LEMMA TaskKeepsControl ==
  ASSUME TaskInv, TaskNext
  PROVE  ThreadInv' /\ Control'
  <1>1. unblocked \in BOOLEAN
    BY DEF TaskInv, TaskTypeOK
  <1>2. OnThread \in BOOLEAN
    BY DEF OnThread
  <1>3. CASE CreateThread /\ UNCHANGED queueVars
    BY <1>3, OwnerKeepsCount, ThreadStepsControl DEF TaskInv, queueVars
  <1>4. CASE NullThread
    BY <1>1, <1>4, OwnQueueSteps DEF TaskInv
  <1>5. CASE (CheckRunning \/ OwnerLeaves \/ Join(OnThread)) /\ UNCHANGED queueVars
    BY <1>2, <1>5, OwnerKeepsCount, ThreadStepsControl DEF TaskInv, queueVars
  <1>6. CASE msg_q_rcv \/ EndProc
    BY <1>1, <1>6, OwnLoopSteps DEF TaskInv
  <1>7. CASE (EnterMain \/ Loop \/ NullRunnable \/ EndMain) /\ UNCHANGED queueVars
    BY <1>7, MainKeepsCount, ThreadStepsControl DEF TaskInv, queueVars, MainLoop
  <1>8. CASE DeleteRunnable /\ msg_q_flush
    BY <1>8, MainKeepsCount, ThreadStepsControl DEF TaskInv, MainLoop, msg_q_flush
  <1>9. CASE DestroyTask \/ DeleteTask \/ \E m \in Messages : SendMsg(m)
    BY <1>1, <1>9, OwnQueueSteps DEF TaskInv
  <1> QED
    BY <1>3, <1>4, <1>5, <1>6, <1>7, <1>8, <1>9
    DEF TaskNext, OwnerOfTask, ThreadOfTask

-----------------------------------------------------------------------------
(* The type of a task.                                                     *)

QueueType ==
  /\ mQ \in Seq(Messages) /\ sent \in Seq(Messages)
  /\ unblocked \in BOOLEAN
  /\ fate \in [Messages -> Fates]

LEMMA TaskKeepsQueueType ==
  ASSUME QueueType, TaskNext
  PROVE  QueueType'
  <1> USE DEF QueueType, Fates
  <1>1. CASE UNCHANGED queueVars
    BY <1>1 DEF queueVars
  <1>2. CASE NullThread
    BY <1>2, <1>1 DEF NullThread
  <1>3. CASE msg_q_rcv
    <2>1. CASE UNCHANGED <<mQ, fate>>
      BY <1>3, <2>1 DEF msg_q_rcv
    <2>2. CASE mQ # <<>> /\ Take
      BY <1>3, <2>2 DEF msg_q_rcv, Take
    <2> QED
      BY <1>3, <2>1, <2>2 DEF msg_q_rcv, AwaitMessage
  <1>4. CASE EndProc
    BY <1>4 DEF EndProc
  <1>5. CASE msg_q_flush
    <2>1. mQ' \in Seq(Messages)
      BY <1>5 DEF msg_q_flush
    <2> QED
      BY <1>5, <2>1 DEF msg_q_flush
  <1>6. CASE DestroyTask
    BY <1>6 DEF DestroyTask, msg_q_unblock
  <1>7. CASE DeleteTask
    <2>1. mQ' \in Seq(Messages)
      BY <1>7 DEF DeleteTask
    <2> QED
      BY <1>7, <2>1 DEF DeleteTask
  <1>8. ASSUME NEW m \in Messages, SendMsg(m) PROVE QueueType'
    <2>1. CASE unblocked
      BY <1>8, <2>1 DEF SendMsg
    <2>2. CASE ~unblocked
      <3>1. /\ mQ' = Append(mQ, m) /\ sent' = Append(sent, m)
            /\ fate' = [fate EXCEPT ![m] = "queued"] /\ unblocked' = unblocked
        BY <1>8, <2>2 DEF SendMsg
      <3>2. mQ' \in Seq(Messages) /\ sent' \in Seq(Messages)
        BY <3>1
      <3>3. fate' \in [Messages -> Fates]
        BY <3>1
      <3> QED
        BY <3>1, <3>2, <3>3
    <2> QED
      BY <2>1, <2>2
  <1> QED
    BY <1>1, <1>2, <1>3, <1>4, <1>5, <1>6, <1>7, <1>8
    DEF TaskNext, OwnerOfTask, ThreadOfTask

LEMMA TaskInvInit == TaskInit => TaskInv
  <1> SUFFICES ASSUME TaskInit PROVE TaskInv
    OBVIOUS
  <1>1. ThreadInv /\ ThreadTypeOK
    BY ThreadInvInit DEF TaskInit, ThreadInv
  <1>2. TaskTypeOK
    <2>1. mQ \in Seq(Messages) /\ sent \in Seq(Messages)
      BY DEF TaskInit
    <2> QED
      BY <1>1, <2>1 DEF TaskInit, TaskTypeOK, Fates
  <1>3. Control
    BY DEF TaskInit, ThreadInit, Control
  <1> QED
    BY <1>1, <1>2, <1>3 DEF TaskInv

LEMMA TaskInvStep == TaskInv /\ [TaskNext]_taskVars => TaskInv'
  <1> SUFFICES ASSUME TaskInv, [TaskNext]_taskVars PROVE TaskInv'
    OBVIOUS
  <1>1. CASE UNCHANGED taskVars
    BY <1>1 DEF taskVars, threadVars, queueVars, TaskInv, ThreadInv, TaskTypeOK,
                ThreadTypeOK, Control, DelegateShared, OwnerHolds, WorkerHolds
  <1>2. CASE TaskNext
    <2>1. ThreadInv' /\ Control'
      BY <1>2, TaskKeepsControl
    <2>2. QueueType'
      BY <1>2, TaskKeepsQueueType DEF TaskInv, TaskTypeOK, QueueType
    <2> QED
      BY <2>1, <2>2 DEF TaskInv, TaskTypeOK, QueueType, ThreadInv
  <1> QED
    BY <1>1, <1>2

\* Type correctness of a task and its thread.
THEOREM TaskTypes == TaskSpec => []TaskTypeOK
  <1>1. TaskInv => TaskTypeOK
    BY DEF TaskInv
  <1> QED
    BY <1>1, TaskInvInit, TaskInvStep, PTL DEF TaskSpec

\* The delegate of a task's thread is deleted by the last of the two that hold it,
\* also when the task is destroyed by one of its own messages.
THEOREM TaskDelegate == TaskSpec => []DelegateShared
  <1>1. TaskInv => DelegateShared
    BY DEF TaskInv, ThreadInv
  <1> QED
    BY <1>1, TaskInvInit, TaskInvStep, PTL DEF TaskSpec

-----------------------------------------------------------------------------
(* The order of the messages.                                              *)

\* How many of the accepted messages have left the queue.
Taken == Len(sent) - Len(mQ)

\* The queue is the end of what was accepted, and holds what is queued.
QueueIsEnd ==
  /\ Len(mQ) <= Len(sent)
  /\ \A k \in DOMAIN mQ : mQ[k] = sent[Taken + k]
  /\ \A i \in DOMAIN sent : fate[sent[i]] = "queued" <=> i > Taken

\* No message is accepted twice.
SentOnce ==
  /\ \A i, j \in DOMAIN sent : sent[i] = sent[j] => i = j
  /\ \A i \in DOMAIN sent : fate[sent[i]] \notin {"unsent", "lost"}
  /\ \A m \in Messages : fate[m] \notin {"unsent", "lost"} =>
                            \E i \in DOMAIN sent : sent[i] = m

\* All that has left the queue is done, but for the last while the thread is in
\* proc; once the runnable is gone the queue has been flushed.
TakenDone ==
  /\ \A m \in Messages : fate[m] = "proc" => worker = "proc"
  /\ runnable = "live" => \A i \in DOMAIN sent : i <= Taken =>
       fate[sent[i]] = "done" \/ (i = Taken /\ fate[sent[i]] = "proc")
  /\ runnable = "deleted" => mQ = <<>>

OrderInv == QueueIsEnd /\ SentOnce /\ TakenDone /\ HandledInOrder

LEMMA OrderInvInit == TaskInit => OrderInv
  BY DEF TaskInit, OrderInv, QueueIsEnd, SentOnce, TakenDone, HandledInOrder, Taken,
         ThreadInit

\* The steps that leave the queue alone.
LEMMA OrderIdle ==
  ASSUME OrderInv, UNCHANGED queueVars, UNCHANGED runnable,
         worker = "proc" => worker' = "proc"
  PROVE  OrderInv'
  BY DEF OrderInv, QueueIsEnd, SentOnce, TakenDone, HandledInOrder, Taken, queueVars

\* A message that is not accepted, because the queue is unblocked.
LEMMA OrderLost ==
  ASSUME TaskTypeOK, OrderInv, NEW m \in Messages, SendMsg(m), unblocked
  PROVE  OrderInv'
  <1>1. /\ mQ' = mQ /\ sent' = sent /\ worker' = worker /\ runnable' = runnable
        /\ fate' = [fate EXCEPT ![m] = "lost"] /\ fate[m] = "unsent"
    BY DEF SendMsg
  <1>2. \A i \in DOMAIN sent : sent[i] \in Messages /\ fate'[sent[i]] = fate[sent[i]]
    BY <1>1 DEF OrderInv, SentOnce, TaskTypeOK
  <1>3. \A n \in Messages : n # m => fate'[n] = fate[n]
    BY <1>1 DEF TaskTypeOK
  <1>4. fate'[m] = "lost"
    BY <1>1 DEF TaskTypeOK
  <1> QED
    BY <1>1, <1>2, <1>3, <1>4
    DEF OrderInv, QueueIsEnd, SentOnce, TakenDone, HandledInOrder, Taken

\* A message that is accepted joins both ends.
LEMMA OrderSent ==
  ASSUME TaskTypeOK, OrderInv, NEW m \in Messages, SendMsg(m), ~unblocked
  PROVE  OrderInv'
  <1>1. /\ mQ' = Append(mQ, m) /\ sent' = Append(sent, m)
        /\ runnable' = runnable /\ runnable = "live"
        /\ worker = "proc" => worker' = "proc"
        /\ fate' = [fate EXCEPT ![m] = "queued"] /\ fate[m] = "unsent"
    BY DEF SendMsg, Wake
  <1>2. mQ \in Seq(Messages) /\ sent \in Seq(Messages)
    BY DEF TaskTypeOK
  <1>3. /\ Len(sent') = Len(sent) + 1 /\ Len(mQ') = Len(mQ) + 1
        /\ DOMAIN sent' = 1 .. Len(sent) + 1 /\ DOMAIN mQ' = 1 .. Len(mQ) + 1
        /\ DOMAIN sent = 1 .. Len(sent) /\ DOMAIN mQ = 1 .. Len(mQ)
        /\ \A i \in DOMAIN sent : sent'[i] = sent[i]
        /\ \A k \in DOMAIN mQ : mQ'[k] = mQ[k]
        /\ sent'[Len(sent) + 1] = m /\ mQ'[Len(mQ) + 1] = m
        /\ Len(sent) \in Nat /\ Len(mQ) \in Nat /\ Len(mQ) <= Len(sent)
    BY <1>1, <1>2 DEF OrderInv, QueueIsEnd
  <1>4. Taken' = Taken /\ Taken \in Nat
    BY <1>3 DEF Taken
  <1>5. \A i \in DOMAIN sent :
          sent[i] \in Messages /\ sent[i] # m /\ fate'[sent[i]] = fate[sent[i]]
    BY <1>1, <1>2 DEF OrderInv, SentOnce, TaskTypeOK
  <1>6. fate'[m] = "queued" /\ \A n \in Messages : n # m => fate'[n] = fate[n]
    BY <1>1 DEF TaskTypeOK
  <1>7. QueueIsEnd'
    <2>1. \A k \in DOMAIN mQ' : mQ'[k] = sent'[Taken' + k]
      BY <1>3, <1>4 DEF OrderInv, QueueIsEnd, Taken
    <2>2. \A i \in DOMAIN sent' : fate'[sent'[i]] = "queued" <=> i > Taken'
      BY <1>3, <1>4, <1>5, <1>6 DEF OrderInv, QueueIsEnd, Taken
    <2> QED
      BY <1>3, <2>1, <2>2 DEF QueueIsEnd
  <1>8. SentOnce'
    <2>1. \A i, j \in DOMAIN sent' : sent'[i] = sent'[j] => i = j
      BY <1>3, <1>5 DEF OrderInv, SentOnce
    <2>2. \A i \in DOMAIN sent' : fate'[sent'[i]] \notin {"unsent", "lost"}
      BY <1>3, <1>5, <1>6 DEF OrderInv, SentOnce
    <2>3. \A n \in Messages : fate'[n] \notin {"unsent", "lost"} =>
                              \E i \in DOMAIN sent' : sent'[i] = n
      BY <1>3, <1>6 DEF OrderInv, SentOnce
    <2> QED
      BY <2>1, <2>2, <2>3 DEF SentOnce
  <1>9. TakenDone'
    <2>1. \A n \in Messages : fate'[n] = "proc" => worker' = "proc"
      BY <1>1, <1>6 DEF OrderInv, TakenDone
    <2>2. \A i \in DOMAIN sent' : i <= Taken' =>
            fate'[sent'[i]] = "done" \/ (i = Taken' /\ fate'[sent'[i]] = "proc")
      BY <1>1, <1>3, <1>4, <1>5 DEF OrderInv, TakenDone, Taken
    <2> QED
      BY <1>1, <2>1, <2>2 DEF TakenDone
  <1>10. HandledInOrder'
    BY <1>3, <1>5, <1>6 DEF OrderInv, HandledInOrder
  <1> QED
    BY <1>7, <1>8, <1>9, <1>10 DEF OrderInv

\* The receiver takes the head of the queue: all before it is done.
LEMMA OrderTaken ==
  ASSUME TaskTypeOK, OrderInv, mQ # <<>>, Take, worker # "proc",
         UNCHANGED <<sent, runnable>>
  PROVE  OrderInv'
  <1>1. mQ \in Seq(Messages) /\ sent \in Seq(Messages)
    BY DEF TaskTypeOK
  <1>2. /\ Len(mQ') = Len(mQ) - 1 /\ DOMAIN mQ' = 1 .. Len(mQ) - 1
        /\ DOMAIN mQ = 1 .. Len(mQ) /\ DOMAIN sent = 1 .. Len(sent)
        /\ \A k \in DOMAIN mQ' : mQ'[k] = mQ[k + 1]
        /\ Head(mQ) = mQ[1] /\ 1 \in DOMAIN mQ
        /\ Len(sent) \in Nat /\ Len(mQ) \in Nat /\ Len(mQ) <= Len(sent)
    BY <1>1 DEF Take, OrderInv, QueueIsEnd
  <1>3. Taken' = Taken + 1 /\ Taken \in Nat /\ Taken + 1 \in DOMAIN sent
    BY <1>2 DEF Taken
  <1>4. Head(mQ) = sent[Taken + 1]
    BY <1>2 DEF OrderInv, QueueIsEnd
  <1>5. runnable = "live"
    BY DEF OrderInv, TakenDone, TaskTypeOK, ThreadTypeOK
  <1>6. \A i \in DOMAIN sent : i <= Taken => fate[sent[i]] = "done"
    BY <1>1, <1>5 DEF OrderInv, TakenDone
  <1>7. fate'[sent[Taken + 1]] = "proc" /\ worker' = "proc"
    BY <1>1, <1>3, <1>4 DEF Take, TaskTypeOK
  <1>8. \A n \in Messages : n # sent[Taken + 1] => fate'[n] = fate[n]
    BY <1>4 DEF Take, TaskTypeOK
  <1>9. \A i \in DOMAIN sent : i # Taken + 1 =>
          sent[i] \in Messages /\ fate'[sent[i]] = fate[sent[i]]
    BY <1>1, <1>3, <1>8 DEF OrderInv, SentOnce
  <1>10. QueueIsEnd'
    <2>1. \A k \in DOMAIN mQ' : mQ'[k] = sent'[Taken' + k]
      BY SMTT(30), <1>2, <1>3 DEF OrderInv, QueueIsEnd, Taken
    <2>2. \A i \in DOMAIN sent : fate'[sent[i]] = "queued" <=> i > Taken'
      BY <1>2, <1>3, <1>7, <1>9 DEF OrderInv, QueueIsEnd
    <2> QED
      BY <1>2, <2>1, <2>2 DEF QueueIsEnd
  <1>11. SentOnce'
    <2>1. \A i \in DOMAIN sent : fate'[sent[i]] \notin {"unsent", "lost"}
      BY <1>7, <1>9 DEF OrderInv, SentOnce
    <2>2. \A n \in Messages : fate'[n] \notin {"unsent", "lost"} =>
                              \E i \in DOMAIN sent : sent[i] = n
      BY <1>3, <1>8 DEF OrderInv, SentOnce
    <2> QED
      BY <2>1, <2>2 DEF OrderInv, SentOnce
  <1>12. TakenDone'
    <2>1. \A i \in DOMAIN sent : i <= Taken' =>
            fate'[sent[i]] = "done" \/ (i = Taken' /\ fate'[sent[i]] = "proc")
      BY <1>2, <1>3, <1>6, <1>7, <1>9
    <2> QED
      BY <1>5, <1>7, <2>1 DEF TakenDone
  <1>13. HandledInOrder'
    <2> SUFFICES ASSUME NEW i \in DOMAIN sent, NEW j \in DOMAIN sent, i < j,
                        fate'[sent[j]] \in {"proc", "done"}
                 PROVE  fate'[sent[i]] = "done"
      BY DEF HandledInOrder
    <2>1. j <= Taken + 1
      BY <1>2, <1>3, <1>9 DEF OrderInv, QueueIsEnd
    <2>2. i \in Nat /\ i <= Taken
      BY <1>2, <1>3, <2>1
    <2>3. i # Taken + 1
      BY <1>3, <2>2
    <2> QED
      BY <1>6, <1>9, <2>2, <2>3
  <1> QED
    BY <1>10, <1>11, <1>12, <1>13 DEF OrderInv

\* proc of the message that the thread holds ends.
LEMMA OrderProcEnds ==
  ASSUME TaskTypeOK, OrderInv, EndProc
  PROVE  OrderInv'
  <1>1. /\ mQ' = mQ /\ sent' = sent /\ runnable' = runnable /\ Taken' = Taken
        /\ \A m \in Messages :
             fate'[m] = IF fate[m] = "proc" THEN "done" ELSE fate[m]
    BY DEF EndProc, Taken
  <1>2. sent \in Seq(Messages)
    BY DEF TaskTypeOK
  <1>3. \A i \in DOMAIN sent : sent[i] \in Messages
    BY <1>2
  <1>4. QueueIsEnd'
    BY <1>1, <1>3 DEF OrderInv, QueueIsEnd
  <1>5. SentOnce'
    BY <1>1, <1>3 DEF OrderInv, SentOnce
  <1>6. TakenDone'
    BY <1>1, <1>3 DEF OrderInv, TakenDone
  <1>7. HandledInOrder'
    BY <1>1, <1>3 DEF OrderInv, HandledInOrder
  <1> QED
    BY <1>4, <1>5, <1>6, <1>7 DEF OrderInv

\* The runnable is deleted, with what is left in its queue.
LEMMA OrderFlushed ==
  ASSUME TaskTypeOK, OrderInv, worker # "proc", worker' # "proc",
         mQ' = <<>>, sent' = sent, runnable' = "deleted",
         fate' = [m \in Messages |-> IF fate[m] = "queued" THEN "flushed" ELSE fate[m]]
  PROVE  OrderInv'
  <1>1. sent \in Seq(Messages) /\ mQ \in Seq(Messages)
    BY DEF TaskTypeOK
  <1>2. \A i \in DOMAIN sent : sent[i] \in Messages /\ i \in 1 .. Len(sent)
    BY <1>1
  <1>3. Taken' = Len(sent) /\ Len(sent) \in Nat /\ DOMAIN mQ' = {} /\ Len(mQ') = 0
    BY <1>1 DEF Taken
  <1>4. \A m \in Messages :
           fate'[m] = IF fate[m] = "queued" THEN "flushed" ELSE fate[m]
    OBVIOUS
  <1>5. QueueIsEnd'
    BY <1>2, <1>3, <1>4 DEF QueueIsEnd
  <1>6. SentOnce'
    BY <1>2, <1>4 DEF OrderInv, SentOnce
  <1>7. TakenDone'
    BY <1>4 DEF OrderInv, TakenDone
  <1>8. HandledInOrder'
    BY <1>2, <1>4 DEF OrderInv, HandledInOrder
  <1> QED
    BY <1>5, <1>6, <1>7, <1>8 DEF OrderInv

LEMMA OrderStep ==
  ASSUME TaskInv, OrderInv, TaskNext
  PROVE  OrderInv'
  <1>0. TaskTypeOK
    BY DEF TaskInv
  <1>1. CASE CreateThread /\ UNCHANGED queueVars
    BY <1>1, OrderIdle DEF CreateThread, TaskInv, ThreadInv
  <1>2. CASE OwnerOfTask
    BY <1>2, OrderIdle DEF OwnerOfTask, NullThread, CheckRunning, OwnerLeaves, Bye,
                           StopRunnable, Release, Join
  <1>3. CASE (EnterMain \/ Loop \/ NullRunnable \/ EndMain) /\ UNCHANGED queueVars
    BY <1>3, OrderIdle DEF EnterMain, Loop, NullRunnable, EndMain
  <1>4. CASE DeleteRunnable /\ msg_q_flush
    BY <1>0, <1>4, OrderFlushed DEF DeleteRunnable, msg_q_flush
  <1>5. CASE EndProc
    BY <1>0, <1>5, OrderProcEnds
  <1>6. CASE msg_q_rcv
    <2>1. CASE mQ # <<>> /\ Take
      BY <1>0, <1>6, <2>1, OrderTaken DEF msg_q_rcv
    <2>2. CASE UNCHANGED <<mQ, fate>>
      BY <1>6, <2>2, OrderIdle DEF msg_q_rcv, queueVars
    <2> QED
      BY <1>6, <2>1, <2>2 DEF msg_q_rcv, AwaitMessage
  <1>7. CASE DestroyTask
    BY <1>7 DEF DestroyTask, msg_q_unblock, Wake, OrderInv, QueueIsEnd, SentOnce,
                TakenDone, HandledInOrder, Taken
  <1>8. CASE DeleteTask
    <2>1. worker = "none"
      BY <1>8 DEF DeleteTask, TaskInv, Control
    <2> QED
      BY <1>0, <1>8, <2>1, OrderFlushed DEF DeleteTask
  <1>9. ASSUME NEW m \in Messages, SendMsg(m) PROVE OrderInv'
    BY <1>0, <1>9, OrderLost, OrderSent
  <1> QED
    BY <1>1, <1>2, <1>3, <1>4, <1>5, <1>6, <1>7, <1>8, <1>9 DEF TaskNext, ThreadOfTask

\* A task handles its messages one at a time and in the order they were accepted,
\* for any number of messages and clients, and a destroyed task drops only the end
\* of that order.
THEOREM TaskOrder == TaskSpec => []HandledInOrder
  <1>1. TaskInit => TaskInv /\ OrderInv
    BY TaskInvInit, OrderInvInit
  <1>2. TaskInv /\ OrderInv /\ [TaskNext]_taskVars => (TaskInv /\ OrderInv)'
    <2> SUFFICES ASSUME TaskInv, OrderInv, [TaskNext]_taskVars
                 PROVE  TaskInv' /\ OrderInv'
      OBVIOUS
    <2>1. CASE UNCHANGED taskVars
      BY <2>1, OrderIdle, TaskInvStep DEF taskVars, threadVars
    <2>2. CASE TaskNext
      BY <2>2, OrderStep, TaskInvStep
    <2> QED
      BY <2>1, <2>2
  <1>3. OrderInv => HandledInOrder
    BY DEF OrderInv
  <1> QED
    BY <1>1, <1>2, <1>3, PTL DEF TaskSpec
=============================================================================
