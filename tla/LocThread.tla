------------------------------ MODULE LocThread ------------------------------
(***************************************************************************)
(* LocThread and its LocThreadDelegate (src/gps/utils/LocThread.cpp): a    *)
(* thread that runs a LocRunnable.  The owner (the client that holds the   *)
(* LocThread) and the spawned thread share the delegate, which the later   *)
(* of the two deletes (mRefCount), and mRunnable, which either may null to *)
(* end the loop; the runnable itself is deleted by the spawned thread.     *)
(* Every access to a shared field is a step of its own.                    *)
(***************************************************************************)
EXTENDS Integers, Sequences

VARIABLES
  owner,      \* where the owner is: up = start() returned true
  worker,     \* where the spawned thread is: none = not created
  running,    \* mRunnable is not NULL
  joinable,   \* mJoinable
  refCount,   \* mRefCount
  runnable    \* the runnable object: live or deleted

threadVars == <<owner, worker, running, joinable, refCount, runnable>>

OwnerStates == {"new", "check", "up", "failed", "bye", "stop", "join", "release",
                "done", "unblocked"}
WorkerStates == {"none", "main", "loop", "run", "post", "delete", "destroy", "end",
                 "wait", "awake", "proc"}

ThreadTypeOK ==
  /\ owner \in OwnerStates /\ worker \in WorkerStates
  /\ running \in BOOLEAN /\ joinable \in BOOLEAN
  /\ refCount \in 0 .. 2
  /\ runnable \in {"live", "deleted"}

ThreadInit ==
  /\ owner = "new" /\ worker = "none"
  /\ running = FALSE /\ joinable \in BOOLEAN
  /\ refCount = 0
  /\ runnable = "live"

\* LocThreadDelegate::destroy; at zero the delegate is deleted.
DestroyUncounted == refCount' = 0
Destroy == refCount' = IF refCount > 0 THEN refCount - 1 ELSE 0

-----------------------------------------------------------------------------
(* The owner.                                                              *)

\* The fields are set as if pthread_create succeeds, before it is called.
CreateThread ==
  /\ owner = "new"
  /\ owner' = "check"
  /\ \/ running' = TRUE /\ refCount' = 2 /\ worker' = "main" /\ UNCHANGED joinable
     \/ running' = FALSE /\ refCount' = 1 /\ joinable' = FALSE /\ UNCHANGED worker
  /\ UNCHANGED runnable

\* create() tells a failure by mRunnable, which a thread that has already ended
\* has nulled, too.
CheckRunning ==
  /\ owner = "check"
  /\ IF running THEN owner' = "up" /\ UNCHANGED refCount
                ELSE owner' = "failed" /\ Destroy
  /\ UNCHANGED <<worker, running, joinable, runnable>>

\* ~LocThread, or LocThread::stop.
Leave ==
  /\ owner = "up"
  /\ owner' \in {"bye", "stop"}
  /\ UNCHANGED <<worker, running, joinable, refCount, runnable>>
Bye ==
  /\ owner = "bye"
  /\ owner' = IF joinable THEN "stop" ELSE "release"
  /\ UNCHANGED <<worker, running, joinable, refCount, runnable>>
StopRunnable ==
  /\ owner = "stop"
  /\ running' = FALSE
  /\ owner' = "join"
  /\ UNCHANGED <<worker, joinable, refCount, runnable>>

\* pthread_join waits for the thread, but returns at once when a thread joins
\* itself.
Join(self) ==
  /\ owner = "join"
  /\ joinable => worker = "end" \/ self
  /\ joinable' = FALSE
  /\ owner' = "release"
  /\ UNCHANGED <<worker, running, refCount, runnable>>
Release ==
  /\ owner = "release"
  /\ Destroy
  /\ owner' = "done"
  /\ UNCHANGED <<worker, running, joinable, runnable>>

-----------------------------------------------------------------------------
(* threadMain.                                                             *)

EnterMain ==
  /\ worker = "main"
  /\ worker' = IF running THEN "loop" ELSE "destroy"
  /\ UNCHANGED <<owner, running, joinable, refCount, runnable>>
Loop ==
  /\ worker = "loop"
  /\ worker' = IF running THEN "run" ELSE "post"
  /\ UNCHANGED <<owner, running, joinable, refCount, runnable>>

\* run() of any runnable: true to be called again, false to end.
Run ==
  /\ worker = "run"
  /\ worker' \in {"loop", "post"}
  /\ UNCHANGED <<owner, running, joinable, refCount, runnable>>

NullRunnable ==
  /\ worker = "post"
  /\ running' = FALSE
  /\ worker' = "delete"
  /\ UNCHANGED <<owner, joinable, refCount, runnable>>
DeleteRunnable ==
  /\ worker = "delete"
  /\ runnable' = "deleted"
  /\ worker' = "destroy"
  /\ UNCHANGED <<owner, running, joinable, refCount>>
EndMain ==
  /\ worker = "destroy"
  /\ Destroy
  /\ worker' = "end"
  /\ UNCHANGED <<owner, running, joinable, runnable>>

OwnerLeaves == Bye \/ StopRunnable \/ Release
MainLoop == EnterMain \/ Loop \/ NullRunnable \/ DeleteRunnable \/ EndMain

ThreadNext ==
  \/ CreateThread \/ CheckRunning \/ Leave \/ OwnerLeaves \/ Join(FALSE)
  \/ MainLoop \/ Run
ThreadSpec ==
  /\ ThreadInit /\ [][ThreadNext]_threadVars
  /\ WF_threadVars(CheckRunning \/ OwnerLeaves \/ Join(FALSE))
  /\ WF_threadVars(MainLoop)

-----------------------------------------------------------------------------
(* Properties.                                                             *)

OwnerHolds == owner \in {"check", "up", "unblocked", "bye", "stop", "join", "release"}
WorkerHolds == worker \notin {"none", "end"}

\* The delegate is deleted by exactly the last of the two that hold it: whoever
\* still has to read mRunnable, mJoinable or mThandle finds it alive, and it is
\* not left behind, in whatever order stop, destroy and the end of the loop come
\* and whether the thread was created or not.
DelegateShared ==
  owner # "new" =>
    refCount = (IF OwnerHolds THEN 1 ELSE 0) + (IF WorkerHolds THEN 1 ELSE 0)

\* "The obj will be deleted by LocThread if start() returns true.  Else it is
\* client's responsibility to delete the object" (LocThread.h:74-77).
DeletedIffStarted ==
  worker = "end" /\ owner \in {"done", "failed"} =>
    (runnable = "deleted" <=> owner = "done")
=============================================================================
