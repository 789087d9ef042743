------------------------------ MODULE Checkpoint ------------------------------
(***************************************************************************)
(* Running a closure for other threads: RunCheckpoint                      *)
(* (runtime/thread_list.cc) and RequestSynchronousCheckpoint               *)
(* (runtime/thread.cc).                                                    *)
(***************************************************************************)
EXTENDS ThreadListState

\* RunCheckpoint, called by c: a Runnable thread, or a collector thread that
\* never runs managed code.

CheckpointBegin(c) ==
  /\ c \in Checkpointers
  /\ pc[c] = "run" \/ (pc[c] = "native" /\ c \notin Mutators)
  /\ StartOp(c)
  /\ LockBoth(c)
  /\ count' = [count EXCEPT ![c] = Cardinality(list_)]
  /\ todo' = [todo EXCEPT ![c] = list_ \ {c}]
  /\ visited' = [visited EXCEPT ![c] = {}]
  /\ target' = [target EXCEPT ![c] = NoThread]
  /\ Goto(c, "cp_request")
  /\ UNCHANGED <<wordVars, countVars, barrierVars, checkpoint_function, gc_barrier, flip_function,
                 condVars, ret, listVars, modified>>

\* The loop is at t: it stays there until t is settled.
CheckpointAt(c, t) == pc[c] = "cp_request" /\ t \in todo[c] /\ target[c] \in {NoThread, t}

\* The loop is done with t.
CheckpointSettled(c, t) ==
  /\ todo' = [todo EXCEPT ![c] = @ \ {t}]
  /\ target' = [target EXCEPT ![c] = NoThread]
  /\ Goto(c, "cp_request")

\* RequestCheckpoint: the CAS that sets the flag, and the closure queued.
InstallCheckpoint(c, t) ==
  /\ state[t] = "kRunnable"
  /\ SetFlags(t, flags[t] \union {kCheckpointRequest})
  /\ checkpoint_function' = [checkpoint_function EXCEPT ![t] = Append(@, c)]

\* Mutant: a suspend request made unnecessary is kept.
CheckpointRequestTwice(c, t) ==
  /\ CheckpointAt(c, t)
  /\ InstallCheckpoint(c, t)
  /\ CheckpointSettled(c, t)
  /\ UNCHANGED <<state, countVars, barrierVars, gc_barrier, visited, flip_function, condVars,
                 lockVars, ret, listVars, modified, count, ops>>

CheckpointRequest(c, t) ==
  /\ CheckpointAt(c, t)
  /\ InstallCheckpoint(c, t)
  /\ \/ t \notin modified[c] /\ CheckpointSettled(c, t)
     \/ t \in modified[c] /\ Goto(c, "cp_unrequest") /\ UNCHANGED <<todo, target>>
  /\ UNCHANGED <<state, countVars, barrierVars, gc_barrier, visited, flip_function, condVars,
                 lockVars, ret, listVars, modified, count, ops>>

\* The suspend request of an earlier round is now unnecessary.
CheckpointUnrequest(c) ==
  /\ pc[c] = "cp_unrequest"
  /\ LowerSuspendCount(target[c])
  /\ modified' = [modified EXCEPT ![c] = @ \ {target[c]}]
  /\ CheckpointSettled(c, target[c])
  /\ UNCHANGED <<state, barrierVars, checkpointVars, flip_function, condVars, lockVars, ret,
                 listVars, count, ops>>

\* RequestCheckpoint fails and t is not Runnable: make it stay so, or, asked
\* before, be done with it.
CheckpointSeesSuspended(c, t) ==
  /\ CheckpointAt(c, t)
  /\ state[t] # "kRunnable"
  /\ \/ /\ t \notin modified[c]
        /\ target' = [target EXCEPT ![c] = t]
        /\ Goto(c, "cp_raise")
        /\ UNCHANGED todo
     \/ t \in modified[c] /\ CheckpointSettled(c, t)
  /\ UNCHANGED <<wordVars, countVars, barrierVars, checkpointVars, flip_function, condVars,
                 lockVars, ret, listVars, modified, count, ops>>

CheckpointRaise(c) ==
  /\ pc[c] = "cp_raise"
  /\ ~MustRetry(c, target[c], FALSE)
  /\ RaiseSuspendCount(target[c])
  /\ modified' = [modified EXCEPT ![c] = @ \union {target[c]}]
  /\ Goto(c, "cp_check")
  /\ UNCHANGED <<state, barrierVars, checkpointVars, flip_function, condVars, lockVars, ret,
                 listVars, todo, target, count, ops>>

CheckpointRetry(c) ==
  /\ pc[c] = "cp_raise"
  /\ MustRetry(c, target[c], FALSE)
  /\ UnlockSuspendCount
  /\ Goto(c, "cp_relock")
  /\ UNCHANGED <<wordVars, countVars, barrierVars, checkpointVars, flip_function, condVars, ret,
                 listVars, localVars>>

CheckpointRelock(c) ==
  /\ pc[c] = "cp_relock"
  /\ RelockSuspendCount(c)
  /\ Goto(c, "cp_raise")
  /\ UNCHANGED <<wordVars, countVars, barrierVars, checkpointVars, flip_function, condVars, ret,
                 listVars, localVars>>

\* Did the thread stay suspended, or race the request to become Runnable?
CheckpointCheck(c) ==
  /\ pc[c] = "cp_check"
  /\ \/ IsSuspended(target[c]) /\ CheckpointSettled(c, target[c])
     \/ ~IsSuspended(target[c]) /\ Goto(c, "cp_request") /\ UNCHANGED <<todo, target>>
  /\ UNCHANGED <<wordVars, countVars, barrierVars, checkpointVars, flip_function, condVars,
                 lockVars, ret, listVars, modified, count, ops>>

CheckpointUnlock(c) ==
  /\ pc[c] = "cp_request"
  /\ todo[c] = {}
  /\ UnlockBoth
  /\ Goto(c, "cp_self")
  /\ UNCHANGED <<wordVars, countVars, barrierVars, checkpointVars, flip_function, condVars, ret,
                 listVars, localVars>>

\* checkpoint_function->Run for t: its effect, and the Pass of the barrier.
RunClosure(c, t) ==
  /\ visited' = [visited EXCEPT ![c] = @ \union {t}]
  /\ gc_barrier' = [gc_barrier EXCEPT ![c] = @ - 1]
  /\ UNCHANGED checkpoint_function

CheckpointSelf(c) ==
  /\ pc[c] = "cp_self"
  /\ RunClosure(c, c)
  /\ Goto(c, "cp_others")
  /\ UNCHANGED <<wordVars, countVars, barrierVars, flip_function, condVars, lockVars, ret,
                 listVars, localVars>>

\* Run the closure for a suspended thread.
CheckpointOther(c, t) ==
  /\ pc[c] = "cp_others"
  /\ t \in modified[c]
  /\ RunClosure(c, t)
  /\ target' = [target EXCEPT ![c] = t]
  /\ Goto(c, "cp_lower")
  /\ UNCHANGED <<wordVars, countVars, barrierVars, flip_function, condVars, lockVars, ret,
                 listVars, todo, modified, count, ops>>

CheckpointLower(c) ==
  /\ pc[c] = "cp_lower"
  /\ SuspendCountLockFree
  /\ LowerSuspendCount(target[c])
  /\ modified' = [modified EXCEPT ![c] = @ \ {target[c]}]
  /\ Goto(c, "cp_others")
  /\ UNCHANGED <<state, barrierVars, checkpointVars, flip_function, condVars, lockVars, ret,
                 listVars, todo, target, count, ops>>

\* Mutant: threads whose count was lowered are not woken.
CheckpointNoBroadcast(c) ==
  /\ pc[c] = "cp_others"
  /\ modified[c] = {}
  /\ SuspendCountLockFree
  /\ Goto(c, IF state[c] = "kRunnable" THEN "leave" ELSE "cp_wait")
  /\ ret' = [ret EXCEPT ![c] = "cp_wait"]
  /\ UNCHANGED <<wordVars, countVars, barrierVars, checkpointVars, flip_function,
                 condVars, lockVars, listVars, localVars>>

\* The last broadcast; a Runnable caller then leaves Runnable to wait.
CheckpointBroadcast(c) ==
  /\ pc[c] = "cp_others"
  /\ modified[c] = {}
  /\ SuspendCountLockFree
  /\ Broadcast
  /\ Goto(c, IF state[c] = "kRunnable" THEN "leave" ELSE "cp_wait")
  /\ ret' = [ret EXCEPT ![c] = "cp_wait"]
  /\ UNCHANGED <<wordVars, countVars, barrierVars, checkpointVars, flip_function,
                 is_transitioning_to_runnable, lockVars, listVars, localVars>>

\* The caller's barrier: Increment(self, count) returns once count threads passed.
CheckpointWait(c) ==
  /\ pc[c] = "cp_wait"
  /\ gc_barrier[c] + count[c] = 0
  /\ gc_barrier' = [gc_barrier EXCEPT ![c] = 0]
  /\ Goto(c, "native")
  /\ UNCHANGED <<wordVars, countVars, barrierVars, checkpoint_function, visited, flip_function,
                 condVars, lockVars, ret, listVars, localVars>>

CheckpointStep(c) ==
  \/ CheckpointBegin(c)
  \/ \E t \in Thread : \/ CheckpointRequest(c, t)
                       \/ CheckpointSeesSuspended(c, t)
                       \/ CheckpointOther(c, t)
  \/ CheckpointUnrequest(c)
  \/ CheckpointRaise(c)
  \/ CheckpointRetry(c)
  \/ CheckpointRelock(c)
  \/ CheckpointCheck(c)
  \/ CheckpointUnlock(c)
  \/ CheckpointSelf(c)
  \/ CheckpointLower(c)
  \/ CheckpointBroadcast(c)
  \/ CheckpointWait(c)

-------------------------------------------------------------------------------
\* RequestSynchronousCheckpoint, called by x in its default suspend_state on
\* another attached thread.

\* The caller finds the thread under thread_list_lock_ and keeps the lock.
SyncBegin(x, t) ==
  /\ pc[x] = "run"
  /\ x \in Synchronizers
  /\ t \in list_ \ {x}
  /\ StartOp(x)
  /\ thread_list_lock_ = NoThread
  /\ thread_list_lock_' = x
  /\ target' = [target EXCEPT ![x] = t]
  /\ visited' = [visited EXCEPT ![x] = {}]
  /\ Goto(x, "sc_state")
  /\ UNCHANGED <<wordVars, countVars, barrierVars, checkpoint_function, gc_barrier, flip_function,
                 condVars, thread_suspend_count_lock_, ret, listVars, todo, modified, count>>

SyncReadState(x) ==
  /\ pc[x] = "sc_state"
  /\ Goto(x, IF state[target[x]] = "kRunnable" THEN "sc_request" ELSE "sc_raise")
  /\ UNCHANGED <<wordVars, countVars, barrierVars, checkpointVars, flip_function, condVars,
                 lockVars, ret, listVars, localVars>>

\* Queue the closure on a Runnable thread; unlock, and leave Runnable to wait.
SyncInstall(x) ==
  /\ pc[x] = "sc_request"
  /\ SuspendCountLockFree
  /\ InstallCheckpoint(x, target[x])
  /\ thread_list_lock_' = NoThread
  /\ Goto(x, "leave")
  /\ ret' = [ret EXCEPT ![x] = "sc_wait"]
  /\ UNCHANGED <<state, countVars, barrierVars, gc_barrier, visited, flip_function, condVars,
                 thread_suspend_count_lock_, listVars, localVars>>

\* RequestCheckpoint finds the thread no longer Runnable: fall through.
SyncInstallFails(x) ==
  /\ pc[x] = "sc_request"
  /\ SuspendCountLockFree
  /\ state[target[x]] # "kRunnable"
  /\ Goto(x, "sc_raise")
  /\ UNCHANGED <<wordVars, countVars, barrierVars, checkpointVars, flip_function, condVars,
                 lockVars, ret, listVars, localVars>>

\* BarrierClosure::Wait.
SyncWait(x) ==
  /\ pc[x] = "sc_wait"
  /\ gc_barrier[x] + 1 = 0
  /\ gc_barrier' = [gc_barrier EXCEPT ![x] = 0]
  /\ Goto(x, "to_run")
  /\ ret' = [ret EXCEPT ![x] = "run"]
  /\ UNCHANGED <<wordVars, countVars, barrierVars, checkpoint_function, visited, flip_function,
                 condVars, lockVars, listVars, localVars>>

\* Raise the suspend count; a refused request sleeps and is tried again.
SyncRaise(x) ==
  /\ pc[x] = "sc_raise"
  /\ SuspendCountLockFree
  /\ ~MustRetry(x, target[x], FALSE)
  /\ RaiseSuspendCount(target[x])
  /\ modified' = [modified EXCEPT ![x] = {target[x]}]
  /\ thread_list_lock_' = NoThread
  /\ Goto(x, "leave")
  /\ ret' = [ret EXCEPT ![x] = "sc_spin"]
  /\ UNCHANGED <<state, barrierVars, checkpointVars, flip_function, condVars,
                 thread_suspend_count_lock_, listVars, todo, target, count, ops>>

\* Yield until the thread is not Runnable, then come back to Runnable.
SyncSpin(x) ==
  /\ pc[x] = "sc_spin"
  /\ state[target[x]] # "kRunnable"
  /\ Goto(x, "to_run")
  /\ ret' = [ret EXCEPT ![x] = "sc_flip"]
  /\ UNCHANGED <<wordVars, countVars, barrierVars, checkpointVars, flip_function, condVars,
                 lockVars, listVars, localVars>>

\* EnsureFlipFunctionStarted.
SyncFlip(x) ==
  /\ pc[x] = "sc_flip"
  /\ ClaimFlipFunction(x, target[x], "sc_flip")
  /\ UNCHANGED <<state, countVars, barrierVars, checkpointVars, flip_function, condVars, lockVars,
                 listVars, todo, modified, count, ops>>

\* Mutant: the closure waits for the flip function to be taken, not to be finished.
SyncRunUnfinished(x) ==
  /\ pc[x] = "sc_flip"
  /\ kPendingFlipFunction \notin flags[target[x]]
  /\ visited' = [visited EXCEPT ![x] = @ \union {target[x]}]
  /\ Goto(x, "sc_lock")
  /\ UNCHANGED <<wordVars, countVars, barrierVars, checkpoint_function, gc_barrier, flip_function,
                 condVars, lockVars, ret, listVars, localVars>>

\* No flip function is left to run: run the closure for the suspended thread.
SyncRun(x) ==
  /\ pc[x] = "sc_flip"
  /\ flags[target[x]] \intersect FlipFunctionFlags = {}
  /\ visited' = [visited EXCEPT ![x] = @ \union {target[x]}]
  /\ Goto(x, "sc_lock")
  /\ UNCHANGED <<wordVars, countVars, barrierVars, checkpoint_function, gc_barrier, flip_function,
                 condVars, lockVars, ret, listVars, localVars>>

SyncLower(x) ==
  /\ pc[x] = "sc_lock"
  /\ BothLocksFree
  /\ thread_list_lock_' = x
  /\ LowerSuspendCount(target[x])
  /\ modified' = [modified EXCEPT ![x] = {}]
  /\ Goto(x, "sc_broadcast")
  /\ UNCHANGED <<state, barrierVars, checkpointVars, flip_function, condVars,
                 thread_suspend_count_lock_, ret, listVars, todo, target, count, ops>>

SyncBroadcast(x) ==
  /\ pc[x] = "sc_broadcast"
  /\ SuspendCountLockFree
  /\ Broadcast
  /\ thread_list_lock_' = NoThread
  /\ Goto(x, "run")
  /\ UNCHANGED <<wordVars, countVars, barrierVars, checkpointVars, flip_function,
                 is_transitioning_to_runnable, thread_suspend_count_lock_, ret, listVars, localVars>>

SyncStep(x) ==
  \/ \E t \in Thread : SyncBegin(x, t)
  \/ SyncReadState(x)
  \/ SyncInstall(x)
  \/ SyncInstallFails(x)
  \/ SyncWait(x)
  \/ SyncRaise(x)
  \/ SyncSpin(x)
  \/ SyncFlip(x)
  \/ SyncRun(x)
  \/ SyncLower(x)
  \/ SyncBroadcast(x)

===============================================================================
