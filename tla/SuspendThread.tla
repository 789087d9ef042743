---------------------------- MODULE SuspendThread -----------------------------
(***************************************************************************)
(* Suspending and resuming one thread (runtime/thread_list.cc).            *)
(***************************************************************************)
EXTENDS ThreadListState

\* SuspendThreadByThreadId and SuspendThreadByPeer, called by a, and Resume.

\* The caller has left Runnable; the loop begins with a ScopedObjectAccess.
SuspendThreadBegin(a, t) ==
  /\ pc[a] = "native"
  /\ a \in IdSuspenders \union PeerSuspenders
  /\ t \in Thread \ {a}
  /\ StartOp(a)
  /\ target' = [target EXCEPT ![a] = t]
  /\ Goto(a, "to_run")
  /\ ret' = [ret EXCEPT ![a] = "st_check"]
  /\ UNCHANGED <<wordVars, countVars, barrierVars, checkpointVars, flip_function, condVars,
                 lockVars, listVars, todo, modified, count>>

\* Thread::FromManagedThread finds the target, or the search by id does.
PeerFound(a) == a \in PeerSuspenders => target[a] \in nativePeer

ThreadFound(a) == PeerFound(a) /\ target[a] \in list_

\* No such thread, and no count raised.
SuspendThreadNotFound(a) ==
  /\ pc[a] = "st_check"
  /\ thread_list_lock_ = NoThread
  /\ modified[a] = {}
  /\ ~ThreadFound(a)
  /\ LeaveTo(a, "native")
  /\ UNCHANGED <<wordVars, countVars, barrierVars, checkpointVars, flip_function, condVars,
                 lockVars, listVars, localVars>>

\* The count was raised but the thread has reset its peer: lower it again.
SuspendThreadPeerReset(a) ==
  /\ pc[a] = "st_check"
  /\ BothLocksFree
  /\ modified[a] # {}
  /\ ~PeerFound(a)
  /\ LowerSuspendCount(target[a])
  /\ modified' = [modified EXCEPT ![a] = {}]
  /\ LeaveTo(a, "native")
  /\ UNCHANGED <<state, barrierVars, checkpointVars, flip_function, condVars, lockVars,
                 listVars, todo, target, count, ops>>

\* Another thread is trying to suspend a: start again and be suspended first.
SuspendThreadSelfSuspended(a) ==
  /\ pc[a] = "st_check"
  /\ BothLocksFree
  /\ ThreadFound(a)
  /\ modified[a] = {}
  /\ suspend_count[a] > 0
  /\ LeaveTo(a, "st_again")
  /\ UNCHANGED <<wordVars, countVars, barrierVars, checkpointVars, flip_function, condVars,
                 lockVars, listVars, localVars>>

\* Mutant: the caller does not look at its own suspend count.
SuspendThreadRaiseUnchecked(a) ==
  /\ pc[a] = "st_check"
  /\ ThreadFound(a)
  /\ modified[a] = {}
  /\ ~MustRetry(a, target[a], FALSE)
  /\ LockBoth(a)
  /\ RaiseSuspendCount(target[a])
  /\ modified' = [modified EXCEPT ![a] = {target[a]}]
  /\ Goto(a, "st_examine")
  /\ UNCHANGED <<state, barrierVars, checkpointVars, flip_function, condVars, ret,
                 listVars, todo, target, count, ops>>

SuspendThreadRaise(a) ==
  /\ pc[a] = "st_check"
  /\ ThreadFound(a)
  /\ modified[a] = {}
  /\ suspend_count[a] = 0
  /\ ~MustRetry(a, target[a], FALSE)
  /\ LockBoth(a)
  /\ RaiseSuspendCount(target[a])
  /\ modified' = [modified EXCEPT ![a] = {target[a]}]
  /\ Goto(a, "st_examine")
  /\ UNCHANGED <<state, barrierVars, checkpointVars, flip_function, condVars, ret,
                 listVars, todo, target, count, ops>>

\* ModifySuspendCount fails: sleep holding thread_list_lock_.
SuspendThreadRetry(a) ==
  /\ pc[a] = "st_check"
  /\ BothLocksFree
  /\ ThreadFound(a)
  /\ modified[a] = {}
  /\ suspend_count[a] = 0
  /\ MustRetry(a, target[a], FALSE)
  /\ thread_list_lock_' = a
  /\ Goto(a, "st_relock")
  /\ UNCHANGED <<wordVars, countVars, barrierVars, checkpointVars, flip_function, condVars,
                 thread_suspend_count_lock_, ret, listVars, localVars>>

SuspendThreadRelock(a) ==
  /\ pc[a] = "st_relock"
  /\ ~MustRetry(a, target[a], FALSE)
  /\ RelockSuspendCount(a)
  /\ RaiseSuspendCount(target[a])
  /\ modified' = [modified EXCEPT ![a] = {target[a]}]
  /\ Goto(a, "st_examine")
  /\ UNCHANGED <<state, barrierVars, checkpointVars, flip_function, condVars, ret,
                 listVars, todo, target, count, ops>>

\* The count was raised in an earlier round.
SuspendThreadAgain(a) ==
  /\ pc[a] = "st_check"
  /\ ThreadFound(a)
  /\ modified[a] # {}
  /\ LockBoth(a)
  /\ Goto(a, "st_examine")
  /\ UNCHANGED <<wordVars, countVars, barrierVars, checkpointVars, flip_function, condVars, ret,
                 listVars, localVars>>

\* Mutant: the thread is returned before it is suspended.
SuspendThreadExamineAny(a) ==
  /\ pc[a] = "st_examine"
  /\ LeaveTo(a, "st_hold")
  /\ UnlockBoth
  /\ UNCHANGED <<wordVars, countVars, barrierVars, checkpointVars, flip_function, condVars,
                 listVars, localVars>>

\* The thread is suspended: return it.  Otherwise sleep and try again.
SuspendThreadExamine(a) ==
  /\ pc[a] = "st_examine"
  /\ \/ IsSuspended(target[a]) /\ LeaveTo(a, "st_hold")
     \/ ~IsSuspended(target[a]) /\ LeaveTo(a, "st_again")
  /\ UnlockBoth
  /\ UNCHANGED <<wordVars, countVars, barrierVars, checkpointVars, flip_function, condVars,
                 listVars, localVars>>

\* SuspendThreadByThreadId gives up after thread_suspend_timeout_ns_.
SuspendThreadTimeout(a) ==
  /\ pc[a] = "st_examine"
  /\ a \in IdSuspenders
  /\ ~IsSuspended(target[a])
  /\ LowerSuspendCount(target[a])
  /\ modified' = [modified EXCEPT ![a] = {}]
  /\ LeaveTo(a, "native")
  /\ UnlockBoth
  /\ UNCHANGED <<state, barrierVars, checkpointVars, flip_function, condVars,
                 listVars, todo, target, count, ops>>

\* The next round of the loop, or a caller that goes on as a Runnable thread
\* while it holds the suspended one (InflateThinLocked).
SuspendThreadToRunnable(a) ==
  /\ \/ pc[a] = "st_again" /\ ret' = [ret EXCEPT ![a] = "st_check"]
     \/ pc[a] = "st_hold" /\ state[a] # "kRunnable" /\ ret' = [ret EXCEPT ![a] = "st_hold"]
  /\ Goto(a, "to_run")
  /\ UNCHANGED <<wordVars, countVars, barrierVars, checkpointVars, flip_function, condVars,
                 lockVars, listVars, localVars>>

\* Resume: lower the count, then broadcast under the lock taken again.
ResumeLower(a) ==
  /\ pc[a] = "st_hold"
  /\ BothLocksFree
  /\ IsSuspended(target[a])
  /\ target[a] \in list_
  /\ LowerSuspendCount(target[a])
  /\ modified' = [modified EXCEPT ![a] = {}]
  /\ Goto(a, "st_broadcast")
  /\ UNCHANGED <<state, barrierVars, checkpointVars, flip_function, condVars, lockVars, ret,
                 listVars, todo, target, count, ops>>

ResumeBroadcast(a) ==
  /\ pc[a] = "st_broadcast"
  /\ SuspendCountLockFree
  /\ Broadcast
  /\ Goto(a, IF state[a] = "kRunnable" THEN "run" ELSE "native")
  /\ UNCHANGED <<wordVars, countVars, barrierVars, checkpointVars, flip_function,
                 is_transitioning_to_runnable, lockVars, ret, listVars, localVars>>

SuspendThreadStep(a) ==
  \/ \E t \in Thread : SuspendThreadBegin(a, t)
  \/ SuspendThreadNotFound(a)
  \/ SuspendThreadPeerReset(a)
  \/ SuspendThreadSelfSuspended(a)
  \/ SuspendThreadRaise(a)
  \/ SuspendThreadRetry(a)
  \/ SuspendThreadRelock(a)
  \/ SuspendThreadAgain(a)
  \/ SuspendThreadExamine(a)
  \/ SuspendThreadTimeout(a)
  \/ SuspendThreadToRunnable(a)
  \/ ResumeLower(a)
  \/ ResumeBroadcast(a)

===============================================================================
