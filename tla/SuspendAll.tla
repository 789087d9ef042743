------------------------------ MODULE SuspendAll ------------------------------
(***************************************************************************)
(* Stopping all threads: SuspendAll, ResumeAll and FlipThreadRoots         *)
(* (runtime/thread_list.cc).                                               *)
(***************************************************************************)
EXTENDS ThreadListState

\* SuspendAllInternal and SuspendAll, called by s.

\* Announce the suspension to attaching threads and set the counter.
SuspendAllBegin(s) ==
  /\ pc[s] = "native"
  /\ s \in SuspendAllers \union Flippers
  /\ StartOp(s)
  /\ LockBoth(s)
  /\ suspend_all_count_' = suspend_all_count_ + 1
  /\ pending_threads' = [pending_threads EXCEPT ![s] = Cardinality(list_) - 1]
  /\ todo' = [todo EXCEPT ![s] = list_ \ {s}]
  /\ Goto(s, "sa_modify")
  /\ UNCHANGED <<wordVars, countVars, pass_barriers, checkpointVars, flip_function, condVars, ret,
                 list_, mutator_lock_, nativePeer, modified, target, count>>

\* ModifySuspendCount(+1, &pending_threads) on the next thread.
SuspendAllModify(s, t) ==
  /\ pc[s] = "sa_modify"
  /\ t \in todo[s]
  /\ ~MustRetry(s, t, TRUE)
  /\ RaiseWithBarrier(s, t)
  /\ todo' = [todo EXCEPT ![s] = @ \ {t}]
  /\ target' = [target EXCEPT ![s] = t]
  /\ Goto(s, "sa_check")
  /\ UNCHANGED <<state, barrierVars, checkpointVars, flip_function, condVars, lockVars, ret,
                 listVars, modified, count, ops>>

\* ModifySuspendCount fails: sleep without thread_suspend_count_lock_.
SuspendAllRetry(s, t) ==
  /\ pc[s] = "sa_modify"
  /\ t \in todo[s]
  /\ MustRetry(s, t, TRUE)
  /\ UnlockSuspendCount
  /\ Goto(s, "sa_relock")
  /\ UNCHANGED <<wordVars, countVars, barrierVars, checkpointVars, flip_function, condVars, ret,
                 listVars, localVars>>

SuspendAllRelock(s) ==
  /\ pc[s] = "sa_relock"
  /\ RelockSuspendCount(s)
  /\ Goto(s, "sa_modify")
  /\ UNCHANGED <<wordVars, countVars, barrierVars, checkpointVars, flip_function, condVars, ret,
                 listVars, localVars>>

\* Mutant: the barrier of a suspended thread is counted but stays installed.
SuspendAllCheckNoClear(s) ==
  /\ pc[s] = "sa_check"
  /\ LET t == target[s]
     IN \/ /\ IsSuspended(t)
           /\ UNCHANGED <<active_suspend_barriers, flags>>
           /\ pending_threads' = [pending_threads EXCEPT ![s] = @ - 1]
        \/ /\ ~IsSuspended(t)
           /\ UNCHANGED <<active_suspend_barriers, flags, pending_threads>>
  /\ Goto(s, "sa_modify")
  /\ UNCHANGED <<state, suspend_count, pass_barriers, checkpointVars, flip_function, condVars,
                 lockVars, ret, listVars, localVars>>

\* With the barrier installed: a thread seen suspended will not pass it, so
\* clear it and count the thread here.
SuspendAllCheck(s) ==
  /\ pc[s] = "sa_check"
  /\ LET t == target[s]
         others == active_suspend_barriers[t] \ {s}
     IN \/ /\ IsSuspended(t)
           /\ active_suspend_barriers' = [active_suspend_barriers EXCEPT ![t] = others]
           /\ SetFlags(t, IF others = {} THEN flags[t] \ {kActiveSuspendBarrier} ELSE flags[t])
           /\ pending_threads' = [pending_threads EXCEPT ![s] = @ - 1]
        \/ /\ ~IsSuspended(t)
           /\ UNCHANGED <<active_suspend_barriers, flags, pending_threads>>
  /\ Goto(s, "sa_modify")
  /\ UNCHANGED <<state, suspend_count, pass_barriers, checkpointVars, flip_function, condVars,
                 lockVars, ret, listVars, localVars>>

\* The loop is over: leave the critical section.
SuspendAllUnlock(s) ==
  /\ pc[s] = "sa_modify"
  /\ todo[s] = {}
  /\ UnlockBoth
  /\ Goto(s, "sa_wait")
  /\ UNCHANGED <<wordVars, countVars, barrierVars, checkpointVars, flip_function, condVars, ret,
                 listVars, localVars>>

\* The counter is positive: FUTEX_WAIT, which compares it again.
SuspendAllSleep(s) ==
  /\ pc[s] = "sa_wait"
  /\ pending_threads[s] > 0
  /\ Goto(s, "sa_asleep")
  /\ UNCHANGED <<wordVars, countVars, barrierVars, checkpointVars, flip_function, condVars,
                 lockVars, ret, listVars, localVars>>

\* EINTR, or a late wake meant for an earlier wait.
SuspendAllInterrupted(s) ==
  /\ pc[s] = "sa_asleep"
  /\ Goto(s, "sa_wait")
  /\ UNCHANGED <<wordVars, countVars, barrierVars, checkpointVars, flip_function, condVars,
                 lockVars, ret, listVars, localVars>>

\* Every thread has passed the barrier.
SuspendAllPassed(s) ==
  /\ pc[s] = "sa_wait"
  /\ pending_threads[s] <= 0
  /\ Goto(s, "sa_mutator")
  /\ UNCHANGED <<wordVars, countVars, barrierVars, checkpointVars, flip_function, condVars,
                 lockVars, ret, listVars, localVars>>

\* mutator_lock_->ExclusiveLock.
SuspendAllMutatorLock(s) ==
  /\ pc[s] = "sa_mutator"
  /\ mutator_lock_ = NoThread
  /\ mutator_lock_' = s
  /\ Goto(s, "world_stopped")
  /\ UNCHANGED <<wordVars, countVars, barrierVars, checkpointVars, flip_function, condVars,
                 lockVars, ret, list_, suspend_all_count_, nativePeer, localVars>>

SuspendAllStep(s) ==
  \/ SuspendAllBegin(s)
  \/ \E t \in Thread : SuspendAllModify(s, t) \/ SuspendAllRetry(s, t)
  \/ SuspendAllRelock(s)
  \/ SuspendAllCheck(s)
  \/ SuspendAllUnlock(s)
  \/ SuspendAllSleep(s)
  \/ SuspendAllInterrupted(s)
  \/ SuspendAllPassed(s)
  \/ SuspendAllMutatorLock(s)

-------------------------------------------------------------------------------
\* ResumeAll, called by s.

ResumeAllBegin(s) ==
  /\ pc[s] = "world_stopped"
  /\ s \in SuspendAllers
  /\ mutator_lock_' = NoThread
  /\ Goto(s, "ra_lock")
  /\ UNCHANGED <<wordVars, countVars, barrierVars, checkpointVars, flip_function, condVars,
                 lockVars, ret, list_, suspend_all_count_, nativePeer, localVars>>

ResumeAllLock(s) ==
  /\ pc[s] = "ra_lock"
  /\ LockBoth(s)
  /\ suspend_all_count_' = suspend_all_count_ - 1
  /\ todo' = [todo EXCEPT ![s] = list_ \ {s}]
  /\ Goto(s, "ra_modify")
  /\ UNCHANGED <<wordVars, countVars, barrierVars, checkpointVars, flip_function, condVars, ret,
                 list_, mutator_lock_, nativePeer, modified, target, count, ops>>

ResumeAllModify(s, t) ==
  /\ pc[s] = "ra_modify"
  /\ t \in todo[s]
  /\ LowerSuspendCount(t)
  /\ todo' = [todo EXCEPT ![s] = @ \ {t}]
  /\ UNCHANGED <<state, barrierVars, checkpointVars, flip_function, condVars, lockVars, pc, ret,
                 listVars, modified, target, count, ops>>

ResumeAllEnd(s) ==
  /\ pc[s] = "ra_modify"
  /\ todo[s] = {}
  /\ Broadcast
  /\ UnlockBoth
  /\ Goto(s, "native")
  /\ UNCHANGED <<wordVars, countVars, barrierVars, checkpointVars, flip_function,
                 is_transitioning_to_runnable, ret, listVars, localVars>>

ResumeAllStep(s) ==
  \/ ResumeAllBegin(s)
  \/ ResumeAllLock(s)
  \/ \E t \in Thread : ResumeAllModify(s, t)
  \/ ResumeAllEnd(s)

-------------------------------------------------------------------------------
\* FlipThreadRoots, called by g, after SuspendAllInternal and
\* mutator_lock_->ExclusiveLock.

FlipLock(g) ==
  /\ pc[g] = "world_stopped"
  /\ g \in Flippers
  /\ LockBoth(g)
  /\ suspend_all_count_' = suspend_all_count_ - 1
  /\ todo' = [todo EXCEPT ![g] = list_]
  /\ Goto(g, "fl_set")
  /\ UNCHANGED <<wordVars, countVars, barrierVars, checkpointVars, flip_function, condVars, ret,
                 list_, mutator_lock_, nativePeer, modified, target, count, ops>>

\* A thread that was only waiting for this flip and is about to run.
ResumedEarly(t) ==
  /\ state[t] = "kWaitingForGcThreadFlip" \/ t \in is_transitioning_to_runnable
  /\ suspend_count[t] = 1

\* SetFlipFunction on the next thread; resume it if it only waits for the flip.
FlipSet(g, t) ==
  /\ pc[g] = "fl_set"
  /\ t \in todo[g]
  /\ flip_function' = flip_function \union {t}
  /\ todo' = [todo EXCEPT ![g] = @ \ {t}]
  /\ \/ /\ t # g /\ ResumedEarly(t)
        /\ suspend_count' = [suspend_count EXCEPT ![t] = @ - 1]
        /\ SetFlags(t, (flags[t] \ {kSuspendRequest}) \union {kPendingFlipFunction})
        /\ UNCHANGED modified
     \/ /\ t # g /\ ~ResumedEarly(t)
        /\ modified' = [modified EXCEPT ![g] = @ \union {t}]
        /\ SetFlags(t, flags[t] \union {kPendingFlipFunction})
        /\ UNCHANGED suspend_count
     \/ /\ t = g
        /\ SetFlags(t, flags[t] \union {kPendingFlipFunction})
        /\ UNCHANGED <<modified, suspend_count>>
  /\ UNCHANGED <<state, active_suspend_barriers, barrierVars, checkpointVars, condVars, lockVars,
                 pc, ret, listVars, target, count, ops>>

\* Mutant: the flip function of the collector thread is not run.
FlipUnlockNotSelf(g) ==
  /\ pc[g] = "fl_set"
  /\ todo[g] = {}
  /\ Broadcast
  /\ UnlockBoth
  /\ todo' = [todo EXCEPT ![g] = modified[g]]
  /\ Goto(g, "fl_run")
  /\ UNCHANGED <<wordVars, countVars, barrierVars, checkpointVars, flip_function,
                 is_transitioning_to_runnable, ret, listVars, modified, target, count, ops>>

\* Leave the critical section; ThreadFlipEnd.
FlipUnlock(g) ==
  /\ pc[g] = "fl_set"
  /\ todo[g] = {}
  /\ Broadcast
  /\ UnlockBoth
  /\ todo' = [todo EXCEPT ![g] = modified[g] \union {g}]
  /\ Goto(g, "fl_run")
  /\ UNCHANGED <<wordVars, countVars, barrierVars, checkpointVars, flip_function,
                 is_transitioning_to_runnable, ret, listVars, modified, target, count, ops>>

FlipEnsureStarted(g, t) ==
  /\ pc[g] = "fl_run"
  /\ t \in todo[g]
  /\ todo' = [todo EXCEPT ![g] = @ \ {t}]
  /\ \/ ClaimFlipFunction(g, t, "fl_run")
     \/ kPendingFlipFunction \notin flags[t] /\ UNCHANGED <<flags, target, ret, pc>>
  /\ UNCHANGED <<state, countVars, barrierVars, checkpointVars, flip_function, condVars, lockVars,
                 listVars, modified, count, ops>>

FlipMutatorUnlock(g) ==
  /\ pc[g] = "fl_run"
  /\ todo[g] = {}
  /\ mutator_lock_' = NoThread
  /\ Goto(g, "fl_resume")
  /\ UNCHANGED <<wordVars, countVars, barrierVars, checkpointVars, flip_function, condVars,
                 lockVars, ret, list_, suspend_all_count_, nativePeer, localVars>>

\* Resume the other threads under thread_suspend_count_lock_ alone.
FlipResumeLock(g) ==
  /\ pc[g] = "fl_resume"
  /\ RelockSuspendCount(g)
  /\ Goto(g, "fl_lower")
  /\ UNCHANGED <<wordVars, countVars, barrierVars, checkpointVars, flip_function, condVars, ret,
                 listVars, localVars>>

FlipLower(g, t) ==
  /\ pc[g] = "fl_lower"
  /\ t \in modified[g]
  /\ LowerSuspendCount(t)
  /\ modified' = [modified EXCEPT ![g] = @ \ {t}]
  /\ UNCHANGED <<state, barrierVars, checkpointVars, flip_function, condVars, lockVars, pc, ret,
                 listVars, todo, target, count, ops>>

FlipEnd(g) ==
  /\ pc[g] = "fl_lower"
  /\ modified[g] = {}
  /\ Broadcast
  /\ UnlockSuspendCount
  /\ Goto(g, "native")
  /\ UNCHANGED <<wordVars, countVars, barrierVars, checkpointVars, flip_function,
                 is_transitioning_to_runnable, ret, listVars, localVars>>

FlipStep(g) ==
  \/ FlipLock(g)
  \/ \E t \in Thread : FlipSet(g, t) \/ FlipEnsureStarted(g, t) \/ FlipLower(g, t)
  \/ FlipUnlock(g)
  \/ FlipMutatorUnlock(g)
  \/ FlipResumeLock(g)
  \/ FlipEnd(g)

===============================================================================
