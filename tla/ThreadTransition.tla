--------------------------- MODULE ThreadTransition ---------------------------
(***************************************************************************)
(* The transitions a thread takes on its own account between Runnable and  *)
(* the suspended states (runtime/thread-inl.h and thread.cc).              *)
(***************************************************************************)
EXTENDS Thread

\* The transitions of a thread t.

\* Managed code calls into native code, or blocks: as any thread may, or in a
\* JNI critical call that waits for a thread flip to end.
GoNative(t) ==
  /\ pc[t] = "run"
  /\ Goto(t, "leave")
  /\ \E where \in {"native"} \union {w \in {"jni_wait"} : t \in JniCritical} :
       ret' = [ret EXCEPT ![t] = where]
  /\ UNCHANGED <<wordVars, countVars, barrierVars, checkpointVars, flip_function,
                 condVars, lockVars>>

\* CheckSuspend finds a suspend request: FullSuspendCheck suspends and revives.
FullSuspendCheck(t) ==
  /\ pc[t] = "run"
  /\ kSuspendRequest \in flags[t]
  /\ Goto(t, "leave")
  /\ ret' = [ret EXCEPT ![t] = "to_run"]
  /\ UNCHANGED <<wordVars, countVars, barrierVars, checkpointVars, flip_function,
                 condVars, lockVars>>

\* Mutant: the overflow list is forgotten.
RunCheckpointFunctionNoOverflow(t) ==
  /\ pc[t] \in {"run", "leave"}
  /\ kCheckpointRequest \in flags[t]
  /\ SuspendCountLockFree
  /\ LET c == Head(checkpoint_function[t])
     IN /\ checkpoint_function' = [checkpoint_function EXCEPT ![t] = <<>>]
        /\ SetFlags(t, flags[t] \ {kCheckpointRequest})
        /\ visited' = [visited EXCEPT ![c] = @ \union {t}]
        /\ gc_barrier' = [gc_barrier EXCEPT ![c] = @ - 1]
  /\ UNCHANGED <<state, countVars, barrierVars, flip_function, condVars, lockVars, pc, ret>>

\* RunCheckpointFunction, from CheckSuspend or on the way to a suspended state:
\* take the next closure under the lock, then run it.
RunCheckpointFunction(t) ==
  /\ pc[t] \in {"run", "leave"}
  /\ kCheckpointRequest \in flags[t]
  /\ SuspendCountLockFree
  /\ LET c == Head(checkpoint_function[t])
         rest == Tail(checkpoint_function[t])
     IN /\ checkpoint_function' = [checkpoint_function EXCEPT ![t] = rest]
        /\ SetFlags(t, IF rest = <<>> THEN flags[t] \ {kCheckpointRequest} ELSE flags[t])
        /\ visited' = [visited EXCEPT ![c] = @ \union {t}]
        /\ gc_barrier' = [gc_barrier EXCEPT ![c] = @ - 1]
  /\ UNCHANGED <<state, countVars, barrierVars, flip_function, condVars, lockVars, pc, ret>>

\* Mutant: the thread suspends with a checkpoint left to run.
TransitionToSuspendedEarly(t) ==
  /\ pc[t] = "leave"
  /\ state' = [state EXCEPT ![t] =
                  IF ret[t] = "jni_wait" THEN "kWaitingForGcThreadFlip" ELSE "kSuspended"]
  /\ Goto(t, "pass")
  /\ UNCHANGED <<flags, countVars, barrierVars, checkpointVars, flip_function,
                 condVars, lockVars, ret>>

\* TransitionToSuspendedAndRunCheckpoints: with no checkpoint left to run, the
\* thread becomes suspended.
TransitionToSuspended(t) ==
  /\ pc[t] = "leave"
  /\ kCheckpointRequest \notin flags[t]
  /\ state' = [state EXCEPT ![t] =
                  IF ret[t] = "jni_wait" THEN "kWaitingForGcThreadFlip" ELSE "kSuspended"]
  /\ Goto(t, "pass")
  /\ UNCHANGED <<flags, countVars, barrierVars, checkpointVars, flip_function,
                 condVars, lockVars, ret>>

\* PassActiveSuspendBarriers: nothing to pass.
NoBarrierToPass(t) ==
  /\ pc[t] = "pass"
  /\ kActiveSuspendBarrier \notin flags[t]
  /\ Goto(t, ret[t])
  /\ ret' = [ret EXCEPT ![t] = IF @ = "to_run" THEN "run" ELSE @]
  /\ UNCHANGED <<wordVars, countVars, barrierVars, checkpointVars, flip_function,
                 condVars, lockVars>>

\* PassActiveSuspendBarriers: claim every barrier under the lock.
ClaimBarriers(t) ==
  /\ pc[t] = "pass"
  /\ kActiveSuspendBarrier \in flags[t]
  /\ SuspendCountLockFree
  /\ pass_barriers' = [pass_barriers EXCEPT ![t] = active_suspend_barriers[t]]
  /\ active_suspend_barriers' = [active_suspend_barriers EXCEPT ![t] = {}]
  /\ SetFlags(t, flags[t] \ {kActiveSuspendBarrier})
  /\ Goto(t, "decrement")
  /\ UNCHANGED <<state, suspend_count, pending_threads, checkpointVars, flip_function,
                 condVars, lockVars, ret>>

\* Mutant: the last thread does not wake the suspender.
DecrementBarrierNoWake(t, s) ==
  /\ pc[t] = "decrement"
  /\ s \in pass_barriers[t]
  /\ pending_threads' = [pending_threads EXCEPT ![s] = @ - 1]
  /\ pass_barriers' = [pass_barriers EXCEPT ![t] = @ \ {s}]
  /\ UNCHANGED <<wordVars, countVars, checkpointVars, flip_function, condVars, lockVars, pc, ret>>

\* PassActiveSuspendBarriers: decrement the counter of s, and wake s when this
\* was the last thread it waits for.  A wake that finds s not asleep does nothing.
DecrementBarrier(t, s) ==
  /\ pc[t] = "decrement"
  /\ s \in pass_barriers[t]
  /\ pending_threads' = [pending_threads EXCEPT ![s] = @ - 1]
  /\ pass_barriers' = [pass_barriers EXCEPT ![t] = @ \ {s}]
  /\ pc' = [pc EXCEPT ![s] = IF @ = "sa_asleep" /\ pending_threads[s] = 1 THEN "sa_wait" ELSE @]
  /\ UNCHANGED <<wordVars, countVars, checkpointVars, flip_function, condVars, lockVars, ret>>

\* PassActiveSuspendBarriers: every claimed barrier is decremented; look again.
BarriersPassed(t) ==
  /\ pc[t] = "decrement"
  /\ pass_barriers[t] = {}
  /\ Goto(t, "pass")
  /\ UNCHANGED <<wordVars, countVars, barrierVars, checkpointVars, flip_function,
                 condVars, lockVars, ret>>

\* Native code calls back into managed code.
ReturnToManaged(t) ==
  /\ pc[t] \in {"native", "jni_wait"}
  /\ Goto(t, "to_run")
  /\ ret' = [ret EXCEPT ![t] = "run"]
  /\ UNCHANGED <<wordVars, countVars, barrierVars, checkpointVars, flip_function,
                 condVars, lockVars>>

\* Mutant: a suspend request does not stop the transition.
TransitionToRunnableUnchecked(t) ==
  /\ pc[t] = "to_run"
  /\ flags[t] \subseteq {kSuspendRequest}
  /\ state' = [state EXCEPT ![t] = "kRunnable"]
  /\ Goto(t, ret[t])
  /\ UNCHANGED <<flags, countVars, barrierVars, checkpointVars, flip_function,
                 condVars, lockVars, ret>>

\* TransitionFromSuspendedToRunnable with no flag set.
TransitionToRunnable(t) ==
  /\ pc[t] = "to_run"
  /\ flags[t] = {}
  /\ state' = [state EXCEPT ![t] = "kRunnable"]
  /\ Goto(t, ret[t])
  /\ UNCHANGED <<flags, countVars, barrierVars, checkpointVars, flip_function,
                 condVars, lockVars, ret>>

\* TransitionFromSuspendedToRunnable finds a suspend request and waits.
WaitForResume(t) ==
  /\ pc[t] = "to_run"
  /\ kActiveSuspendBarrier \notin flags[t]
  /\ kSuspendRequest \in flags[t]
  /\ SuspendCountLockFree
  /\ is_transitioning_to_runnable' = is_transitioning_to_runnable \union {t}
  /\ resume_cond_' = resume_cond_ \union {t}
  /\ Goto(t, "resume_wait")
  /\ UNCHANGED <<wordVars, countVars, barrierVars, checkpointVars, flip_function, lockVars, ret>>

\* A wait on resume_cond_ ends without a broadcast.
SpuriousWakeup(t) ==
  /\ t \in resume_cond_
  /\ resume_cond_' = resume_cond_ \ {t}
  /\ UNCHANGED <<wordVars, countVars, barrierVars, checkpointVars, flip_function,
                 is_transitioning_to_runnable, lockVars, pc, ret>>

\* A woken thread looks at its flags again under the lock.
RecheckSuspendRequest(t) ==
  /\ pc[t] = "resume_wait"
  /\ t \notin resume_cond_
  /\ SuspendCountLockFree
  /\ \/ /\ kSuspendRequest \in flags[t]
        /\ resume_cond_' = resume_cond_ \union {t}
        /\ UNCHANGED <<is_transitioning_to_runnable, pc>>
     \/ /\ kSuspendRequest \notin flags[t]
        /\ is_transitioning_to_runnable' = is_transitioning_to_runnable \ {t}
        /\ Goto(t, "to_run")
        /\ UNCHANGED resume_cond_
  /\ UNCHANGED <<wordVars, countVars, barrierVars, checkpointVars, flip_function, lockVars, ret>>

\* Mutant: the pending flip function is not run.
TransitionToRunnableNoFlip(t) ==
  /\ pc[t] = "to_run"
  /\ flags[t] = {kPendingFlipFunction}
  /\ state' = [state EXCEPT ![t] = "kRunnable"]
  /\ SetFlags(t, {})
  /\ Goto(t, ret[t])
  /\ UNCHANGED <<countVars, barrierVars, checkpointVars, flip_function, condVars, lockVars, ret>>

\* TransitionFromSuspendedToRunnable finds only a pending flip function: it
\* becomes Runnable and owes itself the flip.
TransitionToRunnableForFlip(t) ==
  /\ pc[t] = "to_run"
  /\ flags[t] = {kPendingFlipFunction}
  /\ state' = [state EXCEPT ![t] = "kRunnable"]
  /\ SetFlags(t, {})
  /\ Goto(t, "flip")
  /\ UNCHANGED <<countVars, barrierVars, checkpointVars, flip_function, condVars, lockVars, ret>>

\* RunFlipFunction(this, notify = false).
RunFlipFunction(t) ==
  /\ pc[t] = "flip"
  /\ flip_function' = flip_function \ {t}
  /\ Goto(t, ret[t])
  /\ UNCHANGED <<wordVars, countVars, barrierVars, checkpointVars, condVars, lockVars, ret>>

\* The steps of a thread that its own code and the kernel always come to take.
Transition(t) ==
  \/ FullSuspendCheck(t)
  \/ RunCheckpointFunction(t)
  \/ TransitionToSuspended(t)
  \/ NoBarrierToPass(t)
  \/ ClaimBarriers(t)
  \/ \E s \in Thread : DecrementBarrier(t, s)
  \/ BarriersPassed(t)
  \/ TransitionToRunnable(t)
  \/ WaitForResume(t)
  \/ RecheckSuspendRequest(t)
  \/ TransitionToRunnableForFlip(t)
  \/ RunFlipFunction(t)

===============================================================================
