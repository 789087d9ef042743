----------------------------- MODULE Registration -----------------------------
(***************************************************************************)
(* Attaching and detaching threads: CreateNativeThread and Destroy         *)
(* (runtime/thread.cc), Register and Unregister (runtime/thread_list.cc).  *)
(***************************************************************************)
EXTENDS ThreadListState

\* The parent allocates the Thread and publishes it in nativePeer.
CreateThread(t) ==
  /\ pc[t] = "detached"
  /\ nativePeer' = nativePeer \union {t}
  /\ Goto(t, "created")
  /\ UNCHANGED <<wordVars, countVars, barrierVars, checkpointVars, flip_function, condVars,
                 lockVars, ret, list_, suspend_all_count_, mutator_lock_, localVars>>

\* The parent cannot start the native thread: it deletes the Thread again.
CreateThreadFails(t) ==
  /\ pc[t] = "created"
  /\ nativePeer' = nativePeer \ {t}
  /\ Goto(t, "detached")
  /\ UNCHANGED <<wordVars, countVars, barrierVars, checkpointVars, flip_function, condVars,
                 lockVars, ret, list_, suspend_all_count_, mutator_lock_, localVars>>

\* Register: the new thread takes part in every SuspendAll under way.
Register(t) ==
  /\ pc[t] = "created"
  /\ BothLocksFree
  /\ suspend_count' = [suspend_count EXCEPT ![t] = suspend_all_count_]
  /\ SetFlags(t, IF suspend_all_count_ > 0 THEN {kSuspendRequest} ELSE {})
  /\ list_' = list_ \union {t}
  /\ Goto(t, "native")
  /\ UNCHANGED <<state, active_suspend_barriers, barrierVars, checkpointVars, flip_function,
                 condVars, lockVars, ret, suspend_all_count_, mutator_lock_, nativePeer, localVars>>

\* Unregister, called from native code: Destroy enters Runnable twice.
UnregisterBegin(t) ==
  /\ t \in Exiting
  /\ \/ pc[t] = "native" /\ ret' = [ret EXCEPT ![t] = "un_destroy"]
     \/ pc[t] = "un_again" /\ ret' = [ret EXCEPT ![t] = "un_revoke"]
  /\ Goto(t, "to_run")
  /\ UNCHANGED <<wordVars, countVars, barrierVars, checkpointVars, flip_function, condVars,
                 lockVars, listVars, localVars>>

\* Destroy: this.nativePeer = 0.
Destroy(t) ==
  /\ pc[t] = "un_destroy"
  /\ nativePeer' = nativePeer \ {t}
  /\ LeaveTo(t, "un_again")
  /\ UNCHANGED <<wordVars, countVars, barrierVars, checkpointVars, flip_function, condVars,
                 lockVars, list_, suspend_all_count_, mutator_lock_, localVars>>

\* Destroy: RevokeThreadLocalBuffers.
DestroyRevoke(t) ==
  /\ pc[t] = "un_revoke"
  /\ LeaveTo(t, "un_remove")
  /\ UNCHANGED <<wordVars, countVars, barrierVars, checkpointVars, flip_function, condVars,
                 lockVars, listVars, localVars>>

\* Mutant: a suspend request does not keep the thread.
UnregisterRemoveUnchecked(t) ==
  /\ pc[t] = "un_remove"
  /\ BothLocksFree
  /\ list_' = list_ \ {t}
  /\ Goto(t, "detached")
  /\ UNCHANGED <<wordVars, countVars, barrierVars, checkpointVars, flip_function, condVars,
                 lockVars, ret, suspend_all_count_, mutator_lock_, nativePeer, localVars>>

\* Remove the thread, unless a suspend request is outstanding; then delete it.
UnregisterRemove(t) ==
  /\ pc[t] = "un_remove"
  /\ BothLocksFree
  /\ ~IsSuspended(t)
  /\ list_' = list_ \ {t}
  /\ Goto(t, "detached")
  /\ UNCHANGED <<wordVars, countVars, barrierVars, checkpointVars, flip_function, condVars,
                 lockVars, ret, suspend_all_count_, mutator_lock_, nativePeer, localVars>>

LifeStep(t) ==
  \/ CreateThread(t)
  \/ CreateThreadFails(t)
  \/ Register(t)
  \/ UnregisterBegin(t)
  \/ Destroy(t)
  \/ DestroyRevoke(t)
  \/ UnregisterRemove(t)

===============================================================================
