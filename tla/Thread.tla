-------------------------------- MODULE Thread --------------------------------
(***************************************************************************)
(* The suspension state of a thread (runtime/thread.h, thread-inl.h and    *)
(* thread.cc): the atomic word state_and_flags, the suspend count, the     *)
(* suspend barriers, the checkpoint and flip closures, and the transitions *)
(* a thread takes on its own between Runnable and the suspended states.    *)
(* ThreadList adds the operations that one thread performs on the others.  *)
(*                                                                         *)
(* A critical section no other thread can see the middle of is one step,   *)
(* taken when its lock is free.  A load of state_and_flags followed by a   *)
(* CAS that expects the loaded value is one step: a failed CAS only        *)
(* retries.                                                                *)
(***************************************************************************)
EXTENDS Integers, FiniteSets, Sequences

CONSTANTS
  Thread,               \* the threads, attached or not
  NoThread,             \* the owner of a mutex that nobody holds
  JniCritical,          \* threads that may wait in kWaitingForGcThreadFlip
  kMaxSuspendBarriers   \* slots of tlsPtr_.active_suspend_barriers

ASSUME ThreadAssumption ==
  /\ IsFiniteSet(Thread)
  /\ NoThread \notin Thread
  /\ JniCritical \subseteq Thread
  /\ kMaxSuspendBarriers \in Nat \ {0}

kSuspendRequest == "kSuspendRequest"
kCheckpointRequest == "kCheckpointRequest"
kActiveSuspendBarrier == "kActiveSuspendBarrier"
kPendingFlipFunction == "kPendingFlipFunction"
kRunningFlipFunction == "kRunningFlipFunction"

FlipFunctionFlags == {kPendingFlipFunction, kRunningFlipFunction}

ThreadFlag ==
  {kSuspendRequest, kCheckpointRequest, kActiveSuspendBarrier} \union FlipFunctionFlags

ThreadState == {"kRunnable", "kSuspended", "kWaitingForGcThreadFlip"}

VARIABLES
  state,                      \* state bits of tls32_.state_and_flags
  flags,                      \* flag bits of tls32_.state_and_flags
  suspend_count,              \* tls32_.suspend_count
  active_suspend_barriers,    \* the suspenders whose counter fills a slot
  pass_barriers,              \* barriers claimed and not yet decremented
  checkpoint_function,        \* checkpoint_function, then checkpoint_overflow_
  flip_function,              \* threads whose tlsPtr_.flip_function is set
  is_transitioning_to_runnable,
  resume_cond_,               \* threads blocked on Thread::resume_cond_
  pending_threads,            \* the counter of each SuspendAllInternal call
  gc_barrier,                 \* the barrier each RunCheckpoint caller waits on
  visited,                    \* threads a caller's checkpoint has run for
  thread_list_lock_,
  thread_suspend_count_lock_,
  pc,                         \* where each thread is
  ret                         \* where it goes after a state transition

wordVars == <<state, flags>>
countVars == <<suspend_count, active_suspend_barriers>>
barrierVars == <<pass_barriers, pending_threads>>
checkpointVars == <<checkpoint_function, gc_barrier, visited>>
condVars == <<is_transitioning_to_runnable, resume_cond_>>
lockVars == <<thread_list_lock_, thread_suspend_count_lock_>>

threadVars == <<wordVars, countVars, barrierVars, checkpointVars, flip_function,
                condVars, lockVars, pc, ret>>

Goto(t, label) == pc' = [pc EXCEPT ![t] = label]

SetFlags(t, set) == flags' = [flags EXCEPT ![t] = set]

\* Thread::IsSuspended.
IsSuspended(t) == state[t] # "kRunnable" /\ kSuspendRequest \in flags[t]

\* thread_suspend_count_lock_ can be taken.
SuspendCountLockFree == thread_suspend_count_lock_ = NoThread

\* Both locks can be taken: every holder of both takes thread_list_lock_ first.
BothLocksFree == thread_list_lock_ = NoThread /\ SuspendCountLockFree

\* resume_cond_->Broadcast.
Broadcast == resume_cond_' = {}

-------------------------------------------------------------------------------
\* ModifySuspendCountInternal, under thread_suspend_count_lock_.

\* Mutant: a pending flip function does not refuse the request.
MustRetryNoFlip(self, t, with_barrier) ==
  /\ with_barrier /\ Cardinality(active_suspend_barriers[t]) = kMaxSuspendBarriers

\* The two cases in which a request to suspend t is refused and must be retried.
MustRetry(self, t, with_barrier) ==
  \/ t # self /\ t \in flip_function
  \/ with_barrier /\ Cardinality(active_suspend_barriers[t]) = kMaxSuspendBarriers

\* delta = +1 without a barrier.
RaiseSuspendCount(t) ==
  /\ suspend_count' = [suspend_count EXCEPT ![t] = @ + 1]
  /\ SetFlags(t, flags[t] \union {kSuspendRequest})
  /\ UNCHANGED active_suspend_barriers

\* delta = +1 with the counter of self as the barrier.
RaiseWithBarrier(self, t) ==
  /\ suspend_count' = [suspend_count EXCEPT ![t] = @ + 1]
  /\ SetFlags(t, flags[t] \union {kSuspendRequest, kActiveSuspendBarrier})
  /\ active_suspend_barriers' = [active_suspend_barriers EXCEPT ![t] = @ \union {self}]

\* Mutant: the request flag is cleared while others still hold the thread.
LowerSuspendCountClears(t) ==
  /\ suspend_count' = [suspend_count EXCEPT ![t] = @ - 1]
  /\ SetFlags(t, flags[t] \ {kSuspendRequest})
  /\ UNCHANGED active_suspend_barriers

\* delta = -1.
LowerSuspendCount(t) ==
  /\ suspend_count' = [suspend_count EXCEPT ![t] = @ - 1]
  /\ SetFlags(t, IF suspend_count[t] = 1 THEN flags[t] \ {kSuspendRequest} ELSE flags[t])
  /\ UNCHANGED active_suspend_barriers

===============================================================================
