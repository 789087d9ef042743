---------------------------- MODULE EmptyCheckpoint ----------------------------
(***************************************************************************)
(* Weak reference access and empty checkpoints: the copying collector      *)
(* (gc/collector/concurrent_copying.cc) stops the world to disable weak    *)
(* reference access, runs empty checkpoints (ThreadList::                  *)
(* RunEmptyCheckpoint) while it processes the mark stack and enables the   *)
(* access again.  A mutator that meets disabled access waits in the        *)
(* Runnable state, possibly holding one of the locks of                    *)
(* expected_mutexes_on_weak_ref_access_, and other Runnable threads may    *)
(* wait for that lock.  The suspension of the world is the one of          *)
(* ThreadList, seen here by its effect.                                    *)
(***************************************************************************)
EXTENDS Integers, FiniteSets

CONSTANTS
  Threads,        \* the mutators; the collector is a thread of its own
  NoThread,
  LockKind,       \* "Mutex" or "ReaderWriterMutex": the class of the lock
  MaxCheckpoints  \* bound: empty checkpoints of one collection

VARIABLES
  runnable,       \* the threads in state kRunnable
  flags,          \* the threads with kEmptyCheckpointRequest set
  passing,        \* threads that cleared the flag and have not passed yet
  weak_ref_access_enabled, \* the threads whose flag of that name is set
  owner,          \* holder of the expected mutex
  pc,
  barrier,        \* count_ of empty_checkpoint_barrier_
  gc,             \* where the collector is
  unvisited,      \* threads of list_ RunEmptyCheckpoint has not asked yet
  count,
  checkpoints,
  old_access      \* history: accesses begun before the checkpoint was requested

vars == <<runnable, flags, passing, weak_ref_access_enabled, owner, pc,
          barrier, gc, unvisited, count, checkpoints, old_access>>

collector == <<gc, unvisited, count, checkpoints>>

Init ==
  /\ runnable \in SUBSET Threads
  /\ flags = {}
  /\ passing = {}
  /\ weak_ref_access_enabled = Threads
  /\ owner = NoThread
  /\ pc = [t \in Threads |-> "run"]
  /\ barrier = 0
  /\ gc = "mutators"
  /\ unvisited = {}
  /\ count = 0
  /\ checkpoints = 0
  /\ old_access = {}

At(t, label) == t \in runnable \ passing /\ pc[t] = label
Goto(t, label) == pc' = [pc EXCEPT ![t] = label]

-----------------------------------------------------------------------------
(* A mutator. *)

\* Thread::RunEmptyCheckpoint: the flag is cleared, then the barrier passed.
RunEmptyCheckpoint(t) ==
  /\ t \in flags
  /\ flags' = flags \ {t}
  /\ passing' = passing \union {t}

\* Barrier::Pass.
Pass(t) ==
  /\ t \in passing
  /\ passing' = passing \ {t}
  /\ barrier' = barrier - 1
  /\ UNCHANGED <<runnable, flags, weak_ref_access_enabled, owner, pc, old_access, collector>>

\* Thread::CheckSuspend at a suspend point.
CheckSuspend(t) ==
  /\ At(t, "run")
  /\ RunEmptyCheckpoint(t)
  /\ UNCHANGED <<runnable, weak_ref_access_enabled, owner, pc, barrier, old_access, collector>>

\* TransitionFromRunnableToSuspended: a set flag is answered first.
TransitionFromRunnableToSuspended(t) ==
  /\ At(t, "run")
  /\ t \notin flags
  /\ runnable' = runnable \ {t}
  /\ UNCHANGED <<flags, passing, weak_ref_access_enabled, owner, pc, barrier, old_access, collector>>

\* TransitionFromSuspendedToRunnable waits while the world is being stopped.
TransitionFromSuspendedToRunnable(t) ==
  /\ t \notin runnable
  /\ gc # "suspend_all"
  /\ runnable' = runnable \union {t}
  /\ UNCHANGED <<flags, passing, weak_ref_access_enabled, owner, pc, barrier, old_access, collector>>

\* A heap access with its read barrier: no suspend point in between.
BeginAccess(t) ==
  /\ At(t, "run")
  /\ Goto(t, "access")
  /\ UNCHANGED <<runnable, flags, passing, weak_ref_access_enabled, owner, barrier, old_access, collector>>

EndAccess(t) ==
  /\ At(t, "access")
  /\ Goto(t, "run")
  /\ old_access' = old_access \ {t}
  /\ UNCHANGED <<runnable, flags, passing, weak_ref_access_enabled, owner, barrier, collector>>

\* ExclusiveLock of the expected mutex.
ExclusiveLock(t) ==
  /\ At(t, "run")
  /\ Goto(t, "lock")
  /\ UNCHANGED <<runnable, flags, passing, weak_ref_access_enabled, owner, barrier, old_access, collector>>

\* The attempt at the head of the loop of ExclusiveLock.
TryAcquire(t) ==
  /\ At(t, "lock")
  /\ IF owner = NoThread
       THEN owner' = t /\ Goto(t, "held")
       ELSE owner' = owner /\ Goto(t, "contend")
  /\ UNCHANGED <<runnable, flags, passing, weak_ref_access_enabled, barrier, old_access, collector>>

\* CheckEmptyCheckpointFromMutex, before the futex wait.
CheckEmptyCheckpointFromMutex(t) ==
  /\ At(t, "contend")
  /\ \/ RunEmptyCheckpoint(t) /\ UNCHANGED pc
     \/ t \notin flags /\ Goto(t, "futex_wait") /\ UNCHANGED <<flags, passing>>
  /\ UNCHANGED <<runnable, weak_ref_access_enabled, owner, barrier, old_access, collector>>

\* FUTEX_WAIT sleeps only while the word still says that the lock is held.
FutexWait(t) ==
  /\ At(t, "futex_wait")
  /\ Goto(t, IF owner # NoThread THEN "asleep" ELSE "awake")
  /\ UNCHANGED <<runnable, flags, passing, weak_ref_access_enabled, owner, barrier, old_access, collector>>

\* After the futex call Mutex retries until the lock is not held; the loops of
\* ReaderWriterMutex start again from their head.
AfterFutex(t) ==
  /\ At(t, "awake")
  /\ Goto(t, IF LockKind = "Mutex" /\ owner # NoThread THEN "futex_wait" ELSE "lock")
  /\ UNCHANGED <<runnable, flags, passing, weak_ref_access_enabled, owner, barrier, old_access, collector>>

Asleep == {t \in Threads : pc[t] = "asleep"}
Wake(S) == pc' = [t \in Threads |-> IF t \in S THEN "awake" ELSE pc[t]]

\* ExclusiveUnlock; with it a futex wake for the contenders.
ExclusiveUnlock(t) ==
  /\ At(t, "held")
  /\ owner' = NoThread
  /\ pc' = [u \in Threads |->
              IF u = t THEN "run" ELSE IF u \in Asleep THEN "awake" ELSE pc[u]]
  /\ UNCHANGED <<runnable, flags, passing, weak_ref_access_enabled, barrier, old_access, collector>>

\* A weak reference is accessed, with the expected mutex held or without.
GetReferent(t) ==
  /\ \/ At(t, "run")
     \/ At(t, "held")
  /\ Goto(t, "weak")
  /\ UNCHANGED <<runnable, flags, passing, weak_ref_access_enabled, owner, barrier, old_access, collector>>

\* The wait loops of SystemWeakHolder::Wait, JavaVMExt::WaitForWeakGlobalsAccess
\* and ReferenceProcessor::GetReferent: the flag is read and the thread begins to
\* wait while it holds the lock of the condition.
WaitForWeakRefAccess(t) ==
  /\ At(t, "weak")
  /\ \/ /\ t \in weak_ref_access_enabled
        /\ Goto(t, IF owner = t THEN "held" ELSE "run")
        /\ UNCHANGED <<flags, passing>>
     \/ /\ t \notin weak_ref_access_enabled
        /\ RunEmptyCheckpoint(t)
        /\ UNCHANGED pc
     \/ /\ t \notin weak_ref_access_enabled
        /\ t \notin flags
        /\ Goto(t, "weak_asleep")
        /\ UNCHANGED <<flags, passing>>
  /\ UNCHANGED <<runnable, weak_ref_access_enabled, owner, barrier, old_access, collector>>

-----------------------------------------------------------------------------
(* The collector. *)

\* BroadcastForSlowPath and BroadcastForNewSystemWeaks.
BroadcastForNewSystemWeaks ==
  pc' = [t \in Threads |-> IF pc[t] = "weak_asleep" THEN "weak" ELSE pc[t]]

\* ScopedPause of RevokeThreadLocalMarkStacks begins.
SuspendAll ==
  /\ gc = "mutators"
  /\ gc' = "suspend_all"
  /\ checkpoints' = 0
  /\ UNCHANGED <<runnable, flags, passing, weak_ref_access_enabled, owner, pc, barrier, unvisited, count, old_access>>

\* Mutant: a checkpoint disables the access thread by thread.
DisableByCheckpoint ==
  /\ gc = "suspend_all"
  /\ \E t \in weak_ref_access_enabled :
       /\ t \notin runnable \/ pc[t] = "run"
       /\ weak_ref_access_enabled' = weak_ref_access_enabled \ {t}
  /\ gc' = IF weak_ref_access_enabled' = {} THEN "collect" ELSE gc
  /\ UNCHANGED <<runnable, flags, passing, owner, pc, barrier, unvisited, count, checkpoints, old_access>>

\* SwitchToSharedMarkStackMode: in the pause every thread's access is disabled.
DisableWeakRefAccess ==
  /\ gc = "suspend_all"
  /\ runnable = {}
  /\ weak_ref_access_enabled' = {}
  /\ gc' = "collect"
  /\ UNCHANGED <<runnable, flags, passing, owner, pc, barrier, unvisited, count, checkpoints, old_access>>

\* RunEmptyCheckpoint: the barrier is initialised.
StartEmptyCheckpoint ==
  /\ gc = "collect"
  /\ checkpoints < MaxCheckpoints
  /\ checkpoints' = checkpoints + 1
  /\ barrier' = 0
  /\ count' = 0
  /\ unvisited' = Threads
  /\ gc' = "request"
  /\ old_access' = {t \in Threads : pc[t] = "access"}
  /\ UNCHANGED <<runnable, flags, passing, weak_ref_access_enabled, owner, pc>>

\* Mutant: a failed compare-and-set of the flags is not tried again.
RequestOnce(t) ==
  /\ gc = "request"
  /\ t \in unvisited
  /\ unvisited' = unvisited \ {t}
  /\ \/ t \in runnable /\ flags' = flags \union {t} /\ count' = count + 1
     \/ UNCHANGED <<flags, count>>
  /\ UNCHANGED <<runnable, passing, weak_ref_access_enabled, owner, pc, barrier, gc, checkpoints, old_access>>

\* RequestEmptyCheckpoint of one thread of list_: only a Runnable one is asked.
RequestEmptyCheckpoint(t) ==
  /\ gc = "request"
  /\ t \in unvisited
  /\ unvisited' = unvisited \ {t}
  /\ IF t \in runnable
       THEN flags' = flags \union {t} /\ count' = count + 1
       ELSE UNCHANGED <<flags, count>>
  /\ UNCHANGED <<runnable, passing, weak_ref_access_enabled, owner, pc, barrier, gc, checkpoints, old_access>>

\* Mutant: the threads that wait for weak access are not woken.
NoBroadcastForCheckpoint ==
  /\ gc = "request"
  /\ unvisited = {}
  /\ gc' = "wakeup"
  /\ UNCHANGED <<runnable, flags, passing, weak_ref_access_enabled, owner, pc, barrier, unvisited, count, checkpoints, old_access>>

\* The threads that wait for weak access are woken to answer.
BroadcastForCheckpoint ==
  /\ gc = "request"
  /\ unvisited = {}
  /\ BroadcastForNewSystemWeaks
  /\ gc' = "wakeup"
  /\ UNCHANGED <<runnable, flags, passing, weak_ref_access_enabled, owner, barrier, unvisited, count, checkpoints, old_access>>

\* WakeupToRespondToEmptyCheckpoint of the expected mutex.
WakeupToRespondToEmptyCheckpoint ==
  /\ gc = "wakeup"
  /\ Wake(Asleep)
  /\ gc' = "increment"
  /\ UNCHANGED <<runnable, flags, passing, weak_ref_access_enabled, owner, barrier, unvisited, count, checkpoints, old_access>>

\* Barrier::Increment with the count in the first round, with 0 later; it
\* returns when the count is 0.
Increment ==
  /\ gc = "increment"
  /\ barrier' = barrier + count
  /\ count' = 0
  /\ gc' = "wait"
  /\ UNCHANGED <<runnable, flags, passing, weak_ref_access_enabled, owner, pc, unvisited, checkpoints, old_access>>

EndEmptyCheckpoint ==
  /\ gc = "wait"
  /\ barrier = 0
  /\ gc' = "collect"
  /\ UNCHANGED <<runnable, flags, passing, weak_ref_access_enabled, owner, pc, barrier, unvisited, count, checkpoints, old_access>>

\* kEmptyCheckpointPeriodicTimeoutMs has elapsed.  (A timeout that is noticed
\* when the count is already 0 only costs one more round.)
PeriodicTimeout ==
  /\ gc = "wait"
  /\ barrier # 0
  /\ gc' = "wakeup"
  /\ UNCHANGED <<runnable, flags, passing, weak_ref_access_enabled, owner, pc, barrier, unvisited, count, checkpoints, old_access>>

\* ReenableWeakRefAccess.
ReenableWeakRefAccess ==
  /\ gc = "collect"
  /\ weak_ref_access_enabled' = Threads
  /\ BroadcastForNewSystemWeaks
  /\ gc' = "mutators"
  /\ UNCHANGED <<runnable, flags, passing, owner, barrier, unvisited, count, checkpoints, old_access>>

-----------------------------------------------------------------------------

\* What a thread does without being made to by the collector.
Voluntary(t) ==
  \/ TransitionFromSuspendedToRunnable(t)
  \/ BeginAccess(t)
  \/ ExclusiveLock(t)
  \/ GetReferent(t)

\* The rest of an operation it has begun.
Continue(t) ==
  \/ Pass(t)
  \/ EndAccess(t)
  \/ TryAcquire(t)
  \/ CheckEmptyCheckpointFromMutex(t)
  \/ FutexWait(t)
  \/ AfterFutex(t)
  \/ ExclusiveUnlock(t)
  \/ WaitForWeakRefAccess(t)

Collector ==
  \/ DisableWeakRefAccess
  \/ StartEmptyCheckpoint
  \/ \E t \in Threads : RequestEmptyCheckpoint(t)
  \/ BroadcastForCheckpoint
  \/ WakeupToRespondToEmptyCheckpoint
  \/ Increment
  \/ EndEmptyCheckpoint
  \/ PeriodicTimeout
  \/ ReenableWeakRefAccess

Next ==
  \/ \E t \in Threads :
       \/ Voluntary(t)
       \/ Continue(t)
       \/ CheckSuspend(t)
       \/ TransitionFromRunnableToSuspended(t)
  \/ SuspendAll
  \/ Collector

\* What a thread does at a suspend point at which something is asked of it.
SuspendPoint(t) ==
  \/ CheckSuspend(t)
  \/ gc = "suspend_all" /\ TransitionFromRunnableToSuspended(t)

\* The collector runs on once a collection has begun and a thread finishes what
\* it has begun.  A thread that keeps running meets suspend points again and
\* again.
Fairness ==
  /\ WF_vars(Collector)
  /\ \A t \in Threads : WF_vars(Continue(t)) /\ SF_vars(SuspendPoint(t))

Spec == Init /\ [][Next]_vars /\ Fairness

\* The same with locks that starve nobody: a thread that looks at the lock again
\* and again finds it free at some time if it is free again and again.
FairLockSpec ==
  /\ Spec
  /\ \A t \in Threads : SF_vars(owner = NoThread /\ (AfterFutex(t) \/ TryAcquire(t)))

-----------------------------------------------------------------------------

\* When RunEmptyCheckpoint returns no thread is still in a heap access that it
\* had begun before the checkpoint was requested: the collector may then take
\* an empty shared mark stack for the end of marking.
NoAccessSpansCheckpoint == gc = "collect" => old_access = {}

InEmptyCheckpoint == gc \in {"request", "wakeup", "increment", "wait"}

\* RunEmptyCheckpoint returns, whatever threads wait for weak reference access
\* or for a lock that such a thread holds.
EmptyCheckpointReturns == InEmptyCheckpoint ~> ~InEmptyCheckpoint

\* A thread that waits for weak reference access in the Runnable state gets on:
\* the collector comes to the end of its phase although such threads answer
\* neither suspend requests nor checkpoint functions.
WeakRefAccessReturns ==
  \A t \in Threads :
    pc[t] \in {"weak", "weak_asleep"} ~> pc[t] \notin {"weak", "weak_asleep"}
=============================================================================
