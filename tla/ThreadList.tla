------------------------------ MODULE ThreadList ------------------------------
(***************************************************************************)
(* ThreadList (runtime/thread_list.cc): the operations by which one thread *)
(* stops, visits and resumes the others (SuspendAll, Checkpoint,           *)
(* SuspendThread), while every thread moves between Runnable and the       *)
(* suspended states (ThreadTransition) and threads attach and detach       *)
(* (Registration).                                                         *)
(***************************************************************************)
EXTENDS ThreadTransition, SuspendAll, Checkpoint, SuspendThread, Registration

TypeOK ==
  /\ state \in [Thread -> ThreadState]
  /\ flags \in [Thread -> SUBSET ThreadFlag]
  /\ suspend_count \in [Thread -> Nat]
  /\ active_suspend_barriers \in [Thread -> SUBSET Thread]
  /\ pass_barriers \in [Thread -> SUBSET Thread]
  /\ checkpoint_function \in [Thread -> Seq(Thread)]
  /\ flip_function \subseteq Thread
  /\ is_transitioning_to_runnable \subseteq Thread
  /\ resume_cond_ \subseteq Thread
  /\ pending_threads \in [Thread -> Int]
  /\ gc_barrier \in [Thread -> Int]
  /\ visited \in [Thread -> SUBSET Thread]
  /\ thread_list_lock_ \in Thread \union {NoThread}
  /\ thread_suspend_count_lock_ \in Thread \union {NoThread}
  /\ pc \in [Thread -> PcLabel]
  /\ ret \in [Thread -> PcLabel]
  /\ list_ \subseteq Thread
  /\ suspend_all_count_ \in Nat
  /\ mutator_lock_ \in Thread \union {NoThread}
  /\ nativePeer \subseteq Thread
  /\ todo \in [Thread -> SUBSET Thread]
  /\ modified \in [Thread -> SUBSET Thread]
  /\ target \in [Thread -> Thread \union {NoThread}]
  /\ count \in [Thread -> Nat]
  /\ ops \in [Thread -> Nat]

Init ==
  /\ state = [t \in Thread |-> "kSuspended"]
  /\ flags = [t \in Thread |-> {}]
  /\ suspend_count = [t \in Thread |-> 0]
  /\ active_suspend_barriers = [t \in Thread |-> {}]
  /\ pass_barriers = [t \in Thread |-> {}]
  /\ checkpoint_function = [t \in Thread |-> <<>>]
  /\ flip_function = {}
  /\ is_transitioning_to_runnable = {}
  /\ resume_cond_ = {}
  /\ pending_threads = [t \in Thread |-> 0]
  /\ gc_barrier = [t \in Thread |-> 0]
  /\ visited = [t \in Thread |-> {}]
  /\ thread_list_lock_ = NoThread
  /\ thread_suspend_count_lock_ = NoThread
  /\ pc = [t \in Thread |-> IF t \in InitialThreads THEN "native" ELSE "detached"]
  /\ ret = [t \in Thread |-> "native"]
  /\ list_ = InitialThreads
  /\ suspend_all_count_ = 0
  /\ mutator_lock_ = NoThread
  /\ nativePeer = InitialThreads
  /\ todo = [t \in Thread |-> {}]
  /\ modified = [t \in Thread |-> {}]
  /\ target = [t \in Thread |-> NoThread]
  /\ count = [t \in Thread |-> 0]
  /\ ops = [t \in Thread |-> 0]

-------------------------------------------------------------------------------
ThreadProgress(t) == Transition(t) /\ UNCHANGED <<listVars, localVars>>

\* What managed and native code may do, and the kernel may do to a wait.
ThreadChoice(t) ==
  /\ \/ GoNative(t)
     \/ t \in Mutators /\ ReturnToManaged(t)
     \/ SpuriousWakeup(t)
  /\ UNCHANGED <<listVars, localVars>>

\* The steps of an operation on other threads.
OperationStep(t) ==
  \/ SuspendAllStep(t)
  \/ ResumeAllStep(t)
  \/ FlipStep(t)
  \/ RunFlipFunctionFor(t)
  \/ FinishFlipFunctionFor(t)
  \/ CheckpointStep(t)
  \/ SyncStep(t)
  \/ SuspendThreadStep(t)

Next ==
  \E t \in Thread : ThreadProgress(t) \/ ThreadChoice(t) \/ OperationStep(t) \/ LifeStep(t)

Spec == Init /\ [][Next]_vars

-------------------------------------------------------------------------------
(***************************************************************************)
(* Fairness.  A Runnable thread reaches a suspend check, and a transition  *)
(* or an operation once begun goes on: the code between two steps is       *)
(* straight-line or sleeps for a bounded time.  Strong fairness, because a *)
(* mutex that is free again and again is eventually acquired by each of    *)
(* its waiters; the retry loops sleep without it for that purpose.  When   *)
(* an operation starts, whether a thread enters or leaves managed code,    *)
(* timeouts and spurious wake-ups are not fair.                            *)
(***************************************************************************)
OperationProgress(t) ==
  /\ OperationStep(t)
  /\ pc[t] \notin {"native", "run"}
  /\ ~(pc[t] = "sa_asleep" \/ (pc[t] = "st_hold" /\ pc'[t] = "to_run"))
  /\ ~(pc[t] = "st_examine" /\ ret'[t] = "native")

LifeProgress(t) == LifeStep(t) /\ pc[t] \notin {"native", "detached"} /\ ~CreateThreadFails(t)

Requesters ==
  SuspendAllers \union Flippers \union Checkpointers \union Synchronizers
    \union IdSuspenders \union PeerSuspenders

Fairness ==
  /\ \A t \in Thread : SF_vars(ThreadProgress(t))
  /\ \A t \in Requesters : SF_vars(OperationProgress(t))
  /\ \A t \in Exiting : SF_vars(LifeProgress(t))
  /\ \A t \in JniCritical : WF_vars(ThreadChoice(t) /\ pc[t] = "jni_wait")

FairSpec == Spec /\ Fairness

-------------------------------------------------------------------------------
\* Who has asked whom to suspend, and what is owed to whom.

\* s is in SuspendAllInternal after setting its counter.
Counting(s) == pc[s] \in {"sa_modify", "sa_relock", "sa_check", "sa_wait", "sa_asleep"}

\* The threads the counter of s still has to count.
Owed(s) ==
  todo[s] \union {t \in Thread : s \in active_suspend_barriers[t] \union pass_barriers[t]}

\* a has been given its target suspended and has not resumed it yet.
HoldsTarget(a) ==
  \/ pc[a] = "st_hold"
  \/ pc[a] \in {"leave", "pass", "decrement", "to_run", "resume_wait", "flip"} /\ ret[a] = "st_hold"

-------------------------------------------------------------------------------
\* Properties.

\* The suspend count of an attached thread is the number of threads that have a
\* suspension of it outstanding, and kSuspendRequest is set exactly when there
\* is one, whatever the order in which SuspendAll, flips, checkpoints and
\* Register raise and lower it.
SuspendCountIsHolders ==
  \A t \in list_ :
    /\ suspend_count[t] = Cardinality(Holders(t))
    /\ (kSuspendRequest \in flags[t]) <=> (suspend_count[t] > 0)

\* The counter SuspendAllInternal waits on is the number of threads that still
\* have to pass its barrier: no thread is counted twice or missed, so the CHECKs
\* in PassActiveSuspendBarriers and after the wait hold.  The counter lives on the
\* caller's stack: once the function has returned no thread refers to it.
PendingIsOwed ==
  \A s \in Thread :
    IF Counting(s) THEN pending_threads[s] = Cardinality(Owed(s))
    ELSE \A t \in Thread : s \notin active_suspend_barriers[t] \union pass_barriers[t]

\* What is asked of a Runnable thread it has done before it comes back from being
\* suspended.  A checkpoint closure is queued exactly while kCheckpointRequest is
\* set, and never on a suspended thread: the two LOG(FATAL)s of thread-inl.h about
\* checkpoint flags on a suspended thread are unreachable.  A suspend barrier may
\* outlast the change of state but not the transition to suspended, unless
\* SuspendAllInternal, holding thread_suspend_count_lock_, is about to clear it.
AnsweredBeforeReturn ==
  \A t \in Thread :
    /\ checkpoint_function[t] # <<>> <=> kCheckpointRequest \in flags[t]
    /\ checkpoint_function[t] # <<>> => state[t] = "kRunnable"
    /\ active_suspend_barriers[t] # {} <=> kActiveSuspendBarrier \in flags[t]
    /\ active_suspend_barriers[t] # {} =>
         \/ state[t] = "kRunnable" \/ pc[t] = "pass"
         \/ \E s \in Thread : pc[s] = "sa_check" /\ target[s] = t

\* No thread runs managed code, or takes a step after becoming Runnable, while its
\* flip function is still to be run, and none that is Runnable has its flip
\* function run by another thread: whom another thread is flipping it keeps
\* suspended, so the LOG(FATAL) of TransitionFromSuspendedToRunnable is
\* unreachable.
FlippedBeforeRunning ==
  \A t \in Thread :
    /\ state[t] = "kRunnable" =>
         /\ t \in flip_function => pc[t] = "flip"
         /\ flags[t] \intersect FlipFunctionFlags = {}
    /\ kRunningFlipFunction \in flags[t] =>
         kSuspendRequest \in flags[t] \/ pc[t] \in {"flip_other", "flip_finish"}

\* Whoever stops the world finds every flip function of an earlier flip run, its
\* own included: FlipThreadRoots keeps mutator_lock_ until they are, and nobody
\* can suspend an early-resumed thread before it has run its own.
StoppedWorldIsFlipped ==
  \A s \in Thread : pc[s] = "world_stopped" => flip_function = {}

\* Each Pass of the barrier of a RunCheckpoint is for another thread: the closure
\* runs once for each of the counted threads and for no other.
CheckpointRunsOnce ==
  \A c \in Thread :
    pc[c] \in {"cp_request", "cp_raise", "cp_relock", "cp_check", "cp_unrequest", "cp_self",
              "cp_others", "cp_lower", "cp_wait"} =>
      /\ gc_barrier[c] = - Cardinality(visited[c])
      /\ Cardinality(visited[c]) <= count[c]
      /\ \A t \in Thread : t \in visited[c] => \A i \in 1..Len(checkpoint_function[t]) :
           checkpoint_function[t][i] # c

\* A thread that runs a checkpoint closure on behalf of another one has it
\* suspended and attached.  RequestSynchronousCheckpoint has also waited until
\* the flip function of the other thread is finished; RunCheckpoint only until
\* it has been taken (see VisitedAfterFlip).
VisitedWhileSuspended ==
  \A c \in Thread : pc[c] \in {"cp_lower", "sc_lock"} =>
    /\ IsSuspended(target[c])
    /\ target[c] \in list_
    /\ IF pc[c] = "sc_lock" THEN flags[target[c]] \intersect FlipFunctionFlags = {}
       ELSE target[c] \notin flip_function

\* What RequestSynchronousCheckpoint says of checkpoint functions (thread.cc:1805):
\* the flip function of a thread is finished before one is run for it, so that
\* its stack does not have references to both spaces.
VisitedAfterFlip ==
  \A c \in Thread : pc[c] \in {"cp_lower", "sc_lock"} =>
    flags[target[c]] \intersect FlipFunctionFlags = {}

\* The thread that SuspendThreadByThreadId or ByPeer returned stays suspended and
\* attached until the caller resumes it, so that Resume succeeds (DCHECK(resumed)
\* in InflateThinLocked), even when the caller blocks or is suspended meanwhile.
HeldThreadStaysSuspended ==
  \A a \in Thread : HoldsTarget(a) => IsSuspended(target[a]) /\ target[a] \in list_

\* Among the threads of T no set keeps all its members suspended.
NoCycleAmong(T) == \A S \in SUBSET T \ {{}} : \E t \in S : \A a \in S : t \notin modified[a]

WaitsToRun == {t \in Thread : pc[t] \in {"to_run", "resume_wait"}}

\* Threads that wait to become Runnable never wait for each other in a cycle.
NoSuspendCycle == NoCycleAmong(WaitsToRun)

\* Threads that suspend each other by SuspendThreadByThreadId or ByPeer, or run
\* checkpoints for each other, do not come to wait in a cycle, because a caller
\* that is itself asked to suspend does so first.  RequestSynchronousCheckpoint
\* does not look: its callers are left out here.
SuspendersFormNoCycle == NoCycleAmong({t \in WaitsToRun : ret[t] # "sc_flip"})

\* When a thread is deleted nobody is left with a claim on it: no suspender,
\* checkpoint or flip refers to it and no flag of it is set (the CHECKs of
\* ~Thread, and "no longer in thread list" of SuspendThreadByThreadId).
DetachedIsUnreferenced ==
  \A t \in Thread \ list_ :
    /\ flags[t] = {} /\ suspend_count[t] = 0
    /\ t \notin flip_function
    /\ \A a \in Thread : t \notin todo[a] \union modified[a]

\* The stop-the-world protocol implements a reader-writer lock whose readers are
\* the Runnable threads.
Exclusive == {s \in Thread : pc[s] = "world_stopped"}

MutatorLockSpec == INSTANCE MutatorLock WITH
  readers <- {t \in Thread : state[t] = "kRunnable"},
  writer <- IF Exclusive = {} THEN NoThread ELSE CHOOSE s \in Exclusive : TRUE

\* Runnable threads and the thread that stopped the world use mutator_lock_ as a
\* reader-writer lock, one acquisition or release at a time: between SuspendAll
\* and ResumeAll every other thread, those attached meanwhile included, is
\* suspended, although nothing but its own flags keeps it from running.
ImplementsMutatorLock == MutatorLockSpec!Spec

\* SuspendAll returns: every running thread comes to a suspend check and passes
\* the barrier, and the last one wakes the caller.
SuspendAllReturns ==
  \A s \in Thread : pc[s] = "sa_wait" ~> pc[s] = "world_stopped"

\* A thread waiting to become Runnable with no suspend request left is woken: no
\* path that lowers the last count omits a broadcast that the thread needs.
ResumedThreadWakes ==
  \A t \in Thread :
    (pc[t] = "resume_wait" /\ suspend_count[t] = 0) ~>
      (pc[t] # "resume_wait" \/ suspend_count[t] > 0)

\* Every flip function that is set is run.
FlipFunctionRuns ==
  \A t \in Thread : t \in flip_function ~> t \notin flip_function

\* RunCheckpoint's caller comes to the end of its wait, every closure having been
\* run, and SuspendThreadByThreadId, ByPeer and RequestSynchronousCheckpoint return.
RequestReturns ==
  /\ \A c \in Checkpointers : pc[c] = "cp_request" ~> pc[c] = "native"
  /\ \A a \in IdSuspenders \union PeerSuspenders :
       pc[a] = "st_check" ~> pc[a] \in {"native", "st_hold"}
  /\ \A a \in Synchronizers : pc[a] = "sc_state" ~> pc[a] = "run"

===============================================================================
