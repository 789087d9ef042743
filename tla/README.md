# A TLA+ development for ART, the Android runtime

ART is the virtual machine of Android: a multi-threaded runtime with a concurrent
collector. This development specifies how its threads lock, stop, visit, resume, park and
outlive each other, and what the runtime builds on that: monitors, thread pools,
the coordination of collections, reference processing and the initialisation of classes.

## 1. Parts

| Part | State | Operations | What is hard | Modules |
|---|---|---|---|---|
| Mutexes and conditions (`runtime/base/mutex.cc`) | futex words, contender counts | lock, unlock, wait, signal, broadcast by requeue; readers and writers | lost wake-ups | `Mutex`, `ReaderWriterMutex`, `AbstractLock`, `MutexProof` |
| Park and unpark (`runtime/thread.cc`, `native/*Unsafe.cc`) | `park_state_`, `nativePeer`, `unparkedBeforeStart`, `thread_list_lock_` | `Park`, `Unpark`, `Unsafe_unpark`, start, failed start, `Destroy`, `Unregister` | unpark racing the futex wait, the start and the death of the thread | `Park`, `LockSupport`, `ParkProof` |
| Thread state word (`runtime/thread.h`, `thread-inl.h`, `thread.cc`) | `state_and_flags`, `suspend_count`, `active_suspend_barriers`, checkpoint and flip closures | transitions to and from Runnable, `ModifySuspendCount`, `PassActiveSuspendBarriers`, `RunCheckpointFunction`, `RunFlipFunction` | lock-free CAS against requests made under locks | `Thread`, `ThreadTransition` |
| Thread list (`runtime/thread_list.cc`) | `list_`, `suspend_all_count_`, locks, `resume_cond_` | `SuspendAll`, `ResumeAll`, `FlipThreadRoots`, `RunCheckpoint`, `RequestSynchronousCheckpoint`, `SuspendThreadBy*`, `Resume`, `Register`, `Unregister` | all of them at once, on threads that come and go | `ThreadListState`, `SuspendAll`, `Checkpoint`, `SuspendThread`, `Registration`, `ThreadList` and their proofs |
| Mutator lock (`runtime/base/mutex*`) | exclusive owner; readers uncounted | shared by transition, exclusive by `SuspendAll` | readers do not touch the lock | `MutatorLock` |
| Empty checkpoints and weak-reference access (`thread_list.cc`, `gc/collector/concurrent_copying.cc`, `barrier.cc`) | access flags, a lock, the barrier | `RunEmptyCheckpoint`, disabling and enabling access | threads that wait in the Runnable state | `EmptyCheckpoint` |
| Thread pools (`runtime/thread_pool.cc`) | task queue, waiting and active workers | `AddTask`, `GetTask`, `Wait`, `StopWorkers`, `DeleteThreads`, ... | wake-ups at stop and shutdown | `ThreadPool` |
| Monitors (`runtime/monitor.cc`, `lock_word.h`) | lock word, owner, wait sets | thin locking, inflation, wait, notify, interrupt, hash codes, deflation | inflation of a lock that a suspended thread holds | `Monitor` |
| Heap coordination (`runtime/gc/heap.cc`, `gc/task_processor.cc`) | running collector, gc numbers, disable counts, queued tasks | requests, collections, waiting, trims, JNI critical sections, shutdown | gates that wait for each other; numbers that wrap | `Heap` |
| Reference processing (`gc/reference_processor.cc`, `reference_queue.cc`) | referents, queues, slow path | `GetReferent`, `ClearReferent`, the phases of a collection | mutators that resurrect what is being cleared | `ReferenceProcessor` |
| Class initialisation (`runtime/class_linker.cc`, `mirror/class.cc`) | class status, initialising thread, callbacks | `VerifyClass`, `InitializeClass`, `MakeInitializedClassesVisiblyInitialized` | recursive waits with monitors held | `ClassLinker` |

`PROJECT.json` lists every part of the repository with its sources, modelled or not, and
each hazard at the line where it bites. `MCLocks`, `MCObjects` and `MCGc` put independent
modules side by side for one run: a behaviour is one of the modules that a selector
variable, fixed in the initial state, names; the others rest.

The modules rest on each other by contract: `ThreadList` takes mutexes and `resume_cond_`
as atomic, which `Mutex` justifies; `Monitor`, `ThreadPool` and `Heap` use mutexes and
condition variables in the same way; `Monitor` uses the suspension of one thread and
`EmptyCheckpoint` that of the world as `ThreadList` provides them; `ClassLinker` uses monitors and
checkpoints.

## 2. Modules and the code

**`Mutex`** has one mutex and one condition variable on it, in the futex build.
`state_and_contenders_` is the held bit and the number of contenders. An action is the code
from one access of a shared word to the next; `futex` calls are steps of their own, and the queues of the
kernel are the threads whose `pc` says that they sleep. `FUTEX_REQUEUE` moves sleepers
from the condition to the mutex without waking them. A load and the CAS that expects
the loaded value are one step, since a failed CAS only loops. **`ReaderWriterMutex`** is
the same for readers, writers and writers with a time-out; there contenders are counted in
another word than the state, so that unlocking and looking for contenders are two steps.
**`AbstractLock`** is what the users of `Mutex` and of `Monitor` are promised: one owner, and a wait that gives the
lock up in the same instant as the thread becomes a waiter.

**`ThreadPool`** has the workers' loop and the calls of clients; a critical section of
`task_queue_lock_` is a step, a condition variable the set of its sleepers, and a task may
add a task.

**`Park`** follows one parking thread and any set `Unparkers` of threads that unpark
it. The thread goes through `CreateNativeThread`, `Register`
(`CheckUnparkedBeforeStart`, `UnparkSelf` are the two halves of `CreateCallback`'s
check), `Park` and `Destroy`/`Unregister`; `Park` is split at each access of
`park_state_` and at the futex wait, which returns because of a wake, a timeout, a
changed word or an interrupt. An unparker is inside `Unsafe_unpark` from taking
`thread_list_lock_` to releasing it. A start may fail, as in
`CreateNativeThread`'s error path.

**`LockSupport`** says what managed code is promised: one permit, given by `unpark`,
consumed by `park`; `park` may return spuriously, and a `park` that has been given a permit
returns.

**`Thread`** has the suspension state of a thread and `ModifySuspendCount`;
**`ThreadTransition`** the transitions a thread takes by itself. `state` and `flags` are the two
halves of `state_and_flags`; a load and the CAS that expects the loaded value are one step,
since a failed CAS only loops. The variable `pc` says where a thread is; `ret` where it goes on
after a transition (`leave`, `pass`, `decrement` leave Runnable; `to_run`, `resume_wait`, `flip`
enter it). `active_suspend_barriers[t]` is the set of suspenders whose counter occupies a slot of
`t`; `pass_barriers[t]` the local array of `PassActiveSuspendBarriers`.
`checkpoint_function[t]` is the pending closure followed by the overflow list.

**`ThreadListState`** has the state of the thread list and what its operations share. The
operations are in **`SuspendAll`** (with `ResumeAll` and `FlipThreadRoots`), **`Checkpoint`**
(`RunCheckpoint`, `RequestSynchronousCheckpoint`), **`SuspendThread`** (by id, by peer, and
`Resume`) and **`Registration`** (`Register`, `Unregister`, start and failed start);
**`ThreadList`** composes them with the transitions and states the properties. A loop over
`list_` keeps what is left in `todo`, the threads whose count it raised one by one in `modified`,
and the thread it is at in `target`. A critical section that no other thread can observe half-done is one
step, taken when its locks are free; where the code gives a lock up in the
middle (the sleep in `ModifySuspendCount`) or works on atomics that others
change without the lock (everything on `state_and_flags`), there are several steps and the
locks are variables. The roles (`SuspendAllers`, `Flippers`, ...) say which threads
may start which operation and `MaxOps` how many each starts.

**`MutatorLock`** is a reader-writer lock. In the code a Runnable thread counts as a reader
but touches no lock word; `ThreadList` is shown to implement the lock all the same.

**`EmptyCheckpoint`** has the collector, which disables weak-reference access, runs an empty
checkpoint and enables access again, and mutators that wait for access in the Runnable
state, one of them perhaps with a lock that others want. `LockKind` says whether that lock
is a `ReaderWriterMutex` or a plain `Mutex`: their loops answer differently.

**`Heap`** has threads that ask for collections, wait for them, run them, trim, or hold raw pointers
(`IncrementDisableMovingGC`, `IncrementDisableThreadFlip`), the heap task daemon and the
shutdown. `gcs_completed_` and `max_gc_requested_` are 32-bit numbers compared by
difference; here they are numbers modulo `GcNumModulus`. What a collection does is left out;
when it may run is what the module is about. That includes its type: `next_gc_type_` starts as
`kGcTypePartial`, `GrowForUtilization` sets it after each collection (how throughputs compare is a
choice), and a partial collection in a process without a zygote space (`HasZygoteSpace`)
returns at once and is not counted, so that `ConcurrentGC` must go on with the
next type of `gc_plan_` (`RetryGcPlan`). The heap's collector is generational CC or CMS.

**`Monitor`** has one object: the lock word (unlocked, thin with owner and count, hash code, or
fat) and the `Monitor` it points to. Inflating somebody else's thin lock suspends the owner, which
is why `SafePoint` says where a thread can be suspended. A deflated monitor is freed; whoever
still has a pointer to it is in the state.

**`ReferenceProcessor`** has one collection over a small heap: marking closes a set under the
fields of objects, and the phases of `ProcessReferences` are steps, with `GetReferent` and
`ClearReferent` of mutators in between.

**`ClassLinker`** has a call stack for each thread, since verifying and initialising a class
does the same for its superclass and runs `<clinit>`, which needs other classes. The frames
at the places in `Holding` hold the monitor of their class across steps. A
`VisiblyInitializedCallback` collects initialised classes, is run for every thread by a checkpoint
and sets their status when the last thread has passed.

Points of the code the model decides by reasoning rather than by a step:

* `PassActiveSuspendBarriers` inside `TransitionFromSuspendedToRunnable` has no action:
  a thread about to become Runnable has no barrier of its own left to pass
  (`AnsweredBeforeReturn`).
* `Resume`'s error returns have no action: `HeldThreadStaysSuspended` shows that they are
  not reached from its callers.
* The decrement of a barrier counter and the `FUTEX_WAKE` after it are one step; a
  wake that comes late is `SuspendAllInterrupted`. `ETIMEDOUT` only logs.
* "Just retry the loop" after a failed `ModifySuspendCount` in
  `RequestSynchronousCheckpoint` (`thread.cc:1787`) is dead code: `ModifySuspendCount`
  with delta +1 retries by itself (`thread-inl.h:454-484`).
* `RunCheckpoint` runs its closure on suspended threads without looking at their flip
  function. `ModifySuspendCount` has failed until somebody has taken it, and that is all:
  `VisitedWhileSuspended` states what holds, and the run `visit_flip` shows that the flip function may
  still be running (section 6). `RequestSynchronousCheckpoint` waits until it is finished.
* Comments at `thread_list.cc:909` and `1035` refer to
  `Locks::thread_list_suspend_thread_lock_`, which no longer exists; what keeps cycles
  away now is that the requester looks at its own suspend count.

## 3. Runs

| Run | Instance | Shows |
|---|---|---|
| `suspension` | two suspenders by `SuspendAll`, `ById` and `ByPeer`, one of them also by a flip and the other by a synchronous checkpoint; two `RunCheckpoint`; a mutator in JNI critical sections that detaches and attaches; one barrier slot | counts and barriers are accounted for, a held thread stays suspended, those who suspend by id, by peer or all form no cycle, no deleted thread is referred to; nothing runs unflipped, a stopped world is a flipped one; each closure once for each counted thread, with the thread suspended; requests sit only on Runnable threads and are answered before they become suspended; implements `MutatorLock` |
| `requests_live` | `RunCheckpoint`, synchronous checkpoint, `ById`, `SuspendAll` and mutators | every request returns, resumed threads wake |
| `stop_live` | two `SuspendAll` and a flip, one barrier slot | `SuspendAll` returns, every flip function runs |
| `locks` | `Mutex`, `ReaderWriterMutex`, `Park`, `ThreadPool` | mutual exclusion, no lost wake-up or notification, every lock call returns; both locks implement their abstract specifications, `Park` implements `LockSupport` with its liveness and touches no deleted thread; every call of a pool returns |
| `objects` | `Monitor`, `ReferenceProcessor`, `ClassLinker` | no entry count, hash code or notification is lost in inflation and deflation, no monitor in use is freed, a monitor implements `AbstractLock`; a referent in use survives and references to one object are cleared together; class status changes legally and nobody waits for a class for ever |
| `gc` | `Heap`, `EmptyCheckpoint` with a `ReaderWriterMutex` | raw pointers stay good, a requested collection completes, every call returns; nobody has weak-reference access across a checkpoint, checkpoints and accesses return |
| `suspend_cycle`, `visit_flip`, `peer_reset`, `park_stillborn`, `gc_request`, `empty_checkpoint` | | disagreements of code and comments, section 6 |

Each property of a passing run comes with a mutant of the code's model (`...NoWake`,
`...Unchecked`, ...), defined next to the original, that breaks it.

**Bounds, and why they are enough.**

* `suspension`, `requests_live`, `stop_live`: three threads. Two requesters and a victim are what the races in
  `thread_list.cc` need, and requesters are victims of each other. Each starts `MaxOps = 1` operation; a thread that has
  finished still runs, exits and is the object of others. `kMaxSuspendBarriers` is 1 instead
  of 3 in `suspension` and `stop_live`, so that two suspenders fill the slots and the retry happens.
* `locks`: three threads on the mutex (an owner, a contender that reads the word and one that
  sleeps), 5 calls, recursion to depth 2, one interruption of a futex wait; three threads and 3 calls on the reader-writer mutex;
  two unparkers; two workers, two clients, 4 pool calls and 2 tasks, enough for a stop with a task under way
  and a wait that overlaps it. Deadlock is not checked because all calls can be spent and every thread at rest; what a
  deadlock would break is stated by the liveness properties.
* `objects`: three threads, 6 calls, 2 inflations (one before and one after a deflation), 2 interrupts, and
  `kThinLockMaxCount = 1`, so that the thin count overflows. Four small heaps with two references of the same kind, a
  soft, a finalizer and a phantom reference between them, two readers, one clear. A class and
  its superclass, three calls; `kMaxClasses = 2`, so that a callback
  is sent both because it is full and on request. The threads are symmetric, and no property of
  this run is a liveness property, so the symmetry is sound.
* `gc`: two threads, the daemon and `main`, 2 calls, the shutdown among them; gc numbers modulo 16 from 14, so that
  they wrap in the run, and no zygote space, so that the first collection tried cannot run; the modulus exceeds twice the number of collections possible, as 2^32 does. One empty checkpoint
  with two mutators and the collector.

## 4. Fairness

* `ThreadList` (`FairSpec`): a Runnable thread keeps reaching suspend checks, and a thread in a
  transition or in an operation goes on. The first is what compiled code guarantees (a
  suspend check on every back edge and method entry), the second holds because the code between
  two steps is straight-line or sleeps for a bounded time. Strong fairness, because several steps wait for a mutex
  that others keep taking, and the retry loops release it and sleep precisely to let others in. Nothing is assumed about when
  operations start, when threads enter or leave managed code (except that a JNI critical wait
  ends), time-outs, interrupts or spurious wake-ups.
* `Mutex`: weak fairness of each thread's steps and of unlocking: the scheduler runs a thread that
  is not asleep, and who has a lock gives it up. No fairness of the lock itself is assumed; the
  calls are bounded, and a barging thread has finitely many.
* `Park`, `ThreadPool`, `Heap`: weak fairness of the steps of threads inside a call, of workers and of the daemon. Tasks and collections end.
* `EmptyCheckpoint`: weak fairness of collector and threads, strong fairness of suspend points of a Runnable thread.
  The violation run uses `FairLockSpec`, which also makes the lock starve nobody: the
  counterexample is not one of starvation.

## 5. Proofs

`ParkProof`: `ParkSafety`, for any set of unparkers, that `park_state_` keeps its legal values and
`Unsafe_unpark` never touches a `Thread` that `Unregister` deleted. `UnparkTouchesLiveThread` is not
inductive: `IInv` adds who owns `thread_list_lock_` (`ListLockOwned`), that only a thread inside
`Park` leaves the word at `kNoPermitWaiterWaiting` (`WaiterWaitingInPark`) and that
`nativePeer` is reset before the `Thread` is deleted (`PeerLifetime`). The one
assumption is that `NoThread` is not an unparker.

`ThreadListProof`: `SuspendCountSafety`, for any finite set of threads in any roles, any number of
operations and any number of barrier slots, that a suspend count is the number of suspensions
outstanding and `kSuspendRequest` says whether there is one. The inductive invariant
(`ThreadListInvariant`) has two layers.

* `ControlInv`: the place a thread is at determines the locks it holds, whether it can be
  Runnable, what it has left to visit and whose counts it has raised. It is needed because a
  step lowers the counts of `modified[a]` or `todo[a]` on the strength of where `a` is.
* `CountInv`: every count is `Cardinality(Holders(t))`, `suspend_all_count_` is the number of
  `SuspendAll` calls under way (`Register` copies it into the new thread's count), and every
  thread somebody has left to visit or to resume is attached. The last part is why `Unregister`
  may delete a thread whose count is zero: nobody holds it, nobody has it in a `todo` set because
  those are used under `thread_list_lock_` or for threads that are held.

The argument goes by kinds of step. `OtherThreads(self)` says that a step leaves the control of
all other threads alone; `QuietStep`, `RaiseStep` and `LowerStep` that it changes no count, or
exactly one together with the hold that accounts for it. `ThreadListInvariantProof` shows that
such a step (`SoundStep`) preserves both layers: this is the only place where cardinalities
are reasoned about. `ThreadTransitionProof`, `SuspendAllProof`, `CheckpointProof` and
`SuspendThreadProof` show that every action is sound, one proof step for each action;
`Register` and `UnregisterRemove`, which change `list_`, are treated in `ThreadListProof`.
The assumptions are `ThreadAssumption` (finitely many threads, `NoThread` is none of them, at
least one barrier slot) and `RoleAssumption` (the roles are sets of threads, nobody suspends
both by id and by peer, `MaxOps` is a natural number).

`MutexProof`: `MutexMutualExclusion`, `MutexNoLostWakeup`, `MutexNotificationReaches` and
`MutexImplementsLock`, for any finite set of threads,
any number of calls and interrupts, recursive or not. `MutualExclusion` follows from `Discipline`: the place a thread
is at determines what it has read, whether it is in a wait and the count it must restore; one
thread at a time is at a place that holds the word. `NoLostWakeup` needs more: the
contender count is exactly the number of threads between `increment_contenders` and its
decrement, or requeued by a condition variable. Only because it counts every sleeper may
`ExclusiveUnlock` skip `FUTEX_WAKE` when it reads zero. `RequeueMoves` and the counting
lemmas `OneMore` and `OneLess` carry the cardinalities; `MutexInductive` combines the two
layers. `NotificationReaches` also needs that nobody starts to wait between the change of `sequence_`
and `FUTEX_REQUEUE` (`Notifying`), which is so because the notifier has the mutex. The refinement
(`LockStep`) has one proof step for each action; `OwnerIsHolder` makes the owner of the
abstract lock the one thread at a place that holds the word. The assumption is `MutexAssumption` (finitely many threads, `NoThread` is none of them, the
bounds are natural numbers).

Only model-checked: every liveness property (fairness and `ENABLED` are beyond the prover),
the other refinements, and the safety properties not listed above.

## 6. Where the code and its comments disagree

* **`suspend_cycle`** (`thread.cc:1786`). `RequestSynchronousCheckpoint` raises the
  target's suspend count without looking at its own, then has to become Runnable before it
  lowers it. Against `SuspendThreadByThreadId` in the other direction, both
  threads wait for each other, the cycle that the comments at `thread_list.cc:1033-1037`
  and `1062-1064` exclude.
* **`visit_flip`** (`thread_list.cc:395`). `RequestSynchronousCheckpoint` makes sure that the flip function
  of a thread "is finished *before* the checkpoint function is run", since the stack would otherwise have references
  to both spaces (`thread.cc:1805-1807`). `RunCheckpoint` does not: its closure may be run for a suspended thread
  while another thread, having taken the flip function, still runs it. It matters for
  closures that look at the stack.
* **`peer_reset`** (`thread_list.cc:921`). When the peer has been reset
  `SuspendThreadByPeer` lowers the count it had raised without a broadcast on `resume_cond_`. The
  exiting thread may be waiting there in `Destroy`, and nobody wakes it: the deadlock
  the comment at 918-920 wants to avoid.
* **`park_stillborn`** (`thread.cc:943`). When the native thread cannot be created the
  `Thread` is deleted before `nativePeer` is reset, without `thread_list_lock_`, which
  `FromManagedThread` (682-683) relies on to keep the thread it returns.
* **`gc_request`** (`gc/heap.cc:3905`). `RequestConcurrentGC` returns true when its
  CAS of `max_gc_requested_` fails, since "somebody else did" request the collection
  (3906-3908). If the other thread had observed an older gc number, its request is for a collection that
  has already completed, and nobody requests the one asked for.
* **`empty_checkpoint`** (`base/mutex.cc:464`). The periodic wake-up of
  `RunEmptyCheckpoint` (`thread_list.cc:456-461`) is there for a thread that went to sleep after looking for a
  request. In `Mutex::ExclusiveLock` the woken thread goes back to the
  futex without looking again. `jni_libraries_lock_` is such a mutex; with the loops of
  `ReaderWriterMutex` the run `gc` shows that the wake-up works.

Smaller observations, without a run:

* `ThreadPool::RemoveAllTasks` clears the queue without `Finalize`, although the comment at
  `thread_pool.cc:159-160` makes the pool responsible for calling it on all tasks.
* Of two concurrent `ThreadPool::Wait` calls with `do_work` one may return while the other
  runs a task it took from the queue.
* `class_linker.cc:5462-5467` tells a verification error from a failed initialisation by another
  thread by a pending exception and asserts that it is a verify error. `VerifyClass` also
  throws the stored error (4751-4753) when another thread verified the class and failed to
  initialise it while this one waited.
* `MarkClassInitialized` sets `kInitialized` (413) before it adds the class to a callback (419);
  a `MakeInitializedClassesVisiblyInitialized(wait)` in between returns without that class.

## 7. Not modelled

* Threads: user-code suspension, `RequestSynchronousCheckpoint` on the caller itself, on a
  terminated thread and with `suspend_state = kRunnable`, `VisitRootsForSuspendedThreads`,
  the shutdown of the thread list, `WaitForFlipFunction` (reached only by a checkpoint function run on behalf of
  another thread, which no caller does), dumping and thread ids. `SuspendThreadByPeer`'s
  time-out is `LOG(FATAL)` and ends the process. The failed start of a thread is one step in
  `ThreadList`; its two halves are in `Park`.
* Locks: the pthread build, lock levels and contention logging. The wrap-around of a condition
  variable's `sequence_` between a waiter's load and its futex call. Memory order is sequential consistency
  everywhere, except for the visibility of initialised classes, where the checkpoints that
  stand in for fences are modelled.
* Monitors: the monitor list and its sweeping. Thread pools: priorities and statistics.
* Heap: sizes, footprints and allocation, collectors other than CC and CMS, `ScopedGCCriticalSection`, `ChangeCollector`, the
  collection before a zygote fork, the times of tasks. References: collectors without read barriers.
* Classes: loading, linking and resolution, default interfaces, compile-time statuses and
  transactions, disabled verification, `ForceClassInitialized`. The static initialisers
  in the instance do not depend on each other in a cycle: two threads that initialise such classes may deadlock, as the
  Java language allows.
* The collectors' marking and copying, spaces and allocators, JNI reference tables, the JIT code cache,
  instrumentation and JVMTI have no module. The first two are algorithms on memory layout; the others build
  on suspension and locks as specified here and could be added next to them.
* Interpreter, verifier, compiler, file formats and tools are sequential transformations of
  large data, out of reach of a model checker; tests and fuzzing are the right tools there.
