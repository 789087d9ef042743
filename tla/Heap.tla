--------------------------------- MODULE Heap ---------------------------------
(***************************************************************************)
(* When collections run: gc/heap.cc and gc/task_processor.cc.  Threads ask *)
(* for collections, wait for them and run them; the heap task daemon runs  *)
(* the queued tasks; code that holds raw pointers disables moving          *)
(* collections or the thread flip; the runtime shuts down.  What is done   *)
(* under gc_complete_lock_, thread_flip_lock_, pending_task_lock_ or the   *)
(* task processor's lock_ is one step; a wait on one of their conditions   *)
(* is sleeping until a Broadcast and looking again.  Task times are not    *)
(* modelled: any queued task may be the due one.                           *)
(***************************************************************************)
EXTENDS Integers, FiniteSetsExt

CONSTANTS
  Threads,
  daemon,         \* the heap task daemon
  main,           \* the thread that destroys the runtime
  GcNumModulus,   \* 2^32 in the code: gc numbers wrap around
  FirstGcNum,     \* gcs_completed_ at the start
  CollectorTypes, \* which of "CC" and "CMS" may be the heap's collector
  HasZygoteSpace, \* whether the process was forked from a zygote
  MaxCalls        \* bound: calls that may lead to a collection, nested entries, shutdown

VARIABLES
  collector_type_,
  next_gc_type_,
  collector_type_running_,
  gcs_completed_,
  max_gc_requested_,
  gc_disabled_for_shutdown_,
  shutting_down_,
  disable_moving_gc_count_,
  thread_flip_running_,
  disable_thread_flip_count_,
  tasks_,
  pending,        \* pending_heap_trim_ and pending_collector_transition_ that are not null
  task,           \* the task the daemon runs
  pc,
  num,            \* each thread's observed or requested gc number, 0 when not in use
  gc_type,        \* the type of each thread's collection
  max_gc_requested, \* the local of that name in RequestConcurrentGC
  alloc,          \* how far each thread is in AllocateInternalWithGc
  nesting,        \* GetDisableThreadFlipCount of each thread
  gc_waiters,     \* asleep on gc_complete_cond_
  flip_waiters,   \* asleep on thread_flip_cond_
  calls

vars == <<collector_type_, next_gc_type_, collector_type_running_, gcs_completed_, max_gc_requested_,
          gc_disabled_for_shutdown_, shutting_down_, disable_moving_gc_count_,
          thread_flip_running_, disable_thread_flip_count_, tasks_, pending, task, pc,
          num, gc_type, max_gc_requested, alloc, nesting, gc_waiters, flip_waiters, calls>>

heap == <<collector_type_, next_gc_type_>>
call == <<num, gc_type>>
collection == <<collector_type_running_, gcs_completed_, gc_waiters>>
requests == <<max_gc_requested_, max_gc_requested, alloc>>
shutdown == <<gc_disabled_for_shutdown_, shutting_down_>>
flip == <<thread_flip_running_, disable_thread_flip_count_, nesting, flip_waiters>>
queue == <<tasks_, pending, task>>

Procs == Threads \union {daemon, main}
GC_NUM_ANY == GcNumModulus - 1
Next1(n) == (n + 1) % GcNumModulus
NoTask == <<"none", 0>>

\* GCNumberLt: unsigned comparison that allows for wrapping.
GCNumberLt(gc_num1, gc_num2) ==
  LET difference == (gc_num2 - gc_num1) % GcNumModulus
  IN  difference > 0 /\ ~(difference > GcNumModulus \div 2)

kGcTypeNone == 0
kGcTypeSticky == 1
kGcTypePartial == 2
kGcTypeFull == 3

NonStickyGcType == IF HasZygoteSpace THEN kGcTypePartial ELSE kGcTypeFull

\* The types the heap's collector has, in the order of the enum; CC is generational.
gc_plan_ ==
  {kGcTypeSticky, kGcTypeFull} \union IF collector_type_ = "CMS" THEN {kGcTypePartial} ELSE {}

IsMovingGc(type) == type \in {"CC", "HomogeneousSpaceCompact"}

\* No collection has run yet; some may have been counted, so that gcs_completed_
\* is wherever FirstGcNum puts it.
Init ==
  /\ collector_type_ \in CollectorTypes
  /\ next_gc_type_ = kGcTypePartial
  /\ collector_type_running_ = "None"
  /\ gcs_completed_ = FirstGcNum
  /\ max_gc_requested_ = FirstGcNum
  /\ gc_disabled_for_shutdown_ = FALSE
  /\ shutting_down_ = FALSE
  /\ disable_moving_gc_count_ = 0
  /\ thread_flip_running_ = FALSE
  /\ disable_thread_flip_count_ = 0
  /\ tasks_ = {}
  /\ pending = {}
  /\ task = NoTask
  /\ pc = [p \in Procs |-> IF p = daemon THEN "get_task" ELSE "idle"]
  /\ num = [p \in Procs |-> 0]
  /\ gc_type = [p \in Procs |-> kGcTypeNone]
  /\ max_gc_requested = [t \in Threads |-> 0]
  /\ alloc = [t \in Threads |-> "none"]
  /\ nesting = [t \in Threads |-> 0]
  /\ gc_waiters = {}
  /\ flip_waiters = {}
  /\ calls = 0

At(p, label) == pc[p] = label /\ p \notin gc_waiters \union flip_waiters
Goto(p, label) == pc' = [pc EXCEPT ![p] = label]

\* Where a process goes on after CollectGarbageInternal or a compaction.
Caller(p) ==
  IF p = daemon THEN "task_done" ELSE IF alloc[p] # "none" THEN "retry" ELSE "idle"
Return(p) == Goto(p, Caller(p))

Forget(p) == num' = [num EXCEPT ![p] = 0] /\ gc_type' = [gc_type EXCEPT ![p] = kGcTypeNone]

\* CollectGarbageInternal returns kGcTypeNone: ConcurrentGC goes on with gc_plan_.
ReturnNone(p, type) ==
  LET retries == p = daemon /\ task[1] = "gc"
  IN  /\ Goto(p, IF retries THEN "gc_plan" ELSE Caller(p))
      /\ num' = [num EXCEPT ![p] = 0]
      /\ gc_type' = [gc_type EXCEPT ![p] = IF retries THEN type ELSE kGcTypeNone]

\* CollectGarbageInternal is called for a gc number.  A partial collection that
\* has no zygote space to leave out returns at once and is not counted.
StartCollect(p, type, requested_gc_num) ==
  IF type = kGcTypePartial /\ ~HasZygoteSpace
    THEN ReturnNone(p, type)
    ELSE /\ num' = [num EXCEPT ![p] = requested_gc_num]
         /\ gc_type' = [gc_type EXCEPT ![p] = type]
         /\ Goto(p, "collect")

Call(p) == At(p, "idle") /\ calls < MaxCalls /\ calls' = calls + 1

-----------------------------------------------------------------------------
(* The task queue. *)

\* TaskProcessor::AddTask; a daemon that sleeps is signalled.
AddTask(new, label, p) ==
  /\ tasks_' = tasks_ \union {new}
  /\ pc' = [pc EXCEPT ![p] = label,
                      ![daemon] = IF @ = "task_wait" THEN "get_task" ELSE @]

\* TaskProcessor::GetTask.
GetTask ==
  /\ At(daemon, "get_task")
  /\ \/ /\ tasks_ = {}
        /\ Goto(daemon, "task_wait")
        /\ UNCHANGED queue
     \/ \E next \in tasks_ :
          /\ task' = next
          /\ tasks_' = tasks_ \ {next}
          /\ Goto(daemon, "run_task")
          /\ UNCHANGED pending
  /\ UNCHANGED <<heap, collection, requests, shutdown, disable_moving_gc_count_, flip, call, calls>>

\* ConcurrentGCTask::Run enters ConcurrentGC, HeapTrimTask::Run enters Trim,
\* which deflates monitors first unless pause times matter, and
\* CollectorTransitionTask::Run enters DoPendingCollectorTransition, which may
\* find that nothing is to be done.
RunTask ==
  /\ At(daemon, "run_task")
  /\ \/ /\ task[1] = "gc"
        /\ Goto(daemon, IF shutting_down_ THEN "task_done" ELSE "concurrent_gc")
        /\ UNCHANGED call
     \/ /\ task[1] = "trim"
        /\ \E label \in {"trim_deflate", "trim_spaces"} : Goto(daemon, label)
        /\ UNCHANGED call
     \/ /\ task[1] = "transition"
        /\ \/ Goto(daemon, "task_done") /\ UNCHANGED call
           \/ collector_type_ = "CC" /\ StartCollect(daemon, kGcTypeFull, Next1(gcs_completed_))
           \/ collector_type_ = "CMS" /\ Goto(daemon, "compact") /\ UNCHANGED call
  /\ UNCHANGED <<heap, collection, requests, shutdown, disable_moving_gc_count_, flip, queue, calls>>

\* The end of the task: ClearPendingTrim, ClearPendingCollectorTransition.
TaskDone ==
  /\ At(daemon, "task_done")
  /\ pending' = pending \ {task[1]}
  /\ task' = NoTask
  /\ Goto(daemon, "get_task")
  /\ UNCHANGED <<heap, collection, requests, shutdown, disable_moving_gc_count_, flip, tasks_, call, calls>>

-----------------------------------------------------------------------------
(* Requests. *)

\* GetCurrentGcNum, read before the caller decides that a GC is needed.
ObserveGcNum(t) ==
  /\ Call(t)
  /\ num' = [num EXCEPT ![t] = gcs_completed_]
  /\ Goto(t, "request")
  /\ UNCHANGED <<heap, gc_type, collection, requests, shutdown, disable_moving_gc_count_, flip, queue>>

\* RequestConcurrentGC: max_gc_requested_ is loaded and CanAddHeapTask asked.
RequestConcurrentGC(t) ==
  /\ At(t, "request")
  /\ max_gc_requested' = [max_gc_requested EXCEPT ![t] = max_gc_requested_]
  /\ Goto(t, "cas")
  /\ ~GCNumberLt(num[t], max_gc_requested_)
  /\ ~shutting_down_
  /\ UNCHANGED <<heap, collection, max_gc_requested_, alloc, shutdown, disable_moving_gc_count_, flip, queue, call, calls>>

\* The next collection is requested already, or the runtime shuts down.
ReturnFromRequest(t) ==
  /\ At(t, "request")
  /\ GCNumberLt(num[t], max_gc_requested_) \/ shutting_down_
  /\ num' = [num EXCEPT ![t] = 0]
  /\ Goto(t, "idle")
  /\ UNCHANGED <<heap, gc_type, collection, requests, shutdown, disable_moving_gc_count_, flip, queue, calls>>

\* The compare-and-set of max_gc_requested_.
CompareAndSetRequested(t) ==
  /\ At(t, "cas")
  /\ max_gc_requested' = [max_gc_requested EXCEPT ![t] = 0]
  /\ IF max_gc_requested_ = max_gc_requested[t]
       THEN max_gc_requested_' = Next1(num[t]) /\ Goto(t, "add_gc_task")
       ELSE UNCHANGED max_gc_requested_ /\ Goto(t, "requested")
  /\ UNCHANGED <<heap, collection, alloc, shutdown, disable_moving_gc_count_, flip, queue, call, calls>>

AddConcurrentGCTask(t) ==
  /\ At(t, "add_gc_task")
  /\ AddTask(<<"gc", Next1(num[t])>>, "requested", t)
  /\ UNCHANGED <<heap, collection, requests, shutdown, disable_moving_gc_count_, flip, pending, task, call, calls>>

\* RequestConcurrentGC returns true.
Requested(t) ==
  /\ At(t, "requested")
  /\ num' = [num EXCEPT ![t] = 0]
  /\ Goto(t, "idle")
  /\ UNCHANGED <<heap, gc_type, collection, requests, shutdown, disable_moving_gc_count_, flip, queue, calls>>

\* RequestTrim and RequestCollectorTransition under pending_task_lock_: one
\* pending task of a kind, which is added after the lock is released.
AddPending(p, kind, label) ==
  /\ IF shutting_down_ \/ kind \in pending
       THEN Goto(p, label) /\ UNCHANGED pending
       ELSE Goto(p, kind) /\ pending' = pending \union {kind}
  /\ UNCHANGED <<heap, collection, requests, shutdown, disable_moving_gc_count_, flip, tasks_, task, call>>

AddPendingTask(p) ==
  /\ \/ At(p, "transition") /\ AddTask(<<"transition", 0>>, "idle", p)
     \/ At(p, "trim") /\ AddTask(<<"trim", 0>>, "grow", p)
  /\ UNCHANGED <<heap, collection, requests, shutdown, disable_moving_gc_count_, flip, pending, task, call, calls>>

RequestCollectorTransition(t) ==
  /\ Call(t)
  /\ AddPending(t, "transition", "idle")

\* CollectGarbage prunes nothing.
CollectGarbage(t) ==
  /\ Call(t)
  /\ StartCollect(t, kGcTypeFull, GC_NUM_ANY)
  /\ UNCHANGED <<heap, collection, requests, shutdown, disable_moving_gc_count_, flip, queue>>

\* AllocateInternalWithGc begins with WaitForGcToComplete.
AllocateInternalWithGc(t) ==
  /\ Call(t)
  /\ alloc' = [alloc EXCEPT ![t] = "wait"]
  /\ Goto(t, "alloc")
  /\ UNCHANGED <<heap, collection, max_gc_requested_, max_gc_requested, shutdown, disable_moving_gc_count_, flip, queue, call>>

\* CollectGarbageInternal while a stack overflow is handled: counted, not run.
CollectGarbageInternalInStackOverflow(t) ==
  /\ Call(t)
  /\ gcs_completed_' = Next1(gcs_completed_)
  /\ UNCHANGED <<heap, collector_type_running_, gc_waiters, requests, shutdown, disable_moving_gc_count_, flip, queue, pc, call>>

-----------------------------------------------------------------------------
(* Waiting for and running collections. *)

GcWaitLabels == {"concurrent_gc", "collect", "alloc", "compact", "trim_deflate",
                 "trim_spaces", "disable_moving", "shutdown"}

\* WaitForGcToCompleteLocked while a collection runs.
WaitForGcToCompleteLocked(p) ==
  /\ \E label \in GcWaitLabels : At(p, label)
  /\ collector_type_running_ # "None"
  /\ gc_waiters' = gc_waiters \union {p}
  /\ UNCHANGED <<heap, collector_type_running_, gcs_completed_, requests, shutdown, disable_moving_gc_count_, flip, queue, pc, call, calls>>

\* It returns, with the lock still held.
GcComplete(p, label) == At(p, label) /\ collector_type_running_ = "None"

\* ConcurrentGC: if the wait brought gcs_completed_ far enough the task is done,
\* else a collection of the next type is tried; a request that forces a full
\* collection overrides a sticky one.
ConcurrentGC ==
  /\ GcComplete(daemon, "concurrent_gc")
  /\ IF GCNumberLt(gcs_completed_, task[2])
       THEN \/ StartCollect(daemon, next_gc_type_, task[2])
            \/ /\ next_gc_type_ = kGcTypeSticky
               /\ StartCollect(daemon, NonStickyGcType, task[2])
       ELSE Goto(daemon, "task_done") /\ UNCHANGED call
  /\ UNCHANGED <<heap, collection, requests, shutdown, disable_moving_gc_count_, flip, queue, calls>>

\* Mutant: the task is over although its collection could not run.
GiveUp ==
  /\ At(daemon, "gc_plan")
  /\ Goto(daemon, "task_done")
  /\ Forget(daemon)
  /\ UNCHANGED <<heap, collection, requests, shutdown, disable_moving_gc_count_, flip, queue, calls>>

\* No collection ran: unless somebody did it in the meantime, the daemon tries
\* the next type of gc_plan_.
RetryGcPlan ==
  LET types == {type \in gc_plan_ : type > gc_type[daemon]}
  IN  /\ At(daemon, "gc_plan")
      /\ IF GCNumberLt(gcs_completed_, task[2]) /\ types # {}
           THEN StartCollect(daemon, Min(types), task[2])
           ELSE Goto(daemon, "task_done") /\ Forget(daemon)
      /\ UNCHANGED <<heap, collection, requests, shutdown, disable_moving_gc_count_, flip, queue, calls>>

\* The wait is over; starting_gc_num is read.
AllocateAfterWait(t) ==
  /\ GcComplete(t, "alloc")
  /\ num' = [num EXCEPT ![t] = gcs_completed_]
  /\ Goto(t, "retry")
  /\ UNCHANGED <<heap, gc_type, collection, requests, shutdown, disable_moving_gc_count_, flip, queue, calls>>

\* AllocateInternalWithGc goes on: the allocation succeeds or is given up, or it
\* needs a collection, one that clears soft references and is not pruned, and
\* at last, if the heap is not a moving one, a compaction.
AllocateRetry(t) ==
  /\ At(t, "retry")
  /\ \/ Goto(t, "idle") /\ alloc' = [alloc EXCEPT ![t] = "none"] /\ Forget(t)
     \/ /\ alloc[t] = "wait"
        /\ StartCollect(t, next_gc_type_, Next1(num[t]))
        /\ alloc' = [alloc EXCEPT ![t] = "gc"]
     \/ /\ alloc[t] \in {"wait", "gc"}
        /\ StartCollect(t, kGcTypeFull, GC_NUM_ANY)
        /\ alloc' = [alloc EXCEPT ![t] = "gc_all"]
     \/ /\ alloc[t] = "gc_all" /\ collector_type_ = "CMS"
        /\ Goto(t, "compact")
        /\ alloc' = [alloc EXCEPT ![t] = "compact"]
        /\ UNCHANGED call
  /\ UNCHANGED <<heap, collection, max_gc_requested_, max_gc_requested, shutdown, disable_moving_gc_count_, flip, queue, calls>>

\* Mutant: the count of those who disabled moving collections is not looked at.
CollectDespiteDisabled(p) ==
  /\ GcComplete(p, "collect")
  /\ IF num[p] # GC_NUM_ANY /\ ~GCNumberLt(gcs_completed_, num[p])
       THEN ReturnNone(p, gc_type[p]) /\ UNCHANGED <<collector_type_running_, gcs_completed_>>
     ELSE IF gc_disabled_for_shutdown_
       THEN ReturnNone(p, gc_type[p]) /\ gcs_completed_' = Next1(gcs_completed_) /\ UNCHANGED collector_type_running_
     ELSE /\ collector_type_running_' = collector_type_
          /\ num' = [num EXCEPT ![p] = 0]
          /\ Goto(p, "run")
          /\ UNCHANGED <<gcs_completed_, gc_type>>
  /\ UNCHANGED <<heap, gc_waiters, requests, shutdown, disable_moving_gc_count_, flip, queue, calls>>

\* What keeps CollectGarbageInternal from running the collector.
GcDisabled ==
  \/ IsMovingGc(collector_type_) /\ disable_moving_gc_count_ # 0
  \/ gc_disabled_for_shutdown_

\* CollectGarbageInternal under gc_complete_lock_: a request that is already
\* met is pruned, a collection that must not run is counted, else it starts.
CollectGarbageInternal(p) ==
  /\ GcComplete(p, "collect")
  /\ IF num[p] # GC_NUM_ANY /\ ~GCNumberLt(gcs_completed_, num[p])
       THEN ReturnNone(p, gc_type[p]) /\ UNCHANGED <<collector_type_running_, gcs_completed_>>
     ELSE IF GcDisabled
       THEN ReturnNone(p, gc_type[p]) /\ gcs_completed_' = Next1(gcs_completed_) /\ UNCHANGED collector_type_running_
     ELSE /\ collector_type_running_' = collector_type_
          /\ num' = [num EXCEPT ![p] = 0]
          /\ Goto(p, "run")
          /\ UNCHANGED <<gcs_completed_, gc_type>>
  /\ UNCHANGED <<heap, gc_waiters, requests, shutdown, disable_moving_gc_count_, flip, queue, calls>>

\* Mutant: new critical sections are let in while the flip waits for the old.
FlipWaitsFirst(p) ==
  /\ At(p, "run")
  /\ collector_type_ = "CC"
  /\ thread_flip_running_' = (disable_thread_flip_count_ = 0)
  /\ Goto(p, IF disable_thread_flip_count_ > 0 THEN "run" ELSE "flip")
  /\ flip_waiters' = IF disable_thread_flip_count_ > 0 THEN flip_waiters \union {p} ELSE flip_waiters
  /\ UNCHANGED <<heap, collection, requests, shutdown, disable_moving_gc_count_, disable_thread_flip_count_, nesting, queue, call, calls>>

\* collector->Run of the copying collector, ThreadFlipBegin: the flag is set
\* before the wait for the critical sections.
ThreadFlipBegin(p) ==
  /\ At(p, "run")
  /\ collector_type_ = "CC"
  /\ thread_flip_running_' = TRUE
  /\ Goto(p, "flip_wait")
  /\ UNCHANGED <<heap, collection, requests, shutdown, disable_moving_gc_count_, disable_thread_flip_count_, nesting, flip_waiters, queue, call, calls>>

\* The wait loop of ThreadFlipBegin.
ThreadFlipWait(p) ==
  /\ At(p, "flip_wait")
  /\ IF disable_thread_flip_count_ > 0
       THEN flip_waiters' = flip_waiters \union {p} /\ UNCHANGED pc
       ELSE Goto(p, "flip") /\ UNCHANGED flip_waiters
  /\ UNCHANGED <<heap, collection, requests, shutdown, disable_moving_gc_count_, thread_flip_running_, disable_thread_flip_count_, nesting, queue, call, calls>>

\* The flip is over: ThreadFlipEnd.
ThreadFlipEnd(p) ==
  /\ At(p, "flip")
  /\ thread_flip_running_' = FALSE
  /\ flip_waiters' = {}
  /\ Goto(p, "request_trim")
  /\ UNCHANGED <<heap, collection, requests, shutdown, disable_moving_gc_count_, disable_thread_flip_count_, nesting, queue, call, calls>>

\* collector->Run of a collector that moves nothing.
RunNonMoving(p) ==
  /\ At(p, "run")
  /\ collector_type_ = "CMS"
  /\ Goto(p, "request_trim")
  /\ UNCHANGED <<heap, collection, requests, shutdown, disable_moving_gc_count_, flip, queue, call, calls>>

RequestTrim(p) ==
  /\ At(p, "request_trim")
  /\ AddPending(p, "trim", "grow")
  /\ UNCHANGED calls

\* GrowForUtilization: after a sticky collection the next one may be another,
\* as the throughputs compare; after any other it is sticky.
GrowForUtilization(type) ==
  next_gc_type_' \in {kGcTypeSticky} \union IF type = kGcTypeSticky THEN {NonStickyGcType} ELSE {}

Grow(p) ==
  /\ At(p, "grow")
  /\ GrowForUtilization(gc_type[p])
  /\ Forget(p)
  /\ Goto(p, "finish")
  /\ UNCHANGED <<collector_type_, collection, requests, shutdown, disable_moving_gc_count_, flip, queue, calls>>

\* FinishGC: the waiters are woken; only a real collection is counted.
FinishGC(p, counted, label) ==
  /\ collector_type_running_' = "None"
  /\ gcs_completed_' = IF counted THEN Next1(gcs_completed_) ELSE gcs_completed_
  /\ gc_waiters' = {}
  /\ Goto(p, label)
  /\ UNCHANGED <<heap, requests, shutdown, disable_moving_gc_count_, flip, queue, call, calls>>

FinishCollection(p) ==
  /\ At(p, "finish")
  /\ FinishGC(p, TRUE, Caller(p))

\* PerformHomogeneousSpaceCompact under gc_complete_lock_.
PerformHomogeneousSpaceCompact(p) ==
  /\ GcComplete(p, "compact")
  /\ IF disable_moving_gc_count_ # 0
       THEN Return(p) /\ UNCHANGED collector_type_running_
       ELSE collector_type_running_' = "HomogeneousSpaceCompact" /\ Goto(p, "compacting")
  /\ UNCHANGED <<heap, gcs_completed_, gc_waiters, requests, shutdown, disable_moving_gc_count_, flip, queue, call, calls>>

\* A runtime that shuts down does not compact.
Compact(p) ==
  /\ At(p, "compacting")
  /\ \/ shutting_down_ /\ FinishGC(p, FALSE, Caller(p))
     \/ /\ ~shutting_down_
        /\ GrowForUtilization(kGcTypePartial)
        /\ Goto(p, "compacted")
        /\ UNCHANGED <<collector_type_, collection, requests, shutdown, disable_moving_gc_count_, flip, queue, call, calls>>

FinishCompact(p) ==
  /\ At(p, "compacted")
  /\ FinishGC(p, TRUE, Caller(p))

\* StartGC of Trim and TrimSpaces: a trim pretends to be a collection.
StartGC(from, to) ==
  /\ GcComplete(daemon, from)
  /\ collector_type_running_' = "HeapTrim"
  /\ Goto(daemon, to)
  /\ UNCHANGED <<heap, gcs_completed_, gc_waiters, requests, shutdown, disable_moving_gc_count_, flip, queue, call, calls>>

Trim ==
  \/ StartGC("trim_deflate", "deflating")
  \/ At(daemon, "deflating") /\ FinishGC(daemon, FALSE, "trim_spaces")
  \/ StartGC("trim_spaces", "trimming")
  \/ At(daemon, "trimming") /\ FinishGC(daemon, FALSE, "task_done")

-----------------------------------------------------------------------------
(* Code that holds raw pointers. *)

\* IncrementDisableMovingGC.
IncrementDisableMovingGC(t) ==
  /\ At(t, "idle")
  /\ disable_moving_gc_count_' = disable_moving_gc_count_ + 1
  /\ IF IsMovingGc(collector_type_running_)
       THEN Goto(t, "disable_moving") /\ gc_waiters' = gc_waiters \union {t}
       ELSE Goto(t, "no_moving") /\ UNCHANGED gc_waiters
  /\ UNCHANGED <<heap, collector_type_running_, gcs_completed_, requests, shutdown, flip, queue, call, calls>>

MovingGCDisabled(t) ==
  /\ GcComplete(t, "disable_moving")
  /\ Goto(t, "no_moving")
  /\ UNCHANGED <<heap, collection, requests, shutdown, disable_moving_gc_count_, flip, queue, call, calls>>

DecrementDisableMovingGC(t) ==
  /\ At(t, "no_moving")
  /\ disable_moving_gc_count_' = disable_moving_gc_count_ - 1
  /\ Goto(t, "idle")
  /\ UNCHANGED <<heap, collection, requests, shutdown, flip, queue, call, calls>>

\* IncrementDisableThreadFlip, the outermost one of the thread, is entered.
EnterDisableThreadFlip(t) ==
  /\ At(t, "idle")
  /\ collector_type_ = "CC"
  /\ nesting' = [nesting EXCEPT ![t] = 1]
  /\ Goto(t, "disable_flip")
  /\ UNCHANGED <<heap, collection, requests, shutdown, disable_moving_gc_count_, thread_flip_running_, disable_thread_flip_count_, flip_waiters, queue, call, calls>>

\* Its wait loop.
IncrementDisableThreadFlip(t) ==
  /\ At(t, "disable_flip")
  /\ IF thread_flip_running_
       THEN /\ flip_waiters' = flip_waiters \union {t}
            /\ UNCHANGED <<disable_thread_flip_count_, pc>>
       ELSE /\ disable_thread_flip_count_' = disable_thread_flip_count_ + 1
            /\ Goto(t, "no_flip")
            /\ UNCHANGED flip_waiters
  /\ UNCHANGED <<heap, collection, requests, shutdown, disable_moving_gc_count_, thread_flip_running_, nesting, queue, call, calls>>

\* A nested one neither waits nor counts.
IncrementDisableThreadFlipNested(t) ==
  /\ At(t, "no_flip")
  /\ calls < MaxCalls /\ calls' = calls + 1
  /\ nesting' = [nesting EXCEPT ![t] = @ + 1]
  /\ UNCHANGED <<heap, collection, requests, shutdown, disable_moving_gc_count_, thread_flip_running_, disable_thread_flip_count_, flip_waiters, queue, pc, call>>

\* DecrementDisableThreadFlip.
DecrementDisableThreadFlip(t) ==
  /\ At(t, "no_flip")
  /\ nesting' = [nesting EXCEPT ![t] = @ - 1]
  /\ IF nesting[t] > 1
       THEN UNCHANGED <<disable_thread_flip_count_, flip_waiters, pc>>
       ELSE /\ disable_thread_flip_count_' = disable_thread_flip_count_ - 1
            /\ flip_waiters' = IF disable_thread_flip_count_ = 1 THEN {} ELSE flip_waiters
            /\ Goto(t, "idle")
  /\ UNCHANGED <<heap, collection, requests, shutdown, disable_moving_gc_count_, thread_flip_running_, queue, call, calls>>

-----------------------------------------------------------------------------
(* Runtime::~Runtime. *)

DisableGCForShutdown ==
  /\ Call(main)
  /\ gc_disabled_for_shutdown_' = TRUE
  /\ Goto(main, "shutdown")
  /\ UNCHANGED <<heap, collection, requests, shutting_down_, disable_moving_gc_count_, flip, queue, call>>

\* WaitForGcToComplete has returned.
GcCompleteForShutdown ==
  /\ GcComplete(main, "shutdown")
  /\ Goto(main, "gc_complete")
  /\ UNCHANGED <<heap, collection, requests, shutdown, disable_moving_gc_count_, flip, queue, call, calls>>

SetShuttingDown ==
  /\ At(main, "gc_complete")
  /\ shutting_down_' = TRUE
  /\ Goto(main, "done")
  /\ UNCHANGED <<heap, collection, requests, gc_disabled_for_shutdown_, disable_moving_gc_count_, flip, queue, call, calls>>

-----------------------------------------------------------------------------

\* The rest of an operation that has begun.
Continue(p) ==
  \/ WaitForGcToCompleteLocked(p)
  \/ CollectGarbageInternal(p)
  \/ ThreadFlipBegin(p)
  \/ ThreadFlipWait(p)
  \/ ThreadFlipEnd(p)
  \/ RunNonMoving(p)
  \/ RequestTrim(p)
  \/ AddPendingTask(p)
  \/ Grow(p)
  \/ FinishCollection(p)
  \/ PerformHomogeneousSpaceCompact(p)
  \/ Compact(p)
  \/ FinishCompact(p)

ThreadContinue(t) ==
  \/ Continue(t)
  \/ RequestConcurrentGC(t)
  \/ ReturnFromRequest(t)
  \/ CompareAndSetRequested(t)
  \/ AddConcurrentGCTask(t)
  \/ Requested(t)
  \/ AllocateAfterWait(t)
  \/ AllocateRetry(t)
  \/ MovingGCDisabled(t)
  \/ DecrementDisableMovingGC(t)
  \/ IncrementDisableThreadFlip(t)
  \/ DecrementDisableThreadFlip(t)

ThreadBegin(t) ==
  \/ ObserveGcNum(t)
  \/ RequestCollectorTransition(t)
  \/ CollectGarbage(t)
  \/ AllocateInternalWithGc(t)
  \/ CollectGarbageInternalInStackOverflow(t)
  \/ IncrementDisableMovingGC(t)
  \/ EnterDisableThreadFlip(t)
  \/ IncrementDisableThreadFlipNested(t)

Daemon ==
  \/ GetTask
  \/ RunTask
  \/ TaskDone
  \/ ConcurrentGC
  \/ RetryGcPlan
  \/ Trim
  \/ Continue(daemon)

Main ==
  \/ DisableGCForShutdown
  \/ WaitForGcToCompleteLocked(main)
  \/ GcCompleteForShutdown
  \/ SetShuttingDown

Next ==
  \/ \E t \in Threads : ThreadBegin(t) \/ ThreadContinue(t)
  \/ Daemon
  \/ Main

\* Every thread goes on with what it has begun, which includes that it leaves
\* its critical sections, and the daemon runs.
Fairness ==
  /\ \A t \in Threads : WF_vars(ThreadContinue(t))
  /\ WF_vars(Daemon)

Spec == Init /\ [][Next]_vars /\ Fairness

-----------------------------------------------------------------------------

\* Once IncrementDisableMovingGC has returned no moving collection runs, and in
\* a JNI critical section of the copying collector threads are not flipped,
\* until the matching decrement: raw pointers taken in between stay good.
CriticalSectionPinsObjects ==
  \A t \in Threads :
    /\ pc[t] = "no_moving" => ~IsMovingGc(collector_type_running_)
    /\ pc[t] = "no_flip" => \A p \in Procs : pc[p] # "flip"

\* A collection that was requested is completed, by the task that was queued
\* for it or by another collection, across a wrap of the gc numbers and although
\* the type that is due may be one that cannot run and is not counted; only
\* the shutdown of the runtime may leave it undone.
RequestedGcCompletes ==
  GCNumberLt(gcs_completed_, max_gc_requested_)
    ~> ~GCNumberLt(gcs_completed_, max_gc_requested_) \/ shutting_down_

\* Every call of a thread returns: waits for a collection, a collection it
\* runs, and entering and leaving critical sections, although other threads
\* enter critical sections again and again.
HeapCallReturns == \A t \in Threads : pc[t] # "idle" ~> pc[t] = "idle"

\* The DCHECK at the end of RequestConcurrentGC: a request that returns true
\* has left max_gc_requested_ beyond the gc number it observed.
RequestIsBeyondObserved ==
  \A t \in Threads : pc[t] = "requested" => GCNumberLt(num[t], max_gc_requested_)
=============================================================================
