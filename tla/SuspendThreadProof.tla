-------------------------- MODULE SuspendThreadProof --------------------------
(***************************************************************************)
(* Suspending and resuming one thread preserves the invariants of          *)
(* ThreadList, and so do attaching and detaching, but for what the two steps*)
(* that change list_ do to the counts.                                     *)
(***************************************************************************)
EXTENDS SuspendThread, Registration, ThreadListInvariant, TLAPS

\* a is in native code, or not attached, and has nothing under way.
Idle(a) ==
  /\ state[a] = "kSuspended" /\ ret[a] = "native"
  /\ thread_list_lock_ # a /\ thread_suspend_count_lock_ # a /\ mutator_lock_ # a
  /\ \/ pc[a] = "native" /\ a \in list_
     \/ pc[a] = "detached" /\ a \notin list_
  /\ todo[a] = {} /\ modified[a] = {}

\* Such a thread satisfies the control invariant.
LEMMA IdleControl ==
  ASSUME NEW a \in Thread, Idle(a)
  PROVE  Control(a)
  <1> USE DEF Control, RetControl, LockControl, StateControl, TodoControl, ModifiedControl,
          CheckpointControl, Where, LeavePc, EnterPc, FlipOtherPc, LeaveRet, EnterRet,
          FlipOtherRet, SuspendCountLockPc, ListLockPc, MutatorLockPc, NotRunnablePc, TodoPc,
          NoneModified, TargetModified
  <1>1. CASE pc[a] = "native" /\ a \in list_
    BY <1>1, SMTT(30) DEF Idle
  <1>2. CASE pc[a] = "detached" /\ a \notin list_
    BY <1>2, SMTT(30) DEF Idle
  <1> QED
    BY <1>1, <1>2, Zenon DEF Idle

\* Register and UnregisterRemove leave the control of the other threads alone.
LEMMA ListStepControl ==
  ASSUME NEW t \in Thread, ControlInv, Register(t) \/ UnregisterRemove(t)
  PROVE  ControlType' /\ OtherThreads(t) /\ Control(t)'
  <1>0. /\ ControlType /\ RetControl(t) /\ LockControl(t) /\ StateControl(t)
        /\ TodoControl(t) /\ ModifiedControl(t) /\ CheckpointControl(t)
    BY DEF ControlInv, Control
  <1> USE DEF ControlType, ThreadState, PcLabel, RetControl, LockControl, StateControl,
          TodoControl, ModifiedControl, CheckpointControl, Where, LeavePc, EnterPc, FlipOtherPc,
          LeaveRet, EnterRet, FlipOtherRet, SuspendCountLockPc, ListLockPc, MutatorLockPc,
          NotRunnablePc, TodoPc, NoneModified, TargetModified
  <1>1. CASE Register(t)
    <2>1. /\ pc[t] = "created" /\ pc' = [pc EXCEPT ![t] = "native"]
          /\ list_' = list_ \union {t}
          /\ UNCHANGED <<state, thread_list_lock_, thread_suspend_count_lock_, mutator_lock_,
             ret, todo, modified, target>>
      BY <1>1, Zenon DEF Register, Goto, lockVars, localVars
    <2> QED
      BY <1>0, <2>1, SMTT(30) DEF OtherThreads, Control
  <1>2. CASE UnregisterRemove(t)
    <2>1. /\ pc[t] = "un_remove" /\ pc' = [pc EXCEPT ![t] = "detached"]
          /\ list_' = list_ \ {t}
          /\ UNCHANGED <<state, thread_list_lock_, thread_suspend_count_lock_, mutator_lock_,
             ret, todo, modified, target>>
      BY <1>2, Zenon DEF UnregisterRemove, Goto, wordVars, lockVars, localVars
    <2> QED
      BY <1>0, <2>1, SMTT(30) DEF OtherThreads, Control
  <1> QED
    BY <1>1, <1>2

\* Every step of the operations that suspend and resume one thread is sound.
LEMMA SuspendThreadInv ==
  ASSUME NEW a \in Thread, ControlInv, CountInv, SuspendThreadStep(a)
  PROVE  SoundStep(a)
  <1>0. /\ ControlType /\ RetControl(a) /\ LockControl(a) /\ StateControl(a)
        /\ TodoControl(a) /\ ModifiedControl(a) /\ CheckpointControl(a)
        /\ CountType /\ Refers(a)
    BY DEF ControlInv, Control, CountInv
  <1> USE ThreadAssumption DEF ControlType, CountType, ThreadState, PcLabel, ThreadFlag,
          RetControl, LockControl, StateControl, TodoControl, ModifiedControl,
          CheckpointControl, Where, LeavePc, EnterPc, FlipOtherPc, LeaveRet, EnterRet,
          FlipOtherRet, SuspendCountLockPc, ListLockPc, MutatorLockPc, NotRunnablePc, TodoPc,
          NoneModified, TargetModified, LocalStep, Refers, SameRequest, StoppingAll, Holds,
          FlipFunctionFlags, kSuspendRequest, kCheckpointRequest, kActiveSuspendBarrier,
          kPendingFlipFunction, kRunningFlipFunction
  <1>1. ASSUME NEW t \in Thread, SuspendThreadBegin(a, t)
        PROVE  SoundStep(a)
    <2>1. /\ pc[a] = "native" /\ target' = [target EXCEPT ![a] = t]
          /\ pc' = [pc EXCEPT ![a] = "to_run"] /\ ret' = [ret EXCEPT ![a] = "st_check"]
          /\ UNCHANGED <<state, thread_list_lock_, thread_suspend_count_lock_, mutator_lock_,
             list_, todo, modified, suspend_count, flags, suspend_all_count_>>
      BY <1>1, Zenon DEF SuspendThreadBegin, Goto, wordVars, countVars, barrierVars,
          checkpointVars, condVars, lockVars, listVars
    <2>2. /\ ControlType' /\ OtherThreads(a) /\ Control(a)'
          /\ QuietStep(a) /\ SameStopping(a)
      BY <1>0, <2>1, SMTT(30) DEF OtherThreads, Control, QuietStep, SameStopping
    <2> QED
      BY <2>2, Zenon DEF SoundStep
  <1>2. CASE SuspendThreadNotFound(a)
    <2>1. /\ pc[a] = "st_check" /\ modified[a] = {} /\ pc' = [pc EXCEPT ![a] = "leave"]
          /\ ret' = [ret EXCEPT ![a] = "native"]
          /\ UNCHANGED <<state, thread_list_lock_, thread_suspend_count_lock_, mutator_lock_,
             list_, todo, modified, target, suspend_count, flags, suspend_all_count_>>
      BY <1>2, Zenon DEF SuspendThreadNotFound, LeaveTo, ThreadFound, Goto, wordVars,
          countVars, barrierVars, checkpointVars, condVars, lockVars, listVars, localVars
    <2>2. /\ ControlType' /\ OtherThreads(a) /\ Control(a)'
          /\ QuietStep(a) /\ SameStopping(a)
      BY <1>0, <2>1, SMTT(30) DEF OtherThreads, Control, QuietStep, SameStopping
    <2> QED
      BY <2>2, Zenon DEF SoundStep
  <1>3. CASE SuspendThreadPeerReset(a)
    <2>1. /\ pc[a] = "st_check" /\ modified' = [modified EXCEPT ![a] = {}]
          /\ pc' = [pc EXCEPT ![a] = "leave"] /\ ret' = [ret EXCEPT ![a] = "native"]
          /\ modified[a] # {} /\ suspend_count' = [suspend_count EXCEPT ![target[a]] = @ - 1]
          /\ flags' = [flags EXCEPT ![target[a]] = IF suspend_count[target[a]] = 1 THEN
             flags[target[a]] \ {kSuspendRequest} ELSE flags[target[a]]]
          /\ UNCHANGED <<state, thread_list_lock_, thread_suspend_count_lock_, mutator_lock_,
             list_, todo, target, suspend_all_count_>>
      BY <1>3, Zenon DEF SuspendThreadPeerReset, BothLocksFree, SuspendCountLockFree,
          LeaveTo, Goto, barrierVars, checkpointVars, condVars, lockVars, listVars,
          LowerSuspendCount, SetFlags
    <2>t. PICK u \in Thread : u = target[a]
      BY <1>0, <2>1
    <2>2. /\ ControlType' /\ OtherThreads(a) /\ Control(a)'
          /\ LowerStep(a, u)
      BY <1>0, <2>1, <2>t, SMTT(30) DEF OtherThreads, Control, LowerStep, SameStopping
    <2> QED
      BY <2>2, <2>t, Zenon DEF SoundStep
  <1>4. CASE SuspendThreadSelfSuspended(a)
    <2>1. /\ pc[a] = "st_check" /\ pc' = [pc EXCEPT ![a] = "leave"]
          /\ ret' = [ret EXCEPT ![a] = "st_again"]
          /\ UNCHANGED <<state, thread_list_lock_, thread_suspend_count_lock_, mutator_lock_,
             list_, todo, modified, target, suspend_count, flags, suspend_all_count_>>
      BY <1>4, Zenon DEF SuspendThreadSelfSuspended, BothLocksFree, SuspendCountLockFree,
          LeaveTo, ThreadFound, Goto, wordVars, countVars, barrierVars, checkpointVars,
          condVars, lockVars, listVars, localVars
    <2>2. /\ ControlType' /\ OtherThreads(a) /\ Control(a)'
          /\ QuietStep(a) /\ SameStopping(a)
      BY <1>0, <2>1, SMTT(30) DEF OtherThreads, Control, QuietStep, SameStopping
    <2> QED
      BY <2>2, Zenon DEF SoundStep
  <1>5. CASE SuspendThreadRaise(a)
    <2>1. /\ pc[a] = "st_check" /\ target[a] \in Thread /\ thread_list_lock_ = NoThread
          /\ thread_list_lock_' = a /\ thread_suspend_count_lock_ = NoThread
          /\ thread_suspend_count_lock_' = a /\ modified' = [modified EXCEPT ![a] = {target[a]}]
          /\ pc' = [pc EXCEPT ![a] = "st_examine"] /\ target[a] \in list_ /\ modified[a] = {}
          /\ suspend_count' = [suspend_count EXCEPT ![target[a]] = @ + 1]
          /\ flags' = [flags EXCEPT ![target[a]] = flags[target[a]] \union {kSuspendRequest}]
          /\ UNCHANGED <<state, mutator_lock_, ret, list_, todo, target, suspend_all_count_>>
      BY <1>5, <1>0 DEF SuspendThreadRaise, LockBoth, BothLocksFree, SuspendCountLockFree,
          ThreadFound, Goto, barrierVars, checkpointVars, condVars, listVars, RaiseSuspendCount,
          SetFlags, ControlType, CountType
    <2>t. PICK u \in Thread : u = target[a]
      BY <1>0, <2>1
    <2>2. /\ ControlType' /\ OtherThreads(a) /\ Control(a)'
          /\ RaiseStep(a, u)
      BY <1>0, <2>1, <2>t, SMTT(30) DEF OtherThreads, Control, RaiseStep, SameStopping
    <2> QED
      BY <2>2, <2>t, Zenon DEF SoundStep
  <1>6. CASE SuspendThreadRetry(a)
    <2>1. /\ pc[a] = "st_check" /\ modified[a] = {} /\ target[a] \in Thread
          /\ thread_list_lock_ = NoThread /\ thread_list_lock_' = a
          /\ pc' = [pc EXCEPT ![a] = "st_relock"] /\ target[a] \in list_
          /\ UNCHANGED <<state, thread_suspend_count_lock_, mutator_lock_, ret, list_, todo,
             modified, target, suspend_count, flags, suspend_all_count_>>
      BY <1>6, <1>0 DEF SuspendThreadRetry, BothLocksFree, SuspendCountLockFree,
          ThreadFound, Goto, wordVars, countVars, barrierVars, checkpointVars, condVars,
          listVars, localVars, SetFlags, ControlType, CountType
    <2>2. /\ ControlType' /\ OtherThreads(a) /\ Control(a)'
          /\ QuietStep(a) /\ SameStopping(a)
      BY <1>0, <2>1, SMTT(30) DEF OtherThreads, Control, QuietStep, SameStopping
    <2> QED
      BY <2>2, Zenon DEF SoundStep
  <1>7. CASE SuspendThreadRelock(a)
    <2>1. /\ pc[a] = "st_relock" /\ thread_suspend_count_lock_ = NoThread
          /\ thread_suspend_count_lock_' = a /\ modified' = [modified EXCEPT ![a] = {target[a]}]
          /\ pc' = [pc EXCEPT ![a] = "st_examine"]
          /\ suspend_count' = [suspend_count EXCEPT ![target[a]] = @ + 1]
          /\ flags' = [flags EXCEPT ![target[a]] = flags[target[a]] \union {kSuspendRequest}]
          /\ UNCHANGED <<state, thread_list_lock_, mutator_lock_, ret, list_, todo, target,
             suspend_all_count_>>
      BY <1>7, Zenon DEF SuspendThreadRelock, RelockSuspendCount, SuspendCountLockFree,
          Goto, barrierVars, checkpointVars, condVars, listVars, RaiseSuspendCount, SetFlags
    <2>t. PICK u \in Thread : u = target[a]
      BY <1>0, <2>1
    <2>2. /\ ControlType' /\ OtherThreads(a) /\ Control(a)'
          /\ RaiseStep(a, u)
      BY <1>0, <2>1, <2>t, SMTT(30) DEF OtherThreads, Control, RaiseStep, SameStopping
    <2> QED
      BY <2>2, <2>t, Zenon DEF SoundStep
  <1>8. CASE SuspendThreadAgain(a)
    <2>1. /\ pc[a] = "st_check" /\ modified[a] # {} /\ thread_list_lock_ = NoThread
          /\ thread_list_lock_' = a /\ thread_suspend_count_lock_ = NoThread
          /\ thread_suspend_count_lock_' = a /\ pc' = [pc EXCEPT ![a] = "st_examine"]
          /\ UNCHANGED <<state, mutator_lock_, ret, list_, todo, modified, target,
             suspend_count, flags, suspend_all_count_>>
      BY <1>8, Zenon DEF SuspendThreadAgain, LockBoth, BothLocksFree, SuspendCountLockFree,
          ThreadFound, Goto, wordVars, countVars, barrierVars, checkpointVars, condVars,
          listVars, localVars
    <2>2. /\ ControlType' /\ OtherThreads(a) /\ Control(a)'
          /\ QuietStep(a) /\ SameStopping(a)
      BY <1>0, <2>1, SMTT(30) DEF OtherThreads, Control, QuietStep, SameStopping
    <2> QED
      BY <2>2, Zenon DEF SoundStep
  <1>9. CASE SuspendThreadExamine(a)
    <2>1. CASE IsSuspended(target[a])
      <3>1. /\ pc[a] = "st_examine" /\ thread_list_lock_' = NoThread
            /\ thread_suspend_count_lock_' = NoThread /\ pc' = [pc EXCEPT ![a] = "leave"]
            /\ ret' = [ret EXCEPT ![a] = "st_hold"]
            /\ UNCHANGED <<state, mutator_lock_, list_, todo, modified, target, suspend_count,
               flags, suspend_all_count_>>
        BY <1>9, <2>1, Zenon DEF SuspendThreadExamine, UnlockBoth, LeaveTo, Goto, wordVars,
            countVars, barrierVars, checkpointVars, condVars, listVars, localVars
      <3>2. /\ ControlType' /\ OtherThreads(a) /\ Control(a)'
            /\ QuietStep(a) /\ SameStopping(a)
        BY <1>0, <3>1, SMTT(30) DEF OtherThreads, Control, QuietStep, SameStopping
      <3> QED
        BY <3>2, Zenon DEF SoundStep
    <2>2. CASE ~IsSuspended(target[a])
      <3>1. /\ pc[a] = "st_examine" /\ thread_list_lock_' = NoThread
            /\ thread_suspend_count_lock_' = NoThread /\ pc' = [pc EXCEPT ![a] = "leave"]
            /\ ret' = [ret EXCEPT ![a] = "st_again"]
            /\ UNCHANGED <<state, mutator_lock_, list_, todo, modified, target, suspend_count,
               flags, suspend_all_count_>>
        BY <1>9, <2>2, Zenon DEF SuspendThreadExamine, UnlockBoth, LeaveTo, Goto, wordVars,
            countVars, barrierVars, checkpointVars, condVars, listVars, localVars
      <3>2. /\ ControlType' /\ OtherThreads(a) /\ Control(a)'
            /\ QuietStep(a) /\ SameStopping(a)
        BY <1>0, <3>1, SMTT(30) DEF OtherThreads, Control, QuietStep, SameStopping
      <3> QED
        BY <3>2, Zenon DEF SoundStep
    <2> QED
      BY <2>1, <2>2
  <1>10. CASE SuspendThreadTimeout(a)
    <2>1. /\ pc[a] = "st_examine" /\ modified' = [modified EXCEPT ![a] = {}]
          /\ thread_list_lock_' = NoThread /\ thread_suspend_count_lock_' = NoThread
          /\ pc' = [pc EXCEPT ![a] = "leave"] /\ ret' = [ret EXCEPT ![a] = "native"]
          /\ suspend_count' = [suspend_count EXCEPT ![target[a]] = @ - 1]
          /\ flags' = [flags EXCEPT ![target[a]] = IF suspend_count[target[a]] = 1 THEN
             flags[target[a]] \ {kSuspendRequest} ELSE flags[target[a]]]
          /\ UNCHANGED <<state, mutator_lock_, list_, todo, target, suspend_all_count_>>
      BY <1>10, Zenon DEF SuspendThreadTimeout, UnlockBoth, LeaveTo, Goto, barrierVars,
          checkpointVars, condVars, listVars, LowerSuspendCount, SetFlags
    <2>t. PICK u \in Thread : u = target[a]
      BY <1>0, <2>1
    <2>2. /\ ControlType' /\ OtherThreads(a) /\ Control(a)'
          /\ LowerStep(a, u)
      BY <1>0, <2>1, <2>t, SMTT(30) DEF OtherThreads, Control, LowerStep, SameStopping
    <2> QED
      BY <2>2, <2>t, Zenon DEF SoundStep
  <1>11. CASE SuspendThreadToRunnable(a)
    <2>1. CASE pc[a] = "st_again"
      <3>1. /\ pc[a] = "st_again" /\ pc' = [pc EXCEPT ![a] = "to_run"]
            /\ ret' = [ret EXCEPT ![a] = "st_check"]
            /\ UNCHANGED <<state, thread_list_lock_, thread_suspend_count_lock_, mutator_lock_,
               list_, todo, modified, target, suspend_count, flags, suspend_all_count_>>
        BY <1>11, <2>1, Zenon DEF SuspendThreadToRunnable, Goto, wordVars, countVars,
            barrierVars, checkpointVars, condVars, lockVars, listVars, localVars
      <3>2. /\ ControlType' /\ OtherThreads(a) /\ Control(a)'
            /\ QuietStep(a) /\ SameStopping(a)
        BY <1>0, <3>1, SMTT(30) DEF OtherThreads, Control, QuietStep, SameStopping
      <3> QED
        BY <3>2, Zenon DEF SoundStep
    <2>2. CASE pc[a] = "st_hold"
      <3>1. /\ pc[a] = "st_hold" /\ state[a] # "kRunnable" /\ pc' = [pc EXCEPT ![a] = "to_run"]
            /\ ret' = [ret EXCEPT ![a] = "st_hold"]
            /\ UNCHANGED <<state, thread_list_lock_, thread_suspend_count_lock_, mutator_lock_,
               list_, todo, modified, target, suspend_count, flags, suspend_all_count_>>
        BY <1>11, <2>2, Zenon DEF SuspendThreadToRunnable, Goto, wordVars, countVars,
            barrierVars, checkpointVars, condVars, lockVars, listVars, localVars
      <3>2. /\ ControlType' /\ OtherThreads(a) /\ Control(a)'
            /\ QuietStep(a) /\ SameStopping(a)
        BY <1>0, <3>1, SMTT(30) DEF OtherThreads, Control, QuietStep, SameStopping
      <3> QED
        BY <3>2, Zenon DEF SoundStep
    <2> QED
      BY <1>11, <2>1, <2>2 DEF SuspendThreadToRunnable
  <1>12. CASE ResumeLower(a)
    <2>1. /\ pc[a] = "st_hold" /\ modified' = [modified EXCEPT ![a] = {}]
          /\ pc' = [pc EXCEPT ![a] = "st_broadcast"]
          /\ suspend_count' = [suspend_count EXCEPT ![target[a]] = @ - 1]
          /\ flags' = [flags EXCEPT ![target[a]] = IF suspend_count[target[a]] = 1 THEN
             flags[target[a]] \ {kSuspendRequest} ELSE flags[target[a]]]
          /\ UNCHANGED <<state, thread_list_lock_, thread_suspend_count_lock_, mutator_lock_,
             ret, list_, todo, target, suspend_all_count_>>
      BY <1>12, Zenon DEF ResumeLower, BothLocksFree, SuspendCountLockFree, Goto,
          barrierVars, checkpointVars, condVars, lockVars, listVars, LowerSuspendCount, SetFlags
    <2>t. PICK u \in Thread : u = target[a]
      BY <1>0, <2>1
    <2>2. /\ ControlType' /\ OtherThreads(a) /\ Control(a)'
          /\ LowerStep(a, u)
      BY <1>0, <2>1, <2>t, SMTT(30) DEF OtherThreads, Control, LowerStep, SameStopping
    <2> QED
      BY <2>2, <2>t, Zenon DEF SoundStep
  <1>13. CASE ResumeBroadcast(a)
    <2>1. /\ pc[a] = "st_broadcast"
          /\ pc' = [pc EXCEPT ![a] = IF state[a] = "kRunnable" THEN "run" ELSE "native"]
          /\ UNCHANGED <<state, thread_list_lock_, thread_suspend_count_lock_, mutator_lock_,
             ret, list_, todo, modified, target, suspend_count, flags, suspend_all_count_>>
      BY <1>13, Zenon DEF ResumeBroadcast, SuspendCountLockFree, Goto, wordVars, countVars,
          barrierVars, checkpointVars, lockVars, listVars, localVars
    <2>2. /\ ControlType' /\ OtherThreads(a) /\ Control(a)'
          /\ QuietStep(a) /\ SameStopping(a)
      BY <1>0, <2>1, SMTT(30) DEF OtherThreads, Control, QuietStep, SameStopping
    <2> QED
      BY <2>2, Zenon DEF SoundStep
  <1> QED
    BY <1>1, <1>2, <1>3, <1>4, <1>5, <1>6, <1>7, <1>8, <1>9, <1>10, <1>11, <1>12, <1>13 DEF
        SuspendThreadStep

\* So are the steps of attaching and detaching that leave list_ alone.
LEMMA LifeInv ==
  ASSUME NEW t \in Thread, ControlInv, CountInv,
         CreateThread(t) \/ CreateThreadFails(t) \/ UnregisterBegin(t)
           \/ Destroy(t) \/ DestroyRevoke(t)
  PROVE  SoundStep(t)
  <1>0. /\ ControlType /\ RetControl(t) /\ LockControl(t) /\ StateControl(t)
        /\ TodoControl(t) /\ ModifiedControl(t) /\ CheckpointControl(t)
        /\ CountType /\ Refers(t)
    BY DEF ControlInv, Control, CountInv
  <1> USE ThreadAssumption DEF ControlType, CountType, ThreadState, PcLabel, ThreadFlag,
          RetControl, LockControl, StateControl, TodoControl, ModifiedControl,
          CheckpointControl, Where, LeavePc, EnterPc, FlipOtherPc, LeaveRet, EnterRet,
          FlipOtherRet, SuspendCountLockPc, ListLockPc, MutatorLockPc, NotRunnablePc, TodoPc,
          NoneModified, TargetModified, LocalStep, Refers, SameRequest, StoppingAll, Holds,
          FlipFunctionFlags, kSuspendRequest, kCheckpointRequest, kActiveSuspendBarrier,
          kPendingFlipFunction, kRunningFlipFunction
  <1>1. CASE CreateThread(t)
    <2>1. /\ pc[t] = "detached" /\ pc' = [pc EXCEPT ![t] = "created"]
          /\ UNCHANGED <<state, thread_list_lock_, thread_suspend_count_lock_, mutator_lock_,
             ret, list_, todo, modified, target, suspend_count, flags, suspend_all_count_>>
      BY <1>1, Zenon DEF CreateThread, Goto, wordVars, countVars, barrierVars,
          checkpointVars, condVars, lockVars, localVars
    <2>2. /\ ControlType' /\ OtherThreads(t) /\ Control(t)'
          /\ QuietStep(t) /\ SameStopping(t)
      BY <1>0, <2>1, SMTT(30) DEF OtherThreads, Control, QuietStep, SameStopping
    <2> QED
      BY <2>2, Zenon DEF SoundStep
  <1>2. CASE CreateThreadFails(t)
    <2>1. /\ pc[t] = "created" /\ pc' = [pc EXCEPT ![t] = "detached"]
          /\ UNCHANGED <<state, thread_list_lock_, thread_suspend_count_lock_, mutator_lock_,
             ret, list_, todo, modified, target, suspend_count, flags, suspend_all_count_>>
      BY <1>2, Zenon DEF CreateThreadFails, Goto, wordVars, countVars, barrierVars,
          checkpointVars, condVars, lockVars, localVars
    <2>2. /\ ControlType' /\ OtherThreads(t) /\ Control(t)'
          /\ QuietStep(t) /\ SameStopping(t)
      BY <1>0, <2>1, SMTT(30) DEF OtherThreads, Control, QuietStep, SameStopping
    <2> QED
      BY <2>2, Zenon DEF SoundStep
  <1>3. CASE UnregisterBegin(t)
    <2>1. CASE pc[t] = "native"
      <3>1. /\ pc[t] = "native" /\ pc' = [pc EXCEPT ![t] = "to_run"]
            /\ ret' = [ret EXCEPT ![t] = "un_destroy"]
            /\ UNCHANGED <<state, thread_list_lock_, thread_suspend_count_lock_, mutator_lock_,
               list_, todo, modified, target, suspend_count, flags, suspend_all_count_>>
        BY <1>3, <2>1, Zenon DEF UnregisterBegin, Goto, wordVars, countVars, barrierVars,
            checkpointVars, condVars, lockVars, listVars, localVars
      <3>2. /\ ControlType' /\ OtherThreads(t) /\ Control(t)'
            /\ QuietStep(t) /\ SameStopping(t)
        BY <1>0, <3>1, SMTT(30) DEF OtherThreads, Control, QuietStep, SameStopping
      <3> QED
        BY <3>2, Zenon DEF SoundStep
    <2>2. CASE pc[t] = "un_again"
      <3>1. /\ pc[t] = "un_again" /\ pc' = [pc EXCEPT ![t] = "to_run"]
            /\ ret' = [ret EXCEPT ![t] = "un_revoke"]
            /\ UNCHANGED <<state, thread_list_lock_, thread_suspend_count_lock_, mutator_lock_,
               list_, todo, modified, target, suspend_count, flags, suspend_all_count_>>
        BY <1>3, <2>2, Zenon DEF UnregisterBegin, Goto, wordVars, countVars, barrierVars,
            checkpointVars, condVars, lockVars, listVars, localVars
      <3>2. /\ ControlType' /\ OtherThreads(t) /\ Control(t)'
            /\ QuietStep(t) /\ SameStopping(t)
        BY <1>0, <3>1, SMTT(30) DEF OtherThreads, Control, QuietStep, SameStopping
      <3> QED
        BY <3>2, Zenon DEF SoundStep
    <2> QED
      BY <1>3, <2>1, <2>2 DEF UnregisterBegin
  <1>4. CASE Destroy(t)
    <2>1. /\ pc[t] = "un_destroy" /\ pc' = [pc EXCEPT ![t] = "leave"]
          /\ ret' = [ret EXCEPT ![t] = "un_again"]
          /\ UNCHANGED <<state, thread_list_lock_, thread_suspend_count_lock_, mutator_lock_,
             list_, todo, modified, target, suspend_count, flags, suspend_all_count_>>
      BY <1>4, Zenon DEF Destroy, LeaveTo, Goto, wordVars, countVars, barrierVars,
          checkpointVars, condVars, lockVars, localVars
    <2>2. /\ ControlType' /\ OtherThreads(t) /\ Control(t)'
          /\ QuietStep(t) /\ SameStopping(t)
      BY <1>0, <2>1, SMTT(30) DEF OtherThreads, Control, QuietStep, SameStopping
    <2> QED
      BY <2>2, Zenon DEF SoundStep
  <1>5. CASE DestroyRevoke(t)
    <2>1. /\ pc[t] = "un_revoke" /\ pc' = [pc EXCEPT ![t] = "leave"]
          /\ ret' = [ret EXCEPT ![t] = "un_remove"]
          /\ UNCHANGED <<state, thread_list_lock_, thread_suspend_count_lock_, mutator_lock_,
             list_, todo, modified, target, suspend_count, flags, suspend_all_count_>>
      BY <1>5, Zenon DEF DestroyRevoke, LeaveTo, Goto, wordVars, countVars, barrierVars,
          checkpointVars, condVars, lockVars, listVars, localVars
    <2>2. /\ ControlType' /\ OtherThreads(t) /\ Control(t)'
          /\ QuietStep(t) /\ SameStopping(t)
      BY <1>0, <2>1, SMTT(30) DEF OtherThreads, Control, QuietStep, SameStopping
    <2> QED
      BY <2>2, Zenon DEF SoundStep
  <1> QED
    BY <1>1, <1>2, <1>3, <1>4, <1>5

===============================================================================
