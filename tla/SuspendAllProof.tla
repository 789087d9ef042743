--------------------------- MODULE SuspendAllProof ----------------------------
(***************************************************************************)
(* SuspendAll, ResumeAll and FlipThreadRoots preserve the invariants of    *)
(* ThreadList.                                                             *)
(***************************************************************************)
EXTENDS SuspendAll, ThreadListInvariant, TLAPS

\* Every step of SuspendAll is sound.
LEMMA SuspendAllInv ==
  ASSUME NEW s \in Thread, ControlInv, CountInv, SuspendAllStep(s)
  PROVE  SoundStep(s)
  <1>0. /\ ControlType /\ RetControl(s) /\ LockControl(s) /\ StateControl(s)
        /\ TodoControl(s) /\ ModifiedControl(s) /\ CheckpointControl(s)
        /\ CountType /\ Refers(s)
    BY DEF ControlInv, Control, CountInv
  <1> USE ThreadAssumption DEF ControlType, CountType, ThreadState, PcLabel, ThreadFlag,
          RetControl, LockControl, StateControl, TodoControl, ModifiedControl,
          CheckpointControl, Where, LeavePc, EnterPc, FlipOtherPc, LeaveRet, EnterRet,
          FlipOtherRet, SuspendCountLockPc, ListLockPc, MutatorLockPc, NotRunnablePc, TodoPc,
          NoneModified, TargetModified, LocalStep, Refers, SameRequest, StoppingAll, Holds,
          FlipFunctionFlags, kSuspendRequest, kCheckpointRequest, kActiveSuspendBarrier,
          kPendingFlipFunction, kRunningFlipFunction
  <1>1. CASE SuspendAllBegin(s)
    <2>1. /\ pc[s] = "native" /\ thread_list_lock_ = NoThread /\ thread_list_lock_' = s
          /\ thread_suspend_count_lock_ = NoThread /\ thread_suspend_count_lock_' = s
          /\ todo' = [todo EXCEPT ![s] = list_ \ {s}] /\ pc' = [pc EXCEPT ![s] = "sa_modify"]
          /\ suspend_all_count_' = suspend_all_count_ + 1
          /\ UNCHANGED <<state, mutator_lock_, ret, list_, modified, target, suspend_count,
             flags>>
      BY <1>1, Zenon DEF SuspendAllBegin, LockBoth, BothLocksFree, SuspendCountLockFree,
          Goto, wordVars, countVars, checkpointVars, condVars
    <2>2. /\ ControlType' /\ OtherThreads(s) /\ Control(s)'
          /\ QuietStep(s) /\ BeginStopping(s)
      BY <1>0, <2>1, SMTT(30) DEF OtherThreads, Control, QuietStep, BeginStopping
    <2> QED
      BY <2>2, Zenon DEF SoundStep
  <1>2. ASSUME NEW t \in Thread, SuspendAllModify(s, t)
        PROVE  SoundStep(s)
    <2>1. /\ pc[s] = "sa_modify" /\ t \in todo[s] /\ todo' = [todo EXCEPT ![s] = @ \ {t}]
          /\ target' = [target EXCEPT ![s] = t] /\ pc' = [pc EXCEPT ![s] = "sa_check"]
          /\ suspend_count' = [suspend_count EXCEPT ![t] = @ + 1]
          /\ flags' = [flags EXCEPT ![t] = flags[t] \union {kSuspendRequest,
             kActiveSuspendBarrier}]
          /\ UNCHANGED <<state, thread_list_lock_, thread_suspend_count_lock_, mutator_lock_,
             ret, list_, modified, suspend_all_count_>>
      BY <1>2, Zenon DEF SuspendAllModify, Goto, barrierVars, checkpointVars, condVars,
          lockVars, listVars, RaiseWithBarrier, SetFlags
    <2>2. /\ ControlType' /\ OtherThreads(s) /\ Control(s)'
          /\ RaiseStep(s, t)
      BY <1>0, <2>1, SMTT(30) DEF OtherThreads, Control, RaiseStep, SameStopping
    <2> QED
      BY <2>2, Zenon DEF SoundStep
  <1>3. ASSUME NEW t \in Thread, SuspendAllRetry(s, t)
        PROVE  SoundStep(s)
    <2>1. /\ pc[s] = "sa_modify" /\ thread_suspend_count_lock_' = NoThread
          /\ pc' = [pc EXCEPT ![s] = "sa_relock"]
          /\ UNCHANGED <<state, thread_list_lock_, mutator_lock_, ret, list_, todo, modified,
             target, suspend_count, flags, suspend_all_count_>>
      BY <1>3, Zenon DEF SuspendAllRetry, UnlockSuspendCount, Goto, wordVars, countVars,
          barrierVars, checkpointVars, condVars, listVars, localVars
    <2>2. /\ ControlType' /\ OtherThreads(s) /\ Control(s)'
          /\ QuietStep(s) /\ SameStopping(s)
      BY <1>0, <2>1, SMTT(30) DEF OtherThreads, Control, QuietStep, SameStopping
    <2> QED
      BY <2>2, Zenon DEF SoundStep
  <1>4. CASE SuspendAllRelock(s)
    <2>1. /\ pc[s] = "sa_relock" /\ thread_suspend_count_lock_ = NoThread
          /\ thread_suspend_count_lock_' = s /\ pc' = [pc EXCEPT ![s] = "sa_modify"]
          /\ UNCHANGED <<state, thread_list_lock_, mutator_lock_, ret, list_, todo, modified,
             target, suspend_count, flags, suspend_all_count_>>
      BY <1>4, Zenon DEF SuspendAllRelock, RelockSuspendCount, SuspendCountLockFree, Goto,
          wordVars, countVars, barrierVars, checkpointVars, condVars, listVars, localVars
    <2>2. /\ ControlType' /\ OtherThreads(s) /\ Control(s)'
          /\ QuietStep(s) /\ SameStopping(s)
      BY <1>0, <2>1, SMTT(30) DEF OtherThreads, Control, QuietStep, SameStopping
    <2> QED
      BY <2>2, Zenon DEF SoundStep
  <1>5. CASE SuspendAllCheck(s)
    <2>1. CASE IsSuspended(target[s])
      <3>1. /\ pc[s] = "sa_check" /\ pc' = [pc EXCEPT ![s] = "sa_modify"]
            /\ flags' = [flags EXCEPT ![target[s]] = IF active_suspend_barriers[target[s]] \ {s}
               = {} THEN flags[target[s]] \ {kActiveSuspendBarrier} ELSE flags[target[s]]]
            /\ UNCHANGED <<state, thread_list_lock_, thread_suspend_count_lock_, mutator_lock_,
               ret, list_, todo, modified, target, suspend_count, suspend_all_count_>>
        BY <1>5, <2>1, <1>0 DEF SuspendAllCheck, Goto, checkpointVars, condVars, lockVars,
            listVars, localVars, SetFlags, ControlType, CountType
      <3>2. /\ ControlType' /\ OtherThreads(s) /\ Control(s)'
            /\ QuietStep(s) /\ SameStopping(s)
        BY <1>0, <3>1, SMTT(30) DEF OtherThreads, Control, QuietStep, SameStopping
      <3> QED
        BY <3>2, Zenon DEF SoundStep
    <2>2. CASE ~IsSuspended(target[s])
      <3>1. /\ pc[s] = "sa_check" /\ pc' = [pc EXCEPT ![s] = "sa_modify"]
            /\ UNCHANGED <<state, thread_list_lock_, thread_suspend_count_lock_, mutator_lock_,
               ret, list_, todo, modified, target, suspend_count, flags, suspend_all_count_>>
        BY <1>5, <2>2, <1>0 DEF SuspendAllCheck, Goto, checkpointVars, condVars, lockVars,
            listVars, localVars, SetFlags, ControlType, CountType
      <3>2. /\ ControlType' /\ OtherThreads(s) /\ Control(s)'
            /\ QuietStep(s) /\ SameStopping(s)
        BY <1>0, <3>1, SMTT(30) DEF OtherThreads, Control, QuietStep, SameStopping
      <3> QED
        BY <3>2, Zenon DEF SoundStep
    <2> QED
      BY <2>1, <2>2
  <1>6. CASE SuspendAllUnlock(s)
    <2>1. /\ pc[s] = "sa_modify" /\ todo[s] = {} /\ thread_list_lock_' = NoThread
          /\ thread_suspend_count_lock_' = NoThread /\ pc' = [pc EXCEPT ![s] = "sa_wait"]
          /\ UNCHANGED <<state, mutator_lock_, ret, list_, todo, modified, target,
             suspend_count, flags, suspend_all_count_>>
      BY <1>6, Zenon DEF SuspendAllUnlock, UnlockBoth, Goto, wordVars, countVars,
          barrierVars, checkpointVars, condVars, listVars, localVars
    <2>2. /\ ControlType' /\ OtherThreads(s) /\ Control(s)'
          /\ QuietStep(s) /\ SameStopping(s)
      BY <1>0, <2>1, SMTT(30) DEF OtherThreads, Control, QuietStep, SameStopping
    <2> QED
      BY <2>2, Zenon DEF SoundStep
  <1>7. CASE SuspendAllSleep(s)
    <2>1. /\ pc[s] = "sa_wait" /\ pc' = [pc EXCEPT ![s] = "sa_asleep"]
          /\ UNCHANGED <<state, thread_list_lock_, thread_suspend_count_lock_, mutator_lock_,
             ret, list_, todo, modified, target, suspend_count, flags, suspend_all_count_>>
      BY <1>7, Zenon DEF SuspendAllSleep, Goto, wordVars, countVars, barrierVars,
          checkpointVars, condVars, lockVars, listVars, localVars
    <2>2. /\ ControlType' /\ OtherThreads(s) /\ Control(s)'
          /\ QuietStep(s) /\ SameStopping(s)
      BY <1>0, <2>1, SMTT(30) DEF OtherThreads, Control, QuietStep, SameStopping
    <2> QED
      BY <2>2, Zenon DEF SoundStep
  <1>8. CASE SuspendAllInterrupted(s)
    <2>1. /\ pc[s] = "sa_asleep" /\ pc' = [pc EXCEPT ![s] = "sa_wait"]
          /\ UNCHANGED <<state, thread_list_lock_, thread_suspend_count_lock_, mutator_lock_,
             ret, list_, todo, modified, target, suspend_count, flags, suspend_all_count_>>
      BY <1>8, Zenon DEF SuspendAllInterrupted, Goto, wordVars, countVars, barrierVars,
          checkpointVars, condVars, lockVars, listVars, localVars
    <2>2. /\ ControlType' /\ OtherThreads(s) /\ Control(s)'
          /\ QuietStep(s) /\ SameStopping(s)
      BY <1>0, <2>1, SMTT(30) DEF OtherThreads, Control, QuietStep, SameStopping
    <2> QED
      BY <2>2, Zenon DEF SoundStep
  <1>9. CASE SuspendAllPassed(s)
    <2>1. /\ pc[s] = "sa_wait" /\ pc' = [pc EXCEPT ![s] = "sa_mutator"]
          /\ UNCHANGED <<state, thread_list_lock_, thread_suspend_count_lock_, mutator_lock_,
             ret, list_, todo, modified, target, suspend_count, flags, suspend_all_count_>>
      BY <1>9, Zenon DEF SuspendAllPassed, Goto, wordVars, countVars, barrierVars,
          checkpointVars, condVars, lockVars, listVars, localVars
    <2>2. /\ ControlType' /\ OtherThreads(s) /\ Control(s)'
          /\ QuietStep(s) /\ SameStopping(s)
      BY <1>0, <2>1, SMTT(30) DEF OtherThreads, Control, QuietStep, SameStopping
    <2> QED
      BY <2>2, Zenon DEF SoundStep
  <1>10. CASE SuspendAllMutatorLock(s)
    <2>1. /\ pc[s] = "sa_mutator" /\ mutator_lock_ = NoThread /\ mutator_lock_' = s
          /\ pc' = [pc EXCEPT ![s] = "world_stopped"]
          /\ UNCHANGED <<state, thread_list_lock_, thread_suspend_count_lock_, ret, list_, todo,
             modified, target, suspend_count, flags, suspend_all_count_>>
      BY <1>10, Zenon DEF SuspendAllMutatorLock, Goto, wordVars, countVars, barrierVars,
          checkpointVars, condVars, lockVars, localVars
    <2>2. /\ ControlType' /\ OtherThreads(s) /\ Control(s)'
          /\ QuietStep(s) /\ SameStopping(s)
      BY <1>0, <2>1, SMTT(30) DEF OtherThreads, Control, QuietStep, SameStopping
    <2> QED
      BY <2>2, Zenon DEF SoundStep
  <1> QED
    BY <1>1, <1>2, <1>3, <1>4, <1>5, <1>6, <1>7, <1>8, <1>9, <1>10 DEF SuspendAllStep

\* Every step of ResumeAll is sound.
LEMMA ResumeAllInv ==
  ASSUME NEW s \in Thread, ControlInv, CountInv, ResumeAllStep(s)
  PROVE  SoundStep(s)
  <1>0. /\ ControlType /\ RetControl(s) /\ LockControl(s) /\ StateControl(s)
        /\ TodoControl(s) /\ ModifiedControl(s) /\ CheckpointControl(s)
        /\ CountType /\ Refers(s)
    BY DEF ControlInv, Control, CountInv
  <1> USE ThreadAssumption DEF ControlType, CountType, ThreadState, PcLabel, ThreadFlag,
          RetControl, LockControl, StateControl, TodoControl, ModifiedControl,
          CheckpointControl, Where, LeavePc, EnterPc, FlipOtherPc, LeaveRet, EnterRet,
          FlipOtherRet, SuspendCountLockPc, ListLockPc, MutatorLockPc, NotRunnablePc, TodoPc,
          NoneModified, TargetModified, LocalStep, Refers, SameRequest, StoppingAll, Holds,
          FlipFunctionFlags, kSuspendRequest, kCheckpointRequest, kActiveSuspendBarrier,
          kPendingFlipFunction, kRunningFlipFunction
  <1>1. CASE ResumeAllBegin(s)
    <2>1. /\ pc[s] = "world_stopped" /\ mutator_lock_' = NoThread
          /\ pc' = [pc EXCEPT ![s] = "ra_lock"]
          /\ UNCHANGED <<state, thread_list_lock_, thread_suspend_count_lock_, ret, list_, todo,
             modified, target, suspend_count, flags, suspend_all_count_>>
      BY <1>1, Zenon DEF ResumeAllBegin, Goto, wordVars, countVars, barrierVars,
          checkpointVars, condVars, lockVars, localVars
    <2>2. /\ ControlType' /\ OtherThreads(s) /\ Control(s)'
          /\ QuietStep(s) /\ SameStopping(s)
      BY <1>0, <2>1, SMTT(30) DEF OtherThreads, Control, QuietStep, SameStopping
    <2> QED
      BY <2>2, Zenon DEF SoundStep
  <1>2. CASE ResumeAllLock(s)
    <2>1. /\ pc[s] = "ra_lock" /\ thread_list_lock_ = NoThread /\ thread_list_lock_' = s
          /\ thread_suspend_count_lock_ = NoThread /\ thread_suspend_count_lock_' = s
          /\ todo' = [todo EXCEPT ![s] = list_ \ {s}] /\ pc' = [pc EXCEPT ![s] = "ra_modify"]
          /\ suspend_all_count_' = suspend_all_count_ - 1
          /\ UNCHANGED <<state, mutator_lock_, ret, list_, modified, target, suspend_count,
             flags>>
      BY <1>2, Zenon DEF ResumeAllLock, LockBoth, BothLocksFree, SuspendCountLockFree, Goto,
          wordVars, countVars, barrierVars, checkpointVars, condVars
    <2>2. /\ ControlType' /\ OtherThreads(s) /\ Control(s)'
          /\ QuietStep(s) /\ EndStopping(s)
      BY <1>0, <2>1, SMTT(30) DEF OtherThreads, Control, QuietStep, EndStopping
    <2> QED
      BY <2>2, Zenon DEF SoundStep
  <1>3. ASSUME NEW t \in Thread, ResumeAllModify(s, t)
        PROVE  SoundStep(s)
    <2>1. /\ pc[s] = "ra_modify" /\ todo' = [todo EXCEPT ![s] = @ \ {t}] /\ t \in todo[s]
          /\ suspend_count' = [suspend_count EXCEPT ![t] = @ - 1]
          /\ flags' = [flags EXCEPT ![t] = IF suspend_count[t] = 1 THEN flags[t] \
             {kSuspendRequest} ELSE flags[t]]
          /\ UNCHANGED <<state, thread_list_lock_, thread_suspend_count_lock_, mutator_lock_,
             pc, ret, list_, modified, target, suspend_all_count_>>
      BY <1>3, Zenon DEF ResumeAllModify, barrierVars, checkpointVars, condVars, lockVars,
          listVars, LowerSuspendCount, SetFlags
    <2>2. /\ ControlType' /\ OtherThreads(s) /\ Control(s)'
          /\ LowerStep(s, t)
      BY <1>0, <2>1, SMTT(30) DEF OtherThreads, Control, LowerStep, SameStopping
    <2> QED
      BY <2>2, Zenon DEF SoundStep
  <1>4. CASE ResumeAllEnd(s)
    <2>1. /\ pc[s] = "ra_modify" /\ todo[s] = {} /\ thread_list_lock_' = NoThread
          /\ thread_suspend_count_lock_' = NoThread /\ pc' = [pc EXCEPT ![s] = "native"]
          /\ UNCHANGED <<state, mutator_lock_, ret, list_, todo, modified, target,
             suspend_count, flags, suspend_all_count_>>
      BY <1>4, Zenon DEF ResumeAllEnd, UnlockBoth, Goto, wordVars, countVars, barrierVars,
          checkpointVars, listVars, localVars
    <2>2. /\ ControlType' /\ OtherThreads(s) /\ Control(s)'
          /\ QuietStep(s) /\ SameStopping(s)
      BY <1>0, <2>1, SMTT(30) DEF OtherThreads, Control, QuietStep, SameStopping
    <2> QED
      BY <2>2, Zenon DEF SoundStep
  <1> QED
    BY <1>1, <1>2, <1>3, <1>4 DEF ResumeAllStep

\* Every step of the collector's FlipThreadRoots is sound.
LEMMA FlipInv ==
  ASSUME NEW g \in Thread, ControlInv, CountInv, FlipStep(g)
  PROVE  SoundStep(g)
  <1>0. /\ ControlType /\ RetControl(g) /\ LockControl(g) /\ StateControl(g)
        /\ TodoControl(g) /\ ModifiedControl(g) /\ CheckpointControl(g)
        /\ CountType /\ Refers(g)
    BY DEF ControlInv, Control, CountInv
  <1> USE ThreadAssumption DEF ControlType, CountType, ThreadState, PcLabel, ThreadFlag,
          RetControl, LockControl, StateControl, TodoControl, ModifiedControl,
          CheckpointControl, Where, LeavePc, EnterPc, FlipOtherPc, LeaveRet, EnterRet,
          FlipOtherRet, SuspendCountLockPc, ListLockPc, MutatorLockPc, NotRunnablePc, TodoPc,
          NoneModified, TargetModified, LocalStep, Refers, SameRequest, StoppingAll, Holds,
          FlipFunctionFlags, kSuspendRequest, kCheckpointRequest, kActiveSuspendBarrier,
          kPendingFlipFunction, kRunningFlipFunction
  <1>1. CASE FlipLock(g)
    <2>1. /\ pc[g] = "world_stopped" /\ thread_list_lock_ = NoThread /\ thread_list_lock_' = g
          /\ thread_suspend_count_lock_ = NoThread /\ thread_suspend_count_lock_' = g
          /\ todo' = [todo EXCEPT ![g] = list_] /\ pc' = [pc EXCEPT ![g] = "fl_set"]
          /\ suspend_all_count_' = suspend_all_count_ - 1
          /\ UNCHANGED <<state, mutator_lock_, ret, list_, modified, target, suspend_count,
             flags>>
      BY <1>1, Zenon DEF FlipLock, LockBoth, BothLocksFree, SuspendCountLockFree, Goto,
          wordVars, countVars, barrierVars, checkpointVars, condVars
    <2>2. /\ ControlType' /\ OtherThreads(g) /\ Control(g)'
          /\ QuietStep(g) /\ EndStopping(g)
      BY <1>0, <2>1, SMTT(30) DEF OtherThreads, Control, QuietStep, EndStopping
    <2> QED
      BY <2>2, Zenon DEF SoundStep
  <1>2. ASSUME NEW t \in Thread, FlipSet(g, t)
        PROVE  SoundStep(g)
    <2>1. CASE t # g /\ ResumedEarly(t)
      <3>1. /\ pc[g] = "fl_set" /\ t \in todo[g] /\ todo' = [todo EXCEPT ![g] = @ \ {t}]
            /\ t # g /\ suspend_count[t] = 1
            /\ suspend_count' = [suspend_count EXCEPT ![t] = @ - 1]
            /\ flags' = [flags EXCEPT ![t] = (flags[t] \ {kSuspendRequest}) \union
               {kPendingFlipFunction}]
            /\ UNCHANGED <<state, thread_list_lock_, thread_suspend_count_lock_, mutator_lock_,
               pc, ret, list_, modified, target, suspend_all_count_>>
        BY <1>2, <2>1, <1>0 DEF FlipSet, barrierVars, checkpointVars, condVars, lockVars,
            listVars, ResumedEarly, SetFlags, ControlType, CountType
      <3>2. /\ ControlType' /\ OtherThreads(g) /\ Control(g)'
            /\ LowerStep(g, t)
        BY <1>0, <3>1, SMTT(30) DEF OtherThreads, Control, LowerStep, SameStopping
      <3> QED
        BY <3>2, Zenon DEF SoundStep
    <2>2. CASE t # g /\ ~ResumedEarly(t)
      <3>1. /\ pc[g] = "fl_set" /\ t \in todo[g] /\ todo' = [todo EXCEPT ![g] = @ \ {t}]
            /\ t # g /\ modified' = [modified EXCEPT ![g] = @ \union {t}]
            /\ flags' = [flags EXCEPT ![t] = flags[t] \union {kPendingFlipFunction}]
            /\ UNCHANGED <<state, thread_list_lock_, thread_suspend_count_lock_, mutator_lock_,
               pc, ret, list_, target, suspend_count, suspend_all_count_>>
        BY <1>2, <2>2, <1>0 DEF FlipSet, barrierVars, checkpointVars, condVars, lockVars,
            listVars, ResumedEarly, SetFlags, ControlType, CountType
      <3>2. /\ ControlType' /\ OtherThreads(g) /\ Control(g)'
            /\ QuietStep(g) /\ SameStopping(g)
        BY <1>0, <3>1, SMTT(30) DEF OtherThreads, Control, QuietStep, SameStopping
      <3> QED
        BY <3>2, Zenon DEF SoundStep
    <2>3. CASE t = g
      <3>1. /\ pc[g] = "fl_set" /\ t \in todo[g] /\ todo' = [todo EXCEPT ![g] = @ \ {t}]
            /\ t = g /\ flags' = [flags EXCEPT ![t] = flags[t] \union {kPendingFlipFunction}]
            /\ UNCHANGED <<state, thread_list_lock_, thread_suspend_count_lock_, mutator_lock_,
               pc, ret, list_, modified, target, suspend_count, suspend_all_count_>>
        BY <1>2, <2>3, <1>0 DEF FlipSet, barrierVars, checkpointVars, condVars, lockVars,
            listVars, ResumedEarly, SetFlags, ControlType, CountType
      <3>2. /\ ControlType' /\ OtherThreads(g) /\ Control(g)'
            /\ QuietStep(g) /\ SameStopping(g)
        BY <1>0, <3>1, SMTT(30) DEF OtherThreads, Control, QuietStep, SameStopping
      <3> QED
        BY <3>2, Zenon DEF SoundStep
    <2> QED
      BY <2>1, <2>2, <2>3
  <1>3. ASSUME NEW t \in Thread, FlipEnsureStarted(g, t)
        PROVE  SoundStep(g)
    <2>1. CASE kPendingFlipFunction \in flags[t]
      <3>1. /\ pc[g] = "fl_run" /\ t \in todo[g] /\ todo' = [todo EXCEPT ![g] = @ \ {t}]
            /\ target' = [target EXCEPT ![g] = t] /\ pc' = [pc EXCEPT ![g] = "flip_other"]
            /\ ret' = [ret EXCEPT ![g] = "fl_run"]
            /\ flags' = [flags EXCEPT ![t] = (flags[t] \ {kPendingFlipFunction}) \union
               {kRunningFlipFunction}]
            /\ UNCHANGED <<state, thread_list_lock_, thread_suspend_count_lock_, mutator_lock_,
               list_, modified, suspend_count, suspend_all_count_>>
        BY <1>3, <2>1, Zenon DEF FlipEnsureStarted, ClaimFlipFunction, Goto, countVars,
            barrierVars, checkpointVars, condVars, lockVars, listVars, SetFlags
      <3>2. /\ ControlType' /\ OtherThreads(g) /\ Control(g)'
            /\ QuietStep(g) /\ SameStopping(g)
        BY <1>0, <3>1, SMTT(30) DEF OtherThreads, Control, QuietStep, SameStopping
      <3> QED
        BY <3>2, Zenon DEF SoundStep
    <2>2. CASE kPendingFlipFunction \notin flags[t]
      <3>1. /\ pc[g] = "fl_run" /\ todo' = [todo EXCEPT ![g] = @ \ {t}]
            /\ UNCHANGED <<state, thread_list_lock_, thread_suspend_count_lock_, mutator_lock_,
               pc, ret, list_, modified, target, suspend_count, flags, suspend_all_count_>>
        BY <1>3, <2>2, Zenon DEF FlipEnsureStarted, ClaimFlipFunction, Goto, countVars,
            barrierVars, checkpointVars, condVars, lockVars, listVars, SetFlags
      <3>2. /\ ControlType' /\ OtherThreads(g) /\ Control(g)'
            /\ QuietStep(g) /\ SameStopping(g)
        BY <1>0, <3>1, SMTT(30) DEF OtherThreads, Control, QuietStep, SameStopping
      <3> QED
        BY <3>2, Zenon DEF SoundStep
    <2> QED
      BY <2>1, <2>2
  <1>4. ASSUME NEW t \in Thread, FlipLower(g, t)
        PROVE  SoundStep(g)
    <2>1. /\ pc[g] = "fl_lower" /\ modified' = [modified EXCEPT ![g] = @ \ {t}]
          /\ t \in modified[g] /\ suspend_count' = [suspend_count EXCEPT ![t] = @ - 1]
          /\ flags' = [flags EXCEPT ![t] = IF suspend_count[t] = 1 THEN flags[t] \
             {kSuspendRequest} ELSE flags[t]]
          /\ UNCHANGED <<state, thread_list_lock_, thread_suspend_count_lock_, mutator_lock_,
             pc, ret, list_, todo, target, suspend_all_count_>>
      BY <1>4, Zenon DEF FlipLower, barrierVars, checkpointVars, condVars, lockVars,
          listVars, LowerSuspendCount, SetFlags
    <2>2. /\ ControlType' /\ OtherThreads(g) /\ Control(g)'
          /\ LowerStep(g, t)
      BY <1>0, <2>1, SMTT(30) DEF OtherThreads, Control, LowerStep, SameStopping
    <2> QED
      BY <2>2, Zenon DEF SoundStep
  <1>5. CASE FlipUnlock(g)
    <2>1. /\ pc[g] = "fl_set" /\ todo[g] = {} /\ thread_list_lock_' = NoThread
          /\ thread_suspend_count_lock_' = NoThread
          /\ todo' = [todo EXCEPT ![g] = modified[g] \union {g}]
          /\ pc' = [pc EXCEPT ![g] = "fl_run"]
          /\ UNCHANGED <<state, mutator_lock_, ret, list_, modified, target, suspend_count,
             flags, suspend_all_count_>>
      BY <1>5, Zenon DEF FlipUnlock, UnlockBoth, Goto, wordVars, countVars, barrierVars,
          checkpointVars, listVars
    <2>2. /\ ControlType' /\ OtherThreads(g) /\ Control(g)'
          /\ QuietStep(g) /\ SameStopping(g)
      BY <1>0, <2>1, SMTT(30) DEF OtherThreads, Control, QuietStep, SameStopping
    <2> QED
      BY <2>2, Zenon DEF SoundStep
  <1>6. CASE FlipMutatorUnlock(g)
    <2>1. /\ pc[g] = "fl_run" /\ todo[g] = {} /\ mutator_lock_' = NoThread
          /\ pc' = [pc EXCEPT ![g] = "fl_resume"]
          /\ UNCHANGED <<state, thread_list_lock_, thread_suspend_count_lock_, ret, list_, todo,
             modified, target, suspend_count, flags, suspend_all_count_>>
      BY <1>6, Zenon DEF FlipMutatorUnlock, Goto, wordVars, countVars, barrierVars,
          checkpointVars, condVars, lockVars, localVars
    <2>2. /\ ControlType' /\ OtherThreads(g) /\ Control(g)'
          /\ QuietStep(g) /\ SameStopping(g)
      BY <1>0, <2>1, SMTT(30) DEF OtherThreads, Control, QuietStep, SameStopping
    <2> QED
      BY <2>2, Zenon DEF SoundStep
  <1>7. CASE FlipResumeLock(g)
    <2>1. /\ pc[g] = "fl_resume" /\ thread_suspend_count_lock_ = NoThread
          /\ thread_suspend_count_lock_' = g /\ pc' = [pc EXCEPT ![g] = "fl_lower"]
          /\ UNCHANGED <<state, thread_list_lock_, mutator_lock_, ret, list_, todo, modified,
             target, suspend_count, flags, suspend_all_count_>>
      BY <1>7, Zenon DEF FlipResumeLock, RelockSuspendCount, SuspendCountLockFree, Goto,
          wordVars, countVars, barrierVars, checkpointVars, condVars, listVars, localVars
    <2>2. /\ ControlType' /\ OtherThreads(g) /\ Control(g)'
          /\ QuietStep(g) /\ SameStopping(g)
      BY <1>0, <2>1, SMTT(30) DEF OtherThreads, Control, QuietStep, SameStopping
    <2> QED
      BY <2>2, Zenon DEF SoundStep
  <1>8. CASE FlipEnd(g)
    <2>1. /\ pc[g] = "fl_lower" /\ modified[g] = {} /\ thread_suspend_count_lock_' = NoThread
          /\ pc' = [pc EXCEPT ![g] = "native"]
          /\ UNCHANGED <<state, thread_list_lock_, mutator_lock_, ret, list_, todo, modified,
             target, suspend_count, flags, suspend_all_count_>>
      BY <1>8, Zenon DEF FlipEnd, UnlockSuspendCount, Goto, wordVars, countVars,
          barrierVars, checkpointVars, listVars, localVars
    <2>2. /\ ControlType' /\ OtherThreads(g) /\ Control(g)'
          /\ QuietStep(g) /\ SameStopping(g)
      BY <1>0, <2>1, SMTT(30) DEF OtherThreads, Control, QuietStep, SameStopping
    <2> QED
      BY <2>2, Zenon DEF SoundStep
  <1> QED
    BY <1>1, <1>2, <1>3, <1>4, <1>5, <1>6, <1>7, <1>8 DEF FlipStep

\* So are the steps of a flip function run on behalf of another thread.
LEMMA FlipOtherInv ==
  ASSUME NEW t \in Thread, ControlInv, CountInv, RunFlipFunctionFor(t) \/ FinishFlipFunctionFor(t)
  PROVE  SoundStep(t)
  <1>0. /\ ControlType /\ RetControl(t) /\ LockControl(t) /\ StateControl(t)
        /\ TodoControl(t) /\ ModifiedControl(t) /\ CheckpointControl(t)
        /\ CountType /\ Refers(t)
    BY DEF ControlInv, Control, CountInv
  <1> USE ThreadAssumption DEF ControlType, CountType, ThreadState, PcLabel, ThreadFlag,
          RetControl, LockControl, StateControl, TodoControl, ModifiedControl,
          CheckpointControl, Where, LeavePc, EnterPc, FlipOtherPc, LeaveRet, EnterRet,
          FlipOtherRet, SuspendCountLockPc, ListLockPc, MutatorLockPc, NotRunnablePc, TodoPc,
          NoneModified, TargetModified, LocalStep, Refers, SameRequest, StoppingAll, Holds,
          FlipFunctionFlags, kSuspendRequest, kCheckpointRequest, kActiveSuspendBarrier,
          kPendingFlipFunction, kRunningFlipFunction
  <1>1. CASE RunFlipFunctionFor(t)
    <2>1. /\ pc[t] = "flip_other" /\ pc' = [pc EXCEPT ![t] = "flip_finish"]
          /\ UNCHANGED <<state, thread_list_lock_, thread_suspend_count_lock_, mutator_lock_,
             ret, list_, todo, modified, target, suspend_count, flags, suspend_all_count_>>
      BY <1>1, Zenon DEF RunFlipFunctionFor, Goto, wordVars, countVars, barrierVars,
          checkpointVars, condVars, lockVars, listVars, localVars
    <2>2. /\ ControlType' /\ OtherThreads(t) /\ Control(t)'
          /\ QuietStep(t) /\ SameStopping(t)
      BY <1>0, <2>1, SMTT(30) DEF OtherThreads, Control, QuietStep, SameStopping
    <2> QED
      BY <2>2, Zenon DEF SoundStep
  <1>2. CASE FinishFlipFunctionFor(t)
    <2>1. CountType' /\ \A a \in Thread : SameRequest(a)
      <3>1. CASE target[t] \in Thread
        BY <1>0, <1>2, <3>1 DEF FinishFlipFunctionFor, SetFlags, countVars
      <3>2. CASE target[t] = NoThread
        <4>1. flags' = flags
          BY <1>0, <1>2, <3>2 DEF FinishFlipFunctionFor, SetFlags
        <4> QED
          BY <1>0, <1>2, <4>1 DEF FinishFlipFunctionFor, countVars
      <3> QED
        BY <1>0, <3>1, <3>2
    <2>2. CASE ret[t] = "fl_run"
      <3>1. /\ pc[t] = "flip_finish" /\ ret[t] = "fl_run" /\ pc' = [pc EXCEPT ![t] = "fl_run"]
            /\ UNCHANGED <<state, thread_list_lock_, thread_suspend_count_lock_, mutator_lock_,
               ret, list_, todo, modified, target, suspend_count, suspend_all_count_>>
        BY <1>2, <2>2, Zenon DEF FinishFlipFunctionFor, Goto, countVars, barrierVars,
            checkpointVars, condVars, lockVars, listVars, localVars
      <3>2. /\ ControlType' /\ OtherThreads(t) /\ Control(t)'
            /\ QuietStep(t) /\ SameStopping(t)
        BY <1>0, <2>1, <3>1, SMTT(30) DEF OtherThreads, Control, QuietStep, SameStopping
      <3> QED
        BY <3>2, Zenon DEF SoundStep
    <2>3. CASE ret[t] = "sc_flip"
      <3>1. /\ pc[t] = "flip_finish" /\ ret[t] = "sc_flip" /\ pc' = [pc EXCEPT ![t] = "sc_flip"]
            /\ UNCHANGED <<state, thread_list_lock_, thread_suspend_count_lock_, mutator_lock_,
               ret, list_, todo, modified, target, suspend_count, suspend_all_count_>>
        BY <1>2, <2>3, Zenon DEF FinishFlipFunctionFor, Goto, countVars, barrierVars,
            checkpointVars, condVars, lockVars, listVars, localVars
      <3>2. /\ ControlType' /\ OtherThreads(t) /\ Control(t)'
            /\ QuietStep(t) /\ SameStopping(t)
        BY <1>0, <2>1, <3>1, SMTT(30) DEF OtherThreads, Control, QuietStep, SameStopping
      <3> QED
        BY <3>2, Zenon DEF SoundStep
    <2> QED
      BY <1>0, <1>2, <2>2, <2>3 DEF FinishFlipFunctionFor
  <1> QED
    BY <1>1, <1>2

===============================================================================
