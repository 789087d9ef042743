--------------------------- MODULE CheckpointProof ----------------------------
(***************************************************************************)
(* RunCheckpoint and RequestSynchronousCheckpoint preserve the invariants  *)
(* of ThreadList.                                                          *)
(***************************************************************************)
EXTENDS Checkpoint, ThreadListInvariant, TLAPS

\* Every step of RunCheckpoint is sound.
LEMMA CheckpointStepInv ==
  ASSUME NEW c \in Thread, ControlInv, CountInv, CheckpointStep(c)
  PROVE  SoundStep(c)
  <1>0. /\ ControlType /\ RetControl(c) /\ LockControl(c) /\ StateControl(c)
        /\ TodoControl(c) /\ ModifiedControl(c) /\ CheckpointControl(c)
        /\ CountType /\ Refers(c)
    BY DEF ControlInv, Control, CountInv
  <1> USE ThreadAssumption DEF ControlType, CountType, ThreadState, PcLabel, ThreadFlag,
          RetControl, LockControl, StateControl, TodoControl, ModifiedControl,
          CheckpointControl, Where, LeavePc, EnterPc, FlipOtherPc, LeaveRet, EnterRet,
          FlipOtherRet, SuspendCountLockPc, ListLockPc, MutatorLockPc, NotRunnablePc, TodoPc,
          NoneModified, TargetModified, LocalStep, Refers, SameRequest, StoppingAll, Holds,
          FlipFunctionFlags, kSuspendRequest, kCheckpointRequest, kActiveSuspendBarrier,
          kPendingFlipFunction, kRunningFlipFunction
  <1>1. CASE CheckpointBegin(c)
    <2>1. /\ pc[c] \in {"run", "native"} /\ thread_list_lock_ = NoThread
          /\ thread_list_lock_' = c /\ thread_suspend_count_lock_ = NoThread
          /\ thread_suspend_count_lock_' = c /\ todo' = [todo EXCEPT ![c] = list_ \ {c}]
          /\ target' = [target EXCEPT ![c] = NoThread] /\ pc' = [pc EXCEPT ![c] = "cp_request"]
          /\ UNCHANGED <<state, mutator_lock_, ret, list_, modified, suspend_count, flags,
             suspend_all_count_>>
      BY <1>1, Zenon DEF CheckpointBegin, LockBoth, BothLocksFree, SuspendCountLockFree,
          Goto, wordVars, countVars, barrierVars, condVars, listVars
    <2>2. /\ ControlType' /\ OtherThreads(c) /\ Control(c)'
          /\ QuietStep(c) /\ SameStopping(c)
      BY <1>0, <2>1, SMTT(30) DEF OtherThreads, Control, QuietStep, SameStopping
    <2> QED
      BY <2>2, Zenon DEF SoundStep
  <1>2. ASSUME NEW t \in Thread, CheckpointRequest(c, t)
        PROVE  SoundStep(c)
    <2>1. CASE t \notin modified[c]
      <3>1. /\ pc[c] = "cp_request" /\ t \in todo[c] /\ target[c] \in {NoThread, t}
            /\ todo' = [todo EXCEPT ![c] = @ \ {t}] /\ target' = [target EXCEPT ![c] = NoThread]
            /\ pc' = [pc EXCEPT ![c] = "cp_request"]
            /\ flags' = [flags EXCEPT ![t] = flags[t] \union {kCheckpointRequest}]
            /\ UNCHANGED <<state, thread_list_lock_, thread_suspend_count_lock_, mutator_lock_,
               ret, list_, modified, suspend_count, suspend_all_count_>>
        BY <1>2, <2>1, Zenon DEF CheckpointRequest, CheckpointAt, CheckpointSettled, Goto,
            countVars, barrierVars, condVars, lockVars, listVars, InstallCheckpoint, SetFlags
      <3>2. /\ ControlType' /\ OtherThreads(c) /\ Control(c)'
            /\ QuietStep(c) /\ SameStopping(c)
        BY <1>0, <3>1, SMTT(30) DEF OtherThreads, Control, QuietStep, SameStopping
      <3> QED
        BY <3>2, Zenon DEF SoundStep
    <2>2. CASE t \in modified[c]
      <3>1. /\ pc[c] = "cp_request" /\ t \in todo[c] /\ target[c] \in {NoThread, t}
            /\ t \in modified[c] /\ pc' = [pc EXCEPT ![c] = "cp_unrequest"]
            /\ flags' = [flags EXCEPT ![t] = flags[t] \union {kCheckpointRequest}]
            /\ UNCHANGED <<state, thread_list_lock_, thread_suspend_count_lock_, mutator_lock_,
               ret, list_, todo, modified, target, suspend_count, suspend_all_count_>>
        BY <1>2, <2>2, Zenon DEF CheckpointRequest, CheckpointAt, CheckpointSettled, Goto,
            countVars, barrierVars, condVars, lockVars, listVars, InstallCheckpoint, SetFlags
      <3>2. /\ ControlType' /\ OtherThreads(c) /\ Control(c)'
            /\ QuietStep(c) /\ SameStopping(c)
        BY <1>0, <3>1, SMTT(30) DEF OtherThreads, Control, QuietStep, SameStopping
      <3> QED
        BY <3>2, Zenon DEF SoundStep
    <2> QED
      BY <2>1, <2>2
  <1>3. ASSUME NEW t \in Thread, CheckpointSeesSuspended(c, t)
        PROVE  SoundStep(c)
    <2>1. CASE t \notin modified[c]
      <3>1. /\ pc[c] = "cp_request" /\ t \in todo[c] /\ target[c] \in {NoThread, t}
            /\ t \notin modified[c] /\ target' = [target EXCEPT ![c] = t]
            /\ pc' = [pc EXCEPT ![c] = "cp_raise"]
            /\ UNCHANGED <<state, thread_list_lock_, thread_suspend_count_lock_, mutator_lock_,
               ret, list_, todo, modified, suspend_count, flags, suspend_all_count_>>
        BY <1>3, <2>1, Zenon DEF CheckpointSeesSuspended, CheckpointAt, CheckpointSettled,
            Goto, wordVars, countVars, barrierVars, checkpointVars, condVars, lockVars, listVars
      <3>2. /\ ControlType' /\ OtherThreads(c) /\ Control(c)'
            /\ QuietStep(c) /\ SameStopping(c)
        BY <1>0, <3>1, SMTT(30) DEF OtherThreads, Control, QuietStep, SameStopping
      <3> QED
        BY <3>2, Zenon DEF SoundStep
    <2>2. CASE t \in modified[c]
      <3>1. /\ pc[c] = "cp_request" /\ t \in todo[c] /\ target[c] \in {NoThread, t}
            /\ todo' = [todo EXCEPT ![c] = @ \ {t}] /\ target' = [target EXCEPT ![c] = NoThread]
            /\ pc' = [pc EXCEPT ![c] = "cp_request"]
            /\ UNCHANGED <<state, thread_list_lock_, thread_suspend_count_lock_, mutator_lock_,
               ret, list_, modified, suspend_count, flags, suspend_all_count_>>
        BY <1>3, <2>2, Zenon DEF CheckpointSeesSuspended, CheckpointAt, CheckpointSettled,
            Goto, wordVars, countVars, barrierVars, checkpointVars, condVars, lockVars, listVars
      <3>2. /\ ControlType' /\ OtherThreads(c) /\ Control(c)'
            /\ QuietStep(c) /\ SameStopping(c)
        BY <1>0, <3>1, SMTT(30) DEF OtherThreads, Control, QuietStep, SameStopping
      <3> QED
        BY <3>2, Zenon DEF SoundStep
    <2> QED
      BY <2>1, <2>2
  <1>4. ASSUME NEW t \in Thread, CheckpointOther(c, t)
        PROVE  SoundStep(c)
    <2>1. /\ pc[c] = "cp_others" /\ t \in modified[c] /\ target' = [target EXCEPT ![c] = t]
          /\ pc' = [pc EXCEPT ![c] = "cp_lower"]
          /\ UNCHANGED <<state, thread_list_lock_, thread_suspend_count_lock_, mutator_lock_,
             ret, list_, todo, modified, suspend_count, flags, suspend_all_count_>>
      BY <1>4, Zenon DEF CheckpointOther, Goto, wordVars, countVars, barrierVars, condVars,
          lockVars, listVars
    <2>2. /\ ControlType' /\ OtherThreads(c) /\ Control(c)'
          /\ QuietStep(c) /\ SameStopping(c)
      BY <1>0, <2>1, SMTT(30) DEF OtherThreads, Control, QuietStep, SameStopping
    <2> QED
      BY <2>2, Zenon DEF SoundStep
  <1>5. CASE CheckpointUnrequest(c)
    <2>1. /\ pc[c] = "cp_unrequest" /\ modified' = [modified EXCEPT ![c] = @ \ {target[c]}]
          /\ todo' = [todo EXCEPT ![c] = @ \ {target[c]}]
          /\ target' = [target EXCEPT ![c] = NoThread] /\ pc' = [pc EXCEPT ![c] = "cp_request"]
          /\ suspend_count' = [suspend_count EXCEPT ![target[c]] = @ - 1]
          /\ flags' = [flags EXCEPT ![target[c]] = IF suspend_count[target[c]] = 1 THEN
             flags[target[c]] \ {kSuspendRequest} ELSE flags[target[c]]]
          /\ UNCHANGED <<state, thread_list_lock_, thread_suspend_count_lock_, mutator_lock_,
             ret, list_, suspend_all_count_>>
      BY <1>5, Zenon DEF CheckpointUnrequest, CheckpointSettled, Goto, barrierVars,
          checkpointVars, condVars, lockVars, listVars, LowerSuspendCount, SetFlags
    <2>t. PICK u \in Thread : u = target[c]
      BY <1>0, <2>1
    <2>2. /\ ControlType' /\ OtherThreads(c) /\ Control(c)'
          /\ LowerStep(c, u)
      BY <1>0, <2>1, <2>t, SMTT(30) DEF OtherThreads, Control, LowerStep, SameStopping
    <2> QED
      BY <2>2, <2>t, Zenon DEF SoundStep
  <1>6. CASE CheckpointRaise(c)
    <2>1. /\ pc[c] = "cp_raise" /\ modified' = [modified EXCEPT ![c] = @ \union {target[c]}]
          /\ pc' = [pc EXCEPT ![c] = "cp_check"]
          /\ suspend_count' = [suspend_count EXCEPT ![target[c]] = @ + 1]
          /\ flags' = [flags EXCEPT ![target[c]] = flags[target[c]] \union {kSuspendRequest}]
          /\ UNCHANGED <<state, thread_list_lock_, thread_suspend_count_lock_, mutator_lock_,
             ret, list_, todo, target, suspend_all_count_>>
      BY <1>6, Zenon DEF CheckpointRaise, Goto, barrierVars, checkpointVars, condVars,
          lockVars, listVars, RaiseSuspendCount, SetFlags
    <2>t. PICK u \in Thread : u = target[c]
      BY <1>0, <2>1
    <2>2. /\ ControlType' /\ OtherThreads(c) /\ Control(c)'
          /\ RaiseStep(c, u)
      BY <1>0, <2>1, <2>t, SMTT(30) DEF OtherThreads, Control, RaiseStep, SameStopping
    <2> QED
      BY <2>2, <2>t, Zenon DEF SoundStep
  <1>7. CASE CheckpointRetry(c)
    <2>1. /\ pc[c] = "cp_raise" /\ thread_suspend_count_lock_' = NoThread
          /\ pc' = [pc EXCEPT ![c] = "cp_relock"]
          /\ UNCHANGED <<state, thread_list_lock_, mutator_lock_, ret, list_, todo, modified,
             target, suspend_count, flags, suspend_all_count_>>
      BY <1>7, Zenon DEF CheckpointRetry, UnlockSuspendCount, Goto, wordVars, countVars,
          barrierVars, checkpointVars, condVars, listVars, localVars
    <2>2. /\ ControlType' /\ OtherThreads(c) /\ Control(c)'
          /\ QuietStep(c) /\ SameStopping(c)
      BY <1>0, <2>1, SMTT(30) DEF OtherThreads, Control, QuietStep, SameStopping
    <2> QED
      BY <2>2, Zenon DEF SoundStep
  <1>8. CASE CheckpointRelock(c)
    <2>1. /\ pc[c] = "cp_relock" /\ thread_suspend_count_lock_ = NoThread
          /\ thread_suspend_count_lock_' = c /\ pc' = [pc EXCEPT ![c] = "cp_raise"]
          /\ UNCHANGED <<state, thread_list_lock_, mutator_lock_, ret, list_, todo, modified,
             target, suspend_count, flags, suspend_all_count_>>
      BY <1>8, Zenon DEF CheckpointRelock, RelockSuspendCount, SuspendCountLockFree, Goto,
          wordVars, countVars, barrierVars, checkpointVars, condVars, listVars, localVars
    <2>2. /\ ControlType' /\ OtherThreads(c) /\ Control(c)'
          /\ QuietStep(c) /\ SameStopping(c)
      BY <1>0, <2>1, SMTT(30) DEF OtherThreads, Control, QuietStep, SameStopping
    <2> QED
      BY <2>2, Zenon DEF SoundStep
  <1>9. CASE CheckpointCheck(c)
    <2>1. CASE IsSuspended(target[c])
      <3>1. /\ pc[c] = "cp_check" /\ todo' = [todo EXCEPT ![c] = @ \ {target[c]}]
            /\ target' = [target EXCEPT ![c] = NoThread]
            /\ pc' = [pc EXCEPT ![c] = "cp_request"]
            /\ UNCHANGED <<state, thread_list_lock_, thread_suspend_count_lock_, mutator_lock_,
               ret, list_, modified, suspend_count, flags, suspend_all_count_>>
        BY <1>9, <2>1, Zenon DEF CheckpointCheck, CheckpointSettled, Goto, wordVars,
            countVars, barrierVars, checkpointVars, condVars, lockVars, listVars
      <3>2. /\ ControlType' /\ OtherThreads(c) /\ Control(c)'
            /\ QuietStep(c) /\ SameStopping(c)
        BY <1>0, <3>1, SMTT(30) DEF OtherThreads, Control, QuietStep, SameStopping
      <3> QED
        BY <3>2, Zenon DEF SoundStep
    <2>2. CASE ~IsSuspended(target[c])
      <3>1. /\ pc[c] = "cp_check" /\ pc' = [pc EXCEPT ![c] = "cp_request"]
            /\ UNCHANGED <<state, thread_list_lock_, thread_suspend_count_lock_, mutator_lock_,
               ret, list_, todo, modified, target, suspend_count, flags, suspend_all_count_>>
        BY <1>9, <2>2, Zenon DEF CheckpointCheck, CheckpointSettled, Goto, wordVars,
            countVars, barrierVars, checkpointVars, condVars, lockVars, listVars
      <3>2. /\ ControlType' /\ OtherThreads(c) /\ Control(c)'
            /\ QuietStep(c) /\ SameStopping(c)
        BY <1>0, <3>1, SMTT(30) DEF OtherThreads, Control, QuietStep, SameStopping
      <3> QED
        BY <3>2, Zenon DEF SoundStep
    <2> QED
      BY <2>1, <2>2
  <1>10. CASE CheckpointUnlock(c)
    <2>1. /\ pc[c] = "cp_request" /\ todo[c] = {} /\ thread_list_lock_' = NoThread
          /\ thread_suspend_count_lock_' = NoThread /\ pc' = [pc EXCEPT ![c] = "cp_self"]
          /\ UNCHANGED <<state, mutator_lock_, ret, list_, todo, modified, target,
             suspend_count, flags, suspend_all_count_>>
      BY <1>10, Zenon DEF CheckpointUnlock, UnlockBoth, Goto, wordVars, countVars,
          barrierVars, checkpointVars, condVars, listVars, localVars
    <2>2. /\ ControlType' /\ OtherThreads(c) /\ Control(c)'
          /\ QuietStep(c) /\ SameStopping(c)
      BY <1>0, <2>1, SMTT(30) DEF OtherThreads, Control, QuietStep, SameStopping
    <2> QED
      BY <2>2, Zenon DEF SoundStep
  <1>11. CASE CheckpointSelf(c)
    <2>1. /\ pc[c] = "cp_self" /\ pc' = [pc EXCEPT ![c] = "cp_others"]
          /\ UNCHANGED <<state, thread_list_lock_, thread_suspend_count_lock_, mutator_lock_,
             ret, list_, todo, modified, target, suspend_count, flags, suspend_all_count_>>
      BY <1>11, Zenon DEF CheckpointSelf, Goto, wordVars, countVars, barrierVars, condVars,
          lockVars, listVars, localVars
    <2>2. /\ ControlType' /\ OtherThreads(c) /\ Control(c)'
          /\ QuietStep(c) /\ SameStopping(c)
      BY <1>0, <2>1, SMTT(30) DEF OtherThreads, Control, QuietStep, SameStopping
    <2> QED
      BY <2>2, Zenon DEF SoundStep
  <1>12. CASE CheckpointLower(c)
    <2>1. /\ pc[c] = "cp_lower" /\ modified' = [modified EXCEPT ![c] = @ \ {target[c]}]
          /\ pc' = [pc EXCEPT ![c] = "cp_others"]
          /\ suspend_count' = [suspend_count EXCEPT ![target[c]] = @ - 1]
          /\ flags' = [flags EXCEPT ![target[c]] = IF suspend_count[target[c]] = 1 THEN
             flags[target[c]] \ {kSuspendRequest} ELSE flags[target[c]]]
          /\ UNCHANGED <<state, thread_list_lock_, thread_suspend_count_lock_, mutator_lock_,
             ret, list_, todo, target, suspend_all_count_>>
      BY <1>12, Zenon DEF CheckpointLower, SuspendCountLockFree, Goto, barrierVars,
          checkpointVars, condVars, lockVars, listVars, LowerSuspendCount, SetFlags
    <2>t. PICK u \in Thread : u = target[c]
      BY <1>0, <2>1
    <2>2. /\ ControlType' /\ OtherThreads(c) /\ Control(c)'
          /\ LowerStep(c, u)
      BY <1>0, <2>1, <2>t, SMTT(30) DEF OtherThreads, Control, LowerStep, SameStopping
    <2> QED
      BY <2>2, <2>t, Zenon DEF SoundStep
  <1>13. CASE CheckpointBroadcast(c)
    <2>1. /\ pc[c] = "cp_others" /\ modified[c] = {}
          /\ pc' = [pc EXCEPT ![c] = IF state[c] = "kRunnable" THEN "leave" ELSE "cp_wait"]
          /\ ret' = [ret EXCEPT ![c] = "cp_wait"]
          /\ UNCHANGED <<state, thread_list_lock_, thread_suspend_count_lock_, mutator_lock_,
             list_, todo, modified, target, suspend_count, flags, suspend_all_count_>>
      BY <1>13, Zenon DEF CheckpointBroadcast, SuspendCountLockFree, Goto, wordVars,
          countVars, barrierVars, checkpointVars, lockVars, listVars, localVars
    <2>2. /\ ControlType' /\ OtherThreads(c) /\ Control(c)'
          /\ QuietStep(c) /\ SameStopping(c)
      BY <1>0, <2>1, SMTT(30) DEF OtherThreads, Control, QuietStep, SameStopping
    <2> QED
      BY <2>2, Zenon DEF SoundStep
  <1>14. CASE CheckpointWait(c)
    <2>1. /\ pc[c] = "cp_wait" /\ pc' = [pc EXCEPT ![c] = "native"]
          /\ UNCHANGED <<state, thread_list_lock_, thread_suspend_count_lock_, mutator_lock_,
             ret, list_, todo, modified, target, suspend_count, flags, suspend_all_count_>>
      BY <1>14, Zenon DEF CheckpointWait, Goto, wordVars, countVars, barrierVars, condVars,
          lockVars, listVars, localVars
    <2>2. /\ ControlType' /\ OtherThreads(c) /\ Control(c)'
          /\ QuietStep(c) /\ SameStopping(c)
      BY <1>0, <2>1, SMTT(30) DEF OtherThreads, Control, QuietStep, SameStopping
    <2> QED
      BY <2>2, Zenon DEF SoundStep
  <1> QED
    BY <1>1, <1>2, <1>3, <1>4, <1>5, <1>6, <1>7, <1>8, <1>9, <1>10, <1>11, <1>12, <1>13,
        <1>14 DEF CheckpointStep

\* Every step of RequestSynchronousCheckpoint is sound.
LEMMA SyncInv ==
  ASSUME NEW x \in Thread, ControlInv, CountInv, SyncStep(x)
  PROVE  SoundStep(x)
  <1>0. /\ ControlType /\ RetControl(x) /\ LockControl(x) /\ StateControl(x)
        /\ TodoControl(x) /\ ModifiedControl(x) /\ CheckpointControl(x)
        /\ CountType /\ Refers(x)
    BY DEF ControlInv, Control, CountInv
  <1> USE ThreadAssumption DEF ControlType, CountType, ThreadState, PcLabel, ThreadFlag,
          RetControl, LockControl, StateControl, TodoControl, ModifiedControl,
          CheckpointControl, Where, LeavePc, EnterPc, FlipOtherPc, LeaveRet, EnterRet,
          FlipOtherRet, SuspendCountLockPc, ListLockPc, MutatorLockPc, NotRunnablePc, TodoPc,
          NoneModified, TargetModified, LocalStep, Refers, SameRequest, StoppingAll, Holds,
          FlipFunctionFlags, kSuspendRequest, kCheckpointRequest, kActiveSuspendBarrier,
          kPendingFlipFunction, kRunningFlipFunction
  <1>1. ASSUME NEW t \in Thread, SyncBegin(x, t)
        PROVE  SoundStep(x)
    <2>1. /\ pc[x] = "run" /\ thread_list_lock_ = NoThread /\ thread_list_lock_' = x
          /\ target' = [target EXCEPT ![x] = t] /\ pc' = [pc EXCEPT ![x] = "sc_state"]
          /\ t \in list_
          /\ UNCHANGED <<state, thread_suspend_count_lock_, mutator_lock_, ret, list_, todo,
             modified, suspend_count, flags, suspend_all_count_>>
      BY <1>1, Zenon DEF SyncBegin, Goto, wordVars, countVars, barrierVars, condVars,
          listVars, SetFlags
    <2>2. /\ ControlType' /\ OtherThreads(x) /\ Control(x)'
          /\ QuietStep(x) /\ SameStopping(x)
      BY <1>0, <2>1, SMTT(30) DEF OtherThreads, Control, QuietStep, SameStopping
    <2> QED
      BY <2>2, Zenon DEF SoundStep
  <1>2. CASE SyncReadState(x)
    <2>1. /\ pc[x] = "sc_state"
          /\ pc' = [pc EXCEPT ![x] = IF state[target[x]] = "kRunnable" THEN "sc_request" ELSE
             "sc_raise"]
          /\ UNCHANGED <<state, thread_list_lock_, thread_suspend_count_lock_, mutator_lock_,
             ret, list_, todo, modified, target, suspend_count, flags, suspend_all_count_>>
      BY <1>2, Zenon DEF SyncReadState, Goto, wordVars, countVars, barrierVars,
          checkpointVars, condVars, lockVars, listVars, localVars
    <2>2. /\ ControlType' /\ OtherThreads(x) /\ Control(x)'
          /\ QuietStep(x) /\ SameStopping(x)
      BY <1>0, <2>1, SMTT(30) DEF OtherThreads, Control, QuietStep, SameStopping
    <2> QED
      BY <2>2, Zenon DEF SoundStep
  <1>3. CASE SyncInstall(x)
    <2>1. /\ pc[x] = "sc_request" /\ thread_list_lock_' = NoThread
          /\ pc' = [pc EXCEPT ![x] = "leave"] /\ ret' = [ret EXCEPT ![x] = "sc_wait"]
          /\ flags' = [flags EXCEPT ![target[x]] = flags[target[x]] \union {kCheckpointRequest}]
          /\ UNCHANGED <<state, thread_suspend_count_lock_, mutator_lock_, list_, todo,
             modified, target, suspend_count, suspend_all_count_>>
      BY <1>3, Zenon DEF SyncInstall, SuspendCountLockFree, Goto, countVars, barrierVars,
          condVars, listVars, localVars, InstallCheckpoint, SetFlags
    <2>2. /\ ControlType' /\ OtherThreads(x) /\ Control(x)'
          /\ QuietStep(x) /\ SameStopping(x)
      BY <1>0, <2>1, SMTT(30) DEF OtherThreads, Control, QuietStep, SameStopping
    <2> QED
      BY <2>2, Zenon DEF SoundStep
  <1>4. CASE SyncInstallFails(x)
    <2>1. /\ pc[x] = "sc_request" /\ pc' = [pc EXCEPT ![x] = "sc_raise"]
          /\ UNCHANGED <<state, thread_list_lock_, thread_suspend_count_lock_, mutator_lock_,
             ret, list_, todo, modified, target, suspend_count, flags, suspend_all_count_>>
      BY <1>4, Zenon DEF SyncInstallFails, SuspendCountLockFree, Goto, wordVars, countVars,
          barrierVars, checkpointVars, condVars, lockVars, listVars, localVars
    <2>2. /\ ControlType' /\ OtherThreads(x) /\ Control(x)'
          /\ QuietStep(x) /\ SameStopping(x)
      BY <1>0, <2>1, SMTT(30) DEF OtherThreads, Control, QuietStep, SameStopping
    <2> QED
      BY <2>2, Zenon DEF SoundStep
  <1>5. CASE SyncWait(x)
    <2>1. /\ pc[x] = "sc_wait" /\ pc' = [pc EXCEPT ![x] = "to_run"]
          /\ ret' = [ret EXCEPT ![x] = "run"]
          /\ UNCHANGED <<state, thread_list_lock_, thread_suspend_count_lock_, mutator_lock_,
             list_, todo, modified, target, suspend_count, flags, suspend_all_count_>>
      BY <1>5, Zenon DEF SyncWait, Goto, wordVars, countVars, barrierVars, condVars,
          lockVars, listVars, localVars
    <2>2. /\ ControlType' /\ OtherThreads(x) /\ Control(x)'
          /\ QuietStep(x) /\ SameStopping(x)
      BY <1>0, <2>1, SMTT(30) DEF OtherThreads, Control, QuietStep, SameStopping
    <2> QED
      BY <2>2, Zenon DEF SoundStep
  <1>6. CASE SyncRaise(x)
    <2>1. /\ pc[x] = "sc_raise" /\ modified' = [modified EXCEPT ![x] = {target[x]}]
          /\ thread_list_lock_' = NoThread /\ pc' = [pc EXCEPT ![x] = "leave"]
          /\ ret' = [ret EXCEPT ![x] = "sc_spin"]
          /\ suspend_count' = [suspend_count EXCEPT ![target[x]] = @ + 1]
          /\ flags' = [flags EXCEPT ![target[x]] = flags[target[x]] \union {kSuspendRequest}]
          /\ UNCHANGED <<state, thread_suspend_count_lock_, mutator_lock_, list_, todo, target,
             suspend_all_count_>>
      BY <1>6, Zenon DEF SyncRaise, SuspendCountLockFree, Goto, barrierVars, checkpointVars,
          condVars, listVars, RaiseSuspendCount, SetFlags
    <2>t. PICK u \in Thread : u = target[x]
      BY <1>0, <2>1
    <2>2. /\ ControlType' /\ OtherThreads(x) /\ Control(x)'
          /\ RaiseStep(x, u)
      BY <1>0, <2>1, <2>t, SMTT(30) DEF OtherThreads, Control, RaiseStep, SameStopping
    <2> QED
      BY <2>2, <2>t, Zenon DEF SoundStep
  <1>7. CASE SyncSpin(x)
    <2>1. /\ pc[x] = "sc_spin" /\ pc' = [pc EXCEPT ![x] = "to_run"]
          /\ ret' = [ret EXCEPT ![x] = "sc_flip"]
          /\ UNCHANGED <<state, thread_list_lock_, thread_suspend_count_lock_, mutator_lock_,
             list_, todo, modified, target, suspend_count, flags, suspend_all_count_>>
      BY <1>7, Zenon DEF SyncSpin, Goto, wordVars, countVars, barrierVars, checkpointVars,
          condVars, lockVars, listVars, localVars
    <2>2. /\ ControlType' /\ OtherThreads(x) /\ Control(x)'
          /\ QuietStep(x) /\ SameStopping(x)
      BY <1>0, <2>1, SMTT(30) DEF OtherThreads, Control, QuietStep, SameStopping
    <2> QED
      BY <2>2, Zenon DEF SoundStep
  <1>8. CASE SyncFlip(x)
    <2>1. /\ pc[x] = "sc_flip" /\ target' = [target EXCEPT ![x] = target[x]]
          /\ pc' = [pc EXCEPT ![x] = "flip_other"] /\ ret' = [ret EXCEPT ![x] = "sc_flip"]
          /\ flags' = [flags EXCEPT ![target[x]] = (flags[target[x]] \ {kPendingFlipFunction})
             \union {kRunningFlipFunction}]
          /\ UNCHANGED <<state, thread_list_lock_, thread_suspend_count_lock_, mutator_lock_,
             list_, todo, modified, suspend_count, suspend_all_count_>>
      BY <1>8, Zenon DEF SyncFlip, ClaimFlipFunction, Goto, countVars, barrierVars,
          checkpointVars, condVars, lockVars, listVars, SetFlags
    <2>2. /\ ControlType' /\ OtherThreads(x) /\ Control(x)'
          /\ QuietStep(x) /\ SameStopping(x)
      BY <1>0, <2>1, SMTT(30) DEF OtherThreads, Control, QuietStep, SameStopping
    <2> QED
      BY <2>2, Zenon DEF SoundStep
  <1>9. CASE SyncRun(x)
    <2>1. /\ pc[x] = "sc_flip" /\ pc' = [pc EXCEPT ![x] = "sc_lock"]
          /\ UNCHANGED <<state, thread_list_lock_, thread_suspend_count_lock_, mutator_lock_,
             ret, list_, todo, modified, target, suspend_count, flags, suspend_all_count_>>
      BY <1>9, Zenon DEF SyncRun, Goto, wordVars, countVars, barrierVars, condVars,
          lockVars, listVars, localVars
    <2>2. /\ ControlType' /\ OtherThreads(x) /\ Control(x)'
          /\ QuietStep(x) /\ SameStopping(x)
      BY <1>0, <2>1, SMTT(30) DEF OtherThreads, Control, QuietStep, SameStopping
    <2> QED
      BY <2>2, Zenon DEF SoundStep
  <1>10. CASE SyncLower(x)
    <2>1. /\ pc[x] = "sc_lock" /\ thread_list_lock_ = NoThread /\ thread_list_lock_' = x
          /\ modified' = [modified EXCEPT ![x] = {}] /\ pc' = [pc EXCEPT ![x] = "sc_broadcast"]
          /\ suspend_count' = [suspend_count EXCEPT ![target[x]] = @ - 1]
          /\ flags' = [flags EXCEPT ![target[x]] = IF suspend_count[target[x]] = 1 THEN
             flags[target[x]] \ {kSuspendRequest} ELSE flags[target[x]]]
          /\ UNCHANGED <<state, thread_suspend_count_lock_, mutator_lock_, ret, list_, todo,
             target, suspend_all_count_>>
      BY <1>10, Zenon DEF SyncLower, BothLocksFree, SuspendCountLockFree, Goto, barrierVars,
          checkpointVars, condVars, listVars, LowerSuspendCount, SetFlags
    <2>t. PICK u \in Thread : u = target[x]
      BY <1>0, <2>1
    <2>2. /\ ControlType' /\ OtherThreads(x) /\ Control(x)'
          /\ LowerStep(x, u)
      BY <1>0, <2>1, <2>t, SMTT(30) DEF OtherThreads, Control, LowerStep, SameStopping
    <2> QED
      BY <2>2, <2>t, Zenon DEF SoundStep
  <1>11. CASE SyncBroadcast(x)
    <2>1. /\ pc[x] = "sc_broadcast" /\ thread_list_lock_' = NoThread
          /\ pc' = [pc EXCEPT ![x] = "run"]
          /\ UNCHANGED <<state, thread_suspend_count_lock_, mutator_lock_, ret, list_, todo,
             modified, target, suspend_count, flags, suspend_all_count_>>
      BY <1>11, Zenon DEF SyncBroadcast, SuspendCountLockFree, Goto, wordVars, countVars,
          barrierVars, checkpointVars, listVars, localVars
    <2>2. /\ ControlType' /\ OtherThreads(x) /\ Control(x)'
          /\ QuietStep(x) /\ SameStopping(x)
      BY <1>0, <2>1, SMTT(30) DEF OtherThreads, Control, QuietStep, SameStopping
    <2> QED
      BY <2>2, Zenon DEF SoundStep
  <1> QED
    BY <1>1, <1>2, <1>3, <1>4, <1>5, <1>6, <1>7, <1>8, <1>9, <1>10, <1>11 DEF SyncStep

===============================================================================
