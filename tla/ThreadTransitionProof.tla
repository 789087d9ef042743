------------------------ MODULE ThreadTransitionProof -------------------------
(***************************************************************************)
(* The transitions of a thread preserve the invariants of ThreadList.      *)
(***************************************************************************)
EXTENDS ThreadTransition, ThreadListInvariant, TLAPS

\* The transitions of a thread are sound: suspend checks, checkpoints, barriers,
\* flips.  DecrementBarrier is a step of the thread whose barrier it is.
LEMMA TransitionInv ==
  ASSUME NEW t \in Thread, ControlInv, CountInv, Transition(t),
         UNCHANGED <<listVars, localVars>>
  PROVE  \E a \in Thread : SoundStep(a)
  <1>0. /\ ControlType /\ RetControl(t) /\ LockControl(t) /\ StateControl(t)
        /\ TodoControl(t) /\ ModifiedControl(t) /\ CheckpointControl(t)
        /\ CountType /\ Refers(t)
    BY DEF ControlInv, Control, CountInv
  <1>u. UNCHANGED <<listVars, localVars>>
    OBVIOUS
  <1> USE ThreadAssumption DEF ControlType, CountType, ThreadState, PcLabel, ThreadFlag,
          RetControl, LockControl, StateControl, TodoControl, ModifiedControl,
          CheckpointControl, Where, LeavePc, EnterPc, FlipOtherPc, LeaveRet, EnterRet,
          FlipOtherRet, SuspendCountLockPc, ListLockPc, MutatorLockPc, NotRunnablePc, TodoPc,
          NoneModified, TargetModified, LocalStep, Refers, SameRequest, StoppingAll, Holds,
          FlipFunctionFlags, kSuspendRequest, kCheckpointRequest, kActiveSuspendBarrier,
          kPendingFlipFunction, kRunningFlipFunction
  <1>1. ASSUME FullSuspendCheck(t)
        PROVE  SoundStep(t)
    <2>1. /\ pc[t] = "run" /\ pc' = [pc EXCEPT ![t] = "leave"]
          /\ ret' = [ret EXCEPT ![t] = "to_run"]
          /\ UNCHANGED <<state, thread_list_lock_, thread_suspend_count_lock_, mutator_lock_,
             list_, todo, modified, target, suspend_count, flags, suspend_all_count_>>
      BY <1>1, <1>u, Zenon DEF FullSuspendCheck, Goto, wordVars, countVars, barrierVars,
          checkpointVars, condVars, lockVars, listVars, localVars
    <2>2. /\ ControlType' /\ OtherThreads(t) /\ Control(t)'
          /\ QuietStep(t) /\ SameStopping(t)
      BY <1>0, <2>1, SMTT(30) DEF OtherThreads, Control, QuietStep, SameStopping
    <2> QED
      BY <2>2, Zenon DEF SoundStep
  <1>2. ASSUME RunCheckpointFunction(t)
        PROVE  SoundStep(t)
    <2>1. CASE Tail(checkpoint_function[t]) = <<>>
      <3>1. /\ pc[t] \in {"run", "leave"}
            /\ flags' = [flags EXCEPT ![t] = flags[t] \ {kCheckpointRequest}]
            /\ UNCHANGED <<state, thread_list_lock_, thread_suspend_count_lock_, mutator_lock_,
               pc, ret, list_, todo, modified, target, suspend_count, suspend_all_count_>>
        BY <1>2, <1>u, <2>1, <1>0 DEF RunCheckpointFunction, SuspendCountLockFree,
            countVars, barrierVars, condVars, lockVars, listVars, localVars, SetFlags,
            ControlType, CountType
      <3>2. /\ ControlType' /\ OtherThreads(t) /\ Control(t)'
            /\ QuietStep(t) /\ SameStopping(t)
        BY <1>0, <3>1, SMTT(30) DEF OtherThreads, Control, QuietStep, SameStopping
      <3> QED
        BY <3>2, Zenon DEF SoundStep
    <2>2. CASE Tail(checkpoint_function[t]) # <<>>
      <3>1. /\ pc[t] \in {"run", "leave"}
            /\ UNCHANGED <<state, thread_list_lock_, thread_suspend_count_lock_, mutator_lock_,
               pc, ret, list_, todo, modified, target, suspend_count, flags,
               suspend_all_count_>>
        BY <1>2, <1>u, <2>2, <1>0 DEF RunCheckpointFunction, SuspendCountLockFree,
            countVars, barrierVars, condVars, lockVars, listVars, localVars, SetFlags,
            ControlType, CountType
      <3>2. /\ ControlType' /\ OtherThreads(t) /\ Control(t)'
            /\ QuietStep(t) /\ SameStopping(t)
        BY <1>0, <3>1, SMTT(30) DEF OtherThreads, Control, QuietStep, SameStopping
      <3> QED
        BY <3>2, Zenon DEF SoundStep
    <2> QED
      BY <2>1, <2>2
  <1>3. ASSUME TransitionToSuspended(t)
        PROVE  SoundStep(t)
    <2>1. /\ pc[t] = "leave"
          /\ state' = [state EXCEPT ![t] = IF ret[t] = "jni_wait" THEN "kWaitingForGcThreadFlip"
             ELSE "kSuspended"]
          /\ pc' = [pc EXCEPT ![t] = "pass"]
          /\ UNCHANGED <<thread_list_lock_, thread_suspend_count_lock_, mutator_lock_, ret,
             list_, todo, modified, target, suspend_count, flags, suspend_all_count_>>
      BY <1>3, <1>u, Zenon DEF TransitionToSuspended, Goto, countVars, barrierVars,
          checkpointVars, condVars, lockVars, listVars, localVars
    <2>2. /\ ControlType' /\ OtherThreads(t) /\ Control(t)'
          /\ QuietStep(t) /\ SameStopping(t)
      BY <1>0, <2>1, SMTT(30) DEF OtherThreads, Control, QuietStep, SameStopping
    <2> QED
      BY <2>2, Zenon DEF SoundStep
  <1>4. ASSUME NoBarrierToPass(t)
        PROVE  SoundStep(t)
    <2>1. CASE ret[t] = "to_run"
      <3>1. /\ pc[t] = "pass" /\ ret[t] = "to_run" /\ pc' = [pc EXCEPT ![t] = "to_run"]
            /\ ret' = [ret EXCEPT ![t] = "run"]
            /\ UNCHANGED <<state, thread_list_lock_, thread_suspend_count_lock_, mutator_lock_,
               list_, todo, modified, target, suspend_count, flags, suspend_all_count_>>
        BY <1>4, <1>u, <2>1, <1>0 DEF NoBarrierToPass, Goto, wordVars, countVars,
            barrierVars, checkpointVars, condVars, lockVars, listVars, localVars, ControlType,
            CountType
      <3>2. /\ ControlType' /\ OtherThreads(t) /\ Control(t)'
            /\ QuietStep(t) /\ SameStopping(t)
        BY <1>0, <3>1, SMTT(30) DEF OtherThreads, Control, QuietStep, SameStopping
      <3> QED
        BY <3>2, Zenon DEF SoundStep
    <2>2. CASE ret[t] # "to_run"
      <3>1. /\ pc[t] = "pass" /\ ret[t] # "to_run" /\ pc' = [pc EXCEPT ![t] = ret[t]]
            /\ UNCHANGED <<state, thread_list_lock_, thread_suspend_count_lock_, mutator_lock_,
               ret, list_, todo, modified, target, suspend_count, flags, suspend_all_count_>>
        BY <1>4, <1>u, <2>2, <1>0 DEF NoBarrierToPass, Goto, wordVars, countVars,
            barrierVars, checkpointVars, condVars, lockVars, listVars, localVars, ControlType,
            CountType
      <3>2. /\ ControlType' /\ OtherThreads(t) /\ Control(t)'
            /\ QuietStep(t) /\ SameStopping(t)
        BY <1>0, <3>1, SMTT(30) DEF OtherThreads, Control, QuietStep, SameStopping
      <3> QED
        BY <3>2, Zenon DEF SoundStep
    <2> QED
      BY <2>1, <2>2
  <1>5. ASSUME ClaimBarriers(t)
        PROVE  SoundStep(t)
    <2>1. /\ pc[t] = "pass" /\ pc' = [pc EXCEPT ![t] = "decrement"]
          /\ flags' = [flags EXCEPT ![t] = flags[t] \ {kActiveSuspendBarrier}]
          /\ UNCHANGED <<state, thread_list_lock_, thread_suspend_count_lock_, mutator_lock_,
             ret, list_, todo, modified, target, suspend_count, suspend_all_count_>>
      BY <1>5, <1>u, Zenon DEF ClaimBarriers, SuspendCountLockFree, Goto, checkpointVars,
          condVars, lockVars, listVars, localVars, SetFlags
    <2>2. /\ ControlType' /\ OtherThreads(t) /\ Control(t)'
          /\ QuietStep(t) /\ SameStopping(t)
      BY <1>0, <2>1, SMTT(30) DEF OtherThreads, Control, QuietStep, SameStopping
    <2> QED
      BY <2>2, Zenon DEF SoundStep
  <1>6. ASSUME NEW s \in Thread, DecrementBarrier(t, s)
        PROVE  SoundStep(s)
    <2>0. /\ ControlType /\ RetControl(s) /\ LockControl(s) /\ StateControl(s)
          /\ TodoControl(s) /\ ModifiedControl(s) /\ CheckpointControl(s)
          /\ CountType /\ Refers(s)
      BY DEF ControlInv, Control, CountInv
    <2>1. CASE pc[s] = "sa_asleep" /\ pending_threads[s] = 1
      <3>1. /\ pc[s] = "sa_asleep" /\ pc' = [pc EXCEPT ![s] = "sa_wait"]
            /\ UNCHANGED <<state, thread_list_lock_, thread_suspend_count_lock_, mutator_lock_,
               ret, list_, todo, modified, target, suspend_count, flags, suspend_all_count_>>
        BY <1>6, <1>u, <2>1, <2>0 DEF DecrementBarrier, wordVars, countVars, checkpointVars,
            condVars, lockVars, listVars, localVars, ControlType, CountType
      <3>2. /\ ControlType' /\ OtherThreads(s) /\ Control(s)'
            /\ QuietStep(s) /\ SameStopping(s)
        BY <2>0, <3>1, SMTT(30) DEF OtherThreads, Control, QuietStep, SameStopping
      <3> QED
        BY <3>2, Zenon DEF SoundStep
    <2>2. CASE ~(pc[s] = "sa_asleep" /\ pending_threads[s] = 1)
      <3>1. /\ UNCHANGED <<state, thread_list_lock_, thread_suspend_count_lock_, mutator_lock_,
               pc, ret, list_, todo, modified, target, suspend_count, flags,
               suspend_all_count_>>
        BY <1>6, <1>u, <2>2, <2>0 DEF DecrementBarrier, wordVars, countVars, checkpointVars,
            condVars, lockVars, listVars, localVars, ControlType, CountType
      <3>2. /\ ControlType' /\ OtherThreads(s) /\ Control(s)'
            /\ QuietStep(s) /\ SameStopping(s)
        BY <2>0, <3>1, SMTT(30) DEF OtherThreads, Control, QuietStep, SameStopping
      <3> QED
        BY <3>2, Zenon DEF SoundStep
    <2> QED
      BY <2>1, <2>2
  <1>7. ASSUME BarriersPassed(t)
        PROVE  SoundStep(t)
    <2>1. /\ pc[t] = "decrement" /\ pc' = [pc EXCEPT ![t] = "pass"]
          /\ UNCHANGED <<state, thread_list_lock_, thread_suspend_count_lock_, mutator_lock_,
             ret, list_, todo, modified, target, suspend_count, flags, suspend_all_count_>>
      BY <1>7, <1>u, Zenon DEF BarriersPassed, Goto, wordVars, countVars, barrierVars,
          checkpointVars, condVars, lockVars, listVars, localVars
    <2>2. /\ ControlType' /\ OtherThreads(t) /\ Control(t)'
          /\ QuietStep(t) /\ SameStopping(t)
      BY <1>0, <2>1, SMTT(30) DEF OtherThreads, Control, QuietStep, SameStopping
    <2> QED
      BY <2>2, Zenon DEF SoundStep
  <1>8. ASSUME TransitionToRunnable(t)
        PROVE  SoundStep(t)
    <2>1. /\ pc[t] = "to_run" /\ state' = [state EXCEPT ![t] = "kRunnable"]
          /\ pc' = [pc EXCEPT ![t] = ret[t]]
          /\ UNCHANGED <<thread_list_lock_, thread_suspend_count_lock_, mutator_lock_, ret,
             list_, todo, modified, target, suspend_count, flags, suspend_all_count_>>
      BY <1>8, <1>u, Zenon DEF TransitionToRunnable, Goto, countVars, barrierVars,
          checkpointVars, condVars, lockVars, listVars, localVars
    <2>2. /\ ControlType' /\ OtherThreads(t) /\ Control(t)'
          /\ QuietStep(t) /\ SameStopping(t)
      BY <1>0, <2>1, SMTT(30) DEF OtherThreads, Control, QuietStep, SameStopping
    <2> QED
      BY <2>2, Zenon DEF SoundStep
  <1>9. ASSUME WaitForResume(t)
        PROVE  SoundStep(t)
    <2>1. /\ pc[t] = "to_run" /\ pc' = [pc EXCEPT ![t] = "resume_wait"]
          /\ UNCHANGED <<state, thread_list_lock_, thread_suspend_count_lock_, mutator_lock_,
             ret, list_, todo, modified, target, suspend_count, flags, suspend_all_count_>>
      BY <1>9, <1>u, Zenon DEF WaitForResume, SuspendCountLockFree, Goto, wordVars,
          countVars, barrierVars, checkpointVars, lockVars, listVars, localVars
    <2>2. /\ ControlType' /\ OtherThreads(t) /\ Control(t)'
          /\ QuietStep(t) /\ SameStopping(t)
      BY <1>0, <2>1, SMTT(30) DEF OtherThreads, Control, QuietStep, SameStopping
    <2> QED
      BY <2>2, Zenon DEF SoundStep
  <1>10. ASSUME RecheckSuspendRequest(t)
        PROVE  SoundStep(t)
    <2>1. CASE kSuspendRequest \notin flags[t]
      <3>1. /\ pc[t] = "resume_wait" /\ pc' = [pc EXCEPT ![t] = "to_run"]
            /\ UNCHANGED <<state, thread_list_lock_, thread_suspend_count_lock_, mutator_lock_,
               ret, list_, todo, modified, target, suspend_count, flags, suspend_all_count_>>
        BY <1>10, <1>u, <2>1, <1>0 DEF RecheckSuspendRequest, SuspendCountLockFree, Goto,
            wordVars, countVars, barrierVars, checkpointVars, lockVars, listVars, localVars,
            ControlType, CountType
      <3>2. /\ ControlType' /\ OtherThreads(t) /\ Control(t)'
            /\ QuietStep(t) /\ SameStopping(t)
        BY <1>0, <3>1, SMTT(30) DEF OtherThreads, Control, QuietStep, SameStopping
      <3> QED
        BY <3>2, Zenon DEF SoundStep
    <2>2. CASE kSuspendRequest \in flags[t]
      <3>1. /\ UNCHANGED <<state, thread_list_lock_, thread_suspend_count_lock_, mutator_lock_,
               pc, ret, list_, todo, modified, target, suspend_count, flags,
               suspend_all_count_>>
        BY <1>10, <1>u, <2>2, <1>0 DEF RecheckSuspendRequest, SuspendCountLockFree, Goto,
            wordVars, countVars, barrierVars, checkpointVars, lockVars, listVars, localVars,
            ControlType, CountType
      <3>2. /\ ControlType' /\ OtherThreads(t) /\ Control(t)'
            /\ QuietStep(t) /\ SameStopping(t)
        BY <1>0, <3>1, SMTT(30) DEF OtherThreads, Control, QuietStep, SameStopping
      <3> QED
        BY <3>2, Zenon DEF SoundStep
    <2> QED
      BY <2>1, <2>2
  <1>11. ASSUME TransitionToRunnableForFlip(t)
        PROVE  SoundStep(t)
    <2>1. /\ pc[t] = "to_run" /\ state' = [state EXCEPT ![t] = "kRunnable"]
          /\ pc' = [pc EXCEPT ![t] = "flip"] /\ flags[t] = {kPendingFlipFunction}
          /\ flags' = [flags EXCEPT ![t] = {}]
          /\ UNCHANGED <<thread_list_lock_, thread_suspend_count_lock_, mutator_lock_, ret,
             list_, todo, modified, target, suspend_count, suspend_all_count_>>
      BY <1>11, <1>u, Zenon DEF TransitionToRunnableForFlip, Goto, countVars, barrierVars,
          checkpointVars, condVars, lockVars, listVars, localVars, SetFlags
    <2>2. /\ ControlType' /\ OtherThreads(t) /\ Control(t)'
          /\ QuietStep(t) /\ SameStopping(t)
      BY <1>0, <2>1, SMTT(30) DEF OtherThreads, Control, QuietStep, SameStopping
    <2> QED
      BY <2>2, Zenon DEF SoundStep
  <1>12. ASSUME RunFlipFunction(t)
        PROVE  SoundStep(t)
    <2>1. /\ pc[t] = "flip" /\ pc' = [pc EXCEPT ![t] = ret[t]]
          /\ UNCHANGED <<state, thread_list_lock_, thread_suspend_count_lock_, mutator_lock_,
             ret, list_, todo, modified, target, suspend_count, flags, suspend_all_count_>>
      BY <1>12, <1>u, Zenon DEF RunFlipFunction, Goto, wordVars, countVars, barrierVars,
          checkpointVars, condVars, lockVars, listVars, localVars
    <2>2. /\ ControlType' /\ OtherThreads(t) /\ Control(t)'
          /\ QuietStep(t) /\ SameStopping(t)
      BY <1>0, <2>1, SMTT(30) DEF OtherThreads, Control, QuietStep, SameStopping
    <2> QED
      BY <2>2, Zenon DEF SoundStep
  <1> QED
    BY <1>1, <1>2, <1>3, <1>4, <1>5, <1>6, <1>7, <1>8, <1>9, <1>10, <1>11, <1>12 DEF
        Transition

\* So are leaving for native code, coming back, and waking without cause.
LEMMA ChoiceInv ==
  ASSUME NEW t \in Thread, ControlInv, CountInv, GoNative(t) \/ ReturnToManaged(t) \/ SpuriousWakeup(t),
         UNCHANGED <<listVars, localVars>>
  PROVE  SoundStep(t)
  <1>0. /\ ControlType /\ RetControl(t) /\ LockControl(t) /\ StateControl(t)
        /\ TodoControl(t) /\ ModifiedControl(t) /\ CheckpointControl(t)
        /\ CountType /\ Refers(t)
    BY DEF ControlInv, Control, CountInv
  <1>u. UNCHANGED <<listVars, localVars>>
    OBVIOUS
  <1> USE ThreadAssumption DEF ControlType, CountType, ThreadState, PcLabel, ThreadFlag,
          RetControl, LockControl, StateControl, TodoControl, ModifiedControl,
          CheckpointControl, Where, LeavePc, EnterPc, FlipOtherPc, LeaveRet, EnterRet,
          FlipOtherRet, SuspendCountLockPc, ListLockPc, MutatorLockPc, NotRunnablePc, TodoPc,
          NoneModified, TargetModified, LocalStep, Refers, SameRequest, StoppingAll, Holds,
          FlipFunctionFlags, kSuspendRequest, kCheckpointRequest, kActiveSuspendBarrier,
          kPendingFlipFunction, kRunningFlipFunction
  <1>1. CASE GoNative(t)
    <2>1. /\ pc[t] = "run" /\ pc' = [pc EXCEPT ![t] = "leave"]
          /\ \E where \in {"native", "jni_wait"} : ret' = [ret EXCEPT ![t] = where]
          /\ UNCHANGED <<state, thread_list_lock_, thread_suspend_count_lock_, mutator_lock_,
             list_, todo, modified, target, suspend_count, flags, suspend_all_count_>>
      BY <1>1, <1>u, Zenon DEF GoNative, Goto, wordVars, countVars, barrierVars,
          checkpointVars, condVars, lockVars, listVars, localVars
    <2>2. /\ ControlType' /\ OtherThreads(t) /\ Control(t)'
          /\ QuietStep(t) /\ SameStopping(t)
      BY <1>0, <2>1, SMTT(30) DEF OtherThreads, Control, QuietStep, SameStopping
    <2> QED
      BY <2>2, Zenon DEF SoundStep
  <1>2. CASE ReturnToManaged(t)
    <2>1. /\ pc[t] \in {"native", "jni_wait"} /\ pc' = [pc EXCEPT ![t] = "to_run"]
          /\ ret' = [ret EXCEPT ![t] = "run"]
          /\ UNCHANGED <<state, thread_list_lock_, thread_suspend_count_lock_, mutator_lock_,
             list_, todo, modified, target, suspend_count, flags, suspend_all_count_>>
      BY <1>2, <1>u, Zenon DEF ReturnToManaged, Goto, wordVars, countVars, barrierVars,
          checkpointVars, condVars, lockVars, listVars, localVars
    <2>2. /\ ControlType' /\ OtherThreads(t) /\ Control(t)'
          /\ QuietStep(t) /\ SameStopping(t)
      BY <1>0, <2>1, SMTT(30) DEF OtherThreads, Control, QuietStep, SameStopping
    <2> QED
      BY <2>2, Zenon DEF SoundStep
  <1>3. CASE SpuriousWakeup(t)
    <2>1. /\ UNCHANGED <<state, thread_list_lock_, thread_suspend_count_lock_, mutator_lock_,
             pc, ret, list_, todo, modified, target, suspend_count, flags, suspend_all_count_>>
      BY <1>3, <1>u, Zenon DEF SpuriousWakeup, wordVars, countVars, barrierVars,
          checkpointVars, lockVars, listVars, localVars
    <2>2. /\ ControlType' /\ OtherThreads(t) /\ Control(t)'
          /\ QuietStep(t) /\ SameStopping(t)
      BY <1>0, <2>1, SMTT(30) DEF OtherThreads, Control, QuietStep, SameStopping
    <2> QED
      BY <2>2, Zenon DEF SoundStep
  <1> QED
    BY <1>1, <1>2, <1>3

===============================================================================
