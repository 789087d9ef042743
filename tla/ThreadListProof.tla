--------------------------- MODULE ThreadListProof ----------------------------
(***************************************************************************)
(* The suspend counts of ThreadList are right for every number of threads. *)
(*                                                                         *)
(* Every step but Register and UnregisterRemove is sound, as the proofs of *)
(* the operations show, and a sound step preserves the invariants.         *)
(***************************************************************************)
EXTENDS ThreadList, ThreadTransitionProof, SuspendAllProof, CheckpointProof, SuspendThreadProof,
        ThreadListInvariantProof

\* The two steps that change list_.

\* Register: nobody refers to the new thread, and exactly the SuspendAll calls
\* under way hold it.
LEMMA RegisterCount ==
  ASSUME NEW t \in Thread, ControlInv, CountInv, Register(t)
  PROVE  CountInv'
  <1>1. /\ pc[t] = "created" /\ pc' = [pc EXCEPT ![t] = "native"]
        /\ list_' = list_ \union {t}
        /\ suspend_count' = [suspend_count EXCEPT ![t] = suspend_all_count_]
        /\ flags' = [flags EXCEPT ![t] = IF suspend_all_count_ > 0 THEN {kSuspendRequest} ELSE {}]
        /\ UNCHANGED <<todo, modified, target, suspend_all_count_>>
    BY DEF Register, Goto, SetFlags, localVars
  <1>2. /\ ControlType /\ Control(t) /\ CountType /\ \A a \in Thread : Refers(a)
        /\ suspend_all_count_ = Cardinality(Stoppers) /\ suspend_all_count_ \in Nat
    BY HoldersFinite DEF ControlInv, CountInv
  <1>3. \A a \in Thread : t \notin todo[a] /\ t \notin modified[a]
    BY <1>1, <1>2 DEF Control, StateControl, Refers
  <1>4. Stoppers' = Stoppers
    BY <1>1, <1>2 DEF Stoppers, StoppingAll, ControlType
  <1>5. Holders(t)' = Stoppers
    <2>1. ASSUME NEW a \in Thread PROVE Holds(a, t)' <=> StoppingAll(a)
      BY <1>1, <1>2, <1>3 DEF Holds, StoppingAll, ControlType
    <2> QED
      BY <2>1 DEF Holders, Stoppers
  <1>6. ASSUME NEW u \in Thread \ {t} PROVE Holders(u)' = Holders(u)
    <2>1. ASSUME NEW a \in Thread PROVE Holds(a, u)' <=> Holds(a, u)
      BY <1>1, <1>2, <1>6 DEF Holds, StoppingAll, ControlType
    <2> QED
      BY <2>1 DEF Holders
  <1>7. CountType'
    BY <1>1, <1>2 DEF CountType, ThreadFlag
  <1>8. \A u \in Thread : Counted(u)'
    <2>1. Counted(t)'
      BY <1>1, <1>2, <1>5 DEF CountType, Counted
    <2>2. ASSUME NEW u \in Thread \ {t} PROVE Counted(u)'
      BY <1>1, <1>2, <1>6, <2>2 DEF CountType, CountInv, Counted
    <2> QED
      BY <2>1, <2>2
  <1>9. \A a \in Thread : Refers(a)'
    BY <1>1, <1>2 DEF Refers, ControlType
  <1> QED
    BY <1>1, <1>2, <1>4, <1>7, <1>8, <1>9 DEF CountInv

\* Unregister: a thread without a suspend request is held by nobody, and nobody
\* has it left to visit.
LEMMA UnregisterCount ==
  ASSUME NEW t \in Thread, ControlInv, CountInv, UnregisterRemove(t)
  PROVE  CountInv'
  <1>1. /\ pc[t] = "un_remove" /\ pc' = [pc EXCEPT ![t] = "detached"]
        /\ thread_list_lock_ = NoThread
        /\ ~IsSuspended(t)
        /\ list_' = list_ \ {t}
        /\ UNCHANGED <<suspend_count, flags, todo, modified, target, suspend_all_count_>>
    BY DEF UnregisterRemove, Goto, BothLocksFree, wordVars, countVars, localVars
  <1>2. /\ ControlType /\ CountType /\ suspend_all_count_ = Cardinality(Stoppers)
        /\ \A a \in Thread : Control(a) /\ Refers(a)
    BY DEF ControlInv, CountInv
  <1>3. Holders(t) = {} /\ suspend_count[t] = 0 /\ kSuspendRequest \notin flags[t]
    <2>1. kSuspendRequest \notin flags[t]
      BY <1>1, <1>2 DEF IsSuspended, Control, StateControl, NotRunnablePc
    <2>2. suspend_count[t] = Cardinality(Holders(t)) /\ ~(suspend_count[t] > 0)
      BY <2>1 DEF CountInv, Counted
    <2> QED
      BY <2>1, <2>2, HoldersFinite, FS_EmptySet
  <1>4. \A a \in Thread : ~Holds(a, t) /\ t \notin modified[a]
    BY <1>3 DEF Holders, Holds
  <1>5. \A a \in Thread : pc[a] \notin ListLockPc
    BY <1>1, <1>2, ThreadAssumption DEF Control, LockControl
  <1>6. ASSUME NEW a \in Thread PROVE t \notin todo[a]
    <2>1. pc[a] \notin TodoPc => todo[a] = {}
      BY <1>2 DEF Control, TodoControl
    <2>2. pc[a] \in {"fl_run"} \union FlipOtherPc => todo[a] \subseteq modified[a] \union {a}
      BY <1>2 DEF Control, TodoControl
    <2>3. pc[a] \in TodoPc => pc[a] \in {"fl_run"} \union FlipOtherPc
      BY <1>5 DEF TodoPc, ListLockPc, FlipOtherPc
    <2> QED
      BY <1>1, <1>4, <2>1, <2>2, <2>3 DEF FlipOtherPc
  <1>7. Stoppers' = Stoppers
    BY <1>1, <1>2 DEF Stoppers, StoppingAll, ControlType
  <1>8. \A u \in Thread : Holders(u)' = Holders(u)
    <2> SUFFICES ASSUME NEW u \in Thread PROVE Holders(u)' = Holders(u)
      OBVIOUS
    <2>1. ASSUME NEW a \in Thread PROVE Holds(a, u)' <=> Holds(a, u)
      <3>1. CASE u = t
        BY <1>1, <1>2, <1>4, <1>6, <3>1 DEF Holds, StoppingAll, ControlType
      <3>2. CASE u # t
        BY <1>1, <1>2, <3>2 DEF Holds, StoppingAll, ControlType
      <3> QED
        BY <3>1, <3>2
    <2> QED
      BY <2>1 DEF Holders
  <1>9. \A u \in Thread : Counted(u)'
    BY <1>1, <1>8 DEF CountInv, Counted
  <1>10. \A a \in Thread : Refers(a)'
    BY <1>1, <1>2, <1>4, <1>5, <1>6 DEF Refers, ControlType, ListLockPc
  <1> QED
    BY <1>1, <1>2, <1>7, <1>9, <1>10 DEF CountInv, CountType

-------------------------------------------------------------------------------
\* The invariants hold at the start and are preserved by every step.

\* No operation is under way at the start.
LEMMA InitInv == Init => ControlInv /\ CountInv
  <1> SUFFICES ASSUME Init PROVE ControlInv /\ CountInv
    OBVIOUS
  <1>1. ControlType /\ CountType
    BY ThreadAssumption, RoleAssumption DEF Init, ControlType, CountType, ThreadState, PcLabel
  <1>2. ASSUME NEW a \in Thread
        PROVE  Idle(a) /\ suspend_count[a] = 0 /\ flags[a] = {}
    BY <1>2, ThreadAssumption DEF Init, Idle
  <1>3. ASSUME NEW a \in Thread PROVE Control(a)
    BY <1>2, <1>3, IdleControl, Zenon
  <1>4. Stoppers = {} /\ \A t \in Thread : Holders(t) = {}
    BY <1>2 DEF Idle, Stoppers, Holders, Holds, StoppingAll
  <1>5. \A t \in Thread : Counted(t)
    BY <1>2, <1>4, FS_EmptySet DEF Counted
  <1>6. suspend_all_count_ = Cardinality(Stoppers)
    BY <1>4, FS_EmptySet DEF Init
  <1>7. \A a \in Thread : Refers(a)
    BY <1>2 DEF Idle, Refers
  <1> QED
    BY <1>1, <1>3, <1>5, <1>6, <1>7, Zenon DEF ControlInv, CountInv

\* Nothing but the variables of the model matters.
LEMMA StutterInv == ControlInv /\ CountInv /\ UNCHANGED vars => ControlInv' /\ CountInv'
  <1> SUFFICES ASSUME ControlInv, CountInv, UNCHANGED vars PROVE ControlInv' /\ CountInv'
    OBVIOUS
  <1>1. UNCHANGED <<controlVars, suspend_count, flags, suspend_all_count_>>
    BY Zenon DEF vars, controlVars, threadVars, wordVars, countVars, lockVars, listVars, localVars
  <1>2. ControlInv'
    BY <1>1, ControlFrame, Zenon
  <1>3. CountInv'
    BY <1>1
    DEF controlVars, CountInv, CountType, Stoppers, StoppingAll, Counted, Holders, Holds, Refers
  <1> QED
    BY <1>2, <1>3

LEMMA NextInv == ControlInv /\ CountInv /\ [Next]_vars => ControlInv' /\ CountInv'
  <1> SUFFICES ASSUME ControlInv, CountInv, [Next]_vars PROVE ControlInv' /\ CountInv'
    OBVIOUS
  <1>1. ASSUME NEW t \in Thread, ThreadProgress(t)
        PROVE  ControlInv' /\ CountInv'
    BY <1>1, TransitionInv, SoundStepInv, Zenon DEF ThreadProgress
  <1>2. ASSUME NEW t \in Thread, ThreadChoice(t)
        PROVE  ControlInv' /\ CountInv'
    BY <1>2, ChoiceInv, SoundStepInv, Zenon DEF ThreadChoice
  <1>3. ASSUME NEW t \in Thread, OperationStep(t)
        PROVE  ControlInv' /\ CountInv'
    BY <1>3, SuspendAllInv, ResumeAllInv, FlipInv, FlipOtherInv, CheckpointStepInv, SyncInv,
       SuspendThreadInv, SoundStepInv, Zenon
    DEF OperationStep
  <1>4. ASSUME NEW t \in Thread, LifeStep(t)
        PROVE  ControlInv' /\ CountInv'
    BY <1>4, LifeInv, SoundStepInv, ListStepControl, OtherThreadsControl, RegisterCount,
       UnregisterCount, Zenon
    DEF LifeStep
  <1> QED
    BY <1>1, <1>2, <1>3, <1>4, StutterInv, Zenon DEF Next

\* In every reachable state, for any number of threads in any roles: where a
\* thread is in SuspendAll, FlipThreadRoots, RunCheckpoint or any other operation
\* determines which locks it holds and whose suspend counts it has raised, and
\* every count is the number of threads that have raised it.
THEOREM ThreadListInductive == Spec => [](ControlInv /\ CountInv)
  BY InitInv, NextInv, PTL DEF Spec

\* For any number of threads in any roles: the suspend count of an attached
\* thread is the number of threads that have a suspension of it outstanding, and
\* kSuspendRequest is set exactly when there is one.
THEOREM SuspendCountSafety == Spec => []SuspendCountIsHolders
  <1>1. ControlInv /\ CountInv => SuspendCountIsHolders
    BY DEF ControlInv, ControlType, CountInv, Counted, SuspendCountIsHolders
  <1> QED
    BY <1>1, ThreadListInductive, PTL

===============================================================================
