----------------------- MODULE ThreadListInvariantProof -----------------------
(***************************************************************************)
(* What each kind of step does to the invariants of ThreadList.  A step    *)
(* that raises and lowers no count (QuietStep), raises one (RaiseStep) or  *)
(* lowers one (LowerStep) preserves the accounting whatever else it does.  *)
(***************************************************************************)
EXTENDS ThreadListInvariant, TLAPS, FiniteSetTheorems

\* A step of self that leaves the others alone has only the control of self to
\* preserve.
LEMMA OtherThreadsControl ==
  ASSUME NEW self \in Thread, ControlInv, OtherThreads(self), ControlType', Control(self)'
  PROVE  ControlInv'
  <1> SUFFICES ASSUME NEW a \in Thread \ {self} PROVE Control(a)'
    BY DEF ControlInv
  <1>1. Control(a)
    BY DEF ControlInv
  <1>2. RetControl(a)' /\ StateControl(a)' /\ LockControl(a)'
    BY <1>1, ThreadAssumption DEF OtherThreads, Control, RetControl, LockControl, StateControl, Where
  <1>3. TodoControl(a)' /\ ModifiedControl(a)' /\ CheckpointControl(a)'
    BY <1>1
    DEF OtherThreads, Control, TodoControl, ModifiedControl, CheckpointControl, Where
  <1> QED
    BY <1>2, <1>3, Zenon DEF Control

\* A step on counts, flags or closures only preserves control.
LEMMA ControlFrame == ControlInv /\ UNCHANGED controlVars => ControlInv'
  BY DEF controlVars, ControlInv, ControlType, Control, RetControl, LockControl, StateControl,
         TodoControl, ModifiedControl, CheckpointControl, Where

-------------------------------------------------------------------------------

\* There are finitely many threads, so counting them is a natural number.
LEMMA HoldersFinite ==
  /\ IsFiniteSet(Stoppers) /\ Cardinality(Stoppers) \in Nat
  /\ \A t \in Thread : IsFiniteSet(Holders(t)) /\ Cardinality(Holders(t)) \in Nat
  <1>1. Stoppers \in SUBSET Thread /\ \A t \in Thread : Holders(t) \in SUBSET Thread
    BY DEF Stoppers, Holders
  <1> QED
    BY <1>1, ThreadAssumption, FS_Subset, FS_CardinalityType

\* The steps of self do not change whom the others hold.
LEMMA OthersHold ==
  ASSUME NEW self \in Thread, LocalStep(self), NEW a \in Thread \ {self}
  PROVE  /\ StoppingAll(a)' <=> StoppingAll(a)
         /\ \A t \in Thread : Holds(a, t)' <=> Holds(a, t)
  BY DEF LocalStep, StoppingAll, Holds

\* The steps of self do not change to whom the others refer.
LEMMA OthersRefer ==
  ASSUME NEW self \in Thread, LocalStep(self), Refers(self)', \A a \in Thread : Refers(a)
  PROVE  \A a \in Thread : Refers(a)'
  BY DEF LocalStep, Refers

\* A step of self that keeps its hold of t keeps the holders of t.
LEMMA SameHolders ==
  ASSUME NEW self \in Thread, NEW t \in Thread, LocalStep(self), Holds(self, t)' <=> Holds(self, t)
  PROVE  Holders(t)' = Holders(t)
  <1>1. \A a \in Thread : Holds(a, t)' <=> Holds(a, t)
    BY OthersHold
  <1> QED
    BY <1>1 DEF Holders

\* A step of self that neither begins nor ends a SuspendAll keeps their number.
LEMMA SameStoppers ==
  ASSUME NEW self \in Thread, LocalStep(self), SameStopping(self)
  PROVE  Stoppers' = Stoppers
  <1>1. \A a \in Thread : StoppingAll(a)' <=> StoppingAll(a)
    BY OthersHold DEF SameStopping
  <1> QED
    BY <1>1 DEF Stoppers

\* A step that raises and lowers no count preserves the accounting, if
\* suspend_all_count_ still counts the SuspendAll calls.
LEMMA QuietCount ==
  ASSUME NEW self \in Thread, CountInv, QuietStep(self), suspend_all_count_' = Cardinality(Stoppers')
  PROVE  CountInv'
  <1>1. \A t \in Thread : Counted(t)'
    BY SameHolders DEF QuietStep, CountInv, Counted, SameRequest
  <1> QED
    BY <1>1, OthersRefer DEF CountInv, QuietStep

\* Raising the count of a thread newly held preserves the accounting.
LEMMA RaiseCount ==
  ASSUME NEW self \in Thread, NEW t \in Thread, CountInv, RaiseStep(self, t)
  PROVE  CountInv'
  <1>1. \A u \in Thread \ {t} : Counted(u)'
    <2> SUFFICES ASSUME NEW u \in Thread \ {t} PROVE Counted(u)'
      OBVIOUS
    <2>1. Holders(u)' = Holders(u)
      BY SameHolders DEF RaiseStep
    <2> QED
      BY <2>1 DEF RaiseStep, CountInv, Counted, CountType, SameRequest
  <1>2. Counted(t)'
    <2>1. Holders(t)' = Holders(t) \union {self} /\ self \notin Holders(t)
      BY OthersHold DEF RaiseStep, Holders
    <2>2. Cardinality(Holders(t)') = Cardinality(Holders(t)) + 1
      BY <2>1, HoldersFinite, FS_AddElement, Zenon
    <2>3. suspend_count'[t] = suspend_count[t] + 1 /\ suspend_count[t] = Cardinality(Holders(t))
      BY DEF RaiseStep, CountInv, CountType, Counted
    <2> QED
      BY <2>2, <2>3, HoldersFinite DEF RaiseStep, Counted
  <1>3. suspend_all_count_' = Cardinality(Stoppers')
    BY SameStoppers DEF RaiseStep, CountInv, SameStopping
  <1> QED
    BY <1>1, <1>2, <1>3, OthersRefer DEF CountInv, RaiseStep

\* Lowering the count of a thread let go of preserves the accounting.
LEMMA LowerCount ==
  ASSUME NEW self \in Thread, NEW t \in Thread, CountInv, LowerStep(self, t)
  PROVE  CountInv'
  <1>1. \A u \in Thread \ {t} : Counted(u)'
    <2> SUFFICES ASSUME NEW u \in Thread \ {t} PROVE Counted(u)'
      OBVIOUS
    <2>1. Holders(u)' = Holders(u)
      BY SameHolders DEF LowerStep
    <2> QED
      BY <2>1 DEF LowerStep, CountInv, Counted, CountType, SameRequest
  <1>2. Counted(t)'
    <2>1. Holders(t)' = Holders(t) \ {self} /\ self \in Holders(t)
      BY OthersHold DEF LowerStep, Holders
    <2>2. Cardinality(Holders(t)') = Cardinality(Holders(t)) - 1 /\ Cardinality(Holders(t)') \in Nat
      BY <2>1, HoldersFinite, FS_RemoveElement, FS_CardinalityType
    <2>3. suspend_count'[t] = suspend_count[t] - 1 /\ suspend_count[t] = Cardinality(Holders(t))
      BY DEF LowerStep, CountInv, CountType, Counted
    <2>4. kSuspendRequest \in flags[t] <=> suspend_count[t] > 0
      BY DEF CountInv, Counted
    <2>5. kSuspendRequest \in flags'[t] <=> suspend_count'[t] > 0
      BY <2>2, <2>3, <2>4, HoldersFinite DEF LowerStep, SameRequest
    <2> QED
      BY <2>2, <2>3, <2>5 DEF Counted
  <1>3. suspend_all_count_' = Cardinality(Stoppers')
    BY SameStoppers DEF LowerStep, CountInv, SameStopping
  <1> QED
    BY <1>1, <1>2, <1>3, OthersRefer DEF CountInv, LowerStep

\* So does a step that neither begins nor ends a SuspendAll.
LEMMA IdleCount ==
  ASSUME NEW self \in Thread, CountInv, QuietStep(self), SameStopping(self)
  PROVE  CountInv'
  <1>1. suspend_all_count_' = Cardinality(Stoppers')
    BY SameStoppers DEF QuietStep, CountInv, SameStopping
  <1> QED
    BY <1>1, QuietCount

\* Beginning a SuspendAll: one more stopper, which holds nobody yet.
LEMMA StoppersGrow ==
  ASSUME NEW self \in Thread, CountInv, QuietStep(self), StoppingAll(self)', ~StoppingAll(self),
         suspend_all_count_' = suspend_all_count_ + 1
  PROVE  CountInv'
  <1>1. Stoppers' = Stoppers \union {self} /\ self \notin Stoppers
    BY OthersHold DEF QuietStep, Stoppers
  <1>2. Cardinality(Stoppers') = Cardinality(Stoppers) + 1
    BY <1>1, HoldersFinite, FS_AddElement, Zenon
  <1> QED
    BY <1>2, QuietCount DEF CountInv

\* Ending a SuspendAll: what the stopper held it goes on holding one by one.
LEMMA StoppersShrink ==
  ASSUME NEW self \in Thread, CountInv, QuietStep(self), StoppingAll(self), ~StoppingAll(self)',
         suspend_all_count_' = suspend_all_count_ - 1
  PROVE  CountInv'
  <1>1. Stoppers' = Stoppers \ {self} /\ self \in Stoppers
    BY OthersHold DEF QuietStep, Stoppers
  <1>2. Cardinality(Stoppers') = Cardinality(Stoppers) - 1
    BY <1>1, HoldersFinite, FS_RemoveElement, Zenon
  <1> QED
    BY <1>2, QuietCount DEF CountInv

\* A sound step preserves both invariants.
LEMMA SoundStepInv ==
  ASSUME NEW self \in Thread, ControlInv, CountInv, SoundStep(self)
  PROVE  ControlInv' /\ CountInv'
  <1>1. ControlInv'
    BY OtherThreadsControl, Zenon DEF SoundStep
  <1>2. CASE QuietStep(self) /\ SameStopping(self)
    BY <1>1, <1>2, IdleCount, Zenon
  <1>3. CASE QuietStep(self) /\ BeginStopping(self)
    BY <1>1, <1>3, StoppersGrow, Zenon DEF BeginStopping
  <1>4. CASE QuietStep(self) /\ EndStopping(self)
    BY <1>1, <1>4, StoppersShrink, Zenon DEF EndStopping
  <1>5. ASSUME NEW t \in Thread, RaiseStep(self, t) \/ LowerStep(self, t)
        PROVE  ControlInv' /\ CountInv'
    BY <1>1, <1>5, RaiseCount, LowerCount, Zenon
  <1> QED
    BY <1>2, <1>3, <1>4, <1>5, Zenon DEF SoundStep

===============================================================================
