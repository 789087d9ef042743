------------------------- MODULE ThreadListInvariant --------------------------
(***************************************************************************)
(* The inductive invariants of ThreadList, and the kinds of step that      *)
(* preserve them.                                                          *)
(*                                                                         *)
(* ControlInv: where a thread is in its own code determines what it has    *)
(* locked, what it has still to visit and whose suspend counts it has      *)
(* raised.  It is inductive by itself.                                     *)
(*                                                                         *)
(* CountInv: the accounting of suspend counts.  Register makes a new       *)
(* thread's count suspend_all_count_, which must be the number of          *)
(* SuspendAll calls under way; and a thread that detaches must be in       *)
(* nobody's todo or modified set, which follows from its count being zero. *)
(***************************************************************************)
EXTENDS ThreadListState

LeavePc == {"leave", "pass", "decrement"}
EnterPc == {"to_run", "resume_wait", "flip"}
FlipOtherPc == {"flip_other", "flip_finish"}

\* Where a thread goes on after leaving, and after entering, Runnable.
LeaveRet ==
  {"native", "jni_wait", "to_run", "cp_wait", "sc_wait", "sc_spin", "st_hold", "st_again",
   "un_again", "un_remove"}
EnterRet == {"run", "sc_flip", "st_check", "st_hold", "un_destroy", "un_revoke"}
FlipOtherRet == {"fl_run", "sc_flip"}

\* The place in its operation that a thread in a state transition is at.
Where(a) == IF pc[a] \in LeavePc \union EnterPc \union FlipOtherPc THEN ret[a] ELSE pc[a]

\* The places at which each of the two locks is held.
SuspendCountLockPc ==
  {"sa_modify", "sa_check", "ra_modify", "fl_set", "fl_lower", "cp_request", "cp_raise",
   "cp_check", "cp_unrequest", "st_examine"}
ListLockPc ==
  {"sa_modify", "sa_check", "sa_relock", "ra_modify", "fl_set", "cp_request", "cp_raise",
   "cp_check", "cp_unrequest", "cp_relock", "st_examine", "st_relock",
   "sc_state", "sc_request", "sc_raise", "sc_broadcast"}

\* The places at which mutator_lock_ is held exclusively, flips included.
MutatorLockPc == {"world_stopped", "fl_set", "fl_run"}

\* The places at which a thread is certainly not Runnable.
NotRunnablePc ==
  {"detached", "created", "native", "jni_wait", "to_run", "resume_wait", "pass", "decrement",
   "un_again", "un_remove", "cp_wait", "sc_wait", "sc_spin", "st_again",
   "sa_modify", "sa_relock", "sa_check", "sa_wait", "sa_asleep", "sa_mutator", "world_stopped",
   "ra_lock", "ra_modify", "fl_set", "fl_run", "fl_resume", "fl_lower"}

\* The places at which a loop over list_ is under way.
TodoPc ==
  {"sa_modify", "sa_relock", "sa_check", "ra_modify", "fl_set", "fl_run", "flip_other",
   "flip_finish", "cp_request", "cp_raise", "cp_relock", "cp_check", "cp_unrequest"}

\* The places at which no count, and exactly the target's count, is held raised.
NoneModified ==
  {"detached", "created", "native", "jni_wait", "run", "to_run",
   "sa_modify", "sa_relock", "sa_check", "sa_wait", "sa_asleep", "sa_mutator", "world_stopped",
   "ra_lock", "ra_modify", "cp_wait", "sc_state", "sc_request", "sc_raise", "sc_wait",
   "sc_broadcast", "st_relock", "st_broadcast", "un_destroy", "un_again", "un_revoke", "un_remove"}
TargetModified == {"sc_spin", "sc_flip", "sc_lock", "st_examine", "st_hold"}

ControlType ==
  /\ state \in [Thread -> ThreadState]
  /\ thread_list_lock_ \in Thread \union {NoThread}
  /\ thread_suspend_count_lock_ \in Thread \union {NoThread}
  /\ mutator_lock_ \in Thread \union {NoThread}
  /\ pc \in [Thread -> PcLabel]
  /\ ret \in [Thread -> PcLabel]
  /\ list_ \subseteq Thread
  /\ todo \in [Thread -> SUBSET Thread]
  /\ modified \in [Thread -> SUBSET Thread]
  /\ target \in [Thread -> Thread \union {NoThread}]

\* The return place fits the transition.
RetControl(a) ==
  /\ pc[a] \in LeavePc => ret[a] \in LeaveRet
  /\ pc[a] \in EnterPc => ret[a] \in EnterRet
  /\ pc[a] \in FlipOtherPc => ret[a] \in FlipOtherRet

LockControl(a) ==
  /\ thread_list_lock_ = a <=> pc[a] \in ListLockPc
  /\ thread_suspend_count_lock_ = a <=> pc[a] \in SuspendCountLockPc
  /\ mutator_lock_ = a <=> Where(a) \in MutatorLockPc

StateControl(a) ==
  /\ pc[a] \in NotRunnablePc => state[a] # "kRunnable"
  /\ Where(a) = "fl_run" => state[a] # "kRunnable"
  /\ a \in list_ <=> pc[a] \notin {"detached", "created"}

TodoControl(a) ==
  /\ pc[a] \notin TodoPc => todo[a] = {}
  /\ Where(a) = "sc_flip" => todo[a] = {}
  /\ pc[a] \in {"sa_modify", "sa_relock", "sa_check", "ra_modify"} => a \notin todo[a]
  /\ pc[a] = "fl_set" => todo[a] \intersect modified[a] = {}
  /\ pc[a] \in {"fl_run"} \union FlipOtherPc => todo[a] \subseteq modified[a] \union {a}
  /\ pc[a] = "sa_check" => target[a] \in Thread \ (todo[a] \union {a})

ModifiedControl(a) ==
  /\ Where(a) \in NoneModified => modified[a] = {}
  /\ Where(a) \in TargetModified => modified[a] = {target[a]}
  /\ Where(a) \in {"st_check", "st_again"} => modified[a] \subseteq {target[a]}
  /\ pc[a] \in {"sc_state", "sc_request", "sc_raise", "st_relock"} => target[a] \in Thread

\* RunCheckpoint's loop: a count is raised for the thread the loop is at, or for
\* one it has settled.
CheckpointControl(a) ==
  /\ pc[a] = "cp_request" =>
       /\ target[a] \in todo[a] \union {NoThread}
       /\ todo[a] \intersect modified[a] \subseteq {target[a]}
  /\ pc[a] \in {"cp_raise", "cp_relock"} =>
       target[a] \in todo[a] /\ todo[a] \intersect modified[a] = {}
  /\ pc[a] \in {"cp_check", "cp_unrequest"} =>
       target[a] \in todo[a] /\ todo[a] \intersect modified[a] = {target[a]}
  /\ pc[a] = "cp_lower" => target[a] \in modified[a]

Control(a) ==
  /\ RetControl(a)
  /\ LockControl(a)
  /\ StateControl(a)
  /\ TodoControl(a)
  /\ ModifiedControl(a)
  /\ CheckpointControl(a)

ControlInv == ControlType /\ \A a \in Thread : Control(a)

controlVars ==
  <<state, thread_list_lock_, thread_suspend_count_lock_, mutator_lock_, pc, ret, list_, todo,
    modified, target>>

-------------------------------------------------------------------------------
\* What a step of self leaves alone.

\* The control state of every other thread is unchanged, and a lock changes hands
\* only between self and nobody.
OtherThreads(self) ==
  /\ \A a \in Thread \ {self} :
       /\ pc'[a] = pc[a] /\ ret'[a] = ret[a] /\ state'[a] = state[a]
       /\ todo'[a] = todo[a] /\ modified'[a] = modified[a] /\ target'[a] = target[a]
       /\ a \in list_' <=> a \in list_
  /\ \/ thread_list_lock_' = thread_list_lock_
     \/ {thread_list_lock_, thread_list_lock_'} \subseteq {self, NoThread}
  /\ \/ thread_suspend_count_lock_' = thread_suspend_count_lock_
     \/ {thread_suspend_count_lock_, thread_suspend_count_lock_'} \subseteq {self, NoThread}
  /\ \/ mutator_lock_' = mutator_lock_
     \/ {mutator_lock_, mutator_lock_'} \subseteq {self, NoThread}

-------------------------------------------------------------------------------
\* The accounting of suspend counts.

\* The threads that have a SuspendAll under way.
Stoppers == {s \in Thread : StoppingAll(s)}

\* Whom a refers to is attached.
Refers(a) ==
  /\ todo[a] \subseteq list_
  /\ modified[a] \subseteq list_
  /\ pc[a] \in {"sc_state", "sc_request", "sc_raise", "st_relock"} => target[a] \in list_

CountType ==
  /\ suspend_count \in [Thread -> Int]
  /\ flags \in [Thread -> SUBSET ThreadFlag]

Counted(t) ==
  /\ suspend_count[t] = Cardinality(Holders(t))
  /\ kSuspendRequest \in flags[t] <=> suspend_count[t] > 0

CountInv ==
  /\ CountType
  /\ suspend_all_count_ = Cardinality(Stoppers)
  /\ \A t \in Thread : Counted(t)
  /\ \A a \in Thread : Refers(a)

-------------------------------------------------------------------------------
\* The four kinds of step of a thread self, as seen by the suspend counts.

\* Only self moves, and nobody attaches or detaches.
LocalStep(self) ==
  /\ list_' = list_
  /\ \A a \in Thread \ {self} :
       pc'[a] = pc[a] /\ todo'[a] = todo[a] /\ modified'[a] = modified[a] /\ target'[a] = target[a]

SameRequest(t) == kSuspendRequest \in flags'[t] <=> kSuspendRequest \in flags[t]

SameStopping(self) ==
  /\ StoppingAll(self)' <=> StoppingAll(self)
  /\ suspend_all_count_' = suspend_all_count_

\* No count changes, and self holds whom it held.
QuietStep(self) ==
  /\ LocalStep(self) /\ Refers(self)' /\ CountType'
  /\ suspend_count' = suspend_count
  /\ \A t \in Thread : SameRequest(t)
  /\ \A t \in Thread : Holds(self, t)' <=> Holds(self, t)

\* self comes to hold t.
RaiseStep(self, t) ==
  /\ LocalStep(self) /\ Refers(self)' /\ CountType' /\ SameStopping(self)
  /\ suspend_count' = [suspend_count EXCEPT ![t] = @ + 1]
  /\ kSuspendRequest \in flags'[t]
  /\ \A u \in Thread \ {t} : SameRequest(u)
  /\ ~Holds(self, t) /\ Holds(self, t)'
  /\ \A u \in Thread \ {t} : Holds(self, u)' <=> Holds(self, u)

\* self lets go of t.
LowerStep(self, t) ==
  /\ LocalStep(self) /\ Refers(self)' /\ CountType' /\ SameStopping(self)
  /\ suspend_count' = [suspend_count EXCEPT ![t] = @ - 1]
  /\ suspend_count[t] = 1 => kSuspendRequest \notin flags'[t]
  /\ suspend_count[t] # 1 => SameRequest(t)
  /\ \A u \in Thread \ {t} : SameRequest(u)
  /\ Holds(self, t) /\ ~Holds(self, t)'
  /\ \A u \in Thread \ {t} : Holds(self, u)' <=> Holds(self, u)

\* self begins, or ends, a SuspendAll.
BeginStopping(self) ==
  ~StoppingAll(self) /\ StoppingAll(self)' /\ suspend_all_count_' = suspend_all_count_ + 1

EndStopping(self) ==
  StoppingAll(self) /\ ~StoppingAll(self)' /\ suspend_all_count_' = suspend_all_count_ - 1

\* A step of self that preserves the invariants.
SoundStep(self) ==
  /\ ControlType' /\ OtherThreads(self) /\ Control(self)'
  /\ \/ QuietStep(self) /\ (SameStopping(self) \/ BeginStopping(self) \/ EndStopping(self))
     \/ \E t \in Thread : RaiseStep(self, t) \/ LowerStep(self, t)

===============================================================================
