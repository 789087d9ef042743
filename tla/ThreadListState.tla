--------------------------- MODULE ThreadListState ----------------------------
(***************************************************************************)
(* The state of ThreadList (runtime/thread_list.h): the list, the locks,   *)
(* where every thread is in the operations below, and the steps that       *)
(* several of them share.                                                  *)
(*                                                                         *)
(*   SuspendAll, ResumeAll       sa_*, world_stopped, ra_*                 *)
(*   FlipThreadRoots             sa_*, world_stopped, fl_*                 *)
(*   RunCheckpoint               cp_*                                      *)
(*   RequestSynchronousCheckpoint  sc_*                                    *)
(*   SuspendThreadByThreadId,    st_*                                      *)
(*   SuspendThreadByPeer, Resume                                           *)
(*   Register, Unregister        detached, un_*                            *)
(***************************************************************************)
EXTENDS Thread

CONSTANTS
  InitialThreads,   \* threads attached at the start
  Mutators,         \* threads that run managed code
  Exiting,          \* threads that may detach and attach
  SuspendAllers,    \* threads that may call SuspendAll
  Flippers,         \* threads that may call FlipThreadRoots
  Checkpointers,    \* threads that may call RunCheckpoint
  Synchronizers,    \* threads that may call RequestSynchronousCheckpoint
  IdSuspenders,     \* threads that may call SuspendThreadByThreadId
  PeerSuspenders,   \* threads that may call SuspendThreadByPeer
  MaxOps            \* bound on the operations a thread starts

ASSUME RoleAssumption ==
  /\ InitialThreads \subseteq Thread
  /\ Mutators \subseteq Thread
  /\ Exiting \subseteq Thread
  /\ SuspendAllers \subseteq Thread
  /\ Flippers \subseteq Thread
  /\ Checkpointers \subseteq Thread
  /\ Synchronizers \subseteq Thread
  /\ IdSuspenders \subseteq Thread
  /\ PeerSuspenders \subseteq Thread
  /\ IdSuspenders \intersect PeerSuspenders = {}
  /\ MaxOps \in Nat

VARIABLES
  list_,                \* the attached threads
  suspend_all_count_,
  mutator_lock_,        \* exclusive owner of Locks::mutator_lock_
  nativePeer,           \* threads whose java.lang.Thread.nativePeer is set
  todo,                 \* threads a loop over list_ has still to visit
  modified,             \* threads whose count was raised one by one:
                        \* suspended_count_modified_threads, other_threads,
                        \* suspended_thread
  target,               \* the thread a loop or a request is working on
  count,                \* what RunCheckpoint returns
  ops                   \* operations started

listVars == <<list_, suspend_all_count_, mutator_lock_, nativePeer>>
localVars == <<todo, modified, target, count, ops>>

vars == <<threadVars, listVars, localVars>>

PcLabel ==
  {"detached", "created", "native", "jni_wait", "to_run", "resume_wait", "flip", "run",
   "leave", "pass", "decrement",
   "sa_modify", "sa_relock", "sa_check", "sa_wait", "sa_asleep", "sa_mutator", "world_stopped",
   "ra_lock", "ra_modify",
   "fl_set", "fl_run", "fl_resume", "fl_lower", "flip_other", "flip_finish",
   "cp_request", "cp_raise", "cp_relock", "cp_check", "cp_unrequest",
   "cp_self", "cp_others", "cp_lower", "cp_wait",
   "st_check", "st_relock", "st_examine", "st_again", "st_hold", "st_broadcast",
   "sc_state", "sc_request", "sc_raise", "sc_wait", "sc_spin", "sc_flip", "sc_lock", "sc_broadcast",
   "un_destroy", "un_again", "un_revoke", "un_remove"}

\* Thread t starts one of the bounded operations.
StartOp(t) == ops[t] < MaxOps /\ ops' = [ops EXCEPT ![t] = @ + 1]

\* Take, or give back, thread_list_lock_ and thread_suspend_count_lock_.
LockBoth(t) ==
  /\ BothLocksFree
  /\ thread_list_lock_' = t
  /\ thread_suspend_count_lock_' = t

UnlockBoth == thread_list_lock_' = NoThread /\ thread_suspend_count_lock_' = NoThread

\* The sleep in ModifySuspendCount: give up thread_suspend_count_lock_ only.
UnlockSuspendCount == thread_suspend_count_lock_' = NoThread /\ UNCHANGED thread_list_lock_

RelockSuspendCount(t) ==
  /\ SuspendCountLockFree
  /\ thread_suspend_count_lock_' = t
  /\ UNCHANGED thread_list_lock_

\* Release the locks and come out of Runnable; go on at label.
LeaveTo(a, label) ==
  /\ Goto(a, "leave")
  /\ ret' = [ret EXCEPT ![a] = label]

-------------------------------------------------------------------------------
\* Flip functions.

\* EnsureFlipFunctionStarted called by self on t: claim the flip function, run it
\* and come back to label; or find it claimed already.
ClaimFlipFunction(self, t, label) ==
  /\ kPendingFlipFunction \in flags[t]
  /\ SetFlags(t, (flags[t] \ {kPendingFlipFunction}) \union {kRunningFlipFunction})
  /\ target' = [target EXCEPT ![self] = t]
  /\ ret' = [ret EXCEPT ![self] = label]
  /\ Goto(self, "flip_other")

\* RunFlipFunction(self, notify = true): take the closure.
RunFlipFunctionFor(g) ==
  /\ pc[g] = "flip_other"
  /\ flip_function' = flip_function \ {target[g]}
  /\ Goto(g, "flip_finish")
  /\ UNCHANGED <<wordVars, countVars, barrierVars, checkpointVars, condVars, lockVars, ret,
                 listVars, localVars>>

\* RunFlipFunction: the closure has run.
FinishFlipFunctionFor(g) ==
  /\ pc[g] = "flip_finish"
  /\ SetFlags(target[g], flags[target[g]] \ {kRunningFlipFunction})
  /\ Goto(g, ret[g])
  /\ UNCHANGED <<state, countVars, barrierVars, checkpointVars, flip_function, condVars, lockVars,
                 ret, listVars, localVars>>

-------------------------------------------------------------------------------
\* Who has asked whom to suspend.

\* s has raised suspend_all_count_ and not lowered it yet.
StoppingAll(s) ==
  pc[s] \in {"sa_modify", "sa_relock", "sa_check", "sa_wait", "sa_asleep", "sa_mutator",
            "world_stopped", "ra_lock"}

\* a has raised the suspend count of t and not lowered it yet.
Holds(a, t) ==
  \/ StoppingAll(a) /\ t \in list_ \ (todo[a] \union {a})
  \/ pc[a] \in {"ra_modify", "fl_set"} /\ t \in todo[a] \ {a}
  \/ t \in modified[a]

Holders(t) == {a \in Thread : Holds(a, t)}

===============================================================================
