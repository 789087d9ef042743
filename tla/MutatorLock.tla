----------------------------- MODULE MutatorLock ------------------------------
(***************************************************************************)
(* What Locks::mutator_lock_ promises its users: a reader-writer lock held *)
(* shared by every Runnable thread and exclusively by the thread that has  *)
(* stopped the world.  ThreadList implements it although a Runnable thread *)
(* touches no lock word: its readers are counted by nobody.                *)
(***************************************************************************)
CONSTANTS Thread, NoThread

VARIABLES readers, writer

vars == <<readers, writer>>

Init == readers = {} /\ writer = NoThread

\* Transition to Runnable.
SharedLock(t) ==
  /\ writer = NoThread
  /\ readers' = readers \union {t}
  /\ UNCHANGED writer

\* Transition to a suspended state.
SharedUnlock(t) ==
  /\ t \in readers
  /\ readers' = readers \ {t}
  /\ UNCHANGED writer

\* SuspendAll returns.
ExclusiveLock(t) ==
  /\ readers = {} /\ writer = NoThread
  /\ writer' = t
  /\ UNCHANGED readers

\* ResumeAll, or the flip functions set by FlipThreadRoots.
ExclusiveUnlock(t) ==
  /\ writer = t
  /\ writer' = NoThread
  /\ UNCHANGED readers

Next ==
  \E t \in Thread : SharedLock(t) \/ SharedUnlock(t) \/ ExclusiveLock(t) \/ ExclusiveUnlock(t)

Spec == Init /\ [][Next]_vars

===============================================================================
