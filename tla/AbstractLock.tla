----------------------------- MODULE AbstractLock -----------------------------
(***************************************************************************)
(* What Mutex and ConditionVariable promise (runtime/base/mutex.h): at     *)
(* most one thread owns the lock, waiting gives it up in the same instant  *)
(* as the thread becomes a waiter, and a waiter must stop waiting - by a   *)
(* notification of the owner or spuriously - before it can own the lock    *)
(* again.                                                                  *)
(***************************************************************************)
CONSTANTS Threads, NoThread

VARIABLES owner, waiting

vars == <<owner, waiting>>

Init == owner = NoThread /\ waiting = {}

Acquire(t) ==
  /\ owner = NoThread
  /\ t \notin waiting
  /\ owner' = t
  /\ UNCHANGED waiting

Release(t) ==
  /\ owner = t
  /\ owner' = NoThread
  /\ UNCHANGED waiting

Wait(t) ==
  /\ owner = t
  /\ owner' = NoThread
  /\ waiting' = waiting \union {t}

\* The owner notifies some or all of the waiters.
Notify ==
  /\ owner # NoThread
  /\ waiting' \subseteq waiting
  /\ UNCHANGED owner

\* A signal or a time-out ends one thread's wait.
Spurious(t) ==
  /\ t \in waiting
  /\ waiting' = waiting \ {t}
  /\ UNCHANGED owner

Next ==
  \/ Notify
  \/ \E t \in Threads : Acquire(t) \/ Release(t) \/ Wait(t) \/ Spurious(t)

Spec == Init /\ [][Next]_vars
===============================================================================
