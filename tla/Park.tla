--------------------------------- MODULE Park ---------------------------------
(***************************************************************************)
(* Thread::Park and Thread::Unpark (runtime/thread.cc) over the futex word *)
(* park_state_, together with the life of the parking thread: a call of    *)
(* Unsafe.unpark finds the native thread through java.lang.Thread's        *)
(* nativePeer, and when there is none leaves unparkedBeforeStart for the   *)
(* new thread to find.  One thread parks; every thread of Unparkers may    *)
(* call unpark (or interrupt, which unparks) any number of times.          *)
(***************************************************************************)
EXTENDS Naturals

CONSTANTS
  Unparkers,    \* the threads that call unpark
  NoThread      \* the owner of a mutex that nobody holds

kPermitAvailable == 0
kNoPermit == 1
kNoPermitWaiterWaiting == 2

VARIABLES
  park_state,            \* the futex word tls32_.park_state_
  pc,                    \* what the parking thread is doing
  nativePeer,            \* java.lang.Thread.nativePeer is not null
  unparkedBeforeStart,   \* java.lang.Thread.unparkedBeforeStart
  exists,                \* the native Thread object is allocated
  thread_list_lock_,     \* owner of Locks::thread_list_lock_
  upc                    \* what each unparker is doing

vars == <<park_state, pc, nativePeer, unparkedBeforeStart, exists,
          thread_list_lock_, upc>>

threadVars == <<park_state, nativePeer, unparkedBeforeStart, exists>>

TypeOK ==
  /\ park_state \in {kPermitAvailable, kNoPermit, kNoPermitWaiterWaiting}
  /\ pc \in {"unborn", "created", "create_failed", "registered", "unpark_self", "run",
             "blocking", "waiting", "timed_waiting", "woken", "destroyed", "deleted"}
  /\ nativePeer \in BOOLEAN
  /\ unparkedBeforeStart \in BOOLEAN
  /\ exists \in BOOLEAN
  /\ thread_list_lock_ \in Unparkers \union {NoThread}
  /\ upc \in [Unparkers -> {"idle", "locked", "no_peer", "exchange", "wake", "unlock"}]

Init ==
  /\ park_state = kNoPermit
  /\ pc = "unborn"
  /\ nativePeer = FALSE
  /\ unparkedBeforeStart = FALSE
  /\ exists = FALSE
  /\ thread_list_lock_ = NoThread
  /\ upc = [u \in Unparkers |-> "idle"]

-------------------------------------------------------------------------------
\* The life of the parking thread.

\* Thread::CreateNativeThread: the parent allocates the Thread and publishes it
\* in nativePeer without holding thread_list_lock_, then starts the pthread.
CreateNativeThread ==
  /\ pc = "unborn"
  /\ pc' = "created"
  /\ park_state' = kNoPermit
  /\ nativePeer' = TRUE
  /\ exists' = TRUE
  /\ UNCHANGED <<unparkedBeforeStart, thread_list_lock_, upc>>

\* JNIEnvExt::Create or pthread_create fails: the parent deletes the Thread.
DeleteStillborn ==
  /\ pc = "created"
  /\ pc' = "create_failed"
  /\ exists' = FALSE
  /\ UNCHANGED <<park_state, nativePeer, unparkedBeforeStart, thread_list_lock_, upc>>

\* Only then is nativePeer reset.  The java.lang.Thread may be started again.
ResetStillbornPeer ==
  /\ pc = "create_failed"
  /\ pc' = "unborn"
  /\ nativePeer' = FALSE
  /\ UNCHANGED <<park_state, unparkedBeforeStart, exists, thread_list_lock_, upc>>

\* Thread::Init ends in ThreadList::Register, which takes thread_list_lock_.
Register ==
  /\ pc = "created"
  /\ thread_list_lock_ = NoThread
  /\ pc' = "registered"
  /\ UNCHANGED <<threadVars, thread_list_lock_, upc>>

\* Thread::CreateCallback reads unparkedBeforeStart under thread_list_lock_.
CheckUnparkedBeforeStart ==
  /\ pc = "registered"
  /\ thread_list_lock_ = NoThread
  /\ pc' = IF unparkedBeforeStart THEN "unpark_self" ELSE "run"
  /\ UNCHANGED <<threadVars, thread_list_lock_, upc>>

UnparkSelf ==
  /\ pc = "unpark_self"
  /\ pc' = "run"
  /\ park_state' = kPermitAvailable
  /\ UNCHANGED <<nativePeer, unparkedBeforeStart, exists, thread_list_lock_, upc>>

\* Thread::Destroy resets nativePeer before the thread leaves the list.
Destroy ==
  /\ pc = "run"
  /\ pc' = "destroyed"
  /\ nativePeer' = FALSE
  /\ UNCHANGED <<park_state, unparkedBeforeStart, exists, thread_list_lock_, upc>>

\* Mutant: the list lock is not taken before the thread is deleted.
UnregisterUnlocked ==
  /\ pc = "destroyed"
  /\ pc' = "deleted"
  /\ exists' = FALSE
  /\ UNCHANGED <<park_state, nativePeer, unparkedBeforeStart, thread_list_lock_, upc>>

\* ThreadList::Unregister takes the thread off the list under thread_list_lock_
\* and deletes it.
Unregister ==
  /\ pc = "destroyed"
  /\ thread_list_lock_ = NoThread
  /\ pc' = "deleted"
  /\ exists' = FALSE
  /\ UNCHANGED <<park_state, nativePeer, unparkedBeforeStart, thread_list_lock_, upc>>

-------------------------------------------------------------------------------
\* Thread::Park.

\* fetch_add consumes the permit, or marks the thread as waiting.
ParkFetchAdd ==
  /\ pc = "run"
  /\ park_state' = park_state + 1
  /\ pc' = IF park_state = kNoPermit THEN "blocking" ELSE "run"
  /\ UNCHANGED <<nativePeer, unparkedBeforeStart, exists, thread_list_lock_, upc>>

\* FUTEX_WAIT sleeps if the word still says that a waiter is waiting, and
\* otherwise returns EAGAIN.  The state is kWaiting or kTimedWaiting.
ParkFutexWait(state) ==
  /\ pc = "blocking"
  /\ pc' = IF park_state = kNoPermitWaiterWaiting THEN state ELSE "woken"
  /\ UNCHANGED <<threadVars, thread_list_lock_, upc>>

\* A time that is not positive, and not the untimed park's zero: no futex call.
ParkNoWait ==
  /\ pc = "blocking"
  /\ pc' = "woken"
  /\ UNCHANGED <<threadVars, thread_list_lock_, upc>>

ParkTimeout ==
  /\ pc = "timed_waiting"
  /\ pc' = "woken"
  /\ UNCHANGED <<threadVars, thread_list_lock_, upc>>

\* EINTR: park() is allowed to return spuriously.
ParkInterrupted ==
  /\ pc \in {"waiting", "timed_waiting"}
  /\ pc' = "woken"
  /\ UNCHANGED <<threadVars, thread_list_lock_, upc>>

\* Mark as no longer waiting, and consume the permit if there is one.
ParkStore ==
  /\ pc = "woken"
  /\ park_state' = kNoPermit
  /\ pc' = "run"
  /\ UNCHANGED <<nativePeer, unparkedBeforeStart, exists, thread_list_lock_, upc>>

-------------------------------------------------------------------------------
\* Unsafe_unpark, which holds thread_list_lock_ throughout, and Thread::Unpark.

UnparkLock(u) ==
  /\ upc[u] = "idle"
  /\ thread_list_lock_ = NoThread
  /\ thread_list_lock_' = u
  /\ upc' = [upc EXCEPT ![u] = "locked"]
  /\ UNCHANGED <<threadVars, pc>>

\* Thread::FromManagedThread reads nativePeer.
UnparkReadPeer(u) ==
  /\ upc[u] = "locked"
  /\ upc' = [upc EXCEPT ![u] = IF nativePeer THEN "exchange" ELSE "no_peer"]
  /\ UNCHANGED <<threadVars, pc, thread_list_lock_>>

UnparkBeforeStart(u) ==
  /\ upc[u] = "no_peer"
  /\ unparkedBeforeStart' = TRUE
  /\ upc' = [upc EXCEPT ![u] = "unlock"]
  /\ UNCHANGED <<park_state, nativePeer, exists, pc, thread_list_lock_>>

\* Mutant: the wake-up is sent when no thread was waiting, and only then.
UnparkExchangeNoWake(u) ==
  /\ upc[u] = "exchange"
  /\ park_state' = kPermitAvailable
  /\ upc' = [upc EXCEPT ![u] = IF park_state = kNoPermit THEN "wake" ELSE "unlock"]
  /\ UNCHANGED <<nativePeer, unparkedBeforeStart, exists, pc, thread_list_lock_>>

UnparkExchange(u) ==
  /\ upc[u] = "exchange"
  /\ park_state' = kPermitAvailable
  /\ upc' = [upc EXCEPT ![u] =
               IF park_state = kNoPermitWaiterWaiting THEN "wake" ELSE "unlock"]
  /\ UNCHANGED <<nativePeer, unparkedBeforeStart, exists, pc, thread_list_lock_>>

\* FUTEX_WAKE of one waiter; it finds none if the thread is not (or no longer)
\* in the kernel.
UnparkWake(u) ==
  /\ upc[u] = "wake"
  /\ upc' = [upc EXCEPT ![u] = "unlock"]
  /\ pc' = IF pc \in {"waiting", "timed_waiting"} THEN "woken" ELSE pc
  /\ UNCHANGED <<threadVars, thread_list_lock_>>

UnparkUnlock(u) ==
  /\ upc[u] = "unlock"
  /\ thread_list_lock_' = NoThread
  /\ upc' = [upc EXCEPT ![u] = "idle"]
  /\ UNCHANGED <<threadVars, pc>>

-------------------------------------------------------------------------------
ParkReturns ==
  \/ \E state \in {"waiting", "timed_waiting"} : ParkFutexWait(state)
  \/ ParkStore

ThreadStep ==
  \/ CreateNativeThread \/ DeleteStillborn \/ ResetStillbornPeer
  \/ Register \/ CheckUnparkedBeforeStart \/ UnparkSelf
  \/ Destroy \/ Unregister
  \/ ParkFetchAdd \/ ParkReturns \/ ParkNoWait \/ ParkTimeout \/ ParkInterrupted

UnparkerStep(u) ==
  \/ UnparkLock(u) \/ UnparkReadPeer(u) \/ UnparkBeforeStart(u)
  \/ UnparkExchange(u) \/ UnparkWake(u) \/ UnparkUnlock(u)

Next == ThreadStep \/ \E u \in Unparkers : UnparkerStep(u)

\* The scheduler runs a thread that is inside Park and not asleep, and an
\* unparker that has taken the lock; nobody is obliged to call either function,
\* and neither a timeout nor a signal is relied on.
Fairness ==
  /\ WF_vars(ParkReturns)
  /\ \A u \in Unparkers : WF_vars(UnparkerStep(u) /\ upc[u] # "idle")

Spec == Init /\ [][Next]_vars /\ Fairness

-------------------------------------------------------------------------------
\* The abstract state the code stands for.  Until the new thread has looked at
\* unparkedBeforeStart that field holds the permit too.
statusBar ==
  CASE pc \in {"unborn", "created", "create_failed", "registered", "unpark_self"} -> "new"
    [] pc = "run" -> "running"
    [] pc \in {"blocking", "waiting", "timed_waiting", "woken"} -> "parked"
    [] OTHER -> "done"

permitBar ==
  /\ statusBar # "done"
  /\ \/ park_state = kPermitAvailable
     \/ pc = "unpark_self"
     \/ pc \in {"unborn", "created", "create_failed", "registered"} /\ unparkedBeforeStart

callingBar == {u \in Unparkers : upc[u] \in {"locked", "no_peer", "exchange"}}

Abstract == INSTANCE LockSupport
              WITH status <- statusBar, permit <- permitBar, calling <- callingBar

\* Park and Unpark implement LockSupport: no unpark is lost, before the thread
\* starts, while it decides to block or while it returns; a park blocks only
\* without a permit; and a blocked park that has been given one returns.
ImplementsLockSupport == Abstract!Spec

\* Unsafe_unpark never touches the park state of a Thread that Unregister has
\* deleted: nativePeer is reset before, and both sides hold thread_list_lock_.
UnparkTouchesLiveThread ==
  \A u \in Unparkers : upc[u] \in {"exchange", "wake"} => pc # "deleted"

\* "if we have a result it is either suspended or we hold the thread_list_lock_
\* to stop it from going away" (Thread::FromManagedThread): the Thread that
\* Unsafe_unpark finds is there until it releases the lock.
FoundThreadStays ==
  \A u \in Unparkers : upc[u] \in {"exchange", "wake"} => exists
===============================================================================
