--------------------------------- MODULE Mutex ---------------------------------
(***************************************************************************)
(* Mutex and ConditionVariable (runtime/base/mutex.cc) in their futex      *)
(* build: one mutex, one condition variable that it guards, and any number *)
(* of threads that lock, try to lock, wait, signal, broadcast and unlock   *)
(* in any order.  The word state_and_contenders_ has the held bit and the  *)
(* number of contenders as two fields; the futex queues are the threads    *)
(* whose program counter says that they sleep on that word.                *)
(*                                                                         *)
(* A load of the word followed by a compare-and-set that succeeds is one   *)
(* step, as a compare-and-set that fails only starts the loop again.       *)
(* sequence_ is seen only through "is it still what I read": unnotified is *)
(* the set of waiters for which it is (wrap-around of the 32-bit counter   *)
(* between a waiter's load and its futex call is not modelled).            *)
(***************************************************************************)
EXTENDS Naturals, FiniteSets

CONSTANTS
  Threads,      \* the threads that use the mutex
  NoThread,     \* exclusive_owner_ of a mutex without an owner
  Recursive,    \* recursive_
  MaxDepth,     \* bound: how often the owner of a recursive mutex locks it
  MaxCalls,     \* bound: how many operations the threads start together
  MaxInterrupts \* bound: how many futex waits end by EINTR or a time-out

ASSUME MutexAssumption ==
  /\ IsFiniteSet(Threads)
  /\ NoThread \notin Threads
  /\ Recursive \in BOOLEAN
  /\ MaxDepth \in Nat \ {0}
  /\ MaxCalls \in Nat
  /\ MaxInterrupts \in Nat

VARIABLES
  state_and_contenders_,  \* [held, contenders]
  exclusive_owner_,
  recursion_count_,
  num_waiters_,           \* of the condition variable
  pc,                     \* where each thread is
  cur_state,              \* each thread's last copy of state_and_contenders_
  waits,                  \* the threads inside ConditionVariable::Wait
  unnotified,             \* those of them whose cur_sequence is still sequence_
  old_recursion_count,    \* each thread's local of that name in Wait
  depth,                  \* history: locks minus unlocks the thread has made
  calls,                  \* operations the threads have started
  interrupts              \* futex waits ended by EINTR or a time-out

word == state_and_contenders_
client == <<depth, calls>>
condition == <<num_waiters_, waits, unnotified, old_recursion_count>>
owner == <<exclusive_owner_, recursion_count_>>
vars == <<state_and_contenders_, owner, pc, cur_state, condition, client, interrupts>>

Locking == {"lock", "contend", "futex_wait", "recheck", "decrement"}
Contending == {"futex_wait", "lock_sleep", "recheck", "decrement"}
Holding == {"own", "held", "requeue_one", "requeue_all", "release", "cv_exit"}

PC == Locking \union Holding
        \union {"idle", "lock_sleep", "wake", "cv_futex", "cv_sleep", "cv_requeued"}

TypeOK ==
  /\ state_and_contenders_ \in [held : BOOLEAN, contenders : Nat]
  /\ exclusive_owner_ \in Threads \union {NoThread}
  /\ recursion_count_ \in Nat
  /\ num_waiters_ \in Nat
  /\ pc \in [Threads -> PC]
  /\ cur_state \in [Threads -> [held : BOOLEAN, contenders : Nat]]
  /\ waits \subseteq Threads
  /\ unnotified \subseteq Threads
  /\ old_recursion_count \in [Threads -> Nat]
  /\ depth \in [Threads -> Nat]
  /\ calls \in Nat
  /\ interrupts \in Nat

Free == [held |-> FALSE, contenders |-> 0]

Init ==
  /\ state_and_contenders_ = Free
  /\ exclusive_owner_ = NoThread
  /\ recursion_count_ = 0
  /\ num_waiters_ = 0
  /\ pc = [t \in Threads |-> "idle"]
  /\ cur_state = [t \in Threads |-> Free]
  /\ waits = {}
  /\ unnotified = {}
  /\ old_recursion_count = [t \in Threads |-> 0]
  /\ depth = [t \in Threads |-> 0]
  /\ calls = 0
  /\ interrupts = 0

Goto(t, label) == pc' = [pc EXCEPT ![t] = label]

\* A client starts one more operation.
Call ==
  /\ calls < MaxCalls
  /\ calls' = calls + 1

increment_contenders ==
  state_and_contenders_' = [state_and_contenders_ EXCEPT !.contenders = @ + 1]

decrement_contenders ==
  state_and_contenders_' = [state_and_contenders_ EXCEPT !.contenders = @ - 1]

-------------------------------------------------------------------------------
\* Mutex::ExclusiveLock

\* A thread that does not own the mutex enters ExclusiveLock.
ExclusiveLock(t) ==
  /\ pc[t] = "idle"
  /\ Call
  /\ Goto(t, "lock")
  /\ UNCHANGED <<state_and_contenders_, owner, cur_state, condition, depth, interrupts>>

\* The owner of a recursive mutex locks it again: IsExclusiveHeld, so only the
\* count changes.
LockAgain(t) ==
  /\ pc[t] = "held"
  /\ Recursive
  /\ depth[t] < MaxDepth
  /\ Call
  /\ recursion_count_' = recursion_count_ + 1
  /\ depth' = [depth EXCEPT ![t] = @ + 1]
  /\ UNCHANGED <<state_and_contenders_, exclusive_owner_, pc, cur_state, condition, interrupts>>

\* Mutant: the word is stored without the test of the held bit.
AcquireByStore(t) ==
  /\ pc[t] = "lock"
  /\ state_and_contenders_' = [state_and_contenders_ EXCEPT !.held = TRUE]
  /\ Goto(t, "own")
  /\ UNCHANGED <<owner, cur_state, condition, client, interrupts>>

\* The word is not held and the compare-and-set takes it.
Acquire(t) ==
  /\ pc[t] = "lock"
  /\ ~word.held
  /\ state_and_contenders_' = [state_and_contenders_ EXCEPT !.held = TRUE]
  /\ Goto(t, "own")
  /\ UNCHANGED <<owner, cur_state, condition, client, interrupts>>

\* The word is held and stays so for all of WaitBrieflyFor.
SeeHeld(t) ==
  /\ pc[t] = "lock"
  /\ word.held
  /\ cur_state' = [cur_state EXCEPT ![t] = word]
  /\ Goto(t, "contend")
  /\ UNCHANGED <<state_and_contenders_, owner, condition, client, interrupts>>

\* Count as a contender and adjust the local copy to match.
Contend(t) ==
  /\ pc[t] = "contend"
  /\ increment_contenders
  /\ cur_state' = [cur_state EXCEPT ![t].contenders = @ + 1]
  /\ Goto(t, "futex_wait")
  /\ UNCHANGED <<owner, condition, client, interrupts>>

\* FUTEX_WAIT on the word: sleep if it still equals cur_state, else EAGAIN.
FutexWait(t) ==
  /\ pc[t] = "futex_wait"
  /\ Goto(t, IF word = cur_state[t] THEN "lock_sleep" ELSE "recheck")
  /\ UNCHANGED <<state_and_contenders_, owner, cur_state, condition, client, interrupts>>

\* Load the word again: wait on while it is held.
Recheck(t) ==
  /\ pc[t] = "recheck"
  /\ cur_state' = [cur_state EXCEPT ![t] = word]
  /\ Goto(t, IF word.held THEN "futex_wait" ELSE "decrement")
  /\ UNCHANGED <<state_and_contenders_, owner, condition, client, interrupts>>

\* Stop counting as a contender and start over; cur_state goes out of scope.
Decrement(t) ==
  /\ pc[t] = "decrement"
  /\ decrement_contenders
  /\ cur_state' = [cur_state EXCEPT ![t] = Free]
  /\ Goto(t, "lock")
  /\ UNCHANGED <<owner, condition, client, interrupts>>

\* The word is taken: record the owner and count the lock.
Own(t) ==
  /\ pc[t] = "own"
  /\ exclusive_owner_' = t
  /\ recursion_count_' = recursion_count_ + 1
  /\ depth' = [depth EXCEPT ![t] = IF t \in waits THEN @ ELSE @ + 1]
  /\ Goto(t, IF t \in waits THEN "cv_exit" ELSE "held")
  /\ UNCHANGED <<state_and_contenders_, cur_state, condition, calls, interrupts>>

\* ExclusiveTryLock, and ExclusiveTryLockWithSpinning, which repeats it: a free
\* mutex is taken, one that is held makes the call return false.
ExclusiveTryLock(t) ==
  /\ pc[t] = "idle"
  /\ ~word.held
  /\ Call
  /\ state_and_contenders_' = [state_and_contenders_ EXCEPT !.held = TRUE]
  /\ Goto(t, "own")
  /\ UNCHANGED <<owner, cur_state, condition, depth, interrupts>>

-------------------------------------------------------------------------------
\* Mutex::ExclusiveUnlock

\* The first half of ExclusiveUnlock: drop the count; the last lock also gives
\* up exclusive_owner_.
ExclusiveUnlock(t) ==
  /\ pc[t] = "held"
  /\ recursion_count_' = recursion_count_ - 1
  /\ depth' = [depth EXCEPT ![t] = @ - 1]
  /\ IF ~Recursive \/ recursion_count_ = 1
       THEN /\ exclusive_owner_' = NoThread
            /\ Goto(t, "release")
       ELSE UNCHANGED <<exclusive_owner_, pc>>
  /\ UNCHANGED <<state_and_contenders_, cur_state, condition, calls, interrupts>>

\* Where a thread goes on after the unlock.
AfterUnlock(t) == IF t \in waits THEN "cv_futex" ELSE "idle"

\* Mutant: a single contender is not woken.
ReleaseOneContender(t) ==
  /\ pc[t] = "release"
  /\ state_and_contenders_' = [state_and_contenders_ EXCEPT !.held = FALSE]
  /\ Goto(t, IF word.contenders > 1 THEN "wake" ELSE AfterUnlock(t))
  /\ UNCHANGED <<owner, cur_state, condition, client, interrupts>>

\* Clear the held bit; the contender count of that same compare-and-set decides
\* whether there is somebody to wake.
Release(t) ==
  /\ pc[t] = "release"
  /\ state_and_contenders_' = [state_and_contenders_ EXCEPT !.held = FALSE]
  /\ Goto(t, IF word.contenders # 0 THEN "wake" ELSE AfterUnlock(t))
  /\ UNCHANGED <<owner, cur_state, condition, client, interrupts>>

\* The threads asleep on the mutex's futex: those that contend for it and those
\* that a signal moved there.
Sleepers == {t \in Threads : pc[t] \in {"lock_sleep", "cv_requeued"}}

\* Where a thread goes when its sleep ends.
Woken(u) == IF pc[u] = "lock_sleep" THEN "recheck" ELSE "lock"

\* FUTEX_WAKE of kWakeOne thread.
Wake(t) ==
  /\ pc[t] = "wake"
  /\ \/ /\ Sleepers = {}
        /\ Goto(t, AfterUnlock(t))
     \/ \E u \in Sleepers :
          pc' = [pc EXCEPT ![t] = AfterUnlock(t), ![u] = Woken(u)]
  /\ UNCHANGED <<state_and_contenders_, owner, cur_state, condition, client, interrupts>>

-------------------------------------------------------------------------------
\* ConditionVariable

\* Mutant: the waiter does not count as a contender of the mutex until it has
\* it again.
WaitNotContender(t) ==
  /\ pc[t] = "held"
  /\ Call
  /\ num_waiters_' = num_waiters_ + 1
  /\ old_recursion_count' = [old_recursion_count EXCEPT ![t] = recursion_count_]
  /\ recursion_count_' = 0
  /\ exclusive_owner_' = NoThread
  /\ waits' = waits \union {t}
  /\ unnotified' = unnotified \union {t}
  /\ Goto(t, "release")
  /\ UNCHANGED <<state_and_contenders_, cur_state, depth, interrupts>>

\* WaitHoldingLocks and TimedWait up to the unlock: count as a waiter of the
\* condition and as a contender of the mutex, note sequence_, and start the
\* unlock with a recursion count of one.
Wait(t) ==
  /\ pc[t] = "held"
  /\ Call
  /\ num_waiters_' = num_waiters_ + 1
  /\ increment_contenders
  /\ old_recursion_count' = [old_recursion_count EXCEPT ![t] = recursion_count_]
  /\ recursion_count_' = 0
  /\ exclusive_owner_' = NoThread
  /\ waits' = waits \union {t}
  /\ unnotified' = unnotified \union {t}
  /\ Goto(t, "release")
  /\ UNCHANGED <<cur_state, depth, interrupts>>

\* Mutant: a waiter that gets EAGAIN returns as if it had the mutex.
CvFutexWaitReturns(t) ==
  /\ pc[t] = "cv_futex"
  /\ Goto(t, IF t \in unnotified THEN "cv_sleep" ELSE "cv_exit")
  /\ UNCHANGED <<state_and_contenders_, owner, cur_state, condition, client, interrupts>>

\* FUTEX_WAIT on sequence_.
CvFutexWait(t) ==
  /\ pc[t] = "cv_futex"
  /\ Goto(t, IF t \in unnotified THEN "cv_sleep" ELSE "lock")
  /\ UNCHANGED <<state_and_contenders_, owner, cur_state, condition, client, interrupts>>

\* The mutex is locked again: the waiter is neither a waiter nor a contender
\* any more, and the recursion count is what it was.
CvExit(t) ==
  /\ pc[t] = "cv_exit"
  /\ num_waiters_' = num_waiters_ - 1
  /\ decrement_contenders
  /\ recursion_count_' = old_recursion_count[t]
  /\ old_recursion_count' = [old_recursion_count EXCEPT ![t] = 0]
  /\ waits' = waits \ {t}
  /\ unnotified' = unnotified \ {t}
  /\ Goto(t, "held")
  /\ UNCHANGED <<exclusive_owner_, cur_state, client, interrupts>>

\* Mutant: sequence_ is not changed.
RequeueWaitersNoSequence(t, label) ==
  /\ pc[t] = "held"
  /\ Call
  /\ Goto(t, IF num_waiters_ > 0 THEN label ELSE "held")
  /\ UNCHANGED <<state_and_contenders_, owner, cur_state, condition, depth, interrupts>>

\* Signal and Broadcast begin RequeueWaiters: if somebody waits, change
\* sequence_, which every waiter that has not slept yet will see.
RequeueWaiters(t, label) ==
  /\ pc[t] = "held"
  /\ Call
  /\ IF num_waiters_ > 0
       THEN /\ unnotified' = {}
            /\ Goto(t, label)
       ELSE UNCHANGED <<unnotified, pc>>
  /\ UNCHANGED <<state_and_contenders_, owner, cur_state, num_waiters_, waits,
                 old_recursion_count, depth, interrupts>>

Signal(t) == RequeueWaiters(t, "requeue_one")
Broadcast(t) == RequeueWaiters(t, "requeue_all")

CvSleepers == {t \in Threads : pc[t] = "cv_sleep"}

\* FUTEX_REQUEUE: wake nobody, move one sleeper or all of them to the mutex.
Requeue(t) ==
  /\ \/ /\ pc[t] = "requeue_one"
        /\ \/ CvSleepers = {} /\ Goto(t, "held")
           \/ \E u \in CvSleepers : pc' = [pc EXCEPT ![t] = "held", ![u] = "cv_requeued"]
     \/ /\ pc[t] = "requeue_all"
        /\ pc' = [u \in Threads |-> IF u \in CvSleepers THEN "cv_requeued"
                                     ELSE IF u = t THEN "held" ELSE pc[u]]
  /\ UNCHANGED <<state_and_contenders_, owner, cur_state, condition, client, interrupts>>

\* A futex wait ends without a wake-up: EINTR, or the time-out of TimedWait or
\* of the monitor contention log.
Interrupt(t) ==
  /\ pc[t] \in {"lock_sleep", "cv_sleep", "cv_requeued"}
  /\ interrupts < MaxInterrupts
  /\ interrupts' = interrupts + 1
  /\ Goto(t, Woken(t))
  /\ UNCHANGED <<state_and_contenders_, owner, cur_state, condition, client>>

-------------------------------------------------------------------------------
\* The steps that a thread inside an operation takes by itself.
Step(t) ==
  \/ Acquire(t) \/ SeeHeld(t) \/ Contend(t) \/ FutexWait(t) \/ Recheck(t)
  \/ Decrement(t) \/ Own(t) \/ Release(t) \/ Wake(t) \/ CvFutexWait(t)
  \/ CvExit(t) \/ Requeue(t)

\* The operations a client may start.
Start(t) ==
  \/ ExclusiveLock(t) \/ ExclusiveTryLock(t) \/ LockAgain(t)
  \/ Wait(t) \/ Signal(t) \/ Broadcast(t)

Next == \E t \in Threads : Step(t) \/ Start(t) \/ ExclusiveUnlock(t) \/ Interrupt(t)

Spec == Init /\ [][Next]_vars

\* A thread in an operation runs on, and an owner unlocks in the end.
Fairness == \A t \in Threads : WF_vars(Step(t)) /\ WF_vars(ExclusiveUnlock(t))

-------------------------------------------------------------------------------
\* Properties

\* ExclusiveLock and ExclusiveTryLock give the mutex to one thread at a time,
\* and exclusive_owner_, which IsExclusiveHeld reads, names it from the time the
\* call returns to the time ExclusiveUnlock or Wait is entered.  Its count is one
\* per lock not yet undone, also after a Wait, which resets the count for the
\* threads that use the mutex meanwhile.
MutualExclusion ==
  \A t \in Threads :
    pc[t] \in Holding =>
      /\ word.held
      /\ \A u \in Threads \ {t} : pc[u] \notin Holding
      /\ pc[t] \notin {"own", "release"} => exclusive_owner_ = t
      /\ pc[t] = "held" => recursion_count_ = depth[t]

\* The contender count that ExclusiveUnlock reads is exact: one for every thread
\* inside ExclusiveLock's futex loop and one for every thread inside Wait.
ContendersCounted ==
  /\ word.contenders = Cardinality({t \in Threads : pc[t] \in Contending}) + Cardinality(waits)
  /\ num_waiters_ = Cardinality(waits)

\* While threads sleep on the mutex's futex and nobody holds the mutex, the
\* unlocking thread is about to call FUTEX_WAKE or an awake thread is on its way
\* to take the mutex ("We only do a futex wait after incrementing contenders and
\* verifying the lock was still held").
NoLostWakeup ==
  ~word.held /\ Sleepers # {} => \E t \in Threads : pc[t] \in Locking \union {"wake"}

\* The threads that wait for a notification.
Waiting ==
  {t \in waits : pc[t] = "cv_sleep" \/ (pc[t] \in {"wake", "cv_futex"} /\ t \in unnotified)}

\* When Broadcast returns nobody waits for a notification any more, and when
\* Signal returns one thread less does; also those that had released the mutex
\* but had not reached the futex call.
NotificationReaches ==
  [][\A t \in Threads :
       /\ pc[t] = "requeue_all" /\ pc'[t] = "held" => Waiting' = {}
       /\ pc[t] = "requeue_one" /\ pc'[t] = "held" =>
            Waiting' = {} \/ Cardinality(Waiting') < Cardinality(Waiting)]_vars

\* The mutex and its condition variable implement the abstract lock.
LockOwner ==
  IF \E t \in Threads : pc[t] \in Holding
    THEN CHOOSE t \in Threads : pc[t] \in Holding
    ELSE NoThread

Lock == INSTANCE AbstractLock WITH owner <- LockOwner, waiting <- Waiting

ImplementsLock == Lock!Spec

\* A thread in ExclusiveLock, and a waiter that was notified, gets the mutex in
\* the end, if owners unlock and clients do not keep barging in for ever.
LockReturns ==
  \A t \in Threads :
    pc[t] \in Locking \union {"lock_sleep", "cv_requeued"} ~> pc[t] \in {"held", "cv_exit"}
===============================================================================
