--------------------------- MODULE ReaderWriterMutex ---------------------------
(***************************************************************************)
(* ReaderWriterMutex (runtime/base/mutex.cc) in its futex build.  state_   *)
(* is -1 for a writer, else the number of readers.  Unlike in Mutex the    *)
(* contenders are counted in a word of their own, so an unlock changes     *)
(* state_ first and looks for contenders in a later step, while a          *)
(* contender counts itself first and compares state_ in a later step.      *)
(***************************************************************************)
EXTENDS Integers, FiniteSets

CONSTANTS
  Threads,
  NoThread,
  MaxCalls,     \* bound: lock calls of all threads together
  MaxInterrupts \* bound: futex waits that end by EINTR

VARIABLES
  state_,
  num_contenders_,
  exclusive_owner_,
  pc,
  mode,         \* what the thread's call asks for
  cur_state,    \* each thread's last copy of state_
  calls,
  interrupts

Mode == {"exclusive", "timed", "shared"}

vars == <<state_, num_contenders_, exclusive_owner_, pc, mode, cur_state, calls, interrupts>>

Init ==
  /\ state_ = 0
  /\ num_contenders_ = 0
  /\ exclusive_owner_ = NoThread
  /\ pc = [t \in Threads |-> "idle"]
  /\ mode = [t \in Threads |-> "shared"]
  /\ cur_state = [t \in Threads |-> 0]
  /\ calls = 0
  /\ interrupts = 0

Goto(t, label) == pc' = [pc EXCEPT ![t] = label]

\* The value of state_ with which t's call can have the lock.
CanTake(t) == IF mode[t] = "shared" THEN state_ >= 0 ELSE state_ = 0

\* ExclusiveLock, ExclusiveLockWithTimeout and SharedLock are entered.
Enter(t, m) ==
  /\ pc[t] = "idle"
  /\ calls < MaxCalls
  /\ calls' = calls + 1
  /\ mode' = [mode EXCEPT ![t] = m]
  /\ Goto(t, "lock")
  /\ UNCHANGED <<state_, num_contenders_, exclusive_owner_, cur_state, interrupts>>

ExclusiveLock(t) == Enter(t, "exclusive")
ExclusiveLockWithTimeout(t) == Enter(t, "timed")
SharedLock(t) == Enter(t, "shared")

\* Mutant: a writer only looks whether there is another writer.
TakeFromReaders(t) ==
  /\ pc[t] = "lock"
  /\ state_ >= 0
  /\ state_' = IF mode[t] = "shared" THEN state_ + 1 ELSE -1
  /\ Goto(t, IF mode[t] = "shared" THEN "shared" ELSE "own")
  /\ UNCHANGED <<num_contenders_, exclusive_owner_, mode, cur_state, calls, interrupts>>

\* The compare-and-set takes the lock.
Take(t) ==
  /\ pc[t] = "lock"
  /\ CanTake(t)
  /\ state_' = IF mode[t] = "shared" THEN state_ + 1 ELSE -1
  /\ Goto(t, IF mode[t] = "shared" THEN "shared" ELSE "own")
  /\ UNCHANGED <<num_contenders_, exclusive_owner_, mode, cur_state, calls, interrupts>>

\* SharedTryLock; it returns false while there is a writer.
SharedTryLock(t) ==
  /\ pc[t] = "idle"
  /\ calls < MaxCalls
  /\ state_ >= 0
  /\ calls' = calls + 1
  /\ state_' = state_ + 1
  /\ Goto(t, "shared")
  /\ UNCHANGED <<num_contenders_, exclusive_owner_, mode, cur_state, interrupts>>

\* The lock is taken, and is so until WaitBrieflyFor gives up.
SeeTaken(t) ==
  /\ pc[t] = "lock"
  /\ ~CanTake(t)
  /\ cur_state' = [cur_state EXCEPT ![t] = state_]
  /\ Goto(t, "contend")
  /\ UNCHANGED <<state_, num_contenders_, exclusive_owner_, mode, calls, interrupts>>

Contend(t) ==
  /\ pc[t] = "contend"
  /\ num_contenders_' = num_contenders_ + 1
  /\ Goto(t, "futex_wait")
  /\ UNCHANGED <<state_, exclusive_owner_, mode, cur_state, calls, interrupts>>

\* FUTEX_WAIT on state_: sleep while it is cur_state, else EAGAIN.
FutexWait(t) ==
  /\ pc[t] = "futex_wait"
  /\ cur_state' = [cur_state EXCEPT ![t] = 0]
  /\ Goto(t, IF state_ = cur_state[t] THEN "sleep" ELSE "leave")
  /\ UNCHANGED <<state_, num_contenders_, exclusive_owner_, mode, calls, interrupts>>

\* Back to the loop's start, or out of it with false once the time is up.
Leave(t) ==
  /\ pc[t] \in {"leave", "give_up"}
  /\ num_contenders_' = num_contenders_ - 1
  /\ Goto(t, IF pc[t] = "leave" THEN "lock" ELSE "idle")
  /\ UNCHANGED <<state_, exclusive_owner_, mode, cur_state, calls, interrupts>>

\* The writer records itself.
Own(t) ==
  /\ pc[t] = "own"
  /\ exclusive_owner_' = t
  /\ Goto(t, "exclusive")
  /\ UNCHANGED <<state_, num_contenders_, mode, cur_state, calls, interrupts>>

\* ExclusiveUnlock up to its successful compare-and-set.
ExclusiveUnlock(t) ==
  /\ pc[t] = "exclusive"
  /\ exclusive_owner_' = NoThread
  /\ state_' = 0
  /\ Goto(t, "check")
  /\ UNCHANGED <<num_contenders_, mode, cur_state, calls, interrupts>>

\* Mutant: off by one, the last reader is not recognised.
SharedUnlockNotLast(t) ==
  /\ pc[t] = "shared"
  /\ state_' = state_ - 1
  /\ Goto(t, IF state_ = 0 THEN "check" ELSE "idle")
  /\ UNCHANGED <<num_contenders_, exclusive_owner_, mode, cur_state, calls, interrupts>>

\* SharedUnlock up to its successful compare-and-set: only the last reader goes
\* on to look for contenders.
SharedUnlock(t) ==
  /\ pc[t] = "shared"
  /\ state_' = state_ - 1
  /\ Goto(t, IF state_ = 1 THEN "check" ELSE "idle")
  /\ UNCHANGED <<num_contenders_, exclusive_owner_, mode, cur_state, calls, interrupts>>

\* The load of num_contenders_ after the compare-and-set.
CheckContenders(t) ==
  /\ pc[t] = "check"
  /\ Goto(t, IF num_contenders_ > 0 THEN "wake" ELSE "idle")
  /\ UNCHANGED <<state_, num_contenders_, exclusive_owner_, mode, cur_state, calls, interrupts>>

Sleepers == {t \in Threads : pc[t] = "sleep"}

\* FUTEX_WAKE of kWakeAll threads.
Wake(t) ==
  /\ pc[t] = "wake"
  /\ pc' = [u \in Threads |-> IF u \in Sleepers THEN "leave" ELSE IF u = t THEN "idle" ELSE pc[u]]
  /\ UNCHANGED <<state_, num_contenders_, exclusive_owner_, mode, cur_state, calls, interrupts>>

\* A futex wait ends by EINTR.
Interrupt(t) ==
  /\ pc[t] = "sleep"
  /\ interrupts < MaxInterrupts
  /\ interrupts' = interrupts + 1
  /\ Goto(t, "leave")
  /\ UNCHANGED <<state_, num_contenders_, exclusive_owner_, mode, cur_state, calls>>

\* The time of ExclusiveLockWithTimeout is up, asleep or before it tries again.
TimeOut(t) ==
  /\ mode[t] = "timed"
  /\ \/ pc[t] = "lock" /\ state_ # 0 /\ Goto(t, "idle")
     \/ pc[t] = "sleep" /\ Goto(t, "give_up")
  /\ UNCHANGED <<state_, num_contenders_, exclusive_owner_, mode, cur_state, calls, interrupts>>

Step(t) ==
  \/ Take(t) \/ SeeTaken(t) \/ Contend(t) \/ FutexWait(t) \/ Leave(t) \/ Own(t)
  \/ CheckContenders(t) \/ Wake(t)

Next ==
  \E t \in Threads :
    \/ Step(t)
    \/ ExclusiveLock(t) \/ ExclusiveLockWithTimeout(t) \/ SharedLock(t) \/ SharedTryLock(t)
    \/ ExclusiveUnlock(t) \/ SharedUnlock(t) \/ Interrupt(t) \/ TimeOut(t)

Spec == Init /\ [][Next]_vars

-------------------------------------------------------------------------------
\* Properties

Readers == {t \in Threads : pc[t] = "shared"}
Writers == {t \in Threads : pc[t] \in {"own", "exclusive"}}

\* A thread that sleeps although it could have the lock - a reader while there
\* is no writer, a writer while there is nobody - is about to be woken: some
\* unlocking thread has yet to look at num_contenders_ or to call FUTEX_WAKE.
\* This is why "the num_contenders_ load below musn't reorder before the
\* CompareAndSet" in SharedUnlock and ExclusiveUnlock.
SleeperIsWoken ==
  (\E t \in Sleepers : CanTake(t)) => \E u \in Threads : pc[u] \in {"check", "wake"}

\* Readers exclude writers and writers each other, whatever interleaving of
\* lock, try-lock, time-out and unlock: the lock implements the reader-writer
\* lock that its users rely on.  state_ is what it is documented to be.
Abstract ==
  INSTANCE MutatorLock WITH
    Thread <- Threads,
    readers <- Readers,
    writer <- IF Writers = {} THEN NoThread ELSE CHOOSE t \in Writers : TRUE

StateIsUsers == state_ = IF Writers # {} THEN -Cardinality(Writers) ELSE Cardinality(Readers)

ImplementsReaderWriterLock == Abstract!Spec /\ []StateIsUsers
===============================================================================
