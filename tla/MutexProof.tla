------------------------------ MODULE MutexProof ------------------------------
(***************************************************************************)
(* Mutex is a lock and loses no wake-up, for any finite set of threads.    *)
(*                                                                         *)
(* Mutual exclusion follows from Discipline: what the place a thread is at *)
(* says about the word, the owner, the counts and the condition variable.  *)
(* That no wake-up is lost needs the contender count as well: only because *)
(* it counts every sleeper may ExclusiveUnlock skip the futex call when it *)
(* reads zero.                                                             *)
(***************************************************************************)
EXTENDS Mutex, FiniteSetTheorems, TLAPS

\* The places at which client code has the mutex locked.
User == {"held", "requeue_one", "requeue_all"}

\* Where a thread is determines what it knows: a thread about to sleep has seen
\* the mutex held, a thread inside Wait has kept the count it must restore.
Local(t) ==
  /\ pc[t] \in {"contend", "futex_wait"} => cur_state[t].held
  /\ pc[t] \in {"cv_futex", "cv_sleep", "cv_requeued", "cv_exit"} => t \in waits
  /\ pc[t] \in User \union {"idle"} => t \notin waits
  /\ t \in waits => old_recursion_count[t] = depth[t]
  /\ t \in waits \/ pc[t] \in User => depth[t] # 0 /\ (~Recursive => depth[t] = 1)
  /\ t \notin waits /\ pc[t] \notin User => depth[t] = 0

\* One thread at a time has the word, and the counts are its own.
Discipline ==
  /\ \A t \in Threads : Local(t)
  /\ \A t, u \in Threads : pc[t] \in Holding /\ pc[u] \in Holding => t = u
  /\ \A t \in Threads : pc[t] \in Holding => state_and_contenders_.held
  /\ \A t \in Threads : pc[t] \in Holding \ {"own", "release"} => exclusive_owner_ = t
  /\ \A t \in Threads : pc[t] \in User => recursion_count_ = depth[t]
  /\ (\A t \in Threads : pc[t] \notin User \union {"cv_exit"}) => recursion_count_ = 0

-------------------------------------------------------------------------------
\* What FUTEX_REQUEUE, called by t, does to u.
Moved(t, u) ==
  \/ u # t /\ pc'[u] = pc[u]
  \/ u = t /\ pc'[u] = "held"
  \/ pc[u] = "cv_sleep" /\ pc'[u] = "cv_requeued"

\* FUTEX_REQUEUE moves sleepers of the condition variable and nobody else.
LEMMA RequeueMoves ==
  ASSUME NEW t \in Threads, pc \in [Threads -> PC], Requeue(t)
  PROVE  \A u \in Threads : Moved(t, u)
<1>1. CASE pc' = [u \in Threads |-> IF u \in CvSleepers THEN "cv_requeued"
                                    ELSE IF u = t THEN "held" ELSE pc[u]]
  BY <1>1 DEF Moved, CvSleepers
<1>2. CASE Goto(t, "held")
  BY <1>2 DEF Moved, Goto
<1>3. CASE pc[t] = "requeue_one" /\ \E u \in CvSleepers :
             pc' = [pc EXCEPT ![t] = "held", ![u] = "cv_requeued"]
  BY <1>3 DEF Moved, CvSleepers
<1> QED
  BY <1>1, <1>2, <1>3 DEF Requeue

\* Every step keeps the discipline of ExclusiveLock, ExclusiveUnlock and the
\* condition variable's functions.
LEMMA DisciplineStep ==
  ASSUME TypeOK, Discipline, [Next]_vars
  PROVE  Discipline'
<1> USE MutexAssumption DEF TypeOK, Discipline, Local, User, Holding, word, owner, condition, client
<1>1. ASSUME NEW t \in Threads, Acquire(t) PROVE Discipline'
  BY <1>1 DEF Acquire, Goto
<1>2. ASSUME NEW t \in Threads, SeeHeld(t) PROVE Discipline'
  BY <1>2 DEF SeeHeld, Goto
<1>3. ASSUME NEW t \in Threads, Contend(t) PROVE Discipline'
  BY <1>3 DEF Contend, Goto, increment_contenders
<1>4. ASSUME NEW t \in Threads, FutexWait(t) PROVE Discipline'
  BY <1>4 DEF FutexWait, Goto
<1>5. ASSUME NEW t \in Threads, Recheck(t) PROVE Discipline'
  BY <1>5 DEF Recheck, Goto
<1>6. ASSUME NEW t \in Threads, Decrement(t) PROVE Discipline'
  BY <1>6 DEF Decrement, Goto, decrement_contenders
<1>7. ASSUME NEW t \in Threads, Own(t) PROVE Discipline'
  BY <1>7 DEF Own, Goto
<1>8. ASSUME NEW t \in Threads, Release(t) PROVE Discipline'
  BY <1>8 DEF Release, Goto, AfterUnlock
<1>9. ASSUME NEW t \in Threads, Wake(t) PROVE Discipline'
  BY <1>9 DEF Wake, Goto, AfterUnlock, Sleepers, Woken
<1>10. ASSUME NEW t \in Threads, CvFutexWait(t) PROVE Discipline'
  BY <1>10 DEF CvFutexWait, Goto
<1>11. ASSUME NEW t \in Threads, CvExit(t) PROVE Discipline'
  BY <1>11 DEF CvExit, Goto, decrement_contenders
<1>12. ASSUME NEW t \in Threads, Requeue(t) PROVE Discipline'
  <2>1. \A u \in Threads : Moved(t, u)
    BY <1>12, RequeueMoves
  <2>2. /\ pc[t] \in {"requeue_one", "requeue_all"}
        /\ UNCHANGED <<state_and_contenders_, owner, cur_state, condition, client>>
    BY <1>12 DEF Requeue
  <2> QED
    BY <2>1, <2>2, SMTT(30) DEF Moved
<1>13. ASSUME NEW t \in Threads, ExclusiveLock(t) PROVE Discipline'
  BY <1>13 DEF ExclusiveLock, Goto, Call
<1>14. ASSUME NEW t \in Threads, ExclusiveTryLock(t) PROVE Discipline'
  BY <1>14 DEF ExclusiveTryLock, Goto, Call
<1>15. ASSUME NEW t \in Threads, LockAgain(t) PROVE Discipline'
  BY <1>15 DEF LockAgain, Call
<1>16. ASSUME NEW t \in Threads, Wait(t) PROVE Discipline'
  BY <1>16 DEF Wait, Goto, increment_contenders, Call
<1>17. ASSUME NEW t \in Threads, Signal(t) PROVE Discipline'
  BY <1>17 DEF Signal, Goto, RequeueWaiters, Call
<1>18. ASSUME NEW t \in Threads, Broadcast(t) PROVE Discipline'
  BY <1>18 DEF Broadcast, Goto, RequeueWaiters, Call
<1>19. ASSUME NEW t \in Threads, ExclusiveUnlock(t) PROVE Discipline'
  BY <1>19 DEF ExclusiveUnlock, Goto
<1>20. ASSUME NEW t \in Threads, Interrupt(t) PROVE Discipline'
  BY <1>20 DEF Interrupt, Goto, Woken
<1>21. CASE UNCHANGED vars
  BY <1>21 DEF vars
<1> QED
  BY <1>1, <1>2, <1>3, <1>4, <1>5, <1>6, <1>7, <1>8, <1>9, <1>10, <1>11, <1>12, <1>13, <1>14, <1>15, <1>16, <1>17, <1>18, <1>19, <1>20, <1>21 DEF Next, Step, Start

-------------------------------------------------------------------------------
\* The threads inside the futex loop of ExclusiveLock.
Contenders == {t \in Threads : pc[t] \in Contending}

\* Counting one element more ...
LEMMA OneMore ==
  ASSUME NEW S, IsFiniteSet(S), NEW x, x \notin S
  PROVE  Cardinality(S \union {x}) = Cardinality(S) + 1
BY FS_AddElement

\* ... and one element less.
LEMMA OneLess ==
  ASSUME NEW S, IsFiniteSet(S), NEW x \in S
  PROVE  Cardinality(S \ {x}) = Cardinality(S) - 1 /\ Cardinality(S) - 1 \in Nat
<1>1. IsFiniteSet(S \ {x}) /\ Cardinality(S \ {x}) = Cardinality(S) - 1
  BY FS_RemoveElement
<1> QED
  BY <1>1, FS_CardinalityType

\* Every step keeps the types, and counts a thread as a contender as long as it
\* is in the futex loop or inside Wait.
LEMMA CountStep ==
  ASSUME TypeOK, Discipline, ContendersCounted, [Next]_vars
  PROVE  TypeOK' /\ ContendersCounted'
<1>1. /\ IsFiniteSet(Contenders) /\ Cardinality(Contenders) \in Nat
      /\ IsFiniteSet(waits) /\ Cardinality(waits) \in Nat
  BY MutexAssumption, FS_Subset, FS_CardinalityType DEF TypeOK, Contenders
<1>2. /\ state_and_contenders_.contenders = Cardinality(Contenders) + Cardinality(waits)
      /\ num_waiters_ = Cardinality(waits)
  BY DEF ContendersCounted, Contenders, word
<1>3. ASSUME TypeOK', Contenders' = Contenders, waits' = waits, num_waiters_' = num_waiters_,
             state_and_contenders_'.contenders = state_and_contenders_.contenders
      PROVE  ContendersCounted'
  BY <1>2, <1>3 DEF ContendersCounted, Contenders, word
<1> USE MutexAssumption DEF TypeOK, PC, Locking, Holding, word, owner, condition, client
<1>4. ASSUME NEW t \in Threads, Contend(t) PROVE TypeOK' /\ ContendersCounted'
  <2>1. TypeOK'
    BY <1>4 DEF Contend, Goto, increment_contenders
  <2>2. t \notin Contenders /\ Contenders' = Contenders \union {t}
    BY <1>4 DEF Contend, Goto, Contenders, Contending
  <2>3. Cardinality(Contenders') = Cardinality(Contenders) + 1
    BY <2>2, <1>1, OneMore
  <2> QED
    BY <1>1, <1>2, <1>4, <2>1, <2>3 DEF Contend, increment_contenders, ContendersCounted, Contenders
<1>5. ASSUME NEW t \in Threads, Decrement(t) PROVE TypeOK' /\ ContendersCounted'
  <2>1. t \in Contenders /\ Contenders' = Contenders \ {t}
    BY <1>5 DEF Decrement, Goto, Contenders, Contending
  <2>2. /\ Cardinality(Contenders') = Cardinality(Contenders) - 1
        /\ Cardinality(Contenders) - 1 \in Nat
    BY <2>1, <1>1, OneLess
  <2>3. TypeOK'
    BY <1>1, <1>2, <1>5, <2>2 DEF Decrement, Goto, decrement_contenders, Free
  <2> QED
    BY <1>1, <1>2, <1>5, <2>2, <2>3 DEF Decrement, decrement_contenders, ContendersCounted, Contenders
<1>6. ASSUME NEW t \in Threads, Wait(t) PROVE TypeOK' /\ ContendersCounted'
  <2>1. TypeOK'
    BY <1>6 DEF Wait, Call, Goto, increment_contenders
  <2>2. Contenders' = Contenders
    BY <1>6 DEF Wait, Goto, Contenders, Contending
  <2>3. t \notin waits /\ waits' = waits \union {t}
    BY <1>6 DEF Wait, Discipline, Local, User
  <2>4. Cardinality(waits') = Cardinality(waits) + 1
    BY <2>3, <1>1, OneMore
  <2>5. /\ state_and_contenders_'.contenders = state_and_contenders_.contenders + 1
        /\ num_waiters_' = num_waiters_ + 1
    BY <1>6 DEF Wait, increment_contenders
  <2> HIDE DEF TypeOK, PC, Locking, Holding
  <2> QED
    BY <1>1, <1>2, <2>1, <2>2, <2>4, <2>5 DEF ContendersCounted, Contenders
<1>7. ASSUME NEW t \in Threads, CvExit(t) PROVE TypeOK' /\ ContendersCounted'
  <2>1. t \in waits /\ waits' = waits \ {t}
    BY <1>7 DEF CvExit, Discipline, Local
  <2>2. Cardinality(waits') = Cardinality(waits) - 1 /\ Cardinality(waits) - 1 \in Nat
    BY <2>1, <1>1, OneLess
  <2>3. Contenders' = Contenders
    BY <1>7 DEF CvExit, Goto, Contenders, Contending
  <2>4. TypeOK'
    BY <1>1, <1>2, <1>7, <2>2 DEF CvExit, Goto, decrement_contenders
  <2>5. /\ state_and_contenders_'.contenders = state_and_contenders_.contenders - 1
        /\ num_waiters_' = num_waiters_ - 1
    BY <1>7 DEF CvExit, decrement_contenders
  <2>6. ContendersCounted'
    <3> HIDE DEF TypeOK, PC, Locking, Holding
    <3>1. Cardinality(Contenders') = Cardinality(Contenders)
      BY <2>3
    <3>2. /\ state_and_contenders_'.contenders = Cardinality(Contenders') + Cardinality(waits')
          /\ num_waiters_' = Cardinality(waits')
      BY <1>1, <1>2, <2>2, <2>5, <3>1
    <3> QED
      BY <3>2 DEF ContendersCounted, Contenders
  <2> QED
    BY <2>4, <2>6
<1>8. ASSUME NEW t \in Threads, Acquire(t) PROVE TypeOK' /\ ContendersCounted'
  <2>1. TypeOK'
    BY <1>8 DEF Acquire, Goto
  <2>2. Contenders' = Contenders
    BY <1>8 DEF Acquire, Goto, Contenders, Contending
  <2> QED
    BY <1>3, <1>8, <2>1, <2>2 DEF Acquire, Goto
<1>9. ASSUME NEW t \in Threads, SeeHeld(t) PROVE TypeOK' /\ ContendersCounted'
  <2>1. TypeOK'
    BY <1>9 DEF SeeHeld, Goto
  <2>2. Contenders' = Contenders
    BY <1>9 DEF SeeHeld, Goto, Contenders, Contending
  <2> QED
    BY <1>3, <1>9, <2>1, <2>2 DEF SeeHeld, Goto
<1>10. ASSUME NEW t \in Threads, FutexWait(t) PROVE TypeOK' /\ ContendersCounted'
  <2>1. TypeOK'
    BY <1>10 DEF FutexWait, Goto
  <2>2. Contenders' = Contenders
    BY <1>10 DEF FutexWait, Goto, Contenders, Contending
  <2> QED
    BY <1>3, <1>10, <2>1, <2>2 DEF FutexWait, Goto
<1>11. ASSUME NEW t \in Threads, Recheck(t) PROVE TypeOK' /\ ContendersCounted'
  <2>1. TypeOK'
    BY <1>11 DEF Recheck, Goto
  <2>2. Contenders' = Contenders
    BY <1>11 DEF Recheck, Goto, Contenders, Contending
  <2> QED
    BY <1>3, <1>11, <2>1, <2>2 DEF Recheck, Goto
<1>12. ASSUME NEW t \in Threads, Own(t) PROVE TypeOK' /\ ContendersCounted'
  <2>1. TypeOK'
    BY <1>12 DEF Own, Goto
  <2>2. Contenders' = Contenders
    BY <1>12 DEF Own, Goto, Contenders, Contending
  <2> QED
    BY <1>3, <1>12, <2>1, <2>2 DEF Own, Goto
<1>13. ASSUME NEW t \in Threads, Release(t) PROVE TypeOK' /\ ContendersCounted'
  <2>1. TypeOK'
    BY <1>13 DEF Release, Goto, AfterUnlock
  <2>2. Contenders' = Contenders
    BY <1>13 DEF Release, Goto, AfterUnlock, Contenders, Contending
  <2> QED
    BY <1>3, <1>13, <2>1, <2>2 DEF Release, Goto, AfterUnlock
<1>14. ASSUME NEW t \in Threads, Wake(t) PROVE TypeOK' /\ ContendersCounted'
  <2>1. TypeOK'
    BY <1>14 DEF Wake, Goto, AfterUnlock, Sleepers, Woken
  <2>2. Contenders' = Contenders
    BY <1>14 DEF Wake, Goto, AfterUnlock, Sleepers, Woken, Contenders, Contending
  <2> QED
    BY <1>3, <1>14, <2>1, <2>2 DEF Wake, Goto, AfterUnlock, Sleepers, Woken
<1>15. ASSUME NEW t \in Threads, CvFutexWait(t) PROVE TypeOK' /\ ContendersCounted'
  <2>1. TypeOK'
    BY <1>15 DEF CvFutexWait, Goto
  <2>2. Contenders' = Contenders
    BY <1>15 DEF CvFutexWait, Goto, Contenders, Contending
  <2> QED
    BY <1>3, <1>15, <2>1, <2>2 DEF CvFutexWait, Goto
<1>16. ASSUME NEW t \in Threads, Requeue(t) PROVE TypeOK' /\ ContendersCounted'
  <2>1. TypeOK'
    BY <1>16 DEF Requeue, Goto, CvSleepers
  <2>2. Contenders' = Contenders
    BY <1>16 DEF Requeue, Goto, CvSleepers, Contenders, Contending
  <2> QED
    BY <1>3, <1>16, <2>1, <2>2 DEF Requeue, Goto, CvSleepers
<1>17. ASSUME NEW t \in Threads, ExclusiveLock(t) PROVE TypeOK' /\ ContendersCounted'
  <2>1. TypeOK'
    BY <1>17 DEF ExclusiveLock, Goto, Call
  <2>2. Contenders' = Contenders
    BY <1>17 DEF ExclusiveLock, Goto, Call, Contenders, Contending
  <2> QED
    BY <1>3, <1>17, <2>1, <2>2 DEF ExclusiveLock, Goto, Call
<1>18. ASSUME NEW t \in Threads, ExclusiveTryLock(t) PROVE TypeOK' /\ ContendersCounted'
  <2>1. TypeOK'
    <3>1. state_and_contenders_' \in [held : BOOLEAN, contenders : Nat]
      BY <1>18 DEF ExclusiveTryLock
    <3>2. pc' \in [Threads -> PC] /\ calls' \in Nat
      BY <1>18 DEF ExclusiveTryLock, Goto, Call
    <3> QED
      BY <1>18, <3>1, <3>2 DEF ExclusiveTryLock
  <2>2. Contenders' = Contenders
    BY <1>18 DEF ExclusiveTryLock, Goto, Call, Contenders, Contending
  <2> QED
    BY <1>3, <1>18, <2>1, <2>2 DEF ExclusiveTryLock, Goto, Call
<1>19. ASSUME NEW t \in Threads, LockAgain(t) PROVE TypeOK' /\ ContendersCounted'
  <2>1. TypeOK'
    BY <1>19 DEF LockAgain, Call
  <2>2. Contenders' = Contenders
    BY <1>19 DEF LockAgain, Call, Contenders, Contending
  <2> QED
    BY <1>3, <1>19, <2>1, <2>2 DEF LockAgain, Call
<1>20. ASSUME NEW t \in Threads, Signal(t) PROVE TypeOK' /\ ContendersCounted'
  <2>1. TypeOK'
    BY <1>20 DEF Signal, Goto, RequeueWaiters, Call
  <2>2. Contenders' = Contenders
    BY <1>20 DEF Signal, Goto, RequeueWaiters, Call, Contenders, Contending
  <2> QED
    BY <1>3, <1>20, <2>1, <2>2 DEF Signal, Goto, RequeueWaiters, Call
<1>21. ASSUME NEW t \in Threads, Broadcast(t) PROVE TypeOK' /\ ContendersCounted'
  <2>1. TypeOK'
    BY <1>21 DEF Broadcast, Goto, RequeueWaiters, Call
  <2>2. Contenders' = Contenders
    BY <1>21 DEF Broadcast, Goto, RequeueWaiters, Call, Contenders, Contending
  <2> QED
    BY <1>3, <1>21, <2>1, <2>2 DEF Broadcast, Goto, RequeueWaiters, Call
<1>22. ASSUME NEW t \in Threads, ExclusiveUnlock(t) PROVE TypeOK' /\ ContendersCounted'
  <2>1. TypeOK'
    <3>1. recursion_count_ = depth[t] /\ depth[t] # 0
      BY <1>22 DEF ExclusiveUnlock, Discipline, Local, User
    <3>2. depth[t] \in Nat
      OBVIOUS
    <3>3. recursion_count_' \in Nat /\ depth' \in [Threads -> Nat]
      <4>1. recursion_count_' = depth[t] - 1 /\ depth' = [depth EXCEPT ![t] = depth[t] - 1]
        BY <1>22, <3>1 DEF ExclusiveUnlock
      <4>2. depth[t] - 1 \in Nat
        BY <3>1, <3>2
      <4> QED
        BY <4>1, <4>2
    <3>4. pc' \in [Threads -> PC] /\ exclusive_owner_' \in Threads \union {NoThread}
      BY <1>22 DEF ExclusiveUnlock, Goto
    <3> QED
      BY <1>22, <3>3, <3>4 DEF ExclusiveUnlock
  <2>2. Contenders' = Contenders
    BY <1>22 DEF ExclusiveUnlock, Goto, Contenders, Contending
  <2> QED
    BY <1>3, <1>22, <2>1, <2>2 DEF ExclusiveUnlock, Goto
<1>23. ASSUME NEW t \in Threads, Interrupt(t) PROVE TypeOK' /\ ContendersCounted'
  <2>1. TypeOK'
    BY <1>23 DEF Interrupt, Goto, Woken
  <2>2. Contenders' = Contenders
    BY <1>23 DEF Interrupt, Goto, Woken, Contenders, Contending
  <2> QED
    BY <1>3, <1>23, <2>1, <2>2 DEF Interrupt, Goto, Woken
<1>24. CASE UNCHANGED vars
  BY <1>24, <1>3 DEF vars, Contenders
<1> QED
  BY <1>4, <1>5, <1>6, <1>7, <1>8, <1>9, <1>10, <1>11, <1>12, <1>13, <1>14, <1>15, <1>16, <1>17, <1>18, <1>19, <1>20, <1>21, <1>22, <1>23, <1>24 DEF Next, Step, Start

-------------------------------------------------------------------------------
\* Whoever sleeps on the mutex counts as a contender.
LEMMA SleepersCount ==
  ASSUME TypeOK, Discipline, ContendersCounted, Sleepers # {}
  PROVE  state_and_contenders_.contenders # 0
<1>1. /\ IsFiniteSet(Contenders) /\ Cardinality(Contenders) \in Nat
      /\ IsFiniteSet(waits) /\ Cardinality(waits) \in Nat
  BY MutexAssumption, FS_Subset, FS_CardinalityType DEF TypeOK, Contenders
<1>2. Contenders # {} \/ waits # {}
  BY DEF Sleepers, Contenders, Contending, Discipline, Local
<1>3. Cardinality(Contenders) # 0 \/ Cardinality(waits) # 0
  BY <1>1, <1>2, FS_EmptySet
<1> QED
  BY <1>1, <1>3 DEF ContendersCounted, Contenders, word

\* Every step leaves somebody responsible for the sleepers of a free mutex: a
\* thread goes to sleep only while the word is held, Release goes on to the
\* futex call, and the thread that FUTEX_WAKE wakes takes over.
LEMMA WakeupStep ==
  ASSUME TypeOK, Discipline, ContendersCounted, NoLostWakeup, [Next]_vars
  PROVE  NoLostWakeup'
<1> USE DEF TypeOK, NoLostWakeup, Sleepers, Locking, word, owner, condition, client
<1>1. ASSUME NEW t \in Threads, Acquire(t) PROVE NoLostWakeup'
  BY <1>1 DEF Acquire, Goto
<1>2. ASSUME NEW t \in Threads, SeeHeld(t) PROVE NoLostWakeup'
  BY <1>2 DEF SeeHeld, Goto
<1>3. ASSUME NEW t \in Threads, Contend(t) PROVE NoLostWakeup'
  BY <1>3 DEF Contend, Goto, increment_contenders
<1>4. ASSUME NEW t \in Threads, FutexWait(t) PROVE NoLostWakeup'
  BY <1>4 DEF FutexWait, Goto, Discipline, Local
<1>5. ASSUME NEW t \in Threads, Recheck(t) PROVE NoLostWakeup'
  BY <1>5 DEF Recheck, Goto
<1>6. ASSUME NEW t \in Threads, Decrement(t) PROVE NoLostWakeup'
  BY <1>6 DEF Decrement, Goto, decrement_contenders
<1>7. ASSUME NEW t \in Threads, Own(t) PROVE NoLostWakeup'
  BY <1>7 DEF Own, Goto
<1>8. ASSUME NEW t \in Threads, Release(t) PROVE NoLostWakeup'
  BY <1>8, SleepersCount DEF Release, Goto, AfterUnlock
<1>9. ASSUME NEW t \in Threads, Wake(t) PROVE NoLostWakeup'
  BY <1>9 DEF Wake, Goto, AfterUnlock, Woken
<1>10. ASSUME NEW t \in Threads, CvFutexWait(t) PROVE NoLostWakeup'
  BY <1>10 DEF CvFutexWait, Goto
<1>11. ASSUME NEW t \in Threads, CvExit(t) PROVE NoLostWakeup'
  BY <1>11 DEF CvExit, Goto, decrement_contenders
<1>12. ASSUME NEW t \in Threads, Requeue(t) PROVE NoLostWakeup'
  BY <1>12 DEF Requeue, Goto, CvSleepers, Discipline, Holding
<1>13. ASSUME NEW t \in Threads, ExclusiveLock(t) PROVE NoLostWakeup'
  BY <1>13 DEF ExclusiveLock, Goto, Call
<1>14. ASSUME NEW t \in Threads, ExclusiveTryLock(t) PROVE NoLostWakeup'
  BY <1>14 DEF ExclusiveTryLock, Goto, Call
<1>15. ASSUME NEW t \in Threads, LockAgain(t) PROVE NoLostWakeup'
  BY <1>15 DEF LockAgain, Call
<1>16. ASSUME NEW t \in Threads, Wait(t) PROVE NoLostWakeup'
  BY <1>16 DEF Wait, Goto, increment_contenders, Call
<1>17. ASSUME NEW t \in Threads, Signal(t) PROVE NoLostWakeup'
  BY <1>17 DEF Signal, Goto, RequeueWaiters, Call
<1>18. ASSUME NEW t \in Threads, Broadcast(t) PROVE NoLostWakeup'
  BY <1>18 DEF Broadcast, Goto, RequeueWaiters, Call
<1>19. ASSUME NEW t \in Threads, ExclusiveUnlock(t) PROVE NoLostWakeup'
  BY <1>19 DEF ExclusiveUnlock, Goto
<1>20. ASSUME NEW t \in Threads, Interrupt(t) PROVE NoLostWakeup'
  BY <1>20 DEF Interrupt, Goto, Woken
<1>21. CASE UNCHANGED vars
  BY <1>21 DEF vars
<1> QED
  BY <1>1, <1>2, <1>3, <1>4, <1>5, <1>6, <1>7, <1>8, <1>9, <1>10, <1>11, <1>12, <1>13, <1>14, <1>15, <1>16, <1>17, <1>18, <1>19, <1>20, <1>21 DEF Next, Step, Start

-------------------------------------------------------------------------------
\* The inductive invariant: in every reachable state of Mutex the discipline
\* holds, the contender count is exact and no wake-up is lost.
THEOREM MutexInductive ==
  Spec => [](TypeOK /\ Discipline /\ ContendersCounted /\ NoLostWakeup)
<1>1. Init => TypeOK /\ Discipline /\ NoLostWakeup
  BY MutexAssumption DEF Init, TypeOK, PC, Locking, Holding, Free, Discipline, Local, User, NoLostWakeup, Sleepers
<1>2. Init => ContendersCounted
  <2> SUFFICES ASSUME Init PROVE ContendersCounted
    OBVIOUS
  <2>1. {t \in Threads : pc[t] \in Contending} = {} /\ waits = {}
    BY DEF Init, Contending
  <2>2. word.contenders = 0 /\ num_waiters_ = 0
    BY DEF Init, Free, word
  <2>3. Cardinality({}) = 0
    BY FS_EmptySet
  <2>4. Cardinality({t \in Threads : pc[t] \in Contending}) = 0 /\ Cardinality(waits) = 0
    BY <2>1, <2>3
  <2> QED
    BY <2>2, <2>4 DEF ContendersCounted
<1>3. TypeOK /\ Discipline /\ ContendersCounted /\ NoLostWakeup /\ [Next]_vars
        => (TypeOK /\ Discipline /\ ContendersCounted /\ NoLostWakeup)'
  BY DisciplineStep, CountStep, WakeupStep
<1> QED
  BY <1>1, <1>2, <1>3, PTL DEF Spec

\* ExclusiveLock, ExclusiveTryLock and Wait give the mutex to one thread at a
\* time, and exclusive_owner_ and recursion_count_ are right for it.
THEOREM MutexMutualExclusion == Spec => []MutualExclusion
<1>1. TypeOK /\ Discipline => MutualExclusion
  BY DEF Discipline, User, Holding, MutualExclusion, word
<1> QED
  BY <1>1, MutexInductive, PTL

\* ExclusiveUnlock wakes a sleeper whenever one needs it, with any number of
\* threads in ExclusiveLock, Wait, Signal and Broadcast.
THEOREM MutexNoLostWakeup == Spec => []NoLostWakeup
BY MutexInductive, PTL

-------------------------------------------------------------------------------
\* While a thread is in RequeueWaiters sequence_ has changed for every waiter:
\* only a thread that has the mutex can start to wait.
Notifying ==
  (\E t \in Threads : pc[t] \in {"requeue_one", "requeue_all"}) => unnotified = {}

\* Nobody starts to wait between the change of sequence_ and FUTEX_REQUEUE.
LEMMA NotifyingStep ==
  ASSUME TypeOK, Discipline, Notifying, [Next]_vars
  PROVE  Notifying'
<1> USE DEF TypeOK, Notifying, word, owner, condition, client
<1>1. ASSUME NEW t \in Threads, Acquire(t) PROVE Notifying'
  BY <1>1 DEF Acquire, Goto
<1>2. ASSUME NEW t \in Threads, SeeHeld(t) PROVE Notifying'
  BY <1>2 DEF SeeHeld, Goto
<1>3. ASSUME NEW t \in Threads, Contend(t) PROVE Notifying'
  BY <1>3 DEF Contend, Goto
<1>4. ASSUME NEW t \in Threads, FutexWait(t) PROVE Notifying'
  BY <1>4 DEF FutexWait, Goto
<1>5. ASSUME NEW t \in Threads, Recheck(t) PROVE Notifying'
  BY <1>5 DEF Recheck, Goto
<1>6. ASSUME NEW t \in Threads, Decrement(t) PROVE Notifying'
  BY <1>6 DEF Decrement, Goto
<1>7. ASSUME NEW t \in Threads, Own(t) PROVE Notifying'
  BY <1>7 DEF Own, Goto
<1>8. ASSUME NEW t \in Threads, Release(t) PROVE Notifying'
  BY <1>8 DEF Release, Goto, AfterUnlock
<1>9. ASSUME NEW t \in Threads, Wake(t) PROVE Notifying'
  BY <1>9 DEF Wake, Goto, AfterUnlock, Woken, Sleepers
<1>10. ASSUME NEW t \in Threads, CvFutexWait(t) PROVE Notifying'
  BY <1>10 DEF CvFutexWait, Goto
<1>11. ASSUME NEW t \in Threads, CvExit(t) PROVE Notifying'
  BY <1>11 DEF CvExit, Goto
<1>12. ASSUME NEW t \in Threads, Requeue(t) PROVE Notifying'
  BY <1>12, RequeueMoves DEF Requeue, Moved
<1>13. ASSUME NEW t \in Threads, ExclusiveLock(t) PROVE Notifying'
  BY <1>13 DEF ExclusiveLock, Goto
<1>14. ASSUME NEW t \in Threads, ExclusiveTryLock(t) PROVE Notifying'
  BY <1>14 DEF ExclusiveTryLock, Goto
<1>15. ASSUME NEW t \in Threads, LockAgain(t) PROVE Notifying'
  BY <1>15 DEF LockAgain
<1>16. ASSUME NEW t \in Threads, Wait(t) PROVE Notifying'
  BY <1>16 DEF Wait, Goto, Discipline, Holding
<1>17. ASSUME NEW t \in Threads, Signal(t) PROVE Notifying'
  BY <1>17 DEF Signal, Goto, RequeueWaiters
<1>18. ASSUME NEW t \in Threads, Broadcast(t) PROVE Notifying'
  BY <1>18 DEF Broadcast, Goto, RequeueWaiters
<1>19. ASSUME NEW t \in Threads, ExclusiveUnlock(t) PROVE Notifying'
  BY <1>19 DEF ExclusiveUnlock, Goto
<1>20. ASSUME NEW t \in Threads, Interrupt(t) PROVE Notifying'
  BY <1>20 DEF Interrupt, Goto, Woken
<1>21. CASE UNCHANGED vars
  BY <1>21 DEF vars
<1> QED
  BY <1>1, <1>2, <1>3, <1>4, <1>5, <1>6, <1>7, <1>8, <1>9, <1>10, <1>11, <1>12, <1>13, <1>14, <1>15, <1>16, <1>17, <1>18, <1>19, <1>20, <1>21 DEF Next, Step, Start

\* A thread leaves RequeueWaiters by its own FUTEX_REQUEUE.
LEMMA OnlyRequeueReturns ==
  ASSUME TypeOK, Discipline, Next, NEW t \in Threads,
         pc[t] \in {"requeue_one", "requeue_all"}, pc'[t] # pc[t]
  PROVE  Requeue(t)
<1> USE DEF TypeOK
<1> SUFFICES ASSUME NEW u \in Threads,
                    Step(u) \/ Start(u) \/ ExclusiveUnlock(u) \/ Interrupt(u), ~Requeue(t)
             PROVE  pc'[t] = pc[t]
  BY DEF Next
<1>1. ASSUME Requeue(u) PROVE u = t
  BY <1>1 DEF Requeue, Discipline, Holding
<1>2. CASE Wake(u)
  BY <1>2 DEF Wake, Goto, Sleepers
<1>3. CASE Start(u)
  BY <1>3 DEF Start, ExclusiveLock, ExclusiveTryLock, LockAgain, Wait, Signal, Broadcast, RequeueWaiters, Goto
<1>4. CASE ExclusiveUnlock(u)
  BY <1>4 DEF ExclusiveUnlock, Goto
<1>5. CASE Interrupt(u)
  BY <1>5 DEF Interrupt, Goto
<1>6. CASE Step(u) /\ ~Wake(u) /\ ~Requeue(u)
  BY <1>6 DEF Step, Acquire, SeeHeld, Contend, FutexWait, Recheck, Decrement, Own, Release, CvFutexWait, CvExit, Goto
<1> QED
  BY <1>1, <1>2, <1>3, <1>4, <1>5, <1>6

\* Broadcast reaches every waiter and Signal one, also those that have released
\* the mutex and not yet slept.
LEMMA NotificationStep ==
  ASSUME TypeOK, Discipline, Notifying, Next, NEW t \in Threads
  PROVE  /\ pc[t] = "requeue_all" /\ pc'[t] = "held" => Waiting' = {}
         /\ pc[t] = "requeue_one" /\ pc'[t] = "held" =>
              Waiting' = {} \/ Cardinality(Waiting') < Cardinality(Waiting)
<1> SUFFICES ASSUME pc[t] \in {"requeue_one", "requeue_all"}, Requeue(t)
             PROVE  /\ pc[t] = "requeue_all" => Waiting' = {}
                    /\ pc[t] = "requeue_one" =>
                         Waiting' = {} \/ Cardinality(Waiting') < Cardinality(Waiting)
  BY OnlyRequeueReturns
<1>1. unnotified = {} /\ unnotified' = {} /\ waits' = waits
  BY DEF Notifying, Requeue, condition
<1>2. Waiting = CvSleepers /\ CvSleepers \subseteq Threads
  BY <1>1 DEF Waiting, CvSleepers, TypeOK, Discipline, Local
<1>3. Waiting' = {u \in waits : pc'[u] = "cv_sleep"}
  BY <1>1 DEF Waiting
<1>4. CASE pc[t] = "requeue_all"
  BY <1>3, <1>4 DEF Requeue, TypeOK, CvSleepers
<1>5. CASE pc[t] = "requeue_one" /\ CvSleepers = {}
  BY <1>3, <1>5 DEF Requeue, TypeOK, CvSleepers, Goto
<1>6. CASE pc[t] = "requeue_one" /\ CvSleepers # {}
  <2>1. PICK u \in CvSleepers : pc' = [pc EXCEPT ![t] = "held", ![u] = "cv_requeued"]
    BY <1>6 DEF Requeue
  <2>2. Waiting' = CvSleepers \ {u}
    <3>1. \A v \in Threads : pc'[v] = "cv_sleep" <=> pc[v] = "cv_sleep" /\ v # u
      BY <1>6, <2>1 DEF TypeOK, CvSleepers
    <3>2. waits \subseteq Threads /\ CvSleepers = {v \in waits : pc[v] = "cv_sleep"}
      BY <1>1, <1>2 DEF TypeOK, Waiting
    <3> QED
      BY <1>3, <3>1, <3>2
  <2>3. IsFiniteSet(CvSleepers)
    BY <1>2, MutexAssumption, FS_Subset
  <2>4. Cardinality(CvSleepers \ {u}) = Cardinality(CvSleepers) - 1 /\ Cardinality(CvSleepers) - 1 \in Nat
    BY <2>1, <2>3, OneLess
  <2>5. Cardinality(CvSleepers) \in Nat
    BY <2>3, FS_CardinalityType
  <2> QED
    BY <1>2, <1>6, <2>2, <2>4, <2>5
<1> QED
  BY <1>4, <1>5, <1>6

\* Signal and Broadcast do what ConditionVariable promises, in every reachable
\* state and for any number of threads.
THEOREM MutexNotificationReaches == Spec => NotificationReaches
<1>1. Init => Notifying
  BY DEF Init, Notifying
<1>2. TypeOK /\ Discipline /\ Notifying /\ [Next]_vars => Notifying'
  BY NotifyingStep
<1>3. ASSUME TypeOK, Discipline, Notifying, [Next]_vars
      PROVE  [\A t \in Threads :
                /\ pc[t] = "requeue_all" /\ pc'[t] = "held" => Waiting' = {}
                /\ pc[t] = "requeue_one" /\ pc'[t] = "held" =>
                     Waiting' = {} \/ Cardinality(Waiting') < Cardinality(Waiting)]_vars
  BY <1>3, NotificationStep
<1> QED
  BY <1>1, <1>2, <1>3, MutexInductive, PTL DEF Spec, NotificationReaches

-------------------------------------------------------------------------------
\* The owner of the abstract lock is the thread at a place that has the word.
LEMMA OwnerIsHolder ==
  ASSUME Discipline
  PROVE  /\ \A t \in Threads : pc[t] \in Holding => LockOwner = t
         /\ (\A t \in Threads : pc[t] \notin Holding) => LockOwner = NoThread
<1>1. ASSUME NEW t \in Threads, pc[t] \in Holding PROVE LockOwner = t
  <2>1. \A u \in Threads : pc[u] \in Holding <=> u = t
    BY <1>1 DEF Discipline
  <2>2. LockOwner = CHOOSE u \in Threads : pc[u] \in Holding
    BY <1>1 DEF LockOwner
  <2> QED
    BY <2>1, <2>2
<1> QED
  BY <1>1 DEF LockOwner

\* The same after the step.
LEMMA OwnerIsHolderNext ==
  ASSUME Discipline'
  PROVE  /\ \A t \in Threads : pc'[t] \in Holding => LockOwner' = t
         /\ (\A t \in Threads : pc'[t] \notin Holding) => LockOwner' = NoThread
<1>1. ASSUME NEW t \in Threads, pc'[t] \in Holding PROVE LockOwner' = t
  <2>1. \A u \in Threads : pc'[u] \in Holding <=> u = t
    BY <1>1 DEF Discipline
  <2>2. LockOwner' = CHOOSE u \in Threads : pc'[u] \in Holding
    BY <1>1 DEF LockOwner
  <2> QED
    BY <2>1, <2>2
<1> QED
  BY <1>1 DEF LockOwner

\* A step that leaves the holders alone leaves the abstract owner alone.
LEMMA SameOwner ==
  ASSUME Discipline, Discipline',
         \A t \in Threads : pc'[t] \in Holding <=> pc[t] \in Holding
  PROVE  LockOwner' = LockOwner
BY OwnerIsHolder, OwnerIsHolderNext

\* Every step of the futex algorithm is a step of the abstract lock or none: the
\* compare-and-set of ExclusiveLock acquires, that of ExclusiveUnlock releases
\* or starts to wait, and RequeueWaiters notifies.
LEMMA LockStep ==
  ASSUME TypeOK, Discipline, Discipline', [Next]_vars
  PROVE  [Lock!Next]_(Lock!vars)
<1> USE DEF TypeOK, word, owner, condition, client
<1>1. ASSUME LockOwner' = LockOwner, Waiting' = Waiting PROVE [Lock!Next]_(Lock!vars)
  BY <1>1 DEF Lock!vars
<1>2. ASSUME NEW t \in Threads, SeeHeld(t) PROVE [Lock!Next]_(Lock!vars)
  <2>1. \A u \in Threads : pc'[u] \in Holding <=> pc[u] \in Holding
    BY <1>2 DEF SeeHeld, Goto, Holding
  <2>2. Waiting' = Waiting
    BY <1>2 DEF SeeHeld, Goto, Waiting
  <2> QED
    BY <1>1, <2>1, <2>2, SameOwner
<1>3. ASSUME NEW t \in Threads, Contend(t) PROVE [Lock!Next]_(Lock!vars)
  <2>1. \A u \in Threads : pc'[u] \in Holding <=> pc[u] \in Holding
    BY <1>3 DEF Contend, Goto, Holding
  <2>2. Waiting' = Waiting
    BY <1>3 DEF Contend, Goto, Waiting
  <2> QED
    BY <1>1, <2>1, <2>2, SameOwner
<1>4. ASSUME NEW t \in Threads, FutexWait(t) PROVE [Lock!Next]_(Lock!vars)
  <2>1. \A u \in Threads : pc'[u] \in Holding <=> pc[u] \in Holding
    BY <1>4 DEF FutexWait, Goto, Holding
  <2>2. Waiting' = Waiting
    BY <1>4 DEF FutexWait, Goto, Waiting
  <2> QED
    BY <1>1, <2>1, <2>2, SameOwner
<1>5. ASSUME NEW t \in Threads, Recheck(t) PROVE [Lock!Next]_(Lock!vars)
  <2>1. \A u \in Threads : pc'[u] \in Holding <=> pc[u] \in Holding
    BY <1>5 DEF Recheck, Goto, Holding
  <2>2. Waiting' = Waiting
    BY <1>5 DEF Recheck, Goto, Waiting
  <2> QED
    BY <1>1, <2>1, <2>2, SameOwner
<1>6. ASSUME NEW t \in Threads, Decrement(t) PROVE [Lock!Next]_(Lock!vars)
  <2>1. \A u \in Threads : pc'[u] \in Holding <=> pc[u] \in Holding
    BY <1>6 DEF Decrement, Goto, Holding
  <2>2. Waiting' = Waiting
    BY <1>6 DEF Decrement, Goto, Waiting
  <2> QED
    BY <1>1, <2>1, <2>2, SameOwner
<1>7. ASSUME NEW t \in Threads, Own(t) PROVE [Lock!Next]_(Lock!vars)
  <2>1. \A u \in Threads : pc'[u] \in Holding <=> pc[u] \in Holding
    BY <1>7 DEF Own, Goto, Holding
  <2>2. Waiting' = Waiting
    BY <1>7 DEF Own, Goto, Waiting
  <2> QED
    BY <1>1, <2>1, <2>2, SameOwner
<1>8. ASSUME NEW t \in Threads, Wake(t) PROVE [Lock!Next]_(Lock!vars)
  <2>1. \A u \in Threads : pc'[u] \in Holding <=> pc[u] \in Holding
    BY <1>8 DEF Wake, Goto, AfterUnlock, Woken, Sleepers, Holding
  <2>2. Waiting' = Waiting
    BY <1>8 DEF Wake, Goto, AfterUnlock, Woken, Sleepers, Waiting
  <2> QED
    BY <1>1, <2>1, <2>2, SameOwner
<1>9. ASSUME NEW t \in Threads, CvFutexWait(t) PROVE [Lock!Next]_(Lock!vars)
  <2>1. \A u \in Threads : pc'[u] \in Holding <=> pc[u] \in Holding
    BY <1>9 DEF CvFutexWait, Goto, Discipline, Local, Holding
  <2>2. Waiting' = Waiting
    BY <1>9 DEF CvFutexWait, Goto, Discipline, Local, Waiting
  <2> QED
    BY <1>1, <2>1, <2>2, SameOwner
<1>10. ASSUME NEW t \in Threads, CvExit(t) PROVE [Lock!Next]_(Lock!vars)
  <2>1. \A u \in Threads : pc'[u] \in Holding <=> pc[u] \in Holding
    BY <1>10 DEF CvExit, Goto, Holding
  <2>2. Waiting' = Waiting
    BY <1>10 DEF CvExit, Goto, Waiting
  <2> QED
    BY <1>1, <2>1, <2>2, SameOwner
<1>11. ASSUME NEW t \in Threads, ExclusiveLock(t) PROVE [Lock!Next]_(Lock!vars)
  <2>1. \A u \in Threads : pc'[u] \in Holding <=> pc[u] \in Holding
    BY <1>11 DEF ExclusiveLock, Goto, Holding
  <2>2. Waiting' = Waiting
    BY <1>11 DEF ExclusiveLock, Goto, Waiting
  <2> QED
    BY <1>1, <2>1, <2>2, SameOwner
<1>12. ASSUME NEW t \in Threads, LockAgain(t) PROVE [Lock!Next]_(Lock!vars)
  <2>1. \A u \in Threads : pc'[u] \in Holding <=> pc[u] \in Holding
    BY <1>12 DEF LockAgain, Holding
  <2>2. Waiting' = Waiting
    BY <1>12 DEF LockAgain, Waiting
  <2> QED
    BY <1>1, <2>1, <2>2, SameOwner
<1>13. ASSUME NEW t \in Threads, Wait(t) PROVE [Lock!Next]_(Lock!vars)
  <2>1. \A u \in Threads : pc'[u] \in Holding <=> pc[u] \in Holding
    BY <1>13 DEF Wait, Goto, Holding
  <2>2. Waiting' = Waiting
    BY <1>13 DEF Wait, Goto, Waiting
  <2> QED
    BY <1>1, <2>1, <2>2, SameOwner
<1>14. ASSUME NEW t \in Threads, ExclusiveUnlock(t) PROVE [Lock!Next]_(Lock!vars)
  <2>1. \A u \in Threads : pc'[u] \in Holding <=> pc[u] \in Holding
    BY <1>14 DEF ExclusiveUnlock, Goto, Holding
  <2>2. Waiting' = Waiting
    BY <1>14 DEF ExclusiveUnlock, Goto, Waiting
  <2> QED
    BY <1>1, <2>1, <2>2, SameOwner
<1>15. ASSUME NEW t \in Threads, Acquire(t) \/ ExclusiveTryLock(t) PROVE [Lock!Next]_(Lock!vars)
  <2>1. pc[t] \in {"lock", "idle"} /\ pc' = [pc EXCEPT ![t] = "own"] /\ ~word.held
    BY <1>15 DEF Acquire, ExclusiveTryLock, Goto
  <2>2. Waiting' = Waiting /\ t \notin Waiting
    BY <1>15, <2>1 DEF Acquire, ExclusiveTryLock, Waiting
  <2>3. LockOwner = NoThread
    BY <2>1, OwnerIsHolder DEF Discipline
  <2>4. LockOwner' = t
    BY <2>1, OwnerIsHolderNext DEF Holding
  <2> QED
    BY <2>2, <2>3, <2>4 DEF Lock!Next, Lock!Acquire
<1>16. ASSUME NEW t \in Threads, Release(t) PROVE [Lock!Next]_(Lock!vars)
  <2>1. pc[t] = "release" /\ pc' = [pc EXCEPT ![t] = pc'[t]]
    BY <1>16 DEF Release, Goto
  <2>2. pc'[t] \in {"wake", "cv_futex", "idle"} /\ waits' = waits /\ unnotified' = unnotified
    BY <1>16 DEF Release, Goto, AfterUnlock
  <2>3. LockOwner = t
    BY <2>1, OwnerIsHolder DEF Holding
  <2>4. \A u \in Threads : pc'[u] \notin Holding
    BY <2>1, <2>2 DEF Discipline, Holding
  <2>5. LockOwner' = NoThread
    BY <2>4, OwnerIsHolderNext
  <2>6. Waiting' = Waiting \/ Waiting' = Waiting \union {t}
    BY <2>1, <2>2 DEF Waiting
  <2> QED
    BY <2>3, <2>5, <2>6 DEF Lock!Next, Lock!Release, Lock!Wait
<1>17. ASSUME NEW t \in Threads, Requeue(t) \/ Signal(t) \/ Broadcast(t) PROVE [Lock!Next]_(Lock!vars)
  <2>1. pc[t] \in {"held", "requeue_one", "requeue_all"}
    BY <1>17 DEF Requeue, Signal, Broadcast, RequeueWaiters
  <2>2. \A u \in Threads : pc'[u] \in Holding <=> pc[u] \in Holding
    <3>1. CASE Requeue(t)
      BY <2>1, <3>1, RequeueMoves DEF Moved, Holding
    <3> QED
      BY <1>17, <3>1 DEF Signal, Broadcast, RequeueWaiters, Goto, Holding
  <2>3. Waiting' \subseteq Waiting
    <3>1. CASE Requeue(t)
      <4>1. \A u \in Threads : Moved(t, u)
        BY <3>1, RequeueMoves
      <4>2. waits' = waits /\ unnotified' = unnotified
        BY <3>1 DEF Requeue
      <4> QED
        BY <2>1, <4>1, <4>2 DEF Waiting, Moved
    <3> QED
      BY <1>17, <3>1 DEF Signal, Broadcast, RequeueWaiters, Goto, Waiting
  <2>4. LockOwner = t /\ LockOwner' = LockOwner
    BY <2>1, <2>2, OwnerIsHolder, SameOwner DEF Holding
  <2>5. t # NoThread
    BY MutexAssumption
  <2> QED
    BY <2>3, <2>4, <2>5 DEF Lock!Next, Lock!Notify
<1>18. ASSUME NEW t \in Threads, Interrupt(t) PROVE [Lock!Next]_(Lock!vars)
  <2>1. \A u \in Threads : pc'[u] \in Holding <=> pc[u] \in Holding
    BY <1>18 DEF Interrupt, Goto, Woken, Holding
  <2>2. Waiting' = Waiting \ {t}
    BY <1>18 DEF Interrupt, Goto, Woken, Waiting
  <2>3. LockOwner' = LockOwner
    BY <2>1, SameOwner
  <2> QED
    BY <1>1, <2>2, <2>3 DEF Lock!Next, Lock!Spurious
<1>19. CASE UNCHANGED vars
  BY <1>1, <1>19 DEF vars, LockOwner, Waiting
<1> QED
  BY <1>2, <1>3, <1>4, <1>5, <1>6, <1>7, <1>8, <1>9, <1>10, <1>11, <1>12, <1>13, <1>14, <1>15, <1>16, <1>17, <1>18, <1>19 DEF Next, Step, Start

\* Mutex and ConditionVariable implement the lock their users rely on.
THEOREM MutexImplementsLock == Spec => ImplementsLock
<1>1. Init => Lock!Init
  <2> SUFFICES ASSUME Init PROVE Lock!Init
    OBVIOUS
  <2>1. \A t \in Threads : pc[t] \notin Holding
    BY DEF Init, Holding
  <2> QED
    BY <2>1 DEF Init, Lock!Init, LockOwner, Waiting
<1>2. TypeOK /\ Discipline /\ Discipline' /\ [Next]_vars => [Lock!Next]_(Lock!vars)
  BY LockStep
<1> QED
  BY <1>1, <1>2, MutexInductive, PTL DEF Spec, ImplementsLock, Lock!Spec
===============================================================================
