------------------------------ MODULE ParkProof ------------------------------
(***************************************************************************)
(* Proofs about Park for any set of unparkers.                             *)
(***************************************************************************)
EXTENDS Park, TLAPS

\* The owner of a free mutex is not a thread.
NoThreadIsNone == NoThread \notin Unparkers

\* thread_list_lock_ is owned by the one unparker that is inside Unsafe_unpark.
ListLockOwned == \A u \in Unparkers : upc[u] # "idle" <=> thread_list_lock_ = u

\* Only a thread inside Park can have left the word at kNoPermitWaiterWaiting.
WaiterWaitingInPark ==
  park_state = kNoPermitWaiterWaiting => pc \in {"blocking", "waiting", "timed_waiting", "woken"}

\* nativePeer is gone before Unregister deletes the Thread.
PeerLifetime == pc \in {"unborn", "destroyed", "deleted"} => ~nativePeer

IInv ==
  /\ TypeOK
  /\ ListLockOwned
  /\ WaiterWaitingInPark
  /\ PeerLifetime
  /\ UnparkTouchesLiveThread

LEMMA InitIInv == NoThreadIsNone /\ Init => IInv
  <1> SUFFICES ASSUME NoThreadIsNone, Init PROVE IInv
    OBVIOUS
  <1>1. TypeOK
    BY DEF Init, TypeOK
  <1>2. ListLockOwned /\ UnparkTouchesLiveThread
    BY DEF NoThreadIsNone, Init, ListLockOwned, UnparkTouchesLiveThread
  <1>3. WaiterWaitingInPark
    BY DEF Init, WaiterWaitingInPark, kNoPermit, kNoPermitWaiterWaiting
  <1>4. PeerLifetime
    BY DEF Init, PeerLifetime
  <1> QED
    BY <1>1, <1>2, <1>3, <1>4 DEF IInv

LEMMA ThreadStepIInv == NoThreadIsNone /\ IInv /\ ThreadStep => IInv'
  <1> SUFFICES ASSUME NoThreadIsNone, IInv, ThreadStep PROVE IInv'
    OBVIOUS
  <1> USE DEF NoThreadIsNone, IInv, TypeOK, ListLockOwned, WaiterWaitingInPark,
              PeerLifetime, UnparkTouchesLiveThread, threadVars,
              kPermitAvailable, kNoPermit, kNoPermitWaiterWaiting
  <1>1. CASE CreateNativeThread
    BY <1>1 DEF CreateNativeThread
  <1>10. CASE DeleteStillborn
    BY <1>10 DEF DeleteStillborn
  <1>11. CASE ResetStillbornPeer
    BY <1>11 DEF ResetStillbornPeer
  <1>2. CASE Register
    BY <1>2 DEF Register
  <1>3. CASE CheckUnparkedBeforeStart
    BY <1>3 DEF CheckUnparkedBeforeStart
  <1>4. CASE UnparkSelf
    BY <1>4 DEF UnparkSelf
  <1>5. CASE Destroy
    BY <1>5 DEF Destroy
  <1>6. CASE Unregister
    <2>1. \A u \in Unparkers : upc[u] = "idle"
      BY <1>6 DEF Unregister
    <2> QED
      BY <1>6, <2>1 DEF Unregister
  <1>7. CASE ParkFetchAdd
    BY <1>7 DEF ParkFetchAdd
  <1>8. CASE ParkReturns
    <2>1. ASSUME NEW state \in {"waiting", "timed_waiting"}, ParkFutexWait(state)
          PROVE  IInv'
      BY <2>1 DEF ParkFutexWait
    <2>2. CASE ParkStore
      BY <2>2 DEF ParkStore
    <2> QED
      BY <1>8, <2>1, <2>2 DEF ParkReturns
  <1>9. CASE ParkNoWait \/ ParkTimeout \/ ParkInterrupted
    BY <1>9 DEF ParkNoWait, ParkTimeout, ParkInterrupted
  <1> QED
    BY <1>1, <1>2, <1>3, <1>4, <1>5, <1>6, <1>7, <1>8, <1>9, <1>10, <1>11
    DEF ThreadStep

LEMMA UnparkerStepIInv ==
  ASSUME NoThreadIsNone, NEW u \in Unparkers, IInv, UnparkerStep(u)
  PROVE  IInv'
  <1> USE DEF NoThreadIsNone, IInv, TypeOK, ListLockOwned, WaiterWaitingInPark,
              PeerLifetime, UnparkTouchesLiveThread, threadVars,
              kPermitAvailable, kNoPermit, kNoPermitWaiterWaiting
  <1>1. CASE UnparkLock(u)
    BY <1>1 DEF UnparkLock
  <1>2. CASE UnparkReadPeer(u)
    BY <1>2 DEF UnparkReadPeer
  <1>3. CASE UnparkBeforeStart(u)
    BY <1>3 DEF UnparkBeforeStart
  <1>4. CASE UnparkExchange(u)
    BY <1>4 DEF UnparkExchange
  <1>5. CASE UnparkWake(u)
    BY <1>5 DEF UnparkWake
  <1>6. CASE UnparkUnlock(u)
    BY <1>6 DEF UnparkUnlock
  <1> QED
    BY <1>1, <1>2, <1>3, <1>4, <1>5, <1>6 DEF UnparkerStep

\* For any number of unparkers: park_state_ stays within its three values, as
\* the comment at the fetch_add in Thread::Park claims, and Unsafe_unpark never
\* touches a Thread that Unregister has deleted.
THEOREM ParkSafety ==
  ASSUME NoThreadIsNone
  PROVE  Spec => [](TypeOK /\ UnparkTouchesLiveThread)
  <1>1. IInv /\ [Next]_vars => IInv'
    <2> SUFFICES ASSUME IInv, [Next]_vars PROVE IInv'
      OBVIOUS
    <2>1. CASE UNCHANGED vars
      BY <2>1 DEF vars, IInv, TypeOK, ListLockOwned, WaiterWaitingInPark,
                  PeerLifetime, UnparkTouchesLiveThread
    <2> QED
      BY <2>1, NoThreadIsNone, ThreadStepIInv, UnparkerStepIInv DEF Next
  <1>2. IInv => TypeOK /\ UnparkTouchesLiveThread
    BY DEF IInv
  <1>3. Init => IInv
    BY NoThreadIsNone, InitIInv
  <1> QED
    BY <1>3, <1>1, <1>2, PTL DEF Spec
===============================================================================
