------------------------------- MODULE MCLocks -------------------------------
(***************************************************************************)
(* The futex algorithms of the runtime and the thread pool built on them   *)
(* in one model: a behaviour is one of Mutex with its ConditionVariable,   *)
(* of ReaderWriterMutex, of Thread::Park or of ThreadPool, as primitive    *)
(* says; the others rest.                                                  *)
(***************************************************************************)
EXTENDS Mutex

CONSTANTS
  MaxSharedCalls,  \* bound: lock calls on the ReaderWriterMutex
  Unparkers,
  Workers, Clients, creator,
  MaxPoolCalls,    \* bound: calls of the clients of the ThreadPool
  MaxTasks

VARIABLES
  primitive,
  state_, num_contenders_, rw_owner, rw_pc, mode, rw_cur_state, rw_calls, rw_interrupts,
  park_state, park_pc, nativePeer, unparkedBeforeStart, exists, thread_list_lock_, upc,
  started_, shutting_down_, waiting_count_, tasks_, max_active_workers_, threads_,
  creation_barier_, worker, pool_pc, task_queue_condition_, completion_condition_, pool_calls, added

rwVars == <<state_, num_contenders_, rw_owner, rw_pc, mode, rw_cur_state, rw_calls, rw_interrupts>>
parkVars == <<park_state, park_pc, nativePeer, unparkedBeforeStart, exists, thread_list_lock_, upc>>
poolVars == <<started_, shutting_down_, waiting_count_, tasks_, max_active_workers_, threads_,
              creation_barier_, worker, pool_pc, task_queue_condition_, completion_condition_,
              pool_calls, added>>

RW == INSTANCE ReaderWriterMutex WITH
        MaxCalls <- MaxSharedCalls, exclusive_owner_ <- rw_owner, pc <- rw_pc,
        cur_state <- rw_cur_state, calls <- rw_calls, interrupts <- rw_interrupts

P == INSTANCE Park WITH pc <- park_pc

TP == INSTANCE ThreadPool WITH MaxCalls <- MaxPoolCalls, pc <- pool_pc, calls <- pool_calls

allVars == <<vars, primitive, rwVars, parkVars, poolVars>>

LocksInit ==
  /\ Init /\ RW!Init /\ P!Init /\ TP!Init
  /\ primitive \in {"Mutex", "ReaderWriterMutex", "Park", "ThreadPool"}

LocksNext ==
  /\ UNCHANGED primitive
  /\ \/ primitive = "Mutex" /\ Next /\ UNCHANGED <<rwVars, parkVars, poolVars>>
     \/ primitive = "ReaderWriterMutex" /\ RW!Next /\ UNCHANGED <<vars, parkVars, poolVars>>
     \/ primitive = "Park" /\ P!Next /\ UNCHANGED <<vars, rwVars, poolVars>>
     \/ primitive = "ThreadPool" /\ TP!Next /\ UNCHANGED <<vars, rwVars, parkVars>>

\* The fairness of Mutex and Park, whose threads rest at first, and that of
\* ThreadPool while it is its turn.
LocksSpec ==
  /\ LocksInit /\ [][LocksNext]_allVars
  /\ Fairness /\ P!Fairness
  /\ \A w \in Workers : WF_poolVars(primitive = "ThreadPool" /\ TP!WorkerStep(w))
  /\ \A c \in Clients : WF_poolVars(primitive = "ThreadPool" /\ TP!ClientStep(c))
  /\ WF_poolVars(primitive = "ThreadPool" /\ TP!JoinWorkers)

\* A thread that sleeps although it could have the ReaderWriterMutex is about to
\* be woken by a thread in ExclusiveUnlock or SharedUnlock.
SleeperIsWoken == RW!SleeperIsWoken

\* ReaderWriterMutex implements a reader-writer lock and state_ counts its users.
ImplementsReaderWriterLock == RW!ImplementsReaderWriterLock

\* Unsafe_unpark never touches a Thread that Unregister has deleted.
UnparkTouchesLiveThread == P!UnparkTouchesLiveThread

\* Thread::Park and Thread::Unpark implement LockSupport.
ImplementsLockSupport == P!ImplementsLockSupport

\* Every call of ThreadPool returns: Wait, WaitForWorkersToBeCreated and
\* DeleteThreads in particular.
PoolCallReturns == TP!PoolCallReturns
===============================================================================
