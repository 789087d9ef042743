-------------------------------- MODULE Monitor --------------------------------
(***************************************************************************)
(* Java monitors (runtime/monitor.cc): the lock word of one object, thin   *)
(* while a single thread uses it, and the Monitor it is inflated to by     *)
(* contention, by a wait, by an overflowing thin-lock count or by an       *)
(* identity hash code, and deflated from while the world is stopped.       *)
(*                                                                         *)
(* A load of the lock word followed by a compare-and-set that succeeds is  *)
(* one step.  Mutex and ConditionVariable are used by their contract       *)
(* (module Mutex), thread suspension by that of ThreadList: a thread is    *)
(* suspended when it is at one of the points SafePoint and does not leave  *)
(* it while its suspend count is not zero.                                 *)
(***************************************************************************)
EXTENDS Naturals, Sequences, SequencesExt, FiniteSets

CONSTANTS
  Threads,
  NoThread,
  kThinLockMaxCount,
  MaxCalls,       \* bound: operations started by all threads together
  MaxInflations,  \* bound: monitors created for the object
  MaxInterrupts   \* bound: Thread.interrupt calls and waits that time out

ASSUME MonitorAssumption ==
  /\ NoThread \notin Threads
  /\ {kThinLockMaxCount, MaxCalls, MaxInflations, MaxInterrupts} \subseteq Nat

VARIABLES
  lock_word,        \* Object::monitor_
  monitor_lock_, owner_, lock_count_, num_waiters_,
  wait_set_, wake_set_,
  hash_code_,
  inflations,       \* monitors created so far; the last one is the live one
  pc,
  ret,              \* the loop an inflating thread returns to
  mon,              \* the Monitor* a thread works with, 0 for none
  other,            \* a thread's local: the owner it suspends, the waiter it wakes
  new_hash,         \* a thread's freshly generated identity hash code
  waits,            \* the threads inside Monitor::Wait
  prev_lock_count,
  was_interrupted,
  suspend_count,
  wait_mutex_, wait_monitor_, interrupted,
  depth,            \* history: enters minus exits of each thread
  returned,         \* history: the identity hash codes returned
  calls, interrupts

word == <<lock_word, inflations>>
monitor == <<monitor_lock_, owner_, lock_count_, num_waiters_, wait_set_, wake_set_, hash_code_>>
locals == <<ret, mon, other, new_hash, prev_lock_count, was_interrupted>>
thread == <<waits, suspend_count, wait_mutex_, wait_monitor_, interrupted>>
history == <<depth, returned>>
bounds == <<calls, interrupts>>
vars == <<word, monitor, pc, locals, thread, history, bounds>>

Unlocked == [state |-> "kUnlocked"]
ThinLocked(t, n) == [state |-> "kThinLocked", owner |-> t, count |-> n]
HashCode(h) == [state |-> "kHashCode", hash |-> h]
FatLocked(m) == [state |-> "kFatLocked", monitor |-> m]

State == lock_word.state
ThinOwner(t) == State = "kThinLocked" /\ lock_word.owner = t

\* Where a thread runs code that may touch neither lock word nor monitor: at a
\* safepoint, or inside a ScopedThreadSuspension.
InWaitScope == {"wait_enter", "signal", "signal_lock", "signal_unlock", "signal_cv",
                "wait_check", "wait_sleep", "wait_wake", "wait_runnable"}
SafePoint(t) ==
  \/ pc[t] \in {"run", "suspend_owner", "blocked", "acquired", "wait_throw"}
  \/ pc[t] \in InWaitScope /\ t \in waits

Init ==
  /\ lock_word = Unlocked
  /\ monitor_lock_ = NoThread /\ owner_ = NoThread /\ lock_count_ = 0 /\ num_waiters_ = 0
  /\ wait_set_ = <<>> /\ wake_set_ = <<>> /\ hash_code_ = 0
  /\ inflations = 0
  /\ pc = [t \in Threads |-> "run"]
  /\ ret = [t \in Threads |-> "run"]
  /\ mon = [t \in Threads |-> 0]
  /\ other = [t \in Threads |-> NoThread]
  /\ new_hash = [t \in Threads |-> 0]
  /\ waits = {}
  /\ prev_lock_count = [t \in Threads |-> 0]
  /\ was_interrupted = {}
  /\ suspend_count = [t \in Threads |-> 0]
  /\ wait_mutex_ = [t \in Threads |-> NoThread]
  /\ wait_monitor_ = {}
  /\ interrupted = {}
  /\ depth = [t \in Threads |-> 0]
  /\ returned = {}
  /\ calls = 0 /\ interrupts = 0

Goto(t, label) == pc' = [pc EXCEPT ![t] = label]

\* GenerateIdentityHashCode: a value that no thread holds and the object never had.
GenerateIdentityHashCode ==
  LET used == returned \union {hash_code_} \union {new_hash[t] : t \in Threads}
  IN  CHOOSE h \in 1..(Cardinality(Threads) + 3) :
        h \notin used /\ lock_word # HashCode(h)

\* A Runnable thread's code calls one more operation.
Call(t, label) ==
  /\ pc[t] = "run" /\ suspend_count[t] = 0
  /\ calls < MaxCalls
  /\ calls' = calls + 1
  /\ Goto(t, label)
  /\ UNCHANGED <<word, monitor, locals, thread, history, interrupts>>

-------------------------------------------------------------------------------
\* Inflation

\* InflateThinLocked, called in t's loop `from` with hash code h: the owner
\* inflates at once, anybody else has to suspend the owner first.
InflateThinLocked(t, from, h) ==
  /\ State = "kThinLocked"
  /\ ret' = [ret EXCEPT ![t] = from]
  /\ new_hash' = [new_hash EXCEPT ![t] = h]
  /\ other' = [other EXCEPT ![t] = lock_word.owner]
  /\ Goto(t, IF lock_word.owner = t THEN "install" ELSE "suspend_owner")
  /\ UNCHANGED <<word, monitor, mon, prev_lock_count, was_interrupted, thread, history,
                 bounds>>

\* SuspendThreadByThreadId has stopped the owner and t is Runnable again.
SuspendOwner(t) ==
  /\ pc[t] = "suspend_owner"
  /\ suspend_count[t] = 0
  /\ SafePoint(other[t])
  /\ suspend_count' = [suspend_count EXCEPT ![other[t]] = @ + 1]
  /\ Goto(t, "recheck")
  /\ UNCHANGED <<word, monitor, locals, waits, wait_mutex_, wait_monitor_, interrupted, history,
                 bounds>>

\* Back in the loop that wanted the inflation; Resume of the owner if t has
\* suspended it.
EndInflation(t) ==
  /\ suspend_count' = IF other[t] \in {t, NoThread} THEN suspend_count
                      ELSE [suspend_count EXCEPT ![other[t]] = @ - 1]
  /\ other' = [other EXCEPT ![t] = NoThread]
  /\ new_hash' = [new_hash EXCEPT ![t] = 0]
  /\ ret' = [ret EXCEPT ![t] = "run"]
  /\ Goto(t, ret[t])
  /\ UNCHANGED <<mon, waits, prev_lock_count, was_interrupted, wait_mutex_, wait_monitor_,
                 interrupted, history, bounds>>

\* The owner is suspended: is it still the owner of a thin lock?
Recheck(t) ==
  /\ pc[t] = "recheck"
  /\ IF ThinOwner(other[t])
       THEN Goto(t, "install") /\ UNCHANGED <<locals, thread, history, bounds>>
       ELSE EndInflation(t)
  /\ UNCHANGED <<word, monitor>>

\* Mutant: the thin lock's recursion count is not carried over.
InstallHeldOnce(t) ==
  /\ pc[t] = "install"
  /\ \/ UNCHANGED <<word, monitor>>
     \/ /\ State \in {"kThinLocked", "kHashCode"}
        /\ inflations < MaxInflations
        /\ inflations' = inflations + 1
        /\ lock_word' = FatLocked(inflations + 1)
        /\ monitor_lock_' = IF State = "kThinLocked" THEN lock_word.owner ELSE NoThread
        /\ owner_' = IF State = "kThinLocked" THEN lock_word.owner ELSE NoThread
        /\ lock_count_' = 0
        /\ hash_code_' = new_hash[t]
        /\ num_waiters_' = 0 /\ wait_set_' = <<>> /\ wake_set_' = <<>>
  /\ EndInflation(t)

\* Inflate: create a monitor that is held as often as the thin lock is and
\* publish it; if the weak compare-and-set fails or somebody else's monitor is
\* already there, the new monitor is released again.
Install(t) ==
  /\ pc[t] = "install"
  /\ \/ UNCHANGED <<word, monitor>>
     \/ /\ State \in {"kThinLocked", "kHashCode"}
        /\ inflations < MaxInflations
        /\ inflations' = inflations + 1
        /\ lock_word' = FatLocked(inflations + 1)
        /\ monitor_lock_' = IF State = "kThinLocked" THEN lock_word.owner ELSE NoThread
        /\ owner_' = IF State = "kThinLocked" THEN lock_word.owner ELSE NoThread
        /\ lock_count_' = IF State = "kThinLocked" THEN lock_word.count ELSE 0
        /\ hash_code_' = new_hash[t]
        /\ num_waiters_' = 0 /\ wait_set_' = <<>> /\ wake_set_' = <<>>
  /\ EndInflation(t)

\* Mutant: the hash code of the monitor is lost.
DeflateToUnlocked ==
  /\ \A t \in Threads : SafePoint(t)
  /\ State = "kFatLocked"
  /\ num_waiters_ = 0
  /\ monitor_lock_ = NoThread
  /\ lock_word' = Unlocked
  /\ hash_code_' = 0
  /\ UNCHANGED <<inflations, monitor_lock_, owner_, lock_count_, num_waiters_, wait_set_, wake_set_,
                 pc, locals, thread, history, bounds>>

\* Deflate, from Heap::Trim with all mutators suspended.
Deflate ==
  /\ \A t \in Threads : SafePoint(t)
  /\ State = "kFatLocked"
  /\ num_waiters_ = 0
  /\ monitor_lock_ = NoThread
  /\ lock_word' = IF hash_code_ # 0 THEN HashCode(hash_code_) ELSE Unlocked
  /\ hash_code_' = 0
  /\ UNCHANGED <<inflations, monitor_lock_, owner_, lock_count_, num_waiters_, wait_set_, wake_set_,
                 pc, locals, thread, history, bounds>>

-------------------------------------------------------------------------------
\* MonitorEnter

MonitorEnter(t) == Call(t, "enter")

\* The loop's cases that only touch the lock word: take an unlocked object,
\* count one more lock of one's own.
ThinLock(t) ==
  /\ pc[t] = "enter"
  /\ \/ State = "kUnlocked" /\ lock_word' = ThinLocked(t, 0)
     \/ /\ ThinOwner(t)
        /\ lock_word.count + 1 <= kThinLockMaxCount
        /\ lock_word' = ThinLocked(t, lock_word.count + 1)
  /\ depth' = [depth EXCEPT ![t] = @ + 1]
  /\ Goto(t, "run")
  /\ UNCHANGED <<inflations, monitor, locals, thread, returned, bounds>>

\* The loop's cases that inflate: an overflowing count, a lock of another thread
\* that does not go away while t spins, and a hash code in the lock word.
EnterInflate(t) ==
  /\ pc[t] = "enter"
  /\ \/ /\ ThinOwner(t) => lock_word.count + 1 > kThinLockMaxCount
        /\ InflateThinLocked(t, "enter", 0)
     \/ /\ State = "kHashCode"
        /\ ret' = [ret EXCEPT ![t] = "enter"]
        /\ new_hash' = [new_hash EXCEPT ![t] = lock_word.hash]
        /\ Goto(t, "install")
        /\ UNCHANGED <<word, monitor, mon, other, prev_lock_count, was_interrupted, thread, history,
                       bounds>>

\* The object has a monitor: go on with Monitor::Lock.
EnterFat(t) ==
  /\ pc[t] = "enter"
  /\ State = "kFatLocked"
  /\ mon' = [mon EXCEPT ![t] = lock_word.monitor]
  /\ Goto(t, "lock")
  /\ UNCHANGED <<word, monitor, ret, other, new_hash, prev_lock_count, was_interrupted, thread,
                 history, bounds>>

\* What follows in the caller once Monitor::Lock has the monitor: MonitorEnter
\* returns; Wait restores the count, stops counting as a waiter and takes itself
\* off the set it is in.
Locked(t, waiters) ==
  /\ IF t \in waits
       THEN /\ lock_count_' = prev_lock_count[t]
            /\ num_waiters_' = waiters - 1
            /\ wait_set_' = Remove(wait_set_, t)
            /\ wake_set_' = Remove(wake_set_, t)
            /\ UNCHANGED depth
       ELSE /\ num_waiters_' = waiters
            /\ depth' = [depth EXCEPT ![t] = @ + 1]
            /\ UNCHANGED <<lock_count_, wait_set_, wake_set_>>
  /\ waits' = waits \ {t}
  /\ prev_lock_count' = [prev_lock_count EXCEPT ![t] = 0]
  /\ mon' = [mon EXCEPT ![t] = 0]
  /\ Goto(t, "run")
  /\ UNCHANGED <<word, hash_code_, ret, other, new_hash, was_interrupted, suspend_count,
                 wait_mutex_, wait_monitor_, interrupted, returned, bounds>>

\* TryLock by the owner counts one more lock.
LockAgain(t) ==
  /\ pc[t] = "lock"
  /\ owner_ = t
  /\ lock_count_' = lock_count_ + 1
  /\ depth' = [depth EXCEPT ![t] = @ + 1]
  /\ mon' = [mon EXCEPT ![t] = 0]
  /\ Goto(t, "run")
  /\ UNCHANGED <<word, monitor_lock_, owner_, num_waiters_, wait_set_, wake_set_, hash_code_, ret,
                 other, new_hash, prev_lock_count, was_interrupted, thread, returned, bounds>>

\* TryLock of a free monitor_lock_.
TryLock(t) ==
  /\ pc[t] = "lock"
  /\ owner_ # t /\ monitor_lock_ = NoThread
  /\ monitor_lock_' = t
  /\ owner_' = t
  /\ Locked(t, num_waiters_)

\* Mutant: a thread that contends for the monitor is not counted.
BlockUncounted(t) ==
  /\ pc[t] = "lock"
  /\ owner_ # t /\ monitor_lock_ # NoThread
  /\ Goto(t, "blocked")
  /\ UNCHANGED <<word, monitor, locals, thread, history, bounds>>

\* Contended: count as a waiter, so that the monitor is not deflated, and only
\* then give up the mutator lock.
Block(t) ==
  /\ pc[t] = "lock"
  /\ owner_ # t /\ monitor_lock_ # NoThread
  /\ num_waiters_' = num_waiters_ + 1
  /\ Goto(t, "blocked")
  /\ UNCHANGED <<word, monitor_lock_, owner_, lock_count_, wait_set_, wake_set_, hash_code_, locals,
                 thread, history, bounds>>

\* monitor_lock_.ExclusiveLock returns, in a suspended thread.
Acquire(t) ==
  /\ pc[t] = "blocked"
  /\ monitor_lock_ = NoThread
  /\ monitor_lock_' = t
  /\ Goto(t, "acquired")
  /\ UNCHANGED <<word, owner_, lock_count_, num_waiters_, wait_set_, wake_set_, hash_code_, locals,
                 thread, history, bounds>>

\* Runnable again: the fields of the monitor may be touched.
Own(t) ==
  /\ pc[t] = "acquired"
  /\ suspend_count[t] = 0
  /\ owner_' = t
  /\ Locked(t, num_waiters_ - 1)
  /\ UNCHANGED monitor_lock_

-------------------------------------------------------------------------------
\* MonitorExit

Owns(t) == ThinOwner(t) \/ (State = "kFatLocked" /\ owner_ = t)

\* MonitorExit by the owner; anybody else's call changes nothing and throws
\* IllegalMonitorStateException.
MonitorExit(t) ==
  /\ pc[t] = "run" /\ suspend_count[t] = 0
  /\ Owns(t)
  /\ depth' = [depth EXCEPT ![t] = @ - 1]
  /\ IF State = "kThinLocked"
       THEN /\ lock_word' = IF lock_word.count = 0 THEN Unlocked ELSE ThinLocked(t, lock_word.count - 1)
            /\ UNCHANGED <<owner_, lock_count_, mon, pc>>
       ELSE /\ UNCHANGED lock_word
            /\ IF lock_count_ = 0
                 THEN /\ owner_' = NoThread
                      /\ mon' = [mon EXCEPT ![t] = lock_word.monitor]
                      /\ Goto(t, "signal")
                      /\ UNCHANGED lock_count_
                 ELSE lock_count_' = lock_count_ - 1 /\ UNCHANGED <<owner_, mon, pc>>
  /\ UNCHANGED <<inflations, monitor_lock_, num_waiters_, wait_set_, wake_set_, hash_code_, ret,
                 other, new_hash, prev_lock_count, was_interrupted, thread, returned, bounds>>

\* After SignalWaiterAndReleaseMonitorLock, Wait goes on and MonitorExit returns.
AfterSignal(t) ==
  /\ Goto(t, IF t \in waits THEN "wait_check" ELSE "run")
  /\ mon' = IF t \in waits THEN mon ELSE [mon EXCEPT ![t] = 0]

\* Mutant: monitor_lock_ is released and nobody is woken.
SignalNobody(t) ==
  /\ pc[t] = "signal"
  /\ monitor_lock_' = NoThread
  /\ AfterSignal(t)
  /\ UNCHANGED <<word, owner_, lock_count_, num_waiters_, wait_set_, wake_set_, hash_code_, ret,
                 other, new_hash, prev_lock_count, was_interrupted, thread, history, bounds>>

\* SignalWaiterAndReleaseMonitorLock: take the next thread off wake_set_, or
\* release monitor_lock_ if there is none.
Signal(t) ==
  /\ pc[t] = "signal"
  /\ IF wake_set_ = <<>>
       THEN /\ monitor_lock_' = NoThread
            /\ AfterSignal(t)
            /\ UNCHANGED <<wake_set_, other>>
       ELSE /\ other' = [other EXCEPT ![t] = Head(wake_set_)]
            /\ wake_set_' = Tail(wake_set_)
            /\ Goto(t, "signal_lock")
            /\ UNCHANGED <<monitor_lock_, mon>>
  /\ UNCHANGED <<word, owner_, lock_count_, num_waiters_, wait_set_, hash_code_, ret, new_hash,
                 prev_lock_count, was_interrupted, thread, history, bounds>>

\* With that thread's wait mutex held, see whether it still waits; if not, go
\* back for the next one.
SignalLock(t) ==
  /\ pc[t] = "signal_lock"
  /\ wait_mutex_[other[t]] = NoThread
  /\ IF other[t] \in wait_monitor_
       THEN /\ wait_mutex_' = [wait_mutex_ EXCEPT ![other[t]] = t]
            /\ Goto(t, "signal_unlock")
            /\ UNCHANGED other
       ELSE /\ other' = [other EXCEPT ![t] = NoThread]
            /\ Goto(t, "signal")
            /\ UNCHANGED wait_mutex_
  /\ UNCHANGED <<word, monitor, ret, mon, new_hash, prev_lock_count, was_interrupted, waits,
                 suspend_count, wait_monitor_, interrupted, history, bounds>>

SignalUnlock(t) ==
  /\ pc[t] = "signal_unlock"
  /\ monitor_lock_' = NoThread
  /\ Goto(t, "signal_cv")
  /\ UNCHANGED <<word, owner_, lock_count_, num_waiters_, wait_set_, wake_set_, hash_code_, locals,
                 thread, history, bounds>>

\* Signal the thread's wait_cond_ and drop its wait mutex.
SignalCv(t) ==
  /\ pc[t] = "signal_cv"
  /\ LET u == other[t] IN
       /\ pc' = [pc EXCEPT ![t] = IF t \in waits THEN "wait_check" ELSE "run",
                           ![u] = IF @ = "wait_sleep" THEN "wait_wake" ELSE @]
       /\ wait_mutex_' = [wait_mutex_ EXCEPT ![u] = NoThread]
  /\ mon' = IF t \in waits THEN mon ELSE [mon EXCEPT ![t] = 0]
  /\ other' = [other EXCEPT ![t] = NoThread]
  /\ UNCHANGED <<word, monitor, ret, new_hash, prev_lock_count, was_interrupted, waits,
                 suspend_count, wait_monitor_, interrupted, history, bounds>>

-------------------------------------------------------------------------------
\* Wait, Notify, NotifyAll and Thread::Interrupt

Wait(t) == Owns(t) /\ Call(t, "wait")

\* A thin lock is inflated first, as often as it takes.
WaitInflate(t) ==
  /\ pc[t] = "wait"
  /\ InflateThinLocked(t, "wait", 0)

\* Mutant: the waiting thread stays the owner until it is woken.
WaitKeepOwner(t) ==
  /\ pc[t] = "wait"
  /\ State = "kFatLocked"
  /\ mon' = [mon EXCEPT ![t] = lock_word.monitor]
  /\ prev_lock_count' = [prev_lock_count EXCEPT ![t] = lock_count_]
  /\ lock_count_' = 0
  /\ num_waiters_' = num_waiters_ + 1
  /\ waits' = waits \union {t}
  /\ Goto(t, "wait_enter")
  /\ UNCHANGED <<word, monitor_lock_, owner_, wait_set_, wake_set_, hash_code_, ret, other, new_hash,
                 was_interrupted, suspend_count, wait_mutex_, wait_monitor_, interrupted, history,
                 bounds>>

\* Give up the monitor's fields and count as a waiter before the thread counts
\* as suspended.
WaitRelease(t) ==
  /\ pc[t] = "wait"
  /\ State = "kFatLocked"
  /\ mon' = [mon EXCEPT ![t] = lock_word.monitor]
  /\ prev_lock_count' = [prev_lock_count EXCEPT ![t] = lock_count_]
  /\ lock_count_' = 0
  /\ owner_' = NoThread
  /\ num_waiters_' = num_waiters_ + 1
  /\ waits' = waits \union {t}
  /\ Goto(t, "wait_enter")
  /\ UNCHANGED <<word, monitor_lock_, wait_set_, wake_set_, hash_code_, ret, other, new_hash,
                 was_interrupted, suspend_count, wait_mutex_, wait_monitor_, interrupted, history,
                 bounds>>

\* AppendToWaitSet and SetWaitMonitor with the thread's own wait mutex held,
\* which it keeps while it releases monitor_lock_.
AppendToWaitSet(t) ==
  /\ pc[t] = "wait_enter"
  /\ wait_mutex_[t] = NoThread
  /\ wait_mutex_' = [wait_mutex_ EXCEPT ![t] = t]
  /\ wait_set_' = Append(wait_set_, t)
  /\ wait_monitor_' = wait_monitor_ \union {t}
  /\ Goto(t, "signal")
  /\ UNCHANGED <<word, monitor_lock_, owner_, lock_count_, num_waiters_, wake_set_, hash_code_,
                 locals, waits, suspend_count, interrupted, history, bounds>>

\* An interrupt that came earlier ends the wait before it begins.  Otherwise
\* sleep on wait_cond_, which drops the wait mutex.
WaitCheck(t) ==
  /\ pc[t] = "wait_check"
  /\ Goto(t, IF t \in interrupted THEN "wait_runnable" ELSE "wait_sleep")
  /\ was_interrupted' = was_interrupted \union ({t} \intersect interrupted)
  /\ wait_mutex_' = [wait_mutex_ EXCEPT ![t] = NoThread]
  /\ UNCHANGED <<word, monitor, ret, mon, other, new_hash, prev_lock_count, waits, suspend_count,
                 wait_monitor_, interrupted, history, bounds>>

\* The wait times out, or wakes up for no reason.
TimeOut(t) ==
  /\ pc[t] = "wait_sleep"
  /\ interrupts < MaxInterrupts
  /\ interrupts' = interrupts + 1
  /\ Goto(t, "wait_wake")
  /\ UNCHANGED <<word, monitor, locals, thread, history, calls>>

\* Awake: wait_cond_ gives the wait mutex back and the scope drops it.
WaitWake(t) ==
  /\ pc[t] = "wait_wake"
  /\ wait_mutex_[t] = NoThread
  /\ was_interrupted' = was_interrupted \union ({t} \intersect interrupted)
  /\ Goto(t, "wait_runnable")
  /\ UNCHANGED <<word, monitor, ret, mon, other, new_hash, prev_lock_count, thread, history, bounds>>

\* Runnable again: wait_monitor_ is reset, and an interrupt is turned into an
\* InterruptedException if the caller wants that.
WaitReset(t) ==
  /\ pc[t] = "wait_runnable"
  /\ suspend_count[t] = 0
  /\ wait_mutex_[t] = NoThread
  /\ wait_monitor_' = wait_monitor_ \ {t}
  /\ \/ interrupted' = interrupted \ ({t} \intersect was_interrupted)
     \/ UNCHANGED interrupted
  /\ was_interrupted' = was_interrupted \ {t}
  /\ Goto(t, "wait_throw")
  /\ UNCHANGED <<word, monitor, ret, mon, other, new_hash, prev_lock_count, waits, suspend_count,
                 wait_mutex_, history, bounds>>

\* Lock<kForWait>.
WaitLock(t) ==
  /\ pc[t] = "wait_throw"
  /\ suspend_count[t] = 0
  /\ Goto(t, "lock")
  /\ UNCHANGED <<word, monitor, locals, thread, history, bounds>>

\* The owner moves the oldest waiter to the front of wake_set_ (Notify), or all
\* of them to its end (NotifyAll); a thin lock has no waiters.
Notify(t) ==
  /\ pc[t] = "run" /\ suspend_count[t] = 0
  /\ State = "kFatLocked" /\ owner_ = t
  /\ wait_set_ # <<>>
  /\ \/ /\ wake_set_' = <<Head(wait_set_)>> \o wake_set_
        /\ wait_set_' = Tail(wait_set_)
     \/ /\ wake_set_' = wake_set_ \o wait_set_
        /\ wait_set_' = <<>>
  /\ UNCHANGED <<word, monitor_lock_, owner_, lock_count_, num_waiters_, hash_code_, pc, locals,
                 thread, history, bounds>>

\* Thread::Interrupt of t, with t's wait mutex held: wake it if it waits.
Interrupt(t) ==
  /\ t \notin interrupted
  /\ interrupts < MaxInterrupts
  /\ wait_mutex_[t] = NoThread
  /\ interrupts' = interrupts + 1
  /\ interrupted' = interrupted \union {t}
  /\ pc' = [pc EXCEPT ![t] = IF t \in wait_monitor_ /\ @ = "wait_sleep" THEN "wait_wake" ELSE @]
  /\ UNCHANGED <<word, monitor, locals, waits, suspend_count, wait_mutex_, wait_monitor_, history,
                 calls>>

-------------------------------------------------------------------------------
\* Object::IdentityHashCode

IdentityHashCode(t) == Call(t, "hash")

\* The cases that return: a hash code in the lock word or in the monitor, there
\* already or, with a compare-and-set, put there now.
HashReturn(t) ==
  /\ pc[t] = "hash"
  /\ \/ /\ State = "kHashCode"
        /\ returned' = returned \union {lock_word.hash}
        /\ UNCHANGED <<lock_word, hash_code_>>
     \/ /\ State = "kUnlocked"
        /\ lock_word' = HashCode(GenerateIdentityHashCode)
        /\ returned' = returned \union {GenerateIdentityHashCode}
        /\ UNCHANGED hash_code_
     \/ /\ State = "kFatLocked"
        /\ hash_code_' = IF hash_code_ = 0 THEN GenerateIdentityHashCode ELSE hash_code_
        /\ returned' = returned \union {hash_code_'}
        /\ UNCHANGED lock_word
  /\ Goto(t, "run")
  /\ UNCHANGED <<inflations, monitor_lock_, owner_, lock_count_, num_waiters_, wait_set_, wake_set_,
                 locals, thread, depth, bounds>>

\* A thin lock leaves no room: inflate to a monitor with a new hash code.
HashInflate(t) ==
  /\ pc[t] = "hash"
  /\ InflateThinLocked(t, "hash", GenerateIdentityHashCode)

-------------------------------------------------------------------------------
Step(t) ==
  \/ SuspendOwner(t) \/ Recheck(t) \/ Install(t)
  \/ ThinLock(t) \/ EnterInflate(t) \/ EnterFat(t)
  \/ LockAgain(t) \/ TryLock(t) \/ Block(t) \/ Acquire(t) \/ Own(t)
  \/ Signal(t) \/ SignalLock(t) \/ SignalUnlock(t) \/ SignalCv(t)
  \/ WaitInflate(t) \/ WaitRelease(t) \/ AppendToWaitSet(t) \/ WaitCheck(t)
  \/ WaitWake(t) \/ WaitReset(t) \/ WaitLock(t)
  \/ HashReturn(t) \/ HashInflate(t)

\* The clients have made all their calls, and whoever still waits was never
\* notified.  Any other state without a next step is a deadlock.
Finished ==
  /\ calls = MaxCalls
  /\ \A t \in Threads : pc[t] = "run" \/ (pc[t] = "wait_sleep" /\ t \in ToSet(wait_set_))
  /\ \A t \in Threads : ~Owns(t)
  /\ UNCHANGED vars

Next ==
  \/ Deflate \/ Finished
  \/ \E t \in Threads :
       \/ Step(t) \/ MonitorEnter(t) \/ MonitorExit(t) \/ Wait(t) \/ Notify(t)
       \/ IdentityHashCode(t) \/ TimeOut(t) \/ Interrupt(t)

Spec == Init /\ [][Next]_vars

-------------------------------------------------------------------------------
\* Properties

LockOwner ==
  IF State = "kThinLocked" THEN lock_word.owner
  ELSE IF State = "kFatLocked" THEN owner_ ELSE NoThread

\* The threads in Object.wait that nothing has ended yet.
Waiting ==
  {t \in waits : \/ pc[t] = "wait_enter"
                 \/ /\ t \in ToSet(wait_set_)
                    /\ pc[t] \in {"signal", "signal_lock", "signal_unlock", "signal_cv",
                                  "wait_check", "wait_sleep"}}

\* Thin or fat, inflated under its owner's hands, deflated and inflated again:
\* the monitor is one lock with a wait set, given up in the instant in which
\* the owner starts to wait.
Lock == INSTANCE AbstractLock WITH owner <- LockOwner, waiting <- Waiting
ImplementsLock == Lock!Spec

\* "Monitor remains in the same logical state as before, i.e. held the same # of
\* times" (Install): a thread back in its own code holds the monitor as often as
\* it has entered and not left it, through inflation and across waits.
EntryCountKept ==
  \A t \in Threads :
    pc[t] = "run" =>
      depth[t] = IF ~Owns(t) THEN 0
                 ELSE 1 + IF State = "kThinLocked" THEN lock_word.count ELSE lock_count_

\* "The identity hash code is set for the life time of the monitor" and beyond:
\* all calls of IdentityHashCode return the same value, whatever inflation or
\* deflation comes between them.
HashCodeStable == Cardinality(returned) <= 1

\* The Monitor a thread works with is the one its object has now: Deflate frees
\* no monitor that somebody locks, waits on or is about to touch, and Install
\* never meets an unlocked lock word, which it takes for fatal.
MonitorNotFreed ==
  \A t \in Threads :
    /\ mon[t] # 0 => lock_word = FatLocked(mon[t])
    /\ pc[t] = "install" => State # "kUnlocked"

\* SignalWaiterAndReleaseMonitorLock wakes one notified thread at a time.  As
\* long as notified threads sleep on, some thread holds monitor_lock_ or is
\* awake on its way to it, and will wake the next one when it leaves; and no
\* interrupted thread sleeps.
NotifiedIsAwaited ==
  \A t \in Threads :
    pc[t] = "wait_sleep" =>
      /\ t \notin interrupted
      /\ t \notin ToSet(wait_set_) =>
           \/ monitor_lock_ # NoThread
           \/ \E u \in Threads :
                \/ pc[u] \in {"lock", "blocked", "wait_wake", "wait_runnable", "wait_throw"}
                \/ pc[u] = "signal_cv" /\ other[u] \in waits
===============================================================================
