----------------------------- MODULE ClassLinker -----------------------------
(***************************************************************************)
(* The initialisation of classes (runtime/class_linker.cc): threads verify *)
(* and initialise classes and their superclasses, wait for each other on   *)
(* the monitors of the classes, and make initialised classes visible to    *)
(* all threads by checkpoints.                                             *)
(*                                                                         *)
(* A thread has a stack of calls; a frame is the class, the place in the   *)
(* call, and for the calls that make classes visible the callback and      *)
(* wait_count.  A class monitor is held by a frame across steps only at    *)
(* the places in Holding; a shorter critical section is one step.          *)
(* Monitors follow the contract of module Monitor and RunCheckpoint that   *)
(* of module Checkpoint.  The module is about the runtime on an ISA other  *)
(* than x86, with verification enabled, not about the ahead-of-time        *)
(* compiler; exceptions are left out, and so are interfaces.               *)
(***************************************************************************)
EXTENDS Integers, Sequences, FiniteSets

CONSTANTS
  Threads, NoThread,
  Classes, NoClass,
  superclass,   \* the superclass of each class, or NoClass
  uses,         \* the classes that the <clinit> of each class needs
  kMaxClasses,  \* classes in one VisiblyInitializedCallback
  MaxCalls      \* bound: calls of all threads together

VARIABLES
  status,           \* ClassStatus of each class
  clinit_thread_id, \* the thread that runs <clinit>
  stack,            \* the calls each thread is in
  result,           \* what the last call that returned in a thread returned
  asleep,           \* threads in Object.wait on the class of their frame
  filling,          \* number of visibly_initialized_callback_, 0 for none
  running,          \* running_visibly_initialized_callbacks_
  callback,         \* the callback objects by number
  barrier,          \* count_ of the Barrier of each thread's call
  passed,           \* history: threads with a checkpoint since kInitialized
  calls

vars == <<status, clinit_thread_id, stack, result, asleep, filling, running, callback, barrier,
          passed, calls>>
visibility == <<filling, running, callback, barrier, passed>>

kErrorResolved == 2
kResolved == 7
kVerifying == 8
kVerifiedNeedsAccessChecks == 10
kVerified == 11
kInitializing == 13
kInitialized == 14
kVisiblyInitialized == 15

IsErroneous(c) == status[c] = kErrorResolved
IsVerified(c) == status[c] >= kVerified
IsInitialized(c) == status[c] >= kInitialized

Callbacks == 1..Cardinality(Classes)
EmptyCallback == [classes |-> {}, counter |-> 0, pending |-> {}, barriers |-> {}]

\* The classes are loaded from a dex file, or from an image that the compiler
\* wrote after verifying them.
Init ==
  /\ \E loaded \in {kResolved, kVerifiedNeedsAccessChecks} : status = [c \in Classes |-> loaded]
  /\ clinit_thread_id = [c \in Classes |-> NoThread]
  /\ stack = [t \in Threads |-> <<>>]
  /\ result = [t \in Threads |-> TRUE]
  /\ asleep = {}
  /\ filling = 0
  /\ running = {}
  /\ callback = [i \in Callbacks |-> EmptyCallback]
  /\ barrier = [t \in Threads |-> 0]
  /\ passed = [c \in Classes |-> {}]
  /\ calls = 0

-------------------------------------------------------------------------------
(* Calls. *)

Frame(c, label) == [klass |-> c, pc |-> label, callback |-> 0, wait_count |-> 0]
Depth(t) == Len(stack[t])
Top(t) == stack[t][Depth(t)]
At(t, label) == stack[t] # <<>> /\ Top(t).pc = label

Become(t, frame) == stack' = [stack EXCEPT ![t][Depth(t)] = frame] /\ UNCHANGED result
Goto(t, label) == Become(t, [Top(t) EXCEPT !.pc = label])
Push(t, frame) == stack' = [stack EXCEPT ![t] = Append(@, frame)] /\ UNCHANGED result
\* Calls frame, with label as the place to go on when it has returned.
CallThen(t, label, frame) ==
  /\ stack' = [stack EXCEPT ![t] = Append([@ EXCEPT ![Depth(t)].pc = label], frame)]
  /\ UNCHANGED result
Return(t, value) ==
  /\ stack' = [stack EXCEPT ![t] = SubSeq(@, 1, Depth(t) - 1)]
  /\ result' = [result EXCEPT ![t] = value]

-------------------------------------------------------------------------------
(* The monitors of the classes. *)

Holding == {"init_verify", "init_add", "synchronized"}
InWait(t, c) ==
  \E i \in DOMAIN stack[t] :
    stack[t][i].klass = c /\ stack[t][i].pc \in {"verify_wait", "init_wait"}
Holds(t, c) ==
  /\ \E i \in DOMAIN stack[t] : stack[t][i].klass = c /\ stack[t][i].pc \in Holding
  /\ ~InWait(t, c)
CanLock(t, c) == \A u \in Threads \ {t} : ~Holds(u, c)

\* A thread has run its checkpoints when it leaves the Runnable state.
MaySuspend(t) == \A i \in Callbacks : t \notin callback[i].pending

\* WaitIgnoringInterrupts.
Wait(t, label) ==
  /\ MaySuspend(t)
  /\ Goto(t, label)
  /\ asleep' = asleep \union {t}
  /\ UNCHANGED status

\* SetStatus: waiters are notified, except of the hidden transition to
\* kVisiblyInitialized.
SetStatus(c, new_status) ==
  /\ status' = [status EXCEPT ![c] = new_status]
  /\ asleep' = {t \in asleep : ~InWait(t, c)}

\* A wait ends early, because of an interrupt.
WaitReturnsEarly(t) ==
  /\ t \in asleep
  /\ asleep' = asleep \ {t}
  /\ UNCHANGED <<status, clinit_thread_id, stack, result, visibility, calls>>

-------------------------------------------------------------------------------
(* VerifyClass. *)

\* The part under the lock: what VerifyClass does with the status it finds.
VerifyLocked(t, c) ==
  \/ status[c] = kVerifying /\ Wait(t, "verify_wait")
  \/ IsErroneous(c) /\ Return(t, FALSE) /\ UNCHANGED <<status, asleep>>
  \/ IsVerified(c) /\ Return(t, TRUE) /\ UNCHANGED <<status, asleep>>
  \/ status[c] = kVerifiedNeedsAccessChecks /\ SetStatus(c, kVerified) /\ Return(t, TRUE)
  \/ status[c] = kResolved /\ SetStatus(c, kVerifying) /\ Goto(t, "verify_super")

VerifyClass(t) ==
  LET c == Top(t).klass IN
  /\ At(t, "verify") \/ (At(t, "verify_wait") /\ t \notin asleep)
  /\ CanLock(t, c)
  /\ VerifyLocked(t, c)
  /\ UNCHANGED <<clinit_thread_id, visibility, calls>>

\* AttemptSupertypeVerification looks at the superclass without its lock.
AttemptSupertypeVerification(t) ==
  LET super == superclass[Top(t).klass] IN
  /\ At(t, "verify_super")
  /\ IF super # NoClass /\ ~IsVerified(super) /\ ~IsErroneous(super)
     THEN CallThen(t, "verify_super_done", Frame(super, "verify"))
     ELSE Goto(t, "verify_super_done")
  /\ UNCHANGED <<status, clinit_thread_id, asleep, visibility, calls>>

SupertypeVerified(t) ==
  LET super == superclass[Top(t).klass] IN
  /\ At(t, "verify_super_done")
  /\ Goto(t, IF super = NoClass \/ IsVerified(super) \/ status[super] = kVerifiedNeedsAccessChecks
             THEN "verify_perform"
             ELSE "verify_reject")
  /\ UNCHANGED <<status, clinit_thread_id, asleep, visibility, calls>>

\* PerformClassVerification has its result and the lock is taken again; or the
\* superclass is erroneous.
FinishVerification(t) ==
  LET c == Top(t).klass IN
  /\ At(t, "verify_perform") \/ At(t, "verify_reject")
  /\ CanLock(t, c)
  /\ \/ At(t, "verify_perform") /\ SetStatus(c, kVerified) /\ Return(t, TRUE)
     \/ SetStatus(c, kErrorResolved) /\ Return(t, FALSE)
  /\ UNCHANGED <<clinit_thread_id, visibility, calls>>

VerifyStep(t) ==
  \/ VerifyClass(t)
  \/ AttemptSupertypeVerification(t)
  \/ SupertypeVerified(t)
  \/ FinishVerification(t)

-------------------------------------------------------------------------------
(* InitializeClass. *)

\* The class is verified and the lock held: it is initialised, or this thread or
\* another one is at it, or this thread begins unless ValidateSuperClassDescriptors
\* fails.
BeginInitialization(t, c) ==
  \/ /\ IsInitialized(c) \/ (status[c] = kInitializing /\ clinit_thread_id[c] = t)
     /\ Return(t, TRUE)
     /\ UNCHANGED <<status, asleep, clinit_thread_id>>
  \/ /\ status[c] = kInitializing /\ clinit_thread_id[c] # t
     /\ Wait(t, "init_wait")
     /\ UNCHANGED clinit_thread_id
  \/ /\ status[c] = kVerified
     /\ SetStatus(c, kErrorResolved)
     /\ Return(t, FALSE)
     /\ UNCHANGED clinit_thread_id
  \/ /\ status[c] = kVerified
     /\ clinit_thread_id' = [clinit_thread_id EXCEPT ![c] = t]
     /\ SetStatus(c, kInitializing)
     /\ Goto(t, "init_super")

\* The check without the lock, of EnsureInitialized and InitializeClass; a class
\* that is not yet visible may lead to a request to make it so.
EnsureInitialized(t) ==
  LET c == Top(t).klass IN
  /\ At(t, "ensure")
  /\ \/ IsInitialized(c) /\ Return(t, TRUE)
     \/ status[c] = kInitialized /\ Become(t, Frame(NoClass, "make"))
     \/ ~IsInitialized(c) /\ Goto(t, "init")
  /\ UNCHANGED <<status, clinit_thread_id, asleep, visibility, calls>>

InitializeClass(t) ==
  LET c == Top(t).klass IN
  /\ At(t, "init")
  /\ CanLock(t, c)
  /\ \/ /\ IsErroneous(c)
        /\ Return(t, FALSE)
        /\ UNCHANGED <<status, asleep, clinit_thread_id>>
     \/ /\ ~IsErroneous(c) /\ ~IsVerified(c)
        /\ CallThen(t, "init_verify", Frame(c, "verify"))
        /\ UNCHANGED <<status, asleep, clinit_thread_id>>
     \/ IsVerified(c) /\ BeginInitialization(t, c)
  /\ UNCHANGED <<visibility, calls>>

\* VerifyClass has returned, and the lock is held.
InitializeVerified(t) ==
  LET c == Top(t).klass IN
  /\ At(t, "init_verify")
  /\ \/ IsVerified(c) /\ BeginInitialization(t, c)
     \/ ~IsVerified(c) /\ Return(t, FALSE) /\ UNCHANGED <<status, asleep, clinit_thread_id>>
  /\ UNCHANGED <<visibility, calls>>

\* Mutant: any notification counts as the end of the initialisation.
WaitForInitializeClassOnce(t) ==
  /\ At(t, "init_wait")
  /\ t \notin asleep
  /\ CanLock(t, Top(t).klass)
  /\ Return(t, ~IsErroneous(Top(t).klass))
  /\ UNCHANGED <<status, clinit_thread_id, asleep, visibility, calls>>

WaitForInitializeClass(t) ==
  LET c == Top(t).klass IN
  /\ At(t, "init_wait")
  /\ t \notin asleep
  /\ CanLock(t, c)
  /\ IF status[c] = kInitializing
     THEN Wait(t, "init_wait")
     ELSE Return(t, IsInitialized(c)) /\ UNCHANGED <<status, asleep>>
  /\ UNCHANGED <<clinit_thread_id, visibility, calls>>

InitializeSuper(t) ==
  LET super == superclass[Top(t).klass] IN
  /\ At(t, "init_super")
  /\ IF super # NoClass /\ ~IsInitialized(super)
     THEN CallThen(t, "init_super_done", Frame(super, "init"))
     ELSE Goto(t, "init_clinit")
  /\ UNCHANGED <<status, clinit_thread_id, asleep, visibility, calls>>

SuperInitialized(t) ==
  /\ At(t, "init_super_done")
  /\ Goto(t, IF result[t] THEN "init_clinit" ELSE "init_failed")
  /\ UNCHANGED <<status, clinit_thread_id, asleep, visibility, calls>>

\* <clinit> may need other classes, and it returns or throws.
ClinitUses(t) ==
  /\ At(t, "init_clinit")
  /\ \E c \in uses[Top(t).klass] : CallThen(t, "init_clinit_end", Frame(c, "ensure"))
  /\ UNCHANGED <<status, clinit_thread_id, asleep, visibility, calls>>

ClinitEnds(t) ==
  /\ At(t, "init_clinit") \/ At(t, "init_clinit_end")
  /\ \/ Goto(t, "init_failed")
     \/ Goto(t, "init_mark")
  /\ UNCHANGED <<status, clinit_thread_id, asleep, visibility, calls>>

\* The superclass is erroneous or <clinit> has thrown.
InitializationFails(t) ==
  LET c == Top(t).klass IN
  /\ At(t, "init_failed")
  /\ CanLock(t, c)
  /\ SetStatus(c, kErrorResolved)
  /\ Return(t, FALSE)
  /\ UNCHANGED <<clinit_thread_id, visibility, calls>>

\* MarkClassInitialized sets the status, then takes visibly_initialized_callback_lock_
\* to add the class to the callback that is being filled.
MarkClassInitialized(t) ==
  LET c == Top(t).klass IN
  /\ At(t, "init_mark")
  /\ CanLock(t, c)
  /\ SetStatus(c, kInitialized)
  /\ Goto(t, "init_add")
  /\ UNCHANGED <<clinit_thread_id, visibility, calls>>

AddClass(t) ==
  LET c == Top(t).klass
      i == IF filling # 0 THEN filling
           ELSE CHOOSE j \in Callbacks : j \notin running /\ callback[j] = EmptyCallback
      classes == callback[i].classes \union {c}
      full == Cardinality(classes) = kMaxClasses
  IN
  /\ At(t, "init_add")
  /\ callback' = [callback EXCEPT ![i].classes = classes]
  /\ filling' = IF full THEN 0 ELSE i
  /\ running' = IF full THEN running \union {i} ELSE running
  /\ IF full THEN Become(t, [Frame(NoClass, "make_visible") EXCEPT !.callback = i]) ELSE Return(t, TRUE)
  /\ UNCHANGED <<status, clinit_thread_id, asleep, barrier, passed, calls>>

InitializeStep(t) ==
  \/ EnsureInitialized(t)
  \/ InitializeClass(t)
  \/ InitializeVerified(t)
  \/ WaitForInitializeClass(t)
  \/ InitializeSuper(t)
  \/ SuperInitialized(t)
  \/ ClinitUses(t)
  \/ ClinitEnds(t)
  \/ InitializationFails(t)
  \/ MarkClassInitialized(t)
  \/ AddClass(t)

-------------------------------------------------------------------------------
(* Making classes visibly initialised. *)

MakeInitializedClassesVisiblyInitialized(t) ==
  LET wait == At(t, "make_and_wait")
      release == filling # 0 /\ callback[filling].classes # {}
      all == IF release THEN running \union {filling} ELSE running
  IN
  /\ At(t, "make") \/ wait
  /\ running' = all
  /\ filling' = IF release THEN 0 ELSE filling
  /\ callback' = [i \in Callbacks |->
       IF wait /\ i \in all THEN [callback[i] EXCEPT !.barriers = @ \union {t}] ELSE callback[i]]
  /\ Become(t, [klass |-> NoClass, pc |-> IF release THEN "make_visible" ELSE "increment",
                callback |-> IF release THEN filling ELSE 0,
                wait_count |-> IF wait THEN Cardinality(all) ELSE 0])
  /\ UNCHANGED <<status, clinit_thread_id, asleep, barrier, passed, calls>>

\* RunCheckpoint asks all threads to run the callback.
MakeVisible(t) ==
  /\ At(t, "make_visible")
  /\ callback' = [callback EXCEPT ![Top(t).callback].pending = Threads]
  /\ Goto(t, "adjust")
  /\ UNCHANGED <<status, clinit_thread_id, asleep, filling, running, barrier, passed, calls>>

\* Mutant: the status is set under the lock of the class.
AdjustThreadVisibilityCounterLocked(t, i, adjustment) ==
  LET counter == callback[i].counter + adjustment IN
  /\ counter = 0 => \A c \in callback[i].classes : CanLock(t, c)
  /\ callback' = [callback EXCEPT
       ![i].counter = counter,
       ![i].pending = IF adjustment = -1 THEN @ \ {t} ELSE @,
       ![i].classes = IF counter = 0 THEN {} ELSE @]
  /\ status' = [c \in Classes |->
       IF counter = 0 /\ c \in callback[i].classes THEN kVisiblyInitialized ELSE status[c]]

\* The thread that brings the counter to zero sets the status of the classes,
\* without their locks.
AdjustThreadVisibilityCounter(t, i, adjustment) ==
  LET counter == callback[i].counter + adjustment IN
  /\ callback' = [callback EXCEPT
       ![i].counter = counter,
       ![i].pending = IF adjustment = -1 THEN @ \ {t} ELSE @,
       ![i].classes = IF counter = 0 THEN {} ELSE @]
  /\ status' = [c \in Classes |->
       IF counter = 0 /\ c \in callback[i].classes THEN kVisiblyInitialized ELSE status[c]]

DoneFrame(i) == [Frame(NoClass, "callback_done") EXCEPT !.callback = i]

\* RunCheckpoint has returned, after running the callback for this thread and for
\* those that were suspended.
AddThreadCount(t) ==
  LET i == Top(t).callback IN
  /\ At(t, "adjust")
  /\ callback[i].pending \intersect (asleep \union {t}) = {}
  /\ AdjustThreadVisibilityCounter(t, i, Cardinality(Threads))
  /\ IF callback'[i].counter = 0 THEN CallThen(t, "increment", DoneFrame(i)) ELSE Goto(t, "increment")
  /\ UNCHANGED <<clinit_thread_id, asleep, filling, running, barrier, passed, calls>>

\* The callback is run for t.
Run(t, i) ==
  /\ t \in callback[i].pending
  /\ AdjustThreadVisibilityCounter(t, i, -1)
  /\ IF callback'[i].counter = 0 THEN Push(t, DoneFrame(i)) ELSE UNCHANGED <<stack, result>>
  /\ passed' = [c \in Classes |-> IF status[c] = kInitialized THEN passed[c] \union {t} ELSE passed[c]]
  /\ UNCHANGED <<clinit_thread_id, asleep, filling, running, barrier, calls>>

VisiblyInitializedCallbackDone(t) ==
  LET i == Top(t).callback IN
  /\ At(t, "callback_done")
  /\ barrier' = [u \in Threads |-> IF u \in callback[i].barriers THEN barrier[u] - 1 ELSE barrier[u]]
  /\ callback' = [callback EXCEPT ![i] = EmptyCallback]
  /\ running' = running \ {i}
  /\ filling' = IF filling = 0 THEN i ELSE filling
  /\ Return(t, result[t])
  /\ UNCHANGED <<status, clinit_thread_id, asleep, passed, calls>>

\* Barrier::Increment; it is not called if there is nothing to wait for.
Increment(t) ==
  /\ At(t, "increment")
  /\ IF Top(t).wait_count = 0
     THEN Return(t, TRUE) /\ UNCHANGED barrier
     ELSE Goto(t, "await") /\ barrier' = [barrier EXCEPT ![t] = @ + Top(t).wait_count]
  /\ UNCHANGED <<status, clinit_thread_id, asleep, filling, running, callback, passed, calls>>

Await(t) ==
  /\ At(t, "await")
  /\ barrier[t] = 0
  /\ Return(t, TRUE)
  /\ UNCHANGED <<status, clinit_thread_id, asleep, visibility, calls>>

VisibilityStep(t) ==
  \/ MakeInitializedClassesVisiblyInitialized(t)
  \/ MakeVisible(t)
  \/ AddThreadCount(t)
  \/ VisiblyInitializedCallbackDone(t)
  \/ Increment(t)
  \/ Await(t)

-------------------------------------------------------------------------------
(* What threads do. *)

\* Managed code holds the monitor of a class until no other thread waits for
\* classes to become visible.
Synchronize(t) ==
  /\ At(t, "synchronize")
  /\ CanLock(t, Top(t).klass)
  /\ Goto(t, "synchronized")
  /\ UNCHANGED <<status, clinit_thread_id, asleep, visibility, calls>>

EndSynchronized(t) ==
  /\ At(t, "synchronized")
  /\ \A u \in Threads : \A i \in DOMAIN stack[u] : stack[u][i].wait_count = 0
  /\ Return(t, TRUE)
  /\ UNCHANGED <<status, clinit_thread_id, asleep, visibility, calls>>

Call(t) ==
  /\ stack[t] = <<>>
  /\ calls < MaxCalls
  /\ calls' = calls + 1
  /\ \/ \E c \in Classes, label \in {"ensure", "verify", "synchronize"} : Push(t, Frame(c, label))
     \/ \E label \in {"make", "make_and_wait"} : Push(t, Frame(NoClass, label))
  /\ UNCHANGED <<status, clinit_thread_id, asleep, visibility>>

ThreadStep(t) ==
  \/ VerifyStep(t)
  \/ InitializeStep(t)
  \/ VisibilityStep(t)
  \/ Synchronize(t)
  \/ EndSynchronized(t)

RunCheckpoint(t) == \E i \in Callbacks : Run(t, i)

Next == \E t \in Threads : ThreadStep(t) \/ RunCheckpoint(t) \/ WaitReturnsEarly(t) \/ Call(t)

Spec == Init /\ [][Next]_vars

-------------------------------------------------------------------------------
\* What CheckSetStatus and its callers rely on, whoever changes the status and in
\* which order: a status only advances, an erroneous or initialised class never
\* fails; a class becomes initialised only after its superclass, unless the same
\* thread is still at that; and visibly initialised only when every thread has
\* passed a checkpoint since it was initialised.
ClassStatusLegal ==
  [][\A c \in Classes : status'[c] # status[c] =>
       /\ ~IsErroneous(c)
       /\ status'[c] > status[c] \/ (status'[c] = kErrorResolved /\ ~IsInitialized(c))
       /\ status'[c] = kInitialized /\ superclass[c] # NoClass =>
            IsInitialized(superclass[c]) \/ clinit_thread_id[superclass[c]] = clinit_thread_id[c]
       /\ status'[c] = kVisiblyInitialized => passed'[c] = Threads]_vars

\* No call waits for ever: as long as one has not returned, some thread can go on
\* with a call or run a checkpoint, without a wait that ends early.  Calls are
\* bounded, so whoever waits for a class that another thread verifies or
\* initialises is notified, and whoever waits for classes to become visible does
\* not wait for a thread that holds the monitor of one of them.
NoClassDeadlock ==
  (\E t \in Threads : stack[t] # <<>>) => \E t \in Threads : ENABLED (ThreadStep(t) \/ RunCheckpoint(t))
===============================================================================
