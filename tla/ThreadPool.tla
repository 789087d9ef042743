------------------------------ MODULE ThreadPool ------------------------------
(***************************************************************************)
(* ThreadPool and its workers (runtime/thread_pool.cc), as the JIT, the    *)
(* heap and the verifier use them: threads queue tasks, start and stop the *)
(* workers, remove tasks, bound the number of active workers and wait for  *)
(* the pool to become quiet; one of them deletes and creates the workers.  *)
(*                                                                         *)
(* A critical section of task_queue_lock_ is one step.  A condition        *)
(* variable is the set of its sleepers, by the contract of module Mutex; a *)
(* woken thread goes on when it has the lock.  Tasks are alike: tasks_ is  *)
(* their number.                                                           *)
(***************************************************************************)
EXTENDS Integers, FiniteSets

CONSTANTS
  Workers,   \* the workers there can be; the pool is constructed with all
  Clients,   \* the threads that use the pool
  creator,   \* the client that calls DeleteThreads and CreateThreads
  MaxCalls,  \* bound: calls of all clients together
  MaxTasks   \* bound: tasks added

VARIABLES
  started_,
  shutting_down_,
  waiting_count_,
  tasks_,
  max_active_workers_,
  threads_,
  creation_barier_,      \* count_ of that barrier
  worker,                \* where each worker is
  pc,                    \* where each client is
  task_queue_condition_, \* the workers asleep on it
  completion_condition_, \* the clients asleep on it
  calls,
  added

vars == <<started_, shutting_down_, waiting_count_, tasks_, max_active_workers_, threads_,
          creation_barier_, worker, pc, task_queue_condition_, completion_condition_, calls, added>>

settings == <<started_, shutting_down_, max_active_workers_, threads_>>
bounds == <<calls, added>>

\* The pool as its constructor leaves it.
Init ==
  /\ started_ = FALSE
  /\ shutting_down_ = FALSE
  /\ waiting_count_ = 0
  /\ tasks_ = 0
  /\ max_active_workers_ = Cardinality(Workers)
  /\ threads_ = Workers
  /\ creation_barier_ = Cardinality(Workers)
  /\ worker = [w \in Workers |-> "created"]
  /\ pc = [c \in Clients |-> "idle"]
  /\ task_queue_condition_ = {}
  /\ completion_condition_ = {}
  /\ calls = 0
  /\ added = 0

GetThreadCount == Cardinality(threads_)
HasOutstandingTasks == started_ /\ tasks_ # 0

\* What a signal leaves of the sleepers S.
Signalled(S) == IF S = {} THEN {S} ELSE {S \ {w} : w \in S}

AddTask ==
  /\ added < MaxTasks
  /\ added' = added + 1
  /\ tasks_' = tasks_ + 1
  /\ IF started_ /\ waiting_count_ # 0
     THEN task_queue_condition_' \in Signalled(task_queue_condition_)
     ELSE UNCHANGED task_queue_condition_
  /\ UNCHANGED <<settings, waiting_count_, creation_barier_, worker, completion_condition_>>

-------------------------------------------------------------------------------
(* A worker. *)

WorkerGoto(w, label) == worker' = [worker EXCEPT ![w] = label]

\* The worker is attached and passes creation_barier_.
PassCreationBarrier(w) ==
  /\ worker[w] = "created"
  /\ creation_barier_' = creation_barier_ - 1
  /\ WorkerGoto(w, "get_task")
  /\ UNCHANGED <<settings, waiting_count_, tasks_, pc, task_queue_condition_,
                 completion_condition_, bounds>>

\* w enters GetTask, or its wait there has ended.
InGetTask(w) ==
  \/ worker[w] = "get_task"
  \/ worker[w] = "waiting" /\ w \notin task_queue_condition_

\* waiting_count_ without w.
OthersWaiting(w) == waiting_count_ - (IF worker[w] = "waiting" THEN 1 ELSE 0)

\* w may have a task: <= since w is considered an active worker.
MayTakeTask(w) ==
  /\ GetThreadCount - OthersWaiting(w) <= max_active_workers_
  /\ HasOutstandingTasks

GetTask(w) ==
  /\ InGetTask(w)
  /\ ~shutting_down_
  /\ MayTakeTask(w)
  /\ waiting_count_' = OthersWaiting(w)
  /\ tasks_' = tasks_ - 1
  /\ WorkerGoto(w, "running")
  /\ UNCHANGED <<settings, creation_barier_, pc, task_queue_condition_, completion_condition_, bounds>>

\* Mutant: the last worker to find nothing to do tells nobody.
WaitForTaskNoBroadcast(w) ==
  /\ InGetTask(w)
  /\ ~shutting_down_
  /\ ~MayTakeTask(w)
  /\ waiting_count_' = OthersWaiting(w) + 1
  /\ task_queue_condition_' = task_queue_condition_ \union {w}
  /\ WorkerGoto(w, "waiting")
  /\ UNCHANGED <<settings, tasks_, creation_barier_, pc, completion_condition_, bounds>>

\* GetTask finds no task that w may have and waits.
WaitForTask(w) ==
  /\ InGetTask(w)
  /\ ~shutting_down_
  /\ ~MayTakeTask(w)
  /\ waiting_count_' = OthersWaiting(w) + 1
  /\ completion_condition_' =
       IF waiting_count_' = GetThreadCount /\ ~HasOutstandingTasks THEN {} ELSE completion_condition_
  /\ task_queue_condition_' = task_queue_condition_ \union {w}
  /\ WorkerGoto(w, "waiting")
  /\ UNCHANGED <<settings, tasks_, creation_barier_, pc, bounds>>

\* GetTask returns null and the thread ends.
WorkerExit(w) ==
  /\ InGetTask(w)
  /\ shutting_down_
  /\ waiting_count_' = OthersWaiting(w)
  /\ WorkerGoto(w, "ended")
  /\ UNCHANGED <<settings, tasks_, creation_barier_, pc, task_queue_condition_,
                 completion_condition_, bounds>>

\* A task that queues another one, as MarkStackTask does.
TaskAddsTask ==
  /\ (\E w \in Workers : worker[w] = "running") \/ (\E c \in Clients : pc[c] = "running")
  /\ AddTask
  /\ UNCHANGED <<pc, calls>>

FinishTask(w) ==
  /\ worker[w] = "running"
  /\ WorkerGoto(w, "get_task")
  /\ UNCHANGED <<settings, waiting_count_, tasks_, creation_barier_, pc, task_queue_condition_,
                 completion_condition_, bounds>>

-------------------------------------------------------------------------------
(* A client. *)

Goto(c, label) == pc' = [pc EXCEPT ![c] = label]
Call(c, label) == pc[c] = "idle" /\ calls < MaxCalls /\ calls' = calls + 1 /\ Goto(c, label)

ClientAddsTask(c) == Call(c, "idle") /\ AddTask

StartWorkers(c) ==
  /\ Call(c, "idle")
  /\ started_' = TRUE
  /\ task_queue_condition_' = {}
  /\ UNCHANGED <<shutting_down_, max_active_workers_, threads_, waiting_count_, tasks_,
                 creation_barier_, worker, completion_condition_, added>>

StopWorkers(c) ==
  /\ Call(c, "idle")
  /\ started_' = FALSE
  /\ UNCHANGED <<shutting_down_, max_active_workers_, threads_, waiting_count_, tasks_,
                 creation_barier_, worker, task_queue_condition_, completion_condition_, added>>

SetMaxActiveWorkers(c, max_workers) ==
  /\ Call(c, "idle")
  /\ max_workers <= GetThreadCount
  /\ max_active_workers_' = max_workers
  /\ UNCHANGED <<started_, shutting_down_, threads_, waiting_count_, tasks_, creation_barier_,
                 worker, task_queue_condition_, completion_condition_, added>>

\* RemoveAllTasks, Wait and WaitForWorkersToBeCreated are entered.
Enter(c, label) ==
  /\ Call(c, label)
  /\ UNCHANGED <<settings, waiting_count_, tasks_, creation_barier_, worker, task_queue_condition_,
                 completion_condition_, added>>

RemoveAllTasks(c) == Enter(c, "remove")
Wait(c, do_work) == Enter(c, IF do_work THEN "work" ELSE "wait")
WaitForWorkersToBeCreated(c) == Enter(c, "created")

\* RemoveAllTasks drops a task, Wait(do_work) takes one to run it.
TryGetTask(c) ==
  /\ pc[c] \in {"remove", "work"}
  /\ IF HasOutstandingTasks
     THEN tasks_' = tasks_ - 1 /\ Goto(c, IF pc[c] = "work" THEN "running" ELSE "remove")
     ELSE UNCHANGED tasks_ /\ Goto(c, IF pc[c] = "work" THEN "wait" ELSE "clear")
  /\ UNCHANGED <<settings, waiting_count_, creation_barier_, worker, task_queue_condition_,
                 completion_condition_, bounds>>

\* Wait has run the task it took.
ClientFinishesTask(c) ==
  /\ pc[c] = "running"
  /\ Goto(c, "work")
  /\ UNCHANGED <<settings, waiting_count_, tasks_, creation_barier_, worker, task_queue_condition_,
                 completion_condition_, bounds>>

\* RemoveAllTasks ends: tasks_.clear().
ClearTasks(c) ==
  /\ pc[c] = "clear"
  /\ tasks_' = 0
  /\ Goto(c, "idle")
  /\ UNCHANGED <<settings, waiting_count_, creation_barier_, worker, task_queue_condition_,
                 completion_condition_, bounds>>

\* Wait returns, or sleeps until workers have nothing to do.
WaitForCompletion(c) ==
  /\ pc[c] = "wait"
  /\ c \notin completion_condition_
  /\ IF ~shutting_down_ /\ (waiting_count_ # GetThreadCount \/ HasOutstandingTasks)
     THEN completion_condition_' = completion_condition_ \union {c} /\ UNCHANGED pc
     ELSE Goto(c, "idle") /\ UNCHANGED completion_condition_
  /\ UNCHANGED <<settings, waiting_count_, tasks_, creation_barier_, worker, task_queue_condition_, bounds>>

\* Barrier::Increment(0) returns.
WorkersCreated(c) ==
  /\ pc[c] = "created"
  /\ creation_barier_ = 0
  /\ Goto(c, "idle")
  /\ UNCHANGED <<settings, waiting_count_, tasks_, creation_barier_, worker, task_queue_condition_,
                 completion_condition_, bounds>>

\* DeleteThreads tells everybody, then joins the workers.
DeleteThreads ==
  /\ Call(creator, "join")
  /\ shutting_down_' = TRUE
  /\ task_queue_condition_' = {}
  /\ completion_condition_' = {}
  /\ UNCHANGED <<started_, max_active_workers_, threads_, waiting_count_, tasks_, creation_barier_,
                 worker, added>>

JoinWorkers ==
  /\ pc[creator] = "join"
  /\ \A w \in threads_ : worker[w] = "ended"
  /\ threads_' = {}
  /\ Goto(creator, "idle")
  /\ UNCHANGED <<started_, shutting_down_, max_active_workers_, waiting_count_, tasks_,
                 creation_barier_, worker, task_queue_condition_, completion_condition_, bounds>>

CreateThreads ==
  /\ threads_ = {}
  /\ Call(creator, "idle")
  /\ shutting_down_' = FALSE
  /\ creation_barier_' = max_active_workers_
  /\ threads_' \in {T \in SUBSET Workers : Cardinality(T) = max_active_workers_}
  /\ worker' = [w \in Workers |-> IF w \in threads_' THEN "created" ELSE "ended"]
  /\ UNCHANGED <<started_, max_active_workers_, waiting_count_, tasks_, task_queue_condition_,
                 completion_condition_, added>>

\* A wait on a condition ends without a notification.
SpuriousWakeup ==
  /\ \/ \E w \in task_queue_condition_ :
          task_queue_condition_' = task_queue_condition_ \ {w} /\ UNCHANGED completion_condition_
     \/ \E c \in completion_condition_ :
          completion_condition_' = completion_condition_ \ {c} /\ UNCHANGED task_queue_condition_
  /\ UNCHANGED <<settings, waiting_count_, tasks_, creation_barier_, worker, pc, bounds>>

-------------------------------------------------------------------------------
WorkerStep(w) ==
  \/ PassCreationBarrier(w)
  \/ GetTask(w)
  \/ WaitForTask(w)
  \/ WorkerExit(w)
  \/ FinishTask(w)

ClientStep(c) ==
  \/ TryGetTask(c)
  \/ ClientFinishesTask(c)
  \/ ClearTasks(c)
  \/ WaitForCompletion(c)
  \/ WorkersCreated(c)

ClientCall(c) ==
  \/ ClientAddsTask(c)
  \/ StartWorkers(c)
  \/ StopWorkers(c)
  \/ \E n \in 1..Cardinality(Workers) : SetMaxActiveWorkers(c, n)
  \/ RemoveAllTasks(c)
  \/ \E do_work \in BOOLEAN : Wait(c, do_work)
  \/ WaitForWorkersToBeCreated(c)

Next ==
  \/ \E w \in Workers : WorkerStep(w)
  \/ TaskAddsTask
  \/ \E c \in Clients : ClientStep(c) \/ ClientCall(c)
  \/ DeleteThreads
  \/ JoinWorkers
  \/ CreateThreads
  \/ SpuriousWakeup

\* Workers and clients go on with what they have begun; tasks end.
Fairness ==
  /\ \A w \in Workers : WF_vars(WorkerStep(w))
  /\ \A c \in Clients : WF_vars(ClientStep(c))
  /\ WF_vars(JoinWorkers)

Spec == Init /\ [][Next]_vars /\ Fairness

-------------------------------------------------------------------------------
\* Every call returns: Wait, which the last worker to find nothing to do must
\* wake although tasks are also taken by other threads, dropped or stopped and
\* a signalled worker may have to leave the task it was woken for to another;
\* WaitForWorkersToBeCreated; and DeleteThreads, which joins the workers.
PoolCallReturns == \A c \in Clients : pc[c] # "idle" ~> pc[c] = "idle"
===============================================================================
