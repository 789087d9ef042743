-------------------------------- MODULE MCGc --------------------------------
(***************************************************************************)
(* Two parts of the coordination of mutators and collector in one model: a *)
(* behaviour is one of Heap or of EmptyCheckpoint, as part says; the other *)
(* rests.                                                                  *)
(***************************************************************************)
EXTENDS Heap

CONSTANTS
  NoThread, LockKind, MaxCheckpoints

VARIABLES
  part,
  runnable, flags, passing, weak_ref_access_enabled, owner, ec_pc, barrier, ec_gc,
  unvisited, count, checkpoints, old_access

ecVars == <<runnable, flags, passing, weak_ref_access_enabled, owner, ec_pc, barrier, ec_gc,
            unvisited, count, checkpoints, old_access>>
allVars == <<vars, part, ecVars>>

EC == INSTANCE EmptyCheckpoint WITH pc <- ec_pc, gc <- ec_gc

GcInit ==
  /\ Init /\ EC!Init
  /\ part \in {"Heap", "EmptyCheckpoint"}
  /\ part = "EmptyCheckpoint" => collector_type_ = "CC"
  /\ part = "Heap" => runnable = {}

GcNext ==
  /\ UNCHANGED part
  /\ \/ part = "Heap" /\ Next /\ UNCHANGED ecVars
     \/ part = "EmptyCheckpoint" /\ EC!Next /\ UNCHANGED vars

\* The fairness of Heap and of EmptyCheckpoint, each while it is its turn.
GcFairness ==
  /\ \A t \in Threads : WF_vars(part = "Heap" /\ ThreadContinue(t))
  /\ WF_vars(part = "Heap" /\ Daemon)
  /\ WF_ecVars(part = "EmptyCheckpoint" /\ EC!Collector)
  /\ \A t \in Threads : /\ WF_ecVars(part = "EmptyCheckpoint" /\ EC!Continue(t))
                        /\ SF_ecVars(part = "EmptyCheckpoint" /\ EC!SuspendPoint(t))

GcSpec == GcInit /\ [][GcNext]_allVars /\ GcFairness

\* When RunEmptyCheckpoint returns no thread is still in a heap access that it
\* had begun before the checkpoint was requested.
NoAccessSpansCheckpoint == EC!NoAccessSpansCheckpoint

\* RunEmptyCheckpoint returns, whatever threads wait for weak reference access
\* or for a ReaderWriterMutex that such a thread holds.
EmptyCheckpointReturns == EC!EmptyCheckpointReturns

\* A thread that waits for weak reference access in the Runnable state gets on.
WeakRefAccessReturns == EC!WeakRefAccessReturns
=============================================================================
