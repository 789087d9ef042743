------------------------------ MODULE LockSupport ------------------------------
(***************************************************************************)
(* What Thread.park and Thread.unpark promise to managed code: a thread    *)
(* has at most one permit, a call of unpark makes it available whatever    *)
(* the thread is doing at that moment (being started included), a park     *)
(* that finds the permit does not block, and a blocked park that is given  *)
(* the permit returns.  A blocked park may also return for no reason.      *)
(***************************************************************************)
CONSTANT Unparkers        \* the threads that call unpark on the parking thread

VARIABLES
  status,     \* of the parking thread
  permit,     \* whether the next park returns at once
  calling     \* the unparkers whose call has begun and not taken effect

vars == <<status, permit, calling>>

Init ==
  /\ status = "new"
  /\ permit = FALSE
  /\ calling = {}

Start ==
  /\ status = "new"
  /\ status' = "running"
  /\ UNCHANGED <<permit, calling>>

\* A start that fails drops the permit given to the native thread it had made.
StartFails ==
  /\ status = "new"
  /\ permit' = FALSE
  /\ UNCHANGED <<status, calling>>

Call(u) ==
  /\ u \notin calling
  /\ calling' = calling \union {u}
  /\ UNCHANGED <<status, permit>>

Unpark(u) ==
  /\ u \in calling
  /\ calling' = calling \ {u}
  /\ \/ status # "done" /\ permit' = TRUE
     \/ status = "done" /\ permit' = permit
  /\ UNCHANGED status

ParkWithPermit ==
  /\ status = "running"
  /\ permit
  /\ permit' = FALSE
  /\ UNCHANGED <<status, calling>>

ParkBlocks ==
  /\ status = "running"
  /\ ~permit
  /\ status' = "parked"
  /\ UNCHANGED <<permit, calling>>

\* The permit, if there is one by now, is consumed by the return.
Return ==
  /\ status = "parked"
  /\ status' = "running"
  /\ permit' = FALSE
  /\ UNCHANGED calling

Exit ==
  /\ status = "running"
  /\ status' = "done"
  /\ UNCHANGED calling
  /\ permit' = FALSE

Next ==
  \/ Start \/ StartFails \/ ParkWithPermit \/ ParkBlocks \/ Return \/ Exit
  \/ \E u \in Unparkers : Call(u) \/ Unpark(u)

Spec == Init /\ [][Next]_vars /\ WF_vars(permit /\ Return)
================================================================================
