------------------------------ MODULE MCObjects ------------------------------
(***************************************************************************)
(* What the runtime keeps for single objects: a behaviour is one of        *)
(* Monitor (the lock word), of ReferenceProcessor (the referent field) or  *)
(* of ClassLinker (the status of classes), as part says; the others rest.  *)
(***************************************************************************)
EXTENDS Monitor, TLC

CONSTANTS
  Readers,                 \* the threads that call Reference.get()
  MaxClears, Null,
  object, zombie,          \* objects: a plain one and one with a finalizer
  weak1, weak2, soft, finalizer, phantom, \* references
  derived, base, NoClass,  \* classes: base is the superclass of derived
  kMaxClasses,
  MaxClassCalls            \* bound: calls of the ClassLinker

VARIABLES
  part,
  heap, referent, marked, queued, cleared_references_, rp_state_, clear_soft_references_,
  enabled, rp_gc, rp_pc, reference, held, freed, app_cleared, nulled,
  status, clinit_thread_id, stack, result, asleep, filling, running, callback, barrier, passed, cl_calls

rpVars == <<heap, referent, marked, queued, cleared_references_, rp_state_, clear_soft_references_,
            enabled, rp_gc, rp_pc, reference, held, freed, app_cleared, nulled>>
clVars == <<status, clinit_thread_id, stack, result, asleep, filling, running, callback, barrier,
            passed, cl_calls>>
allVars == <<vars, part, rpVars, clVars>>

References == {weak1, weak2, soft, finalizer, phantom}
Objects == {object, zombie} \union References

Kind == [r \in References |-> CASE r = soft -> "soft" [] r = finalizer -> "finalizer"
                                [] r = phantom -> "phantom" [] OTHER -> "weak"]

\* Heaps in which object is only reachable through references, and perhaps
\* through zombie: the roots next to three references, the fields of zombie.
Heaps ==
  {[roots |-> {weak1, finalizer, phantom} \union h[1],
    fields |-> [o \in Objects |-> IF o = zombie THEN h[2] ELSE {}],
    referent |-> [r \in References |-> IF r \in {finalizer, phantom} THEN zombie ELSE object]] :
    h \in {<<{weak2, soft}, {}>>, <<{weak2}, {object}>>, <<{soft}, {object, weak2}>>, <<{}, {weak2, soft}>>}}

RP == INSTANCE ReferenceProcessor WITH Threads <- Readers, pc <- rp_pc, gc <- rp_gc

Classes == {derived, base}

\* The <clinit> of base uses base itself.
CL == INSTANCE ClassLinker WITH
        MaxCalls <- MaxClassCalls, calls <- cl_calls,
        superclass <- [c \in Classes |-> IF c = derived THEN base ELSE NoClass],
        uses <- [c \in Classes |-> IF c = base THEN {base} ELSE {}]

\* A part that rests has one initial state.
ObjectsInit ==
  /\ Init /\ RP!Init /\ CL!Init
  /\ part \in {"Monitor", "ReferenceProcessor", "ClassLinker"}
  /\ part # "ReferenceProcessor" =>
       clear_soft_references_ /\ soft \notin heap.roots /\ weak2 \in heap.roots
  /\ part # "ClassLinker" => status = [c \in Classes |-> CL!kResolved]

ObjectsNext ==
  /\ UNCHANGED part
  /\ \/ part = "Monitor" /\ Next /\ UNCHANGED <<rpVars, clVars>>
     \/ part = "ReferenceProcessor" /\ RP!Next /\ UNCHANGED <<vars, clVars>>
     \/ part = "ClassLinker" /\ CL!Next /\ UNCHANGED <<vars, rpVars>>
     \/ part = "ClassLinker" /\ stack = [t \in Threads |-> <<>>] /\ UNCHANGED <<vars, rpVars, clVars>>

ObjectsSpec == ObjectsInit /\ [][ObjectsNext]_allVars

\* What ReferenceProcessor::GetReferent returned is not reclaimed.
ReferentSurvives == RP!ReferentSurvives

\* References to an object are cleared together, as seen by GetReferent.
ClearedTogether == RP!ClearedTogether

\* No status of a class is changed against what other threads rely on.
ClassStatusLegal == CL!ClassStatusLegal

\* Calls of EnsureInitialized, VerifyClass and
\* MakeInitializedClassesVisiblyInitialized do not wait for each other for ever.
NoClassDeadlock == CL!NoClassDeadlock

\* The threads are interchangeable.
Symmetry == Permutations(Threads) \union Permutations(Readers)
==============================================================================
