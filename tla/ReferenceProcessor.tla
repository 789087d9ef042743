-------------------------- MODULE ReferenceProcessor --------------------------
(***************************************************************************)
(* gc/reference_processor.cc and gc/reference_queue.cc in one collection   *)
(* of the concurrent copying collector: it marks, disables reference       *)
(* access, processes the references and enables access again, while        *)
(* mutators call Reference.get() (GetReferent) and Reference.clear()       *)
(* (ClearReferent).                                                        *)
(*                                                                         *)
(* Marking is closing a set of objects under their fields.  Objects do not *)
(* move: an object and its copy are one member of Objects.                 *)
(***************************************************************************)
EXTENDS Naturals, FiniteSets

CONSTANTS
  Threads,
  Objects,
  References,  \* the Objects that are java.lang.ref.Reference instances
  Kind,        \* "soft", "weak", "finalizer" or "phantom", for each
  Heaps,       \* the heaps a collection may start from: records of
               \*   roots, fields (a set of objects for each) and referent
  MaxClears,   \* bound on the calls of Reference.clear()
  Null

VARIABLES
  heap,
  referent,    \* the referent field of each reference: an object or Null
  marked,
  queued,      \* the references in the four queues of the ReferenceProcessor
  cleared_references_,
  rp_state_,
  clear_soft_references_,
  enabled,     \* the threads whose weak_ref_access_enabled is set
  gc,          \* where the collector is
  pc,
  reference,   \* the reference whose referent a thread in GetReferent wants
  held,        \* the referent that the thread got last
  freed,       \* the objects whose space was reclaimed
  app_cleared, \* history: references Reference.clear() was called for
  nulled       \* history: objects of which a reference read as cleared by the GC

vars == <<heap, referent, marked, queued, cleared_references_, rp_state_, clear_soft_references_,
          enabled, gc, pc, reference, held, freed, app_cleared, nulled>>

threads == <<reference, held, app_cleared, nulled>>
collector == <<heap, rp_state_, clear_soft_references_, cleared_references_, enabled, gc, freed>>

\* What is reachable from S through fields.
Closure(S) ==
  LET step[n \in 0..Cardinality(Objects)] ==
        IF n = 0 THEN S
        ELSE LET T == step[n - 1] IN T \union UNION {heap.fields[o] : o \in T}
  IN  step[Cardinality(Objects)]

Held == {held[t] : t \in Threads} \ {Null}
White(o) == o # Null /\ o \notin marked
Queue(kinds) == {r \in queued : Kind[r] \in kinds}

\* rp_state_ is what an earlier collection left.
Init ==
  /\ heap \in Heaps
  /\ referent = heap.referent
  /\ marked = {}
  /\ queued = {}
  /\ cleared_references_ = {}
  /\ rp_state_ = "kInitClearingDone"
  /\ clear_soft_references_ \in BOOLEAN
  /\ enabled = Threads
  /\ gc = "idle"
  /\ pc = [t \in Threads |-> "run"]
  /\ reference = [t \in Threads |-> Null]
  /\ held = [t \in Threads |-> Null]
  /\ freed = {}
  /\ app_cleared = {}
  /\ nulled = {}

-----------------------------------------------------------------------------
(* The collector. *)

\* Marks the objects S and what they reach, with `dequeued' taken from the
\* queues; DelayReferenceReferent queues the references that are scanned while
\* their referent is not marked.
ProcessMarkStack(S, dequeued) ==
  LET new == Closure(S) \ marked
  IN  /\ marked' = marked \union new
      /\ queued' = (queued \ dequeued) \union
           {r \in new \intersect References : referent[r] \notin marked \union new \union {Null}}

\* Roots are visited and the mark stack is processed.
StartCollection ==
  /\ gc = "idle"
  /\ gc' = "mark"
  /\ ProcessMarkStack(heap.roots \union Held, {})
  /\ UNCHANGED <<heap, referent, cleared_references_, rp_state_, clear_soft_references_, enabled, freed, pc, threads>>

\* Mutant: the state of the last collection stays.
SetupKeepsState ==
  /\ gc = "mark"
  /\ gc' = IF clear_soft_references_ THEN "disable" ELSE "forward"
  /\ UNCHANGED <<heap, referent, marked, queued, cleared_references_, rp_state_, clear_soft_references_, enabled, freed, pc, threads>>

\* ReferenceProcessor::Setup.
Setup ==
  /\ gc = "mark"
  /\ gc' = IF clear_soft_references_ THEN "disable" ELSE "forward"
  /\ rp_state_' = "kStarting"
  /\ UNCHANGED <<heap, referent, marked, queued, cleared_references_, clear_soft_references_, enabled, freed, pc, threads>>

\* ForwardSoftReferences empties the soft queue: once before access is
\* disabled, then until no new soft references are found.
ForwardSoftReferences ==
  /\ \/ gc = "forward" /\ gc' = "disable"
     \/ gc = "forward_late" /\ ~clear_soft_references_ /\ Queue({"soft"}) # {} /\ gc' = gc
  /\ LET queue == Queue({"soft"})
     IN  ProcessMarkStack({referent[r] : r \in queue} \ {Null}, queue)
  /\ UNCHANGED <<heap, referent, cleared_references_, rp_state_, clear_soft_references_, enabled, freed, pc, threads>>

\* SwitchToSharedMarkStackMode disables access in a pause.
DisableAccess ==
  /\ gc = "disable"
  /\ enabled' = {}
  /\ gc' = "forward_late"
  /\ UNCHANGED <<heap, referent, marked, queued, cleared_references_, rp_state_, clear_soft_references_, freed, pc, threads>>

Broadcast == pc' = [t \in Threads |-> IF pc[t] = "asleep" THEN "locked" ELSE pc[t]]

\* rp_state_ becomes kInitMarkingDone, under reference_processor_lock_.
InitMarkingDone ==
  /\ gc = "forward_late"
  /\ clear_soft_references_ \/ Queue({"soft"}) = {}
  /\ rp_state_' = "kInitMarkingDone"
  /\ Broadcast
  /\ gc' = "clear"
  /\ UNCHANGED <<heap, referent, marked, queued, cleared_references_, clear_soft_references_, enabled, freed, threads>>

\* ClearWhiteReferences dequeues a reference r, and clears it if its referent
\* was not marked.
ClearWhiteReference(r) ==
  /\ queued' = queued \ {r}
  /\ referent' = [referent EXCEPT ![r] = IF White(@) THEN Null ELSE @]
  /\ cleared_references_' = cleared_references_ \union (IF White(referent[r]) THEN {r} ELSE {})
  /\ UNCHANGED <<heap, marked, rp_state_, clear_soft_references_, enabled, gc, freed, pc, threads>>

\* The soft queue, then the weak queue: in `clear' for what mutators can reach,
\* in `clear_again' for what was reached through finalizers, and then the
\* phantom queue.
ClearWhiteReferences ==
  /\ gc \in {"clear", "clear_again"}
  /\ \/ \E r \in Queue({"soft"}) : ClearWhiteReference(r)
     \/ /\ Queue({"soft"}) = {}
        /\ \E r \in Queue({"weak"}) : ClearWhiteReference(r)
     \/ /\ Queue({"soft", "weak"}) = {}
        /\ gc = "clear_again"
        /\ \E r \in Queue({"phantom"}) : ClearWhiteReference(r)

\* rp_state_ becomes kInitClearingDone, without a broadcast.
InitClearingDone ==
  /\ gc = "clear"
  /\ Queue({"soft", "weak"}) = {}
  /\ rp_state_' = "kInitClearingDone"
  /\ gc' = "finalizers"
  /\ UNCHANGED <<heap, referent, marked, queued, cleared_references_, clear_soft_references_, enabled, freed, pc, threads>>

\* EnqueueFinalizerReferences moves the white referents to the zombie field and
\* marks them.
EnqueueFinalizerReferences ==
  /\ gc = "finalizers"
  /\ LET white == {r \in Queue({"finalizer"}) : White(referent[r])}
     IN  /\ referent' = [r \in References |-> IF r \in white THEN Null ELSE referent[r]]
         /\ cleared_references_' = cleared_references_ \union white
         /\ ProcessMarkStack({referent[r] : r \in white}, Queue({"finalizer"}))
  /\ gc' = "clear_again"
  /\ UNCHANGED <<heap, rp_state_, clear_soft_references_, enabled, freed, pc, threads>>

\* ReenableWeakRefAccess sets the flag of one thread after the other.
EnableAccess(t) ==
  /\ gc = "clear_again"
  /\ queued = {}
  /\ t \notin enabled
  /\ enabled' = enabled \union {t}
  /\ UNCHANGED <<heap, referent, marked, queued, cleared_references_, rp_state_, clear_soft_references_, gc, freed, pc, threads>>

BroadcastForSlowPath ==
  /\ gc = "clear_again"
  /\ enabled = Threads
  /\ Broadcast
  /\ gc' = "reclaim"
  /\ UNCHANGED <<heap, referent, marked, queued, cleared_references_, rp_state_, clear_soft_references_, enabled, freed, threads>>

\* The collector reclaims what is not marked; CollectClearedReferences hands
\* the cleared references to ReferenceQueue.add.
ReclaimPhase ==
  /\ gc = "reclaim"
  /\ freed' = Objects \ marked
  /\ cleared_references_' = {}
  /\ gc' = "done"
  /\ UNCHANGED <<heap, referent, marked, queued, rp_state_, clear_soft_references_, enabled, pc, threads>>

-----------------------------------------------------------------------------
(* The mutators. *)

\* The references that mutators can get at without a finalizer.
Accessible == Closure(heap.roots) \intersect References

\* GetReferent(r) returns o to the thread.  Until access is disabled the read
\* barrier marks o; later no mutator may mark.
Return(t, r, o) ==
  /\ held' = [held EXCEPT ![t] = o]
  /\ reference' = [reference EXCEPT ![t] = Null]
  /\ pc' = [pc EXCEPT ![t] = "run"]
  /\ IF gc \in {"mark", "forward", "disable"} /\ o # Null
       THEN ProcessMarkStack({o}, {})
       ELSE UNCHANGED <<marked, queued>>
  /\ nulled' = nulled \union
       (IF o = Null /\ r \notin app_cleared /\ Kind[r] # "finalizer" THEN {heap.referent[r]} ELSE {})
  /\ UNCHANGED <<collector, referent, app_cleared>>

\* The fast path, and the return for a reference that is already cleared.
GetReferent(t, r) ==
  /\ pc[t] = "run"
  /\ r \in Accessible
  /\ Kind[r] # "phantom"
  /\ t \in enabled \/ referent[r] = Null
  /\ Return(t, r, referent[r])

\* The slow path, up to taking reference_processor_lock_.
GetReferentSlowPath(t, r) ==
  /\ pc[t] = "run"
  /\ r \in Accessible
  /\ Kind[r] # "phantom"
  /\ t \notin enabled
  /\ referent[r] # Null
  /\ pc' = [pc EXCEPT ![t] = "locked"]
  /\ reference' = [reference EXCEPT ![t] = r]
  /\ held' = [held EXCEPT ![t] = Null]
  /\ UNCHANGED <<collector, referent, marked, queued, app_cleared, nulled>>

\* Mutant: the mark state is used although marking is not done.
MustWaitForFinalizer(t) == Kind[reference[t]] = "finalizer"

MustWait(t) == Kind[reference[t]] = "finalizer" \/ rp_state_ = "kStarting"

\* condition_.WaitHoldingLocks.
GetReferentWait(t) ==
  /\ pc[t] = "locked"
  /\ t \notin enabled
  /\ MustWait(t)
  /\ pc' = [pc EXCEPT ![t] = "asleep"]
  /\ UNCHANGED <<collector, referent, marked, queued, threads>>

\* The referent is loaded again: until clearing is done its mark decides, later
\* the field has its final value.
GetReferentLocked(t) ==
  /\ pc[t] = "locked"
  /\ t \in enabled \/ ~MustWait(t)
  /\ LET o == referent[reference[t]]
     IN  Return(t, reference[t],
                IF t \notin enabled /\ rp_state_ # "kInitClearingDone" /\ White(o) THEN Null ELSE o)

\* WaitUntilDoneProcessingReferences and ClearReferent.
ClearReferent(t, r) ==
  /\ pc[t] = "run"
  /\ r \in Accessible \ app_cleared
  /\ Cardinality(app_cleared) < MaxClears
  /\ t \in enabled
  /\ referent' = [referent EXCEPT ![r] = Null]
  /\ app_cleared' = app_cleared \union {r}
  /\ UNCHANGED <<collector, marked, queued, pc, reference, held, nulled>>

-----------------------------------------------------------------------------

Next ==
  \/ StartCollection
  \/ Setup
  \/ ForwardSoftReferences
  \/ DisableAccess
  \/ InitMarkingDone
  \/ ClearWhiteReferences
  \/ InitClearingDone
  \/ EnqueueFinalizerReferences
  \/ \E t \in Threads : EnableAccess(t)
  \/ BroadcastForSlowPath
  \/ ReclaimPhase
  \/ \E t \in Threads, r \in References :
       \/ GetReferent(t, r)
       \/ GetReferentSlowPath(t, r)
       \/ ClearReferent(t, r)
  \/ \E t \in Threads :
       \/ GetReferentWait(t)
       \/ GetReferentLocked(t)

Spec == Init /\ [][Next]_vars

-----------------------------------------------------------------------------

\* What GetReferent returned, and all that can be reached from it, is not
\* reclaimed, whenever in the course of ProcessReferences it was called.
ReferentSurvives == Closure(Held) \intersect freed = {}

\* References to an object are cleared together: once a soft or weak reference
\* has read as cleared by the collector, no thread gets its referent from
\* another reference, although ProcessReferences clears one field at a time.
\* The references are those mutators can get at (Accessible); what only
\* finalizers reach is processed after the other references were cleared, and
\* the comment in ProcessReferences (lines 269-287) gives the rule up for it.
ClearedTogether == Held \intersect nulled = {}
===============================================================================
