---------------------------- MODULE GcLiveness ----------------------------
(***************************************************************************)
(* What the collector of GcHeap eventually does, when the program keeps    *)
(* reaching safe points: the interpreter calls gc_step at allocating       *)
(* instructions once the debt is due, and full_gc loops to the end.        *)
(***************************************************************************)
EXTENDS GcHeap

\* Opening a cycle at the threshold and every later step of a cycle.  The
\* calls of collectgarbage are the program's choice.
Progress ==
    \/ StartCycle
    \/ \E g \in Obj : PropagateOne(g)
    \/ AtomicPhase
    \/ SweepStrings
    \/ \E o \in Obj : SweepOne(o)
    \/ SweepEmptyPool
    \/ SweepEnd
    \/ FullGcDrained
    \/ FullGcEnd

FairSpec == Spec /\ WF_vars(Progress)

\* Allocated, but out of reach of the program's strong references.
Garbage(o) == o \in alloc /\ o \notin Roots \cup NewMarks(Roots, Roots)

\* From some time on the program calls collectgarbage no more.
NoMoreCollect == <>[](full = "no")

\* Garbage closures, tables and strings are freed in the end, although a
\* survivor's new white is not always the one the next cycle frees and a
\* cycle may be abandoned half way by collectgarbage.  (A thread that an
\* abandoned cycle traversed has no colour bit; no sweep frees it.)
GarbageCollected ==
    NoMoreCollect => \A o \in Obj \ Thread : Garbage(o) ~> ~Garbage(o)
=============================================================================
