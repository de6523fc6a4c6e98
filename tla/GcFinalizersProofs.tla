------------------------ MODULE GcFinalizersProofs ------------------------
(***************************************************************************)
(* Proofs about GcFinalizers, for any number of objects, any weak tables   *)
(* and any nesting of run_finalizers.                                      *)
(*                                                                         *)
(* First, finalizers run at most once and no cycle starts while some are   *)
(* pending, up to the full_gc of lua_gc that does so (forced).  Both rest  *)
(* on PendingInv: what waits in mmudata has the FINALIZED bit, waits there *)
(* once, was not called, and is kept by the sweep that is on its way: a    *)
(* name that waits is not given to a new object, whose bits would be       *)
(* clear.  The types of the heap (GcHeap) are not needed.                  *)
(*                                                                         *)
(* Then the heap stays safe: nothing reachable is ever freed, and a        *)
(* pending userdata keeps its metatable, up to the first entry that        *)
(* clear_weak misjudges.  The invariant is HeapInv (GcHeapProofs) with a   *)
(* witness set that also holds what no program can reach and the           *)
(* finalizers still need.                                                  *)
(***************************************************************************)
EXTENDS GcFinalizers, GcHeapProofs

Members(q) == {q[i] : i \in 1 .. Len(q)}
Distinct(q) == \A i, j \in 1 .. Len(q) : q[i] = q[j] => i = j
ButLast(q, r) == r = SubSeq(q, 1, Len(q) - 1)

\* The sweep keeps what is pending.
KeptBySweep == gcState = "Sweep" => \A u \in Pending : Unswept(u) => Alive(u)

\* While something is pending, the mark phase does not run.
CycleKnows == mmudata # <<>> => gcState \in {"Sweep", "Finalize"}

PendingInv ==
    /\ mmudata \in Seq(UData) /\ Distinct(mmudata)
    /\ Pending \subseteq finalized /\ Pending \subseteq alloc
    /\ ran \subseteq finalized /\ Pending \cap ran = {}
    /\ CycleKnows
    /\ KeptBySweep
    /\ DOMAIN color = Obj /\ pool \in Nat /\ IsFiniteSet(alloc \cap UData)

---------------------------------------------------------------------------
(* Sequences *)

\* A surjective listing of a finite set by its size repeats nothing.
LEMMA OrderDistinct ==
  ASSUME NEW us, IsFiniteSet(us), NEW q \in Orders(us)
  PROVE  q \in Seq(us) /\ Distinct(q) /\ {q[i] : i \in 1 .. Len(q)} = us
<1> DEFINE n == Cardinality(us)
<1>1. n \in Nat
  BY FS_CardinalityType
<1>2. q \in [1 .. n -> us] /\ \A u \in us : \E i \in DOMAIN q : q[i] = u
  BY DEF Orders
<1>3. IsFiniteSet(1 .. n) /\ Cardinality(1 .. n) = n
  <2>1. 1 \in Int /\ n \in Int
    BY <1>1
  <2> HIDE DEF n
  <2> QED
    BY <1>1, <2>1, FS_Interval
<1>4. q \in Surjection(1 .. n, us)
  BY <1>2 DEF Surjection
<1>5. q \in Injection(1 .. n, us)
  BY <1>3, <1>4, FS_SurjSameCardinalityImpliesInj
<1> HIDE DEF n
<1>6. \A i, j \in 1 .. n : q[i] = q[j] => i = j
  BY <1>2, <1>5 DEF Injection, IsInjective
<1>7. q \in Seq(us) /\ Len(q) = n
  BY <1>1, <1>2
<1>8. Distinct(q)
  BY <1>6, <1>7 DEF Distinct
<1>9. {q[i] : i \in 1 .. Len(q)} = us
  BY <1>2, <1>7
<1> QED
  BY <1>7, <1>8, <1>9

\* A sequence without repetitions has as many members as places.
LEMMA DistinctCount ==
  ASSUME NEW S, NEW q \in Seq(S), Distinct(q)
  PROVE  Cardinality({q[i] : i \in 1 .. Len(q)}) = Len(q)
<1> DEFINE n == Len(q)
           T == {q[i] : i \in 1 .. n}
<1>1. n \in Nat /\ q \in [1 .. n -> T]
  OBVIOUS
<1>2. \A i, j \in 1 .. n : q[i] = q[j] => i = j
  BY DEF Distinct
<1>3. \A t \in T : \E i \in 1 .. n : q[i] = t
  OBVIOUS
<1> HIDE DEF n, T
<1>4. q \in Injection(1 .. n, T) /\ q \in Surjection(1 .. n, T)
  BY <1>1, <1>2, <1>3 DEF Injection, Surjection, IsInjective
<1>5. ExistsBijection(1 .. n, T)
  BY <1>4 DEF ExistsBijection, Bijection
<1>6. Cardinality(T) = n
  BY <1>1, <1>5, FS_CountingElements
<1> QED
  BY <1>6 DEF n, T

\* The newest pending object, taken off, is not pending any more.
LEMMA TakeLast ==
  ASSUME NEW S, NEW q \in Seq(S), Distinct(q), q # <<>>,
         NEW r, ButLast(q, r)
  PROVE  /\ r \in Seq(S) /\ Distinct(r)
         /\ Members(r) \subseteq Members(q)
         /\ q[Len(q)] \in Members(q) /\ q[Len(q)] \notin Members(r)
<1>1. Len(q) \in Nat /\ Len(q) > 0
  OBVIOUS
<1>2. PICK m \in 0 .. Len(q) : m = Len(q) - 1
  <2>1. Len(q) - 1 \in 0 .. Len(q)
    BY <1>1
  <2> QED
    BY <2>1
<1>3. r \in Seq(S) /\ Len(r) = m /\ \A i \in 1 .. m : r[i] = q[i]
  BY <1>1, <1>2 DEF ButLast
<1>4. \A i \in 1 .. m : i \in 1 .. Len(q) /\ i # Len(q)
  BY <1>1, <1>2
<1>5. Len(q) \in 1 .. Len(q)
  BY <1>1
<1>6. Distinct(r)
  BY <1>3, <1>4 DEF Distinct
<1>7. \A i \in 1 .. Len(r) : r[i] \in Members(q) /\ r[i] # q[Len(q)]
  BY <1>3, <1>4, <1>5 DEF Distinct, Members
<1> QED
  BY <1>3, <1>5, <1>6, <1>7 DEF Members

---------------------------------------------------------------------------
(* The mutator *)

\* Steps that leave the collector's progress and mmudata alone.
LEMMA HeapStepKeeps ==
  ASSUME PendingInv, UNCHANGED <<mmudata, gcState, pool, swept>>,
         alloc \subseteq alloc', DOMAIN color' = Obj, IsFiniteSet(alloc' \cap UData),
         \A u \in Pending : Alive(u) => Alive(u)',
         Pending \subseteq finalized', ran' \subseteq finalized', Pending \cap ran' = {}
  PROVE  PendingInv'
<1>1. Pending' = Pending
  BY DEF Pending
<1>2. KeptBySweep'
  BY <1>1 DEF PendingInv, KeptBySweep, Unswept
<1>3. CycleKnows'
  BY DEF PendingInv, CycleKnows
<1> QED
  BY <1>1, <1>2, <1>3 DEF PendingInv

\* Adding tables, strings and so on and at most one userdata.
LEMMA UDataFinite ==
  ASSUME NEW A, NEW B, NEW u, IsFiniteSet(A \cap UData), B \cap UData \subseteq (A \cap UData) \cup {u}
  PROVE  IsFiniteSet(B \cap UData)
<1>1. IsFiniteSet((A \cap UData) \cup {u})
  BY FS_AddElement
<1> QED
  BY <1>1, FS_Subset

\* A new object is no pending one: those are allocated.
LEMMA NewKeeps ==
  ASSUME PendingInv, NEW o, NEW C, New(o, C), UNCHANGED finVars
  PROVE  PendingInv'
<1>1. /\ o \in Obj \ alloc /\ alloc' = alloc \cup {o} /\ marked' = marked \ {o}
      /\ color' = [color EXCEPT ![o] = White(cw)] /\ cw' = cw
      /\ UNCHANGED <<mmudata, gcState, pool, swept, finalized, ran>>
  BY DEF New, finVars
<1>2. IsFiniteSet(alloc' \cap UData)
  <2>1. alloc' \cap UData \subseteq (alloc \cap UData) \cup {o}
    BY <1>1
  <2> QED
    BY <2>1, UDataFinite DEF PendingInv
<1>3. \A u \in Pending : u # o
  BY <1>1 DEF PendingInv
<1>4. \A u \in Pending : Alive(u) => Alive(u)'
  BY <1>1, <1>3 DEF Alive, IsDead
<1>5. DOMAIN color' = Obj
  BY <1>1 DEF PendingInv
<1> QED
  BY <1>1, <1>2, <1>4, <1>5, HeapStepKeeps DEF PendingInv

\* The write barriers never give a pending userdata's mark away.
LEMMA BarriersKeep ==
  ASSUME PendingInv, NEW t, NEW F, Barriers(t, F),
         UNCHANGED <<alloc, gcState, cw, pool, swept, mmudata, finalized, ran>>
  PROVE  PendingInv'
<1> DEFINE hit == IF BarrierHit(t) THEN {t} ELSE {}
<1>1. /\ marked' = marked \cup F
      /\ color' = [o \in Obj |-> IF o \in F THEN "B" ELSE IF o \in hit THEN "G" ELSE color[o]]
  BY DEF Barriers
<1> HIDE DEF hit
<1>2. DOMAIN color' = Obj
  BY <1>1
<1>3. Pending \subseteq Obj
  BY DEF PendingInv, Pending, Obj
<1>4. ASSUME NEW u \in Pending, Alive(u) PROVE Alive(u)'
  <2>1. CASE u \in F
    BY <1>1, <2>1 DEF Alive
  <2>2. CASE u \notin F
    <3>1. color'[u] = "G" \/ color'[u] = color[u]
      BY <1>1, <1>3, <2>2
    <3> QED
      BY <1>1, <1>4, <3>1 DEF Alive, IsDead, White
  <2> QED
    BY <2>1, <2>2
<1> QED
  BY <1>2, <1>4, HeapStepKeeps DEF PendingInv

\* Stack and control changes: the headers and the pools stay.
LEMMA QuietKeeps ==
  ASSUME PendingInv,
         UNCHANGED <<alloc, marked, color, gcState, cw, pool, swept, mmudata, finalized, ran>>
  PROVE  PendingInv'
<1>1. \A u \in Pending : Alive(u) => Alive(u)'
  BY DEF Alive, IsDead
<1> QED
  BY <1>1, HeapStepKeeps DEF PendingInv

\* The program between two collector steps.
LEMMA LuaStepKeeps ==
  ASSUME PendingInv, LuaStep
  PROVE  PendingInv'
<1>0. UNCHANGED <<mmudata, finalized, ran>> /\ UNCHANGED finVars /\ MutatorStep
  BY DEF LuaStep, finVars
<1>1. ASSUME NEW o, NEW C, New(o, C)
      PROVE  PendingInv'
  BY <1>0, <1>1, NewKeeps
<1>2. CASE (\E t \in Table : NewTable(t)) \/ (\E th \in Thread : NewThread(th))
           \/ (\E s \in Str : NewString(s)) \/ (\E f \in Func : NewFunc(f))
  BY <1>1, <1>2 DEF NewTable, NewThread, NewString, NewFunc
<1>3. ASSUME NEW s \in Str, InternHit(s)
      PROVE  PendingInv'
  <2>1. /\ marked' = marked \cup {s} /\ color' = [color EXCEPT ![s] = "B"]
        /\ UNCHANGED <<alloc, gcState, cw, pool, swept>>
    BY <1>3 DEF InternHit
  <2>2. DOMAIN color' = Obj
    BY <2>1 DEF PendingInv
  <2>3. \A u \in Pending : Alive(u) => Alive(u)'
    BY <2>1 DEF Alive, IsDead
  <2> QED
    BY <1>0, <2>1, <2>2, <2>3, HeapStepKeeps DEF PendingInv
<1>4. ASSUME NEW t, NEW F, Barriers(t, F), UNCHANGED <<alloc, gcState, cw, sweepVars>>
      PROVE  PendingInv'
  BY <1>0, <1>4, BarriersKeep DEF sweepVars
<1>5. CASE \E t \in Table, v \in Obj : Store(t, v) \/ StoreApi(t, v) \/ Remove(t, v)
  <2>1. PICK t \in Table, v \in Obj : Store(t, v) \/ StoreApi(t, v) \/ Remove(t, v)
    BY <1>5
  <2>2. UNCHANGED <<alloc, gcState, cw, sweepVars>>
    BY <2>1 DEF Store, StoreApi, Remove
  <2>3. \E F : Barriers(t, F)
    BY <2>1 DEF Store, StoreApi, Remove
  <2> QED
    BY <1>4, <2>2, <2>3
<1>6. CASE \/ \E t \in Table, v \in Obj : Load(t, v)
           \/ \E v \in Obj : Drop(v)
           \/ \E c \in Thread, v \in Obj : Resume(c, v)
           \/ \E v \in Obj : Yield(v)
  <2>1. UNCHANGED <<alloc, marked, color, gcState, cw, pool, swept>>
    BY <1>6 DEF Load, Drop, Resume, Yield, markVars, sweepVars
  <2> QED
    BY <1>0, <2>1, QuietKeeps
<1> QED
  BY <1>0, <1>2, <1>3, <1>5, <1>6 DEF MutatorStep

\* newproxy: a name that is pending is not free.
LEMMA NewUDataKeeps ==
  ASSUME PendingInv, NEW u \in UData, NEW mt \in SUBSET Table, NewUData(u, mt)
  PROVE  PendingInv'
<1> DEFINE fresh == ({u} \cup mt) \ alloc
<1>1. /\ u \notin alloc /\ alloc' = alloc \cup fresh /\ marked' = marked \ fresh
      /\ color' = [o \in Obj |-> IF o \in fresh THEN White(cw) ELSE color[o]]
      /\ finalized' = finalized \ {u} /\ ran' = ran \ {u} /\ cw' = cw
      /\ UNCHANGED <<gcState, pool, swept, mmudata>>
  BY DEF NewUData
<1>2. /\ fresh \cap alloc = {} /\ fresh \cap UData \subseteq {u}
  BY KindsAssumption
<1> HIDE DEF fresh
<1>3. IsFiniteSet(alloc' \cap UData)
  <2>1. alloc' \cap UData \subseteq (alloc \cap UData) \cup {u}
    BY <1>1, <1>2
  <2> QED
    BY <2>1, UDataFinite DEF PendingInv
<1>4. \A x \in Pending : x \notin fresh /\ x # u /\ x \in Obj
  BY <1>1, <1>2 DEF PendingInv, Pending, Obj
<1>5. \A x \in Pending : Alive(x) => Alive(x)'
  BY <1>1, <1>4 DEF Alive, IsDead
<1>6. DOMAIN color' = Obj
  BY <1>1
<1>7. Pending \subseteq finalized' /\ ran' \subseteq finalized' /\ Pending \cap ran' = {}
  BY <1>1, <1>4 DEF PendingInv
<1> QED
  BY <1>1, <1>3, <1>5, <1>6, <1>7, HeapStepKeeps

---------------------------------------------------------------------------
(* The collector *)

\* A cycle starts with nothing pending.
LEMMA BeginCycleKeeps ==
  ASSUME PendingInv, mmudata = <<>>, BeginCycle, UNCHANGED <<mmudata, finalized, ran>>
  PROVE  PendingInv'
<1>1. Pending = {} /\ Pending' = {}
  BY DEF Pending
<1>2. gcState' = "Propagate" /\ DOMAIN color' = Obj /\ UNCHANGED <<alloc, pool>>
  BY DEF BeginCycle, sweepVars
<1> QED
  BY <1>1, <1>2 DEF PendingInv, CycleKnows, KeptBySweep

\* The state changes without a cycle, and nothing is pending where that matters.
LEMMA StateKeeps ==
  ASSUME PendingInv, gcState' \in {"Pause", "Propagate", "Atomic", "Finalize"},
         mmudata # <<>> => gcState' = "Finalize",
         UNCHANGED <<alloc, color, pool, mmudata, finalized, ran>>
  PROVE  PendingInv'
<1>1. Pending' = Pending
  BY DEF Pending
<1> QED
  BY <1>1 DEF PendingInv, CycleKnows, KeptBySweep

\* The sweep of D decides about what it keeps by Alive.
LEMMA SweepSetKeeps ==
  ASSUME PendingInv, NEW D, SweepSet(D), UNCHANGED <<gcState, cw, mmudata, finalized, ran>>,
         gcState = "Sweep", pool' \in Nat,
         \A u \in Pending : u \in D => Unswept(u),
         \A u \in Pending : u \in alloc' /\ Unswept(u)' => Unswept(u) /\ u \notin D
  PROVE  PendingInv'
<1> DEFINE dead == {o \in D : ~Alive(o)}
<1>1. /\ alloc' = alloc \ dead /\ marked' = marked \ D
      /\ color' = [o \in Obj |-> IF o \in dead THEN "W0"
                                 ELSE IF o \in D \cap marked THEN ChangeWhite(color[o]) ELSE color[o]]
  BY DEF SweepSet
<1>2. Pending' = Pending
  BY DEF Pending
<1>3. Pending \subseteq Obj
  BY DEF PendingInv, Pending, Obj
<1>4. \A u \in Pending : u \notin dead
  BY DEF PendingInv, KeptBySweep
<1>5. dead \subseteq D
  OBVIOUS
<1> HIDE DEF dead
<1>6. Pending \subseteq alloc'
  BY <1>1, <1>4 DEF PendingInv
<1>7. IsFiniteSet(alloc' \cap UData)
  <2>1. alloc' \cap UData \subseteq alloc \cap UData
    BY <1>1
  <2> QED
    BY <2>1, FS_Subset DEF PendingInv
<1>8. DOMAIN color' = Obj
  BY <1>1
<1>9. ASSUME NEW u \in Pending, Unswept(u)' PROVE Alive(u)'
  <2>1. Unswept(u) /\ u \notin D
    BY <1>6, <1>9
  <2>2. Alive(u)
    BY <2>1 DEF PendingInv, KeptBySweep
  <2>3. color'[u] = color[u] /\ (u \in marked => u \in marked')
    BY <1>1, <1>3, <1>5, <2>1
  <2> QED
    BY <2>2, <2>3 DEF Alive, IsDead
<1>10. KeptBySweep'
  BY <1>2, <1>9 DEF KeptBySweep
<1>11. CycleKnows'
  BY DEF PendingInv, CycleKnows
<1> QED
  BY <1>2, <1>6, <1>7, <1>8, <1>10, <1>11 DEF PendingInv

\* Userdata is the last pool that is swept.
LEMMA UDataRank ==
  ASSUME PendingInv, NEW u \in Pending
  PROVE  Rank(u) = 6 /\ u \notin Str
<1>1. u \in UData
  BY DEF PendingInv, Pending
<1> QED
  BY <1>1, KindsAssumption DEF Rank

\* The collector outside the atomic phase.
LEMMA CollectorPartKeeps ==
  ASSUME PendingInv, CollectorPart
  PROVE  PendingInv'
<1>0. UNCHANGED <<mmudata, finalized, ran>>
  BY DEF CollectorPart, finVars
<1>1. CASE StartCycle
  <2>1. mmudata = <<>> /\ BeginCycle
    BY <1>1 DEF StartCycle, PendingInv, CycleKnows
  <2> QED
    BY <1>0, <2>1, BeginCycleKeeps
<1>2. ASSUME NEW g \in Obj, PropagateOne(g) PROVE PendingInv'
  <2>1. /\ gcState = "Propagate" /\ gcState' \in {"Propagate", "Atomic"}
        /\ DOMAIN color' = Obj /\ UNCHANGED <<alloc, pool>>
    BY <1>2 DEF PropagateOne, sweepVars
  <2>2. mmudata = <<>>
    BY <2>1 DEF PendingInv, CycleKnows
  <2>3. Pending = {} /\ Pending' = {}
    BY <1>0, <2>2 DEF Pending
  <2> QED
    BY <1>0, <2>1, <2>2, <2>3 DEF PendingInv, CycleKnows, KeptBySweep
<1>3. CASE SweepStrings
  <2>1. /\ gcState = "Sweep" /\ SweepSet(Str \cap alloc) /\ pool = 1 /\ pool' = 2 /\ swept' = {}
        /\ UNCHANGED <<gcState, cw>>
    BY <1>3 DEF SweepStrings
  <2>2. PICK D : D = Str \cap alloc
    OBVIOUS
  <2>3. \A u \in Pending : u \notin D /\ Unswept(u)
    BY <2>1, <2>2, UDataRank DEF Unswept
  <2>4. SweepSet(D)
    BY <2>1, <2>2 DEF SweepSet
  <2> QED
    BY <1>0, <2>1, <2>3, <2>4, SweepSetKeeps
<1>4. ASSUME NEW o \in Obj, SweepOne(o) PROVE PendingInv'
  <2>1. /\ gcState = "Sweep" /\ o \in ToSweep /\ SweepSet({o}) /\ UNCHANGED <<gcState, cw>>
        /\ pool \in Nat
        /\ IF ToSweep = {o} THEN pool' = pool + 1 /\ swept' = {}
                            ELSE pool' = pool /\ swept' = (swept \cup {o}) \cap alloc'
    BY <1>4 DEF SweepOne, PendingInv
  <2>2. Unswept(o)
    BY <2>1 DEF ToSweep, Unswept
  <2>3. ASSUME NEW u \in Pending, u \in alloc', Unswept(u)'
        PROVE  Unswept(u) /\ u # o
    <3>1. Rank(u) = 6 /\ Rank(u)' = 6
      BY UDataRank DEF Rank
    <3>2. CASE ToSweep = {o}
      <4>1. pool' = pool + 1 /\ swept' = {} /\ Rank(o) = pool
        BY <2>1, <3>2 DEF ToSweep
      <4> QED
        BY <2>1, <2>3, <3>1, <4>1 DEF Unswept
    <3>3. CASE ToSweep # {o}
      <4>1. pool' = pool /\ swept' = (swept \cup {o}) \cap alloc' /\ Rank(o) = pool
        BY <2>1, <3>3 DEF ToSweep
      <4> QED
        BY <2>1, <2>3, <3>1, <4>1 DEF Unswept
    <3> QED
      BY <3>2, <3>3
  <2>4. pool' \in Nat
    BY <2>1
  <2> QED
    BY <1>0, <2>1, <2>2, <2>3, <2>4, SweepSetKeeps
<1>5. CASE SweepEmptyPool
  <2>1. /\ pool' = pool + 1 /\ swept' = {} /\ pool \in Nat
        /\ UNCHANGED <<alloc, marked, color, gcState, cw>>
    BY <1>5 DEF SweepEmptyPool, PendingInv, markVars
  <2>2. Pending' = Pending
    BY <1>0 DEF Pending
  <2>3. ASSUME NEW u \in Pending, Unswept(u)' PROVE Unswept(u)
    <3>1. Rank(u) = 6 /\ Rank(u)' = 6
      BY UDataRank DEF Rank
    <3> QED
      BY <2>1, <2>3, <3>1 DEF Unswept
  <2>4. \A u \in Pending : Alive(u)' <=> Alive(u)
    BY <2>1 DEF Alive, IsDead
  <2>5. KeptBySweep'
    BY <2>1, <2>2, <2>3, <2>4 DEF KeptBySweep, PendingInv
  <2>6. CycleKnows'
    BY <1>0, <2>1 DEF PendingInv, CycleKnows
  <2>7. pool' \in Nat
    BY <2>1
  <2> QED
    BY <1>0, <2>1, <2>2, <2>5, <2>6, <2>7 DEF PendingInv
<1> QED
  BY <1>1, <1>2, <1>3, <1>4, <1>5 DEF CollectorPart

\* The atomic phase sets userdata aside that has no FINALIZED bit yet, and
\* whites it: the sweep it starts keeps it.
LEMMA FinAtomicKeeps ==
  ASSUME PendingInv, FinAtomic
  PROVE  PendingInv'
<1> DEFINE N1 == NewMarks(gray \cup grayagain, marked)
           mmu == Separable(marked \cup N1)
           mts == Meta(mmu) \ (marked \cup N1)
           N2 == mts \cup NewMarks(mts, marked \cup N1 \cup mts)
<1>1. /\ gcState = "Atomic" /\ AtomicFinish(N1 \cup N2, mmu, finalized \cup mmu)
      /\ finalized' = finalized \cup mmu /\ ran' = ran
      /\ \E q \in Orders(mmu) : mmudata' = mmudata \o q
  BY DEF FinAtomic
<1>2. mmu \subseteq alloc \cap UData /\ mmu \cap finalized = {}
  BY DEF Separable
<1> HIDE DEF N1, mmu, N2
<1>3. /\ gcState' = "Sweep" /\ pool' = 1 /\ swept' = {} /\ UNCHANGED <<alloc, cw>>
      /\ DOMAIN color' = Obj /\ \A u \in mmu : u \in Obj => color'[u] = "G"
  BY <1>1 DEF AtomicFinish
<1>4. mmudata = <<>>
  BY <1>1 DEF PendingInv, CycleKnows
<1>5. PICK q \in Orders(mmu) : mmudata' = mmudata \o q
  BY <1>1
<1>6. IsFiniteSet(mmu)
  BY <1>2, FS_Subset DEF PendingInv
<1>7. q \in Seq(mmu) /\ Distinct(q) /\ {q[i] : i \in 1 .. Len(q)} = mmu
  BY <1>6, OrderDistinct
<1>8. q \in Seq(UData) /\ mmudata' = q
  BY <1>2, <1>4, <1>5, <1>7
<1>9. Pending' = mmu
  BY <1>7, <1>8 DEF Pending
<1>10. \A u \in mmu : Alive(u)'
  <2>1. \A u \in mmu : color'[u] = "G"
    BY <1>2, <1>3 DEF Obj
  <2> QED
    BY <2>1 DEF Alive, IsDead, White
<1>11. KeptBySweep' /\ CycleKnows'
  BY <1>3, <1>9, <1>10 DEF KeptBySweep, CycleKnows
<1>12. pool' \in Nat
  BY <1>3
<1> QED
  BY <1>1, <1>2, <1>3, <1>7, <1>8, <1>9, <1>11, <1>12 DEF PendingInv

---------------------------------------------------------------------------
(* run_finalizers *)

\* The newest pending object is called; it has the FINALIZED bit already.
LEMMA CallFinalizerKeeps ==
  ASSUME PendingInv, CallFinalizer
  PROVE  PendingInv'
<1> DEFINE u == mmudata[Len(mmudata)]
<1>1. /\ mmudata # <<>> /\ mmudata' = SubSeq(mmudata, 1, Len(mmudata) - 1)
      /\ color' = [color EXCEPT ![u] = White(cw)]
      /\ finalized' = finalized \cup {u} /\ ran' = ran \cup {u}
      /\ UNCHANGED <<alloc, marked, gcState, cw, pool, swept>>
  BY DEF CallFinalizer
<1>2. mmudata \in Seq(UData) /\ Distinct(mmudata)
  BY DEF PendingInv
<1>3. PICK r : r = SubSeq(mmudata, 1, Len(mmudata) - 1)
  OBVIOUS
<1>4. /\ r \in Seq(UData) /\ Distinct(r)
      /\ {r[i] : i \in 1 .. Len(r)} \subseteq Pending \ {u}
      /\ u \in Pending
  <2>1. PICK q : q = mmudata
    OBVIOUS
  <2>2. q \in Seq(UData) /\ Distinct(q) /\ q # <<>> /\ ButLast(q, r)
    BY <1>1, <1>2, <1>3, <2>1 DEF ButLast
  <2>3. /\ r \in Seq(UData) /\ Distinct(r)
        /\ Members(r) \subseteq Members(q)
        /\ q[Len(q)] \in Members(q) /\ q[Len(q)] \notin Members(r)
    BY <2>2, TakeLast
  <2> QED
    BY <2>1, <2>3 DEF Pending, Members
<1> HIDE DEF u
<1>5. mmudata' = r /\ Pending' \subseteq Pending \ {u}
  BY <1>1, <1>3, <1>4 DEF Pending
<1>6. DOMAIN color' = Obj /\ \A x : x # u => color'[x] = color[x]
  BY <1>1 DEF PendingInv
<1>7. ASSUME NEW x \in Pending', Alive(x) PROVE Alive(x)'
  <2>1. x # u
    BY <1>5
  <2>2. color'[x] = color[x]
    BY <1>6, <2>1
  <2> QED
    BY <1>1, <1>7, <2>2 DEF Alive, IsDead
<1>8. KeptBySweep'
  BY <1>1, <1>5, <1>7 DEF KeptBySweep, PendingInv, Unswept
<1>9. CycleKnows'
  BY <1>1 DEF PendingInv, CycleKnows
<1>10. Pending' \subseteq finalized' /\ ran' \subseteq finalized' /\ Pending' \cap ran' = {}
       /\ Pending' \subseteq alloc'
  BY <1>1, <1>4, <1>5 DEF PendingInv
<1> QED
  BY <1>1, <1>4, <1>5, <1>6, <1>8, <1>9, <1>10 DEF PendingInv

\* PendingInv is inductive, up to a cycle that is opened over it.
LEMMA FinNextKeeps ==
  ASSUME PendingInv, [FinNext]_allVars, ~forced'
  PROVE  PendingInv'
<1>1. CASE \E u \in UData, mt \in SUBSET Table : NewUData(u, mt)
  BY <1>1, NewUDataKeeps
<1>2. CASE \E u \in UData : GetMetatable(u)
  <2>1. UNCHANGED <<alloc, marked, color, gcState, cw, pool, swept, mmudata, finalized, ran>>
    BY <1>2 DEF GetMetatable, markVars, sweepVars, finVars
  <2> QED
    BY <2>1, QuietKeeps
<1>3. CASE LuaStep
  BY <1>3, LuaStepKeeps
<1>4. CASE CollectorPart
  BY <1>4, CollectorPartKeeps
<1>5. CASE FinAtomic
  BY <1>5, FinAtomicKeeps
<1>6. CASE FinSweepEnd
  <2>1. /\ gcState' = IF mmudata = <<>> THEN "Pause" ELSE "Finalize"
        /\ UNCHANGED <<alloc, color, pool, mmudata, finalized, ran>>
    BY <1>6 DEF FinSweepEnd, markVars, sweepVars, finVars
  <2> QED
    BY <2>1, StateKeeps
<1>7. CASE GcCheck \/ Collect \/ FinalizerReturns \/ FinalizerFails \/ ApiCollect
  <2>1. UNCHANGED <<alloc, marked, color, gcState, cw, pool, swept, mmudata, finalized, ran>>
    BY <1>7 DEF GcCheck, Collect, FinalizerReturns, FinalizerFails, ApiCollect, FullGcBegin,
       vars, finVars, markVars, sweepVars
  <2> QED
    BY <2>1, QuietKeeps
<1>8. CASE CallFinalizer
  BY <1>8, CallFinalizerKeeps
<1>9. CASE Drained
  <2>1. /\ mmudata = <<>> /\ gcState' = "Pause"
        /\ UNCHANGED <<alloc, color, pool, mmudata, finalized, ran>>
    BY <1>9 DEF Drained, markVars, sweepVars
  <2> QED
    BY <2>1, StateKeeps
<1>10. CASE DrainedThenFullGc
  <2>1. mmudata = <<>> /\ BeginCycle /\ UNCHANGED <<mmudata, finalized, ran>>
    BY <1>10 DEF DrainedThenFullGc, finVars
  <2> QED
    BY <2>1, BeginCycleKeeps
<1>11. CASE FullGcReturns
  <2>1. UNCHANGED <<alloc, marked, color, gcState, cw, pool, swept, mmudata, finalized, ran>>
    BY <1>11 DEF FullGcReturns, sweepVars
  <2> QED
    BY <2>1, QuietKeeps
<1>13. CASE ApiFullGc
  <2>1. mmudata = <<>> /\ BeginCycle /\ UNCHANGED <<mmudata, finalized, ran>>
    BY <1>13 DEF ApiFullGc
  <2> QED
    BY <2>1, BeginCycleKeeps
<1>12. CASE UNCHANGED allVars
  <2>1. UNCHANGED <<alloc, marked, color, gcState, cw, pool, swept, mmudata, finalized, ran>>
    BY <1>12 DEF allVars, vars, finVars
  <2> QED
    BY <2>1, QuietKeeps
<1> QED
  BY <1>1, <1>2, <1>3, <1>4, <1>5, <1>6, <1>7, <1>8, <1>9, <1>10, <1>11, <1>12, <1>13 DEF FinNext, Finalization

\* Nothing is pending at the start.
LEMMA InitPendingInv ==
  ASSUME FinInit
  PROVE  PendingInv
<1>1. mmudata = <<>> /\ finalized = {} /\ ran = {} /\ alloc = {Globals, Main}
      /\ gcState = "Pause" /\ pool = 1 /\ DOMAIN color = Obj
  BY DEF FinInit, Init
<1>2. mmudata \in Seq(UData) /\ Len(mmudata) = 0
  BY <1>1
<1>3. Pending = {} /\ Distinct(mmudata)
  BY <1>2 DEF Pending, Distinct
<1>4. alloc \cap UData = {}
  BY <1>1, KindsAssumption
<1>5. IsFiniteSet(alloc \cap UData)
  BY <1>4, FS_EmptySet
<1> QED
  BY <1>1, <1>2, <1>3, <1>5 DEF PendingInv, CycleKnows, KeptBySweep

---------------------------------------------------------------------------
(* Theorems *)

\* The histories only grow.
LEMMA LapsesStay ==
  ASSUME forced \in BOOLEAN, misjudged \in BOOLEAN, [FinNext]_allVars
  PROVE  /\ forced' \in BOOLEAN /\ (forced => forced')
         /\ misjudged' \in BOOLEAN /\ (misjudged => misjudged')
BY DEF FinNext, NewUData, GetMetatable, LuaStep, CollectorPart, FinAtomic, FinSweepEnd, GcCheck,
   Collect, FinalizerFails, ApiCollect, ApiFullGc, Finalization, CallFinalizer, FinalizerReturns,
   Drained, DrainedThenFullGc, FullGcReturns, allVars, finVars, lapses

\* What waits for its finalizer waits once, is allocated, has the FINALIZED
\* bit and will pass the sweep, unless full_gc opened a cycle over it.
THEOREM PendingKept == FinSpec => [](forced \/ PendingInv)
<1> DEFINE Inv == forced \in BOOLEAN /\ misjudged \in BOOLEAN /\ (forced \/ PendingInv)
<1>1. FinInit => Inv
  BY InitPendingInv DEF FinInit
<1>2. Inv /\ [FinNext]_allVars => Inv'
  <2> SUFFICES ASSUME Inv, [FinNext]_allVars PROVE Inv'
    OBVIOUS
  <2>1. forced' \in BOOLEAN /\ misjudged' \in BOOLEAN /\ (forced => forced')
    BY LapsesStay
  <2>2. CASE forced'
    BY <2>1, <2>2
  <2>3. CASE ~forced'
    BY <2>1, <2>3, FinNextKeeps
  <2> QED
    BY <2>1, <2>2, <2>3
<1>3. Inv => (forced \/ PendingInv)
  OBVIOUS
<1> QED
  BY <1>1, <1>2, <1>3, PTL DEF FinSpec

\* run_finalizers calls no finalizer twice, however activations nest, fail or
\* resurrect.
THEOREM AtMostOnce == FinSpec => []FinalizedAtMostOnce
<1>1. (forced \/ PendingInv) => FinalizedAtMostOnce
  <2> SUFFICES ASSUME PendingInv PROVE FinalizedAtMostOnce
    BY DEF FinalizedAtMostOnce
  <2>1. Cardinality(Pending) = Len(mmudata)
    BY DistinctCount DEF PendingInv, Pending
  <2> QED
    BY <2>1 DEF PendingInv, FinalizedAtMostOnce
<1> QED
  BY <1>1, PendingKept, PTL

\* The mark phase never runs while mmudata, which it does not look at, holds
\* objects: no incremental step and no collectgarbage starts one, only the
\* full_gc of lua_gc can.
THEOREM NeverWhilePending == FinSpec => []NoCycleWhilePending
<1>1. (forced \/ PendingInv) => NoCycleWhilePending
  BY DEF PendingInv, CycleKnows, NoCycleWhilePending
<1> QED
  BY <1>1, PendingKept, PTL

---------------------------------------------------------------------------
(* What finalizers need of the heap *)

\* X holds what finalizers need: what is pending, and the metatable of all
\* that may become so.
Needs(X) ==
    /\ Pending \subseteq X
    /\ \A u \in (alloc \cap UData) \ finalized : HasGcMeta(u) => refs[u] \subseteq X

FinHeapInv ==
    /\ PendingInv
    /\ alloc \cap Upval = {}
    /\ \E X \in SUBSET alloc : HeapInvWith(X) /\ Needs(X)

---------------------------------------------------------------------------
(* What finalizers need is kept *)

\* The witness set is allocated.
LEMMA WithinAlloc ==
  ASSUME NEW X, HeapInvWith(X)
  PROVE  X \subseteq alloc
BY DEF HeapInvWith

\* Steps that leave userdata alone keep what finalizers need.
LEMMA NeedsKept ==
  ASSUME NEW X, Needs(X), UNCHANGED finalized, mmudata' = mmudata,
         alloc' \cap UData \subseteq alloc,
         \A u \in alloc' \cap UData : refs'[u] = refs[u]
  PROVE  Needs(X)'
<1>1. Pending' = Pending
  BY DEF Pending
<1>2. \A u \in alloc' \cap UData : HasGcMeta(u)' <=> HasGcMeta(u)
  BY DEF HasGcMeta
<1> QED
  BY <1>1, <1>2 DEF Needs

\* A step of the program between two collector steps neither makes userdata
\* nor changes what userdata refers to.
LEMMA MutatorLeavesUData ==
  ASSUME NEW X, HeapInvWith(X), MutatorStep
  PROVE  /\ alloc' \cap UData \subseteq alloc
         /\ \A u \in UData : refs'[u] = refs[u]
<1> USE KindsAssumption
<1>0. TypeOK
  BY DEF HeapInvWith
<1>a. PICK S \in SUBSET alloc : Witness(S)
  BY DEF HeapInvWith
<1>b. Running \in Thread
  BY <1>0, <1>a, RunningHeld
<1>c. refs \in [Obj -> SUBSET Obj] /\ \A u \in UData : u \in Obj
  BY <1>0 DEF TypeOK, Obj
<1>1. ASSUME NEW o \in Table \cup Thread \cup Str \cup Func, NEW C, New(o, C)
      PROVE  /\ alloc' \cap UData \subseteq alloc
             /\ \A u \in UData : refs'[u] = refs[u]
  BY <1>1, <1>b, <1>c DEF New
<1>2. ASSUME NEW o \in Table \cup Thread, NEW C, refs' = [refs EXCEPT ![o] = C], alloc' = alloc
      PROVE  /\ alloc' \cap UData \subseteq alloc
             /\ \A u \in UData : refs'[u] = refs[u]
  BY <1>2, <1>c
<1>3. CASE \/ \E t \in Table : NewTable(t)
           \/ \E th \in Thread : NewThread(th)
           \/ \E s \in Str : NewString(s)
           \/ \E f \in Func : NewFunc(f)
  BY <1>1, <1>3 DEF NewTable, NewThread, NewString, NewFunc
<1>4. CASE \/ \E s \in Str : InternHit(s)
           \/ \E t \in Table, v \in Obj : Load(t, v)
           \/ \E v \in Obj : Drop(v)
  BY <1>2, <1>4, <1>b DEF InternHit, Load, Drop
<1>5. CASE \/ \E t \in Table, v \in Obj : Store(t, v)
           \/ \E t \in Table, v \in Obj : StoreApi(t, v)
           \/ \E t \in Table, v \in Obj : Remove(t, v)
           \/ \E c \in Thread, v \in Obj : Resume(c, v)
  BY <1>2, <1>5 DEF Store, StoreApi, Remove, Resume
<1>6. CASE \E v \in Obj : Yield(v)
  <2>1. chain[Len(chain) - 1] \in Thread
    BY <1>0, <1>6 DEF Yield, TypeOK
  <2> QED
    BY <1>2, <1>6, <2>1 DEF Yield
<1> QED
  BY <1>3, <1>4, <1>5, <1>6 DEF MutatorStep

\* The program between two collector steps.
LEMMA LuaStepSafe ==
  ASSUME NEW X, HeapInvWith(X), Needs(X), LuaStep, CellsOK'
  PROVE  HeapInvWith(X)' /\ Needs(X)'
<1>1. MutatorStep /\ UNCHANGED <<mmudata, finalized>>
  BY DEF LuaStep, finVars
<1>2. HeapInvWith(X)'
  BY <1>1, MutatorPreserves
<1>3. /\ alloc' \cap UData \subseteq alloc
      /\ \A u \in UData : refs'[u] = refs[u]
  BY <1>1, MutatorLeavesUData
<1> QED
  BY <1>1, <1>2, <1>3, NeedsKept

\* The collector's steps outside the atomic phase: userdata is only freed.
LEMMA CollectorPartSafe ==
  ASSUME NEW X, HeapInvWith(X), Needs(X), CollectorPart
  PROVE  HeapInvWith(X)' /\ Needs(X)'
<1> USE KindsAssumption
<1>0. UNCHANGED <<mmudata, finalized>> /\ TypeOK
  BY DEF CollectorPart, finVars, HeapInvWith
<1>1. CASE StartCycle
  <2>1. BeginCycle /\ full' \in {"no", "drain", "run"} /\ UNCHANGED <<alloc, refs>>
    BY <1>0, <1>1 DEF StartCycle, BeginCycle, TypeOK
  <2> QED
    BY <1>0, <2>1, BeginCyclePreserves, NeedsKept
<1>2. CASE \E g \in Obj : PropagateOne(g)
  <2>1. UNCHANGED <<alloc, refs>>
    BY <1>2 DEF PropagateOne
  <2> QED
    BY <1>0, <1>2, <2>1, PropagateOnePreserves, NeedsKept
<1>3. CASE SweepStrings \/ (\E o \in Obj : SweepOne(o)) \/ SweepEmptyPool
  <2>1. HeapInvWith(X)'
    BY <1>3, SweepActionsPreserve
  <2>2. alloc' \subseteq alloc /\ \A u \in alloc' \cap UData : refs'[u] = refs[u]
    <3>1. ASSUME NEW D, SweepSet(D)
          PROVE  alloc' \subseteq alloc /\ \A u \in alloc' \cap UData : refs'[u] = refs[u]
      BY <3>1 DEF SweepSet, Obj
    <3>2. CASE SweepEmptyPool
      BY <3>2 DEF SweepEmptyPool
    <3>3. CASE SweepStrings
      BY <3>1, <3>3 DEF SweepStrings
    <3>4. CASE \E o \in Obj : SweepOne(o)
      BY <3>1, <3>4 DEF SweepOne
    <3> QED
      BY <1>3, <3>2, <3>3, <3>4
  <2> QED
    BY <1>0, <2>1, <2>2, NeedsKept
<1> QED
  BY <1>1, <1>2, <1>3 DEF CollectorPart

\* A stack step that leaves everything else alone.
LEMMA StackSafe ==
  ASSUME NEW X, HeapInvWith(X), Needs(X), NEW S \in SUBSET alloc, X \subseteq S, Witness(S),
         NEW C \in SUBSET S, refs' = [refs EXCEPT ![Running] = C],
         UNCHANGED <<alloc, markVars, gcState, cw, sweepVars, full, chain, mmudata, finalized>>
  PROVE  HeapInvWith(X)' /\ Needs(X)'
<1> USE KindsAssumption
<1>0. TypeOK /\ ChainOK /\ KindsOK /\ MarkingOK
  BY DEF HeapInvWith
<1>1. Running \in Thread /\ Running \in S
  BY <1>0, RunningHeld
<1>2. TypeOK'
  BY <1>0, <1>1 DEF TypeOK, markVars, sweepVars, Obj
<1>3. ChainOK'
  <2>1. \A o \in Active \ {Running} : refs[o] \subseteq refs'[o]
    BY <1>0, <1>1 DEF TypeOK, Obj
  <2> QED
    BY <1>0, <2>1, ChainKept
<1>4. KindsOK' /\ MarkingOK' /\ Witness(S)'
  <2>1. Roots' \subseteq S
    BY DEF Witness, Closed, Roots, Active
  <2> QED
    BY <1>0, <1>1, <2>1, StackStep
<1>5. \A u \in UData : refs'[u] = refs[u]
  BY <1>0, <1>1 DEF TypeOK, Obj
<1>6. Needs(X)'
  BY <1>5, NeedsKept
<1> QED
  BY <1>2, <1>3, <1>4, <1>6 DEF HeapInvWith

\* getmetatable of a held proxy, and the argument slot of a finalizer that
\* is cleared.
LEMMA StackActionsSafe ==
  ASSUME NEW X, HeapInvWith(X), Needs(X),
         (\E u \in UData : GetMetatable(u)) \/ FinalizerReturns
  PROVE  HeapInvWith(X)' /\ Needs(X)'
<1>0. TypeOK
  BY DEF HeapInvWith
<1>a. PICK S \in SUBSET alloc : X \subseteq S /\ Witness(S)
  BY DEF HeapInvWith
<1>b. refs[Running] \subseteq S
  BY <1>0, <1>a, RunningHeld
<1>1. ASSUME NEW u \in UData, GetMetatable(u)
      PROVE  HeapInvWith(X)' /\ Needs(X)'
  <2>1. refs[Running] \cup refs[u] \in SUBSET S
    BY <1>1, <1>a, <1>b DEF GetMetatable, Witness, Closed
  <2>2. /\ refs' = [refs EXCEPT ![Running] = refs[Running] \cup refs[u]]
        /\ UNCHANGED <<alloc, markVars, gcState, cw, sweepVars, full, chain, mmudata, finalized>>
    BY <1>1 DEF GetMetatable, finVars
  <2> QED
    BY <1>a, <2>1, <2>2, StackSafe
<1>2. CASE FinalizerReturns
  <2>1. refs[Running] \ {Top.body} \in SUBSET S
    BY <1>b
  <2>2. /\ refs' = [refs EXCEPT ![Running] = refs[Running] \ {Top.body}]
        /\ UNCHANGED <<alloc, markVars, gcState, cw, sweepVars, full, chain, mmudata, finalized>>
    BY <1>2 DEF FinalizerReturns
  <2> QED
    BY <1>a, <2>1, <2>2, StackSafe
<1> QED
  BY <1>1, <1>2

\* Calling a finalizer makes its argument reachable again; a sweep that has
\* yet to pass it finds the current white.
LEMMA CallFinalizerSafe ==
  ASSUME PendingInv, NEW X, HeapInvWith(X), Needs(X), CallFinalizer
  PROVE  HeapInvWith(X)' /\ Needs(X)'
<1> USE KindsAssumption
<1>0. TypeOK /\ ChainOK /\ KindsOK /\ MarkingOK
  BY DEF HeapInvWith
<1>a. PICK S \in SUBSET alloc : X \subseteq S /\ Witness(S)
  BY DEF HeapInvWith
<1>b. Running \in Thread /\ Running \in S /\ refs[Running] \subseteq S
  BY <1>0, <1>a, RunningHeld
<1>c. PICK u : u = mmudata[Len(mmudata)]
  OBVIOUS
<1>d. /\ mmudata # <<>> /\ mmudata' = SubSeq(mmudata, 1, Len(mmudata) - 1)
      /\ color' = [color EXCEPT ![u] = White(cw)]
      /\ finalized' = finalized \cup {u}
      /\ refs' = [refs EXCEPT ![Running] = refs[Running] \cup {u}]
      /\ UNCHANGED <<alloc, marked, gcState, cw, gray, grayagain, gcweak, pool, swept, full, chain>>
  BY <1>c DEF CallFinalizer
<1>e. u \in UData /\ u \in Pending /\ Pending' \subseteq Pending
  <2>1. PICK q \in Seq(UData) : q = mmudata
    BY DEF PendingInv
  <2>2. PICK r : r = SubSeq(q, 1, Len(q) - 1)
    OBVIOUS
  <2>3. ButLast(q, r) /\ q # <<>> /\ Distinct(q)
    BY <1>d, <2>1, <2>2 DEF PendingInv, ButLast
  <2>4. q[Len(q)] \in Members(q) /\ Members(r) \subseteq Members(q)
    BY <2>3, TakeLast
  <2>5. Pending = Members(q) /\ Pending' = Members(r)
    BY <1>d, <2>1, <2>2 DEF Pending, Members
  <2>6. \A i \in 1 .. Len(q) : q[i] \in UData
    OBVIOUS
  <2> QED
    BY <1>c, <2>1, <2>4, <2>5, <2>6 DEF Members
<1>f. u \in S /\ u \in Obj /\ u # Running
  BY <1>a, <1>b, <1>e DEF Needs, Obj
<1>g. /\ refs' \in [Obj -> SUBSET Obj]
      /\ refs'[Running] = refs[Running] \cup {u}
      /\ \A x \in Obj \ {Running} : refs'[x] = refs[x]
  BY <1>0, <1>b, <1>d, <1>f DEF TypeOK, Obj
<1>h. /\ color' \in [Obj -> Colors] /\ color'[u] = White(cw)
      /\ \A x \in Obj \ {u} : color'[x] = color[x]
  BY <1>0, <1>d, <1>f DEF TypeOK, Colors, White
<1>1. TypeOK'
  BY <1>0, <1>d, <1>g, <1>h DEF TypeOK
<1>2. ChainOK'
  <2>1. \A x \in Active \ {Running} : refs[x] \subseteq refs'[x]
    BY <1>0, <1>g DEF TypeOK, Active, Obj
  <2> QED
    BY <1>0, <1>d, <2>1, ChainKept
<1>3. KindsOK'
  BY <1>0, <1>b, <1>d, <1>g, <1>a DEF KindsOK, CellsOK, Obj
<1>4. MarkingOK'
  BY <1>d DEF PendingInv, CycleKnows, MarkingOK, Marking
<1>5. Witness(S)'
  <2>1. Closed(S)'
    <3>1. \A x \in S : x \in Obj /\ refs[x] \subseteq S
      BY <1>0, <1>a DEF Witness, Closed, TypeOK
    <3> QED
      BY <1>a, <1>b, <1>d, <1>f, <1>g, <3>1 DEF Witness, Closed, Roots, Active
  <2>2. (marked \cup Lists \cup gcweak \subseteq S)'
    BY <1>a, <1>d DEF Witness, Lists
  <2>3. SweepOK(S)'
    <3>1. Alive(u)'
      BY <1>0, <1>d, <1>h DEF TypeOK, Alive, IsDead, White
    <3>2. ASSUME NEW x \in S, x # u, Alive(x) PROVE Alive(x)'
      BY <1>0, <1>d, <1>h, <3>2 DEF TypeOK, Alive, IsDead
    <3>3. \A x : Unswept(x)' <=> Unswept(x)
      BY <1>d DEF Unswept
    <3> QED
      BY <1>a, <1>d, <3>1, <3>2, <3>3 DEF Witness, SweepOK
  <2> QED
    BY <2>1, <2>2, <2>3 DEF Witness
<1>6. Needs(X)'
  <2>1. \A x \in UData : x \in Obj \ {Running}
    BY <1>b DEF Obj
  <2> QED
    BY <1>d, <1>e, <1>g, <2>1 DEF Needs, HasGcMeta
<1> QED
  BY <1>1, <1>2, <1>3, <1>4, <1>5, <1>6, <1>a, <1>d DEF HeapInvWith

\* newproxy: the metatable is new or that of a proxy on the stack, and both
\* are reachable; a fresh object has the current white.
LEMMA NewUDataSafe ==
  ASSUME PendingInv, NEW X, HeapInvWith(X), Needs(X),
         NEW u \in UData, NEW mt \in SUBSET Table, NewUData(u, mt),
         NEW X1, X1 = X \cup mt
  PROVE  HeapInvWith(X1)' /\ Needs(X1)'
<1> USE KindsAssumption
<1>0. TypeOK /\ ChainOK /\ KindsOK /\ MarkingOK
  BY DEF HeapInvWith
<1>a. PICK S \in SUBSET alloc : X \subseteq S /\ Witness(S)
  BY DEF HeapInvWith
<1>b. Running \in Thread /\ Running \in S /\ refs[Running] \subseteq S
  BY <1>0, <1>a, RunningHeld
<1>c. PICK F : F = ({u} \cup mt) \ alloc
  OBVIOUS
<1>d. /\ u \in UData \ alloc
      /\ alloc' = alloc \cup F
      /\ color' = [o \in Obj |-> IF o \in F THEN White(cw) ELSE color[o]]
      /\ marked' = marked \ F
      /\ refs' = [refs EXCEPT ![u] = mt, ![Running] = @ \cup {u}]
      /\ finalized' = finalized \ {u}
      /\ UNCHANGED <<gcState, cw, gray, grayagain, gcweak, pool, swept, full, chain, mmudata>>
  BY <1>c DEF NewUData
<1>e. u \in F /\ u \in Obj /\ F \subseteq UData \cup Table /\ F \subseteq Obj /\ F \cap alloc = {}
  BY <1>c, <1>d DEF Obj
<1>f. mt \subseteq S \cup F
  <2>1. \/ mt = {}
        \/ mt \subseteq Table \ alloc
        \/ \E w \in refs[Running] \cap UData : mt = refs[w]
    BY DEF NewUData
  <2>2. \A w \in refs[Running] \cap UData : refs[w] \subseteq S
    BY <1>a, <1>b DEF Witness, Closed
  <2> QED
    BY <1>c, <2>1, <2>2
<1>g. /\ refs' \in [Obj -> SUBSET Obj]
      /\ refs'[u] = mt /\ refs'[Running] = refs[Running] \cup {u}
      /\ \A x \in Obj \ {u, Running} : refs'[x] = refs[x]
  <2>1. u # Running /\ Running \in Obj /\ mt \subseteq Obj
    BY <1>b DEF Obj
  <2> QED
    BY <1>0, <1>d, <1>e, <2>1 DEF TypeOK
<1>h. /\ color' \in [Obj -> Colors]
      /\ \A x \in F : color'[x] = White(cw)
      /\ \A x \in Obj \ F : color'[x] = color[x]
      /\ marked' = marked
  BY <1>0, <1>a, <1>d, <1>e DEF TypeOK, Colors, White, Witness
<1>1. TypeOK'
  BY <1>0, <1>d, <1>e, <1>g, <1>h DEF TypeOK
<1>2. ChainOK'
  <2>1. \A x \in Active \ {Running} : refs[x] \subseteq refs'[x]
    <3>1. \A x \in Active : x \in Thread /\ x \in Obj
      BY <1>0 DEF TypeOK, Active, Obj
    <3> QED
      BY <1>g, <3>1
  <2> QED
    BY <1>0, <1>d, <2>1, ChainKept
<1>3. KindsOK'
  <2>1. \A s \in Str : refs'[s] = {}
    BY <1>0, <1>b, <1>g DEF KindsOK, Obj
  <2>2. \A x \in UData : refs'[x] \subseteq Table
    BY <1>0, <1>b, <1>g DEF KindsOK, Obj
  <2>3. \A x \in Obj \ alloc' : refs'[x] = {}
    BY <1>0, <1>a, <1>b, <1>d, <1>e, <1>g DEF KindsOK
  <2>4. CellsOK'
    <3>1. \A x \in Table \cup Upval : refs'[x] = refs[x]
      BY <1>b, <1>d, <1>g DEF Obj
    <3>2. alloc' \cap Upval = alloc \cap Upval
      BY <1>d, <1>e
    <3> QED
      BY <1>0, <3>1, <3>2 DEF KindsOK, CellsOK
  <2> QED
    BY <2>1, <2>2, <2>3, <2>4 DEF KindsOK
<1>4. MarkingOK'
  <2>1. Marking' = Marking /\ Lists' = Lists
    BY <1>d DEF Marking, Lists
  <2>2. ASSUME Marking, NEW o \in marked \ Lists
        PROVE  o \in Obj \ F /\ o # u /\ o # Running
    BY <1>0, <1>a, <1>b, <1>e, <2>2 DEF MarkingOK, TypeOK, Witness
  <2>3. ASSUME Marking, NEW o \in marked \ Lists
        PROVE  Strong(o)' = Strong(o) /\ color'[o] = color[o]
    BY <1>g, <1>h, <2>2, <2>3 DEF Strong
  <2> QED
    BY <1>0, <1>d, <1>h, <2>1, <2>3 DEF MarkingOK
<1>5. PICK T : T = S \cup F
  OBVIOUS
<1>6. Closed(T)'
  <2>1. Roots' = Roots
    BY <1>d DEF Roots, Active
  <2>2. \A x \in S : x \in Obj /\ x # u /\ refs[x] \subseteq S
    BY <1>0, <1>a, <1>d DEF Witness, Closed, TypeOK
  <2>3. \A x \in S : refs'[x] \subseteq T
    BY <1>b, <1>e, <1>g, <1>5, <2>2
  <2>4. \A x \in F : refs'[x] \subseteq T
    <3>1. \A x \in F \ {u} : x \in Obj /\ x # Running /\ refs[x] = {}
      BY <1>0, <1>b, <1>a, <1>e DEF KindsOK
    <3> QED
      BY <1>f, <1>g, <1>5, <3>1
  <2>5. Roots \subseteq T
    BY <1>a, <1>5 DEF Witness, Closed
  <2> QED
    BY <1>5, <2>1, <2>3, <2>4, <2>5 DEF Closed
<1>7. (marked \cup Lists \cup gcweak \subseteq T)'
  BY <1>a, <1>d, <1>h, <1>5 DEF Witness, Lists
<1>8. SweepOK(T)'
  <2>1. ASSUME gcState = "Sweep"
        PROVE  /\ \A x \in F : Alive(x)'
               /\ \A x \in S : Unswept(x)' => Alive(x)'
    <3>1. \A x \in F : Alive(x)'
      BY <1>0, <1>d, <1>h DEF TypeOK, Alive, IsDead, White
    <3>2. \A x \in S : x \in Obj \ F /\ (Unswept(x)' <=> Unswept(x))
      BY <1>0, <1>a, <1>d, <1>e DEF TypeOK, Unswept
    <3>3. \A x \in S : Alive(x) => Alive(x)'
      BY <1>d, <1>h, <3>2 DEF Alive, IsDead
    <3> QED
      BY <1>a, <2>1, <3>1, <3>2, <3>3 DEF Witness, SweepOK
  <2>2. gcState = "Sweep" => swept \subseteq alloc /\ (pool = 1 => swept = {})
    BY <1>a DEF Witness, SweepOK
  <2> QED
    BY <1>d, <1>5, <2>1, <2>2 DEF SweepOK
<1>9. T \in SUBSET alloc' /\ X1 \subseteq T
  BY <1>a, <1>d, <1>f, <1>5
<1>10. Needs(X1)'
  <2>1. Pending' = Pending
    BY <1>d DEF Pending
  <2>2. ASSUME NEW x \in (alloc' \cap UData) \ finalized', HasGcMeta(x)'
        PROVE  refs'[x] \subseteq X1
    <3>1. CASE x = u
      BY <1>g, <3>1
    <3>2. CASE x # u
      <4>1. x \in (alloc \cap UData) \ finalized
        BY <1>d, <1>c, <2>2, <3>2
      <4>2. refs'[x] = refs[x]
        BY <1>b, <1>g, <3>2, <4>1 DEF Obj
      <4> QED
        BY <2>2, <4>1, <4>2 DEF Needs, HasGcMeta
    <3> QED
      BY <3>1, <3>2
  <2> QED
    BY <2>1, <2>2 DEF Needs
<1> QED
  BY <1>1, <1>2, <1>3, <1>4, <1>6, <1>7, <1>8, <1>9, <1>10 DEF HeapInvWith, Witness

\* The atomic phase: what it marks, the metatables of the userdata it sets
\* aside included, and that userdata are the new witness set.
LEMMA FinAtomicSafe ==
  ASSUME PendingInv, NEW X, HeapInvWith(X), Needs(X), FinAtomic, ~misjudged'
  PROVE  \E Y : HeapInvWith(Y)' /\ Needs(Y)'
<1> USE KindsAssumption
<1>0. TypeOK /\ ChainOK /\ KindsOK /\ MarkingOK
  BY DEF HeapInvWith
<1>a. PICK S \in SUBSET alloc : X \subseteq S /\ Witness(S)
  BY DEF HeapInvWith
<1>b. PICK N1 : N1 = NewMarks(Lists, marked)
  OBVIOUS
<1>c. PICK mmu : mmu = Separable(marked \cup N1)
  OBVIOUS
<1>d. PICK mts : mts = Meta(mmu) \ (marked \cup N1)
  OBVIOUS
<1>e. PICK N3 : N3 = NewMarks(mts, marked \cup N1 \cup mts)
  OBVIOUS
<1>f. PICK N : N = N1 \cup (mts \cup N3)
  OBVIOUS
<1>g. PICK fin : fin = finalized \cup mmu
  OBVIOUS
<1>h. /\ gcState = "Atomic" /\ AtomicFinish(N, mmu, fin)
      /\ finalized' = fin /\ \E q \in Orders(mmu) : mmudata' = mmudata \o q
  BY <1>b, <1>c, <1>d, <1>e, <1>f, <1>g DEF FinAtomic, Lists
<1>j. \A t \in WeakSeen(N), v \in Obj : v \in refs'[t] => ~Misjudged(v, marked')
  BY <1>b, <1>c, <1>d, <1>e, <1>f DEF FinAtomic, Lists
<1>i. \A o \in UData : Strong(o) = refs[o]
  BY DEF Strong
<1>1. \A o \in S : refs[o] \subseteq S /\ o \in Obj /\ Strong(o) \subseteq Obj
  BY <1>0, <1>a DEF Witness, Closed, TypeOK, Strong
<1>2. Lists \in SUBSET S /\ marked \subseteq S
  BY <1>a DEF Witness
<1>3. N1 \subseteq S /\ \A o \in Lists \cup N1 : Strong(o) \cap Obj \subseteq marked \cup N1
  BY <1>b, <1>1, <1>2, NewMarksWithin
<1>4. /\ mmu \subseteq (alloc \cap UData) \ finalized
      /\ \A u \in mmu : HasGcMeta(u)
      /\ \A u \in (alloc \cap UData) \ finalized :
            HasGcMeta(u) => u \in mmu \/ u \in marked \/ u \in N1
  BY <1>c DEF Separable
<1>5. \A x : x \in Meta(mmu) <=> \E u \in mmu : x \in refs[u]
  BY DEF Meta
<1>6. mts \in SUBSET S
  BY <1>4, <1>5, <1>d, <1>a DEF Needs
<1>7. N3 \subseteq S /\ \A o \in mts \cup N3 :
          Strong(o) \cap Obj \subseteq (marked \cup N1 \cup mts) \cup N3
  <2>1. PICK m : m = marked \cup N1 \cup mts
    OBVIOUS
  <2>2. N3 = NewMarks(mts, m)
    BY <1>e, <2>1
  <2>3. N3 \subseteq S /\ \A o \in mts \cup N3 : Strong(o) \cap Obj \subseteq m \cup N3
    BY <1>1, <1>6, <2>2, NewMarksWithin
  <2> QED
    BY <2>1, <2>3
<1>8. N \in SUBSET S
  BY <1>3, <1>6, <1>7, <1>f
<1>9. \A o \in Lists \cup N : Strong(o) \subseteq marked \cup N
  BY <1>1, <1>2, <1>3, <1>6, <1>7, <1>f
<1>10. \A u \in mmu : refs[u] \subseteq marked \cup N
  BY <1>5, <1>d, <1>f
<1>11. PICK Y : Y = marked' \cup mmu
  OBVIOUS
<1>12. HeapInvWith(Y)'
  <2>1. mmu \in SUBSET (alloc \cap UData) /\ Y \subseteq marked' \cup mmu
    BY <1>4, <1>11
  <2> QED
    BY <1>0, <1>a, <1>h, <1>j, <1>8, <1>9, <1>10, <2>1, AtomicFinishStep
<1>13. Pending' = mmu
  <2>1. IsFiniteSet(mmu)
    BY <1>4, FS_Subset DEF PendingInv
  <2>2. PICK q \in Orders(mmu) : mmudata' = mmudata \o q
    BY <1>h
  <2>3. q \in Seq(mmu) /\ {q[i] : i \in 1 .. Len(q)} = mmu
    BY <2>1, OrderDistinct
  <2>4. mmudata = <<>>
    BY <1>h DEF PendingInv, CycleKnows
  <2>5. mmudata' = q
    BY <2>2, <2>3, <2>4
  <2> QED
    BY <2>3, <2>5 DEF Pending
<1>14. alloc' = alloc /\ \A u \in UData : refs'[u] = refs[u]
  <2>1. WeakSeen(N) \subseteq Weak
    BY <1>0 DEF TypeOK, WeakSeen
  <2> QED
    BY <1>h, <2>1 DEF AtomicFinish, Obj
<1>15. marked \cup N \subseteq marked'
  BY <1>h DEF AtomicFinish
<1>16. ASSUME NEW u \in (alloc \cap UData) \ fin, HasGcMeta(u)
       PROVE  refs[u] \subseteq marked \cup N
  <2>1. u \in marked \/ u \in N1
    BY <1>4, <1>16, <1>g
  <2>2. CASE u \in N1
    BY <1>9, <1>f, <1>i, <2>2
  <2>3. CASE u \in marked
    <3>1. u \notin Lists
      BY <1>0 DEF TypeOK, Lists, Listed
    <3>2. Strong(u) \subseteq marked
      BY <1>0, <1>h, <2>3, <3>1 DEF MarkingOK, Marking
    <3> QED
      BY <1>i, <3>2
  <2> QED
    BY <2>1, <2>2, <2>3
<1>17. Needs(Y)'
  BY <1>11, <1>13, <1>14, <1>15, <1>16, <1>h DEF Needs, HasGcMeta
<1> QED
  BY <1>12, <1>17

\* Steps of the call stack and of the state machine.
LEMMA FinControlSafe ==
  ASSUME NEW X, HeapInvWith(X), Needs(X),
         \/ FinSweepEnd \/ GcCheck \/ Collect \/ Drained \/ FullGcReturns
         \/ FinalizerFails \/ ApiCollect \/ UNCHANGED allVars
  PROVE  HeapInvWith(X)' /\ Needs(X)'
<1>1. /\ UNCHANGED <<alloc, refs, marked, color, gcweak, cw, pool, swept, chain>>
      /\ gray' \subseteq gray /\ grayagain' \subseteq grayagain
      /\ full' \in {"no", "drain", "run"}
      /\ gcState' \in {"Pause", "Finalize"} \/ UNCHANGED <<gcState, gray, grayagain>>
      /\ UNCHANGED <<mmudata, finalized>>
  <2>1. full \in {"no", "drain", "run"}
    BY DEF HeapInvWith, TypeOK
  <2>2. CASE FinSweepEnd
    BY <2>1, <2>2 DEF FinSweepEnd, markVars, sweepVars, finVars
  <2>3. CASE GcCheck \/ Collect \/ FinalizerFails
    BY <2>1, <2>3 DEF GcCheck, Collect, FinalizerFails, vars
  <2>7. CASE ApiCollect
    BY <2>7 DEF ApiCollect, FullGcBegin, finVars, markVars, sweepVars
  <2>4. CASE Drained
    BY <2>1, <2>4 DEF Drained, markVars, sweepVars
  <2>5. CASE FullGcReturns
    BY <2>5 DEF FullGcReturns, sweepVars
  <2>6. CASE UNCHANGED allVars
    BY <2>1, <2>6 DEF allVars, vars, finVars
  <2> QED
    BY <2>2, <2>3, <2>4, <2>5, <2>6, <2>7
<1>2. HeapInvWith(X)'
  BY <1>1, ControlPreserves
<1> QED
  BY <1>1, <1>2, NeedsKept

\* GcFinalizers makes no upvalue cells either.
LEMMA FinNoCellsMade ==
  ASSUME alloc \cap Upval = {}, [FinNext]_allVars
  PROVE  alloc' \cap Upval = {}
<1>1. CASE \E u \in UData, mt \in SUBSET Table : NewUData(u, mt)
  <2>1. PICK u \in UData, mt \in SUBSET Table : NewUData(u, mt)
    BY <1>1
  <2>2. alloc' = alloc \cup (({u} \cup mt) \ alloc)
    BY <2>1 DEF NewUData
  <2> QED
    BY <2>2, KindsAssumption
<1>2. CASE LuaStep \/ CollectorPart
  <2>1. [Next]_vars
    BY <1>2 DEF LuaStep, CollectorPart, CollectorStep, Next
  <2> QED
    BY <2>1, NoCellsMade
<1>3. CASE UNCHANGED alloc
  BY <1>3
<1> QED
  BY <1>1, <1>2, <1>3 DEF FinNext, Finalization, GetMetatable, FinAtomic, AtomicFinish, FinSweepEnd,
     GcCheck, Collect, CallFinalizer, FinalizerReturns, FinalizerFails, ApiCollect, FullGcBegin,
     ApiFullGc, Drained, DrainedThenFullGc, BeginCycle, FullGcReturns, allVars, vars

\* No step of the program, the collector or the finalizers breaks the heap, up
\* to a lapse.
LEMMA FinHeapKeeps ==
  ASSUME FinHeapInv, [FinNext]_allVars, ~forced', ~misjudged'
  PROVE  FinHeapInv'
<1>0. PendingInv /\ PendingInv' /\ alloc' \cap Upval = {}
  BY FinNextKeeps, FinNoCellsMade DEF FinHeapInv
<1>a. PICK X : HeapInvWith(X) /\ Needs(X)
  BY DEF FinHeapInv
<1>1. \E Y : HeapInvWith(Y)' /\ Needs(Y)'
  <2>1. ASSUME NEW u \in UData, NEW mt \in SUBSET Table, NewUData(u, mt)
        PROVE  \E Y : HeapInvWith(Y)' /\ Needs(Y)'
    <3>1. PICK Y : Y = X \cup mt
      OBVIOUS
    <3> QED
      BY <1>0, <1>a, <2>1, <3>1, NewUDataSafe
  <2>2. CASE (\E u \in UData : GetMetatable(u)) \/ FinalizerReturns
    BY <1>a, <2>2, StackActionsSafe
  <2>3. CASE LuaStep
    <3>1. CellsOK'
      BY <1>0 DEF CellsOK
    <3> QED
      BY <1>a, <2>3, <3>1, LuaStepSafe
  <2>4. CASE CollectorPart
    BY <1>a, <2>4, CollectorPartSafe
  <2>5. CASE FinAtomic
    BY <1>0, <1>a, <2>5, FinAtomicSafe
  <2>6. CASE \/ FinSweepEnd \/ GcCheck \/ Collect \/ Drained \/ FullGcReturns
             \/ FinalizerFails \/ ApiCollect \/ UNCHANGED allVars
    BY <1>a, <2>6, FinControlSafe
  <2>7. CASE CallFinalizer
    BY <1>0, <1>a, <2>7, CallFinalizerSafe
  <2>8. CASE DrainedThenFullGc \/ ApiFullGc
    <3>1. BeginCycle /\ full' \in {"no", "drain", "run"} /\ UNCHANGED <<mmudata, finalized>>
      BY <2>8 DEF DrainedThenFullGc, ApiFullGc, finVars
    <3>2. UNCHANGED <<alloc, refs>>
      BY <3>1 DEF BeginCycle
    <3>3. HeapInvWith(X)'
      BY <1>a, <3>1, BeginCyclePreserves
    <3>4. Needs(X)'
      BY <1>a, <3>1, <3>2, NeedsKept
    <3> QED
      BY <3>3, <3>4
  <2> QED
    BY <2>1, <2>2, <2>3, <2>4, <2>5, <2>6, <2>7, <2>8 DEF FinNext, Finalization
<1>2. \A Y : HeapInvWith(Y)' => Y \in SUBSET alloc'
  BY DEF HeapInvWith
<1> QED
  BY <1>0, <1>1, <1>2 DEF FinHeapInv

---------------------------------------------------------------------------
(* The theorems *)

\* At the start the program holds no userdata.
LEMMA InitFinHeap ==
  ASSUME FinInit
  PROVE  FinHeapInv
<1>1. PendingInv
  BY InitPendingInv
<1>2. HeapInvWith({})
  BY InitHeapInv DEF FinInit
<1>3. Needs({})
  BY KindsAssumption DEF FinInit, Init, Needs, Pending
<1> QED
  BY <1>1, <1>2, <1>3, KindsAssumption DEF FinHeapInv, FinInit, Init

\* HeapInv and what finalizers need hold in every state that no lapse precedes.
THEOREM FinHeapInvariant == FinSpec => [](forced \/ misjudged \/ FinHeapInv)
<1> DEFINE Inv == /\ forced \in BOOLEAN /\ misjudged \in BOOLEAN
                  /\ forced \/ misjudged \/ FinHeapInv
<1>1. FinInit => Inv
  BY InitFinHeap DEF FinInit
<1>2. Inv /\ [FinNext]_allVars => Inv'
  <2> SUFFICES ASSUME Inv, [FinNext]_allVars PROVE Inv'
    OBVIOUS
  <2>1. /\ forced' \in BOOLEAN /\ (forced => forced')
        /\ misjudged' \in BOOLEAN /\ (misjudged => misjudged')
    BY LapsesStay
  <2>2. CASE forced' \/ misjudged'
    BY <2>1, <2>2
  <2>3. CASE ~forced' /\ ~misjudged'
    BY <2>1, <2>3, FinHeapKeeps
  <2> QED
    BY <2>1, <2>2, <2>3
<1>3. Inv => (forced \/ misjudged \/ FinHeapInv)
  OBVIOUS
<1> QED
  BY <1>1, <1>2, <1>3, PTL DEF FinSpec

\* Memory safety with finalizers and weak tables: neither resurrection, nor a
\* nested or failed run_finalizers, nor the Pause it forces on a running cycle
\* lets anything reachable be freed, unless clear_weak kept an entry that the
\* mark phase did not reach, or full_gc ignored what is pending.
THEOREM FinMemorySafety == FinSpec => []FinHeapSafe
<1>1. (forced \/ misjudged \/ FinHeapInv) => FinHeapSafe
  BY DEF FinHeapInv, HeapInvWith, Witness, NoDangling, FinHeapSafe
<1> QED
  BY <1>1, FinHeapInvariant, PTL

\* The metatable, and with it __gc, of a pending userdata outlives the sweep
\* that follows separate_finalizable.
THEOREM PendingStaysWhole == FinSpec => []PendingAllocated
<1>1. (forced \/ misjudged \/ FinHeapInv) => PendingAllocated
  <2> SUFFICES ASSUME FinHeapInv PROVE PendingAllocated
    BY DEF PendingAllocated
  <2>1. PICK X : HeapInvWith(X) /\ Needs(X)
    BY DEF FinHeapInv
  <2>2. PICK S \in SUBSET alloc : X \subseteq S /\ Witness(S)
    BY <2>1 DEF HeapInvWith
  <2> QED
    BY <2>1, <2>2 DEF Needs, Witness, Closed, PendingAllocated
<1> QED
  BY <1>1, FinHeapInvariant, PTL

\* The marker's lists, the weak list included, never lead to freed memory
\* either, although Drained and full_gc abandon cycles half way.
THEOREM FinWorklistSafety == FinSpec => [](forced \/ misjudged \/ WorklistsAllocated)
<1>1. (forced \/ misjudged \/ FinHeapInv) => (forced \/ misjudged \/ WorklistsAllocated)
  <2> SUFFICES ASSUME FinHeapInv PROVE WorklistsAllocated
    OBVIOUS
  <2>1. PICK X : HeapInvWith(X)
    BY DEF FinHeapInv
  <2>2. PICK S \in SUBSET alloc : Witness(S)
    BY <2>1 DEF HeapInvWith
  <2> QED
    BY <2>2 DEF Witness, Closed, Lists, WorklistsAllocated
<1> QED
  BY <1>1, FinHeapInvariant, PTL
=============================================================================
